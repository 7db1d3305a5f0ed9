------------------------------ MODULE JobList -------------------------------
(***************************************************************************)
(* cs351/mps/03/tsh.c: the job list of the shell and the job IDs it gives  *)
(* out.  eval, the builtins and the signal handlers are not written in     *)
(* tsh.c; what calls the list is any sequence of the calls its comments    *)
(* describe: addjob for a child that has been forked, deletejob for one    *)
(* that has been reaped, and the state changes of fg, bg and ctrl-z.       *)
(***************************************************************************)
EXTENDS Integers, FiniteSets, FiniteSetsExt

CONSTANTS MAXJOBS,    \* slots of the list: 16 in the code
          Pids,       \* process IDs the kernel gives to children
          JidBound    \* bound on nextjid, so that the states are finite

ASSUME JobListConstants ==
    /\ MAXJOBS \in Nat \ {0}
    /\ 0 \notin Pids
    /\ JidBound \in Nat /\ JidBound > MAXJOBS

VARIABLES jobs,       \* the array of job_t, without the command lines
          nextjid,
          children,   \* history: children added with success, not yet reaped
          wrapped     \* history: nextjid went back to 1 with jobs on the list

vars == <<jobs, nextjid, children, wrapped>>

Slot == 0 .. MAXJOBS - 1
UNDEF == "UNDEF"
clearjob == [pid |-> 0, jid |-> 0, state |-> UNDEF]

-----------------------------------------------------------------------------
(* Lookups: all of them answer with the first slot that fits *)

First(P(_)) == Min({s \in Slot : P(s)})
maxjid(js) == Max({js[s].jid : s \in Slot} \cup {0})
getjobpid(pid) == First(LAMBDA s : jobs[s].pid = pid)
getjobjid(jid) == First(LAMBDA s : jobs[s].jid = jid)
pid2jid(pid) == jobs[getjobpid(pid)].jid
fgpid == IF \E s \in Slot : jobs[s].state = "FG"
         THEN jobs[First(LAMBDA s : jobs[s].state = "FG")].pid ELSE 0

-----------------------------------------------------------------------------

Init ==
    /\ jobs = [s \in Slot |-> clearjob]        \* initjobs
    /\ nextjid = 1
    /\ children = {}
    /\ wrapped = FALSE

Bug_addjob_slot0(pid, state) ==
    /\ pid \notin children
    /\ state = "FG" => fgpid = 0
    /\ nextjid < JidBound
    /\ \E t \in Slot : jobs[t].pid = 0
    /\ jobs' = [jobs EXCEPT ![0] = [pid |-> pid, jid |-> nextjid, state |-> state]]
    /\ nextjid' = IF nextjid + 1 > MAXJOBS THEN 1 ELSE nextjid + 1
    /\ children' = children \cup {pid}
    /\ wrapped' = (wrapped \/ nextjid + 1 > MAXJOBS)

\* addjob of a child that has just been forked: its pid is nobody else's.  At
\* most one job is in the foreground, so another is added only without one.
addjob(pid, state) ==
    LET s == First(LAMBDA t : jobs[t].pid = 0)
    IN  /\ pid \notin children
        /\ state = "FG" => fgpid = 0
        /\ nextjid < JidBound
        /\ \E t \in Slot : jobs[t].pid = 0
        /\ jobs' = [jobs EXCEPT ![s] = [pid |-> pid, jid |-> nextjid, state |-> state]]
        /\ nextjid' = IF nextjid + 1 > MAXJOBS THEN 1 ELSE nextjid + 1
        /\ children' = children \cup {pid}
        /\ wrapped' = (wrapped \/ nextjid + 1 > MAXJOBS)

\* "Tried to create too many jobs"
addjob_full(pid) ==
    /\ pid \notin children
    /\ \A s \in Slot : jobs[s].pid # 0
    /\ UNCHANGED vars

Bug_deletejob_pid_only(pid) ==
    /\ \E s \in Slot : jobs[s].pid = pid
    /\ jobs' = [jobs EXCEPT ![getjobpid(pid)].pid = 0]
    /\ nextjid' = maxjid(jobs') + 1
    /\ children' = children \ {pid}
    /\ wrapped' = (wrapped /\ children' # {})

Bug_deletejob_count(pid) ==
    /\ \E s \in Slot : jobs[s].pid = pid
    /\ jobs' = [jobs EXCEPT ![getjobpid(pid)] = clearjob]
    /\ nextjid' = Cardinality(children)
    /\ children' = children \ {pid}
    /\ wrapped' = (wrapped /\ children' # {})

deletejob(pid) ==
    /\ \E s \in Slot : jobs[s].pid = pid
    /\ jobs' = [jobs EXCEPT ![getjobpid(pid)] = clearjob]
    /\ nextjid' = maxjid(jobs') + 1
    /\ children' = children \ {pid}
    /\ wrapped' = (wrapped /\ children' # {})

\* ctrl-z, and the builtins bg and fg, which name a job by its jid.
SetState(s, state) ==
    /\ jobs' = [jobs EXCEPT ![s].state = state]
    /\ UNCHANGED <<nextjid, children, wrapped>>
Stop == fgpid # 0 /\ SetState(getjobpid(fgpid), "ST")
do_bgfg(jid, state) ==
    /\ \E s \in Slot : jobs[s].jid = jid
    /\ \/ jobs[getjobjid(jid)].state = "ST"
       \/ jobs[getjobjid(jid)].state = "BG" /\ state = "FG"
    /\ state = "FG" => fgpid = 0
    /\ SetState(getjobjid(jid), state)

Next ==
    \/ Stop
    \/ \E pid \in Pids :
        \/ \E state \in {"FG", "BG"} : addjob(pid, state)
        \/ addjob_full(pid) \/ deletejob(pid)
    \/ \E jid \in 1 .. JidBound, state \in {"FG", "BG"} : do_bgfg(jid, state)

Spec == Init /\ [][Next]_vars

-----------------------------------------------------------------------------
(* Properties *)

\* Types of job_t and nextjid.
TypeOK ==
    /\ jobs \in [Slot -> [pid : Pids \cup {0}, jid : 0 .. JidBound,
                          state : {UNDEF, "FG", "BG", "ST"}]]
    /\ nextjid \in 1 .. JidBound
    /\ children \subseteq Pids /\ wrapped \in BOOLEAN

\* The list holds the children that were added and not reaped, each in one
\* slot, and every other slot is clear: pid, jid and state agree on it.
ListIsChildren ==
    /\ TypeOK
    /\ {jobs[s].pid : s \in Slot} \ {0} = children
    /\ Cardinality({s \in Slot : jobs[s].pid # 0}) = Cardinality(children)
    /\ \A s \in Slot : jobs[s].pid = 0 => jobs[s] = clearjob
    /\ \A s \in Slot : jobs[s].pid # 0 => jobs[s].jid # 0 /\ jobs[s].state # UNDEF

\* Jobs have different IDs, all below nextjid, as long as nextjid has not come
\* round to 1 since the list was last empty.
JidsDistinctUntilWrap ==
    ~wrapped => \A s \in Slot : jobs[s].pid # 0 =>
        /\ jobs[s].jid < nextjid
        /\ \A t \in Slot : jobs[t].jid = jobs[s].jid => t = s

\* The list is right and so are the IDs in it.
ListAndIds == ListIsChildren /\ JidsDistinctUntilWrap

\* Deleting one job leaves the slots of all the others as they are.
OthersKeepTheirSlot ==
    [][\A s \in Slot : jobs[s].pid # 0 /\ jobs[s].pid \in children'
         => jobs'[s].pid = jobs[s].pid /\ jobs'[s].jid = jobs[s].jid]_vars

\* "nextjid: next job ID to allocate": it is not the ID of a job on the list
\* when there is room for another.
NextJidIsFree ==
    (\E s \in Slot : jobs[s].pid = 0) => \A s \in Slot : jobs[s].jid # nextjid

=============================================================================
