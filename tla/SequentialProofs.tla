-------------------------- MODULE SequentialProofs ---------------------------
(* Eight programs that run by themselves: the job list of tsh.c, for every   *)
(* number of slots, every set of process IDs and every sequence of the calls; *)
(* the sampler of fcyc.c, for every kbest, number of samples and sequence of  *)
(* measurements; the table of hashtable.c, for every set of keys, every hash, *)
(* every table size and every sequence of directives; the tests of the cache  *)
(* lab, for every list of functions and every size of the matrices; the cycle *)
(* counter of clock.c; the score that mdriver.c makes of its traces; what     *)
(* tsh.c makes of what is typed, and lex.cpp of a line, for every input.      *)
EXTENDS JobList, Fcyc, HashTable, CacheLab, CycleCounter, DriverScore,
        ParseLine, EvlLex,
        WellFoundedInduction, FiniteSetTheorems, FunctionTheorems, SequenceTheorems, TLAPS

-----------------------------------------------------------------------------
(* The job list of tsh.c                                                      *)

\* What a scan of the slots returns: the smallest that fits, if there is one.
LEMMA LeastExists ==
    ASSUME NEW S \in SUBSET Nat, S # {}
    PROVE  /\ Min(S) \in S
           /\ \A x \in S : Min(S) <= x
<1>1. PICK m \in S : \A y \in S : <<y, m>> \notin OpToRel(<, Nat)
  BY NatLessThanWellFounded, WFMin
<1>2. ASSUME NEW y \in S, y < m
      PROVE  FALSE
  <2>1. <<y, m>> \in OpToRel(<, Nat)
    BY <1>2 DEF OpToRel
  <2> QED
    BY <1>1, <2>1
<1>3. \A y \in S : m <= y
  BY <1>2, SMT
<1> QED
  BY <1>3 DEF Min

\* What maxjid returns: a number below a bound of all of them, none larger.
LEMMA GreatestExists ==
    ASSUME NEW n \in Nat, NEW S \in SUBSET (0 .. n), S # {}
    PROVE  /\ Max(S) \in S
           /\ \A x \in S : Max(S) >= x
<1> DEFINE T == {n - x : x \in S}
<1>1. T \in SUBSET Nat /\ T # {}
  <2>1. \A x \in S : n - x \in Nat
    BY SMT
  <2> QED
    BY <2>1
<1>2. Min(T) \in T /\ \A y \in T : Min(T) <= y
  BY <1>1, LeastExists
<1>3. PICK m \in S : Min(T) = n - m
  BY <1>2
<1>4. \A x \in S : n - m <= n - x
  BY <1>2, <1>3
<1>5. \A x \in S : m >= x
  BY <1>4, SMT
<1> QED
  BY <1>5 DEF Max

\* A job is in one slot, whole, and has an ID below the bound of the model; the
\* jobs are the children, and their IDs differ until nextjid wraps.
JobsInv ==
    /\ TypeOK
    /\ \A s \in Slot : jobs[s].jid < JidBound
    /\ \A pid \in Pids : pid \in children <=> \E s \in Slot : jobs[s].pid = pid
    /\ \A s, t \in Slot : jobs[s].pid = jobs[t].pid /\ jobs[s].pid # 0 => s = t
    /\ \A s \in Slot : jobs[s].pid = 0 => jobs[s] = clearjob
    /\ \A s \in Slot : jobs[s].pid # 0 => jobs[s].jid # 0 /\ jobs[s].state # UNDEF
    /\ JidsDistinctUntilWrap

\* The list after initjobs.
LEMMA JobsInit == Init => JobsInv
<1> SUFFICES ASSUME Init PROVE JobsInv
  OBVIOUS
<1>1. \A s \in Slot : jobs[s] = clearjob
  BY DEF Init
<1>2. Slot # {}
  BY JobListConstants, SMT DEF JobListConstants, Slot
<1>3. TypeOK
  <2>1. clearjob \in [pid : Pids \cup {0}, jid : 0 .. JidBound, state : {UNDEF, "FG", "BG", "ST"}]
    BY JobListConstants, SMT DEF JobListConstants, clearjob
  <2>2. nextjid \in 1 .. JidBound
    BY JobListConstants, SMT DEF JobListConstants, Init
  <2> QED
    BY <2>1, <2>2 DEF Init, TypeOK
<1> QED
  BY <1>1, <1>2, <1>3, JobListConstants, SMT
     DEF JobListConstants, Init, JobsInv, clearjob, UNDEF, JidsDistinctUntilWrap

\* The search for a clear slot, for a child and for a job ID.
LEMMA Found ==
    /\ (\E s \in Slot : jobs[s].pid = 0) =>
         LET s == First(LAMBDA t : jobs[t].pid = 0) IN s \in Slot /\ jobs[s].pid = 0
    /\ \A pid : (\E s \in Slot : jobs[s].pid = pid) =>
         getjobpid(pid) \in Slot /\ jobs[getjobpid(pid)].pid = pid
    /\ \A jid : (\E s \in Slot : jobs[s].jid = jid) =>
         getjobjid(jid) \in Slot /\ jobs[getjobjid(jid)].jid = jid
    /\ fgpid # 0 => \E s \in Slot : jobs[s].pid = fgpid
<1>1. ASSUME NEW S \in SUBSET Slot, S # {}
      PROVE  Min(S) \in S
  <2>1. S \in SUBSET Nat
    BY JobListConstants, SMT DEF JobListConstants, Slot
  <2> QED
    BY <1>1, <2>1, LeastExists
<1>2. (\E s \in Slot : jobs[s].pid = 0) =>
         LET s == First(LAMBDA t : jobs[t].pid = 0) IN s \in Slot /\ jobs[s].pid = 0
  BY <1>1 DEF First
<1>3. ASSUME NEW pid, \E s \in Slot : jobs[s].pid = pid
      PROVE  getjobpid(pid) \in Slot /\ jobs[getjobpid(pid)].pid = pid
  BY <1>1, <1>3 DEF First, getjobpid
<1>4. ASSUME NEW jid, \E s \in Slot : jobs[s].jid = jid
      PROVE  getjobjid(jid) \in Slot /\ jobs[getjobjid(jid)].jid = jid
  BY <1>1, <1>4 DEF First, getjobjid
<1>5. fgpid # 0 => \E s \in Slot : jobs[s].pid = fgpid
  <2>1. CASE \E s \in Slot : jobs[s].state = "FG"
    BY <1>1, <2>1 DEF First, fgpid
  <2> QED
    BY <2>1 DEF fgpid
<1> QED
  BY <1>2, <1>3, <1>4, <1>5

\* The type of a job_t.
Job == [pid : Pids \cup {0}, jid : 0 .. JidBound, state : {UNDEF, "FG", "BG", "ST"}]

\* The types that the invariant gives.
LEMMA Facts ==
    ASSUME JobsInv
    PROVE  /\ MAXJOBS \in Nat \ {0} /\ JidBound \in Nat /\ JidBound > MAXJOBS /\ 0 \notin Pids
           /\ jobs \in [Slot -> Job] /\ nextjid \in 1 .. JidBound
           /\ children \subseteq Pids /\ wrapped \in BOOLEAN
           /\ clearjob \in Job /\ clearjob.pid = 0 /\ clearjob.jid = 0 /\ clearjob.state = UNDEF
           /\ UNDEF \notin {"FG", "BG", "ST"}
BY JobListConstants, SMT DEF JobListConstants, JobsInv, TypeOK, Job, clearjob, UNDEF

\* addjob writes the first clear slot.
LEMMA AddjobKeeps ==
    ASSUME JobsInv, NEW pid \in Pids, NEW state \in {"FG", "BG"}, addjob(pid, state)
    PROVE  JobsInv'
<1> DEFINE s == First(LAMBDA t : jobs[t].pid = 0)
<1>1. s \in Slot /\ jobs[s].pid = 0
  BY Found DEF addjob
<1> HIDE DEF s
<1>2. /\ pid \notin children /\ nextjid < JidBound
      /\ jobs' = [jobs EXCEPT ![s] = [pid |-> pid, jid |-> nextjid, state |-> state]]
      /\ nextjid' = IF nextjid + 1 > MAXJOBS THEN 1 ELSE nextjid + 1
      /\ children' = children \cup {pid}
      /\ wrapped' = (wrapped \/ nextjid + 1 > MAXJOBS)
  BY DEF addjob, s
<1> DEFINE new == [pid |-> pid, jid |-> nextjid, state |-> state]
<1>3. new \in Job /\ new.pid = pid /\ new.jid = nextjid /\ new.state = state
  BY Facts, SMT DEF Job
<1> HIDE DEF new
<1>4. /\ jobs' \in [Slot -> Job] /\ jobs'[s] = new
      /\ \A t \in Slot : t # s => jobs'[t] = jobs[t]
  BY <1>1, <1>2, <1>3, Facts DEF new
<1>5. TypeOK'
  <2>1. nextjid' \in 1 .. JidBound /\ wrapped' \in BOOLEAN
    BY <1>2, Facts, SMT
  <2> QED
    BY <1>2, <1>4, <2>1, Facts DEF TypeOK, Job
<1>6. \A t \in Slot : jobs'[t].jid < JidBound
  BY <1>2, <1>3, <1>4 DEF JobsInv
<1>7. \A p \in Pids : p \in children' <=> \E t \in Slot : jobs'[t].pid = p
  BY <1>1, <1>2, <1>3, <1>4, Facts DEF JobsInv
<1>8. \A t \in Slot : jobs[t].pid # pid
  BY <1>2 DEF JobsInv
<1>9. \A t, u \in Slot : jobs'[t].pid = jobs'[u].pid /\ jobs'[t].pid # 0 => t = u
  BY <1>3, <1>4, <1>8 DEF JobsInv
<1>10. \A t \in Slot : jobs'[t].pid = 0 => jobs'[t] = clearjob
  BY <1>3, <1>4, Facts DEF JobsInv
<1>11. \A t \in Slot : jobs'[t].pid # 0 => jobs'[t].jid # 0 /\ jobs'[t].state # UNDEF
  <2>1. nextjid # 0 /\ state # UNDEF
    BY Facts, SMT
  <2> QED
    BY <1>3, <1>4, <2>1 DEF JobsInv
<1>12. JidsDistinctUntilWrap'
  <2> SUFFICES ASSUME ~wrapped', NEW t \in Slot, jobs'[t].pid # 0
               PROVE  /\ jobs'[t].jid < nextjid'
                      /\ \A u \in Slot : jobs'[u].jid = jobs'[t].jid => u = t
    BY DEF JidsDistinctUntilWrap
  <2>1. ~wrapped /\ nextjid' = nextjid + 1
    <3>1. ~wrapped /\ ~(nextjid + 1 > MAXJOBS)
      BY <1>2
    <3> QED
      BY <1>2, <3>1
  <2>2. \A u \in Slot : jobs[u].pid # 0 =>
          jobs[u].jid < nextjid /\ \A v \in Slot : jobs[v].jid = jobs[u].jid => v = u
    BY <2>1 DEF JobsInv, JidsDistinctUntilWrap
  <2>3. \A u \in Slot : jobs[u].jid # nextjid
    <3>1. \A u \in Slot : jobs[u].pid = 0 => jobs[u].jid = 0
      BY Facts DEF JobsInv
    <3>2. \A u \in Slot : jobs[u].jid \in 0 .. JidBound
      BY Facts DEF Job
    <3> QED
      BY <2>2, <3>1, <3>2, Facts, SMT
  <2>4. CASE t = s
    BY <1>3, <1>4, <2>1, <2>3, <2>4, Facts, SMT
  <2>5. CASE t # s
    <3>1. jobs[t].jid < nextjid /\ jobs'[t] = jobs[t] /\ jobs[t].jid \in 0 .. JidBound
      BY <1>4, <2>2, <2>5, Facts DEF Job
    <3>2. jobs'[t].jid < nextjid' /\ jobs'[t].jid # nextjid
      BY <2>1, <3>1, Facts, SMT
    <3> QED
      BY <1>3, <1>4, <2>2, <2>5, <3>1, <3>2
  <2> QED
    BY <2>4, <2>5
<1> QED
  BY <1>5, <1>6, <1>7, <1>9, <1>10, <1>11, <1>12 DEF JobsInv, Slot


\* deletejob clears the slot of the child and sets nextjid above all the others.
LEMMA DeletejobKeeps ==
    ASSUME JobsInv, NEW pid \in Pids, deletejob(pid)
    PROVE  JobsInv'
<1> DEFINE s == getjobpid(pid)
<1>1. s \in Slot /\ jobs[s].pid = pid
  BY Found DEF deletejob
<1>2. /\ jobs' = [jobs EXCEPT ![s] = clearjob]
      /\ nextjid' = maxjid(jobs') + 1
      /\ children' = children \ {pid}
      /\ wrapped' = (wrapped /\ children' # {})
  BY DEF deletejob
<1> HIDE DEF s
<1>3. /\ jobs' \in [Slot -> Job] /\ jobs'[s] = clearjob
      /\ \A t \in Slot : t # s => jobs'[t] = jobs[t]
  BY <1>1, <1>2, Facts
<1>4. \A t \in Slot : jobs'[t].jid \in 0 .. JidBound /\ jobs'[t].jid < JidBound
  BY <1>3, Facts, SMT DEF JobsInv, Job
<1>5. /\ nextjid' \in 1 .. JidBound
      /\ \A t \in Slot : jobs'[t].jid < nextjid'
  <2> DEFINE S == {jobs'[t].jid : t \in Slot} \cup {0}
  <2>1. /\ \A x \in S : x \in 0 .. JidBound /\ x < JidBound
        /\ S \in SUBSET (0 .. JidBound) /\ S # {}
    BY <1>4, Facts, SMT
  <2>2. Max(S) \in S /\ \A x \in S : Max(S) >= x
    BY <2>1, GreatestExists, Facts
  <2>3. nextjid' = Max(S) + 1
    BY <1>2 DEF maxjid
  <2> HIDE DEF S
  <2>4. Max(S) \in 0 .. JidBound /\ Max(S) < JidBound
    BY <2>1, <2>2
  <2>5. \A x \in S : x < nextjid'
    <3> SUFFICES ASSUME NEW x \in S PROVE x < nextjid'
      OBVIOUS
    <3>1. x \in 0 .. JidBound /\ Max(S) >= x
      BY <2>1, <2>2
    <3> QED
      BY <2>3, <2>4, <3>1, Facts, SMT
  <2>6. \A t \in Slot : jobs'[t].jid \in S
    BY DEF S
  <2> QED
    BY <2>3, <2>4, <2>5, <2>6, Facts, SMT
<1>6. TypeOK'
  BY <1>2, <1>3, <1>5, Facts DEF TypeOK, Job
<1>7. \A p \in Pids : p \in children' <=> \E t \in Slot : jobs'[t].pid = p
  BY <1>1, <1>2, <1>3, Facts DEF JobsInv
<1>8. \A t, u \in Slot : jobs'[t].pid = jobs'[u].pid /\ jobs'[t].pid # 0 => t = u
  BY <1>3, Facts DEF JobsInv
<1>9. /\ \A t \in Slot : jobs'[t].pid = 0 => jobs'[t] = clearjob
      /\ \A t \in Slot : jobs'[t].pid # 0 => jobs'[t].jid # 0 /\ jobs'[t].state # UNDEF
  BY <1>3, Facts DEF JobsInv
<1>10. JidsDistinctUntilWrap'
  <2> SUFFICES ASSUME ~wrapped', NEW t \in Slot, jobs'[t].pid # 0
               PROVE  /\ jobs'[t].jid < nextjid'
                      /\ \A u \in Slot : jobs'[u].jid = jobs'[t].jid => u = t
    BY DEF JidsDistinctUntilWrap
  <2>1. children' # {}
    BY <1>3, <1>7, Facts DEF Job
  <2>2. ~wrapped
    BY <1>2, <2>1
  <2>3. t # s /\ jobs[t].pid # 0
    BY <1>3, Facts
  <2>4. /\ \A u \in Slot : jobs[u].jid = jobs[t].jid => u = t
        /\ jobs[t].jid # 0
    BY <2>2, <2>3 DEF JobsInv, JidsDistinctUntilWrap
  <2> QED
    BY <1>3, <1>5, <2>3, <2>4, Facts
<1> QED
  BY <1>4, <1>6, <1>7, <1>8, <1>9, <1>10 DEF JobsInv, Slot

\* fg, bg and ctrl-z change the state of a job that is on the list.
LEMMA SetStateKeeps ==
    ASSUME JobsInv, NEW s \in Slot, jobs[s].pid # 0, NEW state \in {"FG", "BG", "ST"},
           SetState(s, state)
    PROVE  JobsInv'
<1>1. /\ jobs' = [jobs EXCEPT ![s].state = state]
      /\ nextjid' = nextjid /\ children' = children /\ wrapped' = wrapped
  BY DEF SetState
<1>2. /\ jobs' \in [Slot -> Job]
      /\ \A t \in Slot : jobs'[t].pid = jobs[t].pid /\ jobs'[t].jid = jobs[t].jid
      /\ \A t \in Slot : t # s => jobs'[t] = jobs[t]
      /\ jobs'[s].state = state
  BY <1>1, Facts DEF Job
<1>3. TypeOK'
  BY <1>1, <1>2, Facts DEF TypeOK, Job
<1>4. JidsDistinctUntilWrap'
  BY <1>1, <1>2 DEF JobsInv, JidsDistinctUntilWrap
<1>5. /\ \A t \in Slot : jobs'[t].pid = 0 => jobs'[t] = clearjob
      /\ \A t \in Slot : jobs'[t].pid # 0 => jobs'[t].jid # 0 /\ jobs'[t].state # UNDEF
  BY <1>2, Facts DEF JobsInv
<1> QED
  BY <1>1, <1>2, <1>3, <1>4, <1>5 DEF JobsInv, Slot

\* ctrl-z finds a job, and fg and bg find one that is on the list: a clear slot
\* has job ID 0, which is no argument.
LEMMA StopIsSetState ==
    ASSUME JobsInv, Stop
    PROVE  \E s \in Slot : jobs[s].pid # 0 /\ SetState(s, "ST")
BY Found DEF Stop

\* fg and bg of a job ID.
LEMMA BgfgIsSetState ==
    ASSUME JobsInv, NEW jid \in 1 .. JidBound, NEW state \in {"FG", "BG"}, do_bgfg(jid, state)
    PROVE  \E s \in Slot : jobs[s].pid # 0 /\ SetState(s, state)
<1>1. getjobjid(jid) \in Slot /\ jobs[getjobjid(jid)].jid = jid /\ SetState(getjobjid(jid), state)
  BY Found DEF do_bgfg
<1>2. jid # 0
  BY SMT
<1> QED
  BY <1>1, <1>2, Facts DEF JobsInv

\* Every call keeps the invariant.
LEMMA JobsNext == JobsInv /\ [Next]_vars => JobsInv'
<1> SUFFICES ASSUME JobsInv, [Next]_vars PROVE JobsInv'
  OBVIOUS
<1>1. ASSUME NEW pid \in Pids, NEW state \in {"FG", "BG"}, addjob(pid, state)
      PROVE  JobsInv'
  BY <1>1, AddjobKeeps
<1>2. ASSUME NEW pid \in Pids, deletejob(pid)
      PROVE  JobsInv'
  BY <1>2, DeletejobKeeps
<1>3. CASE Stop
  BY <1>3, StopIsSetState, SetStateKeeps
<1>4. ASSUME NEW jid \in 1 .. JidBound, NEW state \in {"FG", "BG"}, do_bgfg(jid, state)
      PROVE  JobsInv'
  BY <1>4, BgfgIsSetState, SetStateKeeps
<1>5. CASE UNCHANGED vars
  BY <1>5 DEF vars, JobsInv, TypeOK, JidsDistinctUntilWrap, Slot, clearjob
<1>6. ASSUME NEW pid \in Pids, addjob_full(pid)
      PROVE  JobsInv'
  BY <1>5, <1>6 DEF addjob_full
<1> QED
  BY <1>1, <1>2, <1>3, <1>4, <1>5, <1>6 DEF Next

\* There are as many jobs on the list as there are children.
LEMMA SameNumber ==
    ASSUME JobsInv
    PROVE  Cardinality({s \in Slot : jobs[s].pid # 0}) = Cardinality(children)
<1> DEFINE U == {s \in Slot : jobs[s].pid # 0}
           f == [s \in U |-> jobs[s].pid]
<1>1. f \in Bijection(U, children)
  <2>1. \A s \in U : f[s] \in children
    BY Facts DEF JobsInv, Job
  <2>2. \A s, t \in U : f[s] = f[t] => s = t
    BY DEF JobsInv
  <2>3. \A c \in children : \E s \in U : f[s] = c
    BY Facts DEF JobsInv
  <2> QED
    BY <2>1, <2>2, <2>3, Fun_IsBij
<1>2. IsFiniteSet(U)
  <2>1. IsFiniteSet(Slot)
    BY Facts, FS_Interval DEF Slot
  <2> QED
    BY <2>1, FS_Subset
<1> QED
  BY <1>1, <1>2, FS_Bijection DEF ExistsBijection

\* The invariant has the properties that are checked.
LEMMA InvImplies == JobsInv => ListAndIds
<1> SUFFICES ASSUME JobsInv PROVE ListAndIds
  OBVIOUS
<1>1. {jobs[s].pid : s \in Slot} \ {0} = children
  BY Facts DEF JobsInv, Job
<1> QED
  BY <1>1, SameNumber DEF JobsInv, ListAndIds, ListIsChildren

\* The list is the children that were added and not yet reaped, each in one
\* whole slot, and their IDs differ until nextjid has come round to 1.
THEOREM ListInvariant == Spec => []ListAndIds
BY JobsInit, JobsNext, InvImplies, PTL DEF Spec

\* deletejob of one child, addjob of another and the changes of state leave the
\* slot of every other job as it is.
LEMMA StepKeepsOthers ==
    ASSUME JobsInv, Next
    PROVE  \A s \in Slot : jobs[s].pid # 0 /\ jobs[s].pid \in children'
             => jobs'[s].pid = jobs[s].pid /\ jobs'[s].jid = jobs[s].jid
<1> DEFINE Kept == \A s \in Slot : jobs[s].pid # 0 /\ jobs[s].pid \in children'
                     => jobs'[s].pid = jobs[s].pid /\ jobs'[s].jid = jobs[s].jid
<1>1. ASSUME NEW pid \in Pids, NEW state \in {"FG", "BG"}, addjob(pid, state)
      PROVE  Kept
  <2> DEFINE n == First(LAMBDA t : jobs[t].pid = 0)
  <2>1. n \in Slot /\ jobs[n].pid = 0
    BY <1>1, Found DEF addjob
  <2>2. jobs' = [jobs EXCEPT ![n] = [pid |-> pid, jid |-> nextjid, state |-> state]]
    BY <1>1 DEF addjob
  <2> HIDE DEF n
  <2> QED
    BY <2>1, <2>2, Facts
<1>2. ASSUME NEW pid \in Pids, deletejob(pid)
      PROVE  Kept
  <2>1. getjobpid(pid) \in Slot /\ jobs[getjobpid(pid)].pid = pid
    BY <1>2, Found DEF deletejob
  <2>2. jobs' = [jobs EXCEPT ![getjobpid(pid)] = clearjob] /\ children' = children \ {pid}
    BY <1>2 DEF deletejob
  <2> QED
    BY <2>1, <2>2, Facts
<1>3. ASSUME NEW s \in Slot, NEW state \in {"FG", "BG", "ST"}, SetState(s, state)
      PROVE  Kept
  BY <1>3, Facts DEF SetState, Job
<1>4. CASE Stop
  BY <1>3, <1>4, StopIsSetState
<1>5. ASSUME NEW jid \in 1 .. JidBound, NEW state \in {"FG", "BG"}, do_bgfg(jid, state)
      PROVE  Kept
  BY <1>3, <1>5, BgfgIsSetState
<1>6. ASSUME NEW pid \in Pids, addjob_full(pid)
      PROVE  Kept
  BY <1>6 DEF addjob_full, vars
<1> QED
  BY <1>1, <1>2, <1>4, <1>5, <1>6 DEF Next

\* A job that is on the list before and after a call is in the same slot with
\* the same ID.
THEOREM SlotsKept == Spec => OthersKeepTheirSlot
<1>1. JobsInv /\ [Next]_vars
        => [\A s \in Slot : jobs[s].pid # 0 /\ jobs[s].pid \in children'
              => jobs'[s].pid = jobs[s].pid /\ jobs'[s].jid = jobs[s].jid]_vars
  BY StepKeepsOthers
<1> QED
  BY JobsInit, JobsNext, <1>1, PTL DEF Spec, OthersKeepTheirSlot

\* What the comment at nextjid says holds until it wraps (it does not after).
THEOREM NextJidFreeUntilWrap == Spec => [](~wrapped => NextJidIsFree)
<1>1. JobsInv => (~wrapped => NextJidIsFree)
  <2> SUFFICES ASSUME JobsInv, ~wrapped, NEW s \in Slot PROVE jobs[s].jid # nextjid
    BY DEF NextJidIsFree
  <2>1. CASE jobs[s].pid = 0
    <3>1. jobs[s].jid = 0
      BY <2>1, Facts DEF JobsInv
    <3> QED
      BY <3>1, Facts, SMT
  <2>2. CASE jobs[s].pid # 0
    <3>1. jobs[s].jid < nextjid
      BY <2>2 DEF JobsInv, JidsDistinctUntilWrap
    <3> QED
      BY <3>1, Facts, SMT
  <2> QED
    BY <2>1, <2>2
<1> QED
  BY JobsInit, JobsNext, <1>1, PTL DEF Spec

-----------------------------------------------------------------------------
(* The sampler of fcyc.c: it keeps the smallest samples.                      *)

\* What the states of a call are.
SamplerType ==
    /\ kbest \in Nat \ {0}
    /\ cache_buf \in {0, cache_bytes}
    /\ samplecount \in Nat
    /\ taken \in Seq(Int)
    /\ pc \in {"sample", "return"} =>
         values \in [0 .. kbest - 1 -> Int] /\ samplecount = Len(taken)
    /\ pc = "return" => samplecount > 0

\* The sampler is right in every turn of its loop, and so is what it returned.
FcycInv == SamplerType /\ BestSamples /\ ReturnsSmallest

\* A place for a sample exists: the smallest from which all values are larger.
LEMMA PlaceExists ==
    ASSUME SamplerType, pc = "sample", NEW pos \in 0 .. kbest - 1, NEW val \in Int
    PROVE  /\ Place(pos, val) \in 0 .. pos
           /\ Place(pos, val) > 0 => values[Place(pos, val) - 1] <= val
           /\ \A q \in Place(pos, val) .. pos - 1 : values[q] > val
<1> DEFINE S == {p \in 0 .. pos : \A q \in p .. pos - 1 : values[q] > val}
<1>0. kbest \in Nat /\ pos \in Nat /\ pos < kbest /\ \A q \in 0 .. pos : values[q] \in Int
  BY SMT DEF SamplerType
<1>1. S \subseteq Nat /\ pos \in S
  BY <1>0, SMT
<1>2. PICK p \in S : \A q \in S : <<q, p>> \notin OpToRel(<, Nat)
  BY <1>1, NatLessThanWellFounded, WFMin
<1>3. ASSUME NEW q \in S, q < p
      PROVE  FALSE
  <2>1. <<q, p>> \in OpToRel(<, Nat)
    BY <1>1, <1>3 DEF OpToRel
  <2> QED
    BY <1>2, <2>1
<1>4. p > 0 => values[p - 1] <= val
  <2> SUFFICES ASSUME p > 0, ~(values[p - 1] <= val) PROVE FALSE
    OBVIOUS
  <2>1. p - 1 \in 0 .. pos /\ values[p - 1] > val
    BY <1>0, SMT
  <2>2. \A q \in p - 1 .. pos - 1 : values[q] > val
    BY <1>0, <2>1, SMT
  <2>3. p - 1 \in S
    BY <2>1, <2>2
  <2> QED
    BY <1>0, <1>3, <2>3, SMT
<1>5. \E r \in 0 .. pos : /\ r > 0 => values[r - 1] <= val
                          /\ \A q \in r .. pos - 1 : values[q] > val
  BY <1>4
<1> QED
  BY <1>5 DEF Place

\* An insertion into the first n places, of which the last is new or given up.
LEMMA InsertFacts ==
    ASSUME NEW k \in Nat \ {0}, NEW f \in [0 .. k - 1 -> Int],
           NEW pos \in 0 .. k - 1, NEW p \in 0 .. pos, NEW x \in Int
    PROVE  /\ Insert(f, pos, p, x) \in [0 .. k - 1 -> Int]
           /\ \A q \in 0 .. p - 1 : Insert(f, pos, p, x)[q] = f[q]
           /\ Insert(f, pos, p, x)[p] = x
           /\ \A q \in p + 1 .. pos : Insert(f, pos, p, x)[q] = f[q - 1]
<1>1. DOMAIN f = 0 .. k - 1
  OBVIOUS
<1>2. \A q \in 0 .. k - 1 : q < p \/ q > pos \/ q = p \/ q - 1 \in 0 .. k - 1
  BY SMT
<1>3. \A q \in 0 .. p - 1 : q \in 0 .. k - 1 /\ q < p
  BY SMT
<1>4. \A q \in p + 1 .. pos : q \in 0 .. k - 1 /\ ~(q < p \/ q > pos) /\ q # p
  BY SMT
<1>5. p \in 0 .. k - 1 /\ ~(p < p \/ p > pos)
  BY SMT
<1>6. ASSUME NEW q \in 0 .. k - 1
      PROVE  (IF q < p \/ q > pos THEN f[q] ELSE IF q = p THEN x ELSE f[q - 1]) \in Int
  BY <1>2
<1> QED
  BY <1>1, <1>3, <1>4, <1>5, <1>6 DEF Insert
-----------------------------------------------------------------------------

\* KBest without the variables: the first m of v are the m smallest of the n
\* samples tk, and all of them unless m = k.
Best(v, tk, n, m, k, from) ==
    /\ from \in [0 .. m - 1 -> 1 .. n]
    /\ \A p, r \in 0 .. m - 1 : from[p] = from[r] => p = r
    /\ \A p \in 0 .. m - 1 : v[p] = tk[from[p]]
    /\ \A p, r \in 0 .. m - 1 : p <= r => v[p] <= v[r]
    /\ \A s \in 1 .. n :
         (\A p \in 0 .. m - 1 : from[p] # s) => n > k /\ \A p \in 0 .. m - 1 : v[p] <= tk[s]

\* In w the sample val is inserted at p into the first pos of the best values v
\* of the samples tk; if there were k of them, in place of one that is larger.
Insertion(k, n, pos, m, v, w, tk, from, val, p) ==
    /\ Best(v, tk, n, m, k, from)
    /\ n >= k => val < v[pos]
    /\ p > 0 => v[p - 1] <= val
    /\ \A q \in p .. pos - 1 : v[q] > val
    /\ \A q \in 0 .. p - 1 : w[q] = v[q]
    /\ w[p] = val
    /\ \A q \in p + 1 .. pos : w[q] = v[q - 1]

\* An insertion leaves the smallest of one sample more.
LEMMA InsertBest ==
    ASSUME NEW k \in Nat \ {0}, NEW n \in Nat, NEW pos \in 0 .. k - 1, NEW m \in Nat,
           \/ n < k /\ m = n /\ pos = n
           \/ n >= k /\ m = k /\ pos = k - 1,
           NEW v \in [0 .. k - 1 -> Int], NEW w \in [0 .. k - 1 -> Int],
           NEW tk \in Seq(Int), Len(tk) = n, NEW from,
           NEW val \in Int, NEW p \in 0 .. pos,
           Insertion(k, n, pos, m, v, w, tk, from, val, p)
    PROVE  \E to : Best(w, Append(tk, val), n + 1, pos + 1, k, to)
<1>a. /\ Best(v, tk, n, m, k, from)
      /\ n >= k => val < v[pos]
      /\ p > 0 => v[p - 1] <= val
      /\ \A q \in p .. pos - 1 : v[q] > val
      /\ \A q \in 0 .. p - 1 : w[q] = v[q]
      /\ w[p] = val
      /\ \A q \in p + 1 .. pos : w[q] = v[q - 1]
  BY DEF Insertion
<1> DEFINE to == [q \in 0 .. pos |-> IF q < p THEN from[q] ELSE IF q = p THEN n + 1 ELSE from[q - 1]]
           tk2 == Append(tk, val)
<1>1. /\ pos <= m /\ 0 .. (pos + 1) - 1 = 0 .. pos
      /\ \A q \in 0 .. pos - 1 : q \in 0 .. m - 1
      /\ \A q \in 0 .. pos : q \in 0 .. k - 1
      /\ \A q \in 0 .. m - 1 : q \in 0 .. k - 1
  BY SMT
<1>2. /\ tk2[n + 1] = val
      /\ \A s \in 1 .. n : tk2[s] = tk[s] /\ tk[s] \in Int
  <2>1. n + 1 \in 1 .. Len(tk) + 1 /\ n + 1 = Len(tk) + 1 /\ 1 .. n = 1 .. Len(tk)
    BY SMT
  <2>2. tk2[n + 1] = val
    BY <2>1
  <2>3. \A s \in 1 .. n : tk2[s] = tk[s]
    BY <2>1
  <2>4. \A s \in 1 .. n : tk[s] \in Int
    BY <2>1
  <2> QED
    BY <2>2, <2>3, <2>4
<1>3. /\ from \in [0 .. m - 1 -> 1 .. n]
      /\ \A a, r \in 0 .. m - 1 : from[a] = from[r] => a = r
      /\ \A a \in 0 .. m - 1 : v[a] = tk[from[a]]
      /\ \A a, r \in 0 .. m - 1 : a <= r => v[a] <= v[r]
      /\ \A s \in 1 .. n :
           (\A a \in 0 .. m - 1 : from[a] # s) => n > k /\ \A a \in 0 .. m - 1 : v[a] <= tk[s]
  BY <1>a DEF Best
\* Each place of w: where its value comes from.
<1>4. \A q \in 0 .. pos : q < p \/ q = p \/ (q > p /\ q - 1 \in p .. pos - 1)
  BY SMT
<1>5. \A q \in 0 .. pos : q < p => q \in 0 .. m - 1 /\ to[q] = from[q] /\ w[q] = v[q] /\ from[q] \in 1 .. n
  <2> SUFFICES ASSUME NEW q \in 0 .. pos, q < p
               PROVE  q \in 0 .. m - 1 /\ to[q] = from[q] /\ w[q] = v[q] /\ from[q] \in 1 .. n
    OBVIOUS
  <2>1. q \in 0 .. m - 1 /\ q \in 0 .. p - 1
    BY <1>1, SMT
  <2> QED
    BY <1>3, <1>a, <2>1
<1>6. to[p] = n + 1 /\ w[p] = val
  BY <1>a, SMT
<1>7. \A q \in 0 .. pos : q > p =>
        q - 1 \in 0 .. m - 1 /\ q - 1 \in p .. pos - 1
        /\ to[q] = from[q - 1] /\ w[q] = v[q - 1] /\ from[q - 1] \in 1 .. n
  <2> SUFFICES ASSUME NEW q \in 0 .. pos, q > p
               PROVE  /\ q - 1 \in 0 .. m - 1 /\ q - 1 \in p .. pos - 1
                      /\ to[q] = from[q - 1] /\ w[q] = v[q - 1] /\ from[q - 1] \in 1 .. n
    OBVIOUS
  <2>1. q - 1 \in 0 .. m - 1 /\ q - 1 \in p .. pos - 1 /\ q \in p + 1 .. pos /\ ~(q < p) /\ q # p
    BY <1>1, SMT
  <2>2. to[q] = from[q - 1]
    BY <2>1
  <2> QED
    BY <1>3, <1>a, <2>1, <2>2
<1> HIDE DEF to, tk2
<1>8. to \in [0 .. pos -> 1 .. n + 1]
  <2>1. \A q \in 0 .. pos : to[q] \in 1 .. n + 1
    <3>1. 1 .. n \subseteq 1 .. n + 1 /\ n + 1 \in 1 .. n + 1
      BY SMT
    <3> QED
      BY <1>4, <1>5, <1>6, <1>7, <3>1
  <2>2. to = [q \in 0 .. pos |-> to[q]]
    BY DEF to
  <2> QED
    BY <2>1, <2>2
<1>9. \A a, r \in 0 .. pos : to[a] = to[r] => a = r
  <2> SUFFICES ASSUME NEW a \in 0 .. pos, NEW r \in 0 .. pos, to[a] = to[r], a < r PROVE FALSE
    BY SMT
  <2>1. CASE r < p
    <3>1. a < p
      BY <2>1, SMT
    <3> QED
      BY <1>3, <1>5, <2>1, <3>1, SMT
  <2>0. n + 1 \notin 1 .. n
    BY SMT
  <2>2. CASE r = p
    <3>1. a < p
      BY <2>2
    <3> QED
      BY <1>5, <1>6, <2>0, <2>2, <3>1
  <2>3. CASE r > p /\ a < p
    <3>1. from[a] = from[r - 1] /\ a \in 0 .. m - 1 /\ r - 1 \in 0 .. m - 1
      BY <1>5, <1>7, <2>3
    <3>2. a = r - 1
      BY <1>3, <3>1
    <3>3. a \in p .. pos - 1
      BY <1>7, <2>3, <3>2
    <3> QED
      BY <2>3, <3>3, SMT
  <2>4. CASE r > p /\ a = p
    BY <1>6, <1>7, <2>0, <2>4
  <2>5. CASE r > p /\ a > p
    <3>1. from[a - 1] = from[r - 1] /\ a - 1 \in 0 .. m - 1 /\ r - 1 \in 0 .. m - 1
      BY <1>7, <2>5
    <3>2. a - 1 = r - 1
      BY <1>3, <3>1
    <3> QED
      BY <3>2, SMT
  <2> QED
    BY <2>1, <2>2, <2>3, <2>4, <2>5, SMT
<1>10. \A a \in 0 .. pos : w[a] = tk2[to[a]]
  <2> SUFFICES ASSUME NEW a \in 0 .. pos PROVE w[a] = tk2[to[a]]
    OBVIOUS
  <2>1. CASE a < p
    <3>1. a \in 0 .. m - 1 /\ to[a] = from[a] /\ w[a] = v[a] /\ from[a] \in 1 .. n
      BY <1>5, <2>1
    <3>2. tk2[from[a]] = tk[from[a]] /\ v[a] = tk[from[a]]
      BY <1>2, <1>3, <3>1
    <3> QED
      BY <3>1, <3>2
  <2>2. CASE a = p
    BY <1>2, <1>6, <2>2
  <2>3. CASE a > p
    <3>1. /\ a - 1 \in 0 .. m - 1 /\ to[a] = from[a - 1] /\ w[a] = v[a - 1]
          /\ from[a - 1] \in 1 .. n
      BY <1>7, <2>3
    <3>2. tk2[from[a - 1]] = tk[from[a - 1]] /\ v[a - 1] = tk[from[a - 1]]
      BY <1>2, <1>3, <3>1
    <3> QED
      BY <3>1, <3>2
  <2> QED
    BY <1>4, <2>1, <2>2, <2>3
<1>11. \A a, r \in 0 .. pos : a <= r => w[a] <= w[r]
  <2> SUFFICES ASSUME NEW a \in 0 .. pos, NEW r \in 0 .. pos, a < r PROVE w[a] <= w[r]
    BY <1>1, SMT
  <2>1. CASE r < p
    <3>1. a < p
      BY <2>1, SMT
    <3> QED
      BY <1>3, <1>5, <2>1, <3>1, SMT
  <2>2. CASE r = p
    <3>1. a < p /\ p > 0 /\ p - 1 \in 0 .. m - 1 /\ a <= p - 1
      BY <1>1, <2>2, SMT
    <3>2. v[a] <= v[p - 1] /\ w[a] = v[a] /\ v[p - 1] <= val /\ a \in 0 .. m - 1
      <4>1. v[p - 1] <= val
        BY <1>a, <3>1
      <4> QED
        BY <1>3, <1>5, <3>1, <4>1
    <3>3. v[a] \in Int /\ v[p - 1] \in Int
      BY <1>1, <3>1, <3>2
    <3> QED
      <4>1. w[r] = val
        BY <1>6, <2>2
      <4>2. \A c, d, e \in Int : c <= d /\ d <= e => c <= e
        OBVIOUS
      <4>3. v[a] <= val
        BY <3>2, <3>3, <4>2
      <4> QED
        BY <3>2, <4>1, <4>3
  <2>3. CASE r > p /\ a < p
    <3>1. a \in 0 .. m - 1 /\ r - 1 \in 0 .. m - 1 /\ w[a] = v[a] /\ w[r] = v[r - 1]
      BY <1>5, <1>7, <2>3
    <3>2. a <= r - 1
      BY <2>3, SMT
    <3> QED
      BY <1>3, <3>1, <3>2
  <2>4. CASE r > p /\ a = p
    <3>1. r - 1 \in p .. pos - 1 /\ w[r] = v[r - 1] /\ r - 1 \in 0 .. m - 1
      BY <1>7, <2>4
    <3>2. v[r - 1] > val /\ v[r - 1] \in Int
      <4>1. v[r - 1] > val
        BY <1>a, <3>1
      <4> QED
        BY <1>1, <3>1, <4>1
    <3> QED
      <4>1. w[a] = val
        BY <1>6, <2>4
      <4>2. val <= v[r - 1]
        BY <3>2, SMT
      <4> QED
        BY <3>1, <4>1, <4>2
  <2>5. CASE r > p /\ a > p
    <3>1. a - 1 \in 0 .. m - 1 /\ r - 1 \in 0 .. m - 1 /\ w[a] = v[a - 1] /\ w[r] = v[r - 1]
      BY <1>7, <2>5
    <3>2. a - 1 <= r - 1
      BY SMT
    <3> QED
      BY <1>3, <3>1, <3>2
  <2> QED
    BY <2>1, <2>2, <2>3, <2>4, <2>5, SMT
\* Left out: those that were, and the one that was in the last place.
<1>12. ASSUME NEW s \in 1 .. n + 1, \A a \in 0 .. pos : to[a] # s
       PROVE  n + 1 > k /\ \A a \in 0 .. pos : w[a] <= tk2[s]
  <2>1. s \in 1 .. n
    <3>1. p \in 0 .. pos /\ s # n + 1
      BY <1>6, <1>12
    <3> QED
      BY <3>1, SMT
  <2>2. \A q \in 0 .. pos - 1 : from[q] # s
    <3> SUFFICES ASSUME NEW q \in 0 .. pos - 1 PROVE from[q] # s
      OBVIOUS
    <3>1. CASE q < p
      <4>1. q \in 0 .. pos
        BY SMT
      <4> QED
        BY <1>5, <1>12, <3>1, <4>1
    <3>2. CASE q >= p
      <4>1. q + 1 \in 0 .. pos /\ q + 1 > p /\ (q + 1) - 1 = q
        BY <3>2, SMT
      <4> QED
        BY <1>7, <1>12, <4>1
    <3> QED
      BY <3>1, <3>2, SMT
  <2>3. n >= k /\ m = k /\ pos = k - 1
    <3>1. CASE n < k
      <4>1. \A a \in 0 .. m - 1 : from[a] # s
        BY <2>2, <3>1
      <4>2. n > k
        BY <1>3, <2>1, <4>1
      <4> QED
        BY <3>1, <4>2, SMT
    <3> QED
      BY <3>1, SMT
  <2>4. v[pos] <= tk[s] /\ pos \in 0 .. m - 1
    <3>1. pos \in 0 .. m - 1
      BY <2>3, SMT
    <3>2. CASE from[pos] = s
      BY <1>1, <1>3, <3>1, <3>2, SMT
    <3>3. CASE from[pos] # s
      <4>0. \A a \in 0 .. m - 1 : a = pos \/ a \in 0 .. pos - 1
        BY <2>3, SMT
      <4>1. \A a \in 0 .. m - 1 : from[a] # s
        BY <2>2, <3>3, <4>0
      <4> QED
        BY <1>3, <2>1, <3>1, <4>1
    <3> QED
      BY <3>1, <3>2, <3>3
  <2>5. \A q \in 0 .. m - 1 : v[q] <= v[pos] /\ v[q] \in Int
    <3> SUFFICES ASSUME NEW q \in 0 .. m - 1 PROVE v[q] <= v[pos] /\ v[q] \in Int
      OBVIOUS
    <3>1. q <= pos
      BY <2>3, SMT
    <3> QED
      BY <1>1, <1>3, <2>4, <3>1
  <2>6. v[pos] \in Int /\ tk[s] \in Int /\ tk2[s] = tk[s] /\ val < v[pos]
    BY <1>2, <1>a, <2>1, <2>3
  <2>7. ASSUME NEW a \in 0 .. pos
        PROVE  w[a] <= tk2[s]
    <3>0. ASSUME NEW c \in Int, c <= v[pos]
          PROVE  c <= tk2[s]
      BY <2>4, <2>6, <3>0, SMT
    <3>1. CASE a < p
      BY <1>5, <2>5, <3>0, <3>1
    <3>2. CASE a = p
      <4>1. val <= v[pos]
        BY <2>6, SMT
      <4> QED
        BY <1>6, <3>0, <3>2, <4>1
    <3>3. CASE a > p
      BY <1>7, <2>5, <3>0, <3>3
    <3> QED
      BY <3>1, <3>2, <3>3, SMT
  <2> QED
    BY <2>3, <2>7, SMT
<1>13. Best(w, tk2, n + 1, pos + 1, k, to)
  BY <1>1, <1>8, <1>9, <1>10, <1>11, <1>12 DEF Best
<1> QED
  BY <1>13 DEF tk2

\* A sample that is not smaller than the k-th smallest is left out.
LEMMA DropBest ==
    ASSUME NEW k \in Nat \ {0}, NEW n \in Nat, n >= k,
           NEW v \in [0 .. k - 1 -> Int],
           NEW tk \in Seq(Int), Len(tk) = n, NEW from, Best(v, tk, n, k, k, from),
           NEW val \in Int, ~(val < v[k - 1])
    PROVE  Best(v, Append(tk, val), n + 1, k, k, from)
<1>1. /\ Append(tk, val)[n + 1] = val
      /\ \A s \in 1 .. n : Append(tk, val)[s] = tk[s]
  OBVIOUS
<1>2. /\ from \in [0 .. k - 1 -> 1 .. n]
      /\ \A a, r \in 0 .. k - 1 : from[a] = from[r] => a = r
      /\ \A a \in 0 .. k - 1 : v[a] = tk[from[a]]
      /\ \A a, r \in 0 .. k - 1 : a <= r => v[a] <= v[r]
      /\ \A s \in 1 .. n :
           (\A a \in 0 .. k - 1 : from[a] # s) => n > k /\ \A a \in 0 .. k - 1 : v[a] <= tk[s]
  BY DEF Best
<1>3. from \in [0 .. k - 1 -> 1 .. n + 1]
  <2>1. 1 .. n \subseteq 1 .. n + 1
    BY SMT
  <2> QED
    BY <1>2, <2>1
<1>4. \A a \in 0 .. k - 1 : v[a] <= val
  <2> SUFFICES ASSUME NEW a \in 0 .. k - 1 PROVE v[a] <= val
    OBVIOUS
  <2>1. k - 1 \in 0 .. k - 1 /\ a <= k - 1
    BY SMT
  <2>2. v[a] <= v[k - 1] /\ v[a] \in Int /\ v[k - 1] \in Int
    BY <1>2, <2>1
  <2> QED
    BY <2>2, SMT
<1>5. ASSUME NEW s \in 1 .. n + 1, \A a \in 0 .. k - 1 : from[a] # s
      PROVE  n + 1 > k /\ \A a \in 0 .. k - 1 : v[a] <= Append(tk, val)[s]
  <2>1. CASE s = n + 1
    <3>1. n + 1 > k
      BY SMT
    <3> QED
      BY <1>1, <1>4, <2>1, <3>1
  <2>2. CASE s # n + 1
    <3>1. s \in 1 .. n /\ n + 1 > k
      BY <2>2, SMT
    <3> QED
      BY <1>1, <1>2, <1>5, <3>1
  <2> QED
    BY <2>1, <2>2
<1>6. \A a \in 0 .. k - 1 : v[a] = Append(tk, val)[from[a]]
  BY <1>1, <1>2
<1> QED
  BY <1>2, <1>3, <1>5, <1>6 DEF Best
-----------------------------------------------------------------------------

\* KBest is Best of the variables.
LEMMA BestIsKBest ==
    \A from : KBest(from) <=> Best(values, taken, samplecount, Filled, kbest, from)
BY DEF KBest, Best

\* The answer: the first value is the smallest sample, if there is one.
LEMMA FirstIsLeast ==
    ASSUME SamplerType, BestSamples, pc = "return"
    PROVE  /\ \E s \in DOMAIN taken : values[0] = taken[s]
           /\ \A s \in DOMAIN taken : values[0] <= taken[s]
<1>1. PICK from \in [0 .. Filled - 1 -> 1 .. samplecount] : KBest(from)
  BY DEF BestSamples
<1>2. DOMAIN taken = 1 .. samplecount /\ \A s \in 1 .. samplecount : taken[s] \in Int
  BY DEF SamplerType
<1>3. 0 \in 0 .. Filled - 1 /\ \A p \in 0 .. Filled - 1 : 0 <= p
  BY SMT DEF Filled, SamplerType
<1>4. \E s \in DOMAIN taken : values[0] = taken[s]
  BY <1>1, <1>2, <1>3 DEF KBest
<1>5. ASSUME NEW s \in DOMAIN taken
      PROVE  values[0] <= taken[s]
  <2>1. CASE \E p \in 0 .. Filled - 1 : from[p] = s
    BY <1>1, <1>3, <2>1 DEF KBest
  <2>2. CASE \A p \in 0 .. Filled - 1 : from[p] # s
    BY <1>1, <1>2, <1>3, <2>2 DEF KBest
  <2> QED
    BY <2>1, <2>2
<1> QED
  BY <1>4, <1>5

\* A turn of the loop.
LEMMA SampleKeeps ==
    ASSUME FcycInv, NEW val \in Times, Sample(val)
    PROVE  FcycInv'
<1>1. /\ val \in Int /\ SamplerType /\ pc = "sample" /\ add_sample(val)
      /\ samplecount' = samplecount + 1 /\ taken' = Append(taken, val)
      /\ pc' \in {"sample", "return"} /\ kbest' = kbest /\ cache_bytes' = cache_bytes
      /\ cache_buf' = IF clear_cache /\ cache_buf = 0 THEN cache_bytes ELSE cache_buf
  BY FcycConstants DEF FcycConstants, FcycInv, Sample, params
<1>2. /\ kbest \in Nat \ {0} /\ samplecount \in Nat /\ taken \in Seq(Int)
      /\ Len(taken) = samplecount /\ values \in [0 .. kbest - 1 -> Int]
  BY <1>1 DEF SamplerType
<1>3. PICK from : Best(values, taken, samplecount, Filled, kbest, from)
  BY <1>1, BestIsKBest DEF FcycInv, BestSamples
<1> DEFINE New == /\ values' \in [0 .. kbest - 1 -> Int]
                  /\ \E to : Best(values', taken', samplecount + 1, Filled', kbest, to)
<1>4. ASSUME NEW pos \in 0 .. kbest - 1, Filled' = pos + 1,
             \/ samplecount < kbest /\ Filled = samplecount /\ pos = samplecount
             \/ samplecount >= kbest /\ Filled = kbest /\ pos = kbest - 1,
             samplecount >= kbest => val < values[pos],
             values' = Insert(values, pos, Place(pos, val), val)
      PROVE  New
  <2>0. PICK p : p = Place(pos, val)
    OBVIOUS
  <2>7. PICK k, v : k = kbest /\ v = values
    OBVIOUS
  <2>1. /\ p \in 0 .. pos
        /\ p > 0 => values[p - 1] <= val
        /\ \A q \in p .. pos - 1 : values[q] > val
    BY <1>1, <2>0, PlaceExists
  <2>2. values' = Insert(values, pos, p, val)
    BY <1>4, <2>0
  <2>3. /\ values' \in [0 .. kbest - 1 -> Int]
        /\ \A q \in 0 .. p - 1 : values'[q] = values[q]
        /\ values'[p] = val
        /\ \A q \in p + 1 .. pos : values'[q] = values[q - 1]
    <3>1. k \in Nat \ {0} /\ v \in [0 .. k - 1 -> Int] /\ pos \in 0 .. k - 1 /\ p \in 0 .. pos /\ val \in Int
      BY <1>1, <1>2, <2>1, <2>7
    <3>2. /\ Insert(v, pos, p, val) \in [0 .. k - 1 -> Int]
          /\ \A q \in 0 .. p - 1 : Insert(v, pos, p, val)[q] = v[q]
          /\ Insert(v, pos, p, val)[p] = val
          /\ \A q \in p + 1 .. pos : Insert(v, pos, p, val)[q] = v[q - 1]
      <4>1. Insert(v, pos, p, val) \in [0 .. k - 1 -> Int] /\ Insert(v, pos, p, val)[p] = val
        BY <3>1, InsertFacts
      <4>2. ASSUME NEW q \in 0 .. p - 1
            PROVE  Insert(v, pos, p, val)[q] = v[q]
        <5>1. q \in 0 .. k - 1 /\ q < p
          BY <3>1, SMT
        <5> QED
          BY <3>1, <5>1 DEF Insert
      <4>3. ASSUME NEW q \in p + 1 .. pos
            PROVE  Insert(v, pos, p, val)[q] = v[q - 1]
        <5>1. q \in 0 .. k - 1 /\ ~(q < p \/ q > pos) /\ q # p
          BY <3>1, SMT
        <5> QED
          BY <3>1, <5>1 DEF Insert
      <4> QED
        BY <4>1, <4>2, <4>3
    <3> QED
      BY <2>2, <2>7, <3>2
  <2>4. Filled \in Nat
    BY <1>2, <1>4, SMT
  <2>5. PICK w : w = values'
    OBVIOUS
  <2>8. Insertion(k, samplecount, pos, Filled, v, w, taken, from, val, p)
    BY <1>1, <1>2, <1>3, <1>4, <2>1, <2>3, <2>4, <2>5, <2>7 DEF Insertion
  <2>6. \E to : Best(w, Append(taken, val), samplecount + 1, pos + 1, kbest, to)
    <3>1. k \in Nat \ {0} /\ pos \in 0 .. k - 1 /\ p \in 0 .. pos /\ val \in Int
      BY <1>1, <1>2, <2>1, <2>7
    <3>2. v \in [0 .. k - 1 -> Int] /\ w \in [0 .. k - 1 -> Int]
      BY <1>2, <2>3, <2>5, <2>7
    <3>3. \/ samplecount < k /\ Filled = samplecount /\ pos = samplecount
          \/ samplecount >= k /\ Filled = k /\ pos = k - 1
      BY <1>4, <2>7
    <3>4. PICK n, m, tk : n = samplecount /\ m = Filled /\ tk = taken
      OBVIOUS
    <3>5. n \in Nat /\ m \in Nat /\ tk \in Seq(Int) /\ Len(tk) = n
      BY <1>2, <2>4, <3>4
    <3>6. Insertion(k, n, pos, m, v, w, tk, from, val, p)
      BY <2>8, <3>4
    <3>7. (n < k /\ m = n /\ pos = n) \/ (n >= k /\ m = k /\ pos = k - 1)
      BY <3>3, <3>4
    <3>8. \E to : Best(w, Append(tk, val), n + 1, pos + 1, k, to)
      BY <3>1, <3>2, <3>5, <3>6, <3>7, InsertBest
    <3> QED
      BY <2>7, <3>4, <3>8
  <2> QED
    BY <1>1, <1>4, <2>3, <2>5, <2>6
<1>5. New
  <2>1. CASE samplecount < kbest
    <3>1. values' = Insert(values, samplecount, Place(samplecount, val), val)
      BY <1>1, <2>1 DEF add_sample
    <3>2. samplecount \in 0 .. kbest - 1 /\ Filled = samplecount /\ ~(samplecount >= kbest)
      BY <1>2, <2>1, SMT DEF Filled
    <3>3. Filled' = samplecount + 1
      BY <1>1, <1>2, <2>1, SMT DEF Filled
    <3> QED
      BY <1>4, <2>1, <3>1, <3>2, <3>3
  <2>2. CASE samplecount >= kbest
    <3>0. ~(samplecount < kbest) /\ ~(samplecount + 1 < kbest)
      BY <1>2, <2>2, SMT
    <3>1. Filled = kbest /\ Filled' = kbest
      BY <1>1, <3>0 DEF Filled
    <3>2. CASE val < values[kbest - 1]
      <4>1. values' = Insert(values, kbest - 1, Place(kbest - 1, val), val)
        BY <1>1, <3>0, <3>2 DEF add_sample
      <4>2. kbest - 1 \in 0 .. kbest - 1 /\ kbest = (kbest - 1) + 1
        BY <1>2, SMT
      <4> QED
        BY <1>4, <2>2, <3>1, <3>2, <4>1, <4>2
    <3>3. CASE ~(val < values[kbest - 1])
      <4>1. values' = values
        BY <1>1, <3>0, <3>3 DEF add_sample
      <4>2. Best(values, Append(taken, val), samplecount + 1, kbest, kbest, from)
        BY <1>1, <1>2, <1>3, <2>2, <3>1, <3>3, DropBest
      <4> QED
        BY <1>1, <1>2, <3>1, <4>1, <4>2
    <3> QED
      BY <3>2, <3>3
  <2> QED
    BY <1>2, <2>1, <2>2, SMT
<1>6. SamplerType'
  <2>1. samplecount' \in Nat /\ samplecount' > 0
    BY <1>1, <1>2, SMT
  <2>2. taken' \in Seq(Int) /\ Len(taken') = samplecount'
    BY <1>1, <1>2
  <2> QED
    BY <1>1, <1>2, <1>5, <2>1, <2>2 DEF SamplerType
<1>7. BestSamples'
  <2>1. PICK to : Best(values', taken', samplecount', Filled', kbest', to)
    BY <1>1, <1>5
  <2>2. KBest(to)' /\ to \in [0 .. Filled' - 1 -> 1 .. samplecount']
    BY <2>1 DEF KBest, Best
  <2> QED
    BY <2>2 DEF BestSamples
<1>8. ReturnsSmallest'
  <2>1. pc' # "idle"
    BY <1>1
  <2> QED
    BY <1>1, <2>1 DEF ReturnsSmallest, SamplerType
<1> QED
  BY <1>6, <1>7, <1>8 DEF FcycInv

\* No call has been made yet.
LEMMA FcycStart == FcycInit => FcycInv
BY FcycConstants
   DEF FcycConstants, FcycInit, FcycInv, SamplerType, BestSamples, ReturnsSmallest

\* The parameters are only set between calls, and a buffer of the wrong size goes.
LEMMA SetterKeeps ==
    ASSUME FcycInv, Setter, kbest' \in Nat \ {0}, cache_buf' \in {0, cache_bytes'}
    PROVE  FcycInv'
BY DEF Setter, FcycInv, SamplerType, BestSamples, ReturnsSmallest

\* init_sampler starts with no sample.
LEMMA CallKeeps ==
    ASSUME FcycInv, Call
    PROVE  FcycInv'
<1>1. /\ pc' = "sample" /\ kbest' = kbest /\ cache_bytes' = cache_bytes /\ cache_buf' = cache_buf
      /\ values' \in [0 .. kbest - 1 -> Int] /\ samplecount' = 0 /\ taken' = << >>
  BY DEF Call, params
<1>2. SamplerType'
  BY <1>1 DEF FcycInv, SamplerType
<1>3. BestSamples'
  <2>1. Filled' = 0 /\ 0 .. Filled' - 1 = {} /\ 1 .. samplecount' = {}
    BY <1>1, SMT DEF FcycInv, SamplerType, Filled
  <2>2. PICK to : to = [q \in {} |-> 0]
    OBVIOUS
  <2>3. to \in [0 .. Filled' - 1 -> 1 .. samplecount']
    BY <2>1, <2>2
  <2>4. KBest(to)'
    BY <2>1, <2>3 DEF KBest
  <2> QED
    BY <2>3, <2>4 DEF BestSamples
<1>4. ReturnsSmallest'
  BY <1>1 DEF FcycInv, SamplerType, ReturnsSmallest
<1> QED
  BY <1>2, <1>3, <1>4 DEF FcycInv

\* fcyc returns the first value.
LEMMA ReturnKeeps ==
    ASSUME FcycInv, Return
    PROVE  FcycInv'
<1>1. /\ pc = "return" /\ pc' = "idle" /\ result' = values[0] /\ taken' = taken
      /\ kbest' = kbest /\ cache_bytes' = cache_bytes /\ cache_buf' = cache_buf
      /\ samplecount' = samplecount
  BY DEF Return, params
<1>2. ReturnsSmallest'
  BY <1>1, FirstIsLeast DEF FcycInv, SamplerType, ReturnsSmallest
<1> QED
  BY <1>1, <1>2 DEF FcycInv, SamplerType, BestSamples

\* Every step keeps the invariant.
LEMMA FcycStep == FcycInv /\ [FcycNext]_fcycvars => FcycInv'
<1> SUFFICES ASSUME FcycInv, [FcycNext]_fcycvars PROVE FcycInv'
  OBVIOUS
<1>0. kbest \in Nat \ {0} /\ cache_buf \in {0, cache_bytes}
  BY DEF FcycInv, SamplerType
<1>1. ASSUME \/ set_fcyc_k \/ set_fcyc_maxsamples \/ set_fcyc_epsilon
             \/ set_fcyc_clear_cache \/ set_fcyc_cache_size
      PROVE  FcycInv'
  <2>1. Setter
    BY <1>1 DEF set_fcyc_k, set_fcyc_maxsamples, set_fcyc_epsilon, set_fcyc_clear_cache,
                set_fcyc_cache_size
  <2>2. kbest' \in Nat \ {0}
    BY <1>0, <1>1, FcycConstants
       DEF FcycConstants, set_fcyc_k, set_fcyc_maxsamples, set_fcyc_epsilon,
           set_fcyc_clear_cache, set_fcyc_cache_size
  <2>3. cache_buf' \in {0, cache_bytes'}
    BY <1>0, <1>1
       DEF set_fcyc_k, set_fcyc_maxsamples, set_fcyc_epsilon, set_fcyc_clear_cache,
           set_fcyc_cache_size
  <2> QED
    BY <2>1, <2>2, <2>3, SetterKeeps
<1>2. CASE ClearFails
  BY <1>2 DEF ClearFails, params, FcycInv, SamplerType, BestSamples, ReturnsSmallest
<1>3. CASE UNCHANGED fcycvars
  <2>1. SamplerType' /\ ReturnsSmallest'
    BY <1>3 DEF fcycvars, params, FcycInv, SamplerType, ReturnsSmallest
  <2>2. Filled' = Filled /\ \A from : KBest(from)' = KBest(from)
    BY <1>3 DEF fcycvars, params, KBest, Filled
  <2>3. BestSamples'
    BY <1>3, <2>2 DEF fcycvars, params, FcycInv, BestSamples
  <2> QED
    BY <2>1, <2>3 DEF FcycInv
<1> QED
  BY <1>1, <1>2, <1>3, CallKeeps, ReturnKeeps, SampleKeeps DEF FcycNext

\* In every turn of its loop the sampler of fcyc.c holds the kbest smallest
\* samples in order, each from a measurement of its own, and what it returns is
\* the smallest of all samples of the call.
THEOREM SamplesBest == FcycSpec => []BestKeptAndReturned
<1>1. FcycInv => BestKeptAndReturned
  BY DEF FcycInv, BestKeptAndReturned
<1> QED
  BY FcycStart, FcycStep, <1>1, PTL DEF FcycSpec

-----------------------------------------------------------------------------
(* The hash table of hashtable.c                                              *)

\* Chains hd of nodes linked by nx, own says which chain a node is on: each node
\* is led to by one pointer at most, of its own chain,
Linked(nx, hd, own) ==
    /\ nx \in [DOMAIN nx -> DOMAIN nx \cup {NULL}]
    /\ hd \in [DOMAIN hd -> DOMAIN nx \cup {NULL}]
    /\ own \in [DOMAIN nx -> DOMAIN hd]
    /\ NULL \notin DOMAIN nx
    /\ \A s \in DOMAIN hd : hd[s] # NULL => own[hd[s]] = s
    /\ \A n \in DOMAIN nx : nx[n] # NULL => own[nx[n]] = own[n]
    /\ \A n \in DOMAIN nx, s \in DOMAIN hd : nx[n] = hd[s] => nx[n] = NULL
    /\ \A n, q \in DOMAIN nx : nx[n] = nx[q] /\ nx[n] # NULL => n = q
\* and no node is off the chains.
Covered(nx, hd) ==
    \A S \in SUBSET DOMAIN nx :
        (\A s \in DOMAIN hd : hd[s] \in S \cup {NULL}) /\ (\A q \in S : nx[q] \in S \cup {NULL})
        => S = DOMAIN nx
Forest(nx, hd, own) == Linked(nx, hd, own) /\ Covered(nx, hd)

\* A walk from the head of a chain comes to all nodes of that chain.
LEMMA ChainIs ==
    ASSUME NEW m, NEW hd, NEW own, Forest(m.next, hd, own), NEW s \in DOMAIN hd
    PROVE  Chain(m, hd[s]) = {n \in DOMAIN m.next : own[n] = s}
<1> DEFINE D == DOMAIN m.next
           C == Chain(m, hd[s])
           O == {n \in D : own[n] = s}
<1> USE DEF Forest
<1>1. C \subseteq O
  <2>1. O \in SUBSET D /\ {hd[s]} \ {NULL} \subseteq O /\ \A q \in O : m.next[q] \in O \cup {NULL}
    BY DEF Linked
  <2> QED
    BY <2>1 DEF Chain
<1>2. \A q \in C : m.next[q] \in C \cup {NULL}
  <2> SUFFICES ASSUME NEW q \in C, m.next[q] # NULL,
                      NEW S \in SUBSET D, {hd[s]} \ {NULL} \subseteq S, \A r \in S : m.next[r] \in S \cup {NULL}
               PROVE  m.next[q] \in S
    BY DEF Chain, Linked
  <2> QED
    BY DEF Chain
<1>3. hd[s] \in C \cup {NULL}
  BY DEF Chain, Linked
<1> DEFINE S == C \cup (D \ O)
<1>4. S \in SUBSET D
  BY DEF Chain
<1>5. \A r \in DOMAIN hd : hd[r] \in S \cup {NULL}
  BY <1>3 DEF Linked
<1>6. \A q \in S : m.next[q] \in S \cup {NULL}
  BY <1>2 DEF Linked
<1>7. S = D
  BY <1>4, <1>5, <1>6 DEF Covered
<1> QED
  BY <1>1, <1>7

\* A new node before a chain.
LEMMA PushFront ==
    ASSUME NEW nx, NEW hd, NEW own, Forest(nx, hd, own), NEW s \in DOMAIN hd,
           NEW new, new \notin DOMAIN nx, new # NULL
    PROVE  Forest(With(nx, new, hd[s]), [hd EXCEPT ![s] = new], With(own, new, s))
<1> DEFINE D == DOMAIN nx
           nx2 == With(nx, new, hd[s])
           hd2 == [hd EXCEPT ![s] = new]
           own2 == With(own, new, s)
<1> USE DEF Forest
<1>1. /\ nx2 \in [D \cup {new} -> D \cup {new, NULL}] /\ DOMAIN nx2 = D \cup {new}
      /\ nx2[new] = hd[s] /\ \A n \in D : nx2[n] = nx[n]
  BY DEF Linked, With
<1>2. /\ own2 \in [D \cup {new} -> DOMAIN hd]
      /\ own2[new] = s /\ \A n \in D : own2[n] = own[n]
  BY DEF Linked, With
<1>3. /\ hd2 \in [DOMAIN hd -> D \cup {new, NULL}] /\ DOMAIN hd2 = DOMAIN hd
      /\ hd2[s] = new /\ \A r \in DOMAIN hd : r # s => hd2[r] = hd[r]
  BY DEF Linked
<1>4. \A r \in DOMAIN hd2 : hd2[r] # NULL => own2[hd2[r]] = r
  BY <1>2, <1>3 DEF Linked
<1>5. \A n \in DOMAIN nx2 : nx2[n] # NULL => own2[nx2[n]] = own2[n]
  BY <1>1, <1>2 DEF Linked, Covered
<1>6. \A n \in DOMAIN nx2, r \in DOMAIN hd2 : nx2[n] = hd2[r] => nx2[n] = NULL
  <2> SUFFICES ASSUME NEW n \in DOMAIN nx2, NEW r \in DOMAIN hd, nx2[n] = hd2[r], nx2[n] # NULL
               PROVE  FALSE
    BY <1>3
  <2>1. hd2[r] # new
    BY <1>1 DEF Linked
  <2>2. r # s /\ hd2[r] = hd[r]
    BY <2>1, <1>3
  <2>3. CASE n = new
    <3>1. hd[s] = hd[r] /\ hd[s] # NULL
      BY <2>2, <2>3, <1>1
    <3> QED
      BY <2>2, <3>1 DEF Linked
  <2>4. CASE n \in D
    BY <2>2, <2>4, <1>1 DEF Linked
  <2> QED
    BY <2>3, <2>4, <1>1
<1>7. \A n, q \in DOMAIN nx2 : nx2[n] = nx2[q] /\ nx2[n] # NULL => n = q
  BY <1>1 DEF Linked
<1>8. ASSUME NEW S \in SUBSET DOMAIN nx2,
             \A r \in DOMAIN hd2 : hd2[r] \in S \cup {NULL}, \A q \in S : nx2[q] \in S \cup {NULL}
      PROVE  S = DOMAIN nx2
  <2>1. new \in S /\ hd[s] \in S \cup {NULL}
    BY <1>1, <1>3, <1>8
  <2>2. \A r \in DOMAIN hd : hd[r] \in (S \ {new}) \cup {NULL}
    BY <2>1, <1>3, <1>8 DEF Linked
  <2>3. \A q \in S \ {new} : nx[q] \in (S \ {new}) \cup {NULL}
    BY <1>1, <1>8 DEF Linked
  <2>4. S \ {new} = D
    BY <2>2, <2>3, <1>1 DEF Covered
  <2> QED
    BY <2>1, <2>4, <1>1
<1> HIDE DEF nx2, hd2, own2
<1>9. Forest(nx2, hd2, own2)
  <2>1. NULL \notin DOMAIN nx2
    BY <1>1 DEF Linked
  <2> QED
    BY <2>1, <1>1, <1>2, <1>3, <1>4, <1>5, <1>6, <1>7, <1>8 DEF Linked, Covered
<1> QED
  BY <1>9 DEF nx2, hd2, own2

\* Whatever the new chains are called, they are those that were there.
LEMMA Relabel ==
    ASSUME NEW nx, NEW hd, NEW own, Forest(nx, hd, own),
           NEW hd2, hd2 \in [DOMAIN hd2 -> DOMAIN nx \cup {NULL}],
           NEW own2 \in [DOMAIN nx -> DOMAIN hd2],
           \A s \in DOMAIN hd2 : hd2[s] # NULL => own2[hd2[s]] = s /\ \E r \in DOMAIN hd : hd[r] = hd2[s],
           \A r \in DOMAIN hd : hd[r] # NULL => \E s \in DOMAIN hd2 : hd2[s] = hd[r],
           \A n \in DOMAIN nx : nx[n] # NULL => own2[nx[n]] = own2[n]
    PROVE  Forest(nx, hd2, own2)
<1> USE DEF Forest
<1>1. \A n \in DOMAIN nx, s \in DOMAIN hd2 : nx[n] = hd2[s] => nx[n] = NULL
  BY DEF Linked
<1>2. ASSUME NEW S \in SUBSET DOMAIN nx,
             \A s \in DOMAIN hd2 : hd2[s] \in S \cup {NULL}, \A q \in S : nx[q] \in S \cup {NULL}
      PROVE  S = DOMAIN nx
  <2>1. \A r \in DOMAIN hd : hd[r] \in S \cup {NULL}
    BY <1>2
  <2> QED
    BY <2>1, <1>2 DEF Covered
<1> QED
  BY <1>1, <1>2 DEF Linked, Covered

\* The first node of a chain goes.
LEMMA PopFront ==
    ASSUME NEW nx, NEW hd, NEW own, Forest(nx, hd, own), NEW s \in DOMAIN hd, hd[s] # NULL
    PROVE  Forest(Without(nx, {hd[s]}), [hd EXCEPT ![s] = nx[hd[s]]], Without(own, {hd[s]}))
<1> DEFINE D == DOMAIN nx
           x == hd[s]
           nx2 == Without(nx, {x})
           hd2 == [hd EXCEPT ![s] = nx[x]]
           own2 == Without(own, {x})
<1> USE DEF Forest
<1>1. x \in D /\ own[x] = s /\ nx[x] # x
  BY DEF Linked
<1>2. \A n \in D : nx[n] # x
  BY <1>1 DEF Linked
<1>3. /\ nx2 \in [D \ {x} -> (D \ {x}) \cup {NULL}] /\ DOMAIN nx2 = D \ {x}
      /\ \A n \in D \ {x} : nx2[n] = nx[n]
  BY <1>2 DEF Linked, Without
<1>4. own2 \in [D \ {x} -> DOMAIN hd] /\ \A n \in D \ {x} : own2[n] = own[n]
  BY DEF Linked, Without
<1>5. /\ DOMAIN hd2 = DOMAIN hd /\ hd2[s] = nx[x]
      /\ \A r \in DOMAIN hd : r # s => hd2[r] = hd[r] /\ hd[r] # x
  BY <1>1 DEF Linked
<1>6. hd2 \in [DOMAIN hd -> (D \ {x}) \cup {NULL}]
  BY <1>1, <1>2, <1>5 DEF Linked
<1>7. \A r \in DOMAIN hd2 : hd2[r] # NULL => own2[hd2[r]] = r
  BY <1>1, <1>4, <1>5, <1>6 DEF Linked
<1>8. \A n \in DOMAIN nx2 : nx2[n] # NULL => own2[nx2[n]] = own2[n]
  <2> SUFFICES ASSUME NEW n \in D \ {x}, nx[n] # NULL
               PROVE  own2[nx[n]] = own2[n]
    BY <1>3
  <2>1. nx[n] \in D \ {x} /\ own[nx[n]] = own[n]
    BY <1>2 DEF Linked
  <2> QED
    BY <2>1, <1>4
<1>9. \A n \in DOMAIN nx2, r \in DOMAIN hd2 : nx2[n] = hd2[r] => nx2[n] = NULL
  <2> SUFFICES ASSUME NEW n \in D \ {x}, NEW r \in DOMAIN hd, nx[n] = hd2[r], nx[n] # NULL
               PROVE  FALSE
    BY <1>3, <1>5
  <2>1. CASE r = s
    BY <2>1, <1>1, <1>5 DEF Linked
  <2>2. CASE r # s
    BY <2>2, <1>5 DEF Linked
  <2> QED
    BY <2>1, <2>2
<1>10. \A n, q \in DOMAIN nx2 : nx2[n] = nx2[q] /\ nx2[n] # NULL => n = q
  BY <1>3 DEF Linked
<1>11. ASSUME NEW S \in SUBSET DOMAIN nx2,
             \A r \in DOMAIN hd2 : hd2[r] \in S \cup {NULL}, \A q \in S : nx2[q] \in S \cup {NULL}
       PROVE  S = DOMAIN nx2
  <2>1. \A r \in DOMAIN hd : hd[r] \in S \cup {x, NULL}
    BY <1>5, <1>11
  <2>2. \A q \in S \cup {x} : nx[q] \in S \cup {x, NULL}
    BY <1>3, <1>5, <1>11
  <2>3. S \cup {x} = D
    BY <1>1, <1>3, <2>1, <2>2 DEF Covered
  <2> QED
    BY <2>3, <1>3
<1> HIDE DEF x, nx2, hd2, own2
<1>12. Forest(nx2, hd2, own2)
  <2>1. NULL \notin DOMAIN nx2
    BY <1>3 DEF Linked
  <2> QED
    BY <2>1, <1>3, <1>4, <1>5, <1>6, <1>7, <1>8, <1>9, <1>10, <1>11 DEF Linked, Covered
<1> QED
  BY <1>12 DEF x, nx2, hd2, own2

\* A node that is not at the head of a chain has a predecessor there.
LEMMA Predecessor ==
    ASSUME NEW nx, NEW hd, NEW own, Forest(nx, hd, own), NEW x \in DOMAIN nx, hd[own[x]] # x
    PROVE  \E p \in DOMAIN nx \ {x} : nx[p] = x
<1> USE DEF Forest
<1>1. \A r \in DOMAIN hd : hd[r] # x
  BY DEF Linked
<1>2. SUFFICES ASSUME \A p \in DOMAIN nx \ {x} : nx[p] # x
               PROVE  FALSE
  OBVIOUS
<1> DEFINE S == DOMAIN nx \ {x}
<1>3. \A r \in DOMAIN hd : hd[r] \in S \cup {NULL}
  BY <1>1 DEF Linked
<1>4. \A q \in S : nx[q] \in S \cup {NULL}
  BY <1>2 DEF Linked
<1>5. S = DOMAIN nx
  BY <1>3, <1>4 DEF Covered
<1> QED
  BY <1>5

\* Another one does: its predecessor takes its next.
LEMMA Unlink ==
    ASSUME NEW nx, NEW hd, NEW own, Forest(nx, hd, own), NEW x \in DOMAIN nx,
           NEW p \in DOMAIN nx \ {x}, nx[p] = x
    PROVE  Forest(Without([nx EXCEPT ![p] = nx[x]], {x}), hd, Without(own, {x}))
<1> DEFINE D == DOMAIN nx
           nx2 == Without([nx EXCEPT ![p] = nx[x]], {x})
           own2 == Without(own, {x})
<1> USE DEF Forest
<1>1. own[p] = own[x] /\ x # NULL /\ nx[x] # x
  BY DEF Linked
<1>2. \A n \in D : nx[n] = x => n = p
  BY <1>1 DEF Linked
<1>3. /\ DOMAIN nx2 = D \ {x} /\ nx2[p] = nx[x]
      /\ \A n \in D \ {x} : n # p => nx2[n] = nx[n]
  BY DEF Linked, Without
<1>4. nx2 \in [D \ {x} -> (D \ {x}) \cup {NULL}]
  <2>1. \A n \in D \ {x} : nx2[n] \in (D \ {x}) \cup {NULL}
    <3>1. \A n \in D : n # p => nx[n] \in (D \ {x}) \cup {NULL}
      BY <1>2 DEF Linked
    <3>2. nx[x] \in (D \ {x}) \cup {NULL}
      BY <1>1 DEF Linked
    <3> QED
      BY <3>1, <3>2, <1>3
  <2> QED
    BY <2>1 DEF Without, Forest
<1>5. own2 \in [D \ {x} -> DOMAIN hd] /\ \A n \in D \ {x} : own2[n] = own[n]
  BY DEF Linked, Without
<1>6. hd \in [DOMAIN hd -> (D \ {x}) \cup {NULL}]
  <2>1. \A r \in DOMAIN hd : hd[r] # x
    BY <1>1 DEF Linked
  <2> QED
    BY <2>1 DEF Linked
<1>7. \A r \in DOMAIN hd : hd[r] # NULL => own2[hd[r]] = r
  BY <1>5, <1>6 DEF Linked
<1> HIDE DEF nx2, own2
<1>8. \A n \in DOMAIN nx2 : nx2[n] # NULL => own2[nx2[n]] = own2[n]
  <2>1. nx2[p] # NULL => own2[nx2[p]] = own2[p]
    BY <1>1, <1>3, <1>4, <1>5 DEF Linked
  <2>2. ASSUME NEW n \in D \ {x}, n # p, nx2[n] # NULL
        PROVE  own2[nx2[n]] = own2[n]
    BY <2>2, <1>3, <1>4, <1>5 DEF Linked
  <2> QED
    BY <2>1, <2>2, <1>3
<1>9. \A n \in DOMAIN nx2, r \in DOMAIN hd : nx2[n] = hd[r] => nx2[n] = NULL
  BY <1>3 DEF Linked
<1>10. \A n, q \in DOMAIN nx2 : nx2[n] = nx2[q] /\ nx2[n] # NULL => n = q
  BY <1>3 DEF Linked
<1>11. ASSUME NEW S \in SUBSET DOMAIN nx2,
             \A r \in DOMAIN hd : hd[r] \in S \cup {NULL}, \A q \in S : nx2[q] \in S \cup {NULL}
       PROVE  S = DOMAIN nx2
  <2>1. CASE p \in S
    <3>1. \A q \in S \cup {x} : nx[q] \in S \cup {x, NULL}
      BY <2>1, <1>3, <1>11
    <3>2. S \cup {x} = D
      BY <3>1, <1>3, <1>11 DEF Covered
    <3> QED
      BY <3>2, <1>3
  <2>2. CASE p \notin S
    <3>1. \A q \in S : nx[q] \in S \cup {NULL}
      BY <2>2, <1>3, <1>11
    <3>2. S = D
      BY <3>1, <1>3, <1>11 DEF Covered
    <3> QED
      BY <3>2, <2>2
  <2> QED
    BY <2>1, <2>2
<1>12. Forest(nx2, hd, own2)
  <2>1. NULL \notin DOMAIN nx2
    BY <1>3 DEF Linked
  <2> QED
    BY <2>1, <1>3, <1>4, <1>5, <1>6, <1>7, <1>8, <1>9, <1>10, <1>11 DEF Linked, Covered
<1> QED
  BY <1>12 DEF nx2, own2

\* The chains of the program, by the places where they begin.
Heads == [s \in Slots |-> HeadOf(s)]

\* Entries are in the bucket of their key, whichever table it belongs to.
Home(s, k) == s[2] = Bucket(IF s[1] = "ht" THEN ht ELSE nht, k)
Owned(own) == Forest(h.next, Heads, own) /\ \A n \in nodes : Home(own[n], h.key[n])

HashInv ==
    /\ HashTypeOK
    /\ pc_hash # "freed" => ht.size > 0
    /\ pc_hash = "rehash" => nht.size > 0 /\ i < ht.size
    /\ \A n, q \in nodes : h.key[n] = h.key[q] => n = q
    /\ h.strs = 2 * Cardinality(nodes)
    /\ \E own \in [nodes -> Slots] : Owned(own)

\* The fields of a table.
LEMMA TableFields ==
    ASSUME NEW t \in Table
    PROVE  /\ t.size \in Nat /\ t.buckets \in [0 .. t.size - 1 -> Node \cup {NULL}]
           /\ t = [size |-> t.size, buckets |-> t.buckets]
           /\ t.size \in TableSizes \cup {0}
           /\ \A k \in Keys : t.size > 0 => Bucket(t, k) \in 0 .. t.size - 1
<1>1. PICK n \in TableSizes \cup {0} : t \in [size : {n}, buckets : [0 .. n - 1 -> Node \cup {NULL}]]
  BY DEF Table
<1>2. t.size = n /\ n \in Nat
  BY <1>1, HashConstants DEF HashConstants
<1>3. ASSUME NEW k \in Keys, t.size > 0
      PROVE  Bucket(t, k) \in 0 .. t.size - 1
  <2>1. hash[k] \in Nat
    BY HashConstants DEF HashConstants
  <2>2. hash[k] % t.size \in 0 .. t.size - 1
    BY <2>1, <1>2, <1>3, SMT
  <2> QED
    BY <2>2 DEF Bucket
<1> QED
  BY <1>1, <1>2, <1>3

\* The table of make_hashtable.
LEMMA MakeTable ==
    ASSUME NEW n \in TableSizes \cup {0}
    PROVE  /\ make_hashtable(n) \in Table
           /\ make_hashtable(n).size = n
           /\ \A j \in 0 .. n - 1 : make_hashtable(n).buckets[j] = NULL
BY DEF make_hashtable, Table

\* The fields of the heap.
LEMMA HeapFields ==
    ASSUME HashTypeOK
    PROVE  /\ nodes \subseteq Node /\ NULL \notin nodes
           /\ h = [key |-> h.key, val |-> h.val, next |-> h.next, strs |-> h.strs]
           /\ h.key \in [nodes -> Keys] /\ h.val \in [nodes -> Vals]
           /\ h.next \in [nodes -> nodes \cup {NULL}] /\ h.strs \in Nat
           /\ DOMAIN h.key = nodes /\ DOMAIN h.val = nodes /\ DOMAIN h.next = nodes
BY HashConstants DEF HashTypeOK, HashConstants

\* No more nodes than keys, so that malloc has an address for another.
LEMMA FewNodes ==
    ASSUME HashInv
    PROVE  /\ IsFiniteSet(nodes) /\ Cardinality(nodes) \in Nat
           /\ NewNode(h) \in Node /\ NewNode(h) \notin nodes /\ NewNode(h) # NULL
<1>1. h.key \in Injection(nodes, Keys)
  BY HeapFields DEF HashInv, Injection, IsInjective
<1>2. IsFiniteSet(nodes) /\ Cardinality(nodes) <= Cardinality(Keys)
  BY <1>1, FS_Injection, HashConstants DEF HashConstants
<1>3. Cardinality(nodes) \in Nat /\ Cardinality(Keys) \in Nat
  BY <1>2, FS_CardinalityType, HashConstants DEF HashConstants
<1>4. Node # nodes
  BY <1>2, <1>3, HashConstants, SMT DEF HashConstants
<1>5. \E n \in Node : n \notin nodes
  BY <1>4, HeapFields DEF HashInv
<1>6. NewNode(h) \in Node /\ NewNode(h) \notin nodes
  BY <1>5 DEF NewNode, nodes
<1> QED
  BY <1>2, <1>3, <1>6, HashConstants DEF HashConstants

\* The search finds the one node that has the key,
LEMMA FindOnly ==
    ASSUME NEW m, NEW p, NEW k, NEW x \in Chain(m, p), m.key[x] = k, x # NULL,
           \A y \in Chain(m, p) : m.key[y] = k => y = x
    PROVE  Find(m, p, k) = x
<1> DEFINE hits == {n \in Chain(m, p) : m.key[n] = k}
<1>1. hits = {x}
  OBVIOUS
<1>2. x \in Chain(m, x)
  BY DEF Chain
<1>3. \E n \in hits : hits \subseteq Chain(m, n)
  BY <1>1, <1>2
<1>4. (CHOOSE n \in hits : hits \subseteq Chain(m, n)) \in hits
  BY <1>3
<1> QED
  BY <1>1, <1>4 DEF Find

\* and nothing when none has.
LEMMA FindNone ==
    ASSUME NEW m, NEW p, NEW k, \A y \in Chain(m, p) : m.key[y] # k
    PROVE  Find(m, p, k) = NULL
BY DEF Find

\* Where the key of a directive would be: in its bucket of ht.
LEMMA InBucket ==
    ASSUME HashInv, pc_hash = "idle", NEW k \in Keys, NEW own \in [nodes -> Slots], Owned(own)
    PROVE  LET s == <<"ht", Bucket(ht, k)>>
           IN  /\ Bucket(ht, k) \in 0 .. ht.size - 1
               /\ s \in DOMAIN Heads /\ Heads[s] = ht.buckets[Bucket(ht, k)]
               /\ Chain(h, ht.buckets[Bucket(ht, k)]) = {n \in nodes : own[n] = s}
               /\ \A n \in nodes : h.key[n] = k => own[n] = s
<1> DEFINE j == Bucket(ht, k)
           s == <<"ht", j>>
<1>1. j \in 0 .. ht.size - 1
  BY TableFields DEF HashInv, HashTypeOK
<1>2. s \in Slots /\ HeadOf(s) = ht.buckets[j]
  BY <1>1 DEF Slots, HeadOf
<1>3. s \in DOMAIN Heads /\ Heads[s] = ht.buckets[j]
  BY <1>2 DEF Heads
<1>4. Chain(h, Heads[s]) = {n \in nodes : own[n] = s}
  BY <1>3, ChainIs, HeapFields DEF Owned, HashInv
<1>5. ASSUME NEW n \in nodes, h.key[n] = k
      PROVE  own[n] = s
  <2>1. own[n] \in {"ht"} \X (0 .. ht.size - 1)
    BY DEF Slots
  <2>2. own[n][2] = j
    BY <2>1, <1>5 DEF Owned, Home
  <2> QED
    BY <2>1, <2>2
<1> QED
  BY <1>1, <1>3, <1>4, <1>5

\* What the search for it finds; malloc of the strings changes no chain.
LEMMA FindKey ==
    ASSUME HashInv, pc_hash = "idle", NEW k \in Keys,
           NEW m, m.key = h.key, m.next = h.next
    PROVE  LET p == ht.buckets[Bucket(ht, k)]
           IN  /\ \A x \in nodes : h.key[x] = k => Find(m, p, k) = x /\ x \in Chain(h, p)
               /\ (\A x \in nodes : h.key[x] # k) => Find(m, p, k) = NULL
<1> DEFINE p == ht.buckets[Bucket(ht, k)]
<1>1. PICK own \in [nodes -> Slots] : Owned(own)
  BY DEF HashInv
<1>2. Chain(m, p) = Chain(h, p)
  BY DEF Chain
<1>3. Chain(m, p) \subseteq nodes /\ \A x \in nodes : h.key[x] = k => x \in Chain(m, p)
  BY <1>1, <1>2, InBucket
<1>4. ASSUME NEW x \in nodes, h.key[x] = k
      PROVE  Find(m, p, k) = x /\ x \in Chain(h, p)
  <2>1. x # NULL /\ \A y \in Chain(m, p) : m.key[y] = k => y = x
    BY <1>3, <1>4, HeapFields DEF HashInv
  <2> QED
    BY <2>1, <1>2, <1>3, <1>4, FindOnly
<1>5. ASSUME \A x \in nodes : h.key[x] # k
      PROVE  Find(m, p, k) = NULL
  BY <1>3, <1>5, FindNone
<1> QED
  BY <1>4, <1>5

\* The heap after ht_put and after a deletion, field by field.
LEMMA Fields ==
    ASSUME HashTypeOK
    PROVE  LET m == NewStrings(h)
           IN  /\ m = [key |-> h.key, val |-> h.val, next |-> h.next, strs |-> h.strs + 2]
               /\ m.key = h.key /\ m.val = h.val /\ m.next = h.next /\ m.strs = h.strs + 2
BY HeapFields DEF NewStrings

\* ht_put of a key that is there,
LEMMA PutFound ==
    ASSUME HashTypeOK, NEW t, NEW k, NEW v, NEW x,
           Find(NewStrings(h), t.buckets[Bucket(t, k)], k) = x, x # NULL
    PROVE  ht_put(NewStrings(h), t, k, v)
             = [ht |-> t, h |-> [key |-> [h.key EXCEPT ![x] = k], val |-> [h.val EXCEPT ![x] = v],
                                 next |-> h.next, strs |-> h.strs]]
<1> DEFINE m == NewStrings(h)
<1>1. m.key = h.key /\ m.val = h.val /\ m.next = h.next /\ m.strs - 2 = h.strs
  BY Fields, HeapFields
<1> HIDE DEF m
<1>2. Find(m, t.buckets[Bucket(t, k)], k) = x
  BY DEF m
<1>3. ht_put(m, t, k, v)
        = [ht |-> t, h |-> [key |-> [m.key EXCEPT ![x] = k], val |-> [m.val EXCEPT ![x] = v],
                            next |-> m.next, strs |-> m.strs - 2]]
  BY <1>2 DEF ht_put
<1> QED
  BY <1>1, <1>3 DEF m

\* and of one that is not.
LEMMA PutNew ==
    ASSUME HashTypeOK, NEW t, NEW k, NEW v,
           Find(NewStrings(h), t.buckets[Bucket(t, k)], k) = NULL
    PROVE  LET j == Bucket(t, k)
               new == NewNode(h)
           IN  ht_put(NewStrings(h), t, k, v)
             = [ht |-> [t EXCEPT !.buckets[j] = new],
                h |-> [key |-> With(h.key, new, k), val |-> With(h.val, new, v),
                       next |-> With(h.next, new, t.buckets[j]), strs |-> h.strs + 2]]
<1> DEFINE m == NewStrings(h)
<1>1. m.key = h.key /\ m.val = h.val /\ m.next = h.next /\ m.strs = h.strs + 2
  BY Fields
<1>2. NewNode(m) = NewNode(h)
  BY <1>1 DEF NewNode
<1> HIDE DEF m
<1>3. Find(m, t.buckets[Bucket(t, k)], k) = NULL
  BY DEF m
<1>4. ht_put(m, t, k, v)
        = [ht |-> [t EXCEPT !.buckets[Bucket(t, k)] = NewNode(m)],
           h |-> [key |-> With(m.key, NewNode(m), k), val |-> With(m.val, NewNode(m), v),
                  next |-> With(m.next, NewNode(m), t.buckets[Bucket(t, k)]),
                  strs |-> m.strs]]
  BY <1>3 DEF ht_put
<1> QED
  BY <1>1, <1>2, <1>4 DEF m

\* A table with another node at the head of a bucket.
LEMMA TableWith ==
    ASSUME NEW t \in Table, NEW j \in 0 .. t.size - 1, NEW x \in Node \cup {NULL}
    PROVE  LET u == [t EXCEPT !.buckets[j] = x]
           IN  /\ u \in Table /\ u.size = t.size
               /\ u.buckets = [t.buckets EXCEPT ![j] = x]
<1> DEFINE u == [t EXCEPT !.buckets[j] = x]
<1>1. PICK n \in TableSizes \cup {0} : t \in [size : {n}, buckets : [0 .. n - 1 -> Node \cup {NULL}]]
  BY DEF Table
<1>2. u.size = t.size /\ u.buckets = [t.buckets EXCEPT ![j] = x] /\ u = [size |-> u.size, buckets |-> u.buckets]
  BY <1>1
<1>3. u.buckets \in [0 .. n - 1 -> Node \cup {NULL}]
  BY <1>1, <1>2
<1>4. u \in [size : {n}, buckets : [0 .. n - 1 -> Node \cup {NULL}]]
  BY <1>1, <1>2, <1>3
<1> QED
  BY <1>2, <1>4 DEF Table

\* The entry of a node is the map's entry of its key.
LEMMA MapOf ==
    ASSUME NEW D, NEW key, NEW val, \A n, q \in D : key[n] = key[q] => n = q
    PROVE  LET m == [k \in {key[n] : n \in D} |-> val[CHOOSE n \in D : key[n] = k]]
           IN  /\ DOMAIN m = {key[n] : n \in D}
               /\ \A n \in D : m[key[n]] = val[n]
               /\ m = [k \in DOMAIN m |-> m[k]]
<1>1. \A n \in D : (CHOOSE q \in D : key[q] = key[n]) = n
  OBVIOUS
<1> QED
  BY <1>1

\* A bucket gets another first node.
LEMMA HeadsWith ==
    ASSUME HashInv, pc_hash = "idle", pc_hash' = pc_hash, NEW j \in 0 .. ht.size - 1, NEW x,
           ht'.size = ht.size, ht'.buckets = [ht.buckets EXCEPT ![j] = x]
    PROVE  Heads' = [Heads EXCEPT ![<<"ht", j>>] = x]
<1>1. Slots' = Slots /\ Slots = {"ht"} \X (0 .. ht.size - 1)
  BY DEF Slots
<1>2. \A r \in Slots : HeadOf(r)' = IF r = <<"ht", j>> THEN x ELSE HeadOf(r)
  <2> SUFFICES ASSUME NEW r \in Slots
               PROVE  HeadOf(r)' = IF r = <<"ht", j>> THEN x ELSE HeadOf(r)
    OBVIOUS
  <2>1. r[1] = "ht" /\ r[2] \in 0 .. ht.size - 1 /\ (r = <<"ht", j>> <=> r[2] = j)
    BY <1>1
  <2>2. HeadOf(r) = ht.buckets[r[2]] /\ HeadOf(r)' = ht'.buckets[r[2]]
    BY <2>1 DEF HeadOf
  <2>3. ht.buckets \in [0 .. ht.size - 1 -> Node \cup {NULL}]
    BY TableFields DEF HashInv, HashTypeOK
  <2> QED
    BY <2>1, <2>2, <2>3
<1>3. <<"ht", j>> \in Slots
  BY <1>1
<1> QED
  BY <1>1, <1>2, <1>3 DEF Heads

\* "p k v": the key's entry is the value.
LEMMA PutKeeps ==
    ASSUME HashInv, NEW k \in Keys, NEW v \in Vals, Put(k, v)
    PROVE  HashInv' /\ Map!Put(k, v)
<1> DEFINE j == Bucket(ht, k)
           s == <<"ht", j>>
           p == ht.buckets[j]
           m == NewStrings(h)
<1>0. /\ pc_hash = "idle" /\ h' = ht_put(m, ht, k, v).h /\ ht' = ht_put(m, ht, k, v).ht
      /\ UNCHANGED <<nht, i, b, pc_hash>>
  BY DEF Put
<1>1. PICK own \in [nodes -> Slots] : Owned(own)
  BY DEF HashInv
<1>2. /\ j \in 0 .. ht.size - 1 /\ s \in DOMAIN Heads /\ Heads[s] = p
  BY <1>0, <1>1, InBucket
<1>3. /\ \A x \in nodes : h.key[x] = k => Find(m, p, k) = x
      /\ (\A x \in nodes : h.key[x] # k) => Find(m, p, k) = NULL
  <2>1. m.key = h.key /\ m.next = h.next
    BY Fields DEF HashInv
  <2> QED
    BY <1>0, <2>1, FindKey
<1>4. ASSUME NEW x \in nodes, h.key[x] = k
      PROVE  HashInv' /\ Map!Put(k, v)
  <2>1. Find(m, p, k) = x /\ x # NULL
    BY <1>3, <1>4, HeapFields DEF HashInv
  <2>2. ht_put(m, ht, k, v)
             = [ht |-> ht, h |-> [key |-> [h.key EXCEPT ![x] = k], val |-> [h.val EXCEPT ![x] = v],
                                 next |-> h.next, strs |-> h.strs]]
    BY <2>1, PutFound DEF HashInv
  <2>3. [h.key EXCEPT ![x] = k] = h.key
    BY <1>4, HeapFields DEF HashInv
  <2>4. /\ ht' = ht /\ h'.key = h.key /\ h'.val = [h.val EXCEPT ![x] = v]
        /\ h'.next = h.next /\ h'.strs = h.strs
        /\ h' = [key |-> h'.key, val |-> h'.val, next |-> h'.next, strs |-> h'.strs]
    BY <1>0, <2>2, <2>3
  <2>5. nodes' = nodes /\ Slots' = Slots /\ Heads' = Heads
    BY <1>0, <2>4 DEF nodes, Slots, Heads, HeadOf
  <2>6. HashTypeOK'
    <3>1. h'.key \in [nodes -> Keys] /\ h'.val \in [nodes -> Vals]
          /\ h'.next \in [nodes -> nodes \cup {NULL}] /\ h'.strs \in Nat
      BY <2>4, HeapFields DEF HashInv
    <3>2. h' \in [key : [nodes -> Keys], val : [nodes -> Vals],
                  next : [nodes -> nodes \cup {NULL}], strs : Nat]
      BY <2>4, <3>1
    <3> QED
      BY <1>0, <2>4, <2>5, <3>2 DEF HashInv, HashTypeOK, Table
  <2>7. HashInv'
    BY <1>0, <1>1, <2>4, <2>5, <2>6 DEF HashInv, Owned, Home, Bucket
  <2>8. Map!Put(k, v)
    <3>1. /\ map' = [y \in {h.key[n] : n \in nodes} |->
                             h'.val[CHOOSE n \in nodes : h.key[n] = y]]
      BY <2>4, <2>5 DEF map
    <3>2. DOMAIN map = {h.key[n] : n \in nodes}
          /\ \A y \in DOMAIN map : map[y] = h.val[CHOOSE n \in nodes : h.key[n] = y]
      BY DEF map
    <3>3. ASSUME NEW n \in nodes
          PROVE  (CHOOSE q \in nodes : h.key[q] = h.key[n]) = n
      BY DEF HashInv
    <3>4. \A n \in nodes : h'.val[n] = IF h.key[n] = k THEN v ELSE h.val[n]
      BY <1>4, <2>4, HeapFields DEF HashInv
    <3>5. k \in DOMAIN map
      BY <1>4, <3>2
    <3> QED
      BY <3>1, <3>2, <3>3, <3>4, <3>5 DEF Map!Put
  <2> QED
    BY <2>7, <2>8
<1>5. ASSUME \A x \in nodes : h.key[x] # k
      PROVE  HashInv' /\ Map!Put(k, v)
  <2> DEFINE new == NewNode(h)
  <2>1. ht_put(m, ht, k, v)
          = [ht |-> [ht EXCEPT !.buckets[j] = new],
             h |-> [key |-> With(h.key, new, k), val |-> With(h.val, new, v),
                    next |-> With(h.next, new, p), strs |-> h.strs + 2]]
    BY <1>3, <1>5, PutNew DEF HashInv
  <2>2. /\ ht' = [ht EXCEPT !.buckets[j] = new]
        /\ h'.key = With(h.key, new, k) /\ h'.val = With(h.val, new, v)
        /\ h'.next = With(h.next, new, p) /\ h'.strs = h.strs + 2
        /\ h' = [key |-> h'.key, val |-> h'.val, next |-> h'.next, strs |-> h'.strs]
    BY <1>0, <2>1
  <2>3. new \in Node /\ new \notin nodes /\ new # NULL
    BY FewNodes
  <2>4. ht' \in Table /\ ht'.size = ht.size /\ ht'.buckets = [ht.buckets EXCEPT ![j] = new]
    BY <1>2, <2>2, <2>3, TableWith DEF HashInv, HashTypeOK
  <2> HIDE DEF new
  <2>5. nodes' = nodes \cup {new}
    BY <2>2, HeapFields DEF nodes, With
  <2>6. Slots' = Slots /\ Slots = {"ht"} \X (0 .. ht.size - 1)
    BY <1>0, <2>4 DEF Slots
  <2>7. Heads' = [Heads EXCEPT ![s] = new]
    BY <1>0, <1>2, <2>4, HeadsWith
  <2>8. Forest(h'.next, Heads', With(own, new, s))
    <3>1. Forest(h.next, Heads, own) /\ new \notin DOMAIN h.next
      BY <1>1, <2>3, HeapFields DEF Owned, HashInv
    <3>2. s \in DOMAIN Heads
      BY <1>2
    <3> HIDE DEF s
    <3>3. Forest(With(h.next, new, Heads[s]), [Heads EXCEPT ![s] = new], With(own, new, s))
      BY <2>3, <3>1, <3>2, PushFront
    <3> QED
      BY <1>2, <2>2, <2>7, <3>3
  <2>9. /\ \A n \in nodes : h'.key[n] = h.key[n] /\ h'.val[n] = h.val[n] /\ With(own, new, s)[n] = own[n]
        /\ h'.key[new] = k /\ h'.val[new] = v /\ With(own, new, s)[new] = s
        /\ h'.key \in [nodes' -> Keys] /\ h'.val \in [nodes' -> Vals]
        /\ h'.next \in [nodes' -> nodes' \cup {NULL}]
        /\ With(own, new, s) \in [nodes' -> Slots']
    <3>1. p \in nodes \cup {NULL}
      BY <1>1, <1>2, HeapFields DEF Owned, Forest, Linked, HashInv
    <3>2. s \in Slots
      BY <1>2 DEF Heads
    <3> QED
      BY <2>2, <2>3, <2>5, <2>6, <3>1, <3>2, HeapFields DEF With, HashInv
  <2>10. HashTypeOK'
    <3>1. h' \in [key : [nodes' -> Keys], val : [nodes' -> Vals],
                  next : [nodes' -> nodes' \cup {NULL}], strs : Nat]
      BY <2>2, <2>9, HeapFields DEF HashInv
    <3>2. Table' = Table
      BY DEF Table
    <3> QED
      BY <1>0, <2>3, <2>4, <2>5, <3>1, <3>2, HeapFields DEF HashInv, HashTypeOK
  <2>11. h'.strs = 2 * Cardinality(nodes')
    <3>1. Cardinality(nodes') = Cardinality(nodes) + 1 /\ Cardinality(nodes) \in Nat
      BY <2>3, <2>5, FewNodes, FS_AddElement
    <3> QED
      BY <2>2, <3>1 DEF HashInv
  <2>12. PICK own2 : own2 = With(own, new, s)
    OBVIOUS
  <2>13. HashInv'
    <3>1. \A n, q \in nodes' : h'.key[n] = h'.key[q] => n = q
      BY <1>5, <2>5, <2>9 DEF HashInv
    <3>2. \A n \in nodes' :
              own2[n][2] = hash[h'.key[n]] % (IF own2[n][1] = "ht" THEN ht' ELSE nht').size
      <4> SUFFICES ASSUME NEW n \in nodes'
                   PROVE  own2[n][2] = hash[h'.key[n]] % (IF own2[n][1] = "ht" THEN ht' ELSE nht').size
        OBVIOUS
      <4>1. CASE n = new
        BY <2>4, <2>9, <2>12, <4>1 DEF Bucket
      <4>2. CASE n \in nodes
        BY <1>0, <1>1, <2>4, <2>9, <2>12, <4>2 DEF Owned, Home, Bucket
      <4> QED
        BY <2>5, <4>1, <4>2
    <3>3. own2 \in [nodes' -> Slots'] /\ Forest(h'.next, Heads', own2)
      BY <2>8, <2>9, <2>12
    <3>4. (\E o \in [nodes -> Slots] : Owned(o))'
      BY <3>2, <3>3 DEF Owned, Home, Bucket
    <3> QED
      BY <1>0, <2>4, <2>10, <2>11, <3>1, <3>4 DEF HashInv
  <2>14. Map!Put(k, v)
    <3>1. /\ DOMAIN map' = {h'.key[n] : n \in nodes'}
          /\ \A n \in nodes' : map'[h'.key[n]] = h'.val[n]
          /\ map' = [y \in DOMAIN map' |-> map'[y]]
      BY <2>13 DEF HashInv, map
    <3>2. /\ DOMAIN map = {h.key[n] : n \in nodes}
          /\ \A n \in nodes : map[h.key[n]] = h.val[n]
      BY DEF HashInv, map
    <3>3. DOMAIN map' = DOMAIN map \cup {k}
      BY <2>5, <2>9, <3>1, <3>2
    <3>4. ASSUME NEW y \in DOMAIN map'
          PROVE  map'[y] = IF y = k THEN v ELSE map[y]
      <4>1. PICK n \in nodes' : y = h'.key[n]
        BY <3>1, <3>4
      <4> QED
        BY <1>5, <2>5, <2>9, <3>1, <3>2, <4>1
    <3> QED
      BY <3>1, <3>3, <3>4 DEF Map!Put
  <2> QED
    BY <2>13, <2>14
<1> QED
  BY <1>4, <1>5

\* The heap after free of a node and its strings, field by field.
LEMMA FreeFields ==
    ASSUME HashTypeOK, NEW x, NEW nx
    PROVE  /\ FreeNodes([h EXCEPT !.next = nx], {x})
                = [key |-> Without(h.key, {x}), val |-> Without(h.val, {x}),
                   next |-> Without(nx, {x}), strs |-> h.strs - 2]
           /\ FreeNodes(h, {x})
                = [key |-> Without(h.key, {x}), val |-> Without(h.val, {x}),
                   next |-> Without(h.next, {x}), strs |-> h.strs - 2]
<1>1. 2 * Cardinality({x}) = 2
  <2>1. Cardinality({x}) = 1
    BY FS_Singleton
  <2> QED
    BY <2>1
<1> DEFINE m == [h EXCEPT !.next = nx]
<1>2. m.key = h.key /\ m.val = h.val /\ m.next = nx /\ m.strs = h.strs
  BY HeapFields
<1> HIDE DEF m
<1>3. FreeNodes(m, {x})
        = [key |-> Without(m.key, {x}), val |-> Without(m.val, {x}),
           next |-> Without(m.next, {x}), strs |-> m.strs - 2]
  <2>1. PICK c : c = 2 * Cardinality({x})
    OBVIOUS
  <2>2. FreeNodes(m, {x})
        = [key |-> Without(m.key, {x}), val |-> Without(m.val, {x}),
           next |-> Without(m.next, {x}), strs |-> m.strs - c]
    BY <2>1 DEF FreeNodes
  <2> QED
    BY <1>1, <2>1, <2>2
<1>4. FreeNodes(h, {x})
        = [key |-> Without(h.key, {x}), val |-> Without(h.val, {x}),
           next |-> Without(h.next, {x}), strs |-> h.strs - 2]
  <2>1. PICK c : c = 2 * Cardinality({x})
    OBVIOUS
  <2>2. FreeNodes(h, {x})
        = [key |-> Without(h.key, {x}), val |-> Without(h.val, {x}),
           next |-> Without(h.next, {x}), strs |-> h.strs - c]
    BY <2>1 DEF FreeNodes
  <2> QED
    BY <1>1, <2>1, <2>2
<1> QED
  BY <1>2, <1>3, <1>4 DEF m

\* A node has left its chain, its entry leaves the map.
LEMMA RemovedKeeps ==
    ASSUME HashInv, pc_hash = "idle", UNCHANGED <<nht, i, b, pc_hash>>,
           NEW own \in [nodes -> Slots], Owned(own), NEW x \in nodes,
           ht' \in Table, ht'.size = ht.size,
           NEW nx, DOMAIN nx = nodes \ {x}, Forest(nx, Heads', Without(own, {x})),
           h' = [key |-> Without(h.key, {x}), val |-> Without(h.val, {x}),
                 next |-> nx, strs |-> h.strs - 2]
    PROVE  HashInv' /\ Map!Del(h.key[x])
<1>1. /\ h'.key = Without(h.key, {x}) /\ h'.val = Without(h.val, {x})
      /\ h'.next = nx /\ h'.strs = h.strs - 2
      /\ h' = [key |-> h'.key, val |-> h'.val, next |-> h'.next, strs |-> h'.strs]
  OBVIOUS
<1>2. nodes' = nodes \ {x}
  BY <1>1, HeapFields DEF nodes, Without, HashInv
<1>3. Slots' = Slots
  BY DEF Slots
<1>4. PICK own2 : own2 = Without(own, {x})
  OBVIOUS
<1>5. /\ \A n \in nodes' : h'.key[n] = h.key[n] /\ h'.val[n] = h.val[n] /\ own2[n] = own[n]
      /\ h'.key \in [nodes' -> Keys] /\ h'.val \in [nodes' -> Vals]
      /\ h'.next \in [nodes' -> nodes' \cup {NULL}]
      /\ own2 \in [nodes' -> Slots']
  BY <1>1, <1>2, <1>3, <1>4, HeapFields DEF Without, HashInv, Forest, Linked
<1>6. Cardinality(nodes') = Cardinality(nodes) - 1 /\ Cardinality(nodes') \in Nat
  <2>1. IsFiniteSet(nodes')
    BY <1>2, FewNodes, FS_Subset
  <2> QED
    BY <2>1, <1>2, FewNodes, FS_RemoveElement, FS_CardinalityType
<1>7. h'.strs = 2 * Cardinality(nodes') /\ h'.strs \in Nat
  BY <1>1, <1>6, FewNodes DEF HashInv
<1>8. HashTypeOK'
  <2>1. h' \in [key : [nodes' -> Keys], val : [nodes' -> Vals],
                next : [nodes' -> nodes' \cup {NULL}], strs : Nat]
    BY <1>1, <1>5, <1>7
  <2>2. Table' = Table
    BY DEF Table
  <2> QED
    BY <1>2, <2>1, <2>2, HeapFields DEF HashInv, HashTypeOK
<1>9. HashInv'
  <2>1. \A n, q \in nodes' : h'.key[n] = h'.key[q] => n = q
    BY <1>2, <1>5 DEF HashInv
  <2>2. \A n \in nodes' :
            own2[n][2] = hash[h'.key[n]] % (IF own2[n][1] = "ht" THEN ht' ELSE nht').size
    <3> SUFFICES ASSUME NEW n \in nodes'
                 PROVE  own2[n][2] = hash[h'.key[n]] % (IF own2[n][1] = "ht" THEN ht' ELSE nht').size
      OBVIOUS
    <3>1. own2[n] = own[n] /\ h'.key[n] = h.key[n] /\ n \in nodes
      BY <1>2, <1>5
    <3>2. own[n][2] = hash[h.key[n]] % (IF own[n][1] = "ht" THEN ht ELSE nht).size
      BY <3>1 DEF Owned, Home, Bucket
    <3> QED
      BY <3>1, <3>2
  <2>3. (\E o \in [nodes -> Slots] : Owned(o))'
    BY <2>2, <1>1, <1>4, <1>5 DEF Owned, Home, Bucket
  <2> QED
    BY <1>1, <1>7, <1>8, <2>1, <2>3 DEF HashInv
<1>10. Map!Del(h.key[x])
  <2>1. /\ DOMAIN map' = {h'.key[n] : n \in nodes'}
        /\ \A n \in nodes' : map'[h'.key[n]] = h'.val[n]
        /\ map' = [y \in DOMAIN map' |-> map'[y]]
    <3>1. \A n, q \in nodes' : h'.key[n] = h'.key[q] => n = q
      BY <1>9 DEF HashInv
    <3>2. \A n \in nodes' : (CHOOSE q \in nodes' : h'.key[q] = h'.key[n]) = n
      BY <3>1
    <3> DEFINE S == {h'.key[n] : n \in nodes'}
               F(y) == h'.val[CHOOSE n \in nodes' : h'.key[n] = y]
    <3>3. map' = [y \in S |-> F(y)]
      BY DEF map
    <3>5. \A n \in nodes' : h'.key[n] \in S /\ F(h'.key[n]) = h'.val[n]
      BY <3>2
    <3> HIDE DEF F
    <3>4. DOMAIN map' = {h'.key[n] : n \in nodes'}
      BY <3>3
    <3>6. \A n \in nodes' : map'[h'.key[n]] = h'.val[n]
      BY <3>3, <3>5
    <3> HIDE DEF S
    <3>7. map' = [y \in DOMAIN map' |-> map'[y]]
      BY <3>3
    <3> QED
      BY <3>4, <3>6, <3>7
  <2>2. /\ DOMAIN map = {h.key[n] : n \in nodes}
        /\ \A n \in nodes : map[h.key[n]] = h.val[n]
    BY DEF HashInv, map
  <2>3. DOMAIN map' = DOMAIN map \ {h.key[x]}
    <3>1. ASSUME NEW y
          PROVE  y \in DOMAIN map' <=> y \in DOMAIN map /\ y # h.key[x]
      <4>1. y \in DOMAIN map' <=> \E n \in nodes \ {x} : y = h.key[n]
        <5>1. y \in DOMAIN map' <=> \E n \in nodes' : y = h'.key[n]
          BY <2>1
        <5> QED
          BY <5>1, <1>2, <1>5
      <4>2. y \in DOMAIN map <=> \E n \in nodes : y = h.key[n]
        BY <2>2
      <4> QED
        BY <4>1, <4>2 DEF HashInv
    <3> QED
      BY <3>1
  <2>4. \A y \in DOMAIN map' : map'[y] = map[y]
    <3> SUFFICES ASSUME NEW y \in DOMAIN map'
                 PROVE  map'[y] = map[y]
      OBVIOUS
    <3>1. PICK n \in nodes' : y = h'.key[n]
      BY <2>1
    <3>2. n \in nodes /\ y = h.key[n] /\ h'.val[n] = h.val[n]
      BY <3>1, <1>2, <1>5
    <3> QED
      BY <3>1, <3>2, <2>1, <2>2
  <2> QED
    BY <2>1, <2>3, <2>4 DEF Map!Del
<1> QED
  BY <1>9, <1>10

\* "d k": the key has no entry.
LEMMA DelKeeps ==
    ASSUME HashInv, NEW k \in Keys, Del(k)
    PROVE  HashInv' /\ Map!Del(k)
<1> DEFINE j == Bucket(ht, k)
           s == <<"ht", j>>
           p == ht.buckets[j]
<1>0. /\ pc_hash = "idle" /\ h' = ht_del(h, ht, k).h /\ ht' = ht_del(h, ht, k).ht
      /\ UNCHANGED <<nht, i, b, pc_hash>>
  BY DEF Del
<1>1. PICK own \in [nodes -> Slots] : Owned(own)
  BY DEF HashInv
<1>2. /\ j \in 0 .. ht.size - 1 /\ s \in DOMAIN Heads /\ Heads[s] = p
      /\ Chain(h, p) = {n \in nodes : own[n] = s}
      /\ \A n \in nodes : h.key[n] = k => own[n] = s
  BY <1>0, <1>1, InBucket
<1>3. /\ \A x \in nodes : h.key[x] = k => Find(h, p, k) = x
      /\ (\A x \in nodes : h.key[x] # k) => Find(h, p, k) = NULL
  BY <1>0, FindKey
<1>4. CASE \A x \in nodes : h.key[x] # k
  <2>1. h' = h /\ ht' = ht
    BY <1>0, <1>3, <1>4 DEF ht_del
  <2>2. HashInv'
    <3>1. nodes' = nodes /\ Slots' = Slots /\ Heads' = Heads
      BY <1>0, <2>1 DEF nodes, Slots, HeadOf, Heads
    <3>2. HashTypeOK'
      BY <1>0, <2>1, <3>1 DEF HashInv, HashTypeOK, Table
    <3> QED
      BY <1>0, <1>1, <2>1, <3>1, <3>2 DEF HashInv, Owned, Home, Bucket
  <2>3. map' = map
    BY <2>1 DEF map, nodes
  <2>4. k \notin DOMAIN map /\ map = [y \in DOMAIN map |-> map[y]]
    BY <1>4 DEF map
  <2> QED
    BY <2>2, <2>3, <2>4 DEF Map!Del
<1>5. ASSUME NEW x \in nodes, h.key[x] = k
      PROVE  HashInv' /\ Map!Del(k)
  <2>1. Find(h, p, k) = x /\ x # NULL /\ own[x] = s
    BY <1>2, <1>3, <1>5, HeapFields DEF HashInv
  <2>2. Forest(h.next, Heads, own) /\ DOMAIN h.next = nodes
    BY <1>1, HeapFields DEF Owned, HashInv
  <2>3. CASE x = p
    <3>1. ht' = [ht EXCEPT !.buckets[j] = h.next[x]] /\ h' = FreeNodes(h, {x})
      BY <1>0, <2>1, <2>3 DEF ht_del
    <3>2. h.next[x] \in Node \cup {NULL}
      BY HeapFields DEF HashInv
    <3>3. ht' \in Table /\ ht'.size = ht.size /\ ht'.buckets = [ht.buckets EXCEPT ![j] = h.next[x]]
      BY <1>2, <3>1, <3>2, TableWith DEF HashInv, HashTypeOK
    <3>4. Heads' = [Heads EXCEPT ![s] = h.next[x]]
      BY <1>0, <1>2, <3>3, HeadsWith
    <3>5. Forest(Without(h.next, {x}), Heads', Without(own, {x}))
      <4>1. Heads[s] = x /\ s \in DOMAIN Heads
        BY <1>2, <2>3
      <4> HIDE DEF s
      <4>2. Forest(Without(h.next, {Heads[s]}), [Heads EXCEPT ![s] = h.next[Heads[s]]],
                   Without(own, {Heads[s]}))
        BY <2>1, <2>2, <4>1, PopFront
      <4> QED
        BY <3>4, <4>1, <4>2
    <3>6. DOMAIN Without(h.next, {x}) = nodes \ {x}
      BY <2>2 DEF Without
    <3> QED
      BY <1>0, <1>1, <1>5, <3>1, <3>3, <3>5, <3>6, FreeFields, RemovedKeeps DEF HashInv
  <2>4. CASE x # p
    <3> DEFINE prev == CHOOSE q \in Chain(h, p) : h.next[q] = x
    <3>1. PICK q \in nodes \ {x} : h.next[q] = x
      BY <1>2, <2>1, <2>2, <2>4, Predecessor
    <3>2. own[q] = s
      BY <2>1, <2>2, <3>1 DEF Forest, Linked
    <3>3. prev = q
      BY <1>2, <2>1, <2>2, <3>1, <3>2 DEF Forest, Linked
    <3>4. ht' = ht /\ h' = FreeNodes([h EXCEPT !.next[q] = h.next[x]], {x})
      BY <1>0, <2>1, <2>4, <3>3 DEF ht_del
    <3> DEFINE nx == [h.next EXCEPT ![q] = h.next[x]]
    <3>5. [h EXCEPT !.next[q] = h.next[x]] = [h EXCEPT !.next = nx]
      OBVIOUS
    <3>6. Heads' = Heads
      BY <1>0, <3>4 DEF Heads, HeadOf, Slots
    <3>7. Forest(Without(nx, {x}), Heads', Without(own, {x}))
      BY <2>2, <3>1, <3>6, Unlink
    <3>8. DOMAIN Without(nx, {x}) = nodes \ {x}
      BY <2>2 DEF Without
    <3> HIDE DEF nx
    <3>9. h' = [key |-> Without(h.key, {x}), val |-> Without(h.val, {x}),
                next |-> Without(nx, {x}), strs |-> h.strs - 2]
      BY <3>4, <3>5, FreeFields DEF HashInv
    <3>10. ht' \in Table /\ ht'.size = ht.size
      BY <3>4 DEF HashInv, HashTypeOK
    <3> QED
      BY <1>0, <1>1, <1>5, <3>7, <3>8, <3>9, <3>10, RemovedKeeps
  <2> QED
    BY <2>3, <2>4
<1> QED
  BY <1>4, <1>5

\* A chain that begins with NULL has no nodes.
LEMMA EmptyChain ==
    ASSUME NEW own, Forest(h.next, Heads, own), NEW s \in DOMAIN Heads, Heads[s] = NULL, NEW n \in DOMAIN h.next
    PROVE  own[n] # s
<1>1. Chain(h, Heads[s]) = {q \in DOMAIN h.next : own[q] = s}
  BY ChainIs
<1>2. Chain(h, NULL) = {}
  BY DEF Chain
<1> QED
  BY <1>1, <1>2

\* A step that changes no node.
LEMMA SameHeap ==
    ASSUME HashInv, h' = h, ht' \in Table, nht' \in Table,
           i' \in Nat, b' \in Node \cup {NULL}, pc_hash' \in {"idle", "rehash", "crashed"},
           ht'.size > 0, pc_hash' = "rehash" => nht'.size > 0 /\ i' < ht'.size,
           NEW own2 \in [nodes -> Slots'], Forest(h.next, Heads', own2),
           \A n \in nodes : own2[n][2] = hash[h.key[n]] % (IF own2[n][1] = "ht" THEN ht' ELSE nht').size
    PROVE  HashInv' /\ map' = map
<1>1. nodes' = nodes
  BY DEF nodes
<1>2. HashTypeOK'
  BY <1>1 DEF HashInv, HashTypeOK, Table
<1>3. (\E o \in [nodes -> Slots] : Owned(o))'
  BY <1>1 DEF Owned, Home, Bucket
<1>4. HashInv'
  BY <1>1, <1>2, <1>3 DEF HashInv
<1> QED
  BY <1>1, <1>4 DEF map

\* ht_del on an empty bucket.
LEMMA CrashKeeps ==
    ASSUME HashInv, pc_hash = "idle", pc_hash' = "crashed", UNCHANGED <<h, ht, nht, i, b>>
    PROVE  HashInv' /\ map' = map
<1>1. PICK own \in [nodes -> Slots] : Owned(own)
  BY DEF HashInv
<1>2. Slots' = Slots /\ Heads' = Heads
  BY DEF Slots, HeadOf, Heads
<1>3. /\ own \in [nodes -> Slots'] /\ Forest(h.next, Heads', own)
      /\ \A n \in nodes : own[n][2] = hash[h.key[n]] % (IF own[n][1] = "ht" THEN ht' ELSE nht').size
  BY <1>1, <1>2 DEF Owned, Home, Bucket
<1>4. /\ ht' \in Table /\ nht' \in Table /\ i' \in Nat /\ b' \in Node \cup {NULL}
      /\ ht'.size > 0
  BY DEF HashInv, HashTypeOK
<1> QED
  BY <1>3, <1>4, SameHeap

\* ht_rehash begins with an empty table.
LEMMA RehashKeeps ==
    ASSUME HashInv, NEW size \in TableSizes, Rehash(size)
    PROVE  HashInv' /\ map' = map
<1>1. PICK own \in [nodes -> Slots] : Owned(own)
  BY DEF HashInv
<1>2. /\ pc_hash = "idle" /\ pc_hash' = "rehash" /\ h' = h /\ ht' = ht
      /\ nht' = make_hashtable(size) /\ i' = 0 /\ b' = ht.buckets[0]
  BY DEF Rehash
<1>3. /\ nht' \in Table /\ nht'.size = size /\ size \in Nat /\ size > 0
      /\ \A j \in 0 .. size - 1 : nht'.buckets[j] = NULL
  BY <1>2, MakeTable, HashConstants DEF HashConstants
<1>4. ht \in Table /\ ht.size \in Nat /\ ht.size > 0 /\ ht.buckets \in [0 .. ht.size - 1 -> Node \cup {NULL}]
  BY <1>2, TableFields DEF HashInv, HashTypeOK
<1>5. /\ Slots = {"ht"} \X (0 .. ht.size - 1)
      /\ Slots' = Slots \cup ({"nht"} \X (0 .. size - 1))
  BY <1>2, <1>3 DEF Slots
<1>6. /\ DOMAIN Heads = Slots /\ DOMAIN Heads' = Slots' /\ Heads' = [s \in Slots' |-> Heads'[s]]
      /\ \A s \in Slots : Heads'[s] = Heads[s]
      /\ \A s \in {"nht"} \X (0 .. size - 1) : Heads'[s] = NULL
  <2>1. \A s \in Slots : HeadOf(s)' = HeadOf(s)
    <3> SUFFICES ASSUME NEW s \in Slots PROVE HeadOf(s)' = HeadOf(s)
      OBVIOUS
    <3>1. s[1] = "ht" /\ s[2] \in 0 .. ht.size - 1
      BY <1>5
    <3> QED
      BY <1>2, <3>1 DEF HeadOf
  <2>2. \A s \in {"nht"} \X (0 .. size - 1) : HeadOf(s)' = NULL
    BY <1>3 DEF HeadOf
  <2> QED
    BY <1>5, <2>1, <2>2 DEF Heads
<1>7. Forest(h.next, Heads, own) /\ DOMAIN h.next = nodes
  BY <1>1, HeapFields DEF Owned, HashInv
<1>8. Forest(h.next, Heads', own)
  <2>0. /\ \A s \in DOMAIN Heads : Heads[s] \in DOMAIN h.next \cup {NULL}
        /\ \A s \in DOMAIN Heads : Heads[s] # NULL => own[Heads[s]] = s
        /\ \A n \in DOMAIN h.next : h.next[n] # NULL => own[h.next[n]] = own[n]
    BY <1>7 DEF Forest, Linked
  <2>1. Heads' \in [DOMAIN Heads' -> DOMAIN h.next \cup {NULL}]
    <3>1. \A s \in Slots' : Heads'[s] \in DOMAIN h.next \cup {NULL}
      BY <1>5, <1>6, <2>0
    <3> QED
      BY <1>6, <3>1
  <2>2. own \in [DOMAIN h.next -> DOMAIN Heads']
    BY <1>5, <1>6, <1>7
  <2>3. \A s \in DOMAIN Heads' : Heads'[s] # NULL => own[Heads'[s]] = s /\ \E r \in DOMAIN Heads : Heads[r] = Heads'[s]
    BY <1>5, <1>6, <2>0
  <2>4. \A r \in DOMAIN Heads : Heads[r] # NULL => \E s \in DOMAIN Heads' : Heads'[s] = Heads[r]
    BY <1>5, <1>6
  <2> QED
    BY <1>7, <2>0, <2>1, <2>2, <2>3, <2>4, Relabel
<1>9. \A n \in nodes : own[n][2] = hash[h.key[n]] % (IF own[n][1] = "ht" THEN ht' ELSE nht').size
  <2> SUFFICES ASSUME NEW n \in nodes
               PROVE  own[n][2] = hash[h.key[n]] % (IF own[n][1] = "ht" THEN ht' ELSE nht').size
    OBVIOUS
  <2>1. own[n][1] = "ht"
    BY <1>5
  <2> QED
    BY <2>1, <1>1, <1>2 DEF Owned, Home, Bucket
<1>10. own \in [nodes -> Slots']
  BY <1>5
<1>11. b' \in Node \cup {NULL} /\ i' \in Nat
  BY <1>2, <1>4
<1> QED
  BY <1>2, <1>3, <1>4, <1>8, <1>9, <1>10, <1>11, SameHeap

\* While ht_rehash runs: where chains begin, and what is at the place of b.
LEMMA RehashSlots ==
    ASSUME HashInv, pc_hash = "rehash"
    PROVE  /\ ht \in Table /\ nht \in Table /\ ht.size \in Nat /\ nht.size \in Nat /\ nht.size > 0
           /\ i \in Nat /\ i < ht.size
           /\ ht.buckets \in [0 .. ht.size - 1 -> Node \cup {NULL}]
           /\ nht.buckets \in [0 .. nht.size - 1 -> Node \cup {NULL}]
           /\ DOMAIN Heads = ({"ht"} \X (i .. ht.size - 1)) \cup ({"nht"} \X (0 .. nht.size - 1))
           /\ Slots = DOMAIN Heads
           /\ <<"ht", i>> \in DOMAIN Heads /\ Heads[<<"ht", i>>] = b
           /\ \A j \in i + 1 .. ht.size - 1 : Heads[<<"ht", j>>] = ht.buckets[j]
           /\ \A j \in 0 .. nht.size - 1 : Heads[<<"nht", j>>] = nht.buckets[j]
<1>1. /\ ht \in Table /\ nht \in Table /\ ht.size \in Nat /\ nht.size \in Nat /\ nht.size > 0
      /\ i \in Nat /\ i < ht.size
      /\ ht.buckets \in [0 .. ht.size - 1 -> Node \cup {NULL}]
      /\ nht.buckets \in [0 .. nht.size - 1 -> Node \cup {NULL}]
  BY TableFields DEF HashInv, HashTypeOK
<1>2. Slots = ({"ht"} \X (i .. ht.size - 1)) \cup ({"nht"} \X (0 .. nht.size - 1))
  BY DEF Slots
<1>3. /\ <<"ht", i>> \in Slots /\ \A j \in i + 1 .. ht.size - 1 : <<"ht", j>> \in Slots
      /\ \A j \in 0 .. nht.size - 1 : <<"nht", j>> \in Slots
  BY <1>1, <1>2
<1>4. /\ HeadOf(<<"ht", i>>) = b
      /\ \A j \in i + 1 .. ht.size - 1 : HeadOf(<<"ht", j>>) = ht.buckets[j]
      /\ \A j \in 0 .. nht.size - 1 : HeadOf(<<"nht", j>>) = nht.buckets[j]
  BY <1>1 DEF HeadOf
<1> QED
  BY <1>1, <1>2, <1>3, <1>4 DEF Heads

\* All of a bucket has been moved.
LEMMA NextBucketKeeps ==
    ASSUME HashInv, RehashNextBucket
    PROVE  HashInv' /\ map' = map
<1>1. PICK own \in [nodes -> Slots] : Owned(own)
  BY DEF HashInv
<1>2. /\ pc_hash = "rehash" /\ pc_hash' = "rehash" /\ h' = h /\ ht' = ht /\ nht' = nht
      /\ b = NULL /\ i + 1 < ht.size /\ i' = i + 1 /\ b' = ht.buckets[i + 1]
  BY DEF RehashNextBucket
<1>3. /\ DOMAIN Heads' = ({"ht"} \X (i + 1 .. ht.size - 1)) \cup ({"nht"} \X (0 .. nht.size - 1))
      /\ DOMAIN Heads = DOMAIN Heads' \cup {<<"ht", i>>}
      /\ Slots' = DOMAIN Heads'
  <2>1. Slots' = ({"ht"} \X (i + 1 .. ht.size - 1)) \cup ({"nht"} \X (0 .. nht.size - 1))
    BY <1>2 DEF Slots
  <2>2. i .. ht.size - 1 = (i + 1 .. ht.size - 1) \cup {i}
    BY <1>2, RehashSlots
  <2>3. DOMAIN Heads' = Slots'
    BY DEF Heads
  <2> QED
    BY <2>1, <2>2, <2>3, <1>2, RehashSlots
<1>4. \A s \in DOMAIN Heads' : Heads'[s] = Heads[s]
  <2> SUFFICES ASSUME NEW s \in DOMAIN Heads'
               PROVE  HeadOf(s)' = Heads[s]
    BY <1>3 DEF Heads
  <2>1. CASE s \in {"ht"} \X (i + 1 .. ht.size - 1)
    <3>1. PICK j \in i + 1 .. ht.size - 1 : s = <<"ht", j>>
      BY <2>1
    <3>2. Heads[s] = ht.buckets[j]
      BY <1>2, <3>1, RehashSlots
    <3>3. HeadOf(s)' = IF j = i' THEN b' ELSE ht'.buckets[j]
      BY <1>2, <3>1 DEF HeadOf
    <3> QED
      BY <1>2, <3>1, <3>2, <3>3
  <2>2. CASE s \in {"nht"} \X (0 .. nht.size - 1)
    <3>1. PICK j \in 0 .. nht.size - 1 : s = <<"nht", j>>
      BY <2>2
    <3> QED
      BY <1>2, <3>1, RehashSlots DEF HeadOf
  <2> QED
    BY <1>3, <2>1, <2>2
<1>5. Forest(h.next, Heads, own) /\ DOMAIN h.next = nodes
  BY <1>1, HeapFields DEF Owned, HashInv
<1>6. \A n \in nodes : own[n] # <<"ht", i>>
  BY <1>2, <1>5, RehashSlots, EmptyChain
<1>7. own \in [nodes -> DOMAIN Heads']
  BY <1>2, <1>3, <1>6, RehashSlots
<1>8. Forest(h.next, Heads', own)
  <2>0. /\ \A s \in DOMAIN Heads : Heads[s] \in DOMAIN h.next \cup {NULL}
        /\ \A s \in DOMAIN Heads : Heads[s] # NULL => own[Heads[s]] = s
        /\ \A n \in DOMAIN h.next : h.next[n] # NULL => own[h.next[n]] = own[n]
    BY <1>5 DEF Forest, Linked
  <2>1. Heads' \in [DOMAIN Heads' -> DOMAIN h.next \cup {NULL}]
    <3>1. Heads' = [s \in DOMAIN Heads' |-> Heads'[s]]
      BY DEF Heads
    <3>2. \A s \in DOMAIN Heads' : Heads'[s] \in DOMAIN h.next \cup {NULL}
      BY <1>3, <1>4, <2>0
    <3> QED
      BY <3>1, <3>2
  <2>2. own \in [DOMAIN h.next -> DOMAIN Heads']
    BY <1>5, <1>7
  <2>3. \A s \in DOMAIN Heads' : Heads'[s] # NULL => own[Heads'[s]] = s /\ \E r \in DOMAIN Heads : Heads[r] = Heads'[s]
    BY <1>3, <1>4, <2>0
  <2>4. \A r \in DOMAIN Heads : Heads[r] # NULL => \E s \in DOMAIN Heads' : Heads'[s] = Heads[r]
    <3>1. Heads[<<"ht", i>>] = NULL
      BY <1>2, RehashSlots
    <3> QED
      BY <1>3, <1>4, <3>1
  <2> QED
    BY <1>5, <2>0, <2>1, <2>2, <2>3, <2>4, Relabel
<1>9. /\ \A n \in nodes : own[n][2] = hash[h.key[n]] % (IF own[n][1] = "ht" THEN ht' ELSE nht').size
      /\ own \in [nodes -> Slots']
  BY <1>1, <1>2, <1>3, <1>7 DEF Owned, Home, Bucket
<1>10. /\ b' \in Node \cup {NULL} /\ i' \in Nat
       /\ ht' \in Table /\ nht' \in Table /\ ht'.size > 0 /\ nht'.size > 0 /\ i' < ht'.size
  BY <1>2, RehashSlots
<1> QED
  BY <1>2, <1>8, <1>9, <1>10, SameHeap

\* All of the table has: its buckets are empty, and the new one takes its place.
LEMMA HashReturnKeeps ==
    ASSUME HashInv, RehashReturn
    PROVE  HashInv' /\ map' = map
<1>1. PICK own \in [nodes -> Slots] : Owned(own)
  BY DEF HashInv
<1>2. /\ pc_hash = "rehash" /\ pc_hash' = "idle" /\ h' = h /\ ht' = nht /\ nht' = nht
      /\ b = NULL /\ b' = b /\ i + 1 = ht.size /\ i' = 0
  BY DEF RehashReturn
<1>3. DOMAIN Heads' = {"ht"} \X (0 .. nht.size - 1) /\ Slots' = DOMAIN Heads'
  BY <1>2 DEF Slots, Heads
<1>4. \A j \in 0 .. nht.size - 1 : Heads'[<<"ht", j>>] = Heads[<<"nht", j>>]
  <2> SUFFICES ASSUME NEW j \in 0 .. nht.size - 1
               PROVE  Heads'[<<"ht", j>>] = Heads[<<"nht", j>>]
    OBVIOUS
  <2>1. <<"ht", j>> \in Slots'
    BY <1>3
  <2>2. Heads'[<<"ht", j>>] = HeadOf(<<"ht", j>>)'
    BY <2>1 DEF Heads
  <2>3. HeadOf(<<"ht", j>>)' = nht.buckets[j]
    BY <1>2 DEF HeadOf
  <2> QED
    BY <1>2, <2>2, <2>3, RehashSlots
<1>5. Forest(h.next, Heads, own) /\ DOMAIN h.next = nodes
  BY <1>1, HeapFields DEF Owned, HashInv
<1>6. \A n \in nodes : own[n] # <<"ht", i>>
  BY <1>2, <1>5, RehashSlots, EmptyChain
<1>7. \A n \in nodes : own[n] \in {"nht"} \X (0 .. nht.size - 1)
  <2>1. i .. ht.size - 1 = {i}
    BY <1>2, RehashSlots
  <2> QED
    BY <1>2, <1>6, <2>1, RehashSlots
<1>8. PICK own2 : own2 = [n \in nodes |-> <<"ht", own[n][2]>>]
  OBVIOUS
<1>9. /\ own2 \in [nodes -> DOMAIN Heads']
      /\ \A n \in nodes : own[n] = <<"nht", own[n][2]>> /\ own2[n] = <<"ht", own[n][2]>>
                               /\ own[n][2] \in 0 .. nht.size - 1
  BY <1>3, <1>7, <1>8
<1>10. Forest(h.next, Heads', own2)
  <2>0. /\ \A s \in DOMAIN Heads : Heads[s] \in DOMAIN h.next \cup {NULL}
        /\ \A s \in DOMAIN Heads : Heads[s] # NULL => own[Heads[s]] = s
        /\ \A n \in DOMAIN h.next : h.next[n] # NULL => h.next[n] \in DOMAIN h.next /\ own[h.next[n]] = own[n]
    BY <1>5 DEF Forest, Linked
  <2>00. \A s \in DOMAIN Heads' : \E j \in 0 .. nht.size - 1 :
            /\ s = <<"ht", j>> /\ <<"nht", j>> \in DOMAIN Heads /\ Heads'[s] = Heads[<<"nht", j>>]
    BY <1>2, <1>3, <1>4, RehashSlots
  <2>1. Heads' \in [DOMAIN Heads' -> DOMAIN h.next \cup {NULL}]
    <3>1. Heads' = [s \in DOMAIN Heads' |-> Heads'[s]]
      BY DEF Heads
    <3>2. \A s \in DOMAIN Heads' : Heads'[s] \in DOMAIN h.next \cup {NULL}
      BY <2>0, <2>00
    <3> QED
      BY <3>1, <3>2
  <2>2. own2 \in [DOMAIN h.next -> DOMAIN Heads']
    BY <1>5, <1>9
  <2>3. \A s \in DOMAIN Heads' : Heads'[s] # NULL => own2[Heads'[s]] = s /\ \E r \in DOMAIN Heads : Heads[r] = Heads'[s]
    <3> SUFFICES ASSUME NEW s \in DOMAIN Heads', Heads'[s] # NULL
                 PROVE  own2[Heads'[s]] = s /\ \E r \in DOMAIN Heads : Heads[r] = Heads'[s]
      OBVIOUS
    <3>1. PICK j \in 0 .. nht.size - 1 :
            /\ s = <<"ht", j>> /\ <<"nht", j>> \in DOMAIN Heads /\ Heads'[s] = Heads[<<"nht", j>>]
      BY <2>00
    <3>2. Heads'[s] \in nodes /\ own[Heads'[s]] = <<"nht", j>>
      BY <1>5, <2>0, <3>1
    <3> QED
      BY <1>9, <3>1, <3>2
  <2>4. \A r \in DOMAIN Heads : Heads[r] # NULL => \E s \in DOMAIN Heads' : Heads'[s] = Heads[r]
    <3> SUFFICES ASSUME NEW r \in DOMAIN Heads, Heads[r] # NULL
                 PROVE  \E s \in DOMAIN Heads' : Heads'[s] = Heads[r]
      OBVIOUS
    <3>1. Heads[r] \in nodes /\ own[Heads[r]] = r
      BY <1>5, <2>0
    <3>2. PICK j \in 0 .. nht.size - 1 : r = <<"nht", j>>
      BY <1>7, <3>1
    <3>3. <<"ht", j>> \in DOMAIN Heads'
      BY <1>3
    <3> QED
      BY <1>4, <3>2, <3>3
  <2>5. \A n \in DOMAIN h.next : h.next[n] # NULL => own2[h.next[n]] = own2[n]
    BY <1>5, <1>9, <2>0
  <2> QED
    BY <1>5, <2>1, <2>2, <2>3, <2>4, <2>5, Relabel
<1>11. \A n \in nodes : own2[n][2] = hash[h.key[n]] % (IF own2[n][1] = "ht" THEN ht' ELSE nht').size
  <2> SUFFICES ASSUME NEW n \in nodes
               PROVE  own2[n][2] = hash[h.key[n]] % (IF own2[n][1] = "ht" THEN ht' ELSE nht').size
    OBVIOUS
  <2>1. own[n][2] = hash[h.key[n]] % nht.size
    BY <1>1, <1>9 DEF Owned, Home, Bucket
  <2> QED
    BY <2>1, <1>2, <1>9
<1>12. /\ b' \in Node \cup {NULL} /\ i' \in Nat /\ own2 \in [nodes -> Slots']
       /\ ht' \in Table /\ nht' \in Table /\ ht'.size > 0
  BY <1>2, <1>3, <1>9, RehashSlots
<1> QED
  BY <1>2, <1>10, <1>11, <1>12, SameHeap

\* The chains of the program.
LEMMA ChainsAre ==
    ASSUME NEW own, Forest(h.next, Heads, own), NEW s \in DOMAIN Heads
    PROVE  Chain(h, Heads[s]) = {n \in DOMAIN h.next : own[n] = s}
BY ChainIs

\* b's copy is at the head of a chain of nht, b is gone.
LEMMA RehashNodeKeeps ==
    ASSUME HashInv, RehashNode
    PROVE  HashInv' /\ map' = map
<1> DEFINE k == h.key[b]
           v == h.val[b]
           j == Bucket(nht, k)
           s == <<"ht", i>>
           r == <<"nht", j>>
           new == NewNode(h)
           p == nht.buckets[j]
<1>1. PICK own \in [nodes -> Slots] : Owned(own)
  BY DEF HashInv
<1>2. /\ pc_hash = "rehash" /\ pc_hash' = "rehash" /\ b # NULL
      /\ nht' = ht_put(NewStrings(h), nht, k, v).ht
      /\ h' = FreeNodes(ht_put(NewStrings(h), nht, k, v).h, {b})
      /\ b' = h.next[b] /\ ht' = ht /\ i' = i
  BY DEF RehashNode
<1>3. Forest(h.next, Heads, own) /\ DOMAIN h.next = nodes
  BY <1>1, HeapFields DEF Owned, HashInv
<1>4. b \in nodes /\ own[b] = s /\ k \in Keys /\ v \in Vals
  <2>1. s \in DOMAIN Heads /\ Heads[s] = b
    BY <1>2, RehashSlots
  <2>2. b \in nodes /\ own[b] = s
    BY <1>2, <1>3, <2>1 DEF Forest, Linked
  <2> QED
    BY <2>2, HeapFields DEF HashInv
<1>5. j \in 0 .. nht.size - 1
  BY <1>2, <1>4, RehashSlots, TableFields
<1>6. /\ r \in DOMAIN Heads /\ s \in DOMAIN Heads /\ r # s /\ Heads[r] = p /\ Heads[s] = b
  BY <1>2, <1>5, RehashSlots
<1>7. Find(NewStrings(h), p, k) = NULL
  <2>1. Chain(h, p) = {n \in nodes : own[n] = r}
    <3>1. \A q \in DOMAIN Heads : Chain(h, Heads[q]) = {n \in nodes : own[n] = q}
      BY <1>3, ChainsAre
    <3> HIDE DEF r, p
    <3> QED
      BY <1>6, <3>1
  <2>2. Chain(NewStrings(h), p) = Chain(h, p) /\ NewStrings(h).key = h.key
    BY Fields DEF Chain, HashInv
  <2>3. \A y \in Chain(NewStrings(h), p) : NewStrings(h).key[y] # k
    BY <1>4, <1>6, <2>1, <2>2 DEF HashInv
  <2> QED
    BY <2>3, FindNone
<1>8. new \in Node /\ new \notin nodes /\ new # NULL
  BY FewNodes
<1> DEFINE key2 == With(h.key, new, k)
           val2 == With(h.val, new, v)
           nx1 == With(h.next, new, p)
<1>9. /\ nht' = [nht EXCEPT !.buckets[j] = new]
      /\ h' = [key |-> Without(key2, {b}), val |-> Without(val2, {b}),
               next |-> Without(nx1, {b}), strs |-> h.strs]
  <2>1. ht_put(NewStrings(h), nht, k, v)
          = [ht |-> [nht EXCEPT !.buckets[j] = new],
             h |-> [key |-> key2, val |-> val2, next |-> nx1, strs |-> h.strs + 2]]
    BY <1>7, PutNew DEF HashInv
  <2> DEFINE m == [key |-> key2, val |-> val2, next |-> nx1, strs |-> h.strs + 2]
  <2>2. m.key = key2 /\ m.val = val2 /\ m.next = nx1 /\ m.strs - 2 = h.strs
    BY HeapFields DEF HashInv
  <2>3. nht' = [nht EXCEPT !.buckets[j] = new] /\ h' = FreeNodes(m, {b})
    BY <1>2, <2>1
  <2> HIDE DEF m, key2, val2, nx1
  <2>4. PICK c : c = 2 * Cardinality({b})
    OBVIOUS
  <2>5. FreeNodes(m, {b})
          = [key |-> Without(m.key, {b}), val |-> Without(m.val, {b}),
             next |-> Without(m.next, {b}), strs |-> m.strs - c]
    BY <2>4 DEF FreeNodes
  <2>6. c = 2
    <3>1. Cardinality({b}) = 1
      BY FS_Singleton
    <3> QED
      BY <3>1, <2>4
  <2> QED
    BY <2>2, <2>3, <2>5, <2>6
<1>10. /\ nht' \in Table /\ nht'.size = nht.size
       /\ nht'.buckets = [nht.buckets EXCEPT ![j] = new]
  BY <1>2, <1>5, <1>8, <1>9, RehashSlots, TableWith
<1>11. /\ h'.key = Without(key2, {b}) /\ h'.val = Without(val2, {b})
       /\ h'.next = Without(nx1, {b}) /\ h'.strs = h.strs
       /\ h' = [key |-> h'.key, val |-> h'.val, next |-> h'.next, strs |-> h'.strs]
  BY <1>9
<1>12. PICK own2 : own2 = Without(With(own, new, r), {b})
  OBVIOUS
<1>13. Heads' = [[Heads EXCEPT ![r] = new] EXCEPT ![s] = h.next[b]]
  <2>1. Slots' = Slots /\ Slots = DOMAIN Heads
    BY <1>2, <1>10, RehashSlots DEF Slots
  <2>2. ASSUME NEW q \in DOMAIN Heads
        PROVE  HeadOf(q)' = IF q = s THEN h.next[b] ELSE IF q = r THEN new ELSE Heads[q]
    <3>1. CASE q \in {"ht"} \X (i .. ht.size - 1)
      <4>1. PICK l \in i .. ht.size - 1 : q = <<"ht", l>>
        BY <3>1
      <4>2. HeadOf(q)' = IF l = i THEN h.next[b] ELSE ht.buckets[l]
        BY <1>2, <4>1 DEF HeadOf
      <4>3. l # i => l \in i + 1 .. ht.size - 1
        BY <1>2, <4>1, RehashSlots
      <4> QED
        BY <1>2, <4>1, <4>2, <4>3, RehashSlots
    <3>2. CASE q \in {"nht"} \X (0 .. nht.size - 1)
      <4>1. PICK l \in 0 .. nht.size - 1 : q = <<"nht", l>>
        BY <3>2
      <4>2. HeadOf(q)' = IF l = j THEN new ELSE nht.buckets[l]
        BY <1>2, <1>5, <1>10, <4>1, RehashSlots DEF HeadOf
      <4> QED
        BY <1>2, <4>1, <4>2, RehashSlots
    <3> QED
      BY <1>2, <3>1, <3>2, RehashSlots
  <2>3. Heads' = [q \in DOMAIN Heads |-> HeadOf(q)']
    BY <2>1 DEF Heads
  <2> QED
    BY <1>6, <2>2, <2>3 DEF Heads
<1> HIDE DEF k, v, j, s, r, p, new
<1>14. Forest(h'.next, Heads', own2)
  <2> DEFINE hd1 == [Heads EXCEPT ![r] = new]
             own1 == With(own, new, r)
  <2>1. Forest(nx1, hd1, own1)
    BY <1>3, <1>6, <1>8, PushFront
  <2>2. s \in DOMAIN hd1 /\ hd1[s] = b
    BY <1>6
  <2>3. nx1[b] = h.next[b]
    BY <1>3, <1>4, <1>8 DEF With
  <2> HIDE DEF nx1, hd1, own1
  <2>4. Forest(Without(nx1, {hd1[s]}), [hd1 EXCEPT ![s] = nx1[hd1[s]]], Without(own1, {hd1[s]}))
    BY <1>2, <2>1, <2>2, PopFront
  <2> QED
    BY <1>11, <1>12, <1>13, <2>2, <2>3, <2>4 DEF hd1, own1
<1>15. nodes' = (nodes \ {b}) \cup {new}
  BY <1>4, <1>8, <1>11, HeapFields DEF nodes, With, Without, HashInv
<1>16. Slots' = Slots
  BY <1>2, <1>10 DEF Slots
<1>17. /\ \A n \in nodes \ {b} : h'.key[n] = h.key[n] /\ h'.val[n] = h.val[n] /\ own2[n] = own[n]
       /\ h'.key[new] = k /\ h'.val[new] = v /\ own2[new] = r
       /\ h'.key \in [nodes' -> Keys] /\ h'.val \in [nodes' -> Vals]
       /\ own2 \in [nodes' -> Slots']
  <2>1. r \in Slots
    BY <1>6 DEF Heads
  <2> QED
    BY <1>4, <1>8, <1>11, <1>12, <1>15, <1>16, <2>1, HeapFields DEF With, Without, HashInv
<1>18. h'.next \in [nodes' -> nodes' \cup {NULL}]
  <2>1. DOMAIN h'.next = nodes'
    BY <1>3, <1>4, <1>8, <1>11, <1>15 DEF With, Without
  <2> QED
    BY <1>14, <2>1 DEF Forest, Linked
<1>19. h'.strs = 2 * Cardinality(nodes')
  <2>1. IsFiniteSet(nodes \ {b}) /\ Cardinality(nodes \ {b}) = Cardinality(nodes) - 1
    BY <1>4, FewNodes, FS_RemoveElement
  <2>2. Cardinality(nodes') = (Cardinality(nodes) - 1) + 1
    BY <1>8, <1>15, <2>1, FS_AddElement
  <2> QED
    BY <1>11, <2>2, FewNodes DEF HashInv
<1>20. HashTypeOK'
  <2>1. h' \in [key : [nodes' -> Keys], val : [nodes' -> Vals],
                next : [nodes' -> nodes' \cup {NULL}], strs : Nat]
    BY <1>11, <1>17, <1>18, HeapFields DEF HashInv
  <2>2. Table' = Table
    BY DEF Table
  <2>3. b' \in Node \cup {NULL}
    BY <1>2, <1>4, HeapFields DEF HashInv
  <2>4. nodes' \subseteq Node
    BY <1>8, <1>15, HeapFields DEF HashInv
  <2> QED
    BY <1>2, <1>10, <2>1, <2>2, <2>3, <2>4 DEF HashInv, HashTypeOK
<1>21. HashInv'
  <2>1. \A n, q \in nodes' : h'.key[n] = h'.key[q] => n = q
    BY <1>4, <1>15, <1>17 DEF HashInv, k
  <2>2. \A n \in nodes' :
            own2[n][2] = hash[h'.key[n]] % (IF own2[n][1] = "ht" THEN ht' ELSE nht').size
    <3> SUFFICES ASSUME NEW n \in nodes'
                 PROVE  own2[n][2] = hash[h'.key[n]] % (IF own2[n][1] = "ht" THEN ht' ELSE nht').size
      OBVIOUS
    <3>1. CASE n = new
      <4>1. r[1] = "nht" /\ r[2] = hash[k] % nht.size
        BY DEF r, j, Bucket
      <4> QED
        BY <1>10, <1>17, <3>1, <4>1
    <3>2. CASE n \in nodes \ {b}
      <4>1. own[n][2] = hash[h.key[n]] % (IF own[n][1] = "ht" THEN ht ELSE nht).size
        BY <1>1, <3>2 DEF Owned, Home, Bucket
      <4> QED
        BY <1>2, <1>10, <1>17, <3>2, <4>1
    <3> QED
      BY <1>15, <3>1, <3>2
  <2>3. (\E o \in [nodes -> Slots] : Owned(o))'
    BY <1>14, <1>17, <2>2 DEF Owned, Home, Bucket
  <2>4. ht'.size > 0 /\ nht'.size > 0 /\ i' < ht'.size
    BY <1>2, <1>10, RehashSlots
  <2> QED
    BY <1>2, <1>19, <1>20, <2>1, <2>3, <2>4 DEF HashInv
<1>22. map' = map
  <2> DEFINE S2 == {h'.key[n] : n \in nodes'}
             S == {h.key[n] : n \in nodes}
             F2(y) == h'.val[CHOOSE n \in nodes' : h'.key[n] = y]
             F(y) == h.val[CHOOSE n \in nodes : h.key[n] = y]
  <2>1. \A n \in nodes' : (CHOOSE q \in nodes' : h'.key[q] = h'.key[n]) = n
    <3>1. \A n, q \in nodes' : h'.key[n] = h'.key[q] => n = q
      BY <1>21 DEF HashInv
    <3> QED
      BY <3>1
  <2>2. \A n \in nodes : (CHOOSE q \in nodes : h.key[q] = h.key[n]) = n
    BY DEF HashInv
  <2>3. /\ \A n \in nodes' : F2(h'.key[n]) = h'.val[n]
        /\ \A n \in nodes : F(h.key[n]) = h.val[n]
    BY <2>1, <2>2
  <2>4. map' = [y \in S2 |-> F2(y)] /\ map = [y \in S |-> F(y)]
    BY DEF map
  <2>5. ASSUME NEW y PROVE y \in S2 <=> y \in S
    BY <1>4, <1>15, <1>17 DEF k
  <2>6. ASSUME NEW y \in S PROVE F2(y) = F(y)
    <3> HIDE DEF F2, F
    <3>1. PICK n \in nodes : y = h.key[n]
      BY <2>6
    <3>2. CASE n = b
      BY <1>15, <1>17, <2>3, <3>1, <3>2 DEF k, v
    <3>3. CASE n # b
      BY <1>15, <1>17, <2>3, <3>1, <3>3
    <3> QED
      BY <3>2, <3>3
  <2> HIDE DEF S2, S, F2, F
  <2> QED
    BY <2>4, <2>5, <2>6
<1> QED
  BY <1>21, <1>22

\* All is freed.
LEMMA FreeKeeps ==
    ASSUME HashInv, free_hashtable
    PROVE  HashInv' /\ Map!Clear
<1>1. PICK own \in [nodes -> Slots] : Owned(own)
  BY DEF HashInv
<1>2. /\ pc_hash = "idle" /\ pc_hash' = "freed" /\ h' = FreeNodes(h, ht_iter(h, ht))
      /\ ht' = make_hashtable(0) /\ UNCHANGED <<nht, i, b>>
  BY DEF free_hashtable
<1>3. Forest(h.next, Heads, own) /\ DOMAIN h.next = nodes
  BY <1>1, HeapFields DEF Owned, HashInv
<1>4. ht_iter(h, ht) = nodes
  <2>1. /\ Slots = {"ht"} \X (0 .. ht.size - 1) /\ DOMAIN Heads = Slots
        /\ \A j \in 0 .. ht.size - 1 : Heads[<<"ht", j>>] = ht.buckets[j]
    BY <1>2 DEF Slots, HeadOf, Heads
  <2>2. \A j \in 0 .. ht.size - 1 : Chain(h, ht.buckets[j]) = {n \in nodes : own[n] = <<"ht", j>>}
    <3> SUFFICES ASSUME NEW j \in 0 .. ht.size - 1
                 PROVE  Chain(h, ht.buckets[j]) = {n \in nodes : own[n] = <<"ht", j>>}
      OBVIOUS
    <3>1. <<"ht", j>> \in DOMAIN Heads /\ Heads[<<"ht", j>>] = ht.buckets[j]
      BY <2>1
    <3>2. \A q \in DOMAIN Heads : Chain(h, Heads[q]) = {n \in nodes : own[n] = q}
      BY <1>3, ChainsAre
    <3> QED
      BY <1>3, <3>1, <3>2
  <2>3. \A n \in nodes : \E j \in 0 .. ht.size - 1 : own[n] = <<"ht", j>>
    BY <2>1
  <2> QED
    BY <2>2, <2>3 DEF ht_iter
<1>5. /\ h'.key = Without(h.key, nodes) /\ h'.val = Without(h.val, nodes)
      /\ h'.next = Without(h.next, nodes) /\ h'.strs = 0
      /\ h' = [key |-> h'.key, val |-> h'.val, next |-> h'.next, strs |-> h'.strs]
  <2>1. PICK c : c = 2 * Cardinality(nodes)
    OBVIOUS
  <2>2. FreeNodes(h, nodes)
          = [key |-> Without(h.key, nodes), val |-> Without(h.val, nodes),
             next |-> Without(h.next, nodes), strs |-> h.strs - c]
    BY <2>1 DEF FreeNodes
  <2>3. h.strs - c = 0
    BY <2>1, HeapFields DEF HashInv
  <2> QED
    BY <1>2, <1>4, <2>2, <2>3
<1>6. nodes' = {} /\ DOMAIN h'.val = {} /\ DOMAIN h'.next = {} /\ DOMAIN h'.key = {}
      /\ h'.key \in [{} -> Keys] /\ h'.val \in [{} -> Vals] /\ h'.next \in [{} -> {NULL}]
  BY <1>5, HeapFields DEF nodes, Without, HashInv
<1>7. /\ ht' \in Table /\ ht'.size = 0
  BY <1>2, MakeTable
<1>8. Slots' = {} /\ DOMAIN Heads' = {} /\ Heads' \in [{} -> {NULL}]
  BY <1>2, <1>7 DEF Slots, Heads
<1>9. PICK o : o = [n \in {} |-> NULL]
  OBVIOUS
<1>10. o \in [nodes' -> Slots'] /\ Forest(h'.next, Heads', o)
  BY <1>6, <1>8, <1>9 DEF Forest, Linked, Covered
<1>11. HashTypeOK'
  <2>1. h' \in [key : [nodes' -> Keys], val : [nodes' -> Vals],
                next : [nodes' -> nodes' \cup {NULL}], strs : Nat]
    BY <1>5, <1>6
  <2>2. Table' = Table
    BY DEF Table
  <2> QED
    BY <1>2, <1>6, <1>7, <2>1, <2>2 DEF HashInv, HashTypeOK
<1>12. HashInv'
  <2>1. (\E q \in [nodes -> Slots] : Owned(q))'
    BY <1>6, <1>10 DEF Owned
  <2>2. h'.strs = 2 * Cardinality(nodes')
    BY <1>5, <1>6, FS_EmptySet
  <2> QED
    BY <1>2, <1>6, <1>11, <2>1, <2>2 DEF HashInv
<1>13. Map!Clear
  BY <1>6 DEF map, Map!Clear
<1> QED
  BY <1>12, <1>13

\* The empty table.
LEMMA HashStart ==
    ASSUME HashInit
    PROVE  HashInv /\ Map!Init
<1>1. PICK n \in TableSizes : ht = make_hashtable(n)
  BY DEF HashInit
<1>2. /\ h.key = << >> /\ h.val = << >> /\ h.next = << >> /\ h.strs = 0
      /\ h = [key |-> h.key, val |-> h.val, next |-> h.next, strs |-> h.strs]
      /\ nht = ht /\ i = 0 /\ b = NULL /\ pc_hash = "idle"
  BY DEF HashInit
<1>3. /\ nodes = {} /\ DOMAIN h.key = {} /\ DOMAIN h.val = {} /\ DOMAIN h.next = {}
      /\ h.key \in [{} -> Keys] /\ h.val \in [{} -> Vals] /\ h.next \in [{} -> {NULL}]
  BY <1>2 DEF nodes
<1>4. /\ ht \in Table /\ ht.size \in Nat /\ ht.size > 0
      /\ \A j \in 0 .. ht.size - 1 : ht.buckets[j] = NULL
  BY <1>1, MakeTable, HashConstants DEF HashConstants
<1>5. HashTypeOK
  <2>1. h \in [key : [nodes -> Keys], val : [nodes -> Vals],
               next : [nodes -> nodes \cup {NULL}], strs : Nat]
    <3>1. /\ h.key \in [nodes -> Keys] /\ h.val \in [nodes -> Vals]
          /\ h.next \in [nodes -> nodes \cup {NULL}] /\ h.strs \in Nat
      BY <1>2, <1>3
    <3> HIDE <1>3
    <3> QED
      BY <1>2, <3>1
  <2> QED
    BY <1>2, <1>3, <1>4, <2>1 DEF HashTypeOK
<1>6. Slots = {"ht"} \X (0 .. ht.size - 1) /\ Heads \in [Slots -> {NULL}] /\ DOMAIN Heads = Slots
  <2>1. \A s \in {"ht"} \X (0 .. ht.size - 1) : HeadOf(s) = NULL
    BY <1>2, <1>4 DEF HeadOf
  <2> QED
    BY <1>2, <2>1 DEF Slots, Heads
<1>7. PICK o : o = [q \in {} |-> NULL]
  OBVIOUS
<1>8. o \in [nodes -> Slots] /\ Forest(h.next, Heads, o)
  BY <1>3, <1>6, <1>7 DEF Forest, Linked, Covered
<1>9. h.strs = 2 * Cardinality(nodes)
  BY <1>2, <1>3, FS_EmptySet
<1>10. HashInv
  BY <1>2, <1>3, <1>4, <1>5, <1>8, <1>9 DEF HashInv, Owned
<1>11. Map!Init
  BY <1>3 DEF map, Map!Init
<1> QED
  BY <1>10, <1>11

\* Every step of the program, and what it does to the map.
LEMMA HashStepKeeps ==
    ASSUME HashInv, [HashNext]_hashvars
    PROVE  HashInv' /\ [Map!Next]_(map)
<1>1. CASE UNCHANGED hashvars
  <2>1. nodes' = nodes /\ Slots' = Slots /\ Heads' = Heads
    BY <1>1 DEF hashvars, nodes, Slots, HeadOf, Heads
  <2>2. HashTypeOK'
    BY <1>1, <2>1 DEF hashvars, HashInv, HashTypeOK, Table
  <2>3. HashInv'
    BY <1>1, <2>1, <2>2 DEF hashvars, HashInv, Owned, Home, Bucket
  <2>4. map' = map
    BY <1>1, <2>1 DEF hashvars, map
  <2> QED
    BY <2>3, <2>4
<1>2. ASSUME NEW k \in Keys, NEW v \in Vals, Put(k, v)
      PROVE  HashInv' /\ Map!Next
  BY <1>2, PutKeeps DEF Map!Next
<1>3. ASSUME NEW k \in Keys, Del(k)
      PROVE  HashInv' /\ Map!Next
  BY <1>3, DelKeeps DEF Map!Next
<1>4. ASSUME NEW k \in Keys, DelFromEmptyBucket(k)
      PROVE  HashInv' /\ map' = map
  BY <1>4, CrashKeeps DEF DelFromEmptyBucket
<1>5. ASSUME NEW n \in TableSizes, Rehash(n)
      PROVE  HashInv' /\ map' = map
  BY <1>5, RehashKeeps
<1>6. CASE RehashNode
  BY <1>6, RehashNodeKeeps
<1>7. CASE RehashNextBucket
  BY <1>7, NextBucketKeeps
<1>8. CASE RehashReturn
  BY <1>8, HashReturnKeeps
<1>9. ASSUME free_hashtable
      PROVE  HashInv' /\ Map!Next
  BY <1>9, FreeKeeps DEF Map!Next
<1>10. HashOver => UNCHANGED hashvars
  BY DEF HashOver
<1> QED
  BY <1>1, <1>2, <1>3, <1>4, <1>5, <1>6, <1>7, <1>8, <1>9, <1>10 DEF HashNext

\* What the invariant says of the pointers to a node.
LEMMA OwnedOnce == HashInv => EverythingOwnedOnce
<1> SUFFICES ASSUME HashInv
             PROVE  EverythingOwnedOnce
  OBVIOUS
<1>1. PICK own \in [nodes -> Slots] : Owned(own)
  BY DEF HashInv
<1>2. Forest(h.next, Heads, own) /\ DOMAIN h.next = nodes
  BY <1>1, HeapFields DEF Owned, HashInv
<1>3. DOMAIN Heads = Slots /\ \A s \in Slots : Heads[s] = HeadOf(s)
  BY DEF Heads
<1>4. UNION {Chain(h, HeadOf(s)) : s \in Slots} = nodes
  <2>1. \A s \in Slots : Chain(h, Heads[s]) = {n \in DOMAIN h.next : own[n] = s}
    BY <1>2, <1>3, ChainsAre
  <2>2. \A s \in Slots : Chain(h, HeadOf(s)) = {n \in nodes : own[n] = s}
    BY <1>2, <1>3, <2>1
  <2> QED
    BY <2>2
<1>5. ASSUME NEW n \in nodes
      PROVE  Cardinality(Pointers(n)) = 1
  <2>1. \E p : Pointers(n) = {p}
    <3>1. n # NULL
      BY HeapFields DEF HashInv
    <3>2. CASE Heads[own[n]] = n
      <4>1. {s \in Slots : HeadOf(s) = n} = {own[n]}
        BY <1>2, <1>3, <3>1, <3>2 DEF Forest, Linked
      <4>2. {q \in nodes : h.next[q] = n} = {}
        BY <1>2, <1>3, <3>1, <3>2 DEF Forest, Linked
      <4> QED
        BY <4>1, <4>2 DEF Pointers
    <3>3. CASE Heads[own[n]] # n
      <4>1. {s \in Slots : HeadOf(s) = n} = {}
        BY <1>2, <1>3, <3>1, <3>3 DEF Forest, Linked
      <4>2. PICK q \in nodes : h.next[q] = n
        BY <1>2, <3>3, Predecessor
      <4>3. {r \in nodes : h.next[r] = n} = {q}
        BY <1>2, <3>1, <4>2 DEF Forest, Linked
      <4>4. Pointers(n) = {<<"next", q>>}
        BY <4>1, <4>3 DEF Pointers
      <4> QED
        BY <4>4
    <3> QED
      BY <3>2, <3>3
  <2>2. Cardinality(Pointers(n)) = 1
    BY <2>1, FS_Singleton
  <2> QED
    BY <2>2
<1>6. h.strs = 2 * Cardinality(nodes)
  BY DEF HashInv
<1> QED
  BY <1>4, <1>5, <1>6 DEF HashInv, EverythingOwnedOnce

\* What it says of ht_get.
LEMMA FindsAll == HashInv => GetFindsAll
<1> SUFFICES ASSUME HashInv, pc_hash = "idle", NEW k \in Keys
             PROVE  ht_get(k) = IF k \in DOMAIN map THEN map[k] ELSE NULL
  BY DEF GetFindsAll
<1>1. /\ DOMAIN map = {h.key[n] : n \in nodes}
      /\ \A n \in nodes : map[h.key[n]] = h.val[n]
  BY DEF HashInv, map
<1> DEFINE p == ht.buckets[Bucket(ht, k)]
<1>2. /\ \A x \in nodes : h.key[x] = k => Find(h, p, k) = x
      /\ (\A x \in nodes : h.key[x] # k) => Find(h, p, k) = NULL
  BY FindKey
<1>3. \A x \in nodes : x # NULL
  BY HeapFields DEF HashInv
<1> QED
  BY <1>1, <1>2, <1>3 DEF ht_get

\* The invariant holds of the program.
THEOREM HashInvariant == HashSpec => []HashInv
<1>1. HashInit => HashInv
  BY HashStart
<1>2. HashInv /\ [HashNext]_hashvars => HashInv'
  BY HashStepKeeps
<1> QED
  BY <1>1, <1>2, PTL DEF HashSpec

\* hashtable.c, for every set of keys, every hash and every sequence of directives:
\* in the middle of ht_rehash too, the chains come to every allocated node and one
\* pointer leads to it, and the allocated strings are those of the nodes.
THEOREM NothingLostOrShared == HashSpec => []EverythingOwnedOnce
  BY OwnedOnce, HashInvariant, PTL

\* Between two directives ht_get returns the value of the last update of the key
\* that no deletion came after, and NULL for the other keys.
THEOREM EntriesAreFound == HashSpec => []GetFindsAll
  BY FindsAll, HashInvariant, PTL

\* hashtable.c implements the map: an update or a deletion changes the entry of
\* its key, the end of the program clears it, and no step of a rehash changes any.
THEOREM TableIsAMap == HashSpec => ImplementsMap
<1>1. HashInit => Map!Init
  BY HashStart
<1>2. HashInv /\ [HashNext]_hashvars => [Map!Next]_map
  BY HashStepKeeps
<1> QED
  BY <1>1, <1>2, HashInvariant, PTL DEF HashSpec, ImplementsMap, Map!MapSpec

-----------------------------------------------------------------------------
(* The tests of the cache lab                                                *)

\* Types of the cache lab's variables.
Func == [does : {"trans", "nothing", "clear", "dies"}, submit : BOOLEAN,
         correct : BOOLEAN, misses : Seq(Nat)]
LabType ==
    /\ func_list \in Seq(Func)
    /\ M \in Nat /\ N \in Nat
    /\ i_cache \in 1 .. Len(func_list) + 1
    /\ results \in [funcid : Nat, correct : {0, 1}, misses : Seq(Nat)]
    /\ pc_cache \in {"test-trans", "generate", "filter", "simulate", "emit",
                     "tracegen", "overrun", "call", "exited"}
    /\ flag \in Nat
    /\ part \in SUBSET (1 .. 7)
    /\ csim_results \in Seq(Nat)
    /\ ran \in Seq(BOOLEAN)

\* The turn is over for the functions before i, and has not begun for those after
\* it; within it the function has passed once csim-ref is called.
Turns ==
    /\ Len(ran) \in {i_cache - 1, i_cache}
    /\ pc_cache \in {"test-trans", "generate", "emit"} => Len(ran) = i_cache - 1
    /\ pc_cache \in {"filter", "simulate"} => Len(ran) = i_cache
    /\ pc_cache \in {"generate", "filter", "simulate"} => i_cache <= Len(func_list)
    /\ pc_cache = "emit" => i_cache = Len(func_list) + 1
    /\ pc_cache = "test-trans" => i_cache = 1
    /\ Passed \subseteq 1 .. i_cache /\ failed \subseteq 1 .. i_cache
    /\ pc_cache # "exited" => i_cache \notin failed
    /\ i_cache \in Passed => pc_cache \in {"simulate", "exited"}
    /\ pc_cache = "simulate" => i_cache \in Passed

\* What is known of the functions whose turn is over, and of the one before its end.
Judged ==
    /\ \A k \in 1 .. i_cache - 1 : Survived(k) => (func_list[k].correct <=> ran[k])
    /\ pc_cache \in {"filter", "simulate"} /\ Survived(i_cache) => ran[i_cache]
    /\ pc_cache = "filter" /\ Survived(i_cache) =>
         trace = <<"main", "start", "low", "stack", "low", "end", "main">>
    /\ pc_cache = "filter" => Len(trace) \in {5, 7}
    /\ pc_cache = "simulate" /\ Survived(i_cache) => Cardinality(part) = 4
    /\ pc_cache # "exited" /\ csim_results # None =>
         /\ Len(csim_results) = 2
         /\ csim_results[1] \in {0} \cup {l \in Passed : l < i_cache}

\* The misses of those that have passed.
Counted(k) ==
    IF k \in failed
    THEN func_list[k].misses[1] \in {0} \cup {l \in Passed : l < k}
    ELSE /\ func_list[k].misses[1] = k
         /\ Survived(k) => func_list[k].misses[2] = 4

\* The result of the last function that was submitted and whose turn is over.
Mine == {k \in Passed : func_list[k].submit /\ k < i_cache}
Outcome(correct, misses) ==
    IF Mine = {} THEN correct = 0 /\ misses = INT_MAX
    ELSE /\ correct = 1
         /\ \E l \in Mine : (\A k \in Mine : k <= l) /\ misses = func_list[l].misses
\* The result as it was before the turn, which differs only while the submission's
\* own turn goes on.
Earlier ==
    \E c \in {0, 1} :
        /\ Outcome(c, results.misses)
        /\ c # results.correct => pc_cache = "simulate" /\ func_list[i_cache].submit
\* The function that the result is of.
Resulted ==
    /\ pc_cache \in {"test-trans", "generate", "filter", "simulate", "emit"} =>
        /\ results.funcid <= i_cache
        /\ results.funcid = i_cache =>
             pc_cache \in {"filter", "simulate"} /\ func_list[i_cache].submit
        /\ pc_cache \in {"filter", "simulate"} /\ func_list[i_cache].submit =>
             results.funcid = i_cache
        /\ pc_cache = "simulate" /\ func_list[i_cache].submit => results.correct = 1
        /\ Earlier
    /\ pc_cache \in {"test-trans", "generate", "filter", "simulate", "emit"} => output = << >>

\* test-trans: the turns, their verdicts and the result agree.
TestInv ==
    /\ pc_cache \in {"test-trans", "generate", "filter", "simulate", "emit", "exited"}
    /\ Len(output) # 1
    /\ Turns /\ Judged /\ Resulted
    /\ \A k \in Passed : k < i_cache => Counted(k)
    /\ Len(output) = 2 /\ output # <<0, <<0, 0>>>> =>
         LET mine == {k \in Passed : func_list[k].submit}
         IN  output = IF mine = {} THEN <<0, INT_MAX>> ELSE <<1, func_list[LastOf(mine)].misses>>

\* A matrix of so many rows and columns.
Shape(m, rows, columns) == m = [p \in (0 .. rows - 1) \X (0 .. columns - 1) |-> m[p]]

\* tracegen by itself: so far all functions left the transpose.
TracegenInv ==
    /\ Passed = {}
    /\ \/ /\ pc_cache \in {"tracegen", "overrun"}
          /\ ran = << >> /\ i_cache = 1 /\ output = << >>
       \/ /\ pc_cache = "call" /\ Len(ran) = i_cache - 1 /\ output = << >>
          /\ \A k \in 1 .. i_cache - 1 : ran[k]
          /\ Shape(A, N, M) /\ Shape(B, M, N)
       \/ /\ pc_cache = "exited" /\ Len(output) = 1
          /\ output # <<139>> =>
               \A k \in DOMAIN func_list : k <= Len(ran) => (ran[k] <=> output[1] # k)

\* The inductive invariant: it is the one of the program that runs.
LabInv == LabType /\ (TestInv \/ TracegenInv)

-----------------------------------------------------------------------------

\* What tracegen's validate and is_transpose agree on, after any of the functions.
LEMMA Transposed ==
    ASSUME M \in Nat, N \in Nat, NEW does, NEW a, NEW b0, Shape(a, N, M), Shape(b0, M, N),
           NEW m, m = CallOf(does, a, b0)
    PROVE  /\ Shape(m.A, N, M) /\ Shape(m.B, M, N)
           /\ validate(m) <=> IsTranspose(m)
           /\ m = [A |-> m.A, B |-> m.B]
<1> DEFINE D == (0 .. N - 1) \X (0 .. M - 1)
           E == (0 .. M - 1) \X (0 .. N - 1)
<1>1. DOMAIN a = D /\ DOMAIN b0 = E
  BY DEF Shape
<1>2. Shape(m.A, N, M)
  BY <1>1 DEF Shape, CallOf
<1>3. Shape(m.B, M, N)
  BY <1>1 DEF Shape, CallOf, correctTrans
<1>4. m = [A |-> m.A, B |-> m.B]
  BY DEF CallOf
<1>5. m.B = [p \in E |-> m.B[p]]
  BY <1>3 DEF Shape
<1>6. validate(m) <=> \A p \in E : m.B[p] = m.A[<<p[2], p[1]>>]
  <2>1. ASSUME validate(m)
        PROVE  \A p \in E : m.B[p] = m.A[<<p[2], p[1]>>]
    BY <2>1 DEF validate, correctTrans
  <2>2. ASSUME \A p \in E : m.B[p] = m.A[<<p[2], p[1]>>]
        PROVE  validate(m)
    <3>1. m.B = [p \in E |-> m.A[<<p[2], p[1]>>]]
      BY <1>5, <2>2
    <3> QED
      BY <3>1 DEF validate, correctTrans
  <2> QED
    BY <2>1, <2>2
<1>7. (\A p \in E : m.B[p] = m.A[<<p[2], p[1]>>]) <=> IsTranspose(m)
  <2>1. ASSUME \A p \in E : m.B[p] = m.A[<<p[2], p[1]>>], NEW r \in 0 .. N - 1, NEW c \in 0 .. M - 1
        PROVE  m.A[<<r, c>>] = m.B[<<c, r>>]
    <3>1. <<c, r>> \in E
      OBVIOUS
    <3> QED
      BY <2>1, <3>1
  <2>2. ASSUME IsTranspose(m), NEW p \in E
        PROVE  m.B[p] = m.A[<<p[2], p[1]>>]
    <3>1. p = <<p[1], p[2]>> /\ p[1] \in 0 .. M - 1 /\ p[2] \in 0 .. N - 1
      OBVIOUS
    <3> QED
      BY <2>2, <3>1 DEF IsTranspose
  <2> QED
    BY <2>1, <2>2 DEF IsTranspose
<1> QED
  BY <1>2, <1>3, <1>4, <1>6, <1>7

\* An element of a sequence.
LEMMA Member ==
    ASSUME NEW S, NEW s \in Seq(S), NEW k \in 1 .. Len(s)
    PROVE  s[k] \in S
  OBVIOUS

\* Both programs begin with it.
LEMMA LabInit == CacheInit => LabInv
<1> SUFFICES ASSUME CacheInit
             PROVE  LabInv
  OBVIOUS
<1>1. PICK list \in Lists : func_list = Registered(list)
  BY DEF CacheInit
<1>2. list \in Seq([does : {"trans", "nothing", "clear", "dies"}, submit : BOOLEAN])
  BY CacheConstants DEF CacheConstants
<1>3. /\ func_list \in Seq(Func) /\ \A k \in DOMAIN func_list : ~func_list[k].correct
  <2> DEFINE f(k) == [does |-> list[k].does, submit |-> list[k].submit,
                      correct |-> FALSE, misses |-> None]
  <2>1. DOMAIN list = 1 .. Len(list) /\ Len(list) \in Nat
    BY <1>2
  <2>2. func_list = [k \in 1 .. Len(list) |-> f(k)]
    BY <1>1, <2>1 DEF Registered
  <2>3. ASSUME NEW k \in 1 .. Len(list)
        PROVE  f(k) \in Func /\ ~f(k).correct
    <3>1. << >> \in Seq(Nat)
      OBVIOUS
    <3>2. list[k] \in [does : {"trans", "nothing", "clear", "dies"}, submit : BOOLEAN]
      BY <1>2, Member, Zenon
    <3> QED
      BY <3>1, <3>2 DEF Func, None
  <2> HIDE DEF f
  <2>4. func_list \in [1 .. Len(list) -> Func]
    BY <2>2, <2>3
  <2>5. func_list \in Seq(Func)
    BY <2>1, <2>4
  <2> QED
    BY <2>2, <2>3, <2>5
<1>4. LabType
  <2>1. << >> \in Seq(Nat) /\ << >> \in Seq(BOOLEAN) /\ <<0, 0>> \in Seq(Nat)
    OBVIOUS
  <2>2. M \in Nat /\ N \in Nat
    BY CacheConstants DEF CacheInit, CacheConstants
  <2>3. csim_results \in Seq(Nat) /\ ran \in Seq(BOOLEAN)
    BY <2>1 DEF CacheInit, None
  <2>4. results \in [funcid : Nat, correct : {0, 1}, misses : Seq(Nat)]
    BY <2>1 DEF CacheInit, INT_MAX
  <2>5. i_cache \in 1 .. Len(func_list) + 1 /\ flag \in Nat /\ part \in SUBSET (1 .. 7)
    BY <1>3 DEF CacheInit
  <2> QED
    BY <1>3, <2>2, <2>3, <2>4, <2>5 DEF CacheInit, LabType
<1>5. Passed = {}
  BY <1>3 DEF Passed
<1>6. CASE pc_cache = "tracegen"
  BY <1>4, <1>5, <1>6 DEF LabInv, TracegenInv, CacheInit
<1>7. CASE pc_cache = "test-trans"
  <2>1. Turns
    BY <1>4, <1>5, <1>7 DEF Turns, CacheInit, LabType
  <2>2. Judged
    BY <1>4, <1>5, <1>7 DEF Judged, CacheInit, LabType, None
  <2>3. Resulted
    BY <1>4, <1>5, <1>7 DEF Resulted, Earlier, Outcome, Mine, CacheInit, LabType
  <2> QED
    BY <1>4, <1>5, <1>7, <2>1, <2>2, <2>3 DEF LabInv, TestInv, CacheInit
<1> QED
  BY <1>6, <1>7 DEF CacheInit

\* The registered functions.
LEMMA Functions ==
    ASSUME LabType
    PROVE  /\ Len(func_list) \in Nat /\ DOMAIN func_list = 1 .. Len(func_list)
           /\ \A k \in 1 .. Len(func_list) : func_list[k] \in Func
           /\ i_cache \in Nat /\ Passed \subseteq 1 .. Len(func_list)
  BY Member DEF LabType, Passed

\* main begins.
LEMMA StartKeeps == LabType /\ TestInv /\ Start => LabType' /\ TestInv'
<1> SUFFICES ASSUME LabType, TestInv, Start
             PROVE  LabType' /\ TestInv'
  OBVIOUS
<1>1. /\ pc_cache = "test-trans" /\ pc_cache' \in {"exited", "emit", "generate"}
      /\ pc_cache' = "emit" => func_list = << >>
      /\ pc_cache' = "generate" => func_list # << >>
      /\ UNCHANGED <<func_list, M, N, A, B, i_cache, results, flag, trace, part,
                     csim_results, output, ran, failed>>
  BY DEF Start
<1>2. LabType'
  BY <1>1 DEF LabType
<1>3. Passed' = Passed
  BY <1>1 DEF Passed
<1>4. /\ func_list = << >> => Len(func_list) = 0
      /\ func_list # << >> => 1 <= Len(func_list)
  BY Functions DEF LabType
<1>5. Turns'
  BY <1>1, <1>3, <1>4, Functions DEF TestInv, Turns
<1>6. Judged'
  BY <1>1, <1>3 DEF TestInv, Judged, Survived
<1>7. Resulted'
  BY <1>1, <1>3 DEF TestInv, Resulted, Earlier, Outcome, Mine
<1>8. \A k \in Passed : k < i_cache => Counted(k)'
  BY <1>1, <1>3 DEF TestInv, Counted, Survived
<1> QED
  BY <1>1, <1>2, <1>3, <1>5, <1>6, <1>7, <1>8 DEF TestInv, Resulted

\* The alarm, and the end.
LEMMA AlarmKeeps == LabType /\ TestInv /\ sigalrm_handler => LabType' /\ TestInv'
<1> SUFFICES ASSUME LabType, TestInv, sigalrm_handler
             PROVE  LabType' /\ TestInv'
  OBVIOUS
<1>1. /\ pc_cache' = "exited" /\ output' = <<0, <<0, 0>>>>
      /\ UNCHANGED <<func_list, M, N, A, B, i_cache, results, flag, trace, part,
                     csim_results, ran, failed>>
  BY DEF sigalrm_handler, Emit
<1>2. LabType'
  BY <1>1 DEF LabType
<1>3. Passed' = Passed
  BY <1>1 DEF Passed
<1>5. Turns'
  BY <1>1, <1>3, Functions DEF TestInv, Turns
<1>6. Judged'
  BY <1>1, <1>3 DEF TestInv, Judged, Survived
<1>7. Resulted'
  BY <1>1 DEF Resulted
<1>8. \A k \in Passed : k < i_cache => Counted(k)'
  BY <1>1, <1>3 DEF TestInv, Counted, Survived
<1>9. Len(output') = 2
  BY <1>1
<1> QED
  BY <1>1, <1>2, <1>3, <1>5, <1>6, <1>7, <1>8, <1>9 DEF TestInv

\* What is emitted is the result of the last function that was submitted.
LEMMA EmitKeeps == LabType /\ TestInv /\ EmitResults => LabType' /\ TestInv'
<1> SUFFICES ASSUME LabType, TestInv, EmitResults
             PROVE  LabType' /\ TestInv'
  OBVIOUS
<1>1. /\ pc_cache = "emit" /\ pc_cache' = "exited"
      /\ output' = IF results.funcid = 0 THEN <<0, <<0, 0>>>>
                   ELSE <<results.correct, results.misses>>
      /\ UNCHANGED <<func_list, M, N, A, B, i_cache, results, flag, trace, part,
                     csim_results, ran, failed>>
  BY DEF EmitResults, Emit
<1>2. LabType'
  BY <1>1 DEF LabType
<1>3. Passed' = Passed
  BY <1>1 DEF Passed
<1>5. Turns'
  BY <1>1, <1>3, Functions DEF TestInv, Turns
<1>6. Judged'
  BY <1>1, <1>3 DEF TestInv, Judged, Survived
<1>7. Resulted'
  BY <1>1 DEF Resulted
<1>8. \A k \in Passed : k < i_cache => Counted(k)'
  BY <1>1, <1>3 DEF TestInv, Counted, Survived
<1>9. Len(output') = 2
  BY <1>1
<1>10. ASSUME output' # <<0, <<0, 0>>>>
       PROVE  LET mine == {k \in Passed : func_list[k].submit}
              IN  output' = IF mine = {} THEN <<0, INT_MAX>>
                            ELSE <<1, func_list[LastOf(mine)].misses>>
  <2>1. i_cache = Len(func_list) + 1
    BY <1>1 DEF TestInv, Turns
  <2>2. {k \in Passed : func_list[k].submit} = Mine
    BY <2>1, Functions DEF Mine
  <2>3. output' = <<results.correct, results.misses>>
    BY <1>1, <1>10
  <2>4. Outcome(results.correct, results.misses)
    BY <1>1 DEF TestInv, Resulted, Earlier
  <2>5. CASE Mine = {}
    BY <2>2, <2>3, <2>4, <2>5 DEF Outcome
  <2>6. CASE Mine # {}
    <3>1. PICK l \in Mine : (\A k \in Mine : k <= l) /\ results.misses = func_list[l].misses
      BY <2>4, <2>6 DEF Outcome
    <3>2. Mine \subseteq Nat
      BY Functions DEF Mine
    <3>3. \A j \in Mine : (\A k \in Mine : k <= j) => j = l
      BY <3>1, <3>2
    <3>4. LastOf(Mine) = l
      BY <3>1, <3>3, Zenon DEF LastOf
    <3>5. results.correct = 1
      BY <2>4, <2>6 DEF Outcome
    <3> QED
      BY <2>2, <2>3, <2>6, <3>1, <3>4, <3>5
  <2> QED
    BY <2>5, <2>6
<1>11. (LET mine == {k \in Passed : func_list[k].submit}
        IN  Len(output) = 2 /\ output # <<0, <<0, 0>>>> =>
              output = IF mine = {} THEN <<0, INT_MAX>> ELSE <<1, func_list[LastOf(mine)].misses>>)'
  BY <1>1, <1>3, <1>10 DEF LastOf
<1> QED
  BY <1>1, <1>2, <1>3, <1>5, <1>6, <1>7, <1>8, <1>9, <1>11 DEF TestInv

\* tracegen -F: a turn ends here, or the function left the transpose.
LEMMA RunKeeps == LabType /\ TestInv /\ RunTracegen => LabType' /\ TestInv'
<1> SUFFICES ASSUME LabType, TestInv, RunTracegen
             PROVE  LabType' /\ TestInv'
  OBVIOUS
<1> DEFINE f == func_list[i_cache]
<1>1. /\ pc_cache = "generate"
      /\ results' = IF f.submit THEN [results EXCEPT !.funcid = i_cache] ELSE results
      /\ trace' = IF f.does = "dies" THEN <<"main", "start", "low", "stack", "low">>
                  ELSE <<"main", "start", "low", "stack", "low", "end", "main">>
      /\ UNCHANGED <<func_list, M, N, A, B, part, csim_results, output, failed>>
  BY DEF RunTracegen
<1>2. PICK a \in Matrices(N, M), b0 \in Matrices(M, N) :
        /\ flag' \in IF f.does = "dies" THEN {0, 139}
                     ELSE {IF validate(CallOf(f.does, a, b0)) THEN 0 ELSE i_cache}
        /\ ran' = Append(ran, IsTranspose(CallOf(f.does, a, b0)))
  BY DEF RunTracegen
<1>3. \/ /\ flag' # 0 /\ i_cache' = i_cache + 1
         /\ pc_cache' = IF i_cache = Len(func_list) THEN "emit" ELSE "generate"
      \/ flag' = 0 /\ i_cache' = i_cache /\ pc_cache' = "filter"
  BY DEF RunTracegen, Continue
<1>4. PICK left : left = IsTranspose(CallOf(f.does, a, b0))
  OBVIOUS
<1>5. validate(CallOf(f.does, a, b0)) <=> left
  <2>1. Shape(a, N, M) /\ Shape(b0, M, N)
    BY DEF Matrices, Shape
  <2> QED
    BY <1>4, <2>1, Transposed DEF LabType
<1>6. left \in BOOLEAN
  BY <1>4 DEF IsTranspose
<1>7. /\ i_cache \in 1 .. Len(func_list) /\ Len(ran) = i_cache - 1 /\ f \in Func
      /\ Passed' = Passed /\ i_cache \notin Passed /\ i_cache \notin failed /\ f.correct = FALSE
  <2>1. i_cache \in 1 .. Len(func_list) /\ f \in Func /\ DOMAIN func_list = 1 .. Len(func_list)
    BY <1>1, Functions DEF TestInv, Turns, LabType
  <2>2. i_cache \notin Passed
    BY <1>1 DEF TestInv, Turns
  <2>3. f.correct = FALSE
    BY <2>1, <2>2 DEF Passed, Func
  <2> QED
    BY <1>1, <2>1, <2>2, <2>3 DEF TestInv, Turns, Passed
<1>8. /\ ran' = Append(ran, left) /\ ran' \in Seq(BOOLEAN)
      /\ Len(ran') = i_cache /\ ran'[i_cache] = left
      /\ \A k \in 1 .. i_cache - 1 : ran'[k] = ran[k]
  BY <1>2, <1>4, <1>6, <1>7 DEF LabType
<1>9. LabType'
  <2>1. results' \in [funcid : Nat, correct : {0, 1}, misses : Seq(Nat)]
    <3>1. results \in [funcid : Nat, correct : {0, 1}, misses : Seq(Nat)] /\ i_cache \in Nat
      BY Functions DEF LabType
    <3> HIDE DEF f
    <3> QED
      BY <1>1, <3>1
  <2>2. i_cache' \in 1 .. Len(func_list') + 1 /\ pc_cache' \in {"emit", "generate", "filter"}
    BY <1>1, <1>3, <1>7, Functions
  <2>3. flag' \in Nat
    BY <1>2, <1>7
  <2> QED
    BY <1>1, <1>8, <2>1, <2>2, <2>3 DEF LabType
<1>10. Passed \subseteq 1 .. i_cache - 1 /\ failed \subseteq 1 .. i_cache - 1
  BY <1>7 DEF TestInv, Turns
<1>11. Turns'
  BY <1>1, <1>3, <1>7, <1>8, <1>10 DEF Turns
<1>12. Survived(i_cache) /\ flag' # 0 => ~left
  BY <1>2, <1>4, <1>5 DEF Survived
<1>13. Survived(i_cache) /\ flag' = 0 => left
  BY <1>2, <1>4, <1>5, <1>7 DEF Survived
<1>14. Judged'
  <2>1. \A k \in 1 .. i_cache - 1 : Survived(k) => (func_list[k].correct <=> ran'[k])
    BY <1>8 DEF TestInv, Judged
  <2>2. \A k \in 1 .. i_cache' - 1 : Survived(k)' => (func_list'[k].correct <=> ran'[k])
    BY <1>1, <1>3, <1>7, <1>8, <1>12, <2>1 DEF Survived
  <2>3. pc_cache' = "filter" /\ Survived(i_cache)' =>
          ran'[i_cache'] /\ trace' = <<"main", "start", "low", "stack", "low", "end", "main">>
    BY <1>1, <1>3, <1>8, <1>13 DEF Survived
  <2>4. Len(trace') \in {5, 7}
    BY <1>1
  <2>5. csim_results # None =>
         /\ Len(csim_results) = 2
         /\ csim_results[1] \in {0} \cup {l \in Passed : l < i_cache'}
    <3>1. ASSUME NEW l \in Passed, l < i_cache
          PROVE  l < i_cache'
      <4>1. l \in Nat /\ i_cache \in Nat
        BY <1>10, Functions
      <4> QED
        BY <1>3, <3>1, <4>1
    <3> QED
      BY <1>1, <3>1 DEF TestInv, Judged
  <2> QED
    BY <1>1, <1>3, <1>7, <2>2, <2>3, <2>4, <2>5 DEF Judged
<1>15. Mine' = Mine
  BY <1>1, <1>3, <1>7, <1>10 DEF Mine
<1>16. Resulted'
  <2>1. /\ results.funcid < i_cache /\ results.funcid \in Nat /\ results.correct \in {0, 1}
        /\ Outcome(results.correct, results.misses)
    BY <1>1, <1>7 DEF TestInv, Resulted, Earlier, LabType
  <2>2. results'.correct = results.correct /\ results'.misses = results.misses
        /\ results'.funcid = IF f.submit THEN i_cache ELSE results.funcid
    BY <1>1 DEF LabType
  <2>3. Earlier'
    BY <1>1, <1>15, <2>1, <2>2 DEF Outcome, Earlier
  <2>4. output' = << >>
    BY <1>1 DEF TestInv, Resulted
  <2> QED
    BY <1>1, <1>3, <1>7, <2>1, <2>2, <2>3, <2>4 DEF Resulted
<1>17. \A k \in Passed' : k < i_cache' => Counted(k)'
  BY <1>1, <1>7, <1>10 DEF TestInv, Counted, Survived
<1> QED
  BY <1>1, <1>3, <1>9, <1>11, <1>14, <1>16, <1>17 DEF TestInv, Resulted

\* The trace is cut: the function counts as correct.
LEMMA FilterKeeps == LabType /\ TestInv /\ Filter => LabType' /\ TestInv'
<1> SUFFICES ASSUME LabType, TestInv, Filter
             PROVE  LabType' /\ TestInv'
  OBVIOUS
<1> DEFINE f == func_list[i_cache]
           region == {k \in 2 .. Len(trace) : trace[k] # "stack"}
<1>1. /\ pc_cache = "filter" /\ pc_cache' = "simulate"
      /\ func_list' = [func_list EXCEPT ![i_cache].correct = TRUE]
      /\ results' = IF results.funcid = i_cache THEN [results EXCEPT !.correct = 1] ELSE results
      /\ IF \E k \in region : trace[k] = "end"
         THEN part' = {k \in region : trace[k] # "main"}
         ELSE \E n \in 1 .. Len(trace) : part' = {k \in region : k <= n}
      /\ UNCHANGED <<M, N, A, B, i_cache, flag, trace, csim_results, output, ran, failed>>
  BY DEF Filter
<1>2. /\ i_cache \in 1 .. Len(func_list) /\ f \in Func /\ Len(func_list) \in Nat
      /\ DOMAIN func_list = 1 .. Len(func_list)
  BY <1>1, Functions DEF TestInv, Turns, LabType
<1>3. /\ func_list' \in Seq(Func) /\ Len(func_list') = Len(func_list)
      /\ \A k \in 1 .. Len(func_list) :
            /\ func_list'[k].does = func_list[k].does /\ func_list'[k].submit = func_list[k].submit
            /\ func_list'[k].misses = func_list[k].misses
            /\ func_list'[k].correct = IF k = i_cache THEN TRUE ELSE func_list[k].correct
  <2>1. [f EXCEPT !.correct = TRUE] \in Func
    BY <1>2 DEF Func
  <2>2. func_list' = [func_list EXCEPT ![i_cache] = [f EXCEPT !.correct = TRUE]]
    BY <1>1
  <2>3. func_list' \in Seq(Func) /\ Len(func_list') = Len(func_list)
    BY <1>2, <2>1, <2>2 DEF LabType
  <2>4. \A k \in 1 .. Len(func_list) :
          func_list'[k] = IF k = i_cache THEN [f EXCEPT !.correct = TRUE] ELSE func_list[k]
    BY <1>2, <2>2
  <2> QED
    BY <1>2, <2>3, <2>4 DEF Func
<1>4. part' \in SUBSET (1 .. 7)
  <2>1. Len(trace) \in {5, 7}
    BY <1>1 DEF TestInv, Judged
  <2>2. region \subseteq 1 .. 7
    BY <2>1
  <2> HIDE DEF region
  <2> QED
    BY <1>1, <2>2
<1>5. Survived(i_cache) => Cardinality(part') = 4
  <2> SUFFICES ASSUME Survived(i_cache)
               PROVE  Cardinality(part') = 4
    OBVIOUS
  <2>1. trace = <<"main", "start", "low", "stack", "low", "end", "main">>
    BY <1>1 DEF TestInv, Judged
  <2>2. region = {2, 3, 5, 6, 7}
    BY <2>1
  <2>3. part' = {k \in region : trace[k] # "main"}
    BY <1>1, <2>1, <2>2
  <2>4. part' = {2, 3, 5, 6}
    BY <2>1, <2>2, <2>3
  <2> HIDE DEF region
  <2>5. IsFiniteSet({2} \cup {3}) /\ Cardinality({2} \cup {3}) = 2
    <3>1. IsFiniteSet({2}) /\ Cardinality({2}) = 1
      BY FS_Singleton
    <3> QED
      BY <3>1, FS_AddElement
  <2>6. /\ IsFiniteSet({2, 3} \cup {5}) /\ Cardinality({2, 3} \cup {5}) = 3
    <3>1. {2, 3} = {2} \cup {3}
      OBVIOUS
    <3> QED
      BY <2>5, <3>1, FS_AddElement
  <2>7. Cardinality({2, 3, 5} \cup {6}) = 4
    <3>1. {2, 3, 5} = {2, 3} \cup {5}
      OBVIOUS
    <3> QED
      BY <2>6, <3>1, FS_AddElement
  <2>8. part' = {2, 3, 5} \cup {6}
    BY <2>4
  <2> QED
    BY <2>7, <2>8
<1>6. Passed' = Passed \cup {i_cache} /\ i_cache \notin Passed /\ i_cache \notin failed
  <2>1. DOMAIN func_list' = 1 .. Len(func_list)
    BY <1>3
  <2>2. i_cache \notin Passed /\ i_cache \notin failed
    BY <1>1 DEF TestInv, Turns
  <2> QED
    BY <1>2, <1>3, <2>1, <2>2 DEF Passed
<1>7. LabType'
  <2>1. results' \in [funcid : Nat, correct : {0, 1}, misses : Seq(Nat)]
    BY <1>1 DEF LabType
  <2> QED
    BY <1>1, <1>3, <1>4, <2>1 DEF LabType
<1>8. Passed \subseteq 1 .. i_cache - 1 /\ failed \subseteq 1 .. i_cache - 1
  BY <1>2, <1>6 DEF TestInv, Turns
<1>9. Turns'
  BY <1>1, <1>2, <1>3, <1>6, <1>8 DEF TestInv, Turns
<1>10. Judged'
  <2>1. \A k \in 1 .. i_cache - 1 : Survived(k)' => (func_list'[k].correct <=> ran'[k])
    BY <1>1, <1>2, <1>3 DEF TestInv, Judged, Survived
  <2>2. Survived(i_cache)' => ran'[i_cache] /\ Cardinality(part') = 4
    BY <1>1, <1>2, <1>3, <1>5 DEF TestInv, Judged, Survived
  <2>3. csim_results # None =>
         /\ Len(csim_results) = 2
         /\ csim_results[1] \in {0} \cup {l \in Passed' : l < i_cache}
    BY <1>1, <1>6 DEF TestInv, Judged
  <2> QED
    BY <1>1, <2>1, <2>2, <2>3 DEF Judged
<1>11. Mine' = Mine /\ \A k \in Mine : func_list'[k].misses = func_list[k].misses
  <2>1. Mine \subseteq 1 .. Len(func_list)
    BY Functions DEF Mine
  <2>2. Mine' = Mine
    BY <1>1, <1>2, <1>3, <1>6, Functions DEF Mine
  <2> QED
    BY <1>3, <2>1, <2>2
<1>12. Resulted'
  <2>1. /\ results.funcid <= i_cache /\ results.funcid \in Nat /\ results.correct \in {0, 1}
        /\ results.funcid = i_cache <=> f.submit
        /\ Outcome(results.correct, results.misses)
    BY <1>1 DEF TestInv, Resulted, Earlier, LabType
  <2>2. /\ results'.correct = IF f.submit THEN 1 ELSE results.correct
        /\ results'.misses = results.misses /\ results'.funcid = results.funcid
    BY <1>1, <2>1 DEF LabType
  <2>3. f.submit <=> func_list'[i_cache].submit
    BY <1>2, <1>3
  <2>4. output' = << >>
    BY <1>1 DEF TestInv, Resulted
  <2> HIDE DEF f
  <2>5. Earlier'
    BY <1>1, <1>11, <2>1, <2>2, <2>3 DEF Outcome, Earlier
  <2> QED
    BY <1>1, <2>1, <2>2, <2>3, <2>4, <2>5 DEF Resulted
<1>13. \A k \in Passed' : k < i_cache' => Counted(k)'
  <2> SUFFICES ASSUME NEW k \in Passed', k < i_cache'
               PROVE  Counted(k)'
    OBVIOUS
  <2>1. /\ k \in Passed /\ k # i_cache /\ k \in 1 .. Len(func_list)
        /\ Counted(k) /\ k \in Nat /\ i_cache \in Nat
    BY <1>1, <1>6, Functions DEF TestInv
  <2>2. {l \in Passed' : l < k} = {l \in Passed : l < k}
    BY <1>1, <1>6, <2>1
  <2> QED
    BY <1>1, <1>3, <2>1, <2>2 DEF Counted, Survived
<1> QED
  BY <1>1, <1>7, <1>9, <1>10, <1>12, <1>13 DEF TestInv, Resulted

\* csim-ref: the turn is over, with its misses or those of an earlier one.
LEMMA SimulateKeeps ==
    ASSUME LabType, TestInv, NEW works \in BOOLEAN, Simulate(works)
    PROVE  LabType' /\ TestInv'
<1> DEFINE f == func_list[i_cache]
           found == IF works THEN <<i_cache, Cardinality(part)>> ELSE csim_results
<1>1. /\ pc_cache = "simulate" /\ csim_results' = found
      /\ failed' = IF works THEN failed ELSE failed \cup {i_cache}
      /\ UNCHANGED <<M, N, A, B, flag, trace, part, output, ran>>
  BY DEF Simulate
<1>2. \/ found = None /\ pc_cache' = "exited" /\ UNCHANGED <<func_list, results, i_cache>>
      \/ /\ found # None
         /\ func_list' = [func_list EXCEPT ![i_cache].misses = found]
         /\ results' = IF results.funcid = i_cache
                       THEN [results EXCEPT !.misses = found] ELSE results
         /\ i_cache' = i_cache + 1
         /\ pc_cache' = IF i_cache = Len(func_list) THEN "emit" ELSE "generate"
  BY DEF Simulate, Continue
<1>3. /\ i_cache \in 1 .. Len(func_list) /\ f \in Func /\ Len(func_list) \in Nat /\ i_cache \in Nat
      /\ DOMAIN func_list = 1 .. Len(func_list)
  BY <1>1, Functions DEF TestInv, Turns, LabType
<1>4. /\ i_cache \in Passed /\ Passed \subseteq 1 .. i_cache /\ failed \subseteq 1 .. i_cache - 1
  <2>1. /\ i_cache \notin failed /\ failed \subseteq 1 .. i_cache
        /\ Passed \subseteq 1 .. i_cache /\ i_cache \in Passed
    BY <1>1 DEF TestInv, Turns
  <2> QED
    BY <1>3, <2>1
<1>5. failed' \subseteq 1 .. i_cache /\ \A k \in 1 .. i_cache - 1 : k \in failed' <=> k \in failed
  BY <1>1, <1>3, <1>4
<1>6. Cardinality(part) \in Nat
  <2>1. IsFiniteSet(part)
    <3>1. IsFiniteSet(1 .. 7)
      <4>1. 1 \in Int /\ 7 \in Int
        OBVIOUS
      <4> QED
        BY <4>1, FS_Interval, Zenon
    <3> QED
      BY <3>1, FS_Subset DEF LabType
  <2> QED
    BY <2>1, FS_CardinalityType
<1>7. found \in Seq(Nat)
  BY <1>3, <1>6 DEF LabType
<1>8. CASE found = None
  <2>1. pc_cache' = "exited" /\ UNCHANGED <<func_list, results, i_cache>>
    BY <1>2, <1>8
  <2>2. Passed' = Passed
    BY <2>1 DEF Passed
  <2>3. LabType'
    BY <1>1, <1>7, <2>1 DEF LabType
  <2>4. Turns'
    BY <1>1, <1>5, <2>1, <2>2 DEF TestInv, Turns
  <2>5. Judged'
    BY <1>1, <2>1 DEF TestInv, Judged, Survived
  <2>6. Resulted'
    BY <2>1 DEF Resulted
  <2>7. \A k \in Passed' : k < i_cache' => Counted(k)'
    <3> SUFFICES ASSUME NEW k \in Passed', k < i_cache'
                 PROVE  Counted(k)'
      OBVIOUS
    <3>1. k \in Passed /\ k \in 1 .. i_cache - 1 /\ Counted(k)
      BY <1>3, <1>4, <2>1, <2>2 DEF TestInv
    <3> QED
      BY <1>5, <2>1, <2>2, <3>1 DEF Counted, Survived
  <2> QED
    BY <1>1, <2>1, <2>3, <2>4, <2>5, <2>6, <2>7 DEF TestInv, Resulted
<1>9. CASE found # None
  <2>1. /\ func_list' = [func_list EXCEPT ![i_cache] = [f EXCEPT !.misses = found]]
        /\ results' = IF results.funcid = i_cache THEN [results EXCEPT !.misses = found] ELSE results
        /\ i_cache' = i_cache + 1
        /\ pc_cache' = IF i_cache = Len(func_list) THEN "emit" ELSE "generate"
    BY <1>2, <1>9
  <2>2. [f EXCEPT !.misses = found] \in Func
    <3> HIDE DEF found
    <3> QED
      BY <1>3, <1>7 DEF Func
  <2>3. func_list' \in Seq(Func) /\ Len(func_list') = Len(func_list)
    <3> HIDE DEF f, found
    <3> QED
      BY <1>3, <2>1, <2>2 DEF LabType
  <2>4. \A k \in 1 .. Len(func_list) :
            /\ func_list'[k].does = func_list[k].does /\ func_list'[k].submit = func_list[k].submit
            /\ func_list'[k].misses = IF k = i_cache THEN found ELSE func_list[k].misses
            /\ func_list'[k].correct = func_list[k].correct
    <3>1. \A k \in 1 .. Len(func_list) :
            func_list'[k] = IF k = i_cache THEN [f EXCEPT !.misses = found] ELSE func_list[k]
      BY <1>3, <2>1
    <3> HIDE DEF found
    <3> QED
      BY <1>3, <3>1 DEF Func
  <2>5. Passed' = Passed
    <3>1. DOMAIN func_list' = 1 .. Len(func_list)
      BY <2>3
    <3> QED
      BY <1>3, <2>4, <3>1 DEF Passed
  <2> HIDE DEF found
  <2>6. LabType'
    <3>1. results' \in [funcid : Nat, correct : {0, 1}, misses : Seq(Nat)]
      BY <1>7, <2>1 DEF LabType
    <3>2. i_cache' \in 1 .. Len(func_list') + 1 /\ pc_cache' \in {"emit", "generate"}
      BY <1>3, <2>1, <2>3
    <3> QED
      BY <1>1, <1>7, <2>3, <3>1, <3>2 DEF LabType
  <2>7. Turns'
    <3>1. Len(ran) = i_cache
      BY <1>1 DEF TestInv, Turns
    <3>2. Passed \subseteq 1 .. i_cache + 1 /\ failed' \subseteq 1 .. i_cache + 1
          /\ i_cache + 1 \notin Passed /\ i_cache + 1 \notin failed'
      BY <1>3, <1>4, <1>5
    <3> QED
      BY <1>1, <1>3, <2>1, <2>3, <2>5, <3>1, <3>2 DEF Turns
  <2>8. /\ Len(found) = 2 /\ found[1] \in Nat
        /\ works => found[1] = i_cache /\ (Survived(i_cache) => found[2] = 4)
        /\ ~works => found[1] \in {0} \cup {l \in Passed : l < i_cache}
    <3>1. CASE works
      <4>1. found = <<i_cache, Cardinality(part)>>
        BY <3>1 DEF found
      <4> QED
        BY <1>1, <1>3, <3>1, <4>1 DEF TestInv, Judged
    <3>2. CASE ~works
      <4>1. found = csim_results
        BY <3>2 DEF found
      <4> QED
        <5>1. Len(csim_results) = 2 /\ csim_results[1] \in {0} \cup {l \in Passed : l < i_cache}
          BY <1>1, <1>9, <4>1 DEF TestInv, Judged
        <5>2. csim_results[1] \in Nat
          <6>1. \A l \in Passed : l \in Nat
            BY <1>4
          <6> QED
            BY <5>1, <6>1
        <5> QED
          BY <3>2, <4>1, <5>1, <5>2
    <3> QED
      BY <3>1, <3>2
  <2>9. Judged'
    <3>1. func_list[i_cache].correct
      BY <1>4 DEF Passed
    <3>2. \A k \in 1 .. i_cache : Survived(k) => (func_list[k].correct <=> ran[k])
      BY <1>1, <1>3, <3>1 DEF TestInv, Judged
    <3>3. \A k \in 1 .. i_cache' - 1 : Survived(k)' => (func_list'[k].correct <=> ran'[k])
      BY <1>1, <1>3, <2>1, <2>4, <3>2 DEF Survived
    <3>4. csim_results'[1] \in {0} \cup {l \in Passed' : l < i_cache'} /\ Len(csim_results') = 2
      BY <1>1, <1>3, <1>4, <2>1, <2>5, <2>8
    <3> QED
      BY <2>1, <3>3, <3>4 DEF Judged
  <2>10. /\ Mine \subseteq 1 .. i_cache - 1
         /\ Mine' = IF f.submit THEN Mine \cup {i_cache} ELSE Mine
         /\ \A k \in Mine : func_list'[k].misses = func_list[k].misses
         /\ func_list'[i_cache].misses = found
    <3>1. ASSUME NEW k \in Mine
          PROVE  k \in 1 .. i_cache - 1
      <4>1. k \in 1 .. i_cache /\ k < i_cache
        BY <1>4 DEF Mine
      <4> QED
        BY <1>3, <4>1
    <3>2. \A k : k \in Mine' <=> k \in Mine \/ (k = i_cache /\ f.submit)
      BY <1>3, <1>4, <2>1, <2>4, <2>5 DEF Mine
    <3> QED
      <4>1. Mine \subseteq 1 .. i_cache - 1 /\ Mine \subseteq 1 .. Len(func_list)
        BY <1>3, <3>1
      <4>2. Mine' = IF f.submit THEN Mine \cup {i_cache} ELSE Mine
        BY <3>2
      <4>3. \A k \in Mine : func_list'[k].misses = func_list[k].misses
        BY <1>3, <2>4, <3>1
      <4> QED
        BY <1>3, <2>4, <4>1, <4>2, <4>3
  <2>11. Resulted'
    <3>1. /\ results.funcid <= i_cache /\ results.funcid \in Nat /\ results.correct \in {0, 1}
          /\ results.funcid = i_cache <=> f.submit
          /\ f.submit => results.correct = 1
          /\ ~f.submit => Outcome(results.correct, results.misses)
      BY <1>1 DEF TestInv, Resulted, Earlier, LabType
    <3> HIDE DEF f
    <3>2. /\ results'.correct = results.correct /\ results'.funcid = results.funcid
          /\ results'.misses = IF f.submit THEN found ELSE results.misses
      BY <2>1, <3>1 DEF LabType
    <3>3. ASSUME f.submit PROVE Earlier'
      <4>1. Mine' = Mine \cup {i_cache} /\ i_cache \in Mine' /\ \A k \in Mine' : k <= i_cache
        <5>1. Mine' = Mine \cup {i_cache}
          BY <2>10, <3>3
        <5>2. \A k \in Mine : k <= i_cache
          BY <1>3, <2>10
        <5> QED
          BY <1>3, <5>1, <5>2
      <4>2. Mine' # {} /\ results'.correct = 1 /\ results'.misses = func_list'[i_cache].misses
        BY <2>10, <3>1, <3>2, <3>3, <4>1
      <4> QED
        BY <4>1, <4>2 DEF Outcome, Earlier
    <3>4. ASSUME ~f.submit PROVE Earlier'
      <4>1. Outcome(results.correct, results.misses)
        BY <3>1, <3>4
      <4>2. Mine' = Mine /\ results'.misses = results.misses
        BY <2>10, <3>2, <3>4
      <4> QED
        BY <2>10, <3>1, <3>2, <4>1, <4>2 DEF Outcome, Earlier
    <3>5. Earlier'
      BY <3>3, <3>4, Zenon
    <3>6. output' = << >>
      BY <1>1 DEF TestInv, Resulted
    <3> QED
      BY <1>3, <2>1, <3>1, <3>2, <3>5, <3>6 DEF Resulted
  <2>12. \A k \in Passed' : k < i_cache' => Counted(k)'
    <3> SUFFICES ASSUME NEW k \in Passed', k < i_cache'
                 PROVE  Counted(k)'
      OBVIOUS
    <3>1. k \in Passed /\ k \in 1 .. i_cache
      BY <1>4, <2>5
    <3>2. CASE k # i_cache
      <4>1. k \in 1 .. i_cache - 1 /\ Counted(k) /\ k \in 1 .. Len(func_list)
        BY <1>3, <3>1, <3>2 DEF TestInv
      <4> QED
        BY <1>5, <2>4, <2>5, <3>2, <4>1 DEF Counted, Survived
    <3>3. CASE k = i_cache
      <4>1. k \in failed' <=> ~works
        BY <1>1, <1>3, <1>4, <3>3
      <4> QED
        BY <1>3, <2>4, <2>5, <2>8, <3>3, <4>1 DEF Counted, Survived
    <3> QED
      BY <3>2, <3>3
  <2> QED
    BY <1>1, <2>1, <2>6, <2>7, <2>9, <2>11, <2>12 DEF TestInv, Resulted
<1> QED
  BY <1>8, <1>9

\* tracegen by itself.
LEMMA InitMatrixKeeps == LabType /\ TracegenInv /\ initMatrix => LabType' /\ TracegenInv'
<1> SUFFICES ASSUME LabType, TracegenInv, initMatrix
             PROVE  LabType' /\ TracegenInv'
  OBVIOUS
<1>1. /\ pc_cache = "tracegen" /\ pc_cache' = "call"
      /\ A' \in Matrices(N, M) /\ B' \in Matrices(M, N)
      /\ UNCHANGED <<func_list, M, N, i_cache, results, flag, trace, part, csim_results,
                     output, ran, failed>>
  BY DEF initMatrix
<1>2. LabType'
  BY <1>1 DEF LabType
<1>3. Shape(A', N, M) /\ Shape(B', M, N)
  BY <1>1 DEF Matrices, Shape
<1>4. Shape(A, N, M)' /\ Shape(B, M, N)'
  BY <1>1, <1>3 DEF Shape
<1>5. Passed' = Passed
  BY <1>1 DEF Passed
<1>6. ran = << >> /\ i_cache = 1 /\ output = << >>
  BY <1>1 DEF TracegenInv
<1>7. Len(ran') = i_cache' - 1 /\ \A k \in 1 .. i_cache' - 1 : ran'[k]
  BY <1>1, <1>6
<1> QED
  BY <1>1, <1>2, <1>4, <1>5, <1>6, <1>7 DEF TracegenInv

\* Matrices larger than the arrays: nothing has run.
LEMMA OverrunKeeps == LabType /\ TracegenInv /\ initMatrixOverrun => LabType' /\ TracegenInv'
<1> SUFFICES ASSUME LabType, TracegenInv, initMatrixOverrun
             PROVE  LabType' /\ TracegenInv'
  OBVIOUS
<1>1. /\ pc_cache = "tracegen" /\ pc_cache' = "overrun"
      /\ UNCHANGED <<func_list, M, N, A, B, i_cache, results, flag, trace, part, csim_results,
                     output, ran, failed>>
  BY DEF initMatrixOverrun
<1>2. LabType'
  BY <1>1 DEF LabType
<1>3. Passed' = Passed
  BY <1>1 DEF Passed
<1>4. ran = << >> /\ i_cache = 1 /\ output = << >>
  BY <1>1 DEF TracegenInv
<1> QED
  BY <1>1, <1>2, <1>3, <1>4 DEF TracegenInv

\* The next function on the same matrices: valid, not, or the end of the process.
LEMMA CallNextKeeps == LabType /\ TracegenInv /\ CallNext => LabType' /\ TracegenInv'
<1> SUFFICES ASSUME LabType, TracegenInv, CallNext
             PROVE  LabType' /\ TracegenInv'
  OBVIOUS
<1>1. PICK m : m = CallOf(func_list[i_cache].does, A, B)
  OBVIOUS
<1>2. /\ pc_cache = "call" /\ i_cache <= Len(func_list)
      /\ A' = m.A /\ B' = m.B /\ ran' = Append(ran, IsTranspose(m))
      /\ UNCHANGED <<func_list, M, N, results, flag, trace, part, csim_results, failed>>
  BY <1>1 DEF CallNext
<1>3. \/ output' = <<139>> /\ pc_cache' = "exited" /\ i_cache' = i_cache
      \/ validate([A |-> A', B |-> B']) /\ i_cache' = i_cache + 1 /\ UNCHANGED <<pc_cache, output>>
      \/ /\ ~validate([A |-> A', B |-> B']) /\ output' = <<i_cache>> /\ pc_cache' = "exited"
         /\ i_cache' = i_cache
  BY DEF CallNext, Emit
<1>4. /\ Passed = {} /\ Len(ran) = i_cache - 1 /\ output = << >>
      /\ \A k \in 1 .. i_cache - 1 : ran[k]
      /\ Shape(A, N, M) /\ Shape(B, M, N)
  BY <1>2 DEF TracegenInv
<1>5. /\ Shape(m.A, N, M) /\ Shape(m.B, M, N)
      /\ validate(m) <=> IsTranspose(m)
      /\ m = [A |-> A', B |-> B']
  BY <1>1, <1>2, <1>4, Transposed DEF LabType
<1>6. PICK left \in BOOLEAN : left = IsTranspose(m)
  BY DEF IsTranspose
<1>7. validate([A |-> A', B |-> B']) <=> left
  BY <1>5, <1>6
<1>8. /\ i_cache \in 1 .. Len(func_list) /\ Len(func_list) \in Nat
      /\ DOMAIN func_list = 1 .. Len(func_list)
  BY <1>2, Functions DEF LabType
<1>9. /\ ran' \in Seq(BOOLEAN) /\ Len(ran') = i_cache /\ ran'[i_cache] = left
      /\ \A k \in 1 .. i_cache - 1 : ran'[k] = ran[k]
  <2>1. ran' = Append(ran, left) /\ ran \in Seq(BOOLEAN)
    BY <1>2, <1>6 DEF LabType
  <2> QED
    BY <1>4, <1>8, <2>1
<1>10. LabType'
  <2>1. i_cache' \in 1 .. Len(func_list) + 1
    BY <1>3, <1>8
  <2>2. pc_cache' \in {"call", "exited"}
    BY <1>2, <1>3
  <2> QED
    BY <1>2, <1>9, <2>1, <2>2 DEF LabType
<1>11. Passed' = {}
  BY <1>2, <1>4 DEF Passed
<1>12. CASE output' = <<139>> /\ pc_cache' = "exited"
  <2>1. Len(output') = 1
    BY <1>12
  <2> QED
    BY <1>10, <1>11, <1>12, <2>1 DEF TracegenInv
<1>13. CASE /\ validate([A |-> A', B |-> B']) /\ i_cache' = i_cache + 1
            /\ UNCHANGED <<pc_cache, output>>
  <2>1. Shape(A, N, M)' /\ Shape(B, M, N)'
    BY <1>2, <1>5 DEF Shape
  <2>2. \A k \in 1 .. i_cache : ran'[k]
    <3>1. ran'[i_cache]
      BY <1>7, <1>9, <1>13
    <3>2. ASSUME NEW k \in 1 .. i_cache - 1 PROVE ran'[k]
      BY <1>4, <1>9
    <3>3. \A k \in 1 .. i_cache : k = i_cache \/ k \in 1 .. i_cache - 1
      BY <1>8
    <3> QED
      BY <3>1, <3>2, <3>3
  <2>3. Len(ran') = i_cache' - 1 /\ \A k \in 1 .. i_cache' - 1 : ran'[k]
    BY <1>8, <1>9, <1>13, <2>2
  <2> QED
    BY <1>2, <1>4, <1>10, <1>11, <1>13, <2>1, <2>3 DEF TracegenInv
<1>14. CASE /\ ~validate([A |-> A', B |-> B']) /\ output' = <<i_cache>> /\ pc_cache' = "exited"
            /\ i_cache' = i_cache
  <2>1. ~ran'[i_cache] /\ Len(output') = 1 /\ output'[1] = i_cache
    BY <1>7, <1>9, <1>14
  <2>2. ASSUME NEW k \in DOMAIN func_list', k <= Len(ran')
        PROVE  ran'[k] <=> output'[1] # k
    <3>1. k \in 1 .. i_cache - 1 \/ k = i_cache
      BY <1>2, <1>8, <1>9, <2>2
    <3>2. ASSUME k \in 1 .. i_cache - 1 PROVE ran'[k] /\ k # i_cache
      BY <1>4, <1>8, <1>9, <3>2
    <3> QED
      BY <2>1, <3>1, <3>2
  <2> QED
    BY <1>10, <1>11, <1>14, <2>1, <2>2 DEF TracegenInv
<1> QED
  BY <1>3, <1>12, <1>13, <1>14

\* All were valid.
LEMMA AllValidKeeps == LabType /\ TracegenInv /\ AllValid => LabType' /\ TracegenInv'
<1> SUFFICES ASSUME LabType, TracegenInv, AllValid
             PROVE  LabType' /\ TracegenInv'
  OBVIOUS
<1>1. /\ pc_cache = "call" /\ i_cache > Len(func_list) /\ output' = <<0>> /\ pc_cache' = "exited"
      /\ UNCHANGED <<func_list, M, N, A, B, i_cache, results, flag, trace, part,
                     csim_results, ran, failed>>
  BY DEF AllValid, Emit
<1>2. LabType'
  BY <1>1 DEF LabType
<1>3. Passed' = {} /\ Len(ran) = i_cache - 1 /\ \A k \in 1 .. i_cache - 1 : ran[k]
  BY <1>1 DEF TracegenInv, Passed
<1>4. Len(output') = 1 /\ output'[1] = 0
  BY <1>1
<1>5. \A k \in DOMAIN func_list' : ran'[k] /\ k # 0
  BY <1>1, <1>3, Functions
<1> QED
  BY <1>1, <1>2, <1>3, <1>4, <1>5 DEF TracegenInv

\* Every step of the two programs.
LEMMA LabNext == LabInv /\ [CacheNext]_cachevars => LabInv'
<1> SUFFICES ASSUME LabInv, [CacheNext]_cachevars
             PROVE  LabInv'
  OBVIOUS
<1>1. LabType
  BY DEF LabInv
<1>2. ASSUME TracegenInv
      PROVE  pc_cache \notin {"test-trans", "generate", "filter", "simulate", "emit"}
  BY <1>2 DEF TracegenInv
<1>3. ASSUME TestInv
      PROVE  pc_cache \notin {"tracegen", "call"}
  BY <1>3 DEF TestInv
<1>4. CASE Start
  BY <1>1, <1>2, <1>4, StartKeeps DEF LabInv, Start
<1>5. CASE RunTracegen
  BY <1>1, <1>2, <1>5, RunKeeps DEF LabInv, RunTracegen
<1>6. CASE Filter
  BY <1>1, <1>2, <1>6, FilterKeeps DEF LabInv, Filter
<1>7. ASSUME NEW works \in BOOLEAN, Simulate(works)
      PROVE  LabInv'
  BY <1>1, <1>2, <1>7, SimulateKeeps DEF LabInv, Simulate
<1>8. CASE EmitResults
  BY <1>1, <1>2, <1>8, EmitKeeps DEF LabInv, EmitResults
<1>9. CASE sigalrm_handler
  BY <1>1, <1>2, <1>9, AlarmKeeps DEF LabInv, sigalrm_handler
<1>10. CASE initMatrix
  BY <1>1, <1>3, <1>10, InitMatrixKeeps DEF LabInv, initMatrix
<1>11. CASE CallNext
  BY <1>1, <1>3, <1>11, CallNextKeeps DEF LabInv, CallNext
<1>12. CASE AllValid
  BY <1>1, <1>3, <1>12, AllValidKeeps DEF LabInv, AllValid
<1>13. CASE initMatrixOverrun
  BY <1>1, <1>3, <1>13, OverrunKeeps DEF LabInv, initMatrixOverrun
<1>14. CASE UNCHANGED cachevars
  <2>1. Passed' = Passed /\ Mine' = Mine
    BY <1>14 DEF cachevars, Passed, Mine
  <2>2. LabType'
    BY <1>1, <1>14 DEF cachevars, LabType
  <2>3. TestInv => TestInv'
    <3>1. TestInv => Turns' /\ Judged'
      BY <1>14, <2>1 DEF cachevars, TestInv, Turns, Judged, Survived
    <3>2. TestInv => Resulted'
      BY <1>14, <2>1 DEF cachevars, TestInv, Resulted, Earlier, Outcome
    <3>3. \A k : Counted(k)' <=> Counted(k)
      BY <1>14, <2>1 DEF cachevars, Counted, Survived
    <3> QED
      BY <1>14, <2>1, <3>1, <3>2, <3>3 DEF cachevars, TestInv, LastOf
  <2>4. TracegenInv => TracegenInv'
    BY <1>14, <2>1 DEF cachevars, TracegenInv, Shape
  <2> QED
    BY <2>2, <2>3, <2>4 DEF LabInv
<1> QED
  BY <1>4, <1>5, <1>6, <1>7, <1>8, <1>9, <1>10, <1>11, <1>12, <1>13, <1>14 DEF CacheNext

\* What the invariant says of the verdicts.
LEMMA LabJudged == LabInv => JudgedByItsOwnRun
<1> SUFFICES ASSUME LabInv
             PROVE  JudgedByItsOwnRun
  OBVIOUS
<1>1. LabType
  BY DEF LabInv
<1>2. CASE TestInv
  <2>1. \A k \in DOMAIN ran : k < i_cache => k \in 1 .. i_cache - 1
    BY <1>1, Functions DEF LabType
  <2>2. \A k \in DOMAIN ran : k < i_cache /\ Survived(k) => (func_list[k].correct <=> ran[k])
    BY <1>2, <2>1 DEF TestInv, Judged
  <2> QED
    BY <1>2, <2>2 DEF TestInv, Counted, JudgedByItsOwnRun
<1>3. CASE TracegenInv
  <2>1. Passed = {} /\ Len(<< >>) = 0
    BY <1>3 DEF TracegenInv
  <2>2. CASE pc_cache \in {"tracegen", "overrun"} /\ ran = << >> /\ output = << >>
    BY <2>1, <2>2 DEF JudgedByItsOwnRun
  <2>3. CASE pc_cache = "call" /\ output = << >>
    BY <2>1, <2>3 DEF JudgedByItsOwnRun
  <2>4. CASE /\ Len(output) = 1
             /\ output # <<139>> =>
                  \A k \in DOMAIN func_list : k <= Len(ran) => (ran[k] <=> output[1] # k)
    BY <2>1, <2>4 DEF JudgedByItsOwnRun
  <2> QED
    BY <1>3, <2>2, <2>3, <2>4 DEF TracegenInv
<1> QED
  BY <1>2, <1>3 DEF LabInv

\* test-trans.c and tracegen.c, for every list of functions, every dimension and
\* every failure of a function or of csim-ref: a function is judged by its own run.
THEOREM OwnRun == CacheSpec => []JudgedByItsOwnRun
  BY LabInit, LabNext, LabJudged, PTL DEF CacheSpec

-----------------------------------------------------------------------------
(* The counter of clock.c                                                     *)

\* What a division leaves.
LEMMA DivMod ==
    ASSUME NEW n \in Nat \ {0}, NEW x \in Int
    PROVE  /\ x \div n \in Int
           /\ x % n \in 0 .. n - 1
           /\ x = n * (x \div n) + (x % n)
<1>1. x \div n \in Int
  BY SMT
<1>2. x % n \in 0 .. n - 1
  BY SMT
<1>3. x = n * (x \div n) + (x % n)
  BY SMT
<1> QED
  BY <1>1, <1>2, <1>3

\* A multiple of a number that is not 0 is as far from 0 as the number.
LEMMA Far ==
    ASSUME NEW n \in Nat \ {0}, NEW q \in Int, q # 0
    PROVE  /\ q > 0 => n * q >= n
           /\ q < 0 => n * q <= -n
<1>1. CASE q >= 1
  BY <1>1, SMT
<1>2. CASE q <= -1
  BY <1>2, SMT
<1> QED
  BY <1>1, <1>2

\* There is one way to divide.
LEMMA ModIs ==
    ASSUME NEW n \in Nat \ {0}, NEW q \in Int, NEW r \in 0 .. n - 1
    PROVE  (n * q + r) % n = r /\ (n * q + r) \div n = q
<1> DEFINE x == n * q + r
<1>1. x \in Int
  OBVIOUS
<1>2. /\ x \div n \in Int /\ x % n \in 0 .. n - 1
      /\ x = n * (x \div n) + (x % n)
  BY <1>1, DivMod
<1>3. PICK p \in Int, t \in 0 .. n - 1 : p = x \div n /\ t = x % n
  BY <1>2
<1>4. n * q + r = n * p + t
  BY <1>2, <1>3
<1>5. n * (q - p) = t - r
  BY <1>4
<1>6. q - p = 0
  <2>1. q - p > 0 => n * (q - p) >= n
    BY Far
  <2>2. q - p < 0 => n * (q - p) <= -n
    BY Far
  <2> QED
    BY <1>5, <2>1, <2>2
<1>7. p = q
  BY <1>6
<1>8. n * p = n * q
  BY <1>7
<1>9. t = r
  BY <1>4, <1>8
<1> QED
  BY <1>3, <1>7, <1>9

\* The upper half of a number of two halves is one.
LEMMA UpperHalf ==
    ASSUME NEW n \in Nat \ {0}, NEW q \in Int, NEW l \in 0 .. n - 1, n * q + l \in 0 .. n * n - 1
    PROVE  q \in 0 .. n - 1
<1>1. ASSUME q < 0
      PROVE  FALSE
  <2>1. n * q <= -n
    BY <1>1, Far
  <2> QED
    BY <2>1
<1>2. ASSUME q >= n
      PROVE  FALSE
  <2>1. n * q >= n * n
    BY <1>2
  <2> QED
    BY <2>1
<1> QED
  BY <1>1, <1>2

\* A subtraction in two halves with a borrow gives the difference, also when the
\* counter has come round any number of times.
LEMMA Difference ==
    ASSUME NEW n \in Nat \ {0}, NEW ah \in 0 .. n - 1, NEW al \in 0 .. n - 1,
           NEW ch \in 0 .. n - 1, NEW cl \in 0 .. n - 1,
           NEW e \in 0 .. n * n - 1, NEW k \in Int,
           ah * n + al = ch * n + cl + e - k * (n * n),
           NEW l, l = (al - cl) % n,
           NEW borrow, borrow = IF l > al THEN 1 ELSE 0
    PROVE  ((ah - ch - borrow) % n) * n + l = e
<1>1. borrow \in {0, 1} /\ l \in 0 .. n - 1 /\ al - cl = l - borrow * n
  <2>1. CASE al >= cl
    <3>1. al - cl = n * 0 + (al - cl) /\ al - cl \in 0 .. n - 1
      BY <2>1
    <3>2. l = al - cl
      BY <3>1, ModIs
    <3> QED
      BY <2>1, <3>2
  <2>2. CASE al < cl
    <3>1. al - cl = n * (-1) + (al - cl + n) /\ al - cl + n \in 0 .. n - 1
      BY <2>2
    <3>2. l = al - cl + n
      BY <3>1, ModIs
    <3> QED
      BY <2>2, <3>2
  <2> QED
    BY <2>1, <2>2
<1> DEFINE x == ah - ch - borrow
<1>2. PICK q \in Int : q = x + k * n
  <2>1. x \in Int /\ k * n \in Int
    BY <1>1
  <2> HIDE DEF x
  <2> QED
    BY <2>1
<1>3. e = n * q + l
  <2>1. e = (ah - ch) * n + (al - cl) + k * (n * n)
    OBVIOUS
  <2>2. (ah - ch) * n - borrow * n = x * n
    BY <1>1
  <2>3. x * n + k * (n * n) = n * (x + k * n)
    BY <1>1
  <2>4. e = (ah - ch) * n - borrow * n + l + k * (n * n)
    BY <1>1, <2>1
  <2>5. e = x * n + l + k * (n * n)
    BY <2>2, <2>4
  <2> QED
    BY <1>1, <1>2, <2>3, <2>5
<1>4. q \in 0 .. n - 1
  BY <1>1, <1>3, UpperHalf
<1>5. x = n * (-k) + q
  BY <1>1, <1>2
<1>6. x % n = q
  BY <1>4, <1>5, ModIs
<1> QED
  BY <1>1, <1>3, <1>4, <1>6

-----------------------------------------------------------------------------

\* What clock.c knows of the counter: since start_counter it has moved by elapsed,
\* round or not.
Moved ==
    \E k \in Int : hi * Half + lo = cyc_hi * Half + cyc_lo + elapsed - k * (Half * Half)
\* The cost of a tick is the least that callibrate saw above RECORDTHRESH.
Cheapest ==
    LET seen == {r \in ratios : r > RECORDTHRESH * Unit}
    IN  IF seen = {} THEN cyc_per_tick = 0
        ELSE cyc_per_tick \in seen /\ \A r \in seen : cyc_per_tick <= r

\* The counter between two steps, and the last answer.
ClockInv ==
    /\ hi \in 0 .. Half - 1 /\ lo \in 0 .. Half - 1
    /\ cyc_hi \in 0 .. Half - 1 /\ cyc_lo \in 0 .. Half - 1
    /\ elapsed \in 0 .. Half * Half - 1
    /\ tms_utime \in Nat /\ start_tick \in Nat /\ oldt \in Int /\ oldc \in Int
    /\ ratios \subseteq Int /\ cyc_per_tick \in Int
    /\ pc_clock \in {"idle", "callibrate", "started"}
    /\ pc_clock # "idle" => Moved
    /\ Cheapest
    /\ pc_clock = "idle" => got.time = got.elapsed * Unit - got.ticks * cyc_per_tick

\* access_counter: the halves are those of a counter that has moved on.
LEMMA Lapsed ==
    ASSUME ClockInv, NEW d \in Nat, Lapse(d)
    PROVE  /\ hi' \in 0 .. Half - 1 /\ lo' \in 0 .. Half - 1
           /\ \E k \in Int : hi' * Half + lo' = (hi * Half + lo + d) - k * (Half * Half)
<1> USE ClockConstants
<1> DEFINE n == Half * Half
           x == hi * Half + lo + d
<1>1. n \in Nat \ {0} /\ x \in Int
  BY DEF ClockInv
<1>2. /\ x \div n \in Int /\ x % n \in 0 .. n - 1
      /\ x = n * (x \div n) + (x % n)
  BY <1>1, DivMod
<1>3. PICK now \in 0 .. n - 1, k \in Int : now = x % n /\ k = x \div n
  BY <1>2
<1>4. /\ now \div Half \in Int /\ now % Half \in 0 .. Half - 1
      /\ now = Half * (now \div Half) + (now % Half)
  BY DivMod
<1>5. hi' = now \div Half /\ lo' = now % Half
  BY <1>3 DEF Lapse
<1>6. hi' \in Int /\ lo' \in 0 .. Half - 1 /\ now = Half * hi' + lo'
  BY <1>4, <1>5
<1>7. hi' \in 0 .. Half - 1
  <2>1. PICK p \in Int, r \in 0 .. Half - 1 : p = hi' /\ r = lo' /\ now = Half * p + r
    BY <1>6
  <2>2. Half * p + r \in 0 .. Half * Half - 1
    BY <2>1
  <2> QED
    BY <2>1, <2>2, UpperHalf
<1>8. hi' * Half + lo' = (hi * Half + lo + d) - k * (Half * Half)
  <2>1. x = n * k + now /\ hi' * Half + lo' = now
    BY <1>2, <1>3, <1>6
  <2>2. PICK y \in Int : y = n * k
    BY <1>1, <1>3
  <2>3. now = x - y
    BY <1>1, <2>1, <2>2
  <2>4. y = k * (Half * Half)
    BY <2>2
  <2>5. hi' * Half + lo' = x - k * (Half * Half)
    BY <2>1, <2>3, <2>4, Zenon
  <2> QED
    BY <2>5
<1> QED
  BY <1>6, <1>7, <1>8

\* start_counter begins to count.
LEMMA Started ==
    ASSUME ClockInv, NEW d \in Nat, Lapse(d), start_counter
    PROVE  /\ hi' \in 0 .. Half - 1 /\ lo' \in 0 .. Half - 1
           /\ cyc_hi' \in 0 .. Half - 1 /\ cyc_lo' \in 0 .. Half - 1
           /\ elapsed' \in 0 .. Half * Half - 1 /\ Moved'
<1>1. hi' \in 0 .. Half - 1 /\ lo' \in 0 .. Half - 1
  BY Lapsed
<1>2. cyc_hi' = hi' /\ cyc_lo' = lo' /\ elapsed' = 0
  BY DEF start_counter
<1>3. hi' * Half + lo' = cyc_hi' * Half + cyc_lo' + elapsed' - 0 * (Half * Half)
  BY <1>1, <1>2, ClockConstants
<1>4. Moved'
  BY <1>3 DEF Moved
<1>5. 0 \in 0 .. Half * Half - 1
  BY ClockConstants
<1> QED
  BY <1>1, <1>2, <1>4, <1>5

\* What get_counter returns when the counter is started.
LEMMA CounterReads ==
    ASSUME ClockInv, pc_clock # "idle", NEW d \in Nat, Lapse(d),
           elapsed' = elapsed + d, elapsed' < Half * Half, UNCHANGED <<cyc_hi, cyc_lo>>
    PROVE  /\ hi' \in 0 .. Half - 1 /\ lo' \in 0 .. Half - 1
           /\ elapsed' \in 0 .. Half * Half - 1 /\ Moved'
           /\ get_counter = elapsed'
<1> USE ClockConstants
<1>1. PICK k \in Int : hi' * Half + lo' = (hi * Half + lo + d) - k * (Half * Half)
  BY Lapsed
<1>2. PICK m \in Int : hi * Half + lo = cyc_hi * Half + cyc_lo + elapsed - m * (Half * Half)
  BY DEF ClockInv, Moved
<1>3. hi' \in 0 .. Half - 1 /\ lo' \in 0 .. Half - 1
  BY Lapsed
<1>4. elapsed' \in 0 .. Half * Half - 1
  BY DEF ClockInv
<1>5. PICK j \in Int : j = k + m
  OBVIOUS
<1>6. hi' * Half + lo' = cyc_hi * Half + cyc_lo + elapsed' - j * (Half * Half)
  <2>1. j * (Half * Half) = k * (Half * Half) + m * (Half * Half)
    BY <1>5
  <2> QED
    BY <1>1, <1>2, <2>1 DEF ClockInv
<1>7. Moved'
  BY <1>6 DEF Moved
<1>8. cyc_hi \in 0 .. Half - 1 /\ cyc_lo \in 0 .. Half - 1
  BY DEF ClockInv
<1>9. PICK ah \in 0 .. Half - 1, al \in 0 .. Half - 1, e \in 0 .. Half * Half - 1 :
        ah = hi' /\ al = lo' /\ e = elapsed'
  BY <1>3, <1>4
<1>10. PICK l : l = (al - cyc_lo) % Half
  OBVIOUS
<1>11. PICK borrow : borrow = IF l > al THEN 1 ELSE 0
  OBVIOUS
<1>12. ah * Half + al = cyc_hi * Half + cyc_lo + e - j * (Half * Half)
  BY <1>6, <1>9
<1>13. ((ah - cyc_hi - borrow) % Half) * Half + l = e
  BY <1>8, <1>10, <1>11, <1>12, Difference
<1>14. get_counter = ((ah - cyc_hi - borrow) % Half) * Half + l
  BY <1>9, <1>10, <1>11 DEF get_counter
<1> QED
  BY <1>3, <1>4, <1>7, <1>9, <1>13, <1>14

\* Nothing is counted yet.
LEMMA ClockStart == ClockInit => ClockInv
<1> SUFFICES ASSUME ClockInit PROVE ClockInv
  OBVIOUS
<1>1. 0 \in 0 .. Half - 1 /\ 0 \in 0 .. Half * Half - 1
  BY ClockConstants
<1>2. Cheapest
  BY DEF Cheapest, ClockInit
<1>3. got.time = got.elapsed * Unit - got.ticks * cyc_per_tick
  BY ClockConstants DEF ClockInit, NoAnswer
<1> QED
  BY <1>1, <1>2, <1>3 DEF ClockInit, ClockInv

\* A turn of callibrate's loop: an event or not, cheaper than those before or not.
LEMMA CallibrateKeeps ==
    ASSUME ClockInv, NEW d \in Laps, NEW n \in 0 .. 1, Callibrate(d, n)
    PROVE  ClockInv'
<1> USE ClockConstants
<1> DEFINE jump == get_counter - oldt
           cpt == (jump * Unit) \div (tms_utime' - oldc)
           event == jump >= THRESHOLD /\ tms_utime' > oldc
<1>1. /\ pc_clock = "callibrate" /\ Lapse(d) /\ elapsed' = elapsed + d /\ elapsed' < Half * Half
      /\ UNCHANGED <<cyc_hi, cyc_lo, start_tick, got, pc_clock>>
      /\ oldt' = IF jump >= THRESHOLD THEN get_counter ELSE oldt
  BY DEF Callibrate
<1>2. tms_utime' \in Nat
  BY DEF Callibrate, Charged, ClockInv
<1>3. /\ hi' \in 0 .. Half - 1 /\ lo' \in 0 .. Half - 1
      /\ elapsed' \in 0 .. Half * Half - 1 /\ Moved'
      /\ get_counter = elapsed'
  BY <1>1, CounterReads
<1>4. oldt' \in Int /\ jump \in Int
  BY <1>1, <1>3 DEF ClockInv
<1>5. CASE event
  <2>1. tms_utime' - oldc \in Nat \ {0}
    <3>1. oldc \in Int /\ tms_utime' > oldc
      BY <1>5 DEF ClockInv
    <3>2. PICK x \in Nat : x = tms_utime'
      BY <1>2
    <3>3. PICK y \in Int : y = oldc
      BY <3>1
    <3>4. x > y
      BY <3>1, <3>2, <3>3, Zenon
    <3>5. x - y \in Nat \ {0}
      BY <3>4
    <3> QED
      BY <3>2, <3>3, <3>5, Zenon
  <2>2. cpt \in Int
    <3>1. PICK x \in Int : x = jump * Unit
      <4> HIDE DEF jump
      <4> QED
        BY <1>4
    <3>2. x \div (tms_utime' - oldc) \in Int
      BY <2>1, DivMod
    <3> QED
      BY <3>1, <3>2
  <2>3. /\ oldc' = tms_utime' /\ ratios' = ratios \cup {cpt}
        /\ cyc_per_tick' = IF (cyc_per_tick = 0 \/ cyc_per_tick > cpt) /\ cpt > RECORDTHRESH * Unit
                           THEN cpt ELSE cyc_per_tick
    BY <1>5 DEF Callibrate
  <2>4. PICK r0 \in Int : r0 = RECORDTHRESH * Unit /\ r0 >= 0
    OBVIOUS
  <2>5. Cheapest'
    <3> HIDE DEF cpt
    <3> DEFINE seen == {r \in ratios : r > r0}
               later == {r \in ratios' : r > r0}
    <3>1. /\ seen = {} => cyc_per_tick = 0
          /\ seen # {} => cyc_per_tick \in seen /\ \A r \in seen : cyc_per_tick <= r
      BY <2>4 DEF ClockInv, Cheapest
    <3>2. later = IF cpt > r0 THEN seen \cup {cpt} ELSE seen
      BY <2>3
    <3>3. IF later = {} THEN cyc_per_tick' = 0
          ELSE cyc_per_tick' \in later /\ \A r \in later : cyc_per_tick' <= r
      <4>1. CASE ~(cpt > r0)
        BY <2>3, <2>4, <3>1, <3>2, <4>1
      <4>2. CASE cpt > r0 /\ seen = {}
        BY <2>2, <2>3, <2>4, <3>1, <3>2, <4>2
      <4>3. CASE cpt > r0 /\ seen # {}
        <5>1. ratios \subseteq Int
          BY DEF ClockInv
        <5>2. \A x \in seen : x \in Int /\ x > 0
          BY <2>4, <5>1
        <5>3. cyc_per_tick # 0
          BY <3>1, <4>3, <5>2
        <5> QED
          BY <2>2, <2>3, <2>4, <3>1, <3>2, <4>3, <5>2, <5>3
      <4> QED
        BY <4>1, <4>2, <4>3
    <3> QED
      BY <2>4, <3>3 DEF Cheapest
  <2>6. ratios' \subseteq Int /\ cyc_per_tick' \in Int /\ oldc' \in Int
    <3> HIDE DEF cpt
    <3> QED
      BY <1>2, <2>2, <2>3 DEF ClockInv
  <2> QED
    BY <1>1, <1>2, <1>3, <1>4, <2>5, <2>6 DEF ClockInv
<1>6. CASE ~event
  <2>1. UNCHANGED <<oldc, ratios, cyc_per_tick>>
    BY <1>6 DEF Callibrate
  <2>2. Cheapest'
    BY <2>1 DEF ClockInv, Cheapest
  <2> QED
    BY <1>1, <1>2, <1>3, <1>4, <2>1, <2>2 DEF ClockInv
<1> QED
  BY <1>5, <1>6

\* Every step of clock.c.
LEMMA ClockStep == ClockInv /\ [ClockNext]_clockvars => ClockInv'
<1> SUFFICES ASSUME ClockInv, [ClockNext]_clockvars
             PROVE  ClockInv'
  OBVIOUS
<1> USE ClockConstants
<1>1. ASSUME NEW d \in Laps, NEW n \in 0 .. 1, StartCallibrate(d, n)
      PROVE  ClockInv'
  <2>1. /\ hi' \in 0 .. Half - 1 /\ lo' \in 0 .. Half - 1
        /\ cyc_hi' \in 0 .. Half - 1 /\ cyc_lo' \in 0 .. Half - 1
        /\ elapsed' \in 0 .. Half * Half - 1 /\ Moved'
    BY <1>1, Started DEF StartCallibrate
  <2>2. tms_utime' \in Nat
    BY <1>1 DEF StartCallibrate, Charged, ClockInv
  <2>3. ratios' = {} /\ cyc_per_tick' = 0 /\ pc_clock' = "callibrate"
    BY <1>1 DEF StartCallibrate
  <2>4. Cheapest'
    BY <2>3 DEF Cheapest
  <2> QED
    BY <1>1, <2>1, <2>2, <2>3, <2>4 DEF StartCallibrate, ClockInv
<1>2. ASSUME NEW d \in Laps, NEW n \in 0 .. 1, Callibrate(d, n)
      PROVE  ClockInv'
  BY <1>2, CallibrateKeeps
<1>3. ASSUME NEW d \in Laps, NEW n \in 0 .. 1, StartCounter(d, n)
      PROVE  ClockInv'
  <2>1. /\ hi' \in 0 .. Half - 1 /\ lo' \in 0 .. Half - 1
        /\ cyc_hi' \in 0 .. Half - 1 /\ cyc_lo' \in 0 .. Half - 1
        /\ elapsed' \in 0 .. Half * Half - 1 /\ Moved'
    BY <1>3, Started DEF StartCounter
  <2>2. tms_utime' \in Nat
    BY <1>3 DEF StartCounter, Charged, ClockInv
  <2>3. UNCHANGED <<ratios, cyc_per_tick>> /\ pc_clock' = "started"
    BY <1>3 DEF StartCounter
  <2>4. Cheapest'
    BY <2>3 DEF Cheapest, ClockInv
  <2> QED
    BY <1>3, <2>1, <2>2, <2>3, <2>4 DEF StartCounter, ClockInv
<1>4. ASSUME NEW d \in Laps, NEW n \in 0 .. 1, Wait(d, n)
      PROVE  ClockInv'
  <2>1. /\ hi' \in 0 .. Half - 1 /\ lo' \in 0 .. Half - 1
        /\ elapsed' \in 0 .. Half * Half - 1 /\ Moved'
    BY <1>4, CounterReads DEF Wait
  <2>2. tms_utime' \in Nat
    BY <1>4 DEF Wait, Charged, ClockInv
  <2>3. /\ UNCHANGED <<cyc_hi, cyc_lo, start_tick, cyc_per_tick, oldt, oldc, ratios, got, pc_clock>>
        /\ pc_clock = "started"
    BY <1>4 DEF Wait
  <2>4. Cheapest'
    BY <2>3 DEF Cheapest, ClockInv
  <2> QED
    BY <2>1, <2>2, <2>3, <2>4 DEF ClockInv
<1>5. ASSUME NEW d \in Laps, NEW n \in 0 .. 1, get_comp_counter(d, n)
      PROVE  ClockInv'
  <2>1. /\ hi' \in 0 .. Half - 1 /\ lo' \in 0 .. Half - 1
        /\ elapsed' \in 0 .. Half * Half - 1 /\ Moved' /\ get_counter = elapsed'
    BY <1>5, CounterReads DEF get_comp_counter
  <2>2. tms_utime' \in Nat
    BY <1>5 DEF get_comp_counter, Charged, ClockInv
  <2>3. /\ UNCHANGED <<cyc_hi, cyc_lo, start_tick, cyc_per_tick, oldt, oldc, ratios>>
        /\ pc_clock' = "idle"
        /\ got' = [time |-> get_counter * Unit - (tms_utime' - start_tick) * cyc_per_tick,
                   elapsed |-> elapsed', ticks |-> tms_utime' - start_tick]
    BY <1>5 DEF get_comp_counter
  <2>4. Cheapest'
    BY <2>3 DEF Cheapest, ClockInv
  <2>5. got'.time = got'.elapsed * Unit - got'.ticks * cyc_per_tick'
    BY <2>1, <2>3
  <2> QED
    BY <2>1, <2>2, <2>3, <2>4, <2>5 DEF ClockInv
<1>6. CASE UNCHANGED clockvars
  BY <1>6 DEF ClockInv, Moved, Cheapest, clockvars
<1> QED
  BY <1>1, <1>2, <1>3, <1>4, <1>5, <1>6 DEF ClockNext

\* clock.c, for every width of the halves and every sequence of readings and ticks: a
\* measurement is the cycles that passed, less the cost of the ticks, and that cost
\* is the least that callibrate saw.
THEOREM MeasuresWhatPassed == ClockSpec => []CounterIsElapsed
<1>1. ClockInit => ClockInv
  BY ClockStart
<1>2. ClockInv /\ [ClockNext]_clockvars => ClockInv'
  BY ClockStep
<1>3. ClockInv => CounterIsElapsed
  BY DEF ClockInv, Cheapest, CounterIsElapsed
<1> QED
  BY <1>1, <1>2, <1>3, PTL DEF ClockSpec

-----------------------------------------------------------------------------
(* The score of mdriver.c                                                     *)

\* The units that Sum counts.
Units(f) == UNION {{t} \X (1 .. f[t]) : t \in Traces}

\* A unit belongs to one trace.
LEMMA UnitsAre ==
    ASSUME NEW f, NEW x
    PROVE  x \in Units(f) <=> \E t \in Traces : \E n \in 1 .. f[t] : x = <<t, n>>
<1>1. \A t, S : x \in {t} \X S <=> \E n \in S : x = <<t, n>>
  OBVIOUS
<1>2. x \in Units(f) <=> \E t \in Traces : x \in {t} \X (1 .. f[t])
  BY Zenon DEF Units
<1> QED
  BY <1>1, <1>2, Zenon

\* There is a number of traces.
LEMMA TracesCounted ==
    /\ Len(Ops) \in Nat \ {0} /\ Traces = 1 .. Len(Ops)
    /\ IsFiniteSet(Traces) /\ Cardinality(Traces) = Len(Ops)
<1>1. Len(Ops) \in Nat \ {0} /\ Traces = 1 .. Len(Ops)
  BY ScoreConstants DEF Traces
<1>2. /\ IsFiniteSet(1 .. Len(Ops))
      /\ Cardinality(1 .. Len(Ops)) = IF 1 > Len(Ops) THEN 0 ELSE Len(Ops) - 1 + 1
  <2>1. 1 \in Int /\ Len(Ops) \in Int
    BY <1>1
  <2> QED
    BY <2>1, FS_Interval, Zenon
<1> QED
  BY <1>1, <1>2

\* A sum is a number.
LEMMA SumCounts ==
    ASSUME NEW f \in [Traces -> Nat]
    PROVE  /\ IsFiniteSet(Units(f)) /\ Sum(f) = Cardinality(Units(f))
           /\ Sum(f) \in Nat
<1> DEFINE Of(t) == {t} \X (1 .. f[t])
           S == {Of(t) : t \in Traces}
           g == [t \in Traces |-> Of(t)]
<1>1. IsFiniteSet(S)
  <2>1. g \in Surjection(Traces, S)
    BY Zenon DEF Surjection
  <2> QED
    BY <2>1, TracesCounted, FS_Surjection
<1>2. \A T \in S : IsFiniteSet(T)
  <2> SUFFICES ASSUME NEW t \in Traces PROVE IsFiniteSet(Of(t))
    BY Zenon
  <2>1. 1 \in Int /\ f[t] \in Int
    OBVIOUS
  <2>2. IsFiniteSet(1 .. f[t])
    BY <2>1, FS_Interval, Zenon
  <2>3. IsFiniteSet({t})
    BY FS_Singleton, Zenon
  <2> QED
    BY <2>2, <2>3, FS_Product, Zenon
<1>3. IsFiniteSet(Units(f))
  BY <1>1, <1>2, FS_UNION, Zenon DEF Units
<1>4. Cardinality(Units(f)) \in Nat
  BY <1>3, FS_CardinalityType
<1> QED
  BY <1>3, <1>4, Zenon DEF Units, Sum

\* A sum grows with its numbers, and is the same only if they are.
LEMMA SumGrows ==
    ASSUME NEW f \in [Traces -> Nat], NEW g \in [Traces -> Nat], \A t \in Traces : f[t] <= g[t]
    PROVE  /\ Sum(f) <= Sum(g)
           /\ Sum(f) = Sum(g) => \A t \in Traces : f[t] = g[t]
<1>1. /\ IsFiniteSet(Units(g)) /\ Sum(f) = Cardinality(Units(f))
      /\ Sum(g) = Cardinality(Units(g))
  BY SumCounts, Zenon
<1>2. Units(f) \subseteq Units(g)
  <2> SUFFICES ASSUME NEW x \in Units(f) PROVE x \in Units(g)
    BY Zenon
  <2>1. PICK t \in Traces : \E n \in 1 .. f[t] : x = <<t, n>>
    <3>1. x \in Units(f) <=> \E t \in Traces : \E n \in 1 .. f[t] : x = <<t, n>>
      BY UnitsAre
    <3> QED
      BY <3>1, Zenon
  <2>2. PICK n \in 1 .. f[t] : x = <<t, n>>
    BY <2>1, Zenon
  <2>3. n \in 1 .. g[t]
    BY SMT
  <2> QED
    BY <2>2, <2>3, UnitsAre, Zenon
<1>3. Cardinality(Units(f)) <= Cardinality(Units(g))
  BY <1>1, <1>2, FS_Subset, Zenon
<1>4. ASSUME Sum(f) = Sum(g), NEW t \in Traces
      PROVE  f[t] = g[t]
  <2>1. Units(g) = Units(f)
    BY <1>1, <1>2, <1>4, FS_Subset, Zenon
  <2>2. CASE f[t] < g[t]
    <3>1. g[t] \in 1 .. g[t]
      BY <2>2, SMT
    <3>2. <<t, g[t]>> \in Units(f)
      BY <2>1, <3>1, UnitsAre, Zenon
    <3>3. PICK u \in Traces : \E n \in 1 .. f[u] : <<t, g[t]>> = <<u, n>>
      BY <3>2, UnitsAre, Zenon
    <3>4. g[t] \in 1 .. f[t]
      BY <3>3, Zenon
    <3> QED
      BY <2>2, <3>4
  <2> QED
    BY <2>2, SMT
<1> QED
  BY <1>1, <1>3, <1>4

\* The sum of as many equal numbers as there are traces.
LEMMA SumOfEqual ==
    ASSUME NEW c \in Nat
    PROVE  Sum([t \in Traces |-> c]) = Len(Ops) * c
<1> DEFINE f == [t \in Traces |-> c]
<1>1. Sum(f) = Cardinality(Units(f))
  BY SumCounts, Zenon
<1>2. Units(f) = Traces \X (1 .. c)
  <2>1. \A x : x \in Units(f) <=> \E t \in Traces : \E n \in 1 .. f[t] : x = <<t, n>>
    BY UnitsAre, Zenon
  <2>2. \A t \in Traces : f[t] = c
    OBVIOUS
  <2>3. \A x : x \in Units(f) <=> \E t \in Traces : \E n \in 1 .. c : x = <<t, n>>
    <3> HIDE DEF f
    <3> QED
      BY <2>1, <2>2, Zenon
  <2>4. \A x : x \in Traces \X (1 .. c) <=> \E t \in Traces : \E n \in 1 .. c : x = <<t, n>>
    OBVIOUS
  <2> QED
    BY <2>3, <2>4, Zenon
<1>3. IsFiniteSet(1 .. c) /\ Cardinality(1 .. c) = c
  <2>1. 1 \in Int /\ c \in Int
    OBVIOUS
  <2>2. IsFiniteSet(1 .. c) /\ Cardinality(1 .. c) = IF 1 > c THEN 0 ELSE c - 1 + 1
    BY <2>1, FS_Interval, Zenon
  <2> QED
    BY <2>2
<1>4. Cardinality(Traces \X (1 .. c)) = Cardinality(Traces) * Cardinality(1 .. c)
  BY <1>3, TracesCounted, FS_Product, Zenon
<1> QED
  BY <1>1, <1>2, <1>3, <1>4, TracesCounted, Zenon

-----------------------------------------------------------------------------

\* The index as a function of the three totals.
IndexOf(u, d, ops, par) ==
    IF ops > par THEN <<UTIL_WEIGHT * u + (100 - UTIL_WEIGHT) * d, d>>
    ELSE <<UTIL_WEIGHT * u * par + (100 - UTIL_WEIGHT) * ops * d, d * par>>

\* A product grows with its factor.
LEMMA MulMono ==
    ASSUME NEW x \in Int, NEW y \in Int, NEW c \in Nat, x <= y
    PROVE  x * c <= y * c
  BY SMT

\* Where the index lies between 0 and 100.
LEMMA IndexBounds ==
    ASSUME NEW d \in Nat \ {0}, NEW u \in 0 .. d, NEW ops \in Nat \ {0}, NEW par \in Nat
    PROVE  LET x == IndexOf(u, d, ops, par)
           IN  /\ Leq(<<0, 1>>, x) /\ Leq(x, <<100, 1>>)
               /\ Leq(<<100, 1>>, x) <=> u = d /\ ops >= par
<1> DEFINE x == IndexOf(u, d, ops, par)
<1>1. PICK w \in 1 .. 99, v \in 1 .. 99 : w = UTIL_WEIGHT /\ v = 100 - UTIL_WEIGHT /\ w + v = 100
  BY ScoreConstants
<1>2. CASE ops > par
  <2>1. x = <<w * u + v * d, d>>
    BY <1>1, <1>2 DEF IndexOf
  <2>2. /\ Leq(<<0, 1>>, x) <=> 0 * d <= (w * u + v * d) * 1
        /\ Leq(x, <<100, 1>>) <=> (w * u + v * d) * 1 <= 100 * d
        /\ Leq(<<100, 1>>, x) <=> 100 * d <= (w * u + v * d) * 1
    BY <2>1 DEF Leq
  <2>3. w * u <= w * d /\ w * d + v * d = 100 * d /\ w * u \in Nat /\ v * d \in Nat /\ w * d \in Nat
    BY <1>1
  <2>4. u < d => w * u < w * d
    OBVIOUS
  <2> QED
    BY <1>2, <2>2, <2>3, <2>4
<1>3. CASE ops <= par
  <2>1. x = <<w * u * par + v * ops * d, d * par>>
    BY <1>1, <1>3 DEF IndexOf
  <2>2. PICK p \in Nat, q \in Nat, r \in Nat \ {0} : p = u * par /\ q = ops * d /\ r = d * par
    <3>1. u * par \in Nat /\ ops * d \in Nat /\ d * par \in Nat \ {0}
      BY <1>3
    <3> QED
      BY <3>1
  <2>3. w * u * par = w * p /\ v * ops * d = v * q
    BY <2>2
  <2>4. p <= r /\ q <= r
    BY <1>3, <2>2
  <2>5. p = r /\ q = r <=> u = d /\ ops = par
    <3>1. u < d => p < r
      BY <1>3, <2>2
    <3>2. ops < par => q < r
      BY <2>2
    <3> QED
      BY <1>3, <2>2, <3>1, <3>2
  <2>6. /\ Leq(<<0, 1>>, x) <=> 0 * r <= (w * p + v * q) * 1
        /\ Leq(x, <<100, 1>>) <=> (w * p + v * q) * 1 <= 100 * r
        /\ Leq(<<100, 1>>, x) <=> 100 * r <= (w * p + v * q) * 1
    BY <2>1, <2>2, <2>3 DEF Leq
  <2>7. /\ w * p <= w * r /\ v * q <= v * r /\ w * r + v * r = 100 * r
        /\ w * p \in Nat /\ v * q \in Nat
    BY <1>1, <2>4
  <2>8. (p < r => w * p < w * r) /\ (q < r => v * q < v * r)
    OBVIOUS
  <2> QED
    BY <1>3, <2>4, <2>5, <2>6, <2>7, <2>8
<1> QED
  BY <1>2, <1>3

\* More of the heap in use and less time never lower it.
LEMMA IndexGrows ==
    ASSUME NEW d \in Nat \ {0}, NEW u \in 0 .. d, NEW u2 \in 0 .. d, NEW ops \in Nat \ {0},
           NEW par \in Nat, NEW par2 \in Nat, u <= u2, par2 <= par
    PROVE  Leq(IndexOf(u, d, ops, par), IndexOf(u2, d, ops, par2))
<1> DEFINE x == IndexOf(u, d, ops, par)
           y == IndexOf(u2, d, ops, par2)
<1>1. PICK w \in 1 .. 99, v \in 1 .. 99 : w = UTIL_WEIGHT /\ v = 100 - UTIL_WEIGHT
  BY ScoreConstants
<1>2. CASE ops > par
  <2>1. x = <<w * u + v * d, d>> /\ y = <<w * u2 + v * d, d>>
    BY <1>1, <1>2 DEF IndexOf
  <2>2. w * u + v * d <= w * u2 + v * d
    OBVIOUS
  <2>3. (w * u + v * d) * d <= (w * u2 + v * d) * d
    BY <2>2, MulMono
  <2> QED
    BY <2>1, <2>3 DEF Leq
<1>3. CASE ops <= par /\ ops > par2
  <2>1. x = <<w * u * par + v * ops * d, d * par>> /\ y = <<w * u2 + v * d, d>>
    BY <1>1, <1>3 DEF IndexOf
  <2>2. u * par <= u2 * par /\ ops * d <= par * d
    BY <1>3, MulMono
  <2>3. PICK a \in Nat, c2 \in Nat, a2 \in Nat, c3 \in Nat :
          a = u * par /\ c2 = ops * d /\ a2 = u2 * par /\ c3 = par * d
    <3>1. u * par \in Nat /\ ops * d \in Nat /\ u2 * par \in Nat /\ par * d \in Nat
      OBVIOUS
    <3> QED
      BY <3>1
  <2>4. w * a <= w * a2 /\ v * c2 <= v * c3
    BY <2>2, <2>3
  <2>5. w * a + v * c2 <= w * a2 + v * c3
    <3>1. \A x1, x2, y1, y2 \in Int : x1 <= x2 /\ y1 <= y2 => x1 + y1 <= x2 + y2
      OBVIOUS
    <3>2. w * a \in Int /\ v * c2 \in Int /\ w * a2 \in Int /\ v * c3 \in Int
      OBVIOUS
    <3> QED
      BY <2>4, <3>1, <3>2, Zenon
  <2>6. (w * a + v * c2) * d <= (w * a2 + v * c3) * d
    BY <2>5, MulMono
  <2>7. (w * a + v * c2) * d = (w * u * par + v * ops * d) * d
    BY <2>3
  <2>8. (w * a2 + v * c3) * d = (w * u2 + v * d) * (d * par)
    BY <2>3
  <2> QED
    BY <2>1, <2>6, <2>7, <2>8 DEF Leq
<1>4. CASE ops <= par2
  <2>1. x = <<w * u * par + v * ops * d, d * par>> /\ y = <<w * u2 * par2 + v * ops * d, d * par2>>
    BY <1>1, <1>4 DEF IndexOf
  <2>2. PICK a \in Nat, a2 \in Nat : a = w * u * par * par2 /\ a2 = w * u2 * par * par2
    <3>1. w * u * par * par2 \in Nat /\ w * u2 * par * par2 \in Nat
      OBVIOUS
    <3> QED
      BY <3>1
  <2>3. a <= a2
    <3>1. PICK z \in Nat : z = w * par * par2
      <4>1. w * par * par2 \in Nat
        OBVIOUS
      <4> QED
        BY <4>1
    <3>2. u * z <= u2 * z
      BY MulMono
    <3> QED
      BY <2>2, <3>1, <3>2
  <2>4. PICK z \in Nat : z = v * ops * d
    <3>1. v * ops * d \in Nat
      OBVIOUS
    <3> QED
      BY <3>1
  <2>5. z * par2 <= z * par
    OBVIOUS
  <2>6. a + z * par2 <= a2 + z * par
    BY <2>3, <2>5
  <2>7. (a + z * par2) * d <= (a2 + z * par) * d
    BY <2>6, MulMono
  <2>8. (a + z * par2) * d = (w * u * par + v * ops * d) * (d * par2)
    BY <2>2, <2>4
  <2>9. (a2 + z * par) * d = (w * u2 * par2 + v * ops * d) * (d * par)
    BY <2>2, <2>4
  <2> QED
    BY <2>1, <2>7, <2>8, <2>9 DEF Leq
<1> QED
  BY <1>2, <1>3, <1>4

-----------------------------------------------------------------------------

\* What is known of a trace.
Stats == [valid : BOOLEAN, ops : Nat, secs : Nat, util : 0 .. FULL]

\* The traces that the package has been run on.
Evaluated ==
    CASE phase_score = "libc" -> {}
      [] phase_score = "mm" -> 1 .. i_score - 1
      [] OTHER -> Traces

\* There are errors if and only if a trace was found invalid.
ScoreInv ==
    /\ phase_score \in {"libc", "mm", "report", "done", "exit"}
    /\ i_score \in Traces
    /\ mm_stats \in [Traces -> Stats] /\ errors \in Nat
    /\ phase_score \in {"libc", "mm", "report"} =>
         /\ \A t \in Evaluated : mm_stats[t].ops = Ops[t]
         /\ \A t \in Traces \ Evaluated : ~mm_stats[t].valid
         /\ errors = 0 <=> \A t \in Evaluated : mm_stats[t].valid
    /\ ScoreIsFair

\* No trace has been run.
LEMMA ScoreStart == ScoreInit => ScoreInv
<1> SUFFICES ASSUME ScoreInit PROVE ScoreInv
  OBVIOUS
<1>1. 1 \in Traces /\ Traces = 1 .. Len(Ops)
  BY TracesCounted
<1>2. mm_stats = [t \in Traces |-> Zero] /\ Zero \in Stats /\ Zero.valid = FALSE
  BY ScoreConstants DEF ScoreInit, calloc, Zero, Stats
<1>3. \A t \in Traces : ~mm_stats[t].valid
  BY <1>2
<1>4. phase_score \in {"libc", "mm"} /\ i_score = 1 /\ errors = 0
  BY DEF ScoreInit
<1>5. Evaluated = {}
  BY <1>4 DEF Evaluated
<1>6. mm_stats \in [Traces -> Stats]
  BY <1>2
<1> QED
  BY <1>1, <1>3, <1>4, <1>5, <1>6 DEF ScoreInv, ScoreIsFair

\* A trace is done: the next one, or the next phase.
LEMMA Advances ==
    ASSUME ScoreInv, phase_score \in {"libc", "mm"}, NEW there, Advance(there),
           there = IF phase_score = "libc" THEN "mm" ELSE "report"
    PROVE  /\ phase_score' \in {phase_score, there} /\ i_score' \in Traces
           /\ Evaluated' = IF phase_score = "mm" THEN Evaluated \cup {i_score} ELSE {}
           /\ phase_score = "mm" => i_score \notin Evaluated
<1>1. Len(Ops) \in Nat \ {0} /\ Traces = 1 .. Len(Ops) /\ i_score \in 1 .. Len(Ops)
  BY TracesCounted DEF ScoreInv
<1>2. CASE i_score = Len(Ops)
  <2>1. i_score' = 1 /\ phase_score' = there
    BY <1>2 DEF Advance
  <2>2. CASE phase_score = "libc"
    BY <1>1, <2>1, <2>2 DEF Evaluated
  <2>3. CASE phase_score = "mm"
    <3>1. Evaluated = 1 .. Len(Ops) - 1 /\ Evaluated' = 1 .. Len(Ops)
      BY <1>1, <1>2, <2>1, <2>3 DEF Evaluated, Traces
    <3> QED
      BY <1>1, <1>2, <2>1, <2>3, <3>1
  <2> QED
    BY <2>2, <2>3
<1>3. CASE i_score # Len(Ops)
  <2>1. i_score' = i_score + 1 /\ phase_score' = phase_score
    BY <1>3 DEF Advance
  <2>2. CASE phase_score = "libc"
    BY <1>1, <1>3, <2>1, <2>2 DEF Evaluated
  <2>3. CASE phase_score = "mm"
    <3>1. Evaluated = 1 .. i_score - 1 /\ Evaluated' = 1 .. i_score
      BY <1>1, <2>1, <2>3 DEF Evaluated
    <3> QED
      BY <1>1, <1>3, <2>1, <2>3, <3>1
  <2> QED
    BY <2>2, <2>3
<1> QED
  BY <1>2, <1>3

\* One trace was run on the package: new is what is known of it.
LEMMA TraceKeeps ==
    ASSUME ScoreInv, phase_score = "mm", Advance("report"), NEW new \in Stats,
           new.ops = Ops[i_score], mm_stats' = [mm_stats EXCEPT ![i_score] = new],
           errors' = IF new.valid THEN errors ELSE errors + 1
    PROVE  ScoreInv'
<1>1. /\ phase_score' \in {"mm", "report"} /\ i_score' \in Traces
      /\ Evaluated' = Evaluated \cup {i_score} /\ i_score \notin Evaluated
  BY Advances
<1>2. i_score \in Traces /\ mm_stats \in [Traces -> Stats] /\ errors \in Nat
  BY DEF ScoreInv
<1>3. /\ mm_stats' \in [Traces -> Stats] /\ mm_stats'[i_score] = new
      /\ \A t \in Traces : t # i_score => mm_stats'[t] = mm_stats[t]
  BY <1>2
<1>4. /\ \A t \in Evaluated : mm_stats[t].ops = Ops[t]
      /\ \A t \in Traces \ Evaluated : ~mm_stats[t].valid
      /\ errors = 0 <=> \A t \in Evaluated : mm_stats[t].valid
      /\ Evaluated \subseteq Traces
  <2>1. Evaluated \subseteq Traces
    BY <1>2, TracesCounted DEF Evaluated
  <2> QED
    BY <2>1 DEF ScoreInv
<1>5. \A t \in Evaluated' : mm_stats'[t].ops = Ops[t]
  BY <1>1, <1>3, <1>4
<1>6. \A t \in Traces \ Evaluated' : ~mm_stats'[t].valid
  BY <1>1, <1>3, <1>4
<1>7. errors' \in Nat /\ (errors' = 0 <=> errors = 0 /\ new.valid)
  BY <1>2
<1>8. (\A t \in Evaluated' : mm_stats'[t].valid)
        <=> new.valid /\ \A t \in Evaluated : mm_stats[t].valid
  BY <1>1, <1>3, <1>4, Zenon
<1>9. errors' = 0 <=> \A t \in Evaluated' : mm_stats'[t].valid
  BY <1>4, <1>7, <1>8, Zenon
<1>10. ScoreIsFair'
  BY <1>1 DEF ScoreIsFair
<1> QED
  BY <1>1, <1>3, <1>5, <1>6, <1>7, <1>9, <1>10 DEF ScoreInv

\* What the totals of valid traces are.
LEMMA Totals ==
    ASSUME NEW m \in [Traces -> Stats], \A t \in Traces : m[t].ops = Ops[t]
    PROVE  /\ Len(Ops) * FULL \in Nat \ {0}
           /\ Util(m) \in 0 .. Len(Ops) * FULL
           /\ Util(m) = Len(Ops) * FULL <=> \A t \in Traces : m[t].util = FULL
           /\ OpsOf(m) \in Nat \ {0}
           /\ SecsOf(m) \in Nat /\ AVG_LIBC_THRUPUT * SecsOf(m) \in Nat
           /\ Index(m) = IndexOf(Util(m), Len(Ops) * FULL, OpsOf(m), AVG_LIBC_THRUPUT * SecsOf(m))
<1> DEFINE u == [t \in Traces |-> m[t].util]
           o == [t \in Traces |-> m[t].ops]
           s == [t \in Traces |-> m[t].secs]
           full == [t \in Traces |-> FULL]
           one == [t \in Traces |-> 1]
<1>1. /\ u \in [Traces -> Nat] /\ o \in [Traces -> Nat] /\ s \in [Traces -> Nat]
      /\ full \in [Traces -> Nat] /\ one \in [Traces -> Nat]
  BY ScoreConstants DEF Stats
<1>2. Sum(u) \in Nat /\ Sum(o) \in Nat /\ Sum(s) \in Nat
  <2> HIDE DEF u, o, s, full, one
  <2> QED
    BY <1>1, SumCounts
<1>3. Sum(full) = Len(Ops) * FULL /\ Sum(one) = Len(Ops) * 1
  BY ScoreConstants, SumOfEqual
<1>4. \A t \in Traces : u[t] <= full[t] /\ (u[t] = full[t] <=> m[t].util = FULL)
  BY ScoreConstants DEF Stats
<1>5. Sum(u) <= Sum(full) /\ (Sum(u) = Sum(full) => \A t \in Traces : u[t] = full[t])
  <2> HIDE DEF u, full
  <2> QED
    BY <1>1, <1>4, SumGrows
<1>6. ASSUME \A t \in Traces : m[t].util = FULL
      PROVE  Sum(u) = Sum(full)
  <2>1. u = full
    BY <1>6
  <2> QED
    BY <2>1
<1>7. \A t \in Traces : one[t] <= o[t]
  BY ScoreConstants DEF Traces
<1>8. Sum(one) <= Sum(o)
  <2> HIDE DEF one, o
  <2> QED
    BY <1>1, <1>7, SumGrows
<1>9. Util(m) = Sum(u) /\ OpsOf(m) = Sum(o) /\ SecsOf(m) = Sum(s)
  BY DEF Util, OpsOf, SecsOf
<1>10. Index(m) = IndexOf(Util(m), Len(Ops) * FULL, OpsOf(m), AVG_LIBC_THRUPUT * SecsOf(m))
  BY DEF Index, IndexOf
<1> HIDE DEF u, o, s, full, one
<1>11. Len(Ops) * FULL \in Nat \ {0} /\ Len(Ops) \in Nat \ {0}
  BY TracesCounted, ScoreConstants
<1>12. Sum(o) \in Nat \ {0}
  BY <1>2, <1>3, <1>8, <1>11
<1>13. AVG_LIBC_THRUPUT * Sum(s) \in Nat
  BY <1>2, ScoreConstants
<1>14. Sum(u) \in 0 .. Len(Ops) * FULL
  BY <1>2, <1>3, <1>5, <1>11
<1>15. Sum(u) = Len(Ops) * FULL <=> \A t \in Traces : m[t].util = FULL
  BY <1>3, <1>4, <1>5, <1>6, Zenon
<1> QED
  BY <1>2, <1>9, <1>10, <1>11, <1>12, <1>13, <1>14, <1>15, Zenon

\* A trace that is run faster or in a smaller heap does not lower the index.
LEMMA BetterCounts ==
    ASSUME NEW m \in [Traces -> Stats], \A t \in Traces : m[t].ops = Ops[t],
           NEW t \in Traces, NEW x \in Utils, NEW y \in Secs,
           NEW other, other = [m EXCEPT ![t].util = x, ![t].secs = y],
           BetterThan(m[t], other[t])
    PROVE  Leq(Index(m), Index(other))
<1>1. x \in 0 .. FULL /\ y \in Nat
  BY ScoreConstants
<1>2. /\ other \in [Traces -> Stats]
      /\ other[t].util = x /\ other[t].secs = y /\ other[t].ops = m[t].ops
      /\ \A r \in Traces : r # t => other[r] = m[r]
  BY <1>1 DEF Stats
<1>3. x >= m[t].util /\ y <= m[t].secs
  BY <1>2 DEF BetterThan
<1>4. \A r \in Traces : /\ m[r].util <= other[r].util /\ other[r].secs <= m[r].secs
                        /\ other[r].ops = m[r].ops
  BY <1>2, <1>3 DEF Stats
<1> DEFINE u(k) == [r \in Traces |-> k[r].util]
           s(k) == [r \in Traces |-> k[r].secs]
<1>5. /\ u(m) \in [Traces -> Nat] /\ u(other) \in [Traces -> Nat]
      /\ s(m) \in [Traces -> Nat] /\ s(other) \in [Traces -> Nat]
  BY <1>2, ScoreConstants DEF Stats
<1>6. Util(m) <= Util(other) /\ SecsOf(other) <= SecsOf(m)
  <2>1. \A r \in Traces : u(m)[r] <= u(other)[r] /\ s(other)[r] <= s(m)[r]
    BY <1>4
  <2>2. /\ Util(m) = Sum(u(m)) /\ Util(other) = Sum(u(other))
        /\ SecsOf(m) = Sum(s(m)) /\ SecsOf(other) = Sum(s(other))
    BY DEF Util, SecsOf
  <2> HIDE DEF u, s
  <2>3. Sum(u(m)) <= Sum(u(other))
    BY <1>5, <2>1, SumGrows
  <2>4. Sum(s(other)) <= Sum(s(m))
    BY <1>5, <2>1, SumGrows
  <2> QED
    BY <2>2, <2>3, <2>4, Zenon
<1>7. OpsOf(other) = OpsOf(m)
  BY <1>4 DEF OpsOf
<1>8. \A r \in Traces : other[r].ops = Ops[r]
  BY <1>4
<1> DEFINE d == Len(Ops) * FULL
           par == AVG_LIBC_THRUPUT * SecsOf(m)
           par2 == AVG_LIBC_THRUPUT * SecsOf(other)
<1>9. /\ d \in Nat \ {0} /\ Util(m) \in 0 .. d /\ Util(other) \in 0 .. d /\ OpsOf(m) \in Nat \ {0}
      /\ par \in Nat /\ par2 \in Nat
      /\ Index(m) = IndexOf(Util(m), d, OpsOf(m), par)
      /\ Index(other) = IndexOf(Util(other), d, OpsOf(m), par2)
  BY <1>2, <1>7, <1>8, Totals
<1>10. par2 <= par
  <2>1. SecsOf(m) \in Nat /\ SecsOf(other) \in Nat
    BY <1>2, <1>8, Totals
  <2> QED
    BY <1>6, <2>1, ScoreConstants
<1> HIDE DEF d, par, par2
<1>11. Leq(IndexOf(Util(m), d, OpsOf(m), par), IndexOf(Util(other), d, OpsOf(m), par2))
  BY <1>6, <1>9, <1>10, IndexGrows
<1> QED
  BY <1>9, <1>11, Zenon

\* The report.
LEMMA ReportKeeps ==
    ASSUME ScoreInv, Report
    PROVE  ScoreInv'
<1>1. /\ phase_score = "report" /\ phase_score' = "done"
      /\ table' = IF verbose THEN printresults(mm_stats) ELSE table
      /\ numcorrect' = Cardinality({t \in Traces : mm_stats[t].valid})
      /\ perfindex' = IF errors = 0 THEN Index(mm_stats) ELSE <<0, 1>>
      /\ UNCHANGED <<i_score, verbose, mm_stats, errors>>
  BY DEF Report
<1>2. /\ mm_stats \in [Traces -> Stats] /\ \A t \in Traces : mm_stats[t].ops = Ops[t]
      /\ errors \in Nat /\ (errors = 0 <=> \A t \in Traces : mm_stats[t].valid)
  BY <1>1 DEF ScoreInv, Evaluated
<1>3. /\ numcorrect' \in Nat /\ numcorrect' <= Len(Ops)
      /\ numcorrect' = Len(Ops) <=> errors = 0
  <2> DEFINE V == {t \in Traces : mm_stats[t].valid}
  <2>1. V \subseteq Traces
    OBVIOUS
  <2>2. IsFiniteSet(V) /\ Cardinality(V) <= Cardinality(Traces)
        /\ (Cardinality(Traces) = Cardinality(V) => Traces = V)
    BY <2>1, TracesCounted, FS_Subset, Zenon
  <2>3. Cardinality(V) \in Nat
    BY <2>2, FS_CardinalityType
  <2>4. V = Traces <=> errors = 0
    BY <1>2, Zenon
  <2> QED
    BY <1>1, <2>2, <2>3, <2>4, TracesCounted
<1>4. verbose => (table'.total # << >> <=> errors = 0)
  <2> SUFFICES ASSUME verbose PROVE table'.total # << >> <=> errors = 0
    OBVIOUS
  <2>1. table'.total = IF errors = 0 THEN <<Util(mm_stats), OpsOf(mm_stats), SecsOf(mm_stats)>>
                       ELSE << >>
    BY <1>1 DEF printresults
  <2>2. \A x, y, z : <<x, y, z>> # << >>
    OBVIOUS
  <2> QED
    BY <2>1, <2>2, Zenon
<1>5. errors # 0 => perfindex' = <<0, 1>>
  BY <1>1
<1>6. /\ Leq(<<0, 1>>, perfindex') /\ Leq(perfindex', <<100, 1>>)
      /\ Leq(<<100, 1>>, perfindex') <=>
           /\ errors = 0 /\ \A t \in Traces : mm_stats[t].util = FULL
           /\ OpsOf(mm_stats) >= AVG_LIBC_THRUPUT * SecsOf(mm_stats)
  <2>1. CASE errors = 0
    <3>1. perfindex' = Index(mm_stats)
      BY <1>1, <2>1
    <3> DEFINE d == Len(Ops) * FULL
               par == AVG_LIBC_THRUPUT * SecsOf(mm_stats)
    <3>2. /\ d \in Nat \ {0} /\ Util(mm_stats) \in 0 .. d
          /\ OpsOf(mm_stats) \in Nat \ {0} /\ par \in Nat
          /\ Index(mm_stats) = IndexOf(Util(mm_stats), d, OpsOf(mm_stats), par)
          /\ Util(mm_stats) = d <=> \A t \in Traces : mm_stats[t].util = FULL
      BY <1>2, Totals
    <3>3. LET x == IndexOf(Util(mm_stats), d, OpsOf(mm_stats), par)
          IN  /\ Leq(<<0, 1>>, x) /\ Leq(x, <<100, 1>>)
              /\ Leq(<<100, 1>>, x) <=> Util(mm_stats) = d /\ OpsOf(mm_stats) >= par
      <4> HIDE DEF d, par
      <4> QED
        BY <3>2, IndexBounds
    <3> QED
      BY <2>1, <3>1, <3>2, <3>3, Zenon
  <2>2. CASE errors # 0
    <3>1. perfindex' = <<0, 1>>
      BY <1>1, <2>2
    <3>2. Leq(<<0, 1>>, <<0, 1>>) /\ Leq(<<0, 1>>, <<100, 1>>) /\ ~Leq(<<100, 1>>, <<0, 1>>)
      BY DEF Leq
    <3> QED
      BY <2>2, <3>1, <3>2, Zenon
  <2> QED
    BY <2>1, <2>2
<1>7. ASSUME errors = 0, NEW t \in Traces, NEW x \in Utils, NEW y \in Secs
      PROVE  LET other == [mm_stats EXCEPT ![t].util = x, ![t].secs = y]
             IN  BetterThan(mm_stats[t], other[t]) => Leq(perfindex', Index(other))
  BY <1>1, <1>2, <1>7, BetterCounts
<1>8. ScoreIsFair'
  <2>1. (Len(Ops))' = Len(Ops) /\ Index(mm_stats)' = Index(mm_stats)
    BY <1>1 DEF Index, Util, OpsOf, SecsOf, Sum
  <2>2. OpsOf(mm_stats)' = OpsOf(mm_stats) /\ SecsOf(mm_stats)' = SecsOf(mm_stats)
    BY <1>1
  <2>3. numcorrect' < Len(Ops) => perfindex'[1] = 0
    BY <1>3, <1>5, TracesCounted
  <2>4. /\ verbose' = verbose /\ mm_stats' = mm_stats /\ errors' = errors
    BY <1>1
  <2> QED
    BY <1>3, <1>4, <1>6, <1>7, <2>2, <2>3, <2>4 DEF ScoreIsFair
<1> QED
  BY <1>1, <1>2, <1>8 DEF ScoreInv

\* Every step of main.
LEMMA ScoreStep == ScoreInv /\ [ScoreNext]_scorevars => ScoreInv'
<1> SUFFICES ASSUME ScoreInv, [ScoreNext]_scorevars
             PROVE  ScoreInv'
  OBVIOUS
<1>1. ASSUME NEW secs \in Secs, LibcTrace(secs)
      PROVE  ScoreInv'
  <2>1. phase_score = "libc" /\ Advance("mm") /\ UNCHANGED <<mm_stats, errors>>
    BY <1>1 DEF LibcTrace
  <2>2. phase_score' \in {"libc", "mm"} /\ i_score' \in Traces /\ Evaluated' = {}
    BY <2>1, Advances
  <2>3. Evaluated = {}
    BY <2>1 DEF Evaluated
  <2> QED
    BY <2>1, <2>2, <2>3 DEF ScoreInv, ScoreIsFair
<1>2. ASSUME NEW util \in Utils, NEW secs \in Secs, MMValid(util, secs)
      PROVE  ScoreInv'
  <2> DEFINE new == [valid |-> TRUE, ops |-> Ops[i_score], secs |-> secs, util |-> util]
  <2>1. /\ phase_score = "mm" /\ Advance("report") /\ errors' = errors
        /\ mm_stats' = [mm_stats EXCEPT ![i_score] = new]
    BY <1>2 DEF MMValid
  <2>2. new \in Stats /\ new.valid = TRUE /\ new.ops = Ops[i_score]
    BY ScoreConstants DEF Stats, ScoreInv, Traces
  <2> HIDE DEF new
  <2> QED
    BY <2>1, <2>2, TraceKeeps
<1>3. CASE MMInvalid
  <2> DEFINE new == [mm_stats[i_score] EXCEPT !.ops = Ops[i_score]]
  <2>1. /\ phase_score = "mm" /\ Advance("report") /\ errors' = errors + 1
        /\ mm_stats' = [mm_stats EXCEPT ![i_score] = new]
    BY <1>3 DEF MMInvalid
  <2>2. mm_stats[i_score] \in Stats /\ Ops[i_score] \in Nat
    BY ScoreConstants DEF ScoreInv, Traces
  <2>3. new \in Stats /\ new.valid = mm_stats[i_score].valid /\ new.ops = Ops[i_score]
    BY <2>2 DEF Stats
  <2>4. i_score \in Traces /\ i_score \notin Evaluated
    BY <2>1, Advances DEF ScoreInv
  <2>5. ~mm_stats[i_score].valid
    BY <2>1, <2>4 DEF ScoreInv
  <2> HIDE DEF new
  <2> QED
    BY <2>1, <2>3, <2>5, TraceKeeps
<1>4. CASE AppError
  <2>1. /\ phase_score' = "exit" /\ errors' \in {errors, errors + 1}
        /\ UNCHANGED <<i_score, mm_stats>>
    BY <1>4 DEF AppError
  <2>2. ScoreIsFair'
    BY <2>1 DEF ScoreIsFair
  <2>3. mm_stats' \in [Traces -> Stats] /\ errors' \in Nat /\ i_score' \in Traces
    BY <2>1 DEF ScoreInv
  <2> QED
    BY <2>1, <2>2, <2>3 DEF ScoreInv
<1>5. CASE Report
  BY <1>5, ReportKeeps
<1>6. CASE UNCHANGED scorevars
  <2>1. ScoreIsFair' = ScoreIsFair /\ Evaluated' = Evaluated
    BY <1>6 DEF ScoreIsFair, Evaluated, scorevars
  <2>2. UNCHANGED <<phase_score, i_score, mm_stats, errors>>
    BY <1>6 DEF scorevars
  <2> QED
    BY <2>1, <2>2 DEF ScoreInv
<1> QED
  BY <1>1, <1>2, <1>3, <1>4, <1>5, <1>6 DEF ScoreNext

\* main of mdriver.c, for every number of traces and whatever they gave: the index is
\* between 0 and 100, 0 with a trace that failed, 100 just for a full heap and the
\* throughput of libc, and no better trace lowers it.
THEOREM FairScore == ScoreSpec => []ScoreIsFair
<1>1. ScoreInit => ScoreInv
  BY ScoreStart
<1>2. ScoreInv /\ [ScoreNext]_scorevars => ScoreInv'
  BY ScoreStep
<1>3. ScoreInv => ScoreIsFair
  BY DEF ScoreInv
<1> QED
  BY <1>1, <1>2, <1>3, PTL DEF ScoreSpec

-----------------------------------------------------------------------------
(* What parseline makes of a line of tsh.c *)

Modes == {"out", "word", "quote"}

\* The modes of a line, for as many of its characters as one likes.
ModesUpTo(s, f, n) ==
    /\ f \in [0 .. n -> Modes] /\ f[0] = "out"
    /\ \A p \in 1 .. n : f[p] = After(f[p - 1], CharOf(s, p))

\* The modes of a line exist: there is no shortest part of it without them.
LEMMA ModesExist ==
    ASSUME NEW s \in Seq(Char)
    PROVE  \E f : ModesUpTo(s, f, Len(s))
<1> DEFINE T == {n \in 0 .. Len(s) : ~\E f : ModesUpTo(s, f, n)}
<1>0. Len(s) \in Nat /\ Len(s) \in 0 .. Len(s) /\ T \in SUBSET Nat
  OBVIOUS
<1> SUFFICES ASSUME T # {}
             PROVE  FALSE
  BY <1>0
<1> DEFINE n == Min(T)
<1>1. n \in T /\ \A x \in T : n <= x
  <2> HIDE DEF T
  <2> QED
    BY <1>0, LeastExists
<1>2. n # 0
  <2>1. ModesUpTo(s, [p \in 0 .. 0 |-> "out"], 0)
    BY DEF ModesUpTo, Modes
  <2> QED
    BY <1>1, <2>1
<1>3. n \in Nat /\ n - 1 \in 0 .. Len(s) /\ n - 1 \notin T
  <2>1. n \in 0 .. Len(s)
    BY <1>1
  <2>2. ASSUME n - 1 \in T
        PROVE  FALSE
    <3>1. n <= n - 1
      BY <1>1, <2>2
    <3> HIDE DEF n, T
    <3> QED
      BY <1>0, <2>1, <3>1
  <2> HIDE DEF n, T
  <2> QED
    BY <1>0, <2>1, <2>2, <1>2
<1>4. PICK f : ModesUpTo(s, f, n - 1)
  BY <1>3
<1> DEFINE g == [p \in 0 .. n |-> IF p = n THEN After(f[n - 1], CharOf(s, n)) ELSE f[p]]
<1>5. \A m, c : After(m, c) \in Modes
  BY DEF After, Modes
<1> HIDE DEF n, T
<1>6. ModesUpTo(s, g, n)
  <2>1. \A p \in 0 .. n : p # n => p \in 0 .. n - 1 /\ g[p] = f[p]
    BY <1>3
  <2>2. g \in [0 .. n -> Modes]
    BY <1>4, <1>5, <2>1 DEF ModesUpTo
  <2>3. g[0] = "out"
    BY <1>2, <1>3, <1>4, <2>1 DEF ModesUpTo
  <2>4. ASSUME NEW p \in 1 .. n
        PROVE  g[p] = After(g[p - 1], CharOf(s, p))
    <3>1. p - 1 \in 0 .. n /\ p - 1 # n /\ p \in 0 .. n /\ (p # n => p \in 1 .. n - 1)
      BY <1>3
    <3>2. g[p - 1] = f[p - 1]
      BY <2>1, <3>1
    <3>3. CASE p = n
      BY <3>2, <3>3, <3>1
    <3>4. CASE p # n
      BY <3>1, <3>2, <3>4, <2>1, <1>4 DEF ModesUpTo
    <3> QED
      BY <3>3, <3>4
  <2> QED
    BY <2>2, <2>3, <2>4 DEF ModesUpTo
<1> QED
  BY <1>1, <1>6 DEF T

\* The recursion of Mode unfolds.
LEMMA ModeIs ==
    ASSUME NEW s \in Seq(Char)
    PROVE  /\ Mode(s) \in [0 .. Len(s) -> Modes] /\ Mode(s)[0] = "out"
           /\ \A p \in 1 .. Len(s) : Mode(s)[p] = After(Mode(s)[p - 1], CharOf(s, p))
<1>1. PICK f : ModesUpTo(s, f, Len(s))
  BY ModesExist
<1>2. f = [p \in 0 .. Len(s) |-> IF p = 0 THEN "out" ELSE After(f[p - 1], CharOf(s, p))]
  <2>1. \A p \in 0 .. Len(s) : p = 0 \/ p \in 1 .. Len(s)
    OBVIOUS
  <2> QED
    BY <1>1, <2>1 DEF ModesUpTo
<1>3. Mode(s) = [p \in 0 .. Len(s) |->
                    IF p = 0 THEN "out" ELSE After(Mode(s)[p - 1], CharOf(s, p))]
  BY <1>2, Zenon DEF Mode
<1>4. \A m, c : After(m, c) \in Modes
  BY DEF After, Modes
<1>5. \A p \in 0 .. Len(s) :
        Mode(s)[p] = IF p = 0 THEN "out" ELSE After(Mode(s)[p - 1], CharOf(s, p))
  BY <1>3, Zenon
<1>6. "out" \in Modes
  BY DEF Modes
<1>7. Mode(s) \in [0 .. Len(s) -> Modes]
  <2>1. \A p \in 0 .. Len(s) : Mode(s)[p] \in Modes
    BY <1>4, <1>5, <1>6, Zenon
  <2>2. Mode(s) = [p \in 0 .. Len(s) |-> Mode(s)[p]]
    BY <1>3, <1>5, Zenon
  <2> QED
    BY <2>1, <2>2, Zenon
<1> QED
  BY <1>5, <1>7

\* A member of a set of positions is the one that its rank finds.
LEMMA NthIs ==
    ASSUME NEW n \in Nat, NEW S \in SUBSET (1 .. n), NEW p \in S
    PROVE  /\ Nth(S, Cardinality({q \in S : q < p}) + 1) = p
           /\ Cardinality({q \in S : q < p}) + 1 <= Cardinality(S)
           /\ Cardinality({q \in S : q < p}) \in Nat /\ Cardinality(S) \in Nat
           /\ Cardinality({q \in S : q <= p}) = Cardinality({q \in S : q < p}) + 1
<1>1. IsFiniteSet(1 .. n) /\ IsFiniteSet(S)
  BY FS_Interval, FS_Subset, 1 \in Int, n \in Int
<1>2. \A T \in SUBSET S : /\ IsFiniteSet(T) /\ Cardinality(T) \in Nat
                          /\ Cardinality(T) <= Cardinality(S)
  BY <1>1, FS_Subset, FS_CardinalityType
<1>0. \A q \in S : q \in Nat
  OBVIOUS
<1> DEFINE Below(r) == {q \in S : q < r}
           Upto(r) == {q \in S : q <= r}
<1>3. \A r \in S : Cardinality(Upto(r)) = Cardinality(Below(r)) + 1
  <2> SUFFICES ASSUME NEW r \in S
               PROVE  Cardinality(Upto(r)) = Cardinality(Below(r)) + 1
    OBVIOUS
  <2>0. \A q \in S : (q <= r <=> q < r \/ q = r) /\ ~(r < r)
    BY <1>0, SMT
  <2>1. Upto(r) = Below(r) \cup {r} /\ r \notin Below(r)
    BY <2>0, Zenon
  <2>2. IsFiniteSet(Below(r))
    BY <1>2
  <2> QED
    BY <2>1, <2>2, FS_AddElement
<1>4. ASSUME NEW r \in S, NEW t \in S, r < t
      PROVE  Cardinality(Upto(r)) < Cardinality(Upto(t))
  <2>0. \A q \in S : q <= r => q < t
    BY <1>0, <1>4, SMT
  <2>1. Upto(r) \subseteq Below(t)
    BY <2>0, Zenon
  <2>2. IsFiniteSet(Below(t)) /\ Cardinality(Below(t)) \in Nat
    BY <1>2
  <2>3. Cardinality(Upto(r)) <= Cardinality(Below(t)) /\ Cardinality(Upto(r)) \in Nat
    BY <2>1, <2>2, <1>2, FS_Subset, FS_CardinalityType
  <2> QED
    BY <2>2, <2>3, <1>3
<1>5. ASSUME NEW r \in S, Cardinality(Upto(r)) = Cardinality(Upto(p))
      PROVE  r = p
  <2>1. Cardinality(Upto(p)) \in Nat /\ Cardinality(Upto(r)) \in Nat
    BY <1>2
  <2>2. ~(r < p) /\ ~(p < r)
    BY <1>4, <1>5, <2>1
  <2> QED
    BY <2>2
<1>6. Cardinality(Below(p)) + 1 = Cardinality(Upto(p))
  BY <1>3
<1>7. Nth(S, Cardinality(Upto(p))) = p
  BY <1>5 DEF Nth
<1> QED
  BY <1>2, <1>6, <1>7

-----------------------------------------------------------------------------
(* Where the lines begin *)

\* Nothing between a multiple and the next one is a multiple.
LEMMA Multiples ==
    ASSUME NEW n \in Nat \ {0}, NEW x \in Int, x % n = 0
    PROVE  /\ \A d \in 1 .. n - 1 : (x + d) % n # 0
           /\ (x + n) % n = 0
<1>1. PICK q \in Int : x = n * q
  <2>1. x \div n \in Int /\ x = n * (x \div n) + (x % n)
    BY DivMod
  <2>2. n * (x \div n) \in Int
    BY <2>1
  <2> QED
    BY <2>1, <2>2
<1>2. ASSUME NEW d \in 1 .. n - 1
      PROVE  (x + d) % n # 0
  <2>1. (n * q + d) % n = d
    BY <1>2, ModIs, d \in 0 .. n - 1
  <2> QED
    BY <1>1, <2>1
<1>3. (x + n) % n = 0
  <2>1. (n * (q + 1) + 0) % n = 0
    BY ModIs, q + 1 \in Int, 0 \in 0 .. n - 1
  <2>2. n * (q + 1) + 0 = n * q + n
    OBVIOUS
  <2> QED
    BY <1>1, <2>1, <2>2
<1> QED
  BY <1>2, <1>3

LastBreak(p) == Max({1} \cup {q \in AfterNewlines : q <= p})

\* Where the characters of the line at p are counted from.
LEMMA LastBreakIs ==
    ASSUME typed \in Seq(Char), NEW p \in 1 .. Len(typed) + 1
    PROVE  /\ LastBreak(p) \in 1 .. p
           /\ \A q \in AfterNewlines : q <= p => q <= LastBreak(p)
<1> DEFINE S == {1} \cup {q \in AfterNewlines : q <= p}
<1>1. S \in SUBSET (1 .. p) /\ S # {} /\ p \in Nat
  BY DEF AfterNewlines
<1>2. S \in SUBSET (0 .. p)
  BY <1>1
<1>3. Max(S) \in S /\ \A x \in S : Max(S) >= x
  <2> HIDE DEF S
  <2> QED
    BY <1>1, <1>2, GreatestExists
<1>4. Max(S) \in 1 .. p
  <2> HIDE DEF S
  <2> QED
    BY <1>1, <1>3
<1>5. LastBreak(p) = Max(S)
  BY DEF LastBreak
<1>6. \A q \in AfterNewlines : q <= p => q \in S
  OBVIOUS
<1>7. \A q \in S : q \in Int
  <2> HIDE DEF S
  <2> QED
    BY <1>1
<1> HIDE DEF S
<1>8. \A q \in S : q <= Max(S)
  BY <1>3, <1>4, <1>7
<1> QED
  BY <1>4, <1>5, <1>6, <1>8

\* Without a newline in between, nothing changes.
LEMMA SameBreak ==
    ASSUME typed \in Seq(Char), NEW p \in 1 .. Len(typed) + 1, NEW q \in p .. Len(typed) + 1,
           \A r \in p .. q - 1 : typed[r] # "n"
    PROVE  LastBreak(q) = LastBreak(p)
<1>1. ASSUME NEW r \in AfterNewlines
      PROVE  r <= q <=> r <= p
  <2>1. r \in 2 .. Len(typed) + 1 /\ typed[r - 1] = "n"
    BY DEF AfterNewlines
  <2>2. ASSUME r <= q, p < r
        PROVE  FALSE
    <3>1. r - 1 \in p .. q - 1
      BY <2>1, <2>2
    <3> QED
      BY <2>1, <3>1
  <2> QED
    BY <2>1, <2>2
<1>2. {r \in AfterNewlines : r <= q} = {r \in AfterNewlines : r <= p}
  BY <1>1
<1> QED
  BY <1>2 DEF LastBreak

\* A line begins a multiple of MAXLINE - 1 characters from there.
LEMMA BeginsAre ==
    ASSUME NEW p \in 1 .. Len(typed) + 1
    PROVE  p \in Begins <=> (p - LastBreak(p)) % (MAXLINE - 1) = 0
BY DEF Begins, LastBreak

\* No line begins before the one at hand has its newline or is full.
LEMMA NoneBegins ==
    ASSUME typed \in Seq(Char), NEW p \in Begins, NEW n \in Nat, n < MAXLINE - 1,
           p + n <= Len(typed) + 1, \A r \in p .. p + n - 1 : typed[r] # "n"
    PROVE  \A q \in Begins : q > p => q > p + n
<1>1. p \in 1 .. Len(typed) + 1 /\ MAXLINE - 1 \in Nat \ {0}
  BY ParseConstants DEF Begins
<1> SUFFICES ASSUME NEW q \in Begins, q > p, q <= p + n
             PROVE  FALSE
  <2>1. \A q \in Begins : q \in Nat
    BY DEF Begins
  <2> QED
    BY <1>1, <2>1
<1>2. q \in p .. Len(typed) + 1 /\ q \in 1 .. Len(typed) + 1
  BY <1>1 DEF Begins
<1>3. \A r \in p .. q - 1 : typed[r] # "n"
  BY <1>1, <1>2
<1>4. LastBreak(q) = LastBreak(p) /\ LastBreak(p) \in 1 .. p
  BY <1>1, <1>2, <1>3, SameBreak, LastBreakIs
<1> DEFINE s == LastBreak(p)
<1>5. (p - s) % (MAXLINE - 1) = 0 /\ (q - s) % (MAXLINE - 1) = 0
  BY <1>1, <1>2, <1>4, BeginsAre
<1>6. q - p \in 1 .. (MAXLINE - 1) - 1 /\ p - s \in Int /\ q - s = (p - s) + (q - p)
  BY <1>1, <1>2, <1>4
<1> HIDE DEF s
<1>7. ((p - s) + (q - p)) % (MAXLINE - 1) # 0
  BY <1>1, <1>5, <1>6, Multiples
<1> QED
  BY <1>5, <1>6, <1>7

\* A line begins where fgets goes on.
LEMMA NextBegins ==
    ASSUME typed \in Seq(Char), NEW p \in Begins, NEW n \in 1 .. MAXLINE - 1,
           p + n <= Len(typed) + 1, \A r \in p .. p + n - 2 : typed[r] # "n",
           typed[p + n - 1] = "n" \/ n = MAXLINE - 1
    PROVE  p + n \in Begins /\ \A q \in Begins : q > p => q >= p + n
<1>1. p \in 1 .. Len(typed) + 1 /\ MAXLINE - 1 \in Nat \ {0}
  BY ParseConstants DEF Begins
<1>2. p + n \in 1 .. Len(typed) + 1 /\ p + n \in p .. Len(typed) + 1
  BY <1>1
<1>3. p + n \in Begins
  <2>1. CASE typed[(p + n) - 1] = "n"
    <3>1. p + n \in AfterNewlines
      <4>1. p + n \in 2 .. Len(typed) + 1
        BY <1>1, <1>2
      <4> QED
        BY <2>1, <4>1 DEF AfterNewlines
    <3>2. LastBreak(p + n) \in 1 .. p + n /\ LastBreak(p + n) >= p + n
      BY <1>1, <1>2, <3>1, LastBreakIs
    <3>3. (p + n) - LastBreak(p + n) = 0
      BY <1>1, <3>2
    <3>4. 0 % (MAXLINE - 1) = 0
      BY <1>1
    <3> QED
      BY <1>2, <3>3, <3>4, BeginsAre
  <2>2. CASE typed[(p + n) - 1] # "n"
    <3>1. n = MAXLINE - 1
      BY <2>2, <1>1
    <3>2. \A r \in p .. (p + n) - 1 : typed[r] # "n"
      <4>1. \A r \in p .. (p + n) - 1 : r = (p + n) - 1 \/ r \in p .. p + n - 2
        BY <1>1
      <4> QED
        BY <2>2, <4>1
    <3>3. LastBreak(p + n) = LastBreak(p) /\ LastBreak(p) \in 1 .. p
      BY <1>1, <1>2, <3>2, SameBreak, LastBreakIs
    <3>4. (p - LastBreak(p)) % (MAXLINE - 1) = 0
      BY <1>1, BeginsAre
    <3>5. ((p - LastBreak(p)) + (MAXLINE - 1)) % (MAXLINE - 1) = 0
      <4>1. p - LastBreak(p) \in Int
        BY <1>1, <3>3
      <4> HIDE DEF LastBreak
      <4> QED
        BY <1>1, <3>4, <4>1, Multiples
    <3>6. (p + n) - LastBreak(p + n) = (p - LastBreak(p)) + (MAXLINE - 1)
      BY <1>1, <3>1, <3>3
    <3> QED
      BY <1>2, <3>5, <3>6, BeginsAre
  <2> QED
    BY <2>1, <2>2
<1>4. \A q \in Begins : q > p => q > p + (n - 1)
  <2>1. n - 1 \in Nat /\ n - 1 < MAXLINE - 1 /\ p + (n - 1) <= Len(typed) + 1
    BY <1>1
  <2>2. p + (n - 1) - 1 = p + n - 2
    BY <1>1
  <2>3. \A r \in p .. p + (n - 1) - 1 : typed[r] # "n"
    BY <1>1
  <2> QED
    BY <2>1, <2>3, NoneBegins
<1>5. \A q \in Begins : q \in Nat
  BY DEF Begins
<1> QED
  BY <1>1, <1>3, <1>4, <1>5

-----------------------------------------------------------------------------
(* The arguments of a line *)

\* c is parseline's copy of the line s.
Copies(c, s) ==
    /\ s \in Seq(Char) /\ c \in Seq(Char) /\ Len(c) = Len(s)
    /\ \A q \in 1 .. Len(s) : c[q] = CharOf(s, q)

\* A mode lasts for as long as no character ends it.
LEMMA ModeLasts ==
    ASSUME NEW s \in Seq(Char), NEW p \in 0 .. Len(s), NEW d \in p .. Len(s), NEW x,
           Mode(s)[p] = x, \A r \in p + 1 .. d : After(x, CharOf(s, r)) = x
    PROVE  \A r \in p .. d : Mode(s)[r] = x
<1> DEFINE T == {r \in p .. d : Mode(s)[r] # x}
<1>0. T \in SUBSET Nat
  OBVIOUS
<1> SUFFICES ASSUME T # {}
             PROVE  FALSE
  OBVIOUS
<1> DEFINE n == Min(T)
<1>1. n \in T /\ \A y \in T : n <= y
  <2> HIDE DEF T
  <2> QED
    BY <1>0, LeastExists
<1>2. n \in p .. d /\ Mode(s)[n] # x
  BY <1>1
<1>3. ASSUME n - 1 \in T
      PROVE  FALSE
  <2>1. n <= n - 1
    BY <1>1, <1>3
  <2> HIDE DEF n, T
  <2> QED
    BY <1>2, <2>1
<1> HIDE DEF n
<1>4. n # p
  BY <1>2
<1>5. n - 1 \in p .. d /\ n \in p + 1 .. d /\ n \in 1 .. Len(s)
  BY <1>2, <1>4
<1>6. Mode(s)[n - 1] = x
  BY <1>3, <1>5
<1>7. Mode(s)[n] = After(Mode(s)[n - 1], CharOf(s, n))
  BY <1>5, ModeIs
<1> QED
  BY <1>2, <1>5, <1>6, <1>7

\* What a scan forward finds.
LEMMA FirstIs ==
    ASSUME NEW S \in SUBSET Nat, NEW end \in Nat
    PROVE  /\ FirstIn(S, end) \in S \cup {end} /\ FirstIn(S, end) \in Nat
           /\ FirstIn(S, end) <= end /\ \A p \in S : FirstIn(S, end) <= p
<1>1. S \cup {end} \in SUBSET Nat /\ S \cup {end} # {}
  OBVIOUS
<1> QED
  BY <1>1, LeastExists DEF FirstIn

\* The delimiter that strchr finds from buf = b on.
QuotedAt(c, at) == at <= Len(c) /\ c[at] = "'"
BeginAt(c, at) == IF QuotedAt(c, at) THEN at + 1 ELSE at
DelimAt(c, at) ==
    FirstIn(Positions(c, IF QuotedAt(c, at) THEN "'" ELSE " ", BeginAt(c, at)), Len(c) + 1)

\* Between arguments, in front of the next one or at the end of the line.
Between(c, s, at) ==
    /\ at \in 1 .. Len(c) + 1 /\ Mode(s)[at - 1] = "out"
    /\ at <= Len(c) => c[at] # " "

\* What strchr finds: the delimiter, and nothing equal to it on the way.
LEMMA DelimIs ==
    ASSUME NEW c, NEW s, Copies(c, s), NEW at, Between(c, s, at)
    PROVE  /\ DelimAt(c, at) \in BeginAt(c, at) .. Len(c) + 1
           /\ BeginAt(c, at) \in at .. at + 1 /\ at \in Nat
           /\ DelimAt(c, at) <= Len(c) =>
                 c[DelimAt(c, at)] = IF QuotedAt(c, at) THEN "'" ELSE " "
           /\ \A r \in BeginAt(c, at) .. DelimAt(c, at) - 1 :
                 c[r] # IF QuotedAt(c, at) THEN "'" ELSE " "
<1> DEFINE e == IF QuotedAt(c, at) THEN "'" ELSE " "
           g == BeginAt(c, at)
           S == Positions(c, e, g)
           d == DelimAt(c, at)
<1>1. at \in 1 .. Len(c) + 1 /\ Len(c) \in Nat /\ at \in Nat
  <2>1. Len(c) \in Nat
    BY DEF Copies
  <2>2. at \in 1 .. Len(c) + 1
    BY Zenon DEF Between
  <2> QED
    BY <2>1, <2>2
<1>2. g \in at .. at + 1 /\ g \in 1 .. Len(c) + 1
  BY <1>1 DEF BeginAt, QuotedAt
<1> HIDE DEF g, e
<1>3. S \in SUBSET Nat /\ \A r \in g .. Len(c) : r \in S <=> c[r] = e
  BY <1>1, <1>2 DEF Positions
<1>4. \A r \in S : r \in g .. Len(c) /\ c[r] = e
  BY DEF Positions
<1>5. d = FirstIn(S, Len(c) + 1)
  BY DEF DelimAt, e, g
<1> HIDE DEF d, S
<1>6. /\ d \in S \cup {Len(c) + 1} /\ d \in Nat
      /\ d <= Len(c) + 1 /\ \A p \in S : d <= p
  BY <1>1, <1>3, <1>5, FirstIs
<1>7. d \in g .. Len(c) + 1 /\ (d <= Len(c) => c[d] = e)
  BY <1>1, <1>2, <1>4, <1>6
<1>8. \A r \in g .. d - 1 : c[r] # e
  BY <1>1, <1>2, <1>3, <1>6
<1> QED
  BY <1>1, <1>2, <1>7, <1>8, Zenon DEF d, g, e

\* Through an argument that begins at b the mode is not "out".
LEMMA ModeWithin ==
    ASSUME NEW c, NEW s, Copies(c, s), NEW at, Between(c, s, at), at <= Len(c)
    PROVE  /\ Mode(s)[at] = IF QuotedAt(c, at) THEN "quote" ELSE "word"
           /\ \A r \in at .. DelimAt(c, at) - 1 :
                 Mode(s)[r] = IF QuotedAt(c, at) THEN "quote" ELSE "word"
           /\ DelimAt(c, at) <= Len(c) => Mode(s)[DelimAt(c, at)] = "out"
           /\ DelimAt(c, at) > at
<1> DEFINE x == IF QuotedAt(c, at) THEN "quote" ELSE "word"
           e == IF QuotedAt(c, at) THEN "'" ELSE " "
           d == DelimAt(c, at)
<1>1. /\ s \in Seq(Char) /\ Len(c) = Len(s) /\ Len(s) \in Nat
      /\ \A q \in 1 .. Len(s) : c[q] = CharOf(s, q)
  BY DEF Copies
<1>2. at \in 1 .. Len(s) /\ at \in Nat
  <2>1. at \in 1 .. Len(c) + 1
    BY Zenon DEF Between
  <2> QED
    BY <1>1, <2>1
<1>m. Mode(s)[at - 1] = "out" /\ c[at] # " "
  BY Zenon DEF Between
<1>3. Mode(s)[at] = After("out", c[at])
  BY <1>1, <1>2, <1>m, ModeIs
<1>4. Mode(s)[at] = x
  BY <1>1, <1>2, <1>m, <1>3 DEF After, QuotedAt
<1> DEFINE g == BeginAt(c, at)
<1>5. /\ d \in g .. Len(c) + 1 /\ g \in at .. at + 1
      /\ d <= Len(c) => c[d] = e
      /\ \A r \in g .. d - 1 : c[r] # e
  BY DelimIs, Zenon
<1>r. d \in g .. Len(c) + 1 /\ g \in at .. at + 1
  BY <1>5
<1>g. g = IF QuotedAt(c, at) THEN at + 1 ELSE at
  BY DEF BeginAt
<1>q. QuotedAt(c, at) => g = at + 1
  BY <1>g
<1>p. ~QuotedAt(c, at) => e = " "
  OBVIOUS
<1> HIDE DEF d, g, e
<1>6. d > at
  <2>1. CASE QuotedAt(c, at)
    BY <1>1, <1>2, <1>r, <1>q, <2>1
  <2>2. CASE ~QuotedAt(c, at)
    <3>1. g = at /\ e = " "
      BY <1>g, <1>p, <2>2
    <3>2. ASSUME d = at
          PROVE  FALSE
      <4>1. c[at] = " "
        BY <1>5, <3>1, <3>2
      <4> QED
        BY <1>m, <4>1
    <3>3. d \in at .. Len(c) + 1
      BY <1>r, <3>1
    <3> QED
      BY <1>1, <1>2, <3>2, <3>3
  <2> QED
    BY <2>1, <2>2
<1>d. d \in at + 1 .. Len(s) + 1 /\ d - 1 \in at .. Len(s) /\ at \in 0 .. Len(s)
  BY <1>1, <1>2, <1>r, <1>6
<1>7. \A r \in at + 1 .. d - 1 : After(x, CharOf(s, r)) = x
  <2> SUFFICES ASSUME NEW r \in at + 1 .. d - 1
               PROVE  After(x, CharOf(s, r)) = x
    OBVIOUS
  <2>1. r \in g .. d - 1 /\ r \in 1 .. Len(s)
    BY <1>1, <1>2, <1>r, <1>d
  <2>2. CharOf(s, r) # e
    BY <1>1, <1>5, <2>1
  <2> QED
    BY <2>2 DEF After, e
<1>8. \A r \in at .. d - 1 : Mode(s)[r] = x
  <2> HIDE DEF x
  <2> QED
    BY <1>1, <1>4, <1>7, <1>d, ModeLasts
<1>9. d <= Len(s) => Mode(s)[d] = "out"
  <2> SUFFICES ASSUME d <= Len(s)
               PROVE  Mode(s)[d] = "out"
    OBVIOUS
  <2>1. d \in 1 .. Len(s) /\ d - 1 \in at .. d - 1
    BY <1>1, <1>2, <1>d
  <2>2. Mode(s)[d] = After(Mode(s)[d - 1], CharOf(s, d))
    BY <1>1, <2>1, ModeIs
  <2>3. Mode(s)[d - 1] = x /\ CharOf(s, d) = e
    BY <1>1, <1>5, <1>8, <2>1
  <2> QED
    BY <2>2, <2>3 DEF After, e
<1> QED
  BY <1>1, <1>4, <1>6, <1>8, <1>9 DEF d

\* After the spaces parseline is between arguments, and was outside of them.
LEMMA SpacesSkipped ==
    ASSUME NEW c, NEW s, Copies(c, s), NEW d \in 0 .. Len(c), Mode(s)[d] = "out"
    PROVE  LET next == AfterSpaces(c, d + 1)
           IN  /\ Between(c, s, next) /\ next \in d + 1 .. Len(c) + 1
               /\ \A r \in d .. next - 1 : Mode(s)[r] = "out"
<1> DEFINE m == Mode(s)
           next == AfterSpaces(c, d + 1)
           S == {p \in d + 1 .. Len(c) : c[p] # " "}
<1>1. /\ s \in Seq(Char) /\ c \in Seq(Char) /\ Len(c) = Len(s) /\ Len(s) \in Nat
      /\ \A q \in 1 .. Len(s) : c[q] = CharOf(s, q)
  BY DEF Copies
<1>L. Len(c) = Len(s) /\ Len(s) \in Nat
  BY <1>1
<1>5. d \in 0 .. Len(s) /\ d \in Nat
  BY <1>L
<1>6. m[d] = "out"
  OBVIOUS
<1>8. next = FirstIn(S, Len(c) + 1) /\ S \in SUBSET Nat
  <2>1. d + 1 \in Nat
    BY <1>5
  <2>2. S \in SUBSET Nat
    <3>1. \A p \in d + 1 .. Len(c) : p \in Nat
      BY <1>L, <2>1
    <3> QED
      BY <3>1, Zenon
  <2> QED
    BY <2>2 DEF AfterSpaces
<1>9. /\ next \in S \cup {Len(c) + 1} /\ next \in Nat
      /\ next <= Len(c) + 1 /\ \A p \in S : next <= p
  <2> HIDE DEF next, S
  <2> QED
    BY <1>L, <1>8, FirstIs
<1> HIDE DEF next
<1>s. \A p \in S : p \in d + 1 .. Len(c) /\ c[p] # " "
  OBVIOUS
<1>t. \A p \in d + 1 .. Len(c) : c[p] # " " => p \in S
  OBVIOUS
<1> HIDE DEF S
<1>10. next \in d + 1 .. Len(c) + 1
  <2>1. \A p \in S : p \in d + 1 .. Len(c)
    BY <1>s
  <2> QED
    BY <1>L, <1>5, <1>9, <2>1
<1>u. next <= Len(c) => c[next] # " "
  <2>1. next = Len(c) + 1 => ~(next <= Len(c))
    BY <1>L
  <2> QED
    BY <1>9, <1>s, <2>1, Zenon
<1>11. \A r \in d + 1 .. next - 1 : c[r] = " "
  <2> SUFFICES ASSUME NEW r \in d + 1 .. next - 1
               PROVE  c[r] = " "
    OBVIOUS
  <2>1. r \in d + 1 .. Len(c) /\ ~(next <= r)
    BY <1>L, <1>5, <1>10
  <2> QED
    BY <1>9, <1>t, <2>1
<1>12. \A r \in d .. next - 1 : m[r] = "out"
  <2>1. d \in 0 .. Len(s) /\ next - 1 \in d .. Len(s)
    BY <1>L, <1>5, <1>10
  <2>2. \A r \in d + 1 .. next - 1 : After("out", CharOf(s, r)) = "out"
    <3> SUFFICES ASSUME NEW r \in d + 1 .. next - 1
                 PROVE  After("out", CharOf(s, r)) = "out"
      OBVIOUS
    <3>1. r \in 1 .. Len(s)
      BY <1>L, <1>5, <1>10
    <3>2. CharOf(s, r) = " "
      BY <1>1, <1>11, <3>1
    <3> QED
      BY <3>2 DEF After
  <2> QED
    BY <1>1, <1>6, <2>1, <2>2, ModeLasts
<1>13. Between(c, s, next)
  <2>1. next - 1 \in d .. next - 1 /\ next \in 1 .. Len(c) + 1
    BY <1>L, <1>5, <1>10
  <2>2. Mode(s)[next - 1] = "out"
    BY <1>12, <2>1
  <2> QED
    BY <1>u, <2>1, <2>2, Zenon DEF Between
<1> QED
  BY <1>10, <1>12, <1>13 DEF next

\* What two sequences share, their parts share.
LEMMA SubSeqSame ==
    ASSUME NEW S, NEW s \in Seq(S), NEW c \in Seq(S), Len(c) = Len(s), NEW n \in Nat, n <= Len(s),
           NEW g \in 1 .. Len(s) + 1, \A r \in g .. n : s[r] = c[r]
    PROVE  SubSeq(s, g, n) = SubSeq(c, g, n)
<1>1. \A r \in 1 .. n - g + 1 : g + r - 1 \in g .. n
  BY SMT
<1>2. [r \in 1 .. n - g + 1 |-> s[g + r - 1]] = [r \in 1 .. n - g + 1 |-> c[g + r - 1]]
  BY <1>1
<1> QED
  BY <1>2, SMT

\* What one turn of the loop takes is the next argument, and after it parseline
\* is between arguments again.
LEMMA TakesArgument ==
    ASSUME NEW c, NEW s, Copies(c, s), NEW at, Between(c, s, at), DelimAt(c, at) <= Len(c)
    PROVE  LET next == AfterSpaces(c, DelimAt(c, at) + 1)
           IN  /\ at \in From(s) /\ Between(c, s, next)
               /\ ArgumentAt(s, at) = SubSeq(c, BeginAt(c, at), DelimAt(c, at) - 1)
               /\ \A p \in From(s) : p < next <=> p <= at
<1> DEFINE d == DelimAt(c, at)
           m == Mode(s)
           next == AfterSpaces(c, d + 1)
           x == IF QuotedAt(c, at) THEN "quote" ELSE "word"
<1>1. /\ s \in Seq(Char) /\ c \in Seq(Char) /\ Len(c) = Len(s) /\ Len(s) \in Nat
      /\ \A q \in 1 .. Len(s) : c[q] = CharOf(s, q)
  BY DEF Copies
<1>L. Len(c) = Len(s) /\ Len(s) \in Nat
  BY <1>1
<1>2. at \in 1 .. Len(c) + 1
  BY Zenon DEF Between
<1>3. m[at - 1] = "out"
  BY Zenon DEF Between
<1>4. d \in BeginAt(c, at) .. Len(c) + 1 /\ BeginAt(c, at) \in at .. at + 1
  BY DelimIs
<1>5. at \in 1 .. Len(s) /\ d \in at .. Len(s)
  <2>1. d \in Int /\ d <= Len(c)
    BY <1>4
  <2> HIDE DEF d
  <2> QED
    BY <1>1, <1>2, <1>4, <2>1
<1>6. /\ m[at] = x /\ m[d] = "out" /\ d > at
      /\ \A r \in at .. d - 1 : m[r] = x
  BY <1>1, <1>5, ModeWithin
<1>7. x # "out"
  OBVIOUS
<1> HIDE DEF d
<1>8. next \in d + 1 .. Len(c) + 1 /\ Between(c, s, next)
  <2>1. d \in 0 .. Len(c)
    BY <1>L, <1>5
  <2> QED
    BY <1>6, <2>1, SpacesSkipped
<1>12. \A r \in d .. next - 1 : m[r] = "out"
  <2>1. d \in 0 .. Len(c)
    BY <1>L, <1>5
  <2> QED
    BY <1>6, <2>1, SpacesSkipped
<1> HIDE DEF next
<1>10. next \in d + 1 .. Len(c) + 1
  BY <1>8
<1>14. d \in Ends(s, at) /\ Ends(s, at) # {}
  BY <1>5, <1>6 DEF Ends
<1>15. at \in From(s)
  BY <1>3, <1>5, <1>6, <1>7, <1>14, Zenon DEF From
<1>16. Min(Ends(s, at)) = d
  <2>1. Ends(s, at) \in SUBSET Nat /\ Ends(s, at) \in SUBSET (at .. Len(s))
    BY <1>5 DEF Ends
  <2>2. Min(Ends(s, at)) \in Ends(s, at) /\ Min(Ends(s, at)) <= d
    BY <1>14, <2>1, LeastExists
  <2>3. Min(Ends(s, at)) \in at .. Len(s) /\ m[Min(Ends(s, at))] = "out"
    BY <2>2 DEF Ends
  <2>4. Min(Ends(s, at)) \notin at .. d - 1
    BY <1>6, <1>7, <2>3
  <2> QED
    BY <1>5, <2>2, <2>3, <2>4
<1>17. (IF m[at] = "quote" THEN at + 1 ELSE at) = BeginAt(c, at)
  BY <1>6 DEF BeginAt
<1>18. ArgumentAt(s, at) = SubSeq(c, BeginAt(c, at), d - 1)
  <2>1. ArgumentAt(s, at) = SubSeq(s, BeginAt(c, at), d - 1)
    BY <1>16, <1>17, Zenon DEF ArgumentAt
  <2>2. \A r \in 1 .. Len(s) - 1 : s[r] = c[r]
    <3> SUFFICES ASSUME NEW r \in 1 .. Len(s) - 1
                 PROVE  s[r] = c[r]
      OBVIOUS
    <3>1. r \in 1 .. Len(s) /\ r # Len(s)
      BY <1>L
    <3> QED
      BY <1>1, <3>1 DEF CharOf
  <2>3. BeginAt(c, at) \in 1 .. Len(s) + 1 /\ d - 1 \in 0 .. Len(s) - 1
    BY <1>1, <1>4, <1>5, <1>6
  <2>4. SubSeq(s, BeginAt(c, at), d - 1) = SubSeq(c, BeginAt(c, at), d - 1)
    <3>1. d - 1 \in Nat /\ d - 1 <= Len(s)
      BY <1>L, <2>3
    <3>2. \A r \in BeginAt(c, at) .. d - 1 : s[r] = c[r]
      BY <1>L, <2>2, <2>3
    <3> QED
      BY <1>1, <2>3, <3>1, <3>2, SubSeqSame
  <2> QED
    BY <2>1, <2>4
<1>19. ASSUME NEW p \in From(s)
       PROVE  p < next <=> p <= at
  <2>1. p \in 1 .. Len(s)
    BY Zenon DEF From
  <2>2. m[p - 1] = "out" /\ m[p] # "out"
    BY Zenon DEF From
  <2>3. p \notin d .. next - 1
    BY <1>12, <2>2
  <2>4. p - 1 \notin at .. d - 1
    BY <1>6, <1>7, <2>2
  <2>5. d > at
    BY <1>6
  <2> QED
    BY <1>L, <1>5, <1>10, <2>1, <2>3, <2>4, <2>5
<1> QED
  BY <1>8, <1>15, <1>18, <1>19 DEF d, next

\* Where no delimiter is left, neither is an argument.
LEMMA NoArgumentLeft ==
    ASSUME NEW c, NEW s, Copies(c, s), NEW at, Between(c, s, at), DelimAt(c, at) > Len(c)
    PROVE  \A p \in From(s) : p < at
<1> DEFINE d == DelimAt(c, at)
           m == Mode(s)
           x == IF QuotedAt(c, at) THEN "quote" ELSE "word"
<1> SUFFICES ASSUME NEW p \in From(s), ~(p < at)
             PROVE  FALSE
  OBVIOUS
<1>1. Len(c) = Len(s) /\ Len(s) \in Nat
  BY DEF Copies
<1>2. at \in 1 .. Len(c) + 1
  BY Zenon DEF Between
<1>3. p \in 1 .. Len(s)
  BY Zenon DEF From
<1>4. m[p - 1] = "out" /\ m[p] # "out" /\ Ends(s, p) # {}
  BY Zenon DEF From
<1>5. at \in 1 .. Len(s) /\ p \in at .. Len(s)
  BY <1>1, <1>2, <1>3
<1>6. \A r \in at .. d - 1 : m[r] = x
  BY <1>1, <1>5, ModeWithin
<1>7. d \in BeginAt(c, at) .. Len(c) + 1 /\ BeginAt(c, at) \in at .. at + 1
  BY DelimIs
<1>8. d = Len(s) + 1
  <2>1. d > Len(c) /\ d \in Int
    BY <1>7
  <2> HIDE DEF d
  <2> QED
    BY <1>1, <1>7, <2>1
<1>9. x # "out"
  OBVIOUS
<1> HIDE DEF d, x
<1>10. PICK q \in p .. Len(s) : m[q] = "out"
  BY <1>4 DEF Ends
<1>11. q \in at .. d - 1
  BY <1>5, <1>8
<1> QED
  BY <1>6, <1>9, <1>10, <1>11

-----------------------------------------------------------------------------
(* The lines that are read *)

\* Where fgets goes on.
Here == Len(typed) - Len(stdin) + 1
Before(p) == Cardinality({q \in Begins : q < p})
EvaluatedAs(e, args) ==
    /\ e.bg = (args = << >> \/ IsBackground(args))
    /\ e.argv = IF IsBackground(args) THEN AllButLast(args) ELSE args
    /\ Len(args) < MAXARGS

ParseTypeOK ==
    /\ typed \in Seq(Char) /\ stdin \in Seq(Char)
    /\ argv \in Seq(Seq(Char)) /\ evals \in Seq([bg : BOOLEAN, argv : Seq(Seq(Char))])
    /\ pc_parse \in {"read", "parse", "overrun", "exited"}

\* What is left is the end of what was typed; fgets goes on where a line begins;
\* each line before is evaluated, or being parsed.
LinesRead ==
    /\ pc_parse # "exited" =>
        /\ Len(stdin) <= Len(typed) /\ \A r \in 1 .. Len(stdin) : stdin[r] = typed[Here + r - 1]
        /\ Here \in Begins
        /\ Before(Here) = Len(evals) + (IF pc_parse = "read" THEN 0 ELSE 1)
    /\ pc_parse = "exited" => Len(evals) = Len(Commands)

LinesEvaluated == \A k \in 1 .. Len(evals) : EvaluatedAs(evals[k], Arguments(Commands[k]))

\* argv has the arguments of the line that begin before buf.
LineParsed ==
    pc_parse = "parse" =>
        LET s == Commands[Len(evals) + 1]
        IN  /\ Copies(cmdline, s) /\ Between(cmdline, s, buf)
            /\ Len(argv) = Cardinality({p \in From(s) : p < buf})
            /\ \A k \in 1 .. Len(argv) : argv[k] = Arguments(s)[k]
            /\ Len(argv) < MAXARGS

\* The line at which argv is full.
LineOverrun ==
    pc_parse = "overrun" => Len(Arguments(Commands[Len(evals) + 1])) >= MAXARGS

ParseInv == ParseTypeOK /\ LinesRead /\ LinesEvaluated /\ LineParsed /\ LineOverrun

\* The lines that begin can be counted.
LEMMA BeginsFinite ==
    ASSUME ParseTypeOK
    PROVE  /\ Len(typed) \in Nat /\ Begins \in SUBSET (1 .. Len(typed) + 1)
           /\ IsFiniteSet(Begins) /\ Cardinality(Begins) \in Nat
           /\ \A p \in Begins : p \in Nat /\ Before(p) \in Nat
                               /\ Nth(Begins, Before(p) + 1) = p
                               /\ Before(p) + 1 <= Cardinality(Begins)
<1>1. Len(typed) \in Nat /\ Len(typed) + 1 \in Nat
  BY DEF ParseTypeOK
<1>2. Begins \in SUBSET (1 .. Len(typed) + 1)
  BY DEF Begins
<1>3. IsFiniteSet(1 .. Len(typed) + 1)
  BY <1>1, FS_Interval, 1 \in Int, Len(typed) + 1 \in Int
<1>4. IsFiniteSet(Begins) /\ Cardinality(Begins) \in Nat
  BY <1>2, <1>3, FS_Subset, FS_CardinalityType
<1>5. \A p \in Begins : /\ Before(p) \in Nat /\ Nth(Begins, Before(p) + 1) = p
                       /\ Before(p) + 1 <= Cardinality(Begins)
  BY <1>1, <1>2, NthIs DEF Before
<1>6. \A p \in Begins : p \in Nat
  BY <1>1, <1>2
<1> QED
  BY <1>1, <1>2, <1>4, <1>5, <1>6

\* The commands are the lines, but for the last one.
LEMMA CommandsLength ==
    ASSUME ParseTypeOK
    PROVE  /\ Commands = [k \in 1 .. Cardinality(Begins) - 1 |-> LineAt(Nth(Begins, k))]
           /\ Begins # {} => Len(Commands) = Cardinality(Begins) - 1
<1>1. Commands = [k \in 1 .. Cardinality(Begins) - 1 |-> LineAt(Nth(Begins, k))]
  BY DEF Commands
<1>2. ASSUME Begins # {}
      PROVE  Cardinality(Begins) - 1 \in Nat
  <2>1. PICK p \in Begins : TRUE
    BY <1>2
  <2> QED
    BY <2>1, BeginsFinite
<1>3. ASSUME Begins # {}
      PROVE  Len(Commands) = Cardinality(Begins) - 1
  <2>1. DOMAIN Commands = 1 .. Cardinality(Begins) - 1
    BY <1>1
  <2>2. Cardinality(Begins) - 1 \in Nat
    BY <1>2, <1>3
  <2>3. PICK n \in Nat : n = Cardinality(Begins) - 1
    BY <2>2
  <2>4. Commands = [k \in 1 .. n |-> LineAt(Nth(Begins, k))]
    BY <1>1, <2>3
  <2>5. Len(Commands) = n
    BY <2>4
  <2> QED
    BY <2>3, <2>5
<1> QED
  BY <1>1, <1>3

\* Two lines of which one begins right after the other.
LEMMA NextLine ==
    ASSUME ParseTypeOK, NEW p \in Begins, NEW z \in Begins, p < z, \A q \in Begins : q > p => q >= z
    PROVE  /\ LineAt(p) = SubSeq(typed, p, z - 1)
           /\ Before(z) = Before(p) + 1
           /\ Before(p) + 1 \in 1 .. Cardinality(Begins) - 1
           /\ Commands[Before(p) + 1] = LineAt(p)
<1>1. Min({q \in Begins : q > p}) = z
  <2>1. {q \in Begins : q > p} \in SUBSET Nat /\ z \in {q \in Begins : q > p}
    BY BeginsFinite
  <2>2. /\ Min({q \in Begins : q > p}) \in {q \in Begins : q > p}
        /\ Min({q \in Begins : q > p}) <= z
    BY <2>1, LeastExists
  <2>3. Min({q \in Begins : q > p}) >= z /\ Min({q \in Begins : q > p}) \in Nat /\ z \in Nat
    BY <2>1, <2>2
  <2> QED
    BY <2>2, <2>3
<1>2. LineAt(p) = SubSeq(typed, p, z - 1)
  BY <1>1 DEF LineAt
<1>3. {q \in Begins : q < z} = {q \in Begins : q <= p}
  <2>1. \A q \in Begins : q \in Nat /\ p \in Nat /\ z \in Nat
    BY BeginsFinite
  <2>2. \A q \in Begins : q < z <=> q <= p
    BY <2>1, SMT
  <2> QED
    BY <2>2, Zenon
<1>4. Before(z) = Before(p) + 1
  <2>1. Len(typed) + 1 \in Nat /\ Begins \in SUBSET (1 .. Len(typed) + 1)
    BY BeginsFinite
  <2> QED
    BY <1>3, <2>1, NthIs DEF Before
<1>5. Before(p) + 1 \in 1 .. Cardinality(Begins) - 1
  <2>1. Before(p) \in Nat /\ Before(z) + 1 <= Cardinality(Begins) /\ Cardinality(Begins) \in Nat
    BY BeginsFinite
  <2> QED
    BY <1>4, <2>1
<1>6. Commands[Before(p) + 1] = LineAt(p)
  BY <1>5, BeginsFinite, CommandsLength
<1> QED
  BY <1>2, <1>4, <1>5, <1>6

\* What fgets takes: the first newline, if there is one.
LEMMA TakenIs ==
    ASSUME ParseTypeOK
    PROVE  /\ Taken \in 1 .. Len(stdin) + 1 /\ Len(stdin) \in Nat
           /\ Taken <= Len(stdin) => stdin[Taken] = "n"
           /\ \A r \in 1 .. Len(stdin) : r < Taken => stdin[r] # "n"
<1> DEFINE S == Positions(stdin, "n", 1)
<1>1. Len(stdin) \in Nat
  BY DEF ParseTypeOK
<1>2. S \in SUBSET Nat
  BY <1>1 DEF Positions
<1>3. \A r \in 1 .. Len(stdin) : r \in S <=> stdin[r] = "n"
  BY DEF Positions
<1>4. \A r \in S : r \in 1 .. Len(stdin)
  BY DEF Positions
<1>5. Taken = FirstIn(S, Len(stdin) + 1)
  BY DEF Taken
<1> HIDE DEF S
<1>6. /\ Taken \in S \cup {Len(stdin) + 1} /\ Taken \in Nat
      /\ Taken <= Len(stdin) + 1 /\ \A p \in S : Taken <= p
  BY <1>1, <1>2, <1>5, FirstIs
<1>7. Taken \in 1 .. Len(stdin) + 1
  BY <1>1, <1>4, <1>6
<1>8. Taken <= Len(stdin) => Taken \in S
  BY <1>1, <1>6
<1>9. Taken <= Len(stdin) => stdin[Taken] = "n"
  BY <1>3, <1>4, <1>8, Zenon
<1>10. \A r \in 1 .. Len(stdin) : r < Taken => r \notin S
  BY <1>1, <1>6
<1>11. \A r \in 1 .. Len(stdin) : r < Taken => stdin[r] # "n"
  BY <1>3, <1>10, Zenon
<1> QED
  BY <1>1, <1>7, <1>9, <1>11

\* The loop of main begins with all that is typed in front of it.
LEMMA ParseStart ==
    ASSUME ParseInit
    PROVE  ParseInv
<1>1. /\ typed \in Seq(Char) /\ stdin = typed /\ argv = << >> /\ evals = << >> /\ pc_parse = "read"
      /\ Len(typed) \in Nat
  BY ParseConstants DEF ParseInit
<1>2. ParseTypeOK
  BY <1>1 DEF ParseTypeOK
<1>3. Here = 1
  BY <1>1 DEF Here
<1>4. 1 \in Begins
  <2>1. LastBreak(1) = 1 /\ 1 \in 1 .. Len(typed) + 1
    <3>1. 1 \in 1 .. Len(typed) + 1
      BY <1>1
    <3>2. LastBreak(1) \in 1 .. 1
      BY <1>1, <3>1, LastBreakIs
    <3> QED
      BY <3>1, <3>2
  <2>2. MAXLINE - 1 \in Nat \ {0}
    BY ParseConstants
  <2>3. 0 % (MAXLINE - 1) = 0
    <3>1. \A w \in Nat \ {0} : 0 % w = 0
      BY SMT
    <3> QED
      BY <2>2, <3>1, Zenon
  <2>4. 1 - LastBreak(1) = 0
    BY <2>1
  <2> QED
    BY <2>1, <2>3, <2>4, BeginsAre
<1>5. Before(1) = 0
  <2>1. {q \in Begins : q < 1} = {}
    <3>1. \A q \in Begins : q \in 1 .. Len(typed) + 1
      BY DEF Begins
    <3> QED
      BY <1>1, <3>1
  <2> QED
    BY <2>1, FS_EmptySet DEF Before
<1>6. \A r \in 1 .. Len(stdin) : stdin[r] = typed[Here + r - 1]
  BY <1>1, <1>3
<1>7. LinesRead
  BY <1>1, <1>3, <1>4, <1>5, <1>6 DEF LinesRead
<1> QED
  BY <1>1, <1>2, <1>7 DEF ParseInv, LinesEvaluated, LineParsed, LineOverrun

\* What fgets takes is a line.
LEMMA FgetsTakes ==
    ASSUME ParseTypeOK, Len(stdin) <= Len(typed), Here \in Begins,
           \A r \in 1 .. Len(stdin) : stdin[r] = typed[Here + r - 1],
           ~AtEOF, NEW n, n = IF Taken > MAXLINE - 1 THEN MAXLINE - 1 ELSE Taken
    PROVE  /\ n \in 1 .. Len(stdin) /\ Here + n \in Begins
           /\ \A q \in Begins : q > Here => q >= Here + n
<1>1. /\ Taken \in 1 .. Len(stdin) + 1 /\ Len(stdin) \in Nat /\ Len(typed) \in Nat
      /\ MAXLINE - 1 \in Nat \ {0}
  BY TakenIs, BeginsFinite, ParseConstants
<1>2. Taken <= Len(stdin) \/ Len(stdin) >= MAXLINE - 1
  BY <1>1 DEF AtEOF
<1>3. n \in 1 .. Len(stdin) /\ n \in 1 .. MAXLINE - 1 /\ n <= Taken /\ (n = MAXLINE - 1 \/ n = Taken)
  <2>0. PICK w \in Nat \ {0} : w = MAXLINE - 1
    BY <1>1
  <2>1. CASE Taken > MAXLINE - 1
    <3>1. n = w /\ Taken > w
      BY <2>0, <2>1
    <3>2. n \in 1 .. Len(stdin) /\ n \in 1 .. w /\ n <= Taken
      BY <1>1, <3>1
    <3> QED
      BY <2>0, <3>1, <3>2
  <2>2. CASE ~(Taken > MAXLINE - 1)
    <3>1. n = Taken
      BY <2>2
    <3> QED
      BY <1>1, <1>2, <2>2, <3>1
  <2> QED
    BY <2>1, <2>2
<1>4. Here \in Nat /\ Here = Len(typed) - Len(stdin) + 1
  BY <1>1 DEF Here
<1>5. Here + n <= Len(typed) + 1
  BY <1>1, <1>3, <1>4
<1>6. \A r \in Here .. Here + n - 2 : typed[r] # "n"
  <2> SUFFICES ASSUME NEW r \in Here .. Here + n - 2
               PROVE  typed[r] # "n"
    OBVIOUS
  <2>1. /\ r - Here + 1 \in 1 .. Len(stdin) /\ r - Here + 1 < Taken
        /\ Here + (r - Here + 1) - 1 = r
    BY <1>1, <1>3, <1>4
  <2>2. stdin[r - Here + 1] # "n"
    BY <2>1, TakenIs
  <2>3. stdin[r - Here + 1] = typed[Here + (r - Here + 1) - 1]
    BY <2>1
  <2> QED
    BY <2>1, <2>2, <2>3
<1>7. typed[Here + n - 1] = "n" \/ n = MAXLINE - 1
  <2>1. typed[Here + n - 1] = stdin[n]
    BY <1>3
  <2>2. n = Taken => stdin[n] = "n"
    BY <1>1, <1>3, TakenIs
  <2> QED
    BY <1>3, <2>1, <2>2
<1>8. typed \in Seq(Char)
  BY DEF ParseTypeOK
<1> QED
  BY <1>3, <1>5, <1>6, <1>7, <1>8, NextBegins

\* One call of fgets reads the next line, whole.
LEMMA ReadLineKeeps ==
    ASSUME ParseInv, ReadLine
    PROVE  ParseInv'
<1> DEFINE n == IF Taken > MAXLINE - 1 THEN MAXLINE - 1 ELSE Taken
           input == SubSeq(stdin, 1, n)
           z == Here + n
           k == Len(evals) + 1
<1>1. /\ pc_parse = "read" /\ ~AtEOF /\ pc_parse' = "parse" /\ typed' = typed /\ evals' = evals
      /\ cmdline' = [input EXCEPT ![n] = " "] /\ argv' = << >>
      /\ stdin' = SubSeq(stdin, n + 1, Len(stdin)) /\ buf' = AfterSpaces(cmdline', 1)
  BY DEF ReadLine
<1>2. ParseTypeOK /\ typed \in Seq(Char) /\ stdin \in Seq(Char)
  BY DEF ParseInv, ParseTypeOK
<1>3. /\ Len(stdin) <= Len(typed) /\ Here \in Begins /\ Before(Here) = Len(evals)
      /\ \A r \in 1 .. Len(stdin) : stdin[r] = typed[Here + r - 1]
  <2>1. Len(evals) + 0 = Len(evals)
    BY DEF ParseInv, ParseTypeOK
  <2> QED
    BY <1>1, <2>1 DEF ParseInv, LinesRead
<1>4. /\ n \in 1 .. Len(stdin) /\ z \in Begins /\ \A q \in Begins : q > Here => q >= z
  BY <1>1, <1>2, <1>3, FgetsTakes, Zenon
<1>5. Len(typed) \in Nat /\ Len(stdin) \in Nat /\ Here = Len(typed) - Len(stdin) + 1 /\ Here \in Nat
  BY <1>2, <1>3, BeginsFinite DEF Here
<1> HIDE DEF n
<1>6. /\ LineAt(Here) = SubSeq(typed, Here, z - 1) /\ Before(z) = k
      /\ Commands[k] = LineAt(Here)
  <2>1. Here < z
    BY <1>4, <1>5
  <2> QED
    BY <1>2, <1>3, <1>4, <2>1, NextLine
<1>7. /\ input \in Seq(Char) /\ Len(input) = n /\ \A r \in 1 .. n : input[r] = stdin[r]
  <2>1. 1 \in Int /\ n \in Int /\ \A r \in 1 .. n : r \in 1 .. Len(stdin)
    BY <1>4, <1>5
  <2>2. \A r \in 1 .. n : stdin[r] \in Char
    BY <1>2, <2>1
  <2>3. /\ input \in Seq(Char) /\ Len(input) = IF 1 <= n THEN n - 1 + 1 ELSE 0
        /\ \A r \in 1 .. n - 1 + 1 : input[r] = stdin[1 + r - 1]
    BY <2>1, <2>2, SubSeqProperties
  <2>4. n - 1 + 1 = n /\ 1 <= n /\ \A r \in 1 .. n : 1 + r - 1 = r
    BY <1>4, <1>5
  <2> QED
    BY <2>3, <2>4
<1>8. /\ LineAt(Here) \in Seq(Char) /\ Len(LineAt(Here)) = n
      /\ \A r \in 1 .. n : LineAt(Here)[r] = stdin[r]
  <2>1. Here \in Int /\ z - 1 \in Int /\ Here <= z - 1 /\ ((z - 1) - Here) + 1 = n
        /\ \A r \in Here .. z - 1 : r \in 1 .. Len(typed)
    <3>1. Len(stdin) <= Len(typed) /\ n \in Nat /\ n >= 1 /\ n <= Len(stdin)
      BY <1>3, <1>4, <1>5
    <3>2. z = Here + n
      OBVIOUS
    <3> HIDE DEF z
    <3> QED
      BY <1>5, <3>1, <3>2
  <2>2. \A r \in Here .. z - 1 : typed[r] \in Char
    BY <1>2, <2>1
  <2>3. /\ LineAt(Here) \in Seq(Char)
        /\ Len(LineAt(Here)) = IF Here <= z - 1 THEN ((z - 1) - Here) + 1 ELSE 0
        /\ \A r \in 1 .. ((z - 1) - Here) + 1 : LineAt(Here)[r] = typed[Here + r - 1]
    BY <1>6, <2>1, <2>2, SubSeqProperties
  <2>4. \A r \in 1 .. n : LineAt(Here)[r] = typed[Here + r - 1]
    BY <2>1, <2>3
  <2>5. \A r \in 1 .. n : r \in 1 .. Len(stdin)
    BY <1>4, <1>5
  <2>6. \A r \in 1 .. n : LineAt(Here)[r] = stdin[r]
    BY <1>3, <2>4, <2>5, Zenon
  <2> QED
    BY <2>1, <2>3, <2>6
<1>9. Copies(cmdline', Commands[k])
  <2>1. /\ cmdline' \in Seq(Char) /\ Len(cmdline') = n
        /\ \A r \in 1 .. n : cmdline'[r] = IF r = n THEN " " ELSE stdin[r]
    <3>1. " " \in Char
      BY DEF Char
    <3> HIDE DEF input
    <3>2. PICK l \in Seq(Char) : l = input
      BY <1>7
    <3>3. Len(l) = n /\ (\A r \in 1 .. n : l[r] = stdin[r]) /\ cmdline' = [l EXCEPT ![n] = " "]
      BY <1>1, <1>7, <3>2
    <3>4. n \in Nat /\ n \in 1 .. n
      BY <1>4, <1>5
    <3>5. l \in [1 .. n -> Char]
      <4>1. l \in [1 .. Len(l) -> Char]
        BY <3>2
      <4> QED
        BY <3>3, <4>1, Zenon
    <3>6. cmdline' \in [1 .. n -> Char]
      BY <3>1, <3>3, <3>5
    <3>7. cmdline' \in Seq(Char) /\ Len(cmdline') = n
      BY <3>4, <3>6
    <3> QED
      BY <3>3, <3>4, <3>5, <3>7
  <2> QED
    BY <1>6, <1>8, <2>1 DEF Copies, CharOf
<1>10. typed' = typed /\ Begins' = Begins /\ Commands' = Commands
  BY <1>1 DEF Begins, AfterNewlines, Commands, LineAt
<1>11. Between(cmdline', Commands[k], buf') /\ {p \in From(Commands[k]) : p < buf'} = {}
  <2>1. Mode(Commands[k])[0] = "out" /\ 0 \in 0 .. Len(cmdline')
    BY <1>9, ModeIs DEF Copies
  <2>2. /\ Between(cmdline', Commands[k], buf') /\ buf' \in 1 .. Len(cmdline') + 1
        /\ \A r \in 0 .. buf' - 1 : Mode(Commands[k])[r] = "out"
    <3>1. 0 + 1 = 1
      OBVIOUS
    <3>2. /\ Between(cmdline', Commands[k], AfterSpaces(cmdline', 0 + 1))
          /\ AfterSpaces(cmdline', 0 + 1) \in 0 + 1 .. Len(cmdline') + 1
          /\ \A r \in 0 .. AfterSpaces(cmdline', 0 + 1) - 1 : Mode(Commands[k])[r] = "out"
      BY <1>9, <2>1, SpacesSkipped, Zenon
    <3> QED
      BY <1>1, <3>1, <3>2, Zenon
  <2>3. Len(cmdline') \in Nat
    BY <1>9 DEF Copies
  <2>4. buf' \in Nat
    BY <2>2, <2>3
  <2>5. ASSUME NEW p \in From(Commands[k]), p < buf'
        PROVE  FALSE
    <3>1. Len(Commands[k]) \in Nat
      BY <1>9 DEF Copies
    <3>2. p \in 1 .. Len(Commands[k]) /\ Mode(Commands[k])[p] # "out"
      BY Zenon DEF From
    <3>3. p \in 0 .. buf' - 1
      <4>1. p \in Nat
        BY <3>1, <3>2
      <4>2. PICK x \in Nat : x = buf'
        BY <2>4
      <4>3. p < x
        BY <2>5, <4>2
      <4>4. p \in 0 .. x - 1
        BY <4>1, <4>3
      <4> QED
        BY <4>2, <4>4
    <3> QED
      BY <2>2, <3>2, <3>3
  <2> QED
    BY <2>2, <2>5
<1>12. LineParsed'
  <2>0. argv' = << >>
    BY <1>1
  <2>1. Len(argv') = 0 /\ 1 .. Len(argv') = {} /\ Len(argv') < MAXARGS
    BY <2>0, ParseConstants
  <2>2. Len(argv') = Cardinality({p \in From(Commands[k]) : p < buf'})
    BY <1>11, <2>1, FS_EmptySet
  <2> QED
    BY <1>1, <1>9, <1>10, <1>11, <2>1, <2>2 DEF LineParsed
<1>13. /\ stdin' \in Seq(Char) /\ Len(stdin') = Len(stdin) - n
       /\ \A r \in 1 .. Len(stdin') : stdin'[r] = stdin[n + r]
  <2>1. n + 1 \in Int /\ Len(stdin) \in Int /\ \A r \in n + 1 .. Len(stdin) : r \in 1 .. Len(stdin)
    BY <1>4, <1>5
  <2>2. \A r \in n + 1 .. Len(stdin) : stdin[r] \in Char
    BY <1>2, <2>1
  <2>3. /\ stdin' \in Seq(Char)
        /\ Len(stdin') = IF n + 1 <= Len(stdin) THEN (Len(stdin) - (n + 1)) + 1 ELSE 0
        /\ \A r \in 1 .. (Len(stdin) - (n + 1)) + 1 : stdin'[r] = stdin[(n + 1) + (r - 1)]
    <3>1. PICK m \in Int : m = n + 1
      BY <2>1
    <3>2. \A r \in m .. Len(stdin) : stdin[r] \in Char
      BY <2>2, <3>1
    <3>3. /\ SubSeq(stdin, m, Len(stdin)) \in Seq(Char)
          /\ Len(SubSeq(stdin, m, Len(stdin))) =
                IF m <= Len(stdin) THEN (Len(stdin) - m) + 1 ELSE 0
          /\ \A r \in 1 .. (Len(stdin) - m) + 1 :
                SubSeq(stdin, m, Len(stdin))[r] = stdin[m + (r - 1)]
      <4> HIDE <1>1
      <4> QED
        BY <2>1, <3>2, SubSeqProperties
    <3>4. stdin' = SubSeq(stdin, m, Len(stdin))
      BY <1>1, <3>1
    <3> QED
      BY <3>1, <3>3, <3>4, Zenon
  <2>4. Len(stdin') = Len(stdin) - n /\ (Len(stdin) - (n + 1)) + 1 = Len(stdin) - n
    BY <1>4, <1>5, <2>3
  <2>5. \A r \in 1 .. Len(stdin) - n : (n + 1) + (r - 1) = n + r
    BY <1>4, <1>5
  <2> QED
    BY <2>3, <2>4, <2>5
<1>14. Here' = z
  <2>1. Here' = Len(typed) - Len(stdin') + 1
    BY <1>1 DEF Here
  <2>2. Len(stdin') = Len(stdin) - n
    BY <1>13
  <2> QED
    BY <1>4, <1>5, <2>1, <2>2
<1>15. LinesRead'
  <2>1. Len(stdin') <= Len(typed)
    BY <1>3, <1>4, <1>5, <1>13
  <2>2. \A r \in 1 .. Len(stdin') : stdin'[r] = typed[z + r - 1]
    <3> SUFFICES ASSUME NEW r \in 1 .. Len(stdin')
                 PROVE  stdin'[r] = typed[z + r - 1]
      OBVIOUS
    <3>1. n + r \in 1 .. Len(stdin) /\ Here + (n + r) - 1 = z + r - 1
      BY <1>4, <1>5, <1>13
    <3> QED
      BY <1>3, <1>13, <3>1
  <2>3. Before(Here)' = Before(z)
    BY <1>10, <1>14, Zenon DEF Before
  <2> QED
    BY <1>1, <1>4, <1>6, <1>10, <1>14, <2>1, <2>2, <2>3 DEF LinesRead
<1>16. ParseTypeOK'
  <2>1. << >> \in Seq(Seq(Char))
    OBVIOUS
  <2> QED
    BY <1>1, <1>2, <1>13, <2>1, Zenon DEF ParseTypeOK
<1>17. LinesEvaluated'
  BY <1>1, <1>10 DEF ParseInv, LinesEvaluated
<1> QED
  BY <1>1, <1>12, <1>15, <1>16, <1>17 DEF ParseInv, LineOverrun

\* The rest is the last line, and not a whole one.
LEMMA EndOfInputKeeps ==
    ASSUME ParseInv, EndOfInput
    PROVE  ParseInv'
<1>1. /\ pc_parse = "read" /\ AtEOF /\ pc_parse' = "exited" /\ typed' = typed /\ evals' = evals
      /\ argv' = argv /\ stdin' = << >>
  BY DEF EndOfInput
<1>2. ParseTypeOK /\ typed \in Seq(Char)
  BY DEF ParseInv, ParseTypeOK
<1>3. /\ Len(stdin) <= Len(typed) /\ Here \in Begins /\ Before(Here) = Len(evals)
      /\ \A r \in 1 .. Len(stdin) : stdin[r] = typed[Here + r - 1]
  <2>1. Len(evals) + 0 = Len(evals)
    BY DEF ParseInv, ParseTypeOK
  <2> QED
    BY <1>1, <2>1 DEF ParseInv, LinesRead
<1>4. /\ Len(typed) \in Nat /\ Len(stdin) \in Nat /\ Taken > Len(stdin)
      /\ Taken \in 1 .. Len(stdin) + 1 /\ Len(stdin) < MAXLINE - 1
  BY <1>1, <1>2, TakenIs, BeginsFinite DEF AtEOF
<1>5. Here = Len(typed) - Len(stdin) + 1 /\ Here \in Nat /\ Here + Len(stdin) = Len(typed) + 1
  BY <1>3, <1>4 DEF Here
<1>6. \A r \in Here .. Here + Len(stdin) - 1 : typed[r] # "n"
  <2> SUFFICES ASSUME NEW r \in Here .. Here + Len(stdin) - 1
               PROVE  typed[r] # "n"
    OBVIOUS
  <2>1. /\ (r - Here) + 1 \in 1 .. Len(stdin) /\ (r - Here) + 1 < Taken
        /\ Here + ((r - Here) + 1) - 1 = r
    BY <1>4, <1>5
  <2>2. stdin[(r - Here) + 1] # "n"
    BY <1>2, <2>1, TakenIs
  <2>3. stdin[(r - Here) + 1] = typed[Here + ((r - Here) + 1) - 1]
    BY <1>3, <2>1
  <2> QED
    BY <2>1, <2>2, <2>3
<1>7. \A q \in Begins : q <= Here
  <2>1. Here + Len(stdin) <= Len(typed) + 1
    BY <1>4, <1>5
  <2>2. \A q \in Begins : q > Here => q > Here + Len(stdin)
    BY <1>2, <1>3, <1>4, <1>6, <2>1, NoneBegins
  <2>3. \A q \in Begins : q \in Nat /\ q <= Len(typed) + 1
    BY <1>4 DEF Begins
  <2> QED
    BY <1>4, <1>5, <2>2, <2>3
<1>8. Cardinality(Begins) = Before(Here) + 1
  <2>1. {q \in Begins : q <= Here} = Begins
    BY <1>7
  <2>2. Len(typed) + 1 \in Nat /\ Begins \in SUBSET (1 .. Len(typed) + 1)
    BY <1>2, BeginsFinite
  <2>3. Cardinality({q \in Begins : q <= Here}) = Cardinality({q \in Begins : q < Here}) + 1
    BY <1>3, <2>2, NthIs
  <2> QED
    BY <2>1, <2>3 DEF Before
<1>9. Len(evals) = Len(Commands)
  <2>1. Len(Commands) = Cardinality(Begins) - 1
    BY <1>2, <1>3, CommandsLength
  <2>2. Before(Here) \in Nat
    BY <1>2, <1>3, BeginsFinite
  <2> QED
    BY <1>3, <1>8, <2>1, <2>2
<1>10. Commands' = Commands
  BY <1>1 DEF Begins, AfterNewlines, Commands, LineAt
<1>11. LinesRead'
  BY <1>1, <1>9, <1>10 DEF LinesRead
<1>12. ParseTypeOK'
  <2>1. << >> \in Seq(Char)
    OBVIOUS
  <2> QED
    BY <1>1, <1>2, <2>1, Zenon DEF ParseTypeOK
<1>13. LinesEvaluated'
  BY <1>1, <1>10 DEF ParseInv, LinesEvaluated
<1>14. LineParsed' /\ LineOverrun'
  BY <1>1 DEF LineParsed, LineOverrun
<1> QED
  BY <1>11, <1>12, <1>13, <1>14 DEF ParseInv

\* In front of a position of From are as many arguments as Arguments has there.
LEMMA ArgumentIs ==
    ASSUME NEW s \in Seq(Char), NEW p \in From(s)
    PROVE  /\ Cardinality({q \in From(s) : q <= p}) = Cardinality({q \in From(s) : q < p}) + 1
           /\ Arguments(s)[Cardinality({q \in From(s) : q < p}) + 1] = ArgumentAt(s, p)
           /\ Cardinality({q \in From(s) : q <= p}) <= Len(Arguments(s))
<1> DEFINE k == Cardinality({q \in From(s) : q < p}) + 1
<1>1. Len(s) \in Nat /\ From(s) \in SUBSET (1 .. Len(s))
  <2>1. From(s) \in SUBSET (1 .. Len(s))
    BY Zenon DEF From
  <2> QED
    BY <2>1
<1>2. /\ Nth(From(s), k) = p /\ k <= Cardinality(From(s))
      /\ Cardinality({q \in From(s) : q < p}) \in Nat /\ Cardinality(From(s)) \in Nat
      /\ Cardinality({q \in From(s) : q <= p}) = k
  BY <1>1, NthIs, Zenon
<1>n. k \in Nat /\ k >= 1
  <2>1. Cardinality({q \in From(s) : q < p}) \in Nat
    BY <1>2
  <2> QED
    BY <2>1
<1> HIDE DEF k
<1>3. k \in 1 .. Cardinality(From(s))
  BY <1>2, <1>n
<1>4. Arguments(s)[k] = ArgumentAt(s, p)
  BY <1>2, <1>3, Zenon DEF Arguments
<1>5. Len(Arguments(s)) = Cardinality(From(s))
  <2>1. PICK c \in Nat : c = Cardinality(From(s))
    BY <1>2
  <2>2. Arguments(s) = [r \in 1 .. c |-> ArgumentAt(s, Nth(From(s), r))]
    BY <2>1, Zenon DEF Arguments
  <2> QED
    BY <2>1, <2>2
<1> QED
  BY <1>2, <1>4, <1>5 DEF k

\* The arguments found so far are those that begin before buf.
LEMMA TakeArgKeeps ==
    ASSUME ParseInv, TakeArg
    PROVE  ParseInv'
<1> DEFINE s == Commands[Len(evals) + 1]
           arg == SubSeq(cmdline, Begin, Delim - 1)
<1>1. /\ pc_parse = "parse" /\ pc_parse' \in {"parse", "overrun"} /\ typed' = typed
      /\ evals' = evals /\ stdin' = stdin /\ cmdline' = cmdline /\ Delim <= Len(cmdline)
      /\ argv' = Append(argv, arg) /\ buf' = AfterSpaces(cmdline, Delim + 1)
      /\ pc_parse' = "overrun" <=> Len(argv') = MAXARGS
  BY DEF TakeArg
<1>2. ParseTypeOK /\ LinesRead /\ LinesEvaluated
  BY DEF ParseInv
<1>3. /\ Copies(cmdline, s) /\ Between(cmdline, s, buf)
      /\ Len(argv) = Cardinality({p \in From(s) : p < buf})
      /\ \A k \in 1 .. Len(argv) : argv[k] = Arguments(s)[k]
      /\ Len(argv) < MAXARGS
  BY <1>1 DEF ParseInv, LineParsed
<1>4. Delim = DelimAt(cmdline, buf) /\ Begin = BeginAt(cmdline, buf)
  BY DEF Delim, DelimAt, Begin, BeginAt, Quoted, QuotedAt
<1> HIDE DEF s
<1>5. /\ buf \in From(s) /\ Between(cmdline, s, buf') /\ ArgumentAt(s, buf) = arg
      /\ \A p \in From(s) : p < buf' <=> p <= buf
  BY <1>1, <1>3, <1>4, TakesArgument
<1>6. /\ Delim \in Begin .. Len(cmdline) + 1 /\ Begin \in buf .. buf + 1
      /\ buf \in 1 .. Len(cmdline) + 1 /\ Len(cmdline) \in Nat /\ cmdline \in Seq(Char)
  <2>1. buf \in 1 .. Len(cmdline) + 1
    BY <1>3, Zenon DEF Between
  <2>2. Delim \in Begin .. Len(cmdline) + 1 /\ Begin \in buf .. buf + 1
    BY <1>3, <1>4, DelimIs
  <2>3. Len(cmdline) \in Nat /\ cmdline \in Seq(Char)
    BY <1>3 DEF Copies
  <2> QED
    BY <2>1, <2>2, <2>3
<1>7. arg \in Seq(Char)
  <2>1. Begin \in Int /\ Delim - 1 \in Int /\ \A r \in Begin .. Delim - 1 : r \in 1 .. Len(cmdline)
    BY <1>6
  <2>2. \A r \in Begin .. Delim - 1 : cmdline[r] \in Char
    BY <1>6, <2>1
  <2> QED
    BY <2>1, <2>2, SubSeqProperties
<1>8. argv \in Seq(Seq(Char)) /\ Len(argv) \in Nat
  BY <1>2 DEF ParseTypeOK
<1> HIDE DEF arg
<1>9. /\ argv' \in Seq(Seq(Char)) /\ Len(argv') = Len(argv) + 1
      /\ argv'[Len(argv) + 1] = arg /\ \A k \in 1 .. Len(argv) : argv'[k] = argv[k]
  BY <1>1, <1>7, <1>8, AppendProperties
<1>10. s \in Seq(Char)
  BY <1>3 DEF Copies
<1>11. /\ Len(argv') = Cardinality({p \in From(s) : p < buf'})
       /\ \A k \in 1 .. Len(argv') : argv'[k] = Arguments(s)[k]
       /\ Len(argv') <= Len(Arguments(s))
  <2>1. {p \in From(s) : p < buf'} = {p \in From(s) : p <= buf}
    BY <1>5
  <2>2. /\ Cardinality({p \in From(s) : p <= buf}) = Len(argv) + 1
        /\ Cardinality({p \in From(s) : p <= buf}) <= Len(Arguments(s))
        /\ Arguments(s)[Len(argv) + 1] = arg
    BY <1>3, <1>5, <1>10, ArgumentIs
  <2>3. \A k \in 1 .. Len(argv') : k \in 1 .. Len(argv) \/ k = Len(argv) + 1
    BY <1>8, <1>9
  <2> QED
    BY <1>3, <1>9, <2>1, <2>2, <2>3, Zenon
<1>12. typed' = typed /\ Begins' = Begins /\ Commands' = Commands
  BY <1>1 DEF Begins, AfterNewlines, Commands, LineAt
<1>13. LineParsed' /\ LineOverrun'
  <2>1. /\ Len(argv') \in Nat /\ Len(argv') <= MAXARGS /\ MAXARGS \in Nat
        /\ pc_parse' = "parse" => Len(argv') < MAXARGS
    BY <1>1, <1>3, <1>8, <1>9, ParseConstants
  <2>2. LineParsed'
    <3>1. pc_parse' = "parse" => Len(argv') < MAXARGS
      BY <2>1
    <3>2. Copies(cmdline', s) /\ Between(cmdline', s, buf')
      BY <1>1, <1>3, <1>5
    <3>3. /\ Len(argv') = Cardinality({p \in From(s) : p < buf'})
          /\ \A k \in 1 .. Len(argv') : argv'[k] = Arguments(s)[k]
      BY <1>11
    <3>4. Commands'[Len(evals') + 1] = s
      BY <1>1, <1>12 DEF s
    <3> QED
      BY <3>1, <3>2, <3>3, <3>4, Zenon DEF LineParsed
  <2>3. pc_parse' = "overrun" => Len(Arguments(s)) >= MAXARGS
    <3>1. pc_parse' = "overrun" => MAXARGS <= Len(Arguments(s))
      BY <1>1, <1>11
    <3> QED
      BY <3>1
  <2>4. LineOverrun'
    BY <1>1, <1>12, <2>3, Zenon DEF LineOverrun, s
  <2> QED
    BY <2>2, <2>4
<1>14. LinesRead'
  <2>1. Here' = Here /\ Before(Here)' = Before(Here)
    BY <1>1, <1>12 DEF Here, Before
  <2> QED
    BY <1>1, <1>2, <1>12, <2>1 DEF LinesRead
<1>15. ParseTypeOK'
  BY <1>1, <1>2, <1>9 DEF ParseTypeOK
<1>16. LinesEvaluated'
  BY <1>1, <1>2, <1>12 DEF LinesEvaluated
<1> QED
  BY <1>13, <1>14, <1>15, <1>16 DEF ParseInv

\* When parseline is done, it has all arguments of the line.
LEMMA ShowCommandKeeps ==
    ASSUME ParseInv, ShowCommand
    PROVE  ParseInv'
<1> DEFINE s == Commands[Len(evals) + 1]
           e == [bg |-> argv = << >> \/ IsBackground(argv),
                 argv |-> IF IsBackground(argv) THEN AllButLast(argv) ELSE argv]
<1>1. /\ pc_parse = "parse" /\ pc_parse' = "read" /\ typed' = typed /\ stdin' = stdin
      /\ cmdline' = cmdline /\ argv' = argv /\ Delim > Len(cmdline)
      /\ evals' = Append(evals, e)
  BY DEF ShowCommand, IsBackground
<1>2. ParseTypeOK /\ LinesRead /\ LinesEvaluated
  BY DEF ParseInv
<1>3. /\ Copies(cmdline, s) /\ Between(cmdline, s, buf)
      /\ Len(argv) = Cardinality({p \in From(s) : p < buf})
      /\ \A k \in 1 .. Len(argv) : argv[k] = Arguments(s)[k]
      /\ Len(argv) < MAXARGS
  BY <1>1 DEF ParseInv, LineParsed
<1>4. Delim = DelimAt(cmdline, buf)
  BY DEF Delim, DelimAt, Begin, BeginAt, Quoted, QuotedAt
<1> HIDE DEF s
<1>5. argv \in Seq(Seq(Char)) /\ Len(argv) \in Nat /\ evals \in Seq([bg : BOOLEAN, argv : Seq(Seq(Char))])
  BY <1>2 DEF ParseTypeOK
<1>6. argv = Arguments(s)
  <2>1. {p \in From(s) : p < buf} = From(s)
    BY <1>1, <1>3, <1>4, NoArgumentLeft
  <2>2. Len(argv) = Cardinality(From(s))
    BY <1>3, <2>1
  <2>3. argv = [k \in 1 .. Len(argv) |-> argv[k]]
    BY <1>5
  <2>4. Arguments(s) = [k \in 1 .. Len(argv) |-> Arguments(s)[k]]
    BY <2>2, Zenon DEF Arguments
  <2> QED
    BY <1>3, <2>3, <2>4, Zenon
<1>7. e \in [bg : BOOLEAN, argv : Seq(Seq(Char))]
  <2>1. ASSUME IsBackground(argv)
        PROVE  AllButLast(argv) \in Seq(Seq(Char))
    <3>1. 1 \in Int /\ Len(argv) - 1 \in Int /\ \A r \in 1 .. Len(argv) - 1 : r \in 1 .. Len(argv)
      BY <1>5
    <3>2. \A r \in 1 .. Len(argv) - 1 : argv[r] \in Seq(Char)
      BY <1>5, <3>1
    <3> QED
      BY <3>1, <3>2, SubSeqProperties DEF AllButLast
  <2>2. (argv = << >> \/ IsBackground(argv)) \in BOOLEAN
    OBVIOUS
  <2> QED
    BY <1>5, <2>1, <2>2
<1>8. EvaluatedAs(e, Arguments(s))
  BY <1>3, <1>6 DEF EvaluatedAs
<1> HIDE DEF e
<1>9. /\ evals' \in Seq([bg : BOOLEAN, argv : Seq(Seq(Char))]) /\ Len(evals') = Len(evals) + 1
      /\ evals'[Len(evals) + 1] = e /\ \A k \in 1 .. Len(evals) : evals'[k] = evals[k]
      /\ Len(evals) \in Nat
  BY <1>1, <1>5, <1>7, AppendProperties
<1>10. typed' = typed /\ Begins' = Begins /\ Commands' = Commands
  BY <1>1 DEF Begins, AfterNewlines, Commands, LineAt
<1>11. LinesEvaluated'
  <2>1. \A k \in 1 .. Len(evals') : k \in 1 .. Len(evals) \/ k = Len(evals) + 1
    BY <1>9
  <2> QED
    BY <1>2, <1>8, <1>9, <1>10, <2>1, Zenon DEF LinesEvaluated, s
<1>12. LinesRead'
  <2>1. Here' = Here /\ Before(Here)' = Before(Here)
    BY <1>1, <1>10 DEF Here, Before
  <2>2. Len(evals') + 0 = Len(evals) + 1
    BY <1>9
  <2> QED
    BY <1>1, <1>2, <1>10, <2>1, <2>2 DEF LinesRead
<1>13. ParseTypeOK'
  BY <1>1, <1>2, <1>9 DEF ParseTypeOK
<1>14. LineParsed' /\ LineOverrun'
  BY <1>1 DEF LineParsed, LineOverrun
<1> QED
  BY <1>11, <1>12, <1>13, <1>14 DEF ParseInv

\* tsh.c: each complete line is evaluated once, in order, with its arguments,
\* up to the first line that fills argv.
THEOREM CommandsRead == ParseSpec => []CommandsAsTyped
<1>1. ASSUME ParseInv, [ParseNext]_parsevars
      PROVE  ParseInv'
  <2>1. CASE ReadLine
    BY <1>1, <2>1, ReadLineKeeps
  <2>2. CASE EndOfInput
    BY <1>1, <2>2, EndOfInputKeeps
  <2>3. CASE TakeArg
    BY <1>1, <2>3, TakeArgKeeps
  <2>4. CASE ShowCommand
    BY <1>1, <2>4, ShowCommandKeeps
  <2>5. CASE UNCHANGED parsevars
    <3>1. /\ stdin' = stdin /\ typed' = typed /\ cmdline' = cmdline /\ buf' = buf /\ argv' = argv
          /\ evals' = evals /\ pc_parse' = pc_parse
      BY <2>5 DEF parsevars
    <3>2. typed' = typed /\ Begins' = Begins /\ Commands' = Commands
      BY <3>1 DEF Begins, AfterNewlines, Commands, LineAt
    <3>3. Here' = Here /\ Before(Here)' = Before(Here)
      BY <3>1, <3>2 DEF Here, Before
    <3>4. ParseTypeOK'
      BY <1>1, <3>1 DEF ParseInv, ParseTypeOK
    <3>5. LinesRead'
      BY <1>1, <3>1, <3>2, <3>3 DEF ParseInv, LinesRead
    <3>6. LinesEvaluated'
      BY <1>1, <3>1, <3>2 DEF ParseInv, LinesEvaluated
    <3>7. LineParsed' /\ LineOverrun'
      BY <1>1, <3>1, <3>2 DEF ParseInv, LineParsed, LineOverrun
    <3> QED
      BY <3>4, <3>5, <3>6, <3>7 DEF ParseInv
  <2> QED
    BY <1>1, <2>1, <2>2, <2>3, <2>4, <2>5 DEF ParseNext
<1>2. ASSUME ParseInv
      PROVE  CommandsAsTyped
  <2>1. ParseTypeOK /\ LinesRead /\ LinesEvaluated
    BY <1>2 DEF ParseInv
  <2>2. evals \in Seq([bg : BOOLEAN, argv : Seq(Seq(Char))]) /\ Len(evals) \in Nat
    BY <2>1 DEF ParseTypeOK
  <2>3. DOMAIN evals = 1 .. Len(evals)
    BY <2>2
  <2>4. pc_parse # "exited" => Len(evals) <= Len(Commands)
    <3> SUFFICES ASSUME pc_parse # "exited"
                 PROVE  Len(evals) <= Len(Commands)
      OBVIOUS
    <3>1. Here \in Begins /\ Before(Here) = Len(evals) + (IF pc_parse = "read" THEN 0 ELSE 1)
      BY <2>1 DEF LinesRead
    <3>2. /\ Before(Here) \in Nat /\ Before(Here) + 1 <= Cardinality(Begins)
          /\ Cardinality(Begins) \in Nat
      BY <2>1, <3>1, BeginsFinite
    <3>3. Len(Commands) = Cardinality(Begins) - 1
      BY <2>1, <3>1, CommandsLength
    <3> QED
      BY <2>2, <3>1, <3>2, <3>3
  <2>5. pc_parse = "exited" => Len(evals) = Len(Commands)
    BY <2>1 DEF LinesRead
  <2>6. Len(evals) <= Len(Commands)
    BY <2>2, <2>4, <2>5
  <2>7. ASSUME pc_parse = "overrun"
        PROVE  /\ Len(evals) < Len(Commands)
               /\ Len(Arguments(Commands[Len(evals) + 1])) >= MAXARGS
    <3>1. Here \in Begins /\ Before(Here) = Len(evals) + 1
      BY <2>1, <2>7 DEF LinesRead
    <3>2. /\ Before(Here) \in Nat /\ Before(Here) + 1 <= Cardinality(Begins)
          /\ Cardinality(Begins) \in Nat
      BY <2>1, <3>1, BeginsFinite
    <3>3. Len(Commands) = Cardinality(Begins) - 1
      BY <2>1, <3>1, CommandsLength
    <3>4. Len(evals) < Len(Commands)
      BY <2>2, <3>1, <3>2, <3>3
    <3> QED
      BY <1>2, <2>7, <3>4 DEF ParseInv, LineOverrun
  <2> QED
    BY <2>1, <2>3, <2>5, <2>6, <2>7, Zenon DEF CommandsAsTyped, LinesEvaluated, EvaluatedAs
<1> QED
  BY ParseStart, <1>1, <1>2, PTL DEF ParseSpec

-----------------------------------------------------------------------------
(* The tokens of a line of lex.cpp *)

\* A name goes on over letters, digits and dollar signs, and begins with a letter.
LEMMA InNameIs ==
    ASSUME line \in Seq(Chars), NEW p \in 1 .. Len(line)
    PROVE  /\ InName(p) => line[p] \in NameChar
           /\ line[p] = "a" => InName(p)
           /\ p > 1 /\ line[p] \in NameChar /\ InName(p - 1) => InName(p)
           /\ InName(p) /\ line[p] # "a" => p > 1 /\ InName(p - 1)
<1>0. Len(line) \in Nat /\ p \in Nat /\ p \in 1 .. p
  OBVIOUS
<1>1. InName(p) => line[p] \in NameChar
  BY <1>0 DEF InName
<1>2. line[p] = "a" => InName(p)
  <2>1. \A r \in p .. p : r = p
    BY <1>0
  <2> QED
    BY <1>0, <2>1 DEF InName, NameChar
<1>3. ASSUME p > 1, line[p] \in NameChar, InName(p - 1)
      PROVE  InName(p)
  <2>1. PICK q \in 1 .. p - 1 : line[q] = "a" /\ \A r \in q .. p - 1 : line[r] \in NameChar
    BY <1>3 DEF InName
  <2>2. \A r \in q .. p : r = p \/ r \in q .. p - 1
    BY <1>0
  <2>3. q \in 1 .. p
    BY <1>0
  <2> QED
    BY <1>3, <2>1, <2>2, <2>3 DEF InName
<1>4. ASSUME InName(p), line[p] # "a"
      PROVE  p > 1 /\ InName(p - 1)
  <2>1. PICK q \in 1 .. p : line[q] = "a" /\ \A r \in q .. p : line[r] \in NameChar
    BY <1>4 DEF InName
  <2>2. q # p
    BY <1>4, <2>1
  <2>3. q \in 1 .. p - 1 /\ p > 1 /\ \A r \in q .. p - 1 : r \in q .. p
    BY <1>0, <2>2
  <2> QED
    BY <2>1, <2>3 DEF InName
<1> QED
  BY <1>1, <1>2, <1>3, <1>4

\* A position belongs to one kind of token, or to none.
LEMMA Kinds ==
    ASSUME line \in Seq(Chars), NEW p \in 1 .. Len(line)
    PROVE  /\ Kind(p) \in {"NAME", "NUMBER", "SINGLE", "none"}
           /\ Kind(p) = "NAME" <=> InName(p)
           /\ Kind(p) = "NUMBER" <=> line[p] = "1" /\ ~InName(p)
           /\ Kind(p) = "SINGLE" <=> line[p] = ";"
<1>1. line[p] = ";" => ~InName(p)
  BY InNameIs DEF NameChar
<1>2. CASE InName(p)
  BY <1>1, <1>2 DEF Kind
<1>3. CASE ~InName(p) /\ line[p] = "1"
  BY <1>3 DEF Kind
<1>4. CASE ~InName(p) /\ line[p] = ";"
  BY <1>4 DEF Kind
<1>5. CASE ~InName(p) /\ line[p] \notin {"1", ";"}
  BY <1>5 DEF Kind
<1> QED
  BY <1>2, <1>3, <1>4, <1>5

TokenSet == [type : {"NAME", "NUMBER", "SINGLE"}, text : Seq(Chars)]

LexTypeOK ==
    /\ line \in Seq(Chars) /\ tokens_lex \in Seq(TokenSet)
    /\ state_lex \in {"scan", "eol", "error"}

\* No token goes on at e.
FreshAt(e) ==
    e > 1 /\ e <= Len(line) /\ Kind(e) \in {"NAME", "NUMBER"} => Kind(e - 1) # Kind(e)

\* The tokens so far are those that begin, and end, before the next character.
Scanned ==
    state_lex = "scan" =>
        /\ i_lex \in 1 .. Len(line) + 1
        /\ \A p \in 1 .. i_lex - 1 : ~Illegal(p)
        /\ FreshAt(i_lex)
        /\ Len(tokens_lex) = Cardinality(Starts(i_lex - 1))
        /\ \A p \in Starts(i_lex - 1) : \A n \in i_lex - 1 .. Len(line) :
              tokens_lex[Cardinality(Starts(p))] = TokenAt(p, n)

LexInv == LexTypeOK /\ Scanned /\ LexedAsWritten

\* The tokens that begin can be counted.
LEMMA StartsFinite ==
    ASSUME NEW n \in Nat
    PROVE  /\ Starts(n) \in SUBSET (1 .. n) /\ IsFiniteSet(Starts(n))
           /\ Cardinality(Starts(n)) \in Nat
           /\ \A p \in Starts(n) : /\ p \in 1 .. n
                                   /\ Cardinality(Starts(p)) \in 1 .. Cardinality(Starts(n))
<1>1. \A m \in Nat : Starts(m) \in SUBSET (1 .. m)
  BY DEF Starts
<1>2. \A m \in Nat : IsFiniteSet(Starts(m)) /\ Cardinality(Starts(m)) \in Nat
  <2> SUFFICES ASSUME NEW m \in Nat
               PROVE  IsFiniteSet(Starts(m)) /\ Cardinality(Starts(m)) \in Nat
    OBVIOUS
  <2>1. IsFiniteSet(1 .. m)
    BY FS_Interval, 1 \in Int, m \in Int
  <2> QED
    BY <1>1, <2>1, FS_Subset, FS_CardinalityType
<1>3. ASSUME NEW p \in Starts(n)
      PROVE  /\ p \in 1 .. n
             /\ Cardinality(Starts(p)) \in 1 .. Cardinality(Starts(n))
  <2>1. p \in 1 .. n /\ p \in Nat /\ p >= 1
    BY <1>1
  <2>2. 1 .. p \subseteq 1 .. n /\ p \in 1 .. p
    BY <2>1
  <2>3. Starts(p) \subseteq Starts(n) /\ p \in Starts(p)
    BY <2>2, Zenon DEF Starts
  <2>4. Cardinality(Starts(p)) <= Cardinality(Starts(n))
    BY <1>2, <2>3, FS_Subset
  <2>5. Cardinality(Starts(p)) \in Nat /\ Cardinality(Starts(n)) \in Nat
    BY <1>2, <2>1
  <2>6. Cardinality(Starts(p)) # 0
    BY <1>2, <2>1, <2>3, FS_EmptySet
  <2> QED
    BY <2>1, <2>4, <2>5, <2>6
<1> QED
  BY <1>1, <1>2, <1>3

\* Characters of one kind that go on until another kind make one token.
LEMMA RunIs ==
    ASSUME line \in Seq(Chars), NEW now \in 1 .. Len(line), NEW e \in now + 1 .. Len(line) + 1,
           NEW K \in {"NAME", "NUMBER", "SINGLE"}, \A r \in now .. e - 1 : Kind(r) = K,
           IF K = "SINGLE" THEN e = now + 1 ELSE e <= Len(line) => Kind(e) # K,
           FreshAt(now)
    PROVE  /\ Starts(e - 1) = Starts(now - 1) \cup {now} /\ now \notin Starts(now - 1)
           /\ Starts(now) = Starts(e - 1)
           /\ FreshAt(e) /\ \A n \in e - 1 .. Len(line) : Last(now, n) = e - 1
<1>1. Len(line) \in Nat /\ now \in Nat /\ e \in Nat /\ e > now
  OBVIOUS
<1>2. Kind(now) = K
  <2>1. now \in now .. e - 1
    BY <1>1
  <2> QED
    BY <2>1
<1>3. now \in Starts(now) /\ now \in Starts(e - 1) /\ now \notin Starts(now - 1)
  <2>1. now \in 1 .. now /\ now \in 1 .. e - 1 /\ now \notin 1 .. now - 1
    BY <1>1
  <2>2. now > 1 => Kind(now) = "SINGLE" \/ Kind(now) # Kind(now - 1)
    BY <1>1, <1>2 DEF FreshAt
  <2>3. Kind(now) # "none"
    BY <1>2
  <2> QED
    BY <2>1, <2>2, <2>3, Zenon DEF Starts
<1>4. ASSUME NEW r \in now + 1 .. e - 1
      PROVE  ~(r > 1 => Kind(r) = "SINGLE" \/ Kind(r) # Kind(r - 1))
  <2>1. r \in now .. e - 1 /\ r - 1 \in now .. e - 1 /\ r > 1 /\ e # now + 1
    BY <1>1
  <2>2. Kind(r) = K /\ Kind(r - 1) = K /\ K # "SINGLE"
    BY <2>1
  <2> QED
    BY <2>1, <2>2
<1>5. \A r \in now + 1 .. e - 1 : r \notin Starts(e - 1)
  BY <1>4, Zenon DEF Starts
<1>6. Starts(e - 1) = Starts(now - 1) \cup {now}
  <2>1. \A r \in 1 .. e - 1 : r \in 1 .. now - 1 \/ r = now \/ r \in now + 1 .. e - 1
    BY <1>1
  <2>2. \A r \in 1 .. now - 1 : r \in 1 .. e - 1
    BY <1>1
  <2>3. \A r \in Starts(e - 1) : r \in 1 .. e - 1
    BY Zenon DEF Starts
  <2>4. \A r \in 1 .. now - 1 : r \in Starts(e - 1) <=> r \in Starts(now - 1)
    BY <2>2, Zenon DEF Starts
  <2>5. \A r \in Starts(now - 1) : r \in 1 .. now - 1
    BY Zenon DEF Starts
  <2> QED
    BY <1>3, <1>5, <2>1, <2>3, <2>4, <2>5, Zenon
<1>7. Starts(now) = Starts(now - 1) \cup {now}
  <2>1. \A r \in 1 .. now : r \in 1 .. now - 1 \/ r = now
    BY <1>1
  <2>2. \A r \in 1 .. now - 1 : r \in 1 .. now
    BY <1>1
  <2>3. \A r \in Starts(now) : r \in 1 .. now
    BY Zenon DEF Starts
  <2>4. \A r \in 1 .. now - 1 : r \in Starts(now) <=> r \in Starts(now - 1)
    BY <2>2, Zenon DEF Starts
  <2>5. \A r \in Starts(now - 1) : r \in 1 .. now - 1
    BY Zenon DEF Starts
  <2> QED
    BY <1>3, <2>1, <2>3, <2>4, <2>5, Zenon
<1>8. FreshAt(e)
  <2>1. e - 1 \in now .. e - 1
    BY <1>1
  <2>2. Kind(e - 1) = K
    BY <2>1
  <2>3. K = "SINGLE" \/ (e <= Len(line) => Kind(e) # K)
    OBVIOUS
  <2> QED
    BY <2>2, <2>3, Zenon DEF FreshAt
<1>9. ASSUME NEW n \in e - 1 .. Len(line)
      PROVE  Last(now, n) = e - 1
  <2>1. CASE K = "SINGLE"
    <3>1. e - 1 = now
      BY <1>1, <2>1
    <3> QED
      BY <1>2, <2>1, <3>1 DEF Last
  <2>2. CASE K # "SINGLE"
    <3> DEFINE S == {q \in now .. n : \A r \in now .. q : Kind(r) = Kind(now)}
    <3>1. e - 1 \in S
      <4>1. e - 1 \in now .. n
        BY <1>1
      <4> QED
        BY <1>2, <4>1
    <3>2. ASSUME NEW q \in S, q > e - 1
          PROVE  FALSE
      <4>1. q \in now .. n /\ \A r \in now .. q : Kind(r) = K
        BY <1>2
      <4>2. e \in now .. q /\ e <= Len(line)
        <5>1. q \in now .. n /\ q \in Int
          BY <4>1
        <5> HIDE DEF S
        <5> QED
          BY <1>1, <3>2, <5>1
      <4> QED
        BY <2>2, <4>1, <4>2
    <3>3. S \in SUBSET (0 .. n) /\ n \in Nat /\ \A q \in S : q \in Int
      BY <1>1
    <3>4. Last(now, n) = Max(S)
      BY <1>2, <2>2 DEF Last
    <3> HIDE DEF S
    <3>5. Max(S) \in S /\ Max(S) >= e - 1
      BY <3>1, <3>3, GreatestExists
    <3>6. Max(S) \in Int /\ ~(Max(S) > e - 1)
      BY <3>2, <3>3, <3>5, Zenon
    <3>7. Max(S) = e - 1
      BY <1>1, <3>5, <3>6
    <3> QED
      BY <3>4, <3>7
  <2> QED
    BY <2>1, <2>2
<1> QED
  BY <1>3, <1>6, <1>7, <1>8, <1>9

\* What is said of the line does not change while the line does not.
LEMMA SameLine ==
    ASSUME line' = line
    PROVE  /\ \A p : InName(p)' = InName(p)
           /\ \A p : Illegal(p)' = Illegal(p)
           /\ \A p : Kind(p)' = Kind(p)
           /\ \A n : Starts(n)' = Starts(n)
           /\ \A p, n : TokenAt(p, n)' = TokenAt(p, n)
           /\ CommentAt' = CommentAt /\ IllegalAt' = IllegalAt
<1>1. \A p : InName(p)' = InName(p)
  BY DEF InName
<1>2. \A p : Illegal(p)' = Illegal(p)
  BY <1>1 DEF Illegal
<1>3. \A p : Kind(p)' = Kind(p)
  BY <1>1 DEF Kind
<1>4. \A n : Starts(n)' = Starts(n)
  BY <1>3 DEF Starts
<1>5. \A p, n : Last(p, n)' = Last(p, n)
  BY <1>3 DEF Last
<1>6. \A p, n : TokenAt(p, n)' = TokenAt(p, n)
  BY <1>3, <1>5 DEF TokenAt
<1>7. CommentAt' = CommentAt /\ IllegalAt' = IllegalAt
  BY <1>2 DEF CommentAt, IllegalAt
<1> QED
  BY <1>1, <1>2, <1>3, <1>4, <1>6, <1>7

\* The first position that does not belong to a run.
LEMMA RunEnds ==
    ASSUME line \in Seq(Chars), NEW now \in 1 .. Len(line), NEW S, line[now] \in S
    PROVE  /\ EndOfRun(now, S) \in now + 1 .. Len(line) + 1
           /\ \A r \in now .. EndOfRun(now, S) - 1 : line[r] \in S
           /\ EndOfRun(now, S) <= Len(line) => line[EndOfRun(now, S)] \notin S
<1> DEFINE Q == {q \in now .. Len(line) + 1 : q > Len(line) \/ line[q] \notin S}
<1>1. Len(line) \in Nat /\ now \in Nat /\ now <= Len(line)
  OBVIOUS
<1>2. Q \in SUBSET Nat /\ Len(line) + 1 \in Q /\ Q \subseteq now .. Len(line) + 1
  BY <1>1
<1>3. EndOfRun(now, S) = Min(Q)
  BY DEF EndOfRun
<1>4. Min(Q) \in Q /\ \A x \in Q : Min(Q) <= x
  <2> HIDE DEF Q
  <2> QED
    BY <1>2, LeastExists
<1>5. PICK e \in now .. Len(line) + 1 : e = EndOfRun(now, S)
  BY <1>2, <1>3, <1>4
<1>6. e > Len(line) \/ line[e] \notin S
  BY <1>3, <1>4, <1>5
<1>7. e # now
  BY <1>1, <1>6
<1>8. ASSUME NEW r \in now .. e - 1, line[r] \notin S
      PROVE  FALSE
  <2>1. r \in now .. Len(line) + 1
    BY <1>1, <1>5
  <2>2. r \in Q
    BY <1>8, <2>1
  <2>3. e <= r
    BY <1>3, <1>4, <1>5, <2>2
  <2> QED
    BY <1>1, <1>5, <2>3
<1>9. e \in now + 1 .. Len(line) + 1
  BY <1>1, <1>5, <1>7
<1>10. e <= Len(line) => line[e] \notin S
  BY <1>1, <1>6
<1> QED
  BY <1>5, <1>8, <1>9, <1>10, Zenon

\* Where the line ends, said of a position that nothing illegal comes before.
LEMMA LineEnds ==
    ASSUME line \in Seq(Chars), NEW now \in 1 .. Len(line) + 1, \A p \in 1 .. now - 1 : ~Illegal(p)
    PROVE  /\ CommentAt \in now .. Len(line) + 1 /\ IllegalAt \in now .. Len(line) + 1
           /\ now <= Len(line) /\ Illegal(now) => IllegalAt = now
           /\ CommentAt = now <=> \/ now > Len(line)
                                  \/ now < Len(line) /\ line[now] = "/" /\ line[now + 1] = "/"
<1> DEFINE n == Len(line)
           C == {n + 1} \cup {p \in 1 .. n - 1 : line[p] = "/" /\ line[p + 1] = "/"}
           L == {n + 1} \cup {p \in 1 .. n : Illegal(p)}
<1>1. n \in Nat /\ now \in Nat /\ now >= 1 /\ now <= n + 1
  OBVIOUS
<1>2. CommentAt = Min(C) /\ IllegalAt = Min(L)
  BY DEF CommentAt, IllegalAt
<1>3. C \in SUBSET (1 .. n + 1) /\ L \in SUBSET (1 .. n + 1) /\ n + 1 \in C /\ n + 1 \in L
  BY <1>1
<1>4. ASSUME NEW p \in C, p < now
      PROVE  FALSE
  <2>1. p # n + 1
    BY <1>1, <1>4
  <2>2. p \in 1 .. n - 1 /\ line[p] = "/"
    BY <1>4, <2>1
  <2>3. p \in 1 .. now - 1
    BY <1>1, <1>4, <2>2
  <2> QED
    BY <2>2, <2>3 DEF Illegal
<1>5. ASSUME NEW p \in L, p < now
      PROVE  FALSE
  <2>1. p # n + 1
    BY <1>1, <1>5
  <2>2. p \in 1 .. n /\ Illegal(p)
    BY <1>5, <2>1
  <2>3. p \in 1 .. now - 1
    BY <1>1, <1>5, <2>2
  <2> QED
    BY <2>2, <2>3
<1>6. now \in C <=> \/ now > n
                    \/ now < n /\ line[now] = "/" /\ line[now + 1] = "/"
  <2>1. now = n + 1 <=> now > n
    BY <1>1
  <2>2. now \in 1 .. n - 1 <=> now < n
    BY <1>1
  <2> QED
    BY <2>1, <2>2
<1>7. now <= n /\ Illegal(now) => now \in L
  <2>1. now <= n => now \in 1 .. n
    BY <1>1
  <2> QED
    BY <2>1
<1> HIDE DEF C, L, n
<1>8. C \in SUBSET Nat /\ L \in SUBSET Nat /\ C # {} /\ L # {}
  BY <1>1, <1>3
<1>9. /\ Min(C) \in C /\ \A x \in C : Min(C) <= x
      /\ Min(L) \in L /\ \A x \in L : Min(L) <= x
  BY <1>8, LeastExists
<1>10. Min(C) \in now .. n + 1 /\ Min(L) \in now .. n + 1
  <2>1. PICK c \in 1 .. n + 1 : c = Min(C)
    BY <1>3, <1>9
  <2>2. PICK l \in 1 .. n + 1 : l = Min(L)
    BY <1>3, <1>9
  <2>3. ~(c < now) /\ ~(l < now)
    BY <1>4, <1>5, <1>9, <2>1, <2>2, Zenon
  <2>4. c \in now .. n + 1 /\ l \in now .. n + 1
    BY <1>1, <2>3
  <2> QED
    BY <2>1, <2>2, <2>4
<1>11. now \in C => Min(C) = now
  BY <1>1, <1>9, <1>10
<1>12. now \in L => Min(L) = now
  BY <1>1, <1>9, <1>10
<1>13. Min(C) = now => now \in C
  BY <1>9, Zenon
<1>14. /\ Min(C) = now <=> now \in C
       /\ now <= n /\ Illegal(now) => Min(L) = now
  BY <1>7, <1>11, <1>12, <1>13, Zenon
<1> QED
  BY <1>2, <1>6, <1>10, <1>14, Zenon DEF n

\* A token that is pushed whole keeps the tokens those of the line.
LEMMA PushKeeps ==
    ASSUME LexInv, More, NEW e \in i_lex + 1 .. Len(line) + 1,
           NEW K \in {"NAME", "NUMBER", "SINGLE"}, Push(K, e),
           \A r \in i_lex .. e - 1 : Kind(r) = K /\ ~Illegal(r),
           IF K = "SINGLE" THEN e = i_lex + 1 ELSE e <= Len(line) => Kind(e) # K
    PROVE  LexInv'
<1> DEFINE now == i_lex
           token == [type |-> K, text |-> SubSeq(line, now, e - 1)]
           c(p) == Cardinality(Starts(p))
<1>1. /\ line \in Seq(Chars) /\ tokens_lex \in Seq(TokenSet) /\ state_lex = "scan"
      /\ line' = line /\ state_lex' = state_lex /\ i_lex' = e
      /\ tokens_lex' = Append(tokens_lex, token)
  BY DEF LexInv, LexTypeOK, More, Push
<1>2. /\ now \in 1 .. Len(line) + 1 /\ now <= Len(line) /\ FreshAt(now)
      /\ \A p \in 1 .. now - 1 : ~Illegal(p)
      /\ Len(tokens_lex) = c(now - 1)
      /\ \A p \in Starts(now - 1) : \A n \in now - 1 .. Len(line) : tokens_lex[c(p)] = TokenAt(p, n)
  BY <1>1 DEF LexInv, Scanned, More
<1>3. Len(line) \in Nat /\ now \in 1 .. Len(line) /\ e \in Nat /\ e > now /\ e \in now + 1 .. Len(line) + 1
      /\ e \in 1 .. Len(line) + 1
  BY <1>1, <1>2
<1>4. /\ Starts(e - 1) = Starts(now - 1) \cup {now} /\ now \notin Starts(now - 1)
      /\ Starts(now) = Starts(e - 1)
      /\ FreshAt(e) /\ \A n \in e - 1 .. Len(line) : Last(now, n) = e - 1
  BY <1>1, <1>2, <1>3, RunIs
<1> HIDE DEF now
<1>5. c(now - 1) \in Nat /\ c(e - 1) = c(now - 1) + 1 /\ c(now) = c(now - 1) + 1
  <2>1. now - 1 \in Nat
    BY <1>3
  <2>2. IsFiniteSet(Starts(now - 1)) /\ c(now - 1) \in Nat
    BY <2>1, StartsFinite
  <2>3. Cardinality(Starts(now - 1) \cup {now}) = c(now - 1) + 1
    BY <1>4, <2>2, FS_AddElement
  <2> QED
    BY <1>4, <2>2, <2>3
<1>6. token \in TokenSet
  <2>1. now \in Int /\ e - 1 \in Int /\ \A r \in now .. e - 1 : r \in 1 .. Len(line)
    BY <1>3
  <2>2. \A r \in now .. e - 1 : line[r] \in Chars
    BY <1>1, <2>1
  <2>3. SubSeq(line, now, e - 1) \in Seq(Chars)
    BY <2>1, <2>2, SubSeqProperties
  <2> QED
    BY <2>3 DEF TokenSet
<1>7. ASSUME NEW n \in e - 1 .. Len(line)
      PROVE  token = TokenAt(now, n)
  <2>1. now \in now .. e - 1
    BY <1>3
  <2>2. Kind(now) = K
    BY <2>1 DEF now
  <2>3. Last(now, n) = e - 1
    BY <1>4
  <2> QED
    BY <2>2, <2>3 DEF TokenAt
<1> HIDE DEF token
<1>8. /\ tokens_lex' \in Seq(TokenSet) /\ Len(tokens_lex') = c(now - 1) + 1
      /\ tokens_lex'[c(now - 1) + 1] = token
      /\ \A q \in 1 .. c(now - 1) : tokens_lex'[q] = tokens_lex[q]
  <2>1. Len(tokens_lex) + 1 = c(now - 1) + 1 /\ 1 .. Len(tokens_lex) = 1 .. c(now - 1)
    BY <1>2
  <2>2. /\ tokens_lex' \in Seq(TokenSet) /\ Len(tokens_lex') = Len(tokens_lex) + 1
        /\ \A q \in 1 .. Len(tokens_lex) : tokens_lex'[q] = tokens_lex[q]
        /\ tokens_lex'[Len(tokens_lex) + 1] = token
    BY <1>1, <1>6, AppendProperties
  <2> QED
    BY <2>1, <2>2, Zenon
<1>9. ASSUME NEW p \in Starts(e - 1), NEW n \in e - 1 .. Len(line)
      PROVE  tokens_lex'[c(p)] = TokenAt(p, n)
  <2>1. CASE p = now
    BY <1>5, <1>7, <1>8, <2>1
  <2>2. CASE p \in Starts(now - 1)
    <3>1. now - 1 \in Nat /\ n \in now - 1 .. Len(line)
      BY <1>3
    <3>2. c(p) \in 1 .. c(now - 1)
      BY <2>2, <3>1, StartsFinite
    <3> QED
      BY <1>2, <1>8, <2>2, <3>1, <3>2
  <2> QED
    BY <1>4, <2>1, <2>2
<1>10. ASSUME NEW p \in 1 .. e - 1
       PROVE  ~Illegal(p)
  <2>1. p \in 1 .. now - 1 \/ p \in now .. e - 1
    BY <1>3
  <2> QED
    BY <1>2, <2>1 DEF now
<1>11. LexTypeOK'
  BY <1>1, <1>8 DEF LexTypeOK
<1>12. Scanned'
  <2>1. FreshAt(i_lex)'
    BY <1>1, <1>4, SameLine DEF FreshAt
  <2>2. (\A p \in 1 .. i_lex - 1 : ~Illegal(p))'
    BY <1>1, <1>10, SameLine
  <2>3. (Len(tokens_lex) = Cardinality(Starts(i_lex - 1)))'
    BY <1>1, <1>5, <1>8, SameLine
  <2>4. (\A p \in Starts(i_lex - 1) : \A n \in i_lex - 1 .. Len(line) :
              tokens_lex[Cardinality(Starts(p))] = TokenAt(p, n))'
    <3>1. Starts(i_lex - 1)' = Starts(e - 1) /\ (i_lex - 1 .. Len(line))' = e - 1 .. Len(line)
      BY <1>1, SameLine
    <3>2. \A p \in Starts(e - 1) : \A n \in e - 1 .. Len(line) :
              tokens_lex'[Cardinality(Starts(p)')] = TokenAt(p, n)'
      BY <1>1, <1>9, SameLine
    <3> QED
      BY <3>1, <3>2, Zenon
  <2> QED
    BY <1>1, <1>3, <2>1, <2>2, <2>3, <2>4 DEF Scanned
<1>13. LexedAsWritten'
  BY <1>1 DEF LexedAsWritten
<1> QED
  BY <1>11, <1>12, <1>13 DEF LexInv

\* In a scan, what is known of the next character.
LEMMA Scanning ==
    ASSUME LexInv, More
    PROVE  /\ line \in Seq(Chars) /\ tokens_lex \in Seq(TokenSet) /\ state_lex = "scan"
           /\ Len(line) \in Nat /\ i_lex \in Nat /\ i_lex \in 1 .. Len(line)
           /\ FreshAt(i_lex) /\ \A p \in 1 .. i_lex - 1 : ~Illegal(p)
           /\ line[i_lex] # "a" => ~InName(i_lex)
<1>1. /\ line \in Seq(Chars) /\ tokens_lex \in Seq(TokenSet) /\ state_lex = "scan"
      /\ i_lex \in 1 .. Len(line) + 1 /\ i_lex <= Len(line)
      /\ FreshAt(i_lex) /\ \A p \in 1 .. i_lex - 1 : ~Illegal(p)
  BY DEF LexInv, LexTypeOK, Scanned, More
<1>2. Len(line) \in Nat /\ i_lex \in Nat /\ i_lex \in 1 .. Len(line)
  BY <1>1
<1>3. ASSUME line[i_lex] # "a", InName(i_lex)
      PROVE  FALSE
  <2>1. i_lex > 1 /\ InName(i_lex - 1)
    BY <1>1, <1>2, <1>3, InNameIs
  <2>2. i_lex - 1 \in 1 .. Len(line)
    BY <1>2, <2>1
  <2>3. Kind(i_lex) = "NAME" /\ Kind(i_lex - 1) = "NAME"
    BY <1>1, <1>2, <1>3, <2>1, <2>2, Kinds
  <2> QED
    BY <1>1, <2>1, <2>3 DEF FreshAt
<1> QED
  BY <1>1, <1>2, <1>3

\* A run of digits is a number, for no name reaches into it.
LEMMA NumberKeeps ==
    ASSUME LexInv, Number
    PROVE  LexInv'
<1> DEFINE e == EndOfRun(i_lex, {"1"})
<1>1. More /\ line[i_lex] = "1" /\ Push("NUMBER", e)
  BY DEF Number
<1>2. /\ line \in Seq(Chars) /\ Len(line) \in Nat /\ i_lex \in Nat /\ i_lex \in 1 .. Len(line)
      /\ ~InName(i_lex)
  BY <1>1, Scanning
<1>3. /\ e \in i_lex + 1 .. Len(line) + 1 /\ \A r \in i_lex .. e - 1 : line[r] \in {"1"}
      /\ e <= Len(line) => line[e] \notin {"1"}
  BY <1>1, <1>2, RunEnds
<1> HIDE DEF e
<1>4. \A r \in i_lex .. e - 1 : r \in 1 .. Len(line)
  BY <1>2, <1>3
<1>5. ASSUME NEW r \in i_lex .. e - 1, InName(r)
      PROVE  FALSE
  <2>1. PICK q \in 1 .. r : line[q] = "a" /\ \A x \in q .. r : line[x] \in NameChar
    BY <1>5 DEF InName
  <2>2. q \notin i_lex .. e - 1
    BY <1>3, <2>1
  <2>3. q \in 1 .. i_lex /\ \A x \in q .. i_lex : x \in q .. r
    BY <1>2, <1>3, <2>2
  <2>4. InName(i_lex)
    BY <2>1, <2>3 DEF InName
  <2> QED
    BY <1>2, <2>4
<1>6. ASSUME NEW r \in i_lex .. e - 1
      PROVE  Kind(r) = "NUMBER" /\ ~Illegal(r)
  <2>1. line[r] = "1" /\ ~InName(r) /\ r \in 1 .. Len(line)
    BY <1>3, <1>4, <1>5
  <2>2. Kind(r) = "NUMBER"
    BY <1>2, <2>1, Kinds
  <2> QED
    BY <2>1, <2>2 DEF Illegal
<1>7. e <= Len(line) => Kind(e) # "NUMBER"
  <2>1. e <= Len(line) => e \in 1 .. Len(line)
    BY <1>2, <1>3
  <2> QED
    BY <1>2, <1>3, <2>1, Kinds
<1> QED
  BY <1>1, <1>3, <1>6, <1>7, PushKeeps

\* A run that begins with a letter is a name.
LEMMA NameKeeps ==
    ASSUME LexInv, Name
    PROVE  LexInv'
<1> DEFINE e == EndOfRun(i_lex, NameChar)
<1>1. More /\ line[i_lex] = "a" /\ Push("NAME", e)
  BY DEF Name
<1>2. line \in Seq(Chars) /\ Len(line) \in Nat /\ i_lex \in Nat /\ i_lex \in 1 .. Len(line)
  BY <1>1, Scanning
<1>3. /\ e \in i_lex + 1 .. Len(line) + 1 /\ \A r \in i_lex .. e - 1 : line[r] \in NameChar
      /\ e <= Len(line) => line[e] \notin NameChar
  <2>1. line[i_lex] \in NameChar
    BY <1>1 DEF NameChar
  <2> QED
    BY <1>2, <2>1, RunEnds
<1> HIDE DEF e
<1>4. ASSUME NEW r \in i_lex .. e - 1
      PROVE  Kind(r) = "NAME" /\ ~Illegal(r)
  <2>1. r \in 1 .. Len(line) /\ i_lex \in 1 .. r /\ \A x \in i_lex .. r : x \in i_lex .. e - 1
    BY <1>2, <1>3
  <2>2. InName(r)
    BY <1>1, <1>3, <2>1, Zenon DEF InName
  <2>3. Kind(r) = "NAME"
    BY <1>2, <2>1, <2>2, Kinds
  <2>4. line[r] \in NameChar
    BY <1>3
  <2> QED
    BY <2>2, <2>3, <2>4 DEF Illegal, NameChar
<1>5. e <= Len(line) => Kind(e) # "NAME"
  <2>1. e <= Len(line) => e \in 1 .. Len(line)
    BY <1>2, <1>3
  <2> QED
    BY <1>2, <1>3, <2>1, Kinds, InNameIs
<1> QED
  BY <1>1, <1>3, <1>4, <1>5, PushKeeps

\* A single character is a token of its own.
LEMMA SingleKeeps ==
    ASSUME LexInv, Single
    PROVE  LexInv'
<1>1. More /\ line[i_lex] = ";" /\ Push("SINGLE", i_lex + 1)
  BY DEF Single
<1>2. line \in Seq(Chars) /\ Len(line) \in Nat /\ i_lex \in Nat /\ i_lex \in 1 .. Len(line)
  BY <1>1, Scanning
<1>3. Kind(i_lex) = "SINGLE" /\ ~Illegal(i_lex)
  <2>1. Kind(i_lex) = "SINGLE"
    BY <1>1, <1>2, Kinds
  <2> QED
    BY <1>1, <2>1 DEF Illegal
<1>4. /\ i_lex + 1 \in i_lex + 1 .. Len(line) + 1
      /\ \A r \in i_lex .. (i_lex + 1) - 1 : r = i_lex
  BY <1>2
<1> QED
  BY <1>1, <1>3, <1>4, PushKeeps

\* Between tokens nothing begins.
LEMMA SpaceKeeps ==
    ASSUME LexInv, Space
    PROVE  LexInv'
<1>1. /\ More /\ line[i_lex] = " " /\ i_lex' = i_lex + 1
      /\ line' = line /\ tokens_lex' = tokens_lex /\ state_lex' = state_lex
  BY DEF Space
<1>2. /\ line \in Seq(Chars) /\ tokens_lex \in Seq(TokenSet) /\ state_lex = "scan"
      /\ Len(line) \in Nat /\ i_lex \in Nat /\ i_lex \in 1 .. Len(line)
      /\ \A p \in 1 .. i_lex - 1 : ~Illegal(p)
      /\ ~InName(i_lex)
  BY <1>1, Scanning
<1>3. Kind(i_lex) = "none" /\ ~Illegal(i_lex)
  <2>1. Kind(i_lex) = "none"
    BY <1>1, <1>2, Kinds
  <2> QED
    BY <1>1, <2>1 DEF Illegal
<1>4. Starts(i_lex) = Starts(i_lex - 1)
  <2>1. \A p \in 1 .. i_lex : p = i_lex \/ p \in 1 .. i_lex - 1
    BY <1>2
  <2>2. \A p \in 1 .. i_lex - 1 : p \in 1 .. i_lex
    BY <1>2
  <2> QED
    BY <1>3, <2>1, <2>2, Zenon DEF Starts
<1>5. FreshAt(i_lex + 1)
  <2>1. (i_lex + 1) - 1 = i_lex
    BY <1>2
  <2> QED
    BY <1>3, <2>1 DEF FreshAt
<1>6. /\ Len(tokens_lex) = Cardinality(Starts(i_lex - 1))
      /\ \A p \in Starts(i_lex - 1) : \A n \in i_lex - 1 .. Len(line) :
            tokens_lex[Cardinality(Starts(p))] = TokenAt(p, n)
  BY <1>2 DEF LexInv, Scanned
<1>7. /\ i_lex' - 1 = i_lex /\ i_lex' \in 1 .. Len(line) + 1
      /\ \A n \in i_lex .. Len(line) : n \in i_lex - 1 .. Len(line)
  <2>1. i_lex' = i_lex + 1 /\ i_lex \in 1 .. Len(line) /\ Len(line) \in Nat
    BY <1>1, <1>2
  <2> QED
    BY <2>1
<1>8. Scanned'
  <2>1. FreshAt(i_lex)'
    BY <1>1, <1>5, SameLine DEF FreshAt
  <2>2. (\A p \in 1 .. i_lex - 1 : ~Illegal(p))'
    <3>1. \A p \in 1 .. i_lex : p = i_lex \/ p \in 1 .. i_lex - 1
      BY <1>2
    <3>2. \A p \in 1 .. i_lex : ~Illegal(p)
      BY <1>2, <1>3, <3>1
    <3> QED
      BY <1>1, <1>7, <3>2, SameLine
  <2>3. (Len(tokens_lex) = Cardinality(Starts(i_lex - 1)))'
    BY <1>1, <1>4, <1>6, <1>7, SameLine
  <2>4. (\A p \in Starts(i_lex - 1) : \A n \in i_lex - 1 .. Len(line) :
              tokens_lex[Cardinality(Starts(p))] = TokenAt(p, n))'
    <3>1. Starts(i_lex - 1)' = Starts(i_lex - 1) /\ (i_lex - 1 .. Len(line))' = i_lex .. Len(line)
      BY <1>1, <1>4, <1>7, SameLine
    <3>2. \A p \in Starts(i_lex - 1) : \A n \in i_lex .. Len(line) :
              tokens_lex'[Cardinality(Starts(p)')] = TokenAt(p, n)'
      BY <1>1, <1>6, <1>7, SameLine
    <3> QED
      BY <3>1, <3>2, Zenon
  <2>5. i_lex' \in 1 .. Len(line') + 1
    BY <1>1, <1>7
  <2> QED
    BY <2>1, <2>2, <2>3, <2>4, <2>5 DEF Scanned
<1> QED
  BY <1>1, <1>2, <1>8 DEF LexInv, LexTypeOK, LexedAsWritten

\* The line ends where the comment or the line does, or where it is refused.
LEMMA FinishKeeps ==
    ASSUME LexInv, Comment \/ SingleSlash \/ Invalid \/ EndOfLine
    PROVE  LexInv'
<1>1. /\ line \in Seq(Chars) /\ tokens_lex \in Seq(TokenSet) /\ state_lex = "scan"
      /\ i_lex \in 1 .. Len(line) + 1 /\ \A p \in 1 .. i_lex - 1 : ~Illegal(p)
      /\ Len(tokens_lex) = Cardinality(Starts(i_lex - 1))
      /\ \A p \in Starts(i_lex - 1) : \A n \in i_lex - 1 .. Len(line) :
            tokens_lex[Cardinality(Starts(p))] = TokenAt(p, n)
  <2>1. state_lex = "scan"
    BY DEF Comment, SingleSlash, Invalid, EndOfLine, More
  <2> QED
    BY <2>1 DEF LexInv, LexTypeOK, Scanned
<1>2. Len(line) \in Nat /\ i_lex \in Nat
  BY <1>1
<1>3. /\ CommentAt \in i_lex .. Len(line) + 1 /\ IllegalAt \in i_lex .. Len(line) + 1
      /\ i_lex <= Len(line) /\ Illegal(i_lex) => IllegalAt = i_lex
      /\ CommentAt = i_lex <=> \/ i_lex > Len(line)
                               \/ i_lex < Len(line) /\ line[i_lex] = "/" /\ line[i_lex + 1] = "/"
  BY <1>1, LineEnds
<1>4. line' = line /\ tokens_lex' = tokens_lex /\ i_lex' = i_lex
  BY DEF Comment, SingleSlash, Invalid, EndOfLine, Finish
<1>5. CASE Comment \/ EndOfLine
  <2>1. state_lex' = "eol"
    BY <1>5 DEF Comment, EndOfLine, Finish
  <2>2. CommentAt = i_lex
    BY <1>3, <1>5 DEF Comment, EndOfLine, More, TwoSlashes
  <2>3. CommentAt <= IllegalAt /\ i_lex - 1 \in i_lex - 1 .. Len(line)
    BY <1>1, <1>2, <1>3, <2>2
  <2>4. /\ Len(tokens_lex) = Cardinality(Starts(CommentAt - 1))
        /\ \A p \in Starts(CommentAt - 1) :
              tokens_lex[Cardinality(Starts(p))] = TokenAt(p, CommentAt - 1)
    BY <1>1, <2>2, <2>3
  <2>5. LexedAsWritten'
    BY <1>4, <2>1, <2>3, <2>4, SameLine DEF LexedAsWritten
  <2> QED
    BY <1>1, <1>4, <2>1, <2>5 DEF LexInv, LexTypeOK, Scanned
<1>6. CASE SingleSlash \/ Invalid
  <2>1. state_lex' = "error" /\ More
    BY <1>6 DEF SingleSlash, Invalid, Finish
  <2>2. i_lex \in 1 .. Len(line) /\ (line[i_lex] # "a" => ~InName(i_lex))
    BY <2>1, Scanning
  <2>3. Illegal(i_lex)
    BY <1>6, <2>2 DEF SingleSlash, Invalid, Illegal
  <2>4. CommentAt # i_lex
    BY <1>2, <1>3, <1>6, <2>2 DEF SingleSlash, Invalid, TwoSlashes
  <2>5. IllegalAt < CommentAt
    BY <1>2, <1>3, <2>2, <2>3, <2>4
  <2>6. LexedAsWritten'
    BY <1>4, <2>1, <2>5, SameLine DEF LexedAsWritten
  <2> QED
    BY <1>1, <1>4, <2>1, <2>6 DEF LexInv, LexTypeOK, Scanned
<1> QED
  BY <1>5, <1>6

\* At the beginning of a line no token has begun.
LEMMA LexStart == LexInit => LexInv
<1> SUFFICES ASSUME LexInit
             PROVE  LexInv
  OBVIOUS
<1>1. PICK n \in 0 .. MaxLine : line \in [1 .. n -> Chars]
  BY DEF LexInit
<1>2. n \in Nat
  BY LexConstants
<1>3. /\ line \in Seq(Chars) /\ i_lex = 1 /\ tokens_lex = << >> /\ state_lex = "scan"
      /\ Len(line) \in Nat
  BY <1>1, <1>2 DEF LexInit
<1>4. Starts(0) = {}
  <2>1. 1 .. 0 = {}
    OBVIOUS
  <2> QED
    BY <2>1 DEF Starts
<1>5. i_lex - 1 = 0 /\ 1 .. 0 = {} /\ i_lex \in 1 .. Len(line) + 1 /\ FreshAt(i_lex)
  BY <1>3 DEF FreshAt
<1>6. Len(tokens_lex) = Cardinality(Starts(i_lex - 1))
  BY <1>3, <1>4, <1>5, FS_EmptySet
<1>7. Scanned
  BY <1>4, <1>5, <1>6 DEF Scanned
<1> QED
  BY <1>3, <1>7 DEF LexInv, LexTypeOK, LexedAsWritten

\* lex.cpp: the tokens of a line are its longest names and numbers and its single
\* characters, and a line is refused if and only if it is not well formed.
THEOREM TokensRead == LexSpec => []LexedAsWritten
<1>1. LexInv /\ [LexNext]_lexvars => LexInv'
  <2> SUFFICES ASSUME LexInv, [LexNext]_lexvars
               PROVE  LexInv'
    OBVIOUS
  <2>1. CASE Number
    BY <2>1, NumberKeeps
  <2>2. CASE Name
    BY <2>2, NameKeeps
  <2>3. CASE Single
    BY <2>3, SingleKeeps
  <2>4. CASE Space
    BY <2>4, SpaceKeeps
  <2>5. CASE Comment \/ SingleSlash \/ Invalid \/ EndOfLine
    BY <2>5, FinishKeeps
  <2>6. CASE UNCHANGED lexvars
    <3>1. line' = line /\ i_lex' = i_lex /\ tokens_lex' = tokens_lex /\ state_lex' = state_lex
      BY <2>6 DEF lexvars
    <3>2. FreshAt(i_lex)' = FreshAt(i_lex)
      BY <3>1, SameLine DEF FreshAt
    <3>3. Scanned'
      BY <3>1, <3>2, SameLine DEF LexInv, Scanned
    <3>4. LexedAsWritten'
      BY <3>1, SameLine DEF LexInv, LexedAsWritten
    <3> QED
      BY <3>1, <3>3, <3>4 DEF LexInv, LexTypeOK
  <2> QED
    BY <2>1, <2>2, <2>3, <2>4, <2>5, <2>6 DEF LexNext
<1>2. LexInv => LexedAsWritten
  BY DEF LexInv
<1> QED
  BY LexStart, <1>1, <1>2, PTL DEF LexSpec

=============================================================================
