---------------------------- MODULE MCMMExplicit ----------------------------
(***************************************************************************)
(* The two malloc packages, one of which is linked to memlib.c: the one    *)
(* with the explicit free list is extended, mm.c has variables of its own, *)
(* which stay as they are while the other one runs.                        *)
(***************************************************************************)
EXTENDS MMExplicit

VARIABLES which,                          \* the package: "mm-explicit" or "mm"
          nbrk, nmem, header, nlive       \* mm.c

naivevars == <<nbrk, nmem, header, nlive>>
allvars == <<which, vars, naivevars>>

Naive == INSTANCE MMNaive WITH brk <- nbrk, mem <- nmem, live <- nlive

\* The bytes that nobody looks at are what the others are.
PackageInit == which \in {"mm-explicit", "mm"} /\ mm_init /\ Naive!mm_init /\ mem = nmem

Explicit == which = "mm-explicit" /\ Next /\ UNCHANGED <<which, naivevars>>
Simple == which = "mm" /\ Naive!Next /\ UNCHANGED <<which, vars>>

\* A call that was entered runs on; nobody has to call.
PackageSpec ==
    /\ PackageInit /\ [][Explicit \/ Simple]_allvars
    /\ WF_allvars(Explicit /\ Package)

\* mm.c: payloads lie behind their size words, below the break, and apart.
NaiveInv == Naive!NaiveInv

\* mm.c keeps the promises of a malloc package.
NaiveRefinesHeap == Naive!NaiveRefinesHeap

=============================================================================
