---------------------------- MODULE MCThreadLife ----------------------------
(* ThreadLife for TLC.  c1 is a ULT of PE w1, c2 a ULT of PE w2 and e1 an     *)
(* external thread.  Three scenarios over them, chosen in the initial state: *)
(*   "two"       c1 creates, c2 joins and frees on the other PE;             *)
(*   "external"  c1 creates, e1 joins and frees by spinning;                 *)
(*   "one"       on w1 alone c1 creates, joins and frees and e1 creates, so  *)
(*               that descriptors are recycled.                              *)
(* RecycleSpec is a fourth, where the freeing thread may create as well      *)
(* while the other PE terminates the unit.                                   *)
EXTENDS ThreadLife

CONSTANTS w1, w2, c1, c2, e1

VARIABLE scenario

HomeOf == [c \in Callers |-> CASE c = c1 -> w1 [] c = c2 -> w2 [] OTHER -> c]

Two == INSTANCE ThreadLife WITH Callers <- {c1, c2}, Creators <- {c1}, Freers <- {c2}, MaxUnits <- 2
External == INSTANCE ThreadLife WITH Callers <- {c1, e1}, Creators <- {c1}, Freers <- {e1}, MaxUnits <- 2
One == INSTANCE ThreadLife WITH PEs <- {w1}, Callers <- {c1, e1}, Freers <- {c1}
Recycle == INSTANCE ThreadLife WITH Callers <- {c1}, Creators <- {c1}, Freers <- {c1}, MaxUnits <- 2

ActivePEs == IF scenario = "one" THEN {w1} ELSE PEs
ActiveCallers == IF scenario = "two" THEN {c1, c2} ELSE {c1, e1}

MCVars == <<vars, scenario>>

MCInit == Init /\ scenario \in {"two", "external", "one"}

MCNext == /\ \/ scenario = "two" /\ Two!Next
             \/ scenario = "external" /\ External!Next
             \/ scenario = "one" /\ One!Next
          /\ UNCHANGED scenario

\* Fairness: functions return, PEs and threads make progress, pools are polled
\* and ready ULTs resumed, and a ULT that calls join for ever yields in between.
MCSpec ==
  /\ MCInit /\ [][MCNext]_MCVars
  /\ \A p \in PEs : SF_vars(p \in ActivePEs /\ PEStep(p))
  /\ \A c \in Callers : WF_vars(c \in ActiveCallers /\ CallerStep(c))
  /\ \A c \in {c1, c2} : /\ SF_vars(c \in ActiveCallers /\ Resume(c))
                         /\ SF_vars(c \in ActiveCallers /\ Yield(c))

RecycleInit == Init /\ scenario = "recycle"
RecycleNext == Recycle!Next /\ UNCHANGED scenario
RecycleSpec == RecycleInit /\ [][RecycleNext]_MCVars

-----------------------------------------------------------------------------
\* A join returns only after the unit's function has returned, also in recycled
\* memory, and whoever is blocked in one is listed with a terminator still to
\* come, or in a terminator's hands (TypeOK, JoinMeansEnded, NoJoinerForgotten of
\* ThreadLife; thread.cpp:60-67, 146-159).
JoinersKnown == TypeOK /\ JoinMeansEnded /\ NoJoinerForgotten

\* Every join and free returns, and a detached unit is run and its memory given back
\* (JoinsReturn, DetachedReleased of ThreadLife; thread.cpp:60-71, 146-159, 247-258).
LivesEnd == JoinsReturn /\ DetachedReleased
=============================================================================
