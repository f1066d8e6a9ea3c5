------------------------------- MODULE MCCond -------------------------------
(* Cond for TLC.  Two scenarios over the same threads: in "plain" two ULTs    *)
(* wait and anybody signals, with or without the mutex; in "timed" a ULT     *)
(* waits and an external thread waits with a deadline, and signals come from *)
(* holders of the mutex.                                                     *)
EXTENDS Cond

CONSTANTS u1, u2, e1

VARIABLE scenario

Plain == INSTANCE Cond WITH Waiters <- {u1, u2}, TimedThreads <- {}, SignalLocked <- FALSE

MCVars == <<allVars, scenario>>

MCInit == CondInit /\ scenario \in {"plain", "timed"}

MCNext == /\ \/ scenario = "plain" /\ Plain!CondNext
             \/ scenario = "timed" /\ CondNext
          /\ UNCHANGED scenario

MCSpec == MCInit /\ [][MCNext]_MCVars
MCFairSpec == MCSpec /\ CondFairness

=============================================================================
