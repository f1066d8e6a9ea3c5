---------------------------- MODULE AbstractLock ----------------------------
(***************************************************************************)
(* What ABT_mutex promises its callers: a lock with one holder, which a    *)
(* recursive mutex lets the holder take again, and which becomes free only *)
(* when the holder has given back every hold.                              *)
(***************************************************************************)
EXTENDS Naturals

CONSTANTS Threads,      \* the callers
          None,         \* "no holder"
          Recursive     \* ABT_mutex_attr_set_recursive

VARIABLES holder, holds

vars == <<holder, holds>>

Init == /\ holder = None
        /\ holds = 0

Acquire(t) == /\ holder = None
              /\ holder' = t
              /\ holds' = 1

Reacquire(t) == /\ Recursive
                /\ holder = t
                /\ holds' = holds + 1
                /\ UNCHANGED holder

Release(t) == /\ holder = t
              /\ holds' = holds - 1
              /\ holder' = IF holds = 1 THEN None ELSE holder

Next == \E t \in Threads : Acquire(t) \/ Reacquire(t) \/ Release(t)

Spec == Init /\ [][Next]_vars
=============================================================================
