---------------------------- MODULE AbstractPool ----------------------------
(***************************************************************************)
(* What a built-in pool promises: units leave in the order in which they   *)
(* entered, over all producers; a pop passes over a unit only if it is     *)
(* pinned to another PE; a unit is in the pool at most once, and is handed *)
(* to at most one consumer.                                                *)
(***************************************************************************)
EXTENDS Naturals, Sequences, SequencesExt

CONSTANTS PoolUnits, PoolConsumers, Nobody,
          Pinned(_, _)    \* Pinned(u, c): c may not resume u

VARIABLES queue,   \* the units in the pool, oldest first
          got      \* got[c]: the unit a pop has handed to c

poolVars == <<queue, got>>

PoolInit == queue = <<>> /\ got = [c \in PoolConsumers |-> Nobody]

\* A unit enters at the back; it may come from the consumer that just took it.
Push(u) == /\ ~Contains(queue, u)
           /\ queue' = Append(queue, u)
           /\ got' = [c \in PoolConsumers |-> IF got[c] = u THEN Nobody ELSE got[c]]

\* c takes the oldest unit, or the oldest that is not pinned elsewhere.
Pop(c) == \E k \in 1..Len(queue) :
            /\ got[c] = Nobody
            /\ \A j \in 1..(k - 1) : Pinned(queue[j], c)
            /\ queue' = RemoveAt(queue, k)
            /\ got' = [got EXCEPT ![c] = queue[k]]

\* c goes on with the unit it took, which it may resume.
Run(c) == /\ got[c] # Nobody /\ ~Pinned(got[c], c)
          /\ got' = [got EXCEPT ![c] = Nobody]
          /\ UNCHANGED queue

\* ABT_pool_remove.
Withdraw(u) == Contains(queue, u) /\ queue' = Remove(queue, u) /\ UNCHANGED got

PoolNext == \/ \E u \in PoolUnits : Push(u) \/ Withdraw(u)
            \/ \E c \in PoolConsumers : Pop(c) \/ Run(c)

PoolSpec == PoolInit /\ [][PoolNext]_poolVars
=============================================================================
