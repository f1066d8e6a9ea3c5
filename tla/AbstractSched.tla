---------------------------- MODULE AbstractSched ----------------------------
(***************************************************************************)
(* What a predefined scheduler promises of the order of units: after every *)
(* unit it starts again at its first pool and runs the oldest unit of the  *)
(* first pool that has one; a unit that yields goes to the end of its      *)
(* pool before the next one is chosen.                                     *)
(***************************************************************************)
EXTENDS Sequences, Naturals

CONSTANTS Order,  \* the scheduler's pools, highest priority first
          Units,
          Home,   \* Home[u]: the pool of u
          None

VARIABLES queue,  \* queue[p]
          cur,    \* the unit that runs
          away    \* the units that are blocked or not created

avars == <<queue, cur, away>>

Pools == {Order[i] : i \in 1..Len(Order)}

AInit == queue = [p \in Pools |-> <<>>] /\ cur = None /\ away = Units

Add(u) ==
  /\ u \in away /\ away' = away \ {u}
  /\ queue' = [queue EXCEPT ![Home[u]] = Append(@, u)] /\ UNCHANGED cur

Pick ==
  /\ cur = None
  /\ \E i \in 1..Len(Order) :
       /\ queue[Order[i]] # <<>> /\ \A j \in 1..i-1 : queue[Order[j]] = <<>>
       /\ cur' = Head(queue[Order[i]])
       /\ queue' = [queue EXCEPT ![Order[i]] = Tail(@)]
  /\ UNCHANGED away

Yield ==
  /\ cur # None /\ cur' = None
  /\ queue' = [queue EXCEPT ![Home[cur]] = Append(@, cur)] /\ UNCHANGED away

\* The unit that runs blocks, or ends.
Leave == cur # None /\ cur' = None /\ away' \in {away, away \cup {cur}} /\ UNCHANGED queue

ANext == (\E u \in Units : Add(u)) \/ Pick \/ Yield \/ Leave
ASpec == AInit /\ [][ANext]_avars
=============================================================================
