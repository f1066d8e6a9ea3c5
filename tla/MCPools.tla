------------------------------ MODULE MCPools -------------------------------
(* Pools for TLC.  The initial state chooses one: a lock-free and a           *)
(* spinlocked pool, checked against the same abstract pool; and the units of  *)
(* user-defined pools, in "user" two threads that move between one such pool  *)
(* and a built-in one, in "users" a thread that moves among three pools.     *)
(* The user-defined pools stay as they were in the other behaviours, and what *)
(* the built-in ones need is None where they are not the ones.               *)
EXTENDS UserPool

CONSTANTS a, b, d, p1, c1, c2, Stub, q1, q2, t1, t2

VARIABLES kind,
          inPool, count, owner, at, got,       \* both built-in pools
          tail, head, nxt, lk, removed, link,  \* MpscPool
          lhead, ltail, lnext, lprev           \* ListPool

mpscPart == <<tail, head, nxt, lk, removed, link>>
listPart == <<lhead, ltail, lnext, lprev>>
bothPart == <<inPool, count, owner, at, got>>
MCVars == <<kind, vars, bothPart, mpscPart, listPart>>

\* p1 pushes and removes, c1 and c2 pop and push what they popped; the unit a
\* is the primary ULT, at home on c1.
Mpsc == INSTANCE MpscPool
          WITH Units <- {a, b}, Producers <- {p1}, Consumers <- {c1, c2}, Removers <- {p1},
               Primary <- a, Home <- c1, pc <- at, unit <- got

List == INSTANCE ListPool
          WITH Units <- {a, b, d}, Producers <- {p1}, Consumers <- {c1, c2}, Removers <- {p1},
               Primary <- a, Home <- c1, RemoveWhilePushed <- FALSE, pc <- at, unit <- got

\* The primary ULT is t1, at home where c1 runs.
One == INSTANCE UserPool WITH Users <- {q1}, MaxPools <- 2
Two == INSTANCE UserPool WITH Threads <- {t1}, Users <- {q1, q2}, MaxPools <- 3

NoBoth == inPool = None /\ count = None /\ owner = None /\ at = None /\ got = None
NoMpsc == tail = None /\ head = None /\ nxt = None /\ lk = None /\ removed = None /\ link = None
NoList == lhead = None /\ ltail = None /\ lnext = None /\ lprev = None

MCInit == /\ Init
          /\ \/ kind = "mpsc" /\ Mpsc!Init /\ NoList
             \/ kind = "list" /\ List!Init /\ NoMpsc
             \/ kind \in {"user", "users"} /\ NoBoth /\ NoMpsc /\ NoList

noMpsc == UNCHANGED <<kind, mpscPart, vars>>
noList == UNCHANGED <<kind, listPart, vars>>
onlyUser == UNCHANGED <<kind, bothPart, mpscPart, listPart>>

MCNext == \/ kind = "mpsc" /\ Mpsc!Next /\ noList
          \/ kind = "list" /\ List!Next /\ noMpsc
          \/ kind = "user" /\ One!Next /\ onlyUser
          \/ kind = "users" /\ Two!Next /\ onlyUser

\* The fairness of the built-in pools.
MCFairness ==
  /\ \A p \in {p1, c1, c2} : /\ WF_MCVars(kind = "mpsc" /\ Mpsc!PushStep(p) /\ noList)
                             /\ WF_MCVars(kind = "list" /\ List!Step(p) /\ noMpsc)
  /\ \A c \in {c1, c2} : /\ WF_MCVars(kind = "mpsc" /\ Mpsc!PopStep(c) /\ noList)
                         /\ SF_MCVars(kind = "mpsc" /\ Mpsc!pop_mpsc(c) /\ noList)
                         /\ WF_MCVars(kind = "list" /\ List!pop_list(c) /\ noMpsc)

MCSpec == MCInit /\ [][MCNext]_MCVars /\ MCFairness

-----------------------------------------------------------------------------
\* The abstract pool, read off whichever pool there is.
Pool == INSTANCE AbstractPool
          WITH PoolUnits <- {a, b, d}, PoolConsumers <- {c1, c2}, Nobody <- None,
               Pinned <- List!PinnedElsewhere,
               queue <- CASE kind = "mpsc" -> Mpsc!Queue [] kind = "list" -> List!Queue [] OTHER -> <<>>,
               got <- [c \in {c1, c2} |-> CASE kind = "mpsc" -> Mpsc!Taken(c) [] kind = "list" -> List!Taken(c)
                                            [] OTHER -> None]

\* Either pool is a FIFO over all producers that loses, duplicates and reorders
\* nothing, and passes over a unit only if it is pinned to another PE
\* (MpscPool!ImplementsPool, ListPool!ImplementsPool).
ImplementsPool == Pool!PoolSpec

\* The pool's books are right: no push finds its unit queued, which would be fatal,
\* count differs from the number of units by the operations under way only, and the
\* list reads the same in both directions (TypeOK, NeverQueuedTwice,
\* CountAccounted, ListIntact of the two modules; pool.cpp:56-137, 179-195).
PoolAccounted ==
  /\ kind = "mpsc" => Mpsc!TypeOK /\ Mpsc!NeverQueuedTwice /\ Mpsc!CountAccounted
  /\ kind = "list" => List!TypeOK /\ List!NeverQueuedTwice /\ List!CountAccounted /\ List!ListIntact

\* A unit that is in the pool leaves it while the consumers poll
\* (MpscPool!UnitsArePopped, ListPool!UnitsArePopped).
UnitsArePopped == \A u \in {a, b} : kind \in {"mpsc", "list"} /\ inPool[u]
                                     ~> kind \in {"mpsc", "list"} /\ ~inPool[u]
=============================================================================
