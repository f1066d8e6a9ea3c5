----------------------------- MODULE MCYieldNext -----------------------------
(* The schedulers for TLC: YieldNext and StackedSched.  YieldNext has pools   *)
(* p1 and p2, u1 and u2 in the first and u3 and u4 in the second, and four    *)
(* scenarios:                                                                *)
(*   "two"     two PEs share the pools; u3 is a tasklet;                     *)
(*   "randws"  the second pool is stolen from; u2 is a tasklet, u3 the       *)
(*             primary ULT;                                                  *)
(*   "order"   one PE, and units are pushed only by what runs on it;         *)
(*   "live"    one PE that is sent messages, under fairness.                 *)
(* In "stacked" a predefined scheduler of p2 is added to p1, in "loop" a     *)
(* user-defined one of both pools; their ULTs are woken from another PE, and *)
(* t1 and t2 are tasklets.                                                   *)
EXTENDS YieldNext

CONSTANTS p1, p2, u1, u2, u3, u4, t1, t2, s1, s2

VARIABLES scenario,
          st, upool, queue, num_blocked, parent, cur, task, prev, request, in_pool, step, waits, stack, handed  \* of StackedSched

TwoPools == <<p1, p2>>
HomeMixed == [u \in Units |-> IF u \in {u1, u2} THEN p1 ELSE p2]

Two == INSTANCE YieldNext WITH Units <- {u1, u2, u3}, Tasks <- {u3}, Mains <- {}, K <- 1, Asked <- {}
RandwsOne == INSTANCE YieldNext WITH PEs <- {1}, K <- 1, Randws <- TRUE
Ordered == INSTANCE YieldNext WITH PEs <- {1}, Asked <- {}, External <- FALSE
Live == INSTANCE YieldNext WITH PEs <- {1}, Units <- {u1, u2, u3}, Tasks <- {}, Mains <- {}, K <- 1

StackPools == [s \in {None, s1, s2} |-> CASE s = None -> <<p1>> [] s = s1 -> <<p2>> [] s = s2 -> <<p2, p1>>]
StackHome(us) == [u \in us |-> IF u \in {u1, s1, s2} THEN p1 ELSE p2]

Stacked == INSTANCE StackedSched WITH pool <- upool, at <- step,
  Ults <- {u1, u2}, Tasks <- {t1}, Scheds <- {s1}, UserDef <- {}, PoolsOf <- StackPools, Private <- {p2},
  Home <- StackHome({u1, u2, t1, s1}), MaxWaits <- 1, Remote <- TRUE
Loop == INSTANCE StackedSched WITH pool <- upool, at <- step,
  Ults <- {u1}, Tasks <- {t1, t2}, Scheds <- {s2}, UserDef <- {s2}, PoolsOf <- StackPools, Private <- {p2},
  Home <- StackHome({u1, t1, t2, s2}), MaxWaits <- 2, Remote <- TRUE

stackPart == <<st, upool, queue, num_blocked, parent, cur, task, prev, request, in_pool, step, waits, stack, handed>>
MCVars == <<scenario, vars, stackPart>>

NoStack == /\ st = None /\ upool = None /\ queue = None /\ num_blocked = None /\ parent = None /\ cur = None
           /\ task = None /\ prev = None /\ request = None /\ in_pool = None /\ step = None /\ waits = None
           /\ stack = None /\ handed = None

MCInit == /\ Init
          /\ \/ scenario \in {"two", "randws", "order", "live"} /\ NoStack
             \/ scenario = "stacked" /\ Stacked!Init
             \/ scenario = "loop" /\ Loop!Init

notYield == UNCHANGED <<scenario, vars>>

MCNext == \/ /\ \/ scenario = "two" /\ Two!Next
                \/ scenario = "randws" /\ RandwsOne!Next
                \/ scenario = "order" /\ Ordered!Next
                \/ scenario = "live" /\ Live!Next
             /\ UNCHANGED <<scenario, stackPart>>
          \/ scenario = "stacked" /\ Stacked!Next /\ notYield
          \/ scenario = "loop" /\ Loop!Next /\ notYield

\* Fairness: units suspend or end in the end, and the scheduling thread, which
\* visits its queue on every sweep, does not pass a message over for ever; a stacked
\* scheduler and its units go on, and blocked ULTs are woken from another PE.
MCSpec == /\ MCInit /\ [][MCNext]_MCVars
          /\ WF_vars(scenario = "live" /\ Live!PEStep(1))
          /\ SF_vars(scenario = "live" /\ Live!HandleMessages(1))
          /\ WF_MCVars(scenario = "stacked" /\ Stacked!PEStep /\ notYield)
          /\ WF_MCVars(scenario = "loop" /\ Loop!PEStep /\ notYield)
          /\ \A u \in {u1, u2} : WF_MCVars(scenario = "stacked" /\ Stacked!Wake(u) /\ notYield)
          /\ WF_MCVars(scenario = "loop" /\ Loop!Wake(u1) /\ notYield)

Sched == INSTANCE AbstractSched WITH
  queue <- IF scenario = "order" THEN Waiting(1) ELSE [p \in Pools |-> <<>>],
  cur <- IF scenario = "order" THEN Current(1) ELSE None,
  away <- IF scenario = "order" THEN Away(1) ELSE Units

\* The order of the units is that of the scheduler without direct switches: a ULT
\* that suspends counts as pushed back at once, a parked unit as the first of its
\* pool (xstream.cpp:46-54, sched.cpp:98-106).
KeepsOrder == Sched!ASpec

\* ULTs that switch to each other for ever starve neither the messages to their PE
\* nor a unit in the first pool (xstream.cpp:36-84, sched.cpp:98-106).
NobodyStarves ==
  /\ scenario = "live" /\ 1 \in msg ~> scenario = "live" /\ 1 \notin msg
  /\ \A u \in {u1, u2} :
       scenario = "live" /\ (\E i \in 1..Len(pool[p1]) : pool[p1][i] = u) ~> scenario = "live" /\ running[1] = u

\* Through any nesting of stacked schedulers, ABT_self_schedule and tasklets every
\* unit is in one place, a ULT that suspends returns to the one that resumed it, and
\* the sizes of pools and schedulers count what will come out of them (TypeOK,
\* ReturnsToResumer, UnitsOnce, SizesExact of StackedSched; pool.cpp:246-266, 356-368,
\* xstream.cpp:37-39).
StackKept ==
  /\ scenario = "stacked" => Stacked!TypeOK /\ Stacked!ReturnsToResumer /\ Stacked!UnitsOnce /\ Stacked!SizesExact
  /\ scenario = "loop" => Loop!TypeOK /\ Loop!ReturnsToResumer /\ Loop!UnitsOnce /\ Loop!SizesExact

\* A stacked scheduler that was not asked to exit ends only when the pools it has
\* alone hold no blocked ULT, and no unit but one that another PE pushed while it
\* looked (EndsDrained of StackedSched; sched.cpp:141-156, 174-195).
EndsDrained == [][scenario = "stacked" => Stacked!EndsEmpty(s1)]_MCVars

\* A stacked scheduler ends, whatever its units do, if those that block are woken from
\* another PE; a user-defined one once it is asked to (SchedsEnd of StackedSched;
\* sched.cpp:174-195).
SchedsEnd ==
  /\ scenario = "stacked" /\ in_pool[s1] ~> scenario = "stacked" /\ ~in_pool[s1]
  /\ scenario = "loop" /\ in_pool[s2] /\ request[s2] # {} ~> scenario = "loop" /\ ~in_pool[s2]
=============================================================================
