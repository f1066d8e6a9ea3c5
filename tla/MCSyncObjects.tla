--------------------------- MODULE MCSyncObjects ----------------------------
(* The rwlock, the barrier, the future and the eventual for TLC.  They do not *)
(* interact, so one behaviour is about one object: the initial state chooses *)
(* which.  The rwlock stays as it was created where it is not the one, and   *)
(* the variables of the others are None.                                     *)
EXTENDS RWLock

CONSTANTS t1, t2, t3, t4

\* The barrier and the future have a monitor, at and ready belong to several objects.
VARIABLES object, m_holder, m_queue, at, ready,
          num, waiting, generation, gen, waits, members, \* Barrier
          count, values, resets, called,                 \* Future
          slock, wl, signaled, run, list, setter, by, sets \* Eventual

monitorPart == <<m_holder, m_queue>>
barrierPart == <<num, waiting, generation, gen, waits, members>>
futurePart == <<count, values, resets, called>>
eventualPart == <<slock, wl, signaled, run, list, setter, by, sets>>
MCVars == <<object, vars, at, ready, monitorPart, barrierPart, futurePart, eventualPart>>

\* Three threads and a barrier for 0, 2 or 3 of them, reinitialised in between.
Ba == INSTANCE Barrier
        WITH Threads <- {t1, t2, t3}, Conds <- {"c"}, TimedThreads <- {}, Nums <- {0, 2, 3},
             MaxWaits <- 2,
             holder <- m_holder, queue <- m_queue, pc <- at

\* As many participants as the barrier counts.
BaFull == INSTANCE Barrier
            WITH Threads <- {t1, t2, t3}, Conds <- {"c"}, TimedThreads <- {}, Nums <- {3},
                 MaxWaits <- 3,
                 holder <- m_holder, queue <- m_queue, pc <- at

\* Two setters, two waiters, two compartments, one reset.
Fu == INSTANCE Future
        WITH Threads <- {t1, t2, t3, t4}, Conds <- {"c"}, TimedThreads <- {},
             Setters <- {t1, t4}, N <- 2, Resets <- 1,
             holder <- m_holder, queue <- m_queue, pc <- at

\* A future that is never reset.
FuOnce == INSTANCE Future
            WITH Threads <- {t1, t2, t3, t4}, Conds <- {"c"}, TimedThreads <- {},
                 Setters <- {t1, t4}, N <- 3, Resets <- 0,
                 holder <- m_holder, queue <- m_queue, pc <- at

\* A ULT and an external thread wait, a ULT and an external thread set and reset.
Ev == INSTANCE Eventual
        WITH Ults <- {t1, t2}, Externals <- {t3, t4}, Setters <- {t2, t4},
             TimedThreads <- {}, MaxCalls <- 1, pc <- at, calls <- sets

\* A ULT and an external thread wait with deadlines.
EvTimed == INSTANCE Eventual
             WITH Ults <- {t1}, Externals <- {t2, t3}, Setters <- {t3},
                  TimedThreads <- {t1, t2}, MaxCalls <- 1, pc <- at, calls <- sets

NoMonitor == m_holder = None /\ m_queue = None
NoBarrier == /\ num = None /\ waiting = None /\ generation = None
             /\ gen = None /\ waits = None /\ members = None
NoFuture == count = None /\ values = None /\ resets = None /\ called = None
NoEventual == /\ slock = None /\ wl = None /\ signaled = None /\ run = None
              /\ list = None /\ setter = None /\ by = None /\ sets = None

MCInit ==
  /\ Init
  /\ \/ /\ object = "rwlock" /\ at = [t \in {t1, t2, t3} |-> "out"] /\ ready = None
        /\ NoMonitor /\ NoBarrier /\ NoFuture /\ NoEventual
     \/ /\ \/ object = "barrier" /\ Ba!Init
           \/ object = "full barrier" /\ BaFull!Init
        /\ ready = None /\ NoFuture /\ NoEventual
     \/ /\ \/ object = "future" /\ Fu!Init
           \/ object = "future once" /\ FuOnce!Init
        /\ NoBarrier /\ NoEventual
     \/ /\ \/ object = "eventual" /\ Ev!Init
           \/ object = "timed eventual" /\ EvTimed!Init
        /\ NoMonitor /\ NoBarrier /\ NoFuture

notRw == UNCHANGED <<object, at, ready, monitorPart, barrierPart, futurePart, eventualPart>>
notBarrier == UNCHANGED <<object, vars, ready, futurePart, eventualPart>>
notFuture == UNCHANGED <<object, vars, barrierPart, eventualPart>>
notEventual == UNCHANGED <<object, vars, monitorPart, barrierPart, futurePart>>

MCNext == \/ object = "rwlock" /\ Next /\ notRw
          \/ object = "barrier" /\ Ba!Next /\ notBarrier
          \/ object = "full barrier" /\ BaFull!Next /\ notBarrier
          \/ object = "future" /\ Fu!Next /\ notFuture
          \/ object = "future once" /\ FuOnce!Next /\ notFuture
          \/ object = "eventual" /\ Ev!Next /\ notEventual
          \/ object = "timed eventual" /\ EvTimed!Next /\ notEventual

\* The fairness of each module, for the objects whose calls are bound to return.
MCFairness ==
  /\ WF_MCVars(object = "rwlock" /\ Progress /\ notRw)
  /\ WF_MCVars(object = "full barrier" /\ BaFull!Progress /\ notBarrier)
  /\ \A t \in {t1, t2, t3, t4} :
       /\ SF_MCVars(object = "future once" /\ FuOnce!Enter(t) /\ notFuture)
       /\ WF_MCVars(object = "future once" /\ FuOnce!Step(t) /\ notFuture)
       /\ WF_MCVars(object = "eventual" /\ Ev!Step(t) /\ notEventual)
  /\ \A t \in {t1, t4} :
       WF_MCVars(object = "future once" /\ FuOnce!ABT_future_set(t) /\ notFuture)

MCSpec == MCInit /\ [][MCNext]_MCVars /\ MCFairness

-----------------------------------------------------------------------------
\* The barrier, the future and the eventual.  A thread leaves the barrier only when
\* its round is full, and the count is that of the threads that wait in the current
\* generation (Barrier; sync.cpp:367-382).  The callback of a future runs once per
\* filling, on all values, and nobody is left in the queue of a ready future (Future;
\* sync.cpp:400-419).  A waiter of an eventual that has not been signaled is listed or
\* in the setter's hands, the set that ended a wait no longer touches the eventual when
\* the wait returns, and without deadlines a set touches a record only while its owner
\* waits (Eventual; sync.cpp:271-319).
ObjectsKept ==
  /\ object = "barrier" => Ba!TypeOK /\ Ba!RoundIsFull /\ Ba!WaitersAreCounted
  /\ object = "full barrier" => BaFull!TypeOK /\ BaFull!RoundIsFull /\ BaFull!WaitersAreCounted
  /\ object = "future" => Fu!TypeOK /\ Fu!CallbackOncePerFilling /\ Fu!ReadyReleases
  /\ object = "future once" => FuOnce!TypeOK /\ FuOnce!CallbackOncePerFilling /\ FuOnce!ReadyReleases
  /\ object = "eventual" => /\ Ev!TypeOK /\ Ev!WaiterAccounted /\ Ev!SetterIsGone
                            /\ Ev!WakeTouchesLiveRecord
  /\ object = "timed eventual" => EvTimed!TypeOK /\ EvTimed!WaiterAccounted /\ EvTimed!SetterIsGone

\* Every rwlock call returns as long as holders unlock (sync.cpp:343-357); with as
\* many participants as the barrier counts every wait returns (sync.cpp:375-382), so
\* does every wait for a future that is not reset (sync.cpp:400-415), and every wait
\* that a set took off the eventual's list (sync.cpp:310-319).
CallsReturn ==
  /\ \A t \in {t1, t2, t3} : /\ pc[t] # "out" ~> pc[t] = "out"
                             /\ object = "full barrier" /\ at[t] # "out" ~> at[t] = "out"
  /\ \A t \in {t2, t3} : object = "future once" /\ at[t] = "wait" ~> at[t] = "out"
  /\ \A w \in {t1, t3} : object = "eventual" /\ Ev!Detached(w) ~> at[w] \in {"returned", "out"}
=============================================================================
