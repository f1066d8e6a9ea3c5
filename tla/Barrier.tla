------------------------------ MODULE Barrier -------------------------------
(***************************************************************************)
(* ABT_barrier (sync.cpp): a mutex, a condition, the number of arrivals in *)
(* the current round and a generation that tells one round from the next,  *)
(* so that a thread may arrive for the next round while others of this one *)
(* have not yet been scheduled again.  Mutex and condition are used        *)
(* through AbstractMonitor.                                                *)
(***************************************************************************)
EXTENDS AbstractMonitor, FiniteSets, Naturals

CONSTANTS Nums,          \* the values of num_waiters the callers use
          MaxWaits       \* bound: how often each thread waits

VARIABLES num, waiting, generation,   \* the fields of ABTI_barrier
          pc,        \* where each thread is in ABT_barrier_wait
          gen,       \* gen[t]: the local variable gen
          waits,     \* waits of t that have returned
          members    \* history: the threads that arrived in each generation

barrierVars == <<num, waiting, generation, pc, gen, waits, members>>
vars == <<monitorVars, barrierVars>>

Generations == 0..Cardinality(Threads) * MaxWaits

\* ABT_barrier_create.
Init == /\ MonitorInit
        /\ num \in Nums
        /\ waiting = 0
        /\ generation = 0
        /\ pc = [t \in Threads |-> "out"]
        /\ gen = [t \in Threads |-> 0]
        /\ waits = [t \in Threads |-> 0]
        /\ members = [g \in Generations |-> {}]

Goto(t, l) == pc' = [pc EXCEPT ![t] = l]

ABT_barrier_wait(t) == /\ pc[t] = "out" /\ waits[t] < MaxWaits
                       /\ Goto(t, "arrive")
                       /\ UNCHANGED <<monitorVars, num, waiting, generation, gen, waits, members>>

\* A barrier is given a new size only while nobody is inside a wait.
ABT_barrier_reinit(n) == /\ \A t \in Threads : pc[t] = "out"
                         /\ n # num
                         /\ num' = n
                         /\ waiting' = 0
                         /\ UNCHANGED <<monitorVars, generation, pc, gen, waits, members>>

\* ABT_mutex_lock(b->m), and the lock at the end of ABT_cond_wait.
Enter(t) == /\ pc[t] \in {"arrive", "loop"}
            /\ Acquire(t)
            /\ UNCHANGED barrierVars

Arrive(t) == /\ pc[t] = "arrive" /\ holder = t
             /\ gen' = [gen EXCEPT ![t] = generation]
             /\ members' = [members EXCEPT ![generation] = @ \cup {t}]

\* Variant: the arrivals of the finished round are not reset.
VariantLastArrival(t) ==
  /\ Arrive(t)
  /\ waiting + 1 >= num
  /\ waiting' = waiting + 1
  /\ generation' = generation + 1
  /\ Broadcast("c")
  /\ Goto(t, "leave")
  /\ UNCHANGED <<num, waits>>

\* The last arrival of a round starts the next one and wakes everyone.
LastArrival(t) ==
  /\ Arrive(t)
  /\ waiting + 1 >= num
  /\ waiting' = 0
  /\ generation' = generation + 1
  /\ Broadcast("c")
  /\ Goto(t, "leave")
  /\ UNCHANGED <<num, waits>>

\* Any other arrival waits: the first loop test finds gen = generation.
EarlyArrival(t) ==
  /\ Arrive(t)
  /\ waiting + 1 < num
  /\ waiting' = waiting + 1
  /\ Wait(t, "c")
  /\ Goto(t, "loop")
  /\ UNCHANGED <<num, generation, waits>>

\* Back from ABT_cond_wait with b->m held: the loop test.  A broadcast always
\* comes with a new generation, so the test is there for other wakes only.
Loop(t) == /\ pc[t] = "loop" /\ holder = t
           /\ IF gen[t] = generation
              THEN Wait(t, "c") /\ UNCHANGED pc
              ELSE Goto(t, "leave") /\ UNCHANGED monitorVars
           /\ UNCHANGED <<num, waiting, generation, gen, waits, members>>

Leave(t) == /\ pc[t] = "leave"
            /\ Release(t)
            /\ waits' = [waits EXCEPT ![t] = @ + 1]
            /\ Goto(t, "out")
            /\ UNCHANGED <<num, waiting, generation, gen, members>>

Step(t) == Enter(t) \/ LastArrival(t) \/ EarlyArrival(t) \/ Loop(t) \/ Leave(t)

Next == \/ \E t \in Threads : ABT_barrier_wait(t) \/ Step(t)
        \/ \E n \in Nums : ABT_barrier_reinit(n)

\* Fairness: as long as a participant can arrive or go on, one does (the arrivals
\* are finitely many, so nothing is asked of a single thread).
Progress == \E t \in Threads : ABT_barrier_wait(t) \/ Step(t)

Spec == Init /\ [][Next]_vars
FairSpec == Spec /\ WF_vars(Progress)

-----------------------------------------------------------------------------
\* The state has its types.
TypeOK == /\ holder \in Threads \cup {None}
          /\ queue \in [Conds -> Seq(Threads)]
          /\ num \in Nums
          /\ waiting \in 0..Cardinality(Threads)
          /\ generation \in Generations
          /\ pc \in [Threads -> {"out", "arrive", "loop", "leave"}]
          /\ gen \in [Threads -> Generations]
          /\ waits \in [Threads -> 0..MaxWaits]
          /\ members \in [Generations -> SUBSET Threads]

\* A thread leaves only a full round: num different threads have arrived in
\* the generation it arrived in, however early the others start the next one
\* (sync.cpp:378-380).
RoundIsFull ==
  \A t \in Threads : pc[t] = "leave" =>
    Cardinality(members[gen[t]]) = IF num = 0 THEN 1 ELSE num

\* The threads counted in waiting are the ones still waiting for this
\* generation; the ones of a finished generation are all off the queue.
WaitersAreCounted ==
  /\ waiting = Cardinality({t \in Threads : pc[t] = "loop" /\ gen[t] = generation})
  /\ \A i \in DOMAIN queue["c"] : gen[queue["c"][i]] = generation

\* With as many participants as the barrier counts, every wait returns.
BarrierReleases == \A t \in Threads : pc[t] # "out" ~> pc[t] = "out"
=============================================================================
