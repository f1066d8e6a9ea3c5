---------------------------- MODULE StackedSched ----------------------------
(***************************************************************************)
(* Schedulers as work units (sched.cpp), ABT_self_schedule (thread.cpp) and *)
(* tasklets, on one PE: who resumed whom, where a unit that suspends        *)
(* returns to, and when a stacked scheduler ends.  Remote threads wake      *)
(* blocked ULTs and push them back.                                        *)
(*                                                                         *)
(* The PE's own scheduler is predefined, without direct switches (those are *)
(* in YieldNext).  The program schedules itself only units that it popped,  *)
(* and a tasklet runs no ULT.                                              *)
(***************************************************************************)
EXTENDS Integers, Sequences, SequencesExt, FiniteSets

CONSTANTS Ults, Tasks,
          Scheds,     \* the schedulers that can be stacked
          UserDef,    \* those whose run function is the program's loop
          PoolsOf,    \* PoolsOf[s]: the pools of scheduler s; PoolsOf[None]: of the PE's own
          Private,    \* the pools with access ABT_POOL_ACCESS_PRIV
          Home,       \* Home[u]: the pool unit u is created in, the one a scheduler is added to
          MaxWaits,   \* how often a ULT yields or blocks
          Remote,     \* other PEs wake ULTs
          None

AllUnits == Ults \cup Tasks \cup Scheds
Pools == UNION {ToSet(PoolsOf[s]) : s \in Scheds \cup {None}}

VARIABLES st,          \* queued, running (or below what runs), blocked, waking, done; new: a scheduler not added
          pool,        \* t->pool
          queue,       \* queue[p]: the units in pool p
          num_blocked, \* p->num_blocked
          parent,      \* t->parent
          cur,         \* the ULT whose stack the PE is on, None: its scheduling thread's
          task, prev,  \* ABTI_tls_task; the value that tasklet t restores
          request,     \* request[s]: s->request
          in_pool,     \* s->in_pool
          at,          \* a stacked scheduler: 0 to pop, i when sched_has_unit reads pool i
          waits,       \* waits of each ULT so far
          stack,       \* the units that resumed one another, the last of them runs
          handed       \* the units whose last push came from another PE

vars == <<st, pool, queue, num_blocked, parent, cur, task, prev, request, in_pool, at, waits, stack, handed>>

Init == /\ st = [u \in AllUnits |-> IF u \in Scheds THEN "new" ELSE "queued"]
        /\ pool = Home
        /\ queue = [p \in Pools |-> SetToSeq({u \in Ults \cup Tasks : Home[u] = p})]
        /\ num_blocked = [p \in Pools |-> 0]
        /\ parent = [u \in AllUnits |-> None] /\ cur = None
        /\ task = None /\ prev = [t \in Tasks |-> None]
        /\ request = [s \in Scheds |-> {}] /\ in_pool = [s \in Scheds |-> FALSE]
        /\ at = [s \in Scheds |-> 0] /\ waits = [u \in Ults |-> 0]
        /\ stack = <<>> /\ handed = {}

\* ABTI_self_thread: a tasklet runs on the stack of who resumed it.
self == IF task # None THEN task ELSE cur

num_scheds(p) == Cardinality({s \in Scheds \cup {None} : p \in ToSet(PoolsOf[s])})

VariantCaller == IF cur # None /\ parent[cur] = None THEN cur ELSE None

\* The parent of a unit that is resumed: the ULT that resumes it.
caller == IF self \in Tasks THEN None ELSE self

\* What a tasklet leaves in ABTI_tls_task.
Restore(t) == prev[t]

\* ABTI_pool_run_thread, after the unit was taken out of pool p.
run_thread(t, p) ==
  /\ queue' = [queue EXCEPT ![p] = Tail(@)]
  /\ st' = [st EXCEPT ![t] = "running"]
  /\ parent' = [parent EXCEPT ![t] = caller]
  /\ stack' = Append(stack, t)
  /\ handed' = handed \ {t}
  /\ IF t \in Tasks
     THEN /\ prev' = [prev EXCEPT ![t] = task] /\ task' = t
          /\ UNCHANGED cur
     ELSE cur' = t /\ UNCHANGED <<task, prev>>
  /\ UNCHANGED <<num_blocked, request, in_pool, waits>>

\* ABTI_sched_pop_by_policy finds unit t in pool p.
pop_by_policy(s, t, p) ==
  \E i \in 1..Len(PoolsOf[s]) :
    /\ p = PoolsOf[s][i] /\ queue[p] # <<>> /\ t = Head(queue[p])
    /\ \A j \in 1..(i-1) : queue[PoolsOf[s][j]] = <<>>

\* ABTI_poll_sched in the scheduling thread.
poll_sched == /\ self = None
              /\ \E p \in Pools : \E t \in ToSet(queue[p]) : pop_by_policy(None, t, p) /\ run_thread(t, p)
              /\ UNCHANGED <<pool, at>>

\* Control leaves ULT u: ABTI_choose_fn answers the parent, else the scheduling thread.
choose_fn(u) == cur' = parent[u] /\ stack' = Front(stack)

Runs(u) == cur = u /\ task = None /\ u \in Ults

Push(q, t) == [q EXCEPT ![pool[t]] = Append(@, t)]

\* ABT_thread_yield: pushed back once it is off its stack.
thread_yield(u) ==
  /\ Runs(u) /\ waits[u] < MaxWaits
  /\ waits' = [waits EXCEPT ![u] = @ + 1]
  /\ st' = [st EXCEPT ![u] = "queued"] /\ queue' = Push(queue, u)
  /\ choose_fn(u)
  /\ UNCHANGED <<pool, num_blocked, parent, task, prev, request, in_pool, at, handed>>

\* ABTI_thread_block.
thread_block(u) ==
  /\ Runs(u) /\ waits[u] < MaxWaits
  /\ waits' = [waits EXCEPT ![u] = @ + 1]
  /\ st' = [st EXCEPT ![u] = "blocked"]
  /\ num_blocked' = [num_blocked EXCEPT ![pool[u]] = @ + 1]
  /\ choose_fn(u)
  /\ UNCHANGED <<pool, queue, parent, task, prev, request, in_pool, at, handed>>

\* The unit returns from its function: a ULT switches away, a tasklet retires.
Return(u) ==
  /\ Runs(u) /\ st' = [st EXCEPT ![u] = "done"] /\ choose_fn(u)
  /\ UNCHANGED <<pool, queue, num_blocked, parent, task, prev, request, in_pool, at, waits, handed>>

TaskReturn ==
  /\ task # None
  /\ st' = [st EXCEPT ![task] = "done"] /\ task' = Restore(task) /\ stack' = Front(stack)
  /\ UNCHANGED <<pool, queue, num_blocked, parent, cur, prev, request, in_pool, at, waits, handed>>

\* ABTI_thread_awaken_fn, called by what runs on this PE.
Awaken(b) ==
  /\ self \in Ults \cup Tasks /\ st[b] = "blocked"
  /\ num_blocked' = [num_blocked EXCEPT ![pool[b]] = @ - 1]
  /\ st' = [st EXCEPT ![b] = "queued"] /\ queue' = Push(queue, b)
  /\ UNCHANGED <<pool, parent, cur, task, prev, request, in_pool, at, waits, stack, handed>>

\* The same, called on another PE: it counts down, then pushes.
RemoteUncount(b) ==
  /\ Remote /\ st[b] = "blocked"
  /\ num_blocked' = [num_blocked EXCEPT ![pool[b]] = @ - 1]
  /\ st' = [st EXCEPT ![b] = "waking"]
  /\ UNCHANGED <<pool, queue, parent, cur, task, prev, request, in_pool, at, waits, stack, handed>>

RemotePush(b) ==
  /\ st[b] = "waking"
  /\ st' = [st EXCEPT ![b] = "queued"] /\ queue' = Push(queue, b) /\ handed' = handed \cup {b}
  /\ UNCHANGED <<pool, num_blocked, parent, cur, task, prev, request, in_pool, at, waits, stack>>

\* ABT_self_schedule by a ULT of a unit popped from p, with a pool q to associate it
\* with, or None.
self_schedule(p, q) ==
  /\ self \in Ults /\ queue[p] # <<>>
  /\ LET t == Head(queue[p]) IN
     /\ run_thread(t, p)
     /\ pool' = [pool EXCEPT ![t] = IF q = None THEN @ ELSE q]
  /\ UNCHANGED at

\* ABT_xstream_run_unit of a unit popped from p; a tasklet runs tasklets only.
run_unit(p) ==
  /\ self \in Ults \cup Tasks /\ queue[p] # <<>>
  /\ self \in Tasks => Head(queue[p]) \in Tasks
  /\ run_thread(Head(queue[p]), p)
  /\ UNCHANGED <<pool, at>>

\* ABT_pool_add_sched by the unit that runs: a new ULT for the scheduler.
add_to_pool(s) ==
  /\ self \in Ults /\ ~in_pool[s] /\ st[s] = "new"
  /\ in_pool' = [in_pool EXCEPT ![s] = TRUE]
  /\ st' = [st EXCEPT ![s] = "queued"] /\ queue' = Push(queue, s)
  /\ UNCHANGED <<pool, num_blocked, parent, cur, task, prev, request, at, waits, stack, handed>>

\* ABT_sched_finish and ABT_sched_exit.
sched_request(s, r) ==
  /\ self \in Ults /\ request' = [request EXCEPT ![s] = @ \cup {r}]
  /\ UNCHANGED <<st, pool, queue, num_blocked, parent, cur, task, prev, in_pool, at, waits, stack, handed>>

InLoop(s) == cur = s /\ task = None

\* The loop of a stacked scheduler resumes the next unit; a user-defined one takes
\* it from any of its pools.
SchedPop(s) ==
  /\ InLoop(s) /\ at[s] = 0 /\ (s \notin UserDef => "exit" \notin request[s])
  /\ \E p \in ToSet(PoolsOf[s]) : \E t \in ToSet(queue[p]) :
       /\ IF s \in UserDef THEN t = Head(queue[p]) ELSE pop_by_policy(s, t, p)
       /\ run_thread(t, p)
  /\ UNCHANGED <<pool, at>>

SchedEmpty(s) ==
  /\ InLoop(s) /\ at[s] = 0 /\ (s \notin UserDef => "exit" \notin request[s])
  /\ \A p \in ToSet(PoolsOf[s]) : queue[p] = <<>>
  /\ at' = [at EXCEPT ![s] = 1]
  /\ UNCHANGED <<st, pool, queue, num_blocked, parent, cur, task, prev, request, in_pool, waits, stack, handed>>

\* Whose blocked ULTs count: no other scheduler has the pool, or, for
\* sched_has_unit, no other execution stream.
Alone(s, p) == num_scheds(p) = 1 \/ (s \notin UserDef /\ p \in Private)

VariantHolds(s, p) == queue[p] # <<>>

\* What sched_has_unit and ABT_sched_has_to_stop find in one pool: a unit, or a
\* blocked ULT if the pool is the scheduler's alone.
Holds(s, p) == queue[p] # <<>> \/ (Alone(s, p) /\ num_blocked[p] > 0)

\* The next pool of sched_has_unit: a unit sends the scheduler to wait, for a push
\* or 10 ms, and to its loop.
HasUnit(s) ==
  /\ InLoop(s) /\ at[s] \in 1..Len(PoolsOf[s])
  /\ at' = [at EXCEPT ![s] = IF Holds(s, PoolsOf[s][@]) THEN 0 ELSE @ + 1]
  /\ UNCHANGED <<st, pool, queue, num_blocked, parent, cur, task, prev, request, in_pool, waits, stack, handed>>

\* Variant: the request to finish is not looked at.
VariantStop(s) == "exit" \in request[s]

\* A user-defined loop ends when ABT_sched_has_to_stop says so.
has_to_stop(s) == "exit" \in request[s] \/ ("finish" \in request[s] /\ at[s] > Len(PoolsOf[s]))

\* stacked_sched_main returns: on request, or because its pools hold nothing.
SchedEnds(s) ==
  /\ InLoop(s)
  /\ IF s \in UserDef THEN has_to_stop(s)
     ELSE IF at[s] = 0 THEN "exit" \in request[s] ELSE at[s] > Len(PoolsOf[s])
  /\ in_pool' = [in_pool EXCEPT ![s] = FALSE] /\ at' = [at EXCEPT ![s] = 0]
  /\ st' = [st EXCEPT ![s] = "done"] /\ choose_fn(s)
  /\ UNCHANGED <<pool, queue, num_blocked, parent, task, prev, request, waits, handed>>

\* ABT_pool_get_size and ABT_pool_get_total_size, ABT_sched_get_total_size.
pool_get_size(p) == Len(queue[p])
pool_get_total_size(p) == Len(queue[p]) + (IF num_blocked[p] > 0 THEN num_blocked[p] ELSE 0)
sched_get_total_size(s) == FoldLeft(LAMBDA n, p : n + pool_get_total_size(p), 0, PoolsOf[s])

\* A user-defined loop that is not to stop starts over.
SchedAgain(s) ==
  /\ InLoop(s) /\ s \in UserDef /\ at[s] > Len(PoolsOf[s]) /\ ~has_to_stop(s)
  /\ at' = [at EXCEPT ![s] = 0]
  /\ UNCHANGED <<st, pool, queue, num_blocked, parent, cur, task, prev, request, in_pool, waits, stack, handed>>

SchedStep(s) == SchedPop(s) \/ SchedEmpty(s) \/ HasUnit(s) \/ SchedEnds(s) \/ SchedAgain(s)

\* What the PE goes on with when the program makes no further calls.
PEStep == poll_sched \/ TaskReturn \/ (\E u \in Ults : Return(u)) \/ (\E s \in Scheds : SchedStep(s))

Wake(b) == RemoteUncount(b) \/ RemotePush(b)

Next == \/ PEStep
        \/ \E u \in Ults : thread_yield(u) \/ thread_block(u) \/ Awaken(u) \/ Wake(u)
        \/ \E p \in Pools : run_unit(p) \/ \E q \in Pools \cup {None} : self_schedule(p, q)
        \/ \E s \in Scheds : add_to_pool(s) \/ sched_request(s, "finish") \/ sched_request(s, "exit")

Spec == Init /\ [][Next]_vars

\* Types.
TypeOK ==
  /\ st \in [AllUnits -> {"new", "queued", "running", "blocked", "waking", "done"}]
  /\ pool \in [AllUnits -> Pools] /\ queue \in [Pools -> Seq(AllUnits)] /\ num_blocked \in [Pools -> Int]
  /\ parent \in [AllUnits -> AllUnits \cup {None}] /\ cur \in AllUnits \cup {None}
  /\ task \in Tasks \cup {None} /\ prev \in [Tasks -> Tasks \cup {None}]
  /\ request \in [Scheds -> SUBSET {"finish", "exit"}] /\ in_pool \in [Scheds -> BOOLEAN]
  /\ at \in [Scheds -> Nat] /\ waits \in [Ults -> 0..MaxWaits]
  /\ stack \in Seq(AllUnits) /\ handed \subseteq AllUnits

\* The ULTs among the units that resumed one another.
UltsOnStack == SelectSeq(stack, LAMBDA u : u \notin Tasks)

\* The calling unit is the one that runs, and every ULT that runs or waits for the
\* unit it resumed returns to the ULT that resumed it, through any nesting of
\* stacked schedulers and ABT_self_schedule (pool.cpp:246-266, xstream.cpp:37-39).
ReturnsToResumer ==
  LET us == UltsOnStack IN
  /\ self = (IF stack = <<>> THEN None ELSE Last(stack))
  /\ \A i \in 1..Len(us) : parent[us[i]] = (IF i = 1 THEN None ELSE us[i-1])

\* Every unit is in one place: in one pool, once, if it is queued, and on the stack,
\* once, if it runs.
UnitsOnce ==
  \A u \in AllUnits :
    /\ Cardinality({<<p, i>> \in Pools \X (1..Cardinality(AllUnits)) : i <= Len(queue[p]) /\ queue[p][i] = u})
         = (IF st[u] = "queued" THEN 1 ELSE 0)
    /\ Cardinality({i \in 1..Len(stack) : stack[i] = u}) = (IF st[u] = "running" THEN 1 ELSE 0)

\* What a pool and a scheduler say they hold are the units that will come out of
\* their pools: those queued, and the blocked ones, each under the pool it returns to,
\* also after ABT_self_schedule has moved it (pool.cpp:356-368, sched.cpp:267-277).
SizesExact ==
  /\ \A p \in Pools : pool_get_size(p) = Cardinality({u \in AllUnits : pool[u] = p /\ st[u] = "queued"})
  /\ \A s \in Scheds \cup {None} : sched_get_total_size(s) =
       Cardinality({u \in AllUnits : pool[u] \in ToSet(PoolsOf[s]) /\ st[u] \in {"queued", "blocked"}})

\* A stacked scheduler that was not asked to exit ends only when the pools it has
\* alone hold no blocked ULT, and no unit but one that another PE pushed while it
\* looked (sched.cpp:141-156, 174-195).
EndsEmpty(s) ==
  in_pool[s] /\ ~in_pool'[s] /\ "exit" \notin request[s] =>
    \A u \in Ults : pool[u] \in ToSet(PoolsOf[s]) /\ Alone(s, pool[u]) =>
      st[u] # "blocked" /\ (st[u] = "queued" => u \in handed)
EndsDrained == [][\A s \in Scheds \ UserDef : EndsEmpty(s)]_vars

\* A stacked scheduler ends, whatever its units do, if those that block are woken
\* from another PE (sched.cpp:174-195).
SchedsEnd ==
  \A s \in Scheds : in_pool[s] /\ (s \in UserDef => request[s] # {}) ~> ~in_pool[s]
=============================================================================
