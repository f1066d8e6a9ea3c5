# A TLA+ model of abt-reconverse

abt-reconverse implements the Argobots threading API (ULTs, tasklets, pools,
schedulers, execution streams and synchronization objects) on the Reconverse
runtime.  This directory holds TLA+ models of its parts, the TLC
configurations that check them on small instances, and TLAPS proofs about the
mutex, the condition variable and the monitor they make, the rwlock, waiting for a
pool, user-defined pools, yield-to-next, work-unit keys, CPU binding and the start of
the runtime.
Paths below are relative to `src/src/`.

## The system and its parts

| Part | Code | Modules |
| --- | --- | --- |
| Mutex | `sync.cpp` | `Mutex`, `AbstractLock`, `MutexProofs` |
| Condition variable | `sync.cpp` | `Cond`, `AbstractMonitor`, `CondProofs` |
| Rwlock, barrier, future | `sync.cpp` | `RWLock`, `Barrier`, `Future` over `AbstractMonitor`; `RWLockProofs` |
| Eventual | `sync.cpp` | `Eventual` |
| Built-in pools | `pool.cpp`, `abti.h` | `MpscPool`, `ListPool`, `AbstractPool` |
| Waiting for a pool | `pool.cpp`, `xstream.cpp`, `sched.cpp` | `PoolWake`, `PoolWakeProofs` |
| Life of a work unit | `thread.cpp` | `ThreadLife` |
| Blocking, waking, migration, drain check | `thread.cpp`, `xstream.cpp` | `Blocked` |
| User-defined pools | `pool.cpp` | `UserPool`, `UserPoolProofs` |
| Keys | `thread.cpp` | `Keys`, `KeysProofs` |
| Attributes, queries, suspend and exit | `thread.cpp` | `WorkUnits` |
| Execution streams as leased PEs | `xstream.cpp` | `XstreamLease` |
| CPU binding, `ABTI_run_on_pe` | `xstream.cpp` | `Affinity`, `RuntimeProofs` |
| Scheduler and pool objects, `set_main_sched` | `sched.cpp`, `pool.cpp`, `xstream.cpp` | `SchedObjects` |
| Predefined schedulers, yield-to-next | `sched.cpp`, `xstream.cpp` | `YieldNext`, `AbstractSched`, `YieldNextProofs` |
| Stacked schedulers, `ABT_self_schedule` | `sched.cpp`, `pool.cpp` | `StackedSched` |
| Scheduler configurations | `sched.cpp` | `Config` |
| Initialization and finalization | `init.cpp` | `Finalize`, `ProcessRuntime`, `NumPes`; `RuntimeProofs` |
| Timers; answers about PEs and stacks | `misc.cpp` | `Timer`, `NumPes` |
| Error strings, printing, tools | `misc.cpp` | not modelled: formatting, stubs |
| Reconverse | external | as far as the code uses it |

How they interact.  A process starts the runtime once, with one OS thread (a PE)
per possible execution stream.  An execution stream is a PE leased by
`ABT_xstream_create`: the creator sends the PE a message with the lease and one
with the poll table of the scheduler, and a join sets a flag that the idle PE
sees once its pools are drained.  A scheduler pops units from its pools; a ULT
that suspends may pop the next unit itself and switch to it directly.  A pool is
a FIFO, lock-free when one PE consumes it and a spinlocked list when several do.
A push looks for timed pops and sleeping PEs and wakes one.  A ULT blocks in a
synchronization object through `CthSuspendBlocked`, which releases the object's
spinlock only after the ULT has left its stack; whoever pops its record from the
wait list wakes it with `CthAwakenIfBlocked`, and the awaken function pushes it
into its pool.  Threads that cannot block (external threads and tasklets) spin
on a flag in their record instead.

## How the modules follow the code

An action is named after the function, or the part of it, that it models.  Code
between two points where other threads can interfere is one action: the body of
a spinlocked region is one step when nothing else reads the fields without the
lock, and is split at every access that others do see (`terminated`, `finished`,
`in_pool`, `count`, the links of the lock-free queue, the flag in a waiter's
record).  `pc` says where a thread is inside a call, `"out"` that it is between
calls.  Definitions whose name begins with `Variant` are mutations of the
definition that follows them; no specification uses them.

- **`Mutex`** has the fields of `ABTI_mutex` (`slock`, `locked`, `owner`,
  `nesting`, `wl`), the `signaled` flag of each stack record, and the Converse
  state of each ULT.  A ULT that has listed itself becomes BLOCKED in one step
  and its post-switch action releases `slock` in another.  `AbstractLock` is a
  lock with a holder and a depth.
- **`Cond`** extends `Mutex`.  A wait lists its record under the condition's
  spinlock and unlocks the mutex while it holds that spinlock; the unlock and
  the relock are the steps of `Mutex`.  A timed waiter polls, and after the
  deadline removes its record under the spinlock.  Signal pops a record and
  broadcast detaches the list; the records are woken later, outside the
  spinlock, in two steps each (the store to the flag, `CthAwakenIfBlocked`).
  `AbstractMonitor` is a mutex with condition queues and an atomic wait.
- **`RWLock`**, **`Barrier`**, **`Future`** are written in the code with a mutex
  and condition variables; their modules use `AbstractMonitor`, which the `cond`
  run shows to be what mutex and condition variable implement.
- **`Eventual`** has its own spinlock and list, and a set that detaches the whole
  list, releases the spinlock and then wakes.
- **`MpscPool`** models the Vyukov queue access by access, with the unit's
  `in_pool` flag, lazy removal, the stub and the count; **`ListPool`** the
  two-way list under `lk`.  Both implement `AbstractPool`, a FIFO in which only
  the primary ULT, pinned to its PE, may be passed over.
- **`PoolWake`** abstracts the queue to a sequence with push gaps and models the
  handshake between pushes and those who wait: `waiters` and the condition
  variable of timed pops, `nsleepers` and the sleeper mask of idle PEs and of
  stacked schedulers.
- **`UserPool`** gives each thread of a user-defined pool the unit that the user's
  functions made, an address that is given out again after `u_free`.  Associate and
  disassociate are split where the map's mutex is dropped, so that another agent
  gets the address between the erase, the free and the entry; a pop is split between
  `p_pop`, the lookup with the put-back of a pinned unit, and the second `p_pop`.
- **`ThreadLife`** models descriptors as slots of memory with a cache per OS
  thread, so that a freed descriptor can hold another unit while an older
  reference is still used.
- **`Blocked`** models `blocked_counted`, `blocked_pool` and `num_blocked`
  through blocking, yielding, waking, migration and re-association, and the
  drain check that reads size and blocked count of each pool in turn.
- **`Keys`** has each ULT's vector of values, the table of destructors and the pass
  of `run_key_destructors`, one slot a step; a destructor may set and clear any
  value while it runs.  Every value set is new, so that the history tells which
  destructor got it.
- **`WorkUnits`** is what the program sees of ULTs and tasklets: ids, states, stack
  sizes (an `int` in `CthCreate`), the queries about oneself and others, suspend,
  resume and exit.
- **`XstreamLease`** has one FIFO of messages per PE, the PE's installed table
  and thread-local execution stream, and the creators, joiners and freers.
- **`YieldNext`** has the pools, the parked unit (`ABTI_held`), the chain counter,
  and the suspended ULT's deferred action (push back, block, end), which runs
  after the switch.  The primary ULT has no choose function (`thread.cpp:128-144`,
  unlike `:220`) and always suspends to the scheduling thread.  `AbstractSched` is a scheduler without direct switches.
- **`StackedSched`** is one PE with its scheduler, schedulers added to its pools and
  units that schedule others themselves.  `parent`, `ABTI_tls_task` and the value a
  tasklet restores are the code's; `stack` records who really resumed whom.
- **`SchedObjects`** has the schedulers with their pools, `used_by`, `in_pool` and
  `num_scheds`, the scheduler that each PE polls and the tables on their way to it.
- **`Affinity`** has the messages to each PE about lease and binding, the thread's
  CPU mask, and the frame of an external thread that waits in `ABTI_run_on_pe`.
- **`Timer`** has `CmiWallTimer`, whose origin moves when the runtime starts;
  **`Config`** the map of typed entries and what a scheduler takes from it.
- **`Finalize`** is `ABT_init` and `ABT_finalize` in one process with the drain: units
  switch to each other directly, the primary ULT suspends to the scheduling thread,
  and ULTs that block are in no pool until they are woken (`asleep`), or for good if
  Argobots is finalized before that (`stranded`);
  **`ProcessRuntime`** the flags of `init.cpp` over `fork` and `exit`;
  **`NumPes`** the rule for the number of PEs in C's `long`, whose overflow is a
  choice between the results a build can give, and for the default stack size.

## The runs

`tlc -config <run>.cfg <module>`; each finishes within about two minutes.
Objects that do not interact share a run: the initial state chooses the object
(`MCSyncObjects`, `MCPools`, `MCRuntime`, `MCObjects`) or the scenario, a set of roles and
bounds (the other MC modules), so one behaviour is always about one of them.  An MC
module extends one component, whose variables stay as they were initially while
another object is chosen, and instantiates the others.

An invariant of a run that joins several, with the type invariant, is defined in the
module it is about if that is the extended one (`RWLockKept`, `KeysKept`), otherwise
in the MC module (`ObjectsKept`, `LeaseExact`), and names them.

| Run | Instance | What it shows |
| --- | --- | --- |
| `mutex` | 2 ULTs and an external thread, a recursive mutex, nesting 1 | exclusion (`HolderExclusive`), records woken while their owner waits (`WakeReachesWaiter`), no free mutex with sleepers and nobody to wake them (`NoLostWakeup`), `AbstractLock` implemented (`ImplementsLock`), every listed waiter popped (`WaiterIsWoken`) |
| `cond` | untimed: 2 ULTs wait, anybody signals with or without the mutex; timed: a ULT and a timed external thread wait, signals come from holders of the mutex | a list of exactly those who wait, and success means signaled (`CondListKept`); wakes reach live records only (`WakeTouchesLiveRecord`); `AbstractMonitor` implemented, so that the wait is atomic (`ImplementsMonitor`); everyone detached leaves the wait (`DetachedReturns`) |
| `sync_objects` | rwlock: 3 threads, 2 calls each; barrier: 3 threads, sizes 0, 2, 3 with reinit, and size 3 for three rounds; future: 2 setters, 2 waiters, with a reset, and 3 compartments without; eventual: 2 waiters, 2 setters, and 2 timed waiters | rwlock exclusion and wakeups (`RWLockKept`), full rounds, one callback per filling, no waiter missed and a set out of the eventual when the wait it ends returns (`ObjectsKept`), and every call that can return returns (`CallsReturn`) |
| `pools` | a producer that also removes, 2 PEs that push back, 2 or 3 units, one the primary ULT; 2 agents, threads and units with a built-in and one or two user-defined pools | both pools implement `AbstractPool` (`ImplementsPool`); `push` never finds its unit queued, the count differs from the length by the operations under way, the list is intact (`PoolAccounted`); queued units are popped (`UnitsArePopped`); the map of units is the inverse of the threads' units, none leaks, and what is popped leads to what was pushed (`UnitMapExact`) |
| `pool_wake` | 2 units; a timed pop with an idle PE, two timed pops, an idle PE on a lock-free and on a user pool, a stacked scheduler | nobody sleeps beside a unit without a pending wake (`NobodyMissed`), and units are taken even if no wait times out (`UnitsAreTaken`) |
| `thread_life` | join and free from the other PE, from an external thread, and on one PE with recycled descriptors; 2 or 3 units | join means ended and no joiner is forgotten (`JoinersKnown`), a terminator releases the detached unit it terminated (`ReleasesItsOwn`), joins return and detached units are released (`LivesEnd`) |
| `xstream_lease` | one rank leased 3 times by 2 callers; two ranks with a user-defined scheduler | a polling PE knows its execution stream, releases one that exists, and when it is finished no table, message or runner of the PE refers to it (`LeaseExact`), joins return (`JoinsReturn`) and mean that the pool was drained (`JoinedRanAll`) |
| `yield_next` | 2 PEs on 2 pools; work stealing; one PE with messages; chains of 1 and 2; a predefined and a user-defined stacked scheduler with ULTs and tasklets | no unit lost or run twice, polls report what ran (`UnitsKept`), `AbstractSched` implemented (`KeepsOrder`), messages and units do not starve (`NobodyStarves`); a unit that suspends returns to who resumed it, and sizes count what will come out (`StackKept`); a stacked scheduler ends with its own pools drained (`EndsDrained`), and does end (`SchedsEnd`) |
| `runtime` | 3 processes; 3 units with a parked tasklet and a ULT that blocks, one or two pools and a second user; every boundary of the PE rule and of the stack size; 2 timers; a configuration with entries of two types | initialized processes have PE threads, one teardown, nested use (`RuntimeKept`); the drain runs everything that is not blocked, refusals change nothing (`DrainKept`); `ABT_finalize` returns if all units are in the primary ULT's own pool (`FinalizeReturns`); enough PEs, exact timers, the last entry counts (`SettingsRight`) |
| `objects` | keys: 2 ULTs, 2 keys, destructors that set values; units: the primary ULT and 2 others on 2 PEs with an external thread; blocked: 2 ULTs woken from another PE and migrated between 2 pools, and all on one PE with a shared pool; schedulers: one secondary execution stream, 3 schedulers, automatic and shared pools; CPUs: 2 PEs, 3 CPUs of which the process may use 2 | values are destroyed once and none is forgotten (`KeysKept`); what a unit learns of itself is what others learn of it, ids are unique, stacks are as asked (`UnitsKnown`); the blocked count is exact (`CountsExact`), and on one PE migration requests are applied and a released PE has nothing left (`LocalKept`); pools outlive their users, counts and owners of schedulers are exact, PEs poll living schedulers, nothing leaks (`SchedsKept`); a PE runs where it was told, within what the process may use (`BindingKept`) |

Why the bounds are enough.  The protocols are about a waiter, a waker and
somebody who interferes: two or three threads are all the roles at once, and
three units make a queue with a first, a middle and a last.  Two PEs are the
owner and the other.  Recycling needs one more unit than slots, and re-leasing
one more execution stream than ranks.  Calls are bounded (`MaxCalls`,
`MaxWaits`, `MaxUnits`, `MaxXs`, `MaxRefs`, `MaxNesting`, `Resets`, `MaxKeys`,
`MaxValues`, `MaxPools`, `MaxScheds`, `MaxLoad`, `MaxTables`, `MaxQueue`, `MaxTime`,
`MaxSum`, `MaxSets`) so that the
state space is finite; the bounds let every call meet a second round.
`SetterIsGone` is checked with one set per setter, because a later set of the
same setter touches the eventual legitimately.  No symmetry is used, since most
runs check liveness.

### Fairness

- mutex: threads that run go on (weak), the spinlock is not refused for ever
  (strong: `spin_acquire` is a test-and-set loop, which gives this in practice,
  not by construction) and holders unlock (strong, for the outermost unlock,
  since a holder may nest for ever).
- condition variable, eventual: threads inside a call go on (weak); nothing is
  assumed of timers or of programs.
- rwlock, barrier: some thread that can go on does; calls are finitely many.
- future: threads go on, a mutex that others keep taking is got in the end
  (strong), setters set.
- pools: operations under way finish, consumers poll; the start of a lock-free
  pop is strongly fair because a push in progress disables it again and again.
- pool waits: pushes and consumers go on; no timeout is fair, so a lost wake is
  not hidden by one.
- work units: PEs poll and resume (strong: they run one thing at a time), and a
  ULT that joins for ever yields in between.
- execution streams: callers and PEs go on, `jm` is got in the end, messages are
  handled although units keep coming (the scheduler visits its queue every sweep).
- yield-to-next: PEs go on, the scheduling thread does not pass a message over
  for ever.  Only one PE is fair; what starves it would be its own ULTs.
- stacked schedulers: the PE goes on, and ULTs that block are woken from another PE.
- finalization: PE 0 goes on, units that get to run in the end end (strong: they may
  yield or block before).  Nobody is assumed to wake a blocked ULT.

## Where the code departs from its comments

Two runs are expected to find a violation.

- `thread_life_recycle` (`thread.cpp:68`): the terminator reads `t->type` after it
  has published `terminated` and dropped `jm`.  A free on another PE may recycle
  the descriptor for a detached unit in between, and the terminator releases it.
- `xstream_reuse` (`xstream.cpp:304`): the finish request of a join is never
  lowered.  A user-defined scheduler used for a second execution stream stops at
  once, and a join returns with units left in the pool.

The models reach other such states when their restrictions are lifted.  The runs
above keep the restriction named here, and PROJECT.json notes it at the hazard.

- `sync.cpp:55`, `:319`: a signal given without the mutex, or any set of an
  eventual, races the deadline of a timed wait whose record it has detached, and
  stores into the record after the wait returned (`Cond` with
  `SignalLocked = FALSE`; `Eventual` with timed waits).
- `sync.cpp:56`: a timed ULT sees its flag, goes on and blocks in the relock of
  the mutex before the late `CthAwakenIfBlocked` of the wake arrives.
- `pool.cpp:187`: removing a unit whose push has raised `in_pool` and not linked
  it empties the list (`RemoveWhilePushed = TRUE`).
- `pool.cpp:165`: a timed pop of a user-defined pool waits without a second look.
- `thread.cpp:84`, `:87`: with wakers or migrators on another PE, a ULT is in
  neither counter between uncount and push, and a request stored between the read
  and the clear of `migrate_to` is lost (`Blocked`, scenario `remote`).
- `thread.cpp:269`: `ABTI_yielding` stays set for the ULT that is switched to.
- `init.cpp:123`: a child forked between `ABT_init` and `ABT_finalize` inherits
  `initialized`, and its `ABT_init` only counts, although it has no PE threads
  (`ProcessRuntime` forks while Argobots is not initialized).
- `init.cpp:86`, `:113`: a forked child that exits without `ABT_init` tears down a
  runtime without PE threads (`PlainExit = TRUE`); one that restarts it registers
  the shutdown a second time.
- `init.cpp:168`, `:176`: during the drain a unit that calls `ABT_init` waits for the
  mutex its own OS thread holds; a unit can create an execution stream after the
  check for them.
- `init.cpp:186-193`: "work still queued in the primary's pools runs first; each yield
  puts us behind it" holds of the primary ULT's own pool.  The yield puts it into the
  first pool, where the next poll finds it before any unit of a later pool, queued or
  parked, and the drain goes round for ever (`FinalizeReturns` with a unit in `Low`).
  ULTs that are blocked are not counted, and are left behind.
- `xstream.cpp:221-223`: `finished` is stored before the joiners are taken and `jm` is
  released; a joiner that reads it without `jm` (`:302`, `:313`) may delete the
  execution stream meanwhile (`XstreamLease` reaches `"swap"` with `cur` in `deleted`).
- `pool.cpp:253`: a ULT that a tasklet resumes with `ABT_xstream_run_unit` has no parent;
  if the tasklet is on the stack of another ULT, that stack is not gone back to
  (tasklets of `StackedSched` run tasklets only).
- `pool.cpp:342-350`, `sched.cpp:85-96`: a pool or scheduler that is still used may be
  freed; programs of `SchedObjects` do not do this.
- `sched.cpp:141-147`: a stacked scheduler "returns to the parent scheduler when its
  pools hold no unit, blocked ULTs included"; a wake from another PE uncounts the
  ULT before it pushes it, and the scheduler may look in between and end without it
  (`handed` in `StackedSched`, which `EndsDrained` exempts).
- `sched.cpp:230`: `ABT_sched_config_automatic` "may raise" the default, but
  `ABT_sched_create` never applies the configuration to `automatic`; nor does
  `ABT_xstream_create_basic` look at its configuration (`xstream.cpp:336`).
- `sched.cpp:233`: when the user's `init` fails, the pool that was created for the
  scheduler and handed back is destroyed with it.
- `xstream.cpp:324`, `:331`: a refused lease leaves the scheduler that was created for
  it, and its pools' raised `num_scheds`, behind (`refused` in `SchedObjects`).
- `xstream.cpp:326`, `:382`: `in_pool` is not looked at, so that a stacked scheduler
  can become a main scheduler as well; programs of the model do not do this.
- `xstream.cpp:409`: an automatic scheduler is destroyed when it is replaced, while the
  PE polls it until the new table is there; replaced from another execution stream
  it can lose its pool under a ULT that runs from it.
- `xstream.cpp:461`, `:506`: "reject now what it would reject" and "the first listed CPU
  the process may use" are decided by the mask of the calling thread: a PE that is
  bound refuses the other CPUs of the process (`getaffinity` in `Affinity`).
- `xstream.cpp:471-473`: the real binding is read back, except that a list that was
  set is told even if it was refused or superseded since (`by_list` in `Affinity`).
- `thread.cpp:569`: `ABT_thread_exit` by a tasklet jumps to a frame that was never set
  (`WorkUnits` with `TasksExit = TRUE`); `thread.cpp:217` gives `CthCreate` the stack
  size as an `int`, and larger ones are cut (`IntRange`).
- `thread.cpp:278`: `ABT_thread_resume` of a tasklet hands a null thread to Converse.
- `misc.cpp:415`, `:520`: `ABT_info_print_config` and its comment say that stackable
  schedulers are unsupported; `ABT_info_query_config` answers that they work, and they
  do (`StackedSched`).
- `misc.cpp:111`: "differences are still correct", but a timer started before
  `ABT_init` and stopped after it subtracts readings of two clocks (`mixed` in
  `Timer`).

## What is proved

The theorems below are proved for every value of the constants.  Each proof module
extends the module it is about (`RuntimeProofs` instantiates `NumPes` and `Affinity` besides); the
assumptions on the constants are those named in that module (`MutexAssumption`,
`CondAssumption`, `RWLockAssumption`, `PoolWakeAssumption`, `KeysAssumption`,
`UserPoolAssumption`, `YieldAssumption`, `RuntimeAssumption`), evaluated by the runs, and the hypotheses
in the theorem.

| Theorem | States |
| --- | --- |
| `MutexProofs!TypeCorrect` | `Spec => []TypeOK`, every set of ULTs and external threads, recursive or not |
| `MutexProofs!Exclusion` | `Spec => []HolderExclusive` |
| `MutexProofs!WakeReaches` | `Spec => []WakeReachesWaiter` |
| `MutexProofs!ListSound` | `Spec => []ListedWait`, not checked by a run |
| `MutexProofs!WakeupKept` | `Spec => []NoLostWakeup` |
| `MutexProofs!NoWaiterForgotten` | `Spec => []WaiterAccounted`, not checked by a run |
| `MutexProofs!LockRefinement` | `Spec => ImplementsLock` |
| `CondProofs!CondListSound` | `CondSpec => []CondListKept` under `TimedWaitsSafe`, any threads, waiters and timed waiters |
| `CondProofs!WakeLive` | `CondSpec => []WakeTouchesLiveRecord`, likewise |
| `CondProofs!CondKeepsMutex` | the invariants of the mutex with waits and signals around it, likewise |
| `CondProofs!MonitorRefinement` | `CondSpec => ImplementsMonitor`, likewise |
| `RWLockProofs!Exclusion` | `Spec => []RWExclusion`, every finite set of threads |
| `RWLockProofs!WaitersKept` | `Spec => [](ReadersWaitForWriter /\ WriterWakeupKept)` |
| `RWLockProofs!RWLockAlwaysKept` | `Spec => []RWLockKept`, all that the run checks of it |
| `PoolWakeProofs!NobodyIsMissed` | `Spec /\ Served => []NobodyMissed`, any finite sets of units, timed pops and PEs, every kind of pool |
| `KeysProofs!NoDoubleDestruction` | `Spec => []DestroyedOnce`, any ULTs, keys and values |
| `KeysProofs!AllDestroyed` | `Spec => []NothingForgotten` |
| `KeysProofs!KeysAlwaysKept` | `Spec => []KeysKept` |
| `UserPoolProofs!MapExact` | `Spec => []MapIsInverse`, any threads, units, pools and agents |
| `UserPoolProofs!UnitsNeverLeak` | `Spec => []UnitsOwned` |
| `UserPoolProofs!MapAlwaysExact` | `Spec => []UnitMapExact`: the two, and what is popped leads to what was pushed |
| `YieldNextProofs!UnitsAlwaysKept` | `Spec => []UnitsKept`, any PEs, units, pools, lengths of the chain, with work stealing or without |
| `YieldNextProofs!DirectSwitchKeepsOrder` | `Spec` implements `AbstractSched` under `Alone`, any units, pools and length of the chain |
| `RuntimeProofs!InitAlwaysLive` | `Spec => []InitIsLive`, any processes |
| `RuntimeProofs!NestingCounted` | `Spec => []UsersAreServed` |
| `RuntimeProofs!SingleTeardown` | `Spec => []TornDownOnce` if children that never init run no exit handlers |
| `RuntimeProofs!RuntimeAlwaysKept` | `Spec => []RuntimeKept`, under the same hypothesis |
| `RuntimeProofs!PesAlwaysInRange`, `AlwaysEnoughPEs` | `PesInRange` and `EnoughPEs` of `NumPes`, every width of `long` |
| `RuntimeProofs!InfoAlwaysSteady` | `InfoSteady` of `NumPes`: the default stack size told before and after `ABT_init` is the same, and as asked |
| `RuntimeProofs!AlwaysAllowed` | `Spec => []StaysAllowed`, any PEs, external threads, CPUs and lists |
| `RuntimeProofs!FrameAlwaysLives` | `Spec => []FrameLives` |
| `RuntimeProofs!AlwaysBoundAsTold` | `Spec => []BoundAsTold`, if the process may use some CPU (`LeastCpu`) |

The invariants of `NumPes` and `Affinity` are conjuncts of `SettingsRight` and
`BindingKept` in the runs.

The hypotheses.  `TimedWaitsSafe` says that ULTs do not wait with a deadline and that,
if anybody does, signals come from holders of the mutex; without it the claims are
false, by the departures at `sync.cpp:55` and `:56` above.  `Served` says who waits with
`pop_timedwait`: any number on a list pool, the one consumer of a lock-free pool, nobody
on a user-defined pool, which either brings its own function or does not look again
before it waits (`pool.cpp:165` above).  `Alone` says that there is one PE, that its
scheduler takes its pools in order (not `RANDWS`), that no pool is listed twice and that
units are pushed by what runs on the PE: one pushed from outside into a pool that the
loop over the pools has passed is overtaken, with direct switches and without.  `SingleTeardown` and `RuntimeAlwaysKept` assume
`~PlainExit` (`init.cpp:86` above).  The theorems about `NumPes` take the values of C's
`long` and a floor of the stack size that is not zero (16384 in the code).

The arguments.  None of the properties is inductive by itself.

- Mutex.  That the waker finds the owner of a popped record still inside its wait
  needs that a record is in one waker's hands at most and off the list
  (`PoppedInv`), which needs that the list names each waiter once (`ListedWait`),
  that whoever is at a program point inside the spinlock holds it (`SlockInv`: for a
  ULT that has just blocked, until its post-switch release), and that only a ULT
  inside the wait is not RUNNING (`RunInv`).  `HoldInv` ties lock word, owner,
  nesting and the callers' depth together.  `AccountedInv` is `WaiterAccounted` from
  the moment the record is listed, before the ULT is BLOCKED.  `IInv` is the
  conjunction with `TypeOK` and `NoLostWakeup`; there is a lemma per conjunct with a
  step per action, and separate lemmas for the four actions that change the list or
  a record (push, unlock, store, awaken).  The refinement maps holder and depth to
  `owner` and `nesting`; each step is a step of `AbstractLock` or a stutter.
- Condition variable.  `CondIInv` is the mutex's `IInv` and what a wait adds.
  `StageInv` says in which call of the mutex, and how deep in it, a thread is at each
  point of a wait, so that the steps of the mutex inside a wait are steps of `Mutex`;
  `CondSlockInv` who holds the condition's spinlock, a switched-out ULT included.
  `CondListInv`, `OnceInv` and `PendingInv` say that a record is on one list, once, and
  that who detached it will store into it while its owner still waits; `HeldInv` that a
  waiter that was not signaled is on some list.
- Monitor.  The refinement maps the monitor's holder to the mutex's `owner` and its
  queue to the condition's list without the thread that has still to unlock the mutex
  (`Queue`): the atomic wait of the monitor happens at the unlock inside the wait, when
  the record is listed already.  `CondListInv` has the fact this needs, that the thread
  that unlocks is the last on the list.
- Waiting for a pool.  A waiter that registers after a push looked for waiters must see
  the unit, or the push the waiter.  `CountInv` is exact: the count differs from the
  length by pushes that have still to count and pops that have; `EnoughInv` says that
  while somebody waits on the condition variable the units in the pool, and those who
  wait, are no more than the pushes that have still to notify and the waiters on their
  way out, which a notification that reaches somebody who leaves anyway would break.
- Rwlock.  `Counted` says that `readers` is the number of threads inside for reading
  and that a writer is alone; it needs `Placed` (who is at which point of a call holds
  what) and `Queued` (a thread waits once, for the condition of its call, without the
  mutex), by which a signal wakes the right kind of waiter.  The cardinality of the
  readers changes by one in a step (`OneMore`, `OneLess`).
- Keys.  `Slots` says that a value is only in the slot it was set for, `Table` that an
  open key's destructor is in the table, `Called` that the slot still holds what the
  pass read when the destructor is called.  `Awaited` is the heart of
  `AllDestroyed`: a value that is due is ahead of the pass of its ULT.
- User-defined pools.  `Alone` (one agent works on a thread) and `Stage` (where the
  agent is tells what its thread has) make every step local to one thread; `InMap`
  and `Single` say that threads outside the middle of a change have their unit in the
  map and share it with nobody.  `CInv` is about what is in the pools: an element
  of a pool, or a unit that is being looked up, is that of one thread of the pool and is
  nowhere else (`Contents`), a thread an agent works on is in no pool (`Carried`), and
  the map is looked at as soon as there was a user-defined pool (`Counted`); so a pop
  resolves its unit to the thread that was pushed.
- Yield-to-next.  `Single` says of a unit that it is in the pools once, or in one of
  the three places of one PE (parked, running, leaving), or blocked, or ended, and never
  in two of these; from it follows that `Places` has one element.  It needs `Stage`: a
  ULT that chooses its successor still has the PE, with nothing parked, and what it left
  to do is known until it is done.  `Chain` ties the units that ran to the counter that
  the next poll reads.  For the order, `OrderInv` says that units are in their own pools
  and that the pools before the next one to pop are empty.  The refinement maps the queue
  of a pool to the parked unit, the pool and the ULT that has still to be pushed back
  (`Waiting`), so a suspension is one step of `AbstractSched` and the deferred push a
  stutter; that parking does not reorder is that the parked unit was the head of the
  first pool that has one, and comes back before its pool is popped again.
- Processes.  `Fresh` says that a process not forked yet has left no trace, so that
  the process id a child inherits is never its own, and `Own` what a living process
  knows of its runtime.
- Number of PEs.  The result is a function of inputs that do not change (`Inputs`);
  what is proved is about the arithmetic, the undefined sum included.
- CPU binding.  `AffSound` says what the constants are (CPU ids are natural numbers, the
  process may use some of them, `None` is nothing else).  Every CPU that is stored or
  on its way is allowed (`Allowed`); the lease handler finds its execution stream
  because a lease is on its way once and only to one that has not been leased
  (`LeaseOnce`); a call of `ABTI_run_on_pe` is in the queue once or on the worker, and
  its caller waits (`RunOnce`).  For `BoundAsTold` the invariant looks ahead: `Ends(r, c)`
  says that PE `r` will run on `c` once its queue is handled, because the last message
  about its binding is the lease or names `c`, or there is none and it does already.
  `EndsInv` claims that of every stored binding whose message is not still to be sent;
  `SetterInv` says that the thread that has still to send it is alone in that.

Only model-checked: the other modules, and all liveness (fairness and ENABLED are beyond
the prover).  The refinements of `AbstractPool` stay with TLC too: what is left of a
lock-free queue after a lazy removal is a recursive function of its links, and induction
over data is beyond the prover.

## What is not modelled

- Memory orders weaker than sequential consistency.  The handshakes that depend on
  order use `seq_cst` in the code; acquire and release pairs protect plain fields
  that the models change in the same step.
- Two calls at once on one scheduler, pool or configuration object, which have no lock
  of their own, and a barrier that is resized before all have left the round.
- The bulk pool calls and `print_all`, loops over the single ones; pool configurations,
  which only user-defined pools read; names, arguments and data pointers of objects.
- Error strings, `ABT_info_print_*` and the debugging output: formatting.  Calls that
  report that they are not implemented, the tool interface among them.
- The eventual's and the future's payload beyond which set wrote it.
- Reconverse itself.  What the code relies on (`CthSuspendBlocked`, `CthAwakenIfBlocked`,
  the order of messages to a PE, the idle hook, `CmiWallTimer`) appears as external
  definitions.

## Plan

The order follows the layers: synchronization objects, pools, work units, execution
streams and schedulers, initialization, then the objects around them.  Next, for the
model: a composition of `Blocked`, `SchedObjects` and `XstreamLease`, so that the drain
check, a replaced scheduler and the lease are in one state; calls on shared objects in
several steps (`xstream.cpp:326`).

Next, for the proofs: exclusion and list soundness of `Eventual` along the lines of
`CondProofs`; `WaitersAreCounted` of `Barrier`; `NeverQueuedTwice` and `ListIntact` of
`ListPool`; `FinishedIsQuiet` of `XstreamLease`; `ListTold`
of `Affinity`, which depends on what `SelectSeq` returns.
