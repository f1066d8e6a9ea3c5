------------------------------- MODULE Mutex -------------------------------
(***************************************************************************)
(* ABT_mutex (sync.cpp): a spinlock slock guards the lock word, the owner, *)
(* the nesting count and a FIFO list of waiter records that live on their  *)
(* owners' stacks.  A ULT that finds the mutex taken lists its record,     *)
(* becomes BLOCKED and only then, after the context switch, is slock       *)
(* released on its behalf.  A thread that cannot block (an external        *)
(* pthread or a tasklet) lists its record, releases slock and spins on     *)
(* signaled.  Unlock pops one record and wakes it outside slock; the woken *)
(* thread retries, so a newcomer may overtake it.                          *)
(*                                                                         *)
(* One record per thread suffices: mutex_lock has one record per iteration *)
(* of its loop, at one stack address, so a record is named by its thread.  *)
(***************************************************************************)
EXTENDS Naturals, Sequences

CONSTANTS Ults,         \* threads for which ABTI_can_block holds
          Externals,    \* external pthreads and tasklets
          None,         \* the null pointer, and owner 0
          Recursive,    \* attrs & 1
          MaxNesting    \* bound: how deep a caller nests a recursive mutex

Threads == Ults \cup Externals

ASSUME MutexAssumption == /\ Ults \cap Externals = {}
                          /\ None \notin Threads
                          /\ Recursive \in BOOLEAN
                          /\ MaxNesting \in Nat

VARIABLES slock,        \* thread holding the spinlock, or None
          locked, owner, nesting, wl,   \* the other fields of ABTI_mutex
          signaled,     \* signaled[t]: the flag in t's waiter record
          run,          \* run[t]: the Converse state of ULT t
          pc,           \* where each thread is in the mutex calls
          popped,       \* popped[t]: the record t's unlock took from wl
          depth         \* history: lock calls of t that succeeded and that no
                        \* unlock of t has matched yet

mutexVars == <<slock, locked, owner, nesting, wl>>
vars == <<slock, locked, owner, nesting, wl, signaled, run, pc, popped, depth>>

\* Program points at which a thread executes with slock held.
InLock == {"lock_cs", "spin_cs", "try_cs", "unlock_cs", "suspend"}
PCs == InLock \cup {"out", "lock", "spin", "try", "unlock",
                    "blocked", "poll", "wake_store", "wake_cth"}

-----------------------------------------------------------------------------
\* The wait list.

VariantPushAtHead(l, w) == <<w>> \o l

wl_push(l, w) == Append(l, w)
wl_pop(l) == Tail(l)

-----------------------------------------------------------------------------
\* ABTI_mutex after ABT_mutex_create: all fields zero.
Init == /\ slock = None
        /\ locked = FALSE
        /\ owner = None
        /\ nesting = 0
        /\ wl = <<>>
        /\ signaled = [t \in Threads |-> FALSE]
        /\ run = [t \in Ults |-> "RUNNING"]
        /\ pc = [t \in Threads |-> "out"]
        /\ popped = [t \in Threads |-> None]
        /\ depth = [t \in Threads |-> 0]

Goto(t, l) == pc' = [pc EXCEPT ![t] = l]

\* The calls.  Only a holder unlocks, and only a recursive mutex is locked by
\* a thread that holds it: anything else is a caller's error.
MayLock(t) == depth[t] = 0 \/ (Recursive /\ depth[t] <= MaxNesting)

Call(t, l) == /\ pc[t] = "out"
              /\ Goto(t, l)
              /\ UNCHANGED <<mutexVars, signaled, run, popped, depth>>

ABT_mutex_lock(t) == MayLock(t) /\ Call(t, "lock")
ABT_mutex_spinlock(t) == MayLock(t) /\ Call(t, "spin")
ABT_mutex_trylock(t) == depth[t] <= MaxNesting /\ Call(t, "try")
ABT_mutex_unlock(t) == depth[t] > 0 /\ Call(t, "unlock")

\* spin_acquire(m->slock), at the start of every call and of every retry.
spin_acquire(t) ==
  /\ slock = None
  /\ slock' = t
  /\ \E p \in {<<"lock", "lock_cs">>, <<"spin", "spin_cs">>,
               <<"try", "try_cs">>, <<"unlock", "unlock_cs">>} :
       pc[t] = p[1] /\ Goto(t, p[2])
  /\ UNCHANGED <<locked, owner, nesting, wl, signaled, run, popped, depth>>

\* The free mutex is taken, by mutex_lock or by trylock, and slock released.
TakeFree(t) ==
  /\ pc[t] \in {"lock_cs", "spin_cs", "try_cs"}
  /\ ~locked
  /\ locked' = TRUE
  /\ owner' = t
  /\ nesting' = 0
  /\ slock' = None
  /\ depth' = [depth EXCEPT ![t] = @ + 1]
  /\ Goto(t, "out")
  /\ UNCHANGED <<wl, signaled, run, popped>>

\* Variant: the test of attrs and owner is missing.
VariantTakeNested(t) ==
  /\ pc[t] \in {"lock_cs", "spin_cs", "try_cs"}
  /\ locked
  /\ nesting' = nesting + 1
  /\ slock' = None
  /\ depth' = [depth EXCEPT ![t] = @ + 1]
  /\ Goto(t, "out")
  /\ UNCHANGED <<locked, owner, wl, signaled, run, popped>>

\* The owner of a recursive mutex takes it again.
TakeNested(t) ==
  /\ pc[t] \in {"lock_cs", "spin_cs", "try_cs"}
  /\ locked
  /\ Recursive /\ owner = t
  /\ nesting' = nesting + 1
  /\ slock' = None
  /\ depth' = [depth EXCEPT ![t] = @ + 1]
  /\ Goto(t, "out")
  /\ UNCHANGED <<locked, owner, wl, signaled, run, popped>>

Taken(t) == locked /\ ~(Recursive /\ owner = t)

\* The mutex is taken: trylock gives up, spinlock goes round again.
FailOrSpin(t) ==
  /\ Taken(t)
  /\ \/ pc[t] = "try_cs" /\ Goto(t, "out")
     \/ pc[t] = "spin_cs" /\ Goto(t, "spin")
  /\ slock' = None
  /\ UNCHANGED <<locked, owner, nesting, wl, signaled, run, popped, depth>>

\* Variant: slock is released before the ULT is BLOCKED.
VariantPushWaiter(t) ==
  /\ pc[t] = "lock_cs"
  /\ Taken(t)
  /\ wl' = wl_push(wl, t)
  /\ signaled' = [signaled EXCEPT ![t] = FALSE]
  /\ slock' = None
  /\ Goto(t, IF t \in Ults THEN "suspend" ELSE "poll")
  /\ UNCHANGED <<locked, owner, nesting, run, popped, depth>>

\* mutex_lock lists a fresh record.  A thread that cannot block releases slock
\* at once and polls; a ULT keeps slock until it is off its stack.
PushWaiter(t) ==
  /\ pc[t] = "lock_cs"
  /\ Taken(t)
  /\ wl' = wl_push(wl, t)
  /\ signaled' = [signaled EXCEPT ![t] = FALSE]
  /\ \/ t \in Ults /\ Goto(t, "suspend") /\ UNCHANGED slock
     \/ t \in Externals /\ Goto(t, "poll") /\ slock' = None
  /\ UNCHANGED <<locked, owner, nesting, run, popped, depth>>

\* CthSuspendBlocked: the ULT becomes BLOCKED and the PE switches away from it.
CthSuspendBlocked(t) ==
  /\ pc[t] = "suspend"
  /\ run' = [run EXCEPT ![t] = "BLOCKED"]
  /\ Goto(t, "blocked")
  /\ UNCHANGED <<mutexVars, signaled, popped, depth>>

\* The post-switch action, on the next thread's stack.
spin_release_cb(t) ==
  /\ pc[t] = "blocked"
  /\ slock = t
  /\ slock' = None
  /\ UNCHANGED <<locked, owner, nesting, wl, signaled, run, pc, popped, depth>>

\* A ULT that was made ready is resumed by some PE and retries; the record of
\* this iteration is gone.
ResumeUlt(t) ==
  /\ pc[t] = "blocked"
  /\ run[t] = "READY"
  /\ run' = [run EXCEPT ![t] = "RUNNING"]
  /\ signaled' = [signaled EXCEPT ![t] = FALSE]
  /\ Goto(t, "lock")
  /\ UNCHANGED <<mutexVars, popped, depth>>

\* A polling thread sees its flag and retries.
PollSignaled(t) ==
  /\ pc[t] = "poll"
  /\ signaled[t]
  /\ signaled' = [signaled EXCEPT ![t] = FALSE]
  /\ Goto(t, "lock")
  /\ UNCHANGED <<mutexVars, run, popped, depth>>

\* ABT_mutex_unlock of a nested hold.
UnlockNested(t) ==
  /\ pc[t] = "unlock_cs"
  /\ nesting > 0
  /\ nesting' = nesting - 1
  /\ slock' = None
  /\ depth' = [depth EXCEPT ![t] = @ - 1]
  /\ Goto(t, "out")
  /\ UNCHANGED <<locked, owner, wl, signaled, run, popped>>

\* Variant: every unlock frees the mutex, nested or not.
VariantUnlockAny(t) ==
  /\ pc[t] = "unlock_cs"
  /\ locked' = FALSE
  /\ owner' = None
  /\ slock' = None
  /\ depth' = [depth EXCEPT ![t] = @ - 1]
  /\ Goto(t, "out")
  /\ UNCHANGED <<nesting, wl, signaled, run, popped>>

\* ABT_mutex_unlock of the last hold: free the mutex and pop one waiter.
UnlockLast(t) ==
  /\ pc[t] = "unlock_cs"
  /\ nesting = 0
  /\ locked' = FALSE
  /\ owner' = None
  /\ slock' = None
  /\ depth' = [depth EXCEPT ![t] = @ - 1]
  /\ IF wl = <<>>
     THEN Goto(t, "out") /\ UNCHANGED <<wl, popped>>
     ELSE /\ Goto(t, "wake_store")
          /\ wl' = wl_pop(wl)
          /\ popped' = [popped EXCEPT ![t] = Head(wl)]
  /\ UNCHANGED <<nesting, signaled, run>>

\* wake: read w->thread, store w->signaled.
wake_store(t) ==
  /\ pc[t] = "wake_store"
  /\ signaled' = [signaled EXCEPT ![popped[t]] = TRUE]
  /\ IF popped[t] \in Ults
     THEN Goto(t, "wake_cth") /\ UNCHANGED popped
     ELSE Goto(t, "out") /\ popped' = [popped EXCEPT ![t] = None]
  /\ UNCHANGED <<mutexVars, run, depth>>

\* Variant: the flag is set but the ULT is not made ready.
VariantAwaken(t) ==
  /\ pc[t] = "wake_cth"
  /\ popped' = [popped EXCEPT ![t] = None]
  /\ Goto(t, "out")
  /\ UNCHANGED <<mutexVars, signaled, run, depth>>

\* CthAwakenIfBlocked: BLOCKED becomes READY and the ULT is pushed to its
\* pool; a ULT in any other state is left alone.
CthAwakenIfBlocked(t) ==
  /\ pc[t] = "wake_cth"
  /\ run' = [run EXCEPT ![popped[t]] = IF @ = "BLOCKED" THEN "READY" ELSE @]
  /\ popped' = [popped EXCEPT ![t] = None]
  /\ Goto(t, "out")
  /\ UNCHANGED <<mutexVars, signaled, depth>>

-----------------------------------------------------------------------------
\* What a thread does inside a call once it has been made.
Proceed(t) == \/ TakeFree(t) \/ TakeNested(t) \/ FailOrSpin(t)
              \/ PushWaiter(t) \/ CthSuspendBlocked(t) \/ spin_release_cb(t)
              \/ ResumeUlt(t) \/ PollSignaled(t)
              \/ UnlockNested(t) \/ UnlockLast(t)
              \/ wake_store(t) \/ CthAwakenIfBlocked(t)

Calls(t) == \/ ABT_mutex_lock(t) \/ ABT_mutex_spinlock(t)
            \/ ABT_mutex_trylock(t) \/ ABT_mutex_unlock(t)

Next == \E t \in Threads : Calls(t) \/ spin_acquire(t) \/ Proceed(t)

Spec == Init /\ [][Next]_vars

-----------------------------------------------------------------------------
\* Fairness.  A thread that runs keeps running (WF on Proceed),
\* a spinning thread is not refused slock for ever (SF; slock is held for a
\* few instructions and every retry yields the processor), and callers that
\* hold the mutex give it back eventually (SF, because they may first try
\* other calls), the outermost of nested holds included.
Fairness == \A t \in Threads : /\ WF_vars(Proceed(t))
                               /\ SF_vars(spin_acquire(t))
                               /\ SF_vars(ABT_mutex_unlock(t))
                               /\ SF_vars(depth[t] = 1 /\ ABT_mutex_unlock(t))

FairSpec == Spec /\ Fairness

-----------------------------------------------------------------------------
\* The state has its types.
TypeOK == /\ slock \in Threads \cup {None}
          /\ locked \in BOOLEAN
          /\ owner \in Threads \cup {None}
          /\ nesting \in Nat
          /\ wl \in Seq(Threads)
          /\ signaled \in [Threads -> BOOLEAN]
          /\ run \in [Ults -> {"RUNNING", "BLOCKED", "READY"}]
          /\ pc \in [Threads -> PCs]
          /\ popped \in [Threads -> Threads \cup {None}]
          /\ depth \in [Threads -> Nat]

\* The lock word, the owner and the nesting count agree with what the callers
\* hold: only the owner has unmatched lock calls, exactly nesting + 1 of them,
\* so no two threads are ever between a successful lock and its unlock
\* (mutex_lock, trylock and unlock of sync.cpp:109-164).
HolderExclusive ==
  \A t \in Threads : depth[t] = IF locked /\ owner = t THEN nesting + 1 ELSE 0

\* A thread that waits for a wake: its record is on the list or in the hands
\* of a waker, and it has not been signaled.
Waits(w) == /\ pc[w] = IF w \in Ults THEN "blocked" ELSE "poll"
            /\ ~signaled[w]
            /\ w \in Ults => run[w] = "BLOCKED"

\* A waker that popped a record finds its owner still waiting, so the store to
\* the record (which is on the owner's stack) reaches live memory and
\* CthAwakenIfBlocked finds the ULT BLOCKED (sync.cpp:4-7, 52).
WakeReachesWaiter ==
  \A t \in Threads :
    /\ pc[t] = "wake_store" => Waits(popped[t])
    /\ pc[t] = "wake_cth" => /\ pc[popped[t]] = "blocked"
                            /\ run[popped[t]] = "BLOCKED"

\* The list holds each record once, and only records of waiting threads: a
\* ULT may still be on its way to BLOCKED, but then it holds slock.
ListedWait ==
  /\ \A i, j \in 1..Len(wl) : wl[i] = wl[j] => i = j
  /\ \A i \in 1..Len(wl) : \/ Waits(wl[i])
                           \/ pc[wl[i]] = "suspend" /\ slock = wl[i]

\* Someone who will look at the free mutex before it can be forgotten.
InFlight(t) == \/ pc[t] \in {"lock", "lock_cs", "wake_store", "wake_cth"}
               \/ pc[t] = "poll" /\ signaled[t]
               \/ pc[t] = "blocked" /\ run[t] = "READY"

\* No lost wakeup: a free mutex with waiters always has a waker at work or a
\* thread about to retry, although unlock wakes only one waiter and any
\* newcomer may take the mutex first (sync.cpp:112-124, 157-163).
NoLostWakeup == wl # <<>> /\ ~locked => \E t \in Threads : InFlight(t)

\* A waiter is never forgotten: an unsignaled waiter is on the list or has
\* been popped by exactly one waker that has not woken it yet.
WaiterAccounted ==
  \A w \in Threads : Waits(w) =>
    \/ \E i \in 1..Len(wl) : wl[i] = w
    \/ \E t \in Threads : popped[t] = w /\ pc[t] \in {"wake_store", "wake_cth"}

\* Every listed waiter is eventually popped and woken, as long as holders keep
\* unlocking (the FIFO order of wl_push and wl_pop).
Listed(t) == \E i \in 1..Len(wl) : wl[i] = t
WaiterIsWoken == \A t \in Threads : Listed(t) ~> ~Listed(t)

\* The mutex implements the abstract lock: holder and holds are read off the
\* lock word, the owner and the nesting count.
Lock == INSTANCE AbstractLock
          WITH holder <- owner,
               holds <- IF locked THEN nesting + 1 ELSE 0

\* Seen through that mapping, every step of the mutex is a step of the
\* abstract lock or leaves it alone.
ImplementsLock == Lock!Spec
=============================================================================
