------------------------------- MODULE Cond --------------------------------
(***************************************************************************)
(* ABT_cond over one ABT_mutex (sync.cpp).  A waiter lists its record      *)
(* under the condition's own spinlock c->slock, unlocks the mutex while it *)
(* holds c->slock, waits as in Mutex, and locks the mutex again.  A timed  *)
(* waiter does not block: it polls its flag, yielding, and on its deadline *)
(* takes itself off the list under c->slock.  Signal pops one record and   *)
(* broadcast detaches the list under c->slock; both wake outside it.       *)
(*                                                                         *)
(* The module extends Mutex: the unlock and the lock inside the wait are   *)
(* Mutex's own steps, taken while cpc says which call they belong to.      *)
(***************************************************************************)
EXTENDS Mutex

CONSTANTS Waiters,       \* the threads that wait
          TimedThreads,  \* those of them whose waits have a deadline
          SignalLocked   \* TRUE: callers signal only with the mutex held

ASSUME CondAssumption == /\ TimedThreads \subseteq Waiters
                         /\ Waiters \subseteq Threads
                         /\ SignalLocked \in BOOLEAN

VARIABLES cslock, cmutex, cwl,   \* the fields of ABTI_cond
          csignaled,    \* csignaled[t]: the flag in t's cond waiter record
          cpc,          \* where each thread is in the cond calls
          clist,        \* clist[t]: records t detached and has yet to wake
          cret          \* cret[t]: the outcome of t's wait, until it returns:
                        \* "SUCCESS", "TIMEDOUT", or None while undecided

condVars == <<cslock, cmutex, cwl, csignaled, cpc, clist, cret>>
allVars == <<vars, condVars>>

\* Program points at which a thread executes with c->slock held.
CondInLock == {"wait_cs", "twait_cs", "other_cs", "munlock", "tmunlock",
               "expired_cs", "signal_cs", "broadcast_cs"}
CondPCs == CondInLock \cup {"out", "wait", "twait", "other", "blocked", "poll", "tpoll",
                            "expired", "relock", "signal", "broadcast",
                            "wake_store", "wake_cth"}

CondInit == /\ Init
            /\ cslock = None
            /\ cmutex = None
            /\ cwl = <<>>
            /\ csignaled = [t \in Threads |-> FALSE]
            /\ cpc = [t \in Threads |-> "out"]
            /\ clist = [t \in Threads |-> <<>>]
            /\ cret = [t \in Threads |-> None]

CondGoto(t, l) == cpc' = [cpc EXCEPT ![t] = l]

\* The calls.  A waiter holds the mutex, once.
CondCall(t, l) == /\ pc[t] = "out" /\ cpc[t] = "out"
                  /\ CondGoto(t, l)
                  /\ UNCHANGED <<vars, cslock, cmutex, cwl, csignaled, clist, cret>>

ABT_cond_wait(t) == t \in Waiters \ TimedThreads /\ depth[t] = 1 /\ CondCall(t, "wait")
ABT_cond_timedwait(t) == t \in TimedThreads /\ depth[t] = 1 /\ CondCall(t, "twait")
ABT_cond_signal(t) == (SignalLocked => depth[t] > 0) /\ CondCall(t, "signal")
ABT_cond_broadcast(t) == (SignalLocked => depth[t] > 0) /\ CondCall(t, "broadcast")

\* A wait with a mutex other than the one the condition is bound to.
CondWaitOther(t) == cmutex # None /\ CondCall(t, "other")

\* spin_acquire(c->slock).
cond_acquire(t) ==
  /\ cslock = None
  /\ cslock' = t
  /\ \E p \in {<<"wait", "wait_cs">>, <<"twait", "twait_cs">>, <<"other", "other_cs">>,
               <<"expired", "expired_cs">>, <<"signal", "signal_cs">>,
               <<"broadcast", "broadcast_cs">>} :
       cpc[t] = p[1] /\ CondGoto(t, p[2])
  /\ UNCHANGED <<vars, cmutex, cwl, csignaled, clist, cret>>

\* cond_wait_impl: bind the mutex, list a fresh record, start to unlock the
\* mutex with c->slock held.
CondPush(t) ==
  /\ cpc[t] \in {"wait_cs", "twait_cs"}
  /\ cmutex' = "m"
  /\ cwl' = wl_push(cwl, t)
  /\ csignaled' = [csignaled EXCEPT ![t] = FALSE]
  /\ CondGoto(t, IF cpc[t] = "wait_cs" THEN "munlock" ELSE "tmunlock")
  /\ Goto(t, "unlock")
  /\ UNCHANGED <<slock, locked, owner, nesting, wl, signaled, run, popped, depth,
                 cslock, clist, cret>>

\* cond_wait_impl with a mutex the condition is not bound to: an error return.
CondInvMutex(t) ==
  /\ cpc[t] = "other_cs"
  /\ cslock' = None
  /\ CondGoto(t, "out")
  /\ UNCHANGED <<vars, cmutex, cwl, csignaled, clist, cret>>

\* wait_on for a thread that cannot block, and wait_on_timed: release c->slock
\* and poll.
CondPoll(t) ==
  /\ pc[t] = "out"
  /\ \/ cpc[t] = "munlock" /\ t \in Externals /\ CondGoto(t, "poll")
     \/ cpc[t] = "tmunlock" /\ CondGoto(t, "tpoll")
  /\ cslock' = None
  /\ UNCHANGED <<vars, cmutex, cwl, csignaled, clist, cret>>

\* Variant: c->slock is released before the ULT is BLOCKED.
VariantCondSuspend(t) ==
  /\ pc[t] = "out" /\ cpc[t] = "munlock" /\ t \in Ults
  /\ IF cslock = t
     THEN cslock' = None /\ UNCHANGED <<run, cpc>>
     ELSE /\ run' = [run EXCEPT ![t] = "BLOCKED"]
          /\ CondGoto(t, "blocked")
          /\ UNCHANGED cslock
  /\ UNCHANGED <<mutexVars, signaled, pc, popped, depth, cmutex, cwl, csignaled, clist, cret>>

\* wait_on for a ULT: BLOCKED, and c->slock released after the switch.
CondSuspend(t) ==
  /\ pc[t] = "out" /\ cpc[t] = "munlock" /\ t \in Ults
  /\ run' = [run EXCEPT ![t] = "BLOCKED"]
  /\ CondGoto(t, "blocked")
  /\ UNCHANGED <<mutexVars, signaled, pc, popped, depth,
                 cslock, cmutex, cwl, csignaled, clist, cret>>

cond_release_cb(t) ==
  /\ cpc[t] = "blocked"
  /\ cslock = t
  /\ cslock' = None
  /\ UNCHANGED <<vars, cmutex, cwl, csignaled, cpc, clist, cret>>

\* The wait is over: note the outcome and lock the mutex again.
Relock(t, r) == /\ cret' = [cret EXCEPT ![t] = r]
                /\ CondGoto(t, "relock")
                /\ Goto(t, "lock")

\* A ULT made ready is resumed (it does not look at its flag), a polling
\* thread sees its flag.
CondWoken(t) ==
  /\ \/ /\ cpc[t] = "blocked"
        /\ run[t] = "READY"
        /\ run' = [run EXCEPT ![t] = "RUNNING"]
     \/ /\ cpc[t] \in {"poll", "tpoll"}
        /\ csignaled[t]
        /\ UNCHANGED run
  /\ Relock(t, "SUCCESS")
  /\ UNCHANGED <<mutexVars, signaled, popped, depth, cslock, cmutex, cwl, csignaled, clist>>

\* A timed waiter read an unset flag and then found its deadline passed.
CondDeadline(t) ==
  /\ cpc[t] = "tpoll"
  /\ ~csignaled[t]
  /\ CondGoto(t, "expired")
  /\ UNCHANGED <<vars, cslock, cmutex, cwl, csignaled, clist, cret>>

\* wl_remove: unlink the first entry that is w; nothing happens if there is none.
At(l, w) == CHOOSE i \in 1..Len(l) : l[i] = w /\ \A j \in 1..i - 1 : l[j] # w

wl_remove(l, w) ==
  IF \E i \in 1..Len(l) : l[i] = w
  THEN [j \in 1..Len(l) - 1 |-> IF j < At(l, w) THEN l[j] ELSE l[j + 1]]
  ELSE l

\* Past the deadline, with c->slock: signaled after all, or off the list and
\* timed out.  Either way c->slock is released.
CondExpired(t) ==
  /\ cpc[t] = "expired_cs"
  /\ IF csignaled[t]
     THEN Relock(t, "SUCCESS") /\ UNCHANGED cwl
     ELSE Relock(t, "TIMEDOUT") /\ cwl' = wl_remove(cwl, t)
  /\ cslock' = None
  /\ UNCHANGED <<mutexVars, signaled, run, popped, depth, cmutex, csignaled, clist>>

\* The mutex is locked again: the wait returns and its record is gone.
CondReturn(t) ==
  /\ cpc[t] = "relock"
  /\ pc[t] = "out"
  /\ CondGoto(t, "out")
  /\ csignaled' = [csignaled EXCEPT ![t] = FALSE]
  /\ cret' = [cret EXCEPT ![t] = None]
  /\ UNCHANGED <<vars, cslock, cmutex, cwl, clist>>

\* Variant: signal takes the record at the tail.
VariantDetachTail(t) ==
  LET n == IF cpc[t] = "broadcast_cs" \/ cwl = <<>> THEN Len(cwl) ELSE 1 IN
  /\ cpc[t] \in {"signal_cs", "broadcast_cs"}
  /\ clist' = [clist EXCEPT ![t] = SubSeq(cwl, Len(cwl) - n + 1, Len(cwl))]
  /\ cwl' = SubSeq(cwl, 1, Len(cwl) - n)
  /\ cslock' = None
  /\ CondGoto(t, IF n = 0 THEN "out" ELSE "wake_store")
  /\ UNCHANGED <<vars, cmutex, csignaled, cret>>

\* ABT_cond_signal pops one record, ABT_cond_broadcast detaches the list; then
\* c->slock is released and the records are woken one by one.
CondDetach(t) ==
  LET n == IF cpc[t] = "broadcast_cs" \/ cwl = <<>> THEN Len(cwl) ELSE 1 IN
  /\ cpc[t] \in {"signal_cs", "broadcast_cs"}
  /\ clist' = [clist EXCEPT ![t] = SubSeq(cwl, 1, n)]
  /\ cwl' = SubSeq(cwl, n + 1, Len(cwl))
  /\ cslock' = None
  /\ CondGoto(t, IF n = 0 THEN "out" ELSE "wake_store")
  /\ UNCHANGED <<vars, cmutex, csignaled, cret>>

\* Variant: broadcast wakes only the first record.
VariantAfterWake(l) == "out"

\* Where the wake loop goes once the first record of l has been woken.
AfterWake(l) == IF Len(l) = 1 THEN "out" ELSE "wake_store"

\* Variant: the ULT is made ready before the store.
VariantWakeFirst(t) ==
  LET w == Head(clist[t]) IN
  /\ cpc[t] = "wake_store"
  /\ IF w \in Ults /\ run[w] = "BLOCKED"
     THEN run' = [run EXCEPT ![w] = "READY"] /\ UNCHANGED <<csignaled, cpc, clist>>
     ELSE /\ csignaled' = [csignaled EXCEPT ![w] = TRUE]
          /\ CondGoto(t, AfterWake(clist[t]))
          /\ clist' = [clist EXCEPT ![t] = Tail(@)]
          /\ UNCHANGED run
  /\ UNCHANGED <<mutexVars, signaled, pc, popped, depth, cslock, cmutex, cwl, cret>>

\* wake: read w->thread and store w->signaled.
cond_wake_store(t) ==
  LET w == Head(clist[t]) IN
  /\ cpc[t] = "wake_store"
  /\ csignaled' = [csignaled EXCEPT ![w] = TRUE]
  /\ IF w \in Ults
     THEN CondGoto(t, "wake_cth") /\ UNCHANGED clist
     ELSE /\ CondGoto(t, AfterWake(clist[t]))
          /\ clist' = [clist EXCEPT ![t] = Tail(@)]
  /\ UNCHANGED <<vars, cslock, cmutex, cwl, cret>>

\* wake: CthAwakenIfBlocked(t).
cond_wake_cth(t) ==
  /\ cpc[t] = "wake_cth"
  /\ run' = [run EXCEPT ![Head(clist[t])] = IF @ = "BLOCKED" THEN "READY" ELSE @]
  /\ CondGoto(t, AfterWake(clist[t]))
  /\ clist' = [clist EXCEPT ![t] = Tail(@)]
  /\ UNCHANGED <<mutexVars, signaled, pc, popped, depth, cslock, cmutex, cwl, csignaled, cret>>

-----------------------------------------------------------------------------
CondCalls(t) == \/ ABT_cond_wait(t) \/ ABT_cond_timedwait(t) \/ CondWaitOther(t)
                \/ ABT_cond_signal(t) \/ ABT_cond_broadcast(t)

CondProceed(t) == \/ CondPush(t) \/ CondInvMutex(t) \/ CondPoll(t) \/ CondSuspend(t)
                  \/ cond_release_cb(t) \/ CondWoken(t) \/ CondDeadline(t)
                  \/ CondExpired(t) \/ CondReturn(t)
                  \/ CondDetach(t) \/ cond_wake_store(t) \/ cond_wake_cth(t)

\* A thread inside a cond call makes no mutex call of its own.
CondNext == \E t \in Threads :
              \/ cpc[t] = "out" /\ Calls(t) /\ UNCHANGED condVars
              \/ (spin_acquire(t) \/ Proceed(t)) /\ UNCHANGED condVars
              \/ CondCalls(t) \/ cond_acquire(t) \/ CondProceed(t)

CondSpec == CondInit /\ [][CondNext]_allVars

\* Fairness: a thread that runs inside a cond call, and one that polls, goes
\* on.  Nobody is obliged to call anything, and no spinlock need be granted.
CondFairness == \A t \in Threads : WF_allVars(CondProceed(t))

CondFairSpec == CondSpec /\ CondFairness

-----------------------------------------------------------------------------
\* The state of the mutex and of the condition variable has its types.
CondTypeOK == /\ TypeOK
              /\ cslock \in Threads \cup {None}
              /\ cmutex \in {None, "m"}
              /\ cwl \in Seq(Threads)
              /\ csignaled \in [Threads -> BOOLEAN]
              /\ cpc \in [Threads -> CondPCs]
              /\ clist \in [Threads -> Seq(Threads)]
              /\ cret \in [Threads -> {"SUCCESS", "TIMEDOUT", None}]

\* The record of t's cond wait is on t's stack from CondPush to the return.
RecordLive(t) == cpc[t] \in {"munlock", "tmunlock", "blocked", "poll", "tpoll",
                             "expired", "expired_cs", "relock"}

\* wake touches a record only while its owner is still inside the wait, so it
\* never stores into a stack frame that is gone (sync.cpp:52-57, 231-246).
WakeTouchesLiveRecord ==
  \A t \in Threads : cpc[t] = "wake_store" => RecordLive(Head(clist[t]))

\* A thread whose cond wait has not been signaled and has not timed out.
CondWaits(w) == /\ cpc[w] \in {"munlock", "tmunlock", "blocked", "poll", "tpoll"}
                /\ ~csignaled[w]

InList(l, w) == \E i \in 1..Len(l) : l[i] = w

\* Between releasing the mutex and being signaled a waiter is on the list or
\* in the hands of one waker: no signal can miss it, and none counts twice
\* (cond_wait_impl lists the record before it unlocks the mutex).
CondWaiterAccounted ==
  \A w \in Threads : CondWaits(w) =>
    \/ InList(cwl, w)
    \/ \E t \in Threads : cpc[t] = "wake_store" /\ InList(clist[t], w)
    \/ \E t \in Threads : cpc[t] = "wake_cth" /\ InList(Tail(clist[t]), w)

\* A cond wait that reports success was signaled: a blocked ULT is made ready
\* by the signal that popped its record and by nothing else.
SuccessMeansSignaled ==
  \A t \in Threads : cpc[t] = "relock" /\ cret[t] = "SUCCESS" => csignaled[t]

\* A waker that finds a ULT on a wait list can wake it: a listed ULT is
\* BLOCKED as soon as the list's spinlock is free (sync.cpp:4-7).
ListedIsBlocked ==
  /\ \A i \in 1..Len(wl) :
       wl[i] \in Ults /\ slock # wl[i] => run[wl[i]] = "BLOCKED"
  /\ \A i \in 1..Len(cwl) :
       cwl[i] \in Ults \ TimedThreads /\ cslock # cwl[i] => run[cwl[i]] = "BLOCKED"

\* The list holds exactly those who wait: a listed ULT is BLOCKED, a waiter that
\* has not been signaled is listed or in a waker's hands, and a wait succeeds only
\* if it was signaled (sync.cpp:53-82, 197-246).
CondListKept == CondTypeOK /\ ListedIsBlocked /\ CondWaiterAccounted /\ SuccessMeansSignaled

\* The owner of a record popped by signal or broadcast eventually stops
\* waiting: it goes on to lock the mutex, or its deadline passed first
\* (ABT_cond_signal and ABT_cond_broadcast wake every record they detach).
Detached(w) == \E t \in Threads : InList(clist[t], w)
DetachedReturns ==
  \A w \in Threads : Detached(w) ~> cpc[w] \in {"relock", "out", "expired", "expired_cs"}

\* Those who have given the mutex back: the list without the thread that is
\* still unlocking it, which listed itself last.
Queue == IF cwl # <<>> /\ cwl[Len(cwl)] = owner
         THEN [i \in 1..Len(cwl) - 1 |-> cwl[i]]
         ELSE cwl

\* Mutex and condition together implement the abstract monitor.
Monitor == INSTANCE AbstractMonitor
             WITH holder <- owner, queue <- [c \in {"c"} |-> Queue], Conds <- {"c"}

\* The wait's unlock is the atomic Wait, whatever happens around it.
ImplementsMonitor == Monitor!MonitorSpec
=============================================================================
