----------------------------- MODULE CondProofs -----------------------------
(***************************************************************************)
(* Proofs about Cond, for any set of threads, waiters and timed waiters:   *)
(* the condition's list is exact, a wake stores only into live records,    *)
(* the mutex keeps its own guarantees underneath, and the two together     *)
(* implement the monitor of AbstractMonitor.tla.                           *)
(*                                                                         *)
(* CondIInv is the inductive invariant: Mutex's own (IInv) and, for the    *)
(* condition, where a thread in a wait may be in the mutex calls it makes, *)
(* and who holds the record of a waiter until its flag is stored.          *)
(***************************************************************************)
EXTENDS Cond, MutexProofs

USE Zenon

-----------------------------------------------------------------------------
\* c->slock is held by the thread that executes under it, or by a ULT that is
\* switched out and has yet to release it in the callback of its suspension.
CondSlockInv ==
  /\ \A t \in Threads : cpc[t] \in CondInLock => cslock = t
  /\ cslock # None => \/ cpc[cslock] \in CondInLock
                      \/ cpc[cslock] = "blocked" /\ run[cslock] = "BLOCKED"

\* Where a cond call is, its thread is in the mutex call that stage makes, with
\* the mutex held as often as the stage implies: once until the unlock inside
\* the wait, not at all while it waits, once when the relock is done.
StageInv == \A t \in Threads :
  /\ cpc[t] \in {"wait", "wait_cs", "twait", "twait_cs"} => pc[t] = "out" /\ depth[t] = 1
  /\ cpc[t] \in {"munlock", "tmunlock"} =>
       \/ pc[t] \in {"unlock", "unlock_cs"} /\ depth[t] = 1
       \/ pc[t] \in {"wake_store", "wake_cth", "out"} /\ depth[t] = 0
  /\ cpc[t] \in {"blocked", "poll", "tpoll", "expired", "expired_cs"} =>
       pc[t] = "out" /\ depth[t] = 0
  /\ cpc[t] = "relock" =>
       \/ pc[t] \in {"lock", "lock_cs", "suspend", "blocked", "poll"} /\ depth[t] = 0
       \/ pc[t] = "out" /\ depth[t] = 1
  /\ cpc[t] \in {"signal", "signal_cs", "broadcast", "broadcast_cs", "wake_store", "wake_cth"} =>
       pc[t] = "out" /\ (SignalLocked => depth[t] > 0)
  /\ cpc[t] \in {"other", "other_cs"} => pc[t] = "out"

\* Timed waits poll; of the others ULTs block and externals poll.
KindInv == \A t \in Threads :
  /\ cpc[t] \in {"wait", "wait_cs", "munlock", "blocked", "poll"} => t \in Waiters \ TimedThreads
  /\ cpc[t] \in {"twait", "twait_cs", "tmunlock", "tpoll", "expired", "expired_cs"} =>
       t \in TimedThreads
  /\ cpc[t] = "blocked" => t \in Ults
  /\ cpc[t] = "poll" => t \in Externals

\* A ULT is made ready out of a cond wait only after its flag was stored.
CondRunInv == \A t \in Ults : cpc[t] = "blocked" =>
                run[t] = "BLOCKED" \/ (run[t] = "READY" /\ csignaled[t])

\* The list has no repetitions and holds records of threads still waiting and
\* unsignaled; a thread that is unlocking the mutex is the last on it, for it
\* keeps c->slock from the push to the release.
CondListInv ==
  /\ \A i \in 1..Len(cwl) : \A j \in 1..Len(cwl) : cwl[i] = cwl[j] => i = j
  /\ \A i \in 1..Len(cwl) :
       /\ RecordLive(cwl[i]) /\ cpc[cwl[i]] # "relock"
       /\ ~csignaled[cwl[i]]
  /\ \A t \in Threads : cpc[t] \in {"munlock", "tmunlock"} =>
       cwl # <<>> /\ cwl[Len(cwl)] = t

\* A record detached by a signal and not yet stored into: its owner waits, or is
\* a timed waiter that gave up but cannot have returned.
Pending(w) ==
  /\ ~csignaled[w]
  /\ \/ cpc[w] \in {"blocked", "poll"} /\ cslock # w
     \/ w \in TimedThreads /\ cpc[w] \in {"tpoll", "expired", "expired_cs", "relock"}

\* A thread has detached records exactly while it wakes them.
WakerInv ==
  \A t \in Threads : clist[t] # <<>> <=> cpc[t] \in {"wake_store", "wake_cth"}

\* A record is on one list, once.
OnceInv ==
  /\ \A t \in Threads : \A u \in Threads : \A i \in 1..Len(clist[t]) : \A j \in 1..Len(clist[u]) :
       clist[t][i] = clist[u][j] => t = u /\ i = j
  /\ \A t \in Threads : \A i \in 1..Len(clist[t]) : \A j \in 1..Len(cwl) : clist[t][i] # cwl[j]

\* The head of a list at wake_cth: signaled, and not yet made ready.
Signaled(w) == /\ w \in Ults
               /\ cpc[w] = "blocked" /\ run[w] = "BLOCKED"
               /\ csignaled[w] /\ cslock # w

\* What a waker holds is pending, but for the head it is about to make ready.
PendingInv ==
  \A t \in Threads :
    /\ \A i \in 1..Len(clist[t]) : cpc[t] = "wake_store" \/ i > 1 => Pending(clist[t][i])
    /\ cpc[t] = "wake_cth" => Signaled(clist[t][1])

DetachedInv == WakerInv /\ OnceInv /\ PendingInv

\* The record of w is on the list, or a waker will store into it.
Held(w) == \/ \E i \in 1..Len(cwl) : cwl[i] = w
           \/ \E t \in Threads : \E i \in 1..Len(clist[t]) :
                clist[t][i] = w /\ (cpc[t] = "wake_store" \/ i > 1)

HeldInv == \A w \in Threads : CondWaits(w) => Held(w)

CondIInv == /\ IInv
            /\ CondTypeOK
            /\ CondSlockInv
            /\ StageInv
            /\ KindInv
            /\ CondRunInv
            /\ CondListInv
            /\ DetachedInv
            /\ HeldInv
            /\ SuccessMeansSignaled

\* The callers for which all this holds; nothing is asked where no wait is timed.
\* A ULT in a timed wait may see its flag, go on and be BLOCKED on the mutex it
\* locks again when wake readies whatever it finds BLOCKED (sync.cpp:56).  A
\* signal given without the mutex may be between its pop and its store while a
\* timed waiter gives up, locks the mutex and returns (sync.cpp:55, 74-79).
TimedWaitsSafe == /\ TimedThreads \cap Ults = {}
                  /\ TimedThreads # {} => SignalLocked

-----------------------------------------------------------------------------

\* What a cond call does to the mutex's state from outside the mutex calls: it
\* starts a lock or an unlock, and changes run of ULTs outside them.
LEMMA OutsidePreserves ==
  ASSUME IInv, NEW t \in Threads, pc[t] = "out",
         \/ pc' = pc
         \/ pc' = [pc EXCEPT ![t] = "lock"]
         \/ depth[t] > 0 /\ pc' = [pc EXCEPT ![t] = "unlock"],
         run' \in [Ults -> {"RUNNING", "BLOCKED", "READY"}],
         \A u \in Ults : pc[u] # "out" => run'[u] = run[u],
         UNCHANGED <<slock, locked, owner, nesting, wl, signaled, popped, depth>>
  PROVE  IInv'
<1>1. PICK l \in {"out", "lock", "unlock"} :
        pc' = [pc EXCEPT ![t] = l] /\ (l = "unlock" => depth[t] > 0)
  BY DEF IInv, TypeOK
<1>2. /\ TypeOK /\ Len(wl) \in Nat
      /\ \A i \in 1..Len(wl) : wl[i] \in Threads
  BY ListFacts DEF IInv
<1>3. \A u \in Threads : /\ u # t => pc'[u] = pc[u]
                         /\ pc'[t] \in {"out", "lock", "unlock"}
                         /\ pc[u] # "out" => pc'[u] = pc[u]
                         /\ pc'[u] \notin {"out", "lock", "unlock"} => pc'[u] = pc[u]
  BY <1>1, <1>2 DEF TypeOK
<1>4. TypeOK'
  BY <1>1, <1>2 DEF TypeOK, PCs, InLock
<1>5. SlockInv'
  BY <1>2, <1>3, MutexAssumption DEF TypeOK, IInv, SlockInv, RunInv, InLock, Threads
<1>6. RunInv'
  BY <1>2, <1>3, MutexAssumption, ZenonT(40) DEF TypeOK, IInv, RunInv, Threads
<1>7. HoldInv'
  BY <1>1, <1>2, MutexAssumption DEF TypeOK, IInv, HoldInv, HolderExclusive
<1>8. \A w \in Threads : Waits(w)' <=> Waits(w)
  BY <1>2, <1>3, MutexAssumption DEF Waits, Threads
<1>9. ListedWait'
  <2>1. \A i \in 1..Len(wl) : (Waits(wl[i]) \/ (pc[wl[i]] = "suspend" /\ slock = wl[i]))'
    BY <1>2, <1>3, <1>8, SMTT(30) DEF IInv, ListedWait, Waits
  <2> QED
    BY <2>1, SMTT(30) DEF IInv, ListedWait
<1>10. PoppedInv'
  <2>1. WakeReachesWaiter'
    BY <1>2, <1>3, <1>8, MutexAssumption, SMTT(30)
       DEF IInv, PoppedInv, WakeReachesWaiter, TypeOK, Threads, Waits
  <2> QED
    BY <1>2, <1>3, <2>1, MutexAssumption, ZenonT(40) DEF IInv, PoppedInv, TypeOK
<1>11. AccountedInv'
  BY <1>2, <1>3, <1>8 DEF IInv, AccountedInv, Accounted, Listed
<1>12. NoLostWakeup'
  BY <1>2, <1>3, MutexAssumption DEF IInv, NoLostWakeup, InFlight, RunInv, Threads
<1> QED
  BY <1>4, <1>5, <1>6, <1>7, <1>9, <1>10, <1>11, <1>12 DEF IInv

\* Mutex's steps preserve its invariant.
LEMMA NextPreserves == IInv /\ [Next]_vars => IInv'
  BY NextType, NextSlock, NextRun, NextHold, NextListed, NextPopped, NextAccounted, NextNoLost
     DEF IInv

-----------------------------------------------------------------------------
\* The mutex's own steps inside and outside cond calls.

MutexStep(t) == Calls(t) \/ spin_acquire(t) \/ Proceed(t)

\* A mutex step changes run only of threads that are in the mutex's wait.
LEMMA MutexRun ==
  ASSUME IInv, NEW t \in Threads, MutexStep(t)
  PROVE  \A w \in Ults : pc[w] = "out" => run'[w] = run[w]
<1>1. TypeOK
  BY DEF IInv
<1>2. CASE CthAwakenIfBlocked(t)
  BY <1>1, <1>2, MutexAssumption
     DEF CthAwakenIfBlocked, IInv, PoppedInv, WakeReachesWaiter, TypeOK, Threads
<1>3. CASE CthSuspendBlocked(t)
  BY <1>1, <1>3, MutexAssumption DEF CthSuspendBlocked, TypeOK, Threads
<1>4. CASE ResumeUlt(t)
  BY <1>1, <1>4, MutexAssumption DEF ResumeUlt, TypeOK, Threads
<1>5. CASE \/ Calls(t) \/ spin_acquire(t) \/ FailOrSpin(t) \/ PushWaiter(t)
           \/ spin_release_cb(t) \/ PollSignaled(t) \/ wake_store(t)
           \/ TakeFree(t) \/ TakeNested(t) \/ UnlockNested(t) \/ UnlockLast(t)
  <2>1. run' = run
    BY <1>5 DEF Calls, Call, ABT_mutex_lock, ABT_mutex_spinlock, ABT_mutex_trylock,
       ABT_mutex_unlock, spin_acquire, FailOrSpin, PushWaiter, TakeFree, TakeNested,
       spin_release_cb, PollSignaled, wake_store, UnlockNested, UnlockLast, mutexVars
  <2> QED
    BY <2>1
<1> QED
  BY <1>2, <1>3, <1>4, <1>5 DEF MutexStep, Proceed

\* Where a mutex step takes a thread.
LEMMA MutexMove ==
  ASSUME IInv, NEW t \in Threads, spin_acquire(t) \/ Proceed(t)
  PROVE  \E l \in PCs, d \in Nat :
           /\ pc' = [pc EXCEPT ![t] = l]
           /\ depth' = [depth EXCEPT ![t] = d]
           /\ \/ pc[t] = "unlock" /\ l = "unlock_cs" /\ d = depth[t]
              \/ pc[t] = "unlock_cs" /\ l \in {"out", "wake_store"} /\ d = depth[t] - 1
              \/ pc[t] = "wake_store" /\ l \in {"out", "wake_cth"} /\ d = depth[t]
              \/ pc[t] = "wake_cth" /\ l = "out" /\ d = depth[t]
              \/ pc[t] = "lock" /\ l = "lock_cs" /\ d = depth[t]
              \/ pc[t] = "lock_cs" /\ l = "out" /\ d = depth[t] + 1
              \/ pc[t] = "lock_cs" /\ l \in {"suspend", "poll"} /\ d = depth[t]
              \/ pc[t] = "suspend" /\ l = "blocked" /\ d = depth[t]
              \/ pc[t] = "blocked" /\ l \in {"blocked", "lock"} /\ d = depth[t]
              \/ pc[t] = "poll" /\ l = "lock" /\ d = depth[t]
              \/ pc[t] \in {"spin", "spin_cs", "try", "try_cs"}
<1>1. /\ TypeOK
      /\ \A u \in Threads : pc[u] = "unlock_cs" => depth[u] > 0
  BY DEF IInv, HoldInv
<1> USE <1>1 DEF TypeOK, PCs, InLock
<1>2. depth = [depth EXCEPT ![t] = depth[t]] /\ pc = [pc EXCEPT ![t] = pc[t]]
  OBVIOUS
<1>3. depth[t] \in Nat /\ depth[t] + 1 \in Nat /\ (pc[t] = "unlock_cs" => depth[t] - 1 \in Nat)
  BY SMTT(30)
<1>4. CASE spin_acquire(t)
  <2>1. PICK p \in {<<"lock", "lock_cs">>, <<"spin", "spin_cs">>,
                    <<"try", "try_cs">>, <<"unlock", "unlock_cs">>} :
          pc[t] = p[1] /\ pc' = [pc EXCEPT ![t] = p[2]]
    BY <1>4 DEF spin_acquire, Goto
  <2>2. UNCHANGED depth
    BY <1>4 DEF spin_acquire
  <2>a. \/ p[1] = "lock" /\ p[2] = "lock_cs"
        \/ p[1] = "unlock" /\ p[2] = "unlock_cs"
        \/ p[1] = "spin" /\ p[2] = "spin_cs"
        \/ p[1] = "try" /\ p[2] = "try_cs"
    BY SMTT(30)
  <2>3. PICK l \in PCs : /\ pc' = [pc EXCEPT ![t] = l]
                         /\ \/ pc[t] = "lock" /\ l = "lock_cs"
                            \/ pc[t] = "unlock" /\ l = "unlock_cs"
                            \/ pc[t] \in {"spin", "try"}
    BY <2>1, <2>a
  <2> QED
    BY <1>2, <1>3, <2>2, <2>3
<1>5. CASE TakeFree(t)
  BY <1>3, <1>5 DEF TakeFree, Goto
<1>6. CASE TakeNested(t)
  BY <1>3, <1>6 DEF TakeNested, Goto
<1>7. CASE FailOrSpin(t)
  BY <1>2, <1>3, <1>7 DEF FailOrSpin, Goto
<1>8. CASE PushWaiter(t)
  BY <1>2, <1>3, <1>8 DEF PushWaiter, Goto
<1>9. CASE CthSuspendBlocked(t)
  BY <1>2, <1>3, <1>9 DEF CthSuspendBlocked, Goto
<1>10. CASE spin_release_cb(t)
  BY <1>2, <1>3, <1>10 DEF spin_release_cb, Goto
<1>11. CASE ResumeUlt(t)
  BY <1>2, <1>3, <1>11 DEF ResumeUlt, Goto
<1>12. CASE PollSignaled(t)
  BY <1>2, <1>3, <1>12 DEF PollSignaled, Goto
<1>13. CASE UnlockNested(t)
  BY <1>3, <1>13 DEF UnlockNested, Goto
<1>14. CASE UnlockLast(t)
  BY <1>3, <1>14 DEF UnlockLast, Goto
<1>15. CASE wake_store(t)
  BY <1>2, <1>3, <1>15 DEF wake_store, Goto
<1>16. CASE CthAwakenIfBlocked(t)
  BY <1>2, <1>3, <1>16 DEF CthAwakenIfBlocked, Goto
<1> QED
  BY <1>4, <1>5, <1>6, <1>7, <1>8, <1>9, <1>10, <1>11, <1>12, <1>13, <1>14, <1>15, <1>16, ZenonT(40)
     DEF Proceed

\* What the types say of the lists.
LEMMA CondFacts ==
  ASSUME CondTypeOK
  PROVE  /\ Len(cwl) \in Nat
         /\ \A i \in 1..Len(cwl) : cwl[i] \in Threads
         /\ \A t \in Threads : Len(clist[t]) \in Nat
         /\ \A t \in Threads : \A i \in 1..Len(clist[t]) : clist[t][i] \in Threads
<1>1. cwl \in Seq(Threads) /\ \A t \in Threads : clist[t] \in Seq(Threads)
  BY DEF CondTypeOK
<1> QED
  BY <1>1, SeqLen, SeqElement

\* A step of the mutex, inside or outside a wait.
LEMMA MutexPreserves ==
  ASSUME CondIInv, NEW t \in Threads, MutexStep(t), Calls(t) => cpc[t] = "out",
         UNCHANGED condVars
  PROVE  CondIInv'
<1>1. /\ IInv /\ TypeOK /\ CondTypeOK
      /\ UNCHANGED <<cslock, cmutex, cwl, csignaled, cpc, clist, cret>>
  BY DEF CondIInv, IInv, condVars
<1>2. IInv'
  BY <1>1, NextPreserves DEF MutexStep, Next
<1>3. CondTypeOK'
  BY <1>1, <1>2 DEF CondTypeOK, IInv
<1>4. StageInv'
  <2>1. CASE Calls(t)
    <3>1. PICK l \in {"lock", "spin", "try", "unlock"} :
            /\ pc[t] = "out" /\ pc' = [pc EXCEPT ![t] = l]
            /\ UNCHANGED <<slock, locked, owner, nesting, wl, signaled, run, popped, depth>>
      BY <2>1, CallFacts
    <3> QED
      BY <1>1, <2>1, <3>1, ZenonT(40) DEF CondIInv, StageInv, TypeOK
  <2>2. CASE spin_acquire(t) \/ Proceed(t)
    <3>1. PICK l \in PCs, d \in Nat :
            /\ pc' = [pc EXCEPT ![t] = l]
            /\ depth' = [depth EXCEPT ![t] = d]
            /\ \/ pc[t] = "unlock" /\ l = "unlock_cs" /\ d = depth[t]
               \/ pc[t] = "unlock_cs" /\ l \in {"out", "wake_store"} /\ d = depth[t] - 1
               \/ pc[t] = "wake_store" /\ l \in {"out", "wake_cth"} /\ d = depth[t]
               \/ pc[t] = "wake_cth" /\ l = "out" /\ d = depth[t]
               \/ pc[t] = "lock" /\ l = "lock_cs" /\ d = depth[t]
               \/ pc[t] = "lock_cs" /\ l = "out" /\ d = depth[t] + 1
               \/ pc[t] = "lock_cs" /\ l \in {"suspend", "poll"} /\ d = depth[t]
               \/ pc[t] = "suspend" /\ l = "blocked" /\ d = depth[t]
               \/ pc[t] = "blocked" /\ l \in {"blocked", "lock"} /\ d = depth[t]
               \/ pc[t] = "poll" /\ l = "lock" /\ d = depth[t]
               \/ pc[t] \in {"spin", "spin_cs", "try", "try_cs"}
      BY <1>1, <2>2, MutexMove
    <3> QED
      BY <1>1, <3>1, SMTT(30) DEF CondIInv, StageInv, TypeOK
  <2> QED
    BY <2>1, <2>2 DEF MutexStep
<1>5. \A w \in Ults : cpc[w] = "blocked" => run'[w] = run[w]
  BY <1>1, MutexRun DEF CondIInv, StageInv, Threads
<1>6. CondSlockInv' /\ CondRunInv'
  BY <1>1, <1>5, MutexAssumption
     DEF CondIInv, CondSlockInv, CondRunInv, KindInv, CondTypeOK, CondInLock
<1>7. KindInv' /\ HeldInv' /\ SuccessMeansSignaled'
  BY <1>1 DEF CondIInv, KindInv, HeldInv, Held, CondWaits, SuccessMeansSignaled
<1>8. CondListInv'
  BY <1>1, ZenonT(40) DEF CondIInv, CondListInv, RecordLive
<1>9. DetachedInv'
  BY <1>1, <1>5, SMTT(30) DEF CondIInv, DetachedInv, WakerInv, OnceInv, PendingInv, Pending, Signaled
<1> QED
  BY <1>2, <1>3, <1>4, <1>6, <1>7, <1>8, <1>9 DEF CondIInv

-----------------------------------------------------------------------------
\* Steps that move one thread and its claim on c->slock, and nothing else.

\* A record stays on one list while the wakers' lists stay and share nothing
\* with the new list of the condition.
LEMMA OnceKept ==
  ASSUME OnceInv, clist' = clist,
         \A u \in Threads : \A i \in 1..Len(clist[u]) : \A j \in 1..Len(cwl') : clist[u][i] # cwl'[j]
  PROVE  OnceInv'
  BY SMTT(30) DEF OnceInv

LEMMA OnceSame == ASSUME OnceInv, clist' = clist, cwl' = cwl PROVE OnceInv'
  BY SMTT(30) DEF OnceInv

Quiet(t, l, s) ==
  /\ cpc' = [cpc EXCEPT ![t] = l]
  /\ cslock' = s
  /\ UNCHANGED <<vars, cmutex, cwl, csignaled, clist, cret>>
  /\ \/ /\ cpc[t] = "out" /\ pc[t] = "out" /\ s = cslock
        /\ \/ l = "wait" /\ t \in Waiters \ TimedThreads /\ depth[t] = 1
           \/ l = "twait" /\ t \in TimedThreads /\ depth[t] = 1
           \/ l = "other"
           \/ l \in {"signal", "broadcast"} /\ (SignalLocked => depth[t] > 0)
     \/ /\ cslock = None /\ s = t
        /\ \/ cpc[t] = "wait" /\ l = "wait_cs"
           \/ cpc[t] = "twait" /\ l = "twait_cs"
           \/ cpc[t] = "other" /\ l = "other_cs"
           \/ cpc[t] = "expired" /\ l = "expired_cs"
           \/ cpc[t] = "signal" /\ l = "signal_cs"
           \/ cpc[t] = "broadcast" /\ l = "broadcast_cs"
     \/ cpc[t] = "other_cs" /\ l = "out" /\ s = None
     \/ /\ s = None /\ pc[t] = "out"
        /\ \/ cpc[t] = "munlock" /\ l = "poll" /\ t \in Externals
           \/ cpc[t] = "tmunlock" /\ l = "tpoll"
     \/ cpc[t] = "tpoll" /\ l = "expired" /\ s = cslock
     \/ cpc[t] = "blocked" /\ l = "blocked" /\ cslock = t /\ s = None

\* They preserve the invariant where the stage they enter allows it.
LEMMA QuietPreserves ==
  ASSUME CondIInv, NEW t \in Threads, NEW l \in CondPCs, NEW s \in Threads \cup {None},
         Quiet(t, l, s)
  PROVE  CondIInv'
<1>1. /\ IInv /\ TypeOK /\ CondTypeOK
      /\ UNCHANGED <<slock, locked, owner, nesting, wl, signaled, run, pc, popped, depth>>
      /\ UNCHANGED <<cmutex, cwl, csignaled, clist, cret>>
  BY DEF CondIInv, IInv, Quiet, vars
<1>2. IInv'
  BY <1>1, NextPreserves DEF vars
<1>3. CondTypeOK'
  BY <1>1, <1>2 DEF CondTypeOK, IInv, Quiet
<1>4. StageInv'
  BY <1>1, SMTT(30) DEF CondIInv, StageInv, Quiet, CondTypeOK, TypeOK
<1>5. KindInv'
  BY <1>1, MutexAssumption DEF CondIInv, KindInv, Quiet, CondTypeOK, Threads
<1>6. CondSlockInv'
  BY <1>1, MutexAssumption DEF CondIInv, CondSlockInv, CondInLock, Quiet, CondTypeOK
<1>7. CondRunInv'
  BY <1>1, MutexAssumption DEF CondIInv, CondRunInv, Quiet, CondTypeOK, Threads
<1>8. SuccessMeansSignaled'
  BY <1>1 DEF CondIInv, SuccessMeansSignaled, Quiet, CondTypeOK
<1>9. \A u \in Threads : /\ cpc[u] \in {"wake_store", "wake_cth"} => u # t
                         /\ cpc'[u] \in {"wake_store", "wake_cth"} => u # t
                         /\ u # t => cpc'[u] = cpc[u]
  BY <1>1 DEF Quiet, CondTypeOK
<1>10. HeldInv'
  <2>1. \A w \in Threads : CondWaits(w)' => CondWaits(w)
    BY <1>1 DEF CondWaits, Quiet, CondTypeOK
  <2>2. \A w \in Threads : Held(w) => Held(w)'
    BY <1>1, <1>9, CondFacts DEF Held, CondIInv, DetachedInv, WakerInv
  <2> QED
    BY <2>1, <2>2 DEF CondIInv, HeldInv
<1>11. CondListInv'
  BY <1>1, CondFacts, SMTT(30) DEF CondIInv, CondListInv, RecordLive, Quiet, CondTypeOK
<1>12. DetachedInv'
  <2>1. \A w \in Threads : Pending(w) => Pending(w)'
    BY <1>1, MutexAssumption DEF Pending, Quiet, CondTypeOK, CondIInv, CondSlockInv, CondInLock
  <2>2. \A w \in Ults : Signaled(w) => Signaled(w)'
    BY <1>1, MutexAssumption DEF Quiet, CondTypeOK, Signaled, Threads
  <2>3. WakerInv' /\ OnceInv'
    <3>1. WakerInv'
      BY <1>1, <1>9 DEF CondIInv, DetachedInv, WakerInv
    <3>2. OnceInv'
      BY <1>1, OnceSame DEF CondIInv, DetachedInv
    <3> QED
      BY <3>1, <3>2
  <2>4. PendingInv'
    BY <1>1, <1>9, <2>1, <2>2, CondFacts, SMTT(30) DEF CondIInv, DetachedInv, PendingInv, Signaled
  <2> QED
    BY <2>3, <2>4 DEF DetachedInv
<1> QED
  BY <1>2, <1>3, <1>4, <1>5, <1>6, <1>7, <1>8, <1>10, <1>11, <1>12 DEF CondIInv

\* The steps that are quiet.
LEMMA QuietSteps ==
  ASSUME CondIInv, NEW t \in Threads,
         \/ CondCalls(t) \/ cond_acquire(t) \/ CondInvMutex(t) \/ CondPoll(t)
         \/ cond_release_cb(t) \/ CondDeadline(t)
  PROVE  \E l \in CondPCs, s \in Threads \cup {None} : Quiet(t, l, s)
<1> USE DEF CondPCs, CondInLock
<1>1. /\ CondTypeOK
      /\ cpc = [cpc EXCEPT ![t] = cpc[t]]
      /\ cslock \in Threads \cup {None}
  BY DEF CondIInv, CondTypeOK
<1>2. CASE CondCalls(t)
  <2>1. PICK l \in {"wait", "twait", "other", "signal", "broadcast"} :
          /\ CondCall(t, l)
          /\ \/ l = "wait" /\ t \in Waiters \ TimedThreads /\ depth[t] = 1
             \/ l = "twait" /\ t \in TimedThreads /\ depth[t] = 1
             \/ l = "other"
             \/ l \in {"signal", "broadcast"} /\ (SignalLocked => depth[t] > 0)
    BY <1>2 DEF CondCalls, ABT_cond_wait, ABT_cond_timedwait, CondWaitOther,
       ABT_cond_signal, ABT_cond_broadcast
  <2>2. Quiet(t, l, cslock)
    BY <2>1 DEF Quiet, CondCall, CondGoto
  <2> QED
    BY <1>1, <2>2
<1>3. CASE cond_acquire(t)
  <2>1. PICK p \in {<<"wait", "wait_cs">>, <<"twait", "twait_cs">>, <<"other", "other_cs">>,
                    <<"expired", "expired_cs">>, <<"signal", "signal_cs">>,
                    <<"broadcast", "broadcast_cs">>} :
          cpc[t] = p[1] /\ cpc' = [cpc EXCEPT ![t] = p[2]]
    BY <1>3 DEF cond_acquire, CondGoto
  <2>2. /\ p[2] \in CondPCs
        /\ \/ p[1] = "wait" /\ p[2] = "wait_cs"
           \/ p[1] = "twait" /\ p[2] = "twait_cs"
           \/ p[1] = "other" /\ p[2] = "other_cs"
           \/ p[1] = "expired" /\ p[2] = "expired_cs"
           \/ p[1] = "signal" /\ p[2] = "signal_cs"
           \/ p[1] = "broadcast" /\ p[2] = "broadcast_cs"
    BY SMTT(30)
  <2>3. Quiet(t, p[2], t)
    BY <1>3, <2>1, <2>2 DEF cond_acquire, Quiet
  <2> QED
    BY <2>2, <2>3
<1>4. CASE CondInvMutex(t)
  <2>1. Quiet(t, "out", None)
    BY <1>4 DEF CondInvMutex, Quiet, CondGoto
  <2> QED
    BY <2>1
<1>5. CASE CondPoll(t)
  <2>1. Quiet(t, "poll", None) \/ Quiet(t, "tpoll", None)
    BY <1>5 DEF CondPoll, Quiet, CondGoto
  <2> QED
    BY <2>1
<1>6. CASE cond_release_cb(t)
  <2>1. Quiet(t, "blocked", None)
    BY <1>1, <1>6 DEF cond_release_cb, Quiet
  <2> QED
    BY <2>1
<1>7. CASE CondDeadline(t)
  <2>1. Quiet(t, "expired", cslock)
    BY <1>7 DEF CondDeadline, Quiet, CondGoto
  <2> QED
    BY <1>1, <2>1
<1> QED
  BY <1>2, <1>3, <1>4, <1>5, <1>6, <1>7

-----------------------------------------------------------------------------
\* The steps of a wait that do more.

\* A list at wake_cth or wake_store has a first record.
LEMMA HeadFacts ==
  ASSUME CondIInv, NEW t \in Threads, cpc[t] \in {"wake_store", "wake_cth"}
  PROVE  /\ clist[t] \in Seq(Threads) /\ clist[t] # <<>>
         /\ 1 \in 1..Len(clist[t])
         /\ clist[t][1] \in Threads
         /\ Head(clist[t]) = clist[t][1]
         /\ Tail(clist[t]) \in Seq(Threads)
         /\ Len(Tail(clist[t])) = Len(clist[t]) - 1
         /\ \A i \in 1..Len(clist[t]) - 1 : Tail(clist[t])[i] = clist[t][i + 1]
<1>1. clist[t] \in Seq(Threads) /\ clist[t] # <<>>
  BY DEF CondIInv, CondTypeOK, DetachedInv, WakerInv
<1> QED
  BY <1>1, PopFacts, SMTT(30) DEF wl_pop

\* What a waker holds stays pending while the lists and the wakers stay and no
\* record on them changes but, possibly, that of a thread t on none.
LEMMA PendingKept ==
  ASSUME CondIInv, NEW t, clist' = clist,
         \A u \in Threads : \A i \in 1..Len(clist[u]) : clist[u][i] # t,
         \A u \in Threads : cpc'[u] \in {"wake_store", "wake_cth"} => cpc'[u] = cpc[u],
         \A w \in Threads : w # t /\ Pending(w) => Pending(w)',
         \A w \in Ults : w # t /\ Signaled(w) => Signaled(w)'
  PROVE  PendingInv'
<1> SUFFICES ASSUME NEW u \in Threads
             PROVE  /\ \A i \in 1..Len(clist'[u]) :
                         cpc'[u] = "wake_store" \/ i > 1 => Pending(clist[u][i])'
                    /\ cpc'[u] = "wake_cth" => Signaled(clist[u][1])'
  BY DEF PendingInv
<1>1. ASSUME NEW i \in 1..Len(clist[u]), cpc'[u] = "wake_store" \/ i > 1
      PROVE  Pending(clist[u][i])'
  <2>1. PICK w \in Threads : w = clist[u][i]
    BY CondFacts DEF CondIInv
  <2>2. w # t /\ clist'[u][i] = w
    BY <2>1
  <2>3. cpc[u] = "wake_store" \/ i > 1
    BY <1>1
  <2>4. Pending(w)
    BY <2>1, <2>3 DEF CondIInv, DetachedInv, PendingInv
  <2>5. Pending(w)'
    BY <2>2, <2>4
  <2> QED
    BY <2>2, <2>5 DEF Pending
<1>2. ASSUME cpc'[u] = "wake_cth"
      PROVE  Signaled(clist[u][1])'
  <2>1. cpc[u] = "wake_cth"
    BY <1>2
  <2>2. 1 \in 1..Len(clist[u])
    BY <2>1, HeadFacts
  <2>a. PICK w \in Threads : w = clist[u][1]
    BY <2>2, CondFacts DEF CondIInv
  <2>3. w \in Ults /\ w # t /\ clist'[u][1] = w /\ Signaled(w)
    BY <2>1, <2>2, <2>a DEF CondIInv, DetachedInv, PendingInv, Signaled
  <2>4. Signaled(w)'
    BY <2>3
  <2> QED
    BY <2>3, <2>4 DEF Signaled
<1> QED
  BY <1>1, <1>2

\* The record is listed and the unlock begins.
LEMMA PushStep ==
  ASSUME CondIInv, NEW t \in Threads, CondPush(t)
  PROVE  CondIInv'
<1> DEFINE n == Len(cwl)
           l == IF cpc[t] = "wait_cs" THEN "munlock" ELSE "tmunlock"
<1>1. /\ IInv /\ TypeOK /\ CondTypeOK
      /\ n \in Nat
      /\ \A i \in 1..n : cwl[i] \in Threads
  BY CondFacts DEF CondIInv, IInv
<1>2. /\ cwl' \in Seq(Threads)
      /\ Len(cwl') = n + 1
      /\ cwl'[n + 1] = t
      /\ \A i \in 1..n : cwl'[i] = cwl[i]
  BY <1>1, PushFacts DEF CondTypeOK, CondPush
<1>3. /\ cpc[t] \in {"wait_cs", "twait_cs"}
      /\ cslock = t /\ pc[t] = "out" /\ depth[t] = 1
      /\ cpc' = [cpc EXCEPT ![t] = l]
      /\ pc' = [pc EXCEPT ![t] = "unlock"]
      /\ cmutex' = "m"
      /\ csignaled' = [csignaled EXCEPT ![t] = FALSE]
      /\ UNCHANGED <<slock, locked, owner, nesting, wl, signaled, run, popped, depth>>
      /\ UNCHANGED <<cslock, clist, cret>>
  BY DEF CondPush, CondGoto, Goto, CondIInv, CondSlockInv, CondInLock, StageInv
<1>4. IInv'
  <2>1. depth[t] > 0 /\ run' = run /\ run \in [Ults -> {"RUNNING", "BLOCKED", "READY"}]
    BY <1>1, <1>3, SMTT(30) DEF TypeOK
  <2> QED
    BY <1>1, <1>3, <2>1, OutsidePreserves
<1>5. CondTypeOK'
  BY <1>1, <1>2, <1>3, <1>4 DEF CondTypeOK, IInv, CondPCs, CondInLock
<1>6. StageInv'
  BY <1>1, <1>3, SMTT(30) DEF CondIInv, StageInv, CondTypeOK, TypeOK
<1>7. KindInv'
  BY <1>1, <1>3 DEF CondIInv, KindInv, CondTypeOK
<1>8. CondSlockInv'
  BY <1>1, <1>3, MutexAssumption DEF CondIInv, CondSlockInv, CondInLock, CondTypeOK
<1>9. CondRunInv'
  BY <1>1, <1>3 DEF CondIInv, CondRunInv, CondTypeOK, Threads
<1>10. SuccessMeansSignaled'
  BY <1>1, <1>3 DEF CondIInv, SuccessMeansSignaled, CondTypeOK
<1>11. /\ \A i \in 1..n : cwl[i] # t
       /\ \A u \in Threads : \A i \in 1..Len(clist[u]) :
            cpc[u] = "wake_store" \/ i > 1 => clist[u][i] # t
       /\ \A u \in Threads : cpc[u] = "wake_cth" => clist[u][1] # t
  BY <1>1, <1>3, MutexAssumption, SMTT(30)
     DEF CondIInv, CondListInv, RecordLive, CondSlockInv, CondInLock, DetachedInv, PendingInv,
         Pending, Signaled
<1>12. \A u \in Threads : \A i \in 1..Len(clist[u]) : clist[u][i] # t
  BY <1>1, <1>11, CondFacts, SeqEmpty, SMTT(30) DEF CondIInv, DetachedInv, WakerInv
<1>13. HeldInv'
  <2> SUFFICES ASSUME NEW w \in Threads, CondWaits(w)'
               PROVE  Held(w)'
    BY DEF HeldInv
  <2>1. CASE w = t
    BY <1>1, <1>2, <2>1, SMTT(30) DEF Held
  <2>2. CASE w # t
    <3>1. CondWaits(w)
      BY <1>1, <1>3, <2>2 DEF CondWaits, CondTypeOK
    <3>2. Held(w)
      BY <3>1 DEF CondIInv, HeldInv
    <3> QED
      BY <1>1, <1>2, <1>3, <3>2, SMTT(30) DEF Held, CondTypeOK
  <2> QED
    BY <2>1, <2>2
<1>14. CondListInv'
  <2>1. \A i, j \in 1..n + 1 : cwl'[i] = cwl'[j] => i = j
    BY <1>1, <1>2, <1>11, SMTT(30) DEF CondIInv, CondListInv
  <2>2. \A i \in 1..n + 1 : (i \in 1..n /\ cwl'[i] = cwl[i]) \/ (i = n + 1 /\ cwl'[i] = t)
    BY <1>1, <1>2, SMTT(30)
  <2>3. \A i \in 1..n : /\ RecordLive(cwl[i])' /\ cpc'[cwl[i]] # "relock"
                        /\ ~csignaled'[cwl[i]]
    BY <1>1, <1>2, <1>3, <1>11 DEF CondIInv, CondListInv, RecordLive, CondTypeOK
  <2>4. RecordLive(t)' /\ cpc'[t] # "relock" /\ ~csignaled'[t]
    BY <1>1, <1>3 DEF RecordLive, CondTypeOK
  <2>5. cwl' # <<>> /\ \A u \in Threads : cpc'[u] \in {"munlock", "tmunlock"} => u = t
    BY <1>1, <1>2, <1>3, SeqEmpty, SMTT(30) DEF CondIInv, CondSlockInv, CondInLock, CondTypeOK
  <2> QED
    BY <1>1, <1>2, <2>1, <2>2, <2>3, <2>4, <2>5 DEF CondListInv, RecordLive
<1>15. DetachedInv'
  <2>1. \A w \in Threads : w # t /\ Pending(w) => Pending(w)'
    BY <1>1, <1>3 DEF Pending, CondTypeOK
  <2>2. \A u \in Threads : \A i \in 1..Len(clist[u]), j \in 1..n + 1 : clist[u][i] # cwl'[j]
    BY <1>1, <1>2, <1>12, SMTT(30) DEF CondIInv, DetachedInv, OnceInv
  <2>3. \A w \in Ults : Signaled(w) => Signaled(w)'
    BY <1>1, <1>3 DEF Signaled, CondTypeOK, Threads
  <2>4. WakerInv' /\ OnceInv'
    <3>1. WakerInv'
      BY <1>1, <1>2, <1>3, <2>2 DEF CondIInv, DetachedInv, WakerInv, CondTypeOK
    <3>2. OnceInv'
      BY <1>2, <1>3, <2>2, OnceKept DEF CondIInv, DetachedInv
    <3> QED
      BY <3>1, <3>2
  <2>5. \A u \in Threads : cpc'[u] \in {"wake_store", "wake_cth"} => cpc'[u] = cpc[u]
    BY <1>1, <1>3 DEF CondTypeOK
  <2>6. PendingInv'
    BY <1>3, <1>12, <2>1, <2>3, <2>5, PendingKept
  <2> QED
    BY <2>4, <2>6 DEF DetachedInv
<1> QED
  BY <1>4, <1>5, <1>6, <1>7, <1>8, <1>9, <1>10, <1>13, <1>14, <1>15 DEF CondIInv

\* A waiter whose own place changes while the lists stay: suspended, woken or back.
LEMMA SuspendStep ==
  ASSUME CondIInv, NEW t \in Threads, CondSuspend(t)
  PROVE  CondIInv'
<1>1. /\ IInv /\ TypeOK /\ CondTypeOK
  BY DEF CondIInv, IInv
<1>2. /\ cpc[t] = "munlock" /\ pc[t] = "out" /\ t \in Ults /\ cslock = t
      /\ cpc' = [cpc EXCEPT ![t] = "blocked"]
      /\ run' = [run EXCEPT ![t] = "BLOCKED"]
      /\ UNCHANGED <<slock, locked, owner, nesting, wl, signaled, pc, popped, depth>>
      /\ UNCHANGED <<cslock, cmutex, cwl, csignaled, clist, cret>>
  BY DEF CondSuspend, CondGoto, mutexVars, CondIInv, CondSlockInv, CondInLock
<1>3. IInv'
  BY <1>1, <1>2, OutsidePreserves DEF TypeOK
<1>4. CondTypeOK'
  BY <1>1, <1>2, <1>3 DEF CondTypeOK, IInv, CondPCs, CondInLock
<1>5. StageInv' /\ KindInv'
  <2>1. KindInv'
    BY <1>1, <1>2 DEF CondIInv, KindInv, CondTypeOK
  <2>2. StageInv'
    BY <1>1, <1>2, ZenonT(40) DEF CondIInv, StageInv, CondTypeOK
  <2> QED
    BY <2>1, <2>2
<1>6. CondSlockInv'
  BY <1>1, <1>2, MutexAssumption DEF CondIInv, CondSlockInv, CondInLock, CondTypeOK, TypeOK
<1>7. CondRunInv' /\ SuccessMeansSignaled'
  BY <1>1, <1>2 DEF CondIInv, CondRunInv, SuccessMeansSignaled, CondTypeOK, TypeOK, Threads
<1>8. HeldInv'
  <2>1. \A w \in Threads : CondWaits(w)' => CondWaits(w)
    BY <1>1, <1>2 DEF CondWaits, CondTypeOK
  <2>2. \A w \in Threads : Held(w) => Held(w)'
    BY <1>1, <1>2, CondFacts DEF Held, CondIInv, DetachedInv, WakerInv, CondTypeOK
  <2> QED
    BY <2>1, <2>2 DEF CondIInv, HeldInv
<1>9. CondListInv'
  BY <1>1, <1>2, CondFacts, ZenonT(40) DEF CondIInv, CondListInv, RecordLive, CondTypeOK
<1>10. DetachedInv'
  <2>1. \A w \in Threads : Pending(w) => Pending(w)'
    BY <1>1, <1>2 DEF Pending, CondTypeOK
  <2>2. \A w \in Ults : Signaled(w) => Signaled(w)'
    BY <1>1, <1>2 DEF Signaled, CondTypeOK, TypeOK, Threads
  <2>3. WakerInv' /\ OnceInv'
    <3>1. WakerInv'
      BY <1>1, <1>2 DEF CondIInv, DetachedInv, WakerInv, CondTypeOK
    <3>2. OnceInv'
      BY <1>1, <1>2, OnceSame DEF CondIInv, DetachedInv
    <3> QED
      BY <3>1, <3>2
  <2>4. PendingInv'
    <3>1. \A u \in Threads : cpc'[u] \in {"wake_store", "wake_cth"} => cpc'[u] = cpc[u]
      BY <1>1, <1>2 DEF CondTypeOK
    <3>2. \A u \in Threads : \A i \in 1..Len(clist[u]) : clist[u][i] # None
      BY CondFacts, MutexAssumption DEF CondIInv
    <3> QED
      BY <1>2, <2>1, <2>2, <3>1, <3>2, PendingKept
  <2> QED
    BY <2>3, <2>4 DEF DetachedInv
<1> QED
  BY <1>3, <1>4, <1>5, <1>6, <1>7, <1>8, <1>9, <1>10 DEF CondIInv

\* A thread on neither kind of list.
Unlisted(t) == /\ \A i \in 1..Len(cwl) : cwl[i] # t
               /\ \A u \in Threads : \A i \in 1..Len(clist[u]) : clist[u][i] # t

\* Such a thread may move and reset its record.
LEMMA UnlistedMoves ==
  ASSUME CondIInv, NEW t \in Threads, Unlisted(t), NEW l \in CondPCs \ {"wake_store", "wake_cth"},
         cpc[t] \notin {"wake_store", "wake_cth"},
         l \notin {"munlock", "tmunlock", "blocked", "poll", "tpoll"},
         cpc' = [cpc EXCEPT ![t] = l],
         \A w \in Threads : w # t => csignaled'[w] = csignaled[w],
         \A w \in Ults : w # t => run'[w] = run[w],
         cslock' \in {cslock, None},
         UNCHANGED <<cwl, clist>>
  PROVE  CondListInv' /\ DetachedInv' /\ HeldInv'
<1>1. CondTypeOK
  BY DEF CondIInv
<1>2. \A w \in Threads : w # t => cpc'[w] = cpc[w]
  BY <1>1 DEF CondTypeOK
<1>3. cpc'[t] = l
  BY <1>1 DEF CondTypeOK
<1>4. CondListInv'
  BY <1>1, <1>2, CondFacts, SMTT(30) DEF CondIInv, CondListInv, RecordLive, Unlisted
<1>5. DetachedInv'
  <2>1. \A w \in Threads : w # t /\ Pending(w) => Pending(w)'
    BY <1>1, <1>2, MutexAssumption DEF Pending
  <2>2. \A w \in Ults : w # t /\ Signaled(w) => Signaled(w)'
    BY <1>1, <1>2, MutexAssumption DEF Signaled, Threads
  <2>3. WakerInv' /\ OnceInv'
    <3>1. WakerInv'
      BY <1>2, <1>3 DEF CondIInv, DetachedInv, WakerInv
    <3>2. OnceInv'
      BY <1>2, OnceSame DEF CondIInv, DetachedInv
    <3> QED
      BY <3>1, <3>2
  <2>4. \A u \in Threads : cpc'[u] \in {"wake_store", "wake_cth"} => cpc'[u] = cpc[u]
    BY <1>2, <1>3
  <2>5. clist' = clist /\ \A u \in Threads : \A i \in 1..Len(clist[u]) : clist[u][i] # t
    BY <1>2 DEF Unlisted
  <2>6. PendingInv'
    BY <2>1, <2>2, <2>4, <2>5, PendingKept
  <2> QED
    BY <2>3, <2>6 DEF DetachedInv
<1>6. HeldInv'
  <2>1. \A w \in Threads : CondWaits(w)' => CondWaits(w)
    BY <1>2, <1>3 DEF CondWaits
  <2>2. \A w \in Threads : Held(w) => Held(w)'
    BY <1>1, <1>2, <1>3, CondFacts DEF Held
  <2> QED
    BY <2>1, <2>2 DEF CondIInv, HeldInv
<1> QED
  BY <1>4, <1>5, <1>6

\* A record whose flag is set, or whose owner is none of the kinds that are
\* listed, is on no list.
LEMMA UnlistedFacts ==
  ASSUME CondIInv, NEW t \in Threads,
         csignaled[t] \/ cpc[t] = "relock",
         ~Signaled(t), ~Pending(t)
  PROVE  Unlisted(t)
<1>1. CondTypeOK
  BY DEF CondIInv
<1>2. \A i \in 1..Len(cwl) : cwl[i] # t
  BY <1>1, CondFacts, SMTT(30) DEF CondIInv, CondListInv
<1>3. ASSUME NEW u \in Threads, NEW i \in 1..Len(clist[u]), clist[u][i] = t
      PROVE  FALSE
  <2>1. clist[u] # <<>> /\ Len(clist[u]) \in Nat
    BY <1>1, <1>3, CondFacts, SeqEmpty, SMTT(30) DEF CondTypeOK
  <2>2. cpc[u] \in {"wake_store", "wake_cth"}
    BY <2>1 DEF CondIInv, DetachedInv, WakerInv
  <2>3. CASE cpc[u] = "wake_store" \/ i > 1
    BY <1>3, <2>3 DEF CondIInv, DetachedInv, PendingInv
  <2>4. CASE cpc[u] = "wake_cth" /\ i = 1
    BY <1>3, <2>4 DEF CondIInv, DetachedInv, PendingInv
  <2> QED
    BY <2>1, <2>2, <2>3, <2>4, SMTT(30)
<1> QED
  BY <1>2, <1>3 DEF Unlisted

\* The wait is over and the lock begins.
LEMMA WokenStep ==
  ASSUME CondIInv, NEW t \in Threads, CondWoken(t)
  PROVE  CondIInv'
<1>1. /\ IInv /\ TypeOK /\ CondTypeOK
  BY DEF CondIInv, IInv
<1>2. /\ cpc[t] \in {"blocked", "poll", "tpoll"}
      /\ pc[t] = "out" /\ depth[t] = 0
      /\ cpc' = [cpc EXCEPT ![t] = "relock"]
      /\ pc' = [pc EXCEPT ![t] = "lock"]
      /\ cret' = [cret EXCEPT ![t] = "SUCCESS"]
      /\ UNCHANGED <<slock, locked, owner, nesting, wl, signaled, popped, depth>>
      /\ UNCHANGED <<cslock, cmutex, cwl, csignaled, clist>>
  BY DEF CondWoken, Relock, CondGoto, Goto, mutexVars, CondIInv, StageInv
<1>3. /\ run' \in [Ults -> {"RUNNING", "BLOCKED", "READY"}]
      /\ \A u \in Ults : u # t => run'[u] = run[u]
      /\ t \in Ults /\ cpc[t] = "blocked" => run[t] = "READY"
  BY <1>1, MutexAssumption DEF CondWoken, TypeOK, CondIInv, KindInv, Threads
<1>4. csignaled[t] /\ cslock # t
  BY <1>1, MutexAssumption
     DEF CondWoken, CondIInv, CondRunInv, KindInv, CondSlockInv, CondInLock, Threads
<1>5. IInv'
  <2>1. \A u \in Ults : pc[u] # "out" => run'[u] = run[u]
    BY <1>2, <1>3
  <2> QED
    BY <1>1, <1>2, <1>3, <2>1, OutsidePreserves
<1>6. CondTypeOK'
  BY <1>1, <1>2, <1>5 DEF CondTypeOK, IInv, CondPCs, CondInLock
<1>7. StageInv' /\ KindInv'
  BY <1>1, <1>2, MutexAssumption, ZenonT(40) DEF CondIInv, StageInv, KindInv, CondTypeOK, TypeOK, Threads
<1>8. CondSlockInv'
  BY <1>1, <1>2, <1>3, <1>4, MutexAssumption DEF CondIInv, CondSlockInv, CondInLock, CondTypeOK, KindInv
<1>9. CondRunInv' /\ SuccessMeansSignaled'
  BY <1>1, <1>2, <1>3, <1>4, MutexAssumption
     DEF CondIInv, CondRunInv, SuccessMeansSignaled, CondTypeOK, Threads
<1>10. Unlisted(t)
  BY <1>2, <1>3, <1>4, UnlistedFacts DEF Signaled, Pending
<1>11. CondListInv' /\ DetachedInv' /\ HeldInv'
  BY <1>2, <1>3, <1>10, UnlistedMoves DEF CondPCs
<1> QED
  BY <1>5, <1>6, <1>7, <1>8, <1>9, <1>11 DEF CondIInv

\* The wait returns: nobody holds the record that goes away.
LEMMA ReturnStep ==
  ASSUME TimedWaitsSafe, CondIInv, NEW t \in Threads, CondReturn(t)
  PROVE  CondIInv'
<1>1. /\ IInv /\ TypeOK /\ CondTypeOK
  BY DEF CondIInv, IInv
<1>2. /\ cpc[t] = "relock" /\ pc[t] = "out" /\ depth[t] = 1
      /\ cpc' = [cpc EXCEPT ![t] = "out"]
      /\ csignaled' = [csignaled EXCEPT ![t] = FALSE]
      /\ cret' = [cret EXCEPT ![t] = None]
      /\ UNCHANGED <<slock, locked, owner, nesting, wl, signaled, run, pc, popped, depth>>
      /\ UNCHANGED <<cslock, cmutex, cwl, clist>>
  BY DEF CondReturn, CondGoto, vars, CondIInv, StageInv
<1>3. IInv'
  BY <1>1, <1>2, NextPreserves DEF vars
<1>4. CondTypeOK'
  BY <1>1, <1>2, <1>3 DEF CondTypeOK, IInv, CondPCs, CondInLock
<1>5. StageInv' /\ KindInv'
  BY <1>1, <1>2, ZenonT(40) DEF CondIInv, StageInv, KindInv, CondTypeOK
<1>6. CondSlockInv'
  BY <1>1, <1>2, MutexAssumption DEF CondIInv, CondSlockInv, CondInLock, CondTypeOK
<1>7. CondRunInv' /\ SuccessMeansSignaled'
  BY <1>1, <1>2 DEF CondIInv, CondRunInv, SuccessMeansSignaled, CondTypeOK, Threads
<1>8. Unlisted(t)
  <2>1. \A i \in 1..Len(cwl) : cwl[i] # t
    BY <1>2 DEF CondIInv, CondListInv
  <2>2. ASSUME NEW u \in Threads, NEW i \in 1..Len(clist[u]), clist[u][i] = t
        PROVE  FALSE
    <3>1. clist[u] # <<>> /\ Len(clist[u]) \in Nat
      BY <1>1, CondFacts, SeqEmpty, SMTT(30) DEF CondTypeOK
    <3>2. cpc[u] \in {"wake_store", "wake_cth"}
      BY <3>1 DEF CondIInv, DetachedInv, WakerInv
    <3>3. cpc[u] = "wake_store" \/ i > 1
      <4>1. cpc[u] = "wake_cth" => clist[u][1] # t
        BY <1>2 DEF CondIInv, DetachedInv, PendingInv, Signaled
      <4>2. i # 1 => i > 1
        BY <3>1, SMTT(30)
      <4> QED
        BY <2>2, <3>2, <4>1, <4>2
    <3>4. t \in TimedThreads
      BY <1>2, <2>2, <3>3 DEF CondIInv, DetachedInv, PendingInv, Pending
    <3>5. depth[u] > 0
      BY <3>2, <3>4 DEF TimedWaitsSafe, CondIInv, StageInv
    <3> QED
      BY <1>1, <1>2, <3>2, <3>5, SMTT(30) DEF IInv, HoldInv, HolderExclusive
  <2> QED
    BY <2>1, <2>2 DEF Unlisted
<1>9. CondListInv' /\ DetachedInv' /\ HeldInv'
  <2>1. /\ \A w \in Threads : w # t => csignaled'[w] = csignaled[w]
        /\ \A w \in Ults : w # t => run'[w] = run[w]
    BY <1>1, <1>2 DEF CondTypeOK
  <2> QED
    BY <1>2, <1>8, <2>1, UnlistedMoves DEF CondPCs
<1> QED
  BY <1>3, <1>4, <1>5, <1>6, <1>7, <1>9 DEF CondIInv

\* What wl_remove returns on a list without repetitions.
LEMMA RemoveFacts ==
  ASSUME NEW l \in Seq(Threads), NEW w \in Threads,
         \A i, j \in 1..Len(l) : l[i] = l[j] => i = j
  PROVE  /\ wl_remove(l, w) \in Seq(Threads)
         /\ \/ wl_remove(l, w) = l /\ \A i \in 1..Len(l) : l[i] # w
            \/ \E k \in 1..Len(l) :
                 /\ l[k] = w
                 /\ Len(wl_remove(l, w)) = Len(l) - 1
                 /\ wl_remove(l, w) = [j \in 1..Len(l) - 1 |-> IF j < k THEN l[j] ELSE l[j + 1]]
<1>1. Len(l) \in Nat /\ \A i \in 1..Len(l) : l[i] \in Threads
  BY SeqLen, SeqElement
<1>2. CASE \A i \in 1..Len(l) : l[i] # w
  BY <1>2 DEF wl_remove
<1>3. CASE \E i \in 1..Len(l) : l[i] = w
  <2> DEFINE k == At(l, w)
             r == [j \in 1..Len(l) - 1 |-> IF j < k THEN l[j] ELSE l[j + 1]]
  <2>1. k \in 1..Len(l) /\ l[k] = w
    <3>1. PICK i \in 1..Len(l) : l[i] = w
      BY <1>3
    <3>2. \A j \in 1..i - 1 : l[j] # w
      BY <1>1, <3>1, SMTT(30)
    <3> QED
      BY <3>1, <3>2 DEF At
  <2>2. wl_remove(l, w) = r
    BY <1>3 DEF wl_remove
  <2> HIDE DEF k
  <2>3. Len(l) - 1 \in Nat /\ \A j \in 1..Len(l) - 1 : r[j] \in Threads
    BY <1>1, <2>1, SMTT(30)
  <2>4. r \in Seq(Threads) /\ Len(r) = Len(l) - 1
    BY <2>3, SeqOf, SMTT(30)
  <2> QED
    BY <2>1, <2>2, <2>4, ZenonT(40)
<1> QED
  BY <1>2, <1>3

\* The deadline passed: the record leaves the list, unless a signal took it
\* first and has yet to store its flag.
LEMMA ExpiredStep ==
  ASSUME CondIInv, NEW t \in Threads, CondExpired(t)
  PROVE  CondIInv'
<1> DEFINE n == Len(cwl)
<1>1. /\ IInv /\ TypeOK /\ CondTypeOK
      /\ n \in Nat
      /\ \A i \in 1..n : cwl[i] \in Threads
  BY CondFacts DEF CondIInv, IInv
<1>2. /\ cpc[t] = "expired_cs" /\ pc[t] = "out" /\ depth[t] = 0
      /\ t \in TimedThreads /\ cslock = t /\ cslock' = None
      /\ cpc' = [cpc EXCEPT ![t] = "relock"]
      /\ pc' = [pc EXCEPT ![t] = "lock"]
      /\ cret' = [cret EXCEPT ![t] = IF csignaled[t] THEN "SUCCESS" ELSE "TIMEDOUT"]
      /\ cwl' = IF csignaled[t] THEN cwl ELSE wl_remove(cwl, t)
      /\ UNCHANGED <<slock, locked, owner, nesting, wl, signaled, run, popped, depth>>
      /\ UNCHANGED <<cmutex, csignaled, clist>>
  BY DEF CondExpired, Relock, CondGoto, Goto, mutexVars, CondIInv, StageInv, KindInv,
         CondSlockInv, CondInLock
<1>3. IInv'
  <2>1. /\ run' \in [Ults -> {"RUNNING", "BLOCKED", "READY"}]
        /\ \A u \in Ults : pc[u] # "out" => run'[u] = run[u]
    BY <1>1, <1>2 DEF TypeOK
  <2> QED
    BY <1>1, <1>2, <2>1, OutsidePreserves
<1>4. /\ cwl' \in Seq(Threads)
      /\ \/ cwl' = cwl /\ \A i \in 1..n : cwl[i] # t
         \/ \E k \in 1..n :
              /\ cwl[k] = t /\ Len(cwl') = n - 1
              /\ \A j \in 1..n - 1 : cwl'[j] = IF j < k THEN cwl[j] ELSE cwl[j + 1]
  <2>1. CASE csignaled[t]
    <3>1. cwl' = cwl /\ cwl \in Seq(Threads)
      BY <1>1, <1>2, <2>1 DEF CondTypeOK
    <3>2. \A i \in 1..n : cwl[i] # t
      BY <2>1 DEF CondIInv, CondListInv
    <3> QED
      BY <3>1, <3>2
  <2>2. CASE ~csignaled[t]
    <3>1. cwl \in Seq(Threads) /\ \A i, j \in 1..Len(cwl) : cwl[i] = cwl[j] => i = j
      BY DEF CondIInv, CondListInv, CondTypeOK
    <3>2. cwl' = wl_remove(cwl, t)
      BY <1>2, <2>2
    <3> HIDE DEF n
    <3>3. /\ wl_remove(cwl, t) \in Seq(Threads)
          /\ \/ wl_remove(cwl, t) = cwl /\ \A i \in 1..Len(cwl) : cwl[i] # t
             \/ \E k \in 1..Len(cwl) :
                  /\ cwl[k] = t
                  /\ Len(wl_remove(cwl, t)) = Len(cwl) - 1
                  /\ wl_remove(cwl, t) = [j \in 1..Len(cwl) - 1 |-> IF j < k THEN cwl[j] ELSE cwl[j + 1]]
      BY <3>1, RemoveFacts
    <3> USE DEF n
    <3> QED
      BY <3>2, <3>3
  <2> QED
    BY <2>1, <2>2
<1>5. CondTypeOK'
  BY <1>1, <1>2, <1>3, <1>4 DEF CondTypeOK, IInv, CondPCs, CondInLock
<1>6. StageInv' /\ KindInv'
  BY <1>1, <1>2, ZenonT(40) DEF CondIInv, StageInv, KindInv, CondTypeOK, TypeOK
<1>7. CondSlockInv'
  BY <1>1, <1>2, MutexAssumption DEF CondIInv, CondSlockInv, CondInLock, CondTypeOK
<1>8. CondRunInv'
  BY <1>1, <1>2 DEF CondIInv, CondRunInv, CondTypeOK, Threads
<1>9. SuccessMeansSignaled'
  BY <1>1, <1>2 DEF CondIInv, SuccessMeansSignaled, CondTypeOK
<1>10. /\ Len(cwl') \in Nat
       /\ \A i \in 1..Len(cwl') : \E j \in 1..n : cwl'[i] = cwl[j] /\ cwl[j] # t
       /\ \A j \in 1..n : cwl[j] # t => \E i \in 1..Len(cwl') : cwl'[i] = cwl[j]
       /\ \A i, j \in 1..Len(cwl') : cwl'[i] = cwl'[j] => i = j
  <2>1. \A i, j \in 1..n : cwl[i] = cwl[j] => i = j
    BY DEF CondIInv, CondListInv
  <2>2. CASE cwl' = cwl /\ \A i \in 1..n : cwl[i] # t
    BY <1>1, <2>1, <2>2
  <2>3. ASSUME NEW k \in 1..n, cwl[k] = t, Len(cwl') = n - 1,
               \A j \in 1..n - 1 : cwl'[j] = IF j < k THEN cwl[j] ELSE cwl[j + 1]
        PROVE  /\ Len(cwl') \in Nat
               /\ \A i \in 1..Len(cwl') : \E j \in 1..n : cwl'[i] = cwl[j] /\ cwl[j] # t
               /\ \A j \in 1..n : cwl[j] # t => \E i \in 1..Len(cwl') : cwl'[i] = cwl[j]
               /\ \A i, j \in 1..Len(cwl') : cwl'[i] = cwl'[j] => i = j
    <3>1. ASSUME NEW j \in 1..n, cwl[j] # t
          PROVE  \E i \in 1..Len(cwl') : cwl'[i] = cwl[j]
      <4>1. CASE j < k
        BY <1>1, <2>3, <4>1, SMTT(30)
      <4>2. CASE j > k
        <5>1. j - 1 \in 1..n - 1 /\ ~(j - 1 < k) /\ cwl'[j - 1] = cwl[j - 1 + 1] /\ j - 1 + 1 = j
          BY <1>1, <2>3, <4>2, SMTT(30)
        <5> QED
          BY <2>3, <5>1
      <4> QED
        BY <1>1, <2>3, <3>1, <4>1, <4>2, SMTT(30)
    <3>2. ASSUME NEW i \in 1..n - 1
          PROVE  \E j \in 1..n : cwl'[i] = cwl[j] /\ cwl[j] # t
      BY <1>1, <2>1, <2>3, SMTT(30)
    <3>3. \A i, j \in 1..n - 1 : cwl'[i] = cwl'[j] => i = j
      BY <1>1, <2>1, <2>3, SMTT(30)
    <3> QED
      BY <1>1, <2>3, <3>1, <3>2, <3>3, SMTT(30)
  <2> QED
    BY <1>4, <2>2, <2>3
<1>11. \A w \in Threads : w # t => cpc'[w] = cpc[w]
  BY <1>1, <1>2 DEF CondTypeOK
<1>12. CondListInv'
  <2>1. \A i \in 1..Len(cwl') : /\ RecordLive(cwl[i])' /\ cpc'[cwl'[i]] # "relock"
                                /\ ~csignaled'[cwl'[i]]
    BY <1>1, <1>2, <1>10, <1>11, SMTT(30) DEF CondIInv, CondListInv, RecordLive
  <2>2. \A u \in Threads : cpc'[u] \notin {"munlock", "tmunlock"}
    BY <1>1, <1>2 DEF CondIInv, CondSlockInv, CondInLock, CondTypeOK
  <2> QED
    BY <1>10, <2>1, <2>2 DEF CondListInv
<1>13. HeldInv'
  <2> SUFFICES ASSUME NEW w \in Threads, CondWaits(w)'
               PROVE  Held(w)'
    BY DEF HeldInv
  <2>1. w # t /\ CondWaits(w)
    BY <1>1, <1>2 DEF CondWaits, CondTypeOK
  <2>2. Held(w)
    BY <2>1 DEF CondIInv, HeldInv
  <2>3. \A u \in Threads : cpc[u] = "wake_store" => cpc'[u] = cpc[u]
    BY <1>2, <1>11
  <2> QED
    <3>1. CASE \E i \in 1..Len(cwl) : cwl[i] = w
      <4>1. \E i \in 1..Len(cwl') : cwl'[i] = w
        BY <1>10, <2>1, <3>1
      <4> QED
        BY <4>1 DEF Held
    <3>2. CASE \E u \in Threads : \E i \in 1..Len(clist[u]) :
                 clist[u][i] = w /\ (cpc[u] = "wake_store" \/ i > 1)
      BY <1>2, <2>3, <3>2 DEF Held
    <3> QED
      BY <2>2, <3>1, <3>2 DEF Held
<1>14. DetachedInv'
  <2>1. \A w \in Threads : Pending(w) => Pending(w)'
    BY <1>1, <1>2, MutexAssumption DEF Pending, CondTypeOK
  <2>2. \A w \in Ults : Signaled(w) => Signaled(w)'
    BY <1>1, <1>2, MutexAssumption DEF Signaled, CondTypeOK, Threads
  <2>3. WakerInv' /\ OnceInv'
    <3>1. WakerInv'
      BY <1>1, <1>2, SMTT(30) DEF CondIInv, DetachedInv, WakerInv, CondTypeOK
    <3>2. OnceInv'
      BY <1>1, <1>2, <1>10, SMTT(30) DEF CondIInv, DetachedInv, OnceInv, CondTypeOK
    <3> QED
      BY <3>1, <3>2
  <2>4. PendingInv'
    <3>1. \A u \in Threads : cpc'[u] \in {"wake_store", "wake_cth"} => cpc'[u] = cpc[u]
      BY <1>1, <1>2 DEF CondTypeOK
    <3>2. \A u \in Threads : \A i \in 1..Len(clist[u]) : clist[u][i] # None
      BY CondFacts, MutexAssumption DEF CondIInv
    <3> QED
      BY <1>2, <2>1, <2>2, <3>1, <3>2, PendingKept
  <2> QED
    BY <2>3, <2>4 DEF DetachedInv
<1> QED
  BY <1>3, <1>5, <1>6, <1>7, <1>8, <1>9, <1>12, <1>13, <1>14 DEF CondIInv

-----------------------------------------------------------------------------
\* The steps of signal and broadcast.

\* What signal and broadcast detach.
LEMMA DetachFacts ==
  ASSUME CondIInv, NEW t \in Threads, CondDetach(t)
  PROVE  \E n \in 0..Len(cwl) :
           /\ n = IF cpc[t] = "broadcast_cs" \/ cwl = <<>> THEN Len(cwl) ELSE 1
           /\ clist'[t] \in Seq(Threads)
           /\ Len(clist'[t]) = n
           /\ \A i \in 1..n : clist'[t][i] = cwl[i]
           /\ cwl' \in Seq(Threads)
           /\ Len(cwl') = Len(cwl) - n
           /\ \A i \in 1..Len(cwl) - n : cwl'[i] = cwl[n + i]
           /\ clist' = [clist EXCEPT ![t] = SubSeq(cwl, 1, n)]
           /\ cpc' = [cpc EXCEPT ![t] = IF n = 0 THEN "out" ELSE "wake_store"]
<1> DEFINE n == IF cpc[t] = "broadcast_cs" \/ cwl = <<>> THEN Len(cwl) ELSE 1
<1>1. /\ CondTypeOK /\ cwl \in Seq(Threads)
      /\ Len(cwl) \in Nat
      /\ cwl # <<>> => Len(cwl) > 0
  BY SeqLen, SeqEmpty, SMTT(30) DEF CondIInv, CondTypeOK
<1>2. n \in 0..Len(cwl)
  BY <1>1, SMTT(30)
<1>3. /\ clist' = [clist EXCEPT ![t] = SubSeq(cwl, 1, n)]
      /\ cwl' = SubSeq(cwl, n + 1, Len(cwl))
      /\ cpc' = [cpc EXCEPT ![t] = IF n = 0 THEN "out" ELSE "wake_store"]
  BY DEF CondDetach, CondGoto
<1>4. clist'[t] = SubSeq(cwl, 1, n)
  BY <1>1, <1>3 DEF CondTypeOK
<1> HIDE DEF n
<1>5. /\ clist'[t] \in Seq(Threads)
      /\ Len(clist'[t]) = n
      /\ \A i \in 1..n : clist'[t][i] = cwl[i]
      /\ cwl' \in Seq(Threads)
      /\ Len(cwl') = Len(cwl) - n
      /\ \A i \in 1..Len(cwl) - n : cwl'[i] = cwl[n + i]
  <2>1. /\ SubSeq(cwl, 1, n) \in Seq(Threads)
        /\ Len(SubSeq(cwl, 1, n)) = n
        /\ \A i \in 1..n : SubSeq(cwl, 1, n)[i] = cwl[i]
        /\ SubSeq(cwl, n + 1, Len(cwl)) \in Seq(Threads)
        /\ Len(SubSeq(cwl, n + 1, Len(cwl))) = Len(cwl) - n
        /\ \A i \in 1..Len(cwl) - n : SubSeq(cwl, n + 1, Len(cwl))[i] = cwl[n + i]
    BY <1>1, <1>2, SeqCut
  <2> QED
    BY <1>3, <1>4, <2>1
<1> QED
  BY <1>2, <1>3, <1>5 DEF n

\* Signal and broadcast take records off the list under c->slock.
LEMMA DetachStep ==
  ASSUME CondIInv, NEW t \in Threads, CondDetach(t)
  PROVE  CondIInv'
<1>1. /\ IInv /\ TypeOK /\ CondTypeOK
      /\ Len(cwl) \in Nat
      /\ \A i \in 1..Len(cwl) : cwl[i] \in Threads
  BY CondFacts DEF CondIInv, IInv
<1>2. PICK n \in 0..Len(cwl) :
        /\ clist'[t] \in Seq(Threads)
        /\ Len(clist'[t]) = n
        /\ \A i \in 1..n : clist'[t][i] = cwl[i]
        /\ cwl' \in Seq(Threads)
        /\ Len(cwl') = Len(cwl) - n
        /\ \A i \in 1..Len(cwl) - n : cwl'[i] = cwl[n + i]
        /\ clist' = [clist EXCEPT ![t] = SubSeq(cwl, 1, n)]
        /\ cpc' = [cpc EXCEPT ![t] = IF n = 0 THEN "out" ELSE "wake_store"]
  BY DetachFacts
<1>3. /\ cpc[t] \in {"signal_cs", "broadcast_cs"}
      /\ pc[t] = "out" /\ (SignalLocked => depth[t] > 0)
      /\ cslock = t /\ cslock' = None
      /\ UNCHANGED <<slock, locked, owner, nesting, wl, signaled, run, pc, popped, depth>>
      /\ UNCHANGED <<cmutex, csignaled, cret>>
  BY DEF CondDetach, vars, CondIInv, StageInv, CondSlockInv, CondInLock
<1>4. IInv'
  BY <1>1, <1>3, NextPreserves DEF vars
<1>5. CondTypeOK'
  <2>1. cpc' \in [Threads -> CondPCs]
    BY <1>1, <1>2 DEF CondTypeOK, CondPCs
  <2>2. clist' \in [Threads -> Seq(Threads)]
    BY <1>1, <1>2 DEF CondTypeOK
  <2> QED
    BY <1>1, <1>2, <1>3, <1>4, <2>1, <2>2 DEF CondTypeOK, IInv
<1>6. /\ \A u \in Threads : u # t => cpc'[u] = cpc[u] /\ clist'[u] = clist[u]
      /\ cpc'[t] = IF n = 0 THEN "out" ELSE "wake_store"
  BY <1>1, <1>2 DEF CondTypeOK
<1>7. StageInv' /\ KindInv'
  BY <1>1, <1>3, <1>6, ZenonT(40) DEF CondIInv, StageInv, KindInv
<1>8. CondSlockInv'
  BY <1>1, <1>3, <1>6, MutexAssumption DEF CondIInv, CondSlockInv, CondInLock
<1>9. CondRunInv' /\ SuccessMeansSignaled'
  BY <1>1, <1>3, <1>6 DEF CondIInv, CondRunInv, SuccessMeansSignaled, Threads
<1>10. /\ clist[t] = <<>>
       /\ \A i \in 1..Len(cwl) : /\ cwl[i] # t
                                 /\ ~csignaled[cwl[i]]
                                 /\ cpc[cwl[i]] \in {"blocked", "poll", "tpoll", "expired"}
  BY <1>1, <1>3, SMTT(30) DEF CondIInv, DetachedInv, WakerInv, CondListInv, RecordLive, CondSlockInv, CondInLock
<1>11. \A u \in Threads : \A i \in 1..Len(clist[u]) : u # t /\ clist'[u][i] = clist[u][i]
  BY <1>6, <1>10, SeqEmpty, SMTT(30)
<1>12. \A i \in 1..Len(cwl') : n + i \in 1..Len(cwl) /\ cwl'[i] = cwl[n + i]
  BY <1>1, <1>2, SMTT(30)
<1>13. \A i \in 1..n : i \in 1..Len(cwl)
  BY <1>1, SMTT(30)
<1>14. CondListInv'
  <2>1. \A i, j \in 1..Len(cwl') : cwl'[i] = cwl'[j] => i = j
    BY <1>1, <1>2, <1>12, SMTT(30) DEF CondIInv, CondListInv
  <2>2. \A i \in 1..Len(cwl') : /\ RecordLive(cwl[i])' /\ cpc'[cwl'[i]] # "relock"
                                /\ ~csignaled'[cwl'[i]]
    <3>1. \A i \in 1..Len(cwl') : /\ cwl'[i] \in Threads /\ cwl'[i] # t
                                  /\ ~csignaled[cwl'[i]]
                                  /\ cpc[cwl'[i]] \in {"blocked", "poll", "tpoll", "expired"}
      BY <1>1, <1>10, <1>12
    <3> QED
      BY <1>3, <1>6, <3>1 DEF RecordLive
  <2>3. \A u \in Threads : cpc'[u] \notin {"munlock", "tmunlock"}
    BY <1>1, <1>3, <1>6 DEF CondIInv, CondSlockInv, CondInLock
  <2> QED
    BY <2>1, <2>2, <2>3 DEF CondListInv
<1>15. HeldInv'
  <2> SUFFICES ASSUME NEW w \in Threads, CondWaits(w)'
               PROVE  Held(w)'
    BY DEF HeldInv
  <2>1. CondWaits(w)
    BY <1>3, <1>6 DEF CondWaits
  <2>2. Held(w)
    BY <2>1 DEF CondIInv, HeldInv
  <2>3. ASSUME NEW k \in 1..Len(cwl), cwl[k] = w
        PROVE  Held(w)'
    <3>1. CASE k <= n
      BY <1>1, <1>2, <1>6, <2>3, <3>1, SMTT(30) DEF Held
    <3>2. CASE k > n
      <4>1. k - n \in 1..Len(cwl') /\ cwl'[k - n] = cwl[n + (k - n)] /\ n + (k - n) = k
        BY <1>1, <1>2, <3>2, SMTT(30)
      <4> QED
        BY <2>3, <4>1 DEF Held
    <3> QED
      BY <1>1, <3>1, <3>2, SMTT(30)
  <2>4. ASSUME NEW u \in Threads, NEW i \in 1..Len(clist[u]),
               clist[u][i] = w /\ (cpc[u] = "wake_store" \/ i > 1)
        PROVE  Held(w)'
    BY <1>6, <1>11, <2>4 DEF Held
  <2> QED
    BY <2>2, <2>3, <2>4 DEF Held
<1>16. DetachedInv'
  <2>1. \A w \in Threads : Pending(w) => Pending(w)'
    BY <1>3, <1>6, MutexAssumption DEF Pending
  <2>2. \A w \in Ults : Signaled(w) => Signaled(w)'
    BY <1>3, <1>6, MutexAssumption DEF Signaled, Threads
  <2>3. \A w \in Threads : (\E i \in 1..n : cwl[i] = w) => Pending(w)'
    <3>1. \A w \in Threads : cpc[w] = "tpoll" \/ cpc[w] = "expired" => w \in TimedThreads
      BY DEF CondIInv, KindInv
    <3>2. \A w \in Threads : /\ w # t /\ ~csignaled[w]
                             /\ cpc[w] \in {"blocked", "poll", "tpoll", "expired"}
                             => Pending(w)'
      BY <1>3, <1>6, <3>1, MutexAssumption DEF Pending
    <3> QED
      BY <1>10, <1>13, <3>2
  <2>a. \A u \in Threads : \A i \in 1..Len(clist[u]) : \A j \in 1..Len(cwl) : clist[u][i] # cwl[j]
    BY DEF CondIInv, DetachedInv, OnceInv
  <2>4. WakerInv'
    <3>1. clist'[t] # <<>> <=> n # 0
      BY <1>2, SeqEmpty
    <3> QED
      BY <1>6, <3>1, <1>3 DEF CondIInv, DetachedInv, WakerInv
  <2>5. OnceInv'
    <3>1. \A u \in Threads : \A v \in Threads : \A i \in 1..Len(clist'[u]) :
            \A j \in 1..Len(clist'[v]) : clist'[u][i] = clist'[v][j] => u = v /\ i = j
      <4>1. \A i, j \in 1..n : clist'[t][i] = clist'[t][j] => i = j
        BY <1>2, <1>13, SMTT(30) DEF CondIInv, CondListInv
      <4>2. ASSUME NEW u \in Threads, NEW i \in 1..Len(clist[u]), NEW j \in 1..n
            PROVE  clist[u][i] # clist'[t][j]
        <5>1. clist'[t][j] = cwl[j] /\ j \in 1..Len(cwl)
          BY <1>2, <1>13
        <5> QED
          BY <2>a, <5>1
      <4>3. ASSUME NEW u \in Threads, NEW v \in Threads, NEW i \in 1..Len(clist'[u]),
                   NEW j \in 1..Len(clist'[v]), clist'[u][i] = clist'[v][j]
            PROVE  u = v /\ i = j
        <5>1. CASE u = t /\ v = t
          BY <1>2, <4>1, <4>3, <5>1
        <5>2. CASE u = t /\ v # t
          BY <1>2, <1>6, <4>2, <4>3, <5>2, SMTT(30)
        <5>3. CASE u # t /\ v = t
          BY <1>2, <1>6, <4>2, <4>3, <5>3, SMTT(30)
        <5>4. CASE u # t /\ v # t
          BY <1>6, <4>3, <5>4, SMTT(30) DEF CondIInv, DetachedInv, OnceInv
        <5> QED
          BY <5>1, <5>2, <5>3, <5>4
      <4> QED
        BY <4>3
    <3>2. \A u \in Threads : \A i \in 1..Len(clist'[u]) : \A j \in 1..Len(cwl') :
            clist'[u][i] # cwl'[j]
      <4>1. ASSUME NEW i \in 1..n, NEW j \in 1..Len(cwl')
            PROVE  clist'[t][i] # cwl'[j]
        <5>1. cwl[i] = cwl[n + j] => i = n + j
          BY <1>12, <1>13 DEF CondIInv, CondListInv
        <5>2. j \in Nat \ {0} /\ i # n + j
          BY <1>1, <1>2, SMTT(30)
        <5> QED
          BY <1>2, <1>12, <5>1, <5>2
      <4>2. \A u \in Threads : \A i \in 1..Len(clist[u]) : \A j \in 1..Len(cwl') :
              clist[u][i] # cwl'[j]
        <5>1. ASSUME NEW u \in Threads, NEW i \in 1..Len(clist[u]), NEW j \in 1..Len(cwl')
              PROVE  clist[u][i] # cwl'[j]
          <6>1. cwl'[j] = cwl[n + j] /\ n + j \in 1..Len(cwl)
            BY <1>12
          <6> QED
            BY <2>a, <6>1
        <5> QED
          BY <5>1
      <4>3. ASSUME NEW u \in Threads, NEW i \in 1..Len(clist'[u]), NEW j \in 1..Len(cwl')
            PROVE  clist'[u][i] # cwl'[j]
        <5>1. CASE u = t
          BY <1>2, <4>1, <5>1
        <5>2. CASE u # t
          BY <1>6, <4>2, <5>2
        <5> QED
          BY <5>1, <5>2
      <4> QED
        BY <4>3
    <3> QED
      BY <3>1, <3>2 DEF OnceInv
  <2>6. PendingInv'
    <3> SUFFICES ASSUME NEW u \in Threads
                 PROVE  /\ \A i \in 1..Len(clist'[u]) :
                             cpc'[u] = "wake_store" \/ i > 1 => Pending(clist[u][i])'
                        /\ cpc'[u] = "wake_cth" => Signaled(clist[u][1])'
      BY DEF PendingInv
    <3>1. CASE u = t
      <4>1. \A i \in 1..n : Pending(clist[t][i])'
        <5>1. \A i \in 1..n : clist'[t][i] \in Threads /\ clist'[t][i] = cwl[i]
          BY <1>1, <1>2, <1>13
        <5> QED
          BY <2>3, <5>1 DEF Pending
      <4> QED
        BY <1>2, <1>6, <3>1, <4>1, SMTT(30)
    <3>2. CASE u # t
      <4>1. \A i \in 1..Len(clist[u]) : cpc[u] = "wake_store" \/ i > 1 => Pending(clist[u][i])
        BY DEF CondIInv, DetachedInv, PendingInv
      <4>2. cpc[u] = "wake_cth" => clist[u][1] \in Ults /\ Signaled(clist[u][1])
        BY DEF CondIInv, DetachedInv, PendingInv, Signaled
      <4>3. \A i \in 1..Len(clist[u]) : clist[u][i] \in Threads
        BY <1>1, CondFacts
      <4>4. \A i \in 1..Len(clist[u]) : cpc[u] = "wake_store" \/ i > 1 => Pending(clist[u][i])'
        BY <1>6, <2>1, <3>2, <4>1, <4>3 DEF Pending
      <4>5. cpc[u] = "wake_cth" => Signaled(clist[u][1])'
        BY <1>6, <2>2, <3>2, <4>2, ZenonT(40) DEF Signaled
      <4> QED
        BY <1>6, <3>2, <4>4, <4>5
    <3> QED
      BY <3>1, <3>2
  <2> QED
    BY <2>4, <2>5, <2>6 DEF DetachedInv
<1> QED
  BY <1>4, <1>5, <1>7, <1>8, <1>9, <1>14, <1>15, <1>16 DEF CondIInv

\* The waker's first record leaves its list, signaled; every other record and
\* every other waker is as before.
LEMMA TailPreserves ==
  ASSUME CondIInv, NEW t \in Threads, cpc[t] \in {"wake_store", "wake_cth"},
         cpc' = [cpc EXCEPT ![t] = AfterWake(clist[t])],
         clist' = [clist EXCEPT ![t] = Tail(@)],
         csignaled'[clist[t][1]],
         \A w \in Threads : w # clist[t][1] => csignaled'[w] = csignaled[w],
         \A w \in Ults : w # clist[t][1] => run'[w] = run[w],
         UNCHANGED <<cslock, cwl>>
  PROVE  CondListInv' /\ DetachedInv' /\ HeldInv'
<1> DEFINE h == clist[t][1]
           m == Len(clist[t])
<1>1. /\ CondTypeOK
      /\ Len(cwl) \in Nat
      /\ \A i \in 1..Len(cwl) : cwl[i] \in Threads
      /\ \A u \in Threads : Len(clist[u]) \in Nat
      /\ \A u \in Threads : \A i \in 1..Len(clist[u]) : clist[u][i] \in Threads
  BY CondFacts DEF CondIInv
<1>2. /\ 1 \in 1..m /\ h \in Threads
      /\ Tail(clist[t]) \in Seq(Threads)
      /\ Len(Tail(clist[t])) = m - 1
      /\ \A i \in 1..m - 1 : Tail(clist[t])[i] = clist[t][i + 1]
  BY HeadFacts
<1>3. /\ clist'[t] \in Seq(Threads)
      /\ Len(clist'[t]) = m - 1
      /\ \A i \in 1..m - 1 : i + 1 \in 1..m /\ clist'[t][i] = clist[t][i + 1]
      /\ \A u \in Threads : u # t => clist'[u] = clist[u] /\ cpc'[u] = cpc[u]
      /\ cpc'[t] = IF m = 1 THEN "out" ELSE "wake_store"
  <2>1. clist'[t] = Tail(clist[t])
    BY <1>1 DEF CondTypeOK
  <2>2. \A i \in 1..m - 1 : i + 1 \in 1..m
    BY <1>1, SMTT(30)
  <2>3. /\ \A u \in Threads : u # t => clist'[u] = clist[u] /\ cpc'[u] = cpc[u]
        /\ cpc'[t] = IF m = 1 THEN "out" ELSE "wake_store"
    BY <1>1 DEF CondTypeOK, AfterWake
  <2> HIDE DEF m
  <2> QED
    BY <1>2, <2>1, <2>2, <2>3, ZenonT(40)
<1>4. \A u \in Threads : \A i \in 1..Len(clist[u]) : clist[u][i] = h => u = t /\ i = 1
  BY <1>2, SMTT(30) DEF CondIInv, DetachedInv, OnceInv
<1>5. \A i \in 1..Len(cwl) : cwl[i] # h
  BY <1>2, ZenonT(40) DEF CondIInv, DetachedInv, OnceInv
<1>6. \A w \in Threads : RecordLive(w) => w # t
  BY DEF RecordLive
<1>7. CondListInv'
  <2>1. \A w \in Threads : RecordLive(w) => RecordLive(w)' /\ cpc'[w] = cpc[w]
    BY <1>3, <1>6 DEF RecordLive
  <2>2. \A i \in 1..Len(cwl) : RecordLive(cwl[i])' /\ cpc'[cwl[i]] # "relock" /\ ~csignaled'[cwl[i]]
    BY <1>1, <1>5, <2>1 DEF CondIInv, CondListInv, RecordLive
  <2>3. \A u \in Threads : cpc'[u] \in {"munlock", "tmunlock"} => cpc'[u] = cpc[u]
    <3>1. cpc'[t] \in {"out", "wake_store"}
      BY <1>3
    <3> QED
      BY <1>3, <3>1
  <2> QED
    BY <2>2, <2>3, SMTT(30) DEF CondIInv, CondListInv, RecordLive
<1>8. \A w \in Threads : w # h /\ Pending(w) => Pending(w)'
  BY <1>3 DEF Pending
<1>9. \A w \in Ults : w # h /\ Signaled(w) => Signaled(w)'
  BY <1>3 DEF Signaled, Threads
<1>10. WakerInv'
  <2>1. clist'[t] # <<>> <=> m # 1
    <3>1. m \in Nat /\ (m - 1 = 0 <=> m = 1)
      BY <1>1, SMTT(30)
    <3>2. clist'[t] = <<>> <=> Len(clist'[t]) = 0
      BY <1>3, SeqEmpty, ZenonT(40)
    <3> QED
      BY <1>3, <3>1, <3>2
  <2> QED
    BY <1>3, <2>1, SMTT(30) DEF CondIInv, DetachedInv, WakerInv
<1>11. OnceInv'
  <2>1. \A u \in Threads : \A i \in 1..Len(clist'[u]) : \E k \in 1..Len(clist[u]) :
          clist'[u][i] = clist[u][k] /\ k = IF u = t THEN i + 1 ELSE i
    BY <1>3, SMTT(30)
  <2>2. ASSUME NEW u \in Threads, NEW v \in Threads, NEW i \in 1..Len(clist'[u]),
               NEW j \in 1..Len(clist'[v]), clist'[u][i] = clist'[v][j]
        PROVE  u = v /\ i = j
    <3>1. PICK k \in 1..Len(clist[u]) :
            clist'[u][i] = clist[u][k] /\ k = IF u = t THEN i + 1 ELSE i
      BY <2>1
    <3>2. PICK q \in 1..Len(clist[v]) :
            clist'[v][j] = clist[v][q] /\ q = IF v = t THEN j + 1 ELSE j
      BY <2>1
    <3>3. u = v /\ k = q
      <4>1. clist[u][k] = clist[v][q]
        BY <2>2, <3>1, <3>2
      <4>2. \A a \in 1..Len(clist[u]) : \A b \in 1..Len(clist[v]) :
              clist[u][a] = clist[v][b] => u = v /\ a = b
        BY DEF CondIInv, DetachedInv, OnceInv
      <4> QED
        BY <4>1, <4>2
    <3>4. i \in Nat /\ j \in Nat
      BY <1>1, <1>2, <1>3, SMTT(30)
    <3>5. i + 1 = j + 1 => i = j
      BY <3>4, SMTT(30)
    <3> QED
      BY <3>1, <3>2, <3>3, <3>5
  <2>3. ASSUME NEW u \in Threads, NEW i \in 1..Len(clist'[u]), NEW j \in 1..Len(cwl')
        PROVE  clist'[u][i] # cwl'[j]
    <3>1. PICK k \in 1..Len(clist[u]) : clist'[u][i] = clist[u][k]
      BY <2>1, ZenonT(40)
    <3>2. cwl' = cwl /\ j \in 1..Len(cwl)
      OBVIOUS
    <3> QED
      BY <3>1, <3>2, SMTT(30) DEF CondIInv, DetachedInv, OnceInv
  <2> QED
    BY <2>2, <2>3 DEF OnceInv
<1>12. PendingInv'
  <2> SUFFICES ASSUME NEW u \in Threads
               PROVE  /\ \A i \in 1..Len(clist'[u]) :
                           cpc'[u] = "wake_store" \/ i > 1 => Pending(clist[u][i])'
                      /\ cpc'[u] = "wake_cth" => Signaled(clist[u][1])'
    BY DEF PendingInv
  <2>1. CASE u = t
    <3>1. ASSUME NEW i \in 1..m - 1
          PROVE  Pending(clist[u][i])'
      <4> DEFINE w == clist[t][i + 1]
      <4>1. i + 1 \in 1..m /\ i + 1 > 1 /\ i + 1 # 1 /\ w = clist'[u][i] /\ w \in Threads
        <5>1. m \in Nat
          BY <1>1
        <5>2. i + 1 \in 1..m /\ i + 1 > 1 /\ i + 1 # 1
          BY <5>1, SMTT(30)
        <5>3. w = clist'[u][i]
          BY <1>3, <2>1, ZenonT(40)
        <5>4. w \in Threads
          BY <1>1, <5>2
        <5> QED
          BY <5>2, <5>3, <5>4
      <4>2. w # h /\ Pending(w)
        BY <1>4, <4>1 DEF CondIInv, DetachedInv, PendingInv
      <4> HIDE DEF w
      <4> QED
        BY <1>8, <4>1, <4>2 DEF Pending
    <3>2. Len(clist'[u]) = m - 1 /\ cpc'[u] # "wake_cth"
      BY <1>3, <2>1, SMTT(30)
    <3> QED
      BY <3>1, <3>2
  <2>2. CASE u # t
    <3>1. ASSUME NEW i \in 1..Len(clist[u]), cpc[u] = "wake_store" \/ i > 1
          PROVE  Pending(clist[u][i])'
      <4> DEFINE w == clist[u][i]
      <4>1. w \in Threads /\ w # h /\ Pending(w) /\ clist'[u][i] = w
        BY <1>1, <1>3, <1>4, <2>2, <3>1 DEF CondIInv, DetachedInv, PendingInv
      <4> HIDE DEF w
      <4> QED
        BY <1>8, <4>1 DEF Pending
    <3>2. ASSUME cpc[u] = "wake_cth"
          PROVE  Signaled(clist[u][1])'
      <4> DEFINE w == clist[u][1]
      <4>1. 1 \in 1..Len(clist[u])
        BY <3>2, HeadFacts
      <4>2. w \in Ults /\ w # h /\ Signaled(w) /\ clist'[u][1] = w
        BY <1>3, <1>4, <2>2, <3>2, <4>1 DEF CondIInv, DetachedInv, PendingInv, Signaled
      <4> HIDE DEF w
      <4> QED
        BY <1>9, <4>2 DEF Signaled
    <3> QED
      BY <1>3, <2>2, <3>1, <3>2
  <2> QED
    BY <2>1, <2>2
<1>13. HeldInv'
  <2> SUFFICES ASSUME NEW w \in Threads, CondWaits(w)'
               PROVE  Held(w)'
    BY DEF HeldInv
  <2>1. w # h /\ w # t /\ CondWaits(w)
    BY <1>3, SMTT(30) DEF CondWaits
  <2>2. Held(w)
    BY <2>1 DEF CondIInv, HeldInv
  <2>3. CASE \E i \in 1..Len(cwl) : cwl[i] = w
    BY <2>3 DEF Held
  <2>4. ASSUME NEW u \in Threads, NEW i \in 1..Len(clist[u]),
               clist[u][i] = w /\ (cpc[u] = "wake_store" \/ i > 1)
        PROVE  Held(w)'
    <3>1. CASE u # t
      <4>1. i \in 1..Len(clist'[u]) /\ clist'[u][i] = w /\ (cpc'[u] = "wake_store" \/ i > 1)
        BY <1>3, <2>4, <3>1
      <4> QED
        BY <4>1 DEF Held
    <3>2. CASE u = t
      <4>1. i # 1
        BY <2>1, <2>4, <3>2
      <4>2. i - 1 \in 1..m - 1 /\ clist'[t][i - 1] = clist[t][i - 1 + 1] /\ i - 1 + 1 = i /\ m # 1
        BY <1>1, <1>3, <3>2, <4>1, SMTT(30)
      <4>3. i - 1 \in 1..Len(clist'[t]) /\ clist'[t][i - 1] = w /\ cpc'[t] = "wake_store"
        BY <1>3, <2>4, <3>2, <4>2
      <4> QED
        BY <4>3 DEF Held
    <3> QED
      BY <3>1, <3>2
  <2> QED
    BY <2>2, <2>3, <2>4 DEF Held
<1> QED
  BY <1>7, <1>10, <1>11, <1>12, <1>13 DEF DetachedInv

\* wake stores the flag of the first record.
LEMMA StoreStep ==
  ASSUME TimedWaitsSafe, CondIInv, NEW t \in Threads, cond_wake_store(t)
  PROVE  CondIInv'
<1> DEFINE h == clist[t][1]
           l == IF h \in Ults THEN "wake_cth" ELSE AfterWake(clist[t])
<1>1. /\ IInv /\ TypeOK /\ CondTypeOK
      /\ cpc[t] = "wake_store"
  BY DEF CondIInv, IInv, cond_wake_store
<1>2. /\ 1 \in 1..Len(clist[t])
      /\ h \in Threads /\ h = Head(clist[t])
      /\ Tail(clist[t]) \in Seq(Threads)
      /\ Len(clist[t]) \in Nat
  BY <1>1, HeadFacts, CondFacts
<1>3. /\ cpc' = [cpc EXCEPT ![t] = l]
      /\ clist' = IF h \in Ults THEN clist ELSE [clist EXCEPT ![t] = Tail(@)]
      /\ csignaled' = [csignaled EXCEPT ![h] = TRUE]
      /\ UNCHANGED <<slock, locked, owner, nesting, wl, signaled, run, pc, popped, depth>>
      /\ UNCHANGED <<cslock, cmutex, cwl, cret>>
      /\ pc[t] = "out" /\ (SignalLocked => depth[t] > 0)
  BY <1>1, <1>2 DEF cond_wake_store, CondGoto, vars, CondIInv, StageInv
<1>4. Pending(h) /\ h # t
  BY <1>1, <1>2 DEF CondIInv, DetachedInv, PendingInv, Pending
<1>5. l \in {"out", "wake_store", "wake_cth"}
  BY DEF AfterWake
<1>6. IInv'
  BY <1>1, <1>3, NextPreserves DEF vars
<1>7. CondTypeOK'
  <2>1. clist' \in [Threads -> Seq(Threads)]
    BY <1>1, <1>2, <1>3 DEF CondTypeOK
  <2>2. cpc' \in [Threads -> CondPCs] /\ csignaled' \in [Threads -> BOOLEAN]
    BY <1>1, <1>3, <1>5 DEF CondTypeOK, CondPCs
  <2> QED
    BY <1>1, <1>3, <1>6, <2>1, <2>2 DEF CondTypeOK, IInv
<1>8. /\ \A u \in Threads : u # t => cpc'[u] = cpc[u]
      /\ cpc'[t] = l
      /\ \A w \in Threads : w # h => csignaled'[w] = csignaled[w]
      /\ csignaled'[h] /\ csignaled'[h] = TRUE
  BY <1>1, <1>2, <1>3 DEF CondTypeOK
<1>9. StageInv' /\ KindInv'
  <2>1. cpc'[t] \in {"out", "wake_store", "wake_cth"}
    BY <1>5, <1>8
  <2>2. KindInv'
    BY <1>8, <2>1 DEF CondIInv, KindInv
  <2>3. StageInv'
    BY <1>3, <1>8, <2>1, ZenonT(40) DEF CondIInv, StageInv
  <2> QED
    BY <2>2, <2>3
<1>10. CondSlockInv'
  BY <1>1, <1>3, <1>5, <1>8, MutexAssumption DEF CondIInv, CondSlockInv, CondInLock, CondTypeOK
<1>11. CondRunInv' /\ SuccessMeansSignaled'
  <2>1. \A w \in Threads : csignaled[w] => csignaled'[w]
    BY <1>8
  <2>2. cpc'[t] \in {"out", "wake_store", "wake_cth"}
    BY <1>5, <1>8
  <2>3. CondRunInv'
    BY <1>3, <1>8, <2>1, <2>2 DEF CondIInv, CondRunInv, Threads
  <2>4. SuccessMeansSignaled'
    BY <1>3, <1>8, <2>1, <2>2 DEF CondIInv, SuccessMeansSignaled
  <2> QED
    BY <2>3, <2>4
<1>12. CondListInv' /\ DetachedInv' /\ HeldInv'
  <2>1. CASE h \notin Ults
    <3>1. /\ cpc' = [cpc EXCEPT ![t] = AfterWake(clist[t])]
          /\ clist' = [clist EXCEPT ![t] = Tail(@)]
          /\ \A w \in Ults : run'[w] = run[w]
      BY <1>3, <2>1
    <3> QED
      BY <1>1, <1>3, <1>8, <3>1, TailPreserves
  <2>2. CASE h \in Ults
    <3>1. cpc'[t] = "wake_cth" /\ clist' = clist
      BY <1>3, <1>8, <2>2
    <3>2. /\ Len(cwl) \in Nat
          /\ \A i \in 1..Len(cwl) : cwl[i] \in Threads
          /\ \A u \in Threads : Len(clist[u]) \in Nat
          /\ \A u \in Threads : \A i \in 1..Len(clist[u]) : clist[u][i] \in Threads
      BY <1>1, CondFacts
    <3>3. \A u \in Threads : \A i \in 1..Len(clist[u]) : clist[u][i] = h => u = t /\ i = 1
      BY <1>2, ZenonT(40) DEF CondIInv, DetachedInv, OnceInv
    <3>4. \A i \in 1..Len(cwl) : cwl[i] # h
      BY <1>2 DEF CondIInv, DetachedInv, OnceInv
    <3>5. Signaled(h)'
      <4>1. cpc[h] = "blocked"
        BY <1>2, <1>4, <2>2, MutexAssumption DEF Pending, TimedWaitsSafe, CondIInv, KindInv
      <4>2. run[h] = "BLOCKED" /\ cslock # h
        BY <1>4, <2>2, <4>1 DEF Pending, CondIInv, CondRunInv, KindInv, TimedWaitsSafe
      <4>3. /\ clist'[t][1] = h /\ h \in Ults /\ cpc'[h] = "blocked" /\ run'[h] = "BLOCKED"
            /\ csignaled'[h] /\ cslock' # h
        <5>1. h \in Threads /\ clist'[t][1] = h
          BY <1>2, <3>1
        <5>2. cpc'[h] = cpc[h]
          BY <1>4, <1>8, <5>1
        <5>3. run' = run /\ cslock' = cslock
          BY <1>3
        <5> QED
          BY <1>8, <2>2, <4>1, <4>2, <5>1, <5>2, <5>3
      <4> QED
        BY <4>3 DEF Signaled
    <3>6. CondListInv'
      <4>1. \A w \in Threads : RecordLive(w) => w # t
        BY <1>1 DEF RecordLive
      <4>2. \A w \in Threads : RecordLive(w) => RecordLive(w)' /\ cpc'[w] = cpc[w]
        BY <1>8, <4>1 DEF RecordLive
      <4>3. \A i \in 1..Len(cwl) : /\ RecordLive(cwl[i])' /\ cpc'[cwl[i]] # "relock"
                                   /\ ~csignaled'[cwl[i]]
        <5>1. ASSUME NEW i \in 1..Len(cwl)
              PROVE  RecordLive(cwl[i])' /\ cpc'[cwl[i]] # "relock" /\ ~csignaled'[cwl[i]]
          <6>a. PICK w \in Threads : w = cwl[i]
            BY <3>2
          <6>1. w # h /\ RecordLive(w) /\ cpc[w] # "relock" /\ ~csignaled[w]
            BY <3>4, <6>a DEF CondIInv, CondListInv
          <6>2. cwl'[i] = w
            BY <1>3, <6>a
          <6>3. RecordLive(w)' /\ cpc'[w] # "relock" /\ ~csignaled'[w]
            BY <1>8, <4>2, <6>1
          <6> QED
            BY <6>a, <6>2, <6>3 DEF RecordLive
        <5> QED
          BY <5>1
      <4>4. \A u \in Threads : cpc'[u] \in {"munlock", "tmunlock"} => cpc'[u] = cpc[u]
        BY <1>8, <3>1
      <4> QED
        <5>1. \A i \in 1..Len(cwl') : /\ RecordLive(cwl[i])' /\ cpc'[cwl'[i]] # "relock"
                                      /\ ~csignaled'[cwl'[i]]
          BY <1>3, <4>3
        <5>2. \A i \in 1..Len(cwl') : \A j \in 1..Len(cwl') : cwl'[i] = cwl'[j] => i = j
          BY <1>3 DEF CondIInv, CondListInv
        <5>3. \A u \in Threads : cpc'[u] \in {"munlock", "tmunlock"} =>
                cwl' # <<>> /\ cwl'[Len(cwl')] = u
          BY <1>3, <4>4 DEF CondIInv, CondListInv
        <5> QED
          BY <5>1, <5>2, <5>3 DEF CondListInv
    <3>7. WakerInv' /\ OnceInv'
      <4>1. WakerInv'
        BY <1>1, <1>8, <3>1, ZenonT(40) DEF CondIInv, DetachedInv, WakerInv
      <4>2. OnceInv'
        BY <1>3, <3>1, SMTT(30) DEF CondIInv, DetachedInv, OnceInv
      <4> QED
        BY <4>1, <4>2
    <3>8. PendingInv'
      <4>1. \A w \in Threads : w # h /\ Pending(w) => Pending(w)'
        BY <1>3, <1>8, <1>1 DEF Pending
      <4>2. \A w \in Ults : w # h /\ Signaled(w) => Signaled(w)'
        BY <1>1, <1>3, <1>8, ZenonT(40) DEF Signaled, Threads
      <4> SUFFICES ASSUME NEW u \in Threads
                   PROVE  /\ \A i \in 1..Len(clist'[u]) :
                               cpc'[u] = "wake_store" \/ i > 1 => Pending(clist[u][i])'
                          /\ cpc'[u] = "wake_cth" => Signaled(clist[u][1])'
        BY DEF PendingInv
      <4>3. ASSUME NEW i \in 1..Len(clist[u]), cpc'[u] = "wake_store" \/ i > 1
            PROVE  Pending(clist[u][i])'
        <5> DEFINE w == clist[u][i]
        <5>1. w \in Threads /\ clist'[u][i] = w
          BY <3>1, <3>2
        <5>2. i > 1 => i # 1
          BY SMTT(30)
        <5>3. (u = t => i > 1) /\ (u # t => cpc[u] = "wake_store" \/ i > 1)
          BY <1>8, <3>1, <4>3
        <5>4. w # h
          BY <3>3, <5>2, <5>3
        <5>5. Pending(w)
          BY <5>3 DEF CondIInv, DetachedInv, PendingInv
        <5> HIDE DEF w
        <5> QED
          BY <4>1, <5>1, <5>4, <5>5 DEF Pending
      <4>4. ASSUME cpc'[u] = "wake_cth", u # t
            PROVE  Signaled(clist[u][1])'
        <5> DEFINE w == clist[u][1]
        <5>1. cpc[u] = "wake_cth"
          BY <1>8, <4>4
        <5>2. 1 \in 1..Len(clist[u])
          BY <5>1, HeadFacts
        <5>3. w \in Ults /\ w # h /\ Signaled(w) /\ clist'[u][1] = w
          BY <3>1, <3>3, <4>4, <5>1, <5>2 DEF CondIInv, DetachedInv, PendingInv, Signaled
        <5> HIDE DEF w
        <5> QED
          BY <4>2, <5>3 DEF Signaled
      <4> QED
        BY <3>1, <3>5, <4>3, <4>4
    <3>9. HeldInv'
      <4> SUFFICES ASSUME NEW w \in Threads, CondWaits(w)'
                   PROVE  Held(w)'
        BY DEF HeldInv
      <4>1. w # h /\ CondWaits(w)
        BY <1>5, <1>8 DEF CondWaits
      <4>2. Held(w)
        BY <4>1 DEF CondIInv, HeldInv
      <4>3. CASE \E i \in 1..Len(cwl) : cwl[i] = w
        BY <1>3, <4>3 DEF Held
      <4>4. ASSUME NEW u \in Threads, NEW i \in 1..Len(clist[u]),
                   clist[u][i] = w /\ (cpc[u] = "wake_store" \/ i > 1)
            PROVE  Held(w)'
        <5>1. cpc'[u] = "wake_store" \/ i > 1
          BY <1>8, <3>2, <4>1, <4>4, SMTT(30)
        <5> QED
          BY <3>1, <4>4, <5>1 DEF Held
      <4> QED
        BY <4>2, <4>3, <4>4 DEF Held
    <3> QED
      BY <3>6, <3>7, <3>8, <3>9 DEF DetachedInv
  <2> QED
    BY <2>1, <2>2
<1> QED
  BY <1>6, <1>7, <1>9, <1>10, <1>11, <1>12 DEF CondIInv

\* wake readies the owner of the first record.
LEMMA AwakenStep ==
  ASSUME CondIInv, NEW t \in Threads, cond_wake_cth(t)
  PROVE  CondIInv'
<1> DEFINE h == clist[t][1]
<1>1. /\ IInv /\ TypeOK /\ CondTypeOK
      /\ cpc[t] = "wake_cth"
  BY DEF CondIInv, IInv, cond_wake_cth
<1>2. /\ h = Head(clist[t])
      /\ Tail(clist[t]) \in Seq(Threads)
  BY <1>1, HeadFacts
<1>3. Signaled(h) /\ h \in Threads
  BY <1>1 DEF CondIInv, DetachedInv, PendingInv, Signaled, Threads
<1>4. /\ cpc' = [cpc EXCEPT ![t] = AfterWake(clist[t])]
      /\ clist' = [clist EXCEPT ![t] = Tail(@)]
      /\ run' = [run EXCEPT ![h] = "READY"]
      /\ UNCHANGED <<slock, locked, owner, nesting, wl, signaled, pc, popped, depth>>
      /\ UNCHANGED <<cslock, cmutex, cwl, csignaled, cret>>
      /\ pc[t] = "out" /\ (SignalLocked => depth[t] > 0)
      /\ pc[h] = "out"
  BY <1>1, <1>2, <1>3
     DEF cond_wake_cth, CondGoto, mutexVars, CondIInv, StageInv, Signaled, TypeOK
<1>5. AfterWake(clist[t]) \in {"out", "wake_store"}
  BY DEF AfterWake
<1>6. IInv'
  <2>1. /\ run' \in [Ults -> {"RUNNING", "BLOCKED", "READY"}]
        /\ \A u \in Ults : pc[u] # "out" => run'[u] = run[u]
    BY <1>1, <1>3, <1>4 DEF TypeOK, Signaled
  <2> QED
    BY <1>1, <1>4, <2>1, OutsidePreserves
<1>7. CondTypeOK'
  <2>1. clist' \in [Threads -> Seq(Threads)]
    BY <1>1, <1>2, <1>4 DEF CondTypeOK
  <2>2. cpc' \in [Threads -> CondPCs]
    BY <1>1, <1>4, <1>5 DEF CondTypeOK, CondPCs
  <2> QED
    BY <1>1, <1>4, <1>6, <2>1, <2>2 DEF CondTypeOK, IInv
<1>8. /\ \A u \in Threads : u # t => cpc'[u] = cpc[u]
      /\ cpc'[t] \in {"out", "wake_store"}
      /\ \A w \in Ults : w # h => run'[w] = run[w]
      /\ run'[h] = "READY"
  BY <1>1, <1>3, <1>4, <1>5 DEF CondTypeOK, TypeOK, Signaled
<1>9. StageInv' /\ KindInv'
  <2>1. KindInv'
    BY <1>8 DEF CondIInv, KindInv
  <2>2. StageInv'
    BY <1>4, <1>8, ZenonT(40) DEF CondIInv, StageInv
  <2> QED
    BY <2>1, <2>2
<1>10. CondSlockInv'
  <2>1. \A u \in Threads : cpc'[u] \in CondInLock => cslock' = u
    BY <1>4, <1>8 DEF CondIInv, CondSlockInv, CondInLock
  <2>2. cslock # None => cslock \in Threads /\ cslock # h /\ cslock # t
    BY <1>1, <1>3, MutexAssumption DEF CondTypeOK, CondIInv, CondSlockInv, CondInLock, Signaled
  <2>3. cslock' # None => \/ cpc'[cslock'] \in CondInLock
                          \/ cpc'[cslock'] = "blocked" /\ run'[cslock'] = "BLOCKED"
    <3>1. cslock # None /\ cpc[cslock] = "blocked" => cslock \in Ults
      BY <2>2 DEF CondIInv, KindInv
    <3> QED
      BY <1>4, <1>8, <2>2, <3>1 DEF CondIInv, CondSlockInv
  <2> QED
    BY <2>1, <2>3 DEF CondSlockInv
<1>11. CondRunInv' /\ SuccessMeansSignaled'
  <2>1. CondRunInv'
    BY <1>3, <1>4, <1>8, ZenonT(40) DEF CondIInv, CondRunInv, Signaled, Threads
  <2>2. SuccessMeansSignaled'
    BY <1>4, <1>8 DEF CondIInv, SuccessMeansSignaled
  <2> QED
    BY <2>1, <2>2
<1>12. CondListInv' /\ DetachedInv' /\ HeldInv'
  <2>1. csignaled'[h] /\ \A w \in Threads : w # h => csignaled'[w] = csignaled[w]
    BY <1>3, <1>4 DEF Signaled
  <2> QED
    BY <1>1, <1>4, <1>8, <2>1, TailPreserves
<1> QED
  BY <1>6, <1>7, <1>9, <1>10, <1>11, <1>12 DEF CondIInv

-----------------------------------------------------------------------------
\* CondIInv is inductive, and implies the invariants.
LEMMA CondInitInv == CondInit => CondIInv
<1> SUFFICES ASSUME CondInit
             PROVE  CondIInv
  OBVIOUS
<1>1. IInv
  BY InitInv DEF CondInit
<1>2. <<>> \in Seq(Threads) /\ Len(<<>>) = 0
  BY SeqEmpty
<1>3. CondTypeOK
  BY <1>1, <1>2 DEF CondInit, CondTypeOK, IInv, CondPCs
<1>4. CondSlockInv /\ StageInv /\ KindInv
  BY MutexAssumption DEF CondInit, CondSlockInv, CondInLock, StageInv, KindInv
<1>5. CondRunInv /\ SuccessMeansSignaled
  BY DEF CondInit, CondRunInv, SuccessMeansSignaled, Threads
<1>6. CondListInv
  BY SMTT(30) DEF CondInit, CondListInv
<1>7. DetachedInv
  BY SMTT(30) DEF CondInit, DetachedInv, WakerInv, OnceInv, PendingInv
<1>8. HeldInv
  BY DEF CondInit, HeldInv, CondWaits
<1> QED
  BY <1>1, <1>3, <1>4, <1>5, <1>6, <1>7, <1>8 DEF CondIInv

LEMMA CondNextPreserves ==
  ASSUME TimedWaitsSafe, CondIInv, [CondNext]_allVars
  PROVE  CondIInv'
<1>1. ASSUME NEW t \in Threads, cpc[t] = "out" /\ Calls(t) /\ UNCHANGED condVars
      PROVE  CondIInv'
  BY <1>1, MutexPreserves DEF MutexStep
<1>2. ASSUME NEW t \in Threads, (spin_acquire(t) \/ Proceed(t)) /\ UNCHANGED condVars
      PROVE  CondIInv'
  <2>1. CASE Calls(t) => cpc[t] = "out"
    BY <1>2, <2>1, MutexPreserves DEF MutexStep
  <2>2. CASE Calls(t)
    <3>1. pc[t] = "out"
      BY <2>2, CallFacts
    <3>2. PICK l \in PCs, d \in Nat :
            \/ pc[t] \in {"unlock", "unlock_cs", "wake_store", "wake_cth", "lock", "lock_cs",
                          "suspend", "blocked", "poll", "spin", "spin_cs", "try", "try_cs"}
      BY <1>2, MutexMove DEF CondIInv
    <3> QED
      BY <3>1, <3>2
  <2> QED
    BY <2>1, <2>2
<1>3. ASSUME NEW t \in Threads, CondCalls(t) \/ cond_acquire(t)
      PROVE  CondIInv'
  BY <1>3, QuietSteps, QuietPreserves
<1>4. ASSUME NEW t \in Threads,
             CondInvMutex(t) \/ CondPoll(t) \/ cond_release_cb(t) \/ CondDeadline(t)
      PROVE  CondIInv'
  BY <1>4, QuietSteps, QuietPreserves
<1>5. ASSUME NEW t \in Threads,
             \/ CondPush(t) \/ CondSuspend(t) \/ CondWoken(t) \/ CondExpired(t) \/ CondReturn(t)
             \/ CondDetach(t) \/ cond_wake_store(t) \/ cond_wake_cth(t)
      PROVE  CondIInv'
  BY <1>5, PushStep, SuspendStep, WokenStep, ExpiredStep, ReturnStep, DetachStep, StoreStep,
     AwakenStep
<1>6. CASE UNCHANGED allVars
  <2>1. /\ UNCHANGED <<slock, locked, owner, nesting, wl, signaled, run, pc, popped, depth>>
        /\ UNCHANGED <<cslock, cmutex, cwl, csignaled, cpc, clist, cret>>
    BY <1>6 DEF allVars, vars, condVars
  <2>2. IInv'
    BY <2>1, NextPreserves DEF CondIInv, vars
  <2>3. CondTypeOK' /\ CondSlockInv' /\ StageInv' /\ KindInv' /\ CondRunInv'
    BY <2>1, <2>2 DEF CondIInv, IInv, CondTypeOK, CondSlockInv, StageInv, KindInv, CondRunInv
  <2>4. CondListInv' /\ SuccessMeansSignaled' /\ HeldInv'
    BY <2>1, ZenonT(40) DEF CondIInv, CondListInv, RecordLive, SuccessMeansSignaled, HeldInv, Held, CondWaits
  <2>5. WakerInv' /\ OnceInv'
    <3>1. WakerInv'
      BY <2>1 DEF CondIInv, DetachedInv, WakerInv
    <3>2. OnceInv'
      BY <2>1, OnceSame DEF CondIInv, DetachedInv
    <3> QED
      BY <3>1, <3>2
  <2>6. PendingInv'
    BY <2>1, ZenonT(40) DEF CondIInv, DetachedInv, PendingInv, Pending, Signaled
  <2> QED
    BY <2>2, <2>3, <2>4, <2>5, <2>6 DEF CondIInv, DetachedInv
<1> QED
  BY <1>1, <1>2, <1>3, <1>4, <1>5, <1>6 DEF CondNext, CondProceed

LEMMA CondInvariance == ASSUME TimedWaitsSafe PROVE CondSpec => []CondIInv
  BY CondInitInv, CondNextPreserves, PTL DEF CondSpec

LEMMA CondMeaning == CondIInv => CondListKept /\ WakeTouchesLiveRecord
<1> SUFFICES ASSUME CondIInv
             PROVE  CondListKept /\ WakeTouchesLiveRecord
  OBVIOUS
<1>1. /\ CondTypeOK /\ SuccessMeansSignaled /\ ListedWait /\ TypeOK
      /\ Len(cwl) \in Nat
      /\ \A i \in 1..Len(cwl) : cwl[i] \in Threads
      /\ \A u \in Threads : Len(clist[u]) \in Nat
      /\ \A u \in Threads : \A i \in 1..Len(clist[u]) : clist[u][i] \in Threads
  BY CondFacts DEF CondIInv, IInv
<1>2. ListedIsBlocked
  <2>1. ASSUME NEW i \in 1..Len(wl), wl[i] \in Ults, slock # wl[i]
        PROVE  run[wl[i]] = "BLOCKED"
    BY <1>1, <2>1 DEF ListedWait, Waits
  <2>2. ASSUME NEW i \in 1..Len(cwl), cwl[i] \in Ults \ TimedThreads, cslock # cwl[i]
        PROVE  run[cwl[i]] = "BLOCKED"
    <3> DEFINE w == cwl[i]
    <3>1. RecordLive(w) /\ cpc[w] # "relock" /\ ~csignaled[w] /\ w \in Threads
      BY <1>1 DEF CondIInv, CondListInv
    <3>2. cpc[w] = "blocked"
      BY <2>2, <3>1, MutexAssumption DEF RecordLive, CondIInv, KindInv, CondSlockInv, CondInLock
    <3> QED
      BY <2>2, <3>1, <3>2 DEF CondIInv, CondRunInv
  <2> QED
    BY <2>1, <2>2 DEF ListedIsBlocked
<1>3. CondWaiterAccounted
  <2> SUFFICES ASSUME NEW w \in Threads, CondWaits(w)
               PROVE  \/ InList(cwl, w)
                      \/ \E t \in Threads : cpc[t] = "wake_store" /\ InList(clist[t], w)
                      \/ \E t \in Threads : cpc[t] = "wake_cth" /\ InList(Tail(clist[t]), w)
    BY DEF CondWaiterAccounted
  <2>1. Held(w)
    BY DEF CondIInv, HeldInv
  <2>2. ASSUME NEW t \in Threads, NEW i \in 1..Len(clist[t]), clist[t][i] = w,
               cpc[t] = "wake_store" \/ i > 1
        PROVE  \/ cpc[t] = "wake_store" /\ InList(clist[t], w)
               \/ cpc[t] = "wake_cth" /\ InList(Tail(clist[t]), w)
    <3>1. clist[t] # <<>>
      BY <1>1, SeqEmpty, SMTT(30) DEF CondTypeOK
    <3>2. cpc[t] \in {"wake_store", "wake_cth"}
      BY <3>1 DEF CondIInv, DetachedInv, WakerInv
    <3>3. CASE cpc[t] = "wake_store"
      BY <2>2, <3>3 DEF InList
    <3>4. CASE cpc[t] = "wake_cth"
      <4>1. /\ Len(Tail(clist[t])) = Len(clist[t]) - 1
            /\ \A k \in 1..Len(clist[t]) - 1 : Tail(clist[t])[k] = clist[t][k + 1]
        BY <3>4, HeadFacts
      <4>2. i - 1 \in 1..Len(clist[t]) - 1 /\ i - 1 + 1 = i
        BY <1>1, <2>2, <3>4, SMTT(30)
      <4>3. i - 1 \in 1..Len(Tail(clist[t])) /\ Tail(clist[t])[i - 1] = w
        BY <2>2, <4>1, <4>2
      <4> QED
        BY <3>4, <4>3 DEF InList
    <3> QED
      BY <3>2, <3>3, <3>4
  <2> QED
    BY <2>1, <2>2 DEF Held, InList
<1>4. WakeTouchesLiveRecord
  <2> SUFFICES ASSUME NEW t \in Threads, cpc[t] = "wake_store"
               PROVE  RecordLive(Head(clist[t]))
    BY DEF WakeTouchesLiveRecord
  <2>1. 1 \in 1..Len(clist[t]) /\ Head(clist[t]) = clist[t][1]
    BY HeadFacts
  <2>2. Pending(clist[t][1])
    BY <2>1 DEF CondIInv, DetachedInv, PendingInv
  <2> QED
    BY <2>1, <2>2 DEF Pending, RecordLive
<1> QED
  BY <1>1, <1>2, <1>3, <1>4 DEF CondListKept

\* The condition's list holds exactly those who wait: a listed ULT is BLOCKED or
\* about to be, an unsignaled waiter is listed or in a waker's hands, and a wait
\* succeeds only if it was signaled (sync.cpp:53-82, 197-246).
THEOREM CondListSound == ASSUME TimedWaitsSafe PROVE CondSpec => []CondListKept
  BY CondInvariance, CondMeaning, PTL

\* wake never stores into the record of a wait that has returned
\* (sync.cpp:52-57): the record is on that wait's stack frame.
THEOREM WakeLive == ASSUME TimedWaitsSafe PROVE CondSpec => []WakeTouchesLiveRecord
  BY CondInvariance, CondMeaning, PTL

\* Under waits, signals and timeouts the mutex keeps what MutexProofs shows of
\* it alone: one holder, no wake of a thread that does not wait, and no waiter
\* left behind by an unlock.
THEOREM CondKeepsMutex ==
  ASSUME TimedWaitsSafe
  PROVE  CondSpec => [](HolderExclusive /\ WakeReachesWaiter /\ NoLostWakeup)
<1>1. CondIInv => HolderExclusive /\ WakeReachesWaiter /\ NoLostWakeup
  BY DEF CondIInv, IInv, HoldInv, PoppedInv
<1> QED
  BY CondInvariance, <1>1, PTL

-----------------------------------------------------------------------------
(***************************************************************************)
(* Mutex and condition variable together implement the monitor of          *)
(* AbstractMonitor.tla.  The mapping takes the owner of the mutex for its  *)
(* holder and the list of the condition variable for its queue, except     *)
(* that a thread that is on the list and has not released the mutex yet    *)
(* does not wait yet: wait and unlock are one step of the monitor and      *)
(* several of the code.                                                    *)
(***************************************************************************)

\* Who can be the owner and on the list: only the thread that is still
\* unlocking, and it is the last.
LEMMA QueueFacts ==
  ASSUME CondIInv
  PROVE  /\ Len(cwl) \in Nat
         /\ \A i \in 1..Len(cwl) : /\ cwl[i] \in Threads
                                   /\ cwl[i] = owner => /\ cpc[owner] \in {"munlock", "tmunlock"}
                                                        /\ cslock = owner
<1>1. /\ CondTypeOK /\ IInv /\ TypeOK
      /\ Len(cwl) \in Nat
      /\ \A i \in 1..Len(cwl) : cwl[i] \in Threads
  BY CondFacts DEF CondIInv, IInv
<1>2. ASSUME NEW i \in 1..Len(cwl), cwl[i] = owner
      PROVE  cpc[owner] \in {"munlock", "tmunlock"} /\ cslock = owner
  <2>1. owner \in Threads /\ RecordLive(owner) /\ cpc[owner] # "relock"
    BY <1>1, <1>2 DEF CondIInv, CondListInv
  <2>2. depth[owner] > 0
    <3>1. owner # None
      BY <2>1, MutexAssumption
    <3> QED
      BY <1>1, <2>1, <3>1, SMTT(30) DEF IInv, HoldInv, HolderExclusive, TypeOK
  <2> QED
    BY <1>1, <2>1, <2>2, SMTT(30) DEF CondIInv, StageInv, RecordLive, CondSlockInv, CondInLock
<1> QED
  BY <1>1, <1>2

\* Initial states map to initial states.
LEMMA MonitorInits == CondInit => Monitor!MonitorInit
  BY DEF CondInit, Init, Monitor!MonitorInit, Queue

\* Without the owner on it, the list is the queue.
LEMMA QueueIsList ==
  ASSUME CondIInv, \A i \in 1..Len(cwl) : cwl[i] # owner
  PROVE  Queue = cwl
<1>1. cwl # <<>> => Len(cwl) \in 1..Len(cwl)
  BY SeqLen, SeqEmpty, SMTT(30) DEF CondIInv, CondTypeOK
<1> QED
  BY <1>1 DEF Queue

\* Taking the free mutex, in a lock of the caller's or at the end of a wait, is
\* Acquire.
LEMMA TakeFreeRefines ==
  ASSUME CondIInv, CondIInv', NEW t \in Threads, TakeFree(t), UNCHANGED condVars
  PROVE  Monitor!Acquire(t)
<1>1. /\ owner = None /\ owner' = t
      /\ cwl' = cwl
      /\ \A i \in 1..Len(cwl) : cwl[i] \in Threads /\ cwl[i] # None
  BY QueueFacts, MutexAssumption DEF TakeFree, condVars, CondIInv, IInv, HoldInv
<1>2. pc[t] \in {"lock_cs", "spin_cs", "try_cs"}
  BY DEF TakeFree
<1>3. \A i \in 1..Len(cwl) : cwl[i] # t
  <2>1. RecordLive(t) => cpc[t] = "relock"
    BY <1>2 DEF CondIInv, RecordLive, StageInv
  <2>2. \A i \in 1..Len(cwl) : RecordLive(cwl[i]) /\ cpc[cwl[i]] # "relock"
    BY DEF CondIInv, CondListInv
  <2> QED
    BY <2>1, <2>2 DEF RecordLive
<1>4. Queue = cwl
  BY <1>1, QueueIsList
<1>5. Queue' = cwl'
  <2>1. cwl # <<>> => Len(cwl) \in 1..Len(cwl)
    BY SeqLen, SeqEmpty, SMTT(30) DEF CondIInv, CondTypeOK
  <2> QED
    BY <1>1, <1>3, <2>1 DEF Queue
<1>6. cwl \in Seq(Threads) /\ DOMAIN cwl = 1..Len(cwl)
  BY SeqLen DEF CondIInv, CondTypeOK
<1>7. ~Monitor!IsWaiting(t)
  BY <1>3, <1>4, <1>6 DEF Monitor!IsWaiting
<1> QED
  BY <1>1, <1>4, <1>5, <1>7 DEF Monitor!Acquire

\* The last unlock is Release, or, inside a wait, the step that both releases
\* the mutex and enters the queue.
LEMMA UnlockLastRefines ==
  ASSUME CondIInv, NEW t \in Threads, UnlockLast(t), UNCHANGED condVars
  PROVE  Monitor!Release(t) \/ Monitor!Wait(t, "c")
<1> DEFINE n == Len(cwl)
<1>1. /\ CondTypeOK /\ cwl \in Seq(Threads)
      /\ n \in Nat
      /\ \A i \in 1..n : cwl[i] \in Threads
      /\ cwl # <<>> => n \in 1..n
  BY QueueFacts, SeqLen, SeqEmpty, SMTT(30) DEF CondIInv, CondTypeOK
<1>2. /\ owner = t /\ owner' = None
      /\ cwl' = cwl
      /\ pc[t] = "unlock_cs"
  <2>1. pc[t] = "unlock_cs" /\ owner' = None /\ cwl' = cwl
    BY DEF UnlockLast, condVars
  <2>2. owner = t
    <3>1. depth[t] > 0
      BY <2>1 DEF CondIInv, IInv, HoldInv
    <3>2. depth[t] # 0
      BY <3>1, SMTT(30)
    <3> QED
      BY <3>2 DEF CondIInv, IInv, HoldInv, HolderExclusive
  <2> QED
    BY <2>1, <2>2
<1>3. Queue' = cwl
  <2>1. cwl # <<>> => cwl[n] # None
    BY <1>1, MutexAssumption
  <2> QED
    BY <1>2, <2>1 DEF Queue
<1>4. CASE cpc[t] \in {"munlock", "tmunlock"}
  <2>1. cwl # <<>> /\ cwl[n] = t
    BY <1>4 DEF CondIInv, CondListInv
  <2>2. Queue = [i \in 1..n - 1 |-> cwl[i]]
    BY <1>2, <2>1 DEF Queue
  <2>3. n - 1 \in Nat /\ \A i \in 1..n - 1 : cwl[i] \in Threads
    BY <1>1, <2>1, SMTT(30)
  <2>4. Queue \in Seq(Threads) /\ Len(Queue) = n - 1
    BY <2>2, <2>3, SeqOf, SMTT(30)
  <2>5. Append(Queue, t) = cwl
    <3>1. /\ Append(Queue, t) \in Seq(Threads)
          /\ Len(Append(Queue, t)) = n
          /\ \A i \in 1..n - 1 : Append(Queue, t)[i] = Queue[i]
          /\ Append(Queue, t)[n] = t
      <4>1. n - 1 + 1 = n
        BY <1>1, SMTT(30)
      <4> QED
        BY <2>4, <4>1, SeqAppend, SMTT(30)
    <3>2. \A i \in 1..n : i \in 1..n - 1 \/ i = n
      BY <1>1, SMTT(30)
    <3>3. \A i \in 1..n : Append(Queue, t)[i] = cwl[i]
      BY <2>1, <2>2, <3>1, <3>2
    <3> QED
      BY <1>1, <3>1, <3>3, SeqSame
  <2>6. Monitor!Wait(t, "c")
    BY <1>2, <1>3, <2>5 DEF Monitor!Wait
  <2> QED
    BY <2>6
<1>5. CASE cpc[t] \notin {"munlock", "tmunlock"}
  <2>1. \A i \in 1..n : cwl[i] # t
    BY <1>2, <1>5, QueueFacts
  <2>2. Queue = cwl
    BY <1>2, <2>1, QueueIsList
  <2> QED
    BY <1>2, <1>3, <2>2 DEF Monitor!Release
<1> QED
  BY <1>4, <1>5

\* Listing the record is invisible: its owner still holds the mutex.
LEMMA PushRefines ==
  ASSUME CondIInv, NEW t \in Threads, CondPush(t)
  PROVE  Queue' = Queue /\ owner' = owner
<1> DEFINE n == Len(cwl)
<1>1. /\ cwl \in Seq(Threads)
      /\ n \in Nat
      /\ cwl = [i \in 1..n |-> cwl[i]]
  BY SeqLen DEF CondIInv, CondTypeOK
<1>2. /\ Len(cwl') = n + 1
      /\ cwl'[n + 1] = t
      /\ \A i \in 1..n : cwl'[i] = cwl[i]
      /\ cwl' # <<>>
  <2>1. cwl' = wl_push(cwl, t)
    BY DEF CondPush
  <2>2. /\ cwl' \in Seq(Threads)
        /\ Len(cwl') = n + 1
        /\ cwl'[n + 1] = t
        /\ \A i \in 1..n : cwl'[i] = cwl[i]
    BY <1>1, <2>1, PushFacts
  <2>3. Len(cwl') # 0
    BY <1>1, <2>2, SMTT(30)
  <2> QED
    BY <2>2, <2>3, SeqEmpty
<1>3. /\ owner' = owner
      /\ cpc[t] \in {"wait_cs", "twait_cs"} /\ cslock = t
      /\ depth[t] = 1
  BY DEF CondPush, CondIInv, StageInv, CondSlockInv, CondInLock
<1>4. owner = t
  BY <1>3, SMTT(30) DEF CondIInv, IInv, HoldInv, HolderExclusive
<1>5. \A i \in 1..n : cwl[i] # owner
  BY <1>3, <1>4, QueueFacts
<1>6. Queue = cwl
  BY <1>5, QueueIsList
<1>7. Queue' = [i \in 1..n + 1 - 1 |-> cwl'[i]]
  BY <1>2, <1>3, <1>4, SMTT(30) DEF Queue
<1>8. n + 1 - 1 = n
  BY <1>1, SMTT(30)
<1> QED
  BY <1>1, <1>2, <1>3, <1>6, <1>7, <1>8

\* While c->slock is held for signal, broadcast or expiry, the owner is not
\* on the list.
LEMMA OwnerUnlisted ==
  ASSUME CondIInv, NEW t \in Threads, cpc[t] \in {"signal_cs", "broadcast_cs", "expired_cs"}
  PROVE  \A i \in 1..Len(cwl) : cwl[i] # owner
<1>1. cslock = t
  BY DEF CondIInv, CondSlockInv, CondInLock
<1> QED
  BY <1>1, QueueFacts

\* Taking the records off the list is Signal or Broadcast.
LEMMA DetachRefines ==
  ASSUME CondIInv, CondIInv', NEW t \in Threads, CondDetach(t)
  PROVE  Monitor!Signal("c") \/ Monitor!Broadcast("c")
<1> DEFINE m == Len(cwl)
<1>1. PICK n \in 0..Len(cwl) :
        /\ n = IF cpc[t] = "broadcast_cs" \/ cwl = <<>> THEN Len(cwl) ELSE 1
        /\ cwl' \in Seq(Threads)
        /\ Len(cwl') = Len(cwl) - n
        /\ \A i \in 1..Len(cwl) - n : cwl'[i] = cwl[n + i]
  BY DetachFacts
<1>2. /\ cpc[t] \in {"signal_cs", "broadcast_cs"} /\ owner' = owner
      /\ cwl \in Seq(Threads) /\ m \in Nat
  BY SeqLen DEF CondDetach, vars, CondIInv, CondTypeOK
<1>3. Queue = cwl /\ \A i \in 1..m : cwl[i] # owner
  BY <1>2, OwnerUnlisted, QueueIsList
<1>4. Queue' = cwl'
  <2>1. \A i \in 1..Len(cwl') : cwl'[i] # owner'
    BY <1>1, <1>2, <1>3, SMTT(30)
  <2>2. cwl' # <<>> => Len(cwl') \in 1..Len(cwl')
    BY <1>1, SeqLen, SeqEmpty, SMTT(30)
  <2> QED
    BY <2>1, <2>2 DEF Queue
<1>5. CASE cpc[t] = "broadcast_cs" \/ cwl = <<>>
  <2>1. cwl' = <<>>
    BY <1>1, <1>2, <1>5, SeqEmpty, SMTT(30)
  <2> QED
    BY <1>2, <1>3, <1>4, <2>1 DEF Monitor!Broadcast
<1>6. CASE ~(cpc[t] = "broadcast_cs" \/ cwl = <<>>)
  <2>1. /\ Tail(cwl) \in Seq(Threads)
        /\ Len(Tail(cwl)) = m - 1
        /\ \A i \in 1..m - 1 : Tail(cwl)[i] = cwl[i + 1]
    BY <1>2, <1>6, PopFacts DEF wl_pop
  <2>2. /\ Len(cwl') = m - 1
        /\ \A i \in 1..m - 1 : cwl'[i] = cwl[i + 1]
    BY <1>1, <1>2, <1>6, SMTT(30)
  <2>3. cwl' = Tail(cwl)
    <3>1. Len(cwl') = Len(Tail(cwl)) /\ \A i \in 1..Len(cwl') : cwl'[i] = Tail(cwl)[i]
      BY <2>1, <2>2
    <3> QED
      BY <1>1, <2>1, <3>1, SeqSame
  <2> QED
    BY <1>2, <1>3, <1>4, <1>6, <2>3 DEF Monitor!Signal
<1> QED
  BY <1>5, <1>6

\* Giving up is Timeout, or no step at all if a signal came first.
LEMMA ExpiredRefines ==
  ASSUME CondIInv, NEW t \in Threads, CondExpired(t)
  PROVE  Monitor!Timeout(t, "c") \/ (Queue' = Queue /\ owner' = owner)
<1> DEFINE m == Len(cwl)
<1>1. /\ cpc[t] = "expired_cs" /\ owner' = owner
      /\ t \in TimedThreads
      /\ cwl' = IF csignaled[t] THEN cwl ELSE wl_remove(cwl, t)
      /\ cwl \in Seq(Threads) /\ m \in Nat
  BY SeqLen DEF CondExpired, mutexVars, CondIInv, KindInv, CondTypeOK
<1>2. Queue = cwl /\ \A i \in 1..m : cwl[i] # owner
  BY <1>1, OwnerUnlisted, QueueIsList
<1>3. CASE cwl' = cwl
  BY <1>1, <1>3 DEF Queue
<1>4. CASE cwl' # cwl
  <2>1. \A i, j \in 1..Len(cwl) : cwl[i] = cwl[j] => i = j
    BY DEF CondIInv, CondListInv
  <2>2. cwl' = wl_remove(cwl, t)
    BY <1>1, <1>4
  <2> HIDE DEF m
  <2>3. /\ wl_remove(cwl, t) \in Seq(Threads)
        /\ \/ wl_remove(cwl, t) = cwl /\ \A i \in 1..Len(cwl) : cwl[i] # t
           \/ \E k \in 1..Len(cwl) :
                /\ cwl[k] = t
                /\ Len(wl_remove(cwl, t)) = Len(cwl) - 1
                /\ wl_remove(cwl, t) = [j \in 1..Len(cwl) - 1 |-> IF j < k THEN cwl[j] ELSE cwl[j + 1]]
    BY <1>1, <2>1, RemoveFacts
  <2> USE DEF m
  <2>4. PICK k \in 1..m : /\ cwl[k] = t
                          /\ Len(cwl') = m - 1
                          /\ cwl' = [j \in 1..m - 1 |-> IF j < k THEN cwl[j] ELSE cwl[j + 1]]
    BY <1>4, <2>2, <2>3
  <2>5. Queue' = cwl'
    <3>1. \A i \in 1..m - 1 : cwl'[i] # owner
      <4>1. ASSUME NEW i \in 1..m - 1
            PROVE  cwl'[i] # owner
        <5>1. i \in 1..m /\ i + 1 \in 1..m
          BY <1>1, SMTT(30)
        <5>2. cwl'[i] = cwl[i] \/ cwl'[i] = cwl[i + 1]
          BY <2>4
        <5> QED
          BY <1>2, <5>1, <5>2
      <4> QED
        BY <4>1
    <3>2. cwl' # <<>> => Len(cwl') \in 1..Len(cwl')
      BY <2>2, <2>3, SeqLen, SeqEmpty, SMTT(30)
    <3> QED
      BY <1>1, <2>4, <3>1, <3>2 DEF Queue
  <2>6. cwl' = Monitor!Without(cwl, k)
    BY <2>4 DEF Monitor!Without
  <2>7. Monitor!Timeout(t, "c")
    BY <1>1, <1>2, <2>4, <2>5, <2>6 DEF Monitor!Timeout
  <2> QED
    BY <2>7
<1> QED
  BY <1>3, <1>4

\* Every other step leaves the owner and the list alone.
LEMMA OthersStutter ==
  ASSUME CondIInv, NEW t \in Threads,
         \/ Calls(t) /\ UNCHANGED condVars
         \/ spin_acquire(t) /\ UNCHANGED condVars
         \/ /\ \/ TakeNested(t) \/ FailOrSpin(t) \/ PushWaiter(t) \/ CthSuspendBlocked(t)
               \/ spin_release_cb(t) \/ ResumeUlt(t) \/ PollSignaled(t) \/ UnlockNested(t)
               \/ wake_store(t) \/ CthAwakenIfBlocked(t)
            /\ UNCHANGED condVars
         \/ CondCalls(t) \/ cond_acquire(t) \/ CondInvMutex(t) \/ CondPoll(t) \/ CondSuspend(t)
         \/ cond_release_cb(t) \/ CondWoken(t) \/ CondDeadline(t) \/ CondReturn(t)
         \/ cond_wake_store(t) \/ cond_wake_cth(t)
  PROVE  cwl' = cwl /\ owner' = owner
<1>1. CASE /\ \/ Calls(t) \/ spin_acquire(t) \/ TakeNested(t) \/ FailOrSpin(t) \/ PushWaiter(t)
              \/ CthSuspendBlocked(t) \/ spin_release_cb(t) \/ ResumeUlt(t) \/ PollSignaled(t)
              \/ UnlockNested(t) \/ wake_store(t) \/ CthAwakenIfBlocked(t)
           /\ UNCHANGED condVars
  BY <1>1 DEF condVars, Calls, Call, ABT_mutex_lock, ABT_mutex_spinlock, ABT_mutex_trylock,
     ABT_mutex_unlock, spin_acquire, FailOrSpin, PushWaiter, CthSuspendBlocked, TakeNested,
     UnlockNested, spin_release_cb, ResumeUlt, PollSignaled, wake_store, CthAwakenIfBlocked,
     mutexVars
<1>2. CASE \/ CondCalls(t) \/ cond_acquire(t) \/ CondInvMutex(t) \/ CondPoll(t)
           \/ cond_release_cb(t) \/ CondDeadline(t)
  <2>1. PICK l \in CondPCs, s \in Threads \cup {None} : Quiet(t, l, s)
    BY <1>2, QuietSteps
  <2> QED
    BY <2>1 DEF Quiet, vars
<1>3. CASE \/ CondSuspend(t) \/ CondWoken(t) \/ CondReturn(t)
           \/ cond_wake_store(t) \/ cond_wake_cth(t)
  BY <1>3 DEF CondSuspend, CondWoken, CondReturn, cond_wake_store, cond_wake_cth, mutexVars, vars
<1> QED
  BY <1>1, <1>2, <1>3

\* A mutex and its condition are a monitor: waiting releases the mutex and joins
\* the queue in one step, so no signal sent after the release is missed, signal
\* takes the longest waiter, broadcast all, and a waiter that times out leaves
\* the queue (sync.cpp:59-82, 197-246).
THEOREM MonitorRefinement == ASSUME TimedWaitsSafe PROVE CondSpec => ImplementsMonitor
<1>1. ASSUME CondIInv, CondIInv', [CondNext]_allVars
      PROVE  [Monitor!MonitorNext]_(Monitor!monitorVars)
  <2> SUFFICES Monitor!MonitorNext \/ (Queue' = Queue /\ owner' = owner)
    BY DEF Monitor!monitorVars
  <2>1. ASSUME NEW t \in Threads, TakeFree(t), UNCHANGED condVars
        PROVE  Monitor!MonitorNext
    BY <1>1, <2>1, TakeFreeRefines DEF Monitor!MonitorNext
  <2>2. ASSUME NEW t \in Threads, UnlockLast(t), UNCHANGED condVars
        PROVE  Monitor!MonitorNext
    BY <1>1, <2>2, UnlockLastRefines DEF Monitor!MonitorNext
  <2>3. ASSUME NEW t \in Threads, CondDetach(t)
        PROVE  Monitor!MonitorNext
    BY <1>1, <2>3, DetachRefines DEF Monitor!MonitorNext
  <2>4. ASSUME NEW t \in Threads, CondExpired(t)
        PROVE  Monitor!MonitorNext \/ (Queue' = Queue /\ owner' = owner)
    BY <1>1, <2>4, ExpiredRefines DEF Monitor!MonitorNext
  <2>5. ASSUME NEW t \in Threads, CondPush(t)
        PROVE  Queue' = Queue /\ owner' = owner
    BY <1>1, <2>5, PushRefines
  <2>6. cwl' = cwl /\ owner' = owner => Queue' = Queue
    BY DEF Queue
  <2>7. CASE UNCHANGED allVars
    BY <2>6, <2>7 DEF allVars, vars, condVars
  <2>8. CASE CondNext
    <3>1. PICK t \in Threads :
            \/ cpc[t] = "out" /\ Calls(t) /\ UNCHANGED condVars
            \/ (spin_acquire(t) \/ Proceed(t)) /\ UNCHANGED condVars
            \/ CondCalls(t) \/ cond_acquire(t) \/ CondProceed(t)
      BY <2>8 DEF CondNext
    <3>2. CASE TakeFree(t) /\ UNCHANGED condVars
      BY <2>1, <3>2
    <3>3. CASE UnlockLast(t) /\ UNCHANGED condVars
      BY <2>2, <3>3
    <3>4. CASE CondDetach(t) \/ CondExpired(t) \/ CondPush(t)
      BY <2>3, <2>4, <2>5, <3>4
    <3>5. CASE \/ Calls(t) /\ UNCHANGED condVars
               \/ spin_acquire(t) /\ UNCHANGED condVars
               \/ /\ \/ TakeNested(t) \/ FailOrSpin(t) \/ PushWaiter(t) \/ CthSuspendBlocked(t)
                     \/ spin_release_cb(t) \/ ResumeUlt(t) \/ PollSignaled(t) \/ UnlockNested(t)
                     \/ wake_store(t) \/ CthAwakenIfBlocked(t)
                  /\ UNCHANGED condVars
               \/ CondCalls(t) \/ cond_acquire(t) \/ CondInvMutex(t) \/ CondPoll(t) \/ CondSuspend(t)
               \/ cond_release_cb(t) \/ CondWoken(t) \/ CondDeadline(t) \/ CondReturn(t)
               \/ cond_wake_store(t) \/ cond_wake_cth(t)
      BY <1>1, <2>6, <3>5, OthersStutter
    <3> QED
      BY <3>1, <3>2, <3>3, <3>4, <3>5 DEF Proceed, CondProceed
  <2> QED
    BY <1>1, <2>7, <2>8
<1> QED
  BY <1>1, MonitorInits, CondInvariance, PTL DEF CondSpec, ImplementsMonitor, Monitor!MonitorSpec
=============================================================================
