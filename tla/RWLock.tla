------------------------------- MODULE RWLock -------------------------------
(***************************************************************************)
(* ABT_rwlock (sync.cpp): a mutex and two conditions around a reader count *)
(* and a writer flag.  The mutex and the conditions are used through what  *)
(* AbstractMonitor promises, which Cond shows they keep.                   *)
(***************************************************************************)
EXTENDS AbstractMonitor, FiniteSets, Naturals

CONSTANT MaxCalls        \* bound: how often each thread locks

ASSUME RWLockAssumption == /\ IsFiniteSet(Threads) /\ None \notin Threads
                           /\ Conds = {"rd", "wr"} /\ MaxCalls \in Nat

VARIABLES readers, writer,   \* the fields of ABTI_rwlock
          pc,                \* where each thread is in the rwlock calls
          mode,              \* history: how each thread holds the rwlock
          calls              \* lock calls each thread has made

rwVars == <<readers, writer, pc, mode, calls>>
vars == <<monitorVars, rwVars>>

Init == /\ MonitorInit
        /\ readers = 0
        /\ writer = FALSE
        /\ pc = [t \in Threads |-> "out"]
        /\ mode = [t \in Threads |-> "none"]
        /\ calls = [t \in Threads |-> 0]

Goto(t, l) == pc' = [pc EXCEPT ![t] = l]

\* The calls: a thread locks when it holds nothing and unlocks what it holds.
LockCall(t, l) == /\ pc[t] = "out" /\ mode[t] = "none"
                  /\ calls[t] < MaxCalls
                  /\ calls' = [calls EXCEPT ![t] = @ + 1]
                  /\ Goto(t, l)
                  /\ UNCHANGED <<monitorVars, readers, writer, mode>>

ABT_rwlock_rdlock(t) == LockCall(t, "rdlock")
ABT_rwlock_wrlock(t) == LockCall(t, "wrlock")
ABT_rwlock_unlock(t) == /\ pc[t] = "out" /\ mode[t] # "none"
                        /\ Goto(t, "unlock")
                        /\ UNCHANGED <<monitorVars, readers, writer, mode, calls>>

\* ABT_mutex_lock(r->m), and the lock at the end of ABT_cond_wait.
Enter(t) == /\ pc[t] \in {"rdlock", "wrlock", "unlock"}
            /\ Acquire(t)
            /\ UNCHANGED rwVars

\* With r->m held: the loop test fails and the call waits.
RdWait(t) == /\ pc[t] = "rdlock" /\ writer
             /\ Wait(t, "rd")
             /\ UNCHANGED rwVars

WrWait(t) == /\ pc[t] = "wrlock" /\ (writer \/ readers > 0)
             /\ Wait(t, "wr")
             /\ UNCHANGED rwVars

RdTake(t) == /\ pc[t] = "rdlock" /\ ~writer
             /\ Release(t)
             /\ readers' = readers + 1
             /\ mode' = [mode EXCEPT ![t] = "read"]
             /\ Goto(t, "out")
             /\ UNCHANGED <<writer, calls>>

\* Variant: the writer does not wait for the readers.
VariantWrTake(t) == /\ pc[t] = "wrlock" /\ ~writer
                    /\ Release(t)
                    /\ writer' = TRUE
                    /\ mode' = [mode EXCEPT ![t] = "write"]
                    /\ Goto(t, "out")
                    /\ UNCHANGED <<readers, calls>>

WrTake(t) == /\ pc[t] = "wrlock" /\ ~writer /\ readers = 0
             /\ Release(t)
             /\ writer' = TRUE
             /\ mode' = [mode EXCEPT ![t] = "write"]
             /\ Goto(t, "out")
             /\ UNCHANGED <<readers, calls>>

\* Unlock of the writer: all readers are woken, then one writer.
UnlockWriter(t) == /\ pc[t] = "unlock" /\ holder = t /\ writer
                   /\ writer' = FALSE
                   /\ mode' = [mode EXCEPT ![t] = "none"]
                   /\ Broadcast("rd")
                   /\ Goto(t, "signal_wr")
                   /\ UNCHANGED <<readers, calls>>

SignalWr(t) == /\ pc[t] = "signal_wr"
               /\ Signal("wr")
               /\ Goto(t, "leave")
               /\ UNCHANGED <<readers, writer, mode, calls>>

\* Variant: the last reader wakes nobody.
VariantUnlockReader(t) == /\ pc[t] = "unlock" /\ holder = t /\ ~writer
                          /\ readers' = readers - 1
                          /\ mode' = [mode EXCEPT ![t] = "none"]
                          /\ Goto(t, "leave")
                          /\ UNCHANGED <<monitorVars, writer, calls>>

\* Unlock of a reader: the last one wakes one writer.
UnlockReader(t) == /\ pc[t] = "unlock" /\ holder = t /\ ~writer
                   /\ readers' = readers - 1
                   /\ mode' = [mode EXCEPT ![t] = "none"]
                   /\ Goto(t, IF readers = 1 THEN "signal_wr" ELSE "leave")
                   /\ UNCHANGED <<monitorVars, writer, calls>>

\* ABT_mutex_unlock(r->m) at the end of unlock.
Leave(t) == /\ pc[t] = "leave"
            /\ Release(t)
            /\ Goto(t, "out")
            /\ UNCHANGED <<readers, writer, mode, calls>>

Step(t) == \/ Enter(t) \/ RdWait(t) \/ WrWait(t) \/ RdTake(t) \/ WrTake(t)
           \/ UnlockWriter(t) \/ SignalWr(t) \/ UnlockReader(t) \/ Leave(t)

Done == (\A t \in Threads : pc[t] = "out" /\ mode[t] = "none" /\ calls[t] = MaxCalls)
        /\ UNCHANGED vars

Next == \/ \E t \in Threads : \/ ABT_rwlock_rdlock(t) \/ ABT_rwlock_wrlock(t)
                              \/ ABT_rwlock_unlock(t) \/ Step(t)
        \/ Done

\* Fairness: as long as a thread can go on inside a call, or unlock, some thread
\* does (the calls are finitely many, so nothing is asked of a single thread).
Progress == \E t \in Threads : Step(t) \/ ABT_rwlock_unlock(t)

Spec == Init /\ [][Next]_vars
FairSpec == Spec /\ WF_vars(Progress)

-----------------------------------------------------------------------------
TypeOK == /\ holder \in Threads \cup {None}
          /\ queue \in [Conds -> Seq(Threads)]
          /\ readers \in Nat
          /\ writer \in BOOLEAN
          /\ pc \in [Threads -> {"out", "rdlock", "wrlock", "unlock", "signal_wr", "leave"}]
          /\ mode \in [Threads -> {"none", "read", "write"}]
          /\ calls \in [Threads -> 0..MaxCalls]

Holding(m) == {t \in Threads : mode[t] = m}

\* One writer and no reader, or any number of readers: readers and writer
\* count exactly the threads inside, through every wait, wake and retry.
RWExclusion == /\ readers = Cardinality(Holding("read"))
               /\ writer <=> Holding("write") # {}
               /\ Cardinality(Holding("write")) <= 1
               /\ Holding("write") # {} => Holding("read") = {}

\* Readers wait only for a writer that is inside: the broadcast of its unlock
\* leaves none behind (sync.cpp:345, 354).
ReadersWaitForWriter == queue["rd"] # <<>> => writer

\* Someone who will take the rwlock, or who will signal a writer.
WriterInFlight(t) == \/ pc[t] = "signal_wr"
                     \/ pc[t] = "wrlock" /\ ~IsWaiting(t)

\* A free rwlock never leaves writers waiting with nobody to wake them, although
\* each unlock signals one writer only and readers may overtake it
\* (sync.cpp:349, 354-355).
WriterWakeupKept ==
  queue["wr"] # <<>> /\ ~writer /\ readers = 0 => \E t \in Threads : WriterInFlight(t)

\* The rwlock: one writer or any number of readers, counted exactly; no reader waits
\* once the writer is gone, and a free rwlock leaves no writer waiting with nobody to
\* wake it (sync.cpp:343-357).
RWLockKept == TypeOK /\ RWExclusion /\ ReadersWaitForWriter /\ WriterWakeupKept
=============================================================================
