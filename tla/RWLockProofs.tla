---------------------------- MODULE RWLockProofs ----------------------------
(* Proofs about RWLock, for any finite number of threads and of calls.        *)
EXTENDS RWLock, FiniteSetTheorems, TLAPS

\* A thread holds the rwlock from the end of a lock call to its unlock, and r->m
\* while it wakes others.
Placed ==
  \A t \in Threads :
    /\ pc[t] \in {"rdlock", "wrlock", "signal_wr", "leave"} => mode[t] = "none"
    /\ pc[t] = "unlock" => mode[t] # "none"
    /\ pc[t] \in {"signal_wr", "leave"} => holder = t

\* A thread waits at most once, for the condition of its call, and without r->m.
Queued ==
  /\ \A i \in 1..Len(queue["rd"]) : pc[queue["rd"][i]] = "rdlock" /\ queue["rd"][i] # holder
  /\ \A i \in 1..Len(queue["wr"]) : pc[queue["wr"][i]] = "wrlock" /\ queue["wr"][i] # holder
  /\ \A c \in {"rd", "wr"} : \A i, j \in 1..Len(queue[c]) : queue[c][i] = queue[c][j] => i = j

\* readers and writer are those of the threads inside.
Counted ==
  /\ readers = Cardinality(Holding("read"))
  /\ \A t \in Threads : mode[t] = "write" => writer
  /\ writer => \E t \in Threads : mode[t] = "write"
  /\ \A t, u \in Threads : mode[t] = "write" /\ mode[u] # "none" => u = t

IInv == TypeOK /\ Placed /\ Queued /\ Counted /\ ReadersWaitForWriter /\ WriterWakeupKept

-----------------------------------------------------------------------------
\* The queue after a wait and after a signal.
LEMMA Joined == ASSUME NEW q \in Seq(Threads), NEW t \in Threads
                PROVE /\ Append(q, t) \in Seq(Threads) /\ Append(q, t) # <<>>
                      /\ Len(Append(q, t)) = Len(q) + 1 /\ Append(q, t)[Len(q) + 1] = t
                      /\ \A i \in 1..Len(q) : Append(q, t)[i] = q[i]
  OBVIOUS

LEMMA Left == ASSUME NEW q \in Seq(Threads), q # <<>>
              PROVE /\ Tail(q) \in Seq(Threads) /\ Len(Tail(q)) = Len(q) - 1 /\ Len(q) \in Nat /\ Len(q) > 0
                    /\ q[1] \in Threads
                    /\ \A i \in 1..Len(Tail(q)) : Tail(q)[i] = q[i + 1]
  OBVIOUS

\* A reader more and a reader less.
LEMMA OneMore == ASSUME TypeOK, NEW t \in Threads, mode[t] # "read",
                        mode' = [mode EXCEPT ![t] = "read"]
                 PROVE Cardinality(Holding("read"))' = Cardinality(Holding("read")) + 1
<1>1. Holding("read")' = Holding("read") \cup {t} /\ t \notin Holding("read")
  BY DEF Holding, TypeOK
<1>2. IsFiniteSet(Holding("read"))
  BY FS_Subset, RWLockAssumption DEF Holding
<1> QED
  BY <1>1, <1>2, FS_AddElement

LEMMA OneLess == ASSUME TypeOK, NEW t \in Threads, mode[t] = "read",
                        mode' = [mode EXCEPT ![t] = "none"]
                 PROVE /\ Cardinality(Holding("read"))' = Cardinality(Holding("read")) - 1
                       /\ Cardinality(Holding("read")) \in Nat \ {0}
<1>1. Holding("read")' = Holding("read") \ {t} /\ t \in Holding("read")
  BY DEF Holding, TypeOK
<1>2. IsFiniteSet(Holding("read"))
  BY FS_Subset, RWLockAssumption DEF Holding
<1>3. Cardinality(Holding("read")) \in Nat /\ Cardinality(Holding("read")) # 0
  BY <1>1, <1>2, FS_CardinalityType, FS_EmptySet
<1> QED
  BY <1>1, <1>2, <1>3, FS_RemoveElement

\* Nobody reads when the count is zero.
LEMMA NoReader == ASSUME TypeOK, Counted, readers = 0 PROVE \A t \in Threads : mode[t] # "read"
<1>1. IsFiniteSet(Holding("read"))
  BY FS_Subset, RWLockAssumption DEF Holding
<1>2. Holding("read") = {}
  BY <1>1, FS_EmptySet DEF Counted
<1> QED
  BY <1>2 DEF Holding

\* A step that changes the mode of nobody changes no count.
LEMMA SameCount == ASSUME Counted, UNCHANGED <<readers, writer, mode>> PROVE Counted'
  BY DEF Counted, Holding

-----------------------------------------------------------------------------
LEMMA InitIInv == Init => IInv
<1> SUFFICES ASSUME Init PROVE IInv
  OBVIOUS
<1>1. Holding("read") = {}
  BY DEF Init, Holding
<1>2. Cardinality(Holding("read")) = 0
  BY <1>1, FS_EmptySet
<1>3. queue = [c \in {"rd", "wr"} |-> <<>>] /\ holder = None
  BY RWLockAssumption DEF Init, MonitorInit
<1>4. TypeOK
  <2>1. <<>> \in Seq(Threads) /\ 0 \in 0..MaxCalls
    BY RWLockAssumption
  <2> QED
    BY <1>3, <2>1, RWLockAssumption DEF Init, TypeOK
<1>5. Queued
  BY <1>3 DEF Queued
<1>6. Counted /\ Placed
  BY <1>2 DEF Init, Counted, Placed
<1>7. ReadersWaitForWriter /\ WriterWakeupKept
  BY <1>3 DEF ReadersWaitForWriter, WriterWakeupKept
<1> QED
  BY <1>4, <1>5, <1>6, <1>7 DEF IInv

LEMMA StepCall == ASSUME IInv, NEW t \in Threads,
                         ABT_rwlock_rdlock(t) \/ ABT_rwlock_wrlock(t) \/ ABT_rwlock_unlock(t)
                  PROVE IInv'
<1> USE DEF IInv, ABT_rwlock_rdlock, ABT_rwlock_wrlock, ABT_rwlock_unlock, LockCall, Goto, monitorVars
<1>a. queue \in [{"rd", "wr"} -> Seq(Threads)]
  BY RWLockAssumption DEF TypeOK
<1>b. \A c \in {"rd", "wr"} : \A i \in 1..Len(queue[c]) : queue[c][i] \in Threads
  BY <1>a
<1>1. TypeOK'
  <2>1. calls' \in [Threads -> 0..MaxCalls]
    <3>1. calls[t] \in 0..MaxCalls /\ (calls[t] < MaxCalls => calls[t] + 1 \in 0..MaxCalls)
      BY RWLockAssumption DEF TypeOK
    <3> QED
      BY <3>1 DEF TypeOK
  <2> QED
    BY <2>1 DEF TypeOK
<1>2. Placed'
  BY DEF TypeOK, Placed
<1>3. Queued'
  <2>1. \A u \in Threads : pc[u] \in {"rdlock", "wrlock"} => pc'[u] = pc[u]
    BY DEF TypeOK
  <2> QED
    BY <1>b, <2>1 DEF Queued
<1>4. Counted'
  BY SameCount
<1>5. ReadersWaitForWriter'
  BY DEF ReadersWaitForWriter
<1>6. WriterWakeupKept'
  BY DEF TypeOK, WriterWakeupKept, WriterInFlight, IsWaiting
<1> QED
  BY <1>1, <1>2, <1>3, <1>4, <1>5, <1>6

LEMMA StepEnter == ASSUME IInv, NEW t \in Threads, Enter(t) PROVE IInv'
<1> USE DEF IInv, Enter, Acquire, rwVars
<1>1. TypeOK'
  BY DEF TypeOK
<1>2. Placed'
  BY RWLockAssumption DEF TypeOK, Placed
<1>3. Queued'
  BY RWLockAssumption DEF TypeOK, Queued, IsWaiting
<1>4. Counted'
  BY SameCount
<1>5. ReadersWaitForWriter' /\ WriterWakeupKept'
  BY DEF ReadersWaitForWriter, WriterWakeupKept, WriterInFlight, IsWaiting
<1> QED
  BY <1>1, <1>2, <1>3, <1>4, <1>5

LEMMA StepWait == ASSUME IInv, NEW t \in Threads, RdWait(t) \/ WrWait(t) PROVE IInv'
<1> USE DEF IInv, RdWait, WrWait, Wait, rwVars
<1>0. PICK c \in {"rd", "wr"} : /\ queue' = [queue EXCEPT ![c] = Append(@, t)]
                                /\ c = "rd" => pc[t] = "rdlock" /\ writer
                                /\ c = "wr" => pc[t] = "wrlock" /\ (writer \/ readers > 0)
  OBVIOUS
<1>a. queue \in [{"rd", "wr"} -> Seq(Threads)] /\ holder = t /\ t # None
  BY RWLockAssumption DEF TypeOK
<1>b. queue'[c] = Append(queue[c], t) /\ \A e \in {"rd", "wr"} : e # c => queue'[e] = queue[e]
  BY <1>0, <1>a
<1>1. TypeOK'
  BY <1>0, <1>a, <1>b, Joined, RWLockAssumption DEF TypeOK
<1>2. Placed'
  BY <1>0, <1>a DEF Placed
<1>3. Queued'
  <2>1. \A e \in {"rd", "wr"} : \A i \in 1..Len(queue'[e]) :
          \/ e = c /\ i = Len(queue[c]) + 1 /\ queue'[e][i] = t
          \/ i \in 1..Len(queue[e]) /\ queue'[e][i] = queue[e][i]
    <3> TAKE e \in {"rd", "wr"}
    <3> TAKE i \in 1..Len(queue'[e])
    <3>1. CASE e = c
      <4>1. queue[c] \in Seq(Threads) /\ Len(queue[c]) \in Nat
        BY <1>a
      <4>2. queue'[e] = Append(queue[c], t)
        BY <3>1, <1>b
      <4>3. i \in 1..(Len(queue[c]) + 1)
        BY <4>1, <4>2, Joined
      <4> QED
        BY <3>1, <4>1, <4>2, <4>3, Joined
    <3>2. CASE e # c
      BY <3>2, <1>b
    <3> QED
      BY <3>1, <3>2
  <2>2. \A e \in {"rd", "wr"} : \A i \in 1..Len(queue[e]) : queue[e][i] # t /\ queue[e][i] \in Threads
    BY <1>a DEF Queued
  <2>3. \A e \in {"rd", "wr"} : \A i, j \in 1..Len(queue'[e]) : queue'[e][i] = queue'[e][j] => i = j
    <3> TAKE e \in {"rd", "wr"}
    <3> TAKE i, j \in 1..Len(queue'[e])
    <3>1. \A m, n \in 1..Len(queue[e]) : queue[e][m] = queue[e][n] => m = n
      BY DEF Queued
    <3> QED
      BY <2>1, <2>2, <3>1
  <2>4. \A i \in 1..Len(queue'["rd"]) : pc[queue'["rd"][i]] = "rdlock" /\ queue'["rd"][i] # None
    BY <1>0, <1>a, <2>1, <2>2, RWLockAssumption DEF Queued
  <2>5. \A i \in 1..Len(queue'["wr"]) : pc[queue'["wr"][i]] = "wrlock" /\ queue'["wr"][i] # None
    BY <1>0, <1>a, <2>1, <2>2, RWLockAssumption DEF Queued
  <2> QED
    BY <2>3, <2>4, <2>5 DEF Queued
<1>4. Counted'
  BY SameCount
<1>5. ReadersWaitForWriter'
  BY <1>0, <1>b DEF ReadersWaitForWriter
<1>6. WriterWakeupKept'
  <2>1. CASE c = "wr"
    BY <2>1, <1>0 DEF WriterWakeupKept, TypeOK
  <2>2. CASE c = "rd"
    BY <2>2, <1>0 DEF WriterWakeupKept
  <2> QED
    BY <2>1, <2>2
<1> QED
  BY <1>1, <1>2, <1>3, <1>4, <1>5, <1>6

LEMMA StepRdTake == ASSUME IInv, NEW t \in Threads, RdTake(t) PROVE IInv'
<1> USE DEF IInv, RdTake, Release, Goto
<1>a. mode[t] = "none"
  BY DEF Placed
<1>1. TypeOK'
  BY DEF TypeOK
<1>2. Placed'
  BY <1>a DEF TypeOK, Placed
<1>3. Queued'
  BY RWLockAssumption DEF TypeOK, Queued
<1>4. Counted'
  <2>1. readers' = Cardinality(Holding("read"))'
    BY <1>a, OneMore DEF Counted
  <2>2. \A u \in Threads : mode[u] # "write"
    BY DEF Counted
  <2> QED
    BY <2>1, <2>2 DEF Counted, TypeOK
<1>5. ReadersWaitForWriter'
  BY DEF ReadersWaitForWriter
<1>6. WriterWakeupKept'
  BY DEF WriterWakeupKept, TypeOK
<1> QED
  BY <1>1, <1>2, <1>3, <1>4, <1>5, <1>6

LEMMA StepWrTake == ASSUME IInv, NEW t \in Threads, WrTake(t) PROVE IInv'
<1> USE DEF IInv, WrTake, Release, Goto
<1>a. mode[t] = "none" /\ \A u \in Threads : mode[u] = "none"
  BY NoReader DEF Placed, Counted, TypeOK
<1>1. TypeOK'
  BY DEF TypeOK
<1>2. Placed'
  BY <1>a DEF TypeOK, Placed
<1>3. Queued'
  BY RWLockAssumption DEF TypeOK, Queued
<1>4. Counted'
  <2>1. Holding("read")' = Holding("read")
    BY <1>a DEF Holding, TypeOK
  <2> QED
    BY <2>1, <1>a DEF Counted, TypeOK
<1>5. ReadersWaitForWriter' /\ WriterWakeupKept'
  BY DEF ReadersWaitForWriter, WriterWakeupKept
<1> QED
  BY <1>1, <1>2, <1>3, <1>4, <1>5

LEMMA StepUnlockWriter == ASSUME IInv, NEW t \in Threads, UnlockWriter(t) PROVE IInv'
<1> USE DEF IInv, UnlockWriter, Broadcast, Goto
<1>a. mode[t] = "write" /\ \A u \in Threads : u # t => mode[u] = "none"
  BY DEF Placed, Counted, TypeOK
<1>b. queue'["rd"] = <<>> /\ queue'["wr"] = queue["wr"] /\ queue \in [{"rd", "wr"} -> Seq(Threads)]
  BY RWLockAssumption DEF TypeOK
<1>1. TypeOK'
  <2>1. queue' \in [Conds -> Seq(Threads)]
    <3>1. <<>> \in Seq(Threads)
      OBVIOUS
    <3> QED
      BY <3>1 DEF TypeOK
  <2> QED
    BY <2>1 DEF TypeOK
<1>2. Placed'
  BY DEF TypeOK, Placed
<1>3. Queued'
  BY <1>b DEF TypeOK, Queued
<1>4. Counted'
  <2>1. Holding("read")' = Holding("read")
    BY <1>a DEF Holding, TypeOK
  <2> QED
    BY <2>1, <1>a DEF Counted, TypeOK
<1>5. ReadersWaitForWriter'
  BY <1>b DEF ReadersWaitForWriter
<1>6. WriterInFlight(t)'
  BY DEF WriterInFlight, TypeOK
<1>7. WriterWakeupKept'
  BY <1>6 DEF WriterWakeupKept
<1> QED
  BY <1>1, <1>2, <1>3, <1>4, <1>5, <1>7

LEMMA StepSignalWr == ASSUME IInv, NEW t \in Threads, SignalWr(t) PROVE IInv'
<1> USE DEF IInv, SignalWr, Signal, Goto
<1>a. queue \in [{"rd", "wr"} -> Seq(Threads)] /\ queue'["rd"] = queue["rd"]
  BY RWLockAssumption DEF TypeOK
<1>b. queue'["wr"] = IF queue["wr"] = <<>> THEN <<>> ELSE Tail(queue["wr"])
  BY <1>a
<1>c. \A i \in 1..Len(queue'["wr"]) : i + 1 \in 1..Len(queue["wr"]) /\ queue'["wr"][i] = queue["wr"][i + 1]
  BY <1>a, <1>b, Left
<1>d. \A i \in 1..Len(queue["wr"]) : queue["wr"][i] \in Threads
  BY <1>a
<1>e. \A i \in 1..Len(queue["rd"]) : queue["rd"][i] \in Threads
  BY <1>a
<1>1. TypeOK'
  BY <1>a, <1>b, Left, RWLockAssumption DEF TypeOK
<1>2. Placed'
  BY DEF TypeOK, Placed
<1>3. Queued'
  <2>1. \A i \in 1..Len(queue'["wr"]) : pc'[queue'["wr"][i]] = "wrlock" /\ queue'["wr"][i] # holder
    BY <1>c, <1>d DEF Queued, TypeOK
  <2>2. \A i \in 1..Len(queue["rd"]) : pc'[queue["rd"][i]] = "rdlock" /\ queue["rd"][i] # holder
    BY <1>e DEF Queued, TypeOK
  <2>3. \A i, j \in 1..Len(queue'["wr"]) : queue'["wr"][i] = queue'["wr"][j] => i = j
    BY <1>a, <1>c DEF Queued
  <2> QED
    BY <2>1, <2>2, <2>3, <1>a DEF Queued
<1>4. Counted'
  BY SameCount
<1>5. ReadersWaitForWriter'
  BY <1>a DEF ReadersWaitForWriter
<1>6. WriterWakeupKept'
  <2>1. CASE queue["wr"] = <<>>
    BY <2>1, <1>b DEF WriterWakeupKept
  <2>2. CASE queue["wr"] # <<>>
    <3>1. PICK w \in Threads : w = queue["wr"][1] /\ 1 \in 1..Len(queue["wr"])
      BY <2>2, <1>a, Left
    <3>2. pc'[w] = "wrlock"
      BY <3>1 DEF Queued, TypeOK
    <3>3. \A i \in 1..Len(queue'["wr"]) : queue'["wr"][i] # w
      BY <3>1, <1>c, <1>a DEF Queued
    <3>4. \A i \in 1..Len(queue'["rd"]) : queue'["rd"][i] # w
      BY <3>1, <1>a DEF Queued
    <3>5. ~IsWaiting(w)'
      <4>1. queue' \in [{"rd", "wr"} -> Seq(Threads)]
        BY <1>1, RWLockAssumption DEF TypeOK
      <4>2. \A c \in {"rd", "wr"} : DOMAIN queue'[c] = 1..Len(queue'[c])
        BY <4>1
      <4> QED
        BY <3>3, <3>4, <4>2, RWLockAssumption DEF IsWaiting
    <3> QED
      BY <3>1, <3>2, <3>5 DEF WriterWakeupKept, WriterInFlight
  <2> QED
    BY <2>1, <2>2
<1> QED
  BY <1>1, <1>2, <1>3, <1>4, <1>5, <1>6

LEMMA StepUnlockReader == ASSUME IInv, NEW t \in Threads, UnlockReader(t) PROVE IInv'
<1> USE DEF IInv, UnlockReader, Goto, monitorVars
<1>a. mode[t] = "read"
  BY DEF Placed, Counted, TypeOK
<1>b. readers' = Cardinality(Holding("read"))' /\ readers \in Nat \ {0}
  BY <1>a, OneLess DEF Counted
<1>1. TypeOK'
  BY <1>b DEF TypeOK
<1>2. Placed'
  BY DEF TypeOK, Placed
<1>3. Queued'
  BY DEF TypeOK, Queued
<1>4. Counted'
  BY <1>b DEF Counted, TypeOK
<1>5. ReadersWaitForWriter'
  BY DEF ReadersWaitForWriter
<1>6. WriterWakeupKept'
  <2>1. CASE readers = 1
    BY <2>1 DEF WriterWakeupKept, WriterInFlight, TypeOK
  <2>2. CASE readers # 1
    BY <2>2, <1>b DEF WriterWakeupKept
  <2> QED
    BY <2>1, <2>2
<1> QED
  BY <1>1, <1>2, <1>3, <1>4, <1>5, <1>6

LEMMA StepLeave == ASSUME IInv, NEW t \in Threads, Leave(t) PROVE IInv'
<1> USE DEF IInv, Leave, Release, Goto
<1>1. TypeOK'
  BY DEF TypeOK
<1>2. Placed'
  BY DEF TypeOK, Placed
<1>3. Queued'
  BY RWLockAssumption DEF TypeOK, Queued
<1>4. Counted'
  BY SameCount
<1>5. ReadersWaitForWriter'
  BY DEF ReadersWaitForWriter
<1>6. WriterWakeupKept'
  BY DEF TypeOK, WriterWakeupKept, WriterInFlight, IsWaiting
<1> QED
  BY <1>1, <1>2, <1>3, <1>4, <1>5, <1>6

LEMMA StepIInv == IInv /\ [Next]_vars => IInv'
<1> SUFFICES ASSUME IInv, [Next]_vars PROVE IInv'
  OBVIOUS
<1>1. CASE UNCHANGED vars
  BY <1>1 DEF vars, monitorVars, rwVars, IInv, TypeOK, Placed, Queued, Counted, Holding,
              ReadersWaitForWriter, WriterWakeupKept, WriterInFlight, IsWaiting
<1>2. ASSUME NEW t \in Threads, Step(t) PROVE IInv'
  BY <1>2, StepEnter, StepWait, StepRdTake, StepWrTake, StepUnlockWriter, StepSignalWr,
     StepUnlockReader, StepLeave DEF Step
<1> QED
  BY <1>1, <1>2, StepCall DEF Next, Done

LEMMA Invariance == Spec => []IInv
  BY InitIInv, StepIInv, PTL DEF Spec

-----------------------------------------------------------------------------
\* One writer and no reader, or any number of readers, for any number of threads:
\* readers and writer count exactly the threads inside (sync.cpp:343-357).
THEOREM Exclusion == Spec => []RWExclusion
<1>1. IInv => RWExclusion
  <2> SUFFICES ASSUME IInv PROVE RWExclusion
    OBVIOUS
  <2>1. Cardinality(Holding("write")) <= 1
    <3>1. CASE Holding("write") = {}
      BY <3>1, FS_EmptySet
    <3>2. CASE Holding("write") # {}
      <4>1. PICK t \in Threads : Holding("write") = {t}
        BY <3>2 DEF IInv, Counted, Holding
      <4> QED
        BY <4>1, FS_Singleton
    <3> QED
      BY <3>1, <3>2
  <2> QED
    BY <2>1 DEF IInv, TypeOK, Counted, RWExclusion, Holding
<1> QED
  BY <1>1, Invariance, PTL

\* No reader waits once the writer is gone, and a free rwlock never leaves a writer
\* waiting with nobody to wake it (sync.cpp:345, 349, 354-355).
THEOREM WaitersKept == Spec => [](ReadersWaitForWriter /\ WriterWakeupKept)
<1>1. IInv => ReadersWaitForWriter /\ WriterWakeupKept
  BY DEF IInv
<1> QED
  BY <1>1, Invariance, PTL

\* All that is claimed of the rwlock (sync.cpp:343-357).
THEOREM RWLockAlwaysKept == Spec => []RWLockKept
<1>1. IInv => TypeOK
  BY DEF IInv
<1>2. TypeOK /\ RWExclusion /\ ReadersWaitForWriter /\ WriterWakeupKept => RWLockKept
  BY DEF RWLockKept
<1> QED
  BY <1>1, <1>2, Invariance, Exclusion, WaitersKept, PTL
=============================================================================
