---------------------------- MODULE MutexProofs -----------------------------
(***************************************************************************)
(* Proofs about Mutex, for any set of threads and any nesting bound.       *)
(***************************************************************************)
EXTENDS Mutex, TLAPS

-----------------------------------------------------------------------------
\* Sequences.

\* A sequence is a function on 1..Len of it.
LEMMA SeqLen ==
  ASSUME NEW S, NEW l \in Seq(S)
  PROVE  Len(l) \in Nat /\ l \in [1..Len(l) -> S] /\ DOMAIN l = 1..Len(l)
  OBVIOUS

LEMMA SeqElement ==
  ASSUME NEW S, NEW l \in Seq(S), NEW i \in 1..Len(l)
  PROVE  l[i] \in S
  OBVIOUS

LEMMA SeqEmpty ==
  ASSUME NEW S
  PROVE  /\ <<>> \in Seq(S)
         /\ Len(<<>>) = 0
         /\ \A l \in Seq(S) : l # <<>> => Len(l) \in Nat \ {0}
  OBVIOUS

\* A function on 1..n is a sequence.
LEMMA SeqOf ==
  ASSUME NEW S, NEW n \in Nat, NEW f \in [1..n -> S]
  PROVE  f \in Seq(S) /\ Len(f) = n
  OBVIOUS

\* Sequences with the same elements are the same.
LEMMA SeqSame ==
  ASSUME NEW S, NEW l \in Seq(S), NEW m \in Seq(S),
         Len(l) = Len(m), \A i \in 1..Len(l) : l[i] = m[i]
  PROVE  l = m
  OBVIOUS

LEMMA SeqAppend ==
  ASSUME NEW S, NEW l \in Seq(S), NEW e \in S
  PROVE  /\ Append(l, e) \in Seq(S)
         /\ Append(l, e) # <<>>
         /\ Len(Append(l, e)) = Len(l) + 1
         /\ \A i \in 1..Len(l) : Append(l, e)[i] = l[i]
         /\ Append(l, e)[Len(l) + 1] = e
  OBVIOUS

LEMMA SeqTail ==
  ASSUME NEW S, NEW l \in Seq(S), l # <<>>
  PROVE  /\ Head(l) \in S /\ Head(l) = l[1]
         /\ Tail(l) \in Seq(S)
         /\ Len(Tail(l)) = Len(l) - 1
         /\ \A i \in 1..Len(l) - 1 : Tail(l)[i] = l[i + 1]
  OBVIOUS

\* The two parts of a sequence cut after its first n elements.
LEMMA SeqCut ==
  ASSUME NEW S, NEW l \in Seq(S), NEW n \in 0..Len(l)
  PROVE  /\ SubSeq(l, 1, n) \in Seq(S)
         /\ Len(SubSeq(l, 1, n)) = n
         /\ \A i \in 1..n : SubSeq(l, 1, n)[i] = l[i]
         /\ SubSeq(l, n + 1, Len(l)) \in Seq(S)
         /\ Len(SubSeq(l, n + 1, Len(l))) = Len(l) - n
         /\ \A i \in 1..Len(l) - n : SubSeq(l, n + 1, Len(l))[i] = l[n + i]
  OBVIOUS

-----------------------------------------------------------------------------
\* The inductive invariant.

\* Who holds slock: a thread at a program point inside it, or a ULT that has
\* just blocked and whose post-switch release is still to come.
SlockInv ==
  /\ \A t \in Threads : pc[t] \in InLock => slock = t
  /\ slock # None => \/ pc[slock] \in InLock
                     \/ pc[slock] = "blocked" /\ run[slock] = "BLOCKED"

\* ULTs block, others poll, and a ULT inside the wait is not RUNNING.
RunInv ==
  /\ \A t \in Threads : /\ pc[t] \in {"suspend", "blocked"} => t \in Ults
                        /\ pc[t] = "poll" => t \in Externals
                        /\ pc[t] = "suspend" => ~signaled[t]
  /\ \A t \in Ults : pc[t] = "blocked" => run[t] # "RUNNING"

\* The lock word, owner, nesting and the callers' holds.
HoldInv ==
  /\ HolderExclusive
  /\ locked <=> owner # None
  /\ ~locked => nesting = 0
  /\ \A t \in Threads : pc[t] \in {"unlock", "unlock_cs"} => depth[t] > 0

\* A popped record belongs to one waker, is off the list, and its owner waits.
PoppedInv ==
  /\ \A t \in Threads : popped[t] # None <=> pc[t] \in {"wake_store", "wake_cth"}
  /\ \A t, u \in Threads : popped[t] = popped[u] /\ popped[t] # None => t = u
  /\ \A t \in Threads : popped[t] # None =>
       /\ slock # popped[t]
       /\ \A i \in 1..Len(wl) : wl[i] # popped[t]
  /\ \A t \in Threads : pc[t] = "wake_cth" => popped[t] \in Ults
  /\ WakeReachesWaiter

\* WaiterAccounted, from the moment the record is listed.
Accounted(w) == Listed(w) \/ \E t \in Threads : popped[t] = w
AccountedInv ==
  \A w \in Threads : Waits(w) \/ pc[w] = "suspend" => Accounted(w)

IInv == /\ TypeOK
        /\ SlockInv
        /\ RunInv
        /\ HoldInv
        /\ ListedWait
        /\ PoppedInv
        /\ AccountedInv
        /\ NoLostWakeup

-----------------------------------------------------------------------------
LEMMA InitInv == Init => IInv
<1> SUFFICES ASSUME Init
             PROVE  IInv
  OBVIOUS
<1> USE MutexAssumption DEF Init
<1>1. TypeOK
  <2>1. wl \in Seq(Threads)
    BY SeqEmpty
  <2> QED
    BY <2>1, Zenon DEF TypeOK, PCs
<1>2. SlockInv /\ RunInv /\ HoldInv
  BY DEF SlockInv, RunInv, HoldInv, HolderExclusive, InLock, Threads
<1>3. ListedWait /\ PoppedInv /\ AccountedInv /\ NoLostWakeup
  BY DEF AccountedInv, Waits, Threads, ListedWait, PoppedInv, WakeReachesWaiter, NoLostWakeup
<1> QED
  BY <1>1, <1>2, <1>3 DEF IInv

-----------------------------------------------------------------------------
\* What push and pop do to the list.

LEMMA PushFacts ==
  ASSUME NEW l \in Seq(Threads), NEW w \in Threads
  PROVE  /\ wl_push(l, w) \in Seq(Threads)
         /\ Len(wl_push(l, w)) = Len(l) + 1
         /\ wl_push(l, w)[Len(l) + 1] = w
         /\ \A i \in 1..Len(l) : wl_push(l, w)[i] = l[i]
  BY SeqAppend, SeqLen DEF wl_push

LEMMA PopFacts ==
  ASSUME NEW l \in Seq(Threads), l # <<>>
  PROVE  /\ wl_pop(l) \in Seq(Threads)
         /\ Len(wl_pop(l)) = Len(l) - 1
         /\ Len(l) \in Nat \ {0}
         /\ Head(l) = l[1]
         /\ Head(l) \in Threads
         /\ \A i \in 1..Len(l) - 1 : wl_pop(l)[i] = l[i + 1]
  BY SeqTail, SeqLen, SeqEmpty DEF wl_pop

LEMMA ListFacts ==
  ASSUME TypeOK
  PROVE  Len(wl) \in Nat /\ \A i \in 1..Len(wl) : wl[i] \in Threads
  BY SeqLen, SeqElement DEF TypeOK

-----------------------------------------------------------------------------
\* The steps that change the list or the popped records.

LEMMA PushPreserves ==
  ASSUME IInv, NEW t \in Threads, PushWaiter(t)
  PROVE  /\ TypeOK' /\ SlockInv' /\ RunInv'
         /\ ListedWait' /\ PoppedInv' /\ AccountedInv'
<1> DEFINE n == Len(wl)
           q == IF t \in Ults THEN "suspend" ELSE "poll"
<1>1. /\ TypeOK
      /\ n \in Nat
      /\ \A i \in 1..n : wl[i] \in Threads
  BY ListFacts DEF IInv
<1>2. /\ wl' \in Seq(Threads)
      /\ Len(wl') = n + 1
      /\ wl'[n + 1] = t
      /\ \A i \in 1..n : wl'[i] = wl[i]
  BY <1>1, PushFacts, Zenon DEF TypeOK, PushWaiter
<1>3. /\ pc[t] = "lock_cs"
      /\ slock = t
      /\ slock' = IF t \in Ults THEN t ELSE None
      /\ pc' = [pc EXCEPT ![t] = q]
      /\ signaled' = [signaled EXCEPT ![t] = FALSE]
      /\ UNCHANGED <<locked, owner, nesting, run, popped, depth>>
  BY MutexAssumption DEF PushWaiter, Goto, IInv, SlockInv, InLock, Threads
<1>4. TypeOK'
  BY <1>1, <1>2, <1>3 DEF TypeOK, PCs, InLock
<1>5. SlockInv'
  BY <1>1, <1>3, MutexAssumption DEF TypeOK, IInv, SlockInv, InLock, Threads
<1>6. RunInv'
  BY <1>1, <1>3, MutexAssumption DEF TypeOK, IInv, RunInv, Threads
<1>7. /\ \A i \in 1..n : wl[i] # t /\ Waits(wl[i])
      /\ \A u \in Threads : popped[u] # t
  <2>1. \A i \in 1..n : wl[i] # t /\ Waits(wl[i])
    BY <1>1, <1>3 DEF IInv, ListedWait, Waits
  <2>2. \A u \in Threads : popped[u] # t
    BY <1>3, MutexAssumption DEF IInv, PoppedInv
  <2> QED
    BY <2>1, <2>2
<1>8. ListedWait'
  <2>1. \A i, j \in 1..n + 1 : wl'[i] = wl'[j] => i = j
    BY <1>1, <1>2, <1>7 DEF IInv, ListedWait
  <2>2. \A i \in 1..n : Waits(wl[i])'
    BY <1>1, <1>2, <1>3, <1>7, Zenon DEF Waits, TypeOK
  <2>3. (pc'[t] = "suspend" /\ slock' = t) \/ Waits(t)'
    BY <1>1, <1>3 DEF Waits, TypeOK
  <2>4. \A i \in 1..n + 1 : (i \in 1..n /\ wl'[i] = wl[i]) \/ wl'[i] = t
    BY <1>1, <1>2
  <2>5. \A i \in 1..n + 1 : Waits(wl[i])' \/ (pc'[wl'[i]] = "suspend" /\ slock' = wl'[i])
    BY <2>2, <2>3, <2>4, <1>2 DEF Waits
  <2> QED
    BY <1>2, <2>1, <2>5 DEF ListedWait
<1>9. PoppedInv'
  <2>1. WakeReachesWaiter'
    BY <1>1, <1>3, <1>7 DEF IInv, PoppedInv, WakeReachesWaiter, Waits, TypeOK
  <2>2. \A u \in Threads : popped[u] # None =>
          slock' # popped[u] /\ \A i \in 1..n + 1 : wl'[i] # popped[u]
    <3>1. \A i \in 1..n + 1 : (i \in 1..n /\ wl'[i] = wl[i]) \/ wl'[i] = t
      BY <1>1, <1>2
    <3>2. \A u \in Threads : popped[u] # None => \A i \in 1..n : wl[i] # popped[u]
      BY DEF IInv, PoppedInv
    <3> QED
      BY <1>3, <1>7, <3>1, <3>2
  <2> QED
    BY <1>1, <1>2, <1>3, <2>1, <2>2 DEF IInv, PoppedInv, TypeOK
<1>10. AccountedInv'
  <2>1. Listed(t)'
    BY <1>1, <1>2 DEF Listed
  <2>2. ASSUME NEW w \in Threads, w # t, (Waits(w) \/ pc[w] = "suspend")'
        PROVE  Accounted(w)'
    <3>1. Waits(w) \/ pc[w] = "suspend"
      BY <1>1, <1>3, <2>2 DEF Waits, TypeOK
    <3>2. Accounted(w)
      BY <3>1 DEF IInv, AccountedInv
    <3> QED
      BY <1>1, <1>2, <1>3, <3>2 DEF Accounted, Listed
  <2> QED
    BY <2>1, <2>2 DEF AccountedInv, Accounted
<1> QED
  BY <1>4, <1>5, <1>6, <1>8, <1>9, <1>10

LEMMA UnlockPreserves ==
  ASSUME IInv, NEW t \in Threads, UnlockLast(t)
  PROVE  /\ TypeOK' /\ SlockInv' /\ RunInv'
         /\ ListedWait' /\ PoppedInv' /\ AccountedInv'
<1> DEFINE n == Len(wl)
<1>1. /\ TypeOK
      /\ n \in Nat
      /\ \A i \in 1..n : wl[i] \in Threads
  BY ListFacts DEF IInv
<1>2. /\ pc[t] = "unlock_cs"
      /\ slock = t /\ slock' = None
      /\ locked' = FALSE /\ owner' = None
      /\ UNCHANGED <<nesting, signaled, run>>
      /\ depth[t] > 0
      /\ depth' = [depth EXCEPT ![t] = @ - 1]
      /\ popped[t] = None
  BY DEF UnlockLast, IInv, SlockInv, HoldInv, PoppedInv, InLock
<1>3. \A i \in 1..n : wl[i] # t /\ Waits(wl[i])
  BY <1>1, <1>2 DEF IInv, ListedWait, Waits, TypeOK
<1>4. CASE wl = <<>>
  <2>1. /\ UNCHANGED <<wl, popped>>
        /\ pc' = [pc EXCEPT ![t] = "out"]
    BY <1>4 DEF UnlockLast, Goto
  <2>2. TypeOK'
    <3>1. depth' \in [Threads -> Nat]
      BY <1>1, <1>2 DEF TypeOK
    <3>2. slock' \in Threads \cup {None} /\ owner' \in Threads \cup {None} /\ locked' \in BOOLEAN
      BY <1>2, Zenon
    <3>3. pc' \in [Threads -> PCs] /\ popped' \in [Threads -> Threads \cup {None}]
      BY <1>1, <2>1 DEF TypeOK, PCs
    <3> QED
      BY <1>1, <1>2, <2>1, <3>1, <3>2, <3>3 DEF TypeOK
  <2>3. SlockInv' /\ RunInv'
    BY <1>1, <1>2, <2>1, MutexAssumption DEF TypeOK, IInv, SlockInv, RunInv, InLock, Threads
  <2>4. ListedWait'
    BY <1>4, <2>1 DEF ListedWait
  <2>5. WakeReachesWaiter'
    BY <1>1, <1>2, <2>1 DEF IInv, PoppedInv, WakeReachesWaiter, Waits, TypeOK
  <2>6. PoppedInv'
    BY <1>1, <1>2, <2>1, <2>5, MutexAssumption DEF IInv, PoppedInv, TypeOK
  <2>7. AccountedInv'
    BY <1>1, <1>2, <2>1, Zenon DEF IInv, AccountedInv, Accounted, Listed, Waits, TypeOK
  <2> QED
    BY <2>2, <2>3, <2>4, <2>6, <2>7
<1>5. CASE wl # <<>>
  <2> DEFINE h == wl[1]
  <2>1. /\ pc' = [pc EXCEPT ![t] = "wake_store"]
        /\ popped' = [popped EXCEPT ![t] = h]
        /\ wl' \in Seq(Threads)
        /\ Len(wl') = n - 1
        /\ n > 0
        /\ h \in Threads
        /\ \A i \in 1..n - 1 : wl'[i] = wl[i + 1]
    <3>1. /\ pc' = [pc EXCEPT ![t] = "wake_store"]
          /\ wl' = wl_pop(wl)
          /\ popped' = [popped EXCEPT ![t] = Head(wl)]
      BY <1>5 DEF UnlockLast, Goto
    <3>2. wl \in Seq(Threads)
      BY <1>1 DEF TypeOK
    <3> QED
      BY <1>5, <3>1, <3>2, PopFacts
  <2>2. TypeOK'
    <3>1. depth' \in [Threads -> Nat]
      BY <1>1, <1>2 DEF TypeOK
    <3>2. slock' \in Threads \cup {None} /\ owner' \in Threads \cup {None} /\ locked' \in BOOLEAN
      BY <1>2, Zenon
    <3>3. pc' \in [Threads -> PCs] /\ popped' \in [Threads -> Threads \cup {None}]
      BY <1>1, <2>1 DEF TypeOK, PCs
    <3> QED
      BY <1>1, <1>2, <2>1, <3>1, <3>2, <3>3 DEF TypeOK
  <2>3. SlockInv' /\ RunInv'
    BY <1>1, <1>2, <2>1, MutexAssumption DEF TypeOK, IInv, SlockInv, RunInv, InLock, Threads
  <2>4. /\ h # t /\ Waits(h)
        /\ \A i \in 1..n - 1 : wl[i + 1] # h
        /\ \A u \in Threads : popped[u] # h
    BY <1>1, <1>3, <2>1, MutexAssumption DEF IInv, ListedWait, PoppedInv, Threads
  <2>5. ListedWait'
    <3>1. \A i, j \in 1..n - 1 : wl'[i] = wl'[j] => i = j
      BY <1>1, <2>1 DEF IInv, ListedWait
    <3>2. \A w \in Threads : w # t /\ Waits(w) => Waits(w)'
      BY <1>1, <1>2, <2>1 DEF Waits, TypeOK
    <3>3. \A i \in 1..n - 1 : i + 1 \in 1..n
      BY <1>1
    <3>4. \A i \in 1..n - 1 : wl[i + 1] \in Threads /\ wl[i + 1] # t /\ Waits(wl[i + 1])
      BY <1>1, <1>3, <3>3
    <3>5. \A i \in 1..n - 1 : Waits(wl[i])'
      BY <3>2, <3>4, <2>1 DEF Waits
    <3> QED
      BY <2>1, <3>1, <3>5 DEF ListedWait
  <2>6. WakeReachesWaiter'
    BY <1>1, <1>2, <2>1, <2>4 DEF IInv, PoppedInv, WakeReachesWaiter, Waits, TypeOK
  <2>7. PoppedInv'
    <3>1. \A u \in Threads : popped'[u] # None => \A i \in 1..n - 1 : wl'[i] # popped'[u]
      BY <1>1, <2>1, <2>4 DEF IInv, PoppedInv, TypeOK
    <3>2. \A u, v \in Threads : popped'[u] = popped'[v] /\ popped'[u] # None => u = v
      BY <1>1, <2>1, <2>4 DEF IInv, PoppedInv, TypeOK
    <3>3. \A u \in Threads : popped'[u] # None <=> pc'[u] \in {"wake_store", "wake_cth"}
      BY <1>1, <2>1, MutexAssumption DEF IInv, PoppedInv, TypeOK
    <3>4. \A u \in Threads : pc'[u] = "wake_cth" => popped'[u] \in Ults
      BY <1>1, <2>1 DEF IInv, PoppedInv, TypeOK
    <3> QED
      BY <1>2, <2>1, <2>6, <3>1, <3>2, <3>3, <3>4 DEF PoppedInv
  <2>8. AccountedInv'
    <3> SUFFICES ASSUME NEW w \in Threads, (Waits(w) \/ pc[w] = "suspend")'
                 PROVE  Accounted(w)'
      BY DEF AccountedInv
    <3>1. Waits(w) \/ pc[w] = "suspend"
      BY <1>1, <1>2, <2>1 DEF Waits, TypeOK
    <3>2. Accounted(w)
      BY <3>1 DEF IInv, AccountedInv
    <3>3. CASE Listed(w)
      <4>1. PICK i \in 1..n : wl[i] = w
        BY <3>3 DEF Listed
      <4>2. CASE i = 1
        BY <1>1, <2>1, <4>1, <4>2 DEF Accounted, TypeOK
      <4>3. CASE i # 1
        <5>1. i - 1 \in 1..Len(wl') /\ wl'[i - 1] = w
          BY <1>1, <2>1, <4>1, <4>3
        <5> QED
          BY <5>1 DEF Accounted, Listed
      <4> QED
        BY <4>2, <4>3
    <3>4. ASSUME NEW u \in Threads, popped[u] = w
          PROVE  Accounted(w)'
      BY <1>1, <1>2, <2>1, <3>4, MutexAssumption DEF Accounted, TypeOK
    <3> QED
      BY <3>2, <3>3, <3>4 DEF Accounted
  <2> QED
    BY <2>2, <2>3, <2>5, <2>7, <2>8
<1> QED
  BY <1>4, <1>5

LEMMA StorePreserves ==
  ASSUME IInv, NEW t \in Threads, wake_store(t)
  PROVE  /\ TypeOK' /\ SlockInv' /\ RunInv'
         /\ ListedWait' /\ PoppedInv' /\ AccountedInv'
<1> DEFINE h == popped[t]
<1>1. /\ TypeOK
      /\ Len(wl) \in Nat
      /\ \A i \in 1..Len(wl) : wl[i] \in Threads
  BY ListFacts DEF IInv
<1>2. /\ pc[t] = "wake_store"
      /\ h \in Threads /\ h # t /\ Waits(h)
      /\ pc' = [pc EXCEPT ![t] = IF h \in Ults THEN "wake_cth" ELSE "out"]
      /\ popped' = IF h \in Ults THEN popped ELSE [popped EXCEPT ![t] = None]
      /\ signaled' = [signaled EXCEPT ![h] = TRUE]
      /\ UNCHANGED <<slock, locked, owner, nesting, wl, run, depth>>
  BY <1>1 DEF wake_store, Goto, mutexVars, IInv, PoppedInv, WakeReachesWaiter, TypeOK, Waits
<1>3. TypeOK'
  BY <1>1, <1>2 DEF TypeOK, PCs
<1>4. SlockInv'
  BY <1>1, <1>2, MutexAssumption DEF TypeOK, IInv, SlockInv, InLock
<1>5. RunInv'
  BY <1>1, <1>2, MutexAssumption DEF TypeOK, IInv, RunInv, Waits, Threads
<1>6. ListedWait'
  BY <1>1, <1>2 DEF IInv, ListedWait, PoppedInv, Waits, TypeOK
<1>7. \A u \in Threads : u # t => popped[u] # h
  BY <1>1, <1>2, MutexAssumption DEF IInv, PoppedInv
<1>8. WakeReachesWaiter'
  BY <1>1, <1>2, <1>7 DEF IInv, PoppedInv, WakeReachesWaiter, Waits, TypeOK
<1>9. PoppedInv'
  BY <1>1, <1>2, <1>7, <1>8, MutexAssumption DEF IInv, PoppedInv, TypeOK
<1>10. AccountedInv'
  <2> SUFFICES ASSUME NEW w \in Threads, (Waits(w) \/ pc[w] = "suspend")'
               PROVE  Accounted(w)'
    BY DEF AccountedInv
  <2>1. w # h /\ (Waits(w) \/ pc[w] = "suspend")
    BY <1>1, <1>2 DEF Waits, TypeOK
  <2>2. Accounted(w)
    BY <2>1 DEF IInv, AccountedInv
  <2> QED
    BY <1>1, <1>2, <2>1, <2>2 DEF Accounted, Listed, TypeOK
<1> QED
  BY <1>3, <1>4, <1>5, <1>6, <1>9, <1>10

LEMMA AwakenPreserves ==
  ASSUME IInv, NEW t \in Threads, CthAwakenIfBlocked(t)
  PROVE  /\ SlockInv' /\ RunInv'
         /\ ListedWait' /\ PoppedInv' /\ AccountedInv'
<1> DEFINE h == popped[t]
<1>1. /\ TypeOK
      /\ Len(wl) \in Nat
      /\ \A i \in 1..Len(wl) : wl[i] \in Threads
  BY ListFacts DEF IInv
<1>2. /\ pc[t] = "wake_cth"
      /\ h \in Ults /\ h \in Threads /\ h # t
      /\ pc[h] = "blocked" /\ run[h] = "BLOCKED"
      /\ slock # h
      /\ pc' = [pc EXCEPT ![t] = "out"]
      /\ popped' = [popped EXCEPT ![t] = None]
      /\ run' = [run EXCEPT ![h] = "READY"]
      /\ UNCHANGED <<slock, locked, owner, nesting, wl, signaled, depth>>
  BY <1>1, MutexAssumption, Zenon
     DEF CthAwakenIfBlocked, Goto, mutexVars, IInv, PoppedInv, WakeReachesWaiter, TypeOK, Threads
<1>3. SlockInv'
  BY <1>1, <1>2, MutexAssumption DEF TypeOK, IInv, SlockInv, RunInv, InLock
<1>4. RunInv'
  BY <1>1, <1>2, MutexAssumption DEF TypeOK, IInv, RunInv, Threads
<1>5. ListedWait'
  BY <1>1, <1>2, MutexAssumption DEF IInv, ListedWait, PoppedInv, Waits, TypeOK, Threads
<1>6. \A u \in Threads : u # t => popped[u] # h
  BY <1>1, <1>2, MutexAssumption DEF IInv, PoppedInv, Threads
<1>7. WakeReachesWaiter'
  BY <1>1, <1>2, <1>6 DEF IInv, PoppedInv, WakeReachesWaiter, Waits, TypeOK
<1>8. PoppedInv'
  BY <1>1, <1>2, <1>7, MutexAssumption DEF IInv, PoppedInv, TypeOK
<1>9. AccountedInv'
  <2> SUFFICES ASSUME NEW w \in Threads, (Waits(w) \/ pc[w] = "suspend")'
               PROVE  Accounted(w)'
    BY DEF AccountedInv
  <2>1. w # h /\ (Waits(w) \/ pc[w] = "suspend")
    BY <1>1, <1>2 DEF Waits, TypeOK
  <2>2. Accounted(w)
    BY <2>1 DEF IInv, AccountedInv
  <2> QED
    BY <1>1, <1>2, <2>1, <2>2 DEF Accounted, Listed, TypeOK
<1> QED
  BY <1>3, <1>4, <1>5, <1>8, <1>9

-----------------------------------------------------------------------------
\* The steps of several program points, in one form.

LEMMA CallFacts ==
  ASSUME NEW t \in Threads, Calls(t)
  PROVE  \E l \in {"lock", "spin", "try", "unlock"} :
           /\ pc[t] = "out" /\ pc' = [pc EXCEPT ![t] = l]
           /\ UNCHANGED <<slock, locked, owner, nesting, wl, signaled, run, popped, depth>>
  BY DEF Calls, Call, ABT_mutex_lock, ABT_mutex_spinlock, ABT_mutex_trylock, ABT_mutex_unlock,
         Goto, mutexVars

LEMMA AcquireFacts ==
  ASSUME NEW t \in Threads, spin_acquire(t)
  PROVE  \E l \in {"lock_cs", "spin_cs", "try_cs", "unlock_cs"} :
           /\ pc[t] \in {"lock", "spin", "try", "unlock"} /\ pc' = [pc EXCEPT ![t] = l]
           /\ UNCHANGED <<locked, owner, nesting, wl, signaled, run, popped, depth>>
<1>1. PICK p \in {<<"lock", "lock_cs">>, <<"spin", "spin_cs">>,
                  <<"try", "try_cs">>, <<"unlock", "unlock_cs">>} :
        pc[t] = p[1] /\ pc' = [pc EXCEPT ![t] = p[2]]
  BY Zenon DEF spin_acquire, Goto
<1>2. /\ p[1] \in {"lock", "spin", "try", "unlock"}
      /\ p[2] \in {"lock_cs", "spin_cs", "try_cs", "unlock_cs"}
  OBVIOUS
<1> QED
  BY <1>1, <1>2, Zenon DEF spin_acquire

LEMMA SpinFacts ==
  ASSUME NEW t \in Threads, FailOrSpin(t)
  PROVE  \E l \in {"spin", "out"} :
           /\ pc[t] \in {"spin_cs", "try_cs"} /\ pc' = [pc EXCEPT ![t] = l]
           /\ slock' = None
           /\ UNCHANGED <<locked, owner, nesting, wl, signaled, run, popped, depth>>
  BY DEF FailOrSpin, Goto

-----------------------------------------------------------------------------
\* One lemma per conjunct, one step per action.

LEMMA NextType == IInv /\ [Next]_vars => TypeOK'
<1> SUFFICES ASSUME IInv, [Next]_vars
             PROVE  TypeOK'
  OBVIOUS
<1>1. ASSUME NEW t \in Threads, Calls(t)
      PROVE  TypeOK'
  BY <1>1, MutexAssumption, Zenon
     DEF Calls, Call, ABT_mutex_lock, ABT_mutex_spinlock, ABT_mutex_trylock,
         ABT_mutex_unlock, IInv, TypeOK, Goto, mutexVars, HoldInv, PCs, InLock
<1>2. ASSUME NEW t \in Threads, spin_acquire(t)
      PROVE  TypeOK'
  BY <1>2, MutexAssumption
     DEF spin_acquire, IInv, TypeOK, Goto, mutexVars, HoldInv, PCs, InLock
<1>3. ASSUME NEW t \in Threads, TakeFree(t)
      PROVE  TypeOK'
  BY <1>3, MutexAssumption
     DEF TakeFree, IInv, TypeOK, Goto, mutexVars, HoldInv, PCs, InLock
<1>4. ASSUME NEW t \in Threads, TakeNested(t)
      PROVE  TypeOK'
  BY <1>4, MutexAssumption
     DEF TakeNested, IInv, TypeOK, Goto, mutexVars, HoldInv, PCs, InLock
<1>5. ASSUME NEW t \in Threads, FailOrSpin(t)
      PROVE  TypeOK'
  BY <1>5, MutexAssumption, Zenon
     DEF FailOrSpin, Taken, IInv, TypeOK, Goto, mutexVars, HoldInv, PCs, InLock
<1>6. ASSUME NEW t \in Threads, PushWaiter(t)
      PROVE  TypeOK'
  BY <1>6, PushPreserves
<1>7. ASSUME NEW t \in Threads, CthSuspendBlocked(t)
      PROVE  TypeOK'
  BY <1>7, MutexAssumption, Zenon
     DEF CthSuspendBlocked, IInv, TypeOK, Goto, mutexVars, HoldInv, PCs, InLock
<1>8. ASSUME NEW t \in Threads, spin_release_cb(t)
      PROVE  TypeOK'
  BY <1>8, MutexAssumption
     DEF spin_release_cb, IInv, TypeOK, Goto, mutexVars, HoldInv, PCs, InLock
<1>9. ASSUME NEW t \in Threads, ResumeUlt(t)
      PROVE  TypeOK'
  BY <1>9, MutexAssumption, Zenon
     DEF ResumeUlt, IInv, TypeOK, Goto, mutexVars, HoldInv, PCs, InLock
<1>10. ASSUME NEW t \in Threads, PollSignaled(t)
       PROVE  TypeOK'
  BY <1>10, MutexAssumption
     DEF PollSignaled, IInv, TypeOK, Goto, mutexVars, HoldInv, PCs, InLock
<1>11. ASSUME NEW t \in Threads, UnlockNested(t)
       PROVE  TypeOK'
  BY <1>11, MutexAssumption
     DEF UnlockNested, IInv, TypeOK, Goto, mutexVars, HoldInv, PCs, InLock
<1>12. ASSUME NEW t \in Threads, UnlockLast(t)
       PROVE  TypeOK'
  BY <1>12, UnlockPreserves
<1>13. ASSUME NEW t \in Threads, wake_store(t)
       PROVE  TypeOK'
  BY <1>13, StorePreserves
<1>14. ASSUME NEW t \in Threads, CthAwakenIfBlocked(t)
       PROVE  TypeOK'
  BY <1>14, MutexAssumption, Zenon
     DEF CthAwakenIfBlocked, IInv, TypeOK, Goto, mutexVars, HoldInv, PCs, InLock
<1>15. CASE UNCHANGED vars
  BY <1>15 DEF vars, IInv, TypeOK, Goto, mutexVars, HoldInv, PCs, InLock
<1> QED
  BY <1>1, <1>2, <1>3, <1>4, <1>5, <1>6, <1>7, <1>8,
     <1>9, <1>10, <1>11, <1>12, <1>13, <1>14, <1>15
     DEF Next, Proceed

LEMMA NextSlock == IInv /\ [Next]_vars => SlockInv'
<1> SUFFICES ASSUME IInv, [Next]_vars
             PROVE  SlockInv'
  OBVIOUS
<1>1. ASSUME NEW t \in Threads, Calls(t)
      PROVE  SlockInv'
  BY <1>1, MutexAssumption
     DEF Calls, Call, ABT_mutex_lock, ABT_mutex_spinlock, ABT_mutex_trylock,
         ABT_mutex_unlock, IInv, TypeOK, Goto, mutexVars, SlockInv, RunInv, PoppedInv,
         InLock, Threads
<1>2. ASSUME NEW t \in Threads, spin_acquire(t)
      PROVE  SlockInv'
  BY <1>2, MutexAssumption
     DEF spin_acquire, IInv, TypeOK, Goto, mutexVars, SlockInv, RunInv, PoppedInv,
         InLock, Threads
<1>3. ASSUME NEW t \in Threads, TakeFree(t)
      PROVE  SlockInv'
  BY <1>3, MutexAssumption
     DEF TakeFree, IInv, TypeOK, Goto, mutexVars, SlockInv, RunInv, PoppedInv, InLock,
         Threads
<1>4. ASSUME NEW t \in Threads, TakeNested(t)
      PROVE  SlockInv'
  BY <1>4, MutexAssumption
     DEF TakeNested, IInv, TypeOK, Goto, mutexVars, SlockInv, RunInv, PoppedInv, InLock,
         Threads
<1>5. ASSUME NEW t \in Threads, FailOrSpin(t)
      PROVE  SlockInv'
  <2>1. PICK l \in {"spin", "out"} :
          /\ pc[t] \in {"spin_cs", "try_cs"} /\ pc' = [pc EXCEPT ![t] = l]
          /\ slock' = None
          /\ UNCHANGED <<locked, owner, nesting, wl, signaled, run, popped, depth>>
    BY <1>5, SpinFacts
  <2> QED
    BY <2>1, MutexAssumption DEF IInv, TypeOK, SlockInv, InLock
<1>6. ASSUME NEW t \in Threads, PushWaiter(t)
      PROVE  SlockInv'
  BY <1>6, PushPreserves
<1>7. ASSUME NEW t \in Threads, CthSuspendBlocked(t)
      PROVE  SlockInv'
  BY <1>7, MutexAssumption
     DEF CthSuspendBlocked, IInv, TypeOK, Goto, mutexVars, SlockInv, RunInv, PoppedInv,
         InLock, Threads
<1>8. ASSUME NEW t \in Threads, spin_release_cb(t)
      PROVE  SlockInv'
  BY <1>8, MutexAssumption
     DEF spin_release_cb, IInv, TypeOK, Goto, mutexVars, SlockInv, RunInv, PoppedInv,
         InLock, Threads
<1>9. ASSUME NEW t \in Threads, ResumeUlt(t)
      PROVE  SlockInv'
  BY <1>9, MutexAssumption
     DEF ResumeUlt, IInv, TypeOK, Goto, mutexVars, SlockInv, RunInv, PoppedInv, InLock,
         Threads
<1>10. ASSUME NEW t \in Threads, PollSignaled(t)
       PROVE  SlockInv'
  BY <1>10, MutexAssumption
     DEF PollSignaled, IInv, TypeOK, Goto, mutexVars, SlockInv, RunInv, PoppedInv,
         InLock, Threads
<1>11. ASSUME NEW t \in Threads, UnlockNested(t)
       PROVE  SlockInv'
  BY <1>11, MutexAssumption
     DEF UnlockNested, IInv, TypeOK, Goto, mutexVars, SlockInv, RunInv, PoppedInv,
         InLock, Threads
<1>12. ASSUME NEW t \in Threads, UnlockLast(t)
       PROVE  SlockInv'
  BY <1>12, UnlockPreserves
<1>13. ASSUME NEW t \in Threads, wake_store(t)
       PROVE  SlockInv'
  BY <1>13, StorePreserves
<1>14. ASSUME NEW t \in Threads, CthAwakenIfBlocked(t)
       PROVE  SlockInv'
  BY <1>14, AwakenPreserves
<1>15. CASE UNCHANGED vars
  BY <1>15
     DEF vars, IInv, TypeOK, Goto, mutexVars, SlockInv, RunInv, PoppedInv, InLock,
         Threads
<1> QED
  BY <1>1, <1>2, <1>3, <1>4, <1>5, <1>6, <1>7, <1>8,
     <1>9, <1>10, <1>11, <1>12, <1>13, <1>14, <1>15
     DEF Next, Proceed

LEMMA NextRun == IInv /\ [Next]_vars => RunInv'
<1> SUFFICES ASSUME IInv, [Next]_vars
             PROVE  RunInv'
  OBVIOUS
<1>1. ASSUME NEW t \in Threads, Calls(t)
      PROVE  RunInv'
  BY <1>1, MutexAssumption
     DEF Calls, Call, ABT_mutex_lock, ABT_mutex_spinlock, ABT_mutex_trylock,
         ABT_mutex_unlock, IInv, TypeOK, Goto, mutexVars, RunInv, Threads
<1>2. ASSUME NEW t \in Threads, spin_acquire(t)
      PROVE  RunInv'
  BY <1>2, MutexAssumption
     DEF spin_acquire, IInv, TypeOK, Goto, mutexVars, RunInv, Threads
<1>3. ASSUME NEW t \in Threads, TakeFree(t)
      PROVE  RunInv'
  BY <1>3, MutexAssumption DEF TakeFree, IInv, TypeOK, Goto, mutexVars, RunInv, Threads
<1>4. ASSUME NEW t \in Threads, TakeNested(t)
      PROVE  RunInv'
  BY <1>4, MutexAssumption DEF TakeNested, IInv, TypeOK, Goto, mutexVars, RunInv, Threads
<1>5. ASSUME NEW t \in Threads, FailOrSpin(t)
      PROVE  RunInv'
  BY <1>5, MutexAssumption
     DEF FailOrSpin, Taken, IInv, TypeOK, Goto, mutexVars, RunInv, Threads
<1>6. ASSUME NEW t \in Threads, PushWaiter(t)
      PROVE  RunInv'
  BY <1>6, PushPreserves
<1>7. ASSUME NEW t \in Threads, CthSuspendBlocked(t)
      PROVE  RunInv'
  BY <1>7, MutexAssumption
     DEF CthSuspendBlocked, IInv, TypeOK, Goto, mutexVars, RunInv, Threads
<1>8. ASSUME NEW t \in Threads, spin_release_cb(t)
      PROVE  RunInv'
  BY <1>8, MutexAssumption
     DEF spin_release_cb, IInv, TypeOK, Goto, mutexVars, RunInv, Threads
<1>9. ASSUME NEW t \in Threads, ResumeUlt(t)
      PROVE  RunInv'
  BY <1>9, MutexAssumption DEF ResumeUlt, IInv, TypeOK, Goto, mutexVars, RunInv, Threads
<1>10. ASSUME NEW t \in Threads, PollSignaled(t)
       PROVE  RunInv'
  BY <1>10, MutexAssumption
     DEF PollSignaled, IInv, TypeOK, Goto, mutexVars, RunInv, Threads
<1>11. ASSUME NEW t \in Threads, UnlockNested(t)
       PROVE  RunInv'
  BY <1>11, MutexAssumption
     DEF UnlockNested, IInv, TypeOK, Goto, mutexVars, RunInv, Threads
<1>12. ASSUME NEW t \in Threads, UnlockLast(t)
       PROVE  RunInv'
  BY <1>12, UnlockPreserves
<1>13. ASSUME NEW t \in Threads, wake_store(t)
       PROVE  RunInv'
  BY <1>13, StorePreserves
<1>14. ASSUME NEW t \in Threads, CthAwakenIfBlocked(t)
       PROVE  RunInv'
  BY <1>14, AwakenPreserves
<1>15. CASE UNCHANGED vars
  BY <1>15 DEF vars, IInv, TypeOK, Goto, mutexVars, RunInv, Threads
<1> QED
  BY <1>1, <1>2, <1>3, <1>4, <1>5, <1>6, <1>7, <1>8,
     <1>9, <1>10, <1>11, <1>12, <1>13, <1>14, <1>15
     DEF Next, Proceed

LEMMA NextHold == IInv /\ [Next]_vars => HoldInv'
<1> SUFFICES ASSUME IInv, [Next]_vars
             PROVE  HoldInv'
  OBVIOUS
<1>1. ASSUME NEW t \in Threads, Calls(t)
      PROVE  HoldInv'
  BY <1>1, MutexAssumption
     DEF Calls, Call, ABT_mutex_lock, ABT_mutex_spinlock, ABT_mutex_trylock,
         ABT_mutex_unlock, IInv, TypeOK, Goto, mutexVars, HoldInv, HolderExclusive
<1>2. ASSUME NEW t \in Threads, spin_acquire(t)
      PROVE  HoldInv'
  BY <1>2, MutexAssumption
     DEF spin_acquire, IInv, TypeOK, Goto, mutexVars, HoldInv, HolderExclusive
<1>3. ASSUME NEW t \in Threads, TakeFree(t)
      PROVE  HoldInv'
  BY <1>3, MutexAssumption
     DEF TakeFree, IInv, TypeOK, Goto, mutexVars, HoldInv, HolderExclusive
<1>4. ASSUME NEW t \in Threads, TakeNested(t)
      PROVE  HoldInv'
  BY <1>4, MutexAssumption
     DEF TakeNested, IInv, TypeOK, Goto, mutexVars, HoldInv, HolderExclusive
<1>5. ASSUME NEW t \in Threads, FailOrSpin(t)
      PROVE  HoldInv'
  BY <1>5, MutexAssumption
     DEF FailOrSpin, Taken, IInv, TypeOK, Goto, mutexVars, HoldInv, HolderExclusive
<1>6. ASSUME NEW t \in Threads, PushWaiter(t)
      PROVE  HoldInv'
  BY <1>6, MutexAssumption
     DEF PushWaiter, Taken, IInv, TypeOK, Goto, mutexVars, HoldInv, HolderExclusive
<1>7. ASSUME NEW t \in Threads, CthSuspendBlocked(t)
      PROVE  HoldInv'
  BY <1>7, MutexAssumption
     DEF CthSuspendBlocked, IInv, TypeOK, Goto, mutexVars, HoldInv, HolderExclusive
<1>8. ASSUME NEW t \in Threads, spin_release_cb(t)
      PROVE  HoldInv'
  BY <1>8, MutexAssumption
     DEF spin_release_cb, IInv, TypeOK, Goto, mutexVars, HoldInv, HolderExclusive
<1>9. ASSUME NEW t \in Threads, ResumeUlt(t)
      PROVE  HoldInv'
  BY <1>9, MutexAssumption
     DEF ResumeUlt, IInv, TypeOK, Goto, mutexVars, HoldInv, HolderExclusive
<1>10. ASSUME NEW t \in Threads, PollSignaled(t)
       PROVE  HoldInv'
  BY <1>10, MutexAssumption
     DEF PollSignaled, IInv, TypeOK, Goto, mutexVars, HoldInv, HolderExclusive
<1>11. ASSUME NEW t \in Threads, UnlockNested(t)
       PROVE  HoldInv'
  BY <1>11, MutexAssumption
     DEF UnlockNested, IInv, TypeOK, Goto, mutexVars, HoldInv, HolderExclusive
<1>12. ASSUME NEW t \in Threads, UnlockLast(t)
       PROVE  HoldInv'
  BY <1>12, MutexAssumption
     DEF UnlockLast, IInv, TypeOK, Goto, mutexVars, HoldInv, HolderExclusive
<1>13. ASSUME NEW t \in Threads, wake_store(t)
       PROVE  HoldInv'
  BY <1>13, MutexAssumption
     DEF wake_store, IInv, TypeOK, Goto, mutexVars, HoldInv, HolderExclusive
<1>14. ASSUME NEW t \in Threads, CthAwakenIfBlocked(t)
       PROVE  HoldInv'
  BY <1>14, MutexAssumption
     DEF CthAwakenIfBlocked, IInv, TypeOK, Goto, mutexVars, HoldInv, HolderExclusive
<1>15. CASE UNCHANGED vars
  BY <1>15 DEF vars, IInv, TypeOK, Goto, mutexVars, HoldInv, HolderExclusive
<1> QED
  BY <1>1, <1>2, <1>3, <1>4, <1>5, <1>6, <1>7, <1>8,
     <1>9, <1>10, <1>11, <1>12, <1>13, <1>14, <1>15
     DEF Next, Proceed

LEMMA NextListed == IInv /\ [Next]_vars => ListedWait'
<1> SUFFICES ASSUME IInv, [Next]_vars
             PROVE  ListedWait'
  OBVIOUS
<1>1. ASSUME NEW t \in Threads, Calls(t)
      PROVE  ListedWait'
  BY <1>1, MutexAssumption
     DEF Calls, Call, ABT_mutex_lock, ABT_mutex_spinlock, ABT_mutex_trylock,
         ABT_mutex_unlock, IInv, TypeOK, Goto, mutexVars, SlockInv, RunInv, ListedWait,
         Waits, InLock, Threads
<1>2. ASSUME NEW t \in Threads, spin_acquire(t)
      PROVE  ListedWait'
  BY <1>2, MutexAssumption
     DEF spin_acquire, IInv, TypeOK, Goto, mutexVars, SlockInv, RunInv, ListedWait,
         Waits, InLock, Threads
<1>3. ASSUME NEW t \in Threads, TakeFree(t)
      PROVE  ListedWait'
  BY <1>3, MutexAssumption
     DEF TakeFree, IInv, TypeOK, Goto, mutexVars, SlockInv, RunInv, ListedWait, Waits,
         InLock, Threads
<1>4. ASSUME NEW t \in Threads, TakeNested(t)
      PROVE  ListedWait'
  BY <1>4, MutexAssumption
     DEF TakeNested, IInv, TypeOK, Goto, mutexVars, SlockInv, RunInv, ListedWait, Waits,
         InLock, Threads
<1>5. ASSUME NEW t \in Threads, FailOrSpin(t)
      PROVE  ListedWait'
  BY <1>5, MutexAssumption
     DEF FailOrSpin, Taken, IInv, TypeOK, Goto, mutexVars, SlockInv, RunInv, ListedWait,
         Waits, InLock, Threads
<1>6. ASSUME NEW t \in Threads, PushWaiter(t)
      PROVE  ListedWait'
  BY <1>6, PushPreserves
<1>7. ASSUME NEW t \in Threads, CthSuspendBlocked(t)
      PROVE  ListedWait'
  BY <1>7, MutexAssumption
     DEF CthSuspendBlocked, IInv, TypeOK, Goto, mutexVars, SlockInv, RunInv, ListedWait,
         Waits, InLock, Threads
<1>8. ASSUME NEW t \in Threads, spin_release_cb(t)
      PROVE  ListedWait'
  BY <1>8, MutexAssumption
     DEF spin_release_cb, IInv, TypeOK, Goto, mutexVars, SlockInv, RunInv, ListedWait,
         Waits, InLock, Threads
<1>9. ASSUME NEW t \in Threads, ResumeUlt(t)
      PROVE  ListedWait'
  BY <1>9, MutexAssumption
     DEF ResumeUlt, IInv, TypeOK, Goto, mutexVars, SlockInv, RunInv, ListedWait, Waits,
         InLock, Threads
<1>10. ASSUME NEW t \in Threads, PollSignaled(t)
       PROVE  ListedWait'
  BY <1>10, MutexAssumption
     DEF PollSignaled, IInv, TypeOK, Goto, mutexVars, SlockInv, RunInv, ListedWait,
         Waits, InLock, Threads
<1>11. ASSUME NEW t \in Threads, UnlockNested(t)
       PROVE  ListedWait'
  BY <1>11, MutexAssumption
     DEF UnlockNested, IInv, TypeOK, Goto, mutexVars, SlockInv, RunInv, ListedWait,
         Waits, InLock, Threads
<1>12. ASSUME NEW t \in Threads, UnlockLast(t)
       PROVE  ListedWait'
  BY <1>12, UnlockPreserves
<1>13. ASSUME NEW t \in Threads, wake_store(t)
       PROVE  ListedWait'
  BY <1>13, StorePreserves
<1>14. ASSUME NEW t \in Threads, CthAwakenIfBlocked(t)
       PROVE  ListedWait'
  BY <1>14, AwakenPreserves
<1>15. CASE UNCHANGED vars
  BY <1>15
     DEF vars, IInv, TypeOK, Goto, mutexVars, SlockInv, RunInv, ListedWait, Waits,
         InLock, Threads
<1> QED
  BY <1>1, <1>2, <1>3, <1>4, <1>5, <1>6, <1>7, <1>8,
     <1>9, <1>10, <1>11, <1>12, <1>13, <1>14, <1>15
     DEF Next, Proceed

LEMMA NextPopped == IInv /\ [Next]_vars => PoppedInv'
<1> SUFFICES ASSUME IInv, [Next]_vars
             PROVE  PoppedInv'
  OBVIOUS
<1>1. ASSUME NEW t \in Threads, Calls(t)
      PROVE  PoppedInv'
  <2>1. PICK l \in {"lock", "spin", "try", "unlock"} :
          /\ pc[t] = "out" /\ pc' = [pc EXCEPT ![t] = l]
          /\ UNCHANGED <<slock, locked, owner, nesting, wl, signaled, run, popped, depth>>
    BY <1>1, CallFacts
  <2> QED
    BY <2>1, MutexAssumption DEF IInv, TypeOK, PoppedInv, WakeReachesWaiter, Waits
<1>2. ASSUME NEW t \in Threads, spin_acquire(t)
      PROVE  PoppedInv'
  BY <1>2, MutexAssumption
     DEF spin_acquire, IInv, TypeOK, Goto, mutexVars, SlockInv, RunInv, PoppedInv,
         WakeReachesWaiter, Waits, InLock, Threads
<1>3. ASSUME NEW t \in Threads, TakeFree(t)
      PROVE  PoppedInv'
  BY <1>3, MutexAssumption
     DEF TakeFree, IInv, TypeOK, Goto, mutexVars, SlockInv, RunInv, PoppedInv,
         WakeReachesWaiter, Waits, InLock, Threads
<1>4. ASSUME NEW t \in Threads, TakeNested(t)
      PROVE  PoppedInv'
  BY <1>4, MutexAssumption
     DEF TakeNested, IInv, TypeOK, Goto, mutexVars, SlockInv, RunInv, PoppedInv,
         WakeReachesWaiter, Waits, InLock, Threads
<1>5. ASSUME NEW t \in Threads, FailOrSpin(t)
      PROVE  PoppedInv'
  <2>1. PICK l \in {"spin", "out"} :
          /\ pc[t] \in {"spin_cs", "try_cs"} /\ pc' = [pc EXCEPT ![t] = l]
          /\ slock' = None
          /\ UNCHANGED <<locked, owner, nesting, wl, signaled, run, popped, depth>>
    BY <1>5, SpinFacts
  <2> QED
    BY <2>1, MutexAssumption DEF IInv, TypeOK, PoppedInv, WakeReachesWaiter, Waits
<1>6. ASSUME NEW t \in Threads, PushWaiter(t)
      PROVE  PoppedInv'
  BY <1>6, PushPreserves
<1>7. ASSUME NEW t \in Threads, CthSuspendBlocked(t)
      PROVE  PoppedInv'
  BY <1>7, MutexAssumption
     DEF CthSuspendBlocked, IInv, TypeOK, Goto, mutexVars, SlockInv, RunInv, PoppedInv,
         WakeReachesWaiter, Waits, InLock, Threads
<1>8. ASSUME NEW t \in Threads, spin_release_cb(t)
      PROVE  PoppedInv'
  BY <1>8, MutexAssumption
     DEF spin_release_cb, IInv, TypeOK, Goto, mutexVars, SlockInv, RunInv, PoppedInv,
         WakeReachesWaiter, Waits, InLock, Threads
<1>9. ASSUME NEW t \in Threads, ResumeUlt(t)
      PROVE  PoppedInv'
  <2>1. \A u \in Threads : popped[u] # t
    BY <1>9, MutexAssumption DEF ResumeUlt, IInv, PoppedInv, WakeReachesWaiter, Waits, Threads
  <2>2. WakeReachesWaiter'
    BY <1>9, <2>1 DEF ResumeUlt, IInv, TypeOK, Goto, PoppedInv, WakeReachesWaiter, Waits
  <2> QED
    BY <1>9, <2>2 DEF ResumeUlt, IInv, TypeOK, Goto, mutexVars, PoppedInv
<1>10. ASSUME NEW t \in Threads, PollSignaled(t)
       PROVE  PoppedInv'
  BY <1>10, MutexAssumption
     DEF PollSignaled, IInv, TypeOK, Goto, mutexVars, SlockInv, RunInv, PoppedInv,
         WakeReachesWaiter, Waits, InLock, Threads
<1>11. ASSUME NEW t \in Threads, UnlockNested(t)
       PROVE  PoppedInv'
  BY <1>11, MutexAssumption
     DEF UnlockNested, IInv, TypeOK, Goto, mutexVars, SlockInv, RunInv, PoppedInv,
         WakeReachesWaiter, Waits, InLock, Threads
<1>12. ASSUME NEW t \in Threads, UnlockLast(t)
       PROVE  PoppedInv'
  BY <1>12, UnlockPreserves
<1>13. ASSUME NEW t \in Threads, wake_store(t)
       PROVE  PoppedInv'
  BY <1>13, StorePreserves
<1>14. ASSUME NEW t \in Threads, CthAwakenIfBlocked(t)
       PROVE  PoppedInv'
  BY <1>14, AwakenPreserves
<1>15. CASE UNCHANGED vars
  BY <1>15
     DEF vars, IInv, TypeOK, Goto, mutexVars, SlockInv, RunInv, PoppedInv,
         WakeReachesWaiter, Waits, InLock, Threads
<1> QED
  BY <1>1, <1>2, <1>3, <1>4, <1>5, <1>6, <1>7, <1>8,
     <1>9, <1>10, <1>11, <1>12, <1>13, <1>14, <1>15
     DEF Next, Proceed

LEMMA NextAccounted == IInv /\ [Next]_vars => AccountedInv'
<1> SUFFICES ASSUME IInv, [Next]_vars
             PROVE  AccountedInv'
  OBVIOUS
<1>1. ASSUME NEW t \in Threads, Calls(t)
      PROVE  AccountedInv'
  <2>1. PICK l \in {"lock", "spin", "try", "unlock"} :
          /\ pc[t] = "out" /\ pc' = [pc EXCEPT ![t] = l]
          /\ UNCHANGED <<slock, locked, owner, nesting, wl, signaled, run, popped, depth>>
    BY <1>1, CallFacts
  <2> QED
    BY <2>1, MutexAssumption DEF IInv, TypeOK, AccountedInv, Accounted, Listed, Waits
<1>2. ASSUME NEW t \in Threads, spin_acquire(t)
      PROVE  AccountedInv'
  <2>1. PICK l \in {"lock_cs", "spin_cs", "try_cs", "unlock_cs"} :
          /\ pc[t] \in {"lock", "spin", "try", "unlock"} /\ pc' = [pc EXCEPT ![t] = l]
          /\ UNCHANGED <<locked, owner, nesting, wl, signaled, run, popped, depth>>
    BY <1>2, AcquireFacts
  <2> QED
    BY <2>1, MutexAssumption
       DEF IInv, TypeOK, AccountedInv, Accounted, Listed, Waits, InLock
<1>3. ASSUME NEW t \in Threads, TakeFree(t)
      PROVE  AccountedInv'
  BY <1>3, MutexAssumption
     DEF TakeFree, IInv, TypeOK, Goto, mutexVars, AccountedInv, Accounted, Listed, Waits
<1>4. ASSUME NEW t \in Threads, TakeNested(t)
      PROVE  AccountedInv'
  BY <1>4, MutexAssumption
     DEF TakeNested, IInv, TypeOK, Goto, mutexVars, AccountedInv, Accounted, Listed,
         Waits
<1>5. ASSUME NEW t \in Threads, FailOrSpin(t)
      PROVE  AccountedInv'
  <2>1. PICK l \in {"spin", "out"} :
          /\ pc[t] \in {"spin_cs", "try_cs"} /\ pc' = [pc EXCEPT ![t] = l]
          /\ slock' = None
          /\ UNCHANGED <<locked, owner, nesting, wl, signaled, run, popped, depth>>
    BY <1>5, SpinFacts
  <2> QED
    BY <2>1, MutexAssumption DEF IInv, TypeOK, AccountedInv, Accounted, Listed, Waits
<1>6. ASSUME NEW t \in Threads, PushWaiter(t)
      PROVE  AccountedInv'
  BY <1>6, PushPreserves
<1>7. ASSUME NEW t \in Threads, CthSuspendBlocked(t)
      PROVE  AccountedInv'
  BY <1>7, MutexAssumption, Zenon
     DEF CthSuspendBlocked, IInv, TypeOK, Goto, mutexVars, AccountedInv, Accounted,
         Listed, Waits
<1>8. ASSUME NEW t \in Threads, spin_release_cb(t)
      PROVE  AccountedInv'
  BY <1>8, MutexAssumption
     DEF spin_release_cb, IInv, TypeOK, Goto, mutexVars, AccountedInv, Accounted,
         Listed, Waits
<1>9. ASSUME NEW t \in Threads, ResumeUlt(t)
      PROVE  AccountedInv'
  BY <1>9, MutexAssumption, Zenon
     DEF ResumeUlt, IInv, TypeOK, Goto, mutexVars, AccountedInv, Accounted, Listed,
         Waits
<1>10. ASSUME NEW t \in Threads, PollSignaled(t)
       PROVE  AccountedInv'
  BY <1>10, MutexAssumption, Zenon
     DEF PollSignaled, IInv, TypeOK, Goto, mutexVars, AccountedInv, Accounted, Listed,
         Waits
<1>11. ASSUME NEW t \in Threads, UnlockNested(t)
       PROVE  AccountedInv'
  BY <1>11, MutexAssumption
     DEF UnlockNested, IInv, TypeOK, Goto, mutexVars, AccountedInv, Accounted, Listed,
         Waits
<1>12. ASSUME NEW t \in Threads, UnlockLast(t)
       PROVE  AccountedInv'
  BY <1>12, UnlockPreserves
<1>13. ASSUME NEW t \in Threads, wake_store(t)
       PROVE  AccountedInv'
  BY <1>13, StorePreserves
<1>14. ASSUME NEW t \in Threads, CthAwakenIfBlocked(t)
       PROVE  AccountedInv'
  BY <1>14, AwakenPreserves
<1>15. CASE UNCHANGED vars
  BY <1>15, Zenon DEF vars, IInv, TypeOK, Goto, mutexVars, AccountedInv, Accounted, Listed, Waits
<1> QED
  BY <1>1, <1>2, <1>3, <1>4, <1>5, <1>6, <1>7, <1>8,
     <1>9, <1>10, <1>11, <1>12, <1>13, <1>14, <1>15
     DEF Next, Proceed

LEMMA NextNoLost == IInv /\ [Next]_vars => NoLostWakeup'
<1> SUFFICES ASSUME IInv, [Next]_vars
             PROVE  NoLostWakeup'
  OBVIOUS
<1>1. ASSUME NEW t \in Threads, Calls(t)
      PROVE  NoLostWakeup'
  BY <1>1, MutexAssumption
     DEF Calls, Call, ABT_mutex_lock, ABT_mutex_spinlock, ABT_mutex_trylock,
         ABT_mutex_unlock, IInv, TypeOK, Goto, mutexVars, HoldInv, PoppedInv,
         WakeReachesWaiter, NoLostWakeup, InFlight, Waits, Threads
<1>2. ASSUME NEW t \in Threads, spin_acquire(t)
      PROVE  NoLostWakeup'
  BY <1>2, MutexAssumption
     DEF spin_acquire, IInv, TypeOK, Goto, mutexVars, HoldInv, PoppedInv,
         WakeReachesWaiter, NoLostWakeup, InFlight, Waits, Threads
<1>3. ASSUME NEW t \in Threads, TakeFree(t)
      PROVE  NoLostWakeup'
  BY <1>3, MutexAssumption
     DEF TakeFree, IInv, TypeOK, Goto, mutexVars, HoldInv, PoppedInv, WakeReachesWaiter,
         NoLostWakeup, InFlight, Waits, Threads
<1>4. ASSUME NEW t \in Threads, TakeNested(t)
      PROVE  NoLostWakeup'
  BY <1>4, MutexAssumption
     DEF TakeNested, IInv, TypeOK, Goto, mutexVars, HoldInv, PoppedInv,
         WakeReachesWaiter, NoLostWakeup, InFlight, Waits, Threads
<1>5. ASSUME NEW t \in Threads, FailOrSpin(t)
      PROVE  NoLostWakeup'
  BY <1>5, MutexAssumption
     DEF FailOrSpin, Taken, IInv, TypeOK, Goto, mutexVars, HoldInv, PoppedInv,
         WakeReachesWaiter, NoLostWakeup, InFlight, Waits, Threads
<1>6. ASSUME NEW t \in Threads, PushWaiter(t)
      PROVE  NoLostWakeup'
  BY <1>6, MutexAssumption
     DEF PushWaiter, Taken, IInv, TypeOK, Goto, mutexVars, HoldInv, PoppedInv,
         WakeReachesWaiter, NoLostWakeup, InFlight, Waits, Threads
<1>7. ASSUME NEW t \in Threads, CthSuspendBlocked(t)
      PROVE  NoLostWakeup'
  BY <1>7, MutexAssumption
     DEF CthSuspendBlocked, IInv, TypeOK, Goto, mutexVars, HoldInv, PoppedInv,
         WakeReachesWaiter, NoLostWakeup, InFlight, Waits, Threads
<1>8. ASSUME NEW t \in Threads, spin_release_cb(t)
      PROVE  NoLostWakeup'
  BY <1>8, MutexAssumption
     DEF spin_release_cb, IInv, TypeOK, Goto, mutexVars, HoldInv, PoppedInv,
         WakeReachesWaiter, NoLostWakeup, InFlight, Waits, Threads
<1>9. ASSUME NEW t \in Threads, ResumeUlt(t)
      PROVE  NoLostWakeup'
  BY <1>9, MutexAssumption
     DEF ResumeUlt, IInv, TypeOK, Goto, mutexVars, HoldInv, PoppedInv,
         WakeReachesWaiter, NoLostWakeup, InFlight, Waits, Threads
<1>10. ASSUME NEW t \in Threads, PollSignaled(t)
       PROVE  NoLostWakeup'
  BY <1>10, MutexAssumption
     DEF PollSignaled, IInv, TypeOK, Goto, mutexVars, HoldInv, PoppedInv,
         WakeReachesWaiter, NoLostWakeup, InFlight, Waits, Threads
<1>11. ASSUME NEW t \in Threads, UnlockNested(t)
       PROVE  NoLostWakeup'
  BY <1>11, MutexAssumption
     DEF UnlockNested, IInv, TypeOK, Goto, mutexVars, HoldInv, PoppedInv,
         WakeReachesWaiter, NoLostWakeup, InFlight, Waits, Threads
<1>12. ASSUME NEW t \in Threads, UnlockLast(t)
       PROVE  NoLostWakeup'
  BY <1>12, MutexAssumption
     DEF UnlockLast, IInv, TypeOK, Goto, mutexVars, HoldInv, PoppedInv,
         WakeReachesWaiter, NoLostWakeup, InFlight, Waits, Threads
<1>13. ASSUME NEW t \in Threads, wake_store(t)
       PROVE  NoLostWakeup'
  BY <1>13, MutexAssumption
     DEF wake_store, IInv, TypeOK, Goto, mutexVars, HoldInv, PoppedInv,
         WakeReachesWaiter, NoLostWakeup, InFlight, Waits, Threads
<1>14. ASSUME NEW t \in Threads, CthAwakenIfBlocked(t)
       PROVE  NoLostWakeup'
  BY <1>14, MutexAssumption
     DEF CthAwakenIfBlocked, IInv, TypeOK, Goto, mutexVars, HoldInv, PoppedInv,
         WakeReachesWaiter, NoLostWakeup, InFlight, Waits, Threads
<1>15. CASE UNCHANGED vars
  BY <1>15
     DEF vars, IInv, TypeOK, Goto, mutexVars, HoldInv, PoppedInv, WakeReachesWaiter,
         NoLostWakeup, InFlight, Waits, Threads
<1> QED
  BY <1>1, <1>2, <1>3, <1>4, <1>5, <1>6, <1>7, <1>8,
     <1>9, <1>10, <1>11, <1>12, <1>13, <1>14, <1>15
     DEF Next, Proceed

-----------------------------------------------------------------------------
LEMMA Invariance == Spec => []IInv
<1>1. IInv /\ [Next]_vars => IInv'
  BY NextType, NextSlock, NextRun, NextHold, NextListed, NextPopped, NextAccounted, NextNoLost
     DEF IInv
<1> QED
  BY InitInv, <1>1, PTL DEF Spec

\* Every field and every thread's place in the calls keep their types; in
\* particular no unlock takes a caller's count or nesting below zero.
THEOREM TypeCorrect == Spec => []TypeOK
  BY Invariance, PTL DEF IInv

\* Mutual exclusion, for any number of ULTs and external threads.
THEOREM Exclusion == Spec => []HolderExclusive
  BY Invariance, PTL DEF IInv, HoldInv

\* unlock's wake always finds the owner of the record it popped still waiting:
\* the stack record is live and the ULT is BLOCKED.
THEOREM WakeReaches == Spec => []WakeReachesWaiter
  BY Invariance, PTL DEF IInv, PoppedInv

\* The list holds each waiter once and nobody else.
THEOREM ListSound == Spec => []ListedWait
  BY Invariance, PTL DEF IInv

\* A free mutex with waiters has a waker at work or a thread about to retry.
THEOREM WakeupKept == Spec => []NoLostWakeup
  BY Invariance, PTL DEF IInv

\* No waiter drops out of both the list and the wakers' hands.
THEOREM NoWaiterForgotten == Spec => []WaiterAccounted
<1>1. IInv => WaiterAccounted
  BY MutexAssumption
     DEF IInv, AccountedInv, Accounted, Listed, PoppedInv, WaiterAccounted, Threads
<1> QED
  BY Invariance, <1>1, PTL

\* The mutex implements the abstract lock: taking it free is Acquire, nesting
\* is Reacquire, both unlocks are Release, and every other step leaves owner
\* and the number of holds alone.
THEOREM LockRefinement == Spec => ImplementsLock
<1> USE DEF Lock!vars
<1>1. Init => Lock!Init
  BY DEF Init, Lock!Init
<1>2. IInv /\ [Next]_vars => [Lock!Next]_(Lock!vars)
  <2> SUFFICES ASSUME IInv, [Next]_vars
               PROVE  Lock!Next \/ UNCHANGED Lock!vars
    OBVIOUS
  <2>1. ASSUME NEW t \in Threads, TakeFree(t)
        PROVE  Lock!Acquire(t)
    BY <2>1 DEF TakeFree, Lock!Acquire, IInv, HoldInv
  <2>2. ASSUME NEW t \in Threads, TakeNested(t)
        PROVE  Lock!Reacquire(t)
    BY <2>2 DEF TakeNested, Lock!Reacquire, IInv, TypeOK
  <2>3. ASSUME NEW t \in Threads, pc[t] = "unlock_cs"
        PROVE  locked /\ owner = t
    BY <2>3 DEF IInv, HoldInv, HolderExclusive
  <2>4. ASSUME NEW t \in Threads, UnlockNested(t)
        PROVE  Lock!Release(t)
    BY <2>3, <2>4 DEF UnlockNested, Lock!Release, IInv, TypeOK
  <2>5. ASSUME NEW t \in Threads, UnlockLast(t)
        PROVE  Lock!Release(t)
    BY <2>3, <2>5 DEF UnlockLast, Lock!Release, IInv, TypeOK
  <2>6. ASSUME NEW t \in Threads,
               \/ Calls(t) \/ spin_acquire(t) \/ FailOrSpin(t) \/ PushWaiter(t)
               \/ CthSuspendBlocked(t) \/ spin_release_cb(t) \/ ResumeUlt(t)
               \/ PollSignaled(t) \/ wake_store(t) \/ CthAwakenIfBlocked(t)
        PROVE  UNCHANGED <<locked, owner, nesting>>
    BY <2>6, Zenon DEF Calls, Call, ABT_mutex_lock, ABT_mutex_spinlock, ABT_mutex_trylock,
       ABT_mutex_unlock, spin_acquire, FailOrSpin, PushWaiter, CthSuspendBlocked,
       spin_release_cb, ResumeUlt, PollSignaled, wake_store, CthAwakenIfBlocked, mutexVars
  <2>7. CASE UNCHANGED vars
    BY <2>7 DEF vars
  <2>8. ASSUME NEW t \in Threads, Calls(t) \/ spin_acquire(t) \/ Proceed(t)
        PROVE  Lock!Next \/ UNCHANGED Lock!vars
    BY <2>1, <2>2, <2>4, <2>5, <2>6, <2>8 DEF Proceed, Lock!Next
  <2> QED
    BY <2>7, <2>8 DEF Next
<1> QED
  BY <1>1, <1>2, Invariance, PTL DEF Spec, ImplementsLock, Lock!Spec
=============================================================================
