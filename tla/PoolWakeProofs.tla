--------------------------- MODULE PoolWakeProofs ---------------------------
(***************************************************************************)
(* Proofs about PoolWake, for any number of units, timed pops, idle PEs    *)
(* and stacked schedulers: nobody sleeps beside a unit that nobody will    *)
(* tell them of.                                                           *)
(*                                                                         *)
(* WakeIInv is the inductive invariant.  Its heart is arithmetic: the      *)
(* count lags behind the pool by the pushes that have still to count and   *)
(* the pops that have (CountInv), and while anyone waits there are no more *)
(* units in the pool than pushes yet to notify and waiters on their way    *)
(* out (EnoughInv).                                                        *)
(***************************************************************************)
EXTENDS PoolWake, FiniteSetTheorems, TLAPS

USE Zenon

\* Who may wait with pop_timedwait: any number on a list pool, the one consumer
\* of an MPSC pool; a user pool brings its own p_pop_timedwait.
Served == \/ kind = "list"
          \/ kind = "mpsc" /\ \A v \in Poppers : \A w \in Poppers : v = w
          \/ kind = "user" /\ Poppers = {}

Uncounted == {"link", "count"}
Pushing == {"link", "count", "waiters", "notify"}
Waiting == {"recheck", "wait", "unregister"}
Leaving == {"wait", "unregister", "last_pop"}
Masked == {"sleep", "look", "park", "pop_again", "uncount_asleep", "unmask"}
Sleeping == {"look", "park", "pop_again", "uncount_asleep", "unmask", "unsleep"}
Holding == {"uncount", "uncount_asleep"}

UnitPCs == {"out", "link", "count", "waiters", "notify", "sleepers", "mask", "bits"}
PopperPCs == {"out", "uncount", "register", "recheck", "wait", "unregister", "last_pop"}
PEPCs == {"out", "uncount", "uncount_asleep", "mask", "sleep", "look", "park", "pop_again",
          "unmask", "unsleep"}

\* Those of X that are somewhere in L, and how many.
Where(X, L) == {x \in X : pc[x] \in L}
Num(X, L) == Cardinality(Where(X, L))

\* The units that are in the pool or in the hand of a pop.
Present == {u \in Units : Queued(u) \/ \E c \in Consumers : hand[c] = u}

\* The types, and where each kind of process can be.
ShapeInv ==
  /\ Served /\ kind \in {"list", "mpsc", "user"}
  /\ queue \in Seq(Units) /\ hand \in [Consumers -> Units \cup {None}]
  /\ count \in Int /\ waiters \in Int /\ nsleepers \in Int
  /\ wm \in Poppers \cup {None} /\ cv \subseteq Poppers
  /\ smask \subseteq PEs /\ notified \subseteq PEs /\ todo \in [Units -> SUBSET PEs]
  /\ pc \in [Units \cup Consumers -> UnitPCs \cup PopperPCs \cup PEPCs]
  /\ \A u \in Units : pc[u] \in UnitPCs
  /\ \A w \in Poppers : pc[w] \in PopperPCs
  /\ \A r \in PEs : pc[r] \in PEPCs
  /\ kind # "mpsc" => \A u \in Units : pc[u] # "link"
  /\ kind = "user" => \A u \in Units : pc[u] # "count"

\* A unit is in one place; a hand is full until its pop is counted.
OnceInv ==
  /\ \A i \in 1..Len(queue) : \A j \in 1..Len(queue) : queue[i] = queue[j] => i = j
  /\ \A c \in Consumers : \A i \in 1..Len(queue) : hand[c] # queue[i]
  /\ \A c \in Consumers : \A d \in Consumers : hand[c] = hand[d] /\ hand[c] # None => c = d
  /\ \A c \in Consumers : hand[c] # None <=> pc[c] \in Holding
  /\ Len(queue) + Num(Consumers, Holding) = Cardinality(Present)

\* The count of a built-in pool.
CountInv ==
  /\ kind = "user" => count = 0
  /\ kind # "user" => count + Num(Units, Uncounted) = Len(queue) + Num(Consumers, Holding)

\* wm is held by whom it says; who is on cv waits; the counter is exact.
WaitInv ==
  /\ \A w \in Poppers : pc[w] \in {"recheck", "unregister"} <=> wm = w
  /\ \A w \in cv : pc[w] = "wait"
  /\ waiters = Num(Poppers, Waiting)

\* The sleepers' mask and counter are exact.
SleepInv == smask = Where(PEs, Masked) /\ nsleepers = Num(PEs, Sleeping)

\* While anyone waits, the units in the pool are no more than the pushes yet to
\* notify and those who leave the wait without being on cv any more.
EnoughInv ==
  cv # {} => Len(queue) + Cardinality(cv) <= Num(Units, Pushing) + Num(Poppers, Leaving)

WakeIInv == /\ ShapeInv
            /\ OnceInv
            /\ CountInv
            /\ WaitInv
            /\ SleepInv
            /\ NoSleeperMissed
            /\ EnoughInv

-----------------------------------------------------------------------------
\* Counting who is where.

LEMMA Finite ==
  /\ IsFiniteSet(Units) /\ IsFiniteSet(Poppers) /\ IsFiniteSet(PEs) /\ IsFiniteSet(Consumers)
  /\ Poppers \subseteq Consumers /\ PEs \subseteq Consumers
BY PoolWakeAssumption, FS_Union DEF Consumers

LEMMA NumFacts ==
  ASSUME NEW X, IsFiniteSet(X), NEW L
  PROVE  Num(X, L) \in Nat /\ IsFiniteSet(Where(X, L))
<1>1. Where(X, L) \subseteq X
  BY DEF Where
<1> QED
  BY <1>1, FS_Subset, FS_CardinalityType DEF Num

LEMMA NumSame ==
  ASSUME NEW X, NEW L, \A x \in X : pc'[x] \in L <=> pc[x] \in L
  PROVE  Where(X, L)' = Where(X, L) /\ Num(X, L)' = Num(X, L)
<1>1. Where(X, L)' = Where(X, L)
  BY DEF Where
<1> QED
  BY <1>1 DEF Num

LEMMA NumUp ==
  ASSUME NEW X, IsFiniteSet(X), NEW L, NEW x \in X, pc[x] \notin L, pc'[x] \in L,
         \A y \in X : y # x => pc'[y] = pc[y]
  PROVE  Num(X, L)' = Num(X, L) + 1
<1>1. Where(X, L)' = Where(X, L) \cup {x} /\ x \notin Where(X, L)
  BY DEF Where
<1>2. IsFiniteSet(Where(X, L))
  BY NumFacts
<1>3. Cardinality(Where(X, L) \cup {x}) = Cardinality(Where(X, L)) + 1
  BY <1>1, <1>2, FS_AddElement
<1> QED
  BY <1>1, <1>3 DEF Num

LEMMA NumDown ==
  ASSUME NEW X, IsFiniteSet(X), NEW L, NEW x \in X, pc[x] \in L, pc'[x] \notin L,
         \A y \in X : y # x => pc'[y] = pc[y]
  PROVE  Num(X, L)' = Num(X, L) - 1
<1>1. Where(X, L)' = Where(X, L) \ {x} /\ x \in Where(X, L)
  BY DEF Where
<1>2. IsFiniteSet(Where(X, L))
  BY NumFacts
<1>3. Cardinality(Where(X, L) \ {x}) = Cardinality(Where(X, L)) - 1
  BY <1>1, <1>2, FS_RemoveElement
<1> QED
  BY <1>1, <1>3 DEF Num

LEMMA NumPositive ==
  ASSUME NEW X, IsFiniteSet(X), NEW L
  PROVE  Num(X, L) > 0 <=> \E x \in X : pc[x] \in L
<1>1. IsFiniteSet(Where(X, L)) /\ Num(X, L) \in Nat
  BY NumFacts
<1>2. Num(X, L) = 0 <=> Where(X, L) = {}
  BY <1>1, FS_EmptySet DEF Num
<1>3. Where(X, L) = {} <=> ~\E x \in X : pc[x] \in L
  BY DEF Where
<1> QED
  BY <1>1, <1>2, <1>3, SMTT(30)

\* Where a step takes x.
LEMMA GotoFacts ==
  ASSUME ShapeInv, NEW x \in Units \cup Consumers, NEW l, Goto(x, l)
  PROVE  pc'[x] = l /\ \A y \in Units \cup Consumers : y # x => pc'[y] = pc[y]
BY DEF ShapeInv, Goto

-----------------------------------------------------------------------------
\* What keeps each part of the invariant.

LEMMA OnceFrame ==
  ASSUME OnceInv, queue' = queue, hand' = hand,
         \A c \in Consumers : pc'[c] \in Holding <=> pc[c] \in Holding
  PROVE  OnceInv'
<1>1. Num(Consumers, Holding)' = Num(Consumers, Holding)
  BY NumSame
<1>2. Present' = Present
  BY DEF Present, Queued
<1>3. Len(queue') + Num(Consumers, Holding)' = Cardinality(Present')
  BY <1>1, <1>2 DEF OnceInv
<1>4. \A c \in Consumers : hand'[c] # None <=> pc'[c] \in Holding
  BY DEF OnceInv
<1> QED
  BY <1>3, <1>4 DEF OnceInv

LEMMA CountFrame ==
  ASSUME CountInv, kind' = kind, count' = count, queue' = queue,
         \A u \in Units : pc'[u] \in Uncounted <=> pc[u] \in Uncounted,
         \A c \in Consumers : pc'[c] \in Holding <=> pc[c] \in Holding
  PROVE  CountInv'
<1>1. Num(Consumers, Holding)' = Num(Consumers, Holding)
  BY NumSame
<1>2. Num(Units, Uncounted)' = Num(Units, Uncounted)
  BY NumSame
<1> QED
  BY <1>1, <1>2 DEF CountInv

LEMMA WaitFrame ==
  ASSUME WaitInv, cv' \subseteq cv, wm' = wm, waiters' = waiters, cv \subseteq Poppers,
         \A w \in Poppers : \A l \in Waiting : pc'[w] = l <=> pc[w] = l
  PROVE  WaitInv'
<1>1. \A w \in Poppers : pc'[w] \in Waiting <=> pc[w] \in Waiting
  BY DEF Waiting
<1>2. Num(Poppers, Waiting)' = Num(Poppers, Waiting)
  BY <1>1, NumSame
<1>3. \A w \in Poppers : pc'[w] \in {"recheck", "unregister"} <=> pc[w] \in {"recheck", "unregister"}
  BY DEF Waiting
<1>4. \A w \in cv' : pc'[w] = "wait"
  BY DEF Waiting, WaitInv
<1> QED
  BY <1>2, <1>3, <1>4 DEF WaitInv

LEMMA SleepFrame ==
  ASSUME SleepInv, smask' = smask, nsleepers' = nsleepers,
         \A r \in PEs : pc'[r] \in Masked <=> pc[r] \in Masked,
         \A r \in PEs : pc'[r] \in Sleeping <=> pc[r] \in Sleeping
  PROVE  SleepInv'
<1>1. Where(PEs, Masked)' = Where(PEs, Masked)
  BY NumSame
<1>2. Num(PEs, Sleeping)' = Num(PEs, Sleeping)
  BY NumSame
<1> QED
  BY <1>1, <1>2 DEF SleepInv

LEMMA MissedFrame ==
  ASSUME NoSleeperMissed, todo' = todo, notified \subseteq notified',
         queue' # <<>> => queue # <<>>,
         \A u \in Units : pc'[u] = pc[u],
         \A r \in PEs : pc'[r] = "park" => pc[r] = "park"
  PROVE  NoSleeperMissed'
BY DEF NoSleeperMissed

LEMMA EnoughFrame ==
  ASSUME EnoughInv, ShapeInv, cv' = cv, Len(queue') \in Nat, Len(queue') <= Len(queue),
         \A u \in Units : pc'[u] \in Pushing <=> pc[u] \in Pushing,
         \A w \in Poppers : pc'[w] \in Leaving <=> pc[w] \in Leaving
  PROVE  EnoughInv'
<1>1. Num(Units, Pushing)' = Num(Units, Pushing)
  BY NumSame
<1>2. Num(Poppers, Leaving)' = Num(Poppers, Leaving)
  BY NumSame
<1>3. Num(Units, Pushing) \in Nat /\ Num(Poppers, Leaving) \in Nat
  BY NumFacts, Finite
<1>4. IsFiniteSet(cv) /\ Cardinality(cv) \in Nat
  BY Finite, FS_Subset, FS_CardinalityType DEF ShapeInv
<1>5. Len(queue) \in Nat
  BY SMTT(30) DEF ShapeInv
<1>6. CASE cv # {}
  <2>1. Len(queue) + Cardinality(cv) <= Num(Units, Pushing) + Num(Poppers, Leaving)
    BY <1>6 DEF EnoughInv
  <2>2. Len(queue') + Cardinality(cv') <= Num(Units, Pushing)' + Num(Poppers, Leaving)'
    BY <1>1, <1>2, <1>3, <1>4, <1>5, <2>1, SMTT(30)
  <2> QED
    BY <2>2 DEF EnoughInv
<1> QED
  BY <1>6 DEF EnoughInv

-----------------------------------------------------------------------------
\* The steps of a push.

\* What a step of a push that leaves the queue alone does not disturb.
LEMMA UnitFrame ==
  ASSUME WakeIInv, NEW u \in Units, NEW l \in UnitPCs, Goto(u, l),
         UNCHANGED <<kind, queue, hand, waiters, wm, smask, nsleepers>>, cv' \subseteq cv
  PROVE  /\ pc'[u] = l /\ \A v \in Units : v # u => pc'[v] = pc[v]
         /\ \A c \in Consumers : pc'[c] = pc[c]
         /\ pc' \in [Units \cup Consumers -> UnitPCs \cup PopperPCs \cup PEPCs]
         /\ OnceInv' /\ WaitInv' /\ SleepInv'
<1>1. ShapeInv /\ OnceInv /\ WaitInv /\ SleepInv
  BY DEF WakeIInv
<1>2. pc'[u] = l /\ \A v \in Units : v # u => pc'[v] = pc[v]
  BY <1>1, GotoFacts
<1>3. \A c \in Consumers : pc'[c] = pc[c]
  BY <1>1, GotoFacts, PoolWakeAssumption
<1>4. pc' \in [Units \cup Consumers -> UnitPCs \cup PopperPCs \cup PEPCs]
  BY <1>1 DEF ShapeInv, Goto
<1>5. OnceInv'
  BY <1>1, <1>3, OnceFrame
<1>6. WaitInv'
  BY <1>1, <1>3, Finite, WaitFrame DEF ShapeInv
<1>7. SleepInv'
  BY <1>1, <1>3, Finite, SleepFrame
<1> QED
  BY <1>2, <1>3, <1>4, <1>5, <1>6, <1>7

\* ShapeInv after such a step.
LEMMA UnitShape ==
  ASSUME ShapeInv, NEW u \in Units, NEW l \in UnitPCs,
         pc'[u] = l, \A v \in Units : v # u => pc'[v] = pc[v],
         \A c \in Consumers : pc'[c] = pc[c],
         pc' \in [Units \cup Consumers -> UnitPCs \cup PopperPCs \cup PEPCs],
         UNCHANGED <<kind, hand, waiters, wm, smask, nsleepers>>, cv' \subseteq cv,
         queue' \in Seq(Units), count' \in Int,
         notified' \subseteq PEs, todo' \in [Units -> SUBSET PEs],
         l = "link" => kind = "mpsc", l = "count" => kind # "user"
  PROVE  ShapeInv'
<1>1. Served'
  BY DEF ShapeInv, Served
<1>2. /\ \A v \in Units : pc'[v] \in UnitPCs
      /\ kind' # "mpsc" => \A v \in Units : pc'[v] # "link"
      /\ kind' = "user" => \A v \in Units : pc'[v] # "count"
  BY DEF ShapeInv
<1>3. (\A w \in Poppers : pc'[w] \in PopperPCs) /\ (\A r \in PEs : pc'[r] \in PEPCs)
  BY Finite DEF ShapeInv
<1>4. cv' \subseteq Poppers
  BY DEF ShapeInv
<1>5. /\ kind' \in {"list", "mpsc", "user"}
      /\ hand' \in [Consumers -> Units \cup {None}]
      /\ waiters' \in Int /\ nsleepers' \in Int
      /\ wm' \in Poppers \cup {None} /\ smask' \subseteq PEs
  BY DEF ShapeInv
<1> QED
  BY <1>1, <1>2, <1>3, <1>4, <1>5 DEF ShapeInv

\* No step of a push makes a sleeper missed while the push is still to notify,
\* or has seen this sleeper in the mask.
LEMMA UnitMissed ==
  ASSUME NoSleeperMissed, NEW u \in Units,
         \A v \in Units : v # u => pc'[v] = pc[v] /\ todo'[v] = todo[v],
         \A c \in Consumers : pc'[c] = pc[c],
         queue' # <<>> => queue # <<>> \/ pc'[u] \in {"link", "count", "waiters"},
         notified \subseteq notified',
         \A r \in PEs : /\ pc[r] = "park" /\ r \notin notified'
                        /\ \/ pc[u] \in {"link", "count", "waiters", "notify", "sleepers", "mask"}
                           \/ pc[u] = "bits" /\ r \in todo[u]
                        => \/ pc'[u] \in {"link", "count", "waiters", "notify", "sleepers", "mask"}
                           \/ pc'[u] = "bits" /\ r \in todo'[u]
  PROVE  NoSleeperMissed'
<1> SUFFICES ASSUME NEW r \in PEs, pc'[r] = "park", r \notin notified', queue' # <<>>
             PROVE  \E v \in Units :
                      \/ pc'[v] \in {"link", "count", "waiters", "notify", "sleepers", "mask"}
                      \/ pc'[v] = "bits" /\ r \in todo'[v]
  BY DEF NoSleeperMissed
<1>1. CASE queue = <<>>
  BY <1>1
<1>2. CASE queue # <<>>
  <2>1. pc[r] = "park" /\ r \notin notified
    BY Finite
  <2>2. PICK v \in Units :
          \/ pc[v] \in {"link", "count", "waiters", "notify", "sleepers", "mask"}
          \/ pc[v] = "bits" /\ r \in todo[v]
    BY <1>2, <2>1 DEF NoSleeperMissed
  <2>3. CASE v = u
    BY <2>1, <2>2, <2>3
  <2>4. CASE v # u
    BY <2>2, <2>4
  <2> QED
    BY <2>3, <2>4
<1> QED
  BY <1>1, <1>2

LEMMA push_Preserves ==
  ASSUME WakeIInv, NEW u \in Units, push(u)
  PROVE  WakeIInv'
<1> DEFINE l == CASE kind = "mpsc" -> "link" [] kind = "list" -> "count" [] kind = "user" -> "waiters"
           n == Len(queue)
<1>1. /\ ShapeInv /\ OnceInv /\ CountInv /\ WaitInv /\ SleepInv /\ NoSleeperMissed /\ EnoughInv
      /\ pc[u] = "out" /\ ~Queued(u) /\ (\A c \in Consumers : hand[c] # u)
      /\ queue' = Append(queue, u) /\ Goto(u, l)
      /\ UNCHANGED <<kind, hand, count, waiters, wm, cv, smask, nsleepers, notified, todo>>
  BY DEF WakeIInv, push
<1>2. /\ \/ kind = "mpsc" /\ l = "link"
         \/ kind = "list" /\ l = "count"
         \/ kind = "user" /\ l = "waiters"
      /\ l \in UnitPCs
  BY <1>1 DEF ShapeInv, UnitPCs
<1>3. /\ pc'[u] = l /\ \A v \in Units : v # u => pc'[v] = pc[v]
      /\ \A c \in Consumers : pc'[c] = pc[c]
  <2>1. \A c \in Consumers : c # u
    BY PoolWakeAssumption
  <2> HIDE DEF l
  <2> QED
    BY <1>1, <2>1, GotoFacts
<1>4. pc' \in [Units \cup Consumers -> UnitPCs \cup PopperPCs \cup PEPCs]
  <2> HIDE DEF l
  <2> QED
    BY <1>1, <1>2 DEF ShapeInv, Goto
<1> HIDE DEF l
<1>5. /\ queue \in Seq(Units) /\ n \in Nat /\ queue' \in Seq(Units) /\ Len(queue') = n + 1
      /\ \A i \in 1..n : queue'[i] = queue[i]
      /\ queue'[n + 1] = u
  BY <1>1, SMTT(30) DEF ShapeInv
<1>6. ShapeInv'
  BY <1>1, <1>2, <1>3, <1>4, <1>5, UnitShape DEF ShapeInv
<1>7. \A i \in 1..n : queue[i] # u
  BY <1>1 DEF Queued
<1>8. OnceInv'
  <2>1. \A i \in 1..Len(queue') : \A j \in 1..Len(queue') : queue'[i] = queue'[j] => i = j
    <3>1. \A i \in 1..n + 1 : i \in 1..n \/ i = n + 1
      BY <1>5, SMTT(30)
    <3> QED
      BY <1>1, <1>5, <1>7, <3>1, SMTT(30) DEF OnceInv
  <2>2. \A c \in Consumers : \A i \in 1..Len(queue') : hand'[c] # queue'[i]
    <3>1. \A i \in 1..n + 1 : i \in 1..n \/ i = n + 1
      BY <1>5, SMTT(30)
    <3> QED
      BY <1>1, <1>5, <3>1, SMTT(30) DEF OnceInv
  <2>3. Num(Consumers, Holding)' = Num(Consumers, Holding) /\ Num(Consumers, Holding) \in Nat
    BY <1>3, NumSame, NumFacts, Finite
  <2>4. Present' = Present \cup {u}
    <3>1. \A v \in Units : Queued(v)' <=> Queued(v) \/ v = u
      <4>1. \A i \in 1..n + 1 : i \in 1..n \/ i = n + 1
        BY <1>5, SMTT(30)
      <4>2. 1..n \subseteq 1..n + 1 /\ n + 1 \in 1..n + 1
        BY <1>5, SMTT(30)
      <4> QED
        BY <1>5, <4>1, <4>2 DEF Queued
    <3> QED
      BY <1>1, <3>1 DEF Present
  <2>5. u \notin Present /\ IsFiniteSet(Present)
    <3>1. u \notin Present /\ Present \subseteq Units
      BY <1>1 DEF Present
    <3> QED
      BY <3>1, Finite, FS_Subset
  <2>6. Cardinality(Present') = Cardinality(Present) + 1
    BY <2>4, <2>5, FS_AddElement
  <2>7. Len(queue') + Num(Consumers, Holding)' = Cardinality(Present')
    <3>1. n + Num(Consumers, Holding) = Cardinality(Present)
      BY <1>1 DEF OnceInv
    <3>2. Cardinality(Present) \in Nat
      BY <2>5, FS_CardinalityType
    <3> QED
      BY <1>5, <2>3, <2>6, <3>1, <3>2, SMTT(30)
  <2>8. \A c \in Consumers : hand'[c] # None <=> pc'[c] \in Holding
    BY <1>1, <1>3 DEF OnceInv
  <2>9. \A c \in Consumers : \A d \in Consumers : hand'[c] = hand'[d] /\ hand'[c] # None => c = d
    BY <1>1 DEF OnceInv
  <2> QED
    BY <2>1, <2>2, <2>7, <2>8, <2>9 DEF OnceInv
<1>9. CountInv'
  <2>1. Num(Consumers, Holding)' = Num(Consumers, Holding) /\ Num(Consumers, Holding) \in Nat
    BY <1>3, NumSame, NumFacts, Finite
  <2>2. CASE kind = "user"
    BY <1>1, <2>2 DEF CountInv
  <2>3. CASE kind # "user"
    <3>1. pc[u] \notin Uncounted /\ pc'[u] \in Uncounted
      BY <1>1, <1>2, <1>3, <2>3 DEF Uncounted
    <3>2. Num(Units, Uncounted)' = Num(Units, Uncounted) + 1 /\ Num(Units, Uncounted) \in Nat
      BY <1>3, <3>1, NumUp, NumFacts, Finite
    <3>3. count + Num(Units, Uncounted) = n + Num(Consumers, Holding) /\ count \in Int
      BY <1>1, <2>3 DEF CountInv, ShapeInv
    <3>4. count' + Num(Units, Uncounted)' = Len(queue') + Num(Consumers, Holding)'
      BY <1>1, <1>5, <2>1, <3>2, <3>3, SMTT(30)
    <3> QED
      BY <1>1, <2>3, <3>4 DEF CountInv
  <2> QED
    BY <2>2, <2>3
<1>10. WaitInv'
  BY <1>1, <1>3, Finite, WaitFrame DEF ShapeInv
<1>11. SleepInv'
  BY <1>1, <1>3, Finite, SleepFrame
<1>12. NoSleeperMissed'
  <2>1. pc'[u] \in {"link", "count", "waiters"}
    BY <1>2, <1>3
  <2> QED
    BY <2>1 DEF NoSleeperMissed
<1>13. EnoughInv'
  <2>1. pc[u] \notin Pushing /\ pc'[u] \in Pushing
    BY <1>1, <1>2, <1>3 DEF Pushing
  <2>2. Num(Units, Pushing)' = Num(Units, Pushing) + 1 /\ Num(Units, Pushing) \in Nat
    BY <1>3, <2>1, NumUp, NumFacts, Finite
  <2>3. Num(Poppers, Leaving)' = Num(Poppers, Leaving) /\ Num(Poppers, Leaving) \in Nat
    BY <1>3, NumSame, NumFacts, Finite
  <2>4. Cardinality(cv) \in Nat
    BY <1>1, Finite, FS_Subset, FS_CardinalityType DEF ShapeInv
  <2>5. CASE cv # {}
    <3>1. n + Cardinality(cv) <= Num(Units, Pushing) + Num(Poppers, Leaving)
      BY <1>1, <2>5 DEF EnoughInv
    <3>2. Len(queue') + Cardinality(cv') <= Num(Units, Pushing)' + Num(Poppers, Leaving)'
      BY <1>1, <1>5, <2>2, <2>3, <2>4, <3>1, SMTT(30)
    <3> QED
      BY <3>2 DEF EnoughInv
  <2> QED
    BY <1>1, <2>5 DEF EnoughInv
<1> QED
  BY <1>6, <1>8, <1>9, <1>10, <1>11, <1>12, <1>13 DEF WakeIInv

LEMMA PushLinkPreserves ==
  ASSUME WakeIInv, NEW u \in Units, PushLink(u)
  PROVE  WakeIInv'
<1>1. /\ ShapeInv /\ OnceInv /\ CountInv /\ WaitInv /\ SleepInv /\ NoSleeperMissed /\ EnoughInv
      /\ pc[u] = "link" /\ Goto(u, "count")
      /\ UNCHANGED <<kind, queue, hand, count, waiters, wm, cv, smask, nsleepers, notified, todo>>
  BY DEF WakeIInv, PushLink
<1>2. "count" \in UnitPCs /\ kind = "mpsc"
  BY <1>1 DEF UnitPCs, ShapeInv
<1>3. /\ pc'[u] = "count" /\ \A v \in Units : v # u => pc'[v] = pc[v]
      /\ \A c \in Consumers : pc'[c] = pc[c]
      /\ pc' \in [Units \cup Consumers -> UnitPCs \cup PopperPCs \cup PEPCs]
      /\ OnceInv' /\ WaitInv' /\ SleepInv'
  BY <1>1, <1>2, UnitFrame
<1>4. ShapeInv'
  BY <1>1, <1>2, <1>3, UnitShape DEF ShapeInv
<1>5. CountInv'
  <2>1. \A v \in Units : pc'[v] \in Uncounted <=> pc[v] \in Uncounted
    BY <1>1, <1>3 DEF Uncounted
  <2> QED
    BY <1>1, <1>3, <2>1, CountFrame
<1>6. NoSleeperMissed'
  BY <1>1, <1>3, UnitMissed
<1>7. EnoughInv'
  <2>1. \A v \in Units : pc'[v] \in Pushing <=> pc[v] \in Pushing
    BY <1>1, <1>3 DEF Pushing
  <2> QED
    BY <1>1, <1>3, <2>1, Finite, EnoughFrame, SMTT(30) DEF ShapeInv
<1> QED
  BY <1>3, <1>4, <1>5, <1>6, <1>7 DEF WakeIInv

LEMMA PushCountPreserves ==
  ASSUME WakeIInv, NEW u \in Units, PushCount(u)
  PROVE  WakeIInv'
<1>1. /\ ShapeInv /\ OnceInv /\ CountInv /\ WaitInv /\ SleepInv /\ NoSleeperMissed /\ EnoughInv
      /\ pc[u] = "count" /\ Goto(u, "waiters") /\ count' = count + 1
      /\ UNCHANGED <<kind, hand, queue, waiters, wm, cv, smask, nsleepers, notified, todo>>
  BY DEF WakeIInv, PushCount
<1>2. "waiters" \in UnitPCs /\ kind # "user" /\ count \in Int /\ count' \in Int
  BY <1>1, SMTT(30) DEF UnitPCs, ShapeInv
<1>3. /\ pc'[u] = "waiters" /\ \A v \in Units : v # u => pc'[v] = pc[v]
      /\ \A c \in Consumers : pc'[c] = pc[c]
      /\ pc' \in [Units \cup Consumers -> UnitPCs \cup PopperPCs \cup PEPCs]
      /\ OnceInv' /\ WaitInv' /\ SleepInv'
  BY <1>1, <1>2, UnitFrame
<1>4. ShapeInv'
  BY <1>1, <1>2, <1>3, UnitShape DEF ShapeInv
<1>5. CountInv'
  <2>1. pc[u] \in Uncounted /\ pc'[u] \notin Uncounted
    BY <1>1, <1>3 DEF Uncounted
  <2>2. Num(Units, Uncounted)' = Num(Units, Uncounted) - 1 /\ Num(Units, Uncounted) \in Nat
    BY <1>3, <2>1, NumDown, NumFacts, Finite
  <2>3. Num(Consumers, Holding)' = Num(Consumers, Holding)
    BY <1>3, NumSame
  <2>4. count + Num(Units, Uncounted) = Len(queue) + Num(Consumers, Holding)
    BY <1>1, <1>2 DEF CountInv
  <2>5. count' + Num(Units, Uncounted)' = Len(queue') + Num(Consumers, Holding)'
    BY <1>1, <1>2, <2>2, <2>3, <2>4, SMTT(30)
  <2> QED
    BY <1>1, <1>2, <2>5 DEF CountInv
<1>6. NoSleeperMissed'
  BY <1>1, <1>3, UnitMissed
<1>7. EnoughInv'
  <2>1. \A v \in Units : pc'[v] \in Pushing <=> pc[v] \in Pushing
    BY <1>1, <1>3 DEF Pushing
  <2> QED
    BY <1>1, <1>3, <2>1, Finite, EnoughFrame, SMTT(30) DEF ShapeInv
<1> QED
  BY <1>3, <1>4, <1>5, <1>6, <1>7 DEF WakeIInv

\* Whoever is on cv is counted: the load of a push that follows sees it.
LEMMA WaitersSeen ==
  ASSUME WakeIInv, cv # {}
  PROVE  waiters > 0
<1>1. PICK w \in Poppers : w \in cv
  BY DEF WakeIInv, ShapeInv
<1>2. pc[w] \in Waiting
  BY <1>1 DEF WakeIInv, WaitInv, Waiting
<1>3. Num(Poppers, Waiting) > 0
  BY <1>2, Finite, NumPositive
<1> QED
  BY <1>3 DEF WakeIInv, WaitInv

\* Whoever sleeps is counted.
LEMMA SleepersSeen ==
  ASSUME WakeIInv, NEW r \in PEs, pc[r] = "park"
  PROVE  nsleepers > 0 /\ r \in smask
<1>1. pc[r] \in Sleeping /\ pc[r] \in Masked
  BY DEF Sleeping, Masked
<1>2. Num(PEs, Sleeping) > 0
  BY <1>1, Finite, NumPositive
<1>3. r \in Where(PEs, Masked)
  BY <1>1 DEF Where
<1> QED
  BY <1>2, <1>3 DEF WakeIInv, SleepInv

LEMMA LoadWaitersPreserves ==
  ASSUME WakeIInv, NEW u \in Units, LoadWaiters(u)
  PROVE  WakeIInv'
<1> DEFINE l == IF waiters > 0 THEN "notify" ELSE "sleepers"
<1>1. /\ ShapeInv /\ OnceInv /\ CountInv /\ WaitInv /\ SleepInv /\ NoSleeperMissed /\ EnoughInv
      /\ pc[u] = "waiters" /\ Goto(u, l)
      /\ UNCHANGED <<kind, queue, hand, count, waiters, wm, cv, smask, nsleepers, notified, todo>>
  BY DEF WakeIInv, LoadWaiters
<1>2. /\ l \in UnitPCs /\ l \in {"notify", "sleepers"}
      /\ cv # {} => l = "notify"
  BY WaitersSeen DEF UnitPCs
<1> HIDE DEF l
<1>3. /\ pc'[u] = l /\ \A v \in Units : v # u => pc'[v] = pc[v]
      /\ \A c \in Consumers : pc'[c] = pc[c]
      /\ pc' \in [Units \cup Consumers -> UnitPCs \cup PopperPCs \cup PEPCs]
      /\ OnceInv' /\ WaitInv' /\ SleepInv'
  BY <1>1, <1>2, UnitFrame
<1>4. ShapeInv'
  BY <1>1, <1>2, <1>3, UnitShape DEF ShapeInv
<1>5. CountInv'
  <2>1. \A v \in Units : pc'[v] \in Uncounted <=> pc[v] \in Uncounted
    BY <1>1, <1>2, <1>3 DEF Uncounted
  <2> QED
    BY <1>1, <1>3, <2>1, CountFrame
<1>6. NoSleeperMissed'
  <2>1. pc'[u] \in {"notify", "sleepers"}
    BY <1>2, <1>3
  <2> QED
    BY <1>1, <1>3, <2>1, UnitMissed
<1>7. EnoughInv'
  <2>1. CASE cv = {}
    BY <1>1, <2>1 DEF EnoughInv
  <2>2. CASE cv # {}
    <3>1. \A v \in Units : pc'[v] \in Pushing <=> pc[v] \in Pushing
      BY <1>1, <1>2, <1>3, <2>2 DEF Pushing
    <3> QED
      BY <1>1, <1>3, <3>1, Finite, EnoughFrame, SMTT(30) DEF ShapeInv
  <2> QED
    BY <2>1, <2>2
<1> QED
  BY <1>3, <1>4, <1>5, <1>6, <1>7 DEF WakeIInv

LEMMA NotifyOnePreserves ==
  ASSUME WakeIInv, NEW u \in Units, NotifyOne(u)
  PROVE  WakeIInv'
<1>1. /\ ShapeInv /\ OnceInv /\ CountInv /\ WaitInv /\ SleepInv /\ NoSleeperMissed /\ EnoughInv
      /\ pc[u] = "notify" /\ Goto(u, "sleepers")
      /\ IF cv = {} THEN cv' = cv ELSE \E w \in cv : cv' = cv \ {w}
      /\ UNCHANGED <<kind, hand, queue, count, waiters, wm, smask, nsleepers, notified, todo>>
  BY DEF WakeIInv, NotifyOne
<1>2. "sleepers" \in UnitPCs /\ cv' \subseteq cv
  BY <1>1 DEF UnitPCs
<1>3. /\ pc'[u] = "sleepers" /\ \A v \in Units : v # u => pc'[v] = pc[v]
      /\ \A c \in Consumers : pc'[c] = pc[c]
      /\ pc' \in [Units \cup Consumers -> UnitPCs \cup PopperPCs \cup PEPCs]
      /\ OnceInv' /\ WaitInv' /\ SleepInv'
  BY <1>1, <1>2, UnitFrame
<1>4. ShapeInv'
  BY <1>1, <1>2, <1>3, UnitShape DEF ShapeInv
<1>5. CountInv'
  <2>1. \A v \in Units : pc'[v] \in Uncounted <=> pc[v] \in Uncounted
    BY <1>1, <1>3 DEF Uncounted
  <2> QED
    BY <1>1, <1>3, <2>1, CountFrame
<1>6. NoSleeperMissed'
  BY <1>1, <1>3, UnitMissed
<1>7. EnoughInv'
  <2>1. pc[u] \in Pushing /\ pc'[u] \notin Pushing
    BY <1>1, <1>3 DEF Pushing
  <2>2. Num(Units, Pushing)' = Num(Units, Pushing) - 1 /\ Num(Units, Pushing) \in Nat
    BY <1>3, <2>1, NumDown, NumFacts, Finite
  <2>3. Num(Poppers, Leaving)' = Num(Poppers, Leaving) /\ Num(Poppers, Leaving) \in Nat
    BY <1>3, NumSame, NumFacts, Finite
  <2>4. CASE cv = {}
    BY <1>1, <2>4 DEF EnoughInv
  <2>5. CASE cv # {}
    <3>1. PICK w \in cv : cv' = cv \ {w}
      BY <1>1, <2>5
    <3>2. IsFiniteSet(cv) /\ Cardinality(cv) \in Nat
      BY <1>1, Finite, FS_Subset, FS_CardinalityType DEF ShapeInv
    <3>3. Cardinality(cv') = Cardinality(cv) - 1
      BY <3>1, <3>2, FS_RemoveElement
    <3>4. Len(queue) + Cardinality(cv) <= Num(Units, Pushing) + Num(Poppers, Leaving)
      BY <1>1, <2>5 DEF EnoughInv
    <3>5. Len(queue) \in Nat
      BY <1>1, SMTT(30) DEF ShapeInv
    <3>6. Len(queue') + Cardinality(cv') <= Num(Units, Pushing)' + Num(Poppers, Leaving)'
      BY <1>1, <2>2, <2>3, <3>2, <3>3, <3>4, <3>5, SMTT(30)
    <3> QED
      BY <3>6 DEF EnoughInv
  <2> QED
    BY <2>4, <2>5
<1> QED
  BY <1>3, <1>4, <1>5, <1>6, <1>7 DEF WakeIInv

\* The second half of wake_after_push, which waiters do not depend on.
LEMMA TellSleepersPreserves ==
  ASSUME WakeIInv, NEW u \in Units, LoadSleepers(u) \/ LoadMask(u) \/ IdleNotify(u)
  PROVE  WakeIInv'
<1>1. /\ ShapeInv /\ OnceInv /\ CountInv /\ WaitInv /\ SleepInv /\ NoSleeperMissed /\ EnoughInv
      /\ pc[u] \in {"sleepers", "mask", "bits"}
      /\ UNCHANGED <<kind, queue, hand, count, waiters, wm, cv, smask, nsleepers>>
  BY DEF WakeIInv, LoadSleepers, LoadMask, IdleNotify
<1>2. PICK l \in {"mask", "bits", "out"} : Goto(u, l)
  <2>1. CASE LoadSleepers(u)
    BY <2>1 DEF LoadSleepers
  <2>2. CASE LoadMask(u)
    BY <2>2 DEF LoadMask
  <2>3. CASE IdleNotify(u)
    <3>1. pc \in [Units \cup Consumers -> UnitPCs \cup PopperPCs \cup PEPCs]
      BY <1>1 DEF ShapeInv
    <3>2. pc' = pc /\ pc[u] = "bits" => Goto(u, "bits")
      BY <3>1 DEF Goto
    <3> QED
      BY <2>3, <3>2 DEF IdleNotify
  <2> QED
    BY <2>1, <2>2, <2>3
<1>3. l \in UnitPCs
  BY <1>2 DEF UnitPCs
<1>4. /\ pc'[u] = l /\ \A v \in Units : v # u => pc'[v] = pc[v]
      /\ \A c \in Consumers : pc'[c] = pc[c]
      /\ pc' \in [Units \cup Consumers -> UnitPCs \cup PopperPCs \cup PEPCs]
      /\ OnceInv' /\ WaitInv' /\ SleepInv'
  BY <1>1, <1>2, <1>3, UnitFrame
<1>5. /\ notified \subseteq notified' /\ notified' \subseteq PEs
      /\ todo' \in [Units -> SUBSET PEs]
      /\ \A v \in Units : v # u => todo'[v] = todo[v]
  BY <1>1, SMTT(30) DEF ShapeInv, LoadSleepers, LoadMask, IdleNotify
<1>6. ShapeInv'
  BY <1>1, <1>2, <1>3, <1>4, <1>5, UnitShape DEF ShapeInv
<1>7. CountInv'
  <2>1. \A v \in Units : pc'[v] \in Uncounted <=> pc[v] \in Uncounted
    BY <1>1, <1>2, <1>4 DEF Uncounted
  <2> QED
    BY <1>1, <1>4, <2>1, CountFrame
<1>8. NoSleeperMissed'
  <2>1. ASSUME NEW r \in PEs, pc[r] = "park", r \notin notified',
               pc[u] = "bits" => r \in todo[u]
        PROVE  pc'[u] = "mask" \/ (pc'[u] = "bits" /\ r \in todo'[u])
    <3>1. nsleepers > 0 /\ r \in smask /\ todo \in [Units -> SUBSET PEs]
      BY <1>1, <2>1, SleepersSeen DEF ShapeInv
    <3>2. CASE LoadSleepers(u)
      BY <1>1, <3>1, <3>2 DEF LoadSleepers, Goto, ShapeInv
    <3>3. CASE LoadMask(u)
      BY <1>1, <3>1, <3>3 DEF LoadMask, Goto, ShapeInv
    <3>4. CASE IdleNotify(u)
      BY <1>1, <2>1, <3>1, <3>4 DEF IdleNotify, Goto, ShapeInv
    <3> QED
      BY <3>2, <3>3, <3>4
  <2> QED
    BY <1>1, <1>4, <1>5, <2>1, UnitMissed
<1>9. EnoughInv'
  <2>1. \A v \in Units : pc'[v] \in Pushing <=> pc[v] \in Pushing
    BY <1>1, <1>2, <1>4 DEF Pushing
  <2> QED
    BY <1>1, <1>4, <2>1, Finite, EnoughFrame, SMTT(30) DEF ShapeInv
<1> QED
  BY <1>4, <1>6, <1>7, <1>8, <1>9 DEF WakeIInv

-----------------------------------------------------------------------------
\* The steps of the consumers.

\* A step of a consumer to l.
LEMMA ConsumerMoves ==
  ASSUME ShapeInv, NEW c \in Consumers, NEW l, Goto(c, l),
         c \in Poppers => l \in PopperPCs, c \in PEs => l \in PEPCs
  PROVE  /\ pc'[c] = l /\ \A d \in Consumers : d # c => pc'[d] = pc[d]
         /\ \A u \in Units : pc'[u] = pc[u]
         /\ pc' \in [Units \cup Consumers -> UnitPCs \cup PopperPCs \cup PEPCs]
         /\ \A w \in Poppers : pc'[w] \in PopperPCs
         /\ \A r \in PEs : pc'[r] \in PEPCs
<1>1. pc'[c] = l /\ \A y \in Units \cup Consumers : y # c => pc'[y] = pc[y]
  BY GotoFacts
<1>2. \A u \in Units : u # c
  BY PoolWakeAssumption
<1>3. l \in PopperPCs \cup PEPCs
  BY DEF Consumers
<1>4. pc' \in [Units \cup Consumers -> UnitPCs \cup PopperPCs \cup PEPCs]
  BY <1>3 DEF ShapeInv, Goto
<1>5. (\A w \in Poppers : pc'[w] \in PopperPCs) /\ (\A r \in PEs : pc'[r] \in PEPCs)
  BY <1>1, Finite DEF ShapeInv
<1> QED
  BY <1>1, <1>2, <1>4, <1>5

LEMMA ConsumerShape ==
  ASSUME ShapeInv, UNCHANGED <<kind, todo>>,
         \A u \in Units : pc'[u] = pc[u],
         pc' \in [Units \cup Consumers -> UnitPCs \cup PopperPCs \cup PEPCs],
         \A w \in Poppers : pc'[w] \in PopperPCs, \A r \in PEs : pc'[r] \in PEPCs,
         queue' \in Seq(Units), hand' \in [Consumers -> Units \cup {None}],
         count' \in Int, waiters' \in Int, nsleepers' \in Int,
         wm' \in Poppers \cup {None}, cv' \subseteq Poppers,
         smask' \subseteq PEs, notified' \subseteq PEs
  PROVE  ShapeInv'
<1>1. Served' /\ kind' \in {"list", "mpsc", "user"} /\ todo' \in [Units -> SUBSET PEs]
  BY DEF ShapeInv, Served
<1>2. /\ \A u \in Units : pc'[u] \in UnitPCs
      /\ kind' # "mpsc" => \A u \in Units : pc'[u] # "link"
      /\ kind' = "user" => \A u \in Units : pc'[u] # "count"
  BY DEF ShapeInv
<1> QED
  BY <1>1, <1>2 DEF ShapeInv

\* What a pop does, to the queue and the hand and to what they are accounted by.
LEMMA PopFacts ==
  ASSUME WakeIInv, NEW c \in Consumers, NEW found \in Holding, NEW empty, empty \notin Holding,
         pc[c] \notin Holding, pop(c, found, empty),
         c \in Poppers => {found, empty} \subseteq PopperPCs,
         c \in PEs => {found, empty} \subseteq PEPCs
  PROVE  /\ ShapeInv' /\ OnceInv' /\ CountInv'
         /\ \A d \in Consumers : d # c => pc'[d] = pc[d]
         /\ \A u \in Units : pc'[u] = pc[u]
         /\ Len(queue') \in Nat /\ Len(queue') <= Len(queue)
         /\ queue' # <<>> => queue # <<>>
         /\ \/ pc'[c] = found /\ Len(queue') = Len(queue) - 1
            \/ pc'[c] = empty /\ ~Poppable /\ queue' = queue
         /\ UNCHANGED <<kind, count, waiters, wm, cv, smask, nsleepers, notified, todo>>
<1> DEFINE n == Len(queue)
           h == Head(queue)
<1>1. /\ ShapeInv /\ OnceInv /\ CountInv
      /\ UNCHANGED <<kind, count, waiters, wm, cv, smask, nsleepers, notified, todo>>
      /\ IF Poppable
         THEN queue' = Tail(queue) /\ hand' = [hand EXCEPT ![c] = Head(queue)] /\ Goto(c, found)
         ELSE Goto(c, empty) /\ queue' = queue /\ hand' = hand
  BY DEF WakeIInv, pop
<1>2. /\ queue \in Seq(Units) /\ n \in Nat
      /\ hand \in [Consumers -> Units \cup {None}]
      /\ count \in Int /\ waiters \in Int /\ nsleepers \in Int
      /\ wm \in Poppers \cup {None} /\ cv \subseteq Poppers
      /\ smask \subseteq PEs /\ notified \subseteq PEs
  BY <1>1, SMTT(30) DEF ShapeInv
<1>3. CASE ~Poppable
  <2>1. Goto(c, empty) /\ queue' = queue /\ hand' = hand
    BY <1>1, <1>3
  <2>2. /\ pc'[c] = empty /\ \A d \in Consumers : d # c => pc'[d] = pc[d]
        /\ \A u \in Units : pc'[u] = pc[u]
        /\ pc' \in [Units \cup Consumers -> UnitPCs \cup PopperPCs \cup PEPCs]
        /\ \A w \in Poppers : pc'[w] \in PopperPCs
        /\ \A r \in PEs : pc'[r] \in PEPCs
    BY <1>1, <2>1, ConsumerMoves
  <2>3. ShapeInv'
    BY <1>1, <1>2, <2>1, <2>2, ConsumerShape
  <2>4. \A d \in Consumers : pc'[d] \in Holding <=> pc[d] \in Holding
    BY <2>2
  <2>5. OnceInv'
    BY <1>1, <2>1, <2>4, OnceFrame
  <2>6. CountInv'
    BY <1>1, <2>1, <2>2, <2>4, CountFrame
  <2>7. n <= n
    BY <1>2, SMTT(30)
  <2> QED
    BY <1>1, <1>2, <1>3, <2>1, <2>2, <2>3, <2>5, <2>6, <2>7
<1>4. CASE Poppable
  <2>1. /\ queue # <<>> /\ queue' = Tail(queue) /\ hand' = [hand EXCEPT ![c] = h] /\ Goto(c, found)
    BY <1>1, <1>4 DEF Poppable
  <2>2. /\ pc'[c] = found /\ \A d \in Consumers : d # c => pc'[d] = pc[d]
        /\ \A u \in Units : pc'[u] = pc[u]
        /\ pc' \in [Units \cup Consumers -> UnitPCs \cup PopperPCs \cup PEPCs]
        /\ \A w \in Poppers : pc'[w] \in PopperPCs
        /\ \A r \in PEs : pc'[r] \in PEPCs
    BY <1>1, <2>1, ConsumerMoves
  <2>3. /\ queue' \in Seq(Units) /\ Len(queue') = n - 1 /\ n - 1 \in Nat /\ n - 1 <= n
        /\ \A i \in 1..n - 1 : i + 1 \in 1..n /\ queue'[i] = queue[i + 1]
        /\ h \in Units /\ h = queue[1] /\ 1 \in 1..n
    BY <1>2, <2>1, SMTT(30)
  <2>4. /\ hand' \in [Consumers -> Units \cup {None}]
        /\ hand'[c] = h /\ \A d \in Consumers : d # c => hand'[d] = hand[d]
        /\ hand[c] = None /\ h # None
    BY <1>1, <1>2, <2>1, <2>3, PoolWakeAssumption, ZenonT(40) DEF OnceInv
  <2>5. ShapeInv'
    BY <1>1, <1>2, <2>2, <2>3, <2>4, ConsumerShape
  <2>6. /\ Num(Consumers, Holding)' = Num(Consumers, Holding) + 1
        /\ Num(Consumers, Holding) \in Nat
    BY <2>2, NumUp, NumFacts, Finite
  <2>7. OnceInv'
    <3>1. ASSUME NEW i \in 1..Len(queue'), NEW j \in 1..Len(queue'), queue'[i] = queue'[j]
          PROVE  i = j
      <4>1. i \in 1..n - 1 /\ j \in 1..n - 1
        BY <2>3
      <4>a. queue[i + 1] = queue[j + 1] /\ i + 1 \in 1..n /\ j + 1 \in 1..n
        BY <2>3, <3>1, <4>1
      <4>2. i + 1 = j + 1
        BY <1>1, <4>a DEF OnceInv
      <4> QED
        BY <4>1, <4>2, SMTT(30)
    <3>2. ASSUME NEW d \in Consumers, NEW i \in 1..Len(queue')
          PROVE  hand'[d] # queue'[i]
      <4>1. i \in 1..n - 1 /\ i + 1 \in 1..n /\ queue'[i] = queue[i + 1]
        BY <2>3
      <4>2. CASE d = c
        <5>1. i + 1 # 1
          BY <2>3, <4>1, SMTT(30)
        <5>2. queue[1] # queue[i + 1]
          BY <1>1, <2>3, <4>1, <5>1 DEF OnceInv
        <5> QED
          BY <2>3, <2>4, <4>1, <4>2, <5>2
      <4>3. CASE d # c
        <5>1. hand[d] # queue[i + 1]
          BY <1>1, <4>1 DEF OnceInv
        <5> QED
          BY <2>4, <4>1, <4>3, <5>1
      <4> QED
        BY <4>2, <4>3
    <3>3. ASSUME NEW d \in Consumers, NEW e \in Consumers, hand'[d] = hand'[e], hand'[d] # None
          PROVE  d = e
      <4>1. \A x \in Consumers : hand[x] # h
        BY <1>1, <2>3, SMTT(30) DEF OnceInv
      <4>2. hand[d] = hand[e] /\ hand[d] # None => d = e
        BY <1>1 DEF OnceInv
      <4> QED
        BY <2>4, <3>3, <4>1, <4>2
    <3>4. \A d \in Consumers : hand'[d] # None <=> pc'[d] \in Holding
      BY <1>1, <2>2, <2>4, ZenonT(40) DEF OnceInv
    <3>5. Present' = Present
      <4>1. ASSUME NEW u \in Units
            PROVE  Queued(u) <=> Queued(u)' \/ u = h
        <5>1. ASSUME NEW i \in 1..n, queue[i] = u
              PROVE  Queued(u)' \/ u = h
          <6>1. CASE i = 1
            BY <2>3, <5>1, <6>1
          <6>2. CASE i # 1
            <7>1. i - 1 \in 1..n - 1 /\ i - 1 + 1 = i
              BY <1>2, <6>2, SMTT(30)
            <7>2. i - 1 \in 1..Len(queue') /\ queue'[i - 1] = u
              BY <2>3, <5>1, <7>1
            <7> QED
              BY <7>2 DEF Queued
          <6> QED
            BY <6>1, <6>2
        <5>2. Queued(u)' => Queued(u)
          BY <2>3 DEF Queued
        <5>3. u = h => Queued(u)
          BY <2>3 DEF Queued
        <5> QED
          BY <5>1, <5>2, <5>3 DEF Queued
      <4>2. ASSUME NEW u \in Units
            PROVE  (\E d \in Consumers : hand'[d] = u) <=> (\E d \in Consumers : hand[d] = u) \/ u = h
        <5>1. hand[c] # u
          BY <2>4, PoolWakeAssumption
        <5> QED
          BY <2>4, <5>1
      <4>3. \A u \in Units : u \in Present' <=> u \in Present
        BY <4>1, <4>2 DEF Present
      <4> QED
        BY <4>3 DEF Present
    <3>6. Len(queue') + Num(Consumers, Holding)' = Cardinality(Present')
      <4>1. n + Num(Consumers, Holding) = Cardinality(Present)
        BY <1>1 DEF OnceInv
      <4>2. n - 1 + (Num(Consumers, Holding) + 1) = n + Num(Consumers, Holding)
        BY <1>2, <2>6, SMTT(30)
      <4> QED
        BY <2>3, <2>6, <3>5, <4>1, <4>2
    <3> QED
      BY <3>1, <3>2, <3>3, <3>4, <3>6 DEF OnceInv
  <2>8. CountInv'
    <3>1. Num(Units, Uncounted)' = Num(Units, Uncounted)
      BY <2>2, NumSame
    <3>2. n - 1 + (Num(Consumers, Holding) + 1) = n + Num(Consumers, Holding)
      BY <1>2, <2>6, SMTT(30)
    <3> QED
      BY <1>1, <2>3, <2>6, <3>1, <3>2 DEF CountInv
  <2> QED
    BY <1>1, <2>1, <2>2, <2>3, <2>5, <2>7, <2>8
<1> QED
  BY <1>3, <1>4

\* The processes that a step of c leaves where they are.
LEMMA Others ==
  ASSUME NEW c \in Consumers, \A d \in Consumers : d # c => pc'[d] = pc[d]
  PROVE  /\ c \in Poppers => \A r \in PEs : pc'[r] = pc[r]
         /\ c \in PEs => \A w \in Poppers : pc'[w] = pc[w]
         /\ \A w \in Poppers : w # c => pc'[w] = pc[w]
         /\ \A r \in PEs : r # c => pc'[r] = pc[r]
BY Finite, PoolWakeAssumption

\* A timed pop's first pop, and the pops of a PE before it sleeps or after.
LEMMA PlainPopPreserves ==
  ASSUME WakeIInv, NEW c \in Consumers,
         \/ c \in Poppers /\ pop_timedwait(c)
         \/ c \in PEs /\ (StackedPoll(c) \/ PopAgain(c))
  PROVE  WakeIInv'
<1>1. PICK found \in Holding, empty \in {"register", "mask", "unmask"} :
        /\ pop(c, found, empty)
        /\ \/ /\ c \in Poppers /\ pc[c] = "out" /\ found = "uncount" /\ empty = "register"
           \/ /\ c \in PEs /\ pc[c] = "out" /\ found = "uncount" /\ empty = "mask"
           \/ /\ c \in PEs /\ pc[c] = "pop_again" /\ found = "uncount_asleep" /\ empty = "unmask"
  BY DEF pop_timedwait, StackedPoll, PopAgain, Holding
<1>2. /\ empty \notin Holding /\ pc[c] \notin Holding
      /\ c \in Poppers => {found, empty} \subseteq PopperPCs
      /\ c \in PEs => {found, empty} \subseteq PEPCs
  BY <1>1, PoolWakeAssumption DEF Holding, PopperPCs, PEPCs
<1>3. /\ ShapeInv' /\ OnceInv' /\ CountInv'
      /\ \A d \in Consumers : d # c => pc'[d] = pc[d]
      /\ \A u \in Units : pc'[u] = pc[u]
      /\ Len(queue') \in Nat /\ Len(queue') <= Len(queue)
      /\ queue' # <<>> => queue # <<>>
      /\ pc'[c] \in {found, empty}
      /\ UNCHANGED <<kind, count, waiters, wm, cv, smask, nsleepers, notified, todo>>
  BY <1>1, <1>2, PopFacts
<1>4. /\ c \in Poppers => \A r \in PEs : pc'[r] = pc[r]
      /\ c \in PEs => \A w \in Poppers : pc'[w] = pc[w]
      /\ \A w \in Poppers : w # c => pc'[w] = pc[w]
      /\ \A r \in PEs : r # c => pc'[r] = pc[r]
  BY <1>3, Others
<1>5. ShapeInv /\ WaitInv /\ SleepInv /\ NoSleeperMissed /\ EnoughInv /\ cv \subseteq Poppers
  BY DEF WakeIInv, ShapeInv
<1>6. WaitInv'
  <2>1. \A w \in Poppers : \A l \in Waiting : pc'[w] = l <=> pc[w] = l
    BY <1>1, <1>3, <1>4 DEF Waiting
  <2> QED
    BY <1>3, <1>5, <2>1, WaitFrame
<1>7. SleepInv'
  <2>1. \A r \in PEs : pc'[r] \in Masked <=> pc[r] \in Masked
    BY <1>1, <1>3, <1>4 DEF Masked
  <2>2. \A r \in PEs : pc'[r] \in Sleeping <=> pc[r] \in Sleeping
    BY <1>1, <1>3, <1>4 DEF Sleeping
  <2> QED
    BY <1>3, <1>5, <2>1, <2>2, SleepFrame
<1>8. NoSleeperMissed'
  <2>1. \A r \in PEs : pc'[r] = "park" => pc[r] = "park"
    BY <1>1, <1>3, <1>4
  <2> QED
    BY <1>3, <1>5, <2>1, MissedFrame
<1>9. EnoughInv'
  <2>1. \A w \in Poppers : pc'[w] \in Leaving <=> pc[w] \in Leaving
    BY <1>1, <1>3, <1>4 DEF Leaving
  <2> QED
    BY <1>3, <1>5, <2>1, EnoughFrame
<1> QED
  BY <1>3, <1>6, <1>7, <1>8, <1>9 DEF WakeIInv

\* Those on cv are among those who wait.
LEMMA CvBound ==
  ASSUME ShapeInv, WaitInv
  PROVE  IsFiniteSet(cv) /\ Cardinality(cv) \in Nat /\ Cardinality(cv) <= Num(Poppers, Leaving)
<1>1. cv \subseteq Where(Poppers, Leaving)
  BY DEF ShapeInv, WaitInv, Where, Leaving
<1>2. IsFiniteSet(Where(Poppers, Leaving))
  BY Finite, NumFacts
<1> QED
  BY <1>1, <1>2, FS_Subset, FS_CardinalityType DEF Num

LEMMA CvBoundNext ==
  ASSUME ShapeInv', WaitInv'
  PROVE  /\ IsFiniteSet(cv') /\ Cardinality(cv') \in Nat
         /\ Cardinality(cv') <= Num(Poppers, Leaving)'
<1>1. cv' \subseteq Where(Poppers, Leaving)' /\ Where(Poppers, Leaving)' \subseteq Poppers
  BY DEF ShapeInv, WaitInv, Where, Leaving
<1>2. IsFiniteSet(Where(Poppers, Leaving)')
  BY <1>1, Finite, FS_Subset
<1> QED
  BY <1>1, <1>2, FS_Subset, FS_CardinalityType DEF Num

\* A timed pop on its way out takes the unit it stands for, or leaves an empty
\* pool behind.
LEMMA LastPopPreserves ==
  ASSUME WakeIInv, NEW w \in Poppers, LastPop(w)
  PROVE  WakeIInv'
<1> DEFINE n == Len(queue)
<1>1. pc[w] = "last_pop" /\ pop(w, "uncount", "out") /\ w \in Consumers
  BY Finite DEF LastPop
<1>2. /\ "uncount" \in Holding /\ "out" \notin Holding /\ pc[w] \notin Holding
      /\ {"uncount", "out"} \subseteq PopperPCs /\ w \notin PEs
  BY <1>1, PoolWakeAssumption DEF Holding, PopperPCs
<1>3. /\ ShapeInv' /\ OnceInv' /\ CountInv'
      /\ \A d \in Consumers : d # w => pc'[d] = pc[d]
      /\ \A u \in Units : pc'[u] = pc[u]
      /\ Len(queue') \in Nat /\ Len(queue') <= n
      /\ queue' # <<>> => queue # <<>>
      /\ \/ pc'[w] = "uncount" /\ Len(queue') = n - 1
         \/ pc'[w] = "out" /\ ~Poppable /\ queue' = queue
      /\ UNCHANGED <<kind, count, waiters, wm, cv, smask, nsleepers, notified, todo>>
  BY <1>1, <1>2, PopFacts
<1>4. /\ \A r \in PEs : pc'[r] = pc[r]
      /\ \A v \in Poppers : v # w => pc'[v] = pc[v]
  BY <1>1, <1>3, Others
<1>5. /\ ShapeInv /\ WaitInv /\ SleepInv /\ NoSleeperMissed /\ EnoughInv /\ cv \subseteq Poppers
      /\ n \in Nat /\ pc'[w] \in {"uncount", "out"}
  BY <1>3, SMTT(30) DEF WakeIInv, ShapeInv
<1>6. WaitInv'
  <2>1. \A v \in Poppers : \A l \in Waiting : pc'[v] = l <=> pc[v] = l
    BY <1>1, <1>4, <1>5 DEF Waiting
  <2> QED
    BY <1>3, <1>5, <2>1, WaitFrame
<1>7. SleepInv'
  BY <1>3, <1>4, <1>5, SleepFrame
<1>8. NoSleeperMissed'
  BY <1>3, <1>4, <1>5, MissedFrame
<1>9. EnoughInv'
  <2>1. pc[w] \in Leaving /\ pc'[w] \notin Leaving
    BY <1>1, <1>5 DEF Leaving
  <2>2. Num(Poppers, Leaving)' = Num(Poppers, Leaving) - 1 /\ Num(Poppers, Leaving) \in Nat
    BY <1>4, <2>1, NumDown, NumFacts, Finite
  <2>3. Num(Units, Pushing)' = Num(Units, Pushing) /\ Num(Units, Pushing) \in Nat
    BY <1>3, NumSame, NumFacts, Finite
  <2>4. CASE pc'[w] = "uncount" /\ Len(queue') = n - 1
    <3>1. Cardinality(cv) \in Nat
      BY <1>5, CvBound
    <3>2. CASE cv = {}
      BY <1>3, <3>2 DEF EnoughInv
    <3>3. CASE cv # {}
      <4>1. n + Cardinality(cv) <= Num(Units, Pushing) + Num(Poppers, Leaving)
        BY <1>5, <3>3 DEF EnoughInv
      <4>2. Len(queue') + Cardinality(cv') <= Num(Units, Pushing)' + Num(Poppers, Leaving)'
        BY <1>3, <1>5, <2>2, <2>3, <2>4, <3>1, <4>1, SMTT(30)
      <4> QED
        BY <4>2 DEF EnoughInv
    <3> QED
      BY <3>2, <3>3
  <2>5. CASE ~Poppable /\ queue' = queue
    <3>1. w \notin cv
      BY <1>1, <1>5 DEF WaitInv
    <3>2. CASE kind = "list"
      <4>1. queue = <<>>
        <5>1. \A i \in 1..n : queue[i] \in Units
          BY <1>5, SMTT(30) DEF ShapeInv
        <5> QED
          BY <1>5, <2>5, <3>2, <5>1 DEF Poppable, ShapeInv
      <4>2. Len(queue') = 0
        BY <2>5, <4>1
      <4>3. Cardinality(cv') \in Nat /\ Cardinality(cv') <= Num(Poppers, Leaving)'
        BY <1>3, <1>6, CvBoundNext
      <4>4. Len(queue') + Cardinality(cv') <= Num(Units, Pushing)' + Num(Poppers, Leaving)'
        BY <2>2, <2>3, <4>2, <4>3, SMTT(30)
      <4> QED
        BY <4>4 DEF EnoughInv
    <3>3. CASE kind # "list"
      <4>1. cv = {}
        BY <1>5, <3>1, <3>3 DEF ShapeInv, Served
      <4> QED
        BY <1>3, <4>1 DEF EnoughInv
    <3> QED
      BY <3>2, <3>3
  <2> QED
    BY <1>3, <2>4, <2>5
<1> QED
  BY <1>3, <1>6, <1>7, <1>8, <1>9 DEF WakeIInv

\* The end of a pop.
LEMMA UncountPreserves ==
  ASSUME WakeIInv, NEW c \in Consumers, Uncount(c)
  PROVE  WakeIInv'
<1> DEFINE u == hand[c]
<1>1. /\ ShapeInv /\ OnceInv /\ CountInv /\ WaitInv /\ SleepInv /\ NoSleeperMissed /\ EnoughInv
      /\ \/ pc[c] = "uncount" /\ Goto(c, "out")
         \/ pc[c] = "uncount_asleep" /\ Goto(c, "unmask")
      /\ hand' = [hand EXCEPT ![c] = None]
      /\ count' = IF kind = "user" THEN count ELSE count - 1
      /\ UNCHANGED <<kind, queue, waiters, wm, cv, smask, nsleepers, notified, todo>>
  BY SMTT(30) DEF WakeIInv, Uncount
<1>2. PICK l \in {"out", "unmask"} :
        /\ Goto(c, l)
        /\ \/ pc[c] = "uncount" /\ l = "out"
           \/ pc[c] = "uncount_asleep" /\ l = "unmask" /\ c \in PEs
  BY <1>1 DEF ShapeInv, PopperPCs, Consumers
<1>3. (c \in Poppers => l \in PopperPCs) /\ (c \in PEs => l \in PEPCs)
  BY <1>2, PoolWakeAssumption DEF PopperPCs, PEPCs
<1>4. /\ pc'[c] = l /\ \A d \in Consumers : d # c => pc'[d] = pc[d]
      /\ \A v \in Units : pc'[v] = pc[v]
      /\ pc' \in [Units \cup Consumers -> UnitPCs \cup PopperPCs \cup PEPCs]
      /\ \A w \in Poppers : pc'[w] \in PopperPCs
      /\ \A r \in PEs : pc'[r] \in PEPCs
  BY <1>1, <1>2, <1>3, ConsumerMoves
<1>5. /\ c \in Poppers => \A r \in PEs : pc'[r] = pc[r]
      /\ c \in PEs => \A w \in Poppers : pc'[w] = pc[w]
      /\ \A w \in Poppers : w # c => pc'[w] = pc[w]
      /\ \A r \in PEs : r # c => pc'[r] = pc[r]
  BY <1>4, Others
<1>6. /\ hand' \in [Consumers -> Units \cup {None}] /\ count \in Int /\ count' \in Int
      /\ hand'[c] = None /\ \A d \in Consumers : d # c => hand'[d] = hand[d]
  BY <1>1, SMTT(30) DEF ShapeInv
<1>7. ShapeInv'
  BY <1>1, <1>4, <1>6, ConsumerShape DEF ShapeInv
<1>8. pc[c] \in Holding /\ pc'[c] \notin Holding /\ u \in Units
  BY <1>1, <1>2, <1>4 DEF Holding, OnceInv, ShapeInv
<1>9. /\ Num(Consumers, Holding)' = Num(Consumers, Holding) - 1
      /\ Num(Consumers, Holding) \in Nat
  BY <1>4, <1>8, NumDown, NumFacts, Finite
<1>10. OnceInv'
  <2>1. Present' = Present \ {u} /\ u \in Present
    <3>1. u \in Present
      BY <1>8 DEF Present
    <3>2. ~Queued(u) /\ \A d \in Consumers : d # c => hand[d] # u
      BY <1>1, <1>8, PoolWakeAssumption DEF OnceInv, Queued
    <3>3. \A v \in Units : Queued(v)' <=> Queued(v)
      BY <1>1 DEF Queued
    <3>4. \A v \in Units : v \in Present' <=> v \in Present /\ v # u
      <4>1. ASSUME NEW v \in Units, NEW d \in Consumers, hand'[d] = v
            PROVE  hand[d] = v /\ v # u
        BY <1>6, <3>2, <4>1, PoolWakeAssumption
      <4>2. ASSUME NEW v \in Units, NEW d \in Consumers, hand[d] = v, v # u
            PROVE  hand'[d] = v
        BY <1>6, <4>2
      <4> QED
        BY <3>2, <3>3, <4>1, <4>2 DEF Present
    <3> QED
      BY <3>1, <3>4 DEF Present
  <2>2. IsFiniteSet(Present)
    <3>1. Present \subseteq Units
      BY DEF Present
    <3> QED
      BY <3>1, Finite, FS_Subset
  <2>3. Cardinality(Present') = Cardinality(Present) - 1
    BY <2>1, <2>2, FS_RemoveElement
  <2>4. Len(queue') + Num(Consumers, Holding)' = Cardinality(Present')
    <3>1. Len(queue) + Num(Consumers, Holding) = Cardinality(Present)
      BY <1>1 DEF OnceInv
    <3>2. Len(queue) \in Nat
      BY <1>1, SMTT(30) DEF ShapeInv
    <3> QED
      BY <1>1, <1>9, <2>3, <3>1, <3>2, SMTT(30)
  <2>5. \A d \in Consumers : hand'[d] # None <=> pc'[d] \in Holding
    BY <1>1, <1>4, <1>6, <1>8 DEF OnceInv
  <2>6. \A d \in Consumers : \A i \in 1..Len(queue') : hand'[d] # queue'[i]
    <3>1. \A i \in 1..Len(queue) : queue[i] # None
      BY <1>1, PoolWakeAssumption, SMTT(30) DEF ShapeInv
    <3> QED
      BY <1>1, <1>6, <3>1 DEF OnceInv
  <2>7. \A d \in Consumers : \A e \in Consumers : hand'[d] = hand'[e] /\ hand'[d] # None => d = e
    BY <1>1, <1>6 DEF OnceInv
  <2>8. \A i \in 1..Len(queue') : \A j \in 1..Len(queue') : queue'[i] = queue'[j] => i = j
    BY <1>1 DEF OnceInv
  <2> QED
    BY <2>4, <2>5, <2>6, <2>7, <2>8 DEF OnceInv
<1>11. CountInv'
  <2>1. Num(Units, Uncounted)' = Num(Units, Uncounted) /\ Num(Units, Uncounted) \in Nat
    BY <1>4, NumSame, NumFacts, Finite
  <2>2. Len(queue) \in Nat
    BY <1>1, SMTT(30) DEF ShapeInv
  <2>3. CASE kind = "user"
    BY <1>1, <2>3 DEF CountInv
  <2>4. CASE kind # "user"
    <3>1. count + Num(Units, Uncounted) = Len(queue) + Num(Consumers, Holding) /\ count' = count - 1
      BY <1>1, <2>4 DEF CountInv
    <3>2. count' + Num(Units, Uncounted)' = Len(queue') + Num(Consumers, Holding)'
      BY <1>1, <1>6, <1>9, <2>1, <2>2, <3>1, SMTT(30)
    <3> QED
      BY <1>1, <2>4, <3>2 DEF CountInv
  <2> QED
    BY <2>3, <2>4
<1>12. WaitInv'
  <2>1. \A w \in Poppers : \A k \in Waiting : pc'[w] = k <=> pc[w] = k
    BY <1>2, <1>4, <1>5 DEF Waiting
  <2> QED
    BY <1>1, <2>1, WaitFrame DEF ShapeInv
<1>13. SleepInv'
  <2>1. \A r \in PEs : pc'[r] \in Masked <=> pc[r] \in Masked
    BY <1>2, <1>4, <1>5 DEF Masked
  <2>2. \A r \in PEs : pc'[r] \in Sleeping <=> pc[r] \in Sleeping
    BY <1>2, <1>4, <1>5 DEF Sleeping
  <2> QED
    BY <1>1, <2>1, <2>2, SleepFrame
<1>14. NoSleeperMissed'
  <2>1. \A r \in PEs : pc'[r] = "park" => pc[r] = "park"
    BY <1>2, <1>4, <1>5
  <2> QED
    BY <1>1, <1>4, <2>1, MissedFrame
<1>15. EnoughInv'
  <2>1. \A w \in Poppers : pc'[w] \in Leaving <=> pc[w] \in Leaving
    BY <1>2, <1>4, <1>5 DEF Leaving
  <2> QED
    BY <1>1, <1>4, <2>1, EnoughFrame, SMTT(30) DEF ShapeInv
<1> QED
  BY <1>7, <1>10, <1>11, <1>12, <1>13, <1>14, <1>15 DEF WakeIInv

-----------------------------------------------------------------------------
\* The steps of pop_timedwait between its pops.

\* What they do not disturb.
LEMMA PopperFrame ==
  ASSUME WakeIInv, NEW w \in Poppers, NEW l \in PopperPCs \ Holding, pc[w] \notin Holding, Goto(w, l),
         UNCHANGED <<kind, queue, hand, count, smask, nsleepers, notified, todo>>
  PROVE  /\ pc'[w] = l /\ \A v \in Poppers : v # w => pc'[v] = pc[v]
         /\ \A u \in Units : pc'[u] = pc[u]
         /\ pc' \in [Units \cup Consumers -> UnitPCs \cup PopperPCs \cup PEPCs]
         /\ \A v \in Poppers : pc'[v] \in PopperPCs
         /\ \A r \in PEs : pc'[r] \in PEPCs
         /\ OnceInv' /\ CountInv' /\ SleepInv' /\ NoSleeperMissed'
<1>1. /\ ShapeInv /\ OnceInv /\ CountInv /\ SleepInv /\ NoSleeperMissed
      /\ w \in Consumers /\ w \notin PEs
  BY Finite, PoolWakeAssumption DEF WakeIInv
<1>2. /\ pc'[w] = l /\ \A d \in Consumers : d # w => pc'[d] = pc[d]
      /\ \A u \in Units : pc'[u] = pc[u]
      /\ pc' \in [Units \cup Consumers -> UnitPCs \cup PopperPCs \cup PEPCs]
      /\ \A v \in Poppers : pc'[v] \in PopperPCs
      /\ \A r \in PEs : pc'[r] \in PEPCs
  BY <1>1, ConsumerMoves
<1>3. /\ \A r \in PEs : pc'[r] = pc[r]
      /\ \A v \in Poppers : v # w => pc'[v] = pc[v]
  BY <1>1, <1>2, Others
<1>4. \A c \in Consumers : pc'[c] \in Holding <=> pc[c] \in Holding
  BY <1>2
<1>5. OnceInv'
  BY <1>1, <1>4, OnceFrame
<1>6. CountInv'
  BY <1>1, <1>2, <1>4, CountFrame
<1>7. SleepInv'
  BY <1>1, <1>3, SleepFrame
<1>8. NoSleeperMissed'
  BY <1>1, <1>2, <1>3, MissedFrame
<1> QED
  BY <1>2, <1>3, <1>5, <1>6, <1>7, <1>8

\* A built-in pool whose count is not positive has no more units than there are
\* pushes that have still to count theirs.
LEMMA LowCount ==
  ASSUME WakeIInv, kind # "user", count <= 0
  PROVE  /\ Len(queue) <= Num(Units, Pushing)
         /\ queue # <<>> => \E u \in Units : pc[u] \in Uncounted
<1>1. Num(Units, Uncounted) \in Nat /\ Num(Units, Pushing) \in Nat /\ Num(Consumers, Holding) \in Nat
  BY NumFacts, Finite
<1>2. Num(Units, Uncounted) <= Num(Units, Pushing)
  <2>1. Where(Units, Uncounted) \subseteq Where(Units, Pushing) /\ IsFiniteSet(Where(Units, Pushing))
    BY NumFacts, Finite DEF Where, Uncounted, Pushing
  <2> QED
    BY <2>1, FS_Subset DEF Num
<1>3. /\ count + Num(Units, Uncounted) = Len(queue) + Num(Consumers, Holding)
      /\ count \in Int /\ Len(queue) \in Nat /\ queue \in Seq(Units)
  BY SMTT(30) DEF WakeIInv, CountInv, ShapeInv
<1>4. Len(queue) <= Num(Units, Uncounted)
  BY <1>1, <1>3, SMTT(30)
<1>5. queue # <<>> => Num(Units, Uncounted) > 0
  BY <1>1, <1>3, <1>4, SMTT(30)
<1>6. Num(Units, Uncounted) > 0 => \E u \in Units : pc[u] \in Uncounted
  BY NumPositive, Finite
<1> QED
  BY <1>1, <1>2, <1>3, <1>4, <1>5, <1>6, SMTT(30)

\* Going to wait when the count is not positive leaves enough pushes.
LEMMA WaitsRightly ==
  ASSUME WakeIInv, kind # "user", count <= 0, queue' = queue, ShapeInv', WaitInv',
         \A u \in Units : pc'[u] = pc[u]
  PROVE  EnoughInv'
<1>1. Len(queue) <= Num(Units, Pushing) /\ Len(queue) \in Nat
  BY LowCount, SMTT(30) DEF WakeIInv, ShapeInv
<1>2. Num(Units, Pushing)' = Num(Units, Pushing) /\ Num(Units, Pushing) \in Nat
  BY NumSame, NumFacts, Finite
<1>3. Cardinality(cv') \in Nat /\ Cardinality(cv') <= Num(Poppers, Leaving)'
  BY CvBoundNext
<1>4. Num(Poppers, Leaving)' \in Nat
  <2>1. IsFiniteSet(Where(Poppers, Leaving)')
    <3>1. Where(Poppers, Leaving)' \subseteq Poppers
      BY DEF Where
    <3> QED
      BY <3>1, Finite, FS_Subset
  <2> QED
    BY <2>1, FS_CardinalityType DEF Num
<1>5. Len(queue') + Cardinality(cv') <= Num(Units, Pushing)' + Num(Poppers, Leaving)'
  BY <1>1, <1>2, <1>3, <1>4, SMTT(30)
<1> QED
  BY <1>5 DEF EnoughInv

LEMMA RegisterPreserves ==
  ASSUME WakeIInv, NEW w \in Poppers, Register(w)
  PROVE  WakeIInv'
<1>1. /\ ShapeInv /\ WaitInv /\ EnoughInv
      /\ pc[w] = "register" /\ wm = None /\ wm' = w /\ waiters' = waiters + 1 /\ Goto(w, "recheck")
      /\ UNCHANGED <<kind, hand, queue, count, cv, smask, nsleepers, notified, todo>>
  BY DEF WakeIInv, Register
<1>2. "recheck" \in PopperPCs \ Holding /\ pc[w] \notin Holding
  BY <1>1 DEF PopperPCs, Holding
<1>3. /\ pc'[w] = "recheck" /\ \A v \in Poppers : v # w => pc'[v] = pc[v]
      /\ \A u \in Units : pc'[u] = pc[u]
      /\ pc' \in [Units \cup Consumers -> UnitPCs \cup PopperPCs \cup PEPCs]
      /\ \A v \in Poppers : pc'[v] \in PopperPCs
      /\ \A r \in PEs : pc'[r] \in PEPCs
      /\ OnceInv' /\ CountInv' /\ SleepInv' /\ NoSleeperMissed'
  BY <1>1, <1>2, PopperFrame
<1>4. waiters \in Int /\ waiters' \in Int
  BY <1>1, SMTT(30) DEF ShapeInv
<1>5. ShapeInv'
  BY <1>1, <1>3, <1>4, ConsumerShape DEF ShapeInv
<1>6. WaitInv'
  <2>1. \A v \in Poppers : pc'[v] \in {"recheck", "unregister"} <=> wm' = v
    <3>1. None \notin Poppers
      BY PoolWakeAssumption DEF Consumers
    <3> QED
      BY <1>1, <1>3, <3>1 DEF WaitInv
  <2>2. \A v \in cv' : pc'[v] = "wait"
    BY <1>1, <1>3 DEF WaitInv, ShapeInv
  <2>3. pc[w] \notin Waiting /\ pc'[w] \in Waiting
    BY <1>1, <1>3 DEF Waiting
  <2>4. Num(Poppers, Waiting)' = Num(Poppers, Waiting) + 1
    BY <1>3, <2>3, NumUp, Finite
  <2> QED
    BY <1>1, <2>1, <2>2, <2>4 DEF WaitInv
<1>7. EnoughInv'
  <2>1. \A v \in Poppers : pc'[v] \in Leaving <=> pc[v] \in Leaving
    BY <1>1, <1>3 DEF Leaving
  <2> QED
    BY <1>1, <1>3, <2>1, EnoughFrame, SMTT(30) DEF ShapeInv
<1> QED
  BY <1>3, <1>5, <1>6, <1>7 DEF WakeIInv

LEMMA RecheckPreserves ==
  ASSUME WakeIInv, NEW w \in Poppers, Recheck(w)
  PROVE  WakeIInv'
<1>1. /\ ShapeInv /\ WaitInv /\ EnoughInv
      /\ pc[w] = "recheck" /\ wm = w /\ kind # "user"
      /\ IF count # 0 THEN Goto(w, "unregister") /\ wm' = wm /\ cv' = cv
         ELSE wm' = None /\ cv' = cv \cup {w} /\ Goto(w, "wait")
      /\ UNCHANGED <<kind, hand, queue, count, waiters, smask, nsleepers, notified, todo>>
  BY DEF WakeIInv, Recheck, ShapeInv, WaitInv, Served
<1>2. PICK l \in {"unregister", "wait"} : Goto(w, l) /\ (l = "wait" <=> count = 0)
  BY <1>1
<1>3. l \in PopperPCs \ Holding /\ pc[w] \notin Holding
  BY <1>1, <1>2 DEF PopperPCs, Holding
<1>4. /\ pc'[w] = l /\ \A v \in Poppers : v # w => pc'[v] = pc[v]
      /\ \A u \in Units : pc'[u] = pc[u]
      /\ pc' \in [Units \cup Consumers -> UnitPCs \cup PopperPCs \cup PEPCs]
      /\ \A v \in Poppers : pc'[v] \in PopperPCs
      /\ \A r \in PEs : pc'[r] \in PEPCs
      /\ OnceInv' /\ CountInv' /\ SleepInv' /\ NoSleeperMissed'
  BY <1>1, <1>2, <1>3, PopperFrame
<1>5. wm' \in Poppers \cup {None} /\ cv' \subseteq Poppers
  BY <1>1 DEF ShapeInv
<1>6. ShapeInv'
  BY <1>1, <1>4, <1>5, ConsumerShape DEF ShapeInv
<1>7. WaitInv'
  <2>1. \A v \in Poppers : pc'[v] \in {"recheck", "unregister"} <=> wm' = v
    <3>1. CASE count # 0
      BY <1>1, <1>2, <1>4, <3>1 DEF WaitInv
    <3>2. CASE count = 0
      <4>1. wm' = None /\ l = "wait" /\ None \notin Poppers
        BY <1>1, <1>2, <3>2, PoolWakeAssumption DEF Consumers
      <4> QED
        BY <1>1, <1>4, <4>1 DEF WaitInv
    <3> QED
      BY <3>1, <3>2
  <2>2. \A v \in cv' : pc'[v] = "wait"
    BY <1>1, <1>2, <1>4 DEF WaitInv, ShapeInv
  <2>3. \A v \in Poppers : pc'[v] \in Waiting <=> pc[v] \in Waiting
    BY <1>1, <1>2, <1>4 DEF Waiting
  <2>4. Num(Poppers, Waiting)' = Num(Poppers, Waiting)
    BY <2>3, NumSame
  <2> QED
    BY <1>1, <2>1, <2>2, <2>4 DEF WaitInv
<1>8. EnoughInv'
  <2>1. CASE count = 0
    BY <1>1, <1>4, <1>6, <1>7, <2>1, WaitsRightly, SMTT(30)
  <2>2. CASE count # 0
    <3>1. pc[w] \notin Leaving /\ pc'[w] \in Leaving /\ cv' = cv
      BY <1>1, <1>2, <1>4, <2>2 DEF Leaving
    <3>2. Num(Poppers, Leaving)' = Num(Poppers, Leaving) + 1 /\ Num(Poppers, Leaving) \in Nat
      BY <1>4, <3>1, NumUp, NumFacts, Finite
    <3>3. Num(Units, Pushing)' = Num(Units, Pushing) /\ Num(Units, Pushing) \in Nat
      BY <1>4, NumSame, NumFacts, Finite
    <3>4. Cardinality(cv) \in Nat /\ Len(queue) \in Nat
      BY <1>1, CvBound, SMTT(30) DEF ShapeInv
    <3>5. CASE cv # {}
      <4>1. Len(queue) + Cardinality(cv) <= Num(Units, Pushing) + Num(Poppers, Leaving)
        BY <1>1, <3>5 DEF EnoughInv
      <4>2. Len(queue') = Len(queue) /\ Cardinality(cv') = Cardinality(cv)
        BY <1>1, <3>1
      <4>3. Len(queue') + Cardinality(cv') <= Num(Units, Pushing)' + Num(Poppers, Leaving)'
        BY <3>2, <3>3, <3>4, <4>1, <4>2, SMTT(30)
      <4> QED
        BY <4>3 DEF EnoughInv
    <3> QED
      BY <3>1, <3>5 DEF EnoughInv
  <2> QED
    BY <2>1, <2>2
<1> QED
  BY <1>4, <1>6, <1>7, <1>8 DEF WakeIInv

\* A waiter has wm again, and goes on waiting, because the count is not positive.
LEMMA WaitsOnPreserves ==
  ASSUME WakeIInv, NEW w \in Poppers, pc[w] = "wait", kind # "user", count <= 0,
         cv' = cv \cup {w},
         UNCHANGED <<kind, hand, queue, count, waiters, smask, nsleepers, notified, todo, pc, wm>>
  PROVE  WakeIInv'
<1>1. ShapeInv /\ OnceInv /\ CountInv /\ WaitInv /\ SleepInv /\ NoSleeperMissed
  BY DEF WakeIInv
<1>2. cv' \subseteq Poppers
  BY <1>1 DEF ShapeInv
<1>3. ShapeInv'
  BY <1>1, <1>2, ConsumerShape DEF ShapeInv
<1>4. WaitInv'
  <2>1. Num(Poppers, Waiting)' = Num(Poppers, Waiting)
    BY NumSame
  <2>2. \A v \in cv' : pc'[v] = "wait"
    BY <1>1 DEF WaitInv
  <2> QED
    BY <1>1, <2>1, <2>2 DEF WaitInv
<1>5. OnceInv' /\ CountInv' /\ SleepInv' /\ NoSleeperMissed'
  BY <1>1, OnceFrame, CountFrame, SleepFrame, MissedFrame
<1>6. EnoughInv'
  BY <1>3, <1>4, WaitsRightly
<1> QED
  BY <1>3, <1>4, <1>5, <1>6 DEF WakeIInv

LEMMA WokenPreserves ==
  ASSUME WakeIInv, NEW w \in Poppers, CvWoken(w) \/ CvTimeout(w)
  PROVE  WakeIInv'
<1>1. /\ ShapeInv /\ WaitInv /\ EnoughInv
      /\ pc[w] = "wait" /\ wm = None /\ kind # "user"
      /\ UNCHANGED <<kind, hand, queue, count, waiters, smask, nsleepers, notified, todo>>
  BY DEF WakeIInv, CvWoken, CvTimeout, ShapeInv, Served
<1>2. \/ count <= 0 /\ cv' = cv \cup {w} /\ pc' = pc /\ wm' = wm
      \/ cv' = cv \ {w} /\ wm' = w /\ Goto(w, "unregister")
  <2>1. CASE CvWoken(w)
    BY <1>1, <2>1 DEF CvWoken
  <2>2. CASE CvTimeout(w)
    BY <2>2 DEF CvTimeout
  <2> QED
    BY <2>1, <2>2
<1>3. CASE count <= 0 /\ cv' = cv \cup {w} /\ pc' = pc /\ wm' = wm
  BY <1>1, <1>3, WaitsOnPreserves
<1>4. CASE cv' = cv \ {w} /\ wm' = w /\ Goto(w, "unregister")
  <2>1. "unregister" \in PopperPCs \ Holding /\ pc[w] \notin Holding
    BY <1>1 DEF PopperPCs, Holding
  <2>2. /\ pc'[w] = "unregister" /\ \A v \in Poppers : v # w => pc'[v] = pc[v]
        /\ \A u \in Units : pc'[u] = pc[u]
        /\ pc' \in [Units \cup Consumers -> UnitPCs \cup PopperPCs \cup PEPCs]
        /\ \A v \in Poppers : pc'[v] \in PopperPCs
        /\ \A r \in PEs : pc'[r] \in PEPCs
        /\ OnceInv' /\ CountInv' /\ SleepInv' /\ NoSleeperMissed'
    BY <1>1, <1>4, <2>1, PopperFrame
  <2>3. cv' \subseteq Poppers /\ cv' \subseteq cv /\ w \notin cv'
    BY <1>1, <1>4 DEF ShapeInv
  <2>4. ShapeInv'
    BY <1>1, <1>4, <2>2, <2>3, ConsumerShape DEF ShapeInv
  <2>5. WaitInv'
    <3>1. \A v \in Poppers : pc'[v] \in {"recheck", "unregister"} <=> wm' = v
      BY <1>1, <1>4, <2>2, PoolWakeAssumption DEF WaitInv, Consumers
    <3>2. \A v \in cv' : pc'[v] = "wait"
      BY <1>1, <2>2, <2>3 DEF WaitInv, ShapeInv
    <3>3. \A v \in Poppers : pc'[v] \in Waiting <=> pc[v] \in Waiting
      BY <1>1, <2>2 DEF Waiting
    <3>4. Num(Poppers, Waiting)' = Num(Poppers, Waiting)
      BY <3>3, NumSame
    <3> QED
      BY <1>1, <3>1, <3>2, <3>4 DEF WaitInv
  <2>6. EnoughInv'
    <3>1. \A v \in Poppers : pc'[v] \in Leaving <=> pc[v] \in Leaving
      BY <1>1, <2>2 DEF Leaving
    <3>2. Num(Poppers, Leaving)' = Num(Poppers, Leaving) /\ Num(Poppers, Leaving) \in Nat
      BY <3>1, NumSame, NumFacts, Finite
    <3>3. Num(Units, Pushing)' = Num(Units, Pushing) /\ Num(Units, Pushing) \in Nat
      BY <2>2, NumSame, NumFacts, Finite
    <3>4. IsFiniteSet(cv) /\ Cardinality(cv) \in Nat /\ Len(queue) \in Nat
      BY <1>1, CvBound, SMTT(30) DEF ShapeInv
    <3>5. Cardinality(cv') \in Nat /\ Cardinality(cv') <= Cardinality(cv)
      BY <2>3, <3>4, FS_Subset, FS_CardinalityType
    <3>6. CASE cv' # {}
      <4>1. cv # {}
        BY <2>3, <3>6
      <4>2. Len(queue) + Cardinality(cv) <= Num(Units, Pushing) + Num(Poppers, Leaving)
        BY <1>1, <4>1 DEF EnoughInv
      <4>3. Len(queue') + Cardinality(cv') <= Num(Units, Pushing)' + Num(Poppers, Leaving)'
        BY <1>1, <3>2, <3>3, <3>4, <3>5, <4>2, SMTT(30)
      <4> QED
        BY <4>3 DEF EnoughInv
    <3> QED
      BY <3>6 DEF EnoughInv
  <2> QED
    BY <2>2, <2>4, <2>5, <2>6 DEF WakeIInv
<1> QED
  BY <1>2, <1>3, <1>4

LEMMA UnregisterPreserves ==
  ASSUME WakeIInv, NEW w \in Poppers, Unregister(w)
  PROVE  WakeIInv'
<1>1. /\ ShapeInv /\ WaitInv /\ EnoughInv
      /\ pc[w] = "unregister" /\ wm' = None /\ waiters' = waiters - 1 /\ Goto(w, "last_pop")
      /\ UNCHANGED <<kind, hand, queue, count, cv, smask, nsleepers, notified, todo>>
  BY DEF WakeIInv, Unregister
<1>2. "last_pop" \in PopperPCs \ Holding /\ pc[w] \notin Holding
  BY <1>1 DEF PopperPCs, Holding
<1>3. /\ pc'[w] = "last_pop" /\ \A v \in Poppers : v # w => pc'[v] = pc[v]
      /\ \A u \in Units : pc'[u] = pc[u]
      /\ pc' \in [Units \cup Consumers -> UnitPCs \cup PopperPCs \cup PEPCs]
      /\ \A v \in Poppers : pc'[v] \in PopperPCs
      /\ \A r \in PEs : pc'[r] \in PEPCs
      /\ OnceInv' /\ CountInv' /\ SleepInv' /\ NoSleeperMissed'
  BY <1>1, <1>2, PopperFrame
<1>4. waiters \in Int /\ waiters' \in Int
  BY <1>1, SMTT(30) DEF ShapeInv
<1>5. ShapeInv'
  BY <1>1, <1>3, <1>4, ConsumerShape DEF ShapeInv
<1>6. WaitInv'
  <2>1. \A v \in Poppers : pc'[v] \in {"recheck", "unregister"} <=> wm' = v
    <3>1. wm = w /\ None \notin Poppers
      BY <1>1, PoolWakeAssumption DEF WaitInv, Consumers
    <3> QED
      BY <1>1, <1>3, <3>1 DEF WaitInv
  <2>2. \A v \in cv' : pc'[v] = "wait"
    BY <1>1, <1>3 DEF WaitInv, ShapeInv
  <2>3. pc[w] \in Waiting /\ pc'[w] \notin Waiting
    BY <1>1, <1>3 DEF Waiting
  <2>4. Num(Poppers, Waiting)' = Num(Poppers, Waiting) - 1
    BY <1>3, <2>3, NumDown, Finite
  <2> QED
    BY <1>1, <2>1, <2>2, <2>4 DEF WaitInv
<1>7. EnoughInv'
  <2>1. \A v \in Poppers : pc'[v] \in Leaving <=> pc[v] \in Leaving
    BY <1>1, <1>3 DEF Leaving
  <2> QED
    BY <1>1, <1>3, <2>1, EnoughFrame, SMTT(30) DEF ShapeInv
<1> QED
  BY <1>3, <1>5, <1>6, <1>7 DEF WakeIInv

-----------------------------------------------------------------------------
\* The steps of a PE between its pops.

\* What they do not disturb.
LEMMA PEFrame ==
  ASSUME WakeIInv, NEW r \in PEs, NEW l \in PEPCs \ Holding, pc[r] \notin Holding, Goto(r, l),
         UNCHANGED <<kind, queue, hand, count, waiters, wm, cv, todo>>
  PROVE  /\ pc'[r] = l /\ \A q \in PEs : q # r => pc'[q] = pc[q]
         /\ \A u \in Units : pc'[u] = pc[u]
         /\ pc' \in [Units \cup Consumers -> UnitPCs \cup PopperPCs \cup PEPCs]
         /\ \A v \in Poppers : pc'[v] \in PopperPCs
         /\ \A q \in PEs : pc'[q] \in PEPCs
         /\ OnceInv' /\ CountInv' /\ WaitInv' /\ EnoughInv'
<1>1. /\ ShapeInv /\ OnceInv /\ CountInv /\ WaitInv /\ EnoughInv
      /\ r \in Consumers /\ r \notin Poppers
  BY Finite, PoolWakeAssumption DEF WakeIInv
<1>2. /\ pc'[r] = l /\ \A d \in Consumers : d # r => pc'[d] = pc[d]
      /\ \A u \in Units : pc'[u] = pc[u]
      /\ pc' \in [Units \cup Consumers -> UnitPCs \cup PopperPCs \cup PEPCs]
      /\ \A v \in Poppers : pc'[v] \in PopperPCs
      /\ \A q \in PEs : pc'[q] \in PEPCs
  BY <1>1, ConsumerMoves
<1>3. /\ \A w \in Poppers : pc'[w] = pc[w]
      /\ \A q \in PEs : q # r => pc'[q] = pc[q]
  BY <1>1, <1>2, Others
<1>4. \A c \in Consumers : pc'[c] \in Holding <=> pc[c] \in Holding
  BY <1>2
<1>5. OnceInv'
  BY <1>1, <1>4, OnceFrame
<1>6. CountInv'
  BY <1>1, <1>2, <1>4, CountFrame
<1>7. WaitInv'
  BY <1>1, <1>3, WaitFrame DEF ShapeInv
<1>8. EnoughInv'
  BY <1>1, <1>2, <1>3, EnoughFrame, SMTT(30) DEF ShapeInv
<1> QED
  BY <1>2, <1>3, <1>5, <1>6, <1>7, <1>8

\* Going to sleep and getting up: the mask, then the counter.
LEMMA MaskPreserves ==
  ASSUME WakeIInv, NEW r \in PEs,
         IdleHook(r) \/ SetMask(r) \/ AddSleeper(r) \/ ClearMask(r) \/ DropSleeper(r)
  PROVE  WakeIInv'
<1>1. /\ ShapeInv /\ SleepInv /\ NoSleeperMissed
      /\ UNCHANGED <<kind, queue, hand, count, waiters, wm, cv, notified, todo>>
  BY DEF WakeIInv, IdleHook, SetMask, AddSleeper, ClearMask, DropSleeper
<1>2. PICK l \in {"mask", "sleep", "look", "unsleep", "out"} :
        /\ Goto(r, l)
        /\ \/ l = "mask" /\ pc[r] = "out" /\ UNCHANGED <<smask, nsleepers>>
           \/ l = "sleep" /\ pc[r] = "mask" /\ smask' = smask \cup {r} /\ nsleepers' = nsleepers
           \/ l = "look" /\ pc[r] = "sleep" /\ smask' = smask /\ nsleepers' = nsleepers + 1
           \/ l = "unsleep" /\ pc[r] = "unmask" /\ smask' = smask \ {r} /\ nsleepers' = nsleepers
           \/ l = "out" /\ pc[r] = "unsleep" /\ smask' = smask /\ nsleepers' = nsleepers - 1
  BY DEF IdleHook, SetMask, AddSleeper, ClearMask, DropSleeper
<1>3. l \in PEPCs \ Holding /\ pc[r] \notin Holding
  BY <1>2 DEF PEPCs, Holding
<1>4. /\ pc'[r] = l /\ \A q \in PEs : q # r => pc'[q] = pc[q]
      /\ \A u \in Units : pc'[u] = pc[u]
      /\ pc' \in [Units \cup Consumers -> UnitPCs \cup PopperPCs \cup PEPCs]
      /\ \A v \in Poppers : pc'[v] \in PopperPCs
      /\ \A q \in PEs : pc'[q] \in PEPCs
      /\ OnceInv' /\ CountInv' /\ WaitInv' /\ EnoughInv'
  BY <1>1, <1>2, <1>3, PEFrame
<1>5. smask' \subseteq PEs /\ nsleepers \in Int /\ nsleepers' \in Int
  BY <1>1, <1>2, SMTT(30) DEF ShapeInv
<1>6. ShapeInv'
  BY <1>1, <1>4, <1>5, ConsumerShape DEF ShapeInv
<1>7. NoSleeperMissed'
  <2>1. \A q \in PEs : pc'[q] = "park" => pc[q] = "park"
    BY <1>2, <1>4
  <2> QED
    BY <1>1, <1>4, <2>1, MissedFrame
<1>8. smask' = Where(PEs, Masked)'
  BY <1>1, <1>2, <1>4 DEF SleepInv, Where, Masked
<1>9. nsleepers' = Num(PEs, Sleeping)'
  <2>1. nsleepers = Num(PEs, Sleeping)
    BY <1>1 DEF SleepInv
  <2>2. CASE l = "look"
    <3>1. pc[r] \notin Sleeping /\ pc'[r] \in Sleeping /\ nsleepers' = nsleepers + 1
      BY <1>2, <1>4, <2>2 DEF Sleeping
    <3>2. Num(PEs, Sleeping)' = Num(PEs, Sleeping) + 1
      BY <1>4, <3>1, NumUp, Finite
    <3> QED
      BY <2>1, <3>1, <3>2
  <2>3. CASE l = "out"
    <3>1. pc[r] \in Sleeping /\ pc'[r] \notin Sleeping /\ nsleepers' = nsleepers - 1
      BY <1>2, <1>4, <2>3 DEF Sleeping
    <3>2. Num(PEs, Sleeping)' = Num(PEs, Sleeping) - 1
      BY <1>4, <3>1, NumDown, Finite
    <3> QED
      BY <2>1, <3>1, <3>2
  <2>4. CASE l \in {"mask", "sleep", "unsleep"}
    <3>1. nsleepers' = nsleepers /\ \A q \in PEs : pc'[q] \in Sleeping <=> pc[q] \in Sleeping
      BY <1>2, <1>4, <2>4 DEF Sleeping
    <3>2. Num(PEs, Sleeping)' = Num(PEs, Sleeping)
      BY <3>1, NumSame
    <3> QED
      BY <2>1, <3>1, <3>2
  <2> QED
    BY <1>2, <2>2, <2>3, <2>4
<1> QED
  BY <1>4, <1>6, <1>7, <1>8, <1>9 DEF WakeIInv, SleepInv

\* Nobody has to tell of a pool that a PE finds empty: it is, or a push is under
\* way.
LEMMA LooksEmpty ==
  ASSUME WakeIInv, ~Poppable \/ ~(size > 0)
  PROVE  queue # <<>> => \E u \in Units : pc[u] \in Uncounted
<1>1. queue \in Seq(Units) /\ Len(queue) \in Nat /\ count \in Int
  BY SMTT(30) DEF WakeIInv, ShapeInv
<1>2. CASE ~Poppable
  <2>1. \A i \in 1..Len(queue) : queue[i] \in Units
    BY <1>1, SMTT(30)
  <2> QED
    BY <1>2, <2>1 DEF Poppable, Uncounted
<1>3. CASE ~(size > 0)
  <2>1. CASE kind = "user"
    BY <1>1, <1>3, <2>1, SMTT(30) DEF size
  <2>2. CASE kind # "user"
    <3>1. count <= 0
      BY <1>1, <1>3, <2>2, SMTT(30) DEF size
    <3> QED
      BY <2>2, <3>1, LowCount
  <2> QED
    BY <2>1, <2>2
<1> QED
  BY <1>2, <1>3

\* The second look.
LEMMA LookPreserves ==
  ASSUME WakeIInv, NEW r \in PEs, Look(r)
  PROVE  WakeIInv'
<1>1. ShapeInv /\ WaitInv /\ SleepInv /\ NoSleeperMissed /\ EnoughInv /\ pc[r] = "look"
  BY DEF WakeIInv, Look
<1>2. r \in Consumers /\ r \notin Poppers
  BY Finite, PoolWakeAssumption
<1>a. ASSUME \A q \in PEs : q # r => pc'[q] = pc[q],
             \A u \in Units : pc'[u] = pc[u],
             UNCHANGED <<notified, todo>>,
             queue' # <<>> => queue # <<>>,
             pc'[r] = "park" => queue' = queue /\ (~Poppable \/ ~(size > 0))
      PROVE  NoSleeperMissed'
  <2> SUFFICES ASSUME NEW q \in PEs, pc'[q] = "park", q \notin notified', queue' # <<>>
               PROVE  \E v \in Units :
                        \/ pc'[v] \in {"link", "count", "waiters", "notify", "sleepers", "mask"}
                        \/ pc'[v] = "bits" /\ q \in todo'[v]
    BY DEF NoSleeperMissed
  <2>1. CASE q = r
    <3>1. \E u \in Units : pc[u] \in Uncounted
      BY <1>a, <2>1, LooksEmpty
    <3> QED
      BY <1>a, <3>1 DEF Uncounted
  <2>2. CASE q # r
    BY <1>1, <1>a, <2>2 DEF NoSleeperMissed
  <2> QED
    BY <2>1, <2>2
<1>3. CASE r \in IdlePEs
  <2>1. /\ pop(r, "uncount_asleep", "park")
        /\ "uncount_asleep" \in Holding /\ "park" \notin Holding /\ pc[r] \notin Holding
        /\ {"uncount_asleep", "park"} \subseteq PEPCs
    BY <1>1, <1>3 DEF Look, Holding, PEPCs
  <2>2. /\ ShapeInv' /\ OnceInv' /\ CountInv'
        /\ \A d \in Consumers : d # r => pc'[d] = pc[d]
        /\ \A u \in Units : pc'[u] = pc[u]
        /\ Len(queue') \in Nat /\ Len(queue') <= Len(queue)
        /\ queue' # <<>> => queue # <<>>
        /\ \/ pc'[r] = "uncount_asleep" /\ Len(queue') = Len(queue) - 1
           \/ pc'[r] = "park" /\ ~Poppable /\ queue' = queue
        /\ UNCHANGED <<kind, count, waiters, wm, cv, smask, nsleepers, notified, todo>>
    BY <1>2, <2>1, PopFacts
  <2>3. /\ \A w \in Poppers : pc'[w] = pc[w]
        /\ \A q \in PEs : q # r => pc'[q] = pc[q]
    BY <1>2, <2>2, Others
  <2>4. WaitInv'
    BY <1>1, <2>2, <2>3, WaitFrame DEF ShapeInv
  <2>5. SleepInv'
    <3>1. \A q \in PEs : pc'[q] \in Masked <=> pc[q] \in Masked
      BY <1>1, <2>2, <2>3 DEF Masked
    <3>2. \A q \in PEs : pc'[q] \in Sleeping <=> pc[q] \in Sleeping
      BY <1>1, <2>2, <2>3 DEF Sleeping
    <3> QED
      BY <1>1, <2>2, <3>1, <3>2, SleepFrame
  <2>6. NoSleeperMissed'
    BY <1>a, <2>2, <2>3
  <2>7. EnoughInv'
    BY <1>1, <2>2, <2>3, EnoughFrame
  <2> QED
    BY <2>2, <2>4, <2>5, <2>6, <2>7 DEF WakeIInv
<1>4. CASE r \notin IdlePEs
  <2> DEFINE l == IF size > 0 THEN "unmask" ELSE "park"
  <2>1. /\ Goto(r, l)
        /\ UNCHANGED <<kind, queue, hand, count, waiters, wm, cv, smask, nsleepers, notified, todo>>
    BY <1>4 DEF Look
  <2>2. l \in {"unmask", "park"} /\ (l = "park" => ~(size > 0))
    OBVIOUS
  <2> HIDE DEF l
  <2>3. l \in PEPCs \ Holding /\ pc[r] \notin Holding
    BY <1>1, <2>2 DEF PEPCs, Holding
  <2>4. /\ pc'[r] = l /\ \A q \in PEs : q # r => pc'[q] = pc[q]
        /\ \A u \in Units : pc'[u] = pc[u]
        /\ pc' \in [Units \cup Consumers -> UnitPCs \cup PopperPCs \cup PEPCs]
        /\ \A v \in Poppers : pc'[v] \in PopperPCs
        /\ \A q \in PEs : pc'[q] \in PEPCs
        /\ OnceInv' /\ CountInv' /\ WaitInv' /\ EnoughInv'
    BY <2>1, <2>3, PEFrame
  <2>5. ShapeInv'
    BY <1>1, <2>1, <2>4, ConsumerShape DEF ShapeInv
  <2>6. SleepInv'
    <3>1. \A q \in PEs : pc'[q] \in Masked <=> pc[q] \in Masked
      BY <1>1, <2>2, <2>4 DEF Masked
    <3>2. \A q \in PEs : pc'[q] \in Sleeping <=> pc[q] \in Sleeping
      BY <1>1, <2>2, <2>4 DEF Sleeping
    <3> QED
      BY <1>1, <2>1, <3>1, <3>2, SleepFrame
  <2>7. NoSleeperMissed'
    BY <1>a, <2>1, <2>2, <2>4
  <2> QED
    BY <2>4, <2>5, <2>6, <2>7 DEF WakeIInv
<1> QED
  BY <1>3, <1>4

LEMMA ParkedPreserves ==
  ASSUME WakeIInv, NEW r \in PEs, CsdIdleWait(r) \/ IdleTimeout(r)
  PROVE  WakeIInv'
<1> DEFINE l == IF r \in IdlePEs THEN "pop_again" ELSE "unmask"
<1>1. /\ ShapeInv /\ SleepInv /\ NoSleeperMissed
      /\ pc[r] = "park" /\ notified' = notified \ {r} /\ Goto(r, l)
      /\ UNCHANGED <<kind, hand, queue, count, waiters, wm, cv, smask, nsleepers, todo>>
  BY DEF WakeIInv, CsdIdleWait, IdleTimeout, Parked
<1>2. l \in {"pop_again", "unmask"}
  OBVIOUS
<1> HIDE DEF l
<1>3. l \in PEPCs \ Holding /\ pc[r] \notin Holding /\ notified' \subseteq PEs
  BY <1>1, <1>2 DEF PEPCs, Holding, ShapeInv
<1>4. /\ pc'[r] = l /\ \A q \in PEs : q # r => pc'[q] = pc[q]
      /\ \A u \in Units : pc'[u] = pc[u]
      /\ pc' \in [Units \cup Consumers -> UnitPCs \cup PopperPCs \cup PEPCs]
      /\ \A v \in Poppers : pc'[v] \in PopperPCs
      /\ \A q \in PEs : pc'[q] \in PEPCs
      /\ OnceInv' /\ CountInv' /\ WaitInv' /\ EnoughInv'
  BY <1>1, <1>3, PEFrame
<1>5. ShapeInv'
  BY <1>1, <1>3, <1>4, ConsumerShape DEF ShapeInv
<1>6. SleepInv'
  <2>1. \A q \in PEs : pc'[q] \in Masked <=> pc[q] \in Masked
    BY <1>1, <1>2, <1>4 DEF Masked
  <2>2. \A q \in PEs : pc'[q] \in Sleeping <=> pc[q] \in Sleeping
    BY <1>1, <1>2, <1>4 DEF Sleeping
  <2> QED
    BY <1>1, <2>1, <2>2, SleepFrame
<1>7. NoSleeperMissed'
  <2> SUFFICES ASSUME NEW q \in PEs, pc'[q] = "park", q \notin notified', queue' # <<>>
               PROVE  \E v \in Units :
                        \/ pc'[v] \in {"link", "count", "waiters", "notify", "sleepers", "mask"}
                        \/ pc'[v] = "bits" /\ q \in todo'[v]
    BY DEF NoSleeperMissed
  <2>1. q # r /\ pc[q] = "park" /\ q \notin notified /\ queue # <<>>
    BY <1>1, <1>2, <1>4
  <2> QED
    BY <1>1, <1>4, <2>1 DEF NoSleeperMissed
<1> QED
  BY <1>4, <1>5, <1>6, <1>7 DEF WakeIInv

-----------------------------------------------------------------------------
LEMMA InitWakeIInv == ASSUME Init, Served PROVE WakeIInv
<1>1. \A x \in Units \cup Consumers : pc[x] = "out"
  BY DEF Init
<1>2. \A L : "out" \notin L => /\ Num(Units, L) = 0 /\ Num(Poppers, L) = 0
                               /\ Num(PEs, L) = 0 /\ Num(Consumers, L) = 0
                               /\ Where(PEs, L) = {}
  <2>1. ASSUME NEW X, X \subseteq Units \cup Consumers, NEW L, "out" \notin L
        PROVE  Num(X, L) = 0 /\ Where(X, L) = {}
    <3>1. Where(X, L) = {}
      BY <1>1, <2>1 DEF Where
    <3> QED
      BY <3>1, FS_EmptySet DEF Num
  <2>2. /\ Units \subseteq Units \cup Consumers /\ Poppers \subseteq Units \cup Consumers
        /\ PEs \subseteq Units \cup Consumers /\ Consumers \subseteq Units \cup Consumers
    BY Finite
  <2> QED
    BY <2>1, <2>2
<1>3. "out" \notin Uncounted \cup Pushing \cup Waiting \cup Leaving \cup Masked \cup Sleeping \cup Holding
  BY DEF Uncounted, Pushing, Waiting, Leaving, Masked, Sleeping, Holding
<1>4. ShapeInv
  <2>1. "out" \in UnitPCs /\ "out" \in PopperPCs /\ "out" \in PEPCs
    BY DEF UnitPCs, PopperPCs, PEPCs
  <2>2. pc \in [Units \cup Consumers -> UnitPCs \cup PopperPCs \cup PEPCs]
    BY <2>1 DEF Init
  <2> QED
    BY <1>1, <2>1, <2>2, Finite, SMTT(30) DEF Init, ShapeInv
<1>5. OnceInv
  <2>1. Present = {}
    BY PoolWakeAssumption, SMTT(30) DEF Init, Present, Queued
  <2>2. Cardinality(Present) = 0 /\ Num(Consumers, Holding) = 0 /\ Len(queue) = 0
    BY <1>2, <1>3, <2>1, FS_EmptySet DEF Init
  <2>3. \A c \in Consumers : hand[c] = None /\ pc[c] \notin Holding
    BY <1>1, <1>3 DEF Init
  <2> QED
    BY <2>2, <2>3, SMTT(30) DEF OnceInv
<1>6. CountInv
  <2>1. Num(Units, Uncounted) = 0 /\ Num(Consumers, Holding) = 0 /\ Len(queue) = 0 /\ count = 0
    BY <1>2, <1>3 DEF Init
  <2> QED
    BY <2>1 DEF CountInv
<1>7. WaitInv
  <2>1. Num(Poppers, Waiting) = 0 /\ None \notin Poppers
    BY <1>2, <1>3, PoolWakeAssumption DEF Consumers
  <2>2. \A w \in Poppers : pc[w] = "out"
    BY <1>1, Finite
  <2> QED
    BY <2>1, <2>2 DEF Init, WaitInv
<1>8. SleepInv
  BY <1>2, <1>3 DEF Init, SleepInv
<1>9. NoSleeperMissed /\ EnoughInv
  BY DEF Init, NoSleeperMissed, EnoughInv
<1> QED
  BY <1>4, <1>5, <1>6, <1>7, <1>8, <1>9 DEF WakeIInv

LEMMA NextWakeIInv == ASSUME WakeIInv, [Next]_vars PROVE WakeIInv'
<1>1. ASSUME NEW u \in Units, push(u) \/ PushStep(u)
      PROVE  WakeIInv'
  BY <1>1, push_Preserves, PushLinkPreserves, PushCountPreserves, LoadWaitersPreserves,
     NotifyOnePreserves, TellSleepersPreserves DEF PushStep
<1>2. ASSUME NEW c \in Consumers, Uncount(c)
      PROVE  WakeIInv'
  BY <1>2, UncountPreserves
<1>3. ASSUME NEW w \in Poppers, PopperStep(w) \/ Register(w) \/ CvWoken(w) \/ CvTimeout(w)
      PROVE  WakeIInv'
  <2>1. w \in Consumers
    BY Finite
  <2> QED
    BY <1>3, <2>1, PlainPopPreserves, RecheckPreserves, UnregisterPreserves, LastPopPreserves,
       RegisterPreserves, WokenPreserves DEF PopperStep
<1>4. ASSUME NEW r \in PEs, PEStep(r) \/ IdleTimeout(r)
      PROVE  WakeIInv'
  <2>1. r \in Consumers
    BY Finite
  <2> QED
    BY <1>4, <2>1, PlainPopPreserves, MaskPreserves, LookPreserves, ParkedPreserves DEF PEStep
<1>5. CASE UNCHANGED vars
  <2>1. ShapeInv' /\ NoSleeperMissed'
    BY <1>5 DEF vars, WakeIInv, ShapeInv, Served, NoSleeperMissed
  <2>2. OnceInv' /\ CountInv'
    BY <1>5, OnceFrame, CountFrame DEF vars, WakeIInv
  <2>3. WaitInv' /\ SleepInv'
    BY <1>5, WaitFrame, SleepFrame DEF vars, WakeIInv, ShapeInv
  <2>4. EnoughInv'
    BY <1>5, EnoughFrame, SMTT(30) DEF vars, WakeIInv, ShapeInv
  <2> QED
    BY <2>1, <2>2, <2>3, <2>4 DEF WakeIInv
<1> QED
  BY <1>1, <1>2, <1>3, <1>4, <1>5 DEF Next

\* The invariant says what NobodyMissed asks for.
LEMMA WakeIInvEnough == ASSUME WakeIInv PROVE NobodyMissed
<1>1. TypeOK
  <2>1. count \in -Cardinality(Units)..Cardinality(Units)
    <3>1. Cardinality(Units) \in Nat
      BY Finite, FS_CardinalityType
    <3>2. Num(Units, Uncounted) \in Nat /\ Num(Units, Uncounted) <= Cardinality(Units)
      <4>1. Where(Units, Uncounted) \subseteq Units
        BY DEF Where
      <4> QED
        BY <4>1, Finite, NumFacts, FS_Subset DEF Num
    <3>3. Cardinality(Present) \in Nat /\ Cardinality(Present) <= Cardinality(Units)
      <4>1. Present \subseteq Units
        BY DEF Present
      <4> QED
        BY <4>1, Finite, FS_Subset, FS_CardinalityType
    <3>4. CASE kind = "user"
      BY <3>1, <3>4, SMTT(30) DEF WakeIInv, CountInv
    <3>5. CASE kind # "user"
      <4>1. count + Num(Units, Uncounted) = Cardinality(Present) /\ count \in Int
        BY <3>5 DEF WakeIInv, CountInv, OnceInv, ShapeInv
      <4> QED
        BY <3>1, <3>2, <3>3, <4>1, SMTT(30)
    <3> QED
      BY <3>4, <3>5
  <2>2. /\ waiters = Cardinality({w \in Poppers : pc[w] \in {"recheck", "wait", "unregister"}})
        /\ nsleepers = Cardinality({r \in PEs : pc[r] \in {"look", "park", "pop_again", "uncount_asleep", "unmask", "unsleep"}})
    BY DEF WakeIInv, WaitInv, SleepInv, Num, Where, Waiting, Sleeping
  <2>3. pc \in [Units \cup Consumers -> {"out", "link", "count", "waiters", "notify", "sleepers", "mask", "bits",
               "uncount", "uncount_asleep", "register", "recheck", "wait", "unregister", "last_pop",
               "sleep", "look", "park", "pop_again", "unmask", "unsleep"}]
    BY DEF WakeIInv, ShapeInv, UnitPCs, PopperPCs, PEPCs
  <2> QED
    BY <2>1, <2>2, <2>3 DEF WakeIInv, ShapeInv, TypeOK
<1>2. NoWaiterMissed
  <2> SUFFICES ASSUME cv # {}, queue # <<>>,
                      ~\E u \in Units : pc[u] \in {"link", "count", "waiters", "notify"}
               PROVE  \E w \in Poppers \ cv : pc[w] \in {"wait", "unregister", "last_pop"}
    BY DEF NoWaiterMissed
  <2>1. Num(Units, Pushing) = 0
    <3>1. ~(Num(Units, Pushing) > 0)
      BY NumPositive, Finite DEF Pushing
    <3>2. Num(Units, Pushing) \in Nat
      BY NumFacts, Finite
    <3> QED
      BY <3>1, <3>2, SMTT(30)
  <2>2. Len(queue) \in Nat /\ Len(queue) > 0
    BY SMTT(30) DEF WakeIInv, ShapeInv
  <2>3. IsFiniteSet(cv) /\ Cardinality(cv) \in Nat
    BY CvBound DEF WakeIInv
  <2>4. Num(Poppers, Leaving) \in Nat
    BY NumFacts, Finite
  <2>5. Len(queue) + Cardinality(cv) <= Num(Units, Pushing) + Num(Poppers, Leaving)
    BY DEF WakeIInv, EnoughInv
  <2>6. ~(Num(Poppers, Leaving) <= Cardinality(cv))
    BY <2>1, <2>2, <2>3, <2>4, <2>5, SMTT(30)
  <2>7. ~(Where(Poppers, Leaving) \subseteq cv)
    BY <2>3, <2>6, FS_Subset DEF Num
  <2> QED
    BY <2>7 DEF Where, Leaving
<1> QED
  BY <1>1, <1>2 DEF WakeIInv, NobodyMissed

\* No sleeper and no timed pop is ever left beside a unit that nobody will tell
\* them of, however pushes, pops, waits, timeouts and parking interleave, and the
\* counters of waiters and sleepers never drift (pool.cpp:28-54, 154-171;
\* xstream.cpp:251-253, sched.cpp:187-190).
THEOREM NobodyIsMissed == Spec /\ Served => []NobodyMissed
<1>1. Init /\ Served => WakeIInv
  BY InitWakeIInv
<1>2. WakeIInv /\ [Next]_vars => WakeIInv'
  BY NextWakeIInv
<1>3. WakeIInv => NobodyMissed
  BY WakeIInvEnough
<1> QED
  BY <1>1, <1>2, <1>3, PTL DEF Spec
=============================================================================
