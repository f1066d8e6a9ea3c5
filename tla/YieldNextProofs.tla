--------------------------- MODULE YieldNextProofs ---------------------------
(***************************************************************************)
(* Proofs about YieldNext, for any PEs, units, pools and length of the     *)
(* chain: no unit is lost or run twice, and a poll reports what ran.       *)
(***************************************************************************)
EXTENDS YieldNext, TLAPS

USE Zenon

Kinds == {"held", "running", "leaving"}
Acts == {"yield", "block", "exit"}

Queued(u) == \E p \in Pools : \E i \in 1..Len(pool[p]) : pool[p][i] = u

\* A unit is in the pools once.
Distinct ==
  \A p \in Pools : \A q \in Pools : \A i \in 1..Len(pool[p]) : \A j \in 1..Len(pool[q]) :
    pool[p][i] = pool[q][j] => p = q /\ i = j

\* u is in one place.
Single(u) ==
  /\ \/ Queued(u) \/ u \in away \/ u \in done
     \/ \E e \in PEs : \E k \in Kinds : Has(e, k) = u
  /\ ~(u \in away /\ u \in done) /\ (Queued(u) => u \notin away /\ u \notin done)
  /\ \A e \in PEs : \A k \in Kinds : Has(e, k) = u =>
       /\ ~Queued(u) /\ u \notin away /\ u \notin done
       /\ \A f \in PEs : \A l \in Kinds : Has(f, l) = u => f = e /\ l = k

PlaceInv == Distinct /\ \A u \in Units : Single(u)

\* While a ULT chooses it still has the PE and nothing is parked; after the switch
\* it is known what it left to do.
Stage ==
  /\ defer \in [PEs -> (Units \cup {None}) \X (Acts \cup {"none"})]
  /\ \A e \in PEs :
       /\ pc[e] \in {"choose", "post"} => defer[e][1] \in Units /\ defer[e][2] \in Acts
       /\ pc[e] = "choose" => /\ running[e] = defer[e][1] /\ held[e] = None /\ direct_count[e] < K
       /\ pc[e] = "poll" => running[e] = None

\* The chain of direct switches is counted while it lasts, and left for the poll.
Chain ==
  \A e \in PEs :
    /\ running[e] = None => direct_count[e] = 0 /\ (ran[e] > 0 => ran[e] = 1 + last_chain[e])
    /\ running[e] # None => ran[e] = 1 + direct_count[e] /\ last_chain[e] = 0
    /\ running[e] \in Tasks => direct_count[e] = 0

IInv == TypeOK /\ Stage /\ Chain /\ PlaceInv

-----------------------------------------------------------------------------
\* Numbers, words and sequences.

LEMMA Around ==
  ASSUME NEW n \in Nat, NEW a \in 1..n+1
  PROVE  (a > n \/ a <= n) /\ (a <= n => ~(a > n)) /\ (~(a > n) => a \in 1..n)
  BY SMTT(30)

LEMMA Before ==
  ASSUME NEW n \in Nat, NEW j \in 1..n, NEW a \in 1..n+1, NEW k \in 1..n, j =< a, a < k
  PROVE  j < k
  BY SMTT(30)

LEMMA Words ==
  /\ "on" # "post" /\ "on" # "choose" /\ "on" \notin {"choose", "poll"}
  /\ "poll" # "choose" /\ "post" # "choose" /\ "post" \notin {"choose", "poll"}
  OBVIOUS

LEMMA HeadFacts ==
  ASSUME NEW s \in Seq(Units), s # <<>>
  PROVE  1 \in 1..Len(s) /\ Head(s) = s[1] /\ s[1] \in Units /\ Tail(s) \in Seq(Units)
  BY SMTT(30)

LEMMA NothingTwice == <<>> \o <<>> = <<>>
  BY SMTT(30)

-----------------------------------------------------------------------------
\* Pools.

LEMMA PoolFacts ==
  /\ K \in Nat /\ Len(Order) \in Nat \ {0} /\ Pools # {}
  /\ \A i \in 1..Len(Order) : Order[i] \in Pools
  /\ \A u \in Units : Home[u] \in Pools
  /\ None \notin Units /\ Tasks \subseteq Units
  BY YieldAssumption, SMTT(30) DEF Pools

LEMMA IndexFacts ==
  ASSUME NEW p \in Pools
  PROVE  pool_index(p) \in 1..Len(Order) /\ Order[pool_index(p)] = p
<1>1. \E i \in 1..Len(Order) : Order[i] = p
  BY DEF Pools
<1> QED
  BY <1>1 DEF pool_index

LEMMA PolicyFacts ==
  ASSUME NEW i \in 1..Len(Order), NEW j \in pop_by_policy(i)
  PROVE  j \in 1..Len(Order)+1 /\ (~Randws => j = i + 1)
  BY PoolFacts, SMTT(30) DEF pop_by_policy

\* The head of a pool is taken.
LEMMA PopFacts ==
  ASSUME pool \in [Pools -> Seq(Units)], NEW p \in Pools, pool[p] # <<>>, Distinct, Popped(p)
  PROVE  /\ pool' \in [Pools -> Seq(Units)] /\ Head(pool[p]) \in Units
         /\ Queued(Head(pool[p])) /\ Distinct'
         /\ \A u \in Units : Queued(u)' <=> Queued(u) /\ u # Head(pool[p])
<1> PICK s \in Seq(Units) : s = pool[p]
  OBVIOUS
<1>1. /\ Len(s) \in Nat \ {0} /\ Head(s) = s[1] /\ s[1] \in Units
      /\ Tail(s) \in Seq(Units) /\ Len(Tail(s)) = Len(s) - 1
      /\ \A i \in 1..Len(Tail(s)) : Tail(s)[i] = s[i+1]
  BY SMTT(30)
<1>2. /\ pool' \in [Pools -> Seq(Units)] /\ pool'[p] = Tail(s)
      /\ \A q \in Pools : q # p => pool'[q] = pool[q]
  BY <1>1 DEF Popped
<1>3. \A q \in Pools : \A i \in 1..Len(pool'[q]) :
        /\ q = p => i + 1 \in 1..Len(pool[q]) /\ pool'[q][i] = pool[q][i + 1]
        /\ q # p => i \in 1..Len(pool[q]) /\ pool'[q][i] = pool[q][i]
  <2> TAKE q \in Pools
  <2>1. CASE q = p
    BY <2>1, <1>1, <1>2, SMTT(30)
  <2>2. CASE q # p
    BY <2>2, <1>2
  <2> QED
    BY <2>1, <2>2
<1>4. Queued(s[1])
  BY <1>1, SMTT(30) DEF Queued
<1>5. Distinct'
  <2> SUFFICES ASSUME NEW q \in Pools, NEW r \in Pools, NEW i \in 1..Len(pool'[q]),
                      NEW j \in 1..Len(pool'[r]), pool'[q][i] = pool'[r][j]
               PROVE  q = r /\ i = j
    BY DEF Distinct
  <2> QED
    BY <1>3, SMTT(30) DEF Distinct
<1>6. ASSUME NEW u \in Units, Queued(u)' PROVE Queued(u) /\ u # s[1]
  <2> PICK q \in Pools : \E i \in 1..Len(pool'[q]) : pool'[q][i] = u
    BY <1>6 DEF Queued
  <2> PICK i \in 1..Len(pool'[q]) : pool'[q][i] = u
    OBVIOUS
  <2>1. CASE q = p
    <3>1. i + 1 \in 1..Len(pool[p]) /\ pool[p][i + 1] = u /\ 1 \in 1..Len(pool[p]) /\ i + 1 # 1
      BY <2>1, <1>3, <1>1, SMTT(30)
    <3> QED
      BY <3>1, SMTT(30) DEF Queued, Distinct
  <2>2. CASE q # p
    <3>1. i \in 1..Len(pool[q]) /\ pool[q][i] = u /\ 1 \in 1..Len(pool[p])
      BY <2>2, <1>3, <1>1, SMTT(30)
    <3> QED
      BY <3>1, <2>2, SMTT(30) DEF Queued, Distinct
  <2> QED
    BY <2>1, <2>2
<1>7. ASSUME NEW u \in Units, Queued(u), u # s[1] PROVE Queued(u)'
  <2> PICK q \in Pools : \E i \in 1..Len(pool[q]) : pool[q][i] = u
    BY <1>7 DEF Queued
  <2> PICK i \in 1..Len(pool[q]) : pool[q][i] = u
    OBVIOUS
  <2>1. CASE q = p
    <3>1. i - 1 \in 1..Len(pool'[p]) /\ pool'[p][i - 1] = u
      BY <2>1, <1>1, <1>2, <1>7, SMTT(30)
    <3> QED
      BY <3>1 DEF Queued
  <2>2. CASE q # p
    BY <2>2, <1>2 DEF Queued
  <2> QED
    BY <2>1, <2>2
<1> QED
  BY <1>1, <1>2, <1>4, <1>5, <1>6, <1>7

\* A unit is put at the end of its pool.
LEMMA PushFacts ==
  ASSUME pool \in [Pools -> Seq(Units)], NEW x \in Units, ~Queued(x), Distinct,
         pool' = [pool EXCEPT ![Home[x]] = Append(@, x)]
  PROVE  /\ pool' \in [Pools -> Seq(Units)] /\ Distinct'
         /\ \A u \in Units : Queued(u)' <=> Queued(u) \/ u = x
<1> PICK p \in Pools : p = Home[x]
  BY PoolFacts
<1> PICK s \in Seq(Units) : s = pool[p]
  OBVIOUS
<1>1. /\ Len(s) \in Nat /\ Append(s, x) \in Seq(Units) /\ Len(Append(s, x)) = Len(s) + 1
      /\ \A i \in 1..Len(s) : Append(s, x)[i] = s[i]
      /\ Append(s, x)[Len(s) + 1] = x
  BY SMTT(30)
<1>2. /\ pool' \in [Pools -> Seq(Units)] /\ pool'[p] = Append(s, x)
      /\ \A q \in Pools : q # p => pool'[q] = pool[q]
  BY <1>1
<1>3. \A q \in Pools : \A i \in 1..Len(pool'[q]) :
        \/ i \in 1..Len(pool[q]) /\ pool'[q][i] = pool[q][i]
        \/ q = p /\ i = Len(s) + 1 /\ pool'[q][i] = x
  BY <1>1, <1>2, SMTT(30)
<1>4. Distinct'
  <2> SUFFICES ASSUME NEW q \in Pools, NEW r \in Pools, NEW i \in 1..Len(pool'[q]),
                      NEW j \in 1..Len(pool'[r]), pool'[q][i] = pool'[r][j]
               PROVE  q = r /\ i = j
    BY DEF Distinct
  <2> QED
    BY <1>3, SMTT(30) DEF Distinct, Queued
<1>5. ASSUME NEW u \in Units, Queued(u)' PROVE Queued(u) \/ u = x
  BY <1>5, <1>3, SMTT(30) DEF Queued
<1>6. ASSUME NEW u \in Units, Queued(u) PROVE Queued(u)'
  <2> PICK q \in Pools : \E i \in 1..Len(pool[q]) : pool[q][i] = u
    BY <1>6 DEF Queued
  <2> PICK i \in 1..Len(pool[q]) : pool[q][i] = u
    OBVIOUS
  <2>1. i \in 1..Len(pool'[q]) /\ pool'[q][i] = u
    BY <1>1, <1>2, SMTT(30)
  <2> QED
    BY <2>1 DEF Queued
<1>7. Queued(x)'
  <2>1. Len(s) + 1 \in 1..Len(pool'[p]) /\ pool'[p][Len(s) + 1] = x
    BY <1>1, <1>2, SMTT(30)
  <2> QED
    BY <2>1 DEF Queued
<1> QED
  BY <1>2, <1>4, <1>5, <1>6, <1>7

LEMMA PoolSame ==
  ASSUME pool' = pool
  PROVE  (Distinct' <=> Distinct) /\ \A u \in Units : Queued(u)' <=> Queued(u)
  BY SMTT(30) DEF Distinct, Queued

-----------------------------------------------------------------------------
\* What the PEs have.

LEMMA HasFacts ==
  ASSUME NEW e \in PEs
  PROVE  /\ Has(e, "held") = held[e] /\ Has(e, "held")' = held'[e]
         /\ Has(e, "running") = running[e] /\ Has(e, "running")' = running'[e]
         /\ Has(e, "leaving") = IF pc[e] = "post" THEN defer[e][1] ELSE None
         /\ Has(e, "leaving")' = IF pc'[e] = "post" THEN defer'[e][1] ELSE None
  BY DEF Has

\* A step of PE e leaves what the others have.
Sets(e, h, r, c, d) ==
  /\ held' = [held EXCEPT ![e] = h] /\ running' = [running EXCEPT ![e] = r]
  /\ pc' = [pc EXCEPT ![e] = c] /\ defer' = [defer EXCEPT ![e] = d]

LEMMA OthersKeep ==
  ASSUME IInv, NEW e \in PEs, NEW h, NEW r, NEW c, NEW d, Sets(e, h, r, c, d)
  PROVE  /\ \A f \in PEs : f # e => \A k \in Kinds : Has(f, k)' = Has(f, k)
         /\ Has(e, "held")' = h /\ Has(e, "running")' = r
         /\ c = "post" => Has(e, "leaving")' = d[1]
         /\ c # "post" => Has(e, "leaving")' = None
<1>1. held'[e] = h /\ running'[e] = r /\ pc'[e] = c /\ defer'[e] = d
  BY DEF IInv, TypeOK, Stage, Sets
<1>2. \A f \in PEs : f # e => held'[f] = held[f] /\ running'[f] = running[f] /\ pc'[f] = pc[f] /\ defer'[f] = defer[f]
  BY DEF IInv, TypeOK, Stage, Sets
<1> QED
  BY <1>1, <1>2, HasFacts, SMTT(30) DEF Kinds

LEMMA SingleSame ==
  ASSUME NEW u, Single(u), \A e \in PEs : \A k \in Kinds : Has(e, k)' = u <=> Has(e, k) = u,
         Queued(u)' <=> Queued(u), u \in away' <=> u \in away, u \in done' <=> u \in done
  PROVE  Single(u)'
<1>1. \/ Queued(u)' \/ u \in away' \/ u \in done'
      \/ \E e \in PEs : \E k \in Kinds : Has(e, k)' = u
  BY DEF Single
<1>2. ~(u \in away' /\ u \in done') /\ (Queued(u)' => u \notin away' /\ u \notin done')
  BY DEF Single
<1>3. ASSUME NEW e \in PEs, NEW k \in Kinds, Has(e, k)' = u
      PROVE  /\ ~Queued(u)' /\ u \notin away' /\ u \notin done'
             /\ \A f \in PEs : \A l \in Kinds : Has(f, l)' = u => f = e /\ l = k
  BY <1>3, SMTT(30) DEF Single
<1> QED
  BY <1>1, <1>2, <1>3 DEF Single

LEMMA PlacesSame ==
  ASSUME IInv, UNCHANGED <<pool, away, done, held, running, defer>>,
         \A e \in PEs : pc'[e] = "post" <=> pc[e] = "post"
  PROVE  PlaceInv'
<1>1. \A e \in PEs : \A k \in Kinds : Has(e, k)' = Has(e, k)
  BY HasFacts DEF Kinds
<1>2. Distinct' /\ \A u \in Units : Queued(u)' <=> Queued(u)
  BY PoolSame DEF IInv, PlaceInv
<1> QED
  BY <1>1, <1>2, SMTT(30) DEF IInv, PlaceInv, Single

LEMMA HasTypes ==
  ASSUME IInv, NEW e \in PEs, NEW k \in Kinds
  PROVE  Has(e, k) \in Units \cup {None}
  BY HasFacts, SMTT(30) DEF IInv, TypeOK, Stage, Kinds
-----------------------------------------------------------------------------
LEMMA InitIInv == Init => IInv
<1> SUFFICES ASSUME Init PROVE IInv
  OBVIOUS
<1>1. \A p \in Pools : Len(pool[p]) = 0 /\ pool[p] \in Seq(Units)
  BY SMTT(30) DEF Init
<1>2. TypeOK
  BY <1>1, PoolFacts, SMTT(30) DEF Init, TypeOK
<1>3. Stage /\ Chain
  BY PoolFacts, SMTT(30) DEF Init, Stage, Chain, Acts
<1>4. PlaceInv
  <2>1. Distinct /\ \A u \in Units : ~Queued(u)
    BY <1>1, SMTT(30) DEF Distinct, Queued
  <2>2. \A e \in PEs : \A k \in Kinds : Has(e, k) = None
    BY HasFacts DEF Init, Kinds
  <2> QED
    BY <2>1, <2>2, PoolFacts DEF Init, PlaceInv, Single
<1> QED
  BY <1>2, <1>3, <1>4 DEF IInv


-----------------------------------------------------------------------------
\* A ULT gives the PE to the scheduling thread, and is leaving.
LEMMA ToSchedPlaces ==
  ASSUME IInv, NEW e \in PEs, NEW d, d[1] = running[e], running[e] \in Units, pc[e] # "post",
         ToSched(e), held' = held, defer' = [defer EXCEPT ![e] = d],
         UNCHANGED <<pool, away, done>>
  PROVE  PlaceInv'
<1>1. Sets(e, held[e], None, "post", d)
  BY DEF IInv, TypeOK, Sets, ToSched
<1>2. /\ \A f \in PEs : f # e => \A k \in Kinds : Has(f, k)' = Has(f, k)
      /\ Has(e, "held")' = held[e] /\ Has(e, "running")' = None /\ Has(e, "leaving")' = running[e]
  BY <1>1, OthersKeep
<1>3. Has(e, "held") = held[e] /\ Has(e, "running") = running[e] /\ Has(e, "leaving") = None
  BY HasFacts
<1>4. Distinct' /\ \A u \in Units : Queued(u)' <=> Queued(u)
  BY PoolSame DEF IInv, PlaceInv
<1>5. ASSUME NEW u \in Units PROVE Single(u)'
  <2>1. Single(u) /\ u # None
    BY PoolFacts DEF IInv, PlaceInv
  <2> QED
    BY <2>1, <1>2, <1>3, <1>4, SMTT(30) DEF Single, Kinds
<1> QED
  BY <1>4, <1>5 DEF PlaceInv

LEMMA ChooseStep ==
  ASSUME IInv, NEW e \in PEs, NEW act \in Acts, choose_fn(e, act)
  PROVE  IInv'
<1>0. /\ running[e] \in Units \ Tasks /\ pc[e] = "on" /\ running[e] # None
      /\ defer' = [defer EXCEPT ![e] = <<running[e], act>>]
      /\ UNCHANGED <<pool, away, done, held, stop, msg>>
  BY PoolFacts DEF choose_fn, Suspending
<1>1. yielding' \in [PEs -> BOOLEAN]
  BY DEF IInv, TypeOK, choose_fn, Suspending
<1>2. CASE held[e] = None /\ direct_count[e] < K /\ e \notin stop /\ running[e] \notin Mains
  <2>1. pc' = [pc EXCEPT ![e] = "choose"] /\ at' = [at EXCEPT ![e] = 1] /\ UNCHANGED <<running, direct_count, last_chain, ran>>
    BY <1>2 DEF choose_fn, Direct
  <2>2. TypeOK'
    BY <1>0, <1>1, <2>1, PoolFacts, SMTT(30) DEF IInv, TypeOK
  <2>3. Stage' /\ Chain'
    BY <1>0, <1>2, <2>1, PoolFacts DEF IInv, TypeOK, Stage, Chain, Acts
  <2>4. PlaceInv'
    <3>1. /\ \A f \in PEs : f # e => \A k \in Kinds : Has(f, k)' = Has(f, k)
          /\ Has(e, "held")' = held[e] /\ Has(e, "running")' = running[e] /\ Has(e, "leaving")' = None
      <4> PICK d : d = <<running[e], act>>
        OBVIOUS
      <4>1. Sets(e, held[e], running[e], "choose", d)
        BY <1>0, <2>1 DEF IInv, TypeOK, Sets
      <4> QED
        BY <4>1, OthersKeep, SMTT(30)
    <3>3. \A f \in PEs : \A k \in Kinds : Has(f, k)' = Has(f, k)
      BY <1>0, <3>1, HasFacts DEF Kinds
    <3>4. Distinct' /\ \A u \in Units : Queued(u)' <=> Queued(u)
      BY <1>0, PoolSame DEF IInv, PlaceInv
    <3> QED
      BY <1>0, <3>3, <3>4, SMTT(30) DEF IInv, PlaceInv, Single
  <2> QED
    BY <2>2, <2>3, <2>4 DEF IInv
<1>3. CASE ~(held[e] = None /\ direct_count[e] < K /\ e \notin stop /\ running[e] \notin Mains)
  <2>1. ToSched(e) /\ at' = at
    BY <1>3 DEF choose_fn
  <2>2. TypeOK'
    BY <1>0, <1>1, <2>1, PoolFacts, SMTT(30) DEF IInv, TypeOK, ToSched
  <2>3. Stage' /\ Chain'
    BY <1>0, <2>1, PoolFacts DEF IInv, TypeOK, Stage, Chain, Acts, ToSched
  <2>4. PlaceInv'
    <3>1. <<running[e], act>>[1] = running[e] /\ pc[e] # "post"
      BY <1>0
    <3> QED
      BY <1>0, <2>1, <3>1, ToSchedPlaces
  <2> QED
    BY <2>2, <2>3, <2>4 DEF IInv
<1> QED
  BY <1>2, <1>3

\* The last pool was empty, or the popped unit is parked or switched to.
LEMMA ChoosePopStep ==
  ASSUME IInv, NEW e \in PEs, ChoosePop(e)
  PROVE  IInv'
<1>0. /\ pc[e] = "choose" /\ UNCHANGED <<away, done, yielding, stop, in_yield, defer, msg>>
      /\ defer' = [defer EXCEPT ![e] = defer[e]]
      /\ running[e] = defer[e][1] /\ running[e] \in Units /\ running[e] # None
      /\ held[e] = None /\ direct_count[e] < K
  BY PoolFacts, SMTT(30) DEF ChoosePop, IInv, Stage
<1>1. CASE at[e] > Len(Order)
  <2>1. ToSched(e) /\ UNCHANGED <<pool, held, at>>
    BY <1>1 DEF ChoosePop
  <2>2. TypeOK'
    BY <1>0, <2>1, PoolFacts, SMTT(30) DEF IInv, TypeOK, ToSched
  <2>3. Stage' /\ Chain'
    BY <1>0, <2>1, PoolFacts, SMTT(30) DEF IInv, TypeOK, Stage, Chain, Acts, ToSched
  <2>4. PlaceInv'
    <3>1. pc[e] # "post"
      BY <1>0
    <3> QED
      BY <1>0, <2>1, <3>1, ToSchedPlaces
  <2> QED
    BY <2>2, <2>3, <2>4 DEF IInv
<1>2. CASE at[e] <= Len(Order) /\ pool[Order[at[e]]] = <<>>
  <2>1. /\ UNCHANGED <<pool, held, running, pc, direct_count, last_chain, ran>>
        /\ \E i \in pop_by_policy(at[e]) : at' = [at EXCEPT ![e] = i]
    BY <1>2, PoolFacts, SMTT(30) DEF ChoosePop, IInv, TypeOK
  <2>2. at' \in [PEs -> 1..Len(Order)+1]
    <3> PICK i \in pop_by_policy(at[e]) : at' = [at EXCEPT ![e] = i]
      BY <2>1
    <3>1. at[e] \in 1..Len(Order)
      BY <1>2, PoolFacts, SMTT(30) DEF IInv, TypeOK
    <3>2. i \in 1..Len(Order)+1
      BY <3>1, PolicyFacts
    <3> QED
      BY <3>2 DEF IInv, TypeOK
  <2>3. TypeOK'
    BY <1>0, <2>1, <2>2 DEF IInv, TypeOK
  <2>4. Stage' /\ Chain'
    BY <1>0, <2>1 DEF IInv, Stage, Chain
  <2>5. PlaceInv'
    BY <1>0, <2>1, PlacesSame
  <2> QED
    BY <2>3, <2>4, <2>5 DEF IInv
<1>3. CASE at[e] <= Len(Order) /\ pool[Order[at[e]]] # <<>>
  <2> PICK p \in Pools : p = Order[at[e]] /\ pool[p] # <<>>
    BY <1>3, PoolFacts, SMTT(30) DEF IInv, TypeOK
  <2> PICK t : t = Head(pool[p])
    OBVIOUS
  <2>1. /\ Popped(p) /\ UNCHANGED at
        /\ \/ held' = [held EXCEPT ![e] = t] /\ ToSched(e)
           \/ /\ ~Park(e, t) /\ UNCHANGED <<held, last_chain>>
              /\ running' = [running EXCEPT ![e] = t] /\ pc' = [pc EXCEPT ![e] = "post"]
              /\ direct_count' = [direct_count EXCEPT ![e] = @ + 1]
              /\ ran' = [ran EXCEPT ![e] = @ + 1]
    <3>1. at[e] \in 1..Len(Order)+1 /\ Len(Order) \in Nat
      BY PoolFacts, SMTT(30) DEF IInv, TypeOK
    <3>2. ~(at[e] > Len(Order))
      BY <1>3, <3>1, Around
    <3> QED
      BY <1>3, <3>2 DEF ChoosePop
  <2>2. /\ pool' \in [Pools -> Seq(Units)] /\ t \in Units /\ Queued(t) /\ Distinct'
        /\ \A u \in Units : Queued(u)' <=> Queued(u) /\ u # t
    BY <2>1, PopFacts DEF IInv, TypeOK, PlaceInv
  <2>3. /\ Has(e, "held") = None /\ Has(e, "running") = running[e] /\ Has(e, "leaving") = None
        /\ t # running[e] /\ t # None
    <3>1. Has(e, "held") = None /\ Has(e, "running") = running[e] /\ Has(e, "leaving") = None
      BY <1>0, HasFacts
    <3>2. Single(t) /\ "running" \in Kinds
      BY <2>2 DEF IInv, PlaceInv, Kinds
    <3> QED
      BY <3>1, <3>2, <2>2, PoolFacts DEF Single
  <2>4. CASE held' = [held EXCEPT ![e] = t] /\ ToSched(e)
    <3>0. held' \in [PEs -> Units \cup {None}]
      BY <2>2, <2>4 DEF IInv, TypeOK
    <3>1. TypeOK'
      <4>1. /\ running' \in [PEs -> Units \cup {None}] /\ pc' \in [PEs -> {"on", "choose", "poll", "post"}]
            /\ direct_count' \in [PEs -> 0..K] /\ last_chain' \in [PEs -> 0..K] /\ ran' = ran
        BY <2>4, PoolFacts, SMTT(30) DEF IInv, TypeOK, ToSched
      <4> QED
        BY <1>0, <2>1, <2>2, <3>0, <4>1 DEF IInv, TypeOK
    <3>2. Stage' /\ Chain'
      BY <1>0, <2>4, PoolFacts, SMTT(30) DEF IInv, TypeOK, Stage, Chain, Acts, ToSched
    <3>3. /\ \A f \in PEs : f # e => \A k \in Kinds : Has(f, k)' = Has(f, k)
          /\ Has(e, "held")' = t /\ Has(e, "running")' = None /\ Has(e, "leaving")' = running[e]
      <4>1. Sets(e, t, None, "post", defer[e])
        BY <1>0, <2>4 DEF Sets, ToSched
      <4> QED
        BY <1>0, <4>1, OthersKeep, SMTT(30)
    <3>4. ASSUME NEW u \in Units PROVE Single(u)'
      <4>1. Single(u) /\ u # None
        BY PoolFacts DEF IInv, PlaceInv
      <4> QED
        BY <4>1, <1>0, <2>2, <2>3, <3>3, SMTT(30) DEF Single, Kinds
    <3> QED
      BY <2>2, <3>1, <3>2, <3>4 DEF IInv, PlaceInv
  <2>5. CASE /\ ~Park(e, t) /\ UNCHANGED <<held, last_chain>>
             /\ running' = [running EXCEPT ![e] = t] /\ pc' = [pc EXCEPT ![e] = "post"]
             /\ direct_count' = [direct_count EXCEPT ![e] = @ + 1]
             /\ ran' = [ran EXCEPT ![e] = @ + 1]
    <3>0. t \notin Tasks
      BY <2>5 DEF Park
    <3>1. ran[e] = 1 + direct_count[e] /\ direct_count[e] + 1 \in 0..K /\ ran[e] + 1 \in 0..K+1
      BY <1>0, PoolFacts, SMTT(30) DEF IInv, Chain, TypeOK
    <3>2. TypeOK'
      BY <1>0, <2>1, <2>2, <2>5, <3>1 DEF IInv, TypeOK
    <3>3. Stage' /\ Chain'
      <4>1. Stage'
        BY <1>0, <2>5 DEF IInv, TypeOK, Stage
      <4>2. Chain'
        <5> SUFFICES ASSUME NEW f \in PEs
                     PROVE  /\ running'[f] = None => /\ direct_count'[f] = 0
                                                     /\ ran'[f] > 0 => ran'[f] = 1 + last_chain'[f]
                            /\ running'[f] # None => ran'[f] = 1 + direct_count'[f] /\ last_chain'[f] = 0
                            /\ running'[f] \in Tasks => direct_count'[f] = 0
          BY DEF Chain
        <5>1. CASE f = e
          <6>1. /\ running'[e] = t /\ ran'[e] = ran[e] + 1 /\ direct_count'[e] = direct_count[e] + 1
                /\ last_chain'[e] = last_chain[e] /\ last_chain[e] = 0
            BY <1>0, <2>5 DEF IInv, TypeOK, Chain
          <6>2. direct_count[e] \in Int
            BY PoolFacts, SMTT(30) DEF IInv, TypeOK
          <6> QED
            BY <5>1, <6>1, <6>2, <2>3, <3>0, <3>1, SMTT(30)
        <5>2. CASE f # e
          <6>1. /\ running'[f] = running[f] /\ ran'[f] = ran[f] /\ direct_count'[f] = direct_count[f]
                /\ last_chain'[f] = last_chain[f]
            BY <2>5, <5>2 DEF IInv, TypeOK
          <6> QED
            BY <6>1 DEF IInv, Chain
        <5> QED
          BY <5>1, <5>2
      <4> QED
        BY <4>1, <4>2
    <3>4. /\ \A f \in PEs : f # e => \A k \in Kinds : Has(f, k)' = Has(f, k)
          /\ Has(e, "held")' = None /\ Has(e, "running")' = t /\ Has(e, "leaving")' = running[e]
      <4>1. Sets(e, None, t, "post", defer[e])
        BY <1>0, <2>5 DEF IInv, TypeOK, Sets
      <4> QED
        BY <1>0, <4>1, OthersKeep, SMTT(30)
    <3>5. ASSUME NEW u \in Units PROVE Single(u)'
      <4>1. Single(u) /\ u # None
        BY PoolFacts DEF IInv, PlaceInv
      <4> QED
        BY <4>1, <1>0, <2>2, <2>3, <3>4, SMTT(30) DEF Single, Kinds
    <3> QED
      BY <2>2, <3>2, <3>3, <3>5 DEF IInv, PlaceInv
  <2> QED
    BY <2>1, <2>4, <2>5
<1>4. at[e] \in Int /\ Len(Order) \in Int
  BY PoolFacts, SMTT(30) DEF IInv, TypeOK
<1> QED
  BY <1>1, <1>2, <1>3, <1>4, SMTT(30)

\* The ULT that was switched from is pushed back, BLOCKED or ended.
LEMMA PostSwitchStep ==
  ASSUME IInv, NEW e \in PEs, PostSwitch(e)
  PROVE  IInv'
<1> PICK u : u = defer[e][1]
  OBVIOUS
<1>0. /\ pc[e] = "post" /\ pc' = [pc EXCEPT ![e] = "on"] /\ u \in Units /\ u # None
      /\ defer' = [defer EXCEPT ![e] = <<None, "none">>]
      /\ UNCHANGED <<running, held, direct_count, last_chain, stop, at, ran, msg>>
  BY PoolFacts DEF PostSwitch, IInv, Stage
<1>1. yielding' \in [PEs -> BOOLEAN]
  BY DEF PostSwitch, YieldReturns, IInv, TypeOK
<1>2. Stage' /\ Chain'
  BY <1>0 DEF IInv, TypeOK, Stage, Chain
<1>3. /\ \A f \in PEs : f # e => \A k \in Kinds : Has(f, k)' = Has(f, k)
      /\ Has(e, "held")' = Has(e, "held") /\ Has(e, "running")' = Has(e, "running")
      /\ Has(e, "leaving")' = None /\ Has(e, "leaving") = u
  <2> PICK d : d = <<None, "none">>
    OBVIOUS
  <2>1. Sets(e, held[e], running[e], "on", d)
    BY <1>0 DEF IInv, TypeOK, Sets
  <2>2. Has(e, "held") = held[e] /\ Has(e, "running") = running[e] /\ Has(e, "leaving") = u
    BY <1>0, HasFacts
  <2>3. /\ \A f \in PEs : f # e => \A k \in Kinds : Has(f, k)' = Has(f, k)
        /\ Has(e, "held")' = held[e] /\ Has(e, "running")' = running[e]
        /\ "on" # "post" => Has(e, "leaving")' = None
    BY <2>1, OthersKeep
  <2>4. "on" # "post"
    BY Words
  <2> QED
    BY <2>2, <2>3, <2>4
<1>4. ~Queued(u) /\ u \notin away /\ u \notin done
  <2>1. Single(u) /\ "leaving" \in Kinds
    BY <1>0 DEF IInv, PlaceInv, Kinds
  <2> QED
    BY <1>3, <2>1 DEF Single
<1>5. \/ pool' = [pool EXCEPT ![Home[u]] = Append(@, u)] /\ UNCHANGED <<away, done>>
      \/ away' = away \cup {u} /\ UNCHANGED <<pool, done>>
      \/ done' = done \cup {u} /\ UNCHANGED <<pool, away>>
  BY <1>0 DEF PostSwitch, IInv, Stage, Acts
<1>6. /\ pool' \in [Pools -> Seq(Units)] /\ away' \subseteq Units /\ done' \subseteq Units /\ Distinct'
      /\ \A x \in Units : x # u => (Queued(x)' <=> Queued(x)) /\ (x \in away' <=> x \in away) /\ (x \in done' <=> x \in done)
      /\ \/ Queued(u)' /\ u \notin away' /\ u \notin done'
         \/ ~Queued(u)' /\ u \in away' /\ u \notin done'
         \/ ~Queued(u)' /\ u \notin away' /\ u \in done'
  <2>1. pool \in [Pools -> Seq(Units)] /\ away \subseteq Units /\ done \subseteq Units /\ Distinct
    BY DEF IInv, TypeOK, PlaceInv
  <2>2. CASE pool' = [pool EXCEPT ![Home[u]] = Append(@, u)] /\ UNCHANGED <<away, done>>
    <3>1. /\ pool' \in [Pools -> Seq(Units)] /\ Distinct'
          /\ \A x \in Units : Queued(x)' <=> Queued(x) \/ x = u
      BY <2>1, <2>2, <1>0, <1>4, PushFacts
    <3>2. away' = away /\ done' = done
      BY <2>2
    <3> QED
      BY <3>1, <3>2, <2>1, <1>0, <1>4
  <2>3. CASE /\ pool' = pool
             /\ \/ away' = away \cup {u} /\ done' = done
                \/ done' = done \cup {u} /\ away' = away
    <3>1. pool' = pool
      BY <2>3
    <3>2. Distinct' /\ \A x \in Units : Queued(x)' <=> Queued(x)
      BY <3>1, <2>1, PoolSame
    <3>3. CASE away' = away \cup {u} /\ done' = done
      BY <3>1, <3>2, <3>3, <2>1, <1>0, <1>4
    <3>4. CASE done' = done \cup {u} /\ away' = away
      BY <3>1, <3>2, <3>4, <2>1, <1>0, <1>4
    <3> QED
      BY <2>3, <3>3, <3>4
  <2> QED
    <3>1. UNCHANGED <<away, done>> <=> away' = away /\ done' = done
      OBVIOUS
    <3>2. UNCHANGED <<pool, done>> => pool' = pool /\ done' = done
      OBVIOUS
    <3>3. UNCHANGED <<pool, away>> => pool' = pool /\ away' = away
      OBVIOUS
    <3> QED
      BY <1>5, <2>2, <2>3, <3>1, <3>2, <3>3
<1>7. TypeOK'
  <2>1. pc' \in [PEs -> {"on", "choose", "poll", "post"}]
    BY <1>0 DEF IInv, TypeOK
  <2> QED
    BY <1>0, <1>1, <1>6, <2>1 DEF IInv, TypeOK
<1>8. ASSUME NEW x \in Units PROVE Single(x)'
  <2>1. Single(x) /\ Single(u) /\ x # None
    BY <1>0, PoolFacts DEF IInv, PlaceInv
  <2>2. \A f \in PEs : \A k \in Kinds : Has(f, k)' # u
    BY <1>0, <1>3, <2>1, SMTT(30) DEF Single, Kinds
  <2>3. CASE x = u
    BY <1>6, <2>2, <2>3 DEF Single
  <2>4. CASE x # u
    <3>1. \A f \in PEs : \A k \in Kinds : Has(f, k)' = x <=> Has(f, k) = x
      BY <1>3, <2>1, <2>4 DEF Kinds
    <3> QED
      <4>1. /\ Queued(x)' <=> Queued(x)
            /\ x \in away' <=> x \in away
            /\ x \in done' <=> x \in done
        BY <1>6, <2>4
      <4> QED
        BY <2>1, <3>1, <4>1, SingleSame
  <2> QED
    BY <2>3, <2>4
<1> QED
  BY <1>2, <1>6, <1>7, <1>8 DEF IInv, PlaceInv

-----------------------------------------------------------------------------
LEMMA PollStep ==
  ASSUME IInv, NEW e \in PEs, poll_sched(e)
  PROVE  IInv'
<1>0. /\ pc[e] = "on" /\ running[e] = None
      /\ pc' = [pc EXCEPT ![e] = "poll"] /\ at' = [at EXCEPT ![e] = 1] /\ ran' = [ran EXCEPT ![e] = 0]
      /\ UNCHANGED <<pool, away, done, running, held, direct_count, last_chain, yielding, stop, in_yield, defer, msg>>
  BY DEF poll_sched
<1>1. TypeOK'
  BY <1>0, PoolFacts, SMTT(30) DEF IInv, TypeOK
<1>2. Stage' /\ Chain'
  BY <1>0, SMTT(30) DEF IInv, TypeOK, Stage, Chain
<1>3. \A f \in PEs : pc'[f] = "post" <=> pc[f] = "post"
  BY <1>0 DEF IInv, TypeOK
<1> QED
  BY <1>0, <1>1, <1>2, <1>3, PlacesSame DEF IInv

\* A unit that was parked or in a pool, and so in no other place, gets the PE.
LEMMA RunStep ==
  ASSUME IInv, NEW e \in PEs, NEW t \in Units, run_thread(e, t), pc[e] = "poll",
         NEW h \in {None, held[e]}, held' = [held EXCEPT ![e] = h],
         pool' \in [Pools -> Seq(Units)], Distinct',
         \/ held[e] = t /\ h = None /\ \A u \in Units : Queued(u)' <=> Queued(u)
         \/ h = held[e] /\ Queued(t) /\ \A u \in Units : Queued(u)' <=> Queued(u) /\ u # t,
         at' = at, UNCHANGED <<away, done, direct_count, stop, defer, msg>>
  PROVE  IInv'
<1>0. /\ running' = [running EXCEPT ![e] = t] /\ pc' = [pc EXCEPT ![e] = "on"]
      /\ last_chain' = [last_chain EXCEPT ![e] = 0] /\ ran' = [ran EXCEPT ![e] = 1]
      /\ running[e] = None /\ t # None
  BY PoolFacts DEF run_thread, IInv, Stage
<1>1. yielding' \in [PEs -> BOOLEAN]
  BY DEF run_thread, YieldReturns, IInv, TypeOK
<1>2. TypeOK'
  <2>1. held' \in [PEs -> Units \cup {None}] /\ running' \in [PEs -> Units \cup {None}]
    BY <1>0 DEF IInv, TypeOK
  <2>2. /\ last_chain' \in [PEs -> 0..K] /\ ran' \in [PEs -> 0..K+1]
        /\ pc' \in [PEs -> {"on", "choose", "poll", "post"}]
    BY <1>0, PoolFacts, SMTT(30) DEF IInv, TypeOK
  <2> QED
    BY <1>1, <2>1, <2>2 DEF IInv, TypeOK
<1>3. Stage'
  BY <1>0 DEF IInv, TypeOK, Stage
<1>4. Chain'
  BY <1>0, SMTT(30) DEF IInv, TypeOK, Chain
<1>5. /\ \A f \in PEs : f # e => \A k \in Kinds : Has(f, k)' = Has(f, k)
      /\ Has(e, "held")' = h /\ Has(e, "running")' = t /\ Has(e, "leaving")' = None
      /\ Has(e, "held") = held[e] /\ Has(e, "running") = None /\ Has(e, "leaving") = None
  <2>1. Sets(e, h, t, "on", defer[e])
    BY <1>0 DEF IInv, TypeOK, Stage, Sets
  <2>2. Has(e, "held") = held[e] /\ Has(e, "running") = None /\ Has(e, "leaving") = None
    BY <1>0, HasFacts
  <2>3. /\ \A f \in PEs : f # e => \A k \in Kinds : Has(f, k)' = Has(f, k)
        /\ Has(e, "held")' = h /\ Has(e, "running")' = t
        /\ "on" # "post" => Has(e, "leaving")' = None
    BY <2>1, OthersKeep
  <2>4. "on" # "post"
    BY Words
  <2> QED
    BY <2>2, <2>3, <2>4
<1>6. ASSUME NEW u \in Units PROVE Single(u)'
  <2>1. Single(u) /\ Single(t) /\ u # None
    BY PoolFacts DEF IInv, PlaceInv
  <2> QED
    BY <1>0, <1>5, <2>1, SMTT(30) DEF Single, Kinds
<1> QED
  BY <1>2, <1>3, <1>4, <1>6 DEF IInv, PlaceInv

LEMMA PollPopStep ==
  ASSUME IInv, NEW e \in PEs, PollPop(e)
  PROVE  IInv'
<1>0. /\ pc[e] = "poll" /\ running[e] = None
      /\ UNCHANGED <<away, done, direct_count, stop, defer, msg>>
  BY DEF PollPop, IInv, Stage
<1>1. CASE at[e] > PollLimit(e) /\ held[e] # None
  <2>1. TakeHeld(e) /\ UNCHANGED <<pool, at>>
    BY <1>1 DEF PollPop
  <2>2. held[e] \in Units
    BY <1>1 DEF IInv, TypeOK
  <2>3. pool' \in [Pools -> Seq(Units)] /\ Distinct' /\ \A u \in Units : Queued(u)' <=> Queued(u)
    BY <2>1, PoolSame DEF IInv, TypeOK, PlaceInv
  <2>4. run_thread(e, held[e]) /\ held' = [held EXCEPT ![e] = None] /\ at' = at
    BY <2>1 DEF TakeHeld
  <2> QED
    BY <1>0, <2>2, <2>3, <2>4, RunStep
<1>2. CASE at[e] > PollLimit(e) /\ held[e] = None
  <2>1. /\ pc' = [pc EXCEPT ![e] = "on"]
        /\ UNCHANGED <<pool, at, running, last_chain, ran, yielding, in_yield, held>>
    BY <1>2 DEF PollPop
  <2>2. TypeOK'
    BY <1>0, <2>1 DEF IInv, TypeOK
  <2>3. Stage' /\ Chain'
    BY <1>0, <2>1 DEF IInv, TypeOK, Stage, Chain
  <2>4. \A f \in PEs : pc'[f] = "post" <=> pc[f] = "post"
    BY <1>0, <2>1 DEF IInv, TypeOK
  <2> QED
    BY <1>0, <2>1, <2>2, <2>3, <2>4, PlacesSame DEF IInv
<1>3. CASE ~(at[e] > PollLimit(e))
  <2>1. at[e] \in 1..Len(Order)
    <3>1. PollLimit(e) \in Int /\ PollLimit(e) <= Len(Order) /\ at[e] \in Int /\ at[e] >= 1
      BY PoolFacts, IndexFacts, SMTT(30) DEF PollLimit, IInv, TypeOK
    <3> QED
      BY <1>3, <3>1, PoolFacts, SMTT(30)
  <2> PICK p \in Pools : p = Order[at[e]]
    BY <2>1, PoolFacts
  <2>2. CASE pool[p] # <<>>
    <3> PICK t : t = Head(pool[p])
      OBVIOUS
    <3>1. run_thread(e, t) /\ Popped(p) /\ at' = at /\ held' = held
      BY <1>3, <2>2 DEF PollPop
    <3>2. /\ pool' \in [Pools -> Seq(Units)] /\ t \in Units /\ Queued(t) /\ Distinct'
          /\ \A u \in Units : Queued(u)' <=> Queued(u) /\ u # t
      BY <2>2, <3>1, PopFacts DEF IInv, TypeOK, PlaceInv
    <3>3. held' = [held EXCEPT ![e] = held[e]] /\ held[e] \in {None, held[e]}
      BY <3>1 DEF IInv, TypeOK
    <3> QED
      BY <1>0, <3>1, <3>2, <3>3, RunStep
  <2>3. CASE pool[p] = <<>>
    <3>1. /\ UNCHANGED <<held, pool, running, pc, last_chain, ran, yielding, in_yield>>
          /\ \E i \in IF held[e] = None THEN pop_by_policy(at[e]) ELSE {at[e] + 1} :
               at' = [at EXCEPT ![e] = i]
      BY <1>3, <2>3 DEF PollPop
    <3>2. at' \in [PEs -> 1..Len(Order)+1]
      <4> PICK i \in IF held[e] = None THEN pop_by_policy(at[e]) ELSE {at[e] + 1} :
               at' = [at EXCEPT ![e] = i]
        BY <3>1
      <4>1. i \in 1..Len(Order)+1
        <5>1. CASE held[e] = None
          BY <2>1, <5>1, PolicyFacts
        <5>2. CASE held[e] # None
          BY <2>1, <5>2, PoolFacts, SMTT(30)
        <5> QED
          BY <5>1, <5>2
      <4> QED
        BY <4>1 DEF IInv, TypeOK
    <3>3. TypeOK'
      BY <1>0, <3>1, <3>2 DEF IInv, TypeOK
    <3>4. Stage' /\ Chain'
      BY <1>0, <3>1 DEF IInv, Stage, Chain
    <3> QED
      BY <1>0, <3>1, <3>3, <3>4, PlacesSame DEF IInv
  <2> QED
    BY <2>2, <2>3
<1> QED
  BY <1>1, <1>2, <1>3

-----------------------------------------------------------------------------
LEMMA TaskEndsStep ==
  ASSUME IInv, NEW e \in PEs, TaskEnds(e)
  PROVE  IInv'
<1> PICK u : u = running[e]
  OBVIOUS
<1>0. /\ pc[e] = "on" /\ u \in Tasks /\ u \in Units /\ u # None
      /\ running' = [running EXCEPT ![e] = None] /\ done' = done \cup {u}
      /\ UNCHANGED <<pool, away, held, direct_count, last_chain, yielding, stop, in_yield, pc, at, defer, ran, msg>>
  BY PoolFacts DEF TaskEnds
<1>1. TypeOK'
  BY <1>0 DEF IInv, TypeOK
<1>2. Stage'
  BY <1>0 DEF IInv, TypeOK, Stage
<1>3. Chain'
  BY <1>0 DEF IInv, TypeOK, Chain
<1>4. /\ \A f \in PEs : f # e => \A k \in Kinds : Has(f, k)' = Has(f, k)
      /\ Has(e, "held")' = Has(e, "held") /\ Has(e, "running")' = None /\ Has(e, "running") = u
      /\ Has(e, "leaving")' = None /\ Has(e, "leaving") = None
  <2>1. Sets(e, held[e], None, "on", defer[e])
    BY <1>0 DEF IInv, TypeOK, Stage, Sets
  <2>2. Has(e, "held") = held[e] /\ Has(e, "running") = u /\ Has(e, "leaving") = None
    BY <1>0, HasFacts
  <2> QED
    BY <2>1, <2>2, OthersKeep, SMTT(30)
<1>5. Distinct' /\ \A x \in Units : Queued(x)' <=> Queued(x)
  BY <1>0, PoolSame DEF IInv, PlaceInv
<1>6. ASSUME NEW x \in Units PROVE Single(x)'
  <2>1. Single(x) /\ x # None
    BY PoolFacts DEF IInv, PlaceInv
  <2> QED
    BY <1>0, <1>4, <1>5, <2>1, SMTT(30) DEF Single, Kinds
<1> QED
  BY <1>1, <1>2, <1>3, <1>5, <1>6 DEF IInv, PlaceInv

LEMMA PushStep ==
  ASSUME IInv, NEW u \in Units, Push(u)
  PROVE  IInv'
<1>0. /\ u \in away /\ away' = away \ {u} /\ pool' = [pool EXCEPT ![Home[u]] = Append(@, u)]
      /\ UNCHANGED <<done, running, held, direct_count, last_chain, yielding, stop, in_yield, pc, at, defer, ran, msg>>
  BY DEF Push
<1>1. \A e \in PEs : \A k \in Kinds : Has(e, k)' = Has(e, k)
  BY <1>0, HasFacts DEF Kinds
<1>2. Single(u) /\ ~Queued(u) /\ pool \in [Pools -> Seq(Units)] /\ Distinct
  BY <1>0 DEF IInv, PlaceInv, Single, TypeOK
<1>3. /\ pool' \in [Pools -> Seq(Units)] /\ Distinct'
      /\ \A x \in Units : Queued(x)' <=> Queued(x) \/ x = u
  BY <1>0, <1>2, PushFacts
<1>4. TypeOK'
  BY <1>0, <1>3 DEF IInv, TypeOK
<1>5. Stage' /\ Chain'
  BY <1>0 DEF IInv, Stage, Chain
<1>6. ASSUME NEW x \in Units PROVE Single(x)'
  <2>1. Single(x)
    BY DEF IInv, PlaceInv
  <2>2. CASE x = u
    BY <1>0, <1>1, <1>2, <1>3, <2>2, SMTT(30) DEF Single
  <2>3. CASE x # u
    BY <1>0, <1>1, <1>3, <2>1, <2>3, SMTT(30) DEF Single
  <2> QED
    BY <2>2, <2>3
<1> QED
  BY <1>3, <1>4, <1>5, <1>6 DEF IInv, PlaceInv

\* Steps about messages leave the units alone.
LEMMA MessageStep ==
  ASSUME IInv, NEW e \in PEs, HandleMessages(e) \/ Send(e)
  PROVE  IInv'
<1>0. /\ UNCHANGED <<pool, away, done, running, held, direct_count, last_chain, yielding, in_yield, pc, at, defer, ran>>
      /\ msg' \subseteq PEs /\ stop' \subseteq PEs
  BY DEF HandleMessages, Send, IInv, TypeOK
<1>1. TypeOK'
  BY <1>0 DEF IInv, TypeOK
<1>2. Stage' /\ Chain'
  BY <1>0 DEF IInv, Stage, Chain
<1> QED
  BY <1>0, <1>1, <1>2, PlacesSame DEF IInv

LEMMA NextIInv == IInv /\ [Next]_vars => IInv'
<1> SUFFICES ASSUME IInv, [Next]_vars PROVE IInv'
  OBVIOUS
<1>1. CASE UNCHANGED vars
  <2>1. UNCHANGED <<pool, away, done, running, held, direct_count, last_chain, yielding, stop, in_yield, pc, at, defer, ran, msg>>
    BY <1>1 DEF vars
  <2>2. TypeOK'
    BY <2>1 DEF IInv, TypeOK
  <2>3. Stage' /\ Chain'
    BY <2>1 DEF IInv, Stage, Chain
  <2> QED
    BY <2>1, <2>2, <2>3, PlacesSame DEF IInv
<1>2. ASSUME NEW e \in PEs, PEStep(e) \/ HandleMessages(e) \/ Send(e) PROVE IInv'
  BY <1>2, ChooseStep, TaskEndsStep, ChoosePopStep, PostSwitchStep, PollStep, PollPopStep, MessageStep
     DEF PEStep, UnitStep, Acts
<1>3. ASSUME NEW u \in Units, Push(u) PROVE IInv'
  BY <1>3, PushStep
<1> QED
  BY <1>1, <1>2, <1>3 DEF Next

LEMMA Invariance == Spec => []IInv
  BY InitIInv, NextIInv, PTL DEF Spec

-----------------------------------------------------------------------------
LEMMA IInvOnePlace == IInv => OnePlace
<1> SUFFICES ASSUME IInv, NEW u \in Units PROVE \E w \in Places(u) : Places(u) = {w}
  BY DEF OnePlace
<1>1. Distinct /\ Single(u)
  BY DEF IInv, PlaceInv
<1>i. \A w : w \in InPools(u) <=> \E p \in Pools : \E i \in 1..Len(pool[p]) : pool[p][i] = u /\ w = <<"in", p, i>>
  <2> TAKE w
  <2> DEFINE At(p) == {<<"in", p, i>> : i \in {j \in 1..Len(pool[p]) : pool[p][j] = u}}
  <2>1. \A p : w \in At(p) <=> \E i \in 1..Len(pool[p]) : pool[p][i] = u /\ w = <<"in", p, i>>
    <3> TAKE p
    <3>1. w \in At(p) <=> \E i \in {j \in 1..Len(pool[p]) : pool[p][j] = u} : w = <<"in", p, i>>
      OBVIOUS
    <3> QED
      BY <3>1
  <2>2. w \in InPools(u) <=> \E p \in Pools : w \in At(p)
    <3> DEFINE Ats == {At(p) : p \in Pools}
    <3>1. w \in InPools(u) <=> \E S \in Ats : w \in S
      BY DEF InPools
    <3>2. \A S : S \in Ats <=> \E p \in Pools : S = At(p)
      OBVIOUS
    <3> HIDE DEF At, Ats
    <3> QED
      BY <3>1, <3>2
  <2> HIDE DEF At
  <2> QED
    BY <2>1, <2>2
<1>o. \A w : w \in OnPEs(u) <=> \E e \in PEs : \E k \in Kinds : Has(e, k) = u /\ w = <<"on", e, k>>
  <2> TAKE w
  <2>1. ASSUME w \in OnPEs(u) PROVE \E e \in PEs : \E k \in Kinds : Has(e, k) = u /\ w = <<"on", e, k>>
    <3> PICK s \in PEs \X Kinds : Has(s[1], s[2]) = u /\ w = <<"on", s[1], s[2]>>
      BY <2>1 DEF Kinds, OnPEs
    <3>1. s[1] \in PEs /\ s[2] \in Kinds
      OBVIOUS
    <3> QED
      BY <3>1
  <2>2. ASSUME NEW e \in PEs, NEW k \in Kinds, Has(e, k) = u, w = <<"on", e, k>> PROVE w \in OnPEs(u)
    <3> PICK s : s = <<e, k>>
      OBVIOUS
    <3>0. s \in PEs \X Kinds /\ s[1] = e /\ s[2] = k
      OBVIOUS
    <3>1. s \in {r \in PEs \X {"held", "running", "leaving"} : Has(r[1], r[2]) = u} /\ w = <<"on", s[1], s[2]>>
      BY <2>2, <3>0 DEF Kinds
    <3> QED
      BY <3>1 DEF OnPEs
  <2> QED
    BY <2>1, <2>2
<1>e. \A w : w \in {<<x>> : x \in Outside(u)} <=> (u \in away /\ w = <<"away">>) \/ (u \in done /\ w = <<"done">>)
  <2>1. \A x : x \in Outside(u) <=> (u \in away /\ x = "away") \/ (u \in done /\ x = "done")
    BY DEF Outside
  <2>2. \A w : w \in {<<x>> : x \in Outside(u)} <=> \E x \in Outside(u) : w = <<x>>
    OBVIOUS
  <2>3. ASSUME NEW w PROVE (\E x \in Outside(u) : w = <<x>>)
                             <=> (u \in away /\ w = <<"away">>) \/ (u \in done /\ w = <<"done">>)
    <3>1. CASE u \in away
      BY <2>1, <3>1
    <3>2. CASE u \notin away
      BY <2>1, <3>2
    <3> QED
      BY <3>1, <3>2
  <2> QED
    BY <2>2, <2>3
<1>p. \A w : w \in Places(u) <=> w \in InPools(u) \/ w \in OnPEs(u) \/ w \in {<<x>> : x \in Outside(u)}
  BY DEF Places
<1>2. ASSUME NEW w \in Places(u)
      PROVE  \/ \E p \in Pools : \E i \in 1..Len(pool[p]) : pool[p][i] = u /\ w = <<"in", p, i>>
             \/ \E e \in PEs : \E k \in Kinds : Has(e, k) = u /\ w = <<"on", e, k>>
             \/ u \in away /\ w = <<"away">>
             \/ u \in done /\ w = <<"done">>
  BY <1>p, <1>i, <1>o, <1>e
<1>3. ASSUME NEW p \in Pools, NEW i \in 1..Len(pool[p]), pool[p][i] = u
      PROVE  <<"in", p, i>> \in Places(u)
  BY <1>3, <1>p, <1>i
<1>4. ASSUME NEW e \in PEs, NEW k \in Kinds, Has(e, k) = u PROVE <<"on", e, k>> \in Places(u)
  BY <1>4, <1>p, <1>o
<1>5. (u \in away => <<"away">> \in Places(u)) /\ (u \in done => <<"done">> \in Places(u))
  BY <1>p, <1>e
<1>6. \E w : w \in Places(u) /\ \A v \in Places(u) : v = w
  <2>1. CASE Queued(u)
    <3> PICK p \in Pools : \E i \in 1..Len(pool[p]) : pool[p][i] = u
      BY <2>1 DEF Queued
    <3> PICK i \in 1..Len(pool[p]) : pool[p][i] = u
      OBVIOUS
    <3>1. \A v \in Places(u) : v = <<"in", p, i>>
      BY <1>1, <1>2, <2>1, SMTT(30) DEF Single, Distinct
    <3> QED
      BY <1>3, <3>1
  <2>2. CASE u \in away \/ u \in done
    <3>1. ~Queued(u) /\ \A e \in PEs : \A k \in Kinds : Has(e, k) # u
      BY <1>1, <2>2 DEF Single
    <3>2. \A v \in Places(u) : (u \in away /\ v = <<"away">>) \/ (u \in done /\ v = <<"done">>)
      BY <1>2, <3>1 DEF Queued
    <3>3. ~(u \in away /\ u \in done)
      BY <1>1 DEF Single
    <3> QED
      BY <1>5, <2>2, <3>2, <3>3, SMTT(30)
  <2>3. ASSUME NEW e \in PEs, NEW k \in Kinds, Has(e, k) = u
        PROVE  \E w : w \in Places(u) /\ \A v \in Places(u) : v = w
    <3>1. \A v \in Places(u) : v = <<"on", e, k>>
      BY <1>1, <1>2, <2>3, SMTT(30) DEF Single, Queued
    <3> QED
      BY <1>4, <2>3, <3>1
  <2> QED
    BY <1>1, <2>1, <2>2, <2>3 DEF Single
<1> QED
  BY <1>6

\* For any PEs, units, pools and length of the chain: no unit is lost or run twice
\* through pops, direct switches, parking and what a ULT leaves to do after the
\* switch, and a poll reports as many units as ran (xstream.cpp:36-84,
\* sched.cpp:98-132).
THEOREM UnitsAlwaysKept == Spec => []UnitsKept
<1>1. IInv => UnitsKept
  <2>1. IInv => TypeOK /\ ReportExact
    BY DEF IInv, Chain, ReportExact
  <2> QED
    BY <2>1, IInvOnePlace DEF UnitsKept
<1> QED
  BY <1>1, Invariance, PTL


-----------------------------------------------------------------------------
\* The order of the units, on one PE.

Only == CHOOSE e \in PEs : TRUE

Sched == INSTANCE AbstractSched WITH
  queue <- Waiting(Only), cur <- Current(Only), away <- Away(Only)

\* One PE, whose scheduler takes its pools in their order, each listed once; units are
\* pushed by what runs on it.
Alone == /\ PEs = {Only} /\ ~External /\ ~Randws
         /\ \A i \in 1..Len(Order) : \A j \in 1..Len(Order) : Order[i] = Order[j] => i = j

\* Units are in their own pools; the pools before the one that is popped next are
\* empty; a ULT that yields has raised ABTI_yielding.
OrderInv ==
  /\ \A p \in Pools : \A i \in 1..Len(pool[p]) : Home[pool[p][i]] = p
  /\ pc[Only] \in {"choose", "poll"} => \A j \in 1..Len(Order) : j < at[Only] => pool[Order[j]] = <<>>
  /\ pc[Only] = "choose" /\ defer[Only][2] = "yield" => yielding[Only]

LEMMA Concat ==
  ASSUME NEW s \in Seq(Units)
  PROVE  /\ <<>> \o s = s /\ s \o <<>> = s
         /\ \A x \in Units : s \o <<x>> = Append(s, x) /\ Head(<<x>> \o s) = x /\ Tail(<<x>> \o s) = s
                            /\ <<x>> \o s # <<>>
         /\ s # <<>> => <<Head(s)>> \o Tail(s) = s
<1>1. <<>> \o s = s /\ s \o <<>> = s
  BY SMTT(30)
<1>2. ASSUME NEW x \in Units PROVE s \o <<x>> = Append(s, x)
  BY SMTT(30)
<1>3. ASSUME NEW x \in Units PROVE Head(<<x>> \o s) = x /\ <<x>> \o s # <<>>
  BY SMTT(30)
<1>4. ASSUME NEW x \in Units PROVE Tail(<<x>> \o s) = s
  BY SMTT(30)
<1>5. ASSUME s # <<>> PROVE <<Head(s)>> \o Tail(s) = s
  BY <1>5, SMTT(30)
<1> QED
  BY <1>1, <1>2, <1>3, <1>4, <1>5

LEMMA ConcatAppend ==
  ASSUME NEW s \in Seq(Units), NEW t \in Seq(Units), NEW x \in Units
  PROVE  s \o Append(t, x) = Append(s \o t, x) /\ s \o t \in Seq(Units)
  BY SMTT(30)

LEMMA ConcatTail ==
  ASSUME NEW s \in Seq(Units), NEW t \in Seq(Units), s # <<>>
  PROVE  s \o t # <<>> /\ Head(s \o t) = Head(s) /\ Tail(s \o t) = Tail(s) \o t
  BY SMTT(30)

\* The parked unit and what is behind it in its pool.
Parked(e, p) == IF held[e] # None /\ Home[held[e]] = p THEN <<held[e]>> ELSE <<>>

LEMMA WaitingIs ==
  ASSUME IInv, NEW e \in PEs, NEW p \in Pools
  PROVE  /\ Waiting(e)[p] = (Parked(e, p) \o pool[p]) \o Leaving(e, p)
         /\ Parked(e, p) \in Seq(Units) /\ Leaving(e, p) \in Seq(Units) /\ pool[p] \in Seq(Units)
         /\ Parked(e, p) \o pool[p] \in Seq(Units) /\ Waiting(e)[p] \in Seq(Units)
<1>1. Waiting(e)[p] = (Parked(e, p) \o pool[p]) \o Leaving(e, p)
  BY DEF Waiting, Parked
<1>2. Parked(e, p) \in Seq(Units) /\ pool[p] \in Seq(Units)
  BY SMTT(30) DEF IInv, TypeOK, Parked
<1>3. Leaving(e, p) \in Seq(Units)
  BY SMTT(30) DEF IInv, Stage, Leaving
<1> QED
  BY <1>1, <1>2, <1>3, SMTT(30)

\* The queue of one pool grows or shrinks, or none does.
BecomesAt(e, q, s) == \A p \in Pools : Waiting(e)'[p] = IF p = q THEN s ELSE Waiting(e)[p]

Replaced(e, q, s) == Waiting(e)' = [Waiting(e) EXCEPT ![q] = s]

LEMMA WaitingAfter ==
  ASSUME NEW e, NEW q \in Pools, NEW s, BecomesAt(e, q, s)
  PROVE  Replaced(e, q, s)
  BY DEF Waiting, BecomesAt, Replaced

LEMMA WaitingSame ==
  ASSUME NEW e, \A p \in Pools : Waiting(e)'[p] = Waiting(e)[p]
  PROVE  Waiting(e)' = Waiting(e)
  BY DEF Waiting

LEMMA InitOrderInv == Init /\ Alone => OrderInv
<1> SUFFICES ASSUME Init, Alone PROVE OrderInv
  OBVIOUS
<1>1. \A p \in Pools : Len(pool[p]) = 0
  BY DEF Init
<1>2. pc[Only] = "on"
  BY DEF Init, Alone
<1> QED
  BY <1>1, <1>2, SMTT(30) DEF OrderInv

\* The pools of e are as they were but for q, which lost its head or got x.
LEMMA HomesPopped ==
  ASSUME IInv, OrderInv, NEW q \in Pools, pool[q] # <<>>, Popped(q)
  PROVE  \A p \in Pools : \A i \in 1..Len(pool'[p]) : Home[pool'[p][i]] = p
<1> SUFFICES ASSUME NEW p \in Pools, NEW i \in 1..Len(pool'[p]) PROVE Home[pool'[p][i]] = p
  OBVIOUS
<1>1. CASE p = q
  <2>1. pool'[q] = Tail(pool[q]) /\ pool[q] \in Seq(Units)
    BY DEF Popped, IInv, TypeOK
  <2>2. i + 1 \in 1..Len(pool[q]) /\ pool'[q][i] = pool[q][i + 1]
    BY <1>1, <2>1, SMTT(30)
  <2> QED
    BY <1>1, <2>2, SMTT(30) DEF OrderInv
<1>2. CASE p # q
  <2>1. pool'[p] = pool[p]
    BY <1>2 DEF Popped, IInv, TypeOK
  <2> QED
    BY <2>1 DEF OrderInv
<1> QED
  BY <1>1, <1>2

LEMMA HomesPushed ==
  ASSUME IInv, OrderInv, NEW x \in Units, pool' = [pool EXCEPT ![Home[x]] = Append(@, x)]
  PROVE  \A p \in Pools : \A i \in 1..Len(pool'[p]) : Home[pool'[p][i]] = p
<1> SUFFICES ASSUME NEW p \in Pools, NEW i \in 1..Len(pool'[p]) PROVE Home[pool'[p][i]] = p
  OBVIOUS
<1>1. CASE p = Home[x]
  <2>1. pool'[p] = Append(pool[p], x) /\ pool[p] \in Seq(Units)
    BY <1>1 DEF IInv, TypeOK
  <2>2. \/ i \in 1..Len(pool[p]) /\ pool'[p][i] = pool[p][i]
        \/ pool'[p][i] = x
    BY <2>1, SMTT(30)
  <2> QED
    BY <1>1, <2>2, SMTT(30) DEF OrderInv
<1>2. CASE p # Home[x]
  <2>1. pool'[p] = pool[p]
    BY <1>2 DEF IInv, TypeOK
  <2> QED
    BY <2>1, SMTT(30) DEF OrderInv
<1> QED
  BY <1>1, <1>2

LEMMA AloneFacts ==
  ASSUME Alone
  PROVE  Only \in PEs /\ \A e \in PEs : e = Only
  BY DEF Alone

\* The pool of a unit is the one at its index.
LEMMA AloneIndex ==
  ASSUME Alone, NEW i \in 1..Len(Order)
  PROVE  pool_index(Order[i]) = i
<1>1. Order[i] \in Pools
  BY PoolFacts
<1>2. pool_index(Order[i]) \in 1..Len(Order) /\ Order[pool_index(Order[i])] = Order[i]
  BY <1>1, IndexFacts
<1> QED
  BY <1>2 DEF Alone

-----------------------------------------------------------------------------
\* Nothing changes that the order is about.
LEMMA Stutters ==
  ASSUME IInv, Alone, UNCHANGED <<pool, away, held, running, defer>>,
         pc'[Only] \in {"choose", "post"} <=> pc[Only] \in {"choose", "post"},
         Current(Only)' = Current(Only)
  PROVE  UNCHANGED Sched!avars
<1>1. \A p \in Pools : Leaving(Only, p)' = Leaving(Only, p) /\ Parked(Only, p)' = Parked(Only, p)
  BY DEF Leaving, Parked
<1>2. Waiting(Only)' = Waiting(Only)
  BY <1>1 DEF Waiting, Leaving
<1>3. Away(Only)' = Away(Only)
  BY DEF Away
<1> QED
  BY <1>2, <1>3 DEF Sched!avars

LEMMA NoneLeaving ==
  ASSUME IInv, NEW e \in PEs, pc[e] \notin {"choose", "post"}
  PROVE  /\ \A p \in Pools : Leaving(e, p) = <<>> /\ Waiting(e)[p] = Parked(e, p) \o pool[p]
         /\ Away(e) = away /\ Current(e) = running[e]
<1>1. \A p \in Pools : Leaving(e, p) = <<>>
  BY DEF Leaving
<1>2. Away(e) = away
  BY DEF Away, IInv, TypeOK
<1>3. Current(e) = running[e]
  BY DEF Current
<1>4. \A p \in Pools : Waiting(e)[p] = Parked(e, p) \o pool[p]
  <2> TAKE p \in Pools
  <2>1. Waiting(e)[p] = (Parked(e, p) \o pool[p]) \o <<>> /\ Parked(e, p) \o pool[p] \in Seq(Units)
    BY <1>1, WaitingIs
  <2> QED
    BY <2>1, SMTT(30)
<1> QED
  BY <1>1, <1>2, <1>3, <1>4

\* The same after a step that ends the poll.
LEMMA AfterPoll ==
  ASSUME IInv', NEW e \in PEs, pc'[e] = "on", away' \subseteq Units
  PROVE  /\ \A p \in Pools : Leaving(e, p)' = <<>> /\ Waiting(e)'[p] = Parked(e, p)' \o pool'[p]
                           /\ Waiting(e)'[p] \in Seq(Units)
         /\ Away(e)' = away' /\ Current(e)' = running'[e]
<1>1. \A p \in Pools : Leaving(e, p)' = <<>>
  BY DEF Leaving
<1>2. Away(e)' = away'
  BY DEF Away
<1>3. Current(e)' = running'[e]
  BY DEF Current
<1>4. ASSUME NEW p \in Pools
      PROVE  Waiting(e)'[p] = Parked(e, p)' \o pool'[p] /\ Waiting(e)'[p] \in Seq(Units)
  <2>1. Waiting(e)'[p] = (Parked(e, p)' \o pool'[p]) \o Leaving(e, p)'
    BY DEF Waiting, Parked
  <2>2. Parked(e, p)' \in Seq(Units) /\ pool'[p] \in Seq(Units)
    BY SMTT(30) DEF IInv, TypeOK, Parked
  <2> PICK k \in Seq(Units) : k = Parked(e, p)'
    BY <2>2
  <2> PICK l \in Seq(Units) : l = pool'[p]
    BY <2>2
  <2>3. (k \o l) \o <<>> = k \o l /\ k \o l \in Seq(Units)
    BY SMTT(30)
  <2>4. Leaving(e, p)' = <<>>
    BY <1>1
  <2> QED
    BY <2>1, <2>3, <2>4
<1> QED
  BY <1>1, <1>2, <1>3, <1>4

\* A ULT that suspends is pushed back, blocked or gone for the abstract scheduler.
LEMMA ChooseOrder ==
  ASSUME IInv, IInv', OrderInv, Alone, NEW act \in Acts, choose_fn(Only, act)
  PROVE  OrderInv' /\ Sched!ANext
<1> PICK e \in PEs : e = Only
  BY AloneFacts
<1> PICK u : u = running[e]
  OBVIOUS
<1>0. /\ u \in Units /\ pc[e] = "on" /\ u # None
      /\ defer' = [defer EXCEPT ![e] = <<u, act>>]
      /\ UNCHANGED <<pool, away, done, held, stop, msg>>
  BY PoolFacts DEF choose_fn, Suspending
<1>1. \/ pc'[e] = "choose" /\ at'[e] = 1
      \/ pc'[e] = "post" /\ running'[e] = None
  BY DEF choose_fn, Direct, ToSched, IInv, TypeOK
<1>2. defer'[e] = <<u, act>>
  BY <1>0 DEF IInv, Stage
<1>3. OrderInv'
  <2>1. act = "yield" => yielding'[e] = TRUE
    BY DEF choose_fn, Suspending, IInv, TypeOK
  <2>2. \A p \in Pools : \A i \in 1..Len(pool'[p]) : Home[pool'[p][i]] = p
    BY <1>0 DEF OrderInv
  <2>3. pc'[e] \in {"choose", "poll"} => \A j \in 1..Len(Order) : ~(j < at'[e])
    BY <1>1, SMTT(30)
  <2>4. pc'[e] = "choose" /\ defer'[e][2] = "yield" => yielding'[e]
    BY <1>2, <2>1, SMTT(30)
  <2> QED
    BY <2>2, <2>3, <2>4 DEF OrderInv
<1>4. /\ \A p \in Pools : Waiting(e)[p] = Parked(e, p) \o pool[p]
      /\ Away(e) = away /\ Current(e) = u
  BY <1>0, NoneLeaving
<1>5. Current(e)' = None
  BY <1>1 DEF Current
<1>6. \A p \in Pools : Waiting(e)'[p] = IF act = "yield" /\ Home[u] = p THEN Append(Waiting(e)[p], u) ELSE Waiting(e)[p]
  <2> TAKE p \in Pools
  <2>1. Leaving(e, p)' = IF act = "yield" /\ Home[u] = p THEN <<u>> ELSE <<>>
    BY <1>1, <1>2, SMTT(30) DEF Leaving
  <2>2. Parked(e, p)' = Parked(e, p) /\ pool' = pool
    BY <1>0 DEF Parked
  <2>3. Waiting(e)'[p] = (Parked(e, p) \o pool[p]) \o Leaving(e, p)' /\ Parked(e, p) \o pool[p] \in Seq(Units)
    BY <2>2, WaitingIs DEF Waiting, Parked
  <2>4. Waiting(e)[p] = Parked(e, p) \o pool[p]
    BY <1>4
  <2> PICK a \in Seq(Units) : a = Parked(e, p) \o pool[p]
    BY <2>3
  <2>7. a \o <<u>> = Append(a, u) /\ a \o <<>> = a
    BY <1>0, Concat, SMTT(30)
  <2>5. CASE act = "yield" /\ Home[u] = p
    BY <2>1, <2>3, <2>4, <2>5, <2>7
  <2>6. CASE ~(act = "yield" /\ Home[u] = p)
    BY <2>1, <2>3, <2>4, <2>6, <2>7
  <2> QED
    BY <2>5, <2>6
<1>7. CASE act = "yield"
  <2>1. Home[u] \in Pools
    BY <1>0, PoolFacts
  <2>2. Waiting(e)' = [Waiting(e) EXCEPT ![Home[u]] = Append(Waiting(e)[Home[u]], u)]
    <3> PICK q \in Pools : q = Home[u]
      BY <2>1
    <3>0. PICK s : s = Append(Waiting(e)[q], u)
      OBVIOUS
    <3>1. BecomesAt(e, q, s)
      BY <1>6, <1>7, <3>0 DEF BecomesAt
    <3>2. Waiting(e)' = [Waiting(e) EXCEPT ![q] = s]
      <4>1. Replaced(e, q, s)
        BY <3>1, WaitingAfter
      <4> QED
        BY <4>1 DEF Replaced
    <3> QED
      BY <3>0, <3>2
  <2>3. Away(e)' = away
    BY <1>0, <1>1, <1>2, <1>7, SMTT(30) DEF Away
  <2>4. Sched!Yield
    BY <1>0, <1>4, <1>5, <2>2, <2>3 DEF Sched!Yield
  <2> QED
    BY <1>3, <2>4 DEF Sched!ANext
<1>8. CASE act # "yield"
  <2>1. Waiting(e)' = Waiting(e)
    BY <1>6, <1>8, WaitingSame
  <2>2. Away(e)' \in {away, away \cup {u}}
    <3>1. CASE act = "block"
      <4>1. {x \in Units : defer'[e] = <<x, "block">>} = {u}
        BY <1>0, <1>2, <3>1, SMTT(30)
      <4> QED
        BY <1>0, <1>1, <4>1 DEF Away
    <3>2. CASE act = "exit"
      <4>1. {x \in Units : defer'[e] = <<x, "block">>} = {}
        BY <1>2, <3>2, SMTT(30)
      <4> QED
        BY <1>0, <1>1, <4>1 DEF Away
    <3> QED
      BY <1>8, <3>1, <3>2 DEF Acts
  <2>3. Sched!Leave
    BY <1>0, <1>4, <1>5, <2>1, <2>2 DEF Sched!Leave
  <2> QED
    BY <1>3, <2>3 DEF Sched!ANext
<1> QED
  BY <1>7, <1>8

\* A pop by a ULT: the unit is parked, which the abstract scheduler does not see, or
\* picked.
LEMMA ChoosePopOrder ==
  ASSUME IInv, IInv', OrderInv, Alone, ChoosePop(Only)
  PROVE  OrderInv' /\ (Sched!ANext \/ UNCHANGED Sched!avars)
<1> PICK e \in PEs : e = Only
  BY AloneFacts
<1>0. /\ pc[e] = "choose" /\ UNCHANGED <<away, done, yielding, stop, in_yield, defer, msg>>
      /\ held[e] = None /\ running[e] = defer[e][1] /\ running[e] \in Units
      /\ at[e] \in 1..Len(Order)+1 /\ Len(Order) \in Nat
  <2>1. pc[e] = "choose" /\ UNCHANGED <<away, done, yielding, stop, in_yield, defer, msg>>
    BY DEF ChoosePop
  <2>2. held[e] = None /\ running[e] = defer[e][1] /\ running[e] \in Units
    BY <2>1 DEF IInv, Stage
  <2>3. at[e] \in 1..Len(Order)+1
    BY DEF IInv, TypeOK
  <2> QED
    BY <2>1, <2>2, <2>3, PoolFacts
<1>1. CASE at[e] > Len(Order)
  <2>1. ToSched(e) /\ UNCHANGED <<pool, held, at>>
    BY <1>1 DEF ChoosePop
  <2>2. pc'[e] = "post" /\ running'[e] = None
    BY <2>1 DEF ToSched, IInv, TypeOK
  <2>3. OrderInv'
    BY <2>1, <2>2 DEF OrderInv
  <2>4. \A p \in Pools : Leaving(e, p)' = Leaving(e, p) /\ Parked(e, p)' = Parked(e, p)
    BY <1>0, <2>1, <2>2 DEF Leaving, Parked
  <2>5. Waiting(e)' = Waiting(e)
    BY <2>1, <2>4 DEF Waiting, Parked
  <2>6. Away(e)' = Away(e) /\ Current(e)' = Current(e)
    BY <1>0, <2>2 DEF Away, Current
  <2> QED
    BY <2>3, <2>5, <2>6 DEF Sched!avars
<1>2. CASE at[e] <= Len(Order) /\ pool[Order[at[e]]] = <<>>
  <2>1. /\ UNCHANGED <<pool, held, running, pc, direct_count, last_chain, ran>>
        /\ \E i \in pop_by_policy(at[e]) : at' = [at EXCEPT ![e] = i]
    <3>1. ~(at[e] > Len(Order))
      BY <1>0, <1>2, Around
    <3> QED
      BY <1>2, <3>1 DEF ChoosePop
  <2>2. at'[e] = at[e] + 1
    <3>1. at[e] \in 1..Len(Order)
      BY <1>0, <1>2, Around
    <3> QED
      BY <2>1, <3>1, PolicyFacts, SMTT(30) DEF Alone, IInv, TypeOK
  <2>3. OrderInv'
    <3>1. \A j \in 1..Len(Order) : j < at'[e] => pool[Order[j]] = <<>>
      <4> SUFFICES ASSUME NEW j \in 1..Len(Order), j < at'[e] PROVE pool[Order[j]] = <<>>
        OBVIOUS
      <4>1. j < at[e] \/ j = at[e]
        BY <1>0, <2>2, SMTT(30)
      <4> QED
        BY <1>0, <1>2, <4>1 DEF OrderInv
    <3> QED
      BY <1>0, <2>1, <3>1 DEF OrderInv
  <2>4. Current(e)' = Current(e)
    BY <2>1 DEF Current
  <2> QED
    BY <1>0, <2>1, <2>3, <2>4, Stutters
<1>3. CASE at[e] <= Len(Order) /\ pool[Order[at[e]]] # <<>>
  <2>a. at[e] \in 1..Len(Order)
    BY <1>0, <1>3, Around
  <2> PICK q \in Pools : q = Order[at[e]] /\ pool[q] # <<>>
    BY <1>3, <2>a, PoolFacts
  <2> PICK t : t = Head(pool[q])
    OBVIOUS
  <2>1. /\ Popped(q) /\ UNCHANGED at
        /\ \/ held' = [held EXCEPT ![e] = t] /\ ToSched(e)
           \/ /\ ~Park(e, t) /\ UNCHANGED <<held, last_chain>>
              /\ running' = [running EXCEPT ![e] = t] /\ pc' = [pc EXCEPT ![e] = "post"]
    <3>1. ~(at[e] > Len(Order))
      BY <1>0, <1>3, Around
    <3> QED
      BY <1>3, <3>1 DEF ChoosePop
  <2>2. pc'[e] = "post"
    BY <2>1 DEF ToSched, IInv, TypeOK
  <2>3. OrderInv'
    BY <2>1, <2>2, HomesPopped DEF OrderInv
  <2>4. /\ t \in Units /\ t # None /\ Home[t] = q /\ pool[q] \in Seq(Units) /\ pool'[q] = Tail(pool[q])
        /\ \A p \in Pools : p # q => pool'[p] = pool[p]
    <3>1. /\ pool[q] \in Seq(Units) /\ pool'[q] = Tail(pool[q])
          /\ \A p \in Pools : p # q => pool'[p] = pool[p]
      BY <2>1 DEF Popped, IInv, TypeOK
    <3>2. 1 \in 1..Len(pool[q]) /\ t = pool[q][1] /\ t \in Units
      BY <3>1, HeadFacts
    <3>3. t # None
      BY <3>2, PoolFacts
    <3>4. Home[t] = q
      <4>1. \A i \in 1..Len(pool[q]) : Home[pool[q][i]] = q
        BY DEF OrderInv
      <4> QED
        BY <3>2, <4>1
    <3> QED
      BY <3>1, <3>2, <3>3, <3>4
  <2>5. \A p \in Pools : /\ Leaving(e, p)' = Leaving(e, p) /\ Leaving(e, p) \in Seq(Units)
                         /\ Waiting(e)[p] = pool[p] \o Leaving(e, p) /\ pool[p] \in Seq(Units)
                         /\ Waiting(e)'[p] = (Parked(e, p)' \o pool'[p]) \o Leaving(e, p)
    <3> TAKE p \in Pools
    <3>1. Leaving(e, p)' = Leaving(e, p)
      BY <1>0, <2>2 DEF Leaving
    <3>2. Parked(e, p) = <<>>
      BY <1>0 DEF Parked
    <3>3. Waiting(e)[p] = (Parked(e, p) \o pool[p]) \o Leaving(e, p) /\ pool[p] \in Seq(Units) /\ Leaving(e, p) \in Seq(Units)
      BY WaitingIs
    <3>4. Waiting(e)'[p] = (Parked(e, p)' \o pool'[p]) \o Leaving(e, p)'
      BY DEF Waiting, Parked
    <3>5. <<>> \o pool[p] = pool[p]
      BY <3>3, Concat
    <3> QED
      BY <3>1, <3>2, <3>3, <3>4, <3>5
  <2>6. Away(e)' = Away(e) /\ Current(e) = None
    BY <1>0, <2>2 DEF Away, Current
  <2>7. CASE held' = [held EXCEPT ![e] = t] /\ ToSched(e)
    <3>1. running'[e] = None /\ held'[e] = t
      BY <2>7 DEF ToSched, IInv, TypeOK
    <3>2. Current(e)' = Current(e)
      BY <2>2, <2>6, <3>1 DEF Current
    <3>3. ASSUME NEW p \in Pools PROVE Waiting(e)'[p] = Waiting(e)[p]
      <4>1. CASE p = q
        <5>1. Parked(e, p)' = <<t>>
          BY <2>4, <3>1, <4>1 DEF Parked
        <5>2. <<t>> \o Tail(pool[q]) = pool[q]
          BY <2>4, Concat
        <5>3. /\ Waiting(e)'[p] = (Parked(e, p)' \o pool'[p]) \o Leaving(e, p)
              /\ Waiting(e)[p] = pool[p] \o Leaving(e, p)
          BY <2>5
        <5>4. pool'[p] = Tail(pool[q]) /\ pool[p] = pool[q]
          BY <2>4, <4>1
        <5> QED
          BY <5>1, <5>2, <5>3, <5>4
      <4>2. CASE p # q
        <5>1. Parked(e, p)' = <<>>
          BY <2>4, <3>1, <4>2 DEF Parked
        <5>2. <<>> \o pool[p] = pool[p]
          BY <2>5, Concat
        <5>3. /\ Waiting(e)'[p] = (Parked(e, p)' \o pool'[p]) \o Leaving(e, p)
              /\ Waiting(e)[p] = pool[p] \o Leaving(e, p)
          BY <2>5
        <5>4. pool'[p] = pool[p]
          BY <2>4, <4>2
        <5> QED
          BY <5>1, <5>2, <5>3, <5>4
      <4> QED
        BY <4>1, <4>2
    <3>4. Waiting(e)' = Waiting(e)
      BY <3>3, WaitingSame
    <3> QED
      BY <2>3, <2>6, <3>2, <3>4 DEF Sched!avars
  <2>8. CASE /\ ~Park(e, t) /\ UNCHANGED <<held, last_chain>>
             /\ running' = [running EXCEPT ![e] = t] /\ pc' = [pc EXCEPT ![e] = "post"]
    <3>1. Current(e)' = t
      BY <2>2, <2>8 DEF Current, IInv, TypeOK
    <3>2. \A p \in Pools : Parked(e, p)' = <<>>
      BY <1>0, <2>8 DEF Parked
    <3>3. \A p \in Pools : Waiting(e)'[p] = IF p = q THEN Tail(Waiting(e)[q]) ELSE Waiting(e)[p]
      <4> TAKE p \in Pools
      <4>1. Waiting(e)'[p] = pool'[p] \o Leaving(e, p) /\ Waiting(e)[p] = pool[p] \o Leaving(e, p)
        <5>1. pool'[p] \in Seq(Units) /\ Parked(e, p)' = <<>>
          BY <3>2 DEF IInv, TypeOK
        <5>2. <<>> \o pool'[p] = pool'[p]
          BY <5>1, Concat
        <5> QED
          BY <2>5, <5>1, <5>2
      <4>2. Tail(pool[q] \o Leaving(e, q)) = Tail(pool[q]) \o Leaving(e, q)
        BY <2>4, <2>5, ConcatTail
      <4>3. CASE p = q
        BY <2>4, <4>1, <4>2, <4>3
      <4>4. CASE p # q
        BY <2>4, <4>1, <4>4
      <4> QED
        BY <4>3, <4>4
    <3>4. Waiting(e)' = [Waiting(e) EXCEPT ![q] = Tail(Waiting(e)[q])]
      <4>0. PICK s : s = Tail(Waiting(e)[q])
        OBVIOUS
      <4>1. BecomesAt(e, q, s)
        BY <3>3, <4>0 DEF BecomesAt
      <4>2. Replaced(e, q, s)
        BY <4>1, WaitingAfter
      <4> QED
        BY <4>0, <4>2 DEF Replaced
    <3>5. Waiting(e)[q] # <<>> /\ Head(Waiting(e)[q]) = t
      <4>1. pool[q] \o Leaving(e, q) # <<>> /\ Head(pool[q] \o Leaving(e, q)) = Head(pool[q])
        BY <2>4, <2>5, ConcatTail
      <4>2. Waiting(e)[q] = pool[q] \o Leaving(e, q)
        BY <2>5
      <4> QED
        BY <4>1, <4>2
    <3>6. ASSUME NEW j \in 1..Len(Order), j < at[e] PROVE Waiting(e)[Order[j]] = <<>>
      <4> PICK p \in Pools : p = Order[j]
        BY PoolFacts
      <4>1. pool[p] = <<>>
        BY <1>0, <3>6 DEF OrderInv
      <4>2. Leaving(e, p) = <<>>
        <5>1. SUFFICES ASSUME defer[e][2] = "yield", Home[defer[e][1]] = p PROVE FALSE
          BY DEF Leaving
        <5>2. yielding[e]
          BY <1>0, <5>1 DEF OrderInv
        <5>3. ~(pool_index(Home[t]) > pool_index(Home[running[e]]))
          BY <2>8, <5>2 DEF Park
        <5>4. pool_index(Home[t]) = at[e] /\ pool_index(p) = j
          BY <2>4, <2>a, AloneIndex
        <5> QED
          BY <1>0, <3>6, <5>1, <5>3, <5>4
      <4> QED
        BY <2>5, <4>1, <4>2, SMTT(30)
    <3>7. Sched!Pick
      <4>1. /\ Waiting(e)[Order[at[e]]] # <<>>
            /\ \A j \in 1..at[e]-1 : Waiting(e)[Order[j]] = <<>>
            /\ Current(e)' = Head(Waiting(e)[Order[at[e]]])
            /\ Waiting(e)' = [Waiting(e) EXCEPT ![Order[at[e]]] = Tail(Waiting(e)[Order[at[e]]])]
        <5>1. \A j \in 1..at[e]-1 : j \in 1..Len(Order) /\ j < at[e]
          BY <1>0, <2>a, SMTT(30)
        <5> QED
          BY <3>1, <3>4, <3>5, <3>6, <5>1
      <4> QED
        BY <2>a, <2>6, <4>1 DEF Sched!Pick
    <3> QED
      BY <2>3, <3>7 DEF Sched!ANext
  <2> QED
    BY <2>1, <2>7, <2>8
<1>4. at[e] > Len(Order) \/ at[e] <= Len(Order)
  BY <1>0, Around
<1> QED
  BY <1>1, <1>2, <1>3, <1>4

\* What is done after the switch was done for the abstract scheduler already.
LEMMA PostSwitchOrder ==
  ASSUME IInv, IInv', OrderInv, Alone, PostSwitch(Only)
  PROVE  OrderInv' /\ UNCHANGED Sched!avars
<1> PICK e \in PEs : e = Only
  BY AloneFacts
<1> PICK u : u = defer[e][1]
  OBVIOUS
<1> PICK act : act = defer[e][2]
  OBVIOUS
<1>0. /\ pc[e] = "post" /\ pc' = [pc EXCEPT ![e] = "on"] /\ u \in Units /\ act \in Acts
      /\ pool' = IF act = "yield" THEN [pool EXCEPT ![Home[u]] = Append(@, u)] ELSE pool
      /\ away' = IF act = "block" THEN away \cup {u} ELSE away
      /\ UNCHANGED <<running, held>> /\ defer[e] = <<u, act>>
  <2>1. /\ pc[e] = "post" /\ pc' = [pc EXCEPT ![e] = "on"]
        /\ pool' = IF act = "yield" THEN [pool EXCEPT ![Home[u]] = Append(@, u)] ELSE pool
        /\ away' = IF act = "block" THEN away \cup {u} ELSE away
        /\ UNCHANGED <<running, held>>
    BY DEF PostSwitch
  <2>2. u \in Units /\ act \in Acts
    BY <2>1 DEF IInv, Stage
  <2>3. defer[e] \in (Units \cup {None}) \X (Acts \cup {"none"})
    BY DEF IInv, Stage
  <2>4. defer[e] = <<u, act>>
    BY <2>3, SMTT(30)
  <2> QED
    BY <2>1, <2>2, <2>4
<1>1. pc'[e] = "on"
  BY <1>0 DEF IInv, TypeOK
<1>2. OrderInv'
  <2>1. CASE act = "yield"
    BY <1>0, <1>1, <2>1, HomesPushed DEF OrderInv
  <2>2. CASE act # "yield"
    BY <1>0, <1>1, <2>2, Words DEF OrderInv
  <2> QED
    BY <2>1, <2>2
<1>3. Current(e)' = Current(e)
  BY <1>0, <1>1 DEF Current
<1>4. Away(e)' = Away(e)
  <2>1. Away(e)' = away'
    BY <1>1 DEF Away
  <2>2. CASE act = "block"
    <3>1. {x \in Units : defer[e] = <<x, "block">>} = {u}
      <4>1. \A x : <<u, act>> = <<x, "block">> <=> x = u /\ act = "block"
        OBVIOUS
      <4> QED
        BY <1>0, <2>2, <4>1
    <3> QED
      BY <1>0, <2>1, <2>2, <3>1 DEF Away
  <2>3. CASE act # "block"
    <3>1. {x \in Units : defer[e] = <<x, "block">>} = {}
      BY <1>0, <2>3, SMTT(30)
    <3> QED
      BY <1>0, <2>1, <2>3, <3>1 DEF Away
  <2> QED
    BY <2>2, <2>3
<1>5. ASSUME NEW p \in Pools PROVE Waiting(e)'[p] = Waiting(e)[p]
  <2>1. Parked(e, p)' = Parked(e, p)
    BY <1>0 DEF Parked
  <2>2. Leaving(e, p)' = <<>>
    BY <1>1 DEF Leaving
  <2>3. Waiting(e)'[p] = (Parked(e, p)' \o pool'[p]) \o Leaving(e, p)'
    BY DEF Waiting, Parked
  <2> PICK k \in Seq(Units) : k = Parked(e, p)
    BY WaitingIs
  <2> PICK s \in Seq(Units) : s = pool[p]
    BY WaitingIs
  <2>4. Waiting(e)[p] = (k \o s) \o Leaving(e, p)
    BY WaitingIs
  <2>5. CASE act = "yield" /\ Home[u] = p
    <3>1. pool'[p] = Append(s, u)
      BY <1>0, <2>5 DEF IInv, TypeOK
    <3>2. Leaving(e, p) = <<u>>
      BY <1>0, <2>5 DEF Leaving
    <3>3. k \o Append(s, u) = Append(k \o s, u) /\ k \o s \in Seq(Units)
      BY <1>0, ConcatAppend, SMTT(30)
    <3> PICK a \in Seq(Units) : a = k \o s
      BY <3>3
    <3>4. Append(a, u) \o <<>> = a \o <<u>>
      <4>1. u \in Units
        BY <1>0
      <4>2. Append(a, u) \in Seq(Units) /\ a \o <<u>> = Append(a, u)
        BY <4>1, SMTT(30)
      <4> QED
        BY <4>2, Concat
    <3> QED
      BY <2>1, <2>2, <2>3, <2>4, <3>1, <3>2, <3>3, <3>4
  <2>6. CASE ~(act = "yield" /\ Home[u] = p)
    <3>1. pool'[p] = s
      BY <1>0, <2>6 DEF IInv, TypeOK
    <3>2. Leaving(e, p) = <<>>
      BY <1>0, <2>6 DEF Leaving
    <3> QED
      BY <2>1, <2>2, <2>3, <2>4, <3>1, <3>2
  <2> QED
    BY <2>5, <2>6
<1>6. Waiting(e)' = Waiting(e)
  BY <1>5, WaitingSame
<1> QED
  BY <1>2, <1>3, <1>4, <1>6 DEF Sched!avars

-----------------------------------------------------------------------------
LEMMA PollOrder ==
  ASSUME IInv, IInv', OrderInv, Alone, poll_sched(Only)
  PROVE  OrderInv' /\ UNCHANGED Sched!avars
<1> PICK e \in PEs : e = Only
  BY AloneFacts
<1>1. /\ pc[e] = "on" /\ pc'[e] = "poll" /\ at'[e] = 1 /\ running[e] = None
      /\ UNCHANGED <<pool, away, held, running, defer>>
  BY DEF poll_sched, IInv, TypeOK
<1>2. OrderInv'
  <2>1. \A j \in 1..Len(Order) : ~(j < at'[e])
    BY <1>1, SMTT(30)
  <2>2. pc'[e] # "choose"
    BY <1>1
  <2> QED
    BY <1>1, <2>1, <2>2 DEF OrderInv
<1>3. Current(e)' = Current(e)
  BY <1>1 DEF Current
<1> QED
  BY <1>1, <1>2, <1>3, Stutters

\* A unit gets the PE from the poll: it is the first of the first pool that has one.
LEMMA PickOrder ==
  ASSUME IInv, IInv', NEW e \in PEs, e = Only, pc[e] = "poll", pc'[e] = "on", running[e] = None,
         NEW t \in Units, running'[e] = t, away' = away,
         NEW i \in 1..Len(Order),
         \A j \in 1..Len(Order) : j < i => Parked(e, Order[j]) = <<>> /\ pool[Order[j]] = <<>>,
         Parked(e, Order[i]) \o pool[Order[i]] = <<t>> \o (Parked(e, Order[i])' \o pool'[Order[i]]),
         \A p \in Pools : p # Order[i] => Parked(e, p)' = Parked(e, p) /\ pool'[p] = pool[p]
  PROVE  Sched!Pick
<1> PICK q \in Pools : q = Order[i]
  BY PoolFacts
<1>1. /\ \A p \in Pools : Waiting(e)[p] = Parked(e, p) \o pool[p]
      /\ Away(e) = away /\ Current(e) = None
  BY NoneLeaving
<1>2. /\ \A p \in Pools : Waiting(e)'[p] = Parked(e, p)' \o pool'[p] /\ Waiting(e)'[p] \in Seq(Units)
      /\ Away(e)' = away /\ Current(e)' = t
  <2>1. away' \subseteq Units
    BY DEF IInv, TypeOK
  <2> QED
    BY <2>1, AfterPoll
<1>s. PICK s \in Seq(Units) : s = Waiting(e)'[q]
  BY <1>2
<1>3. Waiting(e)[q] = <<t>> \o s
  BY <1>1, <1>2, <1>s
<1>4. Waiting(e)[q] # <<>> /\ Head(Waiting(e)[q]) = t /\ Tail(Waiting(e)[q]) = s
  <2>1. Head(<<t>> \o s) = t /\ Tail(<<t>> \o s) = s /\ <<t>> \o s # <<>>
    BY Concat
  <2> QED
    BY <1>3, <2>1
<1>5. BecomesAt(e, q, s)
  <2> SUFFICES ASSUME NEW p \in Pools, p # q PROVE Waiting(e)'[p] = Waiting(e)[p]
    BY <1>s DEF BecomesAt
  <2>1. Parked(e, p)' = Parked(e, p) /\ pool'[p] = pool[p]
    OBVIOUS
  <2>2. Waiting(e)'[p] = Parked(e, p)' \o pool'[p] /\ Waiting(e)[p] = Parked(e, p) \o pool[p]
    BY <1>1, <1>2
  <2> QED
    BY <2>1, <2>2
<1>6. Waiting(e)' = [Waiting(e) EXCEPT ![q] = s]
  <2>1. Replaced(e, q, s)
    BY <1>5, WaitingAfter
  <2> QED
    BY <2>1 DEF Replaced
<1>7. ASSUME NEW j \in 1..Len(Order), j < i PROVE Waiting(e)[Order[j]] = <<>>
  <2>1. Order[j] \in Pools /\ Parked(e, Order[j]) = <<>> /\ pool[Order[j]] = <<>>
    BY <1>7, PoolFacts
  <2>2. <<>> \o <<>> = <<>>
    BY NothingTwice
  <2> QED
    BY <1>1, <2>1, <2>2
<1>8. \A j \in 1..i-1 : j \in 1..Len(Order) /\ j < i
  BY PoolFacts, SMTT(30)
<1>9. \A j \in 1..i-1 : Waiting(e)[Order[j]] = <<>>
  BY <1>7, <1>8
<1>10. Waiting(e)' = [Waiting(e) EXCEPT ![Order[i]] = Tail(Waiting(e)[Order[i]])]
  BY <1>4, <1>6
<1>11. Current(e)' = Head(Waiting(e)[Order[i]]) /\ Waiting(e)[Order[i]] # <<>>
  BY <1>2, <1>4
<1>12. Current(e) = None /\ Away(e)' = Away(e)
  BY <1>1, <1>2
<1> QED
  BY <1>9, <1>10, <1>11, <1>12 DEF Sched!Pick

LEMMA PollPopOrder ==
  ASSUME IInv, IInv', OrderInv, Alone, PollPop(Only)
  PROVE  OrderInv' /\ (Sched!Pick \/ UNCHANGED Sched!avars)
<1> PICK e \in PEs : e = Only
  BY AloneFacts
<1>0. /\ pc[e] = "poll" /\ running[e] = None /\ UNCHANGED <<away, defer>>
      /\ \A j \in 1..Len(Order) : j < at[e] => pool[Order[j]] = <<>>
      /\ \A p \in Pools : \A i \in 1..Len(pool[p]) : Home[pool[p][i]] = p
  BY DEF PollPop, IInv, Stage, OrderInv
<1> PICK n \in Nat : n = Len(Order)
  BY PoolFacts
<1> PICK a \in 1..n+1 : a = at[e]
  BY DEF IInv, TypeOK
<1>1. CASE a > PollLimit(e) /\ held[e] # None
  <2> PICK t \in Units : t = held[e]
    BY <1>1 DEF IInv, TypeOK
  <2> PICK i \in 1..Len(Order) : i = pool_index(Home[t]) /\ Order[i] = Home[t]
    BY IndexFacts, PoolFacts
  <2>1. TakeHeld(e) /\ pool' = pool
    BY <1>1 DEF PollPop
  <2>2. pc'[e] = "on" /\ running'[e] = t /\ held'[e] = None
    BY <2>1 DEF TakeHeld, run_thread, IInv, TypeOK
  <2>3. a > i - 1
    BY <1>1 DEF PollLimit
  <2>4. \A j \in 1..Len(Order) : j < i => Order[j] # Order[i] /\ pool[Order[j]] = <<>>
    <3> SUFFICES ASSUME NEW j \in 1..Len(Order), j < i PROVE Order[j] # Order[i] /\ pool[Order[j]] = <<>>
      OBVIOUS
    <3>1. j < a /\ j # i
      BY <2>3, SMTT(30)
    <3> QED
      BY <1>0, <3>1 DEF Alone
  <2>5. \A p \in Pools : /\ Parked(e, p) = IF p = Order[i] THEN <<t>> ELSE <<>>
                        /\ Parked(e, p)' = <<>>
    BY <1>1, <2>2, PoolFacts DEF Parked
  <2>6. \A j \in 1..Len(Order) : j < i => Parked(e, Order[j]) = <<>> /\ pool[Order[j]] = <<>>
    BY <2>4, <2>5, PoolFacts
  <2>7. Parked(e, Order[i]) \o pool[Order[i]] = <<t>> \o (Parked(e, Order[i])' \o pool'[Order[i]])
    <3>1. Order[i] \in Pools
      BY PoolFacts
    <3> PICK s \in Seq(Units) : s = pool[Order[i]]
      BY <3>1 DEF IInv, TypeOK
    <3>2. <<>> \o s = s
      BY Concat
    <3> QED
      BY <2>1, <2>5, <3>1, <3>2
  <2>8. \A p \in Pools : p # Order[i] => Parked(e, p)' = Parked(e, p) /\ pool'[p] = pool[p]
    BY <2>1, <2>5
  <2>9. Sched!Pick
    BY <1>0, <2>2, <2>6, <2>7, <2>8, PickOrder
  <2>10. OrderInv'
    BY <1>0, <2>1, <2>2 DEF OrderInv
  <2> QED
    BY <2>9, <2>10
<1>2. CASE a > PollLimit(e) /\ held[e] = None
  <2>1. pc' = [pc EXCEPT ![e] = "on"] /\ UNCHANGED <<pool, running, held>>
    BY <1>2 DEF PollPop
  <2>2. pc'[e] = "on"
    BY <2>1 DEF IInv, TypeOK
  <2>3. OrderInv'
    <3>1. pc'[e] \notin {"choose", "poll"} /\ pc'[e] # "choose"
      BY <2>2, Words
    <3> QED
      BY <1>0, <2>1, <3>1 DEF OrderInv
  <2>4. Current(e)' = Current(e)
    BY <1>0, <2>1, <2>2 DEF Current
  <2> QED
    BY <1>0, <2>1, <2>2, <2>3, <2>4, Stutters
<1>3. CASE ~(a > PollLimit(e)) /\ pool[Order[a]] # <<>>
  <2>1. a \in 1..n /\ (held[e] # None => a < pool_index(Home[held[e]]))
    <3>1. CASE held[e] = None
      BY <1>3, <3>1, Around DEF PollLimit
    <3>2. CASE held[e] # None
      <4>1. held[e] \in Units
        BY <3>2 DEF IInv, TypeOK
      <4>2. pool_index(Home[held[e]]) \in 1..n
        BY <4>1, IndexFacts, PoolFacts
      <4> QED
        BY <1>3, <3>2, <4>2, SMTT(30) DEF PollLimit
    <3> QED
      BY <3>1, <3>2
  <2> PICK q \in Pools : q = Order[a]
    BY <2>1, PoolFacts
  <2> PICK t \in Units : t = Head(pool[q])
    BY <1>3, SMTT(30) DEF IInv, TypeOK
  <2>2. run_thread(e, t) /\ Popped(q) /\ held' = held
    BY <1>3 DEF PollPop
  <2>3. pc'[e] = "on" /\ running'[e] = t
    BY <2>2 DEF run_thread, IInv, TypeOK
  <2>4. ASSUME NEW j \in 1..Len(Order), j =< a PROVE Parked(e, Order[j]) = <<>>
    <3>1. CASE held[e] = None
      BY <3>1 DEF Parked
    <3>2. CASE held[e] # None
      <4>1. held[e] \in Units
        BY <3>2 DEF IInv, TypeOK
      <4> PICK k \in 1..Len(Order) : k = pool_index(Home[held[e]]) /\ Order[k] = Home[held[e]]
        BY <4>1, IndexFacts, PoolFacts
      <4>2. j < k
        <5>1. a < k
          BY <2>1, <3>2
        <5> QED
          BY <2>4, <5>1, Before
      <4>3. Order[j] # Order[k]
        BY <4>2, SMTT(30) DEF Alone
      <4> QED
        BY <4>3 DEF Parked
    <3> QED
      BY <3>1, <3>2
  <2>5. \A p \in Pools : Parked(e, p)' = Parked(e, p)
    BY <2>2 DEF Parked
  <2> PICK i \in 1..Len(Order) : i = a
    BY <2>1
  <2>6. \A j \in 1..Len(Order) : j < i => Parked(e, Order[j]) = <<>> /\ pool[Order[j]] = <<>>
    <3>1. \A j \in 1..Len(Order) : j < i => j =< a
      BY SMTT(30)
    <3> QED
      BY <1>0, <2>4, <3>1
  <2>7. Parked(e, Order[i]) \o pool[Order[i]] = <<t>> \o (Parked(e, Order[i])' \o pool'[Order[i]])
    <3>1. Parked(e, q) = <<>> /\ Parked(e, q)' = <<>>
      BY <2>1, <2>4, <2>5, SMTT(30)
    <3> PICK s \in Seq(Units) : s = pool[q]
      BY DEF IInv, TypeOK
    <3>2. pool'[q] = Tail(s)
      BY <2>2 DEF Popped, IInv, TypeOK
    <3>3. Tail(s) \in Seq(Units) /\ <<Head(s)>> \o Tail(s) = s
      <4>1. s # <<>>
        BY <1>3
      <4>2. Tail(s) \in Seq(Units)
        BY <4>1, SMTT(30)
      <4> QED
        BY <4>1, <4>2, Concat
    <3>4. <<>> \o s = s /\ <<>> \o Tail(s) = Tail(s)
      BY <3>3, Concat
    <3> QED
      BY <3>1, <3>2, <3>3, <3>4
  <2>8. \A p \in Pools : p # Order[i] => Parked(e, p)' = Parked(e, p) /\ pool'[p] = pool[p]
    BY <2>2, <2>5 DEF Popped, IInv, TypeOK
  <2>9. Sched!Pick
    BY <1>0, <2>1, <2>3, <2>6, <2>7, <2>8, PickOrder
  <2>10. \A p \in Pools : \A k \in 1..Len(pool'[p]) : Home[pool'[p][k]] = p
    BY <1>3, <2>2, HomesPopped
  <2>11. OrderInv'
    BY <2>3, <2>10 DEF OrderInv
  <2> QED
    BY <2>9, <2>11
<1>4. CASE ~(a > PollLimit(e)) /\ pool[Order[a]] = <<>>
  <2>1. a \in 1..n
    <3>1. CASE held[e] = None
      BY <1>4, <3>1, SMTT(30) DEF PollLimit
    <3>2. CASE held[e] # None
      <4>1. held[e] \in Units
        BY <3>2 DEF IInv, TypeOK
      <4>2. pool_index(Home[held[e]]) \in 1..n
        BY <4>1, IndexFacts, PoolFacts
      <4> QED
        BY <1>4, <3>2, <4>2, SMTT(30) DEF PollLimit
    <3> QED
      BY <3>1, <3>2
  <2>2. PICK i \in IF held[e] = None THEN pop_by_policy(a) ELSE {a + 1} : at' = [at EXCEPT ![e] = i]
    BY <1>4 DEF PollPop
  <2>3. UNCHANGED <<pool, running, pc, held>>
    BY <1>4 DEF PollPop
  <2>4. i = a + 1
    BY <2>1, <2>2, PolicyFacts DEF Alone
  <2>5. at'[e] = a + 1
    BY <2>2, <2>4 DEF IInv, TypeOK
  <2>6. \A j \in 1..Len(Order) : j < a + 1 => pool[Order[j]] = <<>>
    <3>1. \A j \in 1..Len(Order) : j < a + 1 => j < a \/ j = a
      BY <2>1, SMTT(30)
    <3> QED
      BY <1>0, <1>4, <3>1
  <2>7. OrderInv'
    BY <1>0, <2>3, <2>5, <2>6 DEF OrderInv
  <2>8. Current(e)' = Current(e)
    BY <2>3 DEF Current
  <2> QED
    BY <1>0, <2>3, <2>7, <2>8, Stutters
<1> QED
  BY <1>1, <1>2, <1>3, <1>4

-----------------------------------------------------------------------------
LEMMA TaskEndsOrder ==
  ASSUME IInv, IInv', OrderInv, Alone, TaskEnds(Only)
  PROVE  OrderInv' /\ Sched!Leave
<1> PICK e \in PEs : e = Only
  BY AloneFacts
<1>1. /\ pc[e] = "on" /\ running[e] # None /\ running'[e] = None
      /\ UNCHANGED <<pool, away, held, pc, defer, at, yielding>>
  BY PoolFacts DEF TaskEnds, IInv, TypeOK
<1>2. OrderInv'
  BY <1>1 DEF OrderInv
<1>3. Current(e) # None /\ Current(e)' = None
  BY <1>1 DEF Current
<1>4. Away(e)' = Away(e)
  BY <1>1 DEF Away
<1>5. \A p \in Pools : Leaving(e, p)' = Leaving(e, p)
  BY <1>1 DEF Leaving
<1>6. Waiting(e)' = Waiting(e)
  BY <1>1, <1>5 DEF Waiting
<1> QED
  BY <1>2, <1>3, <1>4, <1>6 DEF Sched!Leave

LEMMA PushOrder ==
  ASSUME IInv, IInv', OrderInv, Alone, NEW u \in Units, Push(u)
  PROVE  OrderInv' /\ Sched!Add(u)
<1> PICK e \in PEs : e = Only
  BY AloneFacts
<1>1. /\ pc[e] = "on" /\ u \in away /\ away' = away \ {u}
      /\ pool' = [pool EXCEPT ![Home[u]] = Append(@, u)]
      /\ UNCHANGED <<held, running, pc, defer, at, yielding>>
  BY DEF Push, Alone
<1>2. OrderInv'
  BY <1>1, HomesPushed DEF OrderInv
<1>3. Current(e)' = Current(e)
  BY <1>1 DEF Current
<1>4. /\ \A p \in Pools : Waiting(e)[p] = Parked(e, p) \o pool[p]
      /\ Away(e) = away
  BY <1>1, NoneLeaving
<1>5. /\ \A p \in Pools : Waiting(e)'[p] = Parked(e, p)' \o pool'[p]
      /\ Away(e)' = away'
  <2>1. away' \subseteq Units /\ pc'[e] = "on"
    BY <1>1 DEF IInv, TypeOK
  <2> QED
    BY <2>1, AfterPoll
<1> PICK q \in Pools : q = Home[u]
  BY PoolFacts
<1>s. PICK s : s = Append(Waiting(e)[q], u)
  OBVIOUS
<1>6. BecomesAt(e, q, s)
  <2> SUFFICES ASSUME NEW p \in Pools
               PROVE  Waiting(e)'[p] = IF p = q THEN s ELSE Waiting(e)[p]
    BY DEF BecomesAt
  <2>1. Parked(e, p)' = Parked(e, p)
    BY <1>1 DEF Parked
  <2>2. Waiting(e)'[p] = Parked(e, p)' \o pool'[p] /\ Waiting(e)[p] = Parked(e, p) \o pool[p]
    BY <1>4, <1>5
  <2> PICK k \in Seq(Units) : k = Parked(e, p)
    BY WaitingIs
  <2> PICK l \in Seq(Units) : l = pool[p]
    BY WaitingIs
  <2>3. CASE p = q
    <3>1. pool'[p] = Append(l, u)
      BY <1>1, <2>3 DEF IInv, TypeOK
    <3>2. k \o Append(l, u) = Append(k \o l, u)
      BY ConcatAppend, SMTT(30)
    <3> QED
      BY <1>s, <2>1, <2>2, <2>3, <3>1, <3>2
  <2>4. CASE p # q
    <3>1. pool'[p] = pool[p]
      BY <1>1, <2>4 DEF IInv, TypeOK
    <3> QED
      BY <2>1, <2>2, <2>4, <3>1
  <2> QED
    BY <2>3, <2>4
<1>7. Waiting(e)' = [Waiting(e) EXCEPT ![q] = s]
  <2>1. Replaced(e, q, s)
    BY <1>6, WaitingAfter
  <2> QED
    BY <2>1 DEF Replaced
<1>8. Waiting(e)' = [Waiting(e) EXCEPT ![Home[u]] = Append(Waiting(e)[Home[u]], u)]
  BY <1>s, <1>7
<1>9. u \in Away(e) /\ Away(e)' = Away(e) \ {u}
  BY <1>1, <1>4, <1>5
<1> QED
  BY <1>2, <1>3, <1>8, <1>9 DEF Sched!Add

LEMMA MessageOrder ==
  ASSUME IInv, IInv', OrderInv, Alone, NEW f \in PEs, HandleMessages(f) \/ Send(f)
  PROVE  OrderInv' /\ UNCHANGED Sched!avars
<1>1. UNCHANGED <<pool, away, held, running, defer, pc, at, yielding>>
  BY DEF HandleMessages, Send
<1>2. OrderInv'
  BY <1>1 DEF OrderInv
<1>3. Current(Only)' = Current(Only)
  BY <1>1 DEF Current
<1> QED
  BY <1>1, <1>2, <1>3, Stutters

LEMMA InitSched ==
  ASSUME Alone, Init
  PROVE  Sched!AInit
<1> PICK e \in PEs : e = Only
  BY AloneFacts
<1>1. pc[e] = "on" /\ running[e] = None /\ held[e] = None /\ away = Units
  BY DEF Init
<1>2. Current(e) = None /\ Away(e) = Units
  BY <1>1 DEF Current, Away
<1>3. Waiting(e) = [p \in Pools |-> <<>>]
  <2>1. \A p \in Pools : pool[p] = <<>> /\ Leaving(e, p) = <<>>
    BY <1>1 DEF Init, Leaving
  <2>2. <<>> \o <<>> = <<>>
    BY NothingTwice
  <2>3. \A p \in Pools : Waiting(e)[p] = (<<>> \o <<>>) \o <<>>
    BY <1>1, <2>1 DEF Waiting
  <2>4. \A p \in Pools : Waiting(e)[p] = <<>>
    BY <2>2, <2>3
  <2> QED
    BY <2>4 DEF Waiting
<1> QED
  BY <1>2, <1>3 DEF Sched!AInit, Sched!Pools, Pools

LEMMA NextOrder ==
  ASSUME Alone, IInv, IInv', OrderInv, [Next]_vars
  PROVE  OrderInv' /\ [Sched!ANext]_Sched!avars
<1>1. CASE UNCHANGED vars
  <2>1. UNCHANGED <<pool, away, held, running, defer, pc, at, yielding>>
    BY <1>1 DEF vars
  <2>2. OrderInv'
    BY <2>1 DEF OrderInv
  <2>3. Current(Only)' = Current(Only)
    BY <2>1 DEF Current
  <2> QED
    BY <2>1, <2>2, <2>3, Stutters
<1>2. ASSUME NEW e \in PEs, PEStep(e) PROVE OrderInv' /\ [Sched!ANext]_Sched!avars
  <2>0. e = Only
    BY AloneFacts
  <2>1. ASSUME NEW act \in Acts, choose_fn(Only, act) PROVE OrderInv' /\ [Sched!ANext]_Sched!avars
    BY <2>1, ChooseOrder DEF Sched!ANext
  <2>2. CASE TaskEnds(Only)
    BY <2>2, TaskEndsOrder DEF Sched!ANext
  <2>3. CASE ChoosePop(Only)
    BY <2>3, ChoosePopOrder DEF Sched!ANext
  <2>4. CASE PostSwitch(Only)
    BY <2>4, PostSwitchOrder
  <2>5. CASE poll_sched(Only)
    BY <2>5, PollOrder
  <2>6. CASE PollPop(Only)
    BY <2>6, PollPopOrder DEF Sched!ANext
  <2> QED
    BY <1>2, <2>0, <2>1, <2>2, <2>3, <2>4, <2>5, <2>6 DEF PEStep, UnitStep, Acts
<1>3. ASSUME NEW e \in PEs, HandleMessages(e) \/ Send(e) PROVE OrderInv' /\ [Sched!ANext]_Sched!avars
  BY <1>3, MessageOrder
<1>4. ASSUME NEW u \in Units, Push(u) PROVE OrderInv' /\ [Sched!ANext]_Sched!avars
  BY <1>4, PushOrder DEF Sched!ANext
<1> QED
  BY <1>1, <1>2, <1>3, <1>4 DEF Next

\* On one PE whose scheduler takes its pools in their order, and on which units are
\* pushed by what runs there, direct switches do not change the order: the units run in
\* the order in which a scheduler without them would run them, a parked unit being the
\* first of its pool (sched.cpp:114-132, xstream.cpp:45-83).
THEOREM DirectSwitchKeepsOrder ==
  ASSUME Alone
  PROVE  Spec => Sched!ASpec
<1>1. Init => OrderInv /\ Sched!AInit
  BY InitOrderInv, InitSched
<1>2. IInv /\ IInv' /\ OrderInv /\ [Next]_vars => OrderInv' /\ [Sched!ANext]_Sched!avars
  BY NextOrder
<1> QED
  BY <1>1, <1>2, Invariance, PTL DEF Spec, Sched!ASpec
=============================================================================
