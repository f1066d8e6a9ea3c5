----------------------------- MODULE KeysProofs -----------------------------
(* Proofs about Keys, for any number of ULTs, keys and values.                *)
EXTENDS Keys, SequenceTheorems, TLAPS

\* The table holds a key's own destructor, and holds it as long as the key is open;
\* an id is drawn once.
Table ==
  /\ \A k \in 1..Len(g_key_dtors) : g_key_dtors[k] # 0 => g_key_dtors[k] = k /\ k \in HasDtor
  /\ \A k \in open \cap HasDtor : k <= Len(g_key_dtors) /\ g_key_dtors[k] = k
  /\ \A k \in creating : k \notin open \cup freed
  /\ \A k \in creating \cup open \cup freed : k < next_key

\* A value is found in the slot it was set for and in no other.
Slots ==
  \A t \in Ults : \A k \in 1..Len(keys[t]) :
    keys[t][k] # 0 => keys[t][k] <= made /\ of[keys[t][k]] = <<t, k>>

Short == \A t \in Ults : Len(keys[t]) <= MaxKeys

\* The history of the values that were set, and of those that were not.
Known ==
  \A x \in Values : /\ x > made => by[x] = <<>> /\ of[x] = <<>>
                    /\ x <= made => of[x] \in Ults \X (open \cup freed)

\* Between the lookup and the call the slot still holds what was read.
Called ==
  \A t \in Ults :
    /\ pc[t] = "fn" => i[t] = 1
    /\ pc[t] = "call" =>
         /\ i[t] \in 1..Len(keys[t]) /\ v[t] = keys[t][i[t]] /\ v[t] # 0
         /\ d[t] # 0 => d[t] = i[t] /\ i[t] \in HasDtor
         /\ i[t] \in HasDtor \ freed => d[t] # 0

\* A destroyed value has left its slot.
Left ==
  \A x \in Values : by[x] # <<>> =>
    /\ by[x] = <<of[x][2]>> /\ of[x][2] \in HasDtor
    /\ \A t \in Ults : \A k \in 1..Len(keys[t]) : keys[t][k] # x

\* A value that is due is in its slot, and the pass has not come by.
Due(x) == x <= made /\ x \notin over \cup late /\ of[x][2] \in HasDtor \ freed /\ by[x] = <<>>
Ahead(t, k, x) == /\ k <= Len(keys[t]) /\ keys[t][k] = x /\ pc[t] # "done"
                  /\ i[t] <= k /\ (pc[t] = "dtor" => i[t] < k)
Awaited == \A x \in Values : Due(x) => Ahead(of[x][1], of[x][2], x)

IInv == TypeOK /\ Table /\ Slots /\ Short /\ Known /\ Called /\ Left /\ Awaited

-----------------------------------------------------------------------------
\* A vector with one element replaced.
LEMMA Replaced ==
  ASSUME NEW m \in Nat, NEW s \in Seq(0..m), NEW k \in 1..Len(s), NEW x \in 0..m
  PROVE  /\ [s EXCEPT ![k] = x] \in Seq(0..m) /\ Len([s EXCEPT ![k] = x]) = Len(s)
         /\ \A j \in 1..Len(s) : [s EXCEPT ![k] = x][j] = IF j = k THEN x ELSE s[j]
<1> DEFINE r == [s EXCEPT ![k] = x]
<1>1. Len(s) \in Nat /\ s \in [1..Len(s) -> 0..m]
  BY LenProperties
<1>2. r \in [1..Len(s) -> 0..m] /\ \A j \in 1..Len(s) : r[j] = IF j = k THEN x ELSE s[j]
  BY <1>1
<1> HIDE DEF r
<1>3. r \in Seq(0..m)
  BY <1>1, <1>2, SeqDef, ZenonT(60)
<1>4. Len(r) \in Nat /\ DOMAIN r = 1..Len(r)
  BY <1>3, LenProperties
<1>5. Len(r) = Len(s)
  BY <1>1, <1>2, <1>4
<1> QED
  BY <1>2, <1>3, <1>5 DEF r

\* A vector after a store: grown if need be, with null pointers between.
Put(s, k, x) == [Grown(s, k) EXCEPT ![k] = x]

LEMMA Stored ==
  ASSUME NEW m \in Nat, NEW s \in Seq(0..m), NEW k \in Nat \ {0}, NEW x \in 0..m
  PROVE  /\ Put(s, k, x) \in Seq(0..m) /\ Len(Put(s, k, x)) = IF Len(s) >= k THEN Len(s) ELSE k
         /\ k \in 1..Len(Put(s, k, x)) /\ Put(s, k, x)[k] = x
         /\ \A j \in 1..Len(Put(s, k, x)) : j # k => Put(s, k, x)[j] = IF j <= Len(s) THEN s[j] ELSE 0
<1> DEFINE g == Grown(s, k)
<1>0. Len(s) \in Nat /\ \A j \in 1..Len(s) : s[j] \in 0..m
  BY LenProperties, ElementOfSeq
<1>1. /\ g \in Seq(0..m) /\ Len(g) = IF Len(s) >= k THEN Len(s) ELSE k
      /\ \A j \in 1..Len(g) : g[j] = IF j <= Len(s) THEN s[j] ELSE 0
  <2>1. CASE Len(s) >= k
    BY <2>1, <1>0 DEF Grown
  <2>2. CASE ~(Len(s) >= k)
    <3>1. g = [j \in 1..k |-> IF j <= Len(s) THEN s[j] ELSE 0]
      BY <2>2 DEF Grown
    <3>2. g \in [1..k -> 0..m]
      BY <3>1, <1>0
    <3>3. g \in Seq(0..m)
      BY <3>2, SeqDef
    <3>4. Len(g) = k
      BY <3>2, <3>3, LenProperties
    <3> QED
      BY <3>1, <3>3, <3>4, <2>2
  <2> QED
    BY <2>1, <2>2
<1>2. k \in 1..Len(g)
  BY <1>0, <1>1
<1> HIDE DEF g
<1>3. Put(s, k, x) = [g EXCEPT ![k] = x]
  BY DEF g, Put
<1>4. /\ Put(s, k, x) \in Seq(0..m) /\ Len(Put(s, k, x)) = Len(g)
      /\ \A j \in 1..Len(g) : Put(s, k, x)[j] = IF j = k THEN x ELSE g[j]
  BY <1>1, <1>2, <1>3, Replaced
<1> QED
  BY <1>1, <1>2, <1>4

\* What a get sees.
LEMMA Got == ASSUME TypeOK, NEW t \in Ults, NEW k \in Ids
             PROVE get_specific(t, k) = IF k \in 1..Len(keys[t]) THEN keys[t][k] ELSE 0
<1>1. Len(keys[t]) \in Nat
  BY LenProperties DEF TypeOK
<1> QED
  BY <1>1, KeysAssumption DEF get_specific, Ids

-----------------------------------------------------------------------------
LEMMA InitIInv == Init => IInv
<1> SUFFICES ASSUME Init PROVE IInv
  OBVIOUS
<1>1. /\ <<>> \in Seq(0..MaxKeys) /\ <<>> \in Seq(0..MaxValues) /\ <<>> \in Seq(Ids)
      /\ Len(<<>>) = 0
  BY EmptySeq
<1>2. TypeOK
  BY <1>1, KeysAssumption DEF Init, TypeOK, Values
<1>3. Table /\ Slots /\ Short
  BY <1>1, KeysAssumption DEF Init, Table, Slots, Short
<1>4. Known /\ Called /\ Left /\ Awaited
  BY KeysAssumption DEF Init, Known, Called, Left, Awaited, Due, Values
<1> QED
  BY <1>2, <1>3, <1>4 DEF IInv

LEMMA StepCreate == ASSUME IInv, key_create PROVE IInv'
<1> USE DEF IInv, key_create, hist
<1>1. TypeOK'
  BY KeysAssumption DEF TypeOK, Ids
<1>2. Table'
  BY KeysAssumption DEF TypeOK, Table, Ids
<1>3. Slots' /\ Short' /\ Known' /\ Called' /\ Left' /\ Awaited'
  BY DEF Slots, Short, Known, Called, Left, Awaited, Due, Ahead
<1> QED
  BY <1>1, <1>2, <1>3

LEMMA StepEnter == ASSUME IInv, NEW k \in Ids, KeyEnter(k) PROVE IInv'
<1> USE DEF IInv
<1>k. /\ k \in creating /\ creating' = creating \ {k} /\ open' = open \cup {k}
      /\ g_key_dtors' = Put(g_key_dtors, k, IF k \in HasDtor THEN k ELSE 0)
      /\ next_key' = next_key /\ freed' = freed /\ keys' = keys /\ pc' = pc /\ i' = i /\ v' = v /\ d' = d
      /\ made' = made /\ of' = of /\ by' = by /\ over' = over /\ late' = late
  BY DEF KeyEnter, hist, Put
<1>0. /\ MaxKeys \in Nat /\ k \in Nat \ {0} /\ g_key_dtors \in Seq(0..MaxKeys)
      /\ (IF k \in HasDtor THEN k ELSE 0) \in 0..MaxKeys
  BY KeysAssumption DEF TypeOK, Ids
<1>a. /\ g_key_dtors' \in Seq(0..MaxKeys)
      /\ Len(g_key_dtors') = IF Len(g_key_dtors) >= k THEN Len(g_key_dtors) ELSE k
      /\ k \in 1..Len(g_key_dtors') /\ g_key_dtors'[k] = IF k \in HasDtor THEN k ELSE 0
      /\ \A j \in 1..Len(g_key_dtors') :
           j # k => g_key_dtors'[j] = IF j <= Len(g_key_dtors) THEN g_key_dtors[j] ELSE 0
  BY <1>k, <1>0, Stored
<1>b. Len(g_key_dtors) \in Nat /\ Len(g_key_dtors') \in Nat
  BY <1>0, <1>a, LenProperties
<1>1. TypeOK'
  BY <1>k, <1>a, SMTT(40) DEF TypeOK
<1>2. Table'
  <2>1. \A j \in 1..Len(g_key_dtors') : g_key_dtors'[j] # 0 => g_key_dtors'[j] = j /\ j \in HasDtor
    BY <1>a, <1>b DEF Table
  <2>2. ASSUME NEW j \in open' \cap HasDtor
        PROVE j <= Len(g_key_dtors') /\ g_key_dtors'[j] = j
    <3>1. CASE j = k
      BY <3>1, <1>a, <1>b, <2>2
    <3>2. CASE j # k
      <4>1. j \in open \cap HasDtor /\ j \in Nat \ {0}
        <5>1. j \in Ids /\ MaxKeys \in Nat
          BY <2>2, KeysAssumption
        <5> QED
          BY <5>1, <3>2, <2>2, <1>k DEF Ids
      <4>2. j <= Len(g_key_dtors) /\ g_key_dtors[j] = j
        BY <4>1 DEF Table
      <4> QED
        BY <3>2, <4>1, <4>2, <1>a, <1>b
    <3> QED
      BY <3>1, <3>2
  <2>3. /\ \A j \in creating' : j \notin open' \cup freed'
        /\ \A j \in creating' \cup open' \cup freed' : j < next_key'
    BY <1>k DEF Table
  <2> QED
    BY <2>1, <2>2, <2>3 DEF Table
<1>3. Slots' /\ Short' /\ Left'
  BY <1>k, Zenon DEF Slots, Short, Left
<1>4. Known'
  BY <1>k DEF Known
<1>5. Called' /\ Awaited'
  BY <1>k DEF Called, Awaited, Due, Ahead
<1> QED
  BY <1>1, <1>2, <1>3, <1>4, <1>5

LEMMA StepFree == ASSUME IInv, NEW k \in Ids, key_free(k) PROVE IInv'
<1> USE DEF IInv, key_free, hist
<1>0. /\ MaxKeys \in Nat /\ k \in Nat \ {0} /\ g_key_dtors \in Seq(0..MaxKeys) /\ 0 \in 0..MaxKeys
      /\ Len(g_key_dtors) \in Nat
  BY KeysAssumption, LenProperties DEF TypeOK, Ids
<1>a. /\ g_key_dtors' \in Seq(0..MaxKeys) /\ Len(g_key_dtors') = Len(g_key_dtors)
      /\ \A j \in 1..Len(g_key_dtors) : g_key_dtors'[j] = IF j = k THEN 0 ELSE g_key_dtors[j]
  <2>1. CASE k <= Len(g_key_dtors)
    BY <2>1, <1>0, Replaced
  <2>2. CASE ~(k <= Len(g_key_dtors))
    BY <2>2, <1>0
  <2> QED
    BY <2>1, <2>2
<1>1. TypeOK'
  BY <1>a, SMTT(40) DEF TypeOK
<1>2. Table'
  BY <1>0, <1>a, KeysAssumption, SMTT(40) DEF Table, TypeOK, Ids
<1>3. Slots' /\ Short' /\ Known' /\ Called' /\ Left' /\ Awaited'
  BY DEF Slots, Short, Known, Called, Left, Awaited, Due, Ahead
<1> QED
  BY <1>1, <1>2, <1>3

LEMMA StepSet == ASSUME IInv, NEW t \in Ults, NEW k \in Ids, NEW new \in 0..MaxValues,
                        set_specific(t, k, new)
                 PROVE IInv'
<1> USE DEF IInv
<1>k. /\ k \in open /\ pc[t] \in {"fn", "dtor"}
      /\ keys' = [keys EXCEPT ![t] = Put(keys[t], k, new)]
      /\ over' = over \cup ({get_specific(t, k)} \ {0})
      /\ next_key' = next_key /\ g_key_dtors' = g_key_dtors /\ creating' = creating /\ open' = open
      /\ freed' = freed /\ pc' = pc /\ i' = i /\ v' = v /\ d' = d /\ by' = by
  BY DEF set_specific, key_table, Put
<1>l. new = 0 => made' = made /\ of' = of /\ late' = late
  BY DEF set_specific
<1>m. new # 0 => /\ new = made + 1 /\ made' = new /\ of' = [of EXCEPT ![new] = <<t, k>>]
                 /\ late' = IF pc[t] = "dtor" /\ k <= i[t] THEN late \cup {new} ELSE late
  BY DEF set_specific
<1>0. /\ MaxKeys \in Nat /\ MaxValues \in Nat /\ k \in Nat \ {0} /\ made \in Nat
      /\ keys[t] \in Seq(0..MaxValues) /\ Len(keys[t]) \in Nat
  BY KeysAssumption, LenProperties DEF TypeOK, Ids
<1>a. /\ keys'[t] \in Seq(0..MaxValues)
      /\ Len(keys'[t]) = IF Len(keys[t]) >= k THEN Len(keys[t]) ELSE k
      /\ k \in 1..Len(keys'[t]) /\ keys'[t][k] = new
      /\ \A j \in 1..Len(keys'[t]) : j # k => keys'[t][j] = IF j <= Len(keys[t]) THEN keys[t][j] ELSE 0
  <2>1. keys'[t] = Put(keys[t], k, new)
    BY <1>k DEF TypeOK
  <2>2. new \in 0..MaxValues
    OBVIOUS
  <2> HIDE DEF IInv
  <2> QED
    BY <1>0, <2>1, <2>2, Stored, SMTT(40)
<1>b. \A u \in Ults : u # t => keys'[u] = keys[u]
  BY <1>k DEF TypeOK
<1>c. new # 0 => new \in Values /\ new = made + 1 /\ made' = new /\ of'[new] = <<t, k>> /\ by[new] = <<>>
  <2> SUFFICES ASSUME new # 0
               PROVE new \in Values /\ new = made + 1 /\ made' = new /\ of'[new] = <<t, k>> /\ by[new] = <<>>
    OBVIOUS
  <2>1. new \in Values /\ new = made + 1 /\ made' = new
    BY <1>m, <1>0 DEF Values
  <2>2. of'[new] = <<t, k>>
    BY <1>m, <2>1 DEF TypeOK
  <2>3. by[new] = <<>>
    BY <2>1, <1>0 DEF Known
  <2> QED
    BY <2>1, <2>2, <2>3
<1>d. \A x \in Values : x # new => of'[x] = of[x]
  BY <1>l, <1>m DEF TypeOK
<1>e. made' \in Nat /\ made <= made'
  BY <1>0, <1>c, <1>l
<1>f. \A u \in Ults : \A j \in 1..Len(keys'[u]) : keys'[u][j] # 0 =>
        \/ u = t /\ j = k /\ keys'[u][j] = new
        \/ j \in 1..Len(keys[u]) /\ keys'[u][j] = keys[u][j]
  <2> TAKE u \in Ults
  <2> TAKE j \in 1..Len(keys'[u])
  <2> HAVE keys'[u][j] # 0
  <2>1. CASE u # t
    BY <2>1, <1>b
  <2>2. CASE u = t /\ j = k
    BY <2>2, <1>a
  <2>3. CASE u = t /\ j # k
    <3>1. j \in 1..Len(keys'[t]) /\ Len(keys'[t]) \in Nat
      BY <2>3, <1>a, <1>0
    <3>2. keys'[t][j] = IF j <= Len(keys[t]) THEN keys[t][j] ELSE 0
      BY <3>1, <2>3, <1>a
    <3> QED
      BY <3>1, <3>2, <2>3, <1>0
  <2> QED
    BY <2>1, <2>2, <2>3
<1>g. \A u \in Ults : keys[u] \in Seq(0..MaxValues) /\ Len(keys[u]) \in Nat
                      /\ \A j \in 1..Len(keys[u]) : keys[u][j] \in 0..MaxValues
  BY LenProperties, ElementOfSeq, Zenon DEF TypeOK
<1>1. TypeOK'
  <2>1. keys' \in [Ults -> Seq(0..MaxValues)]
    <3>1. \A u \in Ults : keys'[u] \in Seq(0..MaxValues)
      BY <1>a, <1>b, <1>g
    <3> QED
      BY <3>1, <1>k DEF TypeOK
  <2>2. get_specific(t, k) \in 0..MaxValues
    BY <1>0, <1>g, Got
  <2>3. over' \subseteq Values
    <3>1. {get_specific(t, k)} \ {0} \subseteq Values
      BY <2>2, <1>0 DEF Values
    <3> QED
      BY <3>1, <1>k DEF TypeOK
  <2>4. of' \in [Values -> (Ults \X Ids) \cup {<<>>}]
    <3>1. of \in [Values -> (Ults \X Ids) \cup {<<>>}] /\ <<t, k>> \in (Ults \X Ids) \cup {<<>>}
      BY DEF TypeOK
    <3>2. CASE new = 0
      BY <3>1, <3>2, <1>l
    <3>3. CASE new # 0
      BY <3>1, <3>3, <1>m
    <3> QED
      BY <3>2, <3>3
  <2>5. late' \subseteq Values /\ made' \in 0..MaxValues
    BY <1>c, <1>l, <1>m, <1>0, SMTT(40) DEF TypeOK
  <2> QED
    BY <2>1, <2>3, <2>4, <2>5, <1>k DEF TypeOK
<1>2. Table'
  BY <1>k DEF Table
<1>3. Slots'
  <2> SUFFICES ASSUME NEW u \in Ults, NEW j \in 1..Len(keys'[u]), keys'[u][j] # 0
               PROVE keys'[u][j] <= made' /\ of'[keys'[u][j]] = <<u, j>>
    BY Zenon DEF Slots
  <2>1. CASE u = t /\ j = k /\ keys'[u][j] = new
    BY <2>1, <1>c, <1>0
  <2>2. CASE j \in 1..Len(keys[u]) /\ keys'[u][j] = keys[u][j]
    <3>1. keys[u][j] \in 0..MaxValues /\ keys[u][j] # 0
      BY <2>2, <1>g
    <3>2. keys[u][j] <= made /\ of[keys[u][j]] = <<u, j>>
      BY <2>2, <3>1, Zenon DEF Slots
    <3>3. keys[u][j] \in Values
      BY <3>1, <1>0 DEF Values
    <3> QED
      <4>1. keys[u][j] # new /\ keys[u][j] <= made'
        BY <3>1, <3>2, <1>c, <1>e, <1>0
      <4>2. of'[keys[u][j]] = of[keys[u][j]]
        BY <4>1, <3>3, <1>d
      <4> QED
        BY <4>1, <4>2, <3>2, <2>2
  <2> QED
    BY <2>1, <2>2, <1>f
<1>4. Short'
  <2>1. k <= MaxKeys /\ Len(keys[t]) <= MaxKeys
    BY <1>0 DEF Short, Ids
  <2>2. Len(keys'[t]) <= MaxKeys
    BY <2>1, <1>0, <1>a
  <2> QED
    BY <2>2, <1>b DEF Short
<1>5. Known'
  <2> SUFFICES ASSUME NEW x \in Values
               PROVE /\ x > made' => by'[x] = <<>> /\ of'[x] = <<>>
                     /\ x <= made' => of'[x] \in Ults \X (open' \cup freed')
    BY DEF Known
  <2>1. CASE x = new
    <3>1. made' = x /\ of'[x] = <<t, k>> /\ x \in Nat
      BY <2>1, <1>c, <1>0 DEF Values
    <3> QED
      BY <3>1, <1>k
  <2>2. CASE x # new
    <3>1. of'[x] = of[x] /\ by'[x] = by[x] /\ open' = open /\ freed' = freed
      BY <2>2, <1>d, <1>k
    <3>2. x <= made' => x <= made
      BY <2>2, <1>c, <1>l, <1>0 DEF Values
    <3>3. x > made' => x > made
      BY <1>e, <1>0 DEF Values
    <3> QED
      BY <3>1, <3>2, <3>3 DEF Known
  <2> QED
    BY <2>1, <2>2
<1>6. Called'
  <2>1. \A u \in Ults : pc[u] = "call" => keys'[u] = keys[u]
    BY <1>b, <1>k
  <2> QED
    BY <2>1, <1>k DEF Called
<1>7. Left'
  <2> SUFFICES ASSUME NEW x \in Values, by[x] # <<>>
               PROVE /\ by'[x] = <<of'[x][2]>> /\ of'[x][2] \in HasDtor
                     /\ \A u \in Ults : \A j \in 1..Len(keys'[u]) : keys'[u][j] # x
    BY <1>k DEF Left
  <2>1. of'[x] = of[x] /\ x # 0 /\ x # new
    BY <1>c, <1>d DEF Values
  <2> QED
    BY <2>1, <1>f, <1>k DEF Left
<1>8. Awaited'
  <2> SUFFICES ASSUME NEW x \in Values, Due(x)' PROVE Ahead(of[x][1], of[x][2], x)'
    BY DEF Awaited
  <2>1. CASE x = new
    <3>1. of'[x] = <<t, k>> /\ x \notin late' /\ new # 0
      BY <2>1, <1>c, <1>0 DEF Due, Values
    <3>2. i[t] \in Nat
      BY DEF TypeOK
    <3>3. pc[t] = "dtor" => i[t] < k
      BY <2>1, <3>1, <3>2, <1>0, <1>m
    <3>4. pc[t] = "fn" => i[t] = 1
      BY DEF Called
    <3>5. Ahead(t, k, x)'
      BY <2>1, <3>2, <3>3, <3>4, <1>a, <1>k, <1>0, SMTT(40) DEF Ahead
    <3> QED
      BY <3>1, <3>5
  <2>2. CASE x # new
    <3>1. x <= made /\ of'[x] = of[x] /\ Due(x)
      <4>1. of'[x] = of[x] /\ late \subseteq late' /\ over \subseteq over'
        BY <2>2, <1>d, <1>k, <1>l, <1>m, SMTT(40)
      <4>2. x <= made
        BY <2>2, <1>c, <1>l, <1>0, SMTT(40) DEF Due, Values
      <4> QED
        BY <4>1, <4>2, <1>k, SMTT(40) DEF Due
    <3>2. Ahead(of[x][1], of[x][2], x)
      BY <3>1 DEF Awaited
    <3>3. of[x] \in Ults \X Ids
      BY <3>1 DEF Known, TypeOK
    <3>4. PICK u \in Ults, j \in Ids : of[x] = <<u, j>>
      BY <3>3
    <3>5. ~(u = t /\ j = k)
      <4>1. SUFFICES ASSUME u = t, j = k PROVE FALSE
        OBVIOUS
      <4>2. get_specific(t, k) = x
        BY <4>1, <3>2, <3>4, <1>0, Got DEF Ahead, Ids
      <4>3. x \in over'
        BY <4>2, <1>k DEF Values
      <4> QED
        BY <4>3 DEF Due
    <3>6. j <= Len(keys'[u]) /\ keys'[u][j] = x
      <4>1. j <= Len(keys[u]) /\ keys[u][j] = x /\ j \in Nat \ {0}
        BY <3>2, <3>4, <1>0 DEF Ahead, Ids
      <4>2. CASE u = t
        <5>1. j # k /\ j <= Len(keys[t]) /\ keys[t][j] = x /\ j \in Nat \ {0}
          BY <4>1, <4>2, <3>5
        <5>2. j \in 1..Len(keys'[t])
          BY <5>1, <1>a, <1>0, SMTT(40)
        <5>3. keys'[t][j] = IF j <= Len(keys[t]) THEN keys[t][j] ELSE 0
          BY <5>1, <5>2, <1>a
        <5> QED
          BY <5>1, <5>2, <5>3, <4>2
      <4>3. CASE u # t
        BY <4>1, <4>3, <1>b
      <4> QED
        BY <4>2, <4>3
    <3> QED
      BY <3>1, <3>2, <3>4, <3>6, <1>k, SMTT(40) DEF Ahead
  <2> QED
    BY <2>1, <2>2
<1> QED
  BY <1>1, <1>2, <1>3, <1>4, <1>5, <1>6, <1>7, <1>8

\* The slots and the table stay, and so do the values.
Same == /\ next_key' = next_key /\ g_key_dtors' = g_key_dtors /\ creating' = creating /\ open' = open
        /\ freed' = freed /\ made' = made /\ of' = of /\ over' = over /\ late' = late
SameSlots == Same /\ keys' = keys /\ by' = by

LEMMA Unmoved == ASSUME IInv, SameSlots PROVE Table' /\ Slots' /\ Short' /\ Known' /\ Left'
<1>1. Table'
  BY DEF IInv, Table, SameSlots, Same
<1>2. Slots'
  BY Zenon DEF IInv, Slots, SameSlots, Same
<1>3. Short'
  BY DEF IInv, Short, SameSlots, Same
<1>4. Known'
  BY DEF IInv, Known, SameSlots, Same
<1>5. Left'
  BY DEF IInv, Left, SameSlots, Same
<1> QED
  BY <1>1, <1>2, <1>3, <1>4, <1>5

LEMMA StepMain == ASSUME IInv, NEW t \in Ults, thread_main(t) \/ DtorReturns(t) PROVE IInv'
<1> USE DEF IInv
<1>k. SameSlots /\ v' = v /\ d' = d
  BY DEF thread_main, DtorReturns, SameSlots, Same, key_table, hist
<1>l. /\ pc[t] \in {"fn", "dtor"} /\ pc' = [pc EXCEPT ![t] = "pass"]
      /\ i' = [i EXCEPT ![t] = IF pc[t] = "fn" THEN @ ELSE @ + 1]
  BY DEF thread_main, DtorReturns, TypeOK
<1>m. /\ pc'[t] = "pass" /\ i'[t] = (IF pc[t] = "fn" THEN i[t] ELSE i[t] + 1) /\ i[t] \in Nat \ {0}
      /\ \A u \in Ults : u # t => pc'[u] = pc[u] /\ i'[u] = i[u]
  BY <1>l DEF TypeOK
<1>1. TypeOK'
  BY <1>k, <1>l, SMTT(40) DEF TypeOK, SameSlots, Same
<1>2. Table' /\ Slots' /\ Short' /\ Known' /\ Left'
  BY <1>k, Unmoved
<1>3. Called'
  BY <1>k, <1>m, SMTT(40) DEF Called, SameSlots, Same
<1>4. Awaited'
  <2> SUFFICES ASSUME NEW x \in Values, Due(x) PROVE Ahead(of[x][1], of[x][2], x)'
    BY <1>k DEF Awaited, Due, SameSlots, Same
  <2>1. Ahead(of[x][1], of[x][2], x) /\ of[x] \in Ults \X Ids
    BY SMTT(40) DEF Awaited, Due, Known, TypeOK
  <2>2. PICK u \in Ults, j \in Ids : of[x] = <<u, j>>
    BY <2>1
  <2>3. j \in Nat
    BY KeysAssumption DEF Ids
  <2>4. Ahead(u, j, x)
    BY <2>1, <2>2
  <2>5. Ahead(u, j, x)'
    BY <2>3, <2>4, <1>k, <1>l, <1>m DEF Ahead, SameSlots, Same
  <2> QED
    BY <2>2, <2>5, <1>k DEF SameSlots, Same
<1> QED
  BY <1>1, <1>2, <1>3, <1>4

LEMMA StepPass == ASSUME IInv, NEW t \in Ults, run_key_destructors(t) PROVE IInv'
<1> USE DEF IInv
<1>k. SameSlots /\ pc[t] = "pass"
  BY DEF run_key_destructors, SameSlots, Same, key_table, hist
<1>l. \/ /\ i[t] > Len(keys[t]) /\ pc' = [pc EXCEPT ![t] = "done"] /\ i' = i /\ v' = v /\ d' = d
      \/ /\ ~(i[t] > Len(keys[t])) /\ keys[t][i[t]] = 0
         /\ pc' = pc /\ i' = [i EXCEPT ![t] = @ + 1] /\ v' = v /\ d' = d
      \/ /\ ~(i[t] > Len(keys[t])) /\ keys[t][i[t]] # 0
         /\ pc' = [pc EXCEPT ![t] = "call"] /\ i' = i
         /\ v' = [v EXCEPT ![t] = keys[t][i[t]]]
         /\ d' = [d EXCEPT ![t] = IF i[t] <= Len(g_key_dtors) THEN g_key_dtors[i[t]] ELSE 0]
  BY DEF run_key_destructors
<1>m. \A u \in Ults : u # t => pc'[u] = pc[u] /\ i'[u] = i[u] /\ v'[u] = v[u] /\ d'[u] = d[u]
  BY <1>l DEF TypeOK
<1>0. /\ keys[t] \in Seq(0..MaxValues) /\ Len(keys[t]) \in Nat /\ Len(keys[t]) <= MaxKeys
      /\ i[t] \in Nat \ {0} /\ made \in Nat /\ MaxValues \in Nat /\ MaxKeys \in Nat
      /\ g_key_dtors \in Seq(0..MaxKeys) /\ Len(g_key_dtors) \in Nat
  BY KeysAssumption, LenProperties DEF TypeOK, Short
<1>a. \A j \in 1..Len(keys[t]) : keys[t][j] \in 0..MaxValues
  BY <1>0, ElementOfSeq
<1>b. \A j \in 1..Len(g_key_dtors) : g_key_dtors[j] \in 0..MaxKeys
  BY <1>0, ElementOfSeq
<1>c. i[t] <= Len(keys[t]) => i[t] \in 1..Len(keys[t]) /\ i[t] \in Ids
  BY <1>0 DEF Ids
<1>1. TypeOK'
  <2>1. pc' \in [Ults -> {"fn", "pass", "call", "dtor", "done"}] /\ i' \in [Ults -> Nat \ {0}]
    <3>1. i[t] + 1 \in Nat \ {0}
      BY <1>0
    <3>2. pc' \in [Ults -> {"fn", "pass", "call", "dtor", "done"}]
      BY <1>l, Zenon DEF TypeOK
    <3>3. i' \in [Ults -> Nat \ {0}]
      BY <3>1, <1>l, SMTT(40) DEF TypeOK
    <3> QED
      BY <3>2, <3>3
  <2>2. v' \in [Ults -> 0..MaxValues]
    <3>1. ~(i[t] > Len(keys[t])) => keys[t][i[t]] \in 0..MaxValues
      BY <1>0, <1>a, <1>c
    <3> QED
      BY <3>1, <1>l, Zenon DEF TypeOK
  <2>3. d' \in [Ults -> 0..MaxKeys]
    <3>1. (IF i[t] <= Len(g_key_dtors) THEN g_key_dtors[i[t]] ELSE 0) \in 0..MaxKeys
      BY <1>0, <1>b
    <3> QED
      BY <3>1, <1>l, SMTT(40) DEF TypeOK
  <2> QED
    BY <2>1, <2>2, <2>3, <1>k, Zenon DEF TypeOK, SameSlots, Same
<1>2. Table' /\ Slots' /\ Short' /\ Known' /\ Left'
  BY <1>k, Unmoved
<1>3. Called'
  <2>1. ASSUME pc'[t] = "call"
        PROVE /\ i'[t] \in 1..Len(keys[t]) /\ v'[t] = keys[t][i'[t]] /\ v'[t] # 0
              /\ d'[t] # 0 => d'[t] = i'[t] /\ i'[t] \in HasDtor
              /\ i'[t] \in HasDtor \ freed => d'[t] # 0
    <3>1. /\ i[t] \in 1..Len(keys[t]) /\ keys[t][i[t]] # 0 /\ i' = i /\ v'[t] = keys[t][i[t]]
          /\ d'[t] = IF i[t] <= Len(g_key_dtors) THEN g_key_dtors[i[t]] ELSE 0
      BY <2>1, <1>0, <1>c, <1>k, <1>l, SMTT(40) DEF TypeOK
    <3>2. i[t] \in open \cup freed
      <4>0. keys[t][i[t]] \in Values
        BY <3>1, <1>a, <1>0, SMTT(40) DEF Values
      <4>1. keys[t][i[t]] <= made /\ of[keys[t][i[t]]] = <<t, i[t]>>
        BY <3>1, Zenon DEF Slots
      <4>2. <<t, i[t]>> \in Ults \X (open \cup freed)
        BY <4>0, <4>1 DEF Known
      <4> QED
        BY <4>2
    <3>3. d'[t] # 0 => d'[t] = i[t] /\ i[t] \in HasDtor
      BY <3>1, <1>0 DEF Table
    <3>4. i[t] \in HasDtor \ freed => d'[t] # 0
      BY <3>1, <3>2, <1>0 DEF Table
    <3> QED
      BY <3>1, <3>3, <3>4
  <2>2. pc'[t] # "fn"
    BY <1>k, <1>l DEF TypeOK
  <2> QED
    BY <2>1, <2>2, <1>m, <1>k, SMTT(40) DEF Called, SameSlots, Same
<1>4. Awaited'
  <2> SUFFICES ASSUME NEW x \in Values, Due(x) PROVE Ahead(of[x][1], of[x][2], x)'
    BY <1>k DEF Awaited, Due, SameSlots, Same
  <2>1. Ahead(of[x][1], of[x][2], x) /\ of[x] \in Ults \X Ids
    BY DEF Awaited, Due, Known, TypeOK
  <2>2. PICK u \in Ults, j \in Ids : of[x] = <<u, j>>
    BY <2>1
  <2>3. j \in Nat /\ x # 0
    BY KeysAssumption, SMTT(40) DEF Ids, Values
  <2>4. Ahead(u, j, x)
    BY <2>1, <2>2
  <2>5. Ahead(u, j, x)'
    <3>1. CASE u = t
      <4>1. i[t] <= Len(keys[t]) /\ (keys[t][i[t]] = 0 => i[t] < j)
        BY <2>3, <2>4, <3>1, <1>0 DEF Ahead
      <4>2. pc'[t] \in {"pass", "call"} /\ i'[t] <= j
        BY <4>1, <2>3, <2>4, <3>1, <1>0, <1>k, <1>l DEF Ahead, TypeOK
      <4> QED
        BY <4>2, <2>4, <3>1, <1>k DEF Ahead, SameSlots, Same
    <3>2. CASE u # t
      BY <2>4, <3>2, <1>m, <1>k DEF Ahead, SameSlots, Same
    <3> QED
      BY <3>1, <3>2
  <2> QED
    BY <2>2, <2>5, <1>k, SMTT(40) DEF SameSlots, Same
<1> QED
  BY <1>1, <1>2, <1>3, <1>4, SMTT(40)

LEMMA StepCall == ASSUME IInv, NEW t \in Ults, CallDtor(t) PROVE IInv'
<1> USE DEF IInv
<1>x. PICK x : x = v[t]
  OBVIOUS
<1>y. PICK k : k = i[t]
  OBVIOUS
<1>k. Same /\ v' = v /\ d' = d /\ pc[t] = "call" /\ keys' = [keys EXCEPT ![t] = [keys[t] EXCEPT ![k] = 0]]
  BY <1>y DEF CallDtor, Same, key_table
<1>l. IF d[t] # 0 THEN /\ pc' = [pc EXCEPT ![t] = "dtor"] /\ i' = i
                       /\ by' = [by EXCEPT ![x] = Append(@, d[t])]
      ELSE pc' = [pc EXCEPT ![t] = "pass"] /\ i' = [i EXCEPT ![t] = @ + 1] /\ by' = by
  BY <1>x DEF CallDtor
<1>m. \A u \in Ults : u # t => pc'[u] = pc[u] /\ i'[u] = i[u] /\ keys'[u] = keys[u]
  BY <1>k, <1>l DEF TypeOK
<1>0. /\ keys[t] \in Seq(0..MaxValues) /\ Len(keys[t]) \in Nat
      /\ k \in 1..Len(keys[t]) /\ x = keys[t][k] /\ x # 0 /\ k \in Nat \ {0}
      /\ d[t] # 0 => d[t] = k /\ k \in HasDtor
      /\ k \in HasDtor \ freed => d[t] # 0
      /\ made \in Nat /\ MaxValues \in Nat /\ 0 \in 0..MaxValues
  BY <1>x, <1>y, <1>k, KeysAssumption, LenProperties, SMTT(40) DEF TypeOK, Called
<1>a. x \in Values /\ x <= made /\ of[x] = <<t, k>> /\ by[x] = <<>>
  <2>1. x \in Values
    BY <1>0, ElementOfSeq DEF Values
  <2>2. x <= made /\ of[x] = <<t, k>>
    BY <1>0 DEF Slots
  <2>3. by[x] = <<>>
    BY <1>0, <2>1, SMTT(40) DEF Left
  <2> QED
    BY <2>1, <2>2, <2>3
<1>b. /\ keys'[t] \in Seq(0..MaxValues) /\ Len(keys'[t]) = Len(keys[t])
      /\ \A j \in 1..Len(keys[t]) : keys'[t][j] = IF j = k THEN 0 ELSE keys[t][j]
  <2>1. keys'[t] = [keys[t] EXCEPT ![k] = 0]
    BY <1>k DEF TypeOK
  <2> QED
    BY <2>1, <1>0, Replaced
<1>d. d[t] # 0 => k \in HasDtor /\ by' = [by EXCEPT ![x] = <<k>>] /\ by'[x] = <<k>>
  BY <1>0, <1>a, <1>l, SMTT(40) DEF TypeOK
<1>e. d[t] = 0 => by' = by
  BY <1>l
<1>f. \A u \in Ults : \A j \in 1..Len(keys'[u]) : keys'[u][j] # 0 =>
        j \in 1..Len(keys[u]) /\ keys'[u][j] = keys[u][j] /\ ~(u = t /\ j = k)
  BY <1>b, <1>m
<1>g. \A y \in Values : y # x => by'[y] = by[y]
  BY <1>d, <1>e DEF TypeOK
<1>1. TypeOK'
  <2>1. \A u \in Ults : keys'[u] \in Seq(0..MaxValues)
    BY <1>b, <1>m, Zenon DEF TypeOK
  <2>2. keys' \in [Ults -> Seq(0..MaxValues)]
    BY <2>1, <1>k, Zenon DEF TypeOK
  <2>3. by' \in [Values -> Seq(Ids)]
    <3>1. k \in HasDtor => <<k>> \in Seq(Ids)
      BY KeysAssumption
    <3> QED
      BY <3>1, <1>d, <1>e, Zenon DEF TypeOK
  <2>4. pc' \in [Ults -> {"fn", "pass", "call", "dtor", "done"}]
    BY <1>l, Zenon DEF TypeOK
  <2>5. i' \in [Ults -> Nat \ {0}]
    <3>1. i[t] + 1 \in Nat \ {0}
      BY DEF TypeOK
    <3> QED
      BY <3>1, <1>l, Zenon DEF TypeOK
  <2> QED
    BY <2>2, <2>3, <2>4, <2>5, <1>k DEF TypeOK, Same
<1>2. Table'
  BY <1>k, SMTT(40) DEF Table, Same
<1>h. \A u \in Ults : \A j \in 1..Len(keys'[u]) : keys'[u][j] # 0 =>
        keys'[u][j] <= made /\ of[keys'[u][j]] = <<u, j>> /\ ~(u = t /\ j = k)
  <2> TAKE u \in Ults
  <2> TAKE j \in 1..Len(keys'[u])
  <2> HAVE keys'[u][j] # 0
  <2>1. j \in 1..Len(keys[u]) /\ keys'[u][j] = keys[u][j] /\ ~(u = t /\ j = k)
    BY <1>f
  <2>2. keys[u][j] <= made /\ of[keys[u][j]] = <<u, j>>
    BY <2>1, Zenon DEF Slots
  <2> QED
    BY <2>1, <2>2, SMTT(40)
<1>3. Slots'
  BY <1>h, <1>k, ZenonT(60) DEF Slots, Same
<1>4. Short'
  BY <1>b, <1>m DEF Short
<1>5. Known'
  <2>1. \A y \in Values : y > made => by'[y] = by[y]
    BY <1>a, <1>g, <1>0 DEF Values
  <2> QED
    BY <2>1, <1>k DEF Known, Same
<1>6. Called'
  <2>1. pc'[t] \in {"dtor", "pass"}
    BY <1>l DEF TypeOK
  <2> QED
    BY <2>1, <1>m, <1>k DEF Called, Same
<1>7. Left'
  <2> SUFFICES ASSUME NEW y \in Values, by'[y] # <<>>
               PROVE /\ by'[y] = <<of[y][2]>> /\ of[y][2] \in HasDtor
                     /\ \A u \in Ults : \A j \in 1..Len(keys'[u]) : keys'[u][j] # y
    BY <1>k DEF Left, Same
  <2>1. CASE y = x
    <3>1. by'[y] = <<k>> /\ k \in HasDtor
      BY <2>1, <1>a, <1>d, <1>e
    <3>2. \A u \in Ults : \A j \in 1..Len(keys'[u]) : keys'[u][j] # x
      <4> SUFFICES ASSUME NEW u \in Ults, NEW j \in 1..Len(keys'[u]), keys'[u][j] = x PROVE FALSE
        BY SMTT(40)
      <4>1. of[x] = <<u, j>> /\ ~(u = t /\ j = k)
        BY <1>h, <1>0, Zenon
      <4> QED
        BY <4>1, <1>a
    <3> QED
      BY <3>1, <3>2, <2>1, <1>a
  <2>2. CASE y # x
    <3>1. by'[y] = by[y] /\ y # 0
      BY <2>2, <1>g DEF Values
    <3> QED
      BY <3>1, <1>f DEF Left
  <2> QED
    BY <2>1, <2>2
<1>8. Awaited'
  <2> SUFFICES ASSUME NEW y \in Values, Due(y)' PROVE Ahead(of[y][1], of[y][2], y)'
    BY DEF Awaited
  <2>0. y <= made /\ y \notin over \cup late /\ of[y][2] \in HasDtor \ freed /\ by'[y] = <<>>
    BY <1>k DEF Due, Same
  <2>1. y # x
    <3>1. SUFFICES ASSUME y = x PROVE FALSE
      OBVIOUS
    <3>2. d[t] # 0
      BY <3>1, <2>0, <1>a, <1>0
    <3> QED
      BY <3>1, <3>2, <2>0, <1>d
  <2>2. Due(y)
    BY <2>0, <2>1, <1>g, SMTT(40) DEF Due
  <2>3. Ahead(of[y][1], of[y][2], y) /\ of[y] \in Ults \X Ids
    BY <2>2 DEF Awaited, Due, Known, TypeOK
  <2>4. PICK u \in Ults, j \in Ids : of[y] = <<u, j>>
    BY <2>3
  <2>5. Ahead(u, j, y) /\ j \in Nat \ {0} /\ Len(keys[u]) \in Nat
    BY <2>3, <2>4, KeysAssumption, LenProperties DEF Ids, TypeOK
  <2>6. Ahead(u, j, y)'
    <3>1. CASE u = t
      <4>1. j # k /\ k < j
        BY <2>1, <2>5, <3>1, <1>0, <1>y DEF Ahead
      <4>2. keys'[t][j] = y /\ j <= Len(keys'[t])
        BY <4>1, <2>5, <3>1, <1>b, SMTT(40) DEF Ahead
      <4>3. pc'[t] \in {"dtor", "pass"} /\ i'[t] <= j /\ (pc'[t] = "dtor" => i'[t] < j)
        BY <4>1, <2>5, <1>0, <1>l, <1>y, SMTT(40) DEF TypeOK
      <4> QED
        BY <4>2, <4>3, <3>1 DEF Ahead
    <3>2. CASE u # t
      BY <2>5, <3>2, <1>m, Zenon DEF Ahead
    <3> QED
      BY <3>1, <3>2
  <2> QED
    BY <2>4, <2>6, <1>k, SMTT(40) DEF Same
<1> QED
  BY <1>1, <1>2, <1>3, <1>4, <1>5, <1>6, <1>7, <1>8

LEMMA StepIInv == IInv /\ [Next]_vars => IInv'
<1> SUFFICES ASSUME IInv, [Next]_vars PROVE IInv'
  BY SMTT(40)
<1>1. CASE UNCHANGED vars
  <2>1. UNCHANGED <<next_key, g_key_dtors, creating, open, freed, keys, pc, i, v, d,
                    made, of, by, over, late>>
    BY <1>1, SMTT(40) DEF vars, key_table, hist
  <2>2. TypeOK'
    BY <2>1, Zenon DEF IInv, TypeOK
  <2>3. Table'
    BY <2>1, Zenon DEF IInv, Table
  <2>4. Slots'
    BY <2>1, Zenon DEF IInv, Slots
  <2>5. Short'
    BY <2>1, Zenon DEF IInv, Short
  <2>6. Known'
    BY <2>1, Zenon DEF IInv, Known
  <2>7. Called'
    BY <2>1, Zenon DEF IInv, Called
  <2>8. Left'
    BY <2>1, Zenon DEF IInv, Left
  <2>9. Awaited'
    BY <2>1, Zenon DEF IInv, Awaited, Due, Ahead
  <2> QED
    BY <2>2, <2>3, <2>4, <2>5, <2>6, <2>7, <2>8, <2>9, Zenon DEF IInv
<1> QED
  BY <1>1, StepCreate, StepEnter, StepFree, StepSet, StepMain, StepPass, StepCall DEF Next

LEMMA Invariance == Spec => []IInv
  BY InitIInv, StepIInv, PTL DEF Spec

-----------------------------------------------------------------------------
\* For any number of ULTs, keys and values a value is given to one destructor at
\* most, that of its key, and to be found nowhere then (thread.cpp:37-46).
THEOREM NoDoubleDestruction == Spec => []DestroyedOnce
<1>1. IInv => DestroyedOnce
  <2> SUFFICES ASSUME IInv, NEW y \in Values, by[y] # <<>>
               PROVE /\ by[y] = <<of[y][2]>> /\ of[y][2] \in HasDtor
                     /\ \A t \in Ults, k \in Ids : get_specific(t, k) # y
    BY Zenon DEF DestroyedOnce
  <2> QED
    BY Got, SMTT(40) DEF IInv, Left, Values
<1> QED
  BY <1>1, Invariance, PTL

\* For any number of ULTs, keys and values the pass destroys every value that is
\* due, those that destructors set for later keys included (thread.cpp:37-46).
THEOREM AllDestroyed == Spec => []NothingForgotten
<1>1. IInv => NothingForgotten
  <2> SUFFICES ASSUME IInv, NEW x \in Values, of[x] # <<>>, x \notin over \cup late,
                      pc[of[x][1]] = "done", of[x][2] \in HasDtor \ freed, by[x] = <<>>
               PROVE FALSE
    BY DEF NothingForgotten
  <2>1. x <= made
    BY KeysAssumption DEF IInv, Known, TypeOK, Values
  <2> QED
    BY <2>1 DEF IInv, Awaited, Due, Ahead
<1> QED
  BY <1>1, Invariance, PTL

\* All that is claimed of work-unit keys (thread.cpp:37-46, 397-430).
THEOREM KeysAlwaysKept == Spec => []KeysKept
<1>1. IInv => TypeOK
  BY DEF IInv
<1>2. TypeOK /\ DestroyedOnce /\ NothingForgotten => KeysKept
  BY DEF KeysKept
<1> QED
  BY <1>1, <1>2, Invariance, NoDoubleDestruction, AllDestroyed, PTL
=============================================================================
