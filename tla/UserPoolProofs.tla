--------------------------- MODULE UserPoolProofs ---------------------------
(* Proofs about UserPool, for any number of threads, units, agents and pools. *)
EXTENDS UserPool, FiniteSetTheorems, TLAPS

USE Zenon

Middle == {"u_free", "clear", "u_create", "enter"}
Busy == Middle \cup {"erase", "push", "free", "keep"}
Places == Busy \cup {"out", "popped", "back", "again"}

\* A thread whose unit is being freed or created, and one without a unit of its own.
Mid(t) == At(t, Middle)
Bare(t) == At(t, {"clear"})

Types ==
  /\ pool \in [Threads -> Pools \cup {None}] /\ unit \in [Threads -> Units \cup {None}]
  /\ units \in [Units -> Threads \cup {None}] /\ heap \subseteq Units
  /\ pc \in [Agents -> Places] /\ cur = [a \in Agents |-> cur[a]]
  /\ to \in [Agents -> Pools \cup {None}] /\ end \in [Agents -> {"push", "keep", "free"}]

\* One agent works on a thread.
Alone ==
  /\ \A a \in Agents : pc[a] \in Busy => cur[a] \in Threads /\ to[a] \in Pools
  /\ \A a, b \in Agents : pc[a] \in Busy /\ pc[b] \in Busy /\ cur[a] = cur[b] => a = b

\* Where an agent is tells what its thread has.
Stage ==
  \A a \in Agents :
    /\ pc[a] = "erase" => pool[cur[a]] \in Users
    /\ pc[a] = "u_free" => unit[cur[a]] \in heap
    /\ pc[a] = "u_create" => unit[cur[a]] = None /\ pool[cur[a]] \in Users
    /\ pc[a] = "enter" => unit[cur[a]] \in heap /\ pool[cur[a]] \in Users

\* A thread that nobody is moving has a unit, and the map leads back, exactly if its
\* pool is user-defined.
Settled ==
  \A t \in Threads : ~Mid(t) =>
    IF pool[t] \in Users THEN unit[t] \in heap /\ units[unit[t]] = t ELSE unit[t] = None

InMap ==
  \A u \in Units : units[u] # None =>
    unit[units[u]] = u /\ u \in heap /\ pool[units[u]] \in Users /\ ~Mid(units[u])

\* A unit is one thread's.
Single ==
  /\ \A s, t \in Threads : unit[s] # None /\ unit[s] = unit[t] /\ ~Bare(s) /\ ~Bare(t) => s = t
  /\ \A u \in heap : \E t \in Threads : unit[t] = u /\ ~Bare(t)
  /\ \A t \in Threads : unit[t] # None /\ ~Bare(t) => unit[t] \in heap

IInv == Types /\ Alone /\ Stage /\ Settled /\ InMap /\ Single

-----------------------------------------------------------------------------
LEMMA InitIInv == Init => IInv
<1> SUFFICES ASSUME Init PROVE IInv
  OBVIOUS
<1> USE DEF Init
<1>1. Types
  BY DEF Types, Places, Busy, Middle
<1>2. Alone /\ Stage
  BY DEF Alone, Stage, Busy, Middle
<1>3. Settled /\ InMap /\ Single
  BY UserPoolAssumption DEF Settled, InMap, Single, Pools
<1> QED
  BY <1>1, <1>2, <1>3 DEF IInv

\* What an agent does on its way to the place l concerns its own thread only.
LEMMA Moved ==
  ASSUME Types, Alone, NEW a \in Agents, pc[a] \in Busy, NEW l \in Places,
         pc' = [pc EXCEPT ![a] = l], cur' = cur, NEW t, t = cur[a]
  PROVE  /\ \A s \in Threads : s # t => (Mid(s)' <=> Mid(s)) /\ (Bare(s)' <=> Bare(s))
         /\ Mid(t)' <=> l \in Middle
         /\ Bare(t)' <=> l = "clear"
         /\ Mid(t) <=> pc[a] \in Middle
         /\ Bare(t) <=> pc[a] = "clear"
<1>1. \A b \in Agents : b # a => pc'[b] = pc[b]
  BY DEF Types
<1>2. pc'[a] = l
  BY DEF Types
<1>3. \A b \in Agents : b # a /\ cur[b] = cur[a] => pc[b] \notin Busy
  BY DEF Alone
<1>4. Middle \subseteq Busy /\ "clear" \in Middle
  BY SMTT(40) DEF Middle, Busy
<1> QED
  BY <1>1, <1>2, <1>3, <1>4 DEF Mid, Bare, At

\* An agent that comes or goes between the other places.
LEMMA Aside ==
  ASSUME Types, NEW a \in Agents, pc[a] \notin Middle, NEW l \in Places \ Middle,
         pc' = [pc EXCEPT ![a] = l], \A b \in Agents : b # a => cur'[b] = cur[b]
  PROVE  \A s \in Threads : (Mid(s)' <=> Mid(s)) /\ (Bare(s)' <=> Bare(s))
<1>1. \A b \in Agents : b # a => pc'[b] = pc[b]
  BY DEF Types
<1>2. pc'[a] = l /\ "clear" \in Middle
  BY DEF Types, Middle
<1> QED
  BY <1>1, <1>2 DEF Mid, Bare, At

\* Nothing that the map is about changes.
SameMap == pool' = pool /\ unit' = unit /\ units' = units /\ heap' = heap

LEMMA KeepsMap ==
  ASSUME IInv, SameMap, \A s \in Threads : (Mid(s)' <=> Mid(s)) /\ (Bare(s)' <=> Bare(s))
  PROVE  Settled' /\ InMap' /\ Single'
<1> USE DEF IInv, SameMap
<1>1. Settled'
  BY DEF Settled
<1>2. InMap'
  BY SMTT(30) DEF InMap, Types
<1>3. Single'
  BY DEF Single
<1> QED
  BY <1>1, <1>2, <1>3

-----------------------------------------------------------------------------
LEMMA StepPools ==
  ASSUME IInv, NEW q \in Users, pool_create(q) \/ pool_destroy(q) PROVE IInv'
<1>1. SameMap /\ pc' = pc /\ cur' = cur /\ to' = to /\ end' = end
  BY DEF pool_create, pool_destroy, SameMap
<1>2. Types' /\ Alone' /\ Stage'
  BY <1>1 DEF IInv, Types, Alone, Stage, SameMap
<1>3. \A s \in Threads : (Mid(s)' <=> Mid(s)) /\ (Bare(s)' <=> Bare(s))
  BY <1>1 DEF Mid, Bare, At
<1> QED
  BY <1>1, <1>2, <1>3, KeepsMap DEF IInv

LEMMA StepAssociate ==
  ASSUME IInv, NEW a \in Agents, NEW t \in Threads, NEW p \in Pools, NEW e \in {"push", "keep", "free"},
         pool_associate(a, t, p, e)
  PROVE  IInv'
<1> USE DEF IInv
<1> DEFINE l == IF pool[t] = p /\ e # "free" THEN e
                ELSE IF pool[t] \in Users /\ unit[t] # None THEN "erase" ELSE "clear"
<1>1. /\ pc[a] = "out" /\ \A b \in Agents : cur[b] # t
      /\ cur' = [cur EXCEPT ![a] = t] /\ to' = [to EXCEPT ![a] = p] /\ end' = [end EXCEPT ![a] = e]
      /\ pc' = [pc EXCEPT ![a] = l] /\ SameMap
  BY DEF pool_associate, Goto, SameMap
<1>2. l \in {"push", "keep", "free", "erase", "clear"} /\ (l = "erase" => pool[t] \in Users)
  OBVIOUS
<1> HIDE DEF l
<1>3. /\ pc'[a] = l /\ cur'[a] = t /\ to'[a] = p
      /\ \A b \in Agents : b # a => pc'[b] = pc[b] /\ cur'[b] = cur[b] /\ to'[b] = to[b]
  BY <1>1 DEF Types
<1>4. Types'
  BY <1>1, <1>2 DEF Types, SameMap, Places, Busy, Middle
<1>5. Alone'
  BY <1>1, <1>3, SMTT(30) DEF Alone
<1>6. Stage'
  BY <1>1, <1>2, <1>3, SMTT(30) DEF Stage, SameMap
<1>7. ~Mid(t)
  BY <1>1 DEF Mid, At
<1>8. \A s \in Threads : s # t => (Mid(s)' <=> Mid(s)) /\ (Bare(s)' <=> Bare(s))
  BY <1>1, <1>3 DEF Mid, Bare, At, Middle
<1>9. CASE l # "clear"
  <2>1. ~Mid(t)' /\ ~Bare(t)' /\ ~Bare(t)
    BY <1>1, <1>2, <1>3, <1>9 DEF Mid, Bare, At, Middle
  <2>2. \A s \in Threads : (Mid(s)' <=> Mid(s)) /\ (Bare(s)' <=> Bare(s))
    BY <2>1, <1>7, <1>8
  <2> QED
    BY <2>2, <1>1, <1>4, <1>5, <1>6, KeepsMap, SMTT(40)
<1>10. CASE l = "clear"
  <2>1. unit[t] = None
    BY <1>7, <1>10, UserPoolAssumption DEF Settled, l, Types, Pools
  <2>2. pool[t] \notin Users
    BY <2>1, <1>7, UserPoolAssumption DEF Settled, Types
  <2>3. Settled'
    <3>1. Mid(t)'
      BY <1>3, <1>10 DEF Mid, At, Middle
    <3> QED
      BY <3>1, <1>1, <1>8, SMTT(40) DEF Settled, SameMap
  <2>4. InMap'
    <3>1. \A u \in Units : units[u] # None => units[u] \in Threads /\ units[u] # t
      BY <2>2 DEF InMap, Types
    <3> QED
      BY <3>1, <1>1, <1>8, SMTT(40) DEF InMap, SameMap
  <2>5. Single'
    BY <2>1, <1>1, <1>8, UserPoolAssumption, SMTT(40) DEF Single, SameMap, Types
  <2> QED
    BY <2>3, <2>4, <2>5, <1>4, <1>5, <1>6, SMTT(40)
<1> QED
  BY <1>9, <1>10

LEMMA StepForget == ASSUME IInv, NEW a \in Agents, Forget(a) PROVE IInv'
<1> USE DEF IInv
<1>t. PICK t : t = cur[a]
  OBVIOUS
<1>0. /\ pool' = pool /\ unit' = unit /\ cur' = cur /\ to' = to /\ end' = end
      /\ pc[a] \in {"erase", "u_free"} /\ pc[a] \in Busy /\ t \in Threads
  BY <1>t DEF Forget, Alone, Busy, Middle
<1>u. PICK u : u = unit[t]
  OBVIOUS
<1>1. CASE pc[a] = "erase"
  <2>1. units' = [units EXCEPT ![u] = None] /\ heap' = heap /\ pc' = [pc EXCEPT ![a] = "u_free"]
    BY <1>1, <1>t, <1>u DEF Forget, Goto
  <2>2. /\ \A s \in Threads : s # t => (Mid(s)' <=> Mid(s)) /\ (Bare(s)' <=> Bare(s))
        /\ Mid(t)' /\ ~Bare(t)' /\ ~Mid(t) /\ ~Bare(t)
    BY <2>1, <1>0, <1>1, <1>t, Moved, ZenonT(60) DEF Middle, Busy, Places
  <2>3. u \in heap /\ u \in Units /\ units[u] = t /\ pool[t] \in Users
    BY <2>2, <1>0, <1>1, <1>t, <1>u, SMTT(40) DEF Stage, Settled, Types
  <2>4. \A b \in Agents : b # a => pc'[b] = pc[b]
    BY <2>1 DEF Types
  <2>5. pc'[a] = "u_free"
    BY <2>1 DEF Types
  <2>6. Types'
    BY <1>0, <2>1, <2>3 DEF Types, Places, Busy, Middle
  <2>7. Alone'
    BY <1>0, <2>4, <2>5, SMTT(40) DEF Alone
  <2>8. Stage'
    BY <1>0, <1>t, <1>u, <2>1, <2>3, <2>4, <2>5, SMTT(40) DEF Stage
  <2>9. \A w \in Units : w # u => units'[w] = units[w] /\ units[w] # t
    <3> TAKE w \in Units
    <3> HAVE w # u
    <3>1. units'[w] = units[w]
      BY <2>1 DEF Types
    <3>2. units[w] # t
      BY <1>0, <1>u, UserPoolAssumption, SMTT(40) DEF InMap
    <3> QED
      BY <3>1, <3>2
  <2>10. units'[u] = None
    BY <2>1, <2>3, SMTT(40) DEF Types
  <2>11. Settled'
    <3>1. ASSUME NEW s \in Threads, ~Mid(s)', s # t
          PROVE IF pool[s] \in Users THEN unit[s] \in heap /\ units'[unit[s]] = s ELSE unit[s] = None
      BY <3>1, <2>2, <2>3, <2>9, SMTT(40) DEF Settled, Types
    <3> QED
      BY <3>1, <2>2, <2>1, <1>0, SMTT(40) DEF Settled
  <2>12. InMap'
    <3>1. ASSUME NEW w \in Units, NEW s, s = units'[w], s # None
          PROVE unit[s] = w /\ w \in heap /\ pool[s] \in Users /\ ~Mid(s)'
      <4>1. s = units[w] /\ s # t /\ s \in Threads
        BY <3>1, <2>9, <2>10, SMTT(40) DEF Types
      <4>2. unit[s] = w /\ w \in heap /\ pool[s] \in Users /\ ~Mid(s)
        BY <4>1, <3>1, ZenonT(60) DEF InMap
      <4> QED
        BY <4>1, <4>2, <2>2, SMTT(40)
    <3> QED
      BY <3>1, <2>1, <1>0 DEF InMap, Mid, At
  <2>13. Single'
    BY <2>1, <2>2, <1>0, SMTT(40) DEF Single
  <2> QED
    BY <2>6, <2>7, <2>8, <2>11, <2>12, <2>13, SMTT(40)
<1>2. CASE pc[a] = "u_free"
  <2>1. heap' = heap \ {u} /\ units' = units /\ pc' = [pc EXCEPT ![a] = "clear"]
    BY <1>2, <1>t, <1>u, SMTT(40) DEF Forget, Goto
  <2>2. /\ \A s \in Threads : s # t => (Mid(s)' <=> Mid(s)) /\ (Bare(s)' <=> Bare(s))
        /\ Mid(t)' /\ Bare(t)' /\ Mid(t) /\ ~Bare(t)
    BY <2>1, <1>0, <1>2, <1>t, Moved, ZenonT(60) DEF Middle, Busy, Places
  <2>3. u \in heap /\ u \in Units /\ u # None
    BY <1>2, <1>t, <1>u, UserPoolAssumption, SMTT(40) DEF Stage, Types
  <2>4. /\ pc'[a] = "clear" /\ \A b \in Agents : b # a => pc'[b] = pc[b]
    BY <2>1 DEF Types
  <2>5. \A s \in Threads : s # t /\ ~Bare(s) => unit[s] # u
    BY <2>2, <2>3, <1>0, <1>u, SMTT(40) DEF Single
  <2>6. Types'
    BY <1>0, <2>1, SMTT(40) DEF Types, Places, Busy, Middle
  <2>7. Alone'
    BY <1>0, <2>4, SMTT(40) DEF Alone
  <2>8. Stage'
    <3>1. ASSUME NEW b \in Agents, b # a, pc[b] \in {"u_free", "enter"}, unit[cur[b]] \in heap
          PROVE unit[cur[b]] # u
      <4>1. pc[b] \in Busy /\ cur[b] \in Threads /\ cur[b] # t
        BY <3>1, <1>0, <1>t, SMTT(40) DEF Alone, Busy, Middle
      <4>2. ~Bare(cur[b])
        BY <4>1, <3>1, SMTT(40) DEF Bare, At, Alone, Busy, Middle
      <4> QED
        BY <4>1, <4>2, <2>5, SMTT(40)
    <3> QED
      BY <3>1, <2>1, <2>4, <1>0, SMTT(40) DEF Stage
  <2>9. Settled'
    <3>1. ASSUME NEW s \in Threads, ~Mid(s)'
          PROVE IF pool[s] \in Users THEN unit[s] \in heap' /\ units[unit[s]] = s ELSE unit[s] = None
      <4>1. s # t /\ ~Mid(s) /\ ~Bare(s)
        BY <3>1, <2>2, SMTT(30) DEF Mid, Bare, At, Middle
      <4> QED
        BY <4>1, <2>1, <2>5, SMTT(40) DEF Settled
    <3> QED
      BY <3>1, <2>1, <1>0, SMTT(40) DEF Settled
  <2>10. InMap'
    <3>1. ASSUME NEW w \in Units, units[w] # None
          PROVE /\ unit[units[w]] = w /\ w \in heap' /\ pool[units[w]] \in Users /\ ~Mid(units[w])'
      <4>1. unit[units[w]] = w /\ w \in heap /\ pool[units[w]] \in Users /\ ~Mid(units[w])
        BY <3>1 DEF InMap
      <4>2. units[w] \in Threads /\ units[w] # t /\ ~Bare(units[w])
        BY <3>1, <4>1, <2>2, SMTT(40) DEF Types, Mid, Bare, At, Middle
      <4> QED
        BY <4>1, <4>2, <2>1, <2>2, <2>5, SMTT(40)
    <3> QED
      BY <3>1, <2>1, <1>0, SMTT(40) DEF InMap
  <2>11. Single'
    <3>1. \A s, r \in Threads : unit[s] # None /\ unit[s] = unit[r] /\ ~Bare(s)' /\ ~Bare(r)' => s = r
      BY <2>2 DEF Single
    <3>2. \A w \in heap' : \E s \in Threads : unit[s] = w /\ ~Bare(s)'
      BY <2>1, <2>2, <1>0, <1>u, SMTT(40) DEF Single
    <3>3. \A s \in Threads : unit[s] # None /\ ~Bare(s)' => unit[s] \in heap'
      BY <2>1, <2>2, <2>5, SMTT(40) DEF Single
    <3> QED
      BY <3>1, <3>2, <3>3, <1>0, SMTT(40) DEF Single
  <2> QED
    BY <2>6, <2>7, <2>8, <2>9, <2>10, <2>11
<1> QED
  BY <1>0, <1>1, <1>2

LEMMA StepDisassociate == ASSUME IInv, NEW a \in Agents, disassociate(a) PROVE IInv'
<1> USE DEF IInv
<1>t. PICK t : t = cur[a]
  OBVIOUS
<1>p. PICK p : p = IF end[a] = "free" THEN None ELSE to[a]
  OBVIOUS
<1>l. PICK l : l = IF end[a] = "free" \/ to[a] = Fifo THEN end[a] ELSE "u_create"
  OBVIOUS
<1>0. /\ pc[a] = "clear" /\ unit' = [unit EXCEPT ![t] = None] /\ pool' = [pool EXCEPT ![t] = p]
      /\ pc' = [pc EXCEPT ![a] = l]
      /\ units' = units /\ heap' = heap /\ cur' = cur /\ to' = to /\ end' = end
  BY <1>t, <1>p, <1>l, SMTT(40) DEF disassociate, Goto
<1>1. t \in Threads /\ to[a] \in Pools /\ pc[a] \in Busy /\ end[a] \in {"push", "keep", "free"}
  BY <1>0, <1>t, SMTT(40) DEF Alone, Busy, Middle, Types
<1>2. /\ p \in Pools \cup {None} /\ l \in {"push", "keep", "free", "u_create"}
      /\ l = "u_create" <=> p \in Users
  BY <1>1, <1>p, <1>l, UserPoolAssumption, SMTT(40) DEF Pools
<1>3. /\ \A s \in Threads : s # t => (Mid(s)' <=> Mid(s)) /\ (Bare(s)' <=> Bare(s))
      /\ Mid(t)' <=> l = "u_create"
      /\ ~Bare(t)' /\ Mid(t) /\ Bare(t)
  BY <1>0, <1>1, <1>2, <1>t, Moved, ZenonT(60) DEF Middle, Busy, Places
<1>4. /\ pc'[a] = l /\ \A b \in Agents : b # a => pc'[b] = pc[b]
  BY <1>0 DEF Types
<1>5. /\ unit'[t] = None /\ pool'[t] = p
      /\ \A s \in Threads : s # t => unit'[s] = unit[s] /\ pool'[s] = pool[s]
  BY <1>0, <1>1 DEF Types
<1>6. Types'
  BY <1>0, <1>1, <1>2 DEF Types, Places, Busy, Middle
<1>7. Alone'
  BY <1>0, <1>1, <1>4, SMTT(40) DEF Alone
<1>8. Stage'
  <2>1. \A b \in Agents : b # a /\ pc[b] \in {"erase", "u_free", "u_create", "enter"} =>
          cur[b] \in Threads /\ cur[b] # t
    BY <1>1, <1>t DEF Alone, Busy, Middle
  <2> QED
    BY <2>1, <1>0, <1>2, <1>4, <1>5, <1>t, SMTT(40) DEF Stage
<1>9. Settled'
  BY <1>0, <1>2, <1>3, <1>5, SMTT(40) DEF Settled
<1>10. InMap'
  <2>1. \A w \in Units : units[w] # None => units[w] \in Threads /\ units[w] # t
    BY <1>3, SMTT(30) DEF InMap, Types
  <2> QED
    BY <2>1, <1>0, <1>3, <1>5, SMTT(40) DEF InMap
<1>11. Single'
  <2>1. \A w \in heap : \E s \in Threads : s # t /\ unit[s] = w /\ ~Bare(s)
    BY <1>3 DEF Single
  <2> QED
    BY <2>1, <1>0, <1>3, <1>5, SMTT(40) DEF Single
<1> QED
  BY <1>6, <1>7, <1>8, <1>9, <1>10, <1>11

LEMMA StepCreate == ASSUME IInv, NEW a \in Agents, u_create_from_thread(a) PROVE IInv'
<1> USE DEF IInv
<1>t. PICK t : t = cur[a]
  OBVIOUS
<1>0. PICK u \in Units \ heap :
        /\ pc[a] = "u_create" /\ heap' = heap \cup {u} /\ unit' = [unit EXCEPT ![t] = u]
        /\ pc' = [pc EXCEPT ![a] = "enter"]
        /\ pool' = pool /\ units' = units /\ cur' = cur /\ to' = to /\ end' = end
  BY <1>t, ZenonT(60) DEF u_create_from_thread, Goto
<1>1. t \in Threads /\ pc[a] \in Busy /\ unit[t] = None /\ pool[t] \in Users /\ u # None
  BY <1>0, <1>t, UserPoolAssumption DEF Alone, Busy, Middle, Stage
<1>2. /\ \A s \in Threads : s # t => (Mid(s)' <=> Mid(s)) /\ (Bare(s)' <=> Bare(s))
      /\ Mid(t)' /\ ~Bare(t)' /\ Mid(t) /\ ~Bare(t)
  BY <1>0, <1>1, <1>t, Moved, ZenonT(60) DEF Middle, Busy, Places
<1>3. /\ pc'[a] = "enter" /\ \A b \in Agents : b # a => pc'[b] = pc[b]
  BY <1>0 DEF Types
<1>4. unit'[t] = u /\ \A s \in Threads : s # t => unit'[s] = unit[s]
  BY <1>0, <1>1 DEF Types
<1>5. Types'
  BY <1>0, <1>1 DEF Types, Places, Busy, Middle
<1>6. Alone'
  BY <1>0, <1>1, <1>3, SMTT(40) DEF Alone
<1>7. Stage'
  <2>1. \A b \in Agents : b # a /\ pc[b] \in {"erase", "u_free", "u_create", "enter"} =>
          cur[b] \in Threads /\ cur[b] # t
    BY <1>1, <1>t, SMTT(40) DEF Alone, Busy, Middle
  <2> QED
    BY <2>1, <1>0, <1>1, <1>3, <1>4, <1>t, SMTT(40) DEF Stage
<1>8. Settled'
  BY <1>0, <1>2, <1>4, SMTT(40) DEF Settled
<1>9. InMap'
  <2>1. \A w \in Units : units[w] # None => units[w] \in Threads /\ units[w] # t
    BY <1>2, SMTT(40) DEF InMap, Types
  <2> QED
    BY <2>1, <1>0, <1>2, <1>4, SMTT(40) DEF InMap
<1>10. Single'
  <2>1. \A s \in Threads : s # t /\ ~Bare(s) => unit[s] # u
    BY <1>0, <1>1, SMTT(40) DEF Single
  <2>2. \A s, r \in Threads : unit'[s] # None /\ unit'[s] = unit'[r] /\ ~Bare(s)' /\ ~Bare(r)' => s = r
    BY <2>1, <1>2, <1>4, SMTT(40) DEF Single
  <2>3. \A w \in heap' : \E s \in Threads : unit'[s] = w /\ ~Bare(s)'
    <3>1. ASSUME NEW w \in heap PROVE \E s \in Threads : unit'[s] = w /\ ~Bare(s)'
      <4>1. PICK s \in Threads : unit[s] = w /\ ~Bare(s)
        BY DEF Single
      <4>2. s # t
        BY <4>1, <1>1, UserPoolAssumption, SMTT(40) DEF Types
      <4> QED
        BY <4>1, <4>2, <1>2, <1>4, SMTT(40)
    <3> QED
      BY <3>1, <1>0, <1>1, <1>2, <1>4, SMTT(40)
  <2>4. \A s \in Threads : unit'[s] # None /\ ~Bare(s)' => unit'[s] \in heap'
    BY <1>0, <1>2, <1>4, SMTT(40) DEF Single
  <2> QED
    BY <2>2, <2>3, <2>4 DEF Single
<1> QED
  BY <1>5, <1>6, <1>7, <1>8, <1>9, <1>10, SMTT(40)

LEMMA StepEnter == ASSUME IInv, NEW a \in Agents, Enter(a) PROVE IInv'
<1> USE DEF IInv
<1>t. PICK t : t = cur[a]
  OBVIOUS
<1>u. PICK u : u = unit[t]
  OBVIOUS
<1>0. /\ pc[a] = "enter" /\ units' = [units EXCEPT ![u] = t] /\ pc' = [pc EXCEPT ![a] = end[a]]
      /\ pool' = pool /\ unit' = unit /\ heap' = heap /\ cur' = cur /\ to' = to /\ end' = end
  BY <1>t, <1>u DEF Enter, Goto
<1>1. /\ t \in Threads /\ pc[a] \in Busy /\ u \in heap /\ u \in Units /\ pool[t] \in Users
      /\ end[a] \in {"push", "keep", "free"} /\ u # None /\ t # None
  BY <1>0, <1>t, <1>u, UserPoolAssumption, SMTT(40) DEF Alone, Busy, Middle, Stage, Types
<1>2. /\ \A s \in Threads : s # t => (Mid(s)' <=> Mid(s)) /\ (Bare(s)' <=> Bare(s))
      /\ ~Mid(t)' /\ ~Bare(t)' /\ Mid(t) /\ ~Bare(t)
  BY <1>0, <1>1, <1>t, Moved, ZenonT(60) DEF Middle, Busy, Places
<1>3. /\ pc'[a] = end[a] /\ \A b \in Agents : b # a => pc'[b] = pc[b]
  BY <1>0 DEF Types
<1>4. units'[u] = t /\ \A w \in Units : w # u => units'[w] = units[w]
  BY <1>0, <1>1 DEF Types
<1>5. Types'
  BY <1>0, <1>1, SMTT(40) DEF Types, Places, Busy, Middle
<1>6. Alone'
  BY <1>0, <1>1, <1>3, SMTT(40) DEF Alone
<1>7. Stage'
  BY <1>0, <1>1, <1>3, SMTT(40) DEF Stage
<1>8. \A s \in Threads : s # t /\ ~Bare(s) => unit[s] # u
  BY <1>1, <1>2, <1>u, SMTT(40) DEF Single
<1>9. Settled'
  <2>1. ASSUME NEW s \in Threads, ~Mid(s)', s # t
        PROVE IF pool[s] \in Users THEN unit[s] \in heap /\ units'[unit[s]] = s ELSE unit[s] = None
    <3>1. ~Mid(s) /\ ~Bare(s)
      BY <2>1, <1>2, SMTT(40) DEF Mid, Bare, At, Middle
    <3> QED
      BY <3>1, <2>1, <1>4, <1>8, SMTT(40) DEF Settled, Types
  <2> QED
    BY <2>1, <1>0, <1>1, <1>4, <1>u, SMTT(40) DEF Settled
<1>10. InMap'
  <2>1. \A w \in Units : units[w] # None => units[w] \in Threads /\ units[w] # t
    BY <1>2, SMTT(30) DEF InMap, Types
  <2> QED
    BY <2>1, <1>0, <1>1, <1>2, <1>4, <1>u, SMTT(40) DEF InMap
<1>11. Single'
  BY <1>0, <1>2 DEF Single
<1> QED
  BY <1>5, <1>6, <1>7, <1>9, <1>10, <1>11

LEMMA StepOther ==
  ASSUME IInv, NEW a \in Agents,
         Finish(a) \/ Popped(a) \/ PopNothing(a) \/ (\E q \in Users : pool_pop(a, q))
           \/ (\E p \in Pools, x \in Threads \cup Units : Take(a, p, x))
  PROVE  IInv'
<1> USE DEF IInv
<1>1. CASE \E p \in Pools, x \in Threads \cup Units : Take(a, p, x)
  <2>1. SameMap /\ pc' = pc /\ cur' = cur /\ to' = to /\ end' = end
    BY <1>1 DEF Take, SameMap
  <2>2. Types' /\ Alone' /\ Stage'
    BY <2>1 DEF Types, Alone, Stage, SameMap
  <2>3. \A s \in Threads : (Mid(s)' <=> Mid(s)) /\ (Bare(s)' <=> Bare(s))
    BY <2>1 DEF Mid, Bare, At
  <2> QED
    BY <2>1, <2>2, <2>3, KeepsMap, SMTT(40)
<1>2. ASSUME Finish(a) \/ Popped(a) \/ PopNothing(a) \/ (\E q \in Users : pool_pop(a, q)) PROVE IInv'
  <2>1. /\ pc[a] \in {"push", "free", "keep", "popped", "back", "again", "out"} /\ SameMap /\ end' = end
        /\ \E l \in {"out", "popped", "back", "again"} : pc' = [pc EXCEPT ![a] = l]
        /\ \E c : cur' = [cur EXCEPT ![a] = c]
        /\ to' = to \/ \E q \in Users : to' = [to EXCEPT ![a] = q]
    <3>1. CASE Finish(a)
      BY <3>1 DEF Finish, Return, Goto, SameMap
    <3>2. CASE Popped(a)
      BY <3>2 DEF Popped, Return, Goto, SameMap
    <3>3. CASE \E q \in Users : pool_pop(a, q)
      BY <3>3 DEF pool_pop, Goto, SameMap
    <3>4. CASE PopNothing(a)
      BY <3>4 DEF PopNothing, Return, Goto, SameMap, obj
    <3> QED
      BY <1>2, <3>1, <3>2, <3>3, <3>4, SMTT(40)
  <2>2. PICK l \in {"out", "popped", "back", "again"} : pc' = [pc EXCEPT ![a] = l]
    BY <2>1
  <2>3. PICK c : cur' = [cur EXCEPT ![a] = c]
    BY <2>1
  <2>4. /\ pc'[a] = l
        /\ \A b \in Agents : b # a => pc'[b] = pc[b] /\ cur'[b] = cur[b] /\ to'[b] = to[b]
    BY <2>1, <2>2, <2>3 DEF Types
  <2>5. Types'
    <3>1. to' \in [Agents -> Pools \cup {None}]
      BY <2>1 DEF Types, Pools
    <3>2. cur' = [b \in Agents |-> cur'[b]]
      BY <2>3 DEF Types
    <3>3. pc' \in [Agents -> Places]
      BY <2>2 DEF Types, Places
    <3> QED
      BY <3>1, <3>2, <3>3, <2>1 DEF Types, SameMap
  <2>6. Alone'
    BY <2>4, SMTT(40) DEF Alone, Busy, Middle
  <2>7. Stage'
    BY <2>1, <2>4 DEF Stage, SameMap
  <2>8. \A s \in Threads : (Mid(s)' <=> Mid(s)) /\ (Bare(s)' <=> Bare(s))
    BY <2>1, <2>2, <2>4, Aside DEF Places, Busy, Middle
  <2> QED
    BY <2>1, <2>5, <2>6, <2>7, <2>8, KeepsMap, SMTT(40)
<1> QED
  BY <1>1, <1>2

LEMMA StepIInv == IInv /\ [Next]_vars => IInv'
<1> SUFFICES ASSUME IInv, [Next]_vars PROVE IInv'
  OBVIOUS
<1>1. CASE UNCHANGED vars
  <2>1. SameMap /\ pc' = pc /\ cur' = cur /\ to' = to /\ end' = end
    BY <1>1 DEF vars, obj, SameMap
  <2>2. Types' /\ Alone' /\ Stage'
    BY <2>1 DEF IInv, Types, Alone, Stage, SameMap
  <2>3. \A s \in Threads : (Mid(s)' <=> Mid(s)) /\ (Bare(s)' <=> Bare(s))
    BY <2>1 DEF Mid, Bare, At
  <2> QED
    BY <2>1, <2>2, <2>3, KeepsMap, SMTT(40) DEF IInv
<1>2. ASSUME NEW a \in Agents, Step(a) PROVE IInv'
  BY <1>2, StepForget, StepDisassociate, StepCreate, StepEnter, StepOther, SMTT(40) DEF Step
<1> QED
  BY <1>1, <1>2, StepPools, StepAssociate, StepOther DEF Next

LEMMA Invariance == Spec => []IInv
  BY InitIInv, StepIInv, PTL DEF Spec

-----------------------------------------------------------------------------
\* For any number of threads, units, agents and pools the map from units to threads
\* is the inverse of the threads' units, whatever addresses u_create_from_thread
\* gives out again (pool.cpp:219-242).
THEOREM MapExact == Spec => []MapIsInverse
<1>1. IInv => MapIsInverse
  BY DEF IInv, Settled, InMap, Mid, Middle, MapIsInverse
<1> QED
  BY <1>1, Invariance, PTL

\* For any number of them every unit that was created and not freed is that of one
\* thread: none is leaked, shared or freed twice (pool.cpp:219-242).
THEOREM UnitsNeverLeak == Spec => []UnitsOwned
<1>1. IInv => UnitsOwned
  <2> SUFFICES ASSUME IInv, NEW u \in Units
               PROVE Cardinality({t \in Threads : unit[t] = u /\ ~Bare(t)}) = IF u \in heap THEN 1 ELSE 0
    BY DEF UnitsOwned, Bare
  <2>0. u # None
    BY UserPoolAssumption
  <2>1. CASE u \in heap
    <3>1. PICK t \in Threads : unit[t] = u /\ ~Bare(t)
      BY <2>1 DEF IInv, Single
    <3>2. {s \in Threads : unit[s] = u /\ ~Bare(s)} = {t}
      BY <3>1, <2>0 DEF IInv, Single
    <3> QED
      BY <3>2, <2>1, FS_Singleton, SMTT(40)
  <2>2. CASE u \notin heap
    <3>1. {s \in Threads : unit[s] = u /\ ~Bare(s)} = {}
      BY <2>2, <2>0 DEF IInv, Single
    <3> QED
      BY <3>1, <2>2, FS_EmptySet
  <2> QED
    BY <2>1, <2>2
<1> QED
  BY <1>1, Invariance, PTL

-----------------------------------------------------------------------------
\* What is in the pools.

Looking == {"popped", "again"}

\* t is in the pool p, or was popped from it and is being looked up, as x.
Inside(t, p, x) == state[t] = "in" /\ pool[t] = p /\ x = thread_to_unit(t)

\* The map is looked at once there was a user-defined pool.
Counted ==
  /\ num_user_pools \in 0..MaxPools /\ live \subseteq Pools
  /\ \A q \in live : q \in Users => num_user_pools > 0
  /\ \A a \in Agents : to[a] \in Users => num_user_pools > 0
  /\ \A t \in Threads : pool[t] \in Users => num_user_pools > 0

\* A thread that an agent works on is in no pool, and one that is to be pushed is
\* of the pool it is pushed to.
Carried ==
  \A a \in Agents :
    /\ pc[a] \in Busy => state[cur[a]] = "held"
    /\ pc[a] \in {"push", "keep", "u_create", "enter"} => pool[cur[a]] = to[a]
    /\ pc[a] \in {"u_create", "enter"} => end[a] \in {"push", "keep"}

\* Each element of a pool, and each unit that is being looked up, is that of a thread
\* of the pool, and is nowhere else.
Contents ==
  /\ content \in [Pools -> Seq(Threads \cup Units)] /\ state \in [Threads -> {"none", "held", "in"}]
  /\ cur \in [Agents -> Threads \cup Units \cup {None}]
  /\ \A p \in Pools : \A n \in 1..Len(content[p]) : \E t \in Threads : Inside(t, p, content[p][n])
  /\ \A p \in Pools : \A m \in 1..Len(content[p]) : \A n \in 1..Len(content[p]) :
       content[p][m] = content[p][n] => m = n
  /\ \A a \in Agents : pc[a] \in Looking =>
       /\ to[a] \in Users
       /\ \E t \in Threads : Inside(t, to[a], cur[a])
       /\ \A p \in Pools : \A n \in 1..Len(content[p]) : content[p][n] # cur[a]
       /\ \A b \in Agents : pc[b] \in Looking /\ cur[b] = cur[a] => a = b

CInv == Counted /\ Carried /\ Contents

\* Sequences that grow at the end, lose their head or any element.
\* c is s with x at its end; d is c without its head.
IsAppend(S, c, s, x) ==
  /\ c \in Seq(S) /\ Len(c) = Len(s) + 1 /\ Len(s) \in Nat
  /\ c[Len(s) + 1] = x /\ \A i \in 1..Len(s) : c[i] = s[i]

LEMMA AppendFacts ==
  ASSUME NEW S, NEW s \in Seq(S), NEW x \in S
  PROVE  IsAppend(S, Append(s, x), s, x)
  BY SMTT(30) DEF IsAppend

IsTail(S, d, c) ==
  /\ d \in Seq(S) /\ Len(d) = Len(c) - 1 /\ Len(c) > 0 /\ Len(c) \in Nat
  /\ Head(c) = c[1] /\ \A i \in 1..Len(c) - 1 : d[i] = c[i + 1]

LEMMA TailFacts ==
  ASSUME NEW S, NEW c \in Seq(S), c # <<>>
  PROVE  IsTail(S, Tail(c), c)
  BY SMTT(30) DEF IsTail

LEMMA ConcatFacts ==
  ASSUME NEW S, NEW f \in Seq(S), NEW g \in Seq(S)
  PROVE  /\ f \o g \in Seq(S) /\ Len(f \o g) = Len(f) + Len(g)
         /\ \A i \in 1..Len(f) + Len(g) : (f \o g)[i] = IF i <= Len(f) THEN f[i] ELSE g[i - Len(f)]
  BY SMTT(30)

LEMMA WithoutFacts ==
  ASSUME NEW S, NEW s \in Seq(S), NEW n \in 1..Len(s)
  PROVE  /\ Without(s, n) \in Seq(S) /\ Len(Without(s, n)) = Len(s) - 1 /\ Len(s) \in Nat
         /\ \A i \in 1..Len(s) - 1 : Without(s, n)[i] = IF i < n THEN s[i] ELSE s[i + 1]
<1> DEFINE f == SubSeq(s, 1, n - 1)
           g == SubSeq(s, n + 1, Len(s))
<1>0. Len(s) \in Nat /\ n \in Nat /\ 1 <= n /\ n <= Len(s)
  BY SMTT(30)
<1>1. f \in Seq(S) /\ Len(f) = n - 1 /\ \A i \in 1..n - 1 : f[i] = s[i]
  BY <1>0, SMTT(30)
<1>2. g \in Seq(S) /\ Len(g) = Len(s) - n /\ \A i \in 1..Len(s) - n : g[i] = s[n + i]
  BY <1>0, SMTT(30)
<1> HIDE DEF f, g
<1>3. /\ f \o g \in Seq(S) /\ Len(f \o g) = Len(s) - 1
      /\ \A i \in 1..Len(s) - 1 : (f \o g)[i] = IF i <= n - 1 THEN f[i] ELSE g[i - (n - 1)]
  <2>1. /\ f \o g \in Seq(S) /\ Len(f \o g) = Len(f) + Len(g)
        /\ \A i \in 1..Len(f) + Len(g) : (f \o g)[i] = IF i <= Len(f) THEN f[i] ELSE g[i - Len(f)]
    BY <1>1, <1>2, ConcatFacts
  <2>5. Len(f) + Len(g) = Len(s) - 1
    BY <1>0, <1>1, <1>2, SMTT(30)
  <2> QED
    BY <1>1, <2>1, <2>5
<1>4. \A i \in 1..Len(s) - 1 : (f \o g)[i] = IF i < n THEN s[i] ELSE s[i + 1]
  <2> SUFFICES ASSUME NEW i \in 1..Len(s) - 1
               PROVE  (f \o g)[i] = IF i < n THEN s[i] ELSE s[i + 1]
    OBVIOUS
  <2>1. CASE i < n
    <3>1. i <= n - 1 /\ i \in 1..n - 1
      BY <1>0, <2>1, SMTT(30)
    <3> QED
      BY <1>1, <1>3, <2>1, <3>1
  <2>2. CASE ~(i < n)
    <3>1. ~(i <= n - 1) /\ i - (n - 1) \in 1..Len(s) - n /\ n + (i - (n - 1)) = i + 1
      BY <1>0, <2>2, SMTT(30)
    <3> QED
      BY <1>2, <1>3, <2>2, <3>1
  <2> QED
    BY <2>1, <2>2
<1> QED
  BY <1>0, <1>3, <1>4 DEF Without, f, g

\* A thread in a pool is not being moved.
LEMMA InsideStill ==
  ASSUME IInv, CInv, NEW t \in Threads, state[t] = "in"
  PROVE  ~Mid(t)
<1>1. \A a \in Agents : pc[a] \in Middle => state[cur[a]] = "held"
  BY DEF CInv, Carried, Busy
<1> QED
  BY <1>1 DEF Mid, At

\* The unit tells the thread.
LEMMA SameUnit ==
  ASSUME IInv, NEW s \in Threads, NEW t \in Threads, ~Mid(s), ~Mid(t),
         pool[s] \in Pools, pool[t] \in Pools, thread_to_unit(s) = thread_to_unit(t)
  PROVE  s = t
<1>1. /\ pool[s] \in Users => unit[s] \in Units /\ units[unit[s]] = s
      /\ pool[t] \in Users => unit[t] \in Units /\ units[unit[t]] = t
  BY DEF IInv, Settled, Types
<1> QED
  BY <1>1, UserPoolAssumption DEF thread_to_unit, Pools

\* And so does the map.
LEMMA Resolves ==
  ASSUME IInv, CInv, NEW t \in Threads, NEW p \in Pools, NEW x, Inside(t, p, x)
  PROVE  any_unit_to_thread(x) = t /\ (p \in Users => unit_to_thread(x) = t)
<1>1. pool[t] = p /\ x = thread_to_unit(t) /\ ~Mid(t) /\ t # None
  BY InsideStill, UserPoolAssumption DEF Inside
<1>2. CASE p \in Users
  <2>1. x = unit[t] /\ x \in Units /\ units[x] = t
    BY <1>1, <1>2 DEF IInv, Settled, Types, thread_to_unit
  <2>2. num_user_pools # 0
    BY <1>1, <1>2, SMTT(30) DEF CInv, Counted
  <2> QED
    BY <1>1, <2>1, <2>2, UserPoolAssumption DEF unit_to_thread, any_unit_to_thread
<1>3. CASE p \notin Users
  <2>1. x = t /\ x \notin Units
    BY <1>1, <1>3, UserPoolAssumption DEF thread_to_unit
  <2> QED
    BY <1>3, <2>1 DEF unit_to_thread, any_unit_to_thread
<1> QED
  BY <1>2, <1>3

LEMMA InitCInv == Init => CInv
<1> SUFFICES ASSUME Init PROVE CInv
  OBVIOUS
<1> USE DEF Init
<1>1. Counted
  BY UserPoolAssumption, SMTT(30) DEF Counted, Pools
<1>2. Carried
  BY DEF Carried, Busy, Middle
<1>3. Contents
  BY SMTT(30) DEF Contents, Looking
<1> QED
  BY <1>1, <1>2, <1>3 DEF CInv

\* A step that leaves the pools and the threads in them alone.
LEMMA ContentsFrame ==
  ASSUME Contents, content' = content, state' \in [Threads -> {"none", "held", "in"}],
         cur' \in [Agents -> Threads \cup Units \cup {None}],
         \A s \in Threads : state[s] = "in" => state'[s] = "in" /\ pool'[s] = pool[s] /\ unit'[s] = unit[s],
         \A b \in Agents : pc'[b] \in Looking => pc[b] \in Looking /\ cur'[b] = cur[b] /\ to'[b] = to[b]
  PROVE  Contents'
<1>1. \A t \in Threads : \A p, x : Inside(t, p, x) => Inside(t, p, x)'
  BY DEF Inside, thread_to_unit
<1>2. \A p \in Pools : \A n \in 1..Len(content[p]) : \E t \in Threads : Inside(t, p, content[p][n])'
  BY <1>1 DEF Contents
<1>3. ASSUME NEW a \in Agents, pc'[a] \in Looking
      PROVE  /\ to'[a] \in Users
             /\ \E t \in Threads : Inside(t, to[a], cur[a])'
             /\ \A p \in Pools : \A n \in 1..Len(content[p]) : content[p][n] # cur'[a]
             /\ \A b \in Agents : pc'[b] \in Looking /\ cur'[b] = cur'[a] => a = b
  <2>1. pc[a] \in Looking /\ cur'[a] = cur[a] /\ to'[a] = to[a]
    BY <1>3
  <2>2. PICK t \in Threads : Inside(t, to[a], cur[a])
    BY <2>1 DEF Contents
  <2>3. state[t] = "in" /\ pool[t] = to[a] /\ cur[a] = thread_to_unit(t)
    BY <2>2 DEF Inside
  <2>4. Inside(t, to[a], cur[a])'
    BY <2>1, <2>3 DEF Inside, thread_to_unit
  <2> QED
    BY <2>1, <2>4, SMTT(30) DEF Contents
<1> QED
  BY <1>2, <1>3, SMTT(30) DEF Contents

LEMMA PoolsCInv ==
  ASSUME IInv, CInv, NEW q \in Users, pool_create(q) \/ pool_destroy(q)
  PROVE  CInv'
<1>1. /\ UNCHANGED <<pool, unit, units, heap, content, state, pc, cur, to, end>>
      /\ num_user_pools \in 0..MaxPools /\ live \subseteq Pools
      /\ \/ num_user_pools' = num_user_pools + 1 /\ num_user_pools < MaxPools /\ live' = live \cup {q}
         \/ num_user_pools' = num_user_pools /\ live' = live \ {q}
  BY DEF pool_create, pool_destroy, CInv, Counted
<1>2. Counted'
  BY <1>1, UserPoolAssumption, SMTT(30) DEF CInv, Counted, Pools
<1>3. Carried'
  BY <1>1 DEF CInv, Carried
<1>4. Contents'
  BY <1>1, ContentsFrame DEF CInv, Contents
<1> QED
  BY <1>2, <1>3, <1>4 DEF CInv

LEMMA AssociateCInv ==
  ASSUME IInv, CInv, NEW a \in Agents, NEW t \in Threads, NEW p \in Pools, NEW e \in {"push", "keep", "free"},
         pool_associate(a, t, p, e)
  PROVE  CInv'
<1>1. PICK l \in {"push", "keep", "free", "erase", "clear"} :
        /\ pc' = [pc EXCEPT ![a] = l]
        /\ l \in {"push", "keep"} => pool[t] = p
  BY DEF pool_associate, Goto
<1>2. /\ pc[a] = "out" /\ p \in live /\ state[t] # "in"
      /\ state' = [state EXCEPT ![t] = "held"]
      /\ cur' = [cur EXCEPT ![a] = t] /\ to' = [to EXCEPT ![a] = p]
      /\ \A b \in Agents : cur[b] # t
      /\ UNCHANGED <<num_user_pools, live, pool, unit, units, heap, content>>
      /\ end' = [end EXCEPT ![a] = e]
  BY DEF pool_associate
<1>3. /\ state' \in [Threads -> {"none", "held", "in"}] /\ state'[t] = "held"
      /\ \A s \in Threads : s # t => state'[s] = state[s]
  BY <1>2 DEF CInv, Contents
<1>4. /\ cur' \in [Agents -> Threads \cup Units \cup {None}]
      /\ cur'[a] = t /\ to'[a] = p /\ pc'[a] = l
      /\ \A b \in Agents : b # a => cur'[b] = cur[b] /\ to'[b] = to[b] /\ pc'[b] = pc[b] /\ end'[b] = end[b]
  BY <1>1, <1>2 DEF CInv, Contents, IInv, Types
<1>5. Counted'
  BY <1>2, <1>4 DEF CInv, Counted
<1>6. Carried'
  <2> SUFFICES ASSUME NEW b \in Agents
               PROVE  /\ pc'[b] \in Busy => state'[cur'[b]] = "held"
                      /\ pc'[b] \in {"push", "keep", "u_create", "enter"} => pool'[cur'[b]] = to'[b]
                      /\ pc'[b] \in {"u_create", "enter"} => end'[b] \in {"push", "keep"}
    BY DEF Carried
  <2>1. CASE b = a
    BY <1>1, <1>2, <1>3, <1>4, <2>1, ZenonT(40)
  <2>2. CASE b # a
    <3>1. pc[b] \in Busy => cur[b] \in Threads /\ cur[b] # t
      BY <1>2 DEF IInv, Alone
    <3> QED
      BY <1>2, <1>3, <1>4, <2>2, <3>1, SMTT(30) DEF CInv, Carried
  <2> QED
    BY <2>1, <2>2
<1>7. Contents'
  <2>1. \A b \in Agents : pc'[b] \in Looking => pc[b] \in Looking /\ cur'[b] = cur[b] /\ to'[b] = to[b]
    BY <1>4 DEF Looking
  <2> QED
    BY <1>2, <1>3, <1>4, <2>1, ContentsFrame DEF CInv
<1> QED
  BY <1>5, <1>6, <1>7 DEF CInv

\* The steps of ABTI_pool_associate after the first.
LEMMA MoveCInv ==
  ASSUME IInv, CInv, NEW a \in Agents,
         Forget(a) \/ disassociate(a) \/ u_create_from_thread(a) \/ Enter(a)
  PROVE  CInv'
<1>t. PICK t : t = cur[a]
  OBVIOUS
<1>1. /\ pc[a] \in {"erase", "u_free", "clear", "u_create", "enter"}
      /\ UNCHANGED <<num_user_pools, live, content, state, cur, to, end>>
  BY DEF Forget, disassociate, u_create_from_thread, Enter
<1>2. pc[a] \in Busy /\ t \in Threads /\ state[t] = "held" /\ to[a] \in Pools /\ end[a] \in {"push", "keep", "free"}
  <2>1. pc[a] \in Busy
    BY <1>1 DEF Busy, Middle
  <2> QED
    BY <1>t, <2>1 DEF IInv, Alone, Types, CInv, Carried
<1>3. \E l \in Busy : /\ pc' = [pc EXCEPT ![a] = l]
                      /\ l \in {"push", "keep", "u_create", "enter"} => pool'[t] = to[a]
                      /\ l \in {"u_create", "enter"} => end[a] \in {"push", "keep"}
  <2>1. CASE Forget(a)
    BY <2>1, SMTT(30) DEF Forget, Goto, Busy, Middle
  <2>2. CASE disassociate(a)
    <3>1. PICK l : l = IF end[a] = "free" \/ to[a] = Fifo THEN end[a] ELSE "u_create"
      OBVIOUS
    <3>2. l \in Busy /\ (l \in {"u_create", "enter", "push", "keep"} => end[a] \in {"push", "keep"})
      BY <1>2, <3>1 DEF Busy, Middle
    <3>3. pc' = [pc EXCEPT ![a] = l]
      BY <2>2, <3>1 DEF disassociate, Goto
    <3>4. end[a] # "free" => pool'[t] = to[a]
      BY <1>t, <1>2, <2>2 DEF disassociate, IInv, Types
    <3> QED
      BY <3>2, <3>3, <3>4
  <2>3. CASE u_create_from_thread(a)
    BY <1>t, <2>3 DEF u_create_from_thread, Goto, CInv, Carried, Busy, Middle
  <2>4. CASE Enter(a)
    BY <1>t, <2>4 DEF Enter, Goto, CInv, Carried, Busy, Middle
  <2> QED
    BY <2>1, <2>2, <2>3, <2>4, ZenonT(40)
<1>4. PICK l \in Busy : /\ pc' = [pc EXCEPT ![a] = l]
                        /\ l \in {"push", "keep", "u_create", "enter"} => pool'[t] = to[a]
                        /\ l \in {"u_create", "enter"} => end[a] \in {"push", "keep"}
  BY <1>3
<1>5. pc'[a] = l /\ \A b \in Agents : b # a => pc'[b] = pc[b]
  BY <1>4 DEF IInv, Types
<1>6. /\ \A s \in Threads : s # t => pool'[s] = pool[s] /\ unit'[s] = unit[s]
      /\ pool'[t] \in Users => pool[t] \in Users \/ to[a] \in Users
  BY <1>t, <1>2, UserPoolAssumption DEF Forget, disassociate, u_create_from_thread, Enter, IInv, Types, Pools
<1>7. Counted'
  BY <1>1, <1>2, <1>6 DEF CInv, Counted
<1>8. Carried'
  <2> SUFFICES ASSUME NEW b \in Agents
               PROVE  /\ pc'[b] \in Busy => state[cur[b]] = "held"
                      /\ pc'[b] \in {"push", "keep", "u_create", "enter"} => pool'[cur[b]] = to[b]
                      /\ pc'[b] \in {"u_create", "enter"} => end[b] \in {"push", "keep"}
    BY <1>1 DEF Carried
  <2>1. CASE b = a
    BY <1>2, <1>4, <1>5, <1>t, <2>1
  <2>2. CASE b # a
    <3>1. pc[b] \in Busy => cur[b] \in Threads /\ cur[b] # t
      BY <1>2, <1>t, <2>2 DEF IInv, Alone
    <3>2. {"push", "keep", "u_create", "enter"} \subseteq Busy
      BY DEF Busy, Middle
    <3> QED
      BY <1>5, <1>6, <2>2, <3>1, <3>2, ZenonT(40) DEF CInv, Carried
  <2> QED
    BY <2>1, <2>2
<1>9. Contents'
  <2>1. \A s \in Threads : state[s] = "in" => s # t
    BY <1>2
  <2>2. \A b \in Agents : pc'[b] \in Looking => pc[b] \in Looking
    <3>1. l \notin Looking
      BY <1>4 DEF Looking, Busy, Middle
    <3> QED
      BY <1>5, <3>1
  <2>3. /\ state' \in [Threads -> {"none", "held", "in"}]
        /\ cur' \in [Agents -> Threads \cup Units \cup {None}]
    BY <1>1 DEF CInv, Contents
  <2> QED
    BY <1>1, <1>6, <2>1, <2>2, <2>3, ContentsFrame DEF CInv
<1> QED
  BY <1>7, <1>8, <1>9 DEF CInv

\* x is the unit of s, which is of the pool p.
Of(s, p, x) == pool[s] = p /\ x = thread_to_unit(s)

Distinct(c) == \A m \in 1..Len(c) : \A n \in 1..Len(c) : c[m] = c[n] => m = n

LEMMA DistinctAppend ==
  ASSUME NEW S, NEW s, NEW c, NEW x, IsAppend(S, c, s, x), \A n \in 1..Len(s) : s[n] # x, Distinct(s)
  PROVE  Distinct(c)
  BY SMTT(30) DEF Distinct, IsAppend

\* The content of one pool becomes c, and only one agent starts or stops looking.
Moves(a, q, c) ==
  /\ content' = [content EXCEPT ![q] = c] /\ pool' = pool /\ unit' = unit
  /\ state' \in [Threads -> {"none", "held", "in"}] /\ cur' \in [Agents -> Threads \cup Units \cup {None}]
  /\ \A b \in Agents : b # a => pc'[b] = pc[b] /\ cur'[b] = cur[b] /\ to'[b] = to[b]
  /\ \A p \in Pools : p # q => \A n \in 1..Len(content[p]) : \A s \in Threads :
       Inside(s, p, content[p][n]) => state'[s] = "in"
  /\ \A b \in Agents : b # a /\ pc[b] \in Looking => \A s \in Threads :
       Inside(s, to[b], cur[b]) => state'[s] = "in"
  /\ \A n \in 1..Len(c) : \E s \in Threads : Of(s, q, c[n]) /\ state'[s] = "in"
  /\ Distinct(c)
  /\ \A b \in Agents : b # a /\ pc[b] \in Looking => \A n \in 1..Len(c) : c[n] # cur[b]
  /\ pc'[a] \in Looking =>
       /\ to'[a] \in Users
       /\ \E s \in Threads : Of(s, to'[a], cur'[a]) /\ state'[s] = "in"
       /\ \A n \in 1..Len(c) : c[n] # cur'[a]
       /\ \A p \in Pools : p # q => \A n \in 1..Len(content[p]) : content[p][n] # cur'[a]
       /\ \A b \in Agents : b # a /\ pc[b] \in Looking => cur[b] # cur'[a]

LEMMA OfInside ==
  ASSUME NEW s, NEW p, NEW x, Of(s, p, x), pool' = pool, unit' = unit, state'[s] = "in"
  PROVE  state'[s] = "in" /\ pool'[s] = p /\ x = thread_to_unit(s)'
  BY DEF Of, thread_to_unit

LEMMA ContentsMove ==
  ASSUME Contents, NEW a \in Agents, NEW q \in Pools, NEW c \in Seq(Threads \cup Units), Moves(a, q, c)
  PROVE  Contents'
<1>1. /\ content' \in [Pools -> Seq(Threads \cup Units)] /\ content'[q] = c
      /\ \A p \in Pools : p # q => content'[p] = content[p]
  BY DEF Contents, Moves
<1>2. /\ pool' = pool /\ unit' = unit /\ state' \in [Threads -> {"none", "held", "in"}]
      /\ cur' \in [Agents -> Threads \cup Units \cup {None}]
      /\ \A b \in Agents : b # a => pc'[b] = pc[b] /\ cur'[b] = cur[b] /\ to'[b] = to[b]
  BY DEF Moves
<1>3. \A s, p, x : Inside(s, p, x) => Of(s, p, x)
  BY DEF Inside, Of
<1>4. ASSUME NEW p \in Pools, NEW n \in 1..Len(content'[p])
      PROVE  \E t \in Threads : Inside(t, p, content[p][n])'
  <2>y. PICK y : y = content'[p][n]
    OBVIOUS
  <2>1. \E s \in Threads : Of(s, p, y) /\ state'[s] = "in"
    <3>1. CASE p = q
      <4>1. n \in 1..Len(c) /\ y = c[n]
        BY <1>1, <1>4, <2>y, <3>1
      <4> QED
        BY <3>1, <4>1 DEF Moves
    <3>2. CASE p # q
      <4>1. n \in 1..Len(content[p]) /\ y = content[p][n]
        BY <1>1, <1>4, <2>y, <3>2
      <4>2. PICK s \in Threads : Inside(s, p, y)
        BY <4>1 DEF Contents
      <4>3. state'[s] = "in"
        BY <3>2, <4>1, <4>2 DEF Moves
      <4> QED
        BY <1>3, <4>2, <4>3
    <3> QED
      BY <3>1, <3>2
  <2>2. PICK s \in Threads : Of(s, p, y) /\ state'[s] = "in"
    BY <2>1
  <2>3. state'[s] = "in" /\ pool'[s] = p /\ y = thread_to_unit(s)'
    BY <1>2, <2>2, OfInside
  <2> QED
    BY <2>y, <2>3 DEF Inside
<1>5. \A p \in Pools : Distinct(content'[p])
  <2>1. Distinct(c) /\ \A p \in Pools : Distinct(content[p])
    BY DEF Moves, Contents, Distinct
  <2> QED
    BY <1>1, <2>1
<1>6. ASSUME NEW b \in Agents, pc'[b] \in Looking
      PROVE  /\ to'[b] \in Users
             /\ \E t \in Threads : Inside(t, to[b], cur[b])'
             /\ \A p \in Pools : \A n \in 1..Len(content'[p]) : content'[p][n] # cur'[b]
             /\ \A d \in Agents : pc'[d] \in Looking /\ cur'[d] = cur'[b] => b = d
  <2>y. PICK y : y = cur'[b]
    OBVIOUS
  <2>p. PICK r : r = to'[b]
    OBVIOUS
  <2>1. /\ r \in Users
        /\ \E s \in Threads : Of(s, r, y) /\ state'[s] = "in"
        /\ \A n \in 1..Len(c) : c[n] # y
        /\ \A p \in Pools : p # q => \A n \in 1..Len(content[p]) : content[p][n] # y
        /\ \A d \in Agents : pc'[d] \in Looking /\ cur'[d] = y => b = d
    <3>1. CASE b = a
      <4>1. /\ to'[a] \in Users
            /\ \E s \in Threads : Of(s, to'[a], cur'[a]) /\ state'[s] = "in"
            /\ \A n \in 1..Len(c) : c[n] # cur'[a]
            /\ \A p \in Pools : p # q => \A n \in 1..Len(content[p]) : content[p][n] # cur'[a]
            /\ \A d \in Agents : d # a /\ pc[d] \in Looking => cur[d] # cur'[a]
        BY <1>6, <3>1 DEF Moves
      <4>2. \A d \in Agents : pc'[d] \in Looking /\ cur'[d] = y => b = d
        BY <1>2, <2>y, <3>1, <4>1
      <4> QED
        BY <2>y, <2>p, <3>1, <4>1, <4>2
    <3>2. CASE b # a
      <4>1. pc[b] \in Looking /\ y = cur[b] /\ r = to[b]
        BY <1>2, <1>6, <2>y, <2>p, <3>2
      <4>2. PICK s \in Threads : Inside(s, r, y)
        BY <4>1 DEF Contents
      <4>3. state'[s] = "in" /\ Of(s, r, y)
        BY <1>3, <3>2, <4>1, <4>2 DEF Moves
      <4>4. \A n \in 1..Len(c) : c[n] # y
        BY <3>2, <4>1 DEF Moves
      <4>5. r \in Users /\ \A p \in Pools : \A n \in 1..Len(content[p]) : content[p][n] # y
        BY <4>1 DEF Contents
      <4>6. \A d \in Agents : pc'[d] \in Looking /\ cur'[d] = y => b = d
        <5>1. \A d \in Agents : pc[d] \in Looking /\ cur[d] = y => b = d
          BY <4>1 DEF Contents
        <5>2. pc'[a] \in Looking => cur'[a] # y
          BY <3>2, <4>1 DEF Moves
        <5> QED
          BY <1>2, <5>1, <5>2
      <4> QED
        BY <4>3, <4>4, <4>5, <4>6
    <3> QED
      BY <3>1, <3>2
  <2>2. PICK s \in Threads : Of(s, r, y) /\ state'[s] = "in"
    BY <2>1
  <2>3. state'[s] = "in" /\ pool'[s] = r /\ y = thread_to_unit(s)'
    BY <1>2, <2>2, OfInside
  <2>4. Inside(s, to[b], cur[b])'
    BY <2>y, <2>p, <2>3 DEF Inside
  <2>5. \A p \in Pools : \A n \in 1..Len(content'[p]) : content'[p][n] # y
    BY <1>1, <2>1
  <2> QED
    BY <2>y, <2>p, <2>1, <2>4, <2>5
<1> QED
  BY <1>1, <1>2, <1>4, <1>5, <1>6 DEF Contents, Distinct

\* A thread leaves its pool q, in which it is x: the others are still in theirs.
StillIn(q, x) ==
  /\ \A p \in Pools : p # q => \A n \in 1..Len(content[p]) : \A s \in Threads :
       Inside(s, p, content[p][n]) => state'[s] = "in"
  /\ \A b \in Agents : cur[b] # x /\ pc[b] \in Looking => \A s \in Threads :
       Inside(s, to[b], cur[b]) => state'[s] = "in"
  /\ \A n \in 1..Len(content[q]) : content[q][n] # x => \A s \in Threads :
       Inside(s, q, content[q][n]) => state'[s] = "in"

LEMMA OthersStay ==
  ASSUME IInv, CInv, NEW t \in Threads, NEW q \in Pools, NEW x, Inside(t, q, x),
         \A s \in Threads : s # t => state'[s] = state[s]
  PROVE  StillIn(q, x)
  BY DEF Inside, StillIn

\* What a step that only moves a unit does to the rest of the invariant.
LEMMA CarriedFrame ==
  ASSUME IInv, CInv, NEW a \in Agents, pool' = pool, end' = end, pc'[a] \notin Busy,
         UNCHANGED <<num_user_pools, live>>, \A b \in Agents : to'[b] \in Users => num_user_pools > 0,
         \A b \in Agents : b # a => pc'[b] = pc[b] /\ cur'[b] = cur[b] /\ to'[b] = to[b],
         \A b \in Agents : b # a /\ pc[b] \in Busy => state'[cur[b]] = "held"
  PROVE  Counted' /\ Carried'
<1>1. {"push", "keep", "u_create", "enter"} \subseteq Busy
  BY DEF Busy, Middle
<1>2. Counted'
  BY DEF CInv, Counted
<1>3. Carried'
  <2> SUFFICES ASSUME NEW b \in Agents
               PROVE  /\ pc'[b] \in Busy => state'[cur'[b]] = "held"
                      /\ pc'[b] \in {"push", "keep", "u_create", "enter"} => pool'[cur'[b]] = to'[b]
                      /\ pc'[b] \in {"u_create", "enter"} => end'[b] \in {"push", "keep"}
    BY DEF Carried
  <2>1. CASE b = a
    BY <1>1, <2>1
  <2>2. CASE b # a
    BY <1>1, <2>2, SMTT(30) DEF CInv, Carried
  <2> QED
    BY <2>1, <2>2
<1> QED
  BY <1>2, <1>3

LEMMA FinishCInv == ASSUME IInv, CInv, NEW a \in Agents, Finish(a) PROVE CInv'
<1>t. PICK t : t = cur[a]
  OBVIOUS
<1>1. /\ pc[a] \in {"push", "free", "keep"} /\ pc' = [pc EXCEPT ![a] = "out"] /\ cur' = [cur EXCEPT ![a] = None]
      /\ UNCHANGED <<num_user_pools, live, pool, unit, units, heap, to, end>>
  BY DEF Finish, Return, Goto
<1>2. /\ pc'[a] = "out" /\ pc'[a] \notin Busy /\ pc'[a] \notin Looking
      /\ \A b \in Agents : b # a => pc'[b] = pc[b] /\ cur'[b] = cur[b] /\ to'[b] = to[b]
      /\ cur' \in [Agents -> Threads \cup Units \cup {None}]
  BY <1>1 DEF IInv, Types, CInv, Contents, Busy, Middle, Looking
<1>3. pc[a] \in Busy /\ t \in Threads /\ state[t] = "held" /\ to[a] \in Pools
  <2>1. pc[a] \in Busy
    BY <1>1 DEF Busy
  <2> QED
    BY <1>t, <2>1 DEF IInv, Alone, CInv, Carried
<1>4. /\ state' \in [Threads -> {"none", "held", "in"}]
      /\ \A s \in Threads : s # t => state'[s] = state[s]
      /\ pc[a] = "push" => state'[t] = "in"
  BY <1>t, <1>1, <1>3 DEF Finish, CInv, Contents
<1>5. Counted' /\ Carried'
  <2>1. \A b \in Agents : b # a /\ pc[b] \in Busy => cur[b] \in Threads /\ cur[b] # t
    BY <1>t, <1>3 DEF IInv, Alone
  <2>2. \A b \in Agents : b # a /\ pc[b] \in Busy => state'[cur[b]] = "held"
    BY <1>4, <2>1 DEF CInv, Carried
  <2>3. \A b \in Agents : to'[b] \in Users => num_user_pools > 0
    BY <1>1 DEF CInv, Counted
  <2> QED
    BY <1>1, <1>2, <2>2, <2>3, CarriedFrame
<1>6. Contents'
  <2>1. CASE pc[a] # "push"
    <3>1. content' = content
      BY <2>1 DEF Finish
    <3>2. \A s \in Threads : state[s] = "in" => state'[s] = "in" /\ pool'[s] = pool[s] /\ unit'[s] = unit[s]
      BY <1>1, <1>3, <1>4
    <3>3. \A b \in Agents : pc'[b] \in Looking => pc[b] \in Looking /\ cur'[b] = cur[b] /\ to'[b] = to[b]
      BY <1>2
    <3> QED
      BY <1>2, <1>4, <3>1, <3>2, <3>3, ContentsFrame DEF CInv
  <2>2. CASE pc[a] = "push"
    <3>q. PICK q \in Pools : q = to[a]
      BY <1>3
    <3>x. PICK x : x = thread_to_unit(t)
      OBVIOUS
    <3>c. PICK c : c = Append(content[q], x)
      OBVIOUS
    <3>1. content' = [content EXCEPT ![q] = c]
      BY <1>t, <2>2, <3>q, <3>x, <3>c DEF Finish
    <3>2. pool[t] = q /\ ~Mid(t)
      <4>1. pool[t] = q
        BY <1>t, <2>2, <3>q DEF CInv, Carried
      <4>2. pc[a] \notin Middle /\ Middle \subseteq Busy
        BY <2>2 DEF Middle, Busy
      <4>3. ~Mid(t)
        BY <1>t, <1>3, <4>2 DEF Mid, At, IInv, Alone
      <4> QED
        BY <4>1, <4>3
    <3>3. x \in Threads \cup Units
      BY <1>3, <3>x, <3>2 DEF thread_to_unit, IInv, Settled, Types
    <3>4. ASSUME NEW s \in Threads, NEW p \in Pools, NEW y, Inside(s, p, y)
          PROVE  y # x /\ s # t /\ state'[s] = "in" /\ Of(s, p, y)
      <4>1. state[s] = "in" /\ pool[s] = p /\ y = thread_to_unit(s) /\ s # t
        BY <1>3, <3>4 DEF Inside
      <4>2. ~Mid(s)
        BY <4>1, InsideStill
      <4>3. y # x
        BY <1>3, <3>x, <3>2, <4>1, <4>2, SameUnit
      <4> QED
        BY <1>4, <4>1, <4>3 DEF Of
    <3>5. content[q] \in Seq(Threads \cup Units)
      BY DEF CInv, Contents
    <3>6. /\ c \in Seq(Threads \cup Units) /\ Len(c) = Len(content[q]) + 1 /\ Len(content[q]) \in Nat
          /\ c[Len(content[q]) + 1] = x /\ \A i \in 1..Len(content[q]) : c[i] = content[q][i]
      <4>1. IsAppend(Threads \cup Units, c, content[q], x)
        BY <3>c, <3>3, <3>5, AppendFacts
      <4> QED
        BY <4>1 DEF IsAppend
    <3>7. \A n \in 1..Len(c) : c[n] = x \/ (n \in 1..Len(content[q]) /\ c[n] = content[q][n])
      BY <3>6, SMTT(30)
    <3>8. \A n \in 1..Len(content[q]) : \E s \in Threads : Inside(s, q, content[q][n])
      BY DEF CInv, Contents
    <3>9. \A n \in 1..Len(c) : \E s \in Threads : Of(s, q, c[n]) /\ state'[s] = "in"
      <4>1. Of(t, q, x) /\ state'[t] = "in"
        BY <1>4, <2>2, <3>2, <3>x DEF Of
      <4> QED
        BY <1>3, <3>4, <3>7, <3>8, <4>1
    <3>10. Distinct(c)
      <4>1. \A n \in 1..Len(content[q]) : content[q][n] # x
        BY <3>4, <3>8
      <4>2. Distinct(content[q])
        BY DEF CInv, Contents, Distinct
      <4> QED
        <5>1. IsAppend(Threads \cup Units, c, content[q], x)
          BY <3>6 DEF IsAppend
        <5> QED
          BY <4>1, <4>2, <5>1, DistinctAppend
    <3>11. \A b \in Agents : b # a /\ pc[b] \in Looking => \A n \in 1..Len(c) : c[n] # cur[b]
      <4> SUFFICES ASSUME NEW b \in Agents, b # a, pc[b] \in Looking, NEW n \in 1..Len(c)
                   PROVE  c[n] # cur[b]
        OBVIOUS
      <4>1. PICK s \in Threads : Inside(s, to[b], cur[b])
        BY DEF CInv, Contents
      <4>2. to[b] \in Pools
        BY DEF CInv, Contents, Pools
      <4>3. cur[b] # x
        BY <3>4, <4>1, <4>2
      <4>4. \A i \in 1..Len(content[q]) : content[q][i] # cur[b]
        BY DEF CInv, Contents
      <4> QED
        BY <3>7, <4>3, <4>4
    <3>12. \A p \in Pools : p # q => \A n \in 1..Len(content[p]) : \A s \in Threads :
             Inside(s, p, content[p][n]) => state'[s] = "in"
      BY <3>4
    <3>13. \A b \in Agents : b # a /\ pc[b] \in Looking => \A s \in Threads :
             Inside(s, to[b], cur[b]) => state'[s] = "in"
      <4>1. \A b \in Agents : pc[b] \in Looking => to[b] \in Pools
        BY DEF CInv, Contents, Pools
      <4> QED
        BY <3>4, <4>1
    <3>14. Contents
      BY DEF CInv
    <3>15. Moves(a, q, c)
      BY <1>1, <1>2, <1>4, <3>1, <3>9, <3>10, <3>11, <3>12, <3>13 DEF Moves
    <3> QED
      BY <3>6, <3>14, <3>15, ContentsMove
  <2> QED
    BY <2>1, <2>2
<1> QED
  BY <1>5, <1>6 DEF CInv

\* The head of c, which is what q has, is popped.
LEMMA PopHead ==
  ASSUME IInv, CInv, NEW a \in Agents, NEW q \in Users, NEW c \in Seq(Threads \cup Units), c # <<>>,
         content' = [content EXCEPT ![q] = Tail(c)], pool' = pool, unit' = unit, state' = state,
         pc' = [pc EXCEPT ![a] = pc'[a]], pc'[a] \in Looking,
         cur' = [cur EXCEPT ![a] = Head(c)], to'[a] = q, \A b \in Agents : b # a => to'[b] = to[b],
         \A n \in 1..Len(c) : \E s \in Threads : Inside(s, q, c[n]),
         Distinct(c),
         \A b \in Agents : b # a /\ pc[b] \in Looking => \A n \in 1..Len(c) : c[n] # cur[b],
         \A p \in Pools : p # q => \A m \in 1..Len(content[p]) : \A n \in 1..Len(c) : content[p][m] # c[n]
  PROVE  Contents'
<1>1. PICK d : d = Tail(c)
  OBVIOUS
<1>2. /\ d \in Seq(Threads \cup Units) /\ Len(d) = Len(c) - 1 /\ Len(c) > 0 /\ Len(c) \in Nat
      /\ Head(c) = c[1] /\ \A i \in 1..Len(c) - 1 : d[i] = c[i + 1]
  <2>1. IsTail(Threads \cup Units, d, c)
    BY <1>1, TailFacts
  <2> QED
    BY <2>1 DEF IsTail
<1>3. \A n \in 1..Len(d) : n + 1 \in 1..Len(c) /\ d[n] = c[n + 1] /\ n + 1 # 1
  <2>1. Len(d) = Len(c) - 1 /\ Len(c) \in Nat
    BY <1>2
  <2>2. \A n \in 1..Len(d) : n \in 1..Len(c) - 1 /\ n + 1 \in 1..Len(c) /\ n + 1 # 1
    BY <2>1, SMTT(30)
  <2> QED
    BY <1>2, <2>2
<1>4. 1 \in 1..Len(c) /\ c[1] \in Threads \cup Units
  BY <1>2, SMTT(30)
<1>5. /\ cur' \in [Agents -> Threads \cup Units \cup {None}] /\ cur'[a] = c[1]
      /\ \A b \in Agents : b # a => pc'[b] = pc[b] /\ cur'[b] = cur[b] /\ to'[b] = to[b]
  BY <1>2, <1>4, ZenonT(40) DEF CInv, Contents, IInv, Types
<1>6. \A n \in 1..Len(c) : \E s \in Threads : Of(s, q, c[n]) /\ state'[s] = "in"
  BY DEF Inside, Of
<1>7. \A n \in 1..Len(d) : \E s \in Threads : Of(s, q, d[n]) /\ state'[s] = "in"
  BY <1>3, <1>6, SMTT(30)
<1>8. Distinct(d)
  <2> SUFFICES ASSUME NEW m \in 1..Len(d), NEW n \in 1..Len(d), d[m] = d[n]
               PROVE  m = n
    BY DEF Distinct
  <2>1. m + 1 = n + 1
    BY <1>3, SMTT(30) DEF Distinct
  <2> QED
    BY <1>2, <2>1, SMTT(30)
<1>9. \A n \in 1..Len(d) : d[n] # c[1]
  BY <1>3, <1>4, SMTT(30) DEF Distinct
<1>10. \A b \in Agents : b # a /\ pc[b] \in Looking => cur[b] # c[1] /\ \A n \in 1..Len(d) : d[n] # cur[b]
  BY <1>3, <1>4, SMTT(30)
<1>11. \A p \in Pools : p # q => \A n \in 1..Len(content[p]) : content[p][n] # c[1]
  BY <1>4, SMTT(30)
<1>12. \E s \in Threads : Of(s, to'[a], cur'[a]) /\ state'[s] = "in"
  BY <1>4, <1>5, <1>6, SMTT(30)
<1>13. /\ \A p \in Pools : p # q => \A n \in 1..Len(content[p]) : \A s \in Threads :
            Inside(s, p, content[p][n]) => state'[s] = "in"
       /\ \A b \in Agents : b # a /\ pc[b] \in Looking => \A s \in Threads :
            Inside(s, to[b], cur[b]) => state'[s] = "in"
  BY DEF Inside
<1>14. q \in Pools /\ Contents /\ state' \in [Threads -> {"none", "held", "in"}]
  BY DEF Pools, CInv, Contents
<1>15. pc'[a] \in Looking =>
           /\ to'[a] \in Users
           /\ \E s \in Threads : Of(s, to'[a], cur'[a]) /\ state'[s] = "in"
           /\ \A n \in 1..Len(d) : d[n] # cur'[a]
           /\ \A p \in Pools : p # q => \A n \in 1..Len(content[p]) : content[p][n] # cur'[a]
           /\ \A b \in Agents : b # a /\ pc[b] \in Looking => cur[b] # cur'[a]
  <2>1. cur'[a] = c[1]
    BY <1>5
  <2>2. \A b \in Agents : b # a /\ pc[b] \in Looking => cur[b] # c[1]
    BY <1>10
  <2>3. to'[a] \in Users
    OBVIOUS
  <2>4. \A b \in Agents : b # a /\ pc[b] \in Looking => cur[b] # cur'[a]
    BY <2>1, <2>2
  <2>5. \A n \in 1..Len(d) : d[n] # cur'[a]
    BY <1>9, <2>1
  <2>6. \A p \in Pools : p # q => \A n \in 1..Len(content[p]) : content[p][n] # cur'[a]
    BY <1>11, <2>1, SMTT(30)
  <2> QED
    BY <1>12, <2>3, <2>4, <2>5, <2>6
<1>16. content' = [content EXCEPT ![q] = d]
  BY <1>1
<1>17. \A b \in Agents : b # a /\ pc[b] \in Looking => \A n \in 1..Len(d) : d[n] # cur[b]
  BY <1>10
<1>18. d \in Seq(Threads \cup Units)
  BY <1>2
<1>19. Moves(a, q, d)
  BY <1>5, <1>7, <1>8, <1>13, <1>14, <1>15, <1>16, <1>17 DEF Moves
<1> QED
  BY <1>14, <1>18, <1>19, ContentsMove

LEMMA PopCInv == ASSUME IInv, CInv, NEW a \in Agents, NEW q \in Users, pool_pop(a, q) PROVE CInv'
<1>1. /\ pc[a] \in {"out", "back"} /\ q \in live /\ content[q] # <<>> /\ q \in Pools
      /\ content' = [content EXCEPT ![q] = Tail(content[q])]
      /\ cur' = [cur EXCEPT ![a] = Head(content[q])] /\ to' = [to EXCEPT ![a] = q]
      /\ pc' = [pc EXCEPT ![a] = IF pc[a] = "out" THEN "popped" ELSE "again"]
      /\ UNCHANGED <<num_user_pools, live, pool, unit, units, heap, state, end>>
  BY DEF pool_pop, Goto, Pools
<1>2. /\ pc'[a] \in Looking /\ pc'[a] \notin Busy /\ to'[a] = q
      /\ \A b \in Agents : b # a => pc'[b] = pc[b] /\ cur'[b] = cur[b] /\ to'[b] = to[b]
  BY <1>1 DEF IInv, Types, Looking, Busy, Middle
<1>3. Counted' /\ Carried'
  <2>1. \A b \in Agents : to'[b] \in Users => num_user_pools > 0
    BY <1>1, <1>2 DEF CInv, Counted
  <2>2. \A b \in Agents : b # a /\ pc[b] \in Busy => state'[cur[b]] = "held"
    BY <1>1 DEF CInv, Carried
  <2> QED
    BY <1>1, <1>2, <2>1, <2>2, CarriedFrame
<1>4. Contents'
  <2>c. PICK c : c = content[q]
    OBVIOUS
  <2>1. /\ c \in Seq(Threads \cup Units) /\ Distinct(c)
        /\ \A n \in 1..Len(c) : \E s \in Threads : Inside(s, q, c[n])
        /\ \A b \in Agents : b # a /\ pc[b] \in Looking => \A n \in 1..Len(c) : c[n] # cur[b]
    BY <1>1, <2>c DEF CInv, Contents, Distinct
  <2>2. \A p \in Pools : p # q => \A m \in 1..Len(content[p]) : \A n \in 1..Len(c) : content[p][m] # c[n]
    <3> SUFFICES ASSUME NEW p \in Pools, p # q, NEW m \in 1..Len(content[p]), NEW n \in 1..Len(c),
                        content[p][m] = c[n]
                 PROVE  FALSE
      OBVIOUS
    <3>1. PICK s \in Threads : Inside(s, p, content[p][m])
      BY DEF CInv, Contents
    <3>2. PICK t \in Threads : Inside(t, q, c[n])
      BY <2>1
    <3>3. s = t
      BY <1>1, <3>1, <3>2, SameUnit, InsideStill DEF Inside
    <3> QED
      BY <3>1, <3>2, <3>3 DEF Inside
  <2>3. /\ c # <<>> /\ content' = [content EXCEPT ![q] = Tail(c)] /\ cur' = [cur EXCEPT ![a] = Head(c)]
        /\ pool' = pool /\ unit' = unit /\ state' = state
    BY <1>1, <2>c
  <2>4. pc' = [pc EXCEPT ![a] = pc'[a]] /\ \A b \in Agents : b # a => to'[b] = to[b]
    BY <1>1, <1>2
  <2> QED
    BY <1>2, <2>1, <2>2, <2>3, <2>4, PopHead
<1> QED
  BY <1>3, <1>4 DEF CInv

LEMMA PoppedCInv == ASSUME IInv, CInv, NEW a \in Agents, Popped(a) PROVE CInv'
<1>1. pc[a] \in Looking /\ UNCHANGED <<num_user_pools, live, pool, unit, units, heap, to, end>>
  BY DEF Popped, Looking
<1>2. PICK q \in Users : q = to[a] /\ q \in Pools
  BY <1>1 DEF CInv, Contents, Pools
<1>x. PICK x : x = cur[a]
  OBVIOUS
<1>3. PICK t \in Threads : Inside(t, q, x)
  BY <1>1, <1>2, <1>x DEF CInv, Contents
<1>4. unit_to_thread(x) = t /\ t # None
  BY <1>2, <1>3, Resolves, UserPoolAssumption
<1>5. x \in Threads \cup Units
  BY <1>2, <1>3, InsideStill DEF Inside, thread_to_unit, IInv, Settled, Types
<1>6. /\ content[q] \in Seq(Threads \cup Units) /\ Distinct(content[q])
      /\ \A n \in 1..Len(content[q]) : content[q][n] # x
      /\ \A n \in 1..Len(content[q]) : \E s \in Threads : Inside(s, q, content[q][n])
      /\ \A b \in Agents : b # a /\ pc[b] \in Looking =>
           cur[b] # x /\ \A n \in 1..Len(content[q]) : content[q][n] # cur[b]
  BY <1>1, <1>2, <1>x DEF CInv, Contents, Distinct
<1>7. \A b \in Agents : to'[b] \in Users => num_user_pools > 0
  BY <1>1 DEF CInv, Counted
<1>8. Contents
  BY DEF CInv
<1>9. CASE ~pinned_elsewhere(a, t)
  <2>1. /\ state' = [state EXCEPT ![t] = "held"] /\ content' = content
        /\ pc' = [pc EXCEPT ![a] = "out"] /\ cur' = [cur EXCEPT ![a] = None]
    BY <1>x, <1>4, <1>9 DEF Popped, Return, Goto
  <2>2. /\ pc'[a] \notin Busy /\ pc'[a] \notin Looking
        /\ \A b \in Agents : b # a => pc'[b] = pc[b] /\ cur'[b] = cur[b] /\ to'[b] = to[b]
        /\ cur' \in [Agents -> Threads \cup Units \cup {None}]
    BY <1>1, <2>1 DEF IInv, Types, CInv, Contents, Busy, Middle, Looking
  <2>3. /\ state' \in [Threads -> {"none", "held", "in"}] /\ \A s \in Threads : s # t => state'[s] = state[s]
        /\ state'[t] = "held"
    BY <2>1 DEF CInv, Contents
  <2>4. \A b \in Agents : b # a /\ pc[b] \in Busy => state'[cur[b]] = "held"
    BY <2>3 DEF CInv, Carried, IInv, Alone
  <2>5. Counted' /\ Carried'
    BY <1>1, <1>7, <2>2, <2>4, CarriedFrame
  <2>6. content' = [content EXCEPT ![q] = content[q]]
    BY <1>2, <1>8, <2>1 DEF Contents
  <2>7. /\ \A p \in Pools : p # q => \A n \in 1..Len(content[p]) : \A s \in Threads :
              Inside(s, p, content[p][n]) => state'[s] = "in"
        /\ \A b \in Agents : b # a /\ pc[b] \in Looking => \A s \in Threads :
              Inside(s, to[b], cur[b]) => state'[s] = "in"
        /\ \A n \in 1..Len(content[q]) : \A s \in Threads :
              Inside(s, q, content[q][n]) => state'[s] = "in"
    <3>1. StillIn(q, x)
      BY <1>2, <1>3, <2>3, OthersStay
    <3> QED
      BY <1>6, <3>1 DEF StillIn
  <2>8. \A n \in 1..Len(content[q]) : \E s \in Threads : Of(s, q, content[q][n]) /\ state'[s] = "in"
    BY <1>6, <2>7 DEF Inside, Of
  <2>9. Contents'
    <3>1. \A b \in Agents : b # a /\ pc[b] \in Looking => \A n \in 1..Len(content[q]) : content[q][n] # cur[b]
      BY <1>6
    <3>2. pool' = pool /\ unit' = unit
      BY <1>1
    <3>3. Moves(a, q, content[q])
      BY <1>6, <2>2, <2>3, <2>6, <2>7, <2>8, <3>1, <3>2 DEF Moves
    <3> QED
      BY <1>2, <1>6, <1>8, <3>3, ContentsMove
  <2> QED
    BY <2>5, <2>9 DEF CInv
<1>10. CASE pinned_elsewhere(a, t)
  <2>c. PICK c : c = Append(content[q], x)
    OBVIOUS
  <2>1. /\ c \in Seq(Threads \cup Units) /\ Len(c) = Len(content[q]) + 1 /\ Len(content[q]) \in Nat
        /\ c[Len(content[q]) + 1] = x /\ \A i \in 1..Len(content[q]) : c[i] = content[q][i]
    <3>1. IsAppend(Threads \cup Units, c, content[q], x)
      BY <1>5, <1>6, <2>c, AppendFacts
    <3> QED
      BY <3>1 DEF IsAppend
  <2>2. \A n \in 1..Len(c) : c[n] = x \/ (n \in 1..Len(content[q]) /\ c[n] = content[q][n])
    BY <2>1, SMTT(30)
  <2>3. \A n \in 1..Len(c) : \E s \in Threads : Inside(s, q, c[n])
    BY <1>3, <1>6, <2>2
  <2>4. Distinct(c)
    BY <1>6, <2>1, SMTT(30) DEF Distinct
  <2>5. \A b \in Agents : b # a /\ pc[b] \in Looking => \A n \in 1..Len(c) : c[n] # cur[b]
    BY <1>6, <2>2
  <2>6. state' = state /\ \A b \in Agents : b # a /\ pc[b] \in Busy => state'[cur[b]] = "held"
    BY <1>x, <1>4, <1>10 DEF Popped, CInv, Carried
  <2>7. /\ content' = [content EXCEPT ![q] = c]
        /\ cur' = [cur EXCEPT ![a] = None]
        /\ pc' = [pc EXCEPT ![a] = IF pc[a] = "popped" THEN "back" ELSE "out"]
    BY <1>x, <1>2, <1>4, <1>10, <2>c DEF Popped, Goto
  <2>8. /\ pc'[a] \notin Looking /\ pc'[a] \notin Busy
        /\ \A b \in Agents : b # a => pc'[b] = pc[b] /\ cur'[b] = cur[b] /\ to'[b] = to[b]
        /\ cur' \in [Agents -> Threads \cup Units \cup {None}]
    BY <1>1, <2>7, <1>8 DEF IInv, Types, Contents, Looking, Busy, Middle
  <2>9. Counted' /\ Carried'
    BY <1>1, <1>7, <2>6, <2>8, CarriedFrame
  <2>10. \A n \in 1..Len(c) : \E s \in Threads : Of(s, q, c[n]) /\ state'[s] = "in"
    BY <2>3, <2>6 DEF Inside, Of
  <2>11. /\ \A p \in Pools : p # q => \A n \in 1..Len(content[p]) : \A s \in Threads :
              Inside(s, p, content[p][n]) => state'[s] = "in"
         /\ \A b \in Agents : b # a /\ pc[b] \in Looking => \A s \in Threads :
              Inside(s, to[b], cur[b]) => state'[s] = "in"
    BY <2>6 DEF Inside
  <2>12. state' \in [Threads -> {"none", "held", "in"}]
    BY <1>8, <2>6 DEF Contents
  <2>13. Moves(a, q, c)
    BY <1>1, <2>4, <2>5, <2>7, <2>8, <2>10, <2>11, <2>12 DEF Moves
  <2>14. Contents'
    BY <1>2, <1>8, <2>1, <2>13, ContentsMove
  <2> QED
    BY <2>9, <2>14 DEF CInv
<1> QED
  BY <1>9, <1>10

LEMMA PopNothingCInv == ASSUME IInv, CInv, NEW a \in Agents, PopNothing(a) PROVE CInv'
<1>1. /\ UNCHANGED <<num_user_pools, live, pool, unit, units, heap, content, state, to, end>>
      /\ pc' = [pc EXCEPT ![a] = "out"] /\ cur' = [cur EXCEPT ![a] = None]
  BY DEF PopNothing, Return, Goto, obj
<1>2. /\ pc'[a] \notin Busy /\ pc'[a] \notin Looking
      /\ \A b \in Agents : b # a => pc'[b] = pc[b] /\ cur'[b] = cur[b] /\ to'[b] = to[b]
      /\ cur' \in [Agents -> Threads \cup Units \cup {None}]
  BY <1>1 DEF IInv, Types, CInv, Contents, Busy, Middle, Looking
<1>3. Counted' /\ Carried'
  <2>1. \A b \in Agents : to'[b] \in Users => num_user_pools > 0
    BY <1>1 DEF CInv, Counted
  <2>2. \A b \in Agents : b # a /\ pc[b] \in Busy => state'[cur[b]] = "held"
    BY <1>1 DEF CInv, Carried
  <2> QED
    BY <1>1, <1>2, <2>1, <2>2, CarriedFrame
<1>4. Contents'
  <2>1. \A b \in Agents : pc'[b] \in Looking => pc[b] \in Looking /\ cur'[b] = cur[b] /\ to'[b] = to[b]
    BY <1>2
  <2>2. state' \in [Threads -> {"none", "held", "in"}]
    BY <1>1 DEF CInv, Contents
  <2> QED
    BY <1>1, <1>2, <2>1, <2>2, ContentsFrame DEF CInv
<1> QED
  BY <1>3, <1>4 DEF CInv

LEMMA TakeCInv ==
  ASSUME IInv, CInv, NEW a \in Agents, NEW q \in Pools, NEW x, Take(a, q, x)
  PROVE  CInv'
<1>1. PICK k \in 1..Len(content[q]) : content[q][k] = x /\ content' = [content EXCEPT ![q] = Without(content[q], k)]
  BY DEF Take
<1>2. /\ pc[a] = "out" /\ state' = [state EXCEPT ![any_unit_to_thread(x)] = "held"]
      /\ UNCHANGED <<num_user_pools, live, pool, unit, units, heap, pc, cur, to, end>>
  BY DEF Take
<1>3. Contents
  BY DEF CInv
<1>4. PICK t \in Threads : Inside(t, q, x)
  BY <1>1, <1>3 DEF Contents
<1>5. any_unit_to_thread(x) = t
  BY <1>4, Resolves
<1>6. /\ state' \in [Threads -> {"none", "held", "in"}] /\ \A s \in Threads : s # t => state'[s] = state[s]
      /\ state'[t] = "held"
  BY <1>2, <1>3, <1>5 DEF Contents
<1>7. pc[a] \notin Busy /\ pc[a] \notin Looking
  BY <1>2 DEF Busy, Middle, Looking
<1>8. Counted' /\ Carried'
  <2>1. \A b \in Agents : b # a /\ pc[b] \in Busy => state'[cur[b]] = "held"
    BY <1>6 DEF CInv, Carried, IInv, Alone
  <2>2. \A b \in Agents : to'[b] \in Users => num_user_pools > 0
    BY <1>2 DEF CInv, Counted
  <2> QED
    BY <1>2, <1>7, <2>1, <2>2, CarriedFrame
<1>c. PICK c : c = Without(content[q], k)
  OBVIOUS
<1>9. /\ c \in Seq(Threads \cup Units) /\ Len(c) = Len(content[q]) - 1 /\ Len(content[q]) \in Nat
      /\ \A i \in 1..Len(content[q]) - 1 : c[i] = IF i < k THEN content[q][i] ELSE content[q][i + 1]
  <2>1. content[q] \in Seq(Threads \cup Units)
    BY <1>3 DEF Contents
  <2> QED
    BY <1>c, <2>1, WithoutFacts
<1>10. ASSUME NEW i \in 1..Len(c)
       PROVE  \E j \in 1..Len(content[q]) : j # k /\ c[i] = content[q][j] /\ j = IF i < k THEN i ELSE i + 1
  <2>1. CASE i < k
    <3>1. i \in 1..Len(content[q]) /\ i # k /\ i \in 1..Len(content[q]) - 1
      BY <1>9, <1>1, <1>10, <2>1, SMTT(30)
    <3> QED
      BY <1>9, <2>1, <3>1
  <2>2. CASE ~(i < k)
    <3>1. i + 1 \in 1..Len(content[q]) /\ i + 1 # k /\ i \in 1..Len(content[q]) - 1
      BY <1>9, <1>1, <1>10, <2>2, SMTT(30)
    <3> QED
      BY <1>9, <2>2, <3>1
  <2> QED
    BY <2>1, <2>2
<1>11. Distinct(content[q])
  BY <1>3 DEF Contents, Distinct
<1>12. \A j \in 1..Len(content[q]) : j # k => content[q][j] # x
  BY <1>1, <1>11 DEF Distinct
<1>13. \A b \in Agents : pc[b] \in Looking => cur[b] # x /\ \A j \in 1..Len(content[q]) : content[q][j] # cur[b]
  BY <1>1, <1>3 DEF Contents
<1>14. /\ \A p \in Pools : p # q => \A n \in 1..Len(content[p]) : \A s \in Threads :
             Inside(s, p, content[p][n]) => state'[s] = "in"
       /\ \A b \in Agents : b # a /\ pc[b] \in Looking => \A s \in Threads :
             Inside(s, to[b], cur[b]) => state'[s] = "in"
       /\ \A n \in 1..Len(content[q]) : n # k => \A s \in Threads :
             Inside(s, q, content[q][n]) => state'[s] = "in"
  <2>1. StillIn(q, x)
    BY <1>4, <1>6, OthersStay
  <2> QED
    BY <1>12, <1>13, <2>1 DEF StillIn
<1>15. \A i \in 1..Len(c) : \E s \in Threads : Of(s, q, c[i]) /\ state'[s] = "in"
  <2> SUFFICES ASSUME NEW i \in 1..Len(c) PROVE \E s \in Threads : Of(s, q, c[i]) /\ state'[s] = "in"
    OBVIOUS
  <2>1. PICK j \in 1..Len(content[q]) : j # k /\ c[i] = content[q][j]
    BY <1>10
  <2>2. PICK s \in Threads : Inside(s, q, content[q][j])
    BY <1>3 DEF Contents
  <2> QED
    BY <1>14, <2>1, <2>2 DEF Inside, Of
<1>16. Distinct(c)
  <2> SUFFICES ASSUME NEW m \in 1..Len(c), NEW n \in 1..Len(c), c[m] = c[n]
               PROVE  m = n
    BY DEF Distinct
  <2>1. PICK i \in 1..Len(content[q]) : c[m] = content[q][i] /\ i = IF m < k THEN m ELSE m + 1
    BY <1>10
  <2>2. PICK j \in 1..Len(content[q]) : c[n] = content[q][j] /\ j = IF n < k THEN n ELSE n + 1
    BY <1>10
  <2>3. i = j
    BY <1>11, <2>1, <2>2 DEF Distinct
  <2>4. m \in Nat /\ n \in Nat /\ k \in Nat
    BY <1>1, <1>9, SMTT(30)
  <2>5. i = IF m < k THEN m ELSE m + 1
    BY <2>1
  <2>6. i = IF n < k THEN n ELSE n + 1
    BY <2>2, <2>3
  <2> QED
    BY <2>4, <2>5, <2>6, SMTT(30)
<1>17. \A b \in Agents : b # a /\ pc[b] \in Looking => \A n \in 1..Len(c) : c[n] # cur[b]
  BY <1>10, <1>13, SMTT(30)
<1>18. Contents'
  <2>1. content' = [content EXCEPT ![q] = c]
    BY <1>1, <1>c
  <2>2. cur' \in [Agents -> Threads \cup Units \cup {None}]
    BY <1>2, <1>3 DEF Contents
  <2>3. Moves(a, q, c)
    BY <1>2, <1>6, <1>7, <1>14, <1>15, <1>16, <1>17, <2>1, <2>2, ZenonT(40) DEF Moves
  <2> QED
    BY <1>3, <1>9, <2>3, ContentsMove
<1> QED
  BY <1>8, <1>18 DEF CInv

LEMMA StepCInv == IInv /\ CInv /\ [Next]_vars => CInv'
<1> SUFFICES ASSUME IInv, CInv, [Next]_vars PROVE CInv'
  OBVIOUS
<1>1. CASE UNCHANGED vars
  <2>1. UNCHANGED <<num_user_pools, live, pool, unit, content, state, pc, cur, to, end>>
    BY <1>1 DEF vars, obj
  <2>2. Counted' /\ Carried'
    BY <2>1 DEF CInv, Counted, Carried
  <2>3. Contents'
    BY <2>1, ContentsFrame DEF CInv, Contents
  <2> QED
    BY <2>2, <2>3 DEF CInv
<1>2. ASSUME NEW q \in Users, pool_create(q) \/ pool_destroy(q) PROVE CInv'
  BY <1>2, PoolsCInv
<1>3. ASSUME NEW a \in Agents, NEW t \in Threads, NEW p \in Pools, NEW e \in {"push", "keep", "free"},
             pool_associate(a, t, p, e)
      PROVE  CInv'
  BY <1>3, AssociateCInv
<1>4. ASSUME NEW a \in Agents, NEW q \in Users, pool_pop(a, q) PROVE CInv'
  BY <1>4, PopCInv
<1>5. ASSUME NEW a \in Agents, NEW p \in Pools, NEW x, Take(a, p, x) PROVE CInv'
  BY <1>5, TakeCInv
<1>6. ASSUME NEW a \in Agents, Step(a) PROVE CInv'
  BY <1>6, MoveCInv, FinishCInv, PoppedCInv, PopNothingCInv DEF Step
<1> QED
  BY <1>1, <1>2, <1>3, <1>4, <1>5, <1>6 DEF Next

LEMMA ContentsRight == IInv /\ CInv => TypeOK /\ UnitsResolve
<1> SUFFICES ASSUME IInv, CInv PROVE TypeOK /\ UnitsResolve
  OBVIOUS
<1>1. TypeOK
  BY DEF TypeOK, IInv, Types, Places, Busy, Middle, CInv, Counted, Contents
<1>2. ASSUME NEW p \in Pools, NEW n \in 1..Len(content[p])
      PROVE  LET t == any_unit_to_thread(content[p][n]) IN
               t \in Threads /\ thread_to_unit(t) = content[p][n] /\ pool[t] = p /\ state[t] = "in"
  <2>1. PICK t \in Threads : Inside(t, p, content[p][n])
    BY <1>2 DEF CInv, Contents
  <2>2. any_unit_to_thread(content[p][n]) = t
    BY <2>1, Resolves
  <2> QED
    BY <2>1, <2>2 DEF Inside
<1>3. ASSUME NEW a \in Agents, pc[a] \in {"popped", "again"}
      PROVE  unit_to_thread(cur[a]) # None
  <2>1. to[a] \in Users /\ to[a] \in Pools /\ \E t \in Threads : Inside(t, to[a], cur[a])
    BY <1>3 DEF CInv, Contents, Looking, Pools
  <2>2. PICK t \in Threads : Inside(t, to[a], cur[a])
    BY <2>1
  <2> QED
    <3>1. unit_to_thread(cur[a]) = t
      BY <2>1, <2>2, Resolves
    <3> QED
      BY <3>1, UserPoolAssumption
<1> QED
  BY <1>1, <1>2, <1>3 DEF UnitsResolve

\* The map of units is exact: it is the inverse of the threads' units, no unit is leaked,
\* shared or freed twice, and whatever is in a pool, or was popped from one and is being
\* looked up under um, leads to the thread that was pushed, however the moves, pushes,
\* pops and removals of several agents interleave (pool.cpp:14-20, 139-152, 219-242,
\* 389-396).
THEOREM MapAlwaysExact == Spec => []UnitMapExact
<1>1. Spec => []CInv
  <2>1. Spec => [](IInv /\ CInv)
    <3>1. Init => IInv /\ CInv
      BY InitIInv, InitCInv
    <3>2. IInv /\ CInv /\ [Next]_vars => (IInv /\ CInv)'
      BY StepIInv, StepCInv
    <3> QED
      BY <3>1, <3>2, PTL DEF Spec
  <2> QED
    BY <2>1, PTL
<1>2. IInv /\ CInv => TypeOK /\ UnitsResolve
  BY ContentsRight
<1>3. TypeOK /\ MapIsInverse /\ UnitsOwned /\ UnitsResolve => UnitMapExact
  BY DEF UnitMapExact
<1> QED
  BY <1>1, <1>2, <1>3, Invariance, MapExact, UnitsNeverLeak, PTL
=============================================================================
