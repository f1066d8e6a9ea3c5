-------------------------------- MODULE Keys --------------------------------
(***************************************************************************)
(* Work-unit keys (thread.cpp): the values a work unit keeps under a key,  *)
(* and the pass over them that runs the keys' destructors when its         *)
(* function has returned or called ABT_thread_exit.                        *)
(*                                                                         *)
(* Key ids count from 1 and 0 is the null pointer, of values and of        *)
(* destructors.  Each value that is set is new, so that a value tells who  *)
(* set it.  jm and g_key_mutex are held for one step each.  The pass reads *)
(* the vector without jm: programs set keys of other ULTs only while those *)
(* run their functions.                                                    *)
(***************************************************************************)
EXTENDS Naturals, Sequences

CONSTANTS Ults,
          MaxKeys,   \* bound on the keys created
          HasDtor,   \* the ids of the keys that are created with a destructor
          MaxValues  \* bound on the values set

Ids == 1..MaxKeys
Values == 1..MaxValues

ASSUME KeysAssumption == MaxKeys \in Nat /\ MaxValues \in Nat /\ HasDtor \subseteq Ids

VARIABLES next_key, g_key_dtors,
          creating, \* the ids drawn whose destructor is not in the table yet
          open,     \* the keys a program may use
          freed,    \* the keys freed
          keys,     \* keys[t]: the vector of t
          pc,       \* "fn", "pass", "call" (d is to be called), "dtor" (it runs), "done"
          i, v, d,  \* the locals of run_key_destructors
          made,     \* how many values were set
          of,       \* of[x]: the ULT and the key x was set for
          by,       \* by[x]: the destructors called with x
          over,     \* the values that another value or NULL replaced
          late      \* the values set after the pass had come to their key

key_table == <<next_key, g_key_dtors, creating, open, freed>>
hist == <<made, of, by, over, late>>
vars == <<key_table, keys, pc, i, v, d, hist>>

Init == /\ next_key = 1 /\ g_key_dtors = <<>> /\ creating = {} /\ open = {} /\ freed = {}
        /\ keys = [t \in Ults |-> <<>>] /\ pc = [t \in Ults |-> "fn"]
        /\ i = [t \in Ults |-> 1] /\ v = [t \in Ults |-> 0] /\ d = [t \in Ults |-> 0]
        /\ made = 0 /\ of = [x \in Values |-> <<>>] /\ by = [x \in Values |-> <<>>]
        /\ over = {} /\ late = {}

\* std::vector::resize(n, nullptr) if the vector is shorter than n.
Grown(s, n) == IF Len(s) >= n THEN s ELSE [j \in 1..n |-> IF j <= Len(s) THEN s[j] ELSE 0]

-----------------------------------------------------------------------------
\* ABT_key_create draws an id ...
key_create ==
  /\ next_key <= MaxKeys
  /\ next_key' = next_key + 1 /\ creating' = creating \cup {next_key}
  /\ UNCHANGED <<g_key_dtors, open, freed, keys, pc, i, v, d, hist>>

\* ... and enters the destructor under it.
KeyEnter(k) ==
  /\ k \in creating /\ creating' = creating \ {k} /\ open' = open \cup {k}
  /\ g_key_dtors' = [Grown(g_key_dtors, k) EXCEPT ![k] = IF k \in HasDtor THEN k ELSE 0]
  /\ UNCHANGED <<next_key, freed, keys, pc, i, v, d, hist>>

\* ABT_key_free: the values stay in the vectors, their destructor is gone.
key_free(k) ==
  /\ k \in open /\ open' = open \ {k} /\ freed' = freed \cup {k}
  /\ g_key_dtors' = IF k <= Len(g_key_dtors) THEN [g_key_dtors EXCEPT ![k] = 0] ELSE g_key_dtors
  /\ UNCHANGED <<next_key, creating, keys, pc, i, v, d, hist>>

\* ABT_thread_get_specific, ABT_key_get.
get_specific(t, k) == IF k <= Len(keys[t]) THEN keys[t][k] ELSE 0

\* ABT_thread_set_specific, ABT_key_set: by any thread while t runs its function,
\* then by the destructors.
set_specific(t, k, new) ==
  /\ k \in open /\ pc[t] \in {"fn", "dtor"}
  /\ keys' = [keys EXCEPT ![t] = [Grown(keys[t], k) EXCEPT ![k] = new]]
  /\ over' = over \cup ({get_specific(t, k)} \ {0})
  /\ IF new = 0 THEN UNCHANGED <<made, of, late>>
     ELSE /\ new = made + 1 /\ made' = new
          /\ of' = [of EXCEPT ![new] = <<t, k>>]
          /\ late' = IF pc[t] = "dtor" /\ k <= i[t] THEN late \cup {new} ELSE late
  /\ UNCHANGED <<key_table, pc, i, v, d, by>>

-----------------------------------------------------------------------------
\* thread_main: fn has returned, or ABT_thread_exit has jumped out of it.
thread_main(t) ==
  /\ pc[t] = "fn" /\ pc' = [pc EXCEPT ![t] = "pass"]
  /\ UNCHANGED <<key_table, keys, i, v, d, hist>>

\* One round of run_key_destructors: empty slots are passed over, for the others
\* the destructor is looked up under g_key_mutex ...
run_key_destructors(t) ==
  /\ pc[t] = "pass"
  /\ IF i[t] > Len(keys[t]) THEN pc' = [pc EXCEPT ![t] = "done"] /\ UNCHANGED <<i, v, d>>
     ELSE IF keys[t][i[t]] = 0 THEN i' = [i EXCEPT ![t] = @ + 1] /\ UNCHANGED <<pc, v, d>>
     ELSE /\ pc' = [pc EXCEPT ![t] = "call"] /\ UNCHANGED i
          /\ v' = [v EXCEPT ![t] = keys[t][i[t]]]
          /\ d' = [d EXCEPT ![t] = IF i[t] <= Len(g_key_dtors) THEN g_key_dtors[i[t]] ELSE 0]
  /\ UNCHANGED <<key_table, keys, hist>>

\* Variant: the slot keeps the value while its destructor runs.
VariantCallDtor(t) ==
  /\ pc[t] = "call"
  /\ IF d[t] # 0 THEN /\ pc' = [pc EXCEPT ![t] = "dtor"] /\ UNCHANGED i
                      /\ by' = [by EXCEPT ![v[t]] = Append(@, d[t])]
     ELSE pc' = [pc EXCEPT ![t] = "pass"] /\ i' = [i EXCEPT ![t] = @ + 1] /\ UNCHANGED by
  /\ UNCHANGED <<key_table, keys, v, d, made, of, over, late>>

\* ... and called with the value, which has left its slot by then.
CallDtor(t) ==
  /\ pc[t] = "call"
  /\ keys' = [keys EXCEPT ![t][i[t]] = 0]
  /\ IF d[t] # 0 THEN /\ pc' = [pc EXCEPT ![t] = "dtor"] /\ UNCHANGED i
                      /\ by' = [by EXCEPT ![v[t]] = Append(@, d[t])]
     ELSE pc' = [pc EXCEPT ![t] = "pass"] /\ i' = [i EXCEPT ![t] = @ + 1] /\ UNCHANGED by
  /\ UNCHANGED <<key_table, v, d, made, of, over, late>>

DtorReturns(t) ==
  /\ pc[t] = "dtor" /\ pc' = [pc EXCEPT ![t] = "pass"] /\ i' = [i EXCEPT ![t] = @ + 1]
  /\ UNCHANGED <<key_table, keys, v, d, hist>>

Next == \/ key_create
        \/ \E k \in Ids : KeyEnter(k) \/ key_free(k)
        \/ \E t \in Ults, k \in Ids, new \in 0..MaxValues : set_specific(t, k, new)
        \/ \E t \in Ults : thread_main(t) \/ run_key_destructors(t) \/ CallDtor(t) \/ DtorReturns(t)

Spec == Init /\ [][Next]_vars

-----------------------------------------------------------------------------
\* The state has its types.
TypeOK ==
  /\ next_key \in 1..MaxKeys+1 /\ g_key_dtors \in Seq(0..MaxKeys)
  /\ creating \subseteq Ids /\ open \subseteq Ids /\ freed \subseteq Ids
  /\ keys \in [Ults -> Seq(0..MaxValues)] /\ pc \in [Ults -> {"fn", "pass", "call", "dtor", "done"}]
  /\ i \in [Ults -> Nat \ {0}] /\ v \in [Ults -> 0..MaxValues] /\ d \in [Ults -> 0..MaxKeys]
  /\ made \in 0..MaxValues /\ by \in [Values -> Seq(Ids)]
  /\ of \in [Values -> (Ults \X Ids) \cup {<<>>}] /\ over \subseteq Values /\ late \subseteq Values

\* A value is given to a destructor at most once, to that of the key it was set
\* for, and is no longer to be found under any key then (thread.cpp:37-46): no
\* destructor frees what another one or a later get still sees.
DestroyedOnce ==
  \A x \in Values : by[x] # <<>> =>
    /\ by[x] = <<of[x][2]>> /\ of[x][2] \in HasDtor
    /\ \A t \in Ults, k \in Ids : get_specific(t, k) # x

\* The pass forgets nothing: when it is over, a value of a key whose destructor is
\* still in force was destroyed or replaced, unless it was set after the pass had
\* come to its key; the values that destructors set for later keys are destroyed
\* in the same pass (thread.cpp:37-46, 410-422).
NothingForgotten ==
  \A x \in Values :
    /\ of[x] # <<>> /\ x \notin over \cup late
    /\ pc[of[x][1]] = "done" /\ of[x][2] \in HasDtor \ freed
    => by[x] # <<>>

\* A value is given at most once to a destructor, to that of its key, and is found
\* nowhere then; and the pass over a unit's keys forgets no value that was there when
\* it came by (thread.cpp:37-46, 397-430).
KeysKept == TypeOK /\ DestroyedOnce /\ NothingForgotten
=============================================================================
