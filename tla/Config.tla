------------------------------- MODULE Config -------------------------------
(***************************************************************************)
(* Configuration objects (sched.cpp, pool.cpp): typed entries under an     *)
(* index, negative for the predefined ones, and what a scheduler takes     *)
(* from one when it is created.  A configuration of pools is the same      *)
(* without the variadic constructor and reader.                            *)
(***************************************************************************)
EXTENDS Integers, Sequences, SequencesExt

CONSTANTS Configs, Scheds,
          Indices,   \* -4 ABT_sched_basic_freq, -3 ABT_sched_config_automatic, 0, 1, ... the program's
          Entries,   \* records of a type, "INT", "DOUBLE" or "PTR", and a value
          Lists,     \* the argument lists of ABT_sched_config_create, pairs of an index and an entry
          MaxSets,   \* bound on the calls of ABT_sched_config_set on one object
          None

VARIABLES vals,  \* the entries of each configuration, None where there is no object
          sched, \* event_freq and automatic of each scheduler, None before it is created
          log,   \* the entries given to each configuration, in order, an erasure as None
          given  \* the entries under -4 and -3 at the creation of each scheduler

vars == <<vals, sched, log, given>>

Init == /\ vals = [c \in Configs |-> None]
        /\ sched = [s \in Scheds |-> None]
        /\ log = [c \in Configs |-> <<>>] /\ given = [s \in Scheds |-> <<>>]

\* The entry that a log of calls left under index i, None without one.
LastOf(l, i) == LET own == SelectSeq(l, LAMBDA a : a[1] = i) IN IF own = <<>> THEN None ELSE Last(own)[2]

\* The map: an entry replaces the one under its index.
Put(m, i, e) == [j \in DOMAIN m \cup {i} |-> IF j = i THEN e ELSE m[j]]

Erase(m, i) == [j \in DOMAIN m \ {i} |-> m[j]]

\* ABT_sched_config_create; ABT_pool_config_create has no list.
config_create(c, l) ==
  /\ vals[c] = None
  /\ vals' = [vals EXCEPT ![c] = FoldLeft(LAMBDA m, a : Put(m, a[1], a[2]), <<>>, l)]
  /\ log' = [log EXCEPT ![c] = l]
  /\ UNCHANGED <<sched, given>>

config_free(c) ==
  /\ vals[c] # None /\ vals' = [vals EXCEPT ![c] = None]
  /\ UNCHANGED <<sched, log, given>>

\* ABT_sched_config_set, ABT_pool_config_set; a null value erases.
config_set(c, i, e) ==
  /\ vals[c] # None /\ Len(log[c]) < MaxSets
  /\ vals' = [vals EXCEPT ![c] = IF e = None THEN Erase(@, i) ELSE Put(@, i, e)]
  /\ log' = [log EXCEPT ![c] = Append(@, <<i, e>>)]
  /\ UNCHANGED <<sched, given>>

\* ABT_sched_config_get, ABT_pool_config_get: None stands for the error.
config_get(c, i) == IF i \in DOMAIN vals[c] THEN vals[c][i] ELSE None

\* ABT_sched_config_read: what it leaves in a variable that held `old'.
config_read(c, i, old) == IF i \in DOMAIN vals[c] THEN vals[c][i] ELSE old

\* sched_apply_config over what ABTI_sched_create_predef sets.
Freq(m) == IF -4 \in DOMAIN m /\ m[-4].type = "INT" /\ m[-4].val > 0 THEN m[-4].val ELSE 50
Automatic(m) == IF -3 \in DOMAIN m /\ m[-3].type = "INT" THEN m[-3].val # 0 ELSE TRUE

\* ABT_sched_create_basic.
sched_create_basic(s, c) ==
  /\ sched[s] = None /\ vals[c] # None
  /\ sched' = [sched EXCEPT ![s] = [event_freq |-> Freq(vals[c]), automatic |-> Automatic(vals[c])]]
  /\ given' = [given EXCEPT ![s] = <<LastOf(log[c], -4), LastOf(log[c], -3)>>]
  /\ UNCHANGED <<vals, log>>

Next == \/ \E c \in Configs :
             \/ \E l \in Lists : config_create(c, l)
             \/ \E i \in Indices, e \in Entries \cup {None} : config_set(c, i, e)
             \/ \E s \in Scheds : sched_create_basic(s, c)
             \/ config_free(c)

Spec == Init /\ [][Next]_vars

\* Types.
TypeOK ==
  \A c \in Configs : vals[c] # None => DOMAIN vals[c] \subseteq Indices /\ Len(log[c]) <= MaxSets

\* Whatever the order of the calls, an index has the entry that was given to it last,
\* with its type; a read writes it, and leaves a variable alone whose index has none
\* (sched.cpp:303-383, pool.cpp:485-523).
LastEntryCounts ==
  \A c \in Configs, i \in Indices : vals[c] # None =>
    LET e == LastOf(log[c], i) IN
    /\ config_get(c, i) = e
    /\ \A old \in Entries : config_read(c, i, old) = IF e = None THEN old ELSE e

\* A scheduler polls with a positive frequency and is automatic as its configuration
\* said when it was created, whatever was set, erased or freed since (sched.cpp:41-51,
\* 207-216).
TakenAtCreation ==
  \A s \in Scheds : sched[s] # None =>
    LET f == given[s][1]  a == given[s][2] IN
    /\ sched[s].event_freq > 0
    /\ f # None => (f.type = "INT" /\ f.val > 0 => sched[s].event_freq = f.val)
    /\ a # None => (a.type = "INT" => sched[s].automatic = (a.val # 0))
    /\ a = None => sched[s].automatic
=============================================================================
