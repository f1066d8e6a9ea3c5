----------------------------- MODULE ThreadLife -----------------------------
(***************************************************************************)
(* The life of a work unit's descriptor (thread.cpp): creation from the    *)
(* descriptor cache of an OS thread, the run, the termination protocol,    *)
(* join, free, and the release of a detached unit by its terminator.       *)
(*                                                                         *)
(* A PE runs one thing at a time: a caller's ULT, a work unit, or the       *)
(* termination of one (post-switch, on the PE that ran it).  A descriptor   *)
(* is a slot of memory; released memory keeps its contents until the       *)
(* constructor runs in it again.  Programs free a unit once, and not while *)
(* another caller is joining it.                                           *)
(***************************************************************************)
EXTENDS Integers, Sequences, SequencesExt, FiniteSets

CONSTANTS PEs,        \* the PEs, one OS thread each
          Callers,    \* threads that create, join and free
          Home,       \* Home[c]: the PE of the ULT c; c itself if c is not on a PE
          Creators,   \* the callers that create
          Freers,     \* the callers that join and free
          RunPE,      \* the PE that ABTI_run_on_pe uses
          Slots,      \* descriptor memory
          MaxUnits,   \* bound on the units created
          None

ASSUME LifeAssumption == /\ Home \in [Callers -> PEs \cup Callers]
                         /\ Creators \subseteq Callers /\ Freers \subseteq Callers
                         /\ RunPE \in PEs /\ MaxUnits \in Nat

Ids == 1..MaxUnits
Types == {"named", "detached"}
OnPE(c) == Home[c] \in PEs

VARIABLES live,    \* live[d]: the unit in slot d, 0 if d is not allocated
          type,    \* type[d] ...
          term,    \* terminated
          joiners, \* joiners
          jm,      \* the caller or PE that holds jm
          cache,   \* cache[o]: ABTI_thread_cache of the OS thread o
          born,    \* units created so far
          pool,    \* the descriptors ready to run
          ended,   \* the units whose function has returned
          joined,  \* the units some join has returned from
          open,    \* the named units whose handle is still good
          on,      \* on[p]: what runs on PE p: a caller, "unit", or None (its scheduler)
          cur,     \* cur[p]: the descriptor and the unit that PE p runs or terminates
          woken,   \* woken[p]: the joiners that terminator p took and has yet to wake
          pc, h,   \* where each PE and caller is, and the handle a caller works on
          op,      \* what a caller does with it: join or free
          blocked  \* the callers in CTH_STATE_BLOCKED

mem == <<live, type, term, joiners, jm, cache>>
hist == <<born, pool, ended, joined, open>>
vars == <<mem, hist, on, cur, woken, pc, h, op, blocked>>

None2 == [slot |-> None, id |-> 0]

Init == /\ live = [d \in Slots |-> 0] /\ type = [d \in Slots |-> "named"]
        /\ term = [d \in Slots |-> FALSE] /\ joiners = [d \in Slots |-> {}] /\ jm = [d \in Slots |-> None]
        /\ cache = [o \in PEs \cup Callers |-> <<>>]
        /\ born = 0 /\ pool = <<>> /\ ended = {} /\ joined = {} /\ open = {}
        /\ on = [p \in PEs |-> None] /\ cur = [p \in PEs |-> None2] /\ woken = [p \in PEs |-> {}]
        /\ pc = [x \in PEs \cup Callers |-> "out"] /\ h = [c \in Callers |-> None2]
        /\ op = [c \in Callers |-> "join"] /\ blocked = {}

Goto(x, l) == pc' = [pc EXCEPT ![x] = l]
\* A caller makes a step: an external thread at any time, a ULT while its PE runs it.
Runs(c) == OnPE(c) => on[Home[c]] = c
Cached == UNION {ToSet(cache[o]) : o \in DOMAIN cache}

-----------------------------------------------------------------------------
\* The scheduler of a PE resumes a caller's ULT that is ready ...
Resume(c) ==
  /\ OnPE(c) /\ c \notin blocked /\ on[Home[c]] = None /\ pc[Home[c]] = "out"
  /\ on' = [on EXCEPT ![Home[c]] = c]
  /\ UNCHANGED <<mem, hist, cur, woken, pc, h, op, blocked>>

\* ... which yields between its calls.
Yield(c) ==
  /\ OnPE(c) /\ Runs(c) /\ pc[c] = "out"
  /\ on' = [on EXCEPT ![Home[c]] = None]
  /\ UNCHANGED <<mem, hist, cur, woken, pc, h, op, blocked>>

\* ABTI_thread_alloc on the OS thread o: the last slot released there, or new memory.
Alloc(o, d) ==
  /\ IF cache[o] # <<>> THEN d = Last(cache[o]) ELSE live[d] = 0 /\ d \notin Cached
  /\ cache' = [cache EXCEPT ![o] = IF @ # <<>> THEN Front(@) ELSE @]

\* Variant: the constructor leaves terminated as the last unit left it.
VariantConstruct(d) == /\ joiners' = [joiners EXCEPT ![d] = {}]
                       /\ jm' = [jm EXCEPT ![d] = None]
                       /\ UNCHANGED term

\* The constructor.
Construct(d) == /\ term' = [term EXCEPT ![d] = FALSE]
                /\ joiners' = [joiners EXCEPT ![d] = {}]
                /\ jm' = [jm EXCEPT ![d] = None]

\* thread_create_impl: a caller that is not on a PE has it done on RunPE.
thread_create_impl(c) ==
  /\ c \in Creators /\ pc[c] = "out" /\ Runs(c) /\ born < MaxUnits
  /\ ~OnPE(c) => on[RunPE] = None /\ pc[RunPE] = "out"
  /\ \E d \in Slots, ty \in Types :
       /\ Alloc(IF OnPE(c) THEN Home[c] ELSE RunPE, d)
       /\ Construct(d)
       /\ live' = [live EXCEPT ![d] = born + 1]
       /\ type' = [type EXCEPT ![d] = ty]
       /\ open' = IF ty = "named" THEN open \cup {born + 1} ELSE open
       /\ pool' = Append(pool, d)
  /\ born' = born + 1
  /\ UNCHANGED <<ended, joined, on, cur, woken, pc, h, op, blocked>>

-----------------------------------------------------------------------------
\* A PE pops a unit and runs it; its function returns, or leaves through
\* ABT_thread_exit.
run_thread(p) ==
  /\ on[p] = None /\ pc[p] = "out" /\ pool # <<>>
  /\ on' = [on EXCEPT ![p] = "unit"]
  /\ cur' = [cur EXCEPT ![p] = [slot |-> Head(pool), id |-> live[Head(pool)]]]
  /\ pool' = Tail(pool)
  /\ Goto(p, "run")
  /\ UNCHANGED <<mem, born, ended, joined, open, woken, h, op, blocked>>

thread_main(p) ==
  /\ pc[p] = "run"
  /\ ended' = ended \cup {cur[p].id}
  /\ Goto(p, "lock")
  /\ UNCHANGED <<mem, born, pool, joined, open, on, cur, woken, h, op, blocked>>

\* ABTI_thread_terminated: under jm publish ...
TermLock(p) ==
  LET d == cur[p].slot IN
  /\ pc[p] = "lock" /\ jm[d] = None
  /\ jm' = [jm EXCEPT ![d] = p]
  /\ Goto(p, "publish")
  /\ UNCHANGED <<live, type, term, joiners, cache, hist, on, cur, woken, h, op, blocked>>

Publish(p) ==
  /\ pc[p] = "publish"
  /\ term' = [term EXCEPT ![cur[p].slot] = TRUE]
  /\ Goto(p, "swap")
  /\ UNCHANGED <<live, type, joiners, jm, cache, hist, on, cur, woken, h, op, blocked>>

\* ... and take the joiners ...
Swap(p) ==
  LET d == cur[p].slot IN
  /\ pc[p] = "swap"
  /\ woken' = [woken EXCEPT ![p] = joiners[d]]
  /\ joiners' = [joiners EXCEPT ![d] = {}]
  /\ Goto(p, "unlock")
  /\ UNCHANGED <<live, type, term, jm, cache, hist, on, cur, h, op, blocked>>

TermUnlock(p) ==
  /\ pc[p] = "unlock"
  /\ jm' = [jm EXCEPT ![cur[p].slot] = None]
  /\ Goto(p, "wake")
  /\ UNCHANGED <<live, type, term, joiners, cache, hist, on, cur, woken, h, op, blocked>>

\* ... wake each with CthAwakenIfBlocked ...
WakeJoiner(p) ==
  /\ pc[p] = "wake"
  /\ \E j \in woken[p] : /\ woken' = [woken EXCEPT ![p] = @ \ {j}]
                         /\ blocked' = blocked \ {j}
  /\ UNCHANGED <<mem, hist, on, cur, pc, h, op>>

\* Variant: the test is inverted.
VariantReadType(p) ==
  /\ pc[p] = "wake" /\ woken[p] = {}
  /\ IF type[cur[p].slot] # "detached"
     THEN Goto(p, "release") /\ UNCHANGED on
     ELSE Goto(p, "out") /\ on' = [on EXCEPT ![p] = None]
  /\ UNCHANGED <<mem, hist, cur, woken, h, op, blocked>>

\* ... and look at the type: a detached unit is released here.
ReadType(p) ==
  /\ pc[p] = "wake" /\ woken[p] = {}
  /\ IF type[cur[p].slot] = "detached"
     THEN Goto(p, "release") /\ UNCHANGED on
     ELSE Goto(p, "out") /\ on' = [on EXCEPT ![p] = None]
  /\ UNCHANGED <<mem, hist, cur, woken, h, op, blocked>>

\* ABTI_thread_release on the OS thread o.
Released(o, d) == /\ live' = [live EXCEPT ![d] = 0]
                  /\ cache' = [cache EXCEPT ![o] = Append(@, d)]

Release(p) ==
  /\ pc[p] = "release"
  /\ Released(p, cur[p].slot)
  /\ Goto(p, "out") /\ on' = [on EXCEPT ![p] = None]
  /\ UNCHANGED <<type, term, joiners, jm, hist, cur, woken, h, op, blocked>>

-----------------------------------------------------------------------------
Busy(id) == {c \in Callers : pc[c] # "out" /\ h[c].id = id}

\* ABT_thread_join, ABT_thread_free.
thread_join(c) ==
  /\ c \in Freers /\ pc[c] = "out" /\ Runs(c)
  /\ \E d \in Slots, o \in {"join", "free"} :
       /\ live[d] \in open
       /\ \A b \in Busy(live[d]) : o = "join" /\ op[b] = "join"
       /\ h' = [h EXCEPT ![c] = [slot |-> d, id |-> live[d]]]
       /\ op' = [op EXCEPT ![c] = o]
  /\ Goto(c, "check")
  /\ UNCHANGED <<mem, hist, on, cur, woken, blocked>>

\* join_impl: terminated is looked at without jm; a ULT that finds it unset goes
\* on to take jm, an external thread looks again.
JoinCheck(c) ==
  /\ pc[c] = "check" /\ Runs(c)
  /\ term[h[c].slot] \/ OnPE(c)
  /\ Goto(c, IF term[h[c].slot] THEN "return" ELSE "lock")
  /\ UNCHANGED <<mem, hist, on, cur, woken, h, op, blocked>>

JoinLock(c) ==
  /\ pc[c] = "lock" /\ Runs(c) /\ jm[h[c].slot] = None
  /\ jm' = [jm EXCEPT ![h[c].slot] = c]
  /\ Goto(c, "recheck")
  /\ UNCHANGED <<live, type, term, joiners, cache, hist, on, cur, woken, h, op, blocked>>

\* Variant: jm is released before the caller is BLOCKED.
VariantRelock(c) ==
  LET d == h[c].slot IN
  /\ pc[c] = "recheck" /\ Runs(c)
  /\ jm' = [jm EXCEPT ![d] = None]
  /\ IF term[d] THEN Goto(c, "return") /\ UNCHANGED joiners
     ELSE joiners' = [joiners EXCEPT ![d] = @ \cup {c}] /\ Goto(c, "block")
  /\ UNCHANGED <<live, type, term, cache, hist, on, cur, woken, h, op, blocked>>

JoinRecheck(c) ==
  LET d == h[c].slot IN
  /\ pc[c] = "recheck" /\ Runs(c)
  /\ IF term[d] THEN jm' = [jm EXCEPT ![d] = None] /\ Goto(c, "return") /\ UNCHANGED joiners
     ELSE joiners' = [joiners EXCEPT ![d] = @ \cup {c}] /\ Goto(c, "block") /\ UNCHANGED jm
  /\ UNCHANGED <<live, type, term, cache, hist, on, cur, woken, h, op, blocked>>

\* ABTI_thread_block: BLOCKED, and once off its stack jm is released.
Block(c) ==
  /\ pc[c] = "block" /\ Runs(c)
  /\ blocked' = blocked \cup {c} /\ Goto(c, "unlock")
  /\ UNCHANGED <<mem, hist, on, cur, woken, h, op>>

PostSwitch(c) ==
  /\ pc[c] = "unlock"
  /\ jm' = [jm EXCEPT ![h[c].slot] = None]
  /\ on' = [on EXCEPT ![Home[c]] = None] /\ Goto(c, "return")
  /\ UNCHANGED <<live, type, term, joiners, cache, hist, cur, woken, h, op, blocked>>

\* The join returns; ABT_thread_free goes on to destroy the unit.
Return(c) ==
  /\ pc[c] = "return" /\ Runs(c) /\ c \notin blocked
  /\ joined' = joined \cup {h[c].id}
  /\ IF op[c] = "join" THEN UNCHANGED <<live, cache, open>>
     ELSE Released(Home[c], h[c].slot) /\ open' = open \ {h[c].id}
  /\ Goto(c, "out")
  /\ UNCHANGED <<type, term, joiners, jm, born, pool, ended, on, cur, woken, h, op, blocked>>

PEStep(p) == \/ run_thread(p) \/ thread_main(p) \/ TermLock(p) \/ Publish(p) \/ Swap(p)
             \/ TermUnlock(p) \/ WakeJoiner(p) \/ ReadType(p) \/ Release(p)
CallerStep(c) == \/ JoinCheck(c) \/ JoinLock(c) \/ JoinRecheck(c) \/ Block(c) \/ PostSwitch(c) \/ Return(c)

Next == \/ \E p \in PEs : PEStep(p)
        \/ \E c \in Callers : CallerStep(c) \/ Resume(c) \/ Yield(c) \/ thread_join(c) \/ thread_create_impl(c)

Spec == Init /\ [][Next]_vars

-----------------------------------------------------------------------------
\* The state has its types; a slot that holds a unit is in no cache.
TypeOK ==
  /\ live \in [Slots -> 0..MaxUnits] /\ type \in [Slots -> Types] /\ term \in [Slots -> BOOLEAN]
  /\ joiners \in [Slots -> SUBSET Callers] /\ jm \in [Slots -> Callers \cup PEs \cup {None}]
  /\ \A d \in Cached : live[d] = 0
  /\ \A o, q \in DOMAIN cache : \A i \in DOMAIN cache[o], k \in DOMAIN cache[q] :
       cache[o][i] = cache[q][k] => o = q /\ i = k
  /\ born \in 0..MaxUnits /\ pool \in Seq(Slots)
  /\ ended \subseteq Ids /\ joined \subseteq Ids /\ open \subseteq Ids /\ blocked \subseteq Callers

\* A join returns only after the unit's function has returned, also in recycled
\* memory (thread.cpp:146-159).
JoinMeansEnded == joined \subseteq ended

\* A caller blocked in join is listed in the unit's joiners and its terminator
\* has not taken them, or its terminator has taken it and will wake it
\* (thread.cpp:60-67, 151-154).
NoJoinerForgotten ==
  \A c \in blocked :
    \/ \E p \in PEs : c \in woken[p]
    \/ /\ c \in joiners[h[c].slot] /\ live[h[c].slot] = h[c].id
       /\ \A p \in PEs : cur[p] = h[c] => pc[p] \in {"run", "lock", "publish", "swap"}

\* The unit a terminator releases is the detached unit that it terminated
\* (thread.cpp:68-71).
ReleasesItsOwn ==
  \A p \in PEs : pc[p] = "release" => live[cur[p].slot] = cur[p].id /\ cur[p].id \notin open

\* Every join and free returns (thread.cpp:60-67, 146-159, 247-258).
JoinsReturn == \A c \in Callers : pc[c] # "out" ~> pc[c] = "out"

\* A detached unit is run and its memory given back (thread.cpp:68-71).
DetachedReleased ==
  \A d \in Slots, n \in Ids : live[d] = n /\ type[d] = "detached" ~> live[d] # n
=============================================================================
