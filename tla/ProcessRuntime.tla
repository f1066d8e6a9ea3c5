--------------------------- MODULE ProcessRuntime ---------------------------
(***************************************************************************)
(* The Reconverse runtime over the life of a process that forks (init.cpp).*)
(* ABT_init starts the runtime once per process and registers its shutdown *)
(* with atexit; ABT_finalize keeps the runtime for a later ABT_init; fork  *)
(* copies the memory, the atexit registrations and the calling thread, and *)
(* none of the PE threads.                                                 *)
(*                                                                         *)
(* All calls are made by the primary ULT of the process, on PE 0.          *)
(***************************************************************************)
EXTENDS Naturals

CONSTANTS Procs,     \* the process ids
          First,     \* the process that is started, not forked
          MaxRefs,   \* bound on nested calls of ABT_init
          PlainExit  \* whether a child that never calls ABT_init runs the atexit handlers

NoPid == 0

ASSUME RuntimeAssumption == /\ NoPid \notin Procs /\ First \in Procs
                            /\ MaxRefs \in Nat /\ PlainExit \in BOOLEAN

VARIABLES life,       \* "none", "alive", "exiting" or "gone"
          has_g,      \* the processes with ABTI_g # nullptr
          init,       \* ABTI_g->initialized
          refs,       \* g_init_refs
          started,    \* g_runtime_started
          pid,        \* g_runtime_pid
          atexits,    \* how often shutdown_runtime is registered, and still to run
          threads,    \* the processes that have PE threads
          torn,       \* the processes for which ConverseFinalize was called
          misused,    \* the processes that called it without PE threads, or again
          users       \* the calls of ABT_init that are not finalized

vars == <<life, has_g, init, refs, started, pid, atexits, threads, torn, misused, users>>

Init ==
  /\ life = [p \in Procs |-> IF p = First THEN "alive" ELSE "none"]
  /\ has_g = {} /\ init = {} /\ started = {} /\ threads = {} /\ torn = {} /\ misused = {}
  /\ refs = [p \in Procs |-> 0] /\ pid = [p \in Procs |-> NoPid]
  /\ atexits = [p \in Procs |-> 0] /\ users = [p \in Procs |-> 0]

\* start_runtime: the PE threads, and the registration.
start_runtime(p) ==
  /\ threads' = threads \cup {p} /\ started' = started \cup {p}
  /\ atexits' = [atexits EXCEPT ![p] = IF pid[p] # p THEN @ + 1 ELSE @]
  /\ pid' = [pid EXCEPT ![p] = p]

\* Variant: a forked child is not recognised.
VariantForked(p) == FALSE

\* A child that inherited a runtime it has no threads of.
Forked(p) == p \in has_g /\ p \in started /\ pid[p] # p

\* ABT_init: counted when initialized; else the runtime is started unless this
\* process has it.
ABT_init(p) ==
  /\ life[p] = "alive" /\ users[p] < MaxRefs
  /\ users' = [users EXCEPT ![p] = @ + 1]
  /\ IF p \in init
     THEN refs' = [refs EXCEPT ![p] = @ + 1] /\ UNCHANGED <<has_g, init, started, pid, atexits, threads>>
     ELSE /\ IF p \notin has_g \/ Forked(p) THEN start_runtime(p)
             ELSE UNCHANGED <<started, pid, atexits, threads>>
          /\ has_g' = has_g \cup {p} /\ init' = init \cup {p}
          /\ refs' = [refs EXCEPT ![p] = 1]
  /\ UNCHANGED <<life, torn, misused>>

\* ABT_finalize: the last call ends the initialization; the runtime stays.
ABT_finalize(p) ==
  /\ life[p] = "alive" /\ p \in init
  /\ users' = [users EXCEPT ![p] = IF @ = 0 THEN 0 ELSE @ - 1]
  /\ IF refs[p] > 1 THEN refs' = [refs EXCEPT ![p] = @ - 1] /\ UNCHANGED init
     ELSE refs' = [refs EXCEPT ![p] = 0] /\ init' = init \ {p}
  /\ UNCHANGED <<life, has_g, started, pid, atexits, threads, torn, misused>>

\* fork, by a process that is not between init and finalize: the child has the
\* memory and the registrations of its parent.
Fork(p, q) ==
  /\ life[p] = "alive" /\ life[q] = "none"
  /\ p \notin init
  /\ life' = [life EXCEPT ![q] = "alive"]
  /\ LET Copy(S) == IF p \in S THEN S \cup {q} ELSE S IN
       has_g' = Copy(has_g) /\ init' = Copy(init) /\ started' = Copy(started)
  /\ refs' = [refs EXCEPT ![q] = refs[p]] /\ pid' = [pid EXCEPT ![q] = pid[p]]
  /\ atexits' = [atexits EXCEPT ![q] = atexits[p]] /\ users' = [users EXCEPT ![q] = users[p]]
  /\ UNCHANGED <<threads, torn, misused>>

\* exit, with the atexit handlers; a child that has not called ABT_init may leave
\* with _exit or exec instead.
Exit(p) ==
  /\ life[p] = "alive"
  /\ life' = [life EXCEPT ![p] = IF pid[p] = p \/ pid[p] = NoPid \/ PlainExit THEN "exiting" ELSE "gone"]
  /\ UNCHANGED <<has_g, init, refs, started, pid, atexits, threads, torn, misused, users>>

\* shutdown_runtime, once for every registration.
shutdown_runtime(p) ==
  /\ life[p] = "exiting" /\ atexits[p] > 0
  /\ atexits' = [atexits EXCEPT ![p] = @ - 1]
  /\ IF p \in started THEN /\ torn' = torn \cup {p} /\ started' = started \ {p}
                           /\ misused' = IF p \in threads THEN misused ELSE misused \cup {p}
                           /\ threads' = threads \ {p}
     ELSE UNCHANGED <<torn, started, misused, threads>>
  /\ UNCHANGED <<life, has_g, init, refs, pid, users>>

Gone(p) ==
  /\ life[p] = "exiting" /\ atexits[p] = 0 /\ life' = [life EXCEPT ![p] = "gone"]
  /\ UNCHANGED <<has_g, init, refs, started, pid, atexits, threads, torn, misused, users>>

Next == \/ \E p \in Procs : ABT_init(p) \/ ABT_finalize(p) \/ Exit(p) \/ shutdown_runtime(p) \/ Gone(p)
        \/ \E p, q \in Procs : Fork(p, q)

Spec == Init /\ [][Next]_vars

-----------------------------------------------------------------------------
\* The state has its types.
TypeOK ==
  /\ life \in [Procs -> {"none", "alive", "exiting", "gone"}]
  /\ has_g \subseteq Procs /\ init \subseteq has_g /\ started \subseteq has_g
  /\ refs \in [Procs -> 0..MaxRefs] /\ users \in [Procs -> 0..MaxRefs]
  /\ pid \in [Procs -> Procs \cup {NoPid}] /\ atexits \in [Procs -> Nat]
  /\ threads \subseteq started

\* A process that is initialized has the PE threads its xstreams need, a child
\* that forked after the last ABT_finalize included (init.cpp:124-131).
InitIsLive == \A p \in init : life[p] = "alive" => p \in threads

\* The runtime is torn down at most once in a process, while its PE threads are
\* there to take part (init.cpp:83-96, 109-113).
TornDownOnce == misused = {}

\* ABT_init and ABT_finalize nest: Argobots stays initialized until as many
\* finalizes as inits were made (init.cpp:123, 170).
UsersAreServed == \A p \in Procs : life[p] = "alive" => users[p] = refs[p] /\ (users[p] > 0 <=> p \in init)

\* An initialized process, a forked child included, has the PE threads its
\* execution streams need; the runtime is torn down once, by a process that has
\* them; and Argobots stays initialized until as many finalizes as inits were made
\* (init.cpp:83-131, 167-178).
RuntimeKept == TypeOK /\ InitIsLive /\ TornDownOnce /\ UsersAreServed
=============================================================================
