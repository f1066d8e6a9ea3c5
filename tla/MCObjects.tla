------------------------------ MODULE MCObjects ------------------------------
(* The library's objects for TLC, each by itself: work-unit keys (Keys), what *)
(* is asked of work units (WorkUnits), blocked ULTs and migration (Blocked),  *)
(* schedulers and their pools (SchedObjects) and CPU binding (Affinity).      *)
(* "part" says which one a behaviour is of; in the others no key is created   *)
(* and no ULT of Keys runs, and what the rest needs is Unused.                *)
EXTENDS Keys, Integers

CONSTANTS Unused, Ext, e1, u1, u2, u3, p1, p2, r1

VARIABLES part,
          on, queue,  \* of several parts
          rec, attr, ready, task, next_id, asked, wild,
          st, pool, at, num_blocked, blocked_pool, counted, migrate_to, wanted, tgt, reg, finishing, drain, released,
          sched, nscheds, num_scheds, gone, load, main, table, pending, made_for_x, refused,
          xs, mask, setter, run, doing

\* u1 is the primary ULT; sizes below and above what an int of 16 values holds.
Asked == INSTANCE WorkUnits WITH
  Units <- {u1, u2, u3}, Primary <- u1, PEs <- {1, 2}, None <- Unused,
  Sizes <- {3, 9}, Default <- 2, IntRange <- 16, TasksExit <- FALSE

\* A thread elsewhere wakes the PE's ULTs, and u2 migrates them to p2 and back.
Remote == INSTANCE Blocked WITH
  ULTs <- {u1, u2}, Remotes <- {r1}, Pools <- {p1, p2}, Mine <- <<p1>>, Home <- p1,
  Shared <- {}, Migrators <- {u2}, pc <- at, None <- Unused

\* The PE has p1 and, with another scheduler, p2; its ULTs wake and migrate each other.
Local == INSTANCE Blocked WITH
  ULTs <- {u1, u2}, Remotes <- {}, Pools <- {p1, p2}, Mine <- <<p1, p2>>, Home <- p1,
  Shared <- {p2}, Migrators <- {u1}, pc <- at, None <- Unused

\* One secondary execution stream; p2 is an automatic pool.  Schedulers have a pool
\* of their own and p2, or p1 and p2.
Scheds == INSTANCE SchedObjects WITH
  Xs <- {101}, Given <- {p2}, Automatic <- {p2}, Args <- {<<Unused, p2>>},
  MaxScheds <- 3, MaxLoad <- 1, MaxTables <- 1, made <- nscheds, None <- Unused
Shared == INSTANCE SchedObjects WITH
  Xs <- {101}, Given <- {p1, p2}, Automatic <- {p2}, Args <- {<<p1, p2>>},
  MaxScheds <- 3, MaxLoad <- 1, MaxTables <- 1, made <- nscheds, None <- Unused

\* The process may use two of three CPUs.
Cpus == INSTANCE Affinity WITH
  PEs <- {0, 1}, Ext <- {e1}, Cpus <- {0, 1, 2}, Process <- {0, 1},
  Lists <- {<<>>, <<2, 1>>, <<2>>}, MaxQueue <- 2, None <- Unused

unitPart == <<rec, attr, ready, task, next_id, asked, wild>>
blockedPart == <<st, pool, at, num_blocked, blocked_pool, counted, migrate_to, wanted, tgt, reg, finishing, drain,
                 released>>
schedPart == <<sched, nscheds, num_scheds, gone, load, main, table, pending, made_for_x, refused>>
cpuPart == <<xs, mask, setter, run, doing>>
MCVars == <<part, vars, on, queue, unitPart, blockedPart, schedPart, cpuPart>>

NoUnits == /\ rec = Unused /\ attr = Unused /\ ready = Unused /\ task = Unused
           /\ next_id = Unused /\ asked = Unused /\ wild = Unused
NoBlocked == /\ st = Unused /\ pool = Unused /\ at = Unused /\ num_blocked = Unused /\ blocked_pool = Unused /\ counted = Unused
             /\ migrate_to = Unused /\ wanted = Unused /\ tgt = Unused /\ reg = Unused
             /\ finishing = Unused /\ drain = Unused /\ released = Unused
NoScheds == /\ sched = Unused /\ nscheds = Unused /\ num_scheds = Unused /\ gone = Unused /\ load = Unused /\ main = Unused
            /\ table = Unused /\ pending = Unused /\ made_for_x = Unused /\ refused = Unused
NoCpus == xs = Unused /\ mask = Unused /\ setter = Unused /\ run = Unused /\ doing = Unused

MCInit ==
  /\ Init
  /\ \/ /\ part = "keys" /\ on = Unused /\ queue = Unused
        /\ NoUnits /\ NoBlocked /\ NoScheds /\ NoCpus
     \/ /\ part = "units" /\ Asked!Init /\ queue = Unused
        /\ NoBlocked /\ NoScheds /\ NoCpus
     \/ /\ \/ part = "remote" /\ Remote!Init
           \/ part = "local" /\ Local!Init
        /\ NoUnits /\ NoScheds /\ NoCpus
     \/ /\ \/ part = "scheds" /\ Scheds!Init
           \/ part = "shared" /\ Shared!Init
        /\ queue = Unused /\ NoUnits /\ NoBlocked /\ NoCpus
     \/ /\ part = "cpus" /\ Cpus!Init /\ on = Unused
        /\ NoUnits /\ NoBlocked /\ NoScheds

MCNext ==
  /\ UNCHANGED part
  /\ \/ part = "keys" /\ Next /\ UNCHANGED <<on, queue, unitPart, blockedPart, schedPart, cpuPart>>
     \/ part = "units" /\ Asked!Next /\ UNCHANGED <<vars, queue, blockedPart, schedPart, cpuPart>>
     \/ part = "remote" /\ Remote!Next /\ UNCHANGED <<vars, unitPart, schedPart, cpuPart>>
     \/ part = "local" /\ Local!Next /\ UNCHANGED <<vars, unitPart, schedPart, cpuPart>>
     \/ part = "scheds" /\ Scheds!Next /\ UNCHANGED <<vars, queue, unitPart, blockedPart, cpuPart>>
     \/ part = "shared" /\ Shared!Next /\ UNCHANGED <<vars, queue, unitPart, blockedPart, cpuPart>>
     \/ part = "cpus" /\ Cpus!Next /\ UNCHANGED <<vars, on, unitPart, blockedPart, schedPart>>

MCSpec == MCInit /\ [][MCNext]_MCVars

-----------------------------------------------------------------------------
\* What a unit learns of itself is what others learn of it, ids are unique, a ULT has
\* the stack its creator asked for, and ABT_thread_exit returns to the thread_main of
\* its caller (TypeOK, AnswersAgree, TaskNeverBlocks, IdsUnique, StackAsAsked,
\* ExitFindsItsFrame of WorkUnits; thread.cpp:206-221, 281-304, 466-513, 564-570).
UnitsKnown == part = "units" => /\ Asked!TypeOK /\ Asked!AnswersAgree /\ Asked!TaskNeverBlocks
                                /\ Asked!IdsUnique /\ Asked!StackAsAsked /\ Asked!ExitFindsItsFrame

\* A pool's blocked count is the ULTs that blocked in it and have not been made
\* ready, through every migration, and no queued ULT is counted (TypeOK,
\* BlockedExact, NotCountedTwice of Blocked; thread.cpp:77-101).
CountsExact ==
  /\ part = "remote" => Remote!TypeOK /\ Remote!BlockedExact /\ Remote!NotCountedTwice
  /\ part = "local" => Local!TypeOK /\ Local!BlockedExact /\ Local!NotCountedTwice

\* With all wakers and migrators on the PE itself no migration request is lost, and
\* the PE that is asked to finish is released only when the pools it owns alone are
\* done (RequestKept, DrainedMeansDone of Blocked; thread.cpp:80-90, 325,
\* xstream.cpp:194-205, 232-233).
LocalKept == part = "local" => Local!RequestKept /\ Local!DrainedMeansDone

\* num_scheds, used_by and main_sched are exact through creation, replacement, release
\* and refusal; a pool outlives its schedulers and units; a PE polls a living
\* scheduler, except while the table of a new one is on its way; and only a refused
\* lease leaks a scheduler (TypeOK, NumSchedsExact, PoolsOutlive, UsedExactly,
\* PollsTheLiving, NothingLeaks of SchedObjects; sched.cpp:81-96, xstream.cpp:276-296,
\* 319-411).
SchedsKept ==
  /\ part = "scheds" => /\ Scheds!TypeOK /\ Scheds!NumSchedsExact /\ Scheds!PoolsOutlive
                        /\ Scheds!UsedExactly /\ Scheds!PollsTheLiving /\ Scheds!NothingLeaks
  /\ part = "shared" => /\ Shared!TypeOK /\ Shared!NumSchedsExact /\ Shared!PoolsOutlive
                        /\ Shared!UsedExactly /\ Shared!PollsTheLiving /\ Shared!NothingLeaks

\* When its messages are handled a PE runs where its execution stream says, never on a
\* CPU the process may not use, and the function that ABTI_run_on_pe sends to a worker
\* finds its caller's frame (TypeOK, BoundAsTold, ListTold, StaysAllowed, FrameLives of
\* Affinity; xstream.cpp:136-175, 457-527).
BindingKept == part = "cpus" => /\ Cpus!TypeOK /\ Cpus!BoundAsTold /\ Cpus!ListTold
                                /\ Cpus!StaysAllowed /\ Cpus!FrameLives
=============================================================================
