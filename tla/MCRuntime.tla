------------------------------ MODULE MCRuntime ------------------------------
(* The start and the end of Argobots and its settings for TLC:                *)
(* ProcessRuntime, Finalize, NumPes, Timer and Config, each by itself.       *)
(* "part" says which one a behaviour is of; the processes stay as they were  *)
(* started in the other parts, and the variables of the rest are Unused.     *)
EXTENDS ProcessRuntime, Integers, Sequences

CONSTANTS Unused, u1, u2, u3, Primary, Second, Sched, c1, s1

\* initialized and init_refs are Finalize's init and refs.
VARIABLES part,
          initialized, init_refs, g_init_mutex, secondary, second_in, main, low, held, chain, yielding, in_yield, on, pc,
          calls, created, ended, asleep, stranded,
          cores, num_pes_var, max_xstreams_var, stack_var, num_pes, stacksize,
          now, zero, timer, sum, true, mixed,
          vals, sched, log, given

\* A unit calls ABT_init during the drain or before, two units are in the pool of
\* low priority, where they run while the primary ULT is blocked.
Drain == INSTANCE Finalize WITH
  Units <- {u1, u2, u3}, Tasks <- {u2}, Low <- {u2, u3}, Callers <- {u1}, Creators <- {}, Yielders <- {u1, u3},
  Blockers <- {u3}, K <- 2, init <- initialized, refs <- init_refs

\* One pool; a unit creates an execution stream.
DrainEnds == INSTANCE Finalize WITH
  Units <- {u1, u2, u3}, Tasks <- {u2}, Low <- {}, Callers <- {}, Creators <- {u2}, Yielders <- {u1, u3},
  Blockers <- {u3}, K <- 2, init <- initialized, refs <- init_refs

\* The values around every comparison of the rule.
Pes == INSTANCE NumPes WITH
  LongMax <- 300, Cores <- {-1, 0, 1, 15, 16, 17, 31, 32, 33, 128},
  Values <- {-1, 0, 1, 2, 14, 15, 16, 17, 31, 32, 254, 255, 256, 257, 299, 300},
  StackValues <- {0}, Floor <- 16, StackDefault <- 20

\* The same for the stack size.
Stacks == INSTANCE NumPes WITH
  LongMax <- 300, Cores <- {1}, Values <- {2}, StackValues <- {-1, 0, 1, 15, 16, 17, 19, 20, 21, 299, 300},
  Floor <- 16, StackDefault <- 20

\* Two timers, three ticks, started before and after ConverseInit.
Time == INSTANCE Timer WITH Timers <- {1, 2}, Epoch <- 10, MaxTime <- 3, MaxSum <- 2, None <- Unused

Zero == [type |-> "INT", val |-> 0]
Three == [type |-> "INT", val |-> 3]
Double == [type |-> "DOUBLE", val |-> 7]

\* Entries of the right and of the wrong type, under the two indices that
\* ABT_sched_create_basic reads and one of the program's.
Settings == INSTANCE Config WITH
  Configs <- {c1}, Scheds <- {s1}, Indices <- {-4, -3, 0}, Entries <- {Zero, Three, Double},
  Lists <- {<<>>, << <<-4, Three>>, <<0, Double>>, <<-4, Zero>> >>}, MaxSets <- 3, None <- Unused

drainVars == <<initialized, init_refs, g_init_mutex, secondary, second_in, main, low, held, chain, yielding, in_yield, on, pc,
               calls, created, ended, asleep, stranded>>
pesVars == <<cores, num_pes_var, max_xstreams_var, stack_var, num_pes, stacksize>>
timeVars == <<now, zero, timer, sum, true, mixed>>
configVars == <<vals, sched, log, given>>
MCVars == <<part, vars, drainVars, pesVars, timeVars, configVars>>

NoDrain == /\ initialized = Unused /\ init_refs = Unused /\ g_init_mutex = Unused /\ secondary = Unused
           /\ second_in = Unused /\ main = Unused /\ low = Unused /\ held = Unused
           /\ chain = Unused /\ yielding = Unused /\ in_yield = Unused /\ on = Unused /\ pc = Unused
           /\ calls = Unused /\ created = Unused /\ ended = Unused
           /\ asleep = Unused /\ stranded = Unused
NoPes == /\ cores = Unused /\ num_pes_var = Unused /\ max_xstreams_var = Unused /\ stack_var = Unused
         /\ num_pes = Unused /\ stacksize = Unused
NoTime == now = Unused /\ zero = Unused /\ timer = Unused /\ sum = Unused /\ true = Unused /\ mixed = Unused
NoConfig == vals = Unused /\ sched = Unused /\ log = Unused /\ given = Unused

MCInit == /\ Init
          /\ \/ /\ \/ part = "process" /\ NoDrain
                   \/ part = "drain" /\ Drain!Init
                   \/ part = "drainEnds" /\ DrainEnds!Init
                /\ NoPes /\ NoTime /\ NoConfig
             \/ /\ \/ part = "pes" /\ Pes!Init /\ NoTime /\ NoConfig
                   \/ part = "stacks" /\ Stacks!Init /\ NoTime /\ NoConfig
                   \/ part = "time" /\ Time!Init /\ NoPes /\ NoConfig
                   \/ part = "config" /\ Settings!Init /\ NoPes /\ NoTime
                /\ NoDrain

notSettings == UNCHANGED <<pesVars, timeVars, configVars>>
notDrain == UNCHANGED <<part, vars>> /\ notSettings
notRuntime == UNCHANGED <<part, vars, drainVars>>

MCNext == \/ part = "process" /\ Next /\ UNCHANGED <<part, drainVars>> /\ notSettings
          \/ part = "drain" /\ Drain!Next /\ notDrain
          \/ part = "drainEnds" /\ DrainEnds!Next /\ notDrain
          \/ part = "pes" /\ Pes!Next /\ notRuntime /\ UNCHANGED <<timeVars, configVars>>
          \/ part = "stacks" /\ Stacks!Next /\ notRuntime /\ UNCHANGED <<timeVars, configVars>>
          \/ part = "time" /\ Time!Next /\ notRuntime /\ UNCHANGED <<pesVars, configVars>>
          \/ part = "config" /\ Settings!Next /\ notRuntime /\ UNCHANGED <<pesVars, timeVars>>

\* Fairness: PE 0 goes on, and a unit does not yield for ever.
MCSpec == /\ MCInit /\ [][MCNext]_MCVars
          /\ WF_MCVars(part = "drainEnds" /\ DrainEnds!PE0Step /\ notDrain)
          /\ \A u \in {u1, u3} : SF_MCVars(part = "drainEnds" /\ DrainEnds!UnitEnds(u) /\ notDrain)

-----------------------------------------------------------------------------
\* When Argobots is finalized every unit has run to its end, the parked one included,
\* unless it was blocked when the pools of the primary were found empty, and no
\* secondary execution stream is left unless a unit created it during the drain; a
\* refused finalize leaves the reference count as it was (TypeOK, DrainsAll,
\* RefsMatch, NoSecondaryLeft of Finalize; init.cpp:170-193).
DrainKept ==
  /\ part = "drain" => Drain!TypeOK /\ Drain!DrainsAll /\ Drain!RefsMatch /\ Drain!NoSecondaryLeft
  /\ part = "drainEnds" => DrainEnds!TypeOK /\ DrainEnds!DrainsAll /\ DrainEnds!RefsMatch

\* ABT_finalize returns when all units are in the primary ULT's pool and none
\* calls ABT_init, whether they yield, block, are woken or are parked meanwhile; a
\* unit of a later pool would keep it from returning (init.cpp:186-193).
FinalizeReturns == part = "drainEnds" /\ pc = "drain" ~> pc = "out"

\* There is a PE for the primary execution stream and one more, at most 256,
\* whatever the variables hold, the overflow included, and one for each of the
\* ABT_MAX_NUM_XSTREAMS secondary ones as far as 256 go; ABT_info_query_config tells
\* the same stack size before and after ABT_init (PesInRange, EnoughPEs, InfoSteady of
\* NumPes; init.cpp:57-77, 136-139).  Timers tell and add up the time between start
\* and stop, on either side of ConverseInit (Timer; misc.cpp:296-388), and
\* the entry last given to a configuration is the one that is read, and the one a
\* scheduler created later has (Config; sched.cpp:303-383).
SettingsRight ==
  /\ part = "pes" => Pes!PesInRange /\ Pes!EnoughPEs
  /\ part = "stacks" => Stacks!PesInRange /\ Stacks!InfoSteady
  /\ part = "time" => Time!TypeOK /\ Time!ElapsedExact
  /\ part = "config" => Settings!TypeOK /\ Settings!LastEntryCounts /\ Settings!TakenAtCreation
=============================================================================
