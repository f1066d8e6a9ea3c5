------------------------------- MODULE NumPes -------------------------------
(***************************************************************************)
(* How many PEs ABT_init starts (init.cpp): the rule over the core count   *)
(* and two environment variables, in C's long.  PE 0 is the primary        *)
(* execution stream; each secondary one needs a PE of its own.  With it,   *)
(* the default size of stacks, and what ABT_info_query_config says of both *)
(* before and after ABT_init (misc.cpp).                                   *)
(***************************************************************************)
EXTENDS Integers, FiniteSetsExt

CONSTANTS LongMax,   \* LONG_MAX
          Cores,     \* what sysconf may return
          Values,    \* the numbers that may be written in a variable
          StackValues, Floor, StackDefault \* the same for stack sizes; 16384 and 2 MB

\* A variable that is unset or empty, one with something after the number, and one
\* that strtol reads whole (a number that is too large is read as LongMax).
Unset == [kind |-> "unset", x |-> 0]
Var == {Unset} \cup [kind : {"trailing", "whole"}, x : Values]

VARIABLES cores, num_pes_var, max_xstreams_var, \* the inputs
          stack_var,                            \* ABT_THREAD_STACKSIZE
          num_pes, stacksize                    \* the results, 0 before

vars == <<cores, num_pes_var, max_xstreams_var, stack_var, num_pes, stacksize>>

Init == /\ cores \in Cores /\ num_pes_var \in Var /\ max_xstreams_var \in Var
        /\ stack_var \in {Unset} \cup [kind : {"trailing", "whole"}, x : StackValues]
        /\ num_pes = 0 /\ stacksize = 0

\* env_long.
env_long(v, dflt) == IF v.kind = "whole" /\ v.x > 0 THEN v.x ELSE dflt

\* Variant: no PE for the primary execution stream.
VariantSecondaries(maxx) == {IF maxx < 16 THEN 16 ELSE maxx}

\* maxx + 1, at least 16; the sum of LongMax and 1 is undefined, and comes out as
\* the floor or as a negative number.
Secondaries(maxx) ==
  IF maxx = LongMax THEN {16, -LongMax - 1}
  ELSE {IF maxx + 1 < 16 THEN 16 ELSE maxx + 1}

Clamp(n) == IF n < 2 THEN 2 ELSE IF n > 256 THEN 256 ELSE n

AtLeastOne(c) == IF c < 1 THEN 1 ELSE c

\* The default stack size that ABT_init stores.
StackInit(v) == LET s == env_long(v, StackDefault) IN IF s < Floor THEN Floor ELSE s

\* abti_default_stacksize: read from the environment until ABT_init has stored it.
default_stacksize ==
  IF num_pes # 0 THEN stacksize
  ELSE LET s == env_long(stack_var, StackDefault) IN IF s < Floor THEN Floor ELSE s

\* ABTI_num_pes_rule and the start of ABT_init.
num_pes_rule ==
  /\ num_pes = 0
  /\ stacksize' = StackInit(stack_var)
  /\ LET c == AtLeastOne(cores)
         n == env_long(num_pes_var, 0)
         maxx == env_long(max_xstreams_var, 0)
     IN num_pes' \in IF n > 0 THEN {Clamp(n)}
                     ELSE IF maxx > 0 THEN {Clamp(k) : k \in Secondaries(maxx)}
                     ELSE {Clamp(IF c < 16 THEN 16 ELSE IF c > 32 THEN 32 ELSE c)}
  /\ UNCHANGED <<cores, num_pes_var, max_xstreams_var, stack_var>>

Next == num_pes_rule
Spec == Init /\ [][Next]_vars

-----------------------------------------------------------------------------
\* There is a PE for the primary execution stream and one more, and never more
\* than 256, whatever the variables hold, the overflow included (init.cpp:75-77).
PesInRange == num_pes # 0 => num_pes \in 2..256

\* ABT_MAX_NUM_XSTREAMS secondary execution streams can be leased at once, as far
\* as 256 PEs go, when the sum is defined and ABT_RECONVERSE_NUM_PES does not ask
\* for less (init.cpp:57-60, 67-74).
EnoughPEs ==
  LET m == max_xstreams_var IN
  num_pes # 0 /\ m.kind = "whole" /\ m.x \in 1..(LongMax-1) /\ env_long(num_pes_var, 0) = 0
    => num_pes - 1 >= Min({m.x, 255})

\* The default stack size that ABT_info_query_config tells is the same before and
\* after ABT_init, is at least 16384 and what the variable asks for above that
\* (misc.cpp:130-154, init.cpp:136-139).
InfoSteady ==
  /\ default_stacksize = StackInit(stack_var) /\ default_stacksize >= Floor
  /\ num_pes # 0 /\ stack_var.kind = "whole" /\ stack_var.x >= Floor => stacksize = stack_var.x
=============================================================================
