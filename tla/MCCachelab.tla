----------------------------- MODULE MCCachelab -----------------------------
(***************************************************************************)
(* The programs of the cache lab, one in each behaviour: csim parsing its  *)
(* command line (CsimArguments), csim on any trace (Csim, with the         *)
(* constants of MCCsim), or test-trans on the sizes that driver.py asks    *)
(* for and on small ones that the submission does not know.                *)
(***************************************************************************)
EXTENDS MCCsim, CsimArguments

(* Four pairs of words, or one, and perhaps a word more.  Most pairs are   *)
(* a flag and its value.                                                   *)
MCFlags == {<<"-s", "1">>, <<"-E", "1">>, <<"-b", "1">>, <<"-t", "f">>,
            <<"-v", "f">>, <<"-v", "-s">>}

MCTails == {<< >>, <<"-v">>, <<"-b">>, <<"-t">>, <<"-h">>}

MCCommands ==
  {<<"csim">> \o fs[1] \o fs[2] \o fs[3] \o fs[4] \o tail :
     fs \in [1 .. 4 -> MCFlags], tail \in MCTails}
  \cup {<<"csim">> \o f \o tail : f \in MCFlags, tail \in MCTails}

MCNumbers == {"1"}

MCFiles == {"f"}

----------------------------------------------------------------------------
VARIABLES size, i, pc, k, B, line, num_misses, csim_results, func_list,
          results, failed

testTransVars == <<size, i, pc, k, B, line, num_misses, csim_results, func_list,
                   results, failed>>

CONSTANTS Sizes, BATCH     \* see Transpose

(* Without a second column, or with less than five rows, what a wrong      *)
(* function moves to a wrong place may be all outside the matrix.          *)
ASSUME SizesAssumption ==
  /\ Sizes \subseteq (Nat \ {0, 1}) \X (Nat \ (0 .. 4))
  /\ BATCH \in Nat \ {0}

MCSizes == {<<32, 32>>, <<64, 64>>, <<61, 67>>, <<8, 8>>, <<6, 8>>, <<12, 6>>}

TestTrans == INSTANCE Transpose

----------------------------------------------------------------------------
VARIABLE program

LabInit ==
  /\ program \in {"arguments", "csim", "test-trans"}
  /\ Init /\ TestTrans!Init /\ ArgumentsInit
  /\ program # "arguments" => argv = <<"csim">> \o <<"-s", "1">>
  /\ program # "test-trans" => size = <<8, 8>>

LabNext ==
  /\ \/ program = "arguments" /\ ArgumentsNext /\ UNCHANGED <<vars, testTransVars>>
     \/ program = "csim" /\ Next /\ UNCHANGED <<argumentVars, testTransVars>>
     \/ program = "test-trans" /\ TestTrans!Next /\ UNCHANGED <<vars, argumentVars>>
  /\ UNCHANGED program

LabSpec == LabInit /\ [][LabNext]_<<program, vars, argumentVars, testTransVars>>

(* Which of the registered functions are transposes (see Transpose).       *)
WhichTranspose == program = "test-trans" => TestTrans!WhichTranspose

(* The submission needs few misses where it counts (see Transpose).        *)
StripsPay == program = "test-trans" => TestTrans!StripsPay
=============================================================================
