---------------------------- MODULE MCMalloclab -----------------------------
(***************************************************************************)
(* The programs of the malloc lab, one in each behaviour: each allocator   *)
(* under any caller, the driver with its traces (Mdriver), which makes     *)
(* requests of its own, or the measurement of fcyc.c (Fcyc).               *)
(***************************************************************************)
EXTENDS MmFirstFit, MmCaller, Mdriver, Fcyc

VARIABLE program

labVars == <<program, vars, mmVars, driverVars, fcycVars>>

\* What does not run has only one beginning.
LabInit ==
  /\ program \in {"mm-firstfit.c", "mm.c", "mdriver.c", "fcyc.c"}
  /\ Init /\ MmInit /\ DriverInit /\ FcycInit
  /\ program # "mdriver.c" => package = "mm.c"
  /\ program # "fcyc.c" =>
       /\ machine = "other" /\ ~ compensate /\ ~ clear_cache
       /\ kbest = CHOOSE k \in Ks : TRUE
       /\ cache_bytes = CHOOSE bytes \in CacheBytes : TRUE

LabNext ==
  /\ \/ program = "mm-firstfit.c" /\ Next /\ UNCHANGED <<mmVars, driverVars, fcycVars>>
     \/ program = "mm.c" /\ MmNext /\ UNCHANGED <<vars, driverVars, fcycVars>>
     \/ program = "mdriver.c" /\ DriverNext /\ UNCHANGED <<vars, mmVars, fcycVars>>
     \/ program = "fcyc.c" /\ FcycNext /\ UNCHANGED <<vars, mmVars, driverVars>>
  /\ UNCHANGED program

LabSpec == LabInit /\ [][LabNext]_labVars

----------------------------------------------------------------------------
(* The types; for the allocators they are part of the inductive invariant. *)
TypesOK ==
  CASE program = "mm-firstfit.c" -> IInv
    [] program = "mm.c" -> MmIInv
    [] program = "mdriver.c" -> DriverTypeOK
    [] program = "fcyc.c" -> FcycTypeOK

(* The driver's accounts of the live payloads: its range list while it     *)
(* checks, its totals while it measures the use of space (see Mdriver).    *)
AccountsMatch == program = "mdriver.c" => RangesAreLive /\ UtilAtMostOne
=============================================================================
