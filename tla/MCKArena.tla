------------------------------ MODULE MCKArena ------------------------------
(***************************************************************************)
(* The instance of the kernel modules that is model-checked, with one of   *)
(* the two drivers loaded.  Processes are interchangeable.  A behaviour of *)
(* karena is followed up to the race after which nothing is claimed of it, *)
(* one of okarena as long as it has three blocks at most, and two          *)
(* structures if one of them is shared.                                    *)
(***************************************************************************)
EXTENDS KArena, OldKArena, TLC

VARIABLE driver

MCInit ==
  registered = {} /\ driver \in {"karena", "okarena"} /\ Init /\ OkaInit

MCNext ==
  \/ driver = "karena" /\ Next /\ UNCHANGED <<driver, okaVars>>
  \/ driver = "okarena" /\ OkaNext /\ UNCHANGED <<driver, kaVars>>

MCSpec == MCInit /\ [][MCNext]_<<vars, okaVars, driver>>

Interchangeable == Permutations(Procs)
Followed == /\ "raced" \notin causes
            /\ Cardinality(okaBlocks) <= 3
            /\ Len(infos) + Cardinality(shared) <= MaxRegions
=============================================================================
