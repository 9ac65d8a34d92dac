------------------------------ MODULE MCUArena ------------------------------
(***************************************************************************)
(* The instance of UArena that is model-checked.  The bootstrapped arenas  *)
(* are interchangeable.                                                    *)
(***************************************************************************)
EXTENDS UArena, TLC

Interchangeable == Permutations(Arenas \ {Root})
=============================================================================
