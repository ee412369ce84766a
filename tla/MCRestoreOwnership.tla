------------------------- MODULE MCRestoreOwnership -------------------------
(***************************************************************************)
(* Small instances of RestoreOwnership.                                    *)
(***************************************************************************)
EXTENDS RestoreOwnership, TLC

CONSTANTS p1, p2, a1, a2, d1, t1, t2, t3, t4

OneDevice == a1 :> d1 @@ a2 :> d1

ProcessSymmetry == Permutations({p1, p2}) \cup Permutations({t1, t2, t3, t4})
=============================================================================
