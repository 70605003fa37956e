--------------------------- MODULE MCCoqnetStaking ---------------------------
(***************************************************************************)
(* CoqnetStakingManager for TLC.  A unit of time is about ten days.        *)
(***************************************************************************)
EXTENDS CoqnetStakingManager, TLC

CONSTANTS N1, N2, N3, Genesis, Alice, Bob, Carol, Treasury

MCInitialValidators == Genesis :> 10

MCSymmetry == Permutations(NodeIDs) \cup Permutations(Owners \ {ZeroAddress})

MCStakes == {3}

=============================================================================
