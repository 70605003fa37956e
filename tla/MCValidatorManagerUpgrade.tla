---------------------- MODULE MCValidatorManagerUpgrade ----------------------
(***************************************************************************)
(* ValidatorManagerUpgrade for TLC.  A unit of time is about ten days.     *)
(* The weight of Genesis2 exceeds the churn of a period, that of Genesis1  *)
(* does not.                                                               *)
(***************************************************************************)
EXTENDS ValidatorManagerUpgrade, TLC

CONSTANTS N1, Genesis1, Genesis2, Alice, Bob

MCInitialValidators == Genesis1 :> 2 @@ Genesis2 :> 12

MCStakes == {3}
=============================================================================
