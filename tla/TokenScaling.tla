---------------------------- MODULE TokenScaling ----------------------------
(***************************************************************************)
(* Amounts of home tokens and of remote tokens with other decimals         *)
(* (contracts/utilities/TokenScalingUtils.sol).  Division drops the rest.  *)
(***************************************************************************)
EXTENDS Integers

CONSTANT Base \* 10 in the code

MAX_TOKEN_DECIMALS == 18

ASSUME BaseAssumption ==
  /\ Base \in Nat
  /\ \A n \in 0..MAX_TOKEN_DECIMALS : Base ^ n \in Nat \ {0}

deriveTokenMultiplierValues(homeTokenDecimals, remoteTokenDecimals) ==
  LET multiplyOnRemote == remoteTokenDecimals > homeTokenDecimals
  IN  [multiplyOnRemote |-> multiplyOnRemote,
       tokenMultiplier  |-> Base ^ IF multiplyOnRemote
                                   THEN remoteTokenDecimals - homeTokenDecimals
                                   ELSE homeTokenDecimals - remoteTokenDecimals]

ScaleTokens(scale, amount, isSendToRemote) ==
  IF scale.multiplyOnRemote = isSendToRemote
  THEN amount * scale.tokenMultiplier
  ELSE amount \div scale.tokenMultiplier

applyTokenScale(scale, homeTokenAmount) == ScaleTokens(scale, homeTokenAmount, TRUE)

removeTokenScale(scale, remoteTokenAmount) == ScaleTokens(scale, remoteTokenAmount, FALSE)
=============================================================================
