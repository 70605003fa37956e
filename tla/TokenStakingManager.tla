------------------------- MODULE TokenStakingManager -------------------------
(***************************************************************************)
(* Staking without epochs, by anybody: ERC20TokenStakingManager and        *)
(* NativeTokenStakingManager (contracts/validator-manager).  They differ   *)
(* in how a stake goes back.  The native one sends it to the owner, who    *)
(* may be a contract that takes none; the whole transaction reverts then.  *)
(* Without such owners (Refusing = {}) the two behave alike.  What an      *)
(* owner does when it is paid comes last in the transaction and counts as  *)
(* steps of their own.                                                     *)
(***************************************************************************)
EXTENDS PoSValidatorManager

CONSTANT Refusing \* the accounts that refuse native tokens

ASSUME RefusingAssumption == Refusing \subseteq Accounts

VARIABLE stakingInitialized \* initialize has written the settings

tokenVars == <<managerVars, posVars, stakingInitialized>>

\* initialize: a transaction of its own, once (reinitializer).  Its churn settings are those of the
\* authority.
InitializeStaking ==
  /\ ~stakingInitialized
  /\ stakingInitialized' = TRUE
  /\ UNCHANGED <<managerVars, posVars>>

\* initializeValidatorRegistration: the sender owns the validation.  Before initialize there is no
\* rate of value to weight, and the division by zero reverts.
StakeValidation(sender, node, expiry, minStakeDuration, stake) ==
  /\ stakingInitialized
  /\ InitializePoSRegistration(sender, node, expiry, minStakeDuration, stake)
  /\ UNCHANGED stakingInitialized

\* initializeEndValidation and forceInitializeEndValidation by the owner.
EndStakedValidation(id, sender, proof, recipient, force) ==
  LET reward == RewardAtEnd(id, proof, now)
  IN /\ IsPoSValidator(id)
     /\ force \/ reward > 0
     /\ InitializeEndPoSValidation(id, sender, proof, recipient, now,
                                   AmountAt(redeemableValidatorRewards, id) + reward)
     /\ UNCHANGED stakingInitialized

\* The same functions for a validation without an owner, an initial one or one of the authority: any
\* sender may end it.
EndUnownedValidation(id) ==
  /\ ~IsPoSValidator(id)
  /\ InitializeEndValidation(id, now)
  /\ UNCHANGED <<posVars, stakingInitialized>>

TakesStake(id) == IsPoSValidator(id) => StakePayee(id) \notin Refusing

\* completeEndValidation, which reverts if the owner does not take the stake.
CompleteEndAndUnlock(id) ==
  /\ TakesStake(id)
  /\ CompleteEndValidation(id)
  /\ UNCHANGED stakingInitialized
=============================================================================
