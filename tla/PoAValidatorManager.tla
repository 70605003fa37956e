-------------------------- MODULE PoAValidatorManager --------------------------
(***************************************************************************)
(* A validator manager whose owner decides who validates                   *)
(* (contracts/validator-manager/PoAValidatorManager.sol).  Nothing is      *)
(* staked and a validation has no minimum duration.                        *)
(***************************************************************************)
EXTENDS ValidatorManager

CONSTANTS
  AuthorityWeights,     \* bound: the weights that the owner gives to validators
  AuthorityValidations  \* bound: the number of registrations of the owner

ASSUME AuthorityAssumption ==
  AuthorityWeights \subseteq 1 .. MaxUint64 /\ AuthorityValidations \in Nat

\* initializeValidatorRegistration.  The same contents may be registered again.
AuthorityRegisters(node, weight, expiry) ==
  /\ RegistrationsMade < AuthorityValidations
  /\ InitializeRegistration(ValidationID(node, weight, expiry))

\* initializeEndValidation, of an initial validator as well
AuthorityEnds(id) == InitializeEndValidation(id, now)

\* completeEndValidation
AuthorityCompletesEnd(id) == CompleteEnd(id)

AuthorityStep ==
  \/ \E node \in NodeIDs, weight \in AuthorityWeights,
        expiry \in now .. now + MaximumRegistrationExpiryLength :
       expiry <= MaxTime /\ AuthorityRegisters(node, weight, expiry)
  \/ \E id \in DOMAIN validationPeriods : AuthorityEnds(id) \/ AuthorityCompletesEnd(id)
=============================================================================
