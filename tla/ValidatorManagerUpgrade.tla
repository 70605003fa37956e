------------------------ MODULE ValidatorManagerUpgrade ------------------------
(***************************************************************************)
(* The conversion of an L1 from authority to stake: the proxy that runs    *)
(* PoAValidatorManager is upgraded to a staking contract, which goes on    *)
(* with the storage of ValidatorManager as it finds it: registrations and  *)
(* ends may be under way, and validations without an owner stay.  The      *)
(* upgrade is to the Coqnet contract, initialized in the same transaction  *)
(* (coqnet/script/PoaToPos.s.sol, upgradeAndCall), or to the contract for  *)
(* native tokens, initialized later (tests/flows/validator-manager/        *)
(* poa_to_pos.go).  The churn settings, which initialize writes again, are *)
(* taken to be the same.                                                   *)
(***************************************************************************)
EXTENDS PoAValidatorManager, CoqnetStakingManager, TokenStakingManager

VARIABLE implementation \* of the proxy

upgradeVars == <<vars, stakingInitialized, implementation>>

UpgradeInit ==
  /\ Init
  /\ stakingInitialized = FALSE
  /\ implementation = "PoAValidatorManager"

\* A transaction while the contract is governed by its owner.
ByAuthority(step) ==
  /\ implementation = "PoAValidatorManager"
  /\ step
  /\ UNCHANGED <<posVars, epochVars, stakingInitialized, implementation>>

\* A transaction after the upgrade to the Coqnet contract.
ByStake(step) ==
  /\ implementation = "CoqnetERC20TokenStakingManager"
  /\ step
  /\ UNCHANGED <<stakingInitialized, implementation>>

\* A transaction after the upgrade to the contract for native tokens.
ByNativeStake(step) ==
  /\ implementation = "NativeTokenStakingManager"
  /\ step
  /\ UNCHANGED <<epochVars, implementation>>

\* upgradeAndCall, with initialize of the Coqnet contract as the call, with none of the other.
UpgradeAndCall ==
  /\ implementation = "PoAValidatorManager"
  /\ implementation' \in {"CoqnetERC20TokenStakingManager", "NativeTokenStakingManager"}
  /\ UNCHANGED <<vars, stakingInitialized>>

\* What the contract for native tokens does.
NativeStep ==
  \/ InitializeStaking
  \/ ManagerStep /\ UNCHANGED <<posVars, stakingInitialized>>
  \/ \E sender \in Accounts, node \in NodeIDs, minStakeDuration \in MinStakeDurations,
        stake \in StakeAmounts, expiry \in now .. now + MaximumRegistrationExpiryLength :
       /\ expiry <= MaxTime
       /\ RegistrationsMade < MaxRegistrations
       /\ StakeValidation(sender, node, expiry, minStakeDuration, stake)
  \/ \E id \in DOMAIN validationPeriods :
       \/ EndUnownedValidation(id)
       \/ CompleteEndAndUnlock(id)
       \/ \E sender \in Accounts, proof \in UptimeProofs \cup {NoProof}, force \in BOOLEAN :
            \E recipient \in Recipients \cup {sender} :
              EndStakedValidation(id, sender, proof, recipient, force)
       \/ \E proof \in UptimeProofs : SubmitUptimeProof(id, proof) /\ UNCHANGED stakingInitialized
       \/ \E a \in Recipients :
            ChangeValidatorRewardRecipient(id, a) /\ UNCHANGED stakingInitialized
       \/ ClaimDelegationFees(id) /\ UNCHANGED stakingInitialized

UpgradeNext ==
  \/ ByAuthority(ManagerStep \/ AuthorityStep)
  \/ UpgradeAndCall
  \/ ByStake(Next)
  \/ ByNativeStake(NativeStep)

\* What the contract does alike under all implementations.
EitherWay(step) == step /\ UNCHANGED <<posVars, epochVars, stakingInitialized, implementation>>

CompletesEnd(id) ==
  \/ ByAuthority(AuthorityCompletesEnd(id))
  \/ ByStake(Completes(id))
  \/ ByNativeStake(CompleteEndAndUnlock(id))

\* The IDs that validations may have: registrations expire after the first block.
BoundedIDs ==
  InitialIDs
    \cup {ValidationID(node, weight, expiry) :
            node \in NodeIDs, expiry \in 2 .. MaxTime,
            weight \in AuthorityWeights \cup {ValueToWeight(stake) : stake \in StakeAmounts}}

\* Blocks come, and so do the transactions that anyone may send once the P-Chain has signed; the
\* P-Chain takes what it is sent again and again.  Nobody has to upgrade or to initialize.
Fairness ==
  /\ WF_upgradeVars(EitherWay(Tick))
  /\ \A id \in BoundedIDs :
       /\ WF_upgradeVars(EitherWay(CompleteValidatorRegistration(id)))
       /\ WF_upgradeVars(CompletesEnd(id))
       /\ WF_upgradeVars(EitherWay(ResendEndValidatorMessage(id)))
       /\ SF_upgradeVars(EitherWay(PChainRemoves(id)))

UpgradeSpec == UpgradeInit /\ [][UpgradeNext]_upgradeVars

FairSpec == UpgradeSpec /\ Fairness

----------------------------------------------------------------------------
(* Properties *)

\* The owner of the validation refuses the stake that it is sent.
StakeRefused(id) == implementation = "NativeTokenStakingManager" /\ ~TakesStake(id)

\* A validation that was asked to end is ended, however often the message to the P-Chain is lost
\* (resendEndValidatorMessage), also when the contract is upgraded in between: a validation of the
\* authority, without an owner or a stake, is completed by the staking contract as well, before it
\* is initialized too.  Only an owner who refuses the stake keeps its own validation from ending.
EndEventuallyCompletes ==
  \A id \in BoundedIDs :
    Status(id) = "PendingRemoved" ~> Status(id) = "Completed" \/ StakeRefused(id)

\* A registration does not stay pending: the P-Chain takes it, or it expires and the stake goes
\* back, whichever implementation it was made under and is acknowledged under.
RegistrationSettles ==
  \A id \in BoundedIDs \ InitialIDs :
    Status(id) = "PendingAdded" ~> Status(id) \in {"Active", "Invalidated"} \/ StakeRefused(id)

=============================================================================
