-------------------------- MODULE ValidatorManager --------------------------
(***************************************************************************)
(* The abstract contract that keeps the validator set of an L1             *)
(* (contracts/validator-manager/ValidatorManager.sol) and the P-Chain that *)
(* it changes the set on.  As in the code, the contracts that inherit from *)
(* it extend this module: an internal function is an operator that changes *)
(* the variables of this module only, and whoever calls it says what       *)
(* becomes of the others.                                                  *)
(*                                                                         *)
(* The manager asks the P-Chain for a change with a warp message that its  *)
(* validators sign; the P-Chain signs what it knows of a validation ID,    *)
(* and a signed message can be delivered at any later time.                *)
(***************************************************************************)
EXTENDS Integers, Sequences, FiniteSets, Functions, FiniteSetsExt, SequencesExt, Sums

CONSTANTS
  NodeIDs,                         \* the nodes that may be registered
  InitialValidators,               \* [a set of other nodes -> weight], the converted subnet
  MaximumChurnPercentage,
  ChurnPeriodSeconds,
  MaximumRegistrationExpiryLength,
  MaxUint64,                       \* the largest value of a uint64
  L1Churns,                        \* whether the L1's validator set changes
  MaxTime                          \* bound: the last block timestamp

ASSUME ChurnAssumption ==
  /\ MaximumChurnPercentage \in 1 .. 80
  /\ L1Churns \in BOOLEAN
  /\ ChurnPeriodSeconds \in Nat
ASSUME ClockAssumption == MaximumRegistrationExpiryLength \in Nat /\ MaxTime \in Nat
ASSUME WeightAssumption ==
  /\ MaxUint64 \in Nat
  /\ InitialValidators \in [DOMAIN InitialValidators -> 1 .. MaxUint64]
  /\ DOMAIN InitialValidators \cap NodeIDs = {}
  /\ IsFiniteSet(DOMAIN InitialValidators)

VARIABLES
  now,                    \* block.timestamp
  initializedValidatorSet,
  validationPeriods,      \* [ID -> Validator]; an ID without an entry has the status Unknown
  registeredValidators,   \* [node -> ID], the validations that have not ended
  pendingRegisterValidationMessages, \* the IDs whose registration message is kept
  churnTracker,
  toPChain,               \* the messages to the P-Chain that validators sign
  pChain,                 \* [ID -> "validating" or "removed"], what the P-Chain has registered
  history                 \* [ID -> how often events of the manager report it]

managerVars ==
  <<now, initializedValidatorSet, validationPeriods, registeredValidators,
    pendingRegisterValidationMessages, churnTracker, toPChain, pChain, history>>

Empty == [x \in {} |-> x]

Set(f, x, value) == [y \in DOMAIN f \cup {x} |-> IF y = x THEN value ELSE f[y]]

Without(f, x) == Restrict(f, DOMAIN f \ {x})

\* The hash of the registration message.  Registering a node twice with one expiry and one weight
\* gives one ID, whose entries the second registration overwrites.
ValidationID(node, weight, expiry) == [nodeID |-> node, weight |-> weight, expiry |-> expiry]

InitialID(node) == ValidationID(node, InitialValidators[node], 0)

InitialIDs == {InitialID(node) : node \in DOMAIN InitialValidators}

RegisterMessage(id) == [kind |-> "register", id |-> id, nonce |-> 0]

WeightMessage(id, nonce) == [kind |-> "weight", id |-> id, nonce |-> nonce]  \* of weight 0

Status(id) == IF id \in DOMAIN validationPeriods THEN validationPeriods[id].status ELSE "Unknown"

TotalWeight == churnTracker.totalWeight

\* The events that tell the validations of one ID apart: ValidationPeriodCreated and
\* InitialValidatorCreated, and ValidationPeriodEnded with the status Invalidated.
NoEvents == [created |-> 0, invalidated |-> 0]

Events(id) == IF id \in DOMAIN history THEN history[id] ELSE NoEvents

\* The registrations made, for bounds.
RegistrationsMade ==
  LET ids == DOMAIN history \ InitialIDs
  IN Total([id \in ids |-> history[id].created], ids)

ManagerInit ==
  /\ now = 1
  /\ initializedValidatorSet = FALSE
  /\ validationPeriods = Empty
  /\ registeredValidators = Empty
  /\ pendingRegisterValidationMessages = {}
  /\ churnTracker = [startedAt |-> 0, initialWeight |-> 0, totalWeight |-> 0, churnAmount |-> 0]
  /\ toPChain = {}
  /\ pChain = [id \in InitialIDs |-> "validating"]
  /\ history = Empty

----------------------------------------------------------------------------
(* The churn tracker *)

\* Mutant: weight that goes counts as negative churn.
SignedDifference(a, b) == a - b

AbsDiff(a, b) == IF a > b THEN a - b ELSE b - a

\* Mutant: the weight that goes is not taken off the total.
ChurnTrackerWithoutRemoval(newWeight, oldWeight) ==
  LET expired == \/ churnTracker.startedAt = 0
                 \/ now >= churnTracker.startedAt + ChurnPeriodSeconds
  IN [startedAt |-> IF expired THEN now ELSE churnTracker.startedAt,
      initialWeight |-> IF expired THEN TotalWeight ELSE churnTracker.initialWeight,
      churnAmount |-> AbsDiff(newWeight, oldWeight) + IF expired THEN 0 ELSE churnTracker.churnAmount,
      totalWeight |-> TotalWeight + newWeight]

\* The tracker after a weight changes; churn adds up whether weight comes or goes.
ChurnTrackerAfter(newWeight, oldWeight) ==
  LET change == AbsDiff(newWeight, oldWeight)
      expired == \/ churnTracker.startedAt = 0
                 \/ now >= churnTracker.startedAt + ChurnPeriodSeconds
  IN [startedAt |-> IF expired THEN now ELSE churnTracker.startedAt,
      initialWeight |-> IF expired THEN TotalWeight ELSE churnTracker.initialWeight,
      churnAmount |-> change + IF expired THEN 0 ELSE churnTracker.churnAmount,
      totalWeight |-> TotalWeight + newWeight - oldWeight]

\* The comparisons of _checkAndUpdateChurnTracker.  They are made in checked uint64 arithmetic: a
\* product that does not fit reverts the transaction.
WithinChurnLimits(tracker) ==
  /\ MaximumChurnPercentage * tracker.initialWeight <= MaxUint64
  /\ tracker.churnAmount * 100 <= MaximumChurnPercentage * tracker.initialWeight
  /\ MaximumChurnPercentage * tracker.totalWeight \in 100 .. MaxUint64

\* _checkAndUpdateChurnTracker
CheckAndUpdateChurnTracker(newWeight, oldWeight) ==
  /\ WithinChurnLimits(ChurnTrackerAfter(newWeight, oldWeight))
  /\ churnTracker' = ChurnTrackerAfter(newWeight, oldWeight)

----------------------------------------------------------------------------
(* The functions of the contract *)

\* initializeValidatorSet: the validators of the converted subnet are active at once.  The sum of
\* their weights is made in checked uint64 arithmetic.
InitializeValidatorSet ==
  LET total == Total([id \in InitialIDs |-> id.weight], InitialIDs)
  IN /\ ~initializedValidatorSet
     /\ total \in 0 .. MaxUint64
     /\ total * MaximumChurnPercentage \in 100 .. MaxUint64
     /\ registeredValidators' = [node \in DOMAIN InitialValidators |-> InitialID(node)]
     /\ validationPeriods' =
          [id \in Range(registeredValidators') |->
             [status |-> "Active", nodeID |-> id.nodeID, startingWeight |-> id.weight,
              messageNonce |-> 0, weight |-> id.weight, startedAt |-> now, endedAt |-> 0]]
     /\ churnTracker' = [churnTracker EXCEPT !.totalWeight = total]
     /\ initializedValidatorSet' = TRUE
     /\ history' = [id \in InitialIDs |-> [NoEvents EXCEPT !.created = 1]]
     /\ UNCHANGED <<now, pendingRegisterValidationMessages, toPChain, pChain>>

\* Mutant: a registration that is not confirmed does not count.
NodeIsNotActive(node) ==
  node \in DOMAIN registeredValidators => Status(registeredValidators[node]) = "PendingAdded"

NodeIsFree(node) == node \notin DOMAIN registeredValidators

\* _initializeValidatorRegistration
InitializeRegistration(id) ==
  /\ initializedValidatorSet
  /\ id.expiry > now
  /\ id.expiry < now + MaximumRegistrationExpiryLength
  /\ id.weight + TotalWeight <= MaxUint64
  /\ NodeIsFree(id.nodeID)
  /\ CheckAndUpdateChurnTracker(id.weight, 0)
  /\ pendingRegisterValidationMessages' = pendingRegisterValidationMessages \cup {id}
  /\ registeredValidators' = Set(registeredValidators, id.nodeID, id)
  /\ toPChain' = toPChain \cup {RegisterMessage(id)}
  /\ validationPeriods' =
       Set(validationPeriods, id,
           [status |-> "PendingAdded", nodeID |-> id.nodeID, startingWeight |-> id.weight,
            messageNonce |-> 0, weight |-> id.weight, startedAt |-> 0, endedAt |-> 0])
  /\ history' = Set(history, id, [Events(id) EXCEPT !.created = @ + 1])
  /\ UNCHANGED <<now, initializedValidatorSet, pChain>>

\* resendRegisterValidatorMessage
ResendRegisterValidatorMessage(id) ==
  /\ id \in pendingRegisterValidationMessages
  /\ Status(id) = "PendingAdded"
  /\ toPChain' = toPChain \cup {RegisterMessage(id)}
  /\ UNCHANGED <<now, initializedValidatorSet, validationPeriods, registeredValidators,
                 pendingRegisterValidationMessages, churnTracker, pChain, history>>

\* What the P-Chain signs: that it has registered the ID, which stays deliverable when it is no
\* longer so, or that the ID is not and will never be a validation (again).
PChainSigns(id, valid) ==
  IF valid
  THEN id \in DOMAIN pChain
  ELSE IF id \in DOMAIN pChain THEN pChain[id] = "removed" ELSE now >= id.expiry

\* Mutant: the flag of the message is not looked at.
PChainMentions(id) == PChainSigns(id, TRUE) \/ PChainSigns(id, FALSE)

\* The message that completes a registration.
PChainConfirms(id) == PChainSigns(id, TRUE)

\* completeValidatorRegistration
CompleteValidatorRegistration(id) ==
  /\ PChainConfirms(id)
  /\ id \in pendingRegisterValidationMessages
  /\ Status(id) = "PendingAdded"
  /\ pendingRegisterValidationMessages' = pendingRegisterValidationMessages \ {id}
  /\ validationPeriods' = [validationPeriods EXCEPT ![id].status = "Active", ![id].startedAt = now]
  /\ UNCHANGED <<now, initializedValidatorSet, registeredValidators, churnTracker, toPChain, pChain,
                 history>>

\* _initializeEndValidation, with the end time that the contract at hand records: the block's, or
\* what an override of the function puts in its place.
InitializeEndValidation(id, endedAt) ==
  LET nonce == validationPeriods[id].messageNonce + 1
  IN /\ Status(id) = "Active"
     /\ CheckAndUpdateChurnTracker(0, validationPeriods[id].weight)
     /\ validationPeriods' =
          [validationPeriods EXCEPT ![id].status = "PendingRemoved", ![id].endedAt = endedAt,
                                    ![id].messageNonce = nonce, ![id].weight = 0]
     /\ toPChain' = toPChain \cup {WeightMessage(id, nonce)}
     /\ UNCHANGED <<now, initializedValidatorSet, registeredValidators,
                    pendingRegisterValidationMessages, pChain, history>>

\* Mutant: the message is packed but not handed to the warp precompile.
ResendEndWithoutWarp(id) ==
  /\ Status(id) = "PendingRemoved"
  /\ UNCHANGED managerVars

\* resendEndValidatorMessage
ResendEndValidatorMessage(id) ==
  /\ Status(id) = "PendingRemoved"
  /\ toPChain' = toPChain \cup {WeightMessage(id, validationPeriods[id].messageNonce)}
  /\ UNCHANGED <<now, initializedValidatorSet, validationPeriods, registeredValidators,
                 pendingRegisterValidationMessages, churnTracker, pChain, history>>

\* The status a validation ends with.
EndStatus(id) == IF Status(id) = "PendingRemoved" THEN "Completed" ELSE "Invalidated"

\* Mutant: a validation that never began cannot be ended.
EndableIfRemoved(id) == Status(id) = "PendingRemoved"

\* The status check of _completeEndValidation.
Endable(id) == Status(id) \in {"PendingAdded", "PendingRemoved"}

\* _completeEndValidation
CompleteEnd(id) ==
  /\ PChainSigns(id, FALSE)
  /\ Endable(id)
  /\ validationPeriods' = [validationPeriods EXCEPT ![id].status = EndStatus(id)]
  /\ registeredValidators' = Without(registeredValidators, validationPeriods[id].nodeID)
  /\ history' = IF EndStatus(id) = "Invalidated"
                 THEN [history EXCEPT ![id].invalidated = @ + 1]
                 ELSE history
  /\ UNCHANGED <<now, initializedValidatorSet, pendingRegisterValidationMessages, churnTracker,
                 toPChain, pChain>>

----------------------------------------------------------------------------
(* The P-Chain and the clock *)

\* The P-Chain takes a registration before it expires, once.
PChainRegisters(id) ==
  /\ RegisterMessage(id) \in toPChain
  /\ id \notin DOMAIN pChain
  /\ now < id.expiry
  /\ pChain' = Set(pChain, id, "validating")
  /\ UNCHANGED <<now, initializedValidatorSet, validationPeriods, registeredValidators,
                 pendingRegisterValidationMessages, churnTracker, toPChain, history>>

\* The P-Chain sets the weight of a validator to zero, which removes it.
PChainRemoves(id) ==
  /\ \E message \in toPChain : message.kind = "weight" /\ message.id = id
  /\ id \in DOMAIN pChain
  /\ pChain[id] = "validating"
  /\ pChain' = [pChain EXCEPT ![id] = "removed"]
  /\ UNCHANGED <<now, initializedValidatorSet, validationPeriods, registeredValidators,
                 pendingRegisterValidationMessages, churnTracker, toPChain, history>>

\* The validator set has changed so much that the signatures of a message no longer suffice.
MessageLost(message) ==
  /\ L1Churns
  /\ message \in toPChain
  /\ toPChain' = toPChain \ {message}
  /\ UNCHANGED <<now, initializedValidatorSet, validationPeriods, registeredValidators,
                 pendingRegisterValidationMessages, churnTracker, pChain, history>>

Tick ==
  /\ now < MaxTime
  /\ now' = now + 1
  /\ UNCHANGED <<initializedValidatorSet, validationPeriods, registeredValidators,
                 pendingRegisterValidationMessages, churnTracker, toPChain, pChain,
                 history>>

\* The steps that contracts inheriting from this one leave as they are.
ManagerStep ==
  \/ InitializeValidatorSet
  \/ \E id \in DOMAIN validationPeriods :
       \/ ResendRegisterValidatorMessage(id)
       \/ CompleteValidatorRegistration(id)
       \/ ResendEndValidatorMessage(id)
       \/ PChainRegisters(id)
       \/ PChainRemoves(id)
  \/ \E message \in toPChain : MessageLost(message)
  \/ Tick

----------------------------------------------------------------------------
(* Properties *)

Statuses == {"PendingAdded", "Active", "PendingRemoved", "Completed", "Invalidated"}

IDs == [nodeID : NodeIDs \cup DOMAIN InitialValidators, weight : 1 .. MaxUint64, expiry : Nat]

ManagerTypeOK ==
  /\ now \in Nat /\ initializedValidatorSet \in BOOLEAN
  /\ DOMAIN validationPeriods \subseteq IDs
  /\ validationPeriods \in
       [DOMAIN validationPeriods ->
          [status : Statuses, nodeID : NodeIDs \cup DOMAIN InitialValidators,
           startingWeight : 1 .. MaxUint64, messageNonce : Nat, weight : 0 .. MaxUint64,
           startedAt : Nat, endedAt : Nat]]
  /\ registeredValidators \in [DOMAIN registeredValidators -> DOMAIN validationPeriods]
  /\ pendingRegisterValidationMessages \subseteq DOMAIN validationPeriods
  /\ churnTracker \in [startedAt : Nat, initialWeight : 0 .. MaxUint64,
                       totalWeight : 0 .. MaxUint64, churnAmount : Nat]
  /\ pChain \in [DOMAIN pChain -> {"validating", "removed"}]
  /\ history \in [DOMAIN validationPeriods -> [created : Nat \ {0}, invalidated : Nat]]

Live == {"PendingAdded", "Active", "PendingRemoved"}

Validations(statuses) == {id \in DOMAIN validationPeriods : validationPeriods[id].status \in statuses}

\* A node is registered exactly while one of its validations has not ended, and it never has two:
\* _registeredValidators is written at registration and deleted when the end is acknowledged.
OneValidationPerNode ==
  /\ Range(registeredValidators) = Validations(Live)
  /\ \A node \in DOMAIN registeredValidators : registeredValidators[node].nodeID = node

\* The ID stands for one validation so far.
RegisteredOnce(id) == history[id].created = 1

\* The manager and the P-Chain agree as far as messages allow.  What validates on the P-Chain is not
\* forgotten, and whatever is active validates there; what has ended does not and never will.  An ID
\* that was registered again is over on the P-Chain, whatever the manager makes of it: the old
\* confirmation activates it once more (completeValidatorRegistration).
AgreesWithPChain ==
  initializedValidatorSet =>
    LET validating == {id \in DOMAIN pChain : pChain[id] = "validating"}
    IN /\ validating \subseteq Validations(Live)
       /\ \A id \in DOMAIN validationPeriods :
            IF RegisteredOnce(id)
            THEN /\ Status(id) = "Active" => id \in validating
                 /\ Status(id) = "Completed" => id \in DOMAIN pChain \ validating
                 /\ Status(id) = "Invalidated" => id \notin DOMAIN pChain /\ now >= id.expiry
            ELSE id \in DOMAIN pChain \ validating

WeightSum(ids) == Total([id \in ids |-> validationPeriods[id].weight], ids)

\* The total weight that churn is measured against is the weight of the validations that may be on
\* the P-Chain and of every registration that was never confirmed: _completeEndValidation leaves the
\* weight of an invalidated one in, once more each time that its ID is registered again.
TotalWeightAccounted ==
  TotalWeight =
    WeightSum(Validations({"PendingAdded", "Active"}))
      + Total([id \in DOMAIN history |-> id.weight * history[id].invalidated], DOMAIN history)

=============================================================================
