----------------------- MODULE ValidatorManagerProofs -----------------------
(***************************************************************************)
(* What every contract that inherits from ValidatorManager and             *)
(* PoSValidatorManager preserves, for any set of nodes, accounts, stakes   *)
(* and durations: lemmas about each of the functions, and about            *)
(* StakingStep, what such a contract does in a transaction.  The theorems  *)
(* about Coqnet's contract and about the upgrade to it rest on them.       *)
(***************************************************************************)
EXTENDS PoSValidatorManager, SumProofs

----------------------------------------------------------------------------
(* The validator manager: what each of its operations preserves, whatever  *)
(* the contract that inherits from it does around the operation.  The      *)
(* parts of the invariant of the manager beyond the types:                 *)

\* _registeredValidators points to the validation of each node that has not ended, and to no other.
NodesRegistered ==
  /\ \A node \in DOMAIN registeredValidators :
       /\ Status(registeredValidators[node]) \in Live
       /\ registeredValidators[node].nodeID = node
  /\ \A id \in DOMAIN validationPeriods :
       /\ validationPeriods[id].nodeID = id.nodeID
       /\ validationPeriods[id].status \in Live =>
            id.nodeID \in DOMAIN registeredValidators /\ registeredValidators[id.nodeID] = id

\* Before the validators of the converted subnet are read nothing is registered.
NothingBefore ==
  ~initializedValidatorSet =>
    /\ DOMAIN validationPeriods = {} /\ DOMAIN registeredValidators = {}
    /\ pendingRegisterValidationMessages = {} /\ toPChain = {}
    /\ pChain = [id \in InitialIDs |-> "validating"]

\* The entries of the manager agree with one another, also when the ID of a validation that is over is
\* used again.
ManagerCore ==
  /\ ManagerTypeOK
  /\ NodesRegistered
  /\ NothingBefore
  /\ IsFiniteSet(DOMAIN validationPeriods)

\* A message speaks of a validation, and a removal of one that is being ended, unless the ID is used
\* again.
MessagesSound ==
  \A message \in toPChain :
    /\ message.id \in DOMAIN validationPeriods
    /\ message.kind = "weight" /\ RegisteredOnce(message.id) =>
         Status(message.id) \in {"PendingRemoved", "Completed"}

\* What the status of a validation says of the P-Chain.  An ID that is used again is over there.
StatusesSound ==
  initializedValidatorSet =>
    /\ DOMAIN pChain \subseteq DOMAIN validationPeriods
    /\ \A id \in DOMAIN validationPeriods :
         LET status == validationPeriods[id].status
         IN IF RegisteredOnce(id)
            THEN /\ status = "PendingAdded" /\ id \in DOMAIN pChain => pChain[id] = "validating"
                 /\ status = "Active" => id \in DOMAIN pChain /\ pChain[id] = "validating"
                 /\ status = "PendingRemoved" => id \in DOMAIN pChain
                 /\ status = "Completed" => id \in DOMAIN pChain /\ pChain[id] = "removed"
                 /\ status = "Invalidated" => id \notin DOMAIN pChain /\ now >= id.expiry
            ELSE id \in DOMAIN pChain /\ pChain[id] = "removed"

Validation ==
  [status : Statuses, nodeID : NodeIDs \cup DOMAIN InitialValidators,
   startingWeight : 1 .. MaxUint64, messageNonce : Nat, weight : 0 .. MaxUint64,
   startedAt : Nat, endedAt : Nat]

\* The manager and the P-Chain agree.
ManagerInv ==
  /\ ManagerTypeOK
  /\ NodesRegistered
  /\ NothingBefore
  /\ IsFiniteSet(DOMAIN validationPeriods)
  /\ MessagesSound
  /\ StatusesSound

EventCounts == [created : Nat \ {0}, invalidated : Nat]

\* The stake of a validation is what it was and is neither locked nor released.
SameStake(id) ==
  /\ id \in DOMAIN validationPeriods'
  /\ validationPeriods'[id].startingWeight = validationPeriods[id].startingWeight
  /\ validationPeriods'[id].status \in Live <=> validationPeriods[id].status \in Live

----------------------------------------------------------------------------
(* The operations *)

\* Churn is tracked in the width of the code's integers (_checkAndUpdateChurnTracker).
LEMMA ChurnTrackerType ==
  ASSUME ManagerTypeOK,
         NEW newWeight \in 0 .. MaxUint64, NEW oldWeight \in 0 .. MaxUint64,
         CheckAndUpdateChurnTracker(newWeight, oldWeight)
  PROVE  churnTracker' \in [startedAt : Nat, initialWeight : 0 .. MaxUint64,
                            totalWeight : 0 .. MaxUint64, churnAmount : Nat]
<1> DEFINE after == ChurnTrackerAfter(newWeight, oldWeight)
<1>1. /\ churnTracker.startedAt \in Nat /\ churnTracker.initialWeight \in 0 .. MaxUint64
      /\ churnTracker.totalWeight \in 0 .. MaxUint64 /\ churnTracker.churnAmount \in Nat
      /\ now \in Nat
  BY DEF ManagerTypeOK
<1>2. AbsDiff(newWeight, oldWeight) \in Nat
  BY WeightAssumption DEF AbsDiff
<1>3. after \in [startedAt : Nat, initialWeight : 0 .. MaxUint64, totalWeight : Int, churnAmount : Nat]
  BY <1>1, <1>2, WeightAssumption DEF ChurnTrackerAfter, TotalWeight
<1>4. after.totalWeight \in 0 .. MaxUint64
  <2> HIDE DEF after
  <2>1. /\ after.totalWeight \in Int
        /\ MaximumChurnPercentage * after.totalWeight \in 100 .. MaxUint64
    BY <1>3 DEF CheckAndUpdateChurnTracker, WithinChurnLimits, after
  <2> DEFINE weight == after.totalWeight
  <2>2. MaximumChurnPercentage \in Nat /\ MaximumChurnPercentage >= 1
    BY ChurnAssumption
  <2> HIDE DEF weight
  <2>3. weight \in Int /\ MaximumChurnPercentage * weight \in 100 .. MaxUint64
    BY <2>1 DEF weight
  <2>4. weight >= 0 /\ weight <= MaximumChurnPercentage * weight
    BY <2>2, <2>3, WeightAssumption
  <2> QED BY <2>3, <2>4, WeightAssumption DEF weight
<1> QED BY <1>3, <1>4 DEF CheckAndUpdateChurnTracker

\* The converted subnet has finitely many validators.
LEMMA InitialIDsFinite == IsFiniteSet(InitialIDs)
<1> DEFINE f == [node \in DOMAIN InitialValidators |-> InitialID(node)]
<1>1. f \in Surjection(DOMAIN InitialValidators, InitialIDs)
  BY DEF InitialIDs, Surjection
<1> HIDE DEF f
<1> QED BY <1>1, FS_Surjection, WeightAssumption

\* The validators of the converted subnet are the first registered (initializeValidatorSet).
LEMMA InitializeValidatorSetKeepsCore ==
  ASSUME ManagerCore, InitializeValidatorSet
  PROVE  ManagerCore'
<1> DEFINE nodes == DOMAIN InitialValidators
           ids == InitialIDs
<1>1. /\ registeredValidators' = [node \in nodes |-> InitialID(node)]
      /\ DOMAIN validationPeriods' = ids
      /\ \A id \in ids : validationPeriods'[id] =
           [status |-> "Active", nodeID |-> id.nodeID, startingWeight |-> id.weight,
            messageNonce |-> 0, weight |-> id.weight, startedAt |-> now, endedAt |-> 0]
  BY DEF InitializeValidatorSet, InitialIDs, Range
<1>2. \A node \in nodes : /\ InitialID(node) \in IDs /\ InitialID(node).nodeID = node
                          /\ InitialID(node).weight \in 1 .. MaxUint64
                          /\ InitialID(node).expiry = 0
  BY WeightAssumption DEF InitialID, ValidationID, IDs
<1>3. /\ initializedValidatorSet' = TRUE /\ ~initializedValidatorSet
      /\ now' = now /\ now \in Nat /\ toPChain' = {} /\ pendingRegisterValidationMessages' = {}
      /\ pChain' = pChain
      /\ pChain = [id \in ids |-> "validating"]
  BY DEF InitializeValidatorSet, ManagerCore, NothingBefore, ManagerTypeOK
<1>4. churnTracker' \in [startedAt : Nat, initialWeight : 0 .. MaxUint64,
                         totalWeight : 0 .. MaxUint64, churnAmount : Nat]
  BY DEF InitializeValidatorSet, ManagerCore, ManagerTypeOK
<1> HIDE DEF ids
<1>5. \A id \in ids : /\ id \in IDs /\ id.weight \in 1 .. MaxUint64 /\ id.expiry = 0
                      /\ id.nodeID \in nodes /\ InitialID(id.nodeID) = id
  BY <1>2 DEF ids, InitialIDs
<1>6. ManagerTypeOK'
  <2>1. validationPeriods' \in
         [ids -> [status : Statuses, nodeID : NodeIDs \cup nodes,
                  startingWeight : 1 .. MaxUint64, messageNonce : Nat, weight : 0 .. MaxUint64,
                  startedAt : Nat, endedAt : Nat]]
    <3>1. validationPeriods' = [id \in ids |-> validationPeriods'[id]]
      BY <1>1 DEF InitializeValidatorSet
    <3>2. \A id \in ids : validationPeriods'[id] \in
           [status : Statuses, nodeID : NodeIDs \cup nodes,
            startingWeight : 1 .. MaxUint64, messageNonce : Nat, weight : 0 .. MaxUint64,
            startedAt : Nat, endedAt : Nat]
      BY <1>1, <1>3, <1>5 DEF Statuses
    <3> QED BY <3>1, <3>2
  <2>2. registeredValidators' \in [DOMAIN registeredValidators' -> DOMAIN validationPeriods']
    BY <1>1 DEF ids, InitialIDs
  <2>3. pChain' \in [DOMAIN pChain' -> {"validating", "removed"}]
    BY <1>3
  <2>4. history' \in [ids -> EventCounts]
    BY DEF InitializeValidatorSet, NoEvents, EventCounts, ids
  <2> QED BY <2>1, <2>2, <2>3, <2>4, <1>1, <1>3, <1>4, <1>5 DEF ManagerTypeOK, IDs, EventCounts
<1>7. NodesRegistered'
  <2>1. \A id \in ids : validationPeriods'[id].status = "Active" /\ validationPeriods'[id].nodeID = id.nodeID
    BY <1>1
  <2>2. \A node \in nodes : InitialID(node) \in ids /\ registeredValidators'[node] = InitialID(node)
    BY <1>1 DEF ids, InitialIDs
  <2> QED BY <2>1, <2>2, <1>1, <1>2, <1>5 DEF NodesRegistered, Status, Live
<1>8. NothingBefore'
  BY <1>3 DEF NothingBefore
<1>9. IsFiniteSet(DOMAIN validationPeriods')
  BY <1>1, InitialIDsFinite DEF ids
<1> QED BY <1>6, <1>7, <1>8, <1>9 DEF ManagerCore

\* They are validated by the P-Chain, and no registration of theirs is under way.
LEMMA InitializeValidatorSetKeeps ==
  ASSUME ManagerInv, InitializeValidatorSet
  PROVE  ManagerInv'
<1>1. /\ DOMAIN validationPeriods' = InitialIDs
      /\ \A id \in InitialIDs : /\ validationPeriods'[id].status = "Active"
                                /\ validationPeriods'[id].startedAt = now
  BY DEF InitializeValidatorSet, InitialIDs, Range
<1>2. /\ now' = now /\ now \in Nat /\ toPChain' = {} /\ pChain' = pChain
      /\ pChain = [id \in InitialIDs |-> "validating"]
  BY DEF InitializeValidatorSet, ManagerInv, NothingBefore, ManagerTypeOK
<1>3. \A id \in InitialIDs : RegisteredOnce(id)'
  BY DEF InitializeValidatorSet, RegisteredOnce, NoEvents
<1>4. MessagesSound' /\ StatusesSound'
  BY <1>1, <1>2, <1>3 DEF MessagesSound, StatusesSound
<1> QED BY <1>4, InitializeValidatorSetKeepsCore DEF ManagerInv, ManagerCore

\* A node gets its one validation (_initializeValidatorRegistration).
LEMMA InitializeRegistrationKeepsCore ==
  ASSUME ManagerCore,
         NEW node \in NodeIDs, NEW weight \in 1 .. MaxUint64, NEW expiry \in Nat,
         InitializeRegistration(ValidationID(node, weight, expiry))
  PROVE  ManagerCore'
<1> DEFINE id == ValidationID(node, weight, expiry)
           new == [status |-> "PendingAdded", nodeID |-> id.nodeID, startingWeight |-> id.weight,
                   messageNonce |-> 0, weight |-> id.weight, startedAt |-> 0, endedAt |-> 0]
<1>1. id \in IDs /\ id.nodeID = node /\ id.weight = weight /\ id.expiry = expiry
  BY DEF ValidationID, IDs
<1> HIDE DEF id
<1>3. InitializeRegistration(id)
  BY DEF id
<1>4. /\ DOMAIN validationPeriods' = DOMAIN validationPeriods \cup {id}
      /\ validationPeriods'[id] = new
      /\ \A other \in DOMAIN validationPeriods \ {id} : validationPeriods'[other] = validationPeriods[other]
      /\ validationPeriods' = [other \in DOMAIN validationPeriods' |-> validationPeriods'[other]]
  BY <1>3 DEF InitializeRegistration, Set
<1>5. /\ DOMAIN registeredValidators' = DOMAIN registeredValidators \cup {node}
      /\ registeredValidators'[node] = id
      /\ \A other \in DOMAIN registeredValidators : registeredValidators'[other] = registeredValidators[other]
      /\ registeredValidators' = [other \in DOMAIN registeredValidators' |-> registeredValidators'[other]]
      /\ node \notin DOMAIN registeredValidators
  BY <1>1, <1>3 DEF InitializeRegistration, Set, NodeIsFree
<1>6. /\ now' = now /\ now \in Nat /\ initializedValidatorSet /\ initializedValidatorSet'
      /\ pChain' = pChain
      /\ pendingRegisterValidationMessages' = pendingRegisterValidationMessages \cup {id}
      /\ toPChain' = toPChain \cup {RegisterMessage(id)}
      /\ expiry < now + MaximumRegistrationExpiryLength /\ expiry > now
  BY <1>1, <1>3 DEF InitializeRegistration, ManagerCore, ManagerTypeOK
<1>7. new \in [status : Statuses, nodeID : NodeIDs \cup DOMAIN InitialValidators,
               startingWeight : 1 .. MaxUint64, messageNonce : Nat, weight : 0 .. MaxUint64,
               startedAt : Nat, endedAt : Nat]
  BY <1>1 DEF Statuses
<1>8. new.status = "PendingAdded" /\ new.nodeID = node
  BY <1>1
<1> HIDE DEF new
<1>9. ManagerTypeOK'
  <2>1. churnTracker' \in [startedAt : Nat, initialWeight : 0 .. MaxUint64,
                           totalWeight : 0 .. MaxUint64, churnAmount : Nat]
    BY <1>1, <1>3, ChurnTrackerType, WeightAssumption DEF InitializeRegistration, ManagerCore
  <2>2. validationPeriods' \in
         [DOMAIN validationPeriods' ->
           [status : Statuses, nodeID : NodeIDs \cup DOMAIN InitialValidators,
            startingWeight : 1 .. MaxUint64, messageNonce : Nat, weight : 0 .. MaxUint64,
            startedAt : Nat, endedAt : Nat]]
    BY <1>4, <1>7 DEF ManagerCore, ManagerTypeOK
  <2>3. registeredValidators' \in [DOMAIN registeredValidators' -> DOMAIN validationPeriods']
    BY <1>4, <1>5 DEF ManagerCore, ManagerTypeOK
  <2>4. history' \in [DOMAIN validationPeriods' -> EventCounts]
    <3>1. history \in [DOMAIN validationPeriods -> EventCounts]
      BY DEF ManagerCore, ManagerTypeOK, EventCounts
    <3>2. Events(id) \in [created : Nat, invalidated : Nat]
      BY <3>1 DEF Events, NoEvents, EventCounts
    <3>3. [Events(id) EXCEPT !.created = @ + 1] \in EventCounts
      BY <3>2 DEF EventCounts
    <3> QED BY <1>3, <1>4, <3>1, <3>3 DEF InitializeRegistration, Set
  <2> QED BY <2>1, <2>2, <2>3, <2>4, <1>1, <1>4, <1>6 DEF ManagerCore, ManagerTypeOK, IDs, EventCounts
<1>10. NodesRegistered'
  BY <1>1, <1>4, <1>5, <1>8 DEF ManagerCore, ManagerTypeOK, NodesRegistered, Status, Live
<1>11. NothingBefore'
  BY <1>6 DEF NothingBefore
<1>12. IsFiniteSet(DOMAIN validationPeriods')
  BY <1>4, FS_AddElement DEF ManagerCore
<1> QED BY <1>9, <1>10, <1>11, <1>12 DEF ManagerCore

\* A registration leaves the other validations as they are.
LEMMA InitializeRegistrationFrame ==
  ASSUME NEW id, InitializeRegistration(id)
  PROVE  /\ DOMAIN validationPeriods' = DOMAIN validationPeriods \cup {id}
         /\ \A other \in DOMAIN validationPeriods \ {id} :
              validationPeriods'[other] = validationPeriods[other]
         /\ validationPeriods'[id].status = "PendingAdded"
         /\ validationPeriods'[id].startingWeight = id.weight
BY DEF InitializeRegistration, Set

\* A registration is one more of its ID.
LEMMA RegistrationIsCounted ==
  ASSUME ManagerTypeOK, NEW id, InitializeRegistration(id)
  PROVE  /\ history' \in [DOMAIN validationPeriods \cup {id} -> EventCounts]
         /\ \A other \in DOMAIN validationPeriods \ {id} : history'[other] = history[other]
         /\ history'[id].invalidated = Events(id).invalidated
         /\ id \notin DOMAIN validationPeriods => RegisteredOnce(id)'
         /\ id \in DOMAIN validationPeriods => ~RegisteredOnce(id)'
<1>1. history \in [DOMAIN validationPeriods -> EventCounts]
  BY DEF ManagerTypeOK, EventCounts
<1>2. history' = Set(history, id, [Events(id) EXCEPT !.created = @ + 1])
  BY DEF InitializeRegistration
<1>3. Events(id) \in [created : Nat, invalidated : Nat]
  BY <1>1 DEF Events, NoEvents, EventCounts
<1>4. /\ id \notin DOMAIN validationPeriods => Events(id).created = 0
      /\ id \in DOMAIN validationPeriods => Events(id).created \in Nat \ {0}
  BY <1>1 DEF Events, NoEvents, EventCounts
<1>5. /\ history'[id].created = Events(id).created + 1
      /\ history'[id] \in EventCounts
      /\ history'[id].invalidated = Events(id).invalidated
  BY <1>2, <1>3 DEF Set, EventCounts
<1>6. \A other \in DOMAIN validationPeriods \ {id} : history'[other] = history[other]
  BY <1>1, <1>2 DEF Set
<1>7. history' \in [DOMAIN validationPeriods \cup {id} -> EventCounts]
  BY <1>1, <1>2, <1>5, <1>6 DEF Set
<1> QED BY <1>3, <1>4, <1>5, <1>6, <1>7 DEF RegisteredOnce

\* An ID is registered again only when the P-Chain is done with it: its validation is not over
\* (NodeIsFree refuses it), or was never taken by the P-Chain before it expired (the check of the
\* expiry refuses it), or the P-Chain has removed it.
LEMMA RegisteredAgainWhenRemoved ==
  ASSUME ManagerInv, NEW id \in DOMAIN validationPeriods, InitializeRegistration(id)
  PROVE  id \in DOMAIN pChain /\ pChain[id] = "removed"
<1>1. /\ id.expiry \in Nat /\ now \in Nat /\ id.expiry > now
      /\ id.nodeID \notin DOMAIN registeredValidators /\ initializedValidatorSet
  BY DEF ManagerInv, ManagerTypeOK, IDs, InitializeRegistration, NodeIsFree
<1>2. validationPeriods[id].status \in Statuses
  BY DEF ManagerInv, ManagerTypeOK
<1>3. validationPeriods[id].status \notin Live
  BY <1>1 DEF ManagerInv, NodesRegistered
<1>4. ~(now >= id.expiry)
  BY <1>1
<1> QED BY <1>1, <1>2, <1>3, <1>4 DEF Statuses, Live, ManagerInv, StatusesSound

\* The P-Chain has never heard of a new ID, and is done with one that is used again.
LEMMA InitializeRegistrationKeeps ==
  ASSUME ManagerInv,
         NEW node \in NodeIDs, NEW weight \in 1 .. MaxUint64, NEW expiry \in Nat,
         InitializeRegistration(ValidationID(node, weight, expiry))
  PROVE  ManagerInv'
<1> DEFINE id == ValidationID(node, weight, expiry)
<1>1. ManagerCore'
  BY InitializeRegistrationKeepsCore DEF ManagerInv, ManagerCore
<1> HIDE DEF id
<1>2. InitializeRegistration(id)
  BY DEF id
<1>3. /\ DOMAIN validationPeriods' = DOMAIN validationPeriods \cup {id}
      /\ validationPeriods'[id].status = "PendingAdded"
      /\ \A other \in DOMAIN validationPeriods \ {id} :
           validationPeriods'[other] = validationPeriods[other]
  BY <1>2, InitializeRegistrationFrame
<1>4. /\ \A other \in DOMAIN validationPeriods \ {id} : history'[other] = history[other]
      /\ id \notin DOMAIN validationPeriods => RegisteredOnce(id)'
      /\ id \in DOMAIN validationPeriods => ~RegisteredOnce(id)'
  BY <1>2, RegistrationIsCounted DEF ManagerInv
<1>5. id \in DOMAIN validationPeriods => id \in DOMAIN pChain /\ pChain[id] = "removed"
  BY <1>2, RegisteredAgainWhenRemoved
<1>6. /\ now' = now /\ initializedValidatorSet /\ pChain' = pChain
      /\ toPChain' = toPChain \cup {RegisterMessage(id)}
  BY <1>2 DEF InitializeRegistration
<1>7. \A other \in DOMAIN validationPeriods \ {id} : RegisteredOnce(other)' <=> RegisteredOnce(other)
  BY <1>4 DEF RegisteredOnce
<1>8. MessagesSound'
  <2>1. ASSUME NEW message \in toPChain'
        PROVE  /\ message.id \in DOMAIN validationPeriods'
               /\ message.kind = "weight" /\ RegisteredOnce(message.id)' =>
                    Status(message.id)' \in {"PendingRemoved", "Completed"}
    <3>1. CASE message = RegisterMessage(id)
      BY <3>1, <1>3 DEF RegisterMessage
    <3>2. CASE message \in toPChain /\ message.id = id
      BY <3>2, <1>3, <1>4 DEF ManagerInv, MessagesSound
    <3>3. CASE message \in toPChain /\ message.id # id
      BY <3>3, <1>3, <1>7 DEF ManagerInv, MessagesSound, Status
    <3> QED BY <3>1, <3>2, <3>3, <1>6
  <2> QED BY <2>1 DEF MessagesSound
<1>9. StatusesSound'
  <2>1. id \notin DOMAIN validationPeriods => id \notin DOMAIN pChain
    BY <1>6 DEF ManagerInv, StatusesSound
  <2> QED BY <2>1, <1>3, <1>4, <1>5, <1>6, <1>7 DEF ManagerInv, StatusesSound
<1> QED BY <1>1, <1>8, <1>9 DEF ManagerInv, ManagerCore

\* The registered nodes are those of the validations that go on.
LEMMA NodesStayRegistered ==
  ASSUME ManagerTypeOK, NodesRegistered, UNCHANGED registeredValidators,
         DOMAIN validationPeriods' = DOMAIN validationPeriods,
         \A id \in DOMAIN validationPeriods :
           /\ validationPeriods'[id].nodeID = validationPeriods[id].nodeID
           /\ validationPeriods'[id].status \in Live <=> validationPeriods[id].status \in Live
  PROVE  NodesRegistered'
<1>1. ASSUME NEW node \in DOMAIN registeredValidators
      PROVE  /\ registeredValidators[node] \in DOMAIN validationPeriods
             /\ validationPeriods[registeredValidators[node]].status \in Live
             /\ registeredValidators[node].nodeID = node
  BY DEF ManagerTypeOK, NodesRegistered, Status
<1>2. \A node \in DOMAIN registeredValidators :
        /\ validationPeriods'[registeredValidators[node]].status \in Live
        /\ registeredValidators[node] \in DOMAIN validationPeriods'
  BY <1>1
<1>3. ASSUME NEW id \in DOMAIN validationPeriods
      PROVE  /\ validationPeriods'[id].nodeID = id.nodeID
             /\ validationPeriods'[id].status \in Live =>
                  id.nodeID \in DOMAIN registeredValidators /\ registeredValidators[id.nodeID] = id
  BY DEF NodesRegistered
<1> HIDE DEF Live
<1> QED BY <1>1, <1>2, <1>3 DEF NodesRegistered, Status

\* A registration is confirmed once (completeValidatorRegistration).
LEMMA CompleteValidatorRegistrationFrame ==
  ASSUME ManagerTypeOK, NEW id \in DOMAIN validationPeriods, CompleteValidatorRegistration(id)
  PROVE  /\ DOMAIN validationPeriods' = DOMAIN validationPeriods
         /\ validationPeriods' \in [DOMAIN validationPeriods -> Validation]
         /\ \A other \in DOMAIN validationPeriods \ {id} :
              validationPeriods'[other] = validationPeriods[other]
         /\ validationPeriods[id].status = "PendingAdded"
         /\ validationPeriods'[id] =
              [validationPeriods[id] EXCEPT !.status = "Active", !.startedAt = now]
         /\ validationPeriods'[id].status = "Active" /\ validationPeriods'[id].startedAt = now
         /\ validationPeriods'[id].nodeID = validationPeriods[id].nodeID
<1>1. validationPeriods \in [DOMAIN validationPeriods -> Validation] /\ now \in Nat
  BY DEF ManagerTypeOK, Validation
<1> QED BY <1>1 DEF CompleteValidatorRegistration, Status, Validation, Statuses

\* A confirmation leaves the node with its validation.
LEMMA CompleteValidatorRegistrationKeepsCore ==
  ASSUME ManagerCore, NEW id \in DOMAIN validationPeriods, CompleteValidatorRegistration(id)
  PROVE  ManagerCore'
<1>1. ManagerTypeOK
  BY DEF ManagerCore
<1>2. UNCHANGED <<now, initializedValidatorSet, registeredValidators, churnTracker, toPChain, pChain,
                 history>>
  BY DEF CompleteValidatorRegistration
<1>3. ManagerTypeOK'
  BY <1>1, <1>2, CompleteValidatorRegistrationFrame
  DEF CompleteValidatorRegistration, ManagerTypeOK, Validation
<1>4. NodesRegistered'
  <2>1. /\ DOMAIN validationPeriods' = DOMAIN validationPeriods
        /\ \A other \in DOMAIN validationPeriods \ {id} :
             validationPeriods'[other] = validationPeriods[other]
        /\ validationPeriods[id].status = "PendingAdded"
        /\ validationPeriods'[id].status = "Active"
        /\ validationPeriods'[id].nodeID = validationPeriods[id].nodeID
    BY <1>1, CompleteValidatorRegistrationFrame
  <2> QED BY <1>1, <1>2, <2>1, NodesStayRegistered DEF ManagerCore, Live
<1>5. NothingBefore'
  BY <1>2 DEF ManagerCore, NothingBefore
<1> QED BY <1>1, <1>3, <1>4, <1>5, CompleteValidatorRegistrationFrame DEF ManagerCore

\* A confirmed validation is one the P-Chain has.
LEMMA CompleteValidatorRegistrationKeeps ==
  ASSUME ManagerInv, NEW id \in DOMAIN validationPeriods, CompleteValidatorRegistration(id)
  PROVE  ManagerInv'
<1>1. /\ ManagerTypeOK /\ now \in Nat /\ DOMAIN validationPeriods \subseteq IDs
      /\ validationPeriods \in [DOMAIN validationPeriods -> Validation]
  BY DEF ManagerInv, ManagerTypeOK, Validation
<1>2. /\ DOMAIN validationPeriods' = DOMAIN validationPeriods
      /\ \A other \in DOMAIN validationPeriods \ {id} :
           validationPeriods'[other] = validationPeriods[other]
      /\ validationPeriods[id].status = "PendingAdded"
      /\ validationPeriods'[id].status = "Active" /\ validationPeriods'[id].startedAt = now
  BY <1>1, CompleteValidatorRegistrationFrame
<1>3. initializedValidatorSet
  BY DEF ManagerInv, NothingBefore
<1>4. RegisteredOnce(id) => id \in DOMAIN pChain /\ pChain[id] = "validating"
  BY <1>2, <1>3
  DEF CompleteValidatorRegistration, PChainConfirms, PChainSigns, ManagerInv, StatusesSound
<1>5. UNCHANGED <<now, initializedValidatorSet, toPChain, pChain, history>>
  BY DEF CompleteValidatorRegistration
<1>6. MessagesSound'
  BY <1>2, <1>5 DEF ManagerInv, MessagesSound, Status, RegisteredOnce
<1>7. StatusesSound'
  BY <1>2, <1>3, <1>4, <1>5 DEF ManagerInv, StatusesSound, RegisteredOnce
<1> QED BY <1>6, <1>7, CompleteValidatorRegistrationKeepsCore DEF ManagerInv, ManagerCore

\* A validation is asked to end once, and goes on to count as one of its node
\* (_initializeEndValidation).
LEMMA InitializeEndValidationFrame ==
  ASSUME ManagerTypeOK, NEW id \in DOMAIN validationPeriods, NEW endedAt \in Nat,
         InitializeEndValidation(id, endedAt)
  PROVE  /\ DOMAIN validationPeriods' = DOMAIN validationPeriods
         /\ validationPeriods' \in [DOMAIN validationPeriods -> Validation]
         /\ \A other \in DOMAIN validationPeriods \ {id} :
              validationPeriods'[other] = validationPeriods[other]
         /\ validationPeriods[id].status = "Active"
         /\ validationPeriods'[id].status = "PendingRemoved"
         /\ validationPeriods'[id].endedAt = endedAt
         /\ validationPeriods'[id].nodeID = validationPeriods[id].nodeID
         /\ validationPeriods'[id].startedAt = validationPeriods[id].startedAt
         /\ validationPeriods'[id].startingWeight = validationPeriods[id].startingWeight
         /\ \A other \in DOMAIN validationPeriods : SameStake(other)
<1>1. validationPeriods \in [DOMAIN validationPeriods -> Validation]
  BY DEF ManagerTypeOK, Validation
<1>2. /\ DOMAIN validationPeriods' = DOMAIN validationPeriods
      /\ validationPeriods' \in [DOMAIN validationPeriods -> Validation]
      /\ \A other \in DOMAIN validationPeriods \ {id} :
           validationPeriods'[other] = validationPeriods[other]
  BY <1>1, WeightAssumption DEF InitializeEndValidation, Validation, Statuses
<1>3. /\ validationPeriods[id].status = "Active"
      /\ validationPeriods'[id].status = "PendingRemoved"
      /\ validationPeriods'[id].endedAt = endedAt
      /\ validationPeriods'[id].nodeID = validationPeriods[id].nodeID
      /\ validationPeriods'[id].startedAt = validationPeriods[id].startedAt
      /\ validationPeriods'[id].startingWeight = validationPeriods[id].startingWeight
  BY <1>1 DEF InitializeEndValidation, Status, Validation
<1>4. \A other \in DOMAIN validationPeriods : SameStake(other)
  BY <1>2, <1>3 DEF SameStake, Live
<1> QED BY <1>2, <1>3, <1>4

\* The node stays registered until the end is acknowledged.
LEMMA InitializeEndValidationKeepsCore ==
  ASSUME ManagerCore, NEW id \in DOMAIN validationPeriods, NEW endedAt \in Nat,
         InitializeEndValidation(id, endedAt)
  PROVE  ManagerCore'
<1> DEFINE nonce == validationPeriods[id].messageNonce + 1
<1>1. ManagerTypeOK /\ validationPeriods \in [DOMAIN validationPeriods -> Validation]
  BY DEF ManagerCore, ManagerTypeOK, Validation
<1>2. /\ UNCHANGED <<now, initializedValidatorSet, registeredValidators,
                     pendingRegisterValidationMessages, pChain, history>>
      /\ toPChain' = toPChain \cup {WeightMessage(id, nonce)}
      /\ CheckAndUpdateChurnTracker(0, validationPeriods[id].weight)
  BY DEF InitializeEndValidation
<1> HIDE DEF nonce
<1>3. ManagerTypeOK'
  <2>1. churnTracker' \in [startedAt : Nat, initialWeight : 0 .. MaxUint64,
                           totalWeight : 0 .. MaxUint64, churnAmount : Nat]
    BY <1>1, <1>2, ChurnTrackerType, WeightAssumption DEF Validation
  <2> QED BY <1>1, <1>2, <2>1, InitializeEndValidationFrame DEF ManagerTypeOK, Validation
<1>4. NodesRegistered'
  <2>1. /\ DOMAIN validationPeriods' = DOMAIN validationPeriods
        /\ \A other \in DOMAIN validationPeriods \ {id} :
             validationPeriods'[other] = validationPeriods[other]
        /\ validationPeriods[id].status = "Active"
        /\ validationPeriods'[id].status = "PendingRemoved"
        /\ validationPeriods'[id].nodeID = validationPeriods[id].nodeID
    BY <1>1, InitializeEndValidationFrame
  <2> QED BY <1>1, <1>2, <2>1, NodesStayRegistered DEF ManagerCore, Live
<1>5. NothingBefore'
  BY <1>2 DEF ManagerCore, NothingBefore
<1> QED BY <1>1, <1>3, <1>4, <1>5, InitializeEndValidationFrame DEF ManagerCore

\* The P-Chain has what is asked to end, or had it when the ID was used first.
LEMMA InitializeEndValidationKeeps ==
  ASSUME ManagerInv, NEW id \in DOMAIN validationPeriods, NEW endedAt \in Nat,
         InitializeEndValidation(id, endedAt)
  PROVE  ManagerInv'
<1> DEFINE nonce == validationPeriods[id].messageNonce + 1
<1>1. ManagerTypeOK
  BY DEF ManagerInv
<1>2. /\ DOMAIN validationPeriods' = DOMAIN validationPeriods
      /\ \A other \in DOMAIN validationPeriods \ {id} :
           validationPeriods'[other] = validationPeriods[other]
      /\ validationPeriods[id].status = "Active"
      /\ validationPeriods'[id].status = "PendingRemoved"
  BY <1>1, InitializeEndValidationFrame
<1>3. initializedValidatorSet
  BY DEF ManagerInv, NothingBefore
<1>4. id \in DOMAIN pChain
  BY <1>2, <1>3 DEF ManagerInv, StatusesSound
<1>5. /\ UNCHANGED <<now, initializedValidatorSet, pChain, history>>
      /\ toPChain' = toPChain \cup {WeightMessage(id, nonce)}
  BY DEF InitializeEndValidation
<1> HIDE DEF nonce
<1>6. MessagesSound'
  BY <1>2, <1>5 DEF ManagerInv, MessagesSound, Status, WeightMessage, RegisteredOnce
<1>7. StatusesSound'
  BY <1>2, <1>3, <1>4, <1>5 DEF ManagerInv, StatusesSound, RegisteredOnce
<1> QED BY <1>6, <1>7, InitializeEndValidationKeepsCore DEF ManagerInv, ManagerCore

\* The acknowledgment of its end ends a validation and no other (_completeEndValidation).
LEMMA CompleteEndFrame ==
  ASSUME ManagerTypeOK, NEW id \in DOMAIN validationPeriods, CompleteEnd(id)
  PROVE  /\ DOMAIN validationPeriods' = DOMAIN validationPeriods
         /\ validationPeriods' \in [DOMAIN validationPeriods -> Validation]
         /\ \A other \in DOMAIN validationPeriods \ {id} :
              validationPeriods'[other] = validationPeriods[other] /\ SameStake(other)
         /\ \/ /\ validationPeriods[id].status = "PendingAdded"
               /\ validationPeriods'[id].status = "Invalidated"
            \/ /\ validationPeriods[id].status = "PendingRemoved"
               /\ validationPeriods'[id].status = "Completed"
         /\ validationPeriods'[id].status = EndStatus(id)
         /\ validationPeriods[id].status \in Live
         /\ validationPeriods'[id].nodeID = validationPeriods[id].nodeID
         /\ validationPeriods'[id].startedAt = validationPeriods[id].startedAt
         /\ validationPeriods'[id].endedAt = validationPeriods[id].endedAt
         /\ validationPeriods'[id].startingWeight = validationPeriods[id].startingWeight
<1>1. validationPeriods \in [DOMAIN validationPeriods -> Validation]
  BY DEF ManagerTypeOK, Validation
<1>2. /\ DOMAIN validationPeriods' = DOMAIN validationPeriods
      /\ validationPeriods' \in [DOMAIN validationPeriods -> Validation]
      /\ \A other \in DOMAIN validationPeriods \ {id} :
           validationPeriods'[other] = validationPeriods[other]
      /\ validationPeriods'[id] = [validationPeriods[id] EXCEPT !.status = EndStatus(id)]
  BY <1>1 DEF CompleteEnd, EndStatus, Validation, Statuses
<1>3. \/ validationPeriods[id].status = "PendingAdded" /\ EndStatus(id) = "Invalidated"
      \/ validationPeriods[id].status = "PendingRemoved" /\ EndStatus(id) = "Completed"
  BY DEF CompleteEnd, Endable, EndStatus, Status
<1> QED BY <1>1, <1>2, <1>3 DEF SameStake, Live, Validation

\* An invalidated validation is one more of its ID.
LEMMA CompleteEndIsCounted ==
  ASSUME ManagerTypeOK, NEW id \in DOMAIN validationPeriods, CompleteEnd(id)
  PROVE  /\ history' \in [DOMAIN validationPeriods -> EventCounts]
         /\ \A other \in DOMAIN validationPeriods : RegisteredOnce(other)' <=> RegisteredOnce(other)
         /\ \A other \in DOMAIN validationPeriods \ {id} : history'[other] = history[other]
         /\ history'[id].invalidated =
              history[id].invalidated + IF EndStatus(id) = "Invalidated" THEN 1 ELSE 0
<1>1. history \in [DOMAIN validationPeriods -> EventCounts]
  BY DEF ManagerTypeOK, EventCounts
<1>2. history' = IF EndStatus(id) = "Invalidated"
                 THEN [history EXCEPT ![id].invalidated = @ + 1] ELSE history
  BY DEF CompleteEnd
<1> QED BY <1>1, <1>2 DEF RegisteredOnce, EventCounts

\* An acknowledged end frees the node.
LEMMA CompleteEndKeepsCore ==
  ASSUME ManagerCore, NEW id \in DOMAIN validationPeriods, CompleteEnd(id)
  PROVE  ManagerCore'
<1>1. /\ ManagerTypeOK
      /\ registeredValidators \in [DOMAIN registeredValidators -> DOMAIN validationPeriods]
  BY DEF ManagerCore, ManagerTypeOK
<1>2. /\ DOMAIN validationPeriods' = DOMAIN validationPeriods
      /\ validationPeriods' \in [DOMAIN validationPeriods -> Validation]
      /\ \A other \in DOMAIN validationPeriods \ {id} :
           validationPeriods'[other] = validationPeriods[other]
      /\ validationPeriods[id].status \in Live
      /\ validationPeriods'[id].status \in {"Completed", "Invalidated"}
      /\ validationPeriods'[id].nodeID = validationPeriods[id].nodeID
  BY <1>1, CompleteEndFrame
<1>3. /\ validationPeriods[id].nodeID = id.nodeID
      /\ id.nodeID \in DOMAIN registeredValidators
      /\ registeredValidators[id.nodeID] = id
  BY <1>2 DEF ManagerCore, NodesRegistered
<1>4. /\ UNCHANGED <<now, initializedValidatorSet, pendingRegisterValidationMessages, churnTracker,
                     toPChain, pChain>>
      /\ registeredValidators' =
           [node \in DOMAIN registeredValidators \ {id.nodeID} |-> registeredValidators[node]]
  BY <1>3 DEF CompleteEnd, Without, Restrict
<1>5. ManagerTypeOK'
  <2>1. registeredValidators' \in [DOMAIN registeredValidators' -> DOMAIN validationPeriods']
    BY <1>1, <1>2, <1>4
  <2> QED BY <1>1, <1>2, <1>4, <2>1, CompleteEndIsCounted DEF ManagerTypeOK, Validation, EventCounts
<1>6. NodesRegistered'
  <2>1. ASSUME NEW node \in DOMAIN registeredValidators'
        PROVE  /\ Status(registeredValidators[node])' \in Live
               /\ registeredValidators'[node].nodeID = node
    <3>1. /\ node \in DOMAIN registeredValidators /\ node # id.nodeID
          /\ registeredValidators'[node] = registeredValidators[node]
      BY <2>1, <1>4
    <3>2. registeredValidators[node] # id
      BY <3>1 DEF ManagerCore, NodesRegistered
    <3> QED BY <3>1, <3>2, <1>1, <1>2 DEF ManagerCore, NodesRegistered, Status
  <2>2. ASSUME NEW other \in DOMAIN validationPeriods'
        PROVE  /\ validationPeriods'[other].nodeID = other.nodeID
               /\ validationPeriods'[other].status \in Live =>
                    /\ other.nodeID \in DOMAIN registeredValidators'
                    /\ registeredValidators'[other.nodeID] = other
    BY <2>2, <1>2, <1>3, <1>4 DEF ManagerCore, NodesRegistered, Live
  <2> QED BY <2>1, <2>2 DEF NodesRegistered
<1>7. NothingBefore'
  BY <1>4 DEF ManagerCore, NothingBefore
<1> QED BY <1>2, <1>5, <1>6, <1>7 DEF ManagerCore

\* A validation that never began is invalidated only when the P-Chain can no longer take it.
LEMMA CompleteEndKeeps ==
  ASSUME ManagerInv, NEW id \in DOMAIN validationPeriods, CompleteEnd(id)
  PROVE  ManagerInv'
<1> DEFINE status == validationPeriods[id].status
<1>1. ManagerTypeOK
  BY DEF ManagerInv
<1>2. /\ DOMAIN validationPeriods' = DOMAIN validationPeriods
      /\ \A other \in DOMAIN validationPeriods \ {id} :
           validationPeriods'[other] = validationPeriods[other]
      /\ \/ status = "PendingAdded" /\ validationPeriods'[id].status = "Invalidated"
         \/ status = "PendingRemoved" /\ validationPeriods'[id].status = "Completed"
  BY <1>1, CompleteEndFrame
<1>3. initializedValidatorSet
  BY DEF ManagerInv, NothingBefore
<1>4. RegisteredOnce(id) =>
        /\ status = "PendingRemoved" => id \in DOMAIN pChain /\ pChain[id] = "removed"
        /\ status = "PendingAdded" => id \notin DOMAIN pChain /\ now >= id.expiry
  BY <1>3 DEF CompleteEnd, PChainSigns, ManagerInv, StatusesSound
<1>5. /\ UNCHANGED <<now, initializedValidatorSet, toPChain, pChain>>
      /\ \A other \in DOMAIN validationPeriods : RegisteredOnce(other)' <=> RegisteredOnce(other)
  BY <1>1, CompleteEndIsCounted DEF CompleteEnd
<1>6. MessagesSound'
  BY <1>2, <1>5 DEF ManagerInv, MessagesSound, Status
<1>7. StatusesSound'
  BY <1>2, <1>3, <1>4, <1>5 DEF ManagerInv, StatusesSound
<1> QED BY <1>6, <1>7, CompleteEndKeepsCore DEF ManagerInv, ManagerCore

\* What is left of the manager's steps: messages that are sent again or lost, the P-Chain's own steps
\* and the passing of time (resendRegisterValidatorMessage, resendEndValidatorMessage).
LEMMA ManagerStepFrame ==
  ASSUME ManagerCore, ManagerStep
  PROVE  /\ now' \in Nat /\ now' >= now
         /\ \/ UNCHANGED validationPeriods
            \/ now' = now /\ InitializeValidatorSet /\ DOMAIN validationPeriods = {}
            \/ /\ now' = now
               /\ \E id \in DOMAIN validationPeriods : CompleteValidatorRegistration(id)
<1>1. now \in Nat
  BY DEF ManagerCore, ManagerTypeOK
<1>2. CASE InitializeValidatorSet
  <2>1. ~initializedValidatorSet /\ now' = now
    BY <1>2 DEF InitializeValidatorSet
  <2> QED BY <1>1, <1>2, <2>1 DEF ManagerCore, NothingBefore
<1>3. ASSUME NEW id \in DOMAIN validationPeriods, CompleteValidatorRegistration(id)
      PROVE  now' = now
  BY <1>3 DEF CompleteValidatorRegistration
<1>4. CASE UNCHANGED validationPeriods /\ now' \in {now, now + 1}
  BY <1>1, <1>4
<1> QED BY <1>1, <1>2, <1>3, <1>4
        DEF ManagerStep, ResendRegisterValidatorMessage, ResendEndValidatorMessage,
            PChainRegisters, PChainRemoves, MessageLost, Tick

\* The validations that the inheriting contracts know stay, with their weights at the start, and do
\* not end.
LEMMA ManagerStepKeepsStakes ==
  ASSUME ManagerCore, ManagerStep, NEW id \in DOMAIN validationPeriods
  PROVE  SameStake(id)
<1>1. ManagerTypeOK /\ validationPeriods \in [DOMAIN validationPeriods -> Validation]
  BY DEF ManagerCore, ManagerTypeOK, Validation
<1>2. ASSUME NEW other \in DOMAIN validationPeriods, CompleteValidatorRegistration(other)
      PROVE  SameStake(id)
  <2>1. CASE id = other
    BY <1>1, <1>2, <2>1, CompleteValidatorRegistrationFrame DEF SameStake, Live, Validation
  <2>2. CASE id # other
    BY <1>1, <1>2, <2>2, CompleteValidatorRegistrationFrame DEF SameStake
  <2> QED BY <2>1, <2>2
<1>3. CASE UNCHANGED validationPeriods
  BY <1>3 DEF SameStake
<1> QED BY <1>2, <1>3, ManagerStepFrame

\* Only messages and the P-Chain change when neither validations nor the clock do.
LEMMA ManagerStepKeepsCore ==
  ASSUME ManagerCore, ManagerStep
  PROVE  ManagerCore'
<1>1. CASE InitializeValidatorSet
  BY <1>1, InitializeValidatorSetKeepsCore
<1>2. ASSUME NEW id \in DOMAIN validationPeriods, CompleteValidatorRegistration(id)
      PROVE  ManagerCore'
  BY <1>2, CompleteValidatorRegistrationKeepsCore
<1>3. ASSUME now' \in Nat, initializedValidatorSet,
             pChain' \in [DOMAIN pChain' -> {"validating", "removed"}],
             UNCHANGED <<initializedValidatorSet, validationPeriods, registeredValidators,
                         pendingRegisterValidationMessages, churnTracker, history>>
      PROVE  ManagerCore'
  BY <1>3 DEF ManagerCore, ManagerTypeOK, NodesRegistered, NothingBefore, Status
<1>4. /\ now \in Nat /\ pChain \in [DOMAIN pChain -> {"validating", "removed"}]
      /\ DOMAIN validationPeriods # {} \/ toPChain # {} => initializedValidatorSet
  BY DEF ManagerCore, ManagerTypeOK, NothingBefore
<1>5. ASSUME NEW id \in DOMAIN validationPeriods,
             \/ ResendRegisterValidatorMessage(id) \/ ResendEndValidatorMessage(id)
             \/ PChainRegisters(id) \/ PChainRemoves(id)
      PROVE  ManagerCore'
  <2>1. pChain' \in [DOMAIN pChain' -> {"validating", "removed"}]
    BY <1>4, <1>5 DEF ResendRegisterValidatorMessage, ResendEndValidatorMessage, PChainRegisters,
                      PChainRemoves, Set
  <2> QED BY <1>3, <1>4, <1>5, <2>1 DEF ResendRegisterValidatorMessage, ResendEndValidatorMessage,
                      PChainRegisters, PChainRemoves
<1>6. ASSUME NEW message \in toPChain, MessageLost(message)
      PROVE  ManagerCore'
  BY <1>3, <1>4, <1>6 DEF MessageLost
<1>7. CASE Tick
  BY <1>4, <1>7 DEF Tick, ManagerCore, ManagerTypeOK, NodesRegistered, NothingBefore, Status
<1> QED BY <1>1, <1>2, <1>5, <1>6, <1>7 DEF ManagerStep

\* The P-Chain takes a registration of a validation that waits for it, and a removal of one that is
\* being ended.
LEMMA ManagerStepKeeps ==
  ASSUME ManagerInv, ManagerStep
  PROVE  ManagerInv'
<1>0. ManagerCore'
  BY ManagerStepKeepsCore DEF ManagerInv, ManagerCore
<1>1. CASE InitializeValidatorSet
  BY <1>1, InitializeValidatorSetKeeps
<1>2. ASSUME NEW id \in DOMAIN validationPeriods, ResendRegisterValidatorMessage(id)
      PROVE  ManagerInv'
  BY <1>0, <1>2 DEF ResendRegisterValidatorMessage, ManagerInv, ManagerCore, MessagesSound,
                    StatusesSound, RegisterMessage, Status, RegisteredOnce
<1>3. ASSUME NEW id \in DOMAIN validationPeriods, CompleteValidatorRegistration(id)
      PROVE  ManagerInv'
  BY <1>3, CompleteValidatorRegistrationKeeps
<1>4. ASSUME NEW id \in DOMAIN validationPeriods, ResendEndValidatorMessage(id)
      PROVE  ManagerInv'
  BY <1>0, <1>4 DEF ResendEndValidatorMessage, ManagerInv, ManagerCore, MessagesSound,
                    StatusesSound, WeightMessage, Status, RegisteredOnce
<1>5. ASSUME NEW id \in DOMAIN validationPeriods, PChainRegisters(id)
      PROVE  ManagerInv'
  <2>1. initializedValidatorSet
    BY DEF ManagerInv, NothingBefore
  <2>2. /\ DOMAIN pChain' = DOMAIN pChain \cup {id} /\ pChain'[id] = "validating"
        /\ \A other \in DOMAIN pChain : pChain'[other] = pChain[other]
        /\ id \notin DOMAIN pChain
        /\ UNCHANGED <<now, initializedValidatorSet, validationPeriods, toPChain, history>>
    BY <1>5 DEF PChainRegisters, Set
  <2>3. validationPeriods[id].status = "PendingAdded" /\ RegisteredOnce(id)
    <3>1. now \in Nat /\ id.expiry \in Nat /\ ~(now >= id.expiry)
      BY <1>5 DEF PChainRegisters, ManagerInv, ManagerTypeOK, IDs
    <3>2. validationPeriods[id].status \in Statuses
      BY DEF ManagerInv, ManagerTypeOK
    <3> QED BY <3>1, <3>2, <2>1, <2>2 DEF Statuses, ManagerInv, StatusesSound
  <2>4. MessagesSound'
    BY <2>2 DEF ManagerInv, MessagesSound, Status, RegisteredOnce
  <2>5. StatusesSound'
    BY <2>1, <2>2, <2>3 DEF ManagerInv, StatusesSound, RegisteredOnce
  <2> QED BY <1>0, <2>4, <2>5 DEF ManagerInv, ManagerCore
<1>6. ASSUME NEW id \in DOMAIN validationPeriods, PChainRemoves(id)
      PROVE  ManagerInv'
  <2>1. initializedValidatorSet
    BY DEF ManagerInv, NothingBefore
  <2>2. /\ DOMAIN pChain' = DOMAIN pChain /\ pChain'[id] = "removed"
        /\ \A other \in DOMAIN pChain \ {id} : pChain'[other] = pChain[other]
        /\ id \in DOMAIN pChain /\ pChain[id] = "validating"
        /\ UNCHANGED <<now, initializedValidatorSet, validationPeriods, toPChain, history>>
    BY <1>6 DEF PChainRemoves, ManagerInv, ManagerTypeOK
  <2>3. RegisteredOnce(id)
    BY <2>1, <2>2 DEF ManagerInv, StatusesSound
  <2>4. validationPeriods[id].status \in {"PendingRemoved", "Completed"}
    BY <1>6, <2>3 DEF PChainRemoves, ManagerInv, MessagesSound, Status
  <2>5. MessagesSound'
    BY <2>2 DEF ManagerInv, MessagesSound, Status, RegisteredOnce
  <2>6. StatusesSound'
    BY <2>1, <2>2, <2>4 DEF ManagerInv, StatusesSound, RegisteredOnce
  <2> QED BY <1>0, <2>5, <2>6 DEF ManagerInv, ManagerCore
<1>7. ASSUME NEW message \in toPChain, MessageLost(message)
      PROVE  ManagerInv'
  BY <1>0, <1>7 DEF MessageLost, ManagerInv, ManagerCore, MessagesSound, StatusesSound, Status,
                    RegisteredOnce
<1>8. CASE Tick
  <2>1. /\ now \in Nat /\ now' = now + 1 /\ \A id \in DOMAIN validationPeriods : id.expiry \in Nat
        /\ UNCHANGED <<initializedValidatorSet, validationPeriods, toPChain, pChain, history>>
    BY <1>8 DEF Tick, ManagerInv, ManagerTypeOK, IDs
  <2>2. MessagesSound'
    BY <2>1 DEF ManagerInv, MessagesSound, Status, RegisteredOnce
  <2>3. \A id \in DOMAIN validationPeriods : now >= id.expiry => now' >= id.expiry
    BY <2>1
  <2>4. StatusesSound'
    BY <2>1, <2>3 DEF ManagerInv, StatusesSound, RegisteredOnce
  <2> QED BY <1>0, <2>2, <2>4 DEF ManagerInv, ManagerCore
<1> QED BY <1>1, <1>2, <1>3, <1>4, <1>5, <1>6, <1>7, <1>8 DEF ManagerStep

\* A step that leaves the variables of the manager alone.
LEMMA ManagerUnchangedKeeps ==
  ASSUME UNCHANGED managerVars
  PROVE  /\ ManagerCore => ManagerCore'
         /\ ManagerInv => ManagerInv'
BY DEF managerVars, ManagerCore, ManagerInv, ManagerTypeOK, NodesRegistered, NothingBefore,
       MessagesSound, StatusesSound, Status, RegisteredOnce

\* The first state: nothing is registered.
LEMMA ManagerInitially ==
  ASSUME ManagerInit
  PROVE  ManagerCore /\ ManagerInv
<1>1. churnTracker \in [startedAt : Nat, initialWeight : 0 .. MaxUint64,
                        totalWeight : 0 .. MaxUint64, churnAmount : Nat]
  BY WeightAssumption DEF ManagerInit
<1>2. pChain \in [DOMAIN pChain -> {"validating", "removed"}]
  BY DEF ManagerInit
<1>3. /\ DOMAIN validationPeriods = {} /\ DOMAIN registeredValidators = {}
      /\ validationPeriods = [id \in {} |-> validationPeriods[id]]
      /\ registeredValidators = [node \in {} |-> registeredValidators[node]]
      /\ history \in [{} -> [created : Nat \ {0}, invalidated : Nat]]
  BY DEF ManagerInit, Empty
<1>4. now \in Nat /\ initializedValidatorSet \in BOOLEAN
      /\ pendingRegisterValidationMessages = {}
  BY DEF ManagerInit
<1>5. ManagerTypeOK
  BY <1>1, <1>2, <1>3, <1>4 DEF ManagerTypeOK
<1>6. ManagerCore
  BY <1>3, <1>5, FS_EmptySet DEF ManagerInit, ManagerCore, NodesRegistered, NothingBefore, Empty
<1>7. MessagesSound /\ StatusesSound
  BY <1>3 DEF ManagerInit, MessagesSound, StatusesSound
<1> QED BY <1>6, <1>7 DEF ManagerCore, ManagerInv

\* A node has one validation that has not ended (_registeredValidators).
LEMMA NodesAreUnique ==
  ASSUME ManagerCore
  PROVE  OneValidationPerNode
<1>1. \A node \in DOMAIN registeredValidators :
         /\ registeredValidators[node] \in DOMAIN validationPeriods
         /\ registeredValidators[node].nodeID = node
         /\ validationPeriods[registeredValidators[node]].status \in Live
  BY DEF ManagerCore, ManagerTypeOK, NodesRegistered, Status
<1>2. \A id \in Validations(Live) :
         \E node \in DOMAIN registeredValidators : registeredValidators[node] = id
  BY DEF ManagerCore, NodesRegistered, Validations
<1>3. Range(registeredValidators) = Validations(Live)
  BY <1>1, <1>2 DEF Range, Validations
<1> QED BY <1>1, <1>3 DEF OneValidationPerNode

----------------------------------------------------------------------------
(* The weights, and what each of the operations does to their sum         *)

\* The statuses of the validations that may be on the P-Chain with a weight.
Weighing == {"PendingAdded", "Active"}

WeightOf == [id \in Validations(Weighing) |-> validationPeriods[id].weight]

Weight == Total(WeightOf, Validations(Weighing))

\* The weight that registrations which were invalidated leave in the total.
LostOf == [id \in DOMAIN history |-> id.weight * history[id].invalidated]

Lost == Total(LostOf, DOMAIN history)

\* The total is accounted for; a registration that may be invalidated weighs what its ID says.
WeightsAccounted ==
  /\ TotalWeight = Weight + Lost
  /\ \A id \in DOMAIN validationPeriods :
       validationPeriods[id].status = "PendingAdded" => validationPeriods[id].weight = id.weight

\* The validations are finitely many, each with a natural weight.
LEMMA WeightsType ==
  ASSUME ManagerCore
  PROVE  /\ TotalWeight \in Nat /\ Weight \in Nat /\ Lost \in Nat
         /\ IsFiniteSet(Validations(Weighing))
         /\ \A id \in Validations(Weighing) : WeightOf[id] \in Nat
         /\ \A id \in DOMAIN validationPeriods :
              validationPeriods[id] \in Validation /\ validationPeriods[id].weight \in Nat
         /\ DOMAIN history = DOMAIN validationPeriods /\ IsFiniteSet(DOMAIN history)
         /\ \A id \in DOMAIN history : /\ id.weight \in Nat /\ LostOf[id] \in Nat
                                       /\ history[id].invalidated \in Nat
<1>1. Validations(Weighing) \subseteq DOMAIN validationPeriods
  BY DEF Validations
<1>2. IsFiniteSet(Validations(Weighing))
  BY <1>1, FS_Subset DEF ManagerCore
<1>3. \A id \in DOMAIN validationPeriods : validationPeriods[id] \in Validation
  BY DEF ManagerCore, ManagerTypeOK, Validation
<1>4. \A v \in Validation : v.weight \in Nat
  BY WeightAssumption DEF Validation
<1>5. \A id \in Validations(Weighing) : WeightOf[id] \in Nat
  BY <1>1, <1>3, <1>4 DEF WeightOf
<1>6. Weight \in Nat
  BY <1>2, <1>5, TotalType DEF Weight
<1>7. TotalWeight \in Nat
  BY WeightAssumption DEF ManagerCore, ManagerTypeOK, TotalWeight
<1>8. DOMAIN history = DOMAIN validationPeriods /\ IsFiniteSet(DOMAIN history)
  BY DEF ManagerCore, ManagerTypeOK
<1>9. \A id \in DOMAIN history : id.weight \in Nat /\ history[id].invalidated \in Nat
  BY <1>8, WeightAssumption DEF ManagerCore, ManagerTypeOK, IDs
<1>10. \A id \in DOMAIN history : LostOf[id] \in Nat
  BY <1>9 DEF LostOf
<1>11. Lost \in Nat
  BY <1>8, <1>10, TotalType DEF Lost
<1> QED BY <1>2, <1>3, <1>4, <1>5, <1>6, <1>7, <1>8, <1>9, <1>10, <1>11

\* The sum is kept while the same validations weigh the same.
LEMMA WeightKept ==
  ASSUME DOMAIN validationPeriods' = DOMAIN validationPeriods,
         \A id \in DOMAIN validationPeriods :
           /\ validationPeriods'[id].status \in Weighing <=> validationPeriods[id].status \in Weighing
           /\ validationPeriods[id].status \in Weighing =>
                validationPeriods'[id].weight = validationPeriods[id].weight
  PROVE  Weight' = Weight
<1>1. Validations(Weighing)' = Validations(Weighing)
  BY DEF Validations
<1>2. \A id \in Validations(Weighing) : WeightOf'[id] = WeightOf[id]
  BY <1>1 DEF WeightOf, Validations
<1>3. Total(WeightOf', Validations(Weighing)) = Total(WeightOf, Validations(Weighing))
  BY <1>2, TotalSame
<1> QED BY <1>1, <1>3 DEF Weight

\* The weights of the converted subnet make the first total (initializeValidatorSet).
LEMMA InitializeValidatorSetWeighs ==
  ASSUME ManagerCore, InitializeValidatorSet
  PROVE  WeightsAccounted'
<1> DEFINE initial == [id \in InitialIDs |-> id.weight]
<1>1. /\ DOMAIN validationPeriods' = InitialIDs
      /\ \A id \in InitialIDs : /\ validationPeriods'[id].status = "Active"
                                /\ validationPeriods'[id].weight = id.weight
      /\ churnTracker' = [churnTracker EXCEPT !.totalWeight = Total(initial, InitialIDs)]
      /\ \A id \in InitialIDs : history'[id].invalidated = 0
      /\ DOMAIN history' = InitialIDs
  BY DEF InitializeValidatorSet, InitialIDs, Range, NoEvents
<1>2. TotalWeight' = Total(initial, InitialIDs)
  <2> HIDE DEF initial
  <2> QED BY <1>1 DEF TotalWeight, ManagerCore, ManagerTypeOK
<1>3. Validations(Weighing)' = InitialIDs
  BY <1>1 DEF Validations, Weighing
<1>4. \A id \in InitialIDs : initial[id] = WeightOf'[id]
  BY <1>1, <1>3 DEF WeightOf
<1>5. Total(initial, InitialIDs) = Total(WeightOf', InitialIDs)
  <2> HIDE DEF initial
  <2> QED BY <1>4, TotalSame
<1>6. TotalWeight' = Weight'
  BY <1>2, <1>3, <1>5 DEF Weight
<1>7. ManagerCore'
  BY InitializeValidatorSetKeepsCore
<1>8. \A id \in DOMAIN history' : LostOf'[id] = 0
  <2>1. \A id \in DOMAIN history' : id.weight \in Nat /\ history'[id].invalidated = 0
    BY <1>1, <1>7, WeightAssumption DEF ManagerCore, ManagerTypeOK, IDs
  <2> QED BY <2>1 DEF LostOf
<1>9. Lost' = 0
  BY <1>8, TotalZero DEF Lost
<1>10. TotalWeight' \in Nat
  BY <1>7, WeightAssumption DEF ManagerCore, ManagerTypeOK, TotalWeight
<1> QED BY <1>1, <1>6, <1>9, <1>10 DEF WeightsAccounted

\* What is added to the total by a change of weight (_checkAndUpdateChurnTracker).
LEMMA TotalWeightAfter ==
  ASSUME NEW newWeight, NEW oldWeight, CheckAndUpdateChurnTracker(newWeight, oldWeight)
  PROVE  TotalWeight' = TotalWeight + newWeight - oldWeight
BY DEF CheckAndUpdateChurnTracker, ChurnTrackerAfter, TotalWeight

\* A registration has lost no weight that was not lost before.
LEMMA InitializeRegistrationLoses ==
  ASSUME ManagerCore, NEW id, id.weight \in Nat, InitializeRegistration(id)
  PROVE  Lost' = Lost
<1> DEFINE S == DOMAIN history
<1>1. /\ IsFiniteSet(S) /\ S = DOMAIN validationPeriods
      /\ \A other \in S : LostOf[other] \in Nat /\ history[other].invalidated \in Nat
      /\ Lost \in Nat
  BY WeightsType
<1>2. /\ history' \in [S \cup {id} -> EventCounts]
      /\ \A other \in S \ {id} : history'[other] = history[other]
      /\ history'[id].invalidated = Events(id).invalidated
  BY <1>1, RegistrationIsCounted DEF ManagerCore
<1>3. DOMAIN history' = S \cup {id}
  BY <1>2
<1>4. \A other \in S : LostOf'[other] = LostOf[other]
  BY <1>2, <1>3 DEF LostOf, Events
<1> HIDE DEF S
<1>5. CASE id \in S
  <2>1. DOMAIN history' = S
    BY <1>3, <1>5
  <2>2. Total(LostOf', S) = Total(LostOf, S)
    BY <1>4, TotalSame
  <2> QED BY <2>1, <2>2 DEF Lost, S
<1>6. CASE id \notin S
  <2>1. LostOf'[id] = 0
    <3>1. history'[id].invalidated = 0
      BY <1>2, <1>6 DEF Events, NoEvents, S
    <3> QED BY <1>3, <3>1 DEF LostOf
  <2>2. \A other \in S : LostOf[other] \in Nat /\ LostOf'[other] = LostOf[other]
    BY <1>1, <1>4
  <2>3. LostOf'[id] \in Nat
    BY <2>1
  <2>4. Total(LostOf', S \cup {id}) = Total(LostOf, S) + LostOf'[id]
    <3> DEFINE before == LostOf
               after == LostOf'
    <3>1. /\ IsFiniteSet(S) /\ id \notin S /\ after[id] \in Nat
          /\ \A other \in S : before[other] \in Nat /\ after[other] = before[other]
      BY <1>1, <1>6, <2>2, <2>3
    <3> HIDE DEF before, after
    <3>2. Total(after, S \cup {id}) = Total(before, S) + after[id]
      BY <3>1, TotalAdd, ZenonT(20)
    <3> QED BY <3>2 DEF before, after
  <2> QED BY <1>1, <1>3, <2>1, <2>4 DEF Lost, S
<1> QED BY <1>5, <1>6

\* A registration weighs at once (_initializeValidatorRegistration), also one with the ID of a
\* registration that was invalidated, whose weight the total still holds.
LEMMA InitializeRegistrationWeighs ==
  ASSUME ManagerCore, WeightsAccounted, NEW id, id.weight \in Nat, InitializeRegistration(id)
  PROVE  WeightsAccounted'
<1> DEFINE S == Validations(Weighing)
<1>1. /\ DOMAIN validationPeriods' = DOMAIN validationPeriods \cup {id}
      /\ validationPeriods'[id].status = "PendingAdded"
      /\ validationPeriods'[id].weight = id.weight
      /\ \A other \in DOMAIN validationPeriods \ {id} :
           validationPeriods'[other] = validationPeriods[other]
  BY DEF InitializeRegistration, Set
<1>2. TotalWeight' = TotalWeight + id.weight
  <2>1. TotalWeight' = TotalWeight + id.weight - 0
    BY TotalWeightAfter DEF InitializeRegistration
  <2> QED BY <2>1, WeightsType
<1>3. S' = S \cup {id}
  BY <1>1 DEF Validations, Weighing
<1>4. /\ IsFiniteSet(S) /\ Weight \in Nat /\ Lost \in Nat
      /\ \A other \in S : WeightOf[other] \in Nat
  BY WeightsType
<1>5. id \notin S
  BY DEF ManagerCore, NodesRegistered, Validations, Weighing, Live, InitializeRegistration, NodeIsFree
<1>6. WeightOf'[id] = id.weight /\ WeightOf'[id] \in Nat
  BY <1>1, <1>3 DEF WeightOf
<1>7. \A other \in S : WeightOf[other] \in Nat /\ WeightOf'[other] = WeightOf[other]
  BY <1>1, <1>3, <1>4, <1>5 DEF WeightOf, Validations
<1> HIDE DEF S
<1>8. Total(WeightOf', S \cup {id}) = Total(WeightOf, S) + WeightOf'[id]
  <2> DEFINE before == WeightOf
             after == WeightOf'
  <2>1. /\ IsFiniteSet(S) /\ id \notin S /\ after[id] \in Nat
        /\ \A other \in S : before[other] \in Nat /\ after[other] = before[other]
    BY <1>4, <1>5, <1>6, <1>7
  <2> HIDE DEF before, after
  <2>2. Total(after, S \cup {id}) = Total(before, S) + after[id]
    BY <2>1, TotalAdd, ZenonT(20)
  <2> QED BY <2>2 DEF before, after
<1>9. Weight' = Weight + id.weight
  BY <1>3, <1>6, <1>8 DEF Weight, S
<1>10. Lost' = Lost
  BY InitializeRegistrationLoses
<1>11. TotalWeight' = Weight' + Lost'
  BY <1>2, <1>4, <1>9, <1>10 DEF WeightsAccounted
<1> QED BY <1>1, <1>11 DEF WeightsAccounted

\* A validation that is asked to end weighs no more (_initializeEndValidation).
LEMMA InitializeEndValidationWeighs ==
  ASSUME ManagerCore, WeightsAccounted, NEW id \in DOMAIN validationPeriods, NEW endedAt,
         InitializeEndValidation(id, endedAt)
  PROVE  WeightsAccounted'
<1> DEFINE S == Validations(Weighing)
<1>1. \A other \in DOMAIN validationPeriods :
        validationPeriods[other] \in Validation /\ validationPeriods[other].weight \in Nat
  BY WeightsType
<1>2. /\ DOMAIN validationPeriods' = DOMAIN validationPeriods
      /\ validationPeriods[id].status = "Active"
      /\ validationPeriods'[id].status = "PendingRemoved"
      /\ \A other \in DOMAIN validationPeriods \ {id} :
           validationPeriods'[other] = validationPeriods[other]
      /\ history' = history
  BY <1>1 DEF InitializeEndValidation, Status, Validation
<1>3. TotalWeight' = TotalWeight - validationPeriods[id].weight
  <2>1. TotalWeight' = TotalWeight + 0 - validationPeriods[id].weight
    BY TotalWeightAfter DEF InitializeEndValidation
  <2> QED BY <2>1, WeightsType
<1>4. S' = S \ {id} /\ id \in S
  BY <1>2 DEF Validations, Weighing
<1>5. /\ IsFiniteSet(S) /\ \A other \in S : WeightOf[other] \in Nat
      /\ WeightOf[id] = validationPeriods[id].weight
      /\ Lost \in Nat
  BY <1>4, WeightsType DEF WeightOf
<1>6. \A other \in S \ {id} : WeightOf'[other] = WeightOf[other]
  BY <1>2, <1>4 DEF WeightOf, Validations
<1> HIDE DEF S
<1>7. /\ Total(WeightOf, S) = Total(WeightOf, S \ {id}) + WeightOf[id]
      /\ Total(WeightOf, S \ {id}) \in Nat
  BY <1>4, <1>5, TotalSplit
<1>8. Total(WeightOf', S \ {id}) = Total(WeightOf, S \ {id})
  BY <1>6, TotalSame
<1>9. Weight' = Weight - validationPeriods[id].weight /\ Weight \in Nat
  <2>1. Weight' = Total(WeightOf, S \ {id}) /\ Weight = Total(WeightOf, S)
    BY <1>4, <1>8 DEF Weight, S
  <2> QED BY <1>1, <1>5, <1>7, <2>1
<1>10. Lost' = Lost
  BY <1>2 DEF Lost, LostOf
<1> DEFINE weight == validationPeriods[id].weight
<1>11. weight \in Nat
  BY <1>1
<1> HIDE DEF weight
<1>12. TotalWeight' = Weight' + Lost'
  BY <1>3, <1>5, <1>9, <1>10, <1>11 DEF WeightsAccounted, weight
<1> QED BY <1>2, <1>12 DEF WeightsAccounted

\* A confirmed registration weighs what it weighed (completeValidatorRegistration).
LEMMA CompleteValidatorRegistrationWeighs ==
  ASSUME ManagerCore, WeightsAccounted, NEW id \in DOMAIN validationPeriods,
         CompleteValidatorRegistration(id)
  PROVE  WeightsAccounted'
<1>1. \A other \in DOMAIN validationPeriods : validationPeriods[other] \in Validation
  BY WeightsType
<1>2. /\ DOMAIN validationPeriods' = DOMAIN validationPeriods /\ TotalWeight' = TotalWeight
      /\ \A other \in DOMAIN validationPeriods \ {id} :
           validationPeriods'[other] = validationPeriods[other]
      /\ validationPeriods'[id].weight = validationPeriods[id].weight
      /\ validationPeriods[id].status = "PendingAdded" /\ validationPeriods'[id].status = "Active"
      /\ history' = history
  BY <1>1 DEF CompleteValidatorRegistration, Status, Validation, TotalWeight
<1>3. Weight' = Weight
  BY <1>2, WeightKept DEF Weighing
<1>4. Lost' = Lost
  BY <1>2 DEF Lost, LostOf
<1> QED BY <1>2, <1>3, <1>4 DEF WeightsAccounted

LEMMA OnceMore ==
  ASSUME NEW a \in Nat, NEW b \in Nat
  PROVE  a * (b + 1) = a * b + a
OBVIOUS

\* The weight of a registration that is invalidated is lost: it weighs no more, and the total stays
\* (_completeEndValidation).
LEMMA CompleteEndWeighs ==
  ASSUME ManagerCore, WeightsAccounted, NEW id \in DOMAIN validationPeriods, CompleteEnd(id)
  PROVE  WeightsAccounted'
<1> DEFINE S == Validations(Weighing)
           H == DOMAIN history
<1>1. \A other \in DOMAIN validationPeriods :
        validationPeriods[other] \in Validation /\ validationPeriods[other].weight \in Nat
  BY WeightsType
<1>2. /\ DOMAIN validationPeriods' = DOMAIN validationPeriods /\ TotalWeight' = TotalWeight
      /\ \A other \in DOMAIN validationPeriods \ {id} :
           validationPeriods'[other] = validationPeriods[other]
      /\ \/ /\ validationPeriods[id].status = "PendingAdded"
            /\ validationPeriods'[id].status = "Invalidated"
         \/ /\ validationPeriods[id].status = "PendingRemoved"
            /\ validationPeriods'[id].status = "Completed"
      /\ validationPeriods'[id].status = EndStatus(id)
  BY CompleteEndFrame DEF ManagerCore, CompleteEnd, TotalWeight
<1>3. /\ history' \in [H -> EventCounts]
      /\ \A other \in H \ {id} : history'[other] = history[other]
      /\ history'[id].invalidated =
           history[id].invalidated + IF EndStatus(id) = "Invalidated" THEN 1 ELSE 0
  BY CompleteEndIsCounted DEF ManagerCore, ManagerTypeOK
<1>4. /\ IsFiniteSet(S) /\ \A other \in S : WeightOf[other] \in Nat
      /\ IsFiniteSet(H) /\ \A other \in H : LostOf[other] \in Nat /\ other.weight \in Nat
      /\ Lost \in Nat /\ Weight \in Nat /\ id \in H
      /\ history[id].invalidated \in Nat
  BY WeightsType
<1>5. DOMAIN history' = H
  BY <1>3
<1>6. \A other \in H \ {id} : LostOf'[other] = LostOf[other]
  BY <1>3, <1>5 DEF LostOf
<1>7. /\ LostOf[id] = id.weight * history[id].invalidated
      /\ LostOf'[id] = id.weight * history'[id].invalidated
  BY <1>4, <1>5 DEF LostOf
<1>8. CASE validationPeriods[id].status = "PendingRemoved"
  <2>1. validationPeriods'[id].status = "Completed" /\ EndStatus(id) = "Completed"
    BY <1>2, <1>8
  <2>2. Weight' = Weight
    BY <1>2, <1>8, <2>1, WeightKept DEF Weighing
  <2>3. history'[id].invalidated = history[id].invalidated
    BY <1>3, <1>4, <2>1
  <2>4. \A other \in H : LostOf'[other] = LostOf[other]
    BY <1>6, <1>7, <2>3
  <2>5. Lost' = Lost
    <3> HIDE DEF H
    <3>1. Total(LostOf', H) = Total(LostOf, H)
      BY <2>4, TotalSame
    <3> QED BY <1>5, <3>1 DEF Lost, H
  <2> QED BY <1>2, <2>1, <2>2, <2>5 DEF WeightsAccounted
<1>9. CASE validationPeriods[id].status = "PendingAdded"
  <2>1. validationPeriods'[id].status = "Invalidated" /\ EndStatus(id) = "Invalidated"
    BY <1>2, <1>9
  <2>2. S' = S \ {id} /\ id \in S
    BY <1>2, <1>9, <2>1 DEF Validations, Weighing
  <2>3. WeightOf[id] = id.weight /\ id.weight \in Nat
    BY <1>4, <1>9, <2>2 DEF WeightOf, WeightsAccounted
  <2>4. \A other \in S \ {id} : WeightOf'[other] = WeightOf[other]
    BY <1>2, <2>2 DEF WeightOf, Validations
  <2>5. Weight' = Weight - id.weight
    <3> HIDE DEF S
    <3>1. /\ Total(WeightOf, S) = Total(WeightOf, S \ {id}) + WeightOf[id]
          /\ Total(WeightOf, S \ {id}) \in Nat
      BY <1>4, <2>2, TotalSplit
    <3>2. Total(WeightOf', S \ {id}) = Total(WeightOf, S \ {id})
      BY <2>4, TotalSame
    <3>3. Weight' = Total(WeightOf, S \ {id}) /\ Weight = Total(WeightOf, S)
      BY <2>2, <3>2 DEF Weight, S
    <3> QED BY <2>3, <3>1, <3>3
  <2>6. LostOf'[id] = LostOf[id] + id.weight
    <3> DEFINE n == history[id].invalidated
    <3>1. n \in Nat /\ history'[id].invalidated = n + 1
      BY <1>3, <1>4, <2>1
    <3> HIDE DEF n
    <3>2. id.weight * (n + 1) = id.weight * n + id.weight
      BY <2>3, <3>1, OnceMore
    <3> QED BY <1>7, <3>1, <3>2 DEF n
  <2>7. Lost' = Lost + id.weight
    <3>1. \A other \in H : LostOf[other] \in Nat /\ LostOf'[other] \in Nat
      BY <1>4, <1>6, <2>3, <2>6
    <3> HIDE DEF H
    <3>2. /\ Total(LostOf', H) = Total(LostOf, H) - LostOf[id] + LostOf'[id]
          /\ Total(LostOf, H) \in Nat
      BY <1>4, <1>6, <3>1, TotalChange
    <3>3. LostOf[id] \in Nat
      BY <1>4, <3>1
    <3> QED BY <1>5, <2>3, <2>6, <3>2, <3>3 DEF Lost, H
  <2>8. TotalWeight' = Weight' + Lost'
    BY <1>2, <1>4, <2>3, <2>5, <2>7 DEF WeightsAccounted
  <2> QED BY <1>2, <2>1, <2>8 DEF WeightsAccounted
<1> QED BY <1>2, <1>8, <1>9

\* The weights stay as they are.
LEMMA WeightsStay ==
  ASSUME UNCHANGED <<validationPeriods, churnTracker, history>>
  PROVE  WeightsAccounted => WeightsAccounted'
BY DEF WeightsAccounted, Weight, WeightOf, Lost, LostOf, Validations, TotalWeight

\* At first nothing weighs.
LEMMA NothingWeighsInitially ==
  ASSUME ManagerInit
  PROVE  WeightsAccounted
<1>1. /\ Validations(Weighing) = {} /\ TotalWeight = 0 /\ DOMAIN history = {}
      /\ DOMAIN validationPeriods = {}
  BY DEF ManagerInit, Empty, Validations, TotalWeight
<1>2. Weight = 0 /\ Lost = 0
  BY <1>1, TotalEmpty DEF Weight, Lost
<1> QED BY <1>1, <1>2 DEF WeightsAccounted

\* No validation that may end weighs more than the total.
LEMMA WeightIsInTotal ==
  ASSUME ManagerCore, WeightsAccounted
  PROVE  \A id \in Validations({"Active"}) : validationPeriods[id].weight <= TotalWeight
<1> SUFFICES ASSUME NEW id \in Validations({"Active"})
             PROVE  validationPeriods[id].weight <= TotalWeight
  OBVIOUS
<1>1. id \in Validations(Weighing) /\ WeightOf[id] = validationPeriods[id].weight
  BY DEF Validations, Weighing, WeightOf
<1>2. /\ Weight = Total(WeightOf, Validations(Weighing) \ {id}) + WeightOf[id]
      /\ Total(WeightOf, Validations(Weighing) \ {id}) \in Nat
  BY <1>1, WeightsType, TotalSplit DEF Weight
<1>3. TotalWeight = Weight + Lost /\ Lost \in Nat /\ WeightOf[id] \in Nat
  BY <1>1, WeightsType DEF WeightsAccounted
<1> QED BY <1>1, <1>2, <1>3

----------------------------------------------------------------------------
(* The staking contracts: their invariant and what they do                 *)

\* The weight of a validation with an owner is that of the stake locked for it (valueToWeight).
LocksSound ==
  \A id \in DOMAIN posValidatorInfo :
    ValueToWeight(stakeLocked[id]) = validationPeriods[id].startingWeight

\* Only validations with an owner have rewards, and they are redeemable until the end is acknowledged.
OwnedEntries ==
  /\ DOMAIN rewardsMinted \subseteq DOMAIN posValidatorInfo
  /\ \A id \in DOMAIN redeemableValidatorRewards :
       redeemableValidatorRewards[id] > 0 =>
         id \in DOMAIN posValidatorInfo /\ validationPeriods[id].status = "PendingRemoved"

StakingInv ==
  /\ ManagerCore
  /\ PosTypeOK
  /\ LocksSound
  /\ OwnedEntries

\* A registration without an owner, by the authority.
RegistersUnowned(id) ==
  /\ ~IsPoSValidator(id)
  /\ InitializeRegistration(id)
  /\ UNCHANGED posVars

\* The end of a validation without an owner.
EndsUnowned(id) ==
  /\ ~IsPoSValidator(id)
  /\ InitializeEndValidation(id, now)
  /\ UNCHANGED posVars

\* The end of a validation with an owner: not in the future, and its reward accrues or is refused.
EndsOwned(id, sender, proof, recipient, endedAt, accrued) ==
  /\ IsPoSValidator(id)
  /\ endedAt <= now
  /\ accrued \in {0, AmountAt(redeemableValidatorRewards, id) + RewardAtEnd(id, proof, endedAt)}
  /\ InitializeEndPoSValidation(id, sender, proof, recipient, endedAt, accrued)

\* What a contract that inherits from PoSValidatorManager does in a transaction, whoever may send it
\* and whatever else it checks and records, and what a contract of an authority does before it.
StakingStep ==
  \/ ManagerStep /\ UNCHANGED posVars
  \/ \E node \in NodeIDs, weight \in 1 .. MaxUint64, expiry \in Nat :
       RegistersUnowned(ValidationID(node, weight, expiry))
  \/ \E owner \in Accounts \cup {ZeroAddress}, node \in NodeIDs, expiry \in Nat,
        minStakeDuration \in Nat, stake \in StakeAmounts :
       InitializePoSRegistration(owner, node, expiry, minStakeDuration, stake)
  \/ \E id \in DOMAIN validationPeriods :
       \/ EndsUnowned(id)
       \/ \E sender \in Accounts, proof \in UptimeProofs \cup {NoProof}, recipient \in Accounts,
             endedAt \in Nat, accrued \in Nat :
            EndsOwned(id, sender, proof, recipient, endedAt, accrued)
       \/ CompleteEndValidation(id)
       \/ \E proof \in UptimeProofs : SubmitUptimeProof(id, proof)
       \/ \E a \in Accounts : ChangeValidatorRewardRecipient(id, a)
       \/ ClaimDelegationFees(id)
  \/ UNCHANGED <<managerVars, posVars>>

----------------------------------------------------------------------------
(* Lemmas about amounts *)

\* Stakes and weights are natural numbers (weightToValue).
LEMMA WeightToValueType ==
  ASSUME NEW weight \in Nat
  PROVE  WeightToValue(weight) \in Nat
BY StakeAssumption DEF WeightToValue

\* The time that is rewarded is a natural number up to the cap (calculateReward).
LEMMA RewardedTimeType ==
  ASSUME NEW startedAt \in Nat, NEW endedAt \in Nat, endedAt >= startedAt
  PROVE  /\ RewardedTime(startedAt, endedAt) \in Nat
         /\ RewardedTime(startedAt, endedAt) <= endedAt - startedAt
         /\ RewardedTime(startedAt, endedAt) <= RewardCap
BY RewardAssumption DEF RewardedTime

\* A reward is a natural number (calculateReward).
LEMMA CalculateRewardType ==
  ASSUME NEW stake \in Nat, NEW startedAt \in Nat, NEW endedAt \in Nat, NEW uptime \in Nat,
         endedAt >= startedAt
  PROVE  CalculateReward(stake, startedAt, endedAt, uptime) \in Nat
<1> DEFINE product == stake * RewardedTime(startedAt, endedAt)
<1>1. product \in Nat
  BY RewardedTimeType
<1> HIDE DEF product
<1>2. product \div RewardDivisor \in Nat
  BY <1>1, RewardAssumption
<1> QED BY <1>2 DEF CalculateReward, product

\* The stored uptime is a natural number that does not decrease (_updateUptime).
LEMMA UptimeType ==
  ASSUME PosTypeOK, NEW id \in DOMAIN posValidatorInfo, NEW proof \in UptimeProofs \cup {NoProof}
  PROVE  /\ UpdatedUptime(id, proof) \in Nat
         /\ UpdatedUptime(id, proof) >= posValidatorInfo[id].uptimeSeconds
         /\ UptimeOf(id) = posValidatorInfo[id].uptimeSeconds
BY RewardAssumption DEF PosTypeOK, UpdatedUptime, UptimeOf, IsPoSValidator

\* What becomes of a mapping f when an entry is written for an owner
\* (_initializeValidatorRegistration).
WrittenFor(owner, f, id, value, g) ==
  /\ g = [y \in DOMAIN g |-> g[y]]
  /\ \A y \in DOMAIN f \ {id} : y \in DOMAIN g /\ g[y] = f[y]
  /\ IF owner = ZeroAddress
     THEN DOMAIN g = DOMAIN f \ {id}
     ELSE DOMAIN g = DOMAIN f \cup {id} /\ g[id] = value

LEMMA SetForFrame ==
  ASSUME NEW owner, NEW f, NEW id, NEW value
  PROVE  WrittenFor(owner, f, id, value, SetFor(owner, f, id, value))
BY DEF WrittenFor, SetFor, Set, Without, Restrict

\* A stake locked is at least what its weight stands for (_lock, valueToWeight).
LEMMA WeightIsCovered ==
  ASSUME NEW stake \in Nat
  PROVE  /\ WeightToValue(ValueToWeight(stake)) \in Nat
         /\ WeightToValue(ValueToWeight(stake)) <= stake
BY StakeAssumption DEF WeightToValue, ValueToWeight

\* What was minted is a natural number for each account, and stays one when more is minted
\* (_withdrawValidationRewards).
LEMMA WithdrawType ==
  ASSUME PosTypeOK, NEW recipient \in Accounts, NEW id, WithdrawValidationRewards(recipient, id)
  PROVE  /\ rewardsMinted' \in [DOMAIN rewardsMinted' -> [Accounts -> Nat]]
         /\ redeemableValidatorRewards' \in [DOMAIN redeemableValidatorRewards' -> Nat]
<1>1. MintedFor(id) \in [Accounts -> Nat]
  BY DEF MintedFor, NothingMinted, PosTypeOK
<1> DEFINE reward == AmountAt(redeemableValidatorRewards, id)
           minted == [MintedFor(id) EXCEPT ![recipient] = @ + reward]
<1>2. reward \in Nat
  BY DEF AmountAt, PosTypeOK
<1>3. minted \in [Accounts -> Nat]
  BY <1>1, <1>2
<1>4. rewardsMinted' = Set(rewardsMinted, id, minted)
  BY DEF WithdrawValidationRewards
<1> HIDE DEF minted
<1>5. rewardsMinted' \in [DOMAIN rewardsMinted' -> [Accounts -> Nat]]
  BY <1>3, <1>4 DEF Set, PosTypeOK
<1>6. redeemableValidatorRewards' \in [DOMAIN redeemableValidatorRewards' -> Nat]
  BY DEF WithdrawValidationRewards, Without, Restrict, PosTypeOK
<1> QED BY <1>5, <1>6

----------------------------------------------------------------------------
(* The invariant of the staking contracts *)

\* The information about owners is typed when an uptime is written (_updateUptime).
LEMMA UptimeWritten ==
  ASSUME PosTypeOK, NEW id \in DOMAIN posValidatorInfo,
         NEW proof \in UptimeProofs \cup {NoProof},
         posValidatorInfo' = [posValidatorInfo EXCEPT ![id].uptimeSeconds = UpdatedUptime(id, proof)]
  PROVE  /\ DOMAIN posValidatorInfo' = DOMAIN posValidatorInfo
         /\ posValidatorInfo' \in [DOMAIN posValidatorInfo ->
                                    [owner : Accounts, minStakeDuration : Nat, uptimeSeconds : Nat]]
         /\ \A other \in DOMAIN posValidatorInfo :
              posValidatorInfo'[other].owner = posValidatorInfo[other].owner
         /\ posValidatorInfo'[id].uptimeSeconds = UpdatedUptime(id, proof)
         /\ \A other \in DOMAIN posValidatorInfo \ {id} :
              posValidatorInfo'[other] = posValidatorInfo[other]
<1> DEFINE uptime == UpdatedUptime(id, proof)
<1>1. uptime \in Nat
  BY UptimeType
<1> HIDE DEF uptime
<1>2. posValidatorInfo' = [posValidatorInfo EXCEPT ![id].uptimeSeconds = uptime]
  BY DEF uptime
<1>3. posValidatorInfo'[id].uptimeSeconds = uptime
  BY <1>2 DEF PosTypeOK
<1> QED BY <1>1, <1>2, <1>3 DEF PosTypeOK, uptime

\* What the end of a validation asks for, in natural numbers: it ends after it began
\* (_initializeEndPoSValidation).
LEMMA EndIsLate ==
  ASSUME StakingInv, NEW id \in DOMAIN validationPeriods, NEW sender \in Accounts,
         NEW proof \in UptimeProofs \cup {NoProof}, NEW recipient, NEW endedAt \in Nat,
         NEW accrued, IsPoSValidator(id),
         InitializeEndPoSValidation(id, sender, proof, recipient, endedAt, accrued)
  PROVE  /\ id \in DOMAIN posValidatorInfo
         /\ endedAt >= validationPeriods[id].startedAt
         /\ RewardAtEnd(id, proof, endedAt) \in Nat
         /\ AmountAt(redeemableValidatorRewards, id) + RewardAtEnd(id, proof, endedAt) \in Nat
<1> DEFINE v == validationPeriods[id]
           info == posValidatorInfo[id]
<1>1. /\ id \in DOMAIN posValidatorInfo
      /\ endedAt >= v.startedAt + info.minStakeDuration
  BY DEF IsPoSValidator, InitializeEndPoSValidation
<1>2. v \in Validation
  BY DEF StakingInv, ManagerCore, ManagerTypeOK, Validation
<1>3. v.startedAt \in Nat /\ v.startingWeight \in Nat
  BY <1>2, WeightAssumption DEF Validation
<1>4. info.minStakeDuration \in Nat
  BY <1>1 DEF StakingInv, PosTypeOK
<1> HIDE DEF v, info
<1>5. endedAt >= v.startedAt
  BY <1>1, <1>3, <1>4
<1>6. RewardAtEnd(id, proof, endedAt) \in Nat
  <2>1. WeightToValue(v.startingWeight) \in Nat
    BY <1>3, WeightToValueType
  <2>2. UpdatedUptime(id, proof) \in Nat
    BY <1>1, UptimeType DEF StakingInv
  <2> QED BY <1>3, <1>5, <2>1, <2>2, CalculateRewardType DEF RewardAtEnd, v
<1>7. AmountAt(redeemableValidatorRewards, id) \in Nat
  BY DEF AmountAt, StakingInv, PosTypeOK
<1> QED BY <1>1, <1>5, <1>6, <1>7 DEF v

\* The ID of a registration is not one of a validation that goes on, whose node is not free
\* (NodeIsFree).  It may be the ID of one that is over.
LEMMA RegistrationIsNotLive ==
  ASSUME ManagerCore, NEW id, InitializeRegistration(id)
  PROVE  id \notin Validations(Live)
BY DEF ManagerCore, NodesRegistered, Validations, InitializeRegistration, NodeIsFree

\* Locks and rewards fit the validations while neither they nor the owners change, starting weights
\* stay, and what is being ended goes on to be.
LEMMA EntriesKept ==
  ASSUME StakingInv, DOMAIN posValidatorInfo' = DOMAIN posValidatorInfo,
         UNCHANGED <<redeemableValidatorRewards, rewardsMinted, stakeLocked>>,
         \A id \in DOMAIN posValidatorInfo :
           /\ validationPeriods'[id].startingWeight = validationPeriods[id].startingWeight
           /\ validationPeriods[id].status = "PendingRemoved" =>
                validationPeriods'[id].status = "PendingRemoved"
  PROVE  LocksSound' /\ OwnedEntries'
BY DEF StakingInv, LocksSound, OwnedEntries

\* A registration with a stake (_initializeValidatorRegistration of PoSValidatorManager).
LEMMA InitializePoSRegistrationKeeps ==
  ASSUME StakingInv,
         NEW owner \in Accounts \cup {ZeroAddress}, NEW node \in NodeIDs, NEW expiry \in Nat,
         NEW minStakeDuration \in Nat, NEW stake \in StakeAmounts,
         InitializePoSRegistration(owner, node, expiry, minStakeDuration, stake)
  PROVE  StakingInv'
<1> DEFINE id == ValidationID(node, ValueToWeight(stake), expiry)
           info == [owner |-> owner, minStakeDuration |-> minStakeDuration, uptimeSeconds |-> 0]
           owned == DOMAIN posValidatorInfo
<1>1. /\ ValueToWeight(stake) \in 1 .. MaxUint64
      /\ InitializeRegistration(id)
      /\ posValidatorInfo' = SetFor(owner, posValidatorInfo, id, info)
      /\ rewardRecipients' = SetFor(owner, rewardRecipients, id, owner)
      /\ stakeLocked' = SetFor(owner, stakeLocked, id, stake)
      /\ rewardsMinted' = Without(rewardsMinted, id)
      /\ stakeBalance' = stakeBalance + stake
      /\ UNCHANGED <<redeemableValidatorRewards, stakeReturned>>
  BY DEF InitializePoSRegistration
<1>2. ManagerCore'
  BY <1>1, InitializeRegistrationKeepsCore DEF StakingInv
<1>3. id.weight = ValueToWeight(stake)
  BY DEF ValidationID
<1> HIDE DEF id, info
<1>4. /\ DOMAIN validationPeriods' = DOMAIN validationPeriods \cup {id}
      /\ \A other \in DOMAIN validationPeriods \ {id} :
           validationPeriods'[other] = validationPeriods[other]
      /\ validationPeriods'[id].startingWeight = ValueToWeight(stake)
  BY <1>1, <1>3, InitializeRegistrationFrame
<1>5. /\ owned \subseteq DOMAIN validationPeriods
      /\ DOMAIN stakeLocked = owned /\ stake \in Nat
      /\ info \in [owner : Accounts \cup {ZeroAddress}, minStakeDuration : Nat, uptimeSeconds : Nat]
      /\ info.owner = owner
      /\ owner # ZeroAddress => owner \in Accounts
  BY StakeAssumption DEF StakingInv, PosTypeOK, info
<1>6. /\ posValidatorInfo' = [y \in DOMAIN posValidatorInfo' |-> posValidatorInfo'[y]]
      /\ \A y \in owned \ {id} : y \in DOMAIN posValidatorInfo' /\ posValidatorInfo'[y] = posValidatorInfo[y]
      /\ IF owner = ZeroAddress
         THEN DOMAIN posValidatorInfo' = owned \ {id}
         ELSE DOMAIN posValidatorInfo' = owned \cup {id} /\ posValidatorInfo'[id] = info
  <2>1. WrittenFor(owner, posValidatorInfo, id, info, posValidatorInfo')
    BY <1>1, SetForFrame
  <2> QED BY <2>1 DEF WrittenFor
<1>7. /\ stakeLocked' = [y \in DOMAIN stakeLocked' |-> stakeLocked'[y]]
      /\ \A y \in owned \ {id} : y \in DOMAIN stakeLocked' /\ stakeLocked'[y] = stakeLocked[y]
      /\ IF owner = ZeroAddress
         THEN DOMAIN stakeLocked' = owned \ {id}
         ELSE DOMAIN stakeLocked' = owned \cup {id} /\ stakeLocked'[id] = stake
  <2>1. WrittenFor(owner, stakeLocked, id, stake, stakeLocked')
    BY <1>1, SetForFrame
  <2> QED BY <1>5, <2>1 DEF WrittenFor
<1>8. /\ rewardRecipients' = [y \in DOMAIN rewardRecipients' |-> rewardRecipients'[y]]
      /\ \A y \in DOMAIN rewardRecipients \ {id} :
           y \in DOMAIN rewardRecipients' /\ rewardRecipients'[y] = rewardRecipients[y]
      /\ IF owner = ZeroAddress
         THEN DOMAIN rewardRecipients' = DOMAIN rewardRecipients \ {id}
         ELSE DOMAIN rewardRecipients' = DOMAIN rewardRecipients \cup {id} /\ rewardRecipients'[id] = owner
  <2>1. WrittenFor(owner, rewardRecipients, id, owner, rewardRecipients')
    BY <1>1, SetForFrame
  <2> QED BY <2>1 DEF WrittenFor
<1>9. /\ DOMAIN rewardsMinted' = DOMAIN rewardsMinted \ {id}
      /\ rewardsMinted' = [y \in DOMAIN rewardsMinted \ {id} |-> rewardsMinted[y]]
  BY <1>1 DEF Without, Restrict
<1>10. PosTypeOK'
  <2>1. DOMAIN posValidatorInfo' \subseteq DOMAIN validationPeriods'
    BY <1>4, <1>5, <1>6
  <2>2. posValidatorInfo' \in [DOMAIN posValidatorInfo' ->
           [owner : Accounts, minStakeDuration : Nat, uptimeSeconds : Nat]]
    <3>1. \A y \in DOMAIN posValidatorInfo' :
            posValidatorInfo'[y] \in [owner : Accounts, minStakeDuration : Nat, uptimeSeconds : Nat]
      <4>1. owner # ZeroAddress =>
              info \in [owner : Accounts, minStakeDuration : Nat, uptimeSeconds : Nat]
        BY <1>5
      <4> QED BY <4>1, <1>6 DEF StakingInv, PosTypeOK
    <3> QED BY <3>1, <1>6
  <2>3. rewardRecipients' \in [DOMAIN rewardRecipients' -> Accounts]
    <3>1. \A y \in DOMAIN rewardRecipients' : rewardRecipients'[y] \in Accounts
      BY <1>5, <1>8 DEF StakingInv, PosTypeOK
    <3> QED BY <3>1, <1>8
  <2>4. stakeLocked' \in [DOMAIN posValidatorInfo' -> Nat]
    <3>1. \A y \in DOMAIN stakeLocked' : stakeLocked'[y] \in Nat
      BY <1>5, <1>7 DEF StakingInv, PosTypeOK
    <3>2. DOMAIN stakeLocked' = DOMAIN posValidatorInfo'
      BY <1>6, <1>7
    <3> QED BY <3>1, <3>2, <1>7
  <2>5. rewardsMinted' \in [DOMAIN rewardsMinted' -> [Accounts -> Nat]]
    BY <1>9 DEF StakingInv, PosTypeOK
  <2>6. stakeBalance' \in Nat
    BY <1>1, <1>5 DEF StakingInv, PosTypeOK
  <2> QED BY <1>1, <2>1, <2>2, <2>3, <2>4, <2>5, <2>6 DEF StakingInv, PosTypeOK
<1>11. LocksSound'
  <2>1. \A y \in owned \ {id} :
          ValueToWeight(stakeLocked'[y]) = validationPeriods'[y].startingWeight
    BY <1>4, <1>5, <1>7 DEF StakingInv, LocksSound
  <2>2. owner # ZeroAddress => ValueToWeight(stakeLocked'[id]) = validationPeriods'[id].startingWeight
    BY <1>4, <1>7
  <2>3. DOMAIN posValidatorInfo' \subseteq owned \cup {id}
    BY <1>6
  <2>4. owner = ZeroAddress => id \notin DOMAIN posValidatorInfo'
    BY <1>6
  <2> QED BY <2>1, <2>2, <2>3, <2>4 DEF LocksSound
<1>12. OwnedEntries'
  <2>1. DOMAIN rewardsMinted' \subseteq DOMAIN posValidatorInfo'
    BY <1>6, <1>9 DEF StakingInv, OwnedEntries
  <2>2. ASSUME NEW y \in DOMAIN redeemableValidatorRewards, redeemableValidatorRewards[y] > 0
        PROVE  y \in DOMAIN posValidatorInfo' /\ validationPeriods'[y].status = "PendingRemoved"
    <3>1. y \in owned /\ validationPeriods[y].status = "PendingRemoved"
      BY <2>2 DEF StakingInv, OwnedEntries
    <3>2. y # id
      BY <1>1, <1>5, <3>1, RegistrationIsNotLive DEF StakingInv, Validations, Live
    <3> QED BY <1>4, <1>5, <1>6, <3>1, <3>2
  <2> QED BY <1>1, <2>1, <2>2 DEF OwnedEntries
<1> QED BY <1>2, <1>10, <1>11, <1>12 DEF StakingInv

\* A registration without a stake.
LEMMA RegistersUnownedKeeps ==
  ASSUME StakingInv, NEW node \in NodeIDs, NEW weight \in 1 .. MaxUint64, NEW expiry \in Nat,
         RegistersUnowned(ValidationID(node, weight, expiry))
  PROVE  StakingInv'
<1> DEFINE id == ValidationID(node, weight, expiry)
<1>1. ManagerCore'
  BY InitializeRegistrationKeepsCore DEF StakingInv, RegistersUnowned
<1> HIDE DEF id
<1>2. /\ id \notin DOMAIN posValidatorInfo /\ UNCHANGED posVars /\ InitializeRegistration(id)
  BY DEF RegistersUnowned, IsPoSValidator, id
<1>3. /\ DOMAIN validationPeriods' = DOMAIN validationPeriods \cup {id}
      /\ \A other \in DOMAIN validationPeriods \ {id} :
           validationPeriods'[other] = validationPeriods[other]
  BY <1>2, InitializeRegistrationFrame
<1>4. DOMAIN posValidatorInfo \subseteq DOMAIN validationPeriods
  BY DEF StakingInv, PosTypeOK
<1>5. LocksSound' /\ OwnedEntries'
  BY <1>2, <1>3, <1>4, EntriesKept DEF posVars
<1> QED BY <1>1, <1>2, <1>3, <1>5 DEF StakingInv, PosTypeOK, posVars

\* The end of a validation with an owner (_initializeEndPoSValidation).
LEMMA EndsOwnedKeeps ==
  ASSUME StakingInv, NEW id \in DOMAIN validationPeriods, NEW sender \in Accounts,
         NEW proof \in UptimeProofs \cup {NoProof}, NEW recipient \in Accounts,
         NEW endedAt \in Nat, NEW accrued \in Nat,
         EndsOwned(id, sender, proof, recipient, endedAt, accrued)
  PROVE  StakingInv'
<1>1. InitializeEndPoSValidation(id, sender, proof, recipient, endedAt, accrued)
  BY DEF EndsOwned
<1>2. /\ InitializeEndValidation(id, endedAt)
      /\ posValidatorInfo' = [posValidatorInfo EXCEPT ![id].uptimeSeconds = UpdatedUptime(id, proof)]
      /\ redeemableValidatorRewards' = Set(redeemableValidatorRewards, id, accrued)
      /\ rewardRecipients' = Set(rewardRecipients, id, recipient)
      /\ UNCHANGED <<stakeBalance, stakeLocked, stakeReturned, rewardsMinted>>
  BY <1>1 DEF InitializeEndPoSValidation
<1>3. id \in DOMAIN posValidatorInfo
  BY DEF EndsOwned, IsPoSValidator
<1>4. ManagerCore'
  BY <1>2, InitializeEndValidationKeepsCore DEF StakingInv
<1>5. /\ DOMAIN posValidatorInfo' = DOMAIN posValidatorInfo
      /\ posValidatorInfo' \in [DOMAIN posValidatorInfo ->
                                 [owner : Accounts, minStakeDuration : Nat, uptimeSeconds : Nat]]
  BY <1>2, <1>3, UptimeWritten DEF StakingInv
<1>6. /\ DOMAIN validationPeriods' = DOMAIN validationPeriods
      /\ \A other \in DOMAIN validationPeriods \ {id} :
           validationPeriods'[other] = validationPeriods[other]
      /\ validationPeriods'[id].status = "PendingRemoved"
      /\ validationPeriods'[id].startingWeight = validationPeriods[id].startingWeight
  BY <1>2, InitializeEndValidationFrame DEF StakingInv, ManagerCore
<1>7. /\ redeemableValidatorRewards' \in [DOMAIN redeemableValidatorRewards' -> Nat]
      /\ rewardRecipients' \in [DOMAIN rewardRecipients' -> Accounts]
      /\ DOMAIN redeemableValidatorRewards' = DOMAIN redeemableValidatorRewards \cup {id}
      /\ \A other \in DOMAIN redeemableValidatorRewards \ {id} :
           redeemableValidatorRewards'[other] = redeemableValidatorRewards[other]
  BY <1>2 DEF Set, StakingInv, PosTypeOK
<1>8. PosTypeOK'
  BY <1>2, <1>3, <1>5, <1>6, <1>7 DEF StakingInv, PosTypeOK
<1>9. DOMAIN posValidatorInfo \subseteq DOMAIN validationPeriods
  BY DEF StakingInv, PosTypeOK
<1>10. LocksSound'
  BY <1>2, <1>5, <1>6, <1>9 DEF StakingInv, LocksSound
<1>11. OwnedEntries'
  BY <1>2, <1>3, <1>5, <1>6, <1>7, <1>9 DEF StakingInv, OwnedEntries
<1> QED BY <1>4, <1>8, <1>10, <1>11 DEF StakingInv

\* The end of a validation without an owner.
LEMMA EndsUnownedKeeps ==
  ASSUME StakingInv, NEW id \in DOMAIN validationPeriods, EndsUnowned(id)
  PROVE  StakingInv'
<1>1. /\ id \notin DOMAIN posValidatorInfo /\ UNCHANGED posVars
      /\ InitializeEndValidation(id, now) /\ now \in Nat
  BY DEF EndsUnowned, IsPoSValidator, StakingInv, ManagerCore, ManagerTypeOK
<1>2. ManagerCore'
  BY <1>1, InitializeEndValidationKeepsCore DEF StakingInv
<1>3. /\ DOMAIN validationPeriods' = DOMAIN validationPeriods
      /\ \A other \in DOMAIN validationPeriods \ {id} :
           validationPeriods'[other] = validationPeriods[other]
  BY <1>1, InitializeEndValidationFrame DEF StakingInv, ManagerCore
<1>4. LocksSound' /\ OwnedEntries'
  BY <1>1, <1>3, EntriesKept DEF posVars, StakingInv, PosTypeOK
<1> QED BY <1>1, <1>2, <1>3, <1>4 DEF StakingInv, PosTypeOK, posVars

\* The acknowledgment of an end (completeEndValidation).
LEMMA CompleteEndValidationKeeps ==
  ASSUME StakingInv, NEW id \in DOMAIN validationPeriods, CompleteEndValidation(id)
  PROVE  StakingInv'
<1>1. CompleteEnd(id)
  BY DEF CompleteEndValidation
<1>2. ManagerCore'
  BY <1>1, CompleteEndKeepsCore DEF StakingInv
<1>3. /\ DOMAIN validationPeriods' = DOMAIN validationPeriods
      /\ \A other \in DOMAIN validationPeriods \ {id} :
           validationPeriods'[other] = validationPeriods[other]
      /\ \/ /\ validationPeriods[id].status = "PendingAdded"
            /\ validationPeriods'[id].status = "Invalidated"
         \/ /\ validationPeriods[id].status = "PendingRemoved"
            /\ validationPeriods'[id].status = "Completed"
      /\ validationPeriods'[id].status = EndStatus(id)
      /\ validationPeriods'[id].startingWeight = validationPeriods[id].startingWeight
  BY <1>1, CompleteEndFrame DEF StakingInv, ManagerCore
<1>4. DOMAIN posValidatorInfo \subseteq DOMAIN validationPeriods
  BY DEF StakingInv, PosTypeOK
<1>5. CASE ~IsPoSValidator(id)
  <2>1. id \notin DOMAIN posValidatorInfo /\ UNCHANGED posVars
    BY <1>5 DEF IsPoSValidator, CompleteEndValidation
  <2>2. LocksSound' /\ OwnedEntries'
    BY <1>3, <1>4, <2>1, EntriesKept DEF posVars
  <2> QED BY <1>2, <1>3, <2>1, <2>2 DEF posVars, StakingInv, PosTypeOK
<1>6. CASE IsPoSValidator(id)
  <2> DEFINE value == WeightToValue(validationPeriods[id].startingWeight)
  <2>1. /\ value <= stakeBalance /\ stakeBalance' = stakeBalance - value
        /\ rewardRecipients' = Without(rewardRecipients, id)
        /\ stakeReturned' = [stakeReturned EXCEPT ![StakePayee(id)] = @ + value]
        /\ UNCHANGED <<posValidatorInfo, stakeLocked>>
        /\ IF EndStatus(id) = "Completed"
           THEN WithdrawValidationRewards(RewardPayee(id), id)
           ELSE UNCHANGED <<redeemableValidatorRewards, rewardsMinted>>
    BY <1>6 DEF CompleteEndValidation
  <2>2. value \in Nat
    BY WeightToValueType, WeightAssumption DEF StakingInv, ManagerCore, ManagerTypeOK
  <2> HIDE DEF value
  <2>3. stakeBalance' \in Nat /\ stakeReturned' \in [Accounts -> Nat]
    <3>1. stakeBalance \in Nat /\ stakeReturned \in [Accounts -> Nat]
      BY DEF StakingInv, PosTypeOK
    <3>2. stakeBalance' \in Nat
      BY <2>1, <2>2, <3>1
    <3>3. \A a \in Accounts : stakeReturned[a] + value \in Nat
      BY <2>2, <3>1
    <3> QED BY <2>1, <3>1, <3>2, <3>3
  <2>4. rewardRecipients' \in [DOMAIN rewardRecipients' -> Accounts]
    BY <2>1 DEF Without, Restrict, StakingInv, PosTypeOK
  <2>5. RewardPayee(id) \in Accounts /\ id \in DOMAIN posValidatorInfo
    BY <1>6 DEF RewardPayee, IsPoSValidator, StakingInv, PosTypeOK
  <2>6. /\ rewardsMinted' \in [DOMAIN rewardsMinted' -> [Accounts -> Nat]]
        /\ redeemableValidatorRewards' \in [DOMAIN redeemableValidatorRewards' -> Nat]
        /\ OwnedEntries'
    <3>1. CASE EndStatus(id) = "Completed"
      <4>1. WithdrawValidationRewards(RewardPayee(id), id)
        BY <2>1, <3>1
      <4>2. /\ DOMAIN rewardsMinted' = DOMAIN rewardsMinted \cup {id}
            /\ redeemableValidatorRewards' =
                 [y \in DOMAIN redeemableValidatorRewards \ {id} |-> redeemableValidatorRewards[y]]
        BY <4>1 DEF WithdrawValidationRewards, Set, Without, Restrict
      <4>3. OwnedEntries'
        BY <1>3, <1>4, <2>1, <2>5, <4>2 DEF StakingInv, OwnedEntries
      <4> QED BY <2>5, <4>1, <4>3, WithdrawType DEF StakingInv
    <3>2. CASE EndStatus(id) # "Completed"
      <4>1. UNCHANGED <<redeemableValidatorRewards, rewardsMinted>>
        BY <2>1, <3>2
      <4>2. validationPeriods[id].status = "PendingAdded"
        BY <1>3, <3>2
      <4>3. OwnedEntries'
        BY <1>3, <1>4, <2>1, <4>1, <4>2 DEF StakingInv, OwnedEntries
      <4> QED BY <4>1, <4>3 DEF StakingInv, PosTypeOK
    <3> QED BY <3>1, <3>2
  <2>7. LocksSound'
    BY <1>3, <1>4, <2>1 DEF StakingInv, LocksSound
  <2> QED BY <1>2, <1>3, <2>1, <2>3, <2>4, <2>6, <2>7 DEF StakingInv, PosTypeOK
<1> QED BY <1>5, <1>6

\* The steps of the manager (all of its functions that the inheriting contracts leave as they are).
LEMMA ManagerStepKeepsStaking ==
  ASSUME StakingInv, ManagerStep, UNCHANGED posVars
  PROVE  StakingInv'
<1>1. ManagerCore'
  BY ManagerStepKeepsCore DEF StakingInv
<1>2. DOMAIN posValidatorInfo \subseteq DOMAIN validationPeriods /\ ManagerTypeOK
  BY DEF StakingInv, ManagerCore, PosTypeOK
<1>3. PosTypeOK'
  <2>1. DOMAIN validationPeriods \subseteq DOMAIN validationPeriods'
    BY ManagerStepKeepsStakes DEF StakingInv, SameStake
  <2> QED BY <2>1 DEF StakingInv, PosTypeOK, posVars
<1>4. \A id \in DOMAIN posValidatorInfo :
        /\ validationPeriods'[id].startingWeight = validationPeriods[id].startingWeight
        /\ validationPeriods[id].status = "PendingRemoved" =>
             validationPeriods'[id].status = "PendingRemoved"
  <2>1. \A id \in DOMAIN posValidatorInfo :
          validationPeriods'[id].startingWeight = validationPeriods[id].startingWeight
    BY <1>2, ManagerStepKeepsStakes DEF StakingInv, SameStake
  <2>2. ASSUME NEW id \in DOMAIN validationPeriods, CompleteValidatorRegistration(id)
        PROVE  \A other \in DOMAIN posValidatorInfo :
                 validationPeriods[other].status = "PendingRemoved" =>
                   validationPeriods'[other].status = "PendingRemoved"
    <3>1. /\ validationPeriods[id].status = "PendingAdded"
          /\ \A other \in DOMAIN validationPeriods \ {id} :
               validationPeriods'[other] = validationPeriods[other]
      BY <1>2, <2>2, CompleteValidatorRegistrationFrame
    <3> QED BY <1>2, <3>1
  <2>3. \A other \in DOMAIN posValidatorInfo :
          validationPeriods[other].status = "PendingRemoved" =>
            validationPeriods'[other].status = "PendingRemoved"
    BY <1>2, <2>2, ManagerStepFrame DEF StakingInv
  <2> QED BY <2>1, <2>3
<1>5. LocksSound' /\ OwnedEntries'
  BY <1>4, EntriesKept DEF posVars
<1> QED BY <1>1, <1>3, <1>5 DEF StakingInv

\* The invariant holds after whatever a staking contract does.
LEMMA StakingStepKeeps ==
  ASSUME StakingInv, StakingStep
  PROVE  StakingInv'
<1>1. ASSUME NEW id \in DOMAIN validationPeriods, NEW proof \in UptimeProofs,
             SubmitUptimeProof(id, proof)
      PROVE  StakingInv'
  <2>1. /\ DOMAIN posValidatorInfo' = DOMAIN posValidatorInfo
        /\ posValidatorInfo' \in [DOMAIN posValidatorInfo ->
                                   [owner : Accounts, minStakeDuration : Nat, uptimeSeconds : Nat]]
    BY <1>1, UptimeWritten DEF SubmitUptimeProof, IsPoSValidator, StakingInv
  <2>2. ManagerCore' /\ UNCHANGED validationPeriods
    BY <1>1, ManagerUnchangedKeeps DEF SubmitUptimeProof, StakingInv, managerVars
  <2>3. LocksSound' /\ OwnedEntries'
    BY <1>1, <2>1, <2>2, EntriesKept DEF SubmitUptimeProof
  <2> QED BY <1>1, <2>1, <2>2, <2>3 DEF SubmitUptimeProof, StakingInv, PosTypeOK
<1>2. ASSUME NEW id \in DOMAIN validationPeriods, NEW a \in Accounts,
             ChangeValidatorRewardRecipient(id, a)
      PROVE  StakingInv'
  <2>1. rewardRecipients' \in [DOMAIN rewardRecipients' -> Accounts]
    BY <1>2 DEF ChangeValidatorRewardRecipient, Set, StakingInv, PosTypeOK
  <2>2. ManagerCore' /\ UNCHANGED validationPeriods
    BY <1>2, ManagerUnchangedKeeps DEF ChangeValidatorRewardRecipient, StakingInv, managerVars
  <2>3. LocksSound' /\ OwnedEntries'
    BY <1>2, <2>2, EntriesKept DEF ChangeValidatorRewardRecipient
  <2> QED BY <1>2, <2>1, <2>2, <2>3 DEF ChangeValidatorRewardRecipient, StakingInv, PosTypeOK
<1>3. ASSUME NEW id \in DOMAIN validationPeriods, ClaimDelegationFees(id)
      PROVE  StakingInv'
  <2>1. posValidatorInfo[id].owner \in Accounts /\ id \in DOMAIN posValidatorInfo
    BY <1>3 DEF ClaimDelegationFees, IsPoSValidator, StakingInv, PosTypeOK
  <2>2. /\ rewardsMinted' \in [DOMAIN rewardsMinted' -> [Accounts -> Nat]]
        /\ redeemableValidatorRewards' \in [DOMAIN redeemableValidatorRewards' -> Nat]
    BY <1>3, <2>1, WithdrawType DEF ClaimDelegationFees, StakingInv
  <2>3. /\ DOMAIN rewardsMinted' = DOMAIN rewardsMinted \cup {id}
        /\ redeemableValidatorRewards' =
             [y \in DOMAIN redeemableValidatorRewards \ {id} |-> redeemableValidatorRewards[y]]
    BY <1>3 DEF ClaimDelegationFees, WithdrawValidationRewards, Set, Without, Restrict
  <2>4. ManagerCore' /\ UNCHANGED validationPeriods
    BY <1>3, ManagerUnchangedKeeps DEF ClaimDelegationFees, StakingInv, managerVars
  <2>5. LocksSound' /\ OwnedEntries'
    BY <1>3, <2>1, <2>3, <2>4 DEF ClaimDelegationFees, StakingInv, LocksSound, OwnedEntries
  <2> QED BY <1>3, <2>1, <2>2, <2>4, <2>5 DEF ClaimDelegationFees, StakingInv, PosTypeOK
<1>4. CASE UNCHANGED <<managerVars, posVars>>
  <2>1. ManagerCore' /\ UNCHANGED validationPeriods
    BY <1>4, ManagerUnchangedKeeps DEF StakingInv, managerVars
  <2>2. LocksSound' /\ OwnedEntries'
    BY <1>4, <2>1, EntriesKept DEF posVars
  <2> QED BY <1>4, <2>1, <2>2 DEF posVars, StakingInv, PosTypeOK
<1> QED BY <1>1, <1>2, <1>3, <1>4, ManagerStepKeepsStaking, RegistersUnownedKeeps,
           InitializePoSRegistrationKeeps, EndsUnownedKeeps, EndsOwnedKeeps,
           CompleteEndValidationKeeps
        DEF StakingStep

\* The first state: nothing is staked.
LEMMA StakingInitially ==
  ASSUME ManagerInit, PosInit
  PROVE  StakingInv
<1>1. ManagerCore
  BY ManagerInitially
<1>2. PosTypeOK
  BY DEF PosInit, ManagerInit, PosTypeOK, Empty
<1> QED BY <1>1, <1>2 DEF PosInit, StakingInv, LocksSound, OwnedEntries, Empty

\* A staking contract does to the manager what one of its functions does, or nothing.
OnManager ==
  \/ ManagerStep
  \/ \E node \in NodeIDs, weight \in 1 .. MaxUint64, expiry \in Nat :
       InitializeRegistration(ValidationID(node, weight, expiry))
  \/ \E id \in DOMAIN validationPeriods :
       CompleteEnd(id) \/ \E endedAt \in Nat : InitializeEndValidation(id, endedAt)
  \/ UNCHANGED managerVars

LEMMA StakingStepOnManager ==
  ASSUME ManagerTypeOK, StakingStep
  PROVE  OnManager
<1>1. now \in Nat
  BY DEF ManagerTypeOK
<1>2. ASSUME NEW owner, NEW node \in NodeIDs, NEW expiry \in Nat, NEW minStakeDuration, NEW stake,
             InitializePoSRegistration(owner, node, expiry, minStakeDuration, stake)
      PROVE  OnManager
  BY <1>2 DEF InitializePoSRegistration, OnManager
<1>3. ASSUME NEW id \in DOMAIN validationPeriods, NEW sender, NEW proof, NEW recipient,
             NEW endedAt \in Nat, NEW accrued,
             EndsUnowned(id) \/ EndsOwned(id, sender, proof, recipient, endedAt, accrued)
      PROVE  OnManager
  BY <1>1, <1>3 DEF EndsUnowned, EndsOwned, InitializeEndPoSValidation, OnManager
<1>4. ASSUME NEW id \in DOMAIN validationPeriods, CompleteEndValidation(id)
      PROVE  OnManager
  BY <1>4 DEF CompleteEndValidation, OnManager
<1>5. ASSUME NEW id, NEW proof, NEW a,
             \/ SubmitUptimeProof(id, proof)
             \/ ChangeValidatorRewardRecipient(id, a)
             \/ ClaimDelegationFees(id)
      PROVE  OnManager
  BY <1>5 DEF SubmitUptimeProof, ChangeValidatorRewardRecipient, ClaimDelegationFees, OnManager
<1>6. ASSUME NEW node \in NodeIDs, NEW weight \in 1 .. MaxUint64, NEW expiry \in Nat,
             RegistersUnowned(ValidationID(node, weight, expiry))
      PROVE  OnManager
  BY <1>6 DEF RegistersUnowned, OnManager
<1>7. CASE ManagerStep \/ UNCHANGED <<managerVars, posVars>>
  BY <1>7 DEF OnManager
<1> QED BY <1>2, <1>3, <1>4, <1>5, <1>6, <1>7 DEF StakingStep

\* The manager and the P-Chain go on to agree whatever a staking contract does.
LEMMA StakingStepKeepsManager ==
  ASSUME ManagerInv, StakingStep
  PROVE  ManagerInv'
<1>1. OnManager
  BY StakingStepOnManager DEF ManagerInv
<1> QED BY <1>1, ManagerStepKeeps, InitializeRegistrationKeeps, CompleteEndKeeps,
           InitializeEndValidationKeeps, ManagerUnchangedKeeps
        DEF OnManager

\* The total weight is accounted for whatever a staking contract does.
LEMMA StakingStepKeepsWeights ==
  ASSUME ManagerCore, StakingStep, WeightsAccounted
  PROVE  WeightsAccounted'
<1>1. OnManager
  BY StakingStepOnManager DEF ManagerCore
<1>2. CASE ManagerStep
  BY <1>2, InitializeValidatorSetWeighs, CompleteValidatorRegistrationWeighs, WeightsStay
  DEF ManagerStep, ResendRegisterValidatorMessage, ResendEndValidatorMessage, PChainRegisters,
      PChainRemoves, MessageLost, Tick
<1>3. ASSUME NEW node \in NodeIDs, NEW weight \in 1 .. MaxUint64, NEW expiry \in Nat,
             InitializeRegistration(ValidationID(node, weight, expiry))
      PROVE  WeightsAccounted'
  <2>1. ValidationID(node, weight, expiry).weight \in Nat
    BY WeightAssumption DEF ValidationID
  <2> QED BY <1>3, <2>1, InitializeRegistrationWeighs
<1>4. CASE UNCHANGED managerVars
  BY <1>4, WeightsStay DEF managerVars
<1> QED BY <1>1, <1>2, <1>3, <1>4, CompleteEndWeighs, InitializeEndValidationWeighs DEF OnManager

----------------------------------------------------------------------------
(* The escrow of stakes *)

\* Nothing happens to the stakes while validations, owners, locks and tokens stay the same.
LEMMA StakesKept ==
  ASSUME StakingInv, \A id \in DOMAIN posValidatorInfo : SameStake(id),
         DOMAIN posValidatorInfo' = DOMAIN posValidatorInfo,
         \A id \in DOMAIN posValidatorInfo : posValidatorInfo'[id].owner = posValidatorInfo[id].owner,
         UNCHANGED <<stakeBalance, stakeLocked, stakeReturned>>
  PROVE  UNCHANGED StakeIsEscrow!escrowVars
<1>1. DOMAIN posValidatorInfo \subseteq DOMAIN validationPeriods
  BY DEF StakingInv, PosTypeOK
<1>2. PoSValidations(Live)' = PoSValidations(Live)
  BY <1>1 DEF PoSValidations, Validations, SameStake
<1>3. Deposits' = Deposits
  BY <1>2 DEF Deposits, PoSValidations
<1> QED BY <1>3 DEF StakeIsEscrow!escrowVars

\* A registration leaves the stakes of the other validations as they are.
StakesOfOthersStay ==
  \A other \in PoSValidations(Live) :
    /\ StakeOf(other)' = StakeOf(other)
    /\ posValidatorInfo'[other] = posValidatorInfo[other]
    /\ stakeLocked'[other] = stakeLocked[other]

\* What the registration of an ID with a stake does to validations, owners and stakes.
PlacesStake(id, owner, stake) ==
  /\ id \notin PoSValidations(Live)
  /\ PoSValidations(Live)' = PoSValidations(Live) \cup {id}
  /\ posValidatorInfo'[id].owner = owner
  /\ stakeLocked'[id] = stake
  /\ StakeOf(id)' = WeightToValue(ValueToWeight(stake))
  /\ StakesOfOthersStay

\* A registration with a stake writes this (_initializeValidatorRegistration).
LEMMA PoSRegistrationFrame ==
  ASSUME StakingInv, NEW owner \in Accounts \cup {ZeroAddress}, NEW node \in NodeIDs,
         NEW expiry \in Nat, NEW minStakeDuration \in Nat, NEW stake \in StakeAmounts,
         InitializePoSRegistration(owner, node, expiry, minStakeDuration, stake)
  PROVE  IF owner = ZeroAddress
         THEN PoSValidations(Live)' = PoSValidations(Live) /\ StakesOfOthersStay
         ELSE PlacesStake(ValidationID(node, ValueToWeight(stake), expiry), owner, stake)
<1> DEFINE id == ValidationID(node, ValueToWeight(stake), expiry)
           info == [owner |-> owner, minStakeDuration |-> minStakeDuration, uptimeSeconds |-> 0]
           live == PoSValidations(Live)
<1>1. /\ InitializeRegistration(id) /\ id.weight = ValueToWeight(stake)
      /\ posValidatorInfo' = SetFor(owner, posValidatorInfo, id, info)
      /\ stakeLocked' = SetFor(owner, stakeLocked, id, stake)
      /\ info.owner = owner
  BY DEF InitializePoSRegistration, ValidationID
<1>2. /\ DOMAIN posValidatorInfo \subseteq DOMAIN validationPeriods
      /\ DOMAIN stakeLocked = DOMAIN posValidatorInfo
  BY DEF StakingInv, PosTypeOK
<1> HIDE DEF id, info
<1>3. /\ DOMAIN validationPeriods' = DOMAIN validationPeriods \cup {id}
      /\ \A other \in DOMAIN validationPeriods \ {id} :
           validationPeriods'[other] = validationPeriods[other]
      /\ validationPeriods'[id].status = "PendingAdded"
      /\ validationPeriods'[id].startingWeight = ValueToWeight(stake)
  BY <1>1, InitializeRegistrationFrame
<1>4. /\ WrittenFor(owner, posValidatorInfo, id, info, posValidatorInfo')
      /\ WrittenFor(owner, stakeLocked, id, stake, stakeLocked')
  BY <1>1, SetForFrame
<1>5. id \notin live
  BY <1>1, RegistrationIsNotLive DEF StakingInv, PoSValidations
<1>6. ASSUME NEW other \in live
      PROVE  /\ other \in DOMAIN posValidatorInfo \ {id} /\ other \in DOMAIN stakeLocked \ {id}
             /\ other \in DOMAIN validationPeriods \ {id}
  BY <1>2, <1>5, <1>6 DEF PoSValidations
<1>7. StakesOfOthersStay
  <2> SUFFICES ASSUME NEW other \in live
               PROVE  /\ StakeOf(other)' = StakeOf(other)
                      /\ posValidatorInfo'[other] = posValidatorInfo[other]
                      /\ stakeLocked'[other] = stakeLocked[other]
    BY DEF StakesOfOthersStay
  <2>1. StakeOf(other)' = StakeOf(other)
    BY <1>3, <1>6 DEF StakeOf, WeightToValue
  <2>2. posValidatorInfo'[other] = posValidatorInfo[other] /\ stakeLocked'[other] = stakeLocked[other]
    BY <1>4, <1>6 DEF WrittenFor
  <2> QED BY <2>1, <2>2
<1>8. CASE owner = ZeroAddress
  <2>1. DOMAIN posValidatorInfo' = DOMAIN posValidatorInfo \ {id}
    BY <1>4, <1>8 DEF WrittenFor
  <2>2. live' = live
    BY <1>2, <1>3, <1>5, <2>1 DEF PoSValidations, Validations
  <2> QED BY <1>7, <1>8, <2>2
<1>9. CASE owner # ZeroAddress
  <2>1. /\ DOMAIN posValidatorInfo' = DOMAIN posValidatorInfo \cup {id}
        /\ posValidatorInfo'[id] = info /\ stakeLocked'[id] = stake
    BY <1>4, <1>9 DEF WrittenFor
  <2>2. live' = live \cup {id}
    BY <1>2, <1>3, <2>1 DEF PoSValidations, Validations, Live
  <2>3. StakeOf(id)' = WeightToValue(ValueToWeight(stake))
    BY <1>3 DEF StakeOf, WeightToValue
  <2>4. PlacesStake(id, owner, stake)
    BY <1>1, <1>5, <1>7, <2>1, <2>2, <2>3 DEF PlacesStake
  <2> QED BY <1>9, <2>4 DEF id
<1> QED BY <1>8, <1>9

\* A stake whose weight is not zero is not zero.
LEMMA StakeIsPositive ==
  ASSUME NEW stake \in Nat, ValueToWeight(stake) \in 1 .. MaxUint64
  PROVE  stake > 0
BY StakeAssumption DEF ValueToWeight

\* A registration deposits a stake (_lock), or forfeits it if it is for the zero address.
LEMMA RegistrationDeposits ==
  ASSUME StakingInv, NEW owner \in Accounts \cup {ZeroAddress}, NEW node \in NodeIDs,
         NEW expiry \in Nat, NEW minStakeDuration \in Nat, NEW stake \in StakeAmounts,
         InitializePoSRegistration(owner, node, expiry, minStakeDuration, stake)
  PROVE  StakeIsEscrow!EscrowNext
<1> DEFINE live == PoSValidations(Live)
<1>1. /\ stakeReturned' = stakeReturned /\ stakeBalance' = stakeBalance + stake
      /\ stake \in Nat /\ stakeBalance \in Nat /\ ValueToWeight(stake) \in 1 .. MaxUint64
  BY StakeAssumption DEF InitializePoSRegistration, StakingInv, PosTypeOK
<1>2. DOMAIN Deposits = live /\ DOMAIN Deposits' = live'
  BY DEF Deposits
<1>3. ASSUME StakesOfOthersStay, live \subseteq live'
      PROVE  \A other \in live : Deposits'[other] = Deposits[other]
  BY <1>3 DEF StakesOfOthersStay, Deposits
<1>4. CASE owner = ZeroAddress
  <2>1. live' = live /\ StakesOfOthersStay
    BY <1>4, PoSRegistrationFrame
  <2>2. Deposits' = Deposits
    BY <2>1 DEF Deposits, StakesOfOthersStay
  <2>3. stakeBalance' > stakeBalance
    BY <1>1, StakeIsPositive
  <2>4. StakeIsEscrow!Forfeit
    BY <1>1, <2>2, <2>3 DEF StakeIsEscrow!Forfeit
  <2> QED BY <2>4 DEF StakeIsEscrow!EscrowNext
<1>5. CASE owner # ZeroAddress
  <2>1. PICK id : PlacesStake(id, owner, stake)
    BY <1>5, PoSRegistrationFrame
  <2>2. /\ id \notin live /\ live' = live \cup {id}
        /\ posValidatorInfo'[id].owner = owner /\ stakeLocked'[id] = stake
        /\ StakesOfOthersStay
    BY <2>1 DEF PlacesStake
  <2>3. Deposits'[id] = [owner |-> owner, value |-> stake]
    BY <2>2 DEF Deposits
  <2>4. \A other \in live : Deposits'[other] = Deposits[other]
    BY <1>3, <2>2
  <2>5. Deposits'[id].owner \in Accounts /\ Deposits'[id].value = stake
    BY <1>5, <2>3
  <2>6. StakeIsEscrow!Deposit(id)
    BY <1>1, <1>2, <2>2, <2>4, <2>5 DEF StakeIsEscrow!Deposit
  <2> QED BY <1>2, <2>2, <2>6 DEF StakeIsEscrow!EscrowNext
<1> QED BY <1>4, <1>5

\* What the acknowledgment of the end of a staked validation does to the stakes
\* (completeEndValidation).
LEMMA StakedCompletionFrame ==
  ASSUME StakingInv, NEW id \in DOMAIN validationPeriods, CompleteEndValidation(id),
         IsPoSValidator(id)
  PROVE  /\ id \in PoSValidations(Live)
         /\ PoSValidations(Live)' = PoSValidations(Live) \ {id}
         /\ \A other \in PoSValidations(Live) : StakeOf(other)' = StakeOf(other)
         /\ UNCHANGED <<posValidatorInfo, stakeLocked>>
         /\ StakeOf(id) <= stakeBalance
         /\ stakeBalance' = stakeBalance - StakeOf(id)
         /\ stakeReturned' = [stakeReturned EXCEPT ![posValidatorInfo[id].owner] = @ + StakeOf(id)]
<1>1. /\ CompleteEnd(id) /\ UNCHANGED <<posValidatorInfo, stakeLocked>>
      /\ id \in DOMAIN posValidatorInfo
      /\ StakeOf(id) <= stakeBalance /\ stakeBalance' = stakeBalance - StakeOf(id)
      /\ stakeReturned' = [stakeReturned EXCEPT ![posValidatorInfo[id].owner] = @ + StakeOf(id)]
  BY DEF CompleteEndValidation, IsPoSValidator, StakePayee, StakeOf
<1>2. /\ \A other \in DOMAIN validationPeriods \ {id} : SameStake(other)
      /\ DOMAIN validationPeriods' = DOMAIN validationPeriods
      /\ validationPeriods'[id].startingWeight = validationPeriods[id].startingWeight
      /\ validationPeriods[id].status \in Live
      /\ validationPeriods'[id].status \in {"Completed", "Invalidated"}
  BY <1>1, CompleteEndFrame DEF StakingInv, ManagerCore, Live
<1>3. id \in PoSValidations(Live) /\ PoSValidations(Live)' = PoSValidations(Live) \ {id}
  BY <1>1, <1>2 DEF PoSValidations, Validations, SameStake, Live
<1>4. \A other \in PoSValidations(Live) : StakeOf(other)' = StakeOf(other)
  BY <1>2 DEF PoSValidations, Validations, SameStake, StakeOf, WeightToValue
<1> QED BY <1>1, <1>3, <1>4

\* The acknowledgment of the end of a validation without an owner touches no stake.
LEMMA UnownedCompletionFrame ==
  ASSUME StakingInv, NEW id \in DOMAIN validationPeriods, CompleteEndValidation(id),
         ~IsPoSValidator(id)
  PROVE  UNCHANGED posVars /\ \A other \in DOMAIN posValidatorInfo : SameStake(other)
<1>1. CompleteEnd(id) /\ UNCHANGED posVars /\ id \notin DOMAIN posValidatorInfo
  BY DEF CompleteEndValidation, IsPoSValidator
<1> QED BY <1>1, CompleteEndFrame DEF StakingInv, ManagerCore, PosTypeOK

\* What goes back is the stake locked, less a remainder that does not make one unit of weight.
LEMMA RemainderIsSmall ==
  ASSUME StakingInv, NEW id \in DOMAIN posValidatorInfo
  PROVE  /\ StakeOf(id) \in 0 .. stakeLocked[id]
         /\ stakeLocked[id] - StakeOf(id) < WeightToValueFactor
<1> DEFINE stake == stakeLocked[id]
           factor == WeightToValueFactor
<1>1. stake \in Nat /\ factor \in Nat \ {0}
  BY StakeAssumption DEF StakingInv, PosTypeOK
<1>2. StakeOf(id) = (stake \div factor) * factor
  BY DEF StakingInv, LocksSound, StakeOf, WeightToValue, ValueToWeight
<1> HIDE DEF stake, factor
<1>3. /\ (stake \div factor) * factor \in 0 .. stake
      /\ stake - (stake \div factor) * factor < factor
  BY <1>1
<1> QED BY <1>2, <1>3 DEF stake, factor

\* The acknowledgment of an end returns the stake of the validation (_unlock).
LEMMA CompletionReturns ==
  ASSUME StakingInv, NEW id \in DOMAIN validationPeriods, CompleteEndValidation(id)
  PROVE  [StakeIsEscrow!EscrowNext]_(StakeIsEscrow!escrowVars)
<1>1. CASE ~IsPoSValidator(id)
  BY <1>1, UnownedCompletionFrame, StakesKept DEF posVars
<1>2. CASE IsPoSValidator(id)
  <2> DEFINE live == PoSValidations(Live)
             owner == posValidatorInfo[id].owner
             amount == StakeOf(id)
  <2>1. /\ id \in live /\ live' = live \ {id}
        /\ UNCHANGED <<posValidatorInfo, stakeLocked>>
        /\ stakeBalance' = stakeBalance - amount
        /\ stakeReturned' = [stakeReturned EXCEPT ![owner] = @ + amount]
    BY <1>2, StakedCompletionFrame
  <2>2. DOMAIN Deposits = live /\ Deposits[id] = [owner |-> owner, value |-> stakeLocked[id]]
    BY <2>1 DEF Deposits
  <2>3. Deposits' = Restrict(Deposits, DOMAIN Deposits \ {id})
    BY <2>1 DEF Deposits, Restrict
  <2>4. amount \in 0 .. stakeLocked[id] /\ stakeLocked[id] - amount < WeightToValueFactor
    BY <1>2, RemainderIsSmall DEF IsPoSValidator
  <2>5. stakeLocked[id] \in Nat
    BY <1>2 DEF StakingInv, PosTypeOK, IsPoSValidator
  <2> HIDE DEF amount
  <2>6. Deposits[id].value = stakeLocked[id] /\ Deposits[id].owner = owner
    BY <2>2
  <2>7. StakeIsEscrow!Return(id, amount)
    BY <2>1, <2>3, <2>4, <2>5, <2>6 DEF StakeIsEscrow!Return, StakeIsEscrow!Restrict, Restrict
  <2> QED BY <2>1, <2>2, <2>4, <2>6, <2>7 DEF StakeIsEscrow!EscrowNext
<1> QED BY <1>1, <1>2

\* The functions besides registrations and acknowledgments leave the stakes, their owners, the balance,
\* the locks and what was returned as they are.
StakesLeft ==
  /\ \A id \in DOMAIN posValidatorInfo :
       SameStake(id) /\ posValidatorInfo'[id].owner = posValidatorInfo[id].owner
  /\ DOMAIN posValidatorInfo' = DOMAIN posValidatorInfo
  /\ UNCHANGED <<stakeBalance, stakeLocked, stakeReturned>>

\* A transaction deposits one stake, returns one, or leaves all stakes as they are.
LEMMA StakingStepOnStakes ==
  ASSUME StakingInv, StakingStep
  PROVE  \/ StakesLeft
         \/ \E owner \in Accounts \cup {ZeroAddress}, node \in NodeIDs, expiry \in Nat,
               minStakeDuration \in Nat, stake \in StakeAmounts :
              InitializePoSRegistration(owner, node, expiry, minStakeDuration, stake)
         \/ \E id \in DOMAIN validationPeriods : CompleteEndValidation(id)
<1>1. ManagerTypeOK /\ DOMAIN posValidatorInfo \subseteq DOMAIN validationPeriods
  BY DEF StakingInv, ManagerCore, PosTypeOK
<1>2. CASE ManagerStep /\ UNCHANGED posVars
  BY <1>1, <1>2, ManagerStepKeepsStakes DEF StakingInv, StakesLeft, posVars
<1>3. ASSUME NEW id, RegistersUnowned(id)
      PROVE  StakesLeft
  <2>1. InitializeRegistration(id) /\ UNCHANGED posVars /\ id \notin DOMAIN posValidatorInfo
    BY <1>3 DEF RegistersUnowned, IsPoSValidator
  <2> QED BY <1>1, <2>1, InitializeRegistrationFrame DEF StakesLeft, SameStake, posVars
<1>4. ASSUME NEW id \in DOMAIN validationPeriods, EndsUnowned(id)
      PROVE  StakesLeft
  <2>1. InitializeEndValidation(id, now) /\ now \in Nat /\ UNCHANGED posVars
    BY <1>1, <1>4 DEF EndsUnowned, ManagerTypeOK
  <2> QED BY <1>1, <2>1, InitializeEndValidationFrame DEF StakesLeft, posVars
<1>5. ASSUME NEW id \in DOMAIN posValidatorInfo, NEW proof,
             posValidatorInfo' = [posValidatorInfo EXCEPT ![id].uptimeSeconds = UpdatedUptime(id, proof)]
      PROVE  /\ DOMAIN posValidatorInfo' = DOMAIN posValidatorInfo
             /\ \A other \in DOMAIN posValidatorInfo :
                  posValidatorInfo'[other].owner = posValidatorInfo[other].owner
  BY <1>5 DEF StakingInv, PosTypeOK
<1>6. ASSUME NEW id \in DOMAIN validationPeriods, NEW sender \in Accounts,
             NEW proof \in UptimeProofs \cup {NoProof}, NEW recipient \in Accounts,
             NEW endedAt \in Nat, NEW accrued \in Nat,
             EndsOwned(id, sender, proof, recipient, endedAt, accrued)
      PROVE  StakesLeft
  <2>1. /\ InitializeEndValidation(id, endedAt) /\ id \in DOMAIN posValidatorInfo
        /\ posValidatorInfo' = [posValidatorInfo EXCEPT ![id].uptimeSeconds = UpdatedUptime(id, proof)]
        /\ UNCHANGED <<stakeBalance, stakeLocked, stakeReturned>>
    BY <1>6 DEF EndsOwned, IsPoSValidator, InitializeEndPoSValidation
  <2> QED BY <1>1, <1>5, <2>1, InitializeEndValidationFrame DEF StakesLeft
<1>7. ASSUME NEW id, NEW proof \in UptimeProofs, SubmitUptimeProof(id, proof)
      PROVE  StakesLeft
  BY <1>1, <1>5, <1>7 DEF SubmitUptimeProof, IsPoSValidator, managerVars, StakesLeft, SameStake
<1>8. ASSUME validationPeriods' = validationPeriods, posValidatorInfo' = posValidatorInfo,
             UNCHANGED <<stakeBalance, stakeLocked, stakeReturned>>
      PROVE  StakesLeft
  BY <1>1, <1>8 DEF StakesLeft, SameStake
<1>9. ASSUME NEW id, NEW a, ChangeValidatorRewardRecipient(id, a)
      PROVE  StakesLeft
  BY <1>8, <1>9 DEF ChangeValidatorRewardRecipient, managerVars
<1>10. ASSUME NEW id, ClaimDelegationFees(id)
       PROVE  StakesLeft
  BY <1>8, <1>10 DEF ClaimDelegationFees, managerVars
<1>11. CASE UNCHANGED <<managerVars, posVars>>
  BY <1>8, <1>11 DEF managerVars, posVars
<1> QED BY <1>2, <1>3, <1>4, <1>6, <1>7, <1>9, <1>10, <1>11 DEF StakingStep

\* Whatever a staking contract does is a step of the escrow or none.
LEMMA StakingStepIsEscrow ==
  ASSUME StakingInv, StakingStep
  PROVE  [StakeIsEscrow!EscrowNext]_(StakeIsEscrow!escrowVars)
<1>1. CASE StakesLeft
  BY <1>1, StakesKept DEF StakesLeft
<1> QED BY <1>1, StakingStepOnStakes, RegistrationDeposits, CompletionReturns

\* At first no stake is kept.
LEMMA EscrowInitially ==
  ASSUME ManagerInit, PosInit
  PROVE  StakeIsEscrow!EscrowInit
<1>1. \A statuses : PoSValidations(statuses) = {}
  BY DEF ManagerInit, PoSValidations, Validations, Empty
<1>2. Deposits = [id \in {} |-> id]
  BY <1>1 DEF Deposits
<1> QED BY <1>2 DEF StakeIsEscrow!EscrowInit, PosInit

----------------------------------------------------------------------------
(* The balance *)

StakeHeld == [id \in PoSValidations(Live) |-> StakeOf(id)]

\* The stakes kept are finitely many natural numbers.
LEMMA StakesType ==
  ASSUME StakingInv
  PROVE  /\ IsFiniteSet(PoSValidations(Live))
         /\ \A id \in DOMAIN validationPeriods : StakeOf(id) \in Nat
         /\ \A id \in PoSValidations(Live) : StakeHeld[id] = StakeOf(id) /\ StakeHeld[id] \in Nat
<1>1. PoSValidations(Live) \subseteq DOMAIN validationPeriods
  BY DEF PoSValidations, Validations
<1>2. IsFiniteSet(PoSValidations(Live))
  BY <1>1, FS_Subset DEF StakingInv, ManagerCore
<1>3. \A id \in DOMAIN validationPeriods : StakeOf(id) \in Nat
  <2>1. \A id \in DOMAIN validationPeriods : validationPeriods[id].startingWeight \in Nat
    BY WeightAssumption DEF StakingInv, ManagerCore, ManagerTypeOK
  <2> QED BY <2>1, WeightToValueType DEF StakeOf
<1> QED BY <1>1, <1>2, <1>3 DEF StakeHeld

\* The stakes kept stay covered while validations, owners and the balance stay the same.
LEMMA StakesStayBacked ==
  ASSUME StakingInv, StakeBacked, StakesLeft
  PROVE  StakeBacked'
<1>1. DOMAIN posValidatorInfo \subseteq DOMAIN validationPeriods
  BY DEF StakingInv, PosTypeOK
<1>2. PoSValidations(Live)' = PoSValidations(Live)
  BY <1>1 DEF PoSValidations, Validations, StakesLeft, SameStake
<1>3. \A id \in PoSValidations(Live) : StakeHeld'[id] = StakeHeld[id]
  BY <1>2 DEF StakeHeld, StakeOf, WeightToValue, PoSValidations, StakesLeft, SameStake
<1>4. Total(StakeHeld', PoSValidations(Live)) = Total(StakeHeld, PoSValidations(Live))
  BY <1>3, TotalSame
<1> QED BY <1>2, <1>4 DEF StakeBacked, StakeHeld, StakesLeft

\* A stake that is forfeit adds to the balance only (_lock, for the zero address).
LEMMA ForfeitBacked ==
  ASSUME StakingInv, StakeBacked, PoSValidations(Live)' = PoSValidations(Live), StakesOfOthersStay,
         NEW stake \in Nat, stakeBalance' = stakeBalance + stake
  PROVE  StakeBacked'
<1> DEFINE live == PoSValidations(Live)
<1>1. \A other \in live : StakeHeld'[other] = StakeHeld[other]
  BY DEF StakeHeld, StakesOfOthersStay
<1>2. Total(StakeHeld', live) = Total(StakeHeld, live)
  BY <1>1, TotalSame
<1>3. stakeBalance >= Total(StakeHeld, live) /\ stakeBalance \in Nat /\ Total(StakeHeld, live) \in Nat
  BY StakesType, TotalType DEF StakeBacked, StakeHeld, StakingInv, PosTypeOK
<1>4. stakeBalance' >= Total(StakeHeld', live')
  BY <1>2, <1>3
<1> QED BY <1>4 DEF StakeBacked, StakeHeld

\* A registration locks at least the stake that goes back in the end
\* (_initializeValidatorRegistration).
LEMMA RegistrationBacked ==
  ASSUME StakingInv, StakeBacked, NEW owner \in Accounts, owner # ZeroAddress,
         NEW node \in NodeIDs, NEW expiry \in Nat,
         NEW minStakeDuration \in Nat, NEW stake \in StakeAmounts,
         InitializePoSRegistration(owner, node, expiry, minStakeDuration, stake)
  PROVE  StakeBacked'
<1> DEFINE live == PoSValidations(Live)
<1>1. PICK id : PlacesStake(id, owner, stake)
  BY PoSRegistrationFrame
<1>2. /\ id \notin live /\ live' = live \cup {id}
      /\ \A other \in live : StakeOf(other)' = StakeOf(other)
      /\ StakeOf(id)' = WeightToValue(ValueToWeight(stake))
  BY <1>1 DEF PlacesStake, StakesOfOthersStay
<1>3. stakeBalance' = stakeBalance + stake /\ stake \in Nat /\ stakeBalance \in Nat
  BY StakeAssumption DEF InitializePoSRegistration, StakingInv, PosTypeOK
<1>4. StakeHeld'[id] = WeightToValue(ValueToWeight(stake))
  BY <1>2 DEF StakeHeld
<1>5. \A other \in live : StakeHeld[other] \in Nat /\ StakeHeld'[other] = StakeHeld[other]
  <2>1. \A other \in live : StakeHeld'[other] = StakeHeld[other]
    BY <1>2 DEF StakeHeld
  <2> QED BY <2>1, StakesType
<1>6. IsFiniteSet(live)
  BY StakesType
<1> HIDE DEF live
<1>7. StakeHeld'[id] \in Nat /\ StakeHeld'[id] <= stake
  BY <1>3, <1>4, WeightIsCovered
<1>8. /\ Total(StakeHeld, live) \in Nat
      /\ Total(StakeHeld', live \cup {id}) = Total(StakeHeld, live) + StakeHeld'[id]
  <2> DEFINE before == StakeHeld
             after == StakeHeld'
  <2>1. id \notin live
    BY <1>2
  <2>2. after[id] \in Nat
    BY <1>7
  <2>3. \A other \in live : before[other] \in Nat /\ after[other] = before[other]
    BY <1>5
  <2> HIDE DEF before, after
  <2>4. Total(before, live) \in Nat /\ Total(after, live \cup {id}) = Total(before, live) + after[id]
    BY <1>6, <2>1, <2>2, <2>3, TotalAdd, ZenonT(20)
  <2> QED BY <2>4 DEF before, after
<1>9. stakeBalance >= Total(StakeHeld, live)
  BY DEF StakeBacked, StakeHeld, live
<1>10. stakeBalance' >= Total(StakeHeld', live')
  BY <1>2, <1>3, <1>7, <1>8, <1>9
<1> QED BY <1>10 DEF StakeBacked, StakeHeld, live

\* What is left of a sum of stakes, and that none is more than the sum.
LEMMA StakesSplit ==
  ASSUME StakingInv, StakeBacked, NEW id \in PoSValidations(Live)
  PROVE  /\ Total(StakeHeld, PoSValidations(Live))
              = Total(StakeHeld, PoSValidations(Live) \ {id}) + StakeOf(id)
         /\ Total(StakeHeld, PoSValidations(Live) \ {id}) \in Nat
         /\ StakeOf(id) \in Nat
         /\ stakeBalance \in Nat
         /\ stakeBalance >= Total(StakeHeld, PoSValidations(Live))
         /\ StakeOf(id) <= stakeBalance
<1> DEFINE live == PoSValidations(Live)
<1>1. /\ IsFiniteSet(live) /\ \A other \in live : StakeHeld[other] \in Nat
      /\ StakeHeld[id] = StakeOf(id)
  BY StakesType
<1>2. stakeBalance >= Total(StakeHeld, live) /\ stakeBalance \in Nat
  BY DEF StakeBacked, StakeHeld, StakingInv, PosTypeOK
<1>3. id \in live
  OBVIOUS
<1> HIDE DEF live
<1>4. /\ Total(StakeHeld, live) = Total(StakeHeld, live \ {id}) + StakeHeld[id]
      /\ Total(StakeHeld, live \ {id}) \in Nat
  BY <1>1, <1>3, TotalSplit
<1>5. StakeOf(id) \in Nat /\ StakeOf(id) <= stakeBalance
  BY <1>1, <1>2, <1>3, <1>4
<1> QED BY <1>1, <1>2, <1>4, <1>5 DEF live

\* The stake that goes back is that of the validation, which is no more held (_unlock).
LEMMA CompletionBacked ==
  ASSUME StakingInv, StakeBacked, NEW id \in DOMAIN validationPeriods,
         CompleteEndValidation(id)
  PROVE  StakeBacked'
<1>1. CASE ~IsPoSValidator(id)
  BY <1>1, UnownedCompletionFrame, StakesStayBacked DEF StakesLeft, posVars
<1>2. CASE IsPoSValidator(id)
  <2> DEFINE live == PoSValidations(Live)
  <2>1. /\ id \in live /\ live' = live \ {id}
        /\ stakeBalance' = stakeBalance - StakeOf(id)
        /\ \A other \in live : StakeOf(other)' = StakeOf(other)
    BY <1>2, StakedCompletionFrame
  <2>2. \A other \in live \ {id} : StakeHeld'[other] = StakeHeld[other]
    BY <2>1 DEF StakeHeld
  <2>3. /\ Total(StakeHeld, live) = Total(StakeHeld, live \ {id}) + StakeOf(id)
        /\ Total(StakeHeld, live \ {id}) \in Nat /\ StakeOf(id) \in Nat
        /\ stakeBalance \in Nat /\ stakeBalance >= Total(StakeHeld, live)
    BY <2>1, StakesSplit
  <2> HIDE DEF live
  <2>4. Total(StakeHeld', live \ {id}) = Total(StakeHeld, live \ {id})
    BY <2>2, TotalSame
  <2>5. stakeBalance' >= Total(StakeHeld', live')
    BY <2>1, <2>3, <2>4
  <2> QED BY <2>5 DEF StakeBacked, StakeHeld, live
<1> QED BY <1>1, <1>2

\* The stakes stay covered whatever a staking contract does.
LEMMA StakingStepKeepsBacked ==
  ASSUME StakingInv, StakingStep, StakeBacked
  PROVE  StakeBacked'
<1>1. ASSUME NEW owner \in Accounts \cup {ZeroAddress}, NEW node \in NodeIDs, NEW expiry \in Nat,
             NEW minStakeDuration \in Nat, NEW stake \in StakeAmounts,
             InitializePoSRegistration(owner, node, expiry, minStakeDuration, stake)
      PROVE  StakeBacked'
  <2>1. CASE owner = ZeroAddress
    <3>1. /\ PoSValidations(Live)' = PoSValidations(Live) /\ StakesOfOthersStay
          /\ stake \in Nat /\ stakeBalance' = stakeBalance + stake
      BY <1>1, <2>1, PoSRegistrationFrame, StakeAssumption DEF InitializePoSRegistration
    <3> QED BY <3>1, ForfeitBacked
  <2>2. CASE owner # ZeroAddress
    BY <1>1, <2>2, RegistrationBacked
  <2> QED BY <2>1, <2>2
<1> QED BY <1>1, StakingStepOnStakes, StakesStayBacked, CompletionBacked

\* At first there is no stake to cover.
LEMMA BackedInitially ==
  ASSUME ManagerInit, PosInit
  PROVE  StakeBacked
<1>1. PoSValidations(Live) = {} /\ stakeBalance = 0
  BY DEF ManagerInit, PosInit, Empty, Validations, PoSValidations
<1> QED BY <1>1, TotalEmpty DEF StakeBacked

----------------------------------------------------------------------------
(* The rewards *)

\* A larger amount is not smaller when it is divided.
LEMMA DivIsMonotone ==
  ASSUME NEW a \in Nat, NEW b \in Nat, NEW d \in Nat \ {0}, a <= b
  PROVE  a \div d <= b \div d
OBVIOUS

\* A reward is for no more than the time between start and end, and for no more than the cap, and
\* asks for 80% of it as uptime (RewardsCalculator.calculateReward).
LEMMA RewardIsCapped ==
  ASSUME NEW stake \in Nat, NEW startedAt \in Nat, NEW endedAt \in Nat, NEW uptime \in Nat,
         endedAt >= startedAt
  PROVE  /\ CalculateReward(stake, startedAt, endedAt, uptime)
              <= (stake * (endedAt - startedAt)) \div RewardDivisor
         /\ CalculateReward(stake, startedAt, endedAt, uptime)
              <= (stake * RewardCap) \div RewardDivisor
         /\ CalculateReward(stake, startedAt, endedAt, uptime) > 0 =>
              uptime * 100 >= RewardedTime(startedAt, endedAt) * 80
<1> DEFINE time == endedAt - startedAt
           duration == RewardedTime(startedAt, endedAt)
<1>1. /\ time \in Nat /\ duration \in Nat /\ RewardCap \in Nat
      /\ duration <= time /\ duration <= RewardCap
  BY RewardAssumption, RewardedTimeType
<1> HIDE DEF time, duration
<1>2. /\ stake * duration \in Nat /\ stake * time \in Nat /\ stake * RewardCap \in Nat
      /\ stake * duration <= stake * time /\ stake * duration <= stake * RewardCap
  BY <1>1
<1> DEFINE p == stake * duration
           q == stake * time
           r == stake * RewardCap
<1>3. p \in Nat /\ q \in Nat /\ r \in Nat /\ p <= q /\ p <= r
  BY <1>2
<1>4. /\ CalculateReward(stake, startedAt, endedAt, uptime) \in {0, p \div RewardDivisor}
      /\ uptime * 100 < duration * 80 => CalculateReward(stake, startedAt, endedAt, uptime) = 0
  BY DEF CalculateReward, duration
<1>5. q = stake * (endedAt - startedAt) /\ r = stake * RewardCap
  BY DEF time
<1> HIDE DEF p, q, r
<1>6. /\ p \div RewardDivisor <= q \div RewardDivisor
      /\ p \div RewardDivisor <= r \div RewardDivisor
  BY <1>3, RewardAssumption, DivIsMonotone
<1>7. q \div RewardDivisor \in Nat /\ r \div RewardDivisor \in Nat
  BY <1>3, RewardAssumption
<1>8. CalculateReward(stake, startedAt, endedAt, uptime) > 0 => uptime * 100 >= duration * 80
  <2>1. uptime * 100 >= duration * 80 \/ uptime * 100 < duration * 80
    BY <1>1
  <2> QED BY <1>4, <2>1
<1> QED BY <1>4, <1>5, <1>6, <1>7, <1>8 DEF duration

\* What a validation has earned is a natural number, of what is redeemable and what was minted.
LEMMA EarnedType ==
  ASSUME PosTypeOK, NEW id
  PROVE  /\ AmountAt(redeemableValidatorRewards, id) \in Nat
         /\ MintedFor(id) \in [Accounts -> Nat]
         /\ Total(MintedFor(id), Accounts) \in Nat
         /\ EarnedBy(id) \in Nat
<1>1. AmountAt(redeemableValidatorRewards, id) \in Nat /\ MintedFor(id) \in [Accounts -> Nat]
  BY DEF PosTypeOK, AmountAt, MintedFor, NothingMinted
<1>2. Total(MintedFor(id), Accounts) \in Nat
  BY <1>1, TotalType, RewardAssumption
<1> QED BY <1>1, <1>2 DEF EarnedBy

\* A validation without an owner has earned nothing.
LEMMA NothingEarned ==
  ASSUME PosTypeOK, OwnedEntries, NEW id, id \notin DOMAIN posValidatorInfo
  PROVE  EarnedBy(id) = 0
<1>1. AmountAt(redeemableValidatorRewards, id) = 0 /\ MintedFor(id) = NothingMinted
  BY DEF AmountAt, MintedFor, OwnedEntries, PosTypeOK
<1>2. Total(NothingMinted, Accounts) = 0
  <2>1. \A a \in Accounts : NothingMinted[a] = 0
    BY DEF NothingMinted
  <2> QED BY <2>1, TotalZero
<1> QED BY <1>1, <1>2 DEF EarnedBy

\* Nothing is earned in a step; what an ID has earned is forgotten when it is registered again.
NothingEarns == \A id : EarnedBy(id)' = EarnedBy(id) \/ EarnedBy(id)' = 0

\* To mint rewards is not to earn them: they are no more redeemable (_withdrawValidationRewards).
LEMMA WithdrawEarnsNothing ==
  ASSUME PosTypeOK, NEW recipient \in Accounts, NEW id, WithdrawValidationRewards(recipient, id)
  PROVE  /\ \A other : EarnedBy(other)' = EarnedBy(other)
         /\ DOMAIN redeemableValidatorRewards' \subseteq DOMAIN redeemableValidatorRewards
         /\ DOMAIN rewardsMinted' = DOMAIN rewardsMinted \cup {id}
<1> DEFINE reward == AmountAt(redeemableValidatorRewards, id)
           before == MintedFor(id)
           after == [before EXCEPT ![recipient] = @ + reward]
<1>1. /\ rewardsMinted' = Set(rewardsMinted, id, after)
      /\ redeemableValidatorRewards' = Without(redeemableValidatorRewards, id)
  BY DEF WithdrawValidationRewards
<1>2. reward \in Nat /\ before \in [Accounts -> Nat] /\ Total(before, Accounts) \in Nat
  BY EarnedType
<1>3. /\ DOMAIN redeemableValidatorRewards' = DOMAIN redeemableValidatorRewards \ {id}
      /\ \A other \in DOMAIN redeemableValidatorRewards' :
           redeemableValidatorRewards'[other] = redeemableValidatorRewards[other]
  BY <1>1 DEF Without, Restrict
<1>4. /\ DOMAIN rewardsMinted' = DOMAIN rewardsMinted \cup {id}
      /\ rewardsMinted'[id] = after
      /\ \A other \in DOMAIN rewardsMinted \ {id} : rewardsMinted'[other] = rewardsMinted[other]
  BY <1>1 DEF Set
<1>5. AmountAt(redeemableValidatorRewards', id) = 0 /\ MintedFor(id)' = after
  BY <1>3, <1>4 DEF AmountAt, MintedFor
<1>6. ASSUME NEW other, other # id
      PROVE  EarnedBy(other)' = EarnedBy(other)
  BY <1>3, <1>4, <1>6 DEF EarnedBy, AmountAt, MintedFor, NothingMinted
<1>7. /\ \A a \in Accounts : before[a] \in Nat /\ after[a] \in Nat
      /\ after[recipient] = before[recipient] + reward
      /\ \A a \in Accounts \ {recipient} : after[a] = before[a]
  BY <1>2
<1> HIDE DEF before, after, reward
<1>8. Total(after, Accounts) = Total(before, Accounts) - before[recipient] + after[recipient]
  BY <1>7, TotalChange, RewardAssumption
<1>9. Total(after, Accounts) = Total(before, Accounts) + reward
  BY <1>2, <1>7, <1>8
<1>10. EarnedBy(id)' = 0 + Total(after, Accounts) /\ EarnedBy(id) = reward + Total(before, Accounts)
  BY <1>5 DEF EarnedBy, before, reward
<1>11. EarnedBy(id)' = EarnedBy(id)
  BY <1>2, <1>9, <1>10
<1> QED BY <1>3, <1>4, <1>6, <1>11

Ended == {"PendingRemoved", "Completed"}

\* The times, the stake and the uptime of a validation stay when it has ended.
PeriodKept(id) ==
  /\ id \in DOMAIN validationPeriods'
  /\ validationPeriods'[id].startingWeight = validationPeriods[id].startingWeight
  /\ validationPeriods'[id].status \in Ended
  /\ validationPeriods'[id].startedAt = validationPeriods[id].startedAt
  /\ validationPeriods'[id].endedAt = validationPeriods[id].endedAt

EndKept(id) ==
  validationPeriods[id].status \in Ended => PeriodKept(id) /\ UptimeOf(id)' = UptimeOf(id)

\* A validation that is not asked to end has earned nothing.
LEMMA UnendedEarnedNothing ==
  ASSUME PosTypeOK, RewardsEarned, NEW id \in DOMAIN validationPeriods,
         validationPeriods[id].status \notin Ended
  PROVE  EarnedBy(id) = 0
<1>1. EarnedBy(id) \in Nat
  BY EarnedType
<1>2. ~(EarnedBy(id) > 0)
  BY DEF RewardsEarned, Ended
<1> QED BY <1>1, <1>2

\* An ID that is registered has earned nothing, whatever its last validation had; the earnings of
\* others stay (_initializeValidatorRegistration).
LEMMA RegistrationForgets ==
  ASSUME StakingInv, NEW owner \in Accounts \cup {ZeroAddress}, NEW node, NEW expiry,
         NEW minStakeDuration, NEW stake,
         InitializePoSRegistration(owner, node, expiry, minStakeDuration, stake)
  PROVE  /\ EarnedBy(ValidationID(node, ValueToWeight(stake), expiry))' = 0
         /\ \A other : other # ValidationID(node, ValueToWeight(stake), expiry) =>
              EarnedBy(other)' = EarnedBy(other)
<1> DEFINE id == ValidationID(node, ValueToWeight(stake), expiry)
<1>1. /\ InitializeRegistration(id)
      /\ rewardsMinted' = Without(rewardsMinted, id)
      /\ redeemableValidatorRewards' = redeemableValidatorRewards
  BY DEF InitializePoSRegistration
<1> HIDE DEF id
<1>2. id \notin Validations(Live)
  BY <1>1, RegistrationIsNotLive DEF StakingInv
<1>3. AmountAt(redeemableValidatorRewards, id) = 0
  <2>1. CASE id \in DOMAIN redeemableValidatorRewards
    <3>1. ~(redeemableValidatorRewards[id] > 0)
      BY <1>2, <2>1 DEF StakingInv, OwnedEntries, PosTypeOK, Validations, Live
    <3>2. redeemableValidatorRewards[id] \in Nat
      BY <2>1 DEF StakingInv, PosTypeOK
    <3> QED BY <2>1, <3>1, <3>2 DEF AmountAt
  <2>2. CASE id \notin DOMAIN redeemableValidatorRewards
    BY <2>2 DEF AmountAt
  <2> QED BY <2>1, <2>2
<1>4. /\ DOMAIN rewardsMinted' = DOMAIN rewardsMinted \ {id}
      /\ \A other \in DOMAIN rewardsMinted' : rewardsMinted'[other] = rewardsMinted[other]
  BY <1>1 DEF Without, Restrict
<1>5. MintedFor(id)' = NothingMinted
  BY <1>4 DEF MintedFor, NothingMinted
<1>6. Total(NothingMinted, Accounts) = 0
  <2>1. \A a \in Accounts : NothingMinted[a] = 0
    BY DEF NothingMinted
  <2> QED BY <2>1, TotalZero
<1>7. EarnedBy(id)' = AmountAt(redeemableValidatorRewards, id) + Total(NothingMinted, Accounts)
  BY <1>1, <1>5 DEF EarnedBy, AmountAt
<1>8. EarnedBy(id)' = 0
  BY <1>3, <1>6, <1>7
<1>9. \A other : other # id => EarnedBy(other)' = EarnedBy(other)
  BY <1>1, <1>4 DEF EarnedBy, AmountAt, MintedFor, NothingMinted
<1> QED BY <1>8, <1>9 DEF id

\* An entry written for an owner leaves other validations as they are.
LEMMA RegistrationKeepsEnds ==
  ASSUME StakingInv, NEW owner \in Accounts \cup {ZeroAddress}, NEW node, NEW expiry,
         NEW minStakeDuration, NEW stake,
         InitializePoSRegistration(owner, node, expiry, minStakeDuration, stake),
         NEW id \in DOMAIN posValidatorInfo,
         id # ValidationID(node, ValueToWeight(stake), expiry)
  PROVE  EndKept(id)
<1> DEFINE other == ValidationID(node, ValueToWeight(stake), expiry)
           info == [owner |-> owner, minStakeDuration |-> minStakeDuration, uptimeSeconds |-> 0]
<1>1. /\ InitializeRegistration(other) /\ id # other
      /\ posValidatorInfo' = SetFor(owner, posValidatorInfo, other, info)
      /\ ManagerTypeOK /\ id \in DOMAIN validationPeriods
  BY DEF InitializePoSRegistration, StakingInv, ManagerCore, PosTypeOK
<1> HIDE DEF other, info
<1>2. /\ DOMAIN validationPeriods' = DOMAIN validationPeriods \cup {other}
      /\ \A x \in DOMAIN validationPeriods \ {other} : validationPeriods'[x] = validationPeriods[x]
  BY <1>1, InitializeRegistrationFrame
<1>3. WrittenFor(owner, posValidatorInfo, other, info, posValidatorInfo')
  BY <1>1, SetForFrame
<1>4. id \in DOMAIN posValidatorInfo' /\ posValidatorInfo'[id] = posValidatorInfo[id]
  BY <1>1, <1>3 DEF WrittenFor
<1> QED BY <1>1, <1>2, <1>4 DEF EndKept, PeriodKept, UptimeOf, IsPoSValidator

\* The uptime of a validation is written while it is active, which it is no longer when it has ended.
LEMMA UptimeOfOthersStays ==
  ASSUME StakingInv, NEW other \in DOMAIN posValidatorInfo,
         NEW proof \in UptimeProofs \cup {NoProof}, Status(other) = "Active",
         posValidatorInfo' =
           [posValidatorInfo EXCEPT ![other].uptimeSeconds = UpdatedUptime(other, proof)],
         NEW id \in DOMAIN posValidatorInfo, validationPeriods[id].status \in Ended
  PROVE  UptimeOf(id)' = UptimeOf(id)
<1>1. PosTypeOK /\ id \in DOMAIN validationPeriods
  BY DEF StakingInv, PosTypeOK
<1>2. other # id
  BY <1>1 DEF Status, Ended
<1>3. /\ DOMAIN posValidatorInfo' = DOMAIN posValidatorInfo
      /\ posValidatorInfo'[id] = posValidatorInfo[id]
  BY <1>1, <1>2, UptimeWritten
<1> QED BY <1>3 DEF UptimeOf, IsPoSValidator

\* An end of a validation of an owner is kept whatever a staking contract does, until its ID is
\* registered again and what it has earned is forgotten.
LEMMA EndsAreKept ==
  ASSUME StakingInv, StakingStep, NEW id \in DOMAIN posValidatorInfo
  PROVE  EndKept(id) \/ EarnedBy(id)' = 0
<1> DEFINE ended == validationPeriods[id].status \in Ended
<1>1. ManagerTypeOK /\ id \in DOMAIN validationPeriods
  BY DEF StakingInv, ManagerCore, PosTypeOK
<1>2. ASSUME UNCHANGED validationPeriods, ended
      PROVE  PeriodKept(id)
  BY <1>1, <1>2 DEF PeriodKept
<1>3. ASSUME UNCHANGED posValidatorInfo
      PROVE  UptimeOf(id)' = UptimeOf(id)
  BY <1>3 DEF UptimeOf, IsPoSValidator
<1>4. ASSUME NEW other \in DOMAIN validationPeriods, NEW endedAt \in Nat,
             InitializeEndValidation(other, endedAt), ended
      PROVE  PeriodKept(id)
  BY <1>1, <1>4, InitializeEndValidationFrame DEF PeriodKept, Ended
<1>5. ASSUME NEW other \in DOMAIN validationPeriods, CompleteEnd(other), ended
      PROVE  PeriodKept(id)
  BY <1>1, <1>5, CompleteEndFrame DEF PeriodKept, Ended
<1>6. CASE ManagerStep /\ UNCHANGED posVars
  <2>1. ASSUME NEW other \in DOMAIN validationPeriods, CompleteValidatorRegistration(other), ended
        PROVE  PeriodKept(id)
    BY <1>1, <2>1, CompleteValidatorRegistrationFrame DEF PeriodKept, Ended
  <2>2. ended => PeriodKept(id)
    BY <1>1, <1>2, <1>6, <2>1, ManagerStepFrame DEF StakingInv
  <2> QED BY <1>3, <1>6, <2>2 DEF EndKept, posVars
<1>7. ASSUME NEW other \in DOMAIN validationPeriods, EndsUnowned(other)
      PROVE  EndKept(id)
  BY <1>1, <1>3, <1>4, <1>7 DEF EndsUnowned, ManagerTypeOK, EndKept, posVars
<1>8. ASSUME NEW other \in DOMAIN validationPeriods, NEW sender,
             NEW proof \in UptimeProofs \cup {NoProof}, NEW recipient,
             NEW endedAt \in Nat, NEW accrued,
             EndsOwned(other, sender, proof, recipient, endedAt, accrued)
      PROVE  EndKept(id)
  <2>1. /\ other \in DOMAIN posValidatorInfo
        /\ InitializeEndValidation(other, endedAt)
        /\ posValidatorInfo' =
             [posValidatorInfo EXCEPT ![other].uptimeSeconds = UpdatedUptime(other, proof)]
    BY <1>8 DEF EndsOwned, InitializeEndPoSValidation, IsPoSValidator
  <2>2. Status(other) = "Active"
    BY <2>1 DEF InitializeEndValidation
  <2> QED BY <1>4, <2>1, <2>2, UptimeOfOthersStays DEF EndKept
<1>9. ASSUME NEW other, NEW proof \in UptimeProofs, SubmitUptimeProof(other, proof)
      PROVE  EndKept(id)
  <2>1. /\ other \in DOMAIN posValidatorInfo /\ Status(other) = "Active"
        /\ posValidatorInfo' =
             [posValidatorInfo EXCEPT ![other].uptimeSeconds = UpdatedUptime(other, proof)]
        /\ UNCHANGED validationPeriods
    BY <1>9 DEF SubmitUptimeProof, IsPoSValidator, managerVars
  <2> QED BY <1>2, <2>1, UptimeOfOthersStays DEF EndKept
<1>10. ASSUME NEW other, NEW a, ChangeValidatorRewardRecipient(other, a)
       PROVE  EndKept(id)
  BY <1>2, <1>3, <1>10 DEF ChangeValidatorRewardRecipient, managerVars, EndKept
<1>11. ASSUME NEW other, ClaimDelegationFees(other)
       PROVE  EndKept(id)
  BY <1>2, <1>3, <1>11 DEF ClaimDelegationFees, managerVars, EndKept
<1>12. ASSUME NEW other, RegistersUnowned(other)
       PROVE  EndKept(id)
  <2>1. /\ DOMAIN validationPeriods' = DOMAIN validationPeriods \cup {other} /\ other # id
        /\ \A x \in DOMAIN validationPeriods \ {other} :
             validationPeriods'[x] = validationPeriods[x]
    BY <1>1, <1>12, InitializeRegistrationFrame DEF RegistersUnowned, IsPoSValidator
  <2>2. UNCHANGED posValidatorInfo
    BY <1>12 DEF RegistersUnowned, posVars
  <2> QED BY <1>1, <1>3, <2>1, <2>2 DEF EndKept, PeriodKept
<1>13. ASSUME NEW owner \in Accounts \cup {ZeroAddress}, NEW node, NEW expiry,
              NEW minStakeDuration, NEW stake,
              InitializePoSRegistration(owner, node, expiry, minStakeDuration, stake)
       PROVE  EndKept(id) \/ EarnedBy(id)' = 0
  <2>1. CASE id = ValidationID(node, ValueToWeight(stake), expiry)
    BY <1>13, <2>1, RegistrationForgets
  <2>2. CASE id # ValidationID(node, ValueToWeight(stake), expiry)
    BY <1>13, <2>2, RegistrationKeepsEnds
  <2> QED BY <2>1, <2>2
<1>14. ASSUME NEW other \in DOMAIN validationPeriods, CompleteEndValidation(other)
       PROVE  EndKept(id)
  <2>1. CompleteEnd(other) /\ UNCHANGED posValidatorInfo
    BY <1>14 DEF CompleteEndValidation, posVars
  <2> QED BY <1>3, <1>5, <2>1 DEF EndKept
<1>15. CASE UNCHANGED <<managerVars, posVars>>
  BY <1>2, <1>3, <1>15 DEF managerVars, posVars, EndKept
<1> QED BY <1>6, <1>7, <1>8, <1>9, <1>10, <1>11, <1>12, <1>13, <1>14, <1>15 DEF StakingStep

\* What was earned stays within its bounds while nothing is earned.
LEMMA EarningsKept ==
  ASSUME StakingInv, RewardsEarned, NothingEarns,
         \A id \in DOMAIN posValidatorInfo : EndKept(id) \/ EarnedBy(id)' = 0
  PROVE  RewardsEarned'
<1> SUFFICES ASSUME NEW id \in DOMAIN validationPeriods', EarnedBy(id)' > 0
             PROVE  LET v == validationPeriods'[id]
                    IN /\ v.status \in Ended
                       /\ EarnedBy(id)' <= (StakeOf(id)' * (v.endedAt - v.startedAt)) \div RewardDivisor
                       /\ EarnedBy(id)' <= (StakeOf(id)' * RewardCap) \div RewardDivisor
                       /\ UptimeOf(id)' * 100 >= RewardedTime(v.startedAt, v.endedAt) * 80
  BY DEF RewardsEarned, Ended
<1>1. EarnedBy(id)' = EarnedBy(id) /\ EarnedBy(id) > 0
  BY DEF NothingEarns
<1>2. id \in DOMAIN posValidatorInfo
  BY <1>1, NothingEarned DEF StakingInv, OwnedEntries, PosTypeOK
<1>3. id \in DOMAIN validationPeriods
  BY <1>2 DEF StakingInv, PosTypeOK
<1> DEFINE v == validationPeriods[id]
           w == validationPeriods'[id]
<1>4. /\ v.status \in Ended
      /\ EarnedBy(id) <= (StakeOf(id) * (v.endedAt - v.startedAt)) \div RewardDivisor
      /\ EarnedBy(id) <= (StakeOf(id) * RewardCap) \div RewardDivisor
      /\ UptimeOf(id) * 100 >= RewardedTime(v.startedAt, v.endedAt) * 80
  BY <1>1, <1>3 DEF RewardsEarned, Ended
<1>5. EndKept(id)
  BY <1>1, <1>2
<1>6. /\ w.status \in Ended /\ w.startedAt = v.startedAt /\ w.endedAt = v.endedAt
      /\ UptimeOf(id)' = UptimeOf(id)
  BY <1>4, <1>5 DEF EndKept, PeriodKept
<1>7. StakeOf(id)' = StakeOf(id)
  BY <1>4, <1>5 DEF EndKept, PeriodKept, StakeOf, WeightToValue
<1> HIDE DEF v
<1> QED BY <1>1, <1>4, <1>6, <1>7

\* The end of a validation earns what accrues and nothing more (_initializeEndPoSValidation).
LEMMA EndEarns ==
  ASSUME StakingInv, RewardsEarned, NEW id \in DOMAIN validationPeriods, NEW sender \in Accounts,
         NEW proof \in UptimeProofs \cup {NoProof}, NEW recipient \in Accounts,
         NEW endedAt \in Nat, NEW accrued \in Nat,
         EndsOwned(id, sender, proof, recipient, endedAt, accrued)
  PROVE  /\ EarnedBy(id)' = accrued
         /\ \A other : other # id => EarnedBy(other)' = EarnedBy(other)
         /\ RewardsEarned'
<1> DEFINE reward == RewardAtEnd(id, proof, endedAt)
           held == AmountAt(redeemableValidatorRewards, id)
           v == validationPeriods[id]
<1>1. /\ InitializeEndPoSValidation(id, sender, proof, recipient, endedAt, accrued)
      /\ InitializeEndValidation(id, endedAt) /\ IsPoSValidator(id) /\ endedAt <= now
      /\ redeemableValidatorRewards' = Set(redeemableValidatorRewards, id, accrued)
      /\ rewardsMinted' = rewardsMinted
      /\ accrued \in {0, held + reward}
      /\ posValidatorInfo' =
           [posValidatorInfo EXCEPT ![id].uptimeSeconds = UpdatedUptime(id, proof)]
  BY DEF EndsOwned, InitializeEndPoSValidation
<1>2. id \in DOMAIN posValidatorInfo /\ endedAt >= v.startedAt /\ reward \in Nat
  BY <1>1, EndIsLate
<1>3. v.status = "Active" /\ v \in Validation
  BY <1>1 DEF InitializeEndValidation, Status, StakingInv, ManagerCore, ManagerTypeOK, Validation
<1>4. EarnedBy(id) = 0 /\ held \in Nat /\ Total(MintedFor(id), Accounts) \in Nat
  BY <1>3, EarnedType, UnendedEarnedNothing DEF StakingInv, Ended
<1>5. held = 0 /\ Total(MintedFor(id), Accounts) = 0
  BY <1>4 DEF EarnedBy
<1>6. accrued \in {0, reward}
  BY <1>1, <1>2, <1>5
<1>7. /\ DOMAIN redeemableValidatorRewards' = DOMAIN redeemableValidatorRewards \cup {id}
      /\ redeemableValidatorRewards'[id] = accrued
      /\ \A other \in DOMAIN redeemableValidatorRewards \ {id} :
           redeemableValidatorRewards'[other] = redeemableValidatorRewards[other]
  BY <1>1 DEF Set
<1>8. EarnedBy(id)' = accrued
  <2>1. EarnedBy(id)' = accrued + Total(MintedFor(id), Accounts)
    BY <1>1, <1>7 DEF EarnedBy, AmountAt, MintedFor
  <2> QED BY <1>5, <2>1
<1>9. \A other : other # id => EarnedBy(other)' = EarnedBy(other)
  BY <1>1, <1>7 DEF EarnedBy, AmountAt, MintedFor
<1>10. /\ DOMAIN validationPeriods' = DOMAIN validationPeriods
       /\ validationPeriods'[id].status = "PendingRemoved"
       /\ validationPeriods'[id].startedAt = v.startedAt
       /\ validationPeriods'[id].endedAt = endedAt
       /\ validationPeriods'[id].startingWeight = v.startingWeight
       /\ \A other \in DOMAIN validationPeriods \ {id} :
            validationPeriods'[other] = validationPeriods[other]
  BY <1>1, InitializeEndValidationFrame DEF StakingInv, ManagerCore
<1>11. \A other \in DOMAIN validationPeriods : StakeOf(other)' = StakeOf(other)
  BY <1>10 DEF StakeOf, WeightToValue
<1> DEFINE enough == UpdatedUptime(id, proof) * 100 >= RewardedTime(v.startedAt, endedAt) * 80
<1>12. /\ reward <= (StakeOf(id) * (endedAt - v.startedAt)) \div RewardDivisor
       /\ reward <= (StakeOf(id) * RewardCap) \div RewardDivisor
       /\ reward > 0 => enough
  <2>1. StakeOf(id) \in Nat /\ v.startedAt \in Nat
    BY <1>3, WeightToValueType, WeightAssumption DEF StakeOf, Validation
  <2>2. UpdatedUptime(id, proof) \in Nat
    BY <1>2, UptimeType DEF StakingInv
  <2> QED BY <1>2, <2>1, <2>2, RewardIsCapped DEF RewardAtEnd, StakeOf
<1>13. /\ UptimeOf(id)' = UpdatedUptime(id, proof)
       /\ \A other : other # id => UptimeOf(other)' = UptimeOf(other)
  <2>1. PosTypeOK
    BY DEF StakingInv
  <2> QED BY <1>1, <1>2, <2>1, UptimeWritten DEF UptimeOf, IsPoSValidator
<1> DEFINE atEnd == (StakeOf(id) * (endedAt - v.startedAt)) \div RewardDivisor
           atCap == (StakeOf(id) * RewardCap) \div RewardDivisor
<1>14. enough => UptimeOf(id)' * 100 >= RewardedTime(v.startedAt, endedAt) * 80
  BY <1>13
<1> HIDE DEF reward, held
<1>15. accrued > 0 => accrued <= atEnd /\ accrued <= atCap /\ enough
  <2> HIDE DEF v, enough
  <2> QED BY <1>6, <1>12
<1>16. RewardsEarned'
  <2> SUFFICES ASSUME NEW other \in DOMAIN validationPeriods, EarnedBy(other)' > 0
               PROVE  LET w == validationPeriods'[other]
                      IN /\ w.status \in {"PendingRemoved", "Completed"}
                         /\ EarnedBy(other)' <=
                              (StakeOf(other)' * (w.endedAt - w.startedAt)) \div RewardDivisor
                         /\ EarnedBy(other)' <= (StakeOf(other)' * RewardCap) \div RewardDivisor
                         /\ UptimeOf(other)' * 100 >= RewardedTime(w.startedAt, w.endedAt) * 80
    BY <1>10 DEF RewardsEarned
  <2>1. CASE other = id
    <3> HIDE DEF v, enough
    <3> QED BY <1>8, <1>10, <1>11, <1>14, <1>15, <2>1
  <2>2. CASE other # id
    BY <1>9, <1>10, <1>11, <1>13, <2>2 DEF RewardsEarned
  <2> QED BY <2>1, <2>2
<1> QED BY <1>8, <1>9, <1>16

\* The acknowledgment of an end mints what was earned and earns nothing (completeEndValidation).
LEMMA CompletionEarnsNothing ==
  ASSUME StakingInv, NEW id \in DOMAIN validationPeriods, CompleteEndValidation(id)
  PROVE  NothingEarns
<1>1. CASE UNCHANGED <<redeemableValidatorRewards, rewardsMinted>>
  BY <1>1 DEF NothingEarns, EarnedBy, AmountAt, MintedFor
<1>2. CASE IsPoSValidator(id) /\ WithdrawValidationRewards(RewardPayee(id), id)
  <2>1. RewardPayee(id) \in Accounts /\ PosTypeOK
    BY <1>2 DEF RewardPayee, IsPoSValidator, StakingInv, PosTypeOK
  <2> QED BY <1>2, <2>1, WithdrawEarnsNothing DEF NothingEarns
<1> QED BY <1>1, <1>2 DEF CompleteEndValidation, posVars

\* A claim mints what is redeemable and earns nothing (claimDelegationFees).
LEMMA ClaimEarnsNothing ==
  ASSUME StakingInv, NEW id, ClaimDelegationFees(id)
  PROVE  NothingEarns
<1>1. /\ posValidatorInfo[id].owner \in Accounts /\ PosTypeOK
      /\ WithdrawValidationRewards(posValidatorInfo[id].owner, id)
  BY DEF ClaimDelegationFees, IsPoSValidator, StakingInv, PosTypeOK
<1> QED BY <1>1, WithdrawEarnsNothing DEF NothingEarns

\* Nothing but the end of a validation of an owner earns.
LEMMA OnlyEndsEarn ==
  ASSUME StakingInv, StakingStep
  PROVE  \/ NothingEarns
         \/ \E id \in DOMAIN validationPeriods, sender \in Accounts,
               proof \in UptimeProofs \cup {NoProof}, recipient \in Accounts, endedAt \in Nat,
               accrued \in Nat : EndsOwned(id, sender, proof, recipient, endedAt, accrued)
<1>1. ASSUME UNCHANGED <<redeemableValidatorRewards, rewardsMinted>>
      PROVE  NothingEarns
  BY <1>1 DEF NothingEarns, EarnedBy, AmountAt, MintedFor
<1>2. CASE UNCHANGED posVars
  BY <1>1, <1>2 DEF posVars
<1>3. ASSUME NEW id, RegistersUnowned(id) \/ EndsUnowned(id)
      PROVE  UNCHANGED posVars
  BY <1>3 DEF RegistersUnowned, EndsUnowned
<1>4. ASSUME NEW owner \in Accounts \cup {ZeroAddress}, NEW node, NEW expiry,
             NEW minStakeDuration, NEW stake,
             InitializePoSRegistration(owner, node, expiry, minStakeDuration, stake)
      PROVE  NothingEarns
  BY <1>4, RegistrationForgets DEF NothingEarns
<1>5. ASSUME NEW id, NEW proof, SubmitUptimeProof(id, proof)
      PROVE  UNCHANGED <<redeemableValidatorRewards, rewardsMinted>>
  BY <1>5 DEF SubmitUptimeProof
<1>6. ASSUME NEW id, NEW a, ChangeValidatorRewardRecipient(id, a)
      PROVE  UNCHANGED <<redeemableValidatorRewards, rewardsMinted>>
  BY <1>6 DEF ChangeValidatorRewardRecipient
<1> QED BY <1>1, <1>2, <1>3, <1>4, <1>5, <1>6, CompletionEarnsNothing, ClaimEarnsNothing
        DEF StakingStep

\* What validations earn stays within its bounds whatever a staking contract does.
LEMMA StakingStepKeepsEarnings ==
  ASSUME StakingInv, StakingStep, RewardsEarned
  PROVE  RewardsEarned'
<1>1. \A id \in DOMAIN posValidatorInfo : EndKept(id) \/ EarnedBy(id)' = 0
  BY EndsAreKept
<1> QED BY <1>1, OnlyEndsEarn, EarningsKept, EndEarns

=============================================================================
