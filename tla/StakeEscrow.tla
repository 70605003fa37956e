----------------------------- MODULE StakeEscrow -----------------------------
(***************************************************************************)
(* What a staking contract promises about stakes: each is kept until its   *)
(* validation has ended and then goes back, once, to its owner, less a     *)
(* remainder of under one unit.  The ID of a validation that is over may   *)
(* be used again for another stake.  A stake without an owner is forfeit.  *)
(***************************************************************************)
EXTENDS Naturals, Functions

CONSTANTS
  Accounts,
  Unit  \* the value that one unit of weight stands for

VARIABLES
  deposits, \* [ID -> [owner, value]], the stakes kept
  returned, \* [account -> what went back to it]
  held      \* the tokens of the contract

escrowVars == <<deposits, returned, held>>

EscrowInit ==
  /\ deposits = [id \in {} |-> id]
  /\ returned = [a \in Accounts |-> 0]
  /\ held = 0

Deposit(id) ==
  /\ id \notin DOMAIN deposits
  /\ DOMAIN deposits' = DOMAIN deposits \cup {id}
  /\ deposits'[id].owner \in Accounts
  /\ deposits'[id].value \in Nat
  /\ \A other \in DOMAIN deposits : deposits'[other] = deposits[other]
  /\ held' = held + deposits'[id].value
  /\ UNCHANGED returned

Return(id, amount) ==
  /\ amount <= deposits[id].value
  /\ deposits[id].value - amount < Unit
  /\ deposits' = Restrict(deposits, DOMAIN deposits \ {id})
  /\ returned' = [returned EXCEPT ![deposits[id].owner] = @ + amount]
  /\ held' = held - amount

Forfeit ==
  /\ held' > held
  /\ UNCHANGED <<deposits, returned>>

EscrowNext ==
  \/ \E id \in DOMAIN deposits' : Deposit(id)
  \/ \E id \in DOMAIN deposits : \E amount \in 0 .. deposits[id].value : Return(id, amount)
  \/ Forfeit

Escrow == EscrowInit /\ [][EscrowNext]_escrowVars

=============================================================================
