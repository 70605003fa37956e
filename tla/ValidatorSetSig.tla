--------------------------- MODULE ValidatorSetSig ---------------------------
(***************************************************************************)
(* Calls that the validators of a chain sign and anybody executes          *)
(* (ValidatorSetSig.sol).  Any call may have been signed, for any nonce,   *)
(* and is presented whenever somebody likes, also again; messages that are *)
(* not signed by these validators or not meant for this contract are       *)
(* refused and left out.  A call that fails takes the whole execution      *)
(* back, and one that calls executeCall itself fails (nonReentrant).       *)
(***************************************************************************)
EXTENDS Integers, Sequences

CONSTANTS
  Targets,   \* contracts that are called
  Calls,     \* what they may be called with
  MaxNonce   \* bound: the calls executed per target

ASSUME SigAssumption == MaxNonce \in Nat

VARIABLES
  nonces,    \* [target -> the next nonce]
  delivered  \* [target -> sequence of messages], the Delivered events with their payloads

sigVars == <<nonces, delivered>>

Messages == [target : Targets, nonce : 0..(MaxNonce - 1), call : Calls]

SigInit ==
  /\ nonces = [a \in Targets |-> 0]
  /\ delivered = [a \in Targets |-> <<>>]

\* Mutant: a nonce may be left out.
ValidLaterNonce(m) == nonces[m.target] <= m.nonce

ValidateMessage(m) == nonces[m.target] = m.nonce

\* The state of this contract when the call of m succeeds.
Delivered(m) ==
  /\ ValidateMessage(m)
  /\ nonces' = [nonces EXCEPT ![m.target] = m.nonce + 1]
  /\ delivered' = [delivered EXCEPT ![m.target] = Append(@, m)]
=============================================================================
