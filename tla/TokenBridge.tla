----------------------------- MODULE TokenBridge -----------------------------
(***************************************************************************)
(* What a token home and its remotes promise together.  Notes of a remote  *)
(* are worth home tokens held in a vault.  There are more of them only     *)
(* when tokens are locked for them and fewer only when the vault pays      *)
(* for them, never more than they are worth; a remote may start with a     *)
(* reserve of notes, which are not paid for and have to be backed before   *)
(* any others are issued.                                                  *)
(***************************************************************************)
EXTENDS Integers

CONSTANTS
  Remotes,
  Careless,    \* the remotes that may give notes up for nothing
  Reserve,     \* [remote -> notes it starts with]
  Backing(_,_) \* the tokens that back a number of notes of a remote, rounded up

VARIABLES
  vault, \* home tokens held
  notes, \* [remote -> notes], in the hands of holders or under way
  owed,  \* [remote -> tokens still missing to back its reserve]
  known  \* the remotes that the home knows

bridgeVars == <<vault, notes, owed, known>>

BridgeInit ==
  /\ vault = 0
  /\ notes = Reserve
  /\ owed = [r \in Remotes |-> 0]
  /\ known = {}

Know(r) ==
  /\ r \notin known
  /\ known' = known \cup {r}
  /\ owed' = [owed EXCEPT ![r] = Backing(r, Reserve[r])]
  /\ UNCHANGED <<vault, notes>>

Back(r) ==
  /\ r \in known
  /\ owed'[r] \in 0..(owed[r] - 1)
  /\ owed' = [owed EXCEPT ![r] = owed'[r]]
  /\ vault' = vault + owed[r] - owed'[r]
  /\ UNCHANGED <<notes, known>>

Usable(r) == r \in known /\ owed[r] = 0

Issue(r) ==
  /\ Usable(r)
  /\ notes'[r] > notes[r]
  /\ notes' = [notes EXCEPT ![r] = notes'[r]]
  /\ vault' >= vault + Backing(r, notes'[r] - notes[r])
  /\ UNCHANGED <<owed, known>>

Redeem(r) ==
  /\ Usable(r)
  /\ notes'[r] \in Reserve[r]..(notes[r] - 1)
  /\ notes' = [notes EXCEPT ![r] = notes'[r]]
  /\ vault' >= vault - Backing(r, notes[r] - notes'[r])
  /\ vault' < vault
  /\ UNCHANGED <<owed, known>>

Forfeit(r) ==
  /\ r \in Careless
  /\ notes'[r] \in Reserve[r]..(notes[r] - 1)
  /\ notes' = [notes EXCEPT ![r] = notes'[r]]
  /\ UNCHANGED <<vault, owed, known>>

\* Notes of one remote become notes of another, and part of their worth pays for the way.
Convert(r, q) ==
  /\ r # q
  /\ Usable(r) /\ Usable(q)
  /\ notes'[r] \in Reserve[r]..(notes[r] - 1)
  /\ notes'[q] > notes[q]
  /\ notes' = [notes EXCEPT ![r] = notes'[r], ![q] = notes'[q]]
  /\ vault' <= vault
  /\ vault' >= vault - Backing(r, notes[r] - notes'[r]) + Backing(q, notes'[q] - notes[q])
  /\ UNCHANGED <<owed, known>>

BridgeNext ==
  \/ \E r \in Remotes : Know(r) \/ Back(r) \/ Issue(r) \/ Redeem(r) \/ Forfeit(r)
  \/ \E r, q \in Remotes : Convert(r, q)

Bridge == BridgeInit /\ [][BridgeNext]_bridgeVars
=============================================================================
