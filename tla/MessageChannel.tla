--------------------------- MODULE MessageChannel ---------------------------
(***************************************************************************)
(* What the messengers promise to the applications of a set of chains:     *)
(* each message is executed at most once, on the chain it is sent to and   *)
(* in any order.  A message whose execution failed is kept until it has    *)
(* been executed.  A step is a transaction of one chain: it may send       *)
(* messages and execute those that others have sent before.                *)
(***************************************************************************)
EXTENDS Naturals

CONSTANT Chains

VARIABLES
  executions, \* [<<source, destination, nonce>> -> how often the message was executed]
  failed      \* the messages whose execution failed, to be retried

channelVars == <<executions, failed>>

Sent == DOMAIN executions

ChannelInit ==
  /\ executions = [id \in {} |-> 0]
  /\ failed = {}

\* The messages that a step executes.
Done == {id \in Sent : executions'[id] # executions[id]}

Sends(c) ==
  /\ Sent \subseteq Sent'
  /\ \A id \in Sent' \ Sent : id[1] = c /\ executions'[id] = 0

Executes(c) == \A id \in Done : id[2] = c /\ executions[id] = 0 /\ executions'[id] = 1

Fails(c) ==
  /\ \A id \in failed' \ failed : id \in Sent \ Done /\ id[2] = c /\ executions[id] = 0
  /\ failed \ failed' \subseteq Done

Transaction(c) == Sends(c) /\ Executes(c) /\ Fails(c)

Channel == ChannelInit /\ [][\E c \in Chains : Transaction(c)]_channelVars

=============================================================================
