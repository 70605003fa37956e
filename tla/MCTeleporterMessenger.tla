----------------------- MODULE MCTeleporterMessenger -----------------------
(* Small networks of TeleporterMessengers for TLC. *)
EXTENDS TeleporterMessenger, TLC

CONSTANTS A, B, R1, Usdc

\* A warp message of another contract on B, in the format of a TeleporterMessage, with a receipt for
\* the first message from A.
MCForeign ==
  {[source |-> B, teleporter |-> FALSE,
    msg |-> [nonce |-> 1, destination |-> A, payload |-> TRUE, allowed |-> {},
             receipts |-> <<[nonce |-> 1, relayer |-> R1]>>]]}

MCRoutes == {<<A, B>>, <<B, A>>}

MCLiveNonce == A :> 1 @@ B :> 1

\* The messages of A pay fees, and all calls of fee tokens and their callbacks happen there.
MCFees == A :> {[asset |-> Usdc, amount |-> 2]} @@ B :> {[asset |-> NoAsset, amount |-> 0]}

MCMaxNonce == A :> 2 @@ B :> 1

MCAnyone == {{}}

MCLiveFees == [c \in {A, B} |-> {[asset |-> NoAsset, amount |-> 0]}]

MCOnlyR1 == {{R1}}

=============================================================================
