--------------------------- MODULE MCTokenTransfer ---------------------------
(***************************************************************************)
(* TokenTransfer for TLC: a native remote with more decimals than the home *)
(* token and a reserve that no number of home tokens matches, an ERC20     *)
(* remote with fewer decimals, one that was told the wrong decimals of the *)
(* home token, and a contract of other code.  With base 2, one decimal is  *)
(* a factor of 2.                                                          *)
(***************************************************************************)
EXTENDS TokenTransfer, TLC

CONSTANTS Native, Erc20, Misled, Foreign

MCDecimals == [r \in Remotes |-> IF r \in {Native, Misled} THEN 2 ELSE IF r = Erc20 THEN 0 ELSE 1]
MCClaimed == [r \in Remotes |-> IF r = Misled THEN 2 ELSE 1]
MCReserve == [r \in Remotes |-> IF r = Native THEN 1 ELSE 0]
=============================================================================
