----------------------- MODULE MCTeleporterRegistryApp -----------------------
(***************************************************************************)
(* TeleporterRegistryApp for TLC: versions may come in out of order, and   *)
(* two apps are governed side by side.                                     *)
(***************************************************************************)
EXTENDS TeleporterRegistryApp, TLC

CONSTANTS t1, t2, a1, a2

MCCalls == OwnerCalls
=============================================================================
