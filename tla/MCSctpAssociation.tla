-------------------------- MODULE MCSctpAssociation --------------------------
(***************************************************************************)
(* Model-checking instance of SctpAssociation: three DataChannel messages  *)
(* from the browser (so that a second OPEN can follow a STRING), one       *)
(* HEARTBEAT, one keep-alive, one retransmission per chunk; the loss       *)
(* budget is chosen per run in the .cfg files.                             *)
(* The session's initial local_tsn is not in the repository; any value     *)
(* distinct from the browser's shows the same behaviours.                  *)
(***************************************************************************)
EXTENDS SctpAssociation

MC_InitialTsn == 5
MC_PeerInitialTsn == 1
MC_MaxMsgs == 3
MC_MaxHb == 1
MC_MaxKeepAlive == 1
MC_MaxRtx == 1
=============================================================================
