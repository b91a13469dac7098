--------------------------- MODULE MCWebrtcSession ---------------------------
(***************************************************************************)
(* Model-checking instance of WebrtcSession: two RTP packets from the      *)
(* browser, one SendData call, a timeout of two seconds, and budgets of   *)
(* lost and duplicated datagrams chosen per run in the .cfg files.         *)
(***************************************************************************)
EXTENDS WebrtcSession

MC_MaxRtp == 2
MC_MaxFwd == 1
MC_RecvTimeout == 2
=============================================================================
