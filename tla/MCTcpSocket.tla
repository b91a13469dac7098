----------------------------- MODULE MCTcpSocket -----------------------------
(***************************************************************************)
(* Model-checking instance of TcpSocket: a kernel buffer of two bytes and  *)
(* Send calls of one to three bytes, six bytes in all, so that a call can   *)
(* be written in part, buffered behind an earlier one, or meet a full      *)
(* kernel buffer with write_buffer_ empty.                                 *)
(***************************************************************************)
EXTENDS TcpSocket

MC_KCap == 2
MC_MaxBytes == 6
MC_MaxLen == 3
=============================================================================
