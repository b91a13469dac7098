--------------------------- MODULE DtlsSrtpSession ---------------------------
(***************************************************************************)
(* What one WebRTC session promises, seen from outside: it is spawned,     *)
(* lives, and is destroyed once; it installs its SRTP keys once, and only  *)
(* after the browser has finished its side of the DTLS handshake; the keys *)
(* never change afterwards; and it hands RTP to its subscribers only while *)
(* it is live and keyed.  Whether a key is a usable context or NULL is     *)
(* part of the state, since Handshake() may leave one NULL.                *)
(***************************************************************************)
EXTENDS Naturals

VARIABLES
    sLife,      \* "absent", "live" or "closed"
    peerDone,   \* the browser has finished the DTLS handshake
    keyed,      \* the session has finished it and installed its SRTP keys
    keys,       \* <<send context, receive context>>, each "null" or "ctx"
    nFwd        \* RTP packets handed to the subscribers

avars == <<sLife, peerDone, keyed, keys, nFwd>>

Contexts == {"null", "ctx"}

AInit ==
    /\ sLife = "absent"
    /\ peerDone = FALSE
    /\ keyed = FALSE
    /\ keys = <<"null", "null">>
    /\ nFwd = 0

AStart ==
    /\ sLife = "absent"
    /\ sLife' = "live"
    /\ UNCHANGED <<peerDone, keyed, keys, nFwd>>

APeerFinish ==
    /\ ~peerDone
    /\ peerDone' = TRUE
    /\ UNCHANGED <<sLife, keyed, keys, nFwd>>

AInstallKeys ==
    /\ sLife = "live"
    /\ peerDone
    /\ ~keyed
    /\ keyed' = TRUE
    /\ keys' \in Contexts \X Contexts
    /\ UNCHANGED <<sLife, peerDone, nFwd>>

AForward ==
    /\ sLife = "live"
    /\ keyed
    /\ nFwd' = nFwd + 1
    /\ UNCHANGED <<sLife, peerDone, keyed, keys>>

AClose ==
    /\ sLife = "live"
    /\ sLife' = "closed"
    /\ UNCHANGED <<peerDone, keyed, keys, nFwd>>

ANext == AStart \/ APeerFinish \/ AInstallKeys \/ AForward \/ AClose

\* Safety only: the code guarantees neither that the handshake finishes
\* nor that a session is ever destroyed (see HandshakeCompletes).
ASpec == AInit /\ [][ANext]_avars
=============================================================================
