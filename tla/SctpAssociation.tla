--------------------------- MODULE SctpAssociation ---------------------------
(***************************************************************************)
(* The SCTP association that carries the WebRTC DataChannel over DTLS     *)
(* (WebrtcProtocol::OnSctp, SendSctpData and EveryNSecond in               *)
(* src/src/webrtc_protocol.cpp), talking to the browser's SCTP stack.     *)
(*                                                                         *)
(* The session keeps no association state: OnSctp answers each chunk by   *)
(* its type alone.  What it keeps is sctp_session_.remote_tsn (the TSN of  *)
(* the last DATA chunk read), sctp_session_.local_tsn (the counter behind  *)
(* GetAndAddTsn) and datachannel_open_.  The browser is an RFC 4960       *)
(* endpoint: it sends INIT, answers the INIT-ACK with COOKIE-ECHO, sends   *)
(* DATA once the COOKIE-ACK has come, retransmits what is not             *)
(* acknowledged, and SACKs the DATA it receives.                           *)
(*                                                                         *)
(* Each DTLS record carries one SCTP packet with one chunk; a chunk is a    *)
(* record [type, tsn, ppid].  tsn is the chunk's TSN for DATA, the initial *)
(* TSN for INIT and INIT-ACK, the cumulative TSN ack for SACK and the TSN  *)
(* field of CWR.  DTLS over UDP may lose and reorder records.  A          *)
(* duplicated record is dropped by the DTLS replay window, SSL_read then   *)
(* returns -1 and OnDtls crashes at line 618 (see WebrtcSession); this     *)
(* module follows the runs without that crash, so copies come only from   *)
(* retransmission.  Ports, tags, checksums and payload bytes are           *)
(* abstracted away.                                                        *)
(***************************************************************************)
EXTENDS Integers, Sequences, FiniteSets

CONSTANTS
    InitialTsn,      \* the value sctp_session_.local_tsn starts at
    PeerInitialTsn,  \* the initial TSN of the browser's INIT
    MaxMsgs,         \* DataChannel messages the browser sends
    MaxHb,           \* HEARTBEATs the browser sends
    MaxKeepAlive,    \* EveryNSecond keep-alive messages the session sends
    MaxRtx,          \* retransmissions of one chunk before the browser gives up
    MaxLoss          \* DTLS records the network may lose

ASSUME SctpConstantsAssumption ==
    /\ InitialTsn \in Nat
    /\ PeerInitialTsn \in Nat
    /\ MaxMsgs \in Nat
    /\ MaxHb \in Nat
    /\ MaxKeepAlive \in Nat
    /\ MaxRtx \in Nat
    /\ MaxLoss \in Nat

\* DataChannel payloads the browser sends: a DATA_CHANNEL_OPEN on
\* DataChannelPPID_CONTROL, a message on DataChannelPPID_STRING, one on
\* DataChannelPPID_BINARY.  The session sends "ack" (DATA_CHANNEL_ACK) and
\* "string".
PeerPpids == {"open", "string", "binary"}
Ppids == PeerPpids \cup {"ack", "none"}

ChunkTypes == {"data", "init", "init_ack", "sack", "heartbeat",
               "heartbeat_ack", "cookie_echo", "cookie_ack", "cwr"}

Chunk(type, tsn, ppid) == [type |-> type, tsn |-> tsn, ppid |-> ppid]
Chunks == [type : ChunkTypes, tsn : Int, ppid : Ppids]

\* The TSNs of the browser's DATA chunks.
PeerTsns == PeerInitialTsn .. PeerInitialTsn + MaxMsgs - 1

VARIABLES
    remoteTsn,        \* sctp_session_.remote_tsn
    localTsn,         \* sctp_session_.local_tsn
    datachannelOpen,  \* datachannel_open_
    keepAlives,       \* EveryNSecond messages sent so far
    bState,           \* browser association state (RFC 4960 section 4)
    bPeerTsn,         \* the initial TSN of the INIT-ACK the browser accepted
    bRecvNext,        \* the browser's cumulative TSN ack point, plus one
    bRecvd,           \* TSNs of the session's DATA the browser has received
    bOut,             \* PPIDs of the browser's DATA, in TSN order
    bAcked,           \* highest cumulative TSN ack the browser has received
    bHb,              \* HEARTBEATs the browser has sent
    rtxCtl,           \* retransmissions of INIT and of COOKIE-ECHO
    rtxData,          \* retransmissions of each of the browser's DATA chunks
    toServer,         \* chunks in flight to the session
    toBrowser,        \* chunks in flight to the browser
    losses,           \* records lost so far
    rcvd,             \* history: TSNs of DATA the session has read
    sData             \* history: TSNs of DATA the session has sent

serverVars == <<remoteTsn, localTsn, datachannelOpen, keepAlives>>
peerVars == <<bState, bPeerTsn, bRecvNext, bRecvd, bOut, bAcked, bHb, rtxCtl, rtxData>>
netVars == <<toServer, toBrowser, losses>>
histVars == <<rcvd, sData>>
vars == <<serverVars, peerVars, netVars, histVars>>

TypeOK ==
    /\ remoteTsn \in {0} \cup PeerTsns
    /\ localTsn \in Nat
    /\ datachannelOpen \in BOOLEAN
    /\ keepAlives \in 0 .. MaxKeepAlive
    /\ bState \in {"closed", "cookie_wait", "cookie_echoed", "established"}
    /\ bPeerTsn \in Nat
    /\ bRecvNext \in Nat
    /\ bRecvd \subseteq Nat
    /\ bOut \in Seq(PeerPpids)
    /\ bAcked \in Int
    /\ bHb \in 0 .. MaxHb
    /\ rtxCtl \in [{"init", "cookie_echo"} -> 0 .. MaxRtx]
    /\ rtxData \in [PeerTsns -> 0 .. MaxRtx]
    /\ toServer \subseteq Chunks
    /\ toBrowser \subseteq Chunks
    /\ losses \in 0 .. MaxLoss
    /\ rcvd \subseteq Nat
    /\ sData \subseteq Nat

\* Members of sctp_session_ have no initialiser in this repository (the
\* header is not part of it); datachannel_open_ is false by the
\* constructor.  The browser starts closed, its cumulative ack just below
\* its initial TSN.
Init ==
    /\ remoteTsn = 0
    /\ localTsn = InitialTsn
    /\ datachannelOpen = FALSE
    /\ keepAlives = 0
    /\ bState = "closed"
    /\ bPeerTsn = 0
    /\ bRecvNext = 0
    /\ bRecvd = {}
    /\ bOut = << >>
    /\ bAcked = PeerInitialTsn - 1
    /\ bHb = 0
    /\ rtxCtl = [c \in {"init", "cookie_echo"} |-> 0]
    /\ rtxData = [t \in PeerTsns |-> 0]
    /\ toServer = {}
    /\ toBrowser = {}
    /\ losses = 0
    /\ rcvd = {}
    /\ sData = {}

-----------------------------------------------------------------------------
(* The session.  Every answer leaves through DtlsSend (SSL_write, then the  *)
(* drain of bio_out_ to the UDP socket).                                   *)

\* SendSctpData(data, len, type): returns at once unless datachannel_open_;
\* otherwise one DATA chunk whose TSN GetAndAddTsn takes.
SendSctpData(ppid) ==
    IF datachannelOpen
    THEN /\ toBrowser' = toBrowser \cup {Chunk("data", localTsn, ppid)}
         /\ localTsn' = localTsn + 1
         /\ sData' = sData \cup {localTsn}
    ELSE UNCHANGED <<toBrowser, localTsn, sData>>

\* Mutants of OnSctpData, not part of Next: the TSN read into the wrong
\* field of sctp_session_, and the OPEN compared with the wrong message type.
OnSctpDataReadsLocal(m) ==
    /\ remoteTsn' = localTsn
    /\ rcvd' = rcvd \cup {m.tsn}
    /\ UNCHANGED <<toBrowser, localTsn, datachannelOpen, sData, keepAlives>>

OnSctpDataAckType(m) ==
    /\ remoteTsn' = m.tsn
    /\ rcvd' = rcvd \cup {m.tsn}
    /\ IF m.ppid = "string" THEN SendSctpData("string")
                            ELSE UNCHANGED <<toBrowser, localTsn, sData>>
    /\ UNCHANGED <<datachannelOpen, keepAlives>>

\* OnSctp, case SCTP_TYPE_DATA: remote_tsn is overwritten by the chunk's
\* TSN, whatever it is.  A DATA_CHANNEL_OPEN is answered by a
\* DATA_CHANNEL_ACK (TSN from GetAndAddTsn) and a SACK whose cumulative TSN
\* ack is remote_tsn, and opens the channel; a STRING message is answered
\* by SendSctpData; BINARY is read and dropped.
OnSctpData(m) ==
    /\ remoteTsn' = m.tsn
    /\ rcvd' = rcvd \cup {m.tsn}
    /\ \/ /\ m.ppid = "open"
          /\ toBrowser' = toBrowser \cup {Chunk("data", localTsn, "ack"),
                                          Chunk("sack", m.tsn, "none")}
          /\ localTsn' = localTsn + 1
          /\ datachannelOpen' = TRUE
          /\ sData' = sData \cup {localTsn}
       \/ /\ m.ppid = "string"
          /\ SendSctpData("string")
          /\ UNCHANGED datachannelOpen
       \/ /\ m.ppid = "binary"
          /\ UNCHANGED <<toBrowser, localTsn, datachannelOpen, sData>>
    /\ UNCHANGED <<keepAlives>>

\* OnSctp, case SCTP_TYPE_INIT: the INIT-ACK's initial TSN is taken with
\* GetAndAddTsn, so it consumes a TSN of the counter DATA chunks use.
OnSctpInit ==
    /\ toBrowser' = toBrowser \cup {Chunk("init_ack", localTsn, "none")}
    /\ localTsn' = localTsn + 1
    /\ UNCHANGED <<remoteTsn, datachannelOpen, keepAlives, rcvd, sData>>

\* OnSctp, case SCTP_TYPE_SACK: gap blocks and duplicate TSNs are read and
\* ignored; the answer is a CWR chunk carrying local_tsn.
OnSctpSack ==
    /\ toBrowser' = toBrowser \cup {Chunk("cwr", localTsn, "none")}
    /\ UNCHANGED <<remoteTsn, localTsn, datachannelOpen, keepAlives, rcvd, sData>>

\* OnSctp, case SCTP_TYPE_HEARTBEAT: a HEARTBEAT-ACK echoing the info.
OnSctpHeartbeat ==
    /\ toBrowser' = toBrowser \cup {Chunk("heartbeat_ack", 0, "none")}
    /\ UNCHANGED <<remoteTsn, localTsn, datachannelOpen, keepAlives, rcvd, sData>>

\* OnSctp, case SCTP_TYPE_COOKIE_ECHO: a COOKIE-ACK; the cookie is not
\* checked and nothing is recorded.
OnSctpCookieEcho ==
    /\ toBrowser' = toBrowser \cup {Chunk("cookie_ack", 0, "none")}
    /\ UNCHANGED <<remoteTsn, localTsn, datachannelOpen, keepAlives, rcvd, sData>>

\* OnDtls after the handshake: SSL_read yields the SCTP packet, which
\* OnSctp dispatches on the type of its first chunk.
OnSctp(m) ==
    /\ m \in toServer
    /\ toServer' = toServer \ {m}
    /\ \/ m.type = "data" /\ OnSctpData(m)
       \/ m.type = "init" /\ OnSctpInit
       \/ m.type = "sack" /\ OnSctpSack
       \/ m.type = "heartbeat" /\ OnSctpHeartbeat
       \/ m.type = "cookie_echo" /\ OnSctpCookieEcho
    /\ UNCHANGED <<peerVars, losses>>

\* EveryNSecond: the keep-alive STRING message while the channel is open.
EveryNSecond ==
    /\ datachannelOpen
    /\ keepAlives < MaxKeepAlive
    /\ keepAlives' = keepAlives + 1
    /\ SendSctpData("string")
    /\ UNCHANGED <<remoteTsn, datachannelOpen, peerVars, toServer, losses, rcvd>>
-----------------------------------------------------------------------------
(* The browser's SCTP stack (RFC 4960), as the environment.                *)

\* The first TSN at or above n that is not in S: the receiver's cumulative
\* ack point advances over every TSN it holds without a hole.
FirstMissing(n, S) ==
    CHOOSE t \in n .. n + Cardinality(S) :
        t \notin S /\ \A u \in n .. t - 1 : u \in S

PeerSend(c) == toServer' = toServer \cup {c}

\* The browser starts the association once DTLS is up.
BInit ==
    /\ bState = "closed"
    /\ bState' = "cookie_wait"
    /\ PeerSend(Chunk("init", PeerInitialTsn, "none"))
    /\ UNCHANGED <<serverVars, bPeerTsn, bRecvNext, bRecvd, bOut, bAcked, bHb,
                   rtxCtl, rtxData, toBrowser, losses, histVars>>

\* An INIT-ACK in COOKIE-WAIT: the browser takes its initial TSN as the
\* TSN the session's first DATA will carry and echoes the cookie.
BRecvInitAck(m) ==
    /\ m.type = "init_ack"
    /\ bState = "cookie_wait"
    /\ bState' = "cookie_echoed"
    /\ bPeerTsn' = m.tsn
    /\ bRecvNext' = m.tsn
    /\ PeerSend(Chunk("cookie_echo", 0, "none"))
    /\ UNCHANGED <<bRecvd, bOut, bAcked, bHb, rtxCtl, rtxData>>

BRecvCookieAck(m) ==
    /\ m.type = "cookie_ack"
    /\ bState = "cookie_echoed"
    /\ bState' = "established"
    /\ UNCHANGED <<bPeerTsn, bRecvNext, bRecvd, bOut, bAcked, bHb, rtxCtl,
                   rtxData, toServer>>

\* DATA in ESTABLISHED is held, the cumulative ack point advanced, and a
\* SACK sent.
BRecvData(m) ==
    /\ m.type = "data"
    /\ bState = "established"
    /\ bRecvd' = bRecvd \cup {m.tsn}
    /\ bRecvNext' = FirstMissing(bRecvNext, bRecvd')
    /\ PeerSend(Chunk("sack", bRecvNext' - 1, "none"))
    /\ UNCHANGED <<bState, bPeerTsn, bOut, bAcked, bHb, rtxCtl, rtxData>>

\* A SACK acknowledges every TSN up to its cumulative TSN ack; an older
\* one is ignored.
BRecvSack(m) ==
    /\ m.type = "sack"
    /\ bAcked' = IF m.tsn > bAcked THEN m.tsn ELSE bAcked
    /\ UNCHANGED <<bState, bPeerTsn, bRecvNext, bRecvd, bOut, bHb, rtxCtl,
                   rtxData, toServer>>

\* The chunks the browser acts on in its current state; CWR and
\* HEARTBEAT-ACK, and anything else, are dropped.
Expected(m) ==
    \/ m.type = "init_ack" /\ bState = "cookie_wait"
    \/ m.type = "cookie_ack" /\ bState = "cookie_echoed"
    \/ m.type = "data" /\ bState = "established"
    \/ m.type = "sack"

BDiscard(m) ==
    /\ ~Expected(m)
    /\ UNCHANGED <<peerVars, toServer>>

BRecv(m) ==
    /\ m \in toBrowser
    /\ toBrowser' = toBrowser \ {m}
    /\ \/ BRecvInitAck(m)
       \/ BRecvCookieAck(m)
       \/ BRecvData(m)
       \/ BRecvSack(m)
       \/ BDiscard(m)
    /\ UNCHANGED <<serverVars, losses, histVars>>

\* The browser's DataChannel messages, sent once the association is
\* established: the first opens the channel; a later OPEN opens another.
BSendData(p) ==
    /\ bState = "established"
    /\ Len(bOut) < MaxMsgs
    /\ Len(bOut) = 0 => p = "open"
    /\ PeerSend(Chunk("data", PeerInitialTsn + Len(bOut), p))
    /\ bOut' = Append(bOut, p)
    /\ UNCHANGED <<serverVars, bState, bPeerTsn, bRecvNext, bRecvd, bAcked,
                   bHb, rtxCtl, rtxData, toBrowser, losses, histVars>>

BHeartbeat ==
    /\ bState = "established"
    /\ bHb < MaxHb
    /\ bHb' = bHb + 1
    /\ PeerSend(Chunk("heartbeat", 0, "none"))
    /\ UNCHANGED <<serverVars, bState, bPeerTsn, bRecvNext, bRecvd, bOut,
                   bAcked, rtxCtl, rtxData, toBrowser, losses, histVars>>

\* The T1-init, T1-cookie and T3-rtx timers: a chunk not yet answered is
\* sent again, at most MaxRtx times, once neither it nor an answer to it is
\* in flight (the retransmission timeout exceeds the round trip).
NoReplyInFlight(type, t) ==
    \A r \in toBrowser : ~(r.type = type /\ r.tsn >= t)

BRetransmitCtl(c, type, reply) ==
    /\ Chunk(type, c, "none") \notin toServer
    /\ NoReplyInFlight(reply, 0)
    /\ rtxCtl[type] < MaxRtx
    /\ rtxCtl' = [rtxCtl EXCEPT ![type] = @ + 1]
    /\ PeerSend(Chunk(type, c, "none"))
    /\ UNCHANGED rtxData

BRetransmitData(t) ==
    /\ t \in PeerTsns
    /\ t < PeerInitialTsn + Len(bOut)
    /\ t > bAcked
    /\ Chunk("data", t, bOut[t - PeerInitialTsn + 1]) \notin toServer
    /\ NoReplyInFlight("sack", t)
    /\ rtxData[t] < MaxRtx
    /\ rtxData' = [rtxData EXCEPT ![t] = @ + 1]
    /\ PeerSend(Chunk("data", t, bOut[t - PeerInitialTsn + 1]))
    /\ UNCHANGED rtxCtl

BRetransmit ==
    /\ \/ bState = "cookie_wait" /\ BRetransmitCtl(PeerInitialTsn, "init", "init_ack")
       \/ bState = "cookie_echoed" /\ BRetransmitCtl(0, "cookie_echo", "cookie_ack")
       \/ \E t \in PeerTsns : BRetransmitData(t)
    /\ UNCHANGED <<serverVars, bState, bPeerTsn, bRecvNext, bRecvd, bOut,
                   bAcked, bHb, toBrowser, losses, histVars>>

\* DTLS over UDP loses records in either direction.
Lose ==
    /\ losses < MaxLoss
    /\ losses' = losses + 1
    /\ \/ \E m \in toServer : toServer' = toServer \ {m} /\ UNCHANGED toBrowser
       \/ \E m \in toBrowser : toBrowser' = toBrowser \ {m} /\ UNCHANGED toServer
    /\ UNCHANGED <<serverVars, peerVars, histVars>>

-----------------------------------------------------------------------------
Next ==
    \/ \E m \in toServer : OnSctp(m)
    \/ EveryNSecond
    \/ BInit
    \/ \E m \in toBrowser : BRecv(m)
    \/ \E p \in PeerPpids : BSendData(p)
    \/ BHeartbeat
    \/ BRetransmit
    \/ Lose

\* The epoll loop reads every readable socket and fires the one-second
\* timer; the browser's stack reads its socket, starts the association
\* and runs its retransmission timers.  What the browser's application
\* sends is not assumed.
Fairness ==
    /\ WF_vars(\E m \in toServer : OnSctp(m))
    /\ WF_vars(EveryNSecond)
    /\ WF_vars(BInit)
    /\ WF_vars(\E m \in toBrowser : BRecv(m))
    /\ WF_vars(BRetransmit)

Spec == Init /\ [][Next]_vars /\ Fairness

-----------------------------------------------------------------------------
(* Properties.                                                              *)

\* RFC 4960 section 3.3.3: the Initial TSN of the INIT-ACK is the TSN the
\* sender will use for its first DATA chunk.  Once the browser has taken
\* that TSN from the INIT-ACK of OnSctp's INIT case (line 824), the first
\* DATA chunk the session sends (the DATA_CHANNEL_ACK, SendSctpData) must
\* carry it: it is the least TSN of the session's DATA.
FirstDataTsn ==
    (bState \in {"cookie_echoed", "established"} /\ sData # {}) =>
        /\ bPeerTsn \in sData
        /\ \A t \in sData : bPeerTsn <= t

\* The SACK sent after a DATA_CHANNEL_OPEN (line 734) acknowledges only
\* TSNs the session has read: a cumulative TSN ack past a hole tells the
\* browser to forget a chunk the session never got.
SackSound ==
    \A m \in toBrowser :
        m.type = "sack" => PeerInitialTsn .. m.tsn \subseteq rcvd

\* Once the browser has sent a DATA_CHANNEL_OPEN, the session eventually
\* opens its data channel (datachannel_open_, line 729), whatever records
\* are lost within the budget.
DataChannelOpens == Len(bOut) > 0 ~> datachannelOpen

\* Every DATA chunk the browser sends is eventually covered by a
\* cumulative TSN ack; the session SACKs only on a DATA_CHANNEL_OPEN
\* (line 734), not on STRING or BINARY messages (lines 761-775).
DataAcked ==
    \A t \in PeerTsns :
        t < PeerInitialTsn + Len(bOut) ~> bAcked >= t
=============================================================================
