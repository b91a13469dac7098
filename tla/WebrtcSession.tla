---------------------------- MODULE WebrtcSession ----------------------------
(***************************************************************************)
(* One WebRTC session (class WebrtcProtocol, src/src/webrtc_protocol.cpp)  *)
(* on the peer-specific UDP socket that OnStun spawns, talking to one      *)
(* browser over a UDP path that may lose, duplicate and reorder datagrams. *)
(*                                                                         *)
(* The session is the DTLS client (OnStun calls SetConnectState), the      *)
(* browser the DTLS server.  The handshake is abstracted to its four       *)
(* flights: 1 ClientHello, 2 ServerHello..Done, 3 client key exchange and  *)
(* Finished, 4 server Finished.  The browser retransmits its flight 2 on   *)
(* its DTLS timer; the session has no DTLS timer (no DTLSv1_handle_timeout *)
(* anywhere in the code) and only answers what it receives.                *)
(*                                                                         *)
(* Datagrams are records [dst, k, n, pt]: dst the receiver, k the kind,    *)
(* n the flight, RTP sequence number or SendData call, pt the RTP payload  *)
(* type.  Bytes, keys and checksums are abstracted away.                   *)
(***************************************************************************)
EXTENDS Naturals, Sequences, FiniteSets

CONSTANTS
    MaxRtp,          \* RTP packets the browser publishes (sequence numbers 1..MaxRtp)
    MaxFwd,          \* SendData calls made by the publisher this session subscribes to
    MaxLoss,         \* datagrams the network may lose
    MaxDup,          \* datagrams the network may deliver twice
    RecvTimeout,     \* kWebRtcRecvTimeoutInMs, counted in one-second timer periods
    CryptoFailures   \* TRUE: SSL_export_keying_material and srtp_create may fail

ASSUME ConstantsAssumption ==
    /\ MaxRtp \in Nat
    /\ MaxFwd \in Nat
    /\ MaxLoss \in Nat
    /\ MaxDup \in Nat
    /\ RecvTimeout \in Nat \ {0}
    /\ CryptoFailures \in BOOLEAN

\* RTP payload types of enum WebRTCPayloadType: H264 (video) and OPUS
\* (audio), and one the code does not know.
H264 == 102
OPUS == 111
OtherPT == 127
PayloadTypes == {H264, OPUS, OtherPT}
VideoPTs == {96, 98, H264}

Kinds == {"stun_req", "stun_resp", "dtls", "rtp", "rtcp", "srtp", "srtcp"}

Msg(dst, k, n, pt) == [dst |-> dst, k |-> k, n |-> n, pt |-> pt]
Msgs == [dst : {"session", "browser"}, k : Kinds, n : Nat, pt : PayloadTypes \cup {0}]

\* A forwarded RTP packet: its sequence number and whether srtp_unprotect
\* succeeded on it.
Forward == [seq : Nat, ok : BOOLEAN]

VARIABLES
    life,                      \* "absent" before OnStun spawns it, "live", "closed" once destroyed
    dtlsHelloSend,             \* dtls_hello_send_
    dtlsStep,                  \* OpenSSL client progress: last flight sent or processed
    dtlsHandshakeDone,         \* dtls_handshake_done_
    srtpSend,                  \* srtp_send_: "null" or "ctx"
    srtpRecv,                  \* srtp_recv_: "null" or "ctx"
    srtpReplay,                \* RTP sequence numbers srtp_recv_ has accepted (libsrtp replay list)
    registerPublisherStream,   \* register_publisher_stream_
    forwarded,                 \* RTP packets handed to wait_header_subscriber_, in order
    idle,                      \* now - pre_recv_data_time_ms_, in seconds, saturated at RecvTimeout
    timerDue,                  \* a 20 ms tick with count % 50 == 0 is due
    fault,                     \* "none", or the crash the process suffered
    fwdNext,                   \* next SendData call of the publisher
    peerStep,                  \* browser DTLS server progress: 0, 2 (sent flight 2), 4 (done)
    rtpNext,                   \* next RTP sequence number the browser publishes
    net,                       \* datagrams in flight
    losses,                    \* datagrams lost so far
    dups                       \* datagrams duplicated so far

sessionVars == <<life, dtlsHelloSend, dtlsStep, dtlsHandshakeDone, srtpSend,
                 srtpRecv, srtpReplay, registerPublisherStream, forwarded,
                 idle, timerDue, fault, fwdNext>>
peerVars == <<peerStep, rtpNext>>
netVars == <<net, losses, dups>>
vars == <<sessionVars, peerVars, netVars>>

-----------------------------------------------------------------------------
(* The network.                                                             *)

\* Datagram m is read by its receiver, which sends the datagrams `out` in
\* the same step; while the duplication budget lasts the network may keep a
\* copy of m in flight for a second delivery.
Receive(m, out) ==
    /\ m \in net
    /\ \/ /\ net' = (net \ {m}) \cup out
          /\ UNCHANGED dups
       \/ /\ dups < MaxDup
          /\ net' = net \cup out
          /\ dups' = dups + 1

Lose ==
    /\ losses < MaxLoss
    /\ \E m \in net : net' = net \ {m}
    /\ losses' = losses + 1
    /\ UNCHANGED <<sessionVars, peerVars, dups>>

-----------------------------------------------------------------------------
(* The session.                                                             *)

\* OpenSSL's client state machine as SSL_do_handshake drives it: the step it
\* reaches on flight f, and the flights it writes into bio_out_.  A flight 2
\* seen again after flight 3 went out makes it retransmit flight 3.
ClientStep(s, f) ==
    IF f = 2 /\ s \in {1, 3} THEN 3
    ELSE IF f = 4 /\ s = 3 THEN 4
    ELSE s
ClientOut(s, f) == IF f = 2 /\ s \in {1, 3} THEN {3} ELSE {}

\* The SSL_ERROR_NONE branch of Handshake(): the handshake is done, keying
\* material is exported and both SRTP contexts are created; when the export
\* or an srtp_create fails the error is only logged and the context stays NULL.
HandshakeDone ==
    LET Outcome == IF CryptoFailures THEN BOOLEAN ELSE {TRUE}
    IN  /\ dtlsHandshakeDone' = TRUE
        /\ \E exportOk, sendOk, recvOk \in Outcome :
              /\ srtpSend' = IF exportOk /\ sendOk THEN "ctx" ELSE "null"
              /\ srtpRecv' = IF exportOk /\ recvOk THEN "ctx" ELSE "null"

\* SetConnectState: the first call creates the SSL object in connect mode
\* and runs Handshake(), which sends the ClientHello in bio_out_.
SetConnectState ==
    /\ ~dtlsHelloSend
    /\ dtlsHelloSend' = TRUE
    /\ dtlsStep' = 1
    /\ net' = net \cup {Msg("browser", "dtls", 1, 0)}

\* OnStun of the listening session, first Binding Request of a new remote
\* ufrag: a connected UDP socket and this session are created, and
\* SetConnectState is called on it.
Spawn ==
    /\ life = "absent"
    /\ life' = "live"
    /\ SetConnectState
    /\ UNCHANGED <<dtlsHandshakeDone, srtpSend, srtpRecv, srtpReplay,
                   registerPublisherStream, forwarded, idle, timerDue, fault,
                   fwdNext, peerVars, losses, dups>>

\* Parse: a datagram is read, pre_recv_data_time_ms_ is refreshed and the
\* leading byte selects the handler.
Parse(m, out) ==
    /\ life = "live"
    /\ fault = "none"
    /\ m.dst = "session"
    /\ Receive(m, out)
    /\ idle' = 0

\* OnStun on the spawned session: a Binding Request is answered with a
\* Binding Response; the ufrag is already in client_ufrag_set, so nothing
\* is spawned.
OnStun(m) ==
    /\ m.k = "stun_req"
    /\ Parse(m, {Msg("browser", "stun_resp", 0, 0)})
    /\ UNCHANGED <<life, dtlsHelloSend, dtlsStep, dtlsHandshakeDone, srtpSend,
                   srtpRecv, srtpReplay, registerPublisherStream, forwarded,
                   timerDue, fault, fwdNext, peerVars, losses>>

\* Mutant: SSL_ERROR_WANT_READ after the client Finished is taken for done.
OnDtlsHandshakeEarlyDone(m) ==
    /\ m.k = "dtls"
    /\ ~dtlsHandshakeDone
    /\ Parse(m, {Msg("browser", "dtls", f, 0) : f \in ClientOut(dtlsStep, m.n)})
    /\ dtlsStep' = ClientStep(dtlsStep, m.n)
    /\ IF ClientStep(dtlsStep, m.n) >= 3
          THEN HandshakeDone
          ELSE UNCHANGED <<dtlsHandshakeDone, srtpSend, srtpRecv>>
    /\ UNCHANGED <<life, dtlsHelloSend, srtpReplay, registerPublisherStream,
                   forwarded, timerDue, fault, fwdNext, peerVars, losses>>

\* OnDtls before the handshake is done: the record goes into bio_in_ and
\* Handshake() runs; what the handshake wrote into bio_out_ is sent.
OnDtlsHandshake(m) ==
    /\ m.k = "dtls"
    /\ ~dtlsHandshakeDone
    /\ Parse(m, {Msg("browser", "dtls", f, 0) : f \in ClientOut(dtlsStep, m.n)})
    /\ dtlsStep' = ClientStep(dtlsStep, m.n)
    /\ IF ClientStep(dtlsStep, m.n) = 4
          THEN HandshakeDone
          ELSE UNCHANGED <<dtlsHandshakeDone, srtpSend, srtpRecv>>
    /\ UNCHANGED <<life, dtlsHelloSend, srtpReplay, registerPublisherStream,
                   forwarded, timerDue, fault, fwdNext, peerVars, losses>>

\* OnDtls after the handshake: the record goes to SSL_read.  The records
\* of this model are handshake flights, which after the handshake yield no
\* application data (the DTLS layer drops a retransmitted or replayed one),
\* so SSL_read returns -1; the crc32 test block copies `ret` bytes with
\* memcpy before `ret` is checked, and a length of (size_t)-1 takes the
\* process down.
OnDtlsRead(m) ==
    /\ m.k = "dtls"
    /\ dtlsHandshakeDone
    /\ Parse(m, {})
    /\ fault' = "ssl_read_crash"
    /\ UNCHANGED <<life, dtlsHelloSend, dtlsStep, dtlsHandshakeDone, srtpSend,
                   srtpRecv, srtpReplay, registerPublisherStream, forwarded,
                   timerDue, fwdNext, peerVars, losses>>

\* The guards OnRtpRtcp starts with: srtp_recv_ set and handshake done.
SrtpReady == srtpRecv = "ctx" /\ dtlsHandshakeDone

\* OnRtpRtcp, RTCP branch: srtp_unprotect_rtcp, then the feedback is parsed.
\* A NACK looks up send_map_, which nothing ever fills, so nothing is resent.
OnRtcp(m) ==
    /\ m.k = "rtcp"
    /\ Parse(m, {})
    /\ UNCHANGED <<life, dtlsHelloSend, dtlsStep, dtlsHandshakeDone, srtpSend,
                   srtpRecv, srtpReplay, registerPublisherStream, forwarded,
                   timerDue, fault, fwdNext, peerVars, losses>>

\* Mutant of OnRtp, not part of Next: the early returns on a NULL
\* srtp_recv_ and on !dtls_handshake_done_ (lines 990-998) left out.
OnRtpUnguarded(m) ==
    /\ m.k = "rtp"
    /\ Parse(m, {})
    /\ LET ok == m.n \notin srtpReplay
       IN  /\ srtpReplay' = IF ok THEN srtpReplay \cup {m.n} ELSE srtpReplay
           /\ registerPublisherStream' = TRUE
           /\ forwarded' = IF m.pt \in VideoPTs
                              THEN Append(forwarded, [seq |-> m.n, ok |-> ok])
                              ELSE forwarded
    /\ UNCHANGED <<life, dtlsHelloSend, dtlsStep, dtlsHandshakeDone, srtpSend,
                   srtpRecv, timerDue, fault, fwdNext, peerVars, losses>>

\* OnRtpRtcp, RTP branch.  srtp_unprotect fails on a sequence number it has
\* already accepted (replay); the failure is logged and processing goes on.
\* The first RTP registers the session as publisher.  A video packet gets
\* the video SSRC and is handed to the subscribers; audio and unknown
\* payload types are not forwarded.
OnRtp(m) ==
    /\ m.k = "rtp"
    /\ Parse(m, {})
    /\ IF SrtpReady
          THEN LET ok == m.n \notin srtpReplay
               IN  /\ srtpReplay' = IF ok THEN srtpReplay \cup {m.n} ELSE srtpReplay
                   /\ registerPublisherStream' = TRUE
                   /\ forwarded' = IF m.pt \in VideoPTs
                                      THEN Append(forwarded, [seq |-> m.n, ok |-> ok])
                                      ELSE forwarded
          ELSE UNCHANGED <<srtpReplay, registerPublisherStream, forwarded>>
    /\ UNCHANGED <<life, dtlsHelloSend, dtlsStep, dtlsHandshakeDone, srtpSend,
                   srtpRecv, timerDue, fault, fwdNext, peerVars, losses>>

\* srtp_protect or srtp_protect_rtcp on srtp_send_: on a NULL context
\* libsrtp dereferences it and the process dies; otherwise `out` is sent.
Protect(out) ==
    IF srtpSend = "null"
       THEN /\ fault' = "srtp_protect_null_ctx"
            /\ UNCHANGED net
       ELSE /\ net' = net \cup out
            /\ UNCHANGED fault

\* SendData: the publisher forwards RTP packet i to this subscriber; it is
\* protected and sent once the handshake is done, dropped before.
SendData ==
    /\ life = "live"
    /\ fault = "none"
    /\ fwdNext <= MaxFwd
    /\ fwdNext' = fwdNext + 1
    /\ IF dtlsHandshakeDone
          THEN Protect({Msg("browser", "srtp", fwdNext, 0)})
          ELSE UNCHANGED <<net, fault>>
    /\ UNCHANGED <<life, dtlsHelloSend, dtlsStep, dtlsHandshakeDone, srtpSend,
                   srtpRecv, srtpReplay, registerPublisherStream, forwarded,
                   idle, timerDue, peerVars, losses, dups>>

\* EveryNMillSecond with count % 50 == 0: once the handshake is done a PLI
\* is protected and sent (the FIR and the second PLI are protected too and
\* not sent).
EveryNMillSecond ==
    /\ life = "live"
    /\ fault = "none"
    /\ timerDue
    /\ timerDue' = FALSE
    /\ IF dtlsHandshakeDone
          THEN Protect({Msg("browser", "srtcp", 0, 0)})
          ELSE UNCHANGED <<net, fault>>
    /\ UNCHANGED <<life, dtlsHelloSend, dtlsStep, dtlsHandshakeDone, srtpSend,
                   srtpRecv, srtpReplay, registerPublisherStream, forwarded,
                   idle, fwdNext, peerVars, losses, dups>>

\* One second passes.
Tick ==
    /\ life = "live"
    /\ fault = "none"
    /\ idle' = IF idle < RecvTimeout THEN idle + 1 ELSE idle
    /\ timerDue' = TRUE
    /\ UNCHANGED <<life, dtlsHelloSend, dtlsStep, dtlsHandshakeDone, srtpSend,
                   srtpRecv, srtpReplay, registerPublisherStream, forwarded,
                   fault, fwdNext, peerVars, netVars>>

\* CheckCanClose reports a silence of kWebRtcRecvTimeoutInMs and the
\* session is destroyed; its socket is closed, so datagrams to it are gone.
CheckCanClose ==
    /\ life = "live"
    /\ fault = "none"
    /\ idle >= RecvTimeout
    /\ life' = "closed"
    /\ net' = {m \in net : m.dst # "session"}
    /\ UNCHANGED <<dtlsHelloSend, dtlsStep, dtlsHandshakeDone, srtpSend,
                   srtpRecv, srtpReplay, registerPublisherStream, forwarded,
                   idle, timerDue, fault, fwdNext, peerVars, losses, dups>>

-----------------------------------------------------------------------------
(* The browser (environment).                                               *)

\* A datagram for the session; once its socket is closed the kernel drops it.
ToSession(m) == IF life = "closed" THEN {} ELSE {m}

\* ICE consent checks: the browser keeps sending Binding Requests.
PeerSendStun ==
    /\ net' = net \cup ToSession(Msg("session", "stun_req", 0, 0))
    /\ UNCHANGED <<sessionVars, peerVars, losses, dups>>

ServerStep(s, f) ==
    IF f = 1 /\ s \in {0, 2} THEN 2
    ELSE IF f = 3 /\ s \in {2, 4} THEN 4
    ELSE s
ServerOut(s, f) ==
    IF (f = 1 /\ s \in {0, 2}) \/ (f = 3 /\ s \in {2, 4}) THEN {ServerStep(s, f)} ELSE {}

\* The browser's DTLS server (RFC 6347 4.2.4): flight 1 is answered by flight 2 (again when
\* it is retransmitted), flight 3 by flight 4, also after it is done.
PeerDtls(m) ==
    /\ m.dst = "browser"
    /\ m.k = "dtls"
    /\ Receive(m, UNION {ToSession(Msg("session", "dtls", f, 0)) : f \in ServerOut(peerStep, m.n)})
    /\ peerStep' = ServerStep(peerStep, m.n)
    /\ UNCHANGED <<sessionVars, rtpNext, losses>>

\* The browser's DTLS retransmission timer while it waits for flight 3.
PeerRetransmit ==
    /\ peerStep = 2
    /\ net' = net \cup ToSession(Msg("session", "dtls", 2, 0))
    /\ UNCHANGED <<sessionVars, peerVars, losses, dups>>

\* The browser publishes media once its side of the handshake is done.
PeerSendRtp ==
    /\ peerStep = 4
    /\ rtpNext <= MaxRtp
    /\ rtpNext' = rtpNext + 1
    /\ \E pt \in PayloadTypes :
          net' = net \cup ToSession(Msg("session", "rtp", rtpNext, pt))
    /\ UNCHANGED <<sessionVars, peerStep, losses, dups>>

PeerSendRtcp ==
    /\ peerStep = 4
    /\ net' = net \cup ToSession(Msg("session", "rtcp", 0, 0))
    /\ UNCHANGED <<sessionVars, peerVars, losses, dups>>

\* The browser consumes STUN responses, SRTP and SRTCP.
PeerConsume(m) ==
    /\ m.dst = "browser"
    /\ m.k \in {"stun_resp", "srtp", "srtcp"}
    /\ Receive(m, {})
    /\ UNCHANGED <<sessionVars, peerVars, losses>>

-----------------------------------------------------------------------------

Init ==
    /\ life = "absent"
    /\ dtlsHelloSend = FALSE
    /\ dtlsStep = 0
    /\ dtlsHandshakeDone = FALSE
    /\ srtpSend = "null"
    /\ srtpRecv = "null"
    /\ srtpReplay = {}
    /\ registerPublisherStream = FALSE
    /\ forwarded = <<>>
    /\ idle = 0
    /\ timerDue = FALSE
    /\ fault = "none"
    /\ fwdNext = 1
    /\ peerStep = 0
    /\ rtpNext = 1
    /\ net = {}
    /\ losses = 0
    /\ dups = 0

SessionStep(m) ==
    \/ OnStun(m)
    \/ OnDtlsHandshake(m)
    \/ OnDtlsRead(m)
    \/ OnRtcp(m)
    \/ OnRtp(m)

PeerStep(m) == PeerDtls(m) \/ PeerConsume(m)

Next ==
    \/ Spawn
    \/ \E m \in net : SessionStep(m)
    \/ SendData
    \/ EveryNMillSecond
    \/ Tick
    \/ CheckCanClose
    \/ PeerSendStun
    \/ \E m \in net : PeerStep(m)
    \/ PeerRetransmit
    \/ PeerSendRtp
    \/ PeerSendRtcp
    \/ Lose

\* The handshake datagrams, for per-datagram fairness.
DtlsMsgs ==
    {Msg("browser", "dtls", f, 0) : f \in {1, 3}} \cup
    {Msg("session", "dtls", f, 0) : f \in {2, 4}}

\* The event loop reads every datagram its socket holds, fires its timers
\* and runs the housekeeping that destroys closable sessions; the browser
\* answers and retransmits.
Fairness ==
    /\ WF_vars(Spawn)
    /\ \A m \in DtlsMsgs : WF_vars(SessionStep(m)) /\ WF_vars(PeerStep(m))
    /\ WF_vars(Tick)
    /\ WF_vars(CheckCanClose)
    /\ WF_vars(PeerRetransmit)

Spec == Init /\ [][Next]_vars /\ Fairness

-----------------------------------------------------------------------------
(* Properties.                                                              *)

TypeOK ==
    /\ life \in {"absent", "live", "closed"}
    /\ dtlsHelloSend \in BOOLEAN
    /\ dtlsStep \in {0, 1, 3, 4}
    /\ dtlsHandshakeDone \in BOOLEAN
    /\ srtpSend \in {"null", "ctx"}
    /\ srtpRecv \in {"null", "ctx"}
    /\ srtpReplay \subseteq Nat
    /\ registerPublisherStream \in BOOLEAN
    /\ forwarded \in Seq(Forward)
    /\ idle \in 0..RecvTimeout
    /\ timerDue \in BOOLEAN
    /\ fault \in {"none", "srtp_protect_null_ctx", "ssl_read_crash"}
    /\ fwdNext \in Nat
    /\ peerStep \in {0, 2, 4}
    /\ rtpNext \in Nat
    /\ net \subseteq Msgs
    /\ losses \in 0..MaxLoss
    /\ dups \in 0..MaxDup

\* Spec section 8, invariant 3: no SRTP or SRTCP datagram leaves the session
\* (SendData, the PLI of EveryNMillSecond) before dtls_handshake_done_.
NoSrtpBeforeHandshake ==
    \A m \in net : (m.dst = "browser" /\ m.k \in {"srtp", "srtcp"}) => dtlsHandshakeDone

\* The session installs its SRTP keys (Handshake reaching SSL_ERROR_NONE)
\* only after the browser has finished its own side of the handshake: the
\* flights of OnDtls/Handshake and of the browser, over a lossy, duplicating
\* and reordering path, never let the client finish first.
HandshakeOrder == dtlsHandshakeDone => peerStep = 4

\* The handshake flights in flight to the session were written by the
\* browser: a flight 2 once it has answered a ClientHello, a flight 4 only
\* once it is done.  With TypeOK, NoSrtpBeforeHandshake, HandshakeOrder and
\* the fact that OpenSSL reaches its last step only in the SSL_ERROR_NONE
\* branch of Handshake() this is the inductive invariant the proofs rest on.
DtlsFlightsSound ==
    \A m \in net : (m.dst = "session" /\ m.k = "dtls") =>
        \/ m.n = 2 /\ peerStep \in {2, 4}
        \/ m.n = 4 /\ peerStep = 4

IInv ==
    /\ TypeOK
    /\ DtlsFlightsSound
    /\ dtlsStep = 4 => dtlsHandshakeDone
    /\ HandshakeOrder
    /\ NoSrtpBeforeHandshake

\* Spec 4.5: a packet that fails srtp_unprotect is dropped.  OnRtpRtcp must
\* hand only successfully unprotected RTP to the subscribers.
ForwardOnlyAuthentic == \A i \in DOMAIN forwarded : forwarded[i].ok

\* The process survives every datagram and timer.  Handshake() may finish
\* with SRTP contexts that were never created, and no later srtp_protect
\* (SendData, the PLI timer) may then run on a NULL one; OnDtls after the
\* handshake treats a failed SSL_read as an error to log (its else branch,
\* line 645), so a DTLS record that yields no application data, such as a
\* flight the browser retransmitted, must not take the process down.
SessionSurvives == fault = "none"

\* The DTLS handshake started by SetConnectState eventually completes, or
\* the session times out and is destroyed.
HandshakeCompletes == <>(dtlsHandshakeDone \/ life = "closed")


-----------------------------------------------------------------------------
(* The session as DtlsSrtpSession sees it: its lifetime, the browser's and *)
(* its own end of the handshake, the two SRTP contexts, and how many RTP   *)
(* packets it has handed to the subscribers.                               *)

Abs == INSTANCE DtlsSrtpSession
           WITH sLife <- life,
                peerDone <- peerStep = 4,
                keyed <- dtlsHandshakeDone,
                keys <- <<srtpSend, srtpRecv>>,
                nFwd <- Len(forwarded)

\* OnStun spawns the session once and CheckCanClose destroys it once;
\* Handshake() creates the SRTP contexts once, in its SSL_ERROR_NONE
\* branch, which OnDtls reaches only while !dtls_handshake_done_ and only
\* after the browser's last flight; OnRtpRtcp hands RTP to the subscribers
\* only past its srtp_recv_ and dtls_handshake_done_ checks.
ImplementsSession == Abs!ASpec

=============================================================================
