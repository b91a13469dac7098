------------------------- MODULE WebrtcSessionProofs -------------------------
(***************************************************************************)
(* Proofs about WebrtcSession, for every value of the constants: the type  *)
(* invariant, and that the session installs its SRTP keys only after the   *)
(* browser has finished the handshake and emits no SRTP before it has.     *)
(*                                                                         *)
(* HandshakeOrder alone is not inductive.  A flight 4 in flight to the     *)
(* session must have been written by a browser that is done               *)
(* (DtlsFlightsSound), and OpenSSL's last client step must coincide with   *)
(* dtls_handshake_done_, or a duplicated flight 4 could finish it twice.   *)
(* IInv conjoins these with TypeOK and NoSrtpBeforeHandshake.              *)
(***************************************************************************)
EXTENDS WebrtcSession, TLAPS

USE ConstantsAssumption

\* IInv without its type conjunct.
HandshakeSafety ==
    /\ DtlsFlightsSound
    /\ dtlsStep = 4 => dtlsHandshakeDone
    /\ HandshakeOrder
    /\ NoSrtpBeforeHandshake

-----------------------------------------------------------------------------
(* Initial states.                                                          *)

LEMMA InitIInv == Init => IInv
<1> SUFFICES ASSUME Init PROVE IInv
    OBVIOUS
<1>1. forwarded \in Seq(Forward)
    BY DEF Init
<1>2. /\ net \subseteq Msgs /\ srtpReplay \subseteq Nat /\ idle \in 0..RecvTimeout
      /\ losses \in 0..MaxLoss /\ dups \in 0..MaxDup /\ fwdNext \in Nat /\ rtpNext \in Nat
    BY DEF Init
<1>3. /\ life \in {"absent", "live", "closed"} /\ dtlsStep \in {0, 1, 3, 4}
      /\ fault \in {"none", "srtp_protect_null_ctx", "ssl_read_crash"} /\ peerStep \in {0, 2, 4}
      /\ srtpSend \in {"null", "ctx"} /\ srtpRecv \in {"null", "ctx"}
      /\ dtlsHelloSend \in BOOLEAN /\ dtlsHandshakeDone \in BOOLEAN
      /\ registerPublisherStream \in BOOLEAN /\ timerDue \in BOOLEAN
    BY DEF Init
<1>4. TypeOK
    BY <1>1, <1>2, <1>3, Zenon DEF TypeOK
<1>5. QED
    BY <1>4 DEF Init, IInv, DtlsFlightsSound, HandshakeOrder, NoSrtpBeforeHandshake

-----------------------------------------------------------------------------
(* Every step preserves the type invariant; one step per action.  A large  *)
(* conjunction of primed types is split into groups the provers take one   *)
(* at a time.                                                               *)

LEMMA TypeStep == TypeOK /\ [Next]_vars => TypeOK'
<1> SUFFICES ASSUME TypeOK, [Next]_vars PROVE TypeOK'
    OBVIOUS
<1>1. CASE Spawn
    BY <1>1 DEF Spawn, SetConnectState, TypeOK, Msgs, Msg, Kinds, PayloadTypes, peerVars
<1>2. ASSUME NEW m \in net, OnStun(m) PROVE TypeOK'
    BY <1>2 DEF OnStun, Parse, Receive, TypeOK, Msgs, Msg, Kinds, PayloadTypes, peerVars
<1>3. ASSUME NEW m \in net, OnDtlsHandshake(m) PROVE TypeOK'
    <2>1. {Msg("browser", "dtls", f, 0) : f \in ClientOut(dtlsStep, m.n)} \subseteq Msgs
        BY DEF ClientOut, Msg, Msgs, Kinds, PayloadTypes
    <2>2. dtlsStep' \in {0, 1, 3, 4}
        BY <1>3 DEF OnDtlsHandshake, ClientStep, TypeOK
    <2>3. srtpSend' \in {"null", "ctx"} /\ srtpRecv' \in {"null", "ctx"} /\ dtlsHandshakeDone' \in BOOLEAN
        BY <1>3 DEF OnDtlsHandshake, HandshakeDone, TypeOK
    <2>4. QED
        BY <1>3, <2>1, <2>2, <2>3 DEF OnDtlsHandshake, Parse, Receive, TypeOK, peerVars
<1>4. ASSUME NEW m \in net, OnDtlsRead(m) PROVE TypeOK'
    BY <1>4 DEF OnDtlsRead, Parse, Receive, TypeOK, peerVars
<1>5. ASSUME NEW m \in net, OnRtcp(m) PROVE TypeOK'
    BY <1>5 DEF OnRtcp, Parse, Receive, TypeOK, peerVars
<1>6. ASSUME NEW m \in net, OnRtp(m) PROVE TypeOK'
    <2>1. m \in Msgs
        BY DEF TypeOK
    <2>2. [seq |-> m.n, ok |-> m.n \notin srtpReplay] \in Forward
        BY <2>1 DEF Forward, Msgs
    <2>3. forwarded' \in Seq(Forward)
        <3>1. CASE SrtpReady /\ m.pt \in VideoPTs
            <4>1. forwarded' = Append(forwarded, [seq |-> m.n, ok |-> m.n \notin srtpReplay])
                BY <1>6, <3>1 DEF OnRtp
            <4>2. QED
                BY <4>1, <2>2 DEF TypeOK
        <3>2. CASE ~(SrtpReady /\ m.pt \in VideoPTs)
            BY <1>6, <3>2 DEF OnRtp, TypeOK
        <3>3. QED
            BY <3>1, <3>2
    <2>4. srtpReplay' \subseteq Nat
        BY <1>6, <2>1 DEF OnRtp, TypeOK, Msgs
    <2>5. net' \subseteq Msgs /\ dups' \in 0..MaxDup /\ idle' \in 0..RecvTimeout
        BY <1>6 DEF OnRtp, Parse, Receive, TypeOK
    <2>6. registerPublisherStream' \in BOOLEAN
        BY <1>6 DEF OnRtp, TypeOK
    <2>7. /\ life' \in {"absent", "live", "closed"} /\ dtlsStep' \in {0, 1, 3, 4}
          /\ fault' \in {"none", "srtp_protect_null_ctx", "ssl_read_crash"} /\ peerStep' \in {0, 2, 4}
          /\ srtpSend' \in {"null", "ctx"} /\ srtpRecv' \in {"null", "ctx"}
          /\ dtlsHelloSend' \in BOOLEAN /\ dtlsHandshakeDone' \in BOOLEAN
          /\ timerDue' \in BOOLEAN /\ fwdNext' \in Nat /\ rtpNext' \in Nat
          /\ losses' \in 0..MaxLoss
        BY <1>6 DEF OnRtp, TypeOK, peerVars
    <2>8. QED
        BY <2>3, <2>4, <2>5, <2>6, <2>7, Zenon DEF TypeOK
<1>7. CASE SendData
    <2>1. net' \subseteq net \cup {Msg("browser", "srtp", fwdNext, 0)}
          /\ fault' \in {"none", "srtp_protect_null_ctx", "ssl_read_crash"}
        BY <1>7 DEF SendData, Protect, TypeOK
    <2>2. Msg("browser", "srtp", fwdNext, 0) \in Msgs
        BY DEF TypeOK, Msg, Msgs, Kinds, PayloadTypes
    <2>3. QED
        BY <1>7, <2>1, <2>2 DEF SendData, TypeOK, peerVars
<1>8. CASE EveryNMillSecond
    <2>1. net' \subseteq net \cup {Msg("browser", "srtcp", 0, 0)}
          /\ fault' \in {"none", "srtp_protect_null_ctx", "ssl_read_crash"}
        BY <1>8 DEF EveryNMillSecond, Protect, TypeOK
    <2>2. Msg("browser", "srtcp", 0, 0) \in Msgs
        BY DEF Msg, Msgs, Kinds, PayloadTypes
    <2>3. QED
        BY <1>8, <2>1, <2>2 DEF EveryNMillSecond, TypeOK, peerVars
<1>9. CASE Tick
    BY <1>9 DEF Tick, TypeOK, peerVars, netVars
<1>10. CASE CheckCanClose
    BY <1>10 DEF CheckCanClose, TypeOK, peerVars
<1>11. CASE PeerSendStun
    BY <1>11 DEF PeerSendStun, ToSession, TypeOK, Msgs, Msg, Kinds, PayloadTypes,
        sessionVars, peerVars
<1>12. ASSUME NEW m \in net, PeerDtls(m) PROVE TypeOK'
    <2>1. UNION {ToSession(Msg("session", "dtls", f, 0)) : f \in ServerOut(peerStep, m.n)} \subseteq Msgs
        BY DEF ServerOut, ServerStep, ToSession, Msg, Msgs, Kinds, PayloadTypes
    <2>2. peerStep' \in {0, 2, 4}
        BY <1>12 DEF PeerDtls, ServerStep, TypeOK
    <2>3. QED
        BY <1>12, <2>1, <2>2 DEF PeerDtls, Receive, TypeOK, sessionVars
<1>13. CASE PeerRetransmit
    BY <1>13 DEF PeerRetransmit, ToSession, TypeOK, Msgs, Msg, Kinds, PayloadTypes,
        sessionVars, peerVars
<1>14. CASE PeerSendRtp
    BY <1>14 DEF PeerSendRtp, ToSession, TypeOK, Msgs, Msg, Kinds, PayloadTypes, sessionVars
<1>15. CASE PeerSendRtcp
    BY <1>15 DEF PeerSendRtcp, ToSession, TypeOK, Msgs, Msg, Kinds, PayloadTypes,
        sessionVars, peerVars
<1>16. ASSUME NEW m \in net, PeerConsume(m) PROVE TypeOK'
    BY <1>16 DEF PeerConsume, Receive, TypeOK, sessionVars, peerVars
<1>17. CASE Lose
    BY <1>17 DEF Lose, TypeOK, sessionVars, peerVars
<1>18. CASE UNCHANGED vars
    BY <1>18 DEF vars, sessionVars, peerVars, netVars, TypeOK
<1>19. QED
    BY <1>1, <1>2, <1>3, <1>4, <1>5, <1>6, <1>7, <1>8, <1>9, <1>10, <1>11,
       <1>12, <1>13, <1>14, <1>15, <1>16, <1>17, <1>18
    DEF Next, SessionStep, PeerStep
-----------------------------------------------------------------------------
(* Every step preserves HandshakeSafety, given the type invariant.         *)

LEMMA SafetyStep == TypeOK /\ HandshakeSafety /\ [Next]_vars => HandshakeSafety'
<1> SUFFICES ASSUME TypeOK, HandshakeSafety, [Next]_vars PROVE HandshakeSafety'
    OBVIOUS
<1>1. CASE Spawn
    <2>1. net' = net \cup {Msg("browser", "dtls", 1, 0)}
        BY <1>1 DEF Spawn, SetConnectState
    <2>2. QED
        BY <1>1, <2>1 DEF Spawn, SetConnectState, Msg, peerVars, HandshakeSafety, DtlsFlightsSound,
            HandshakeOrder, NoSrtpBeforeHandshake
<1>2. ASSUME NEW m \in net, OnStun(m) PROVE HandshakeSafety'
    <2>1. net' \subseteq net \cup {Msg("browser", "stun_resp", 0, 0)}
        BY <1>2 DEF OnStun, Parse, Receive
    <2>2. QED
        BY <1>2, <2>1 DEF OnStun, Msg, peerVars, HandshakeSafety, DtlsFlightsSound,
            HandshakeOrder, NoSrtpBeforeHandshake
<1>3. ASSUME NEW m \in net, OnDtlsHandshake(m) PROVE HandshakeSafety'
    <2> DEFINE out == {Msg("browser", "dtls", f, 0) : f \in ClientOut(dtlsStep, m.n)}
    <2>1. net' \subseteq net \cup out
        BY <1>3 DEF OnDtlsHandshake, Parse, Receive
    <2>2. \A o \in out : o.dst = "browser" /\ o.k = "dtls"
        BY DEF Msg
    <2>3. m.dst = "session" /\ m.k = "dtls" /\ m.n \in Nat /\ ~dtlsHandshakeDone
        BY <1>3 DEF OnDtlsHandshake, Parse, TypeOK, Msgs
    <2>4. dtlsStep # 4
        BY <2>3 DEF HandshakeSafety
    <2>5. dtlsStep' = 4 => peerStep = 4
        <3>1. dtlsStep' = 4 => m.n = 4
            BY <1>3, <2>4 DEF OnDtlsHandshake, ClientStep, TypeOK
        <3>2. QED
            BY <3>1, <2>3 DEF HandshakeSafety, DtlsFlightsSound
    <2>6. dtlsHandshakeDone' <=> dtlsStep' = 4
        <3>1. CASE ClientStep(dtlsStep, m.n) = 4
            <4>1. HandshakeDone
                BY <1>3, <3>1 DEF OnDtlsHandshake
            <4>2. QED
                BY <4>1, <3>1, <1>3 DEF HandshakeDone, OnDtlsHandshake
        <3>2. CASE ClientStep(dtlsStep, m.n) # 4
            BY <1>3, <2>3, <3>2 DEF OnDtlsHandshake
        <3>3. QED
            BY <3>1, <3>2
    <2>7. peerStep' = peerStep
        BY <1>3 DEF OnDtlsHandshake, peerVars
    <2>8. DtlsFlightsSound'
        BY <2>1, <2>2, <2>7 DEF HandshakeSafety, DtlsFlightsSound
    <2>9. NoSrtpBeforeHandshake'
        BY <2>1, <2>2, <2>3 DEF HandshakeSafety, NoSrtpBeforeHandshake
    <2>10. QED
        BY <2>5, <2>6, <2>7, <2>8, <2>9 DEF HandshakeSafety, HandshakeOrder
<1>4. ASSUME NEW m \in net, OnDtlsRead(m) PROVE HandshakeSafety'
    BY <1>4 DEF OnDtlsRead, Parse, Receive, peerVars, HandshakeSafety, DtlsFlightsSound,
        HandshakeOrder, NoSrtpBeforeHandshake
<1>5. ASSUME NEW m \in net, OnRtcp(m) PROVE HandshakeSafety'
    BY <1>5 DEF OnRtcp, Parse, Receive, peerVars, HandshakeSafety, DtlsFlightsSound,
        HandshakeOrder, NoSrtpBeforeHandshake
<1>6. ASSUME NEW m \in net, OnRtp(m) PROVE HandshakeSafety'
    BY <1>6 DEF OnRtp, Parse, Receive, peerVars, HandshakeSafety, DtlsFlightsSound,
        HandshakeOrder, NoSrtpBeforeHandshake
<1>7. CASE SendData
    <2>1. net' \subseteq net \cup IF dtlsHandshakeDone THEN {Msg("browser", "srtp", fwdNext, 0)} ELSE {}
        BY <1>7 DEF SendData, Protect
    <2>2. QED
        BY <1>7, <2>1 DEF SendData, Msg, peerVars, HandshakeSafety, DtlsFlightsSound,
            HandshakeOrder, NoSrtpBeforeHandshake
<1>8. CASE EveryNMillSecond
    <2>1. net' \subseteq net \cup IF dtlsHandshakeDone THEN {Msg("browser", "srtcp", 0, 0)} ELSE {}
        BY <1>8 DEF EveryNMillSecond, Protect
    <2>2. QED
        BY <1>8, <2>1 DEF EveryNMillSecond, Msg, peerVars, HandshakeSafety, DtlsFlightsSound,
            HandshakeOrder, NoSrtpBeforeHandshake
<1>9. CASE Tick
    BY <1>9 DEF Tick, peerVars, netVars, HandshakeSafety, DtlsFlightsSound,
        HandshakeOrder, NoSrtpBeforeHandshake
<1>10. CASE CheckCanClose
    BY <1>10 DEF CheckCanClose, peerVars, HandshakeSafety, DtlsFlightsSound,
        HandshakeOrder, NoSrtpBeforeHandshake
<1>11. CASE PeerSendStun
    BY <1>11 DEF PeerSendStun, ToSession, Msg, sessionVars, peerVars, HandshakeSafety,
        DtlsFlightsSound, HandshakeOrder, NoSrtpBeforeHandshake
<1>12. ASSUME NEW m \in net, PeerDtls(m) PROVE HandshakeSafety'
    <2> DEFINE out == UNION {ToSession(Msg("session", "dtls", f, 0)) : f \in ServerOut(peerStep, m.n)}
    <2>1. net' \subseteq net \cup out
        BY <1>12 DEF PeerDtls, Receive
    <2>2. peerStep' = ServerStep(peerStep, m.n)
        BY <1>12 DEF PeerDtls
    <2>3. /\ peerStep \in {2, 4} => peerStep' \in {2, 4}
          /\ peerStep = 4 => peerStep' = 4
        BY <2>2 DEF ServerStep, TypeOK
    <2>4. \A o \in out : o.dst = "session" /\ o.k = "dtls" /\ o.n = peerStep' /\ peerStep' \in {2, 4}
        BY <2>2 DEF ServerOut, ServerStep, ToSession, Msg, TypeOK
    <2>5. UNCHANGED <<dtlsHandshakeDone, dtlsStep>>
        BY <1>12 DEF PeerDtls, sessionVars
    <2>6. QED
        BY <2>1, <2>3, <2>4, <2>5 DEF HandshakeSafety, DtlsFlightsSound, HandshakeOrder,
            NoSrtpBeforeHandshake
<1>13. CASE PeerRetransmit
    <2>1. net' \subseteq net \cup {Msg("session", "dtls", 2, 0)}
        BY <1>13 DEF PeerRetransmit, ToSession
    <2>2. QED
        BY <1>13, <2>1 DEF PeerRetransmit, Msg, sessionVars, peerVars, HandshakeSafety,
            DtlsFlightsSound, HandshakeOrder, NoSrtpBeforeHandshake
<1>14. CASE PeerSendRtp
    <2>1. PICK pt \in PayloadTypes : net' \subseteq net \cup {Msg("session", "rtp", rtpNext, pt)}
        BY <1>14 DEF PeerSendRtp, ToSession
    <2>2. QED
        BY <1>14, <2>1 DEF PeerSendRtp, Msg, sessionVars, HandshakeSafety, DtlsFlightsSound,
            HandshakeOrder, NoSrtpBeforeHandshake
<1>15. CASE PeerSendRtcp
    <2>1. net' \subseteq net \cup {Msg("session", "rtcp", 0, 0)}
        BY <1>15 DEF PeerSendRtcp, ToSession
    <2>2. QED
        BY <1>15, <2>1 DEF PeerSendRtcp, Msg, sessionVars, peerVars, HandshakeSafety,
            DtlsFlightsSound, HandshakeOrder, NoSrtpBeforeHandshake
<1>16. ASSUME NEW m \in net, PeerConsume(m) PROVE HandshakeSafety'
    BY <1>16 DEF PeerConsume, Receive, sessionVars, peerVars, HandshakeSafety, DtlsFlightsSound,
        HandshakeOrder, NoSrtpBeforeHandshake
<1>17. CASE Lose
    BY <1>17 DEF Lose, sessionVars, peerVars, HandshakeSafety, DtlsFlightsSound,
        HandshakeOrder, NoSrtpBeforeHandshake
<1>18. CASE UNCHANGED vars
    BY <1>18 DEF vars, sessionVars, peerVars, netVars, HandshakeSafety, DtlsFlightsSound,
        HandshakeOrder, NoSrtpBeforeHandshake
<1>19. QED
    BY <1>1, <1>2, <1>3, <1>4, <1>5, <1>6, <1>7, <1>8, <1>9, <1>10, <1>11,
       <1>12, <1>13, <1>14, <1>15, <1>16, <1>17, <1>18
    DEF Next, SessionStep, PeerStep
-----------------------------------------------------------------------------
(* The theorems.                                                            *)

LEMMA StepIInv == IInv /\ [Next]_vars => IInv'
BY TypeStep, SafetyStep DEF IInv, HandshakeSafety

\* IInv holds in every reachable state.
THEOREM IInvHolds == Spec => []IInv
BY InitIInv, StepIInv, PTL DEF Spec

\* Type correctness of every variable of the session, the browser and the
\* network.
THEOREM TypeCorrect == Spec => []TypeOK
BY IInvHolds, PTL DEF IInv

\* Handshake() reaches SSL_ERROR_NONE and installs SRTP keys only after the
\* browser has finished its side of the DTLS handshake, whatever the network
\* loses, duplicates or reorders.
THEOREM HandshakeOrderHolds == Spec => []HandshakeOrder
BY IInvHolds, PTL DEF IInv

\* No SRTP or SRTCP datagram (SendData, the PLI timer) is emitted before
\* dtls_handshake_done_ (spec section 8, invariant 3).
THEOREM NoSrtpBeforeHandshakeHolds == Spec => []NoSrtpBeforeHandshake
BY IInvHolds, PTL DEF IInv

-----------------------------------------------------------------------------
(* Refinement of DtlsSrtpSession under the mapping Abs of WebrtcSession.   *)
(* Spawn is AStart, CheckCanClose is AClose, the browser's flight 4 is     *)
(* APeerFinish, the OnDtls step that reaches OpenSSL's last client step is *)
(* AInstallKeys, and an RTP packet OnRtp forwards is AForward; every other *)
(* step leaves the mapped state alone.  The key step needs IInv: the       *)
(* flight 4 it consumes was written by a browser that is done              *)
(* (DtlsFlightsSound).                                                     *)

\* The variables the mapping reads.
Seen == <<life, peerStep, dtlsHandshakeDone, srtpSend, srtpRecv, forwarded>>

LEMMA RefineStep == IInv /\ [Next]_vars => [Abs!ANext]_Abs!avars
<1> SUFFICES ASSUME IInv, [Next]_vars PROVE [Abs!ANext]_Abs!avars
    OBVIOUS
<1>0. UNCHANGED Seen => [Abs!ANext]_Abs!avars
    BY DEF Seen, Abs!avars
<1>1. CASE Spawn
    BY <1>1 DEF Spawn, SetConnectState, peerVars, Abs!ANext, Abs!AStart
<1>2. ASSUME NEW m \in net, OnStun(m) PROVE [Abs!ANext]_Abs!avars
    BY <1>0, <1>2 DEF OnStun, Seen, peerVars
<1>3. ASSUME NEW m \in net, OnDtlsHandshake(m) PROVE [Abs!ANext]_Abs!avars
    <2>1. /\ life = "live" /\ m.dst = "session" /\ m.k = "dtls" /\ ~dtlsHandshakeDone
          /\ UNCHANGED <<life, forwarded, peerStep>>
        BY <1>3 DEF OnDtlsHandshake, Parse, peerVars
    <2>2. CASE ClientStep(dtlsStep, m.n) = 4
        <3>0. dtlsStep # 4
            BY <2>1 DEF IInv
        <3>1. m.n = 4
            BY <2>2, <3>0 DEF ClientStep
        <3>2. peerStep = 4
            BY <2>1, <3>1 DEF IInv, DtlsFlightsSound
        <3>3. dtlsHandshakeDone' /\ <<srtpSend, srtpRecv>>' \in Abs!Contexts \X Abs!Contexts
            BY <1>3, <2>2 DEF OnDtlsHandshake, HandshakeDone, Abs!Contexts
        <3>. QED
            BY <2>1, <3>2, <3>3 DEF Abs!ANext, Abs!AInstallKeys
    <2>3. CASE ClientStep(dtlsStep, m.n) # 4
        <3>1. UNCHANGED <<dtlsHandshakeDone, srtpSend, srtpRecv>>
            BY <1>3, <2>3 DEF OnDtlsHandshake
        <3>. QED
            BY <1>0, <2>1, <3>1 DEF Seen
    <2>. QED
        BY <2>2, <2>3
<1>4. ASSUME NEW m \in net, OnDtlsRead(m) PROVE [Abs!ANext]_Abs!avars
    BY <1>0, <1>4 DEF OnDtlsRead, Seen, peerVars
<1>5. ASSUME NEW m \in net, OnRtcp(m) PROVE [Abs!ANext]_Abs!avars
    BY <1>0, <1>5 DEF OnRtcp, Seen, peerVars
<1>6. ASSUME NEW m \in net, OnRtp(m) PROVE [Abs!ANext]_Abs!avars
    <2>1. /\ life = "live"
          /\ UNCHANGED <<life, peerStep, dtlsHandshakeDone, srtpSend, srtpRecv>>
        BY <1>6 DEF OnRtp, Parse, peerVars
    <2>2. CASE SrtpReady /\ m.pt \in VideoPTs
        <3>1. forwarded' = Append(forwarded, [seq |-> m.n, ok |-> m.n \notin srtpReplay])
            BY <1>6, <2>2 DEF OnRtp
        <3>2. Len(forwarded') = Len(forwarded) + 1
            BY <3>1 DEF IInv, TypeOK
        <3>. QED
            BY <2>1, <2>2, <3>2 DEF SrtpReady, Abs!ANext, Abs!AForward
    <2>3. CASE ~(SrtpReady /\ m.pt \in VideoPTs)
        BY <1>0, <1>6, <2>1, <2>3 DEF OnRtp, Seen
    <2>. QED
        BY <2>2, <2>3
<1>7. CASE SendData
    BY <1>0, <1>7 DEF SendData, Seen, peerVars
<1>8. CASE EveryNMillSecond
    BY <1>0, <1>8 DEF EveryNMillSecond, Seen, peerVars
<1>9. CASE Tick
    BY <1>0, <1>9 DEF Tick, Seen, peerVars
<1>10. CASE CheckCanClose
    BY <1>10 DEF CheckCanClose, peerVars, Abs!ANext, Abs!AClose
<1>11. CASE PeerSendStun
    BY <1>0, <1>11 DEF PeerSendStun, Seen, sessionVars, peerVars
<1>12. ASSUME NEW m \in net, PeerDtls(m) PROVE [Abs!ANext]_Abs!avars
    <2>1. /\ peerStep' = ServerStep(peerStep, m.n)
          /\ UNCHANGED <<life, dtlsHandshakeDone, srtpSend, srtpRecv, forwarded>>
        BY <1>12 DEF PeerDtls, sessionVars
    <2>2. CASE peerStep # 4 /\ ServerStep(peerStep, m.n) = 4
        BY <2>1, <2>2 DEF Abs!ANext, Abs!APeerFinish
    <2>3. CASE peerStep = 4 \/ ServerStep(peerStep, m.n) # 4
        <3>1. (peerStep' = 4) = (peerStep = 4)
            BY <2>1, <2>3 DEF ServerStep
        <3>. QED
            BY <2>1, <3>1 DEF Abs!avars
    <2>. QED
        BY <2>2, <2>3
<1>13. CASE PeerRetransmit
    BY <1>0, <1>13 DEF PeerRetransmit, Seen, sessionVars, peerVars
<1>14. CASE PeerSendRtp
    BY <1>0, <1>14 DEF PeerSendRtp, Seen, sessionVars
<1>15. CASE PeerSendRtcp
    BY <1>0, <1>15 DEF PeerSendRtcp, Seen, sessionVars, peerVars
<1>16. ASSUME NEW m \in net, PeerConsume(m) PROVE [Abs!ANext]_Abs!avars
    BY <1>0, <1>16 DEF PeerConsume, Seen, sessionVars, peerVars
<1>17. CASE Lose
    BY <1>0, <1>17 DEF Lose, Seen, sessionVars, peerVars
<1>18. CASE UNCHANGED vars
    BY <1>0, <1>18 DEF vars, Seen, sessionVars, peerVars
<1>19. QED
    BY <1>1, <1>2, <1>3, <1>4, <1>5, <1>6, <1>7, <1>8, <1>9, <1>10, <1>11,
       <1>12, <1>13, <1>14, <1>15, <1>16, <1>17, <1>18
    DEF Next, SessionStep, PeerStep

\* WebrtcSession implements DtlsSrtpSession: the session is spawned and
\* destroyed once (OnStun, CheckCanClose), Handshake() installs the SRTP
\* contexts once and only after the browser's Finished, they never change
\* afterwards, and OnRtpRtcp forwards RTP only while live and keyed.
THEOREM SessionRefinement == Spec => ImplementsSession
<1>1. Init => Abs!AInit
    BY DEF Init, Abs!AInit
<1>2. IInv /\ [Next]_vars => [Abs!ANext]_Abs!avars
    BY RefineStep
<1>. QED
    BY <1>1, <1>2, IInvHolds, PTL DEF Spec, ImplementsSession, Abs!ASpec

=============================================================================
