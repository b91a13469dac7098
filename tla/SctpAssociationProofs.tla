------------------------ MODULE SctpAssociationProofs ------------------------
(***************************************************************************)
(* Proofs about SctpAssociation: type correctness for every value of the   *)
(* constants.  The TSN fields are typed only through what the counter      *)
(* behind GetAndAddTsn hands out and where the browser's cumulative ack    *)
(* point stands, so the proof carries an invariant about both.             *)
(***************************************************************************)
EXTENDS SctpAssociation, FiniteSetTheorems, TLAPS

USE SctpConstantsAssumption

-----------------------------------------------------------------------------
(* The TSN counter.  GetAndAddTsn gives the INIT-ACK and every DATA chunk a *)
(* fresh TSN, so the initial TSN the browser takes from the INIT-ACK is    *)
(* never the TSN of a DATA chunk; the browser's cumulative ack point       *)
(* starts there and the first missing TSN is always that one.              *)

\* What the counter has handed out: the TSNs of the session's DATA lie
\* below local_tsn and none is the initial TSN of an INIT-ACK (line 824
\* takes that TSN with GetAndAddTsn), in flight or taken by the browser.
TsnFresh ==
    /\ sData \subseteq InitialTsn .. localTsn - 1
    /\ \A m \in toBrowser : m.type = "init_ack" => m.tsn \notin sData
    /\ bState \in {"cookie_echoed", "established"} => bPeerTsn \notin sData

\* The strengthening TypeOK needs: where the TSNs in flight and held by
\* the browser come from, and the browser's ack point (which types the
\* SACKs it sends).  The last conjunct types the DATA the browser sends,
\* for remote_tsn.
TsnInv ==
    /\ TsnFresh
    /\ localTsn >= InitialTsn
    /\ \A m \in toBrowser : m.type = "init_ack" => m.tsn \in InitialTsn .. localTsn - 1
    /\ \A m \in toBrowser : m.type = "data" => m.tsn \in sData
    /\ bRecvd \subseteq sData
    /\ bState \in {"cookie_echoed", "established"} => bPeerTsn \in InitialTsn .. localTsn - 1
    /\ bState \in {"cookie_echoed", "established"} => bRecvNext = bPeerTsn
    /\ \A m \in toServer : m.type = "data" => m.tsn \in PeerTsns

SInv == TypeOK /\ TsnInv

\* The browser's TSNs are natural numbers.
LEMMA PeerTsnsNat == PeerTsns \subseteq Nat
BY SctpConstantsAssumption DEF PeerTsns

\* GetAndAddTsn extends the range of TSNs handed out so far by one: the
\* TSN it returns and those before it are below the new local_tsn.
LEMMA FreshTsnRange ==
    ASSUME NEW S, NEW n \in Nat, n >= InitialTsn, S \subseteq InitialTsn .. n - 1
    PROVE  /\ S \subseteq InitialTsn .. (n + 1) - 1
           /\ S \cup {n} \subseteq InitialTsn .. (n + 1) - 1
OBVIOUS

\* FirstMissing(n, S) is n itself when n is not in S.
LEMMA FirstMissingAt ==
    ASSUME NEW n \in Int, NEW S, IsFiniteSet(S), n \notin S
    PROVE  FirstMissing(n, S) = n
<1>1. Cardinality(S) \in Nat
  BY FS_CardinalityType
<1>2. \E t \in n .. n + Cardinality(S) : t \notin S /\ \A u \in n .. t - 1 : u \in S
  BY <1>1
<1>3. \A t \in n .. n + Cardinality(S) :
          (t \notin S /\ \A u \in n .. t - 1 : u \in S) => t = n
  BY <1>1
<1>. QED
  BY <1>2, <1>3 DEF FirstMissing

LEMMA InitSInv == Init => SInv
<1>. SUFFICES ASSUME Init PROVE SInv
  OBVIOUS
<1>1. TypeOK
  <2>1. /\ remoteTsn \in {0} \cup PeerTsns
        /\ localTsn \in Nat
        /\ keepAlives \in 0 .. MaxKeepAlive
    BY DEF Init
  <2>2. /\ datachannelOpen \in BOOLEAN
        /\ bState \in {"closed", "cookie_wait", "cookie_echoed", "established"}
    BY DEF Init
  <2>3. /\ bPeerTsn \in Nat
        /\ bRecvNext \in Nat
        /\ bAcked \in Int
        /\ bHb \in 0 .. MaxHb
        /\ losses \in 0 .. MaxLoss
    BY DEF Init
  <2>4. /\ bRecvd \subseteq Nat
        /\ rcvd \subseteq Nat
        /\ sData \subseteq Nat
        /\ toServer \subseteq Chunks
        /\ toBrowser \subseteq Chunks
    BY DEF Init
  <2>5. /\ bOut \in Seq(PeerPpids)
        /\ rtxCtl \in [{"init", "cookie_echo"} -> 0 .. MaxRtx]
        /\ rtxData \in [PeerTsns -> 0 .. MaxRtx]
    BY DEF Init
  <2>. QED
    BY <2>1, <2>2, <2>3, <2>4, <2>5, Zenon DEF TypeOK
<1>2. TsnInv
  BY DEF Init, TsnInv, TsnFresh
<1>. QED
  BY <1>1, <1>2 DEF SInv

\* A DATA chunk reaching the established browser carries a TSN the session
\* gave a DATA chunk, never the initial TSN the browser waits for: its
\* cumulative ack point stays where it is.
LEMMA RecvDataAckPoint ==
    ASSUME TypeOK, TsnInv, NEW m \in toBrowser, BRecvData(m)
    PROVE  /\ m.tsn \in sData
           /\ bRecvd' \subseteq sData
           /\ bRecvNext' = bPeerTsn
<1>1. m.tsn \in sData /\ bRecvd' \subseteq sData
  BY DEF BRecvData, TsnInv
<1>2. bRecvNext = bPeerTsn /\ bPeerTsn \notin sData /\ bPeerTsn \in Int
  BY DEF BRecvData, TsnInv, TsnFresh, TypeOK
<1>3. IsFiniteSet(bRecvd')
  <2>1. sData \subseteq InitialTsn .. localTsn - 1
    BY DEF TsnInv, TsnFresh
  <2>2. IsFiniteSet(InitialTsn .. localTsn - 1)
    BY FS_Interval, SctpConstantsAssumption DEF TypeOK
  <2>. QED
    BY <1>1, <2>1, <2>2, FS_Subset
<1>. QED
  BY <1>1, <1>2, <1>3, FirstMissingAt DEF BRecvData

\* Every step keeps the types, given where the TSNs come from.  Each case
\* first states what the action changes, then the types of the new values.
LEMMA TypeStep ==
    ASSUME TypeOK, TsnInv, [Next]_vars
    PROVE  TypeOK'
<1>. USE DEF Chunk
<1>1. ASSUME NEW m \in toServer, OnSctp(m) PROVE TypeOK'
  <2>1. m \in Chunks /\ toServer' = toServer \ {m} /\ UNCHANGED <<peerVars, losses>>
    BY <1>1 DEF OnSctp, TypeOK
  <2>2. CASE m.type = "data"
    <3>1. m.tsn \in PeerTsns
      BY <2>2 DEF TsnInv
    <3>2. /\ remoteTsn' = m.tsn /\ rcvd' = rcvd \cup {m.tsn}
          /\ UNCHANGED <<keepAlives>>
          /\ toBrowser' \subseteq toBrowser \cup {Chunk("data", localTsn, "ack"),
                 Chunk("sack", m.tsn, "none"), Chunk("data", localTsn, "string")}
          /\ localTsn' \in {localTsn, localTsn + 1}
          /\ sData' \subseteq sData \cup {localTsn}
          /\ datachannelOpen' \in BOOLEAN
      BY <1>1, <2>2 DEF OnSctp, OnSctpData, SendSctpData, TypeOK
    <3>3. {Chunk("data", localTsn, "ack"), Chunk("sack", m.tsn, "none"),
           Chunk("data", localTsn, "string")} \subseteq Chunks
      BY <3>1, SctpConstantsAssumption DEF TypeOK, Chunks, ChunkTypes, Ppids, PeerPpids, PeerTsns
    <3>4. remoteTsn' \in {0} \cup PeerTsns /\ rcvd' \subseteq Nat
      BY <3>1, <3>2, PeerTsnsNat DEF TypeOK
    <3>5. localTsn' \in Nat
      BY <3>2 DEF TypeOK
    <3>6. sData' \subseteq Nat
      BY <3>2 DEF TypeOK
    <3>7. toBrowser' \subseteq Chunks
      BY <3>2, <3>3 DEF TypeOK
    <3>. QED
      BY <2>1, <3>2, <3>4, <3>5, <3>6, <3>7 DEF TypeOK, peerVars
  <2>3. CASE m.type = "init"
    <3>1. /\ toBrowser' = toBrowser \cup {Chunk("init_ack", localTsn, "none")}
          /\ localTsn' = localTsn + 1
          /\ UNCHANGED <<remoteTsn, datachannelOpen, keepAlives, rcvd, sData>>
      BY <1>1, <2>3 DEF OnSctp, OnSctpInit
    <3>2. Chunk("init_ack", localTsn, "none") \in Chunks
      BY DEF TypeOK, Chunks, ChunkTypes, Ppids
    <3>. QED
      BY <2>1, <3>1, <3>2 DEF TypeOK, peerVars
  <2>4. CASE m.type = "sack"
    <3>1. /\ toBrowser' = toBrowser \cup {Chunk("cwr", localTsn, "none")}
          /\ UNCHANGED <<remoteTsn, localTsn, datachannelOpen, keepAlives, rcvd, sData>>
      BY <1>1, <2>4 DEF OnSctp, OnSctpSack
    <3>2. Chunk("cwr", localTsn, "none") \in Chunks
      BY DEF TypeOK, Chunks, ChunkTypes, Ppids
    <3>. QED
      BY <2>1, <3>1, <3>2 DEF TypeOK, peerVars
  <2>5. CASE m.type = "heartbeat"
    <3>1. /\ toBrowser' = toBrowser \cup {Chunk("heartbeat_ack", 0, "none")}
          /\ UNCHANGED <<remoteTsn, localTsn, datachannelOpen, keepAlives, rcvd, sData>>
      BY <1>1, <2>5 DEF OnSctp, OnSctpHeartbeat
    <3>2. Chunk("heartbeat_ack", 0, "none") \in Chunks
      BY DEF Chunks, ChunkTypes, Ppids
    <3>. QED
      BY <2>1, <3>1, <3>2 DEF TypeOK, peerVars
  <2>6. CASE m.type = "cookie_echo"
    <3>1. /\ toBrowser' = toBrowser \cup {Chunk("cookie_ack", 0, "none")}
          /\ UNCHANGED <<remoteTsn, localTsn, datachannelOpen, keepAlives, rcvd, sData>>
      BY <1>1, <2>6 DEF OnSctp, OnSctpCookieEcho
    <3>2. Chunk("cookie_ack", 0, "none") \in Chunks
      BY DEF Chunks, ChunkTypes, Ppids
    <3>. QED
      BY <2>1, <3>1, <3>2 DEF TypeOK, peerVars
  <2>. QED
    BY <1>1, <2>2, <2>3, <2>4, <2>5, <2>6 DEF OnSctp
<1>2. CASE EveryNSecond
  <2>1. /\ keepAlives' = keepAlives + 1 /\ keepAlives < MaxKeepAlive
        /\ toBrowser' = toBrowser \cup {Chunk("data", localTsn, "string")}
        /\ localTsn' = localTsn + 1 /\ sData' = sData \cup {localTsn}
        /\ UNCHANGED <<remoteTsn, datachannelOpen, peerVars, toServer, losses, rcvd>>
    BY <1>2 DEF EveryNSecond, SendSctpData
  <2>2. Chunk("data", localTsn, "string") \in Chunks
    BY DEF TypeOK, Chunks, ChunkTypes, Ppids, PeerPpids
  <2>. QED
    BY <2>1, <2>2 DEF TypeOK, peerVars
<1>3. CASE BInit
  <2>1. /\ bState' = "cookie_wait"
        /\ toServer' = toServer \cup {Chunk("init", PeerInitialTsn, "none")}
        /\ UNCHANGED <<serverVars, bPeerTsn, bRecvNext, bRecvd, bOut, bAcked, bHb,
                       rtxCtl, rtxData, toBrowser, losses, histVars>>
    BY <1>3 DEF BInit, PeerSend
  <2>2. Chunk("init", PeerInitialTsn, "none") \in Chunks
    BY SctpConstantsAssumption DEF Chunks, ChunkTypes, Ppids
  <2>. QED
    BY <2>1, <2>2 DEF TypeOK, serverVars, histVars
<1>4. ASSUME NEW m \in toBrowser, BRecv(m) PROVE TypeOK'
  <2>1. m \in Chunks /\ toBrowser' = toBrowser \ {m} /\ UNCHANGED <<serverVars, losses, histVars>>
    BY <1>4 DEF BRecv, TypeOK
  <2>2. CASE BRecvInitAck(m)
    <3>1. m.tsn \in Nat
      BY <2>2, SctpConstantsAssumption DEF BRecvInitAck, TsnInv
    <3>2. /\ bState' = "cookie_echoed" /\ bPeerTsn' = m.tsn /\ bRecvNext' = m.tsn
          /\ toServer' = toServer \cup {Chunk("cookie_echo", 0, "none")}
          /\ UNCHANGED <<bRecvd, bOut, bAcked, bHb, rtxCtl, rtxData>>
      BY <2>2 DEF BRecvInitAck, PeerSend
    <3>3. Chunk("cookie_echo", 0, "none") \in Chunks
      BY DEF Chunks, ChunkTypes, Ppids
    <3>. QED
      BY <2>1, <3>1, <3>2, <3>3 DEF TypeOK, serverVars, histVars
  <2>3. CASE BRecvCookieAck(m)
    <3>1. /\ bState' = "established"
          /\ UNCHANGED <<bPeerTsn, bRecvNext, bRecvd, bOut, bAcked, bHb, rtxCtl, rtxData, toServer>>
      BY <2>3 DEF BRecvCookieAck
    <3>. QED
      BY <2>1, <3>1 DEF TypeOK, serverVars, histVars
  <2>4. CASE BRecvData(m)
    <3>1. m.tsn \in sData /\ bRecvNext' = bPeerTsn
      BY <2>4, RecvDataAckPoint
    <3>2. /\ bRecvd' = bRecvd \cup {m.tsn}
          /\ toServer' = toServer \cup {Chunk("sack", bRecvNext' - 1, "none")}
          /\ UNCHANGED <<bState, bPeerTsn, bOut, bAcked, bHb, rtxCtl, rtxData>>
      BY <2>4 DEF BRecvData, PeerSend
    <3>3. Chunk("sack", bPeerTsn - 1, "none") \in Chunks
      BY DEF TypeOK, Chunks, ChunkTypes, Ppids
    <3>. QED
      BY <2>1, <3>1, <3>2, <3>3 DEF TypeOK, serverVars, histVars
  <2>5. CASE BRecvSack(m)
    <3>1. /\ bAcked' \in {m.tsn, bAcked}
          /\ UNCHANGED <<bState, bPeerTsn, bRecvNext, bRecvd, bOut, bHb, rtxCtl, rtxData, toServer>>
      BY <2>5 DEF BRecvSack
    <3>. QED
      BY <2>1, <3>1 DEF TypeOK, serverVars, histVars, Chunks
  <2>6. CASE BDiscard(m)
    <3>1. UNCHANGED <<peerVars, toServer>>
      BY <2>6 DEF BDiscard
    <3>. QED
      BY <2>1, <3>1 DEF TypeOK, serverVars, peerVars, histVars
  <2>. QED
    BY <1>4, <2>2, <2>3, <2>4, <2>5, <2>6 DEF BRecv
<1>5. ASSUME NEW p \in PeerPpids, BSendData(p) PROVE TypeOK'
  <2>1. /\ toServer' = toServer \cup {Chunk("data", PeerInitialTsn + Len(bOut), p)}
        /\ bOut' = Append(bOut, p) /\ Len(bOut) < MaxMsgs
        /\ UNCHANGED <<serverVars, bState, bPeerTsn, bRecvNext, bRecvd, bAcked,
                       bHb, rtxCtl, rtxData, toBrowser, losses, histVars>>
    BY <1>5 DEF BSendData, PeerSend
  <2>2. Chunk("data", PeerInitialTsn + Len(bOut), p) \in Chunks
    BY SctpConstantsAssumption DEF TypeOK, Chunks, ChunkTypes, Ppids
  <2>. QED
    BY <2>1, <2>2 DEF TypeOK, serverVars, histVars
<1>6. CASE BHeartbeat
  <2>1. /\ bHb' = bHb + 1 /\ bHb < MaxHb
        /\ toServer' = toServer \cup {Chunk("heartbeat", 0, "none")}
        /\ UNCHANGED <<serverVars, bState, bPeerTsn, bRecvNext, bRecvd, bOut,
                       bAcked, rtxCtl, rtxData, toBrowser, losses, histVars>>
    BY <1>6 DEF BHeartbeat, PeerSend
  <2>2. Chunk("heartbeat", 0, "none") \in Chunks
    BY DEF Chunks, ChunkTypes, Ppids
  <2>. QED
    BY <2>1, <2>2 DEF TypeOK, serverVars, histVars
<1>7. CASE BRetransmit
  <2>1. UNCHANGED <<serverVars, bState, bPeerTsn, bRecvNext, bRecvd, bOut,
                    bAcked, bHb, toBrowser, losses, histVars>>
    BY <1>7 DEF BRetransmit
  <2>2. ASSUME NEW t \in PeerTsns, BRetransmitData(t) PROVE TypeOK'
    <3>1. t - PeerInitialTsn + 1 \in 1 .. Len(bOut)
      BY <2>2, SctpConstantsAssumption DEF BRetransmitData, PeerTsns, TypeOK
    <3>2. Chunk("data", t, bOut[t - PeerInitialTsn + 1]) \in Chunks
      BY <3>1, SctpConstantsAssumption DEF Chunks, ChunkTypes, PeerTsns, Ppids, TypeOK
    <3>3. /\ toServer' = toServer \cup {Chunk("data", t, bOut[t - PeerInitialTsn + 1])}
          /\ rtxData' = [rtxData EXCEPT ![t] = @ + 1] /\ rtxData[t] < MaxRtx
          /\ UNCHANGED rtxCtl
      BY <2>2 DEF BRetransmitData, PeerSend
    <3>. QED
      BY <2>1, <3>2, <3>3 DEF TypeOK, serverVars, histVars
  <2>3. ASSUME NEW c \in Int, NEW type \in {"init", "cookie_echo"}, NEW reply,
               BRetransmitCtl(c, type, reply)
        PROVE  TypeOK'
    <3>1. Chunk(type, c, "none") \in Chunks
      BY DEF Chunks, ChunkTypes, Ppids
    <3>2. /\ toServer' = toServer \cup {Chunk(type, c, "none")}
          /\ rtxCtl' = [rtxCtl EXCEPT ![type] = @ + 1] /\ rtxCtl[type] < MaxRtx
          /\ UNCHANGED rtxData
      BY <2>3 DEF BRetransmitCtl, PeerSend
    <3>. QED
      BY <2>1, <3>1, <3>2 DEF TypeOK, serverVars, histVars
  <2>. QED
    BY <1>7, <2>2, <2>3, SctpConstantsAssumption DEF BRetransmit
<1>8. CASE Lose
  <2>1. /\ losses' = losses + 1 /\ losses < MaxLoss
        /\ toServer' \subseteq toServer /\ toBrowser' \subseteq toBrowser
        /\ UNCHANGED <<serverVars, peerVars, histVars>>
    BY <1>8 DEF Lose
  <2>. QED
    BY <2>1 DEF TypeOK, serverVars, peerVars, histVars
<1>9. CASE UNCHANGED vars
  BY <1>9 DEF vars, TypeOK, serverVars, peerVars, netVars, histVars
<1>. QED
  BY <1>1, <1>2, <1>3, <1>4, <1>5, <1>6, <1>7, <1>8, <1>9 DEF Next
\* Every step keeps TsnInv: local_tsn only grows, a fresh TSN goes to one
\* chunk, and the browser takes its initial TSN from an INIT-ACK.
LEMMA TsnStep ==
    ASSUME TypeOK, TsnInv, [Next]_vars
    PROVE  TsnInv'
<1>. USE DEF Chunk
<1>1. ASSUME NEW m \in toServer, OnSctp(m) PROVE TsnInv'
  <2>1. toServer' = toServer \ {m} /\ UNCHANGED <<peerVars, losses>>
    BY <1>1 DEF OnSctp
  <2>2. localTsn \in Nat
    BY DEF TypeOK
  <2>3. CASE m.type = "data" /\ m.ppid = "open"
    <3>1. /\ toBrowser' = toBrowser \cup {Chunk("data", localTsn, "ack"), Chunk("sack", m.tsn, "none")}
          /\ localTsn' = localTsn + 1 /\ sData' = sData \cup {localTsn}
      BY <1>1, <2>3 DEF OnSctp, OnSctpData
    <3>. QED
      <4>1. sData' \subseteq InitialTsn .. localTsn' - 1
        <5>1. sData \cup {localTsn} \subseteq InitialTsn .. (localTsn + 1) - 1
          BY <2>2, FreshTsnRange DEF TsnInv, TsnFresh
        <5>. QED
          BY <3>1, <5>1
      <4>2. \A x \in toBrowser' : x.type = "init_ack" => x.tsn \notin sData'
        BY <2>1, <2>2, <3>1 DEF TsnInv, TsnFresh, peerVars
      <4>3. bState' \in {"cookie_echoed", "established"} => bPeerTsn' \notin sData'
        BY <2>1, <2>2, <3>1 DEF TsnInv, TsnFresh, peerVars
      <4>4. \A x \in toBrowser' : x.type = "init_ack" => x.tsn \in InitialTsn .. localTsn' - 1
        BY <2>1, <2>2, <3>1 DEF TsnInv, TsnFresh, peerVars
      <4>5. \A x \in toBrowser' : x.type = "data" => x.tsn \in sData'
        BY <2>1, <2>2, <3>1 DEF TsnInv, TsnFresh, peerVars
      <4>6. bRecvd' \subseteq sData'
        BY <2>1, <2>2, <3>1 DEF TsnInv, TsnFresh, peerVars
      <4>7. bState' \in {"cookie_echoed", "established"} => bPeerTsn' \in InitialTsn .. localTsn' - 1
        BY <2>1, <2>2, <3>1 DEF TsnInv, TsnFresh, peerVars
      <4>8. bState' \in {"cookie_echoed", "established"} => bRecvNext' = bPeerTsn'
        BY <2>1, <2>2, <3>1 DEF TsnInv, TsnFresh, peerVars
      <4>9. \A x \in toServer' : x.type = "data" => x.tsn \in PeerTsns
        BY <2>1, <2>2, <3>1 DEF TsnInv, TsnFresh, peerVars
      <4>10. localTsn' >= InitialTsn
        BY <2>1, <2>2, <3>1 DEF TsnInv, TsnFresh, peerVars
      <4>. QED
        BY <4>1, <4>2, <4>3, <4>4, <4>5, <4>6, <4>7, <4>8, <4>9, <4>10, Zenon DEF TsnInv, TsnFresh
  <2>4. CASE m.type = "data" /\ m.ppid = "string" /\ datachannelOpen
    <3>1. /\ toBrowser' = toBrowser \cup {Chunk("data", localTsn, "string")}
          /\ localTsn' = localTsn + 1 /\ sData' = sData \cup {localTsn}
      BY <1>1, <2>4 DEF OnSctp, OnSctpData, SendSctpData
    <3>. QED
      <4>1. sData' \subseteq InitialTsn .. localTsn' - 1
        <5>1. sData \cup {localTsn} \subseteq InitialTsn .. (localTsn + 1) - 1
          BY <2>2, FreshTsnRange DEF TsnInv, TsnFresh
        <5>. QED
          BY <3>1, <5>1
      <4>2. \A x \in toBrowser' : x.type = "init_ack" => x.tsn \notin sData'
        BY <2>1, <2>2, <3>1 DEF TsnInv, TsnFresh, peerVars
      <4>3. bState' \in {"cookie_echoed", "established"} => bPeerTsn' \notin sData'
        BY <2>1, <2>2, <3>1 DEF TsnInv, TsnFresh, peerVars
      <4>4. \A x \in toBrowser' : x.type = "init_ack" => x.tsn \in InitialTsn .. localTsn' - 1
        BY <2>1, <2>2, <3>1 DEF TsnInv, TsnFresh, peerVars
      <4>5. \A x \in toBrowser' : x.type = "data" => x.tsn \in sData'
        BY <2>1, <2>2, <3>1 DEF TsnInv, TsnFresh, peerVars
      <4>6. bRecvd' \subseteq sData'
        BY <2>1, <2>2, <3>1 DEF TsnInv, TsnFresh, peerVars
      <4>7. bState' \in {"cookie_echoed", "established"} => bPeerTsn' \in InitialTsn .. localTsn' - 1
        BY <2>1, <2>2, <3>1 DEF TsnInv, TsnFresh, peerVars
      <4>8. bState' \in {"cookie_echoed", "established"} => bRecvNext' = bPeerTsn'
        BY <2>1, <2>2, <3>1 DEF TsnInv, TsnFresh, peerVars
      <4>9. \A x \in toServer' : x.type = "data" => x.tsn \in PeerTsns
        BY <2>1, <2>2, <3>1 DEF TsnInv, TsnFresh, peerVars
      <4>10. localTsn' >= InitialTsn
        BY <2>1, <2>2, <3>1 DEF TsnInv, TsnFresh, peerVars
      <4>. QED
        BY <4>1, <4>2, <4>3, <4>4, <4>5, <4>6, <4>7, <4>8, <4>9, <4>10, Zenon DEF TsnInv, TsnFresh
  <2>5. CASE m.type = "data" /\ ~(m.ppid = "open" \/ (m.ppid = "string" /\ datachannelOpen))
    <3>1. OnSctpData(m)
      BY <1>1, <2>5 DEF OnSctp
    <3>2. UNCHANGED <<toBrowser, localTsn, sData>>
      <4>1. CASE m.ppid = "string"
        BY <3>1, <2>5, <4>1 DEF OnSctpData, SendSctpData
      <4>2. CASE m.ppid # "string"
        <5>0. m.ppid # "open"
          BY <2>5
        <5>1. m.ppid = "binary" /\ UNCHANGED <<toBrowser, localTsn, datachannelOpen, sData>>
          BY <3>1, <5>0, <4>2 DEF OnSctpData
        <5>. QED
          BY <5>1
      <4>. QED
        BY <4>1, <4>2
    <3>. QED
      BY <2>1, <3>2 DEF TsnInv, TsnFresh, peerVars
  <2>6. CASE m.type = "init"
    <3>1. /\ toBrowser' = toBrowser \cup {Chunk("init_ack", localTsn, "none")}
          /\ localTsn' = localTsn + 1 /\ UNCHANGED sData
      BY <1>1, <2>6 DEF OnSctp, OnSctpInit
    <3>. QED
      <4>1. sData' \subseteq InitialTsn .. localTsn' - 1
        <5>1. sData \subseteq InitialTsn .. (localTsn + 1) - 1
          BY <2>2, FreshTsnRange DEF TsnInv, TsnFresh
        <5>. QED
          BY <3>1, <5>1
      <4>2. \A x \in toBrowser' : x.type = "init_ack" => x.tsn \notin sData'
        BY <2>1, <2>2, <3>1 DEF TsnInv, TsnFresh, peerVars
      <4>3. bState' \in {"cookie_echoed", "established"} => bPeerTsn' \notin sData'
        BY <2>1, <2>2, <3>1 DEF TsnInv, TsnFresh, peerVars
      <4>4. \A x \in toBrowser' : x.type = "init_ack" => x.tsn \in InitialTsn .. localTsn' - 1
        BY <2>1, <2>2, <3>1 DEF TsnInv, TsnFresh, peerVars
      <4>5. \A x \in toBrowser' : x.type = "data" => x.tsn \in sData'
        BY <2>1, <2>2, <3>1 DEF TsnInv, TsnFresh, peerVars
      <4>6. bRecvd' \subseteq sData'
        BY <2>1, <2>2, <3>1 DEF TsnInv, TsnFresh, peerVars
      <4>7. bState' \in {"cookie_echoed", "established"} => bPeerTsn' \in InitialTsn .. localTsn' - 1
        BY <2>1, <2>2, <3>1 DEF TsnInv, TsnFresh, peerVars
      <4>8. bState' \in {"cookie_echoed", "established"} => bRecvNext' = bPeerTsn'
        BY <2>1, <2>2, <3>1 DEF TsnInv, TsnFresh, peerVars
      <4>9. \A x \in toServer' : x.type = "data" => x.tsn \in PeerTsns
        BY <2>1, <2>2, <3>1 DEF TsnInv, TsnFresh, peerVars
      <4>10. localTsn' >= InitialTsn
        BY <2>1, <2>2, <3>1 DEF TsnInv, TsnFresh, peerVars
      <4>. QED
        BY <4>1, <4>2, <4>3, <4>4, <4>5, <4>6, <4>7, <4>8, <4>9, <4>10, Zenon DEF TsnInv, TsnFresh
  <2>7. CASE m.type \in {"sack", "heartbeat", "cookie_echo"}
    <3>1. /\ \E c \in {Chunk("cwr", localTsn, "none"), Chunk("heartbeat_ack", 0, "none"),
                       Chunk("cookie_ack", 0, "none")} :
                 toBrowser' = toBrowser \cup {c}
          /\ UNCHANGED <<localTsn, sData>>
      BY <1>1, <2>7 DEF OnSctp, OnSctpSack, OnSctpHeartbeat, OnSctpCookieEcho
    <3>. QED
      BY <2>1, <3>1 DEF TsnInv, TsnFresh, peerVars
  <2>. QED
    BY <1>1, <2>3, <2>4, <2>5, <2>6, <2>7 DEF OnSctp
<1>2. CASE EveryNSecond
  <2>1. /\ toBrowser' = toBrowser \cup {Chunk("data", localTsn, "string")}
        /\ localTsn' = localTsn + 1 /\ sData' = sData \cup {localTsn}
        /\ UNCHANGED <<peerVars, toServer>>
    BY <1>2 DEF EveryNSecond, SendSctpData
  <2>. QED
    <3>1. sData' \subseteq InitialTsn .. localTsn' - 1
      BY <2>1 DEF TsnInv, TsnFresh, TypeOK, peerVars
    <3>2. \A x \in toBrowser' : x.type = "init_ack" => x.tsn \notin sData'
      BY <2>1 DEF TsnInv, TsnFresh, TypeOK, peerVars
    <3>3. bState' \in {"cookie_echoed", "established"} => bPeerTsn' \notin sData'
      BY <2>1 DEF TsnInv, TsnFresh, TypeOK, peerVars
    <3>4. \A x \in toBrowser' : x.type = "init_ack" => x.tsn \in InitialTsn .. localTsn' - 1
      BY <2>1 DEF TsnInv, TsnFresh, TypeOK, peerVars
    <3>5. \A x \in toBrowser' : x.type = "data" => x.tsn \in sData'
      BY <2>1 DEF TsnInv, TsnFresh, TypeOK, peerVars
    <3>6. bRecvd' \subseteq sData'
      BY <2>1 DEF TsnInv, TsnFresh, TypeOK, peerVars
    <3>7. bState' \in {"cookie_echoed", "established"} => bPeerTsn' \in InitialTsn .. localTsn' - 1
      BY <2>1 DEF TsnInv, TsnFresh, TypeOK, peerVars
    <3>8. bState' \in {"cookie_echoed", "established"} => bRecvNext' = bPeerTsn'
      BY <2>1 DEF TsnInv, TsnFresh, TypeOK, peerVars
    <3>9. \A x \in toServer' : x.type = "data" => x.tsn \in PeerTsns
      BY <2>1 DEF TsnInv, TsnFresh, TypeOK, peerVars
    <3>10. localTsn' >= InitialTsn
      BY <2>1 DEF TsnInv, TsnFresh, TypeOK, peerVars
    <3>. QED
      BY <3>1, <3>2, <3>3, <3>4, <3>5, <3>6, <3>7, <3>8, <3>9, <3>10, Zenon DEF TsnInv, TsnFresh
<1>3. CASE BInit
  BY <1>3 DEF BInit, PeerSend, TsnInv, TsnFresh, serverVars, histVars
<1>4. ASSUME NEW m \in toBrowser, BRecv(m) PROVE TsnInv'
  <2>1. CASE BRecvInitAck(m)
    BY <1>4, <2>1 DEF BRecv, BRecvInitAck, PeerSend, TsnInv, TsnFresh, serverVars, histVars
  <2>2. CASE BRecvCookieAck(m)
    BY <1>4, <2>2 DEF BRecv, BRecvCookieAck, TsnInv, TsnFresh, serverVars, histVars
  <2>3. CASE BRecvData(m)
    <3>1. m.tsn \in sData /\ bRecvd' \subseteq sData /\ bRecvNext' = bPeerTsn
      BY <2>3, RecvDataAckPoint
    <3>2. /\ toServer' = toServer \cup {Chunk("sack", bRecvNext' - 1, "none")}
          /\ toBrowser' = toBrowser \ {m}
          /\ UNCHANGED <<bState, bPeerTsn, serverVars, histVars>>
      BY <1>4, <2>3 DEF BRecv, BRecvData, PeerSend
    <3>. QED
      BY <3>1, <3>2 DEF TsnInv, TsnFresh, serverVars, histVars
  <2>4. CASE BRecvSack(m)
    BY <1>4, <2>4 DEF BRecv, BRecvSack, TsnInv, TsnFresh, serverVars, histVars
  <2>5. CASE BDiscard(m)
    BY <1>4, <2>5 DEF BRecv, BDiscard, TsnInv, TsnFresh, serverVars, peerVars, histVars
  <2>. QED
    BY <1>4, <2>1, <2>2, <2>3, <2>4, <2>5 DEF BRecv
<1>5. ASSUME NEW p \in PeerPpids, BSendData(p) PROVE TsnInv'
  BY <1>5 DEF BSendData, PeerSend, PeerTsns, TsnInv, TsnFresh, TypeOK, serverVars, histVars
<1>6. CASE BHeartbeat
  BY <1>6 DEF BHeartbeat, PeerSend, TsnInv, TsnFresh, serverVars, histVars
<1>7. CASE BRetransmit
  <2>1. UNCHANGED <<serverVars, bState, bPeerTsn, bRecvNext, bRecvd, toBrowser, histVars>>
    BY <1>7 DEF BRetransmit
  <2>2. \/ \E t \in PeerTsns : toServer' = toServer \cup {Chunk("data", t, bOut[t - PeerInitialTsn + 1])}
        \/ \E c \in {Chunk("init", PeerInitialTsn, "none"), Chunk("cookie_echo", 0, "none")} :
              toServer' = toServer \cup {c}
    BY <1>7 DEF BRetransmit, BRetransmitCtl, BRetransmitData, PeerSend
  <2>. QED
    BY <2>1, <2>2 DEF TsnInv, TsnFresh, serverVars, histVars
<1>8. CASE Lose
  BY <1>8 DEF Lose, TsnInv, TsnFresh, serverVars, peerVars, histVars
<1>9. CASE UNCHANGED vars
  BY <1>9 DEF vars, TsnInv, TsnFresh, serverVars, peerVars, netVars, histVars
<1>. QED
  BY <1>1, <1>2, <1>3, <1>4, <1>5, <1>6, <1>7, <1>8, <1>9 DEF Next

LEMMA StepSInv == SInv /\ [Next]_vars => SInv'
  BY TypeStep, TsnStep DEF SInv

\* Every state the session and the browser reach is well typed: TSNs and
\* counters are naturals and every chunk in flight is one OnSctp or the
\* browser can build.
THEOREM TypeCorrect == Spec => []TypeOK
<1>1. SInv => TypeOK
  BY DEF SInv
<1>. QED
  BY InitSInv, StepSInv, <1>1, PTL DEF Spec

=============================================================================
