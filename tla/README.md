# TLA+ models of the tms media server

This directory holds TLA+ models of the media server in `src/`. It also holds TLC configurations that model-check them and TLAPS proofs about them. The main subject is the WebRTC endpoint, `WebrtcProtocol` in `src/src/webrtc_protocol.cpp`: the largest and most concurrent part of the code.

## 1. The system

| Part | Source | State | Operations |
|---|---|---|---|
| WebRTC session | `src/src/webrtc_protocol.cpp` | `dtls_`, `bio_in_`/`bio_out_`, `dtls_hello_send_`, `dtls_handshake_done_`, `srtp_send_`/`srtp_recv_`, `register_publisher_stream_`, `pre_recv_data_time_ms_`, `sctp_session_`, `datachannel_open_`, `video_seq_`, `send_map_` | `HandleRead`/`Parse` (demux on byte 0), `OnStun`, `OnDtls`, `Handshake`, `OnSctp`, `OnRtpRtcp`, `SendData`, `SendSctpData`, `EveryNSecond`, `EveryNMillSecond`, `CheckCanClose`, destructor |
| STUN listener and registry | same file | static `client_ufrag_set`, `all_protocols_`, the media-stream registry | `OnStun` on the listening session: it spawns a connected UDP socket and a new session per new remote ufrag; `SubscribeStream` |
| TcpSocket | `src/common/tcp_socket.cpp` | `write_buffer_`, `connect_status_` | `OnRead`, `OnWrite`, `Send` |
| HTTP HLS | `src/src/http_hls_protocol.cpp` | parser members `app_`, `stream_name_`, `type_`, `ts_` | `Parse`, which serves `.ts` and `.m3u8` |
| ServerMgr | `src/branch_src_2017_12_07/server_mgr.cpp` | `fd_protocol_` | `HandleRead`, `HandleClose`, `HandleError`, `HandleAccept`, `ConnectServer` |
| SRT, DASH | `src/src/srt_protocol.h`, `dash_muxer.h` | declarations only | none |

The parts interact as follows:

- The browser sends STUN to the listening UDP session. That session answers and spawns a session whose socket is connected to the browser.
- The spawned session is the DTLS client: `OnStun` calls `SetConnectState`. It runs the handshake through memory BIOs and derives SRTP keys when the handshake is done.
- RTP from the browser is unprotected, registered as a publisher stream and forwarded to the subscribers' `SendData`. `SendData` protects it and sends it to the subscriber's browser.
- A 20 ms timer sends a PLI. A 1 s timer, through `CheckCanClose`, destroys a session that has been silent for `kWebRtcRecvTimeoutInMs` (10 s).

These behaviours are hard to test:

- loss, duplication and reordering of UDP datagrams during the handshake and in the media;
- a client with no DTLS retransmission timer;
- crypto set-up that can fail after the handshake is declared done;
- the replay check of libsrtp;
- timeout versus keep-alive traffic.

## 2. Modules

| Module | Models | Status |
|---|---|---|
| `WebrtcSession` | one spawned session, the browser as environment, and the network | done |
| `MCWebrtcSession` | constants for TLC | done |
| `DtlsSrtpSession` | the abstract session: lifetime, the two ends of the handshake, SRTP keys, forwarded RTP; `WebrtcSession` refines it | done |
| `WebrtcSessionProofs` | TLAPS proofs about `WebrtcSession`, including its refinement of `DtlsSrtpSession` | done |
| `SctpAssociation` | `OnSctp` (every chunk type), `SendSctpData`, `EveryNSecond`, an RFC 4960 browser, a lossy reordering DTLS channel | done |
| `MCSctpAssociation` | constants for TLC | done |
| `SctpAssociationProofs` | TLAPS proof of `TypeOK` | done |
| `TcpSocket` | the write path: `Send`, `write_buffer_`, write interest, `OnWrite`, a kernel buffer the peer drains | write path only |
| `ByteStream` | the abstract stream a socket promises; `TcpSocket` refines it | done |
| `MCTcpSocket` | constants for TLC | done |
| `TcpSocketProofs` | TLAPS proofs of `WriteInterest` and of the safety part of the refinement (with the type lemma it rests on) | done |
| `HttpHlsParser` | `HttpHlsProtocol::Parse` on several keep-alive connections | done |
| `MCHttpHlsParser` | constants for TLC | done |

### WebrtcSession: state and actions

Each session variable corresponds to a field of the code:

| Variable | Code field or quantity |
|---|---|
| `dtlsHelloSend` | `dtls_hello_send_` |
| `dtlsHandshakeDone` | `dtls_handshake_done_` |
| `srtpSend`, `srtpRecv` | `srtp_send_`, `srtp_recv_`, each `"null"` or `"ctx"` |
| `registerPublisherStream` | `register_publisher_stream_` |
| `idle` | `now - pre_recv_data_time_ms_`, in timer periods, saturated at `RecvTimeout` |
| `dtlsStep` | OpenSSL's client progress, by flight |
| `srtpReplay` | the libsrtp replay list |
| `forwarded` | what reached `wait_header_subscriber_` |
| `fault` | records a crash |

The browser has `peerStep` (its DTLS server progress) and `rtpNext`. The network is a set of datagram records `[dst, k, n, pt]`, with budgets `MaxLoss` and `MaxDup`.

Session actions, one per handler:

- `Spawn`: the spawn branch of the listener's `OnStun`, lines 499–567, with `SetConnectState`.
- `OnStun`: the Binding Response of a spawned session.
- `OnDtlsHandshake`: `OnDtls` before the handshake is done, with `Handshake`. That includes `HandshakeDone`, the `SSL_ERROR_NONE` branch, where the export and both `srtp_create` calls may fail when `CryptoFailures` is true, and the flush of `bio_out_`.
- `OnDtlsRead`: `OnDtls` after the handshake (lines 603–650). The records of this model are handshake flights, which yield no application data once the handshake is done, so `SSL_read` returns -1. The crc32 test block then calls `memcpy(crc_test, dtls_read_buf, ret)` before `ret` is checked (line 618). That copies `(size_t)-1` bytes and crashes the process, recorded in `fault`.
- `OnRtcp`: the RTCP branch. The NACK lookup never finds an entry because `send_map_` is never filled.
- `OnRtp`: the RTP branch. An unprotect failure is logged and processing continues, as in the code.
- `SendData`: protects the packet and sends it when the handshake is done.
- `EveryNMillSecond`: the PLI.
- `CheckCanClose`: with the destructor, which closes the socket.
- `Tick`: the passing of time.

Each session action includes `Parse`, which refreshes `pre_recv_data_time_ms_` on every datagram. `Protect` models `srtp_protect` on a NULL context as a crash (`fault`). Once `fault` is set, no session action is enabled.

The browser and the network:

- `PeerSendStun`: consent checks.
- `PeerDtls`: an RFC 6347 server that answers flights 1 and 3, including retransmitted ones.
- `PeerRetransmit`: the browser's own DTLS timer.
- `PeerSendRtp`, `PeerSendRtcp`, `PeerConsume`.
- `Lose`.
- Duplication happens inside `Receive`.

### DtlsSrtpSession: what the session promises

`DtlsSrtpSession` states the session's contract in five actions:

- `AStart` and `AClose`: the session is spawned once and destroyed once.
- `APeerFinish`: the browser finishes its side of the handshake.
- `AInstallKeys`: while live, after `APeerFinish` and only once, the session installs two SRTP contexts. Each may be NULL, because `Handshake()` only logs a failed export or `srtp_create`.
- `AForward`: while live and keyed, the session hands one RTP packet to its subscribers.

The spec is safety only. The code guarantees neither that the handshake ends nor that the session is destroyed: see `WebrtcSessionStuck`.

`WebrtcSession` maps onto it through `Abs == INSTANCE DtlsSrtpSession WITH ...`:

| Abstract | Concrete |
|---|---|
| `sLife` | `life` |
| `peerDone` | `peerStep = 4` |
| `keyed` | `dtlsHandshakeDone` |
| `keys` | `<<srtpSend, srtpRecv>>` |
| `nFwd` | `Len(forwarded)` |

`ImplementsSession == Abs!ASpec` is checked by `WebrtcSessionSafety` and proved below. A crash (`fault`) is not visible in the mapping: the abstract session then simply stops.

Two operators (`OnDtlsHandshakeEarlyDone`, `OnRtpUnguarded`) are mutants used to check that the properties detect plausible bugs. They are not part of `Next`.

### SctpAssociation: state and actions

The session keeps no association state; `OnSctp` answers each chunk by its type alone. Its variables are `remoteTsn` (`sctp_session_.remote_tsn`, the TSN of the last DATA read), `localTsn` (the counter behind `GetAndAddTsn`), `datachannelOpen` (`datachannel_open_`) and `keepAlives` (the `EveryNSecond` sends, bounded by `MaxKeepAlive`).

A chunk is a record `[type, tsn, ppid]`, one per DTLS record. The actions are:

- `OnSctp(m)`: the dispatch on the chunk type (lines 657–676), with one operator per branch: `OnSctpData` (DATA: store `remote_tsn`, then by PPID answer a DATA_CHANNEL_OPEN with a SACK and a DC_ACK and open the channel, echo a string, or SACK binary), `OnSctpInit` (INIT-ACK, which consumes a TSN from `GetAndAddTsn`), `OnSctpSack`, `OnSctpHeartbeat`, `OnSctpCookieEcho`.
- `SendSctpData(ppid)`: sends DATA only when the channel is open.
- `EveryNSecond`: the keep-alive message.

The browser is an RFC 4960 endpoint (`bState`: closed, cookie_wait, cookie_echoed, established). It sends INIT (`BInit`), answers INIT-ACK with COOKIE-ECHO, sends DATA once established (`BSendData`, the first message being the DATA_CHANNEL_OPEN), SACKs DATA in order (`BRecvData`), and retransmits a chunk whose reply is not in flight, at most `MaxRtx` times (`BRetransmit`). The network (`toServer`, `toBrowser`) is a set: records are reordered, and `Lose` drops up to `MaxLoss` of them. The history variables `rcvd` and `sData` record which DATA TSNs the session has received and which it has sent. DTLS records are not duplicated in this module: a duplicated record is dropped by the DTLS replay window, `SSL_read` returns -1, and `OnDtls` crashes at line 618. `WebrtcSession` models that crash.

### TcpSocket and ByteStream: the write path and its refinement

`TcpSocket` models `Send` (lines 145–181): with `write_buffer_` empty it calls write(2), which takes `min(len, room)` bytes; a short write keeps the rest in `write_buffer_` and enables write interest; a failed write (EAGAIN, the kernel buffer full) drops the data at the `FIXME` (line 169). With `write_buffer_` non-empty the data is appended. `OnWrite` (lines 108–125) moves what fits and disables write interest once the buffer is empty. `PeerRead` drains the kernel buffer. Bytes are numbered, so order and loss are visible.

`ByteStream` is what a connected socket promises: each `Send` call's bytes join a queue in call order and reach the peer once each, in order (`SDeliver` is weakly fair). With `MayDrop` a call may be lost as a whole. `TcpSocket` refines it under the mapping `queue <- kbuf \o writeBuffer`; `LossyStream` and `ReliableStream` are `ByteStream`'s specification with `MayDrop` TRUE and FALSE, checked as temporal properties.

### HttpHlsParser: the HLS request parser

`Parse` models `HttpHlsProtocol::Parse` on symbols: the separators the loop tests (CR, LF, `:`, space, `/`, `.`) and one symbol per word. `ParseChar` is one iteration of the loop: CR sets `r_pos`; LF after CR either ends the request (when the previous LF is two back) and calls `Answer`, or ends a line (`LineEnd`); `:` switches to the value; a space right after `:` is skipped; any other symbol is appended to the key or the value (`AddChar`). `LineEnd` scans a key containing `GET` with `ScanKey`/`ScanChar`, which count spaces, slashes and dots and append each word to `app_`, `stream_name_`, `ts_` or `type_`. `Answer` is the lookup: nothing without both names or a known source, the segment or 404 for `ts`, the playlist or 404 for `m3u8`, nothing for another type.

The connection-level state is `mem[c]` (the members `app_`, `stream_name_`, `type_`, `ts_` of connection `c`'s protocol object, which only `Parse` changes and nothing clears), `reqs[c]`, `pending[c]` and `answers[c]`. `PlayerSend(c, r)` sends the next request once the previous one is answered; `OnParse(c)` runs `Parse` on the oldest pending request. `IoBuffer`, the code that calls `Parse`, `StreamMgr` and `Util::Str2Num` are not in the repository: each call of `Parse` is taken to see one whole request, and the registry of streams and the available segments are constants.

## 3. Runs

The `WebrtcSession` runs use `MCWebrtcSession` with `MaxRtp = 2`, `MaxFwd = 1` and `RecvTimeout = 2`.

| Run (cfg) | Loss/Dup/Crypto failures | Checks | Result |
|---|---|---|---|
| `WebrtcSessionSafety` | 1/1/yes | `HandshakeOrder`, `ImplementsSession` | passes (about 1.2 M states) |
| `WebrtcSessionStuck` | 1/0/no | `HandshakeCompletes` | **violated**: a lost ClientHello and continuing STUN keep the session alive forever, unfinished |
| `WebrtcSessionAuthentic` | 0/1/no | `ForwardOnlyAuthentic` | **violated**: a duplicate RTP fails replay and is forwarded anyway (line 1249) |
| `WebrtcSessionNullCtx` | 0/0/yes | `SessionSurvives` | **violated**: `Handshake` sets `done` before key export and `srtp_create`; `SendData` or the PLI then protects with a NULL context |

`SessionSurvives` (`fault = "none"`) is also violated by the `SSL_read` crash at line 618. TLC reports the NULL context first because that trace is shorter. With `CryptoFailures = FALSE` and the same budgets, the trace is different: the browser's own retransmission timer puts flight 2 back in flight while flight 3 is on its way. The session finishes the handshake, then reads that flight 2 and crashes. This needs no loss and no duplication. The liveness question, whether the handshake completes when nothing is lost, is not kept as a run; `WebrtcSessionStuck` shows what one loss does.

These bounds are enough:

- One loss and one duplicate reach every handshake anomaly: a lost flight, a duplicated flight 2 after flight 3, and a duplicated flight 4 after done.
- Two RTP packets suffice to reorder and to replay.
- A timeout of two periods separates "idle once" from "timed out".

Fairness is weak fairness on these actions:

- spawning;
- receiving each handshake datagram, at the session and at the browser;
- `Tick` and `CheckCanClose`;
- the browser's retransmission timer.

The code justifies it: the epoll loop reads every readable socket and fires its timers on every iteration. STUN consent checks and media are not fair, since a browser may stop sending them.

### SctpAssociation runs

All use `MCSctpAssociation` (`InitialTsn = 5`, `PeerInitialTsn = 1`, `MaxRtx = 1`) with `CHECK_DEADLOCK FALSE`: the browser sends a bounded number of messages and heartbeats, so every behaviour ends once they are all delivered and acknowledged.

| Run (cfg) | Msgs/Hb/KeepAlive/Loss | Checks | Result |
|---|---|---|---|
| `SctpSafety` | 2/1/1/1 | `TypeOK`, `DataChannelOpens` | passes (about 166 k states) |
| `SctpInitialTsn` | 1/0/0/0 | `FirstDataTsn` | **violated**: the INIT-ACK's initial TSN is taken with `GetAndAddTsn` (line 824), so the DATA_CHANNEL_ACK carries that TSN + 1 |
| `SctpSack` | 2/0/0/0 | `SackSound` | **violated**: the SACK acks `remote_tsn`, the last DATA read, so a reordered DATA acks a TSN whose predecessor was never received (line 678) |
| `SctpUnacked` | 2/0/0/0 | `DataAcked` | **violated**: string DATA is echoed but never SACKed (line 761); the browser's retransmissions end without an ack |

RFC 4960 section 3.3.3 makes the INIT-ACK's Initial TSN the TSN of the sender's first DATA chunk; `FirstDataTsn` states that, and `SctpInitialTsn` shows the code breaks it. The browser then never receives the TSN it waits for, so its cumulative TSN ack never advances. The browser model conforms to RFC 4960 and sends DATA only once established. So no run shows what `OnSctp`'s missing state check (line 677) does with a peer that sends DATA first.

Fairness is weak fairness on the session's receive and `EveryNSecond`, on the browser's INIT, its receive, and its retransmission timer: the epoll loop reads every readable socket and fires the timers, and an SCTP stack's T1/T3 timers always fire. Sending DATA and heartbeats is not fair: an application may stop.

### TcpSocket runs

`MCTcpSocket` has a kernel buffer of 2 bytes and `Send` calls of 1 to 3 bytes, 6 bytes in all: a call can be written in part, queue behind an earlier one, or meet a full kernel buffer with `write_buffer_` empty. Fairness is weak fairness on `OnWrite` (the loop polls every registered descriptor) and `PeerRead`.

| Run (cfg) | Checks | Result |
|---|---|---|
| `TcpLossy` | `WriteInterest`, `LossyStream` | passes: write interest is registered exactly while `write_buffer_` holds bytes, and the socket implements a stream that may lose whole calls |
| `TcpReliable` | `ReliableStream` | **violated**: a second `Send` meets a full kernel buffer with the buffer empty and is dropped (line 169) |

### HttpHlsParser runs

`MCHttpHlsParser` has requests for a segment (`1` exists, `2` does not) or the playlist, of a known application `a` and an unknown one `b`. Fairness is weak fairness on `OnParse(c)` for each connection, written out as `ParseFairness` (`OnParse(c)` is enabled exactly when a request is pending): the loop reads every readable connection. Sending requests is not fair. `CHECK_DEADLOCK FALSE`: a player sends at most `MaxReqs` requests, and one that gets no answer waits.

| Run (cfg) | Conns/MaxReqs | Checks | Result |
|---|---|---|---|
| `HlsSafety` | 2/1 | `TypeOK`, `AnswersCorrect`, `RequestsAnswered` | passes (289 states): the character loop and the GET-line scan give every request the answer `Expected` computes from its fields, on each connection independently |
| `HlsKeepAlive` | 1/2 | `RequestsAnswered` | **violated**: the members are appended to and never cleared (line 170), so the second request on a keep-alive connection looks up `app_ = "aa"` and gets no answer |

## 4. Proofs

### WebrtcSessionProofs

The proofs are checked with `tlapm WebrtcSessionProofs.tla`. They assume only `ConstantsAssumption`: the bounds are naturals and `RecvTimeout > 0`.

The inductive invariant `IInv` has five conjuncts:

- `TypeOK`.
- `DtlsFlightsSound`: a flight 2 in flight to the session means the browser has answered a ClientHello. A flight 4 means the browser is done.
- `dtlsStep = 4 => dtlsHandshakeDone`: OpenSSL reaches its last client step only in the `SSL_ERROR_NONE` branch.
- `HandshakeOrder`.
- `NoSrtpBeforeHandshake`.

`HandshakeOrder` alone is not inductive. The step that sets `done` consumes a flight 4, and only `DtlsFlightsSound` ties that datagram to the browser's state. Without the third conjunct, a duplicated flight 4 arriving at a client already at step 4 could not be excluded.

The proof has three parts:

- `InitIInv`.
- `TypeStep`: type preservation, one step per action.
- `SafetyStep`: the other conjuncts, one step per action.

From these follow the theorems `IInvHolds`, `TypeCorrect`, `HandshakeOrderHolds` and `NoSrtpBeforeHandshakeHolds`. In `OnDtlsRead` the crash changes only `fault`, `idle` and the network, so it keeps every conjunct and leaves the mapped state alone. All are of the form `Spec => []P`, by PTL.

`SessionRefinement` proves `Spec => ImplementsSession`, the standard way:

- `Init` maps to `AInit`.
- `RefineStep`: under `IInv`, every step is an abstract step or leaves the mapped state unchanged. There is one case per action, and one sub-case per branch that touches the mapping.
- `Spawn` is `AStart` and `CheckCanClose` is `AClose`.
- The browser's `PeerDtls` step that reaches 4 is `APeerFinish`. `ServerStep` never leaves 4.
- `OnRtp` with `SrtpReady` on a video packet is `AForward`. `SrtpReady` gives `keyed`, and `Parse` gives `live`.
- The `OnDtlsHandshake` step whose `ClientStep` is 4 is `AInstallKeys`. This is the case that needs the invariant. Because `dtlsStep = 4 => dtlsHandshakeDone` and the step runs before `done`, `ClientStep = 4` means the datagram is a flight 4. `DtlsFlightsSound` then gives `peerStep = 4`, so `peerDone` already held.
- Every other step leaves `Seen` (the variables the mapping reads) unchanged.

Only TLC checks the liveness property `HandshakeCompletes` (its counterexample), because the prover does not handle fairness or ENABLED.

### SctpAssociationProofs

`TypeCorrect` proves `Spec => []TypeOK` for all values of the constants that satisfy `SctpConstantsAssumption` (all naturals). `TypeOK` is not inductive by itself. The SACK the browser sends carries `bRecvNext - 1`, and `bRecvNext` is a natural only because the browser's ack point stays at the INIT-ACK's initial TSN. So the proof rests on `SInv == TypeOK /\ TsnInv`. Its conjunct `TsnFresh` records what the counter has handed out: DATA TSNs below `localTsn`, none of them the INIT-ACK's initial TSN. The other conjuncts of `TsnInv` are:

- A DATA chunk in flight to the browser carries a TSN already recorded in `sData`, or the browser's receive could add an unknown TSN to `bRecvd`.
- An INIT-ACK in flight carries a TSN below `localTsn`, or a later `GetAndAddTsn` could hand the same TSN to a DATA.
- The browser's ack point is exactly its initial TSN (`bRecvNext = bPeerTsn`), so that `FirstMissing` on receiving a DATA stays there.

`TsnInv` also has `localTsn >= InitialTsn` and the range of the TSNs the browser sends (for `remote_tsn`'s type).

The proof has these parts:

- `InitSInv`.
- `TypeStep` and `TsnStep`: one case per action. `OnSctp` is split by chunk type and PPID. Each branch that calls `GetAndAddTsn` gets one step per conjunct of `TsnInv`.
- `FirstMissingAt`: `FirstMissing(n, S) = n` when `n` is not in `S`. This is why a DATA never moves the browser's ack point.
- `RecvDataAckPoint`: that lemma applied to `BRecvData`.
- `PeerTsnsNat`: a small typing lemma.

The SMT backend needs each action's effect stated first, as explicit primed equalities, before the type or invariant conjuncts are shown.

### TcpSocketProofs

Under `TcpConstantsAssumption` (a kernel buffer of at least one byte, naturals for the bounds), `TypeCorrect` proves `Spec => []TypeOK`; no run checks `TypeOK`, whose one non-trivial conjunct is `write(2)`'s own bound. `TypeOK` is inductive as it stands; its conjunct `Len(kbuf) <= KCap` is the fact that `Send` and `OnWrite` write at most `Room` bytes, and the refinement needs it so that `Min(len, Room)` is a valid cut of the data. `RefinesLossyStream` proves `Spec => Lossy!SInit /\ [][Lossy!SNext]_Lossy!svars`, the safety part of `LossyStream`. The proof is `RefineStep`, with one case per action and per branch of `Send`. A short write splits the data at `ret`, and `SplitJoin` puts it back together (`SubSeq(s, 1, r) \o SubSeq(s, r + 1, Len(s)) = s`, from the library's `ConcatAdjacentSubSeq`). Associativity of `\o` (`BytesAssoc`) shows that appending to a non-empty `write_buffer_` and `OnWrite` leave the stream as the abstract spec says. `HeadTailConcat` (the head of `s \o t` is the head of `s`, its tail is `Tail(s) \o t`, by `SeqEqual`) gives `PeerRead` as `SDeliver`. The fairness conjunct `WF(SDeliver)` of `LossyStream` is left to TLC. `WriteInterestHolds` proves `Spec => []WriteInterest`. `WriteInterest` is inductive given `[]TypeOK` (`InterestStep`): `Send` changes `writeEnabled` only when `write_buffer_` was empty, which by the invariant means interest was off, and then sets it exactly when the short write leaves bytes behind (`Len(SubSeq(data, ret + 1, len)) = len - ret`); `OnWrite` sets it from the buffer it leaves.

### Only model-checked

The liveness properties (`HandshakeCompletes`, `DataChannelOpens`, `DataAcked`, `RequestsAnswered`) and the fairness part of the refinement of `ByteStream` by `TcpSocket` are checked by TLC only: the prover handles neither fairness nor ENABLED. `HttpHlsParser`'s `TypeOK` and `AnswersCorrect` are also TLC-only. The parser's `Parse`, `ScanKey` and `Str2Num` are recursive functions over the request's characters, and both invariants say what they compute for every request. Proving that would take induction over the character sequence, whose library theorems take an operator parameter the installed provers cannot instantiate.

## 5. Not yet modelled

1. `SessionMgr`: the listening session, several ufrags, `client_ufrag_set`, `all_protocols_`, subscriptions. Together these would show how DTLS reaching the listening session before the spawned socket is connected is handled.
2. `Nack`: the NACK handler's sequence-number extension, as a pure operator checked against a reference over bounded inputs. It has no effect today, since `send_map_` is never filled.
3. `TcpSocket` read and connect path (`OnRead`, `OnConnect`, the error paths): they hand data to handlers and to `ServerMgr`, neither of which is composed with the socket model.
4. `ServerMgr`: the fd table of the 2017 branch.
5. The accept role (`SetAcceptState`).
6. Partial reads in `HttpHlsProtocol::Parse`: `IoBuffer` and the caller are not in the repository, so whether bytes of a cut request are kept is unknown.

The byte codecs (STUN attributes, CRC32 fingerprint, HMAC-SHA1, RTP header rewriting) have no control state and are abstracted to datagram kinds. SRT and DASH are declarations only. `srtp_send_` and `srtp_recv_` are not in the constructor's initialiser list, and the header that may initialise them is not in the repository. The model starts them at NULL.
