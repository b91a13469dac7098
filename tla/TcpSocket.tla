------------------------------ MODULE TcpSocket ------------------------------
(***************************************************************************)
(* The write path of one connected TcpSocket (src/common/tcp_socket.cpp):  *)
(* the handler's Send calls, write_buffer_, the write interest registered  *)
(* with the IoLoop (EnableWrite / DisableWrite) and OnWrite, over a kernel  *)
(* send buffer of KCap bytes that the peer drains.                         *)
(*                                                                         *)
(* write(2) on the non-blocking socket takes as many bytes as the kernel   *)
(* buffer has room for, and fails with EAGAIN when it has none.  Bytes are *)
(* numbered in the order the handler hands them to Send.                   *)
(***************************************************************************)
EXTENDS Naturals, Sequences

CONSTANTS
    KCap,       \* room of the kernel send buffer, in bytes
    MaxBytes,   \* bytes the handler sends in all
    MaxLen      \* bytes of one Send call

ASSUME TcpConstantsAssumption ==
    /\ KCap \in Nat \ {0}
    /\ MaxBytes \in Nat
    /\ MaxLen \in Nat \ {0}

VARIABLES
    writeBuffer,   \* write_buffer_
    writeEnabled,  \* write interest registered by EnableWrite
    kbuf,          \* the kernel send buffer
    delivered,     \* bytes the peer has read, in order
    next           \* number of the next byte the handler sends

vars == <<writeBuffer, writeEnabled, kbuf, delivered, next>>

Span(n, len) == [i \in 1 .. len |-> n + i - 1]

Room == KCap - Len(kbuf)

Min(a, b) == IF a < b THEN a ELSE b

TypeOK ==
    /\ writeBuffer \in Seq(1 .. MaxBytes)
    /\ writeEnabled \in BOOLEAN
    /\ kbuf \in Seq(1 .. MaxBytes)
    /\ Len(kbuf) <= KCap
    /\ delivered \in Seq(1 .. MaxBytes)
    /\ next \in 1 .. MaxBytes + 1

Init ==
    /\ writeBuffer = << >>
    /\ writeEnabled = FALSE
    /\ kbuf = << >>
    /\ delivered = << >>
    /\ next = 1

\* Mutant of Send, not part of Next: a partial write that keeps the rest
\* in write_buffer_ but forgets EnableWrite.
SendNoEnable(len) ==
    LET data == Span(next, len)
        ret == Min(len, Room)
    IN  /\ next + len - 1 <= MaxBytes
        /\ next' = next + len
        /\ IF writeBuffer = << >>
           THEN /\ kbuf' = kbuf \o SubSeq(data, 1, ret)
                /\ writeBuffer' = SubSeq(data, ret + 1, len)
                /\ UNCHANGED writeEnabled
           ELSE /\ writeBuffer' = writeBuffer \o data
                /\ UNCHANGED <<kbuf, writeEnabled>>
        /\ UNCHANGED delivered

\* Mutant of Send, not part of Next: write(2) called directly even when
\* write_buffer_ still holds older bytes.
SendIgnoresBuffer(len) ==
    LET data == Span(next, len)
        ret == Min(len, Room)
    IN  /\ next + len - 1 <= MaxBytes
        /\ next' = next + len
        /\ kbuf' = kbuf \o SubSeq(data, 1, ret)
        /\ writeBuffer' = writeBuffer \o SubSeq(data, ret + 1, len)
        /\ writeEnabled' = (writeEnabled \/ ret < len)
        /\ UNCHANGED delivered

\* Send(data, len).  With write_buffer_ empty it calls write(2): a short
\* write keeps the rest in write_buffer_ and enables write interest; a
\* failed write (EAGAIN: the kernel buffer is full) drops the data at the
\* "FIXME: close socket" (line 169).  With write_buffer_ non-empty the data
\* is appended to it.
Send(len) ==
    LET data == Span(next, len)
        ret == Min(len, Room)
    IN  /\ next + len - 1 <= MaxBytes
        /\ next' = next + len
        /\ IF writeBuffer = << >>
           THEN IF ret > 0
                THEN /\ kbuf' = kbuf \o SubSeq(data, 1, ret)
                     /\ writeBuffer' = SubSeq(data, ret + 1, len)
                     /\ writeEnabled' = (writeEnabled \/ ret < len)
                ELSE UNCHANGED <<kbuf, writeBuffer, writeEnabled>>
           ELSE /\ writeBuffer' = writeBuffer \o data
                /\ UNCHANGED <<kbuf, writeEnabled>>
        /\ UNCHANGED delivered

\* OnWrite on kConnected: the IoLoop calls it while write interest is
\* registered and the kernel has room (level-triggered EPOLLOUT).
\* write_buffer_.WriteToFd moves what fits; an empty buffer disables write
\* interest.
OnWrite ==
    /\ writeEnabled
    /\ Room > 0
    /\ LET ret == Min(Len(writeBuffer), Room)
       IN  /\ kbuf' = kbuf \o SubSeq(writeBuffer, 1, ret)
           /\ writeBuffer' = SubSeq(writeBuffer, ret + 1, Len(writeBuffer))
           /\ writeEnabled' = (writeBuffer' # << >>)
    /\ UNCHANGED <<delivered, next>>

\* The peer reads the oldest byte of the kernel buffer.
PeerRead ==
    /\ kbuf # << >>
    /\ delivered' = Append(delivered, Head(kbuf))
    /\ kbuf' = Tail(kbuf)
    /\ UNCHANGED <<writeBuffer, writeEnabled, next>>

Next ==
    \/ \E len \in 1 .. MaxLen : Send(len)
    \/ OnWrite
    \/ PeerRead

\* The IoLoop polls every registered descriptor, and the peer reads what
\* arrives; when the handler sends is not assumed.
Spec == Init /\ [][Next]_vars /\ WF_vars(OnWrite) /\ WF_vars(PeerRead)

\* Write interest is registered exactly while write_buffer_ holds bytes:
\* Send's short write enables it as it leaves the rest behind (line 157),
\* and OnWrite disables it when WriteToFd has emptied the buffer (line
\* 115).  With it lost, buffered bytes wait for an EPOLLOUT that never
\* comes; with it kept on an empty buffer, the IoLoop spins on OnWrite.
WriteInterest == writeEnabled <=> writeBuffer # << >>

-----------------------------------------------------------------------------
(* The socket as a byte stream: what is in the kernel buffer, then what is *)
(* in write_buffer_, is what has been accepted and not yet delivered.      *)

Lossy == INSTANCE ByteStream WITH queue <- kbuf \o writeBuffer, MayDrop <- TRUE
Reliable == INSTANCE ByteStream WITH queue <- kbuf \o writeBuffer, MayDrop <- FALSE

\* Send keeps the bytes of successive calls in call order (appending to
\* write_buffer_ while it is not empty), never duplicates one, and
\* OnWrite flushes write_buffer_: the socket implements a stream that may
\* lose whole Send calls and eventually delivers everything else.
LossyStream == Lossy!SSpec

\* The handler's bytes all reach the peer, in order: the stream loses
\* nothing.  Send drops a call whose write(2) fails with EAGAIN while
\* write_buffer_ is empty (line 169).
ReliableStream == Reliable!SSpec
=============================================================================
