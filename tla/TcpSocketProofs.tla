--------------------------- MODULE TcpSocketProofs ---------------------------
(***************************************************************************)
(* Proofs about TcpSocket: the type invariant, and the safety part of its  *)
(* refinement of the lossy ByteStream (every step of Send, OnWrite or      *)
(* PeerRead is a step of the stream or leaves it unchanged, under the      *)
(* mapping queue <- kbuf \o writeBuffer).  The fairness part of the        *)
(* refinement is checked by TLC only.                                      *)
(***************************************************************************)
EXTENDS TcpSocket, SequenceTheorems, TLAPS

USE TcpConstantsAssumption

\* The bytes n .. n + len - 1 of a Send call that fits in MaxBytes.
LEMMA SpanType ==
    ASSUME NEW n \in 1 .. MaxBytes + 1, NEW len \in 1 .. MaxLen,
           n + len - 1 <= MaxBytes
    PROVE  /\ Span(n, len) \in Seq(1 .. MaxBytes)
           /\ Len(Span(n, len)) = len
BY DEF Span

\* A sequence cut at r and put back together is the sequence.
LEMMA SplitJoin ==
    ASSUME NEW S, NEW s \in Seq(S), NEW r \in 0 .. Len(s)
    PROVE  /\ SubSeq(s, 1, r) \in Seq(S)
           /\ SubSeq(s, r + 1, Len(s)) \in Seq(S)
           /\ Len(SubSeq(s, 1, r)) = r
           /\ SubSeq(s, 1, r) \o SubSeq(s, r + 1, Len(s)) = s
<1>1. SubSeq(s, 1, r) \in Seq(S) /\ Len(SubSeq(s, 1, r)) = r
  BY SubSeqProperties
<1>2. SubSeq(s, r + 1, Len(s)) \in Seq(S)
  BY SubSeqProperties
<1>3. SubSeq(s, 1, r) \o SubSeq(s, r + 1, Len(s)) = SubSeq(s, 1, Len(s))
  <2>1. /\ 1 \in 1 .. Len(s) + 1
        /\ r \in 1 - 1 .. Len(s)
        /\ Len(s) \in r .. Len(s)
    OBVIOUS
  <2>. QED
    BY <2>1, ConcatAdjacentSubSeq
<1>. QED
  BY <1>1, <1>2, <1>3, SubSeqFull

\* The oldest byte of kbuf \o writeBuffer is the oldest byte of kbuf, and
\* what follows it is the rest of kbuf, then writeBuffer.
LEMMA HeadTailConcat ==
    ASSUME NEW S, NEW s \in Seq(S), NEW t \in Seq(S), s # << >>
    PROVE  /\ s \o t # << >>
           /\ Head(s \o t) = Head(s)
           /\ Tail(s \o t) = Tail(s) \o t
<1>1. /\ s \o t \in Seq(S) /\ Len(s \o t) = Len(s) + Len(t)
      /\ \A i \in 1 .. Len(s) + Len(t) :
            (s \o t)[i] = IF i <= Len(s) THEN s[i] ELSE t[i - Len(s)]
  BY ConcatProperties
<1>2. Len(s) >= 1
  BY EmptySeq
<1>3. s \o t # << >>
  BY <1>1, <1>2, EmptySeq
<1>4. Head(s \o t) = Head(s)
  BY <1>1, <1>2
<1>5. Tail(s) \in Seq(S) /\ Len(Tail(s)) = Len(s) - 1
  BY HeadTailProperties
<1>6. Tail(s) \o t \in Seq(S) /\ Len(Tail(s) \o t) = Len(s) - 1 + Len(t)
  BY <1>5, ConcatProperties
<1>7. Tail(s \o t) \in Seq(S) /\ Len(Tail(s \o t)) = Len(s) + Len(t) - 1
  BY <1>1, <1>3, HeadTailProperties
<1>8. \A i \in 1 .. Len(s) - 1 + Len(t) : Tail(s \o t)[i] = (Tail(s) \o t)[i]
  BY <1>1, <1>2, <1>3, <1>5, <1>6, ConcatProperties
<1>. QED
  BY <1>3, <1>4, <1>6, <1>7, <1>8, SeqEqual

\* Concatenation of byte sequences is associative.
LEMMA BytesAssoc ==
    ASSUME NEW s \in Seq(1 .. MaxBytes), NEW t \in Seq(1 .. MaxBytes),
           NEW u \in Seq(1 .. MaxBytes)
    PROVE  (s \o t) \o u = s \o (t \o u)
<1>. DEFINE B == 1 .. MaxBytes
<1>1. /\ s \o t \in Seq(B) /\ Len(s \o t) = Len(s) + Len(t)
      /\ t \o u \in Seq(B) /\ Len(t \o u) = Len(t) + Len(u)
  BY ConcatProperties
<1>2. /\ (s \o t) \o u \in Seq(B) /\ Len((s \o t) \o u) = Len(s) + Len(t) + Len(u)
      /\ s \o (t \o u) \in Seq(B) /\ Len(s \o (t \o u)) = Len(s) + Len(t) + Len(u)
  BY <1>1, ConcatProperties
<1>3. \A i \in 1 .. Len(s) + Len(t) + Len(u) : ((s \o t) \o u)[i] = (s \o (t \o u))[i]
  BY <1>1, <1>2, ConcatProperties
<1>. QED
  BY <1>2, <1>3, SeqEqual

\* Send, OnWrite and PeerRead keep every buffer a sequence of byte
\* numbers, never overfill the kernel buffer, and keep next in range.
LEMMA TypeStep == TypeOK /\ [Next]_vars => TypeOK'
<1> SUFFICES ASSUME TypeOK, [Next]_vars PROVE TypeOK'
  OBVIOUS
<1>1. CASE \E len \in 1 .. MaxLen : Send(len)
  <2>1. PICK len \in 1 .. MaxLen : Send(len)
    BY <1>1
  <2>. DEFINE data == Span(next, len)
              ret == Min(len, Room)
  <2>2. next + len - 1 <= MaxBytes /\ next' = next + len
    BY <2>1 DEF Send
  <2>3. data \in Seq(1 .. MaxBytes) /\ Len(data) = len
    BY <2>2, SpanType DEF TypeOK
  <2>4. ret \in 0 .. len /\ Len(kbuf) + ret <= KCap
    BY DEF TypeOK, Min, Room
  <2>5. /\ SubSeq(data, 1, ret) \in Seq(1 .. MaxBytes)
        /\ SubSeq(data, ret + 1, len) \in Seq(1 .. MaxBytes)
        /\ Len(SubSeq(data, 1, ret)) = ret
    BY <2>3, <2>4, SplitJoin
  <2>6. next' \in 1 .. MaxBytes + 1
    BY <2>2 DEF TypeOK
  <2>7. CASE writeBuffer = << >> /\ ret > 0
    <3>1. kbuf' = kbuf \o SubSeq(data, 1, ret)
          /\ writeBuffer' = SubSeq(data, ret + 1, len)
          /\ writeEnabled' = (writeEnabled \/ ret < len)
      BY <2>1, <2>7 DEF Send
    <3>2. Len(kbuf') <= KCap
      BY <3>1, <2>4, <2>5 DEF TypeOK
    <3>3. kbuf' \in Seq(1 .. MaxBytes)
      BY <3>1, <2>5, ConcatProperties DEF TypeOK
    <3>. QED
      BY <3>1, <3>2, <3>3, <2>5, <2>6, <2>1 DEF Send, TypeOK
  <2>8. CASE writeBuffer = << >> /\ ~(ret > 0)
    BY <2>1, <2>6, <2>8 DEF Send, TypeOK
  <2>9. CASE writeBuffer # << >>
    <3>1. writeBuffer' = writeBuffer \o data
      BY <2>1, <2>9 DEF Send
    <3>2. writeBuffer' \in Seq(1 .. MaxBytes)
      BY <3>1, <2>3, ConcatProperties DEF TypeOK
    <3>. QED
      BY <2>1, <3>2, <2>6, <2>9 DEF Send, TypeOK
  <2>. QED
    BY <2>7, <2>8, <2>9
<1>2. CASE OnWrite
  <2>. DEFINE ret == Min(Len(writeBuffer), Room)
  <2>1. ret \in 0 .. Len(writeBuffer) /\ Len(kbuf) + ret <= KCap
    BY <1>2 DEF OnWrite, TypeOK, Min, Room
  <2>2. /\ SubSeq(writeBuffer, 1, ret) \in Seq(1 .. MaxBytes)
        /\ SubSeq(writeBuffer, ret + 1, Len(writeBuffer)) \in Seq(1 .. MaxBytes)
        /\ Len(SubSeq(writeBuffer, 1, ret)) = ret
    BY <2>1, SplitJoin DEF TypeOK
  <2>3. kbuf' = kbuf \o SubSeq(writeBuffer, 1, ret)
        /\ writeBuffer' = SubSeq(writeBuffer, ret + 1, Len(writeBuffer))
    BY <1>2 DEF OnWrite
  <2>4. kbuf' \in Seq(1 .. MaxBytes)
    BY <2>2, <2>3, ConcatProperties DEF TypeOK
  <2>5. Len(kbuf') <= KCap
    BY <2>1, <2>2, <2>3, ConcatProperties DEF TypeOK
  <2>6. writeEnabled' \in BOOLEAN /\ UNCHANGED <<delivered, next>>
    BY <1>2 DEF OnWrite
  <2>. QED
    BY <2>2, <2>3, <2>4, <2>5, <2>6 DEF TypeOK
<1>3. CASE PeerRead
  <2>1. Head(kbuf) \in 1 .. MaxBytes /\ Tail(kbuf) \in Seq(1 .. MaxBytes)
        /\ Len(Tail(kbuf)) = Len(kbuf) - 1
    BY <1>3, HeadTailProperties DEF PeerRead, TypeOK
  <2>. QED
    BY <1>3, <2>1 DEF PeerRead, TypeOK
<1>4. CASE UNCHANGED vars
  BY <1>4 DEF vars, TypeOK
<1>. QED
  BY <1>1, <1>2, <1>3, <1>4 DEF Next

\* The socket's buffers and next never leave their types, for every size
\* of the kernel buffer and every bound on the bytes sent; the refinement
\* proof below rests on it.
THEOREM TypeCorrect == Spec => []TypeOK
<1>1. Init => TypeOK
  <2> SUFFICES ASSUME Init PROVE TypeOK
    OBVIOUS
  <2>1. << >> \in Seq(1 .. MaxBytes)
    BY EmptySeq
  <2>2. next \in 1 .. MaxBytes + 1 /\ Len(kbuf) <= KCap
    BY DEF Init
  <2>. QED
    BY <2>1, <2>2 DEF Init, TypeOK
<1>2. TypeOK /\ [Next]_vars => TypeOK'
  BY TypeStep
<1>. QED
  BY <1>1, <1>2, PTL DEF Spec

\* What the stream holds: the kernel buffer, then write_buffer_.
Queue == kbuf \o writeBuffer

\* Each step of the socket is a step of the lossy stream under the mapping
\* queue <- kbuf \o writeBuffer: a Send call appends its bytes (written in
\* part and buffered in part, or buffered behind older bytes) or loses them
\* all; OnWrite moves bytes between the two buffers and changes nothing the
\* stream shows; PeerRead delivers the oldest byte.
LEMMA RefineStep ==
    TypeOK /\ [Next]_vars => [Lossy!SNext]_Lossy!svars
<1> SUFFICES ASSUME TypeOK, [Next]_vars PROVE [Lossy!SNext]_Lossy!svars
  OBVIOUS
<1>1. CASE \E len \in 1 .. MaxLen : Send(len)
  <2>1. PICK len \in 1 .. MaxLen : Send(len)
    BY <1>1
  <2>. DEFINE data == Span(next, len)
              ret == Min(len, Room)
  <2>2. next + len - 1 <= MaxBytes /\ next' = next + len /\ delivered' = delivered
    BY <2>1 DEF Send
  <2>3. data \in Seq(1 .. MaxBytes) /\ Len(data) = len /\ data = Lossy!Span(next, len)
    BY <2>2, SpanType DEF TypeOK, Span, Lossy!Span
  <2>4. ret \in 0 .. len
    BY DEF TypeOK, Min, Room
  <2>5. SUFFICES Queue' = Queue \o data \/ Queue' = Queue
    BY <2>2, <2>3 DEF Lossy!SNext, Lossy!SSend, Queue
  <2>6. CASE writeBuffer = << >> /\ ret > 0
    <3>1. kbuf' = kbuf \o SubSeq(data, 1, ret)
          /\ writeBuffer' = SubSeq(data, ret + 1, len)
      BY <2>1, <2>6 DEF Send
    <3>2. /\ SubSeq(data, 1, ret) \in Seq(1 .. MaxBytes)
          /\ SubSeq(data, ret + 1, len) \in Seq(1 .. MaxBytes)
          /\ SubSeq(data, 1, ret) \o SubSeq(data, ret + 1, len) = data
      BY <2>3, <2>4, SplitJoin
    <3>3. Queue' = kbuf \o data
      <4>1. Queue' = (kbuf \o SubSeq(data, 1, ret)) \o SubSeq(data, ret + 1, len)
        BY <3>1 DEF Queue
      <4>2. (kbuf \o SubSeq(data, 1, ret)) \o SubSeq(data, ret + 1, len)
            = kbuf \o (SubSeq(data, 1, ret) \o SubSeq(data, ret + 1, len))
        BY <3>2, BytesAssoc DEF TypeOK
      <4>. QED
        BY <4>1, <4>2, <3>2
    <3>4. Queue = kbuf
      BY <2>6, ConcatEmptySeq DEF Queue, TypeOK
    <3>. QED
      BY <3>3, <3>4
  <2>7. CASE writeBuffer = << >> /\ ~(ret > 0)
    BY <2>1, <2>7 DEF Send, Queue
  <2>8. CASE writeBuffer # << >>
    <3>1. writeBuffer' = writeBuffer \o data /\ kbuf' = kbuf
      BY <2>1, <2>8 DEF Send
    <3>2. Queue' = kbuf \o (writeBuffer \o data)
      BY <3>1 DEF Queue
    <3>3. kbuf \o (writeBuffer \o data) = Queue \o data
      BY <2>3, BytesAssoc DEF Queue, TypeOK
    <3>. QED
      BY <3>2, <3>3
  <2>. QED
    BY <2>6, <2>7, <2>8
<1>2. CASE OnWrite
  <2>. DEFINE ret == Min(Len(writeBuffer), Room)
  <2>1. ret \in 0 .. Len(writeBuffer)
    BY <1>2 DEF OnWrite, TypeOK, Min, Room
  <2>2. /\ SubSeq(writeBuffer, 1, ret) \in Seq(1 .. MaxBytes)
        /\ SubSeq(writeBuffer, ret + 1, Len(writeBuffer)) \in Seq(1 .. MaxBytes)
        /\ SubSeq(writeBuffer, 1, ret) \o SubSeq(writeBuffer, ret + 1, Len(writeBuffer))
           = writeBuffer
    BY <2>1, SplitJoin DEF TypeOK
  <2>3. kbuf' = kbuf \o SubSeq(writeBuffer, 1, ret)
        /\ writeBuffer' = SubSeq(writeBuffer, ret + 1, Len(writeBuffer))
        /\ UNCHANGED <<delivered, next>>
    BY <1>2 DEF OnWrite
  <2>4. Queue' = Queue
    <3>1. Queue' = (kbuf \o SubSeq(writeBuffer, 1, ret))
                   \o SubSeq(writeBuffer, ret + 1, Len(writeBuffer))
      BY <2>3 DEF Queue
    <3>2. (kbuf \o SubSeq(writeBuffer, 1, ret))
              \o SubSeq(writeBuffer, ret + 1, Len(writeBuffer))
          = kbuf \o (SubSeq(writeBuffer, 1, ret)
                     \o SubSeq(writeBuffer, ret + 1, Len(writeBuffer)))
      BY <2>2, BytesAssoc DEF TypeOK
    <3>. QED
      BY <3>1, <3>2, <2>2 DEF Queue
  <2>. QED
    BY <2>3, <2>4 DEF Lossy!svars, Queue
<1>3. CASE PeerRead
  <2>1. kbuf # << >> /\ delivered' = Append(delivered, Head(kbuf)) /\ kbuf' = Tail(kbuf)
        /\ UNCHANGED <<writeBuffer, next>>
    BY <1>3 DEF PeerRead
  <2>2. Queue # << >> /\ Head(Queue) = Head(kbuf) /\ Tail(Queue) = Tail(kbuf) \o writeBuffer
    BY <2>1, HeadTailConcat DEF Queue, TypeOK
  <2>. QED
    BY <2>1, <2>2 DEF Lossy!SNext, Lossy!SDeliver, Queue
<1>4. CASE UNCHANGED vars
  BY <1>4 DEF vars, Lossy!svars
<1>. QED
  BY <1>1, <1>2, <1>3, <1>4 DEF Next

\* The socket refines the lossy stream's safety part: its initial state is
\* an empty stream, and whatever the handler sends and whenever OnWrite runs,
\* the bytes the peer reads are those the stream allows, in Send order.
THEOREM RefinesLossyStream ==
    Spec => Lossy!SInit /\ [][Lossy!SNext]_Lossy!svars
<1>1. Init => Lossy!SInit
  BY DEF Init, Lossy!SInit
<1>2. TypeOK /\ [Next]_vars => [Lossy!SNext]_Lossy!svars
  BY RefineStep
<1>. QED
  BY <1>1, <1>2, TypeCorrect, PTL DEF Spec
-----------------------------------------------------------------------------
(* Write interest.  WriteInterest is inductive together with TypeOK: Send  *)
(* touches writeEnabled only when write_buffer_ was empty, and then sets   *)
(* it exactly when it leaves bytes behind.                                 *)

LEMMA InterestStep ==
    TypeOK /\ WriteInterest /\ [Next]_vars => WriteInterest'
<1> SUFFICES ASSUME TypeOK, WriteInterest, [Next]_vars PROVE WriteInterest'
  OBVIOUS
<1>1. CASE \E len \in 1 .. MaxLen : Send(len)
  <2>1. PICK len \in 1 .. MaxLen : Send(len)
    BY <1>1
  <2>. DEFINE data == Span(next, len)
              ret == Min(len, Room)
  <2>2. data \in Seq(1 .. MaxBytes) /\ Len(data) = len
    BY <2>1, SpanType DEF Send, TypeOK
  <2>3. ret \in 0 .. len
    BY DEF TypeOK, Min, Room
  <2>4. CASE writeBuffer = << >> /\ ret > 0
    <3>1. writeBuffer' = SubSeq(data, ret + 1, len)
          /\ writeEnabled' = (writeEnabled \/ ret < len)
      BY <2>1, <2>4 DEF Send
    <3>2. Len(SubSeq(data, ret + 1, len)) = len - ret
      BY <2>2, <2>3, <2>4, SubSeqProperties
    <3>3. ~writeEnabled
      BY <2>4 DEF WriteInterest
    <3>4. SubSeq(data, ret + 1, len) \in Seq(1 .. MaxBytes)
      BY <2>2, <2>3, SplitJoin
    <3>5. writeBuffer' \in Seq(1 .. MaxBytes) /\ Len(writeBuffer') = len - ret
      BY <3>1, <3>2, <3>4
    <3>6. writeBuffer' = << >> <=> Len(writeBuffer') = 0
      BY <3>5, EmptySeq
    <3>7. writeBuffer' = << >> <=> ~(ret < len)
      BY <3>5, <3>6, <2>3
    <3>. QED
      BY <3>1, <3>3, <3>7 DEF WriteInterest
  <2>5. CASE writeBuffer = << >> /\ ~(ret > 0)
    BY <2>1, <2>5 DEF Send, WriteInterest
  <2>6. CASE writeBuffer # << >>
    <3>1. writeBuffer' = writeBuffer \o data /\ writeEnabled' = writeEnabled
      BY <2>1, <2>6 DEF Send
    <3>2. Len(writeBuffer \o data) = Len(writeBuffer) + len
      BY <2>2, ConcatProperties DEF TypeOK
    <3>3. Len(writeBuffer) > 0
      BY <2>6, EmptySeq DEF TypeOK
    <3>. QED
      BY <3>1, <3>2, <3>3, <2>6, EmptySeq DEF WriteInterest
  <2>. QED
    BY <2>4, <2>5, <2>6
<1>2. CASE OnWrite
  BY <1>2 DEF OnWrite, WriteInterest
<1>3. CASE PeerRead
  BY <1>3 DEF PeerRead, WriteInterest
<1>4. CASE UNCHANGED vars
  BY <1>4 DEF vars, WriteInterest
<1>. QED
  BY <1>1, <1>2, <1>3, <1>4 DEF Next

\* Write interest is registered exactly while write_buffer_ holds bytes,
\* for every kernel buffer size: Send's EnableWrite and OnWrite's
\* DisableWrite never leave bytes without an EPOLLOUT to flush them.
THEOREM WriteInterestHolds == Spec => []WriteInterest
<1>1. Init => WriteInterest
  BY DEF Init, WriteInterest
<1>. QED
  BY <1>1, TypeCorrect, InterestStep, PTL DEF Spec
=============================================================================
