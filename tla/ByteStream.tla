----------------------------- MODULE ByteStream -----------------------------
(***************************************************************************)
(* What a connected TCP socket promises the handler that writes to it: the *)
(* bytes of each Send call join the stream in call order and reach the     *)
(* peer in stream order, each once.  With MayDrop, a Send call may also    *)
(* lose its bytes as a whole.                                              *)
(*                                                                         *)
(* Bytes are numbered in the order the handler hands them to Send, so the  *)
(* stream is a sequence of byte numbers.                                   *)
(***************************************************************************)
EXTENDS Naturals, Sequences

CONSTANTS
    MaxBytes,   \* bytes the handler sends in all
    MaxLen,     \* bytes of one Send call
    MayDrop     \* TRUE: a whole Send call may be lost

VARIABLES
    queue,      \* bytes accepted and not yet delivered, oldest first
    delivered,  \* bytes the peer has read, in order
    next        \* number of the next byte the handler sends

svars == <<queue, delivered, next>>

\* The bytes n .. n + len - 1 as a sequence.
Span(n, len) == [i \in 1 .. len |-> n + i - 1]

SInit ==
    /\ queue = << >>
    /\ delivered = << >>
    /\ next = 1

\* One Send call of len bytes: appended, or (MayDrop) lost whole.
SSend(len) ==
    /\ next + len - 1 <= MaxBytes
    /\ next' = next + len
    /\ \/ queue' = queue \o Span(next, len)
       \/ MayDrop /\ UNCHANGED queue
    /\ UNCHANGED delivered

\* The peer reads the oldest byte.
SDeliver ==
    /\ queue # << >>
    /\ delivered' = Append(delivered, Head(queue))
    /\ queue' = Tail(queue)
    /\ UNCHANGED next

SNext ==
    \/ \E len \in 1 .. MaxLen : SSend(len)
    \/ SDeliver

\* Whatever is accepted is eventually delivered.
SSpec == SInit /\ [][SNext]_svars /\ WF_svars(SDeliver)
=============================================================================
