---------------------------- MODULE HttpHlsParser ----------------------------
(***************************************************************************)
(* HttpHlsProtocol::Parse (src/src/http_hls_protocol.cpp) on one keep-alive *)
(* TCP connection: an HLS player sends GET requests for a playlist or a    *)
(* segment, one at a time, and waits for each answer.  IoBuffer and the    *)
(* code that calls Parse are not in the repository: each call is taken to *)
(* see exactly one whole request.                                          *)
(*                                                                         *)
(* Each call of Parse takes all the bytes of the buffer (io_buffer.Read of *)
(* io_buffer.Size()) and scans them with positions r_pos, n_pos, m_pos and *)
(* the current key and value, all local to the call; the fields the GET    *)
(* line is parsed into, app_, stream_name_, type_ and ts_, are members of  *)
(* the connection's protocol object and only ever appended to.             *)
(*                                                                         *)
(* Characters are abstracted to symbols: the separators the loop tests     *)
(* ("\r", "\n", ":", " ", "/", ".") and one symbol per word of the         *)
(* request (a method, an application or stream name, a segment number, a   *)
(* type, a header name or value).                                          *)
(***************************************************************************)
EXTENDS Integers, Sequences, SequencesExt

CONSTANTS
    Conns,       \* the player connections, one HttpHlsProtocol each
    Requests,    \* the requests a player may make: [app, stream, ts, type]
    Registry,    \* <<app, stream>> pairs StreamMgr has an RTMP source for
    TsAvail,     \* segment numbers GetTs returns a segment for
    M3u8Avail,   \* GetM3U8 returns a playlist
    MaxReqs      \* requests a player sends on one connection

CR == "CR"
LF == "LF"
COL == ":"
SP == "SP"
SL == "/"
DOT == "."

\* The bytes of one request: its GET line and a Host header.
Req(r) ==
    << "GET", SP, SL, r.app, SL, r.stream, SL, r.ts, DOT, r.type, SP,
       "HTTP/1.1", CR, LF, "Host", COL, SP, "h", CR, LF, CR, LF >>

Numerals == <<"0", "1", "2", "3", "4", "5", "6", "7", "8", "9">>

\* Util::Str2Num on a string of digits.
Str2Num(s) ==
    LET num[k \in 0 .. Len(s)] ==
            IF k = 0 THEN 0
            ELSE 10 * num[k - 1] + (CHOOSE v \in 0 .. 9 : Numerals[v + 1] = s[k])
    IN  num[Len(s)]

\* app_, stream_name_, type_ and ts_: strings of words and digits.
Members == [app : Seq(STRING), stream : Seq(STRING), type : Seq(STRING), ts : Seq(STRING)]

NoMembers == [app |-> << >>, stream |-> << >>, type |-> << >>, ts |-> << >>]

\* Mutant of Answer, not used by Spec: the segment lookup with its empty
\* check inverted.
AnswerInverted(mem) ==
    IF mem.app = << >> \/ mem.stream = << >> \/ <<mem.app, mem.stream>> \notin Registry
    THEN "none"
    ELSE CASE mem.type = <<"ts">> ->
                IF Str2Num(mem.ts) \in TsAvail THEN "404" ELSE "200_ts"
           [] mem.type = <<"m3u8">> ->
                IF M3u8Avail THEN "200_m3u8" ELSE "404"
           [] OTHER -> "none"

\* The answer Parse gives once app_, stream_name_, type_ and ts_ are
\* parsed: nothing unless both names are set and StreamMgr knows the
\* source; for "ts" the segment or 404, for "m3u8" the playlist or 404,
\* nothing for any other type.
Answer(mem) ==
    IF mem.app = << >> \/ mem.stream = << >> \/ <<mem.app, mem.stream>> \notin Registry
    THEN "none"
    ELSE CASE mem.type = <<"ts">> ->
                IF Str2Num(mem.ts) \in TsAvail THEN "200_ts" ELSE "404"
           [] mem.type = <<"m3u8">> ->
                IF M3u8Avail THEN "200_m3u8" ELSE "404"
           [] OTHER -> "none"

\* The scan of a GET line's key: spaces, slashes and dots are counted, and
\* every other character goes to app_ after the first slash, stream_name_
\* after the second, and after the third to ts_ before the dot and type_
\* after it, up to the second space.
ScanChar(acc, ch) ==
    CASE ch = SP -> [acc EXCEPT !.s = @ + 1]
      [] ch = SL -> [acc EXCEPT !.x = @ + 1]
      [] ch = DOT -> [acc EXCEPT !.d = @ + 1]
      [] acc.x = 1 -> [acc EXCEPT !.mem.app = Append(@, ch)]
      [] acc.x = 2 -> [acc EXCEPT !.mem.stream = Append(@, ch)]
      [] acc.x = 3 /\ acc.s < 2 /\ acc.d = 1 -> [acc EXCEPT !.mem.type = Append(@, ch)]
      [] acc.x = 3 /\ acc.s < 2 -> [acc EXCEPT !.mem.ts = Append(@, ch)]
      [] OTHER -> acc

ScanKey(mem, key) ==
    LET acc[k \in 0 .. Len(key)] ==
            IF k = 0 THEN [s |-> 0, x |-> 0, d |-> 0, mem |-> mem]
            ELSE LET prev == acc[k - 1] IN ScanChar(prev, key[k])
    IN  acc[Len(key)].mem

\* Mutant of LineEnd, not used by Spec: key not cleared at the end of a
\* line.
LineEndKeepsKey(st) ==
    [st EXCEPT !.kv = FALSE, !.value = << >>,
               !.mem = IF "GET" \in Range(st.key) THEN ScanKey(@, st.key) ELSE @]

\* A "\r\n" that ends a header line: a key containing "GET" is scanned
\* into the members; key and value are cleared.
LineEnd(st) ==
    [st EXCEPT !.kv = FALSE, !.key = << >>, !.value = << >>,
               !.mem = IF "GET" \in Range(st.key) THEN ScanKey(@, st.key) ELSE @]

AddChar(st, c) ==
    IF st.kv THEN [st EXCEPT !.value = Append(@, c)]
             ELSE [st EXCEPT !.key = Append(@, c)]

\* One iteration of the loop of Parse, on the character at position st.i.
\* A "\n" right after "\r" whose previous "\n" is two back ends the
\* request: Parse answers and returns kSuccess, leaving the rest unread.
ParseChar(st, c) ==
    LET i == st.i
        nx == [st EXCEPT !.i = @ + 1]
    IN  IF st.done THEN st
        ELSE CASE c = CR -> [nx EXCEPT !.r = i]
               [] c = LF /\ i = st.r + 1 /\ i = st.n + 2 ->
                    [nx EXCEPT !.done = TRUE, !.answer = Answer(st.mem)]
               [] c = LF /\ i = st.r + 1 -> [LineEnd(nx) EXCEPT !.n = i]
               [] c = LF -> [nx EXCEPT !.n = i]
               [] c = COL -> [nx EXCEPT !.m = i, !.kv = TRUE]
               [] c = SP /\ st.m + 1 = i -> nx
               [] OTHER -> AddChar(nx, c)

\* Parse(io_buffer) over the bytes data of one read, with the members mem.
Parse(mem, data) ==
    LET st[k \in 0 .. Len(data)] ==
            IF k = 0 THEN [i |-> 0, r |-> -1, n |-> -1, m |-> -1, kv |-> FALSE,
                           key |-> << >>, value |-> << >>, mem |-> mem,
                           done |-> FALSE, answer |-> "none"]
            ELSE LET prev == st[k - 1] IN ParseChar(prev, data[k])
    IN  st[Len(data)]

VARIABLES
    reqs,       \* reqs[c]: the requests player c has sent, in order
    pending,    \* pending[c]: the requests sent and not yet parsed
    mem,        \* mem[c]: app_, stream_name_, type_, ts_ of connection c
    answers     \* answers[c]: the answers sent on connection c, in order

vars == <<reqs, pending, mem, answers>>

Answers == {"200_ts", "200_m3u8", "404"}

TypeOK ==
    /\ reqs \in [Conns -> Seq(Requests)]
    /\ pending \in [Conns -> Seq(Requests)]
    /\ mem \in [Conns -> Members]
    /\ answers \in [Conns -> Seq(Answers)]

\* The constructor leaves app_, stream_name_, type_ and ts_ empty.
Init ==
    /\ reqs = [c \in Conns |-> << >>]
    /\ pending = [c \in Conns |-> << >>]
    /\ mem = [c \in Conns |-> NoMembers]
    /\ answers = [c \in Conns |-> << >>]

\* Player c sends its next request once every earlier one is answered.
PlayerSend(c, r) ==
    /\ Len(reqs[c]) < MaxReqs
    /\ Len(answers[c]) = Len(reqs[c])
    /\ reqs' = [reqs EXCEPT ![c] = Append(@, r)]
    /\ pending' = [pending EXCEPT ![c] = Append(@, r)]
    /\ UNCHANGED <<mem, answers>>

\* Mutant of OnParse, not used by Spec: an answer sent even when Parse
\* finds no stream or an unknown type.
OnParseAlwaysAnswers(c) ==
    /\ pending[c] # << >>
    /\ LET res == Parse(mem[c], Req(Head(pending[c])))
       IN  /\ mem' = [mem EXCEPT ![c] = res.mem]
           /\ answers' = [answers EXCEPT ![c] = Append(@, res.answer)]
    /\ pending' = [pending EXCEPT ![c] = Tail(@)]
    /\ UNCHANGED reqs

\* HttpHlsProtocol::Parse on the bytes of connection c's oldest request:
\* the members it leaves, and the answer it sends with Send.
OnParse(c) ==
    /\ pending[c] # << >>
    /\ LET res == Parse(mem[c], Req(Head(pending[c])))
       IN  /\ mem' = [mem EXCEPT ![c] = res.mem]
           /\ answers' = IF res.answer = "none" THEN answers
                         ELSE [answers EXCEPT ![c] = Append(@, res.answer)]
    /\ pending' = [pending EXCEPT ![c] = Tail(@)]
    /\ UNCHANGED reqs

Next ==
    \/ \E c \in Conns, r \in Requests : PlayerSend(c, r)
    \/ \E c \in Conns : OnParse(c)

\* The IoLoop reads every connection that has bytes to read: weak fairness
\* of OnParse(c), which is enabled exactly when pending[c] is not empty
\* (Parse is total and Tail changes pending), with ENABLED spelled out.
ParseFairness(c) == []<>(pending[c] = << >>) \/ []<><<OnParse(c)>>_vars

Spec == Init /\ [][Next]_vars /\ \A c \in Conns : ParseFairness(c)

-----------------------------------------------------------------------------
\* What request r asks for: the segment it names or the playlist of a
\* stream StreamMgr knows, 404 when that is not there, and nothing for an
\* unknown stream or type.
Expected(r) ==
    IF << <<r.app>>, <<r.stream>> >> \notin Registry THEN "none"
    ELSE IF r.type = "ts"
         THEN IF Str2Num(<<r.ts>>) \in TsAvail THEN "200_ts" ELSE "404"
    ELSE IF r.type = "m3u8"
         THEN IF M3u8Avail THEN "200_m3u8" ELSE "404"
    ELSE "none"

\* Every answer sent on a connection is the one its request asks for: the
\* scan of the GET line (lines 146-189) puts each word in the right
\* member and the lookup (lines 63-129) picks the stream, the type and the
\* segment it names, on every connection whatever the others do.
AnswersCorrect ==
    \A c \in Conns : \A j \in 1 .. Len(answers[c]) :
        answers[c][j] = Expected(reqs[c][j])

\* Every request for a known stream and type is eventually answered, so a
\* player waiting for its answer is never left waiting: also the second
\* request on a keep-alive connection, which Parse scans into the members
\* the first one filled (app_ += ch, line 170).
RequestsAnswered ==
    \A c \in Conns : \A j \in 1 .. MaxReqs :
        (Len(reqs[c]) >= j /\ Expected(reqs[c][j]) # "none")
            ~> Len(answers[c]) >= j
=============================================================================
