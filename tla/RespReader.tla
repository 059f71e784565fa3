------------------------------ MODULE RespReader ------------------------------
(***************************************************************************)
(* kachedb.resp: RespReader, and AsyncRespReader, which is the same code   *)
(* with an await where RespReader calls recv.                              *)
(*                                                                         *)
(* The server's replies are bytes, and recv hands them over in pieces of   *)
(* any size.  A reply is written as its frames one after the other, an     *)
(* array's before those of its elements, and so are the values that a call *)
(* has read: the nested lists are the same in both.  _parse_frame calls    *)
(* itself for the elements: arrays holds how many each of the arrays that  *)
(* are being read still lacks, outermost first, and step says where the    *)
(* innermost call is.  recv may raise, or the task that awaits it be       *)
(* cancelled: the call is broken off, and the reader may be asked for the  *)
(* next reply all the same.                                                *)
(*                                                                         *)
(* A number is one cell of the stream, whatever its digits, and the least  *)
(* is -1.  What a reader that begins inside a payload makes of digits      *)
(* there is not modelled.  A text is its bytes: that they are UTF-8, as    *)
(* decode wants it, is assumed.                                            *)
(***************************************************************************)
EXTENDS Integers, Sequences, SequencesExt

CONSTANTS
  Replies,     \* what the server may reply: sequences of frames
  MaxReplies,  \* bound: the replies of a connection
  ChunkSize,   \* _chunk_size
  CompactAt    \* 4096: the consumed bytes that are kept in the buffer

CR == 13
LF == 10
Plus == 43
Minus == 45
Colon == 58
Dollar == 36
Star == 42
Underscore == 95

Markers == {Plus, Minus, Colon, Dollar, Star, Underscore}

Eol == <<CR, LF>>

\* The cell of a number n is Zero + n.
Zero == 256

Byte == 0 .. Zero - 1

Digits(n) == IF n = -1 THEN <<Minus, Zero + 1>> ELSE <<Zero + n>>

\* Whether int(line) succeeds, and what it returns.
IsNumber(line) == line = Digits(-1) \/ (Len(line) = 1 /\ line[1] >= Zero)

IntOf(line) == IF line = Digits(-1) THEN -1 ELSE line[1] - Zero

\* A frame: n is the number in its line, bytes its text or payload.
Frame(marker, n, bytes) == [marker |-> marker, n |-> n, bytes |-> bytes]

Text(bytes) == Frame(Plus, 0, bytes)
Error(bytes) == Frame(Minus, 0, bytes)
Integer(n) == Frame(Colon, n, <<>>)
Bulk(bytes) == Frame(Dollar, Len(bytes), bytes)
Array(n) == Frame(Star, n, <<>>)
Null(form) == Frame(form, -1, <<>>)

\* What _parse_frame returns for a null, whatever its form.
None == Null(Underscore)

Value(f) == IF f.n = -1 /\ f.marker # Colon THEN None ELSE f

\* The values a caller is given for a reply.
Values(reply) == [k \in DOMAIN reply |-> Value(reply[k])]

\* How many frames must follow as elements.
Elements(f) == IF f.marker = Star /\ f.n > 0 THEN f.n ELSE 0

HasPayload(f) == f.marker = Dollar /\ f.n # -1

\* No text holds a CRLF.
IsLine(bytes) == \A i \in 1 .. Len(bytes) - 1 : ~(bytes[i] = CR /\ bytes[i + 1] = LF)

Frames ==
  {f \in [marker : Markers, n : Nat \cup {-1}, bytes : Seq(Byte)] :
     /\ f.marker \in {Plus, Minus} => f.n = 0 /\ IsLine(f.bytes)
     /\ f.marker \in {Colon, Star, Underscore} \/ f.n = -1 => f.bytes = <<>>
     /\ f.marker = Underscore => f.n = -1
     /\ HasPayload(f) => f.n = Len(f.bytes)}

\* A frame as the server writes it.
LineOf(f) ==
  CASE f.marker \in {Plus, Minus} -> f.bytes
    [] f.marker = Underscore      -> <<>>
    [] OTHER                      -> Digits(f.n)

FrameBytes(f) ==
  <<f.marker>> \o LineOf(f) \o Eol \o (IF HasPayload(f) THEN f.bytes \o Eol ELSE <<>>)

Bytes(frames) == FlattenSeq([k \in DOMAIN frames |-> FrameBytes(frames[k])])

\* Opens(reply)[k]: how many values are still due behind its first k frames.
Opens(reply) ==
  LET open[k \in 0 .. Len(reply)] ==
        IF k = 0 THEN 1 ELSE open[k - 1] - 1 + Elements(reply[k])
  IN  open

\* The frames of one value.
IsReply(reply) ==
  /\ reply \in Seq(Frames)
  /\ Opens(reply)[Len(reply)] = 0 /\ \A k \in 0 .. Len(reply) - 1 : Opens(reply)[k] > 0

ASSUME ReaderAssumption ==
  /\ ChunkSize \in Nat \ {0} /\ CompactAt \in Nat /\ MaxReplies \in Nat
  /\ \A reply \in Replies : IsReply(reply)

VARIABLES
  sent,     \* the replies of the server
  stream,   \* their bytes
  arrived,  \* how many of these recv has returned
  buf,      \* _buf
  pos,      \* _pos: how many bytes of buf are consumed
  step,     \* where the innermost _parse_frame is
  frame,    \* what it knows of its frame
  arrays,   \* how many elements the arrays being read still lack, outermost first
  items,    \* the values this call has read
  given,    \* history: what each call has returned or raised; <<>> for an error
            \* that is not the server's
  broken    \* history: "cut" once recv has raised in the middle of a reply, else
            \* "error" once an error inside an array was raised, else "no"

readerVars == <<sent, stream, arrived, buf, pos, step, frame, arrays, items, given, broken>>

server == <<sent, stream>>
input == <<sent, stream, arrived>>
history == <<given, broken>>

ReaderInit ==
  /\ sent \in UNION {[1 .. n -> Replies] : n \in 1 .. MaxReplies}
  /\ stream = Bytes(FlattenSeq(sent))
  /\ arrived = 0
  /\ buf = <<>>
  /\ pos = 0
  /\ step = "idle"
  /\ frame = None
  /\ arrays = <<>>
  /\ items = <<>>
  /\ given = <<>>
  /\ broken = "no"

Available == Len(buf) - pos

\* The CRs behind the cursor that an LF follows.
LineEnds == {i \in pos + 1 .. Len(buf) - 1 : buf[i] = CR /\ buf[i + 1] = LF}

\* How many bytes the reader has consumed since it was made.
Consumed == arrived - Len(buf) + pos

\* The bytes before reply i.
StartOf(i) == Len(Bytes(FlattenSeq(SubSeq(sent, 1, i - 1))))

InsideReply == Consumed # StartOf(Len(given) + 1)

-----------------------------------------------------------------------------
(* _ensure_data, _read_line, _read_exact, _compact *)

\* Mutant: the loop of _ensure_data compares with <= instead of <.
ShortByOne ==
  \/ step = "marker" /\ Available < 1
  \/ step = "line" /\ LineEnds = {}
  \/ step = "payload" /\ Available <= frame.n
  \/ step = "eol" /\ Available <= 2

\* The next step needs bytes that recv has not returned yet.
Short ==
  \/ step = "marker" /\ Available < 1
  \/ step = "line" /\ LineEnds = {}
  \/ step = "payload" /\ Available < frame.n
  \/ step = "eol" /\ Available < 2

\* recv returns some bytes that have come.
Fetch ==
  /\ Short
  /\ \E n \in 1 .. ChunkSize :
       /\ arrived + n <= Len(stream)
       /\ arrived' = arrived + n
       /\ buf' = buf \o SubSeq(stream, arrived + 1, arrived + n)
  /\ UNCHANGED <<server, pos, step, frame, arrays, items, history>>

\* An exception leaves all the calls of _parse_frame at once: what is left of the
\* arrays is not read.
Leave ==
  /\ step' = "idle"
  /\ frame' = None
  /\ arrays' = <<>>
  /\ items' = <<>>

\* recv raises, returns nothing because the peer has closed the connection, or
\* the task that awaits it is cancelled: what the call has consumed is gone.
Raises ==
  /\ Short
  /\ Leave
  /\ broken' = IF broken = "no" /\ ~InsideReply THEN "no" ELSE "cut"
  /\ UNCHANGED <<input, buf, pos, given>>

\* Mutant: the consumed bytes go, the cursor stays.
ConsumeUncompacted(n) ==
  /\ buf' = IF pos + n > CompactAt THEN SubSeq(buf, pos + n + 1, Len(buf)) ELSE buf
  /\ pos' = pos + n

\* The cursor moves over n bytes, and consumed bytes are dropped once there are
\* many of them.
Consume(n) ==
  IF pos + n > CompactAt
    THEN buf' = SubSeq(buf, pos + n + 1, Len(buf)) /\ pos' = 0
    ELSE pos' = pos + n /\ UNCHANGED buf

-----------------------------------------------------------------------------
(* read_response, _parse_frame *)

Read ==
  /\ step = "idle"
  /\ step' = "marker"
  /\ UNCHANGED <<input, buf, pos, frame, arrays, items, history>>

\* The marker is consumed without compacting; an unknown one raises ProtocolError.
Marker ==
  /\ step = "marker"
  /\ ~Short
  /\ pos' = pos + 1
  /\ LET marker == buf[pos + 1]
     IN  IF marker \in Markers
           THEN /\ step' = "line"
                /\ frame' = Frame(marker, 0, <<>>)
                /\ UNCHANGED <<arrays, items, given>>
           ELSE Leave /\ given' = Append(given, <<>>)
  /\ UNCHANGED <<input, buf, broken>>

\* The bytes up to the first CRLF.
NextLine ==
  LET end == CHOOSE i \in LineEnds : \A j \in LineEnds : i <= j
  IN  SubSeq(buf, pos + 1, end - 1)

\* A line is read.
AtLine ==
  /\ step = "line"
  /\ ~Short
  /\ Consume(Len(NextLine) + 2)
  /\ UNCHANGED input

\* What is known of a frame behind its line.
Headed(marker, line) ==
  CASE marker \in {Plus, Minus} -> Frame(marker, 0, line)
    [] marker = Underscore      -> None
    [] OTHER                    -> Frame(marker, IntOf(line), <<>>)

NumberDue == frame.marker \in {Colon, Dollar, Star}

\* A simple string, an integer, a null, the length of a bulk string or that of an
\* array, whose elements come next.
ReadLine ==
  /\ AtLine
  /\ frame.marker # Minus /\ (NumberDue => IsNumber(NextLine))
  /\ LET f == Headed(frame.marker, NextLine)
     IN  /\ step' = IF HasPayload(f) THEN "payload"
                    ELSE IF Elements(f) > 0 THEN "marker" ELSE "return"
         /\ frame' = IF HasPayload(f) THEN f ELSE None
         /\ items' = IF HasPayload(f) THEN items ELSE Append(items, Value(f))
         /\ arrays' = IF Elements(f) > 0 THEN Append(arrays, f.n) ELSE arrays
  /\ UNCHANGED history

\* int raises ValueError.
BadNumber ==
  /\ AtLine
  /\ NumberDue /\ ~IsNumber(NextLine)
  /\ Leave
  /\ given' = Append(given, <<>>)
  /\ UNCHANGED broken

\* The server's error is raised as ResponseError.
RaiseError ==
  /\ AtLine
  /\ frame.marker = Minus
  /\ Leave
  /\ given' = Append(given, <<Error(NextLine)>>)
  /\ broken' = IF broken = "no" /\ arrays # <<>> THEN "error" ELSE broken

\* The bytes of a bulk string, whatever they are.
ReadPayload ==
  /\ step = "payload"
  /\ ~Short
  /\ Consume(frame.n)
  /\ step' = "eol"
  /\ frame' = [frame EXCEPT !.bytes = SubSeq(buf, pos + 1, pos + frame.n)]
  /\ UNCHANGED <<input, arrays, items, history>>

\* Mutant: the CRLF behind a payload is not consumed.
ReadEolKept ==
  /\ step = "eol"
  /\ ~Short
  /\ step' = "return"
  /\ frame' = None
  /\ items' = Append(items, frame)
  /\ UNCHANGED <<input, buf, pos, arrays, history>>

\* The CRLF behind them.
ReadEol ==
  /\ step = "eol"
  /\ ~Short
  /\ Consume(2)
  /\ step' = "return"
  /\ frame' = None
  /\ items' = Append(items, frame)
  /\ UNCHANGED <<input, arrays, history>>

\* Mutant: an array is complete one element early.
ReturnElementEarly ==
  /\ step = "return" /\ arrays # <<>>
  /\ IF Last(arrays) <= 2
       THEN arrays' = Front(arrays) /\ UNCHANGED step
       ELSE /\ arrays' = [arrays EXCEPT ![Len(arrays)] = @ - 1]
            /\ step' = "marker"
  /\ UNCHANGED <<input, buf, pos, frame, items, history>>

\* A value is an element of the innermost array, which may be complete with it.
ReturnElement ==
  /\ step = "return" /\ arrays # <<>>
  /\ IF Last(arrays) = 1
       THEN arrays' = Front(arrays) /\ UNCHANGED step
       ELSE /\ arrays' = [arrays EXCEPT ![Len(arrays)] = @ - 1]
            /\ step' = "marker"
  /\ UNCHANGED <<input, buf, pos, frame, items, history>>

\* A value is what read_response returns.
Return ==
  /\ step = "return" /\ arrays = <<>>
  /\ given' = Append(given, items)
  /\ step' = "idle"
  /\ items' = <<>>
  /\ UNCHANGED <<input, buf, pos, frame, arrays, broken>>

ReaderNext ==
  \/ Read \/ Fetch \/ Raises
  \/ Marker \/ ReadLine \/ BadNumber \/ RaiseError \/ ReadPayload \/ ReadEol
  \/ ReturnElement \/ Return

ReaderSpec == ReaderInit /\ [][ReaderNext]_readerVars

-----------------------------------------------------------------------------
\* The buffer is the end of what has arrived, the cursor lies within it, and an
\* array that is being read lacks an element.
ReaderTypeOK ==
  /\ arrived \in 0 .. Len(stream)
  /\ Len(buf) <= arrived /\ buf = SubSeq(stream, arrived - Len(buf) + 1, arrived)
  /\ pos \in 0 .. Len(buf)
  /\ step \in {"idle", "marker", "line", "payload", "eol", "return"}
  /\ frame \in [marker : Markers, n : Nat \cup {-1}, bytes : Seq(Nat)]
  /\ arrays \in Seq(Nat \ {0})
  /\ step = "idle" => arrays = <<>> /\ items = <<>>
  /\ broken \in {"no", "error", "cut"}

\* Where a frame begins or the last one ends.
FrameStarts ==
  LET frames == FlattenSeq(sent)
  IN  {Len(Bytes(SubSeq(frames, 1, k))) : k \in 0 .. Len(frames)}

\* Between two calls exactly the replies that were given are consumed, however
\* the bytes were cut into pieces; after an error inside an array the next call
\* still begins at a frame, an element of the array that the error left unread.
BetweenReplies ==
  step = "idle" =>
    /\ broken = "no" => ~InsideReply
    /\ broken = "error" => Consumed \in FrameStarts

\* RespReader's docstring: partial frames are handled "by retaining unconsumed bytes
\* across read_response calls", so a call begins at a frame, also after recv has raised.
PartialFramesRetained == step = "idle" => Consumed \in FrameStarts

\* A call waits only for bytes of its own reply: once that has arrived whole,
\* recv is not called again, so nobody waits for a server that has answered.
WaitsOnlyForMissing ==
  Short /\ broken = "no" /\ Len(given) < Len(sent) => arrived < StartOf(Len(given) + 2)

\* The decoder keeps ReplyStream's promise: the values are the server's, in its
\* order, under every fragmentation, as long as no call was broken off inside a
\* reply.
Answers ==
  INSTANCE ReplyStream WITH
    sent <- [i \in DOMAIN sent |-> Values(sent[i])],
    broken <- broken # "no"

ImplementsReplyStream == Answers!Spec
=============================================================================
