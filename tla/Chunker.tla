-------------------------------- MODULE Chunker --------------------------------
(***************************************************************************)
(* kachedb.semantic.chunker: MarkdownChunker.chunk_document cuts a         *)
(* document into chunks, at headings and where a chunk is large enough.    *)
(*                                                                         *)
(* current_lines is always a stretch of the document, first .. read: what  *)
(* a flush keeps for the overlap is an end of it.  A chunk is the stretch  *)
(* its content was taken from.                                             *)
(***************************************************************************)
EXTENDS Integers, Sequences, FiniteSets, SequencesExt

CONSTANTS
  Docs,             \* the documents that come: sequences of lines
  TargetChunkSize,  \* target_chunk_size
  OverlapArgument   \* overlap

\* A line of white space is blank, whatever it has of it.
Kinds == {"blank", "text", "heading", "fence"}

Lines == [kind : Kinds, level : 0 .. 6, chars : Nat]

\* The text that was given is stripped and not empty: it begins and ends with a line
\* that is not blank.
ASSUME ChunkerAssumption ==
  /\ Docs \subseteq Seq(Lines) \ {<<>>}
  /\ \A d \in Docs : d[1].kind # "blank" /\ d[Len(d)].kind # "blank"
  /\ TargetChunkSize \in Nat /\ OverlapArgument \in Nat

TargetSize == Max({50, TargetChunkSize})
Overlap == Min({OverlapArgument, TargetSize \div 2})

VARIABLES
  doc,      \* lines: the document's lines
  read,     \* how many of them the loop has seen
  first,    \* current_lines is first .. read
  stack,    \* heading_stack: the headings' places in doc
  in_code,  \* in_code_block
  chunks,   \* [from, to, title, start, cut, at]; history: start .. at are the lines that
            \* were flushed, cut is why
  done      \* chunk_document has returned

vars == <<doc, read, first, stack, in_code, chunks, done>>

Blank(i) == doc[i].kind = "blank"

Init ==
  /\ doc \in Docs
  /\ read = 0
  /\ first = 1
  /\ stack = <<>>
  /\ in_code = FALSE
  /\ chunks = <<>>
  /\ done = FALSE

\* estimate_tokens of a text of so many characters.
Estimate(chars) == IF chars = 0 THEN 0 ELSE Max({1, chars \div 4})

\* The sums of the first numbers of n.
Sums(n) ==
  LET upTo[k \in 0 .. Len(n)] == IF k = 0 THEN 0 ELSE upTo[k - 1] + n[k]
  IN  upTo

Sum(n, i, j) == Sums(n)[j] - Sums(n)[i - 1]

\* The tokens of the lines i .. j and of the line breaks between them.
Tokens(i, j) ==
  IF i > j THEN 0
  ELSE Estimate(Sum([k \in DOMAIN doc |-> doc[k].chars], i, j) + (j - i))

\* The tokens of the lines i .. j, each counted alone.
TokensByLine(i, j) == Sum([k \in DOMAIN doc |-> Estimate(doc[k].chars)], i, j)

\* Where the lines that are kept for the overlap begin: as many of the last lines
\* as have at most Overlap tokens together, if there is more than one line.
KeptFrom(from, to) ==
  IF Overlap > 0 /\ from < to
    THEN CHOOSE k \in from .. to + 1 :
           /\ TokensByLine(k, to) <= Overlap
           /\ \A j \in from .. k - 1 : TokensByLine(j, to) > Overlap
    ELSE to + 1

\* flush_current_chunk: the lines begin .. read become a chunk, without the blank
\* ones at its ends, unless all of them are blank.
Flushed(begin, end, path, cut) ==
  LET solid == {i \in begin .. end : ~Blank(i)}
  IN  IF solid = {} THEN [chunks |-> <<>>, first |-> end + 1]
      ELSE [chunks |-> <<[from |-> Min(solid), to |-> Max(solid), title |-> path,
                       start |-> begin, cut |-> cut, at |-> end]>>,
            first |-> KeptFrom(begin, end)]

\* No flush.
Kept(begin) == [chunks |-> <<>>, first |-> begin]

\* A document of at most TargetSize tokens is one chunk, entitled "Root".
Small ==
  /\ ~done /\ read = 0
  /\ Tokens(1, Len(doc)) <= TargetSize
  /\ chunks' = <<[from |-> 1, to |-> Len(doc), title |-> <<>>,
                 start |-> 1, cut |-> "whole", at |-> Len(doc)]>>
  /\ done' = TRUE
  /\ UNCHANGED <<doc, read, first, stack, in_code>>

\* Mutant: only the headings of the same level are popped.
PoppedEqual(level) ==
  LET below == {n \in 0 .. Len(stack) :
                  \A i \in n + 1 .. Len(stack) : doc[stack[i]].level = level}
  IN  SubSeq(stack, 1, Min(below))

\* The headings of a deeper or the same level are popped off the end.
Popped(level) ==
  LET below == {n \in 0 .. Len(stack) :
                  \A i \in n + 1 .. Len(stack) : doc[stack[i]].level >= level}
  IN  SubSeq(stack, 1, Min(below))

\* Mutant: a fence does not toggle the flag.
CodeAfterNever(l) == in_code

\* A fence opens or closes a code block, its own line included.
CodeAfter(l) == IF l.kind = "fence" THEN ~in_code ELSE in_code

\* Mutant: what lies before a heading is never flushed.
AtHeadingIgnored(path) == Kept(first)

\* Mutant: what lies before a heading is flushed however little it is.
AtHeadingAlways(path) ==
  IF first <= read THEN Flushed(first, read, path, "heading") ELSE Kept(first)

\* What lies before a heading is flushed if it is large enough, under the path of
\* the new heading.
AtHeading(path) ==
  IF first <= read /\ Tokens(first, read) >= TargetSize \div 2
    THEN Flushed(first, read, path, "heading")
    ELSE Kept(first)

\* One turn of the loop over the lines.
Line ==
  /\ ~done /\ read < Len(doc)
  /\ Tokens(1, Len(doc)) > TargetSize
  /\ LET i == read + 1
         l == doc[i]
         code == CodeAfter(l)
         heading == ~code /\ l.kind = "heading"
         path == IF heading THEN Append(Popped(l.level), i) ELSE stack
         before == IF heading THEN AtHeading(path) ELSE Kept(first)
         full == ~code /\ Tokens(before.first, i) >= TargetSize
         after == IF full THEN Flushed(before.first, i, path, "size") ELSE Kept(before.first)
     IN  /\ in_code' = code
         /\ stack' = path
         /\ chunks' = chunks \o before.chunks \o after.chunks
         /\ first' = after.first
         /\ read' = i
  /\ UNCHANGED <<doc, done>>

\* Mutant: the last flush is forgotten.
FinishUnflushed ==
  /\ ~done /\ read = Len(doc)
  /\ done' = TRUE
  /\ UNCHANGED <<doc, read, first, stack, in_code, chunks>>

\* The lines that are left are flushed, also when the overlap is all there is.
Finish ==
  /\ ~done /\ read = Len(doc)
  /\ LET last == IF first <= read THEN Flushed(first, read, stack, "end") ELSE Kept(first)
     IN  chunks' = chunks \o last.chunks /\ first' = last.first
  /\ done' = TRUE
  /\ UNCHANGED <<doc, read, stack, in_code>>

Next == Small \/ Line \/ Finish

Spec == Init /\ [][Next]_vars

-----------------------------------------------------------------------------
\* Behind line i a code block is open.
InCode(i) == Cardinality({j \in 1 .. i : doc[j].kind = "fence"}) % 2 = 1

Headings(i) == {h \in 1 .. i : doc[h].kind = "heading" /\ ~InCode(h)}

\* The headings that line i lies under: those that no heading of their own or a
\* higher level has ended.
Above(i) ==
  {h \in Headings(i) : \A g \in Headings(i) : g > h => doc[g].level > doc[h].level}

TypeOK ==
  /\ read \in 0 .. Len(doc) /\ first \in 1 .. read + 1
  /\ \A c \in ToSet(chunks) : 1 <= c.from /\ c.from <= c.to /\ c.to <= Len(doc)
  /\ in_code = InCode(read)

\* heading_stack holds the headings the last line lies under, outermost first,
\* whatever levels the document skips or repeats, and no line of a code block
\* among them.
HeadingHierarchy ==
  /\ ToSet(stack) = Above(read)
  /\ \A i, j \in DOMAIN stack : i < j => stack[i] < stack[j]

\* No line of the document is lost: what is not in a chunk is still to be
\* flushed, and chunks follow each other without a gap.
NothingLost ==
  /\ \A i \in 1 .. (IF done THEN Len(doc) ELSE first - 1) :
       Blank(i) \/ \E c \in ToSet(chunks) : i \in c.from .. c.to
  /\ \A k \in 1 .. Len(chunks) - 1 :
       chunks[k].from <= chunks[k + 1].from /\ chunks[k].to <= chunks[k + 1].to

\* Where the chunk before chunk k was cut.
CutBefore(k) == IF k = 1 THEN 0 ELSE chunks[k - 1].at

\* A cut behind line c.at was due: the lines that waited had reached the target, or
\* half of it and a heading follows, in both cases outside of code; or the document
\* ends there.
WasDue(c) ==
  /\ c.cut = "whole" => c.at = Len(doc) /\ Tokens(1, c.at) <= TargetSize
  /\ c.cut = "size" => ~InCode(c.at) /\ Tokens(c.start, c.at) >= TargetSize
  /\ c.cut = "heading" =>
       c.at + 1 \in Headings(c.at + 1) /\ Tokens(c.start, c.at) >= TargetSize \div 2
  /\ c.cut = "end" => c.at = Len(doc)

\* None was due before, behind the last cut.
NoneWasDue(c, last) ==
  /\ \A i \in last + 1 .. c.at - 1 : ~InCode(i) => Tokens(c.start, i) < TargetSize
  /\ \A h \in Headings(c.at) :
       h > last + 1 => Tokens(c.start, h - 1) < TargetSize \div 2

\* A chunk is cut where it is due, neither later nor earlier: behind the first line
\* outside of code with which it reaches the target, before a heading when it has half of
\* it, and else at the end of the document; and only there does it end in a code
\* block.
CutWhereDue ==
  \A k \in DOMAIN chunks :
    LET c == chunks[k]
    IN  /\ WasDue(c)
        /\ c.cut # "whole" => NoneWasDue(c, CutBefore(k))
        /\ c.cut \in {"size", "heading"} => ~InCode(c.to)

\* Code fence integrity, as the module's description has it: no chunk begins within a
\* code block.
FencesWhole == \A c \in ToSet(chunks) : ~InCode(c.from - 1)
=============================================================================
