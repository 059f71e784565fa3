------------------------------- MODULE MCParsers -------------------------------
(***************************************************************************)
(* The two parsers of the package in one state space: the decoder of       *)
(* replies, and the chunker of documents.  They share nothing; a behaviour *)
(* is of one of them, and the other stands still.                          *)
(***************************************************************************)
EXTENDS RespReader, Chunker

VARIABLE parser  \* the one that runs

-----------------------------------------------------------------------------
(* Replies *)

x == 120

\* Every kind of frame and every form of null; payloads that hold a CRLF and a
\* marker; arrays in arrays, and an error before the end of an array.
MCReplies ==
  {<<Text(<<x>>)>>, <<Error(<<x>>)>>, <<Integer(1)>>,
   <<Bulk(<<>>)>>, <<Bulk(Eol)>>, <<Bulk(<<Colon>> \o Eol)>>,
   <<Null(Dollar)>>, <<Null(Star)>>, <<Null(Underscore)>>, <<Array(0)>>,
   <<Array(3), Bulk(<<x>>), Array(1), Integer(0), Null(Dollar)>>,
   <<Array(2), Array(2), Error(<<x>>), Integer(1), Text(<<>>)>>}

-----------------------------------------------------------------------------
(* Documents *)

Row(kind, level, chars) == [kind |-> kind, level |-> level, chars |-> chars]

\* An empty line, lines of 12, 27 and 52 tokens, headings of three levels, a fence.
MCLines ==
  {Row("blank", 0, 0), Row("text", 0, 51), Row("text", 0, 110), Row("text", 0, 210),
   Row("heading", 1, 8), Row("heading", 2, 8), Row("heading", 3, 8),
   Row("fence", 0, 3)}

Short6 == UNION {[1 .. n -> MCLines] : n \in 1 .. 6}

\* Lines of 7 characters are one token each and two together: the overlap alone comes
\* close to the target.  One line is another one.
Dense ==
  {[i \in 1 .. n |-> IF i = k THEN l ELSE Row("text", 0, 7)] :
     n \in {27, 30}, k \in {1, 2, 15, 25, 26, 27}, l \in MCLines}

\* Empty lines are no token each and a quarter of one together: the overlap alone
\* passes the target.
Sparse ==
  {[i \in 1 .. n |-> IF i \in {1, 2, n} THEN Row("text", 0, 5) ELSE Row("blank", 0, 0)] :
     n \in {180, 210}}

MCDocs ==
  {d \in Short6 \cup Dense \cup Sparse : d[1].kind # "blank" /\ d[Len(d)].kind # "blank"}

-----------------------------------------------------------------------------
\* What the parser that does not run is given: the first document, the first replies.
MCInit ==
  /\ \/ parser = "reader" /\ doc = <<Row("text", 0, 51)>>
     \/ parser = "chunker" /\ sent = <<<<Integer(1)>>>>
  /\ ReaderInit /\ Init

\* chunk_document has returned.
Returned == done /\ UNCHANGED vars

MCNext ==
  \/ parser = "reader" /\ ReaderNext /\ UNCHANGED <<vars, parser>>
  \/ parser = "chunker" /\ (Next \/ Returned) /\ UNCHANGED <<readerVars, parser>>

MCSpec == MCInit /\ [][MCNext]_<<readerVars, vars, parser>>
=============================================================================
