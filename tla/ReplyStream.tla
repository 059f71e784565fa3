----------------------------- MODULE ReplyStream -----------------------------
(***************************************************************************)
(* What the decoder of a connection promises its callers: each call gives  *)
(* the next of the server's replies, whole and once.  Once a call was      *)
(* broken off in the middle of a reply, nothing is promised any more.      *)
(***************************************************************************)
EXTENDS Naturals, Sequences

VARIABLES
  sent,    \* the replies of the server, first one first
  given,   \* what the calls that returned have given
  broken   \* TRUE once a call was broken off in the middle of a reply

vars == <<sent, given, broken>>

Init == given = <<>> /\ broken = FALSE

Give ==
  /\ ~broken
  /\ Len(given) < Len(sent)
  /\ given' = Append(given, sent[Len(given) + 1])
  /\ UNCHANGED <<sent, broken>>

\* The call that is broken off may raise an error of the reply's.
Break ==
  /\ ~broken /\ broken'
  /\ SubSeq(given', 1, Len(given)) = given
  /\ UNCHANGED sent

\* Whatever comes then.
Stray == broken /\ UNCHANGED <<sent, broken>>

Next == Give \/ Break \/ Stray

Spec == Init /\ [][Next]_vars
=============================================================================
