------------------------------ MODULE Mailbox ------------------------------
(***************************************************************************)
(* What a channel of the interprocess library promises its two ends, in    *)
(* one direction: messages arrive whole, once and in the order they were   *)
(* sent, until an accept fails with a part of a message in its hands.      *)
(* From then on strings and arrays may be anything; lines are only lost or *)
(* mutilated up to the next end of a line.                                 *)
(***************************************************************************)
EXTENDS Integers, Sequences

CONSTANTS
  Longest,     \* the length of the longest line there is room for
  Failed       \* what an accept returns that does not succeed

VARIABLES
  byLine,      \* messages are lines
  box,         \* the messages of which nothing has been taken
  whole,       \* the receiver stands between two messages
  received     \* what the last accept returned

mvars == <<byLine, box, whole, received>>

SuffixesOf(s) == {SubSeq(s, i, Len(s)) : i \in 1 .. Len(s) + 1}

\* No accept can return it.
Oversized(m) == byLine /\ Len(m) > Longest

MInit == byLine \in BOOLEAN /\ box = << >> /\ whole = TRUE /\ received = Failed

Post ==
  /\ Len(box') = Len(box) + 1 /\ SubSeq(box', 1, Len(box)) = box
  /\ UNCHANGED <<byLine, whole, received>>

Take ==
  /\ whole /\ box # << >> /\ ~Oversized(Head(box))
  /\ received' = Head(box) /\ box' = Tail(box)
  /\ UNCHANGED <<byLine, whole>>

\* An accept fails, having read nothing or a part of the first message.
Fail ==
  /\ received' = Failed
  /\ \/ UNCHANGED <<box, whole>>
     \/ box # << >> /\ box' = Tail(box) /\ whole' = FALSE
  /\ UNCHANGED byLine

\* An accept fails, having swallowed all that followed an oversized line.
Swallow ==
  /\ whole /\ box # << >> /\ Oversized(Head(box))
  /\ received' = Failed /\ box' \in SuffixesOf(Tail(box)) /\ whole' \in BOOLEAN
  /\ UNCHANGED byLine

\* An accept that begins inside a message returns what is left of it, perhaps
\* with the next line behind, and stands at the beginning of a line.
TakeRestOfLine ==
  /\ byLine /\ ~whole /\ received' # Failed
  /\ box' \in {box} \cup (IF box = << >> THEN {} ELSE {Tail(box)})
  /\ whole' = TRUE /\ UNCHANGED byLine

\* Inside an oversized line, or with one behind, it may fail or swallow more.
SwallowRest ==
  /\ byLine /\ ~whole /\ received' = Failed
  /\ box' \in SuffixesOf(box) /\ whole' \in BOOLEAN /\ UNCHANGED byLine

\* The parts of strings and arrays are taken for lengths.
Garbage ==
  /\ ~byLine /\ ~whole
  /\ box' \in SuffixesOf(box) /\ whole' \in BOOLEAN /\ UNCHANGED byLine

MNext ==
  \/ Post \/ Take \/ Fail \/ Swallow \/ TakeRestOfLine \/ SwallowRest \/ Garbage

MSpec == MInit /\ [][MNext]_mvars
=============================================================================
