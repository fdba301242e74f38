------------------------------ MODULE Channel ------------------------------
(***************************************************************************)
(* A stream channel of the interprocess library src/IPC, one direction of  *)
(* it: send and accept of lines with a terminator, of strings with their   *)
(* lengths before them, and of arrays of strings, over a socket that cuts  *)
(* the bytes anywhere.  An accept has a timeout for every read it does and *)
(* loses what it has read when one expires.                                *)
(***************************************************************************)
EXTENDS Integers, FiniteSets, SequencesExt

CONSTANTS
  Base, IntBytes, \* an integer is IntBytes digits of that base, one a byte
  Term,           \* the bytes that end a line
  MaxLine,        \* room for a line and its terminator, 1023
  Lines, Texts,   \* what is sent: sequences of bytes, lines without Term in them
  Arrays,         \* and sequences of texts and NULL
  NULL,           \* the null pointer
  Failed,         \* -1
  Room,           \* bytes the socket holds
  MaxSends        \* bound on messages

Byte == 0 .. Base - 1

\* The number of integers that IntBytes bytes tell apart
Modulus ==
  LET Power[k \in 0 .. IntBytes] == IF k = 0 THEN 1 ELSE Base * Power[k - 1]
  IN  Power[IntBytes]

ASSUME ChannelAssumption ==
  /\ Base \in Nat \ {0, 1} /\ IntBytes \in Nat \ {0}
  /\ Term \in Seq(Byte) \ {<< >>} /\ MaxLine \in Nat \ {0}
  /\ Lines \subseteq Seq(Byte) /\ Texts \subseteq Seq(Byte)
  /\ Arrays \subseteq Seq(Texts \cup {NULL})
  /\ \A s \in Texts : Len(s) < Modulus \div 2
  /\ \A ss \in Arrays : Len(ss) < Modulus \div 2
  /\ Failed \notin Seq(Byte)
  /\ Room \in Nat \ {0} /\ MaxSends \in Nat

\* A line ends with its terminator and not before, also when what is left of the
\* terminator of the line in front of it is read with it.
ASSUME LinesAssumption ==
  \A m \in Lines, i \in 2 .. Len(Term) + 1 :
    LET s == SubSeq(Term, i, Len(Term)) \o m \o Term
    IN  \A k \in 0 .. Len(s) - 1 : ~IsSuffix(Term, SubSeq(s, 1, k))

VARIABLES
  kind,      \* "line", "string" or "array": what both ends agree on
  alive,     \* the sender lives
  out,       \* bytes of a send that are not written yet
  wire,      \* bytes in the socket
  reading,   \* "idle", "line", "count", "length", "text"; "dead" after bad_alloc
  part,      \* what accept has read of the present item
  want,      \* the length of the present text
  left,      \* elements still to be accepted
  items,     \* elements accepted
  too_long,  \* the line does not fit its buffer
  received,  \* what the last accept returned
  sent,      \* history: the messages, the present one included
  position,  \* history: bytes read so far
  start      \* history: and when the present accept began

sendVars == <<alive, out, sent>>
itemVars == <<part, want, left, items, too_long>>
channelVars == <<kind, sendVars, wire, reading, itemVars, received, position, start>>

Least(a, b) == IF a <= b THEN a ELSE b

\* canonize and uncanonize: integers travel most significant byte first.
Canonical(n) ==
  LET Shifted[k \in 0 .. IntBytes] ==
        IF k = 0 THEN n % Modulus ELSE Shifted[k - 1] \div Base
  IN  [i \in 1 .. IntBytes |-> Shifted[IntBytes - i] % Base]
Unsigned(bytes) ==
  LET Value[i \in 0 .. Len(bytes)] ==
        IF i = 0 THEN 0 ELSE Value[i - 1] * Base + bytes[i]
  IN  Value[Len(bytes)]

String(s) == IF s = NULL THEN Canonical(-1) ELSE Canonical(Len(s)) \o s
ArrayOf(ss) ==
  LET First[k \in 0 .. Len(ss)] ==
        IF k = 0 THEN Canonical(Len(ss)) ELSE First[k - 1] \o String(ss[k])
  IN  First[Len(ss)]

Message == [line |-> Lines, string |-> Texts \cup {NULL}, array |-> Arrays]

Bytes(m) ==
  CASE kind = "line" -> m \o Term
    [] kind = "string" -> String(m)
    [] kind = "array" -> ArrayOf(m)

ChannelInit ==
  /\ kind \in {"line", "string", "array"}
  /\ alive = TRUE /\ out = << >> /\ wire = << >> /\ sent = << >>
  /\ reading = "idle" /\ part = << >> /\ want = 0 /\ left = 0 /\ items = << >>
  /\ too_long = FALSE /\ received = Failed /\ position = 0 /\ start = 0

-----------------------------------------------------------------------------
(* The sender                                                              *)

\* send, up to the loop of send_bytes
SendMessage ==
  /\ alive /\ out = << >> /\ Len(sent) < MaxSends
  /\ \E m \in Message[kind] : sent' = Append(sent, m) /\ out' = Bytes(m)
  /\ UNCHANGED <<kind, alive, wire, reading, itemVars, received, position, start>>

\* A round of send_bytes: as much as the socket takes
SendBytes ==
  /\ out # << >> /\ Len(wire) < Room
  /\ \E n \in 1 .. Least(Len(out), Room - Len(wire)) :
       /\ wire' = wire \o SubSeq(out, 1, n)
       /\ out' = SubSeq(out, n + 1, Len(out))
  /\ UNCHANGED <<kind, alive, sent, reading, itemVars, received, position, start>>

\* The sender closes the channel or dies, in the middle of a message perhaps.
Close ==
  /\ alive /\ alive' = FALSE /\ out' = << >>
  /\ UNCHANGED <<kind, sent, wire, reading, itemVars, received, position, start>>

-----------------------------------------------------------------------------
(* The receiver                                                            *)

\* Faulty: a text is waited for as long as it takes.
OnlyLengthsTimeOut ==
  reading \in {"line", "count"} \/ (reading = "length" /\ kind = "string")

\* The reads that have a timeout: those of an array's elements have none.
HasTimeout == reading \in {"line", "count"} \/ kind = "string"

\* Faulty: accept_bytes asks for the whole item again and again.
ChunkAll ==
  CASE reading = "line" -> 1 [] reading = "text" -> want [] OTHER -> IntBytes

\* What read is asked for: what is missing of the item
Chunk ==
  CASE reading = "line" -> 1
    [] reading = "text" -> want - Len(part)
    [] OTHER -> IntBytes - Len(part)

NoItem ==
  part' = << >> /\ want' = 0 /\ left' = 0 /\ items' = << >> /\ too_long' = FALSE

Return(value) ==
  reading' = "idle" /\ received' = value /\ start' = position' /\ NoItem

Accept ==
  /\ reading = "idle"
  /\ reading' = CASE kind = "line" -> "line" [] kind = "array" -> "count"
                  [] OTHER -> "length"
  /\ UNCHANGED <<kind, sendVars, wire, itemVars, received, position, start>>

\* Another byte of a line is stored if there is room, and the end of what is
\* stored compared with the terminator.
AddToLine(c) ==
  LET fits == Len(part) < MaxLine
      buffer == IF fits THEN Append(part, c) ELSE part
  IN  IF IsSuffix(Term, buffer)
      THEN Return(IF too_long \/ ~fits THEN Failed
                  ELSE SubSeq(buffer, 1, Len(buffer) - Len(Term)))
      ELSE /\ part' = buffer /\ too_long' = (too_long \/ ~fits)
           /\ UNCHANGED <<reading, want, left, items, received, start>>

\* A string is complete: it is returned, or the array's next is begun.
Element(s) ==
  IF kind = "string" THEN Return(s)
  ELSE IF left = 1 THEN Return(Append(items, s))
  ELSE /\ items' = Append(items, s) /\ left' = left - 1
       /\ reading' = "length" /\ part' = << >> /\ want' = 0
       /\ UNCHANGED <<too_long, received, start>>

\* new fails for a length that is out of reach, and nobody catches bad_alloc.
Die == reading' = "dead" /\ NoItem /\ UNCHANGED <<received, start>>

HaveLength(n) ==
  \/ n = Modulus - 1 /\ Element(NULL)
  \/ n = 0 /\ Element(<< >>)
  \/ n \in 1 .. Modulus - 2 /\ reading' = "text" /\ part' = << >> /\ want' = n
     /\ UNCHANGED <<left, items, too_long, received, start>>
  \/ n \in Modulus \div 2 .. Modulus - 2 /\ Die

HaveCount(n) ==
  \/ n = 0 /\ Return(<< >>)
  \/ n > 0 /\ reading' = "length" /\ left' = n /\ part' = << >>
     /\ UNCHANGED <<want, items, too_long, received, start>>
  \/ n >= Modulus \div 2 /\ Die

\* A round of accept_bytes that finds something, and what accept does then
Read ==
  /\ reading \notin {"idle", "dead"} /\ wire # << >>
  /\ LET n == Least(Chunk, Len(wire))
         item == part \o SubSeq(wire, 1, n)
     IN  /\ wire' = SubSeq(wire, n + 1, Len(wire))
         /\ position' = position + n
         /\ CASE reading = "line" -> AddToLine(wire[1])
              [] reading = "text" /\ Len(item) >= want ->
                   Element(SubSeq(item, 1, want))
              [] reading = "length" /\ Len(item) = IntBytes ->
                   HaveLength(Unsigned(item))
              [] reading = "count" /\ Len(item) = IntBytes ->
                   HaveCount(Unsigned(item))
              [] OTHER -> /\ part' = item
                          /\ UNCHANGED <<reading, want, left, items, too_long>>
                          /\ UNCHANGED <<received, start>>
  /\ UNCHANGED <<kind, sendVars>>

\* message_ready says no, after the timeout or because a signal came in.
TimeOut ==
  /\ reading \notin {"idle", "dead"} /\ wire = << >> /\ alive /\ HasTimeout
  /\ UNCHANGED <<kind, sendVars, wire, position>>
  /\ Return(Failed)

\* read returns 0.
EndOfFile ==
  /\ reading \notin {"idle", "dead"} /\ wire = << >> /\ ~alive
  /\ UNCHANGED <<kind, sendVars, wire, position>>
  /\ Return(Failed)

ChannelNext ==
  SendMessage \/ SendBytes \/ Close \/ Accept \/ Read \/ TimeOut \/ EndOfFile

\* The two processes are scheduled, and a timeout expires; nobody has to send.
ChannelFairness ==
  /\ WF_channelVars(SendBytes) /\ WF_channelVars(Read)
  /\ WF_channelVars(TimeOut \/ EndOfFile)

ChannelSpec == ChannelInit /\ [][ChannelNext]_channelVars /\ ChannelFairness

-----------------------------------------------------------------------------
(* What a mailbox would show of it: where each message begins, which of    *)
(* them had not been touched when the present accept began, and whether it *)
(* began between two of them.                                              *)

Begin(i) ==
  LET Before[k \in 0 .. Len(sent)] ==
        IF k = 0 THEN 0 ELSE Before[k - 1] + Len(Bytes(sent[k]))
  IN  Before[i - 1]
Touched == {i \in DOMAIN sent : Begin(i) < start}

Promise == INSTANCE Mailbox
  WITH Longest <- MaxLine - Len(Term),
       byLine <- kind = "line",
       box <- SubSeq(sent, 1 + Cardinality(Touched), Len(sent)),
       whole <- \E i \in 1 .. Len(sent) + 1 : Begin(i) = start

\* The loops of send_bytes and accept_bytes, the lengths and the terminators
\* keep the promise of a mailbox: however the socket cuts the bytes and wherever
\* a timeout or the sender's end falls, messages come out in order and whole, and
\* what a failed accept has spoilt ends with a line.
ImplementsMailbox == Promise!MSpec

\* An accept waits for an element of an array that its sender does not go on with.
Stalled ==
  /\ kind = "array" /\ reading \in {"length", "text"}
  /\ alive /\ wire = << >> /\ out = << >>

\* A line is too long for its buffer, whose end no longer changes: the terminator
\* is not seen any more, and only silence or the sender's end stops the accept.
Full == reading = "line" /\ Len(part) = MaxLine

Silent == out = << >> /\ wire = << >>

\* Every accept returns, by the timeouts it hands down to accept_bytes, with two
\* exceptions: one of an array does not hand them down to its elements, and one
\* that has met too long a line goes on for as long as its sender keeps sending.
\* The latter returns once nothing more is sent.
AcceptEnds ==
  /\ reading # "idle" ~> reading \in {"idle", "dead"} \/ Stalled \/ Full
  /\ <>[]Silent => (Full ~> reading = "idle")
=============================================================================
