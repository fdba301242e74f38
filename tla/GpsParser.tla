------------------------------ MODULE GpsParser ------------------------------
(***************************************************************************)
(* The GPS messages in the image: processImageGPSData of DisplayTab, which *)
(* the data thread calls once per frame.                                   *)
(*                                                                         *)
(* The camera puts the words that came from the GPS since the last frame   *)
(* into the next one, wherever a message may be cut by that, or marks the  *)
(* frame as having none.  The parser keeps its place between frames.  Of   *)
(* the messages it wants two: 3500 with the navigation mode, which sets    *)
(* two indicators, and 3501 with the position, which goes to the plots.    *)
(*                                                                         *)
(* A step is one turn of the loop over the words of a frame, or the rest   *)
(* of the call.  All the state belongs to the data thread.                 *)
(***************************************************************************)
EXTENDS Integers, Sequences

CONSTANTS
  Streams,    \* what the GPS sends: the words of a behaviour
  Size3500,   \* GPS_MSG_3500_WORDS (22)
  Size3501,   \* GPS_MSG_3501_WORDS (28)
  MaxWords,   \* GPS_MSG_MAX_WORDS (123), the length of lastGPSMsg
  FrameWords, \* the most words in a frame (21)
  ModeWord,   \* where in 3500 the navigation mode is (9)
  ValidWord,  \* where in 3500 the word with the valid bit is (10)
  Skip,       \* positions left out for each one plotted
  Patience    \* frames without words until the indicator is red

GPS_MAGIC_NUMBER == 33279
Types == {3500, 3501}
Size(type) == IF type = 3500 THEN Size3500 ELSE Size3501

Word == 0 .. 65535

ASSUME StreamsAssumption == \A s \in Streams : s \in Seq(Word)
ASSUME SizesAssumption ==
  /\ Size3500 \in 7 .. MaxWords /\ Size3501 \in 7 .. MaxWords
  /\ MaxWords \in Nat /\ MaxWords < GPS_MAGIC_NUMBER
ASSUME FrameWordsAssumption == FrameWords \in 1 .. 3499
ASSUME FieldsAssumption ==
  ModeWord \in 5 .. Size3500 - 1 /\ ValidWord \in 5 .. Size3500 - 1
ASSUME CountsAssumption == Skip \in Nat /\ Patience \in Nat

VARIABLES
  stream,   \* the words of this behaviour
  pos,      \* how many of them have been parsed
  left,     \* words left in this frame
  prev,     \* *(usp-1)
  state,    \* gpsMsgParseState
  buffered, \* gpsMsgWordsBuffered
  msg,      \* lastGPSMsg
  skip,     \* gps3501skip
  failures, \* gpsCommFailures
  comm, airNav, valid,  \* the three indicators' colors
  log,      \* history: the messages that were processed, word by word
  split     \* history: a frame ended between a type and its length

colorVars  == <<comm, airNav, valid>>
frameVars  == <<stream, pos, left, prev>>
parserVars == <<state, buffered, msg>>
resultVars == <<skip, log>>
vars == <<frameVars, parserVars, failures, colorVars, resultVars, split>>

Init ==
  /\ stream \in Streams
  /\ pos = 0 /\ left = 0 /\ prev = 0
  /\ state = 0 /\ buffered = 0 /\ msg = [i \in 0 .. MaxWords - 1 |-> 0]
  /\ skip = 0 /\ failures = 0
  /\ comm = "YELLOW" /\ airNav = "YELLOW" /\ valid = "YELLOW"
  /\ log = << >> /\ split = FALSE

-----------------------------------------------------------------------------
(* Frames                                                                  *)

\* A frame with n words
Frame(n) ==
  /\ left = 0 /\ pos + n <= Len(stream)
  /\ left' = n
  /\ prev' = n
  /\ failures' = 0
  /\ comm' = "GREEN"
  /\ split' = (split \/ state = 2)
  /\ UNCHANGED <<stream, pos, parserVars, airNav, valid, resultVars>>

\* The count stops at Patience + 1: more failures make no difference.
OneMoreFailure == failures' = IF failures <= Patience THEN failures + 1 ELSE failures

\* Faulty: the indicators that depend on the GPS are left as they are.
FrameWithoutWordsKeeps ==
  /\ left = 0
  /\ OneMoreFailure
  /\ comm' = IF failures' > Patience THEN "RED" ELSE comm
  /\ UNCHANGED <<frameVars, parserVars, airNav, valid, resultVars, split>>

\* The frame is marked 0xDEAD.
FrameWithoutWords ==
  /\ left = 0
  /\ OneMoreFailure
  /\ IF failures' > Patience
       THEN comm' = "RED" /\ airNav' = "YELLOW" /\ valid' = "YELLOW"
       ELSE UNCHANGED colorVars
  /\ UNCHANGED <<frameVars, parserVars, resultVars, split>>

\* No frames come for a while (lookForImageData).
NoFrames ==
  /\ left = 0
  /\ comm' = "YELLOW" /\ airNav' = "YELLOW" /\ valid' = "YELLOW"
  /\ UNCHANGED <<frameVars, parserVars, failures, resultVars, split>>

-----------------------------------------------------------------------------
(* The words of a frame, by parse state                                    *)

word == stream[pos + 1]

NextWord ==
  /\ left > 0
  /\ pos' = pos + 1 /\ left' = left - 1 /\ prev' = word
  /\ UNCHANGED <<stream, failures, comm, split>>

Searching ==
  NextWord /\ UNCHANGED <<airNav, valid, resultVars>>

\* Buffer the word and go on.
Accept(next) ==
  /\ msg' = [msg EXCEPT ![buffered] = word]
  /\ buffered' = buffered + 1
  /\ state' = next

\* Faulty: what does not fit is dropped, although it may begin a message.
RefuseAll ==
  state' = 0 /\ UNCHANGED <<buffered, msg>>

\* This is no message, but the word may begin one.
Refuse ==
  /\ state' = IF word = GPS_MAGIC_NUMBER THEN 1 ELSE 0
  /\ buffered' = IF word = GPS_MAGIC_NUMBER THEN 1 ELSE buffered
  /\ UNCHANGED msg

FindMagic ==
  /\ state = 0 /\ Searching
  /\ IF word = GPS_MAGIC_NUMBER
       THEN state' = 1 /\ buffered' = 1 /\ msg' = [msg EXCEPT ![0] = word]
       ELSE UNCHANGED parserVars

FindType ==
  /\ state = 1 /\ Searching
  /\ IF word \in Types THEN Accept(2) ELSE Refuse

\* Faulty: the length of either message will do.
LengthOfAny == word \in {Size3500 - 6, Size3501 - 6}

\* The type is taken from the frame, not from the buffer.
LengthFits == prev \in Types /\ word = Size(prev) - 6

FindLength ==
  /\ state = 2 /\ Searching
  /\ IF word # GPS_MAGIC_NUMBER /\ LengthFits THEN Accept(3) ELSE Refuse

FindFlags ==
  /\ state = 3 /\ Searching
  /\ IF word # GPS_MAGIC_NUMBER THEN Accept(4) ELSE Refuse

FindChecksum ==
  state = 4 /\ Searching /\ Accept(5)

\* The two's complement, in 16 bits, of the sum of the header's first four words
Checksum(a, b, c, d) == (-(a + b + c + d)) % 65536

\* The checksum is looked at one word late: it may have been the magic number,
\* and the word after it the type.
ValidateChecksum ==
  /\ state = 5 /\ Searching
  /\ \/ msg[4] = Checksum(msg[0], msg[1], msg[2], msg[3]) /\ Accept(6)
     \/ /\ msg[4] # Checksum(msg[0], msg[1], msg[2], msg[3])
        /\ IF msg[4] = GPS_MAGIC_NUMBER /\ word \in Types
             THEN state' = 2 /\ buffered' = 2 /\ msg' = [msg EXCEPT ![1] = word]
             ELSE Refuse

\* With this word the message is complete.
Complete == buffered + 1 = Size(msg[1])

MoreData ==
  /\ state = 6 /\ ~Complete /\ Searching
  /\ Accept(6)

\* What becomes of a complete message
Processed == log' = Append(log, [i \in 1 .. buffered' |-> msg'[i - 1]])

ModeColor(mode) ==
  CASE mode \in {4, 5} -> "YELLOW" \* GPS_MODE_FINE_ALIGNMENT, AIR_ALIGNMENT
    [] mode = 7 -> "GREEN"         \* GPS_MODE_AIR_NAVIGATION
    [] OTHER -> "RED"

Finish3500 ==
  /\ state = 6 /\ Complete /\ msg[1] = 3500 /\ NextWord
  /\ Accept(0) /\ Processed
  /\ airNav' = ModeColor(msg'[ModeWord])
  /\ valid' = IF msg'[ValidWord] % 2 = 1 THEN "GREEN" ELSE "RED"
  /\ UNCHANGED skip

\* add3501 is called.
PlotNow == skip <= 0

Finish3501 ==
  /\ state = 6 /\ Complete /\ msg[1] = 3501 /\ NextWord
  /\ Accept(0) /\ Processed
  /\ skip' = IF PlotNow THEN Skip ELSE skip - 1
  /\ UNCHANGED <<airNav, valid>>

-----------------------------------------------------------------------------
processImageGPSData ==
  \/ \E n \in 0 .. FrameWords : Frame(n)
  \/ FrameWithoutWords
  \/ FindMagic \/ FindType \/ FindLength \/ FindFlags \/ FindChecksum
  \/ ValidateChecksum \/ MoreData \/ Finish3500 \/ Finish3501

Next == processImageGPSData \/ NoFrames

Spec == Init /\ [][Next]_vars

-----------------------------------------------------------------------------
(* Properties                                                              *)

Colors == {"RED", "YELLOW", "GREEN"}

\* Every variable has the type its declaration gives it, and no word is written
\* outside lastGPSMsg.
TypeOK ==
  /\ stream \in Streams /\ pos \in Nat /\ left \in 0 .. FrameWords
  /\ pos + left <= Len(stream)
  /\ (prev \in Word \/ prev \in 0 .. FrameWords)
  /\ state \in 0 .. 6 /\ buffered \in 0 .. MaxWords
  /\ msg \in [0 .. MaxWords - 1 -> Word]
  /\ skip \in 0 .. Skip /\ failures \in 0 .. Patience + 1
  /\ comm \in Colors /\ airNav \in Colors /\ valid \in Colors
  /\ log \in Seq(Seq(Word)) /\ split \in BOOLEAN

\* The header of a message, complete with its checksum
GoodHeader(m) ==
  /\ m[1] = GPS_MAGIC_NUMBER /\ m[2] \in Types
  /\ m[3] = Size(m[2]) - 6 /\ m[4] # GPS_MAGIC_NUMBER
  /\ m[5] = Checksum(m[1], m[2], m[3], m[4])

\* Whatever the GPS sends and however the frames cut it, what is processed has a
\* message's header and its length: the parser, wherever it started over, never
\* puts a message together from pieces of headers.
NothingMadeUp ==
  \A i \in DOMAIN log : GoodHeader(log[i]) /\ Len(log[i]) = Size(log[i][2])

\* Why: what is buffered is a header's beginning as far as the parse state says.
\* That the length belongs to the type in the buffer, although it is compared with
\* the word before it in the frame, holds because no word count is a type.
ParserInv ==
  /\ TypeOK /\ NothingMadeUp
  /\ state \in 1 .. 5 => buffered = state
  /\ state = 6 => buffered \in 6 .. Size(msg[1]) - 1
  /\ state >= 1 => msg[0] = GPS_MAGIC_NUMBER
  /\ state >= 2 => msg[1] \in Types
  /\ state = 2 => prev = msg[1] \/ prev \notin Types
  /\ state >= 3 => msg[2] = Size(msg[1]) - 6
  /\ state >= 4 => msg[3] # GPS_MAGIC_NUMBER
  /\ state = 6 => msg[4] = Checksum(msg[0], msg[1], msg[2], msg[3])

Begins(s, p) == p + 4 <= Len(s) /\ GoodHeader(SubSeq(s, p, p + 4))
EndOf(s, p) == p + Size(s[p + 1]) - 1

\* The messages in s from each of its places on, left to right: one begins wherever
\* a header does that is not inside the one before.
MessagesFrom(s) ==
  LET From[p \in 1 .. Len(s) + 1] ==
        IF p > Len(s) THEN << >>
        ELSE IF ~Begins(s, p) THEN From[p + 1]
        ELSE IF EndOf(s, p) > Len(s) THEN << >>
        ELSE <<SubSeq(s, p, EndOf(s, p))>> \o From[EndOf(s, p) + 1]
  IN  From

Messages(s) == MessagesFrom(s)[1]

\* Exactly the messages the GPS sent are processed, behind whatever false starts,
\* magic numbers among the data included, as long as no frame ended between a
\* type and its length.
MessagesFound == ~split => log = Messages(SubSeq(stream, 1, pos))

Statuses == {i \in DOMAIN log : log[i][2] = 3500}

\* A green indicator for air navigation is the last word of the GPS on it, and
\* the GPS has not fallen silent since.
AirNavTrue ==
  airNav = "GREEN" =>
    /\ failures <= Patience
    /\ \E i \in Statuses :
         /\ \A j \in Statuses : j <= i
         /\ log[i][ModeWord + 1] = 7
=============================================================================
