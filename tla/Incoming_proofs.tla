--------------------------- MODULE Incoming_proofs ---------------------------
(***************************************************************************)
(* Proofs about what comes in from outside and has to be told apart: the    *)
(* words of the GPS (GpsParser) and the replies of the FTP server (Ftp).    *)
(* The two components share nothing but the lemma on natural numbers.       *)
(*                                                                         *)
(* GpsParser: nothing is written outside lastGPSMsg, no message is made up  *)
(* and none is missed, and the Air/Nav indicator is true, for all streams,  *)
(* message sizes and frame lengths.                                        *)
(*                                                                         *)
(* Ftp: no handler uses a connection or a row that is not there, and what   *)
(* is logged is so, for all numbers of files, connections, clicks, faults   *)
(* and late replies.                                                       *)
(***************************************************************************)
EXTENDS GpsParser, Ftp, SequenceTheorems, WellFoundedInduction, TLAPS

(* A nonempty set of naturals has a least element.                          *)
LEMMA LeastNatural ==
  ASSUME NEW some, some \subseteq Nat, some # {}
  PROVE  \E x \in some : \A y \in some : x <= y
<1>1. PICK x \in some : \A y \in some : ~ (<<y, x>> \in OpToRel(<, Nat))
  BY NatLessThanWellFounded, WFMin
<1>2. ASSUME NEW y \in some PROVE x <= y
  <2>1. <<y, x>> \in Nat \X Nat
    OBVIOUS
  <2>2. ~ (y < x)
    BY <1>1, <2>1 DEF OpToRel
  <2> QED BY <2>2
<1> QED BY <1>2

-----------------------------------------------------------------------------
(* GpsParser: ParserInv                                                    *)

(* ParserInv by who changes it: the frames, the parser, the rest.           *)
FrameOK ==
  /\ stream \in Streams /\ pos \in Nat /\ left \in 0 .. FrameWords
  /\ pos + left <= Len(stream)
  /\ (prev \in Word \/ prev \in 0 .. FrameWords)

BufferOK ==
  /\ state \in 0 .. 6 /\ buffered \in 0 .. MaxWords
  /\ msg \in [0 .. MaxWords - 1 -> Word]

RestOK ==
  /\ skip \in 0 .. Skip /\ failures \in 0 .. Patience + 1
  /\ comm \in Colors /\ airNav \in Colors /\ valid \in Colors
  /\ split \in BOOLEAN

LogOK == log \in Seq(Seq(Word)) /\ NothingMadeUp

HeaderOK ==
  /\ state \in 1 .. 5 => buffered = state
  /\ state = 6 => buffered \in 6 .. Size(msg[1]) - 1
  /\ state >= 1 => msg[0] = GPS_MAGIC_NUMBER
  /\ state >= 2 => msg[1] \in Types
  /\ state = 2 => prev = msg[1] \/ prev \notin Types
  /\ state >= 3 => msg[2] = Size(msg[1]) - 6
  /\ state >= 4 => msg[3] # GPS_MAGIC_NUMBER
  /\ state = 6 => msg[4] = Checksum(msg[0], msg[1], msg[2], msg[3])

LEMMA Parts == ParserInv <=> FrameOK /\ BufferOK /\ RestOK /\ LogOK /\ HeaderOK
  BY DEF ParserInv, TypeOK, FrameOK, BufferOK, RestOK, LogOK, HeaderOK

LEMMA PartsNext ==
  FrameOK' /\ BufferOK' /\ RestOK' /\ LogOK' /\ HeaderOK' => ParserInv'
  BY DEF ParserInv, TypeOK, FrameOK, BufferOK, RestOK, LogOK, HeaderOK

LEMMA Sizes ==
  /\ MaxWords \in Nat /\ MaxWords >= 7
  /\ \A type : Size(type) \in 7 .. MaxWords
  BY SizesAssumption DEF Size

LEMMA StreamWords ==
  ASSUME FrameOK
  PROVE  /\ stream \in Seq(Word) /\ Len(stream) \in Nat
         /\ \A i \in 1 .. Len(stream) : stream[i] \in Word
  BY StreamsAssumption DEF FrameOK

LEMMA InitInv == Init => ParserInv
<1> SUFFICES ASSUME Init PROVE ParserInv
  OBVIOUS
<1>1. FrameOK
  <2>1. Len(stream) \in Nat
    BY StreamsAssumption DEF Init
  <2> QED BY <2>1, FrameWordsAssumption DEF Init, FrameOK
<1>2. BufferOK
  BY Sizes DEF Init, BufferOK, Word
<1>3. RestOK
  <2>1. split \in BOOLEAN
    BY DEF Init
  <2>2. /\ skip \in 0 .. Skip /\ failures \in 0 .. Patience + 1
        /\ comm \in Colors /\ airNav \in Colors /\ valid \in Colors
    BY CountsAssumption DEF Init, Colors
  <2> QED BY <2>1, <2>2 DEF RestOK
<1>4. LogOK
  BY DEF Init, LogOK, NothingMadeUp
<1>5. HeaderOK
  BY DEF Init, HeaderOK
<1> QED BY <1>1, <1>2, <1>3, <1>4, <1>5, Parts

(* A frame, with or without words, leaves the parser where it is; the word  *)
(* count that becomes *(usp-1) is no type.                                  *)
LEMMA FrameInv ==
  ASSUME ParserInv, NEW n \in 0 .. FrameWords, Frame(n)
  PROVE  ParserInv'
<1> USE DEF Frame, parserVars, resultVars
<1>0. FrameOK /\ BufferOK /\ RestOK /\ LogOK /\ HeaderOK
  BY Parts
<1>1. FrameOK'
  <2>1. n \in Nat /\ n <= 3499 /\ pos + n <= Len(stream)
    BY FrameWordsAssumption
  <2>2. stream' = stream /\ pos' = pos /\ left' = n /\ prev' = n
    OBVIOUS
  <2>3. stream' \in Streams /\ pos' \in Nat /\ left' \in 0 .. FrameWords
    BY <1>0, <2>2 DEF FrameOK
  <2>4. pos' + left' <= Len(stream')
    BY <2>1, <2>2
  <2>5. prev' \in 0 .. FrameWords
    BY <2>2
  <2> QED BY <2>3, <2>4, <2>5 DEF FrameOK
<1>2. BufferOK' /\ LogOK'
  BY <1>0 DEF BufferOK, LogOK, NothingMadeUp
<1>3. RestOK'
  <2>1. split' \in BOOLEAN
    OBVIOUS
  <2> QED BY <1>0, <2>1, CountsAssumption DEF RestOK, Colors
<1>4. HeaderOK'
  BY <1>0, FrameWordsAssumption DEF HeaderOK, Types
<1> QED BY <1>1, <1>2, <1>3, <1>4, PartsNext

LEMMA NoWordsInv ==
  ASSUME ParserInv, FrameWithoutWords \/ NoFrames PROVE ParserInv'
<1> USE DEF FrameWithoutWords, OneMoreFailure, NoFrames, frameVars, parserVars, resultVars, colorVars
<1>0. FrameOK /\ BufferOK /\ RestOK /\ LogOK /\ HeaderOK
  BY Parts
<1>1. FrameOK'
  BY <1>0 DEF FrameOK
<1>2. BufferOK' /\ LogOK'
  BY <1>0 DEF BufferOK, LogOK, NothingMadeUp
<1>3. RestOK'
  BY <1>0, CountsAssumption DEF RestOK, Colors
<1>4. HeaderOK'
  BY <1>0 DEF HeaderOK
<1> QED BY <1>1, <1>2, <1>3, <1>4, PartsNext

(* The next word is a word, and the frame has one less.                     *)
LEMMA NextWordFrame ==
  ASSUME FrameOK, NextWord PROVE FrameOK' /\ word \in Word /\ prev' = word
<1>1. left \in Nat /\ left > 0 /\ pos + 1 \in 1 .. Len(stream)
  BY StreamWords, FrameWordsAssumption DEF FrameOK, NextWord
<1>2. word \in Word
  BY <1>1, StreamWords DEF word
<1> QED
  BY <1>1, <1>2, StreamWords, FrameWordsAssumption DEF FrameOK, NextWord

(* A word that ends no message changes the parser only.                     *)
LEMMA SearchingInv ==
  ASSUME ParserInv, Searching, word \in Word => BufferOK' /\ HeaderOK'
  PROVE  ParserInv'
<1>0. FrameOK /\ RestOK /\ LogOK /\ NextWord
  BY Parts DEF Searching
<1>1. FrameOK' /\ BufferOK' /\ HeaderOK'
  BY <1>0, NextWordFrame
<1>2. RestOK' /\ LogOK'
  BY <1>0 DEF RestOK, LogOK, NothingMadeUp, Searching, NextWord, resultVars
<1> QED BY <1>1, <1>2, PartsNext

LEMMA AcceptBuffer ==
  ASSUME BufferOK, word \in Word, NEW next \in 0 .. 6, Accept(next),
         buffered < MaxWords
  PROVE  /\ BufferOK' /\ state' = next /\ buffered' = buffered + 1
         /\ msg'[buffered] = word
         /\ \A i \in 0 .. MaxWords - 1 : i # buffered => msg'[i] = msg[i]
  BY Sizes DEF BufferOK, Accept

LEMMA RefuseInv ==
  ASSUME BufferOK, HeaderOK, state \in 1 .. 5, Refuse
  PROVE  BufferOK' /\ HeaderOK'
  BY Sizes DEF BufferOK, HeaderOK, Refuse

LEMMA WordInv ==
  ASSUME ParserInv, Searching, word \in Word, prev' = word,
         FindMagic \/ FindType \/ FindLength \/ FindFlags \/ FindChecksum
         \/ ValidateChecksum \/ MoreData
  PROVE  BufferOK' /\ HeaderOK'
<1>0. BufferOK /\ HeaderOK
  BY Parts
<1>1. CASE FindMagic
  BY <1>0, <1>1, Sizes DEF FindMagic, BufferOK, HeaderOK, parserVars
<1>2. CASE FindType
  <2>1. CASE Accept(2) /\ word \in Types
    BY <1>0, <1>2, <2>1, AcceptBuffer, Sizes DEF FindType, HeaderOK
  <2> QED BY <1>0, <1>2, <2>1, RefuseInv DEF FindType
<1>3. CASE FindLength
  <2>1. CASE Accept(3) /\ LengthFits
    BY <1>0, <1>3, <2>1, AcceptBuffer, Sizes DEF FindLength, HeaderOK, LengthFits
  <2> QED BY <1>0, <1>3, <2>1, RefuseInv DEF FindLength
<1>4. CASE FindFlags
  <2>1. CASE Accept(4) /\ word # GPS_MAGIC_NUMBER
    BY <1>0, <1>4, <2>1, AcceptBuffer, Sizes DEF FindFlags, HeaderOK
  <2> QED BY <1>0, <1>4, <2>1, RefuseInv DEF FindFlags
<1>5. CASE FindChecksum
  BY <1>0, <1>5, AcceptBuffer, Sizes DEF FindChecksum, HeaderOK
<1>6. CASE ValidateChecksum
  <2>1. CASE msg[4] = Checksum(msg[0], msg[1], msg[2], msg[3]) /\ Accept(6)
    BY <1>0, <1>6, <2>1, AcceptBuffer, Sizes DEF ValidateChecksum, HeaderOK
  <2>2. CASE word \in Types /\ state' = 2 /\ buffered' = 2
             /\ msg' = [msg EXCEPT ![1] = word]
    BY <1>0, <1>6, <2>2, Sizes DEF ValidateChecksum, BufferOK, HeaderOK
  <2> QED BY <1>0, <1>6, <2>1, <2>2, RefuseInv DEF ValidateChecksum
<1>7. CASE MoreData
  BY <1>0, <1>7, AcceptBuffer, Sizes DEF MoreData, Complete, HeaderOK
<1> QED BY <1>1, <1>2, <1>3, <1>4, <1>5, <1>6, <1>7

(* A complete message has the header the parser has checked and the length its *)
(* type asks for.                                                          *)
LEMMA ProcessedInv ==
  ASSUME ParserInv, word \in Word, state = 6, Complete, Accept(0), Processed
  PROVE  BufferOK' /\ HeaderOK' /\ LogOK'
<1>0. BufferOK /\ HeaderOK /\ LogOK
  BY Parts
<1> DEFINE n == Size(msg[1])
           m == [i \in 1 .. n |-> msg'[i - 1]]
<1>1. n \in 7 .. MaxWords /\ buffered' = n /\ buffered = n - 1
  BY <1>0, Sizes DEF Complete, Accept, BufferOK
<1>2. /\ BufferOK' /\ state' = 0
      /\ \A i \in 0 .. 4 : msg'[i] = msg[i]
  BY <1>0, <1>1, AcceptBuffer, Sizes
<1>3. m \in Seq(Word) /\ Len(m) = n
  BY <1>1, <1>2, Sizes DEF BufferOK
<1>4. GoodHeader(m) /\ Len(m) = Size(m[2])
  <2>1. m[1] = msg[0] /\ m[2] = msg[1] /\ m[3] = msg[2] /\ m[4] = msg[3]
        /\ m[5] = msg[4]
    BY <1>1, <1>2, Sizes
  <2>2. /\ msg[0] = GPS_MAGIC_NUMBER /\ msg[1] \in Types
        /\ msg[2] = Size(msg[1]) - 6 /\ msg[3] # GPS_MAGIC_NUMBER
        /\ msg[4] = Checksum(msg[0], msg[1], msg[2], msg[3])
    BY <1>0 DEF HeaderOK
  <2>3. Len(m) = Size(m[2])
    BY <1>3, <2>1
  <2> HIDE DEF m, n
  <2>4. GoodHeader(m)
    BY <2>1, <2>2, Zenon DEF GoodHeader
  <2> QED BY <2>3, <2>4
<1>5. log' = Append(log, m)
  BY <1>1 DEF Processed
<1>6. LogOK'
  <2> HIDE DEF m, n
  <2>1. log \in Seq(Seq(Word)) /\ log' \in Seq(Seq(Word))
    BY <1>0, <1>3, <1>5 DEF LogOK
  <2>2. ASSUME NEW i \in DOMAIN log'
        PROVE  GoodHeader(log'[i]) /\ Len(log'[i]) = Size(log'[i][2])
    <3>1. CASE i \in DOMAIN log
      <4>1. log'[i] = log[i]
        BY <1>3, <1>5, <2>1, <3>1
      <4> QED BY <1>0, <3>1, <4>1 DEF LogOK, NothingMadeUp
    <3>2. CASE i \notin DOMAIN log
      <4>1. log'[i] = m
        BY <1>3, <1>5, <2>1, <2>2, <3>2
      <4> QED BY <1>4, <4>1
    <3> QED BY <3>1, <3>2
  <2> QED BY <2>1, <2>2 DEF LogOK, NothingMadeUp
<1>7. HeaderOK'
  BY <1>2 DEF HeaderOK
<1> QED BY <1>2, <1>6, <1>7

LEMMA FinishInv ==
  ASSUME ParserInv, Finish3500 \/ Finish3501 PROVE ParserInv'
<1>0. FrameOK /\ BufferOK /\ RestOK /\ NextWord
  BY Parts DEF Finish3500, Finish3501
<1>1. FrameOK' /\ word \in Word
  BY <1>0, NextWordFrame
<1>2. BufferOK' /\ HeaderOK' /\ LogOK'
  BY <1>1, ProcessedInv DEF Finish3500, Finish3501
<1>3. RestOK'
  <2>1. split' = split /\ comm' = comm /\ failures' = failures
    BY <1>0 DEF NextWord
  <2>2. CASE Finish3500
    BY <1>0, <2>1, <2>2 DEF Finish3500, RestOK, Colors, ModeColor
  <2>3. CASE Finish3501
    BY <1>0, <2>1, <2>3, CountsAssumption DEF Finish3501, RestOK, PlotNow
  <2> QED BY <2>2, <2>3
<1> QED BY <1>1, <1>2, <1>3, PartsNext

LEMMA NextInv == ParserInv /\ [Next]_vars => ParserInv'
<1> SUFFICES ASSUME ParserInv, [Next]_vars PROVE ParserInv'
  OBVIOUS
<1>1. CASE \E n \in 0 .. FrameWords : Frame(n)
  BY <1>1, FrameInv
<1>2. CASE FrameWithoutWords \/ NoFrames
  BY <1>2, NoWordsInv
<1>3. CASE FindMagic \/ FindType \/ FindLength \/ FindFlags \/ FindChecksum
           \/ ValidateChecksum \/ MoreData
  <2>1. Searching /\ FrameOK /\ NextWord
    BY <1>3, Parts DEF FindMagic, FindType, FindLength, FindFlags, FindChecksum,
                       ValidateChecksum, MoreData, Searching
  <2> QED BY <1>3, <2>1, NextWordFrame, WordInv, SearchingInv
<1>4. CASE Finish3500 \/ Finish3501
  BY <1>4, FinishInv
<1>5. CASE UNCHANGED vars
  <2>1. FrameOK /\ BufferOK /\ RestOK /\ LogOK /\ HeaderOK
    BY Parts
  <2>2. FrameOK' /\ BufferOK' /\ RestOK' /\ LogOK' /\ HeaderOK'
    BY <1>5, <2>1 DEF FrameOK, BufferOK, RestOK, LogOK, NothingMadeUp, HeaderOK,
       vars, frameVars, parserVars, colorVars, resultVars
  <2> QED BY <2>2, PartsNext
<1> QED
  BY <1>1, <1>2, <1>3, <1>4, <1>5 DEF Next, processImageGPSData

(* The invariant holds at all times, whatever the GPS sends.                *)
THEOREM ParserInvariant == Spec => []ParserInv
  BY InitInv, NextInv, PTL DEF Spec

(* Types are kept; with them, that gpsMsgWordsBuffered never leaves         *)
(* lastGPSMsg (displayTab.cpp:2626).                                        *)
THEOREM TypeCorrect == Spec => []TypeOK
<1>1. ParserInv => TypeOK
  BY DEF ParserInv
<1> QED BY <1>1, ParserInvariant, PTL

(* Every message that is processed has a checked header of its own type and *)
(* length, also where frames cut the stream.                                *)
THEOREM NoMessageMadeUp == Spec => []NothingMadeUp
<1>1. ParserInv => NothingMadeUp
  BY DEF ParserInv
<1> QED BY <1>1, ParserInvariant, PTL

-----------------------------------------------------------------------------
(* The indicator for air navigation                                        *)

(* While words of a frame are left, no failure has been counted since it.   *)
Heard == left > 0 => failures = 0

AirNavInv == ParserInv /\ Heard /\ AirNavTrue

(* What the log says of the mode is the same when it and the color are.     *)
LEMMA ModeKept ==
  ASSUME AirNavTrue, failures' = failures, airNav' = airNav, log' = log
  PROVE  AirNavTrue'
<1>1. Statuses' = Statuses
  BY DEF Statuses
<1> QED BY <1>1 DEF AirNavTrue

LEMMA WordHeard ==
  NextWord /\ FrameOK /\ Heard => Heard' /\ failures' = failures /\ failures = 0
<1> SUFFICES ASSUME NextWord, FrameOK, Heard
             PROVE  Heard' /\ failures' = failures /\ failures = 0
  OBVIOUS
<1> QED BY DEF NextWord, Heard

(* The message that a step processes is the last of the log, word by word.  *)
LEMMA ProcessedLast ==
  ASSUME ParserInv, word \in Word, state = 6, Complete, Accept(0), Processed
  PROVE  /\ DOMAIN log' = 1 .. Len(log) + 1 /\ Len(log) \in Nat
         /\ \A i \in 1 .. Len(log) : log'[i] = log[i]
         /\ log'[Len(log) + 1][2] = msg[1]
         /\ \A i \in 5 .. Size(msg[1]) - 1 : log'[Len(log) + 1][i + 1] = msg'[i]
<1>0. BufferOK /\ HeaderOK /\ LogOK
  BY Parts
<1> DEFINE n == Size(msg[1])
           m == [i \in 1 .. n |-> msg'[i - 1]]
<1>1. n \in 7 .. MaxWords /\ buffered' = n /\ buffered = n - 1
  BY <1>0, Sizes DEF Complete, Accept, BufferOK
<1>2. BufferOK' /\ msg'[1] = msg[1]
  BY <1>0, <1>1, AcceptBuffer, Sizes
<1>3. m \in Seq(Word)
  BY <1>1, <1>2, Sizes DEF BufferOK
<1>4. m[2] = msg[1] /\ \A i \in 5 .. n - 1 : m[i + 1] = msg'[i]
  BY <1>1, <1>2
<1>5. log' = Append(log, m) /\ log \in Seq(Seq(Word))
  BY <1>0, <1>1 DEF Processed, LogOK
<1> HIDE DEF m
<1>6. /\ DOMAIN log' = 1 .. Len(log) + 1 /\ Len(log) \in Nat
      /\ \A i \in 1 .. Len(log) : log'[i] = log[i]
      /\ log'[Len(log) + 1] = m
  BY <1>3, <1>5
<1> QED BY <1>4, <1>6

LEMMA AirNavFinish ==
  ASSUME AirNavInv, Finish3500 \/ Finish3501 PROVE AirNavTrue'
<1>0. /\ ParserInv /\ FrameOK /\ NextWord /\ Heard /\ AirNavTrue /\ LogOK
  BY Parts DEF AirNavInv, Finish3500, Finish3501
<1>1. failures' = failures /\ failures = 0 /\ 0 <= Patience
  BY <1>0, WordHeard, CountsAssumption
<1>2. word \in Word
  BY <1>0, NextWordFrame
<1>3. state = 6 /\ Complete /\ Accept(0) /\ Processed
  BY DEF Finish3500, Finish3501
<1> DEFINE last == Len(log) + 1
<1>4. /\ DOMAIN log' = 1 .. last /\ Len(log) \in Nat
      /\ \A i \in 1 .. Len(log) : log'[i] = log[i]
      /\ log'[last][2] = msg[1]
      /\ \A i \in 5 .. Size(msg[1]) - 1 : log'[last][i + 1] = msg'[i]
  BY <1>0, <1>2, <1>3, ProcessedLast
<1>5. DOMAIN log = 1 .. Len(log)
  BY <1>0 DEF LogOK
<1>6. CASE Finish3500
  <2> SUFFICES ASSUME airNav' = "GREEN" PROVE AirNavTrue'
    BY DEF AirNavTrue
  <2>1. msg[1] = 3500 /\ msg'[ModeWord] = 7
    BY <1>6 DEF Finish3500, ModeColor
  <2>2. ModeWord \in 5 .. Size(3500) - 1
    BY FieldsAssumption DEF Size
  <2>3. log'[last][2] = 3500 /\ log'[last][ModeWord + 1] = 7 /\ last \in DOMAIN log'
    BY <1>4, <2>1, <2>2
  <2>4. last \in Statuses' /\ \A j \in Statuses' : j <= last
    BY <1>4, <2>3 DEF Statuses
  <2> QED BY <1>1, <2>3, <2>4 DEF AirNavTrue
<1>7. CASE Finish3501
  <2>1. msg[1] = 3501 /\ airNav' = airNav
    BY <1>7 DEF Finish3501
  <2>2. Statuses' = Statuses
    BY <1>4, <1>5, <2>1 DEF Statuses
  <2>3. \A i \in Statuses : log'[i] = log[i]
    BY <1>4, <1>5 DEF Statuses
  <2> QED BY <1>0, <1>1, <2>1, <2>2, <2>3 DEF AirNavTrue
<1> QED BY <1>6, <1>7

LEMMA AirNavNext == AirNavInv /\ [Next]_vars => AirNavInv'
<1> SUFFICES ASSUME AirNavInv, [Next]_vars PROVE Heard' /\ AirNavTrue'
  BY NextInv DEF AirNavInv
<1>0. ParserInv /\ Heard /\ AirNavTrue /\ FrameOK /\ RestOK
  BY Parts DEF AirNavInv
<1>1. CASE \E n \in 0 .. FrameWords : Frame(n)
  <2>1. failures' = 0 /\ airNav' = airNav /\ log' = log
    BY <1>1 DEF Frame, resultVars
  <2>2. Statuses' = Statuses
    BY <2>1 DEF Statuses
  <2> QED BY <1>0, <2>1, <2>2, CountsAssumption DEF Heard, AirNavTrue
<1>2. CASE FrameWithoutWords
  <2>1. /\ left' = 0 /\ log' = log
        /\ failures' = IF failures <= Patience THEN failures + 1 ELSE failures
    BY <1>2 DEF FrameWithoutWords, OneMoreFailure, frameVars, resultVars
  <2>2. Statuses' = Statuses
    BY <2>1 DEF Statuses
  <2>3. CASE failures' > Patience
    BY <1>2, <2>1, <2>3 DEF FrameWithoutWords, Heard, AirNavTrue
  <2>4. CASE ~(failures' > Patience)
    <3>1. airNav' = airNav /\ failures' <= Patience
      BY <1>0, <1>2, <2>1, <2>4, CountsAssumption DEF FrameWithoutWords, colorVars, RestOK
    <3> QED BY <1>0, <2>1, <2>2, <3>1 DEF Heard, AirNavTrue
  <2> QED BY <2>3, <2>4
<1>3. CASE NoFrames
  BY <1>0, <1>3 DEF NoFrames, frameVars, Heard, AirNavTrue
<1>4. CASE Searching
  BY <1>0, <1>4, WordHeard, ModeKept DEF Searching, resultVars
<1>5. CASE Finish3500 \/ Finish3501
  <2>1. NextWord
    BY <1>5 DEF Finish3500, Finish3501
  <2> QED BY <1>0, <1>5, <2>1, WordHeard, AirNavFinish
<1>6. CASE UNCHANGED vars
  BY <1>0, <1>6, ModeKept DEF vars, frameVars, colorVars, resultVars, Heard
<1> QED
  BY <1>1, <1>2, <1>3, <1>4, <1>5, <1>6 DEF Next, processImageGPSData, FindMagic,
     FindType, FindLength, FindFlags, FindChecksum, ValidateChecksum, MoreData

(* A green indicator for air navigation is what the last status message of  *)
(* the GPS says (displayTab.cpp:2642), and the GPS has not fallen silent    *)
(* since, for every stream and however the frames cut it.                   *)
THEOREM AirNavIsTold == Spec => []AirNavTrue
<1>1. Init => AirNavInv
  BY InitInv DEF Init, AirNavInv, Heard, AirNavTrue
<1>2. AirNavInv => AirNavTrue
  BY DEF AirNavInv
<1> QED BY <1>1, <1>2, AirNavNext, PTL DEF Spec

-----------------------------------------------------------------------------
(* The messages of a stream, found without a parser                        *)

(* What MessagesFrom is at p, by what it is behind p.                       *)
Step(s, f, p) ==
  IF p > Len(s) THEN << >>
  ELSE IF ~Begins(s, p) THEN f[p + 1]
  ELSE IF EndOf(s, p) > Len(s) THEN << >>
  ELSE <<SubSeq(s, p, EndOf(s, p))>> \o f[EndOf(s, p) + 1]

LEMMA Chosen ==
  ASSUME NEW s, NEW g, g = [p \in 1 .. Len(s) + 1 |-> Step(s, g, p)]
  PROVE  MessagesFrom(s) = [p \in 1 .. Len(s) + 1 |-> Step(s, MessagesFrom(s), p)]
  BY DEF MessagesFrom, Step

(* Induction over the places of a stream, from its end to its beginning.     *)
LEMMA FromTheEnd ==
  ASSUME NEW n \in Nat, NEW S,
         \A p \in 1 .. n + 1 : (\A q \in p + 1 .. n + 1 : q \in S) => p \in S
  PROVE  \A p \in 1 .. n + 1 : p \in S
<1> DEFINE Out == {k \in Nat : k <= n /\ n + 1 - k \notin S}
<1> SUFFICES ASSUME NEW p \in 1 .. n + 1, p \notin S PROVE FALSE
  OBVIOUS
<1>1. n + 1 - p \in Nat /\ n + 1 - p <= n /\ n + 1 - (n + 1 - p) = p
  OBVIOUS
<1>2. Out \subseteq Nat /\ Out # {}
  BY <1>1
<1>3. PICK k \in Out : \A y \in Out : k <= y
  <2> HIDE DEF Out
  <2> QED BY <1>2, LeastNatural
<1>4. k \in Nat /\ k <= n /\ n + 1 - k \notin S
  OBVIOUS
<1>5. n + 1 - k \in 1 .. n + 1
  BY <1>4
<1>6. ASSUME NEW q \in (n + 1 - k) + 1 .. n + 1 PROVE q \in S
  <2>1. n + 1 - q \in Nat /\ n + 1 - q < k /\ n + 1 - (n + 1 - q) = q
    BY <1>4
  <2>2. n + 1 - q \notin Out
    BY <1>3, <1>4, <2>1
  <2> QED BY <1>4, <2>1, <2>2
<1> QED BY <1>4, <1>5, <1>6

(* A message that is complete ends inside the stream.                       *)
LEMMA EndsInside ==
  ASSUME NEW s \in Seq(Word), NEW p \in 1 .. Len(s), EndOf(s, p) <= Len(s)
  PROVE  EndOf(s, p) \in p + 6 .. Len(s)
<1>1. Size(s[p + 1]) \in 7 .. MaxWords /\ MaxWords \in Nat
  BY Sizes
<1> QED BY <1>1 DEF EndOf

(* Step looks only at what is behind p, and finds sequences of messages when *)
(* that is so behind it.                                                    *)
LEMMA StepLooksOn ==
  ASSUME NEW s \in Seq(Word), NEW p \in 1 .. Len(s) + 1, NEW f, NEW g,
         \A q \in p + 1 .. Len(s) + 1 : f[q] = g[q] /\ f[q] \in Seq(Seq(Word))
  PROVE  Step(s, f, p) = Step(s, g, p) /\ Step(s, f, p) \in Seq(Seq(Word))
<1>0. Len(s) \in Nat
  OBVIOUS
<1>1. CASE p > Len(s)
  BY <1>1 DEF Step
<1>2. CASE p <= Len(s) /\ ~Begins(s, p)
  <2>1. p + 1 \in p + 1 .. Len(s) + 1 /\ ~(p > Len(s))
    BY <1>2, <1>0
  <2> QED BY <1>2, <2>1 DEF Step
<1>3. CASE p <= Len(s) /\ Begins(s, p) /\ EndOf(s, p) > Len(s)
  <2>1. ~(p > Len(s))
    BY <1>3, <1>0
  <2> QED BY <1>3, <2>1 DEF Step
<1>4. CASE p <= Len(s) /\ Begins(s, p) /\ ~(EndOf(s, p) > Len(s))
  <2>1. p \in 1 .. Len(s) /\ ~(p > Len(s))
    BY <1>4, <1>0
  <2>2. EndOf(s, p) \in Int
    BY <2>1, Sizes DEF EndOf
  <2>3. EndOf(s, p) \in p + 6 .. Len(s)
    BY <1>0, <1>4, <2>1, <2>2, EndsInside
  <2>4. EndOf(s, p) + 1 \in p + 1 .. Len(s) + 1
    BY <1>0, <2>3
  <2>5. SubSeq(s, p, EndOf(s, p)) \in Seq(Word)
    BY <1>0, <2>1, <2>3, SubSeqProperties
  <2>6. f[EndOf(s, p) + 1] = g[EndOf(s, p) + 1] /\ f[EndOf(s, p) + 1] \in Seq(Seq(Word))
    BY <2>4
  <2>7. <<SubSeq(s, p, EndOf(s, p))>> \o f[EndOf(s, p) + 1] \in Seq(Seq(Word))
    BY <2>5, <2>6
  <2> QED BY <1>4, <2>1, <2>6, <2>7 DEF Step
<1>5. EndOf(s, p) > Len(s) \/ ~(EndOf(s, p) > Len(s))
  OBVIOUS
<1>6. p > Len(s) \/ p <= Len(s)
  BY <1>0
<1> QED BY <1>1, <1>2, <1>3, <1>4, <1>5, <1>6

(* The recursion has a solution: it is built from the end of the stream.    *)
LEMMA Solvable ==
  ASSUME NEW s \in Seq(Word)
  PROVE  \E g : g = [p \in 1 .. Len(s) + 1 |-> Step(s, g, p)]
<1> DEFINE end == Len(s) + 1
           Solves(g, p) == \A q \in p .. end : g[q] = Step(s, g, q)
           S == {p \in 1 .. end : \E g \in [p .. end -> Seq(Seq(Word))] : Solves(g, p)}
<1>0. Len(s) \in Nat
  OBVIOUS
<1>1. ASSUME NEW p \in 1 .. Len(s) + 1, \A q \in p + 1 .. Len(s) + 1 : q \in S
      PROVE  p \in S
  <2>1. PICK g \in [p + 1 .. end -> Seq(Seq(Word))] : Solves(g, p + 1)
    <3>1. CASE p = end
      <4>1. p + 1 .. end = {}
        BY <1>0, <3>1
      <4>2. [q \in p + 1 .. end |-> << >>] \in [p + 1 .. end -> Seq(Seq(Word))]
        BY <4>1
      <4> QED BY <4>1, <4>2
    <3>2. CASE p # end
      <4>1. p + 1 \in p + 1 .. end
        BY <1>0, <3>2
      <4> QED BY <1>1, <4>1
    <3> QED BY <3>1, <3>2
  <2> DEFINE h == [q \in p .. end |-> IF q = p THEN Step(s, g, p) ELSE g[q]]
  <2>2. \A q \in p + 1 .. end : q \in p .. end /\ q # p
    BY <1>0
  <2>3. p \in p .. end
    BY <1>0
  <2>4. \A q \in p + 1 .. end : h[q] = g[q] /\ g[q] \in Seq(Seq(Word))
    BY <2>2
  <2>5. Step(s, g, p) = Step(s, h, p) /\ Step(s, g, p) \in Seq(Seq(Word))
    <3> HIDE DEF h
    <3> QED BY <2>4, StepLooksOn
  <2>6. h \in [p .. end -> Seq(Seq(Word))]
    <3>1. \A q \in p .. end : q = p \/ q \in p + 1 .. end
      BY <1>0
    <3>2. \A q \in p .. end : (IF q = p THEN Step(s, g, p) ELSE g[q]) \in Seq(Seq(Word))
      BY <2>4, <2>5, <3>1
    <3> QED BY <3>2
  <2>7. ASSUME NEW q \in p .. end PROVE h[q] = Step(s, h, q)
    <3>1. CASE q = p
      BY <2>3, <2>5, <3>1
    <3>2. CASE q # p
      <4>1. q \in p + 1 .. end /\ q \in 1 .. Len(s) + 1
        BY <1>0, <3>2
      <4>2. \A r \in q + 1 .. end : r \in p + 1 .. end
        BY <1>0
      <4>3. h[q] = g[q] /\ g[q] = Step(s, g, q)
        BY <2>1, <2>4, <4>1
      <4> HIDE DEF h
      <4>4. \A r \in q + 1 .. Len(s) + 1 : g[r] = h[r] /\ g[r] \in Seq(Seq(Word))
        BY <2>4, <4>2
      <4>5. Step(s, g, q) = Step(s, h, q)
        BY <4>1, <4>4, StepLooksOn
      <4> QED BY <4>3, <4>5
    <3> QED BY <3>1, <3>2
  <2> HIDE DEF h
  <2>8. \E f \in [p .. end -> Seq(Seq(Word))] : Solves(f, p)
    BY <2>6, <2>7
  <2> QED BY <2>8
<1>2. 1 \in S
  <2> HIDE DEF S
  <2>1. \A p \in 1 .. Len(s) + 1 : p \in S
    BY <1>0, <1>1, FromTheEnd, Zenon
  <2> QED BY <1>0, <2>1
<1>3. PICK g \in [1 .. end -> Seq(Seq(Word))] : Solves(g, 1)
  BY <1>2
<1>4. g = [p \in 1 .. end |-> Step(s, g, p)]
  <2>1. \A p \in 1 .. end : g[p] = Step(s, g, p)
    BY <1>3
  <2>2. g = [p \in 1 .. end |-> g[p]]
    OBVIOUS
  <2> QED BY <2>1, <2>2
<1> QED BY <1>4

(* MessagesFrom is what its definition says, at every place.                *)
LEMMA MessagesAt ==
  ASSUME NEW s \in Seq(Word)
  PROVE  \A p \in 1 .. Len(s) + 1 :
           /\ MessagesFrom(s)[p] = Step(s, MessagesFrom(s), p)
           /\ MessagesFrom(s)[p] \in Seq(Seq(Word))
<1> DEFINE f == MessagesFrom(s)
           S == {p \in 1 .. Len(s) + 1 : f[p] \in Seq(Seq(Word))}
<1>0. Len(s) \in Nat
  OBVIOUS
<1>1. f = [p \in 1 .. Len(s) + 1 |-> Step(s, f, p)]
  BY Solvable, Chosen
<1> HIDE DEF f
<1>2. \A p \in 1 .. Len(s) + 1 : f[p] = Step(s, f, p)
  BY <1>1
<1>3. ASSUME NEW p \in 1 .. Len(s) + 1, \A q \in p + 1 .. Len(s) + 1 : q \in S
      PROVE  p \in S
  <2>1. \A q \in p + 1 .. Len(s) + 1 : f[q] = f[q] /\ f[q] \in Seq(Seq(Word))
    BY <1>3
  <2>2. Step(s, f, p) \in Seq(Seq(Word))
    BY <2>1, StepLooksOn
  <2> QED BY <1>2, <2>2
<1>4. \A p \in 1 .. Len(s) + 1 : p \in S
  <2> HIDE DEF S
  <2> QED BY <1>0, <1>3, FromTheEnd, Zenon
<1> QED BY <1>2, <1>4 DEF f

(* A place where no message begins is passed over.                          *)
LEMMA PassedOver ==
  ASSUME NEW s \in Seq(Word), NEW p \in 1 .. Len(s), ~Begins(s, p)
  PROVE  MessagesFrom(s)[p] = MessagesFrom(s)[p + 1]
<1>1. p \in 1 .. Len(s) + 1 /\ ~(p > Len(s))
  OBVIOUS
<1> QED BY <1>1, MessagesAt DEF Step

(* A message that is whole comes first of what is found at its beginning.    *)
LEMMA FoundFirst ==
  ASSUME NEW s \in Seq(Word), NEW p \in 1 .. Len(s), Begins(s, p),
         EndOf(s, p) <= Len(s)
  PROVE  MessagesFrom(s)[p] =
           <<SubSeq(s, p, EndOf(s, p))>> \o MessagesFrom(s)[EndOf(s, p) + 1]
<1>1. p \in 1 .. Len(s) + 1 /\ ~(p > Len(s)) /\ EndOf(s, p) \in p + 6 .. Len(s)
  BY EndsInside
<1>2. ~(EndOf(s, p) > Len(s))
  BY <1>1
<1> QED BY <1>1, <1>2, MessagesAt DEF Step

(* One that is not finds nothing, and neither does the end of a stream.      *)
LEMMA CutOff ==
  ASSUME NEW s \in Seq(Word), NEW p \in 1 .. Len(s), Begins(s, p),
         EndOf(s, p) > Len(s)
  PROVE  MessagesFrom(s)[p] = << >>
<1>1. p \in 1 .. Len(s) + 1 /\ ~(p > Len(s))
  OBVIOUS
<1> QED BY <1>1, MessagesAt DEF Step

LEMMA AtTheEnd ==
  ASSUME NEW s \in Seq(Word)
  PROVE  MessagesFrom(s)[Len(s) + 1] = << >>
<1>1. Len(s) + 1 \in 1 .. Len(s) + 1 /\ Len(s) + 1 > Len(s)
  OBVIOUS
<1> QED BY <1>1, MessagesAt DEF Step

(* Begins, word by word.                                                    *)
LEMMA BeginsIs ==
  ASSUME NEW s \in Seq(Word), NEW p \in 1 .. Len(s)
  PROVE  Begins(s, p) <=>
           /\ p + 4 <= Len(s)
           /\ s[p] = GPS_MAGIC_NUMBER /\ s[p + 1] \in Types
           /\ s[p + 2] = Size(s[p + 1]) - 6 /\ s[p + 3] # GPS_MAGIC_NUMBER
           /\ s[p + 4] = Checksum(s[p], s[p + 1], s[p + 2], s[p + 3])
<1>1. CASE ~(p + 4 <= Len(s))
  BY <1>1 DEF Begins
<1>2. CASE p + 4 <= Len(s)
  <2> DEFINE m == SubSeq(s, p, p + 4)
  <2>1. \A i \in p .. p + 4 : s[i] \in Word
    BY <1>2
  <2>2. \A i \in 1 .. p + 4 - p + 1 : m[i] = s[p + i - 1]
    BY <2>1, SubSeqProperties
  <2>3. 1 \in 1 .. p + 4 - p + 1 /\ 2 \in 1 .. p + 4 - p + 1
        /\ 3 \in 1 .. p + 4 - p + 1 /\ 4 \in 1 .. p + 4 - p + 1
        /\ 5 \in 1 .. p + 4 - p + 1
    OBVIOUS
  <2>4. m[1] = s[p + 1 - 1] /\ m[2] = s[p + 2 - 1] /\ m[3] = s[p + 3 - 1]
        /\ m[4] = s[p + 4 - 1] /\ m[5] = s[p + 5 - 1]
    BY <2>2, <2>3
  <2>5. p + 1 - 1 = p /\ p + 2 - 1 = p + 1 /\ p + 3 - 1 = p + 2
        /\ p + 4 - 1 = p + 3 /\ p + 5 - 1 = p + 4
    OBVIOUS
  <2>6. m[1] = s[p] /\ m[2] = s[p + 1] /\ m[3] = s[p + 2] /\ m[4] = s[p + 3]
        /\ m[5] = s[p + 4]
    BY <2>4, <2>5, Zenon
  <2>7. Begins(s, p) <=> GoodHeader(m)
    BY <1>2 DEF Begins
  <2> HIDE DEF m
  <2> QED BY <1>2, <2>6, <2>7, Zenon DEF GoodHeader
<1> QED BY <1>1, <1>2

-----------------------------------------------------------------------------
(* What the parser has found, for every way the stream goes on             *)

(* The stream as far as its nth word, and what there is in it from p on.    *)
Seen(n) == SubSeq(stream, 1, n)
At(n, p) == MessagesFrom(Seen(n))[p]

LEMMA SeenIs ==
  ASSUME FrameOK, NEW n \in 0 .. Len(stream)
  PROVE  /\ Seen(n) \in Seq(Word) /\ Len(Seen(n)) = n
         /\ \A i \in 1 .. n : Seen(n)[i] = stream[i]
<1>1. \A i \in 1 .. n : stream[i] \in Word
  BY StreamWords
<1>2. /\ Seen(n) \in Seq(Word)
      /\ Len(Seen(n)) = IF 1 <= n THEN n - 1 + 1 ELSE 0
      /\ \A i \in 1 .. n - 1 + 1 : Seen(n)[i] = stream[1 + i - 1]
  BY <1>1, SubSeqProperties DEF Seen
<1> QED BY <1>2

LEMMA BeginsInStream ==
  ASSUME FrameOK, NEW n \in 0 .. Len(stream), NEW p \in 1 .. n
  PROVE  Begins(Seen(n), p) <=>
           /\ p + 4 <= n
           /\ stream[p] = GPS_MAGIC_NUMBER /\ stream[p + 1] \in Types
           /\ stream[p + 2] = Size(stream[p + 1]) - 6
           /\ stream[p + 3] # GPS_MAGIC_NUMBER
           /\ stream[p + 4] = Checksum(stream[p], stream[p + 1], stream[p + 2],
                                       stream[p + 3])
<1> DEFINE s == Seen(n)
<1>1. s \in Seq(Word) /\ Len(s) = n /\ \A i \in 1 .. n : s[i] = stream[i]
  BY SeenIs
<1> HIDE DEF s
<1>2. Begins(s, p) <=>
        /\ p + 4 <= n
        /\ s[p] = GPS_MAGIC_NUMBER /\ s[p + 1] \in Types
        /\ s[p + 2] = Size(s[p + 1]) - 6 /\ s[p + 3] # GPS_MAGIC_NUMBER
        /\ s[p + 4] = Checksum(s[p], s[p + 1], s[p + 2], s[p + 3])
  BY <1>1, BeginsIs
<1>3. CASE p + 4 <= n
  <2>1. p \in 1 .. n /\ p + 1 \in 1 .. n /\ p + 2 \in 1 .. n /\ p + 3 \in 1 .. n
        /\ p + 4 \in 1 .. n
    BY <1>3
  <2>2. s[p] = stream[p] /\ s[p + 1] = stream[p + 1] /\ s[p + 2] = stream[p + 2]
        /\ s[p + 3] = stream[p + 3] /\ s[p + 4] = stream[p + 4]
    BY <1>1, <2>1
  <2> QED BY <1>2, <2>2, Zenon DEF s
<1>4. CASE ~(p + 4 <= n)
  BY <1>2, <1>4, Zenon DEF s
<1> QED BY <1>3, <1>4

LEMMA NoMessageHere ==
  ASSUME FrameOK, NEW n \in 0 .. Len(stream), NEW p \in 1 .. n, ~Begins(Seen(n), p)
  PROVE  At(n, p) = At(n, p + 1)
  BY SeenIs, PassedOver DEF At

LEMMA NoMagicHere ==
  ASSUME FrameOK, NEW n \in 0 .. Len(stream), NEW p \in 1 .. n,
         stream[p] # GPS_MAGIC_NUMBER
  PROVE  At(n, p) = At(n, p + 1)
<1>1. ~Begins(Seen(n), p)
  BY BeginsInStream
<1> QED BY <1>1, NoMessageHere

LEMMA TooLateHere ==
  ASSUME FrameOK, NEW n \in 0 .. Len(stream), NEW p \in 1 .. n, ~(p + 4 <= n)
  PROVE  At(n, p) = At(n, p + 1)
<1>1. ~Begins(Seen(n), p)
  BY BeginsInStream
<1> QED BY <1>1, NoMessageHere

(* Where the search goes on from: the first word in the buffer, or the next *)
(* of the stream.                                                           *)
Start == IF state = 0 THEN pos + 1 ELSE pos + 1 - buffered

\* The buffer holds the words of the stream from there on.
Held ==
  state # 0 => /\ buffered <= pos
               /\ \A i \in 0 .. buffered - 1 : msg[i] = stream[Start + i]

\* However the stream goes on, the messages in it are those in the log and what is
\* found from there on.
SoFar == \A n \in pos .. Len(stream) : At(n, 1) = log \o At(n, Start)

FoundInv == ParserInv /\ Held /\ (~split => SoFar /\ (state = 2 => prev = msg[1]))

(* What the parse state says of the words of the stream.                    *)
LEMMA HeaderSeen ==
  ASSUME FrameOK, BufferOK, HeaderOK, Held
  PROVE  /\ Start \in 1 .. pos + 1
         /\ state = 0 => Start = pos + 1
         /\ state # 0 => Start = pos + 1 - buffered
         /\ state \in 1 .. 5 => Start = pos + 1 - state
         /\ state >= 1 => stream[Start] = GPS_MAGIC_NUMBER
         /\ state >= 2 => stream[Start + 1] = msg[1] /\ msg[1] \in Types
         /\ state >= 3 => stream[Start + 2] = Size(msg[1]) - 6
         /\ state >= 4 => stream[Start + 3] = msg[3] /\ msg[3] # GPS_MAGIC_NUMBER
         /\ state >= 5 => stream[Start + 4] = msg[4]
<1>1. /\ pos \in Nat /\ state \in 0 .. 6 /\ buffered \in Nat
      /\ state \in 1 .. 5 => buffered = state
      /\ state = 6 => buffered >= 6
  <2>1. Size(msg[1]) \in Int
    BY Sizes
  <2> QED BY <2>1, Sizes DEF FrameOK, BufferOK, HeaderOK
<1>2. /\ state = 0 => Start = pos + 1
      /\ state # 0 => Start = pos + 1 - buffered /\ buffered <= pos
                      /\ buffered >= state
                      /\ \A i \in 0 .. buffered - 1 : msg[i] = stream[Start + i]
  BY <1>1 DEF Held, Start
<1>3. Start \in 1 .. pos + 1
  BY <1>1, <1>2
<1>4. /\ state >= 1 => stream[Start] = msg[0]
      /\ state >= 2 => stream[Start + 1] = msg[1]
      /\ state >= 3 => stream[Start + 2] = msg[2]
      /\ state >= 4 => stream[Start + 3] = msg[3]
      /\ state >= 5 => stream[Start + 4] = msg[4]
  <2>1. /\ state >= 1 => 0 \in 0 .. buffered - 1 /\ state # 0
        /\ state >= 2 => 1 \in 0 .. buffered - 1
        /\ state >= 3 => 2 \in 0 .. buffered - 1
        /\ state >= 4 => 3 \in 0 .. buffered - 1
        /\ state >= 5 => 4 \in 0 .. buffered - 1
    BY <1>1, <1>2
  <2>2. Start + 0 = Start /\ (state >= 2 => state >= 1) /\ (state >= 3 => state >= 1)
        /\ (state >= 4 => state >= 1) /\ (state >= 5 => state >= 1)
    BY <1>1, <1>3
  <2> QED BY <1>2, <2>1, <2>2
<1>5. state \in 1 .. 5 => Start = pos + 1 - state
  BY <1>1, <1>2
<1>6. /\ state >= 1 => msg[0] = GPS_MAGIC_NUMBER
      /\ state >= 2 => msg[1] \in Types
      /\ state >= 3 => msg[2] = Size(msg[1]) - 6
      /\ state >= 4 => msg[3] # GPS_MAGIC_NUMBER
  BY DEF HeaderOK
<1> QED BY <1>2, <1>3, <1>4, <1>5, <1>6

(* Neither a type nor a length of a message is the magic number.            *)
LEMMA NotMagic ==
  /\ \A w \in Types : w # GPS_MAGIC_NUMBER
  /\ \A w : Size(w) - 6 # GPS_MAGIC_NUMBER
<1>1. MaxWords \in Nat /\ MaxWords < 33279
  BY SizesAssumption DEF GPS_MAGIC_NUMBER
<1>2. \A w : Size(w) \in 7 .. MaxWords
  BY Sizes
<1> QED BY <1>1, <1>2 DEF Types, GPS_MAGIC_NUMBER

LEMMA FoundInit == Init => FoundInv
<1> SUFFICES ASSUME Init PROVE FoundInv
  OBVIOUS
<1>1. ParserInv /\ FrameOK
  BY InitInv, Parts
<1>2. state = 0 /\ pos = 0 /\ log = << >> /\ Start = 1
  BY DEF Init, Start
<1>3. SoFar
  <2> SUFFICES ASSUME NEW n \in 0 .. Len(stream) PROVE At(n, 1) = << >> \o At(n, 1)
    BY <1>2 DEF SoFar
  <2>1. Seen(n) \in Seq(Word) /\ 1 \in 1 .. Len(Seen(n)) + 1
    BY <1>1, SeenIs
  <2>2. At(n, 1) \in Seq(Seq(Word))
    BY <2>1, MessagesAt DEF At
  <2> QED BY <2>2
<1> QED BY <1>1, <1>2, <1>3 DEF FoundInv, Held

(* What is found so far stays found when the search goes on from a later    *)
(* place with nothing in between.                                           *)
LEMMA GoesOn ==
  ASSUME SoFar, FrameOK, stream' = stream, pos' = pos + 1, log' = log,
         \A n \in pos + 1 .. Len(stream) : At(n, Start) = At(n, Start')
  PROVE  SoFar'
<1>1. \A n : Seen(n)' = Seen(n)
  BY DEF Seen
<1>2. pos \in Nat /\ Len(stream) \in Nat
  BY StreamWords DEF FrameOK
<1>3. \A n \in pos + 1 .. Len(stream) : n \in pos .. Len(stream)
  BY <1>2
<1>4. ASSUME NEW n \in pos + 1 .. Len(stream)
      PROVE  MessagesFrom(Seen(n))[1] = log \o MessagesFrom(Seen(n))[Start']
  BY <1>3, <1>4, Zenon DEF SoFar, At
<1> QED BY <1>1, <1>4, Zenon DEF SoFar, At

LEMMA StartNext ==
  /\ state' = 0 /\ pos' = pos + 1 => Start' = pos + 1 + 1
  /\ state' # 0 /\ pos' = pos + 1 => Start' = pos + 1 + 1 - buffered'
  BY DEF Start

(* A word that fits is buffered; the search stays where it is.               *)
LEMMA AcceptFound ==
  ASSUME FrameOK, BufferOK, HeaderOK, Held, state # 0, NextWord,
         NEW next \in 1 .. 6, Accept(next), buffered < MaxWords, word \in Word
  PROVE  Start' = Start /\ Held'
<1>1. /\ state' = next /\ buffered' = buffered + 1 /\ msg'[buffered] = word
      /\ \A i \in 0 .. MaxWords - 1 : i # buffered => msg'[i] = msg[i]
  BY AcceptBuffer
<1>2. pos' = pos + 1 /\ stream' = stream /\ word = stream[pos + 1]
  BY DEF NextWord, word
<1>3. pos \in Nat /\ buffered \in Nat /\ MaxWords \in Nat
  BY Sizes DEF FrameOK, BufferOK
<1>4. Start = pos + 1 - buffered /\ state' # 0
  BY <1>1 DEF Start
<1>5. Start' = Start
  BY <1>1, <1>2, <1>3, <1>4, StartNext
<1>6. ASSUME NEW i \in 0 .. buffered' - 1 PROVE msg'[i] = stream'[Start' + i]
  <2>1. CASE i = buffered
    <3>1. Start + i = pos + 1
      BY <1>3, <1>4, <2>1
    <3> QED BY <1>1, <1>2, <1>5, <2>1, <3>1
  <2>2. CASE i # buffered
    <3>1. i \in 0 .. buffered - 1 /\ i \in 0 .. MaxWords - 1
      BY <1>1, <1>3, <2>2
    <3> QED BY <1>1, <1>2, <1>5, <2>2, <3>1 DEF Held
  <2> QED BY <2>1, <2>2
<1>7. buffered' <= pos'
  BY <1>1, <1>2, <1>3 DEF Held
<1> QED BY <1>5, <1>6, <1>7 DEF Held

(* After a refusal the search goes on from this word or from the next.      *)
LEMMA RefuseFound ==
  ASSUME FrameOK, BufferOK, HeaderOK, state \in 1 .. 5, NextWord, Refuse,
         word \in Word, pos + 1 <= Len(stream)
  PROVE  /\ Held' /\ state' \in {0, 1}
         /\ \A n \in pos + 1 .. Len(stream) : At(n, pos + 1) = At(n, Start')
<1>1. /\ state' = IF word = GPS_MAGIC_NUMBER THEN 1 ELSE 0
      /\ buffered' = IF word = GPS_MAGIC_NUMBER THEN 1 ELSE buffered
      /\ msg' = msg
  BY DEF Refuse
<1>2. pos' = pos + 1 /\ stream' = stream /\ word = stream[pos + 1]
  BY DEF NextWord, word
<1>3. pos \in Nat /\ Len(stream) \in Nat
  BY StreamWords DEF FrameOK
<1>4. CASE word = GPS_MAGIC_NUMBER
  <2>1. state' = 1 /\ buffered' = 1 /\ Start' = pos + 1
    BY <1>1, <1>2, <1>3, <1>4, StartNext
  <2>2. msg[0] = GPS_MAGIC_NUMBER
    BY DEF HeaderOK
  <2>3. \A i \in 0 .. 1 - 1 : i = 0 /\ Start' + i = pos + 1
    BY <1>3, <2>1
  <2>4. 1 <= pos'
    BY <1>2, <1>3
  <2>5. Held'
    BY <1>1, <1>2, <1>4, <2>1, <2>2, <2>3, <2>4 DEF Held
  <2> QED BY <2>1, <2>5
<1>5. CASE word # GPS_MAGIC_NUMBER
  <2>1. state' = 0 /\ Start' = pos + 1 + 1
    BY <1>1, <1>2, <1>5, StartNext
  <2>2. ASSUME NEW n \in pos + 1 .. Len(stream) PROVE At(n, pos + 1) = At(n, pos + 1 + 1)
    <3>1. n \in 0 .. Len(stream) /\ pos + 1 \in 1 .. n
      BY <1>3
    <3>2. stream[pos + 1] # GPS_MAGIC_NUMBER
      BY <1>2, <1>5
    <3> QED BY <3>1, <3>2, NoMagicHere
  <2> QED BY <2>1, <2>2 DEF Held
<1> QED BY <1>4, <1>5

(* When the header breaks off, no message begins at its first word, nor can *)
(* one at the others, which are not the magic number.                       *)
LEMMA BrokenOff ==
  ASSUME FrameOK, BufferOK, HeaderOK, Held, state \in 1 .. 5,
         NEW n \in pos + 1 .. Len(stream), ~Begins(Seen(n), Start)
  PROVE  At(n, Start) = IF state = 5 THEN At(n, pos) ELSE At(n, pos + 1)
<1> DEFINE p == Start
<1>0. pos \in Nat /\ Len(stream) \in Nat /\ n \in 0 .. Len(stream)
  BY StreamWords DEF FrameOK
<1>1. /\ p \in 1 .. pos + 1 /\ p = pos + 1 - state
      /\ state >= 2 => stream[p + 1] # GPS_MAGIC_NUMBER
      /\ state >= 3 => stream[p + 2] # GPS_MAGIC_NUMBER
      /\ state >= 4 => stream[p + 3] # GPS_MAGIC_NUMBER
  BY HeaderSeen, NotMagic
<1> HIDE DEF p
<1>2. p \in 1 .. n /\ At(n, p) = At(n, p + 1)
  <2>1. p \in 1 .. n
    BY <1>0, <1>1
  <2> QED BY <1>0, <2>1, NoMessageHere DEF p
<1>3. state >= 2 => At(n, p + 1) = At(n, p + 1 + 1)
  <2>1. state >= 2 => p + 1 \in 1 .. n
    BY <1>0, <1>1
  <2> QED BY <1>0, <1>1, <2>1, NoMagicHere
<1>4. state >= 3 => At(n, p + 2) = At(n, p + 2 + 1)
  <2>1. state >= 3 => p + 2 \in 1 .. n
    BY <1>0, <1>1
  <2> QED BY <1>0, <1>1, <2>1, NoMagicHere
<1>5. state >= 4 => At(n, p + 3) = At(n, p + 3 + 1)
  <2>1. state >= 4 => p + 3 \in 1 .. n
    BY <1>0, <1>1
  <2> QED BY <1>0, <1>1, <2>1, NoMagicHere
<1>6. p + 1 + 1 = p + 2 /\ p + 2 + 1 = p + 3 /\ p + 3 + 1 = p + 4
  BY <1>1
<1>7. CASE state = 1
  <2>1. pos + 1 = p + 1
    BY <1>0, <1>1, <1>7
  <2> QED BY <1>2, <1>7, <2>1 DEF p
<1>8. CASE state = 2
  <2>1. pos + 1 = p + 2
    BY <1>0, <1>1, <1>8
  <2> QED BY <1>2, <1>3, <1>6, <1>8, <2>1 DEF p
<1>9. CASE state = 3
  <2>1. pos + 1 = p + 3
    BY <1>0, <1>1, <1>9
  <2> QED BY <1>2, <1>3, <1>4, <1>6, <1>9, <2>1 DEF p
<1>10. CASE state = 4
  <2>1. pos + 1 = p + 4
    BY <1>0, <1>1, <1>10
  <2> QED BY <1>2, <1>3, <1>4, <1>5, <1>6, <1>10, <2>1 DEF p
<1>11. CASE state = 5
  <2>1. pos = p + 4
    BY <1>0, <1>1, <1>11
  <2> QED BY <1>2, <1>3, <1>4, <1>5, <1>6, <1>11, <2>1 DEF p
<1> QED BY <1>7, <1>8, <1>9, <1>10, <1>11

(* The word that ends the header early shows that it is none.               *)
LEMMA NoHeader ==
  ASSUME FrameOK, BufferOK, HeaderOK, Held, state \in {1, 2, 3, 5},
         state = 1 => word \notin Types,
         state = 2 => word # Size(msg[1]) - 6,
         state = 3 => word = GPS_MAGIC_NUMBER,
         state = 5 => msg[4] # Checksum(msg[0], msg[1], msg[2], msg[3]),
         NEW n \in pos + 1 .. Len(stream)
  PROVE  ~Begins(Seen(n), Start)
<1> DEFINE p == Start
<1>0. pos \in Nat /\ Len(stream) \in Nat /\ n \in 0 .. Len(stream)
  BY StreamWords DEF FrameOK
<1>1. /\ p \in 1 .. pos + 1 /\ p = pos + 1 - state
      /\ stream[p] = GPS_MAGIC_NUMBER
      /\ state >= 2 => stream[p + 1] = msg[1]
      /\ state >= 3 => stream[p + 2] = Size(msg[1]) - 6
      /\ state >= 4 => stream[p + 3] = msg[3]
      /\ state >= 5 => stream[p + 4] = msg[4]
  BY HeaderSeen
<1>2. msg[0] = GPS_MAGIC_NUMBER /\ (state >= 3 => msg[2] = Size(msg[1]) - 6)
  BY DEF HeaderOK
<1>3. word = stream[pos + 1]
  BY DEF word
<1> HIDE DEF p
<1>4. p \in 1 .. n
  BY <1>0, <1>1
<1>5. CASE state = 1
  <2>1. pos + 1 = p + 1
    BY <1>0, <1>1, <1>5
  <2> QED BY <1>0, <1>3, <1>4, <1>5, <2>1, BeginsInStream DEF p
<1>6. CASE state = 2
  <2>1. pos + 1 = p + 2 /\ state >= 2
    BY <1>0, <1>1, <1>6
  <2> QED BY <1>0, <1>1, <1>3, <1>4, <1>6, <2>1, BeginsInStream DEF p
<1>7. CASE state = 3
  <2>1. pos + 1 = p + 3
    BY <1>0, <1>1, <1>7
  <2> QED BY <1>0, <1>3, <1>4, <1>7, <2>1, BeginsInStream DEF p
<1>8. CASE state = 5
  <2>1. state >= 2 /\ state >= 3 /\ state >= 4 /\ state >= 5
    BY <1>8
  <2>2. ~(stream[p + 4] = Checksum(stream[p], stream[p + 1], stream[p + 2],
                                   stream[p + 3]))
    BY <1>1, <1>2, <1>8, <2>1, Zenon
  <2> QED BY <1>0, <1>4, <2>2, BeginsInStream, Zenon DEF p
<1> QED BY <1>5, <1>6, <1>7, <1>8

\* What is said while no frame has ended between a type and its length
Tracking == SoFar /\ (state = 2 => prev = msg[1])

(* The words before a message's data, and those of its data but the last.   *)
LEMMA WordFound ==
  ASSUME ParserInv, Held, Searching, word \in Word, prev' = word,
         pos + 1 <= Len(stream),
         FindMagic \/ FindType \/ FindLength \/ FindFlags \/ FindChecksum
         \/ ValidateChecksum \/ MoreData
  PROVE  Held' /\ (Tracking => Tracking')
<1>0. FrameOK /\ BufferOK /\ HeaderOK /\ NextWord
  BY Parts DEF Searching
<1>1. pos' = pos + 1 /\ stream' = stream /\ log' = log
  BY <1>0 DEF Searching, NextWord, resultVars
<1>2. word = stream[pos + 1] /\ pos \in Nat /\ Len(stream) \in Nat
  BY <1>0, StreamWords DEF word, FrameOK
<1>3. ASSUME Start' = Start, state' = 2 => prev' = msg'[1]
      PROVE  Tracking => Tracking'
  BY <1>0, <1>1, <1>3, GoesOn DEF Tracking
<1>4. ASSUME Refuse, state \in {1, 2, 3},
             state = 1 => word \notin Types,
             Tracking /\ state = 2 => word # Size(msg[1]) - 6,
             state = 3 => word = GPS_MAGIC_NUMBER
      PROVE  Held' /\ (Tracking => Tracking')
  <2>1. /\ Held' /\ state' \in {0, 1}
        /\ \A n \in pos + 1 .. Len(stream) : At(n, pos + 1) = At(n, Start')
    BY <1>0, <1>4, RefuseFound
  <2>2. ASSUME Tracking, NEW n \in pos + 1 .. Len(stream)
        PROVE  At(n, Start) = At(n, Start')
    <3>1. ~Begins(Seen(n), Start)
      BY <1>0, <1>4, <2>2, NoHeader
    <3>2. At(n, Start) = At(n, pos + 1)
      BY <1>0, <1>4, <3>1, BrokenOff
    <3> QED BY <2>1, <3>2
  <2> QED BY <1>0, <1>1, <2>1, <2>2, GoesOn DEF Tracking
<1>5. CASE FindMagic
  <2>1. CASE word = GPS_MAGIC_NUMBER
    <3>1. state = 0 /\ state' = 1 /\ buffered' = 1 /\ msg' = [msg EXCEPT ![0] = word]
      BY <1>5, <2>1 DEF FindMagic
    <3>2. Start = pos + 1 /\ Start' = pos + 1
      BY <1>1, <1>2, <3>1, StartNext DEF Start
    <3>3. msg'[0] = word
      BY <1>0, <3>1, Sizes DEF BufferOK
    <3>4. Held'
      <4>1. 1 <= pos' /\ \A i \in 0 .. 1 - 1 : i = 0 /\ Start' + i = pos + 1
        BY <1>1, <1>2, <3>2
      <4> QED BY <1>1, <1>2, <3>1, <3>3, <4>1 DEF Held
    <3> QED BY <1>3, <3>1, <3>2, <3>4
  <2>2. CASE word # GPS_MAGIC_NUMBER
    <3>1. state = 0 /\ state' = 0
      BY <1>5, <2>2 DEF FindMagic, parserVars
    <3>2. Start = pos + 1 /\ Start' = pos + 1 + 1
      BY <1>1, <3>1, StartNext DEF Start
    <3>3. \A n \in pos + 1 .. Len(stream) : At(n, Start) = At(n, Start')
      <4>1. \A n \in pos + 1 .. Len(stream) : n \in 0 .. Len(stream) /\ pos + 1 \in 1 .. n
        BY <1>2
      <4> QED BY <1>0, <1>2, <2>2, <3>2, <4>1, NoMagicHere
    <3> QED BY <1>0, <1>1, <3>1, <3>3, GoesOn DEF Tracking, Held
  <2> QED BY <2>1, <2>2
<1>6. CASE FindType
  <2>1. CASE Accept(2) /\ word \in Types
    <3>1. state = 1 /\ buffered = 1 /\ 1 < MaxWords
      BY <1>0, <1>6, Sizes DEF FindType, HeaderOK
    <3>2. Start' = Start /\ Held'
      BY <1>0, <2>1, <3>1, AcceptFound
    <3>3. msg'[1] = word
      BY <1>0, <2>1, <3>1, AcceptBuffer
    <3> QED BY <1>3, <3>2, <3>3
  <2>2. CASE Refuse /\ word \notin Types
    <3>1. state = 1
      BY <1>6 DEF FindType
    <3> QED BY <1>4, <2>2, <3>1
  <2> QED BY <1>6, <2>1, <2>2 DEF FindType
<1>7. CASE FindLength
  <2>0. state = 2 /\ buffered = 2 /\ 2 < MaxWords /\ msg[1] \in Types
    BY <1>0, <1>7, Sizes DEF FindLength, HeaderOK
  <2>1. CASE Accept(3)
    <3>1. Start' = Start /\ Held'
      BY <1>0, <2>0, <2>1, AcceptFound
    <3>2. state' = 3
      BY <2>1 DEF Accept
    <3> QED BY <1>3, <3>1, <3>2
  <2>2. CASE Refuse /\ ~(word # GPS_MAGIC_NUMBER /\ LengthFits)
    <3>1. ASSUME Tracking PROVE word # Size(msg[1]) - 6
      <4>1. prev = msg[1]
        BY <2>0, <3>1 DEF Tracking
      <4> QED BY <2>0, <2>2, <4>1, NotMagic DEF LengthFits
    <3> QED BY <1>4, <2>0, <2>2, <3>1
  <2> QED BY <1>7, <2>1, <2>2 DEF FindLength
<1>8. CASE FindFlags
  <2>0. state = 3 /\ buffered = 3 /\ 3 < MaxWords
    BY <1>0, <1>8, Sizes DEF FindFlags, HeaderOK
  <2>1. CASE Accept(4)
    <3>1. Start' = Start /\ Held'
      BY <1>0, <2>0, <2>1, AcceptFound
    <3>2. state' = 4
      BY <2>1 DEF Accept
    <3> QED BY <1>3, <3>1, <3>2
  <2>2. CASE Refuse /\ word = GPS_MAGIC_NUMBER
    BY <1>4, <2>0, <2>2
  <2> QED BY <1>8, <2>1, <2>2 DEF FindFlags
<1>9. CASE FindChecksum
  <2>0. state = 4 /\ buffered = 4 /\ 4 < MaxWords /\ Accept(5)
    BY <1>0, <1>9, Sizes DEF FindChecksum, HeaderOK
  <2>1. Start' = Start /\ Held'
    BY <1>0, <2>0, AcceptFound
  <2>2. state' = 5
    BY <2>0 DEF Accept
  <2> QED BY <1>3, <2>1, <2>2
<1>10. CASE ValidateChecksum
  <2>0. state = 5 /\ buffered = 5 /\ 5 < MaxWords
    BY <1>0, <1>10, Sizes DEF ValidateChecksum, HeaderOK
  <2>1. CASE Accept(6)
    <3>1. Start' = Start /\ Held'
      BY <1>0, <2>0, <2>1, AcceptFound
    <3>2. state' = 6
      BY <2>1 DEF Accept
    <3> QED BY <1>3, <3>1, <3>2
  <2> SUFFICES ASSUME msg[4] # Checksum(msg[0], msg[1], msg[2], msg[3])
               PROVE  Held' /\ (Tracking => Tracking')
    BY <1>10, <2>1 DEF ValidateChecksum
  <2>2. ASSUME NEW n \in pos + 1 .. Len(stream) PROVE At(n, Start) = At(n, pos)
    <3>1. ~Begins(Seen(n), Start)
      BY <1>0, <2>0, NoHeader
    <3> QED BY <1>0, <2>0, <3>1, BrokenOff
  <2>3. Start + 4 = pos /\ stream[pos] = msg[4] /\ pos \in 1 .. Len(stream)
    <3>1. Start \in 1 .. pos + 1 /\ Start = pos + 1 - 5 /\ stream[Start + 4] = msg[4]
      BY <1>0, <2>0, HeaderSeen
    <3>2. Start + 4 = pos
      BY <1>2, <3>1
    <3>3. pos \in 1 .. Len(stream)
      BY <1>2, <3>1, <3>2
    <3> QED BY <3>1, <3>2, <3>3
  <2>4. CASE msg[4] = GPS_MAGIC_NUMBER /\ word \in Types
    <3>1. state' = 2 /\ buffered' = 2 /\ msg' = [msg EXCEPT ![1] = word]
      BY <1>10, <2>4 DEF ValidateChecksum
    <3>2. msg'[1] = word /\ msg'[0] = GPS_MAGIC_NUMBER
      BY <1>0, <2>0, <3>1, Sizes DEF BufferOK, HeaderOK
    <3>3. Start' = pos
      BY <1>1, <1>2, <3>1, StartNext
    <3>4. Held'
      <4>1. 2 <= pos' /\ Start' + 0 = pos /\ Start' + 1 = pos + 1
            /\ \A i \in 0 .. 2 - 1 : i = 0 \/ i = 1
        BY <1>1, <1>2, <2>3, <3>3
      <4>2. msg'[0] = stream'[Start' + 0] /\ msg'[1] = stream'[Start' + 1]
        BY <1>1, <1>2, <2>3, <2>4, <3>2, <4>1
      <4> QED BY <3>1, <4>1, <4>2 DEF Held
    <3>5. SoFar => SoFar'
      BY <1>0, <1>1, <2>2, <3>3, GoesOn
    <3> QED BY <3>1, <3>2, <3>4, <3>5 DEF Tracking
  <2>5. CASE ~(msg[4] = GPS_MAGIC_NUMBER /\ word \in Types)
    <3>1. Refuse
      BY <1>10, <2>5 DEF ValidateChecksum
    <3>2. /\ Held' /\ state' \in {0, 1}
          /\ \A n \in pos + 1 .. Len(stream) : At(n, pos + 1) = At(n, Start')
      BY <1>0, <2>0, <3>1, RefuseFound
    <3>3. ASSUME NEW n \in pos + 1 .. Len(stream) PROVE At(n, Start) = At(n, Start')
      <4>1. n \in 0 .. Len(stream) /\ pos \in 1 .. n
        BY <1>2, <2>3
      <4>2. ~Begins(Seen(n), pos)
        BY <1>0, <1>2, <2>3, <2>5, <4>1, BeginsInStream
      <4>3. At(n, pos) = At(n, pos + 1)
        BY <1>0, <4>1, <4>2, NoMessageHere
      <4> QED BY <2>2, <3>2, <4>3
    <3> QED BY <1>0, <1>1, <3>2, <3>3, GoesOn DEF Tracking
  <2> QED BY <2>4, <2>5
<1>11. CASE MoreData
  <2>0. state = 6 /\ Accept(6)
    BY <1>11 DEF MoreData
  <2>1. buffered < MaxWords
    BY <1>0, <2>0, Sizes DEF HeaderOK
  <2>2. Start' = Start /\ Held'
    BY <1>0, <2>0, <2>1, AcceptFound
  <2>3. state' = 6
    BY <2>0 DEF Accept
  <2> QED BY <1>3, <2>2, <2>3
<1> QED
  BY <1>5, <1>6, <1>7, <1>8, <1>9, <1>10, <1>11

(* The message that is processed is the one that begins where the search was. *)
LEMMA FinishFound ==
  ASSUME ParserInv, Held, NextWord, word \in Word, pos + 1 <= Len(stream),
         state = 6, Complete, Accept(0), Processed
  PROVE  Held' /\ (Tracking => Tracking')
<1>0. FrameOK /\ BufferOK /\ HeaderOK /\ LogOK
  BY Parts
<1> DEFINE size == Size(msg[1])
           p == Start
           m == [i \in 1 .. size |-> msg'[i - 1]]
<1>1. pos' = pos + 1 /\ stream' = stream /\ state' = 0 /\ buffered' = size
      /\ buffered + 1 = size
  BY DEF NextWord, Accept, Complete
<1>2. word = stream[pos + 1] /\ pos \in Nat /\ Len(stream) \in Nat
      /\ size \in 7 .. MaxWords /\ MaxWords \in Nat /\ buffered \in Nat
  BY <1>0, StreamWords, Sizes DEF word, FrameOK, BufferOK
<1>3. Held' /\ Start' = pos + 1 + 1
  BY <1>1, StartNext DEF Held
<1>4. p \in 1 .. pos + 1 /\ p = pos + 1 - buffered
  BY <1>0, HeaderSeen
<1>5. ASSUME NEW i \in 1 .. size PROVE msg'[i - 1] = stream[p + i - 1]
  <2>0. buffered < MaxWords
    BY <1>1, <1>2
  <2>1. /\ msg'[buffered] = word
        /\ \A j \in 0 .. MaxWords - 1 : j # buffered => msg'[j] = msg[j]
    BY <1>0, <2>0, AcceptBuffer
  <2>2. CASE i = size
    <3>1. i - 1 = buffered /\ p + i - 1 = pos + 1
      BY <1>1, <1>2, <1>4, <2>2
    <3> QED BY <1>2, <2>1, <3>1
  <2>3. CASE i # size
    <3>1. i - 1 \in 0 .. buffered - 1 /\ i - 1 \in 0 .. MaxWords - 1
          /\ p + (i - 1) = p + i - 1
      BY <1>1, <1>2, <1>4, <2>3
    <3>2. msg[i - 1] = stream[p + (i - 1)]
      BY <3>1 DEF Held
    <3>3. i - 1 # buffered
      BY <1>2, <3>1
    <3> QED BY <2>1, <3>1, <3>2, <3>3
  <2> QED BY <2>2, <2>3
<1>6. log' = Append(log, m) /\ log \in Seq(Seq(Word))
  BY <1>0, <1>1 DEF Processed, LogOK
<1>7. /\ stream[p] = GPS_MAGIC_NUMBER
      /\ stream[p + 1] = msg[1] /\ msg[1] \in Types
      /\ stream[p + 2] = size - 6
      /\ stream[p + 3] = msg[3] /\ msg[3] # GPS_MAGIC_NUMBER
      /\ stream[p + 4] = msg[4]
      /\ msg[4] = Checksum(msg[0], msg[1], msg[2], msg[3])
      /\ msg[0] = GPS_MAGIC_NUMBER /\ msg[2] = size - 6
  <2>1. 6 >= 1 /\ 6 >= 2 /\ 6 >= 3 /\ 6 >= 4 /\ 6 >= 5
    OBVIOUS
  <2>2. /\ stream[p] = GPS_MAGIC_NUMBER
        /\ stream[p + 1] = msg[1] /\ msg[1] \in Types
        /\ stream[p + 2] = size - 6
        /\ stream[p + 3] = msg[3] /\ msg[3] # GPS_MAGIC_NUMBER
        /\ stream[p + 4] = msg[4]
    BY <1>0, <2>1, HeaderSeen
  <2>3. /\ msg[4] = Checksum(msg[0], msg[1], msg[2], msg[3])
        /\ msg[0] = GPS_MAGIC_NUMBER /\ msg[2] = size - 6
    BY <1>0, <2>1 DEF HeaderOK
  <2> QED BY <2>2, <2>3, Zenon
<1>8. stream[p + 4] = Checksum(stream[p], stream[p + 1], stream[p + 2], stream[p + 3])
  BY <1>7, Zenon
<1>9. ASSUME NEW n \in pos + 1 .. Len(stream)
      PROVE  At(n, p) = <<m>> \o At(n, pos + 1 + 1)
             /\ At(n, pos + 1 + 1) \in Seq(Seq(Word)) /\ m \in Seq(Word)
  <2> DEFINE s == Seen(n)
  <2>0. n \in 0 .. Len(stream) /\ p \in 1 .. n /\ p + 4 <= n /\ n \in Nat
        /\ p + 1 \in 1 .. n /\ pos + 1 + 1 \in 1 .. n + 1
    BY <1>1, <1>2, <1>4
  <2>1. Begins(s, p)
    <3>1. stream[p + 1] \in Types /\ stream[p + 2] = Size(stream[p + 1]) - 6
          /\ stream[p + 3] # GPS_MAGIC_NUMBER
      BY <1>7, Zenon
    <3> HIDE DEF p, size, m
    <3> QED BY <1>0, <1>7, <1>8, <2>0, <3>1, BeginsInStream
  <2>2. s \in Seq(Word) /\ Len(s) = n /\ \A i \in 1 .. n : s[i] = stream[i]
    BY <1>0, <2>0, SeenIs
  <2> HIDE DEF s
  <2>3. EndOf(s, p) = pos + 1
    <3>1. s[p + 1] = msg[1]
      BY <1>7, <2>0, <2>2
    <3>2. EndOf(s, p) = p + size - 1
      BY <3>1 DEF EndOf
    <3> QED BY <1>1, <1>2, <1>4, <3>2
  <2>4. SubSeq(s, p, pos + 1) = m /\ m \in Seq(Word)
    <3> DEFINE u == SubSeq(s, p, pos + 1)
    <3>1. \A i \in p .. pos + 1 : i \in 1 .. n /\ s[i] \in Word
      BY <1>2, <1>4, <2>2
    <3>2. /\ u \in Seq(Word)
          /\ Len(u) = IF p <= pos + 1 THEN pos + 1 - p + 1 ELSE 0
          /\ \A i \in 1 .. pos + 1 - p + 1 : u[i] = s[p + i - 1]
      BY <1>2, <1>4, <3>1, SubSeqProperties
    <3> HIDE DEF u
    <3>3. pos + 1 - p + 1 = size
      BY <1>1, <1>2, <1>4
    <3>4. Len(u) = size /\ \A i \in 1 .. size : u[i] = s[p + i - 1]
      BY <1>2, <1>4, <3>2, <3>3
    <3>5. \A i \in 1 .. size : p + i - 1 \in p .. pos + 1
      BY <1>1, <1>2, <1>4
    <3>6. \A i \in 1 .. size : u[i] = msg'[i - 1]
      BY <1>5, <2>2, <3>1, <3>4, <3>5
    <3>7. DOMAIN u = 1 .. size
      BY <3>2, <3>4
    <3>8. u = [i \in 1 .. size |-> u[i]]
      BY <3>2, <3>7
    <3>9. u = m
      BY <3>6, <3>8
    <3> QED BY <3>2, <3>9 DEF u
  <2> HIDE DEF m, p
  <2>5. MessagesFrom(s)[p] = <<m>> \o MessagesFrom(s)[pos + 1 + 1]
    <3>1. p \in 1 .. Len(s) /\ EndOf(s, p) <= Len(s)
      BY <1>2, <2>0, <2>2, <2>3
    <3>2. MessagesFrom(s)[p] =
            <<SubSeq(s, p, EndOf(s, p))>> \o MessagesFrom(s)[EndOf(s, p) + 1]
      BY <2>1, <2>2, <3>1, FoundFirst
    <3> QED BY <2>3, <2>4, <3>2
  <2>6. MessagesFrom(s)[pos + 1 + 1] \in Seq(Seq(Word))
    BY <2>0, <2>2, MessagesAt
  <2> QED BY <2>4, <2>5, <2>6 DEF At, s
<1>10. ASSUME SoFar PROVE SoFar'
  <2> HIDE DEF m
  <2>1. \A n \in pos + 1 .. Len(stream) : n \in pos .. Len(stream)
    BY <1>2
  <2>2. ASSUME NEW n \in pos + 1 .. Len(stream)
        PROVE  At(n, 1) = log' \o At(n, pos + 1 + 1)
    <3>1. At(n, 1) = log \o At(n, p)
      BY <1>10, <2>1 DEF SoFar
    <3> DEFINE rest == At(n, pos + 1 + 1)
    <3>2. At(n, p) = <<m>> \o rest /\ rest \in Seq(Seq(Word)) /\ m \in Seq(Word)
      BY <1>9
    <3> HIDE DEF p, rest
    <3>3. log \o (<<m>> \o rest) = Append(log, m) \o rest
      <4>1. <<m>> \in Seq(Seq(Word))
        BY <3>2
      <4>2. Append(log, m) = log \o <<m>>
        BY <1>6, <3>2, AppendIsConcat
      <4>3. (log \o <<m>>) \o rest = log \o (<<m>> \o rest)
        BY <1>6, <3>2, <4>1, ConcatAssociative
      <4> QED BY <4>2, <4>3
    <3> QED BY <1>6, <3>1, <3>2, <3>3 DEF rest
  <2>3. \A n : Seen(n)' = Seen(n)
    BY <1>1 DEF Seen
  <2>4. \A n \in pos + 1 .. Len(stream) :
          MessagesFrom(Seen(n))[1] = log' \o MessagesFrom(Seen(n))[pos + 1 + 1]
    BY <2>2 DEF At
  <2> QED BY <1>1, <1>3, <2>3, <2>4, Zenon DEF SoFar, At
<1> QED BY <1>1, <1>3, <1>10 DEF Tracking

LEMMA FrameFound ==
  ASSUME ParserInv, Held, NEW n \in 0 .. FrameWords, Frame(n)
  PROVE  Held' /\ (~split /\ Tracking /\ ~split' => Tracking')
<1>1. stream' = stream /\ pos' = pos /\ log' = log /\ state' = state
      /\ buffered' = buffered /\ msg' = msg
  BY DEF Frame, parserVars, resultVars
<1>2. split' = (split \/ state = 2)
  BY DEF Frame
<1>3. Held' /\ (SoFar => SoFar')
  BY <1>1 DEF Held, SoFar, Start, At, Seen
<1> QED BY <1>1, <1>2, <1>3 DEF Tracking

LEMMA RestFound ==
  ASSUME Held, FrameWithoutWords \/ NoFrames \/ UNCHANGED vars
  PROVE  Held' /\ (Tracking => Tracking') /\ split' = split
<1>1. stream' = stream /\ pos' = pos /\ log' = log /\ state' = state
      /\ buffered' = buffered /\ msg' = msg /\ prev' = prev /\ split' = split
  BY DEF FrameWithoutWords, NoFrames, vars, frameVars, parserVars, resultVars
<1> QED BY <1>1 DEF Held, SoFar, Start, At, Seen, Tracking

LEMMA FoundIs == FoundInv <=> ParserInv /\ Held /\ (~split => Tracking)
  BY DEF FoundInv, Tracking

LEMMA FoundNext == FoundInv /\ [Next]_vars => FoundInv'
<1> SUFFICES ASSUME FoundInv, [Next]_vars
             PROVE  Held' /\ (~split' => Tracking')
  BY NextInv DEF FoundInv, Tracking
<1>0. ParserInv /\ FrameOK /\ Held /\ (~split => Tracking)
  BY Parts, FoundIs
<1>1. CASE \E n \in 0 .. FrameWords : Frame(n)
  <2>1. PICK n \in 0 .. FrameWords : Frame(n)
    BY <1>1
  <2>2. split' = (split \/ state = 2)
    BY <2>1 DEF Frame
  <2> QED BY <1>0, <2>1, <2>2, FrameFound
<1>2. CASE FrameWithoutWords \/ NoFrames \/ UNCHANGED vars
  BY <1>0, <1>2, RestFound
<1>3. ASSUME NextWord
      PROVE  word \in Word /\ prev' = word /\ pos + 1 <= Len(stream) /\ split' = split
  <2>1. word \in Word /\ prev' = word
    BY <1>0, <1>3, NextWordFrame
  <2>2. pos + 1 <= Len(stream)
    BY <1>0, <1>3, StreamWords, FrameWordsAssumption DEF FrameOK, NextWord
  <2>3. split' = split
    BY <1>3 DEF NextWord
  <2> QED BY <2>1, <2>2, <2>3
<1>4. CASE FindMagic \/ FindType \/ FindLength \/ FindFlags \/ FindChecksum
           \/ ValidateChecksum \/ MoreData
  <2>1. Searching /\ NextWord
    BY <1>4 DEF FindMagic, FindType, FindLength, FindFlags, FindChecksum,
                ValidateChecksum, MoreData, Searching
  <2> QED BY <1>0, <1>3, <1>4, <2>1, WordFound
<1>5. CASE Finish3500 \/ Finish3501
  <2>1. NextWord /\ state = 6 /\ Complete /\ Accept(0) /\ Processed
    BY <1>5 DEF Finish3500, Finish3501
  <2> QED BY <1>0, <1>3, <2>1, FinishFound
<1> QED
  BY <1>1, <1>2, <1>4, <1>5 DEF Next, processImageGPSData

(* In what has been parsed, there is no whole message behind the place the  *)
(* search goes on from.                                                     *)
LEMMA NothingYet ==
  ASSUME FrameOK, BufferOK, HeaderOK, Held
  PROVE  At(pos, Start) = << >>
<1> DEFINE p == Start
<1>0. pos \in Nat /\ Len(stream) \in Nat /\ pos \in 0 .. Len(stream)
      /\ state \in 0 .. 6 /\ buffered \in Nat
  BY StreamWords, FrameWordsAssumption, Sizes DEF FrameOK, BufferOK
<1>1. p \in 1 .. pos + 1 /\ (state = 0 => p = pos + 1)
      /\ (state # 0 => p = pos + 1 - buffered)
      /\ (state \in 1 .. 5 => p = pos + 1 - state)
  BY HeaderSeen
<1>2. Seen(pos) \in Seq(Word) /\ Len(Seen(pos)) = pos
      /\ \A i \in 1 .. pos : Seen(pos)[i] = stream[i]
  BY <1>0, SeenIs
<1> HIDE DEF p
<1>3. At(pos, pos + 1) = << >>
  BY <1>2, AtTheEnd DEF At
<1>4. ASSUME NEW q \in 1 .. pos, q + 4 > pos PROVE At(pos, q) = At(pos, q + 1)
  BY <1>0, <1>4, TooLateHere
<1>5. ASSUME NEW q \in 1 .. pos + 1, q + 4 > pos PROVE At(pos, q) = << >>
  <2>1. q = pos + 1 \/ q = pos \/ q = pos - 1 \/ q = pos - 2 \/ q = pos - 3
    BY <1>0, <1>5
  <2>2. q <= pos => At(pos, pos) = << >>
    <3>1. q <= pos => pos \in 1 .. pos /\ pos + 4 > pos
      BY <1>0
    <3> QED BY <1>3, <1>4, <3>1
  <2>3. q <= pos - 1 => At(pos, pos - 1) = << >>
    <3>1. q <= pos - 1 => pos - 1 \in 1 .. pos /\ pos - 1 + 4 > pos /\ q <= pos
                          /\ pos - 1 + 1 = pos
      BY <1>0
    <3> QED BY <1>4, <2>2, <3>1
  <2>4. q <= pos - 2 => At(pos, pos - 2) = << >>
    <3>1. q <= pos - 2 => pos - 2 \in 1 .. pos /\ pos - 2 + 4 > pos /\ q <= pos - 1
                          /\ pos - 2 + 1 = pos - 1
      BY <1>0
    <3> QED BY <1>4, <2>3, <3>1
  <2>5. q <= pos - 3 => At(pos, pos - 3) = << >>
    <3>1. q <= pos - 3 => pos - 3 \in 1 .. pos /\ pos - 3 + 4 > pos /\ q <= pos - 2
                          /\ pos - 3 + 1 = pos - 2
      BY <1>0
    <3> QED BY <1>4, <2>4, <3>1
  <2> QED BY <1>0, <1>3, <2>1, <2>2, <2>3, <2>4, <2>5
<1>6. CASE state \in 0 .. 4
  <2>1. p + 4 > pos
    BY <1>0, <1>1, <1>6
  <2> QED BY <1>1, <1>5, <2>1 DEF p
<1>7. CASE state \in {5, 6}
  <2>0. Size(msg[1]) \in 7 .. MaxWords /\ MaxWords \in Nat
    BY Sizes
  <2>1. /\ state = 5 => p = pos - 4
        /\ state = 6 => p = pos + 1 - buffered /\ buffered \in 6 .. Size(msg[1]) - 1
    BY <1>0, <1>1, <1>7 DEF HeaderOK
  <2>2. p \in 1 .. pos /\ p + 1 \in 1 .. pos /\ p + Size(msg[1]) - 1 > pos
    BY <1>0, <1>1, <1>7, <2>0, <2>1
  <2>3. Seen(pos)[p + 1] = msg[1]
    <3>1. stream[p + 1] = msg[1]
      BY <1>7, HeaderSeen DEF p
    <3> QED BY <1>2, <2>2, <3>1
  <2>4. EndOf(Seen(pos), p) > Len(Seen(pos))
    BY <1>2, <2>2, <2>3 DEF EndOf
  <2>5. CASE Begins(Seen(pos), p)
    BY <1>2, <2>2, <2>4, <2>5, CutOff DEF At, p
  <2>6. CASE ~Begins(Seen(pos), p) /\ state = 5
    <3>1. At(pos, p) = At(pos, p + 1)
      BY <1>0, <2>2, <2>6, NoMessageHere
    <3>2. p + 1 \in 1 .. pos + 1 /\ p + 1 + 4 > pos
      BY <1>0, <2>1, <2>2, <2>6
    <3> QED BY <1>5, <3>1, <3>2 DEF p
  <2>7. CASE state = 6
    <3>1. 6 >= 1 /\ 6 >= 2 /\ 6 >= 3 /\ 6 >= 4 /\ 6 >= 5
      OBVIOUS
    <3>2. /\ stream[p] = GPS_MAGIC_NUMBER /\ stream[p + 1] = msg[1]
          /\ msg[1] \in Types /\ stream[p + 2] = Size(msg[1]) - 6
          /\ stream[p + 3] = msg[3] /\ msg[3] # GPS_MAGIC_NUMBER
          /\ stream[p + 4] = msg[4]
      BY <2>7, <3>1, HeaderSeen DEF p
    <3>3. msg[4] = Checksum(msg[0], msg[1], msg[2], msg[3])
          /\ msg[0] = GPS_MAGIC_NUMBER /\ msg[2] = Size(msg[1]) - 6
      BY <2>7, <3>1 DEF HeaderOK
    <3>4. stream[p + 4] = Checksum(stream[p], stream[p + 1], stream[p + 2], stream[p + 3])
      BY <3>2, <3>3, Zenon
    <3>5. stream[p + 1] \in Types /\ stream[p + 2] = Size(stream[p + 1]) - 6
          /\ stream[p + 3] # GPS_MAGIC_NUMBER
      BY <3>2, Zenon
    <3>6. p + 4 <= pos
      BY <1>0, <2>0, <2>1, <2>2, <2>7
    <3>7. Begins(Seen(pos), p)
      BY <1>0, <2>2, <3>2, <3>4, <3>5, <3>6, BeginsInStream
    <3> QED BY <2>5, <3>7
  <2> QED BY <1>7, <2>5, <2>6, <2>7
<1> QED BY <1>0, <1>6, <1>7

(* Exactly the messages that the GPS sent are processed, for every stream,  *)
(* behind whatever false starts, as long as no frame ended between a type   *)
(* and its length.                                                          *)
THEOREM NoMessageMissed == Spec => []MessagesFound
<1>1. FoundInv => MessagesFound
  <2> SUFFICES ASSUME FoundInv, ~split PROVE log = Messages(Seen(pos))
    BY DEF MessagesFound, Seen
  <2>1. FrameOK /\ BufferOK /\ HeaderOK /\ LogOK /\ Held /\ SoFar
    BY Parts DEF FoundInv
  <2>2. pos \in pos .. Len(stream) /\ 1 \in 1 .. 2
    BY <2>1, StreamWords, FrameWordsAssumption DEF FrameOK
  <2>3. At(pos, 1) = log \o At(pos, Start) /\ At(pos, Start) = << >>
    BY <2>1, <2>2, NothingYet DEF SoFar
  <2>4. At(pos, 1) = log
    BY <2>1, <2>3 DEF LogOK
  <2> QED BY <2>4 DEF At, Messages
<1> QED BY <1>1, FoundInit, FoundNext, PTL DEF Spec

-----------------------------------------------------------------------------
(* Ftp: types, and what each handler on the stack knows                    *)

CommandsOf(op) ==
  CASE op = "refresh" -> {"greeting", "user", "pass", "cwd", "type", "pasv", "nlst",
                          "size", "mdtm"}
    [] op = "export" -> {"type", "pasv", "retr"}
    [] op = "delete" -> {"dele"}

\* A handler sends the commands of its operation, names a file with those that
\* are about one, and waits for names only when it lists.
Fit ==
  {h \in Handlers :
     /\ h.cmd \in CommandsOf(h.op)
     /\ h.phase = "names" => h.op = "refresh" /\ h.cmd \in {"nlst", "mdtm"}
     /\ h.op # "refresh" \/ h.cmd \in {"size", "mdtm"} => h.file \in Files
     /\ h.cmd \notin {"size", "mdtm"} => h.names = {}}

\* No handler, and not m_ftp either, has a connection that was never made.
MadeOK ==
  /\ \A i \in 1..Len(stack) : conn[stack[i].ftp] # "none"
  /\ mFtp # 0 => conn[mFtp] # "none"

(* FtpTypeOK by what changes together.                                      *)
TabOK ==
  /\ mFtp \in 0..MaxConns /\ made \in 0..MaxConns
  /\ conn \in [Conns -> {"none", "open", "null", "freed"}]
  /\ rows \subseteq Files /\ selected \subseteq rows

StackOK == stack \in Seq(Fit)

LinesOK ==
  /\ owed \in [Conns -> Seq(Pending)] /\ inbox \in [Conns -> Seq({2, 3, 5})]
  /\ data \in [Conns -> SUBSET Files] /\ server \subseteq Files

SaidOK ==
  /\ local \in [Files -> {"none", "part", "short", "whole"}]
  /\ deleted \subseteq Files /\ fetched \subseteq Files

FlagsOK ==
  /\ broken \in {"", "null", "freed", "row"}
  /\ clicks \in 0..MaxClicks /\ faults \in 0..MaxFaults /\ lates \in 0..MaxLates
  /\ nested \in BOOLEAN /\ cut \in BOOLEAN /\ lost \in BOOLEAN

Typed == TabOK /\ StackOK /\ MadeOK /\ LinesOK /\ SaidOK /\ FlagsOK

LEMMA FtpTypes == ASSUME Typed PROVE FtpTypeOK
<1>1. stack \in Seq(Handlers)
  BY DEF Typed, StackOK, Fit
<1> QED BY <1>1 DEF Typed, FtpTypeOK, TabOK, LinesOK, SaidOK, FlagsOK

(* The least of some files is one of them.                                  *)
LEMMA LeastFile ==
  ASSUME NEW some, some \subseteq Files, some # {}
  PROVE  Min(some) \in some
<1>1. some \subseteq Nat
  BY FtpAssumption DEF Files
<1>2. \E x \in some : \A y \in some : x <= y
  BY <1>1, LeastNatural
<1> QED BY <1>2 DEF Min

-----------------------------------------------------------------------------
(* The stack of handlers                                                    *)

LEMMA TopIsHandler ==
  ASSUME StackOK, stack # <<>>
  PROVE  Top \in Fit /\ Len(stack) \in Nat \ {0} /\ Top = stack[Len(stack)]
BY DEF StackOK, Top, Last

LEMMA BelowIsStack ==
  ASSUME StackOK, stack # <<>>
  PROVE  /\ Below \in Seq(Fit) /\ Len(Below) = Len(stack) - 1
         /\ \A i \in 1..Len(Below) : Below[i] = stack[i]
<1> DEFINE n == Len(stack) - 1
<1>1. stack \in Seq(Fit) /\ n \in Nat /\ n + 1 = Len(stack)
  BY TopIsHandler DEF StackOK
<1>2. Below = SubSeq(stack, 1, n)
  BY DEF Below, Front
<1>3. \A i \in 1..n : i \in 1..Len(stack) /\ stack[i] \in Fit
  BY <1>1
<1> HIDE DEF n
<1>4. /\ SubSeq(stack, 1, n) \in Seq(Fit) /\ Len(SubSeq(stack, 1, n)) = n
      /\ \A i \in 1..n : SubSeq(stack, 1, n)[i] = stack[i]
  BY <1>1, <1>3, SubSeqProperties
<1> QED BY <1>1, <1>2, <1>4 DEF n

LEMMA HandlerGoesOn ==
  ASSUME StackOK, stack # <<>>, NEW to \in Fit, Goes(to)
  PROVE  /\ StackOK' /\ stack' # <<>> /\ Top' = to /\ Len(stack') = Len(stack)
         /\ \A i \in 1..Len(stack') :
                stack'[i] = to \/ (i \in 1..Len(stack) /\ stack'[i] = stack[i])
<1>1. Below \in Seq(Fit) /\ Len(Below) = Len(stack) - 1 /\ Len(stack) \in Nat \ {0}
  BY BelowIsStack, TopIsHandler
<1>2. stack' = Append(Below, to)
  BY DEF Goes
<1>3. /\ stack' \in Seq(Fit) /\ Len(stack') = Len(stack) /\ stack'[Len(stack')] = to
      /\ \A i \in 1..Len(Below) : stack'[i] = Below[i]
  BY <1>1, <1>2
<1>4. StackOK' /\ stack' # <<>> /\ Top' = to
  BY <1>1, <1>3 DEF StackOK, Top, Last
<1>5. ASSUME NEW i \in 1..Len(stack')
      PROVE  stack'[i] = to \/ (i \in 1..Len(stack) /\ stack'[i] = stack[i])
  <2>1. CASE i = Len(stack)
    BY <1>3, <2>1
  <2>2. CASE i # Len(stack)
    <3>1. i \in 1..Len(Below) /\ i \in 1..Len(stack)
      BY <1>1, <1>3, <2>2
    <3> QED BY <3>1, <1>3, BelowIsStack
  <2> QED BY <2>1, <2>2
<1> QED BY <1>3, <1>4, <1>5

LEMMA HandlerReturns ==
  ASSUME StackOK, stack # <<>>, stack' = Below
  PROVE  /\ StackOK' /\ Len(stack') = Len(stack) - 1
         /\ \A i \in 1..Len(stack') : i \in 1..Len(stack) /\ stack'[i] = stack[i]
<1>1. Below \in Seq(Fit) /\ Len(Below) = Len(stack) - 1 /\ Len(stack) \in Nat \ {0}
      /\ \A i \in 1..Len(Below) : Below[i] = stack[i]
  BY BelowIsStack, TopIsHandler
<1>2. StackOK' /\ Len(stack') = Len(stack) - 1
  BY <1>1 DEF StackOK
<1>3. ASSUME NEW i \in 1..Len(stack') PROVE i \in 1..Len(stack) /\ stack'[i] = stack[i]
  BY <1>1
<1> QED BY <1>2, <1>3

LEMMA HandlerStarts ==
  ASSUME StackOK, NEW h \in Fit, stack' = Append(stack, h)
  PROVE  /\ StackOK' /\ stack' # <<>> /\ Top' = h /\ Len(stack') = Len(stack) + 1
         /\ \A i \in 1..Len(stack') :
                stack'[i] = h \/ (i \in 1..Len(stack) /\ stack'[i] = stack[i])
<1>1. /\ stack' \in Seq(Fit) /\ Len(stack') = Len(stack) + 1 /\ Len(stack) \in Nat
      /\ stack'[Len(stack')] = h /\ \A i \in 1..Len(stack) : stack'[i] = stack[i]
  BY DEF StackOK
<1>2. StackOK' /\ stack' # <<>> /\ Top' = h
  BY <1>1 DEF StackOK, Top, Last
<1>3. ASSUME NEW i \in 1..Len(stack')
      PROVE  stack'[i] = h \/ (i \in 1..Len(stack) /\ stack'[i] = stack[i])
  <2>1. CASE i = Len(stack')
    BY <1>1, <2>1
  <2>2. CASE i # Len(stack')
    <3>1. i \in 1..Len(stack)
      BY <1>1, <2>2
    <3> QED BY <3>1, <1>1
  <2> QED BY <2>1, <2>2
<1> QED BY <1>1, <1>2, <1>3

LEMMA TopFields ==
  ASSUME StackOK, stack # <<>>
  PROVE  /\ Top \in Handlers /\ Top.ftp \in Conns /\ Top.file \in 0..NumFiles
         /\ Top.cmd \in CommandsOf(Top.op) /\ Top.op \in {"refresh", "export", "delete"}
         /\ Top.good \in BOOLEAN /\ Top.names \subseteq Files
         /\ Top.phase \in {"log", "wait", "line", "names"}
         /\ (Top.phase = "names" => Top.op = "refresh" /\ Top.cmd \in {"nlst", "mdtm"})
         /\ (Top.op # "refresh" \/ Top.cmd \in {"size", "mdtm"} => Top.file \in Files)
         /\ (Top.cmd \notin {"size", "mdtm"} => Top.names = {})
<1>1. Top \in Fit
  BY TopIsHandler
<1> QED BY <1>1 DEF Fit, Handlers

(* Another command, place, file, name or result of a handler.                *)
LEMMA Replaced ==
  ASSUME NEW h \in Handlers, NEW c \in Commands, NEW f \in 0..NumFiles,
         NEW p \in {"log", "wait", "line", "names"}, NEW b \in BOOLEAN,
         NEW n, n \subseteq Files,
         NEW to, to = [h EXCEPT !.cmd = c, !.file = f, !.phase = p, !.good = b, !.names = n]
  PROVE  /\ to \in Handlers /\ to.op = h.op /\ to.ftp = h.ftp /\ to.cmd = c /\ to.file = f
         /\ to.phase = p /\ to.good = b /\ to.names = n
  BY DEF Handlers

LEMMA Sent ==
  ASSUME NEW h \in Handlers, NEW c \in Commands, NEW to,
         to = [h EXCEPT !.cmd = c, !.phase = "log", !.good = FALSE]
  PROVE  /\ to \in Handlers /\ to.op = h.op /\ to.ftp = h.ftp /\ to.cmd = c
         /\ to.file = h.file /\ to.phase = "log" /\ to.good = FALSE /\ to.names = h.names
  BY DEF Handlers

-----------------------------------------------------------------------------
(* Typed, step by step                                                      *)

Kept == \A g \in Conns : conn[g] # "none" => conn'[g] # "none"

LEMMA GoesOnMade ==
  ASSUME TabOK, StackOK, MadeOK, stack # <<>>, Kept, NEW to \in Fit, Goes(to),
         to.ftp = Top.ftp, mFtp' \in {0, mFtp, Top.ftp}
  PROVE  StackOK' /\ MadeOK'
<1>1. /\ StackOK' /\ Top \in Handlers /\ Top = stack[Len(stack)] /\ Len(stack) \in Nat \ {0}
      /\ \A i \in 1..Len(stack') :
             stack'[i] = to \/ (i \in 1..Len(stack) /\ stack'[i] = stack[i])
  BY HandlerGoesOn, TopIsHandler, TopFields
<1>2. \A i \in 1..Len(stack) : stack[i].ftp \in Conns
  BY DEF StackOK, Fit, Handlers
<1>3. conn[Top.ftp] # "none" /\ Top.ftp \in Conns
  BY <1>1, <1>2 DEF MadeOK
<1>4. \A i \in 1..Len(stack') : conn'[stack'[i].ftp] # "none"
  BY <1>1, <1>2, <1>3 DEF MadeOK, Kept
<1>5. mFtp' # 0 => conn'[mFtp'] # "none"
  <2>1. mFtp # 0 => mFtp \in Conns
    BY FtpAssumption DEF TabOK, Conns
  <2> QED BY <2>1, <1>3 DEF MadeOK, Kept
<1> QED BY <1>1, <1>4, <1>5 DEF MadeOK

LEMMA ReturnsMade ==
  ASSUME TabOK, StackOK, MadeOK, stack # <<>>, Kept, stack' = Below, mFtp' \in {0, mFtp}
  PROVE  StackOK' /\ MadeOK'
<1>1. /\ StackOK'
      /\ \A i \in 1..Len(stack') : i \in 1..Len(stack) /\ stack'[i] = stack[i]
  BY HandlerReturns
<1>2. \A i \in 1..Len(stack) : stack[i].ftp \in Conns
  BY DEF StackOK, Fit, Handlers
<1>3. mFtp # 0 => mFtp \in Conns
  BY FtpAssumption DEF TabOK, Conns
<1> QED BY <1>1, <1>2, <1>3 DEF MadeOK, Kept

LEMMA SameMade ==
  ASSUME StackOK, MadeOK, UNCHANGED <<stack, conn, mFtp>>
  PROVE  StackOK' /\ MadeOK'
  BY DEF StackOK, MadeOK

LEMMA StartsMade ==
  ASSUME TabOK, StackOK, MadeOK, Kept, NEW h \in Fit, stack' = Append(stack, h),
         conn'[h.ftp] # "none", mFtp' \in {0, mFtp}
  PROVE  StackOK' /\ MadeOK'
<1>1. /\ StackOK'
      /\ \A i \in 1..Len(stack') :
             stack'[i] = h \/ (i \in 1..Len(stack) /\ stack'[i] = stack[i])
  BY HandlerStarts
<1>2. \A i \in 1..Len(stack) : stack[i].ftp \in Conns
  BY DEF StackOK, Fit, Handlers
<1>3. mFtp # 0 => mFtp \in Conns
  BY FtpAssumption DEF TabOK, Conns
<1> QED BY <1>1, <1>2, <1>3 DEF MadeOK, Kept

LEMMA CounterOK ==
  ASSUME NEW max \in Nat, NEW n \in 0..max, NEW m, m = n \/ (n < max /\ m = n + 1)
  PROVE  m \in 0..max
OBVIOUS

LEMMA TypesFlags ==
  ASSUME FlagsOK, broken' \in {"", "null", "freed", "row"}, clicks' \in 0..MaxClicks,
         UNCHANGED faults \/ Fault,
         lates' = lates \/ (lates < MaxLates /\ lates' = lates + 1),
         nested' \in BOOLEAN, cut' \in BOOLEAN, lost' \in BOOLEAN
  PROVE  FlagsOK'
<1>1. faults \in 0..MaxFaults /\ lates \in 0..MaxLates
  BY DEF FlagsOK
<1>2. faults' \in 0..MaxFaults
  <2>1. faults' = faults \/ (faults < MaxFaults /\ faults' = faults + 1)
    BY DEF Fault
  <2> QED BY <1>1, <2>1, FtpAssumption, CounterOK, Zenon
<1>3. lates' \in 0..MaxLates
  BY <1>1, FtpAssumption, CounterOK, Zenon
<1> QED BY <1>2, <1>3 DEF FlagsOK

LEMMA ClicksFlags ==
  ASSUME FlagsOK, MayClick
  PROVE  clicks' \in 0..MaxClicks /\ nested' \in BOOLEAN /\ broken = ""
<1>1. clicks < MaxClicks /\ clicks' = clicks + 1
  BY DEF MayClick
<1>2. clicks \in 0..MaxClicks
  BY DEF FlagsOK
<1>3. clicks' \in 0..MaxClicks
  BY <1>1, <1>2, FtpAssumption, CounterOK, Zenon
<1>4. broken = "" /\ nested' = (nested \/ stack # <<>>)
  BY DEF MayClick
<1>5. nested' \in BOOLEAN
  BY <1>4
<1> QED BY <1>3, <1>4, <1>5

LEMMA RefreshTypes ==
  ASSUME Typed, Refresh PROVE Typed'
<1> USE DEF Typed
<1>1. MayClick /\ made < MaxConns /\ made' = made + 1 /\ rows' = {} /\ selected' = {}
  BY DEF Refresh
<1>2. /\ broken' = (IF mFtp # 0 /\ conn[mFtp] = "freed" THEN "freed" ELSE broken)
      /\ lost' = FALSE /\ mFtp' = 0
  BY DEF Refresh, Cleared
<1>3. UNCHANGED <<inbox, data, server, saidVars, lates, cut>>
  BY DEF Refresh
<1> DEFINE freed == [g \in Conns |-> IF g = mFtp THEN "freed" ELSE conn[g]]
           new == made + 1
           h == Handler("refresh", new, "greeting", 0, "wait")
<1>4. \/ /\ conn' = [freed EXCEPT ![new] = "open"]
         /\ owed' = [owed EXCEPT ![new] = <<[cmd |-> "greeting", file |-> 0]>>]
         /\ stack' = Append(stack, h)
         /\ UNCHANGED faults
      \/ Fault /\ conn' = freed /\ UNCHANGED <<owed, stack>>
  BY DEF Refresh
<1>5. new \in Conns
  BY <1>1, FtpAssumption DEF TabOK, Conns
<1>6. /\ freed \in [Conns -> {"none", "open", "null", "freed"}]
      /\ \A g \in Conns : conn[g] # "none" => freed[g] # "none"
  BY DEF TabOK
<1>7. h \in Fit /\ h.ftp = new
  BY <1>5, FtpAssumption DEF Fit, Handler, Handlers, Commands, CommandsOf, Files
<1> HIDE DEF freed, h, new
<1>8. TabOK'
  <2>1. conn' \in [Conns -> {"none", "open", "null", "freed"}]
    BY <1>4, <1>6
  <2>2. made' \in 0..MaxConns /\ mFtp' \in 0..MaxConns
    BY <1>1, <1>2, FtpAssumption DEF TabOK
  <2> QED BY <1>1, <2>1, <2>2 DEF TabOK
<1>9. StackOK' /\ MadeOK'
  <2>1. Kept
    BY <1>4, <1>6 DEF Kept
  <2>2. CASE stack' = Append(stack, h) /\ conn' = [freed EXCEPT ![new] = "open"]
    <3>1. conn'[h.ftp] # "none"
      BY <2>2, <1>5, <1>6, <1>7
    <3> QED BY <2>1, <2>2, <3>1, <1>2, <1>7, StartsMade
  <2>3. CASE stack' = stack
    <3>1. MadeOK'
      <4>1. \A i \in 1..Len(stack) : stack[i].ftp \in Conns
        BY DEF StackOK, Fit, Handlers
      <4> QED BY <4>1, <2>1, <2>3, <1>2 DEF MadeOK, Kept
    <3> QED BY <3>1, <2>3 DEF StackOK
  <2> QED BY <1>4, <2>2, <2>3
<1>10. LinesOK'
  <2>1. <<[cmd |-> "greeting", file |-> 0]>> \in Seq(Pending)
    BY FtpAssumption DEF Pending, Commands
  <2>2. owed' \in [Conns -> Seq(Pending)]
    BY <1>4, <2>1, <1>5 DEF LinesOK
  <2> QED BY <2>2, <1>3 DEF LinesOK
<1>11. SaidOK'
  BY <1>3 DEF SaidOK, saidVars
<1>12. FlagsOK'
  <2>1. broken' \in {"", "null", "freed", "row"}
    BY <1>2 DEF FlagsOK
  <2>2. UNCHANGED faults \/ Fault
    BY <1>4
  <2>3. clicks' \in 0..MaxClicks
    BY <1>1, ClicksFlags
  <2>4. nested' \in BOOLEAN
    BY <1>1, ClicksFlags
  <2> QED BY <1>2, <1>3, <2>1, <2>2, <2>3, <2>4, TypesFlags DEF FlagsOK
<1> QED BY <1>8, <1>9, <1>10, <1>11, <1>12

LEMMA BeginTypes ==
  ASSUME Typed, Export \/ Delete PROVE Typed'
<1> USE DEF Typed
<1>1. PICK op \in {"export", "delete"}, cmd \in {"type", "dele"} :
         Begin(op, cmd) /\ cmd \in CommandsOf(op)
  BY DEF Export, Delete, CommandsOf
<1>2. PICK chosen \in (SUBSET rows) \ {{}} :
         /\ selected' = chosen
         /\ stack' = Append(stack, Handler(op, mFtp, cmd, Min(chosen), "log"))
  BY <1>1 DEF Begin
<1>3. MayClick /\ mFtp # 0 /\ UNCHANGED <<mFtp, made, conn, rows, netVars, saidVars, broken,
                                          faults, lates, cut, lost>>
  BY <1>1 DEF Begin
<1>4. Min(chosen) \in chosen /\ chosen \subseteq rows /\ rows \subseteq Files
  BY LeastFile DEF TabOK
<1>5. Handler(op, mFtp, cmd, Min(chosen), "log") \in Fit
      /\ Handler(op, mFtp, cmd, Min(chosen), "log").ftp = mFtp
  <2>1. mFtp \in Conns /\ Min(chosen) \in Files /\ Min(chosen) \in 0..NumFiles
    <3>1. Min(chosen) \in Files
      BY <1>4
    <3>2. mFtp \in Conns
      BY <1>3, FtpAssumption DEF TabOK, Conns
    <3> QED BY <3>1, <3>2, FtpAssumption DEF Files
  <2> QED BY <1>1, <2>1 DEF Fit, Handler, Handlers, Commands
<1>6. TabOK'
  BY <1>2, <1>3 DEF TabOK
<1>7. StackOK' /\ MadeOK'
  <2>1. Kept /\ conn'[mFtp] # "none"
    BY <1>3 DEF Kept, MadeOK
  <2> QED BY <1>2, <1>3, <1>5, <2>1, StartsMade
<1>8. LinesOK' /\ SaidOK'
  BY <1>3 DEF LinesOK, SaidOK, netVars, saidVars
<1>9. FlagsOK'
  <2>1. clicks' \in 0..MaxClicks /\ nested' \in BOOLEAN
    BY <1>3, ClicksFlags
  <2> QED BY <1>3, <2>1, TypesFlags DEF FlagsOK
<1> QED BY <1>6, <1>7, <1>8, <1>9

LEMMA GivesUpTypes ==
  ASSUME Typed, Going, GivesUp, UNCHANGED <<mFtp, conn>>
  PROVE  StackOK' /\ MadeOK' /\ lost' \in BOOLEAN /\ broken' = "" /\ selected' = selected
<1>1. stack # <<>> /\ broken = "" /\ stack' = Below /\ UNCHANGED <<selected, broken>>
  BY DEF Going, GivesUp
<1>2. StackOK' /\ MadeOK'
  BY <1>1, ReturnsMade DEF Typed, Kept
<1>3. lost' = (lost \/ Top.op # "refresh")
  BY DEF GivesUp
<1>4. lost' \in BOOLEAN
  BY <1>3
<1> QED BY <1>1, <1>2, <1>4

LEMMA DropsTypes ==
  ASSUME Typed, Going, Drops, UNCHANGED <<made, rows>>
  PROVE  /\ TabOK' /\ StackOK' /\ MadeOK' /\ lost' \in BOOLEAN /\ broken' = ""
         /\ inbox' \in [Conns -> Seq({2, 3, 5})]
<1>1. /\ stack # <<>> /\ broken = "" /\ stack' = Below /\ UNCHANGED <<selected, broken>>
      /\ lost' = (lost \/ Top.op # "refresh") /\ inbox' = [inbox EXCEPT ![Top.ftp] = <<>>]
  BY DEF Going, GivesUp, Drops
<1>2. \/ conn' = [conn EXCEPT ![Top.ftp] = "freed"] /\ mFtp' = 0
      \/ conn' = [conn EXCEPT ![Top.ftp] = "null"] /\ mFtp' = mFtp
  BY DEF Drops, Cleared
<1>3. Kept /\ conn' \in [Conns -> {"none", "open", "null", "freed"}]
  BY <1>2 DEF Kept, Typed, TabOK
<1>4. StackOK' /\ MadeOK'
  BY <1>1, <1>2, <1>3, ReturnsMade DEF Typed
<1>5. TabOK'
  <2>1. mFtp' \in 0..MaxConns
    BY <1>2, FtpAssumption DEF Typed, TabOK
  <2> QED BY <1>1, <1>3, <2>1 DEF Typed, TabOK
<1>6. inbox' \in [Conns -> Seq({2, 3, 5})]
  <2>1. <<>> \in Seq({2, 3, 5})
    OBVIOUS
  <2> QED BY <1>1, <2>1 DEF Typed, LinesOK
<1>7. lost' \in BOOLEAN
  BY <1>1
<1> QED BY <1>1, <1>4, <1>5, <1>6, <1>7

LEMMA AdvancesTypes ==
  ASSUME Typed, Going, Advances(selected), UNCHANGED <<mFtp, conn>>,
         Top.op \in {"export", "delete"}
  PROVE  StackOK' /\ MadeOK' /\ lost' = lost /\ broken' \in {"", "row"}
<1> DEFINE later == {f \in selected : f > Top.file}
           first == IF Top.op = "export" THEN "type" ELSE "dele"
           to == [Top EXCEPT !.file = Min(later), !.phase = "log", !.good = FALSE,
                             !.cmd = first]
<1>1. /\ lost' = lost /\ stack # <<>> /\ broken = ""
      /\ \/ broken' = "row" /\ stack' = stack
         \/ broken' = broken /\ later = {} /\ stack' = Below
         \/ broken' = broken /\ later # {} /\ Goes(to)
  BY DEF Advances, Going
<1>2. Kept
  BY DEF Kept
<1>3. CASE stack' = stack
  BY <1>1, <1>3, SameMade DEF Typed
<1>4. CASE stack' = Below
  BY <1>1, <1>2, <1>4, ReturnsMade DEF Typed
<1>5. CASE later # {} /\ Goes(to)
  <2>1. Min(later) \in Files /\ Min(later) \in 0..NumFiles
    <3>1. later \subseteq Files
      BY DEF Typed, TabOK
    <3> HIDE DEF later
    <3>2. Min(later) \in Files
      BY <1>5, <3>1, LeastFile
    <3> QED BY <3>2, FtpAssumption DEF Files
  <2>2. to \in Fit /\ to.ftp = Top.ftp
    <3> HIDE DEF later
    <3>1. Top \in Handlers
      BY <1>1, TopFields DEF Typed
    <3>2. Top.names = {}
      BY <1>1, TopFields DEF Typed, CommandsOf
    <3> QED BY <3>1, <3>2, <2>1 DEF Fit, Handlers, Commands, CommandsOf
  <2> HIDE DEF to
  <2> QED BY <1>1, <1>2, <1>5, <2>2, GoesOnMade DEF Typed
<1> QED BY <1>1, <1>3, <1>4, <1>5

LEMMA TimesOutLate ==
  ASSUME TimesOut
  PROVE  /\ lates' = lates \/ (lates < MaxLates /\ lates' = lates + 1)
         /\ (lates' = lates \/ owed[Top.ftp] # <<>>)
  BY DEF TimesOut

LEMMA UsesNoneTypes ==
  ASSUME Typed, UsesNone PROVE Typed'
<1> USE DEF Typed
<1>1. /\ stack # <<>> /\ broken' = conn[Top.ftp] /\ conn[Top.ftp] # "open"
      /\ UNCHANGED <<mFtp, conn, selected, stack, netVars, faults, lates, lost, Rest>>
  BY DEF UsesNone, Going, Open
<1>2. TabOK' /\ LinesOK' /\ SaidOK'
  BY <1>1 DEF TabOK, LinesOK, SaidOK, Rest, netVars, saidVars
<1>3. StackOK' /\ MadeOK'
  BY <1>1, SameMade
<1>4. FlagsOK'
  <2>1. Top.ftp \in Conns /\ Top = stack[Len(stack)] /\ Len(stack) \in 1..Len(stack)
    BY <1>1, TopFields, TopIsHandler
  <2>2. conn[Top.ftp] \in {"null", "freed"}
    BY <1>1, <2>1 DEF MadeOK, TabOK
  <2> QED BY <1>1, <2>2 DEF FlagsOK, Rest
<1> QED BY <1>2, <1>3, <1>4

LEMMA SendTypes ==
  ASSUME Typed, Send PROVE Typed'
<1> USE DEF Typed
<1>1. /\ Going /\ stack # <<>> /\ broken = "" /\ Top.phase = "log"
      /\ UNCHANGED <<data, server, lates, Rest>>
  BY DEF Send, Going
<1>2. /\ Top \in Handlers /\ Top \in Fit /\ Top.ftp \in Conns /\ Top.file \in 0..NumFiles
      /\ Top.cmd \in CommandsOf(Top.op) /\ Top.op \in {"refresh", "export", "delete"}
  BY <1>1, TopFields, TopIsHandler
<1>3. SaidOK' /\ made' = made /\ rows' = rows /\ UNCHANGED <<clicks, nested, cut>>
  BY <1>1 DEF SaidOK, Rest, saidVars
<1> DEFINE to == [Top EXCEPT !.phase = IF Top.cmd = "nlst" THEN "names" ELSE "wait"]
           one == [cmd |-> Top.cmd, file |-> Top.file]
<1>4. CASE /\ owed' = [owed EXCEPT ![Top.ftp] = Append(@, one)] /\ Goes(to)
           /\ UNCHANGED <<mFtp, conn, inbox, faults, lost, selected, broken>>
  <2>1. to \in Fit /\ to.ftp = Top.ftp
    BY <1>2 DEF Fit, Handlers, CommandsOf
  <2>2. one \in Pending
    BY <1>2 DEF Pending, Handlers
  <2> HIDE DEF to, one
  <2>3. StackOK' /\ MadeOK'
    BY <1>1, <1>4, <2>1, GoesOnMade DEF Kept
  <2>4. owed' \in [Conns -> Seq(Pending)]
    BY <1>4, <1>2, <2>2 DEF LinesOK
  <2>5. TabOK' /\ LinesOK' /\ FlagsOK'
    BY <1>1, <1>3, <1>4, <2>4 DEF TabOK, LinesOK, FlagsOK
  <2> QED BY <1>3, <2>3, <2>5
<1>5. CASE Fault /\ Drops /\ UNCHANGED owed
  <2>1. /\ TabOK' /\ StackOK' /\ MadeOK' /\ lost' \in BOOLEAN /\ broken' = ""
        /\ inbox' \in [Conns -> Seq({2, 3, 5})]
    BY <1>1, <1>3, <1>5, DropsTypes
  <2>2. LinesOK'
    BY <1>1, <1>5, <2>1 DEF LinesOK
  <2>3. FlagsOK'
    BY <1>1, <1>3, <1>5, <2>1, TypesFlags DEF FlagsOK
  <2> QED BY <1>3, <2>1, <2>2, <2>3
<1> QED BY <1>4, <1>5 DEF Send

LEMMA ReadsTypes ==
  ASSUME Typed, Reads PROVE Typed'
<1> USE DEF Typed
<1> DEFINE to == [Top EXCEPT !.phase = "line",
                             !.good = @ \/ Expected(Top.cmd, Head(inbox[Top.ftp]))]
<1>1. /\ stack # <<>> /\ Top.phase \in {"wait", "line"} /\ inbox[Top.ftp] # <<>>
      /\ inbox' = [inbox EXCEPT ![Top.ftp] = Tail(@)] /\ Goes(to)
      /\ UNCHANGED <<mFtp, conn, selected, owed, data, server, broken, faults, lates,
                     lost, Rest>>
  BY DEF Reads, Going
<1>2. Top \in Handlers /\ Top \in Fit /\ Top.ftp \in Conns
  BY <1>1, TopFields, TopIsHandler
<1>3. to \in Fit /\ to.ftp = Top.ftp
  <2>1. (Top.good \/ Expected(Top.cmd, Head(inbox[Top.ftp]))) \in BOOLEAN
    BY DEF Expected
  <2> QED BY <1>2, <2>1 DEF Fit, Handlers
<1> HIDE DEF to
<1>4. StackOK' /\ MadeOK'
  BY <1>1, <1>3, GoesOnMade DEF Kept
<1>5. inbox' \in [Conns -> Seq({2, 3, 5})]
  <2>1. inbox[Top.ftp] \in Seq({2, 3, 5})
    BY <1>2 DEF LinesOK
  <2>2. Tail(inbox[Top.ftp]) \in Seq({2, 3, 5})
    BY <1>1, <2>1, HeadTailProperties
  <2> QED BY <1>1, <2>2 DEF LinesOK
<1>6. TabOK' /\ LinesOK' /\ SaidOK' /\ FlagsOK'
  BY <1>1, <1>5 DEF TabOK, LinesOK, SaidOK, FlagsOK, Rest, saidVars
<1> QED BY <1>4, <1>6

LEMMA ValidatesFacts ==
  ASSUME Typed, Validates
  PROVE  /\ Going /\ stack # <<>> /\ broken = "" /\ Top.phase \in {"wait", "line"} /\ Open
         /\ inbox[Top.ftp] = <<>>
         /\ (lates' = lates \/ (lates < MaxLates /\ lates' = lates + 1))
         /\ Top \in Handlers /\ Top \in Fit /\ Top.ftp \in Conns
         /\ Top.cmd \in CommandsOf(Top.op) /\ Top.op \in {"refresh", "export", "delete"}
<1>1. Going /\ stack # <<>> /\ broken = "" /\ TimesOut
  BY DEF Validates, Going
<1> QED BY <1>1, TimesOutLate, TopFields, TopIsHandler DEF Validates, Typed

LEMMA FailsTypes ==
  ASSUME Typed, Fails PROVE Typed'
<1> USE DEF Typed
<1>1. Validates /\ Drops /\ UNCHANGED <<owed, data, server, faults, Rest>>
  BY DEF Fails
<1>2. Going /\ (lates' = lates \/ (lates < MaxLates /\ lates' = lates + 1))
  BY <1>1, ValidatesFacts
<1>3. /\ TabOK' /\ StackOK' /\ MadeOK' /\ lost' \in BOOLEAN /\ broken' = ""
      /\ inbox' \in [Conns -> Seq({2, 3, 5})]
  BY <1>1, <1>2, DropsTypes DEF Rest
<1>4. LinesOK' /\ SaidOK'
  BY <1>1, <1>3 DEF LinesOK, SaidOK, Rest, saidVars
<1>5. FlagsOK'
  BY <1>1, <1>2, <1>3, TypesFlags DEF FlagsOK, Rest
<1> QED BY <1>3, <1>4, <1>5

LEMMA FollowingCommands ==
  ASSUME NEW cmd, Following(cmd) # ""
  PROVE  /\ cmd \in {"greeting", "user", "pass", "cwd", "type", "size"}
         /\ Following(cmd) \in {"user", "pass", "cwd", "type", "pasv", "mdtm"}
         /\ (cmd = "type" <=> Following(cmd) = "pasv")
         /\ (cmd = "size" <=> Following(cmd) = "mdtm")
         /\ (Following(cmd) \in {"user", "pass"} => cmd \in {"greeting", "user"})
  BY DEF Following

LEMMA SucceedsTypes ==
  ASSUME Typed, Succeeds PROVE Typed'
<1> USE DEF Typed
<1> DEFINE next == Following(Top.cmd)
           to == [Top EXCEPT !.cmd = next, !.phase = "log", !.good = FALSE]
<1>1. /\ Validates /\ next # "" /\ Goes(to)
      /\ mFtp' \in {mFtp, Top.ftp}
      /\ UNCHANGED <<conn, selected, netVars, broken, faults, lost, Rest>>
  BY DEF Succeeds, Sends
<1>2. /\ stack # <<>> /\ (lates' = lates \/ (lates < MaxLates /\ lates' = lates + 1))
      /\ Top \in Handlers /\ Top \in Fit /\ Top.ftp \in Conns
      /\ Top.cmd \in CommandsOf(Top.op) /\ Top.op \in {"refresh", "export", "delete"}
  BY <1>1, ValidatesFacts
<1>3. to \in Fit /\ to.ftp = Top.ftp
  <2>1. /\ Top.cmd \in {"greeting", "user", "pass", "cwd", "type", "size"}
        /\ next \in {"user", "pass", "cwd", "type", "pasv", "mdtm"}
        /\ (Top.cmd = "type" <=> next = "pasv")
        /\ (Top.cmd = "size" <=> next = "mdtm")
    BY <1>1, FollowingCommands
  <2> HIDE DEF next
  <2> QED BY <1>2, <2>1 DEF Fit, Handlers, CommandsOf, Commands
<1> HIDE DEF to, next
<1>4. StackOK' /\ MadeOK'
  BY <1>1, <1>2, <1>3, GoesOnMade DEF Kept
<1>5. TabOK'
  <2>1. mFtp' \in 0..MaxConns
    <3>1. mFtp' \in {mFtp, Top.ftp} /\ mFtp \in 0..MaxConns /\ Top.ftp \in 1..MaxConns
      BY <1>1, <1>2 DEF TabOK, Conns
    <3>2. 1..MaxConns \subseteq 0..MaxConns
      BY FtpAssumption
    <3> QED BY <3>1, <3>2
  <2> QED BY <1>1, <2>1 DEF TabOK, Rest
<1>6. LinesOK' /\ SaidOK'
  BY <1>1 DEF LinesOK, SaidOK, Rest, saidVars, netVars
<1>7. FlagsOK'
  BY <1>1, <1>2, TypesFlags DEF FlagsOK, Rest
<1> QED BY <1>4, <1>5, <1>6, <1>7

LEMMA ChannelTypes ==
  ASSUME Typed, Channel PROVE Typed'
<1> USE DEF Typed
<1> DEFINE next == IF Top.op = "refresh" THEN "nlst" ELSE "retr"
           to == [Top EXCEPT !.cmd = next, !.phase = "log", !.good = FALSE]
<1>1. /\ Validates /\ Top.cmd = "pasv" /\ data' = [data EXCEPT ![Top.ftp] = {}]
      /\ UNCHANGED <<owed, server, Rest>>
  BY DEF Channel
<1>2. /\ Going /\ stack # <<>> /\ broken = ""
      /\ (lates' = lates \/ (lates < MaxLates /\ lates' = lates + 1))
      /\ Top \in Handlers /\ Top \in Fit /\ Top.ftp \in Conns
      /\ Top.cmd \in CommandsOf(Top.op) /\ Top.op \in {"refresh", "export", "delete"}
  BY <1>1, ValidatesFacts
<1>3. data' \in [Conns -> SUBSET Files] /\ SaidOK'
  BY <1>1 DEF LinesOK, SaidOK, Rest, saidVars
<1>4. CASE Goes(to) /\ UNCHANGED <<mFtp, conn, inbox, selected, broken, faults, lost>>
  <2>1. to \in Fit /\ to.ftp = Top.ftp
    BY <1>1, <1>2 DEF Fit, Handlers, CommandsOf, Commands
  <2> HIDE DEF to, next
  <2>2. StackOK' /\ MadeOK'
    BY <1>2, <1>4, <2>1, GoesOnMade DEF Kept
  <2>3. TabOK' /\ LinesOK'
    BY <1>1, <1>3, <1>4 DEF TabOK, LinesOK, Rest
  <2>4. FlagsOK'
    BY <1>1, <1>2, <1>4, TypesFlags DEF FlagsOK, Rest
  <2> QED BY <1>3, <2>2, <2>3, <2>4
<1>5. CASE Fault /\ GivesUp /\ UNCHANGED <<mFtp, conn, inbox>>
  <2>1. StackOK' /\ MadeOK' /\ lost' \in BOOLEAN /\ broken' = "" /\ selected' = selected
    BY <1>2, <1>5, GivesUpTypes
  <2>2. TabOK' /\ LinesOK'
    BY <1>1, <1>3, <1>5, <2>1 DEF TabOK, LinesOK, Rest
  <2>3. FlagsOK'
    BY <1>1, <1>2, <1>5, <2>1, TypesFlags DEF FlagsOK, Rest
  <2> QED BY <1>3, <2>1, <2>2, <2>3
<1>6. CASE Fault /\ Drops
  <2>1. /\ TabOK' /\ StackOK' /\ MadeOK' /\ lost' \in BOOLEAN /\ broken' = ""
        /\ inbox' \in [Conns -> Seq({2, 3, 5})]
    BY <1>1, <1>2, <1>6, DropsTypes DEF Rest
  <2>2. LinesOK'
    BY <1>1, <1>3, <2>1 DEF LinesOK
  <2>3. FlagsOK'
    BY <1>1, <1>2, <1>6, <2>1, TypesFlags DEF FlagsOK, Rest
  <2> QED BY <1>3, <2>1, <2>2, <2>3
<1> QED BY <1>4, <1>5, <1>6 DEF Channel, Sends

LEMMA DatedTypes ==
  ASSUME Typed, Dated PROVE Typed'
<1> USE DEF Typed
<1> DEFINE to == [Top EXCEPT !.phase = "names", !.names = @ \cup {Top.file}]
<1>1. /\ Validates /\ Top.cmd = "mdtm" /\ Goes(to)
      /\ UNCHANGED <<mFtp, conn, selected, netVars, broken, faults, lost, Rest>>
  BY DEF Dated
<1>2. /\ stack # <<>> /\ (lates' = lates \/ (lates < MaxLates /\ lates' = lates + 1))
      /\ Top \in Handlers /\ Top \in Fit /\ Top.ftp \in Conns
      /\ Top.cmd \in CommandsOf(Top.op) /\ Top.op \in {"refresh", "export", "delete"}
  BY <1>1, ValidatesFacts
<1>3. to \in Fit /\ to.ftp = Top.ftp
  BY <1>1, <1>2 DEF Fit, Handlers, CommandsOf, Commands
<1> HIDE DEF to
<1>4. StackOK' /\ MadeOK'
  BY <1>1, <1>2, <1>3, GoesOnMade DEF Kept
<1>5. TabOK' /\ LinesOK' /\ SaidOK'
  BY <1>1 DEF TabOK, LinesOK, SaidOK, Rest, saidVars, netVars
<1>6. FlagsOK'
  BY <1>1, <1>2, TypesFlags DEF FlagsOK, Rest
<1> QED BY <1>4, <1>5, <1>6

LEMMA NextNameTypes ==
  ASSUME Typed, NextName PROVE Typed'
<1> USE DEF Typed
<1> DEFINE name == Min(data[Top.ftp])
           to == [Top EXCEPT !.cmd = "size", !.file = name, !.phase = "log", !.good = FALSE]
<1>1. /\ stack # <<>> /\ Top.phase = "names" /\ data[Top.ftp] # {} /\ Goes(to)
      /\ data' = [data EXCEPT ![Top.ftp] = @ \ {name}]
      /\ UNCHANGED <<mFtp, conn, selected, owed, inbox, server, broken, faults, lates,
                     lost, Rest>>
  BY DEF NextName, Going
<1>2. /\ Top \in Handlers /\ Top \in Fit /\ Top.ftp \in Conns /\ Top.op = "refresh"
  BY <1>1, TopFields, TopIsHandler
<1>3. name \in Files /\ name \in 0..NumFiles
  <2>1. data[Top.ftp] \subseteq Files
    BY <1>2 DEF LinesOK
  <2>2. name \in Files
    BY <1>1, <2>1, LeastFile
  <2> QED BY <2>2, FtpAssumption DEF Files
<1>4. to \in Fit /\ to.ftp = Top.ftp
  <2> HIDE DEF name
  <2> QED BY <1>2, <1>3 DEF Fit, Handlers, CommandsOf, Commands
<1> HIDE DEF to, name
<1>5. StackOK' /\ MadeOK'
  BY <1>1, <1>4, GoesOnMade DEF Kept
<1>6. data' \in [Conns -> SUBSET Files]
  BY <1>1, <1>2 DEF LinesOK
<1>7. TabOK' /\ LinesOK' /\ SaidOK' /\ FlagsOK'
  BY <1>1, <1>6 DEF TabOK, LinesOK, SaidOK, FlagsOK, Rest, saidVars
<1> QED BY <1>5, <1>7

LEMMA ListedTypes ==
  ASSUME Typed, Listed PROVE Typed'
<1> USE DEF Typed
<1>1. /\ Going /\ stack # <<>> /\ rows' = rows \cup Top.names /\ stack' = Below /\ TimesOut
      /\ UNCHANGED <<mFtp, made, conn, selected, netVars, saidVars, broken, clicks,
                     faults, nested, cut, lost>>
  BY DEF Listed, Going
<1>2. Top.names \subseteq Files
  BY <1>1, TopFields
<1>3. StackOK' /\ MadeOK'
  BY <1>1, ReturnsMade DEF Kept
<1>4. TabOK' /\ LinesOK' /\ SaidOK'
  BY <1>1, <1>2 DEF TabOK, LinesOK, SaidOK, saidVars, netVars
<1>5. FlagsOK'
  BY <1>1, TimesOutLate, TypesFlags DEF FlagsOK
<1> QED BY <1>3, <1>4, <1>5

LEMMA FetchesTypes ==
  ASSUME Typed, Fetches PROVE Typed'
<1> USE DEF Typed
<1>1. /\ Validates /\ Top.cmd = "retr" /\ data' = [data EXCEPT ![Top.ftp] = {}]
      /\ UNCHANGED <<mFtp, made, conn, rows, owed, inbox, server, deleted, clicks, nested>>
  BY DEF Fetches
<1>2. /\ Going /\ stack # <<>> /\ broken = ""
      /\ (lates' = lates \/ (lates < MaxLates /\ lates' = lates + 1))
      /\ Top \in Handlers /\ Top \in Fit /\ Top.ftp \in Conns
      /\ Top.cmd \in CommandsOf(Top.op) /\ Top.op \in {"refresh", "export", "delete"}
  BY <1>1, ValidatesFacts
<1>3. Top.op = "export" /\ Top.file \in Files
  BY <1>1, <1>2 DEF Fit, CommandsOf
<1>4. LinesOK'
  BY <1>1 DEF LinesOK
<1>5. /\ local' \in {local, [local EXCEPT ![Top.file] = "whole"],
                     [local EXCEPT ![Top.file] = "part"],
                     [local EXCEPT ![Top.file] = "short"],
                     [local EXCEPT ![Top.file] = "none"]}
      /\ fetched' \in {fetched, fetched \cup {Top.file}, fetched \ {Top.file}}
      /\ UNCHANGED faults \/ Fault
      /\ cut' \in {cut, TRUE}
  BY DEF Fetches
<1>6. SaidOK'
  BY <1>1, <1>3, <1>5 DEF SaidOK
<1>7. CASE Advances(selected) /\ UNCHANGED selected
  <2>1. StackOK' /\ MadeOK' /\ lost' = lost /\ broken' \in {"", "row"}
    BY <1>1, <1>2, <1>3, <1>7, AdvancesTypes
  <2>2. TabOK'
    BY <1>1, <1>7 DEF TabOK
  <2>3. FlagsOK'
    BY <1>1, <1>2, <1>5, <2>1, TypesFlags DEF FlagsOK
  <2> QED BY <1>4, <1>6, <2>1, <2>2, <2>3
<1>8. CASE GivesUp
  <2>1. StackOK' /\ MadeOK' /\ lost' \in BOOLEAN /\ broken' = "" /\ selected' = selected
    BY <1>1, <1>2, <1>8, GivesUpTypes
  <2>2. TabOK'
    BY <1>1, <2>1 DEF TabOK
  <2>3. FlagsOK'
    BY <1>1, <1>2, <1>5, <2>1, TypesFlags DEF FlagsOK
  <2> QED BY <1>4, <1>6, <2>1, <2>2, <2>3
<1> QED BY <1>7, <1>8 DEF Fetches

LEMMA DeletesTypes ==
  ASSUME Typed, Deletes PROVE Typed'
<1> USE DEF Typed
<1>1. /\ Validates /\ Top.cmd = "dele" /\ Advances(selected)
      /\ deleted' = deleted \cup {Top.file}
      /\ rows' = rows \ {Top.file} /\ selected' = selected \ {Top.file}
      /\ UNCHANGED <<mFtp, made, conn, netVars, local, fetched, clicks, faults,
                     nested, cut>>
  BY DEF Deletes
<1>2. /\ Going /\ stack # <<>> /\ broken = ""
      /\ (lates' = lates \/ (lates < MaxLates /\ lates' = lates + 1))
      /\ Top \in Handlers /\ Top \in Fit /\ Top.ftp \in Conns
      /\ Top.cmd \in CommandsOf(Top.op) /\ Top.op \in {"refresh", "export", "delete"}
  BY <1>1, ValidatesFacts
<1>3. Top.op = "delete" /\ Top.file \in Files
  BY <1>1, <1>2 DEF Fit, CommandsOf
<1>4. StackOK' /\ MadeOK' /\ lost' = lost /\ broken' \in {"", "row"}
  BY <1>1, <1>2, <1>3, AdvancesTypes
<1>5. TabOK' /\ LinesOK' /\ SaidOK'
  BY <1>1, <1>3 DEF TabOK, LinesOK, SaidOK, netVars
<1>6. FlagsOK'
  BY <1>1, <1>2, <1>4, TypesFlags DEF FlagsOK
<1> QED BY <1>4, <1>5, <1>6

LEMMA ServerTypes ==
  ASSUME Typed, ServerRest' = ServerRest, LinesOK', UNCHANGED faults \/ Fault
  PROVE  Typed'
<1> USE DEF Typed
<1>1. /\ UNCHANGED <<mFtp, made, conn, rows, selected, stack, saidVars, broken, clicks,
                     lates, nested, cut, lost>>
  BY DEF ServerRest
<1>2. TabOK' /\ SaidOK'
  BY <1>1 DEF TabOK, SaidOK, saidVars
<1>3. StackOK' /\ MadeOK'
  BY <1>1, SameMade
<1>4. FlagsOK'
  BY <1>1, TypesFlags DEF FlagsOK
<1> QED BY <1>2, <1>3, <1>4

LEMMA TransferTypes ==
  ASSUME Typed, NEW g \in Conns, Transfer(g) PROVE Typed'
<1> USE DEF Typed
<1>1. /\ owed[g] # <<>> /\ owed' = [owed EXCEPT ![g][1].cmd = "sent"]
      /\ UNCHANGED <<inbox, server, faults, ServerRest>>
      /\ data' \in {[data EXCEPT ![g] = server], [data EXCEPT ![g] = {Head(owed[g]).file}]}
      /\ (data' = [data EXCEPT ![g] = server] \/ Head(owed[g]).file \in server)
  BY DEF Transfer
<1>2. owed[g] \in Seq(Pending)
  BY DEF LinesOK
<1>3. owed' \in [Conns -> Seq(Pending)]
  <2>1. [owed[g] EXCEPT ![1].cmd = "sent"] \in Seq(Pending)
    <3>1. Len(owed[g]) \in Nat \ {0} /\ owed[g][1] \in Pending
      BY <1>1, <1>2
    <3>2. [owed[g][1] EXCEPT !.cmd = "sent"] \in Pending
      BY <3>1 DEF Pending, Commands
    <3> QED BY <1>2, <3>1, <3>2
  <2> QED BY <1>1, <2>1 DEF LinesOK
<1>4. data' \in [Conns -> SUBSET Files]
  <2>1. /\ server \subseteq Files
       /\ Head(owed[g]).file \in server => {Head(owed[g]).file} \subseteq Files
    BY DEF LinesOK
  <2> QED BY <1>1, <2>1 DEF LinesOK
<1>5. LinesOK'
  BY <1>1, <1>3, <1>4 DEF LinesOK
<1> QED BY <1>1, <1>5, ServerTypes

LEMMA AnswerTypes ==
  ASSUME Typed, NEW g \in Conns, Answer(g) PROVE Typed'
<1> USE DEF Typed
<1>1. /\ owed[g] # <<>> /\ UNCHANGED <<data, ServerRest>> /\ server' \subseteq server
      /\ (UNCHANGED faults \/ Fault)
      /\ \E class \in {2, 3, 5} : Says(g, class)
  <2> DEFINE cmd == Head(owed[g]).cmd  file == Head(owed[g]).file
  <2>1. owed[g] # <<>> /\ UNCHANGED <<data, ServerRest>>
    BY DEF Answer
  <2>2. \/ /\ server' = IF cmd = "dele" THEN server \ {file} ELSE server
           /\ Says(g, IF cmd = "user" THEN 3 ELSE 2) /\ UNCHANGED faults
        \/ Says(g, 5) /\ UNCHANGED <<server, faults>>
        \/ Fault /\ Says(g, 5) /\ UNCHANGED server
    BY DEF Answer
  <2> HIDE DEF cmd, file
  <2>3. \E class \in {2, 3, 5} : Says(g, class)
    BY <2>2
  <2> QED BY <2>1, <2>2, <2>3
<1>2. PICK class \in {2, 3, 5} : Says(g, class)
  BY <1>1
<1>3. owed' \in [Conns -> Seq(Pending)]
  <2>1. owed[g] \in Seq(Pending)
    BY DEF LinesOK
  <2>2. Tail(owed[g]) \in Seq(Pending)
    BY <1>1, <2>1, HeadTailProperties
  <2> QED BY <1>2, <2>2 DEF LinesOK, Says
<1>4. inbox' \in [Conns -> Seq({2, 3, 5})]
  <2>1. inbox[g] \in Seq({2, 3, 5}) /\ Append(inbox[g], class) \in Seq({2, 3, 5})
    BY DEF LinesOK
  <2>2. inbox' = [inbox EXCEPT ![g] = IF conn[g] = "open" THEN Append(@, class) ELSE @]
    BY <1>2 DEF Says
  <2> QED BY <2>1, <2>2 DEF LinesOK
<1>5. LinesOK'
  BY <1>1, <1>3, <1>4 DEF LinesOK
<1> QED BY <1>1, <1>5, ServerTypes

LEMMA InitTypes == FtpInit => Typed
<1> SUFFICES ASSUME FtpInit PROVE Typed
  OBVIOUS
<1>1. TabOK
  <2>1. mFtp = 0 /\ made = 0
    BY DEF FtpInit
  <2>2. mFtp \in 0..MaxConns /\ made \in 0..MaxConns
    BY <2>1, FtpAssumption
  <2>3. rows = {} /\ selected = {} /\ conn = [g \in Conns |-> "none"]
    BY DEF FtpInit
  <2> QED BY <2>2, <2>3 DEF TabOK
<1>2. StackOK /\ MadeOK
  <2>1. stack = <<>> /\ mFtp = 0
    BY DEF FtpInit
  <2>2. stack \in Seq(Fit)
    BY <2>1
  <2>3. \A i \in 1..Len(stack) : FALSE
    BY <2>1
  <2> QED BY <2>1, <2>2, <2>3 DEF StackOK, MadeOK
<1>3. LinesOK /\ SaidOK
  <2>1. /\ owed = [g \in Conns |-> <<>>] /\ inbox = [g \in Conns |-> <<>>]
        /\ data = [g \in Conns |-> {}] /\ server = Files
    BY DEF FtpInit
  <2>2. <<>> \in Seq(Pending) /\ <<>> \in Seq({2, 3, 5})
    OBVIOUS
  <2>3. LinesOK
    BY <2>1, <2>2 DEF LinesOK
  <2>4. local = [f \in Files |-> "none"] /\ deleted = {} /\ fetched = {}
    BY DEF FtpInit
  <2>5. SaidOK
    BY <2>4 DEF SaidOK
  <2> QED BY <2>3, <2>5
<1>4. FlagsOK
  <2>1. clicks = 0 /\ faults = 0 /\ lates = 0
    BY DEF FtpInit
  <2>2. clicks \in 0..MaxClicks /\ faults \in 0..MaxFaults /\ lates \in 0..MaxLates
    BY <2>1, FtpAssumption
  <2> QED BY <2>2 DEF FtpInit, FlagsOK
<1> QED BY <1>1, <1>2, <1>3, <1>4 DEF Typed

LEMMA NextTypes == Typed /\ [FtpNext]_ftpVars => Typed'
<1> SUFFICES ASSUME Typed, [FtpNext]_ftpVars PROVE Typed'
  OBVIOUS
<1>1. CASE UNCHANGED ftpVars
  BY <1>1 DEF ftpVars, netVars, saidVars, Typed, TabOK, StackOK, MadeOK, LinesOK, SaidOK,
              FlagsOK
<1>2. CASE Refresh \/ Export \/ Delete
  BY <1>2, RefreshTypes, BeginTypes
<1>3. CASE Client
  BY <1>3, UsesNoneTypes, SendTypes, ReadsTypes, FailsTypes, SucceedsTypes, ChannelTypes,
     DatedTypes, NextNameTypes, ListedTypes, FetchesTypes, DeletesTypes DEF Client
<1>4. CASE Serve
  BY <1>4, TransferTypes, AnswerTypes DEF Serve
<1> QED BY <1>1, <1>2, <1>3, <1>4 DEF FtpNext

-----------------------------------------------------------------------------
(* One handler at a time                                                    *)

Entering == {"greeting", "user", "pass"}

\* The handler a click has started, with no other below it: Refresh has an empty
\* list and an open connection, which is m_ftp once the constructor is done;
\* Export and Delete have the connection of the tab and are at a row of it.
Placed(h) ==
  IF h.op = "refresh"
  THEN rows = {} /\ conn[h.ftp] = "open" /\ (h.cmd \notin Entering => mFtp = h.ftp)
  ELSE mFtp = h.ftp /\ h.file \in rows

\* The connection of the tab has its socket, unless a file operation has lost
\* it or there is no row to begin one with.
Connected ==
  mFtp # 0 => conn[mFtp] = "open" \/ (conn[mFtp] = "null" /\ (lost \/ rows = {}))

Sound == broken = "" \/ (broken = "null" /\ lost)

Alone ==
  /\ Len(stack) <= 1 /\ (stack # <<>> => Placed(Top))
  /\ Connected /\ Sound

AloneInv == ~nested => Alone

LEMMA LastReturns ==
  ASSUME Typed, Alone, stack # <<>>, stack' = Below
  PROVE  stack' = <<>>
<1>1. /\ StackOK' /\ Len(stack') = Len(stack) - 1
      /\ Len(stack) \in Nat \ {0} /\ Len(stack) <= 1
  BY HandlerReturns, TopIsHandler DEF Typed, Alone
<1>2. Len(stack') = 0 /\ stack' \in Seq(Fit)
  BY <1>1 DEF StackOK
<1> QED BY <1>2

LEMMA GoesOnAlone ==
  ASSUME Typed, Alone, stack # <<>>, NEW to \in Fit, Goes(to)
  PROVE  Len(stack') <= 1 /\ stack' # <<>> /\ Top' = to
  BY HandlerGoesOn DEF Typed, Alone

LEMMA ClickAlone ==
  ASSUME Typed, AloneInv, MayClick, ~nested'
  PROVE  stack = <<>> /\ ~nested /\ broken = "" /\ Alone
  BY DEF MayClick, AloneInv

LEMMA StartsAlone ==
  ASSUME Typed, stack = <<>>, NEW h \in Fit, stack' = Append(stack, h)
  PROVE  Len(stack') <= 1 /\ stack' # <<>> /\ Top' = h
<1>1. Len(stack') = Len(stack) + 1 /\ stack' # <<>> /\ Top' = h
  BY HandlerStarts DEF Typed
<1>2. Len(stack) = 0
  OBVIOUS
<1> QED BY <1>1, <1>2

LEMMA RefreshAlone ==
  ASSUME Typed, AloneInv, Refresh PROVE AloneInv'
<1> SUFFICES ASSUME ~nested' PROVE Alone'
  BY DEF AloneInv
<1> DEFINE new == made + 1
           h == Handler("refresh", new, "greeting", 0, "wait")
           freed == [g \in Conns |-> IF g = mFtp THEN "freed" ELSE conn[g]]
<1>1. /\ MayClick /\ made < MaxConns /\ rows' = {} /\ mFtp' = 0 /\ lost' = FALSE
      /\ broken' = (IF mFtp # 0 /\ conn[mFtp] = "freed" THEN "freed" ELSE broken)
      /\ \/ /\ conn' = [freed EXCEPT ![new] = "open"] /\ stack' = Append(stack, h)
         \/ UNCHANGED stack
  BY DEF Refresh, Cleared
<1>2. stack = <<>> /\ broken = "" /\ Alone
  BY <1>1, ClickAlone
<1>3. Connected' /\ Sound'
  BY <1>1, <1>2 DEF Connected, Sound, Alone
<1>4. CASE UNCHANGED stack
  <2>1. stack' = <<>> /\ Len(stack') = 0
    BY <1>2, <1>4
  <2> QED BY <2>1, <1>3 DEF Alone
<1>5. CASE conn' = [freed EXCEPT ![new] = "open"] /\ stack' = Append(stack, h)
  <2>1. new \in Conns
    BY <1>1, FtpAssumption DEF Typed, TabOK, Conns
  <2>2. h \in Fit /\ h.ftp = new /\ h.op = "refresh" /\ h.cmd = "greeting"
    BY <2>1, FtpAssumption DEF Fit, Handler, Handlers, Commands, CommandsOf, Files
  <2>3. conn'[new] = "open"
    BY <1>5, <2>1
  <2> HIDE DEF h, new
  <2>4. Len(stack') <= 1 /\ stack' # <<>> /\ Top' = h
    BY <1>2, <1>5, <2>2, StartsAlone
  <2>5. Placed(Top)'
    BY <1>1, <2>2, <2>3, <2>4 DEF Placed, Entering
  <2> QED BY <1>3, <2>4, <2>5 DEF Alone
<1> QED BY <1>1, <1>4, <1>5

LEMMA BeginAlone ==
  ASSUME Typed, AloneInv, Export \/ Delete PROVE AloneInv'
<1> SUFFICES ASSUME ~nested' PROVE Alone'
  BY DEF AloneInv
<1>1. PICK op \in {"export", "delete"}, cmd \in {"type", "dele"} :
         Begin(op, cmd) /\ cmd \in CommandsOf(op)
  BY DEF Export, Delete, CommandsOf
<1>2. PICK chosen \in (SUBSET rows) \ {{}} :
         /\ selected' = chosen
         /\ stack' = Append(stack, Handler(op, mFtp, cmd, Min(chosen), "log"))
  BY <1>1 DEF Begin
<1> DEFINE h == Handler(op, mFtp, cmd, Min(chosen), "log")
<1>3. MayClick /\ mFtp # 0 /\ UNCHANGED <<mFtp, conn, rows, broken, lost>>
  BY <1>1 DEF Begin
<1>4. Min(chosen) \in chosen /\ chosen \subseteq rows /\ rows \subseteq Files
  BY LeastFile DEF Typed, TabOK
<1>5. h \in Fit /\ h.ftp = mFtp /\ h.op # "refresh" /\ h.file = Min(chosen)
  <2>1. mFtp \in Conns /\ Min(chosen) \in Files /\ Min(chosen) \in 0..NumFiles
    <3>1. Min(chosen) \in Files
      BY <1>4
    <3>2. mFtp \in Conns
      BY <1>3, FtpAssumption DEF Typed, TabOK, Conns
    <3> QED BY <3>1, <3>2, FtpAssumption DEF Files
  <2> QED BY <1>1, <2>1 DEF Fit, Handler, Handlers, Commands
<1>6. stack = <<>> /\ broken = "" /\ Alone
  BY <1>3, ClickAlone
<1> HIDE DEF h
<1>7. Len(stack') <= 1 /\ stack' # <<>> /\ Top' = h
  BY <1>2, <1>5, <1>6, StartsAlone DEF h
<1>8. Placed(Top)'
  BY <1>3, <1>4, <1>5, <1>7 DEF Placed
<1>9. Connected' /\ Sound'
  BY <1>3, <1>6 DEF Connected, Sound, Alone
<1> QED BY <1>7, <1>8, <1>9 DEF Alone

\* A handler that returns leaves nothing under way.
LEMMA ReturnsAlone ==
  ASSUME Typed, Alone, stack # <<>>, stack' = Below, Connected', Sound'
  PROVE  Alone'
<1>1. stack' = <<>> /\ Len(stack') = 0
  BY LastReturns
<1> QED BY <1>1 DEF Alone

LEMMA DropsAlone ==
  ASSUME Typed, Alone, Going, Drops, UNCHANGED rows
  PROVE  Alone'
<1>1. /\ stack # <<>> /\ stack' = Below /\ broken = "" /\ broken' = broken
      /\ lost' = (lost \/ Top.op # "refresh")
  BY DEF Going, Drops, GivesUp
<1>2. /\ Placed(Top) /\ Connected /\ Top.ftp \in Conns
      /\ conn \in [Conns -> {"none", "open", "null", "freed"}]
  BY <1>1, TopFields DEF Alone, Typed, TabOK
<1>3. \/ conn' = [conn EXCEPT ![Top.ftp] = "freed"] /\ mFtp' = 0
      \/ conn' = [conn EXCEPT ![Top.ftp] = "null"] /\ mFtp' = mFtp
  BY DEF Drops, Cleared
<1>4. mFtp # 0 => mFtp \in Conns
  BY FtpAssumption DEF Typed, TabOK, Conns
<1>5. lost' \/ rows' = {}
  BY <1>1, <1>2 DEF Placed
<1>6. Connected'
  BY <1>1, <1>2, <1>3, <1>4, <1>5 DEF Connected
<1>7. Sound'
  BY <1>1 DEF Sound
<1> QED BY <1>1, <1>6, <1>7, ReturnsAlone

LEMMA AdvancesAlone ==
  ASSUME Typed, Alone, Going, Advances(selected), UNCHANGED <<mFtp, conn>>,
         Top.op \in {"export", "delete"},
         rows \ {Top.file} \subseteq rows', rows' \subseteq rows
  PROVE  Alone'
<1> DEFINE later == {f \in selected : f > Top.file}
           first == IF Top.op = "export" THEN "type" ELSE "dele"
           to == [Top EXCEPT !.file = Min(later), !.phase = "log", !.good = FALSE,
                             !.cmd = first]
<1>1. stack # <<>> /\ broken = "" /\ Placed(Top) /\ Connected
  BY DEF Going, Alone
<1>2. Top.file \in rows /\ mFtp = Top.ftp
  BY <1>1 DEF Placed
<1>3. /\ lost' = lost /\ broken' = broken
      /\ \/ later = {} /\ stack' = Below
         \/ later # {} /\ Goes(to)
  BY <1>2 DEF Advances
<1>4. Connected' /\ Sound'
  BY <1>1, <1>3 DEF Connected, Sound
<1>5. CASE stack' = Below
  BY <1>1, <1>4, <1>5, ReturnsAlone
<1>6. CASE later # {} /\ Goes(to)
  <2>1. Min(later) \in later /\ later \subseteq Files
    <3>1. later \subseteq Files
      BY DEF Typed, TabOK
    <3> HIDE DEF later
    <3> QED BY <1>6, <3>1, LeastFile
  <2>2. Min(later) \in rows'
    <3>1. Min(later) \in selected /\ Min(later) > Top.file
      BY <2>1
    <3>9. Min(later) \in Files /\ Top.file \in 0..NumFiles
      BY <1>1, <2>1, TopFields DEF Typed
    <3> HIDE DEF later
    <3>8. Min(later) \in Nat /\ Top.file \in Nat
      BY <3>9, FtpAssumption DEF Files
    <3>2. Min(later) # Top.file
      BY <3>1, <3>8
    <3>3. selected \subseteq rows
      BY DEF Typed, TabOK
    <3> QED BY <3>1, <3>2, <3>3
  <2>3. to \in Fit /\ to.ftp = Top.ftp /\ to.op = Top.op /\ to.file = Min(later)
    <3>0. Top \in Handlers /\ Min(later) \in Files
      BY <1>1, <2>1, TopFields DEF Typed
    <3> HIDE DEF later
    <3>1. Top \in Handlers /\ Min(later) \in Files /\ Min(later) \in 0..NumFiles
      BY <3>0, FtpAssumption DEF Files
    <3>2. Top.names = {}
      BY <1>1, TopFields DEF Typed, CommandsOf
    <3> QED BY <3>1, <3>2 DEF Fit, Handlers, Commands, CommandsOf
  <2> HIDE DEF to, later
  <2>4. Len(stack') <= 1 /\ stack' # <<>> /\ Top' = to
    BY <1>1, <1>6, <2>3, GoesOnAlone
  <2>5. Placed(Top)'
    BY <1>2, <2>2, <2>3, <2>4 DEF Placed
  <2> QED BY <1>4, <2>4, <2>5 DEF Alone
<1> QED BY <1>3, <1>5, <1>6

\* A handler that goes on with another command or place has what it had.
LEMMA GoesOnPlaced ==
  ASSUME Typed, Alone, stack # <<>>, NEW to \in Fit, Goes(to),
         UNCHANGED <<conn, rows, broken, lost>>, to.ftp = Top.ftp, to.op = Top.op,
         to.op # "refresh" => to.file = Top.file /\ mFtp' = mFtp,
         to.op = "refresh" => \/ /\ mFtp' = mFtp
                                 /\ to.cmd \notin Entering => Top.cmd \notin Entering
                              \/ mFtp' = Top.ftp
  PROVE  Alone'
<1>1. Len(stack') <= 1 /\ stack' # <<>> /\ Top' = to
  BY GoesOnAlone
<1>2. Placed(Top) /\ Connected /\ Sound
  BY DEF Alone
<1>3. Top.op = "refresh" => conn[Top.ftp] = "open"
  BY <1>2 DEF Placed
<1>4. Placed(Top)'
  BY <1>1, <1>2 DEF Placed
<1>5. Connected'
  BY <1>2, <1>3 DEF Connected
<1>6. Sound'
  BY <1>2 DEF Sound
<1> QED BY <1>1, <1>4, <1>5, <1>6 DEF Alone

LEMMA UsesNoneAlone ==
  ASSUME Typed, Alone, UsesNone PROVE Alone'
<1>1. /\ stack # <<>> /\ broken' = conn[Top.ftp] /\ conn[Top.ftp] # "open"
      /\ UNCHANGED <<mFtp, conn, rows, stack, lost>>
  BY DEF UsesNone, Going, Open, Rest
<1>2. Placed(Top) /\ Connected /\ Len(stack) <= 1
  BY <1>1 DEF Alone
<1>3. mFtp = Top.ftp /\ rows # {}
  BY <1>1, <1>2 DEF Placed
<1>4. Top.ftp \in Conns /\ mFtp # 0
  BY <1>1, <1>3, TopFields, FtpAssumption DEF Typed, Conns
<1>5. conn[mFtp] = "null" /\ lost
  BY <1>1, <1>2, <1>3, <1>4 DEF Connected
<1>6. Sound' /\ Connected'
  BY <1>1, <1>2, <1>3, <1>5 DEF Sound, Connected
<1>7. Placed(Top)'
  BY <1>1, <1>2 DEF Placed, Top
<1> QED BY <1>1, <1>2, <1>6, <1>7 DEF Alone

LEMMA SendAlone ==
  ASSUME Typed, Alone, Send PROVE Alone'
<1> DEFINE to == [Top EXCEPT !.phase = IF Top.cmd = "nlst" THEN "names" ELSE "wait"]
<1>1. /\ Going /\ stack # <<>> /\ broken = "" /\ UNCHANGED rows
  BY DEF Send, Going, Rest
<1>2. /\ Top \in Handlers /\ Top \in Fit
  BY <1>1, TopFields, TopIsHandler DEF Typed
<1>3. CASE Goes(to) /\ UNCHANGED <<mFtp, conn, lost, broken>>
  <2>1. /\ to \in Fit /\ to.ftp = Top.ftp /\ to.op = Top.op /\ to.file = Top.file
        /\ to.cmd = Top.cmd
    BY <1>2 DEF Fit, Handlers, CommandsOf
  <2> HIDE DEF to
  <2> QED BY <1>1, <1>3, <2>1, GoesOnPlaced
<1>4. CASE Drops
  BY <1>1, <1>4, DropsAlone
<1> QED BY <1>3, <1>4 DEF Send

LEMMA ReadsAlone ==
  ASSUME Typed, Alone, Reads PROVE Alone'
<1> DEFINE to == [Top EXCEPT !.phase = "line",
                             !.good = @ \/ Expected(Top.cmd, Head(inbox[Top.ftp]))]
<1>1. /\ stack # <<>> /\ Goes(to) /\ UNCHANGED <<mFtp, conn, broken, lost, rows>>
  BY DEF Reads, Going, Rest
<1>2. /\ Top \in Handlers /\ Top \in Fit
  BY <1>1, TopFields, TopIsHandler DEF Typed
<1>3. /\ to \in Fit /\ to.ftp = Top.ftp /\ to.op = Top.op /\ to.file = Top.file
      /\ to.cmd = Top.cmd
  <2>1. (Top.good \/ Expected(Top.cmd, Head(inbox[Top.ftp]))) \in BOOLEAN
    BY DEF Expected
  <2> QED BY <1>2, <2>1 DEF Fit, Handlers
<1> HIDE DEF to
<1> QED BY <1>1, <1>3, GoesOnPlaced

LEMMA FailsAlone ==
  ASSUME Typed, Alone, Fails PROVE Alone'
<1>1. Validates /\ Drops /\ UNCHANGED rows
  BY DEF Fails, Rest
<1> QED BY <1>1, ValidatesFacts, DropsAlone

LEMMA SucceedsAlone ==
  ASSUME Typed, Alone, Succeeds PROVE Alone'
<1> DEFINE next == Following(Top.cmd)
           to == [Top EXCEPT !.cmd = next, !.phase = "log", !.good = FALSE]
<1>1. /\ Validates /\ next # "" /\ Goes(to)
      /\ mFtp' = (IF Top.cmd = "pass" THEN Top.ftp ELSE mFtp)
      /\ UNCHANGED <<conn, broken, lost, rows>>
  BY DEF Succeeds, Sends, Rest
<1>2. /\ stack # <<>> /\ Top \in Handlers /\ Top \in Fit
      /\ Top.cmd \in CommandsOf(Top.op) /\ Top.op \in {"refresh", "export", "delete"}
  BY <1>1, ValidatesFacts
<1>3. /\ Top.cmd \in {"greeting", "user", "pass", "cwd", "type", "size"}
      /\ next \in {"user", "pass", "cwd", "type", "pasv", "mdtm"}
      /\ (Top.cmd = "type" <=> next = "pasv")
      /\ (Top.cmd = "size" <=> next = "mdtm")
      /\ (Top.cmd \in {"greeting", "user"} => next \in Entering)
  <2>1. Top.cmd \in {"greeting", "user"} => next \in Entering
    BY DEF Following, Entering
  <2> QED BY <1>1, <2>1, FollowingCommands
<1> HIDE DEF next
<1>4. /\ to \in Fit /\ to.ftp = Top.ftp /\ to.op = Top.op /\ to.file = Top.file
      /\ to.cmd = next
  BY <1>2, <1>3 DEF Fit, Handlers, CommandsOf, Commands
<1> HIDE DEF to
<1>5. to.op # "refresh" => mFtp' = mFtp
  BY <1>1, <1>2, <1>4 DEF CommandsOf
<1>6. \/ mFtp' = mFtp /\ (to.cmd \notin Entering => Top.cmd \notin Entering)
      \/ mFtp' = Top.ftp
  BY <1>1, <1>3, <1>4 DEF Entering
<1> QED BY <1>1, <1>2, <1>4, <1>5, <1>6, GoesOnPlaced

LEMMA ChannelAlone ==
  ASSUME Typed, Alone, Channel PROVE Alone'
<1> DEFINE next == IF Top.op = "refresh" THEN "nlst" ELSE "retr"
           to == [Top EXCEPT !.cmd = next, !.phase = "log", !.good = FALSE]
<1>1. /\ Validates /\ Top.cmd = "pasv" /\ UNCHANGED rows
  BY DEF Channel, Rest
<1>2. /\ Going /\ stack # <<>> /\ broken = ""
      /\ Top \in Handlers /\ Top \in Fit
      /\ Top.cmd \in CommandsOf(Top.op) /\ Top.op \in {"refresh", "export", "delete"}
  BY <1>1, ValidatesFacts
<1>3. CASE Goes(to) /\ UNCHANGED <<mFtp, conn, broken, lost>>
  <2>1. to \in Fit /\ to.ftp = Top.ftp /\ to.op = Top.op /\ to.file = Top.file
    BY <1>1, <1>2 DEF Fit, Handlers, CommandsOf, Commands
  <2>2. Top.cmd \notin Entering
    BY <1>1 DEF Entering
  <2> HIDE DEF to, next
  <2> QED BY <1>1, <1>2, <1>3, <2>1, <2>2, GoesOnPlaced
<1>4. CASE GivesUp /\ UNCHANGED <<mFtp, conn, inbox>>
  <2>1. /\ stack' = Below /\ broken' = broken
        /\ lost' = (lost \/ Top.op # "refresh")
    BY <1>4 DEF GivesUp
  <2>2. Connected' /\ Sound'
    BY <1>1, <1>2, <1>4, <2>1 DEF Connected, Sound, Alone
  <2> QED BY <1>2, <2>1, <2>2, ReturnsAlone
<1>5. CASE Drops
  BY <1>1, <1>2, <1>5, DropsAlone
<1> QED BY <1>3, <1>4, <1>5 DEF Channel, Sends

LEMMA DatedAlone ==
  ASSUME Typed, Alone, Dated PROVE Alone'
<1> DEFINE to == [Top EXCEPT !.phase = "names", !.names = @ \cup {Top.file}]
<1>1. /\ Validates /\ Top.cmd = "mdtm" /\ Goes(to)
      /\ UNCHANGED <<mFtp, conn, broken, lost, rows>>
  BY DEF Dated, Rest
<1>2. /\ stack # <<>> /\ Top \in Handlers /\ Top \in Fit
      /\ Top.cmd \in CommandsOf(Top.op) /\ Top.op \in {"refresh", "export", "delete"}
  BY <1>1, ValidatesFacts
<1>3. /\ to \in Fit /\ to.ftp = Top.ftp /\ to.op = Top.op /\ to.file = Top.file
      /\ to.cmd = Top.cmd
  BY <1>1, <1>2 DEF Fit, Handlers, CommandsOf, Commands
<1> HIDE DEF to
<1> QED BY <1>1, <1>2, <1>3, GoesOnPlaced

LEMMA NextNameAlone ==
  ASSUME Typed, Alone, NextName PROVE Alone'
<1> DEFINE name == Min(data[Top.ftp])
           to == [Top EXCEPT !.cmd = "size", !.file = name, !.phase = "log", !.good = FALSE]
<1>1. /\ stack # <<>> /\ Top.phase = "names" /\ data[Top.ftp] # {} /\ Goes(to)
      /\ UNCHANGED <<mFtp, conn, broken, lost, rows>>
  BY DEF NextName, Going, Rest
<1>2. /\ Top \in Handlers /\ Top \in Fit /\ Top.ftp \in Conns /\ Top.op = "refresh"
  BY <1>1, TopFields, TopIsHandler DEF Typed
<1>3. name \in Files /\ name \in 0..NumFiles
  <2>1. data[Top.ftp] \subseteq Files
    BY <1>2 DEF Typed, LinesOK
  <2>2. name \in Files
    BY <1>1, <2>1, LeastFile
  <2> QED BY <2>2, FtpAssumption DEF Files
<1> HIDE DEF name
<1>4. to \in Fit /\ to.ftp = Top.ftp /\ to.op = "refresh" /\ to.cmd = "size"
  BY <1>2, <1>3 DEF Fit, Handlers, CommandsOf, Commands
<1> HIDE DEF to
<1>5. Top.cmd \notin Entering
  BY <1>1, TopFields DEF Entering, Typed
<1> QED BY <1>1, <1>2, <1>4, <1>5, GoesOnPlaced

LEMMA ListedAlone ==
  ASSUME Typed, Alone, Listed PROVE Alone'
<1>1. /\ stack # <<>> /\ Top.phase = "names" /\ stack' = Below
      /\ UNCHANGED <<mFtp, conn, broken, lost>>
  BY DEF Listed, Going
<1>2. Top.op = "refresh" /\ Top.cmd \notin Entering
  BY <1>1, TopFields DEF Typed, Entering
<1>3. conn[mFtp] = "open"
  BY <1>1, <1>2 DEF Alone, Placed
<1>4. Connected' /\ Sound'
  BY <1>1, <1>3 DEF Connected, Sound, Alone
<1> QED BY <1>1, <1>4, ReturnsAlone

LEMMA FetchesAlone ==
  ASSUME Typed, Alone, Fetches PROVE Alone'
<1>1. Validates /\ Top.cmd = "retr" /\ UNCHANGED <<mFtp, conn, rows>>
  BY DEF Fetches
<1>2. /\ Going /\ stack # <<>> /\ broken = ""
      /\ Top.cmd \in CommandsOf(Top.op) /\ Top.op \in {"refresh", "export", "delete"}
  BY <1>1, ValidatesFacts
<1>3. Top.op = "export"
  BY <1>1, <1>2 DEF CommandsOf
<1>4. CASE Advances(selected)
  BY <1>1, <1>2, <1>3, <1>4, AdvancesAlone
<1>5. CASE GivesUp
  <2>1. /\ stack' = Below /\ broken' = broken
        /\ lost' = (lost \/ Top.op # "refresh")
    BY <1>5 DEF GivesUp
  <2>2. Connected' /\ Sound'
    BY <1>1, <1>2, <2>1 DEF Connected, Sound, Alone
  <2> QED BY <1>2, <2>1, <2>2, ReturnsAlone
<1> QED BY <1>4, <1>5 DEF Fetches

LEMMA DeletesAlone ==
  ASSUME Typed, Alone, Deletes PROVE Alone'
<1>1. /\ Validates /\ Top.cmd = "dele" /\ UNCHANGED <<mFtp, conn>> /\ Advances(selected)
      /\ rows' = rows \ {Top.file}
  BY DEF Deletes
<1>2. /\ Going /\ Top.cmd \in CommandsOf(Top.op)
      /\ Top.op \in {"refresh", "export", "delete"}
  BY <1>1, ValidatesFacts
<1>3. Top.op = "delete"
  BY <1>1, <1>2 DEF CommandsOf
<1> QED BY <1>1, <1>2, <1>3, AdvancesAlone

LEMMA SameAlone ==
  ASSUME Alone, UNCHANGED <<stack, conn, rows, mFtp, lost, broken>>
  PROVE  Alone'
  BY DEF Alone, Placed, Connected, Sound, Top

\* No client action starts a handler.
LEMMA ClientNotNested == Client => UNCHANGED nested
  BY DEF Client, UsesNone, Send, Reads, Fails, Succeeds, Channel, Dated, NextName,
         Listed, Fetches, Deletes, Rest

LEMMA ServeUnchanged == Serve => UNCHANGED ServerRest
  BY DEF Serve, Transfer, Answer

LEMMA InitAlone == FtpInit => AloneInv
<1> SUFFICES ASSUME FtpInit PROVE Alone
  BY DEF AloneInv
<1>1. stack = <<>> /\ mFtp = 0 /\ broken = ""
  BY DEF FtpInit
<1>2. Len(stack) = 0
  BY <1>1
<1>3. Len(stack) <= 1
  BY <1>2
<1> QED BY <1>1, <1>3 DEF Alone, Connected, Sound

LEMMA NextAlone == Typed /\ AloneInv /\ [FtpNext]_ftpVars => AloneInv'
<1> SUFFICES ASSUME Typed, AloneInv, [FtpNext]_ftpVars PROVE AloneInv'
  OBVIOUS
<1>1. CASE UNCHANGED ftpVars
  <2>1. UNCHANGED <<stack, conn, rows, mFtp, lost, broken, nested>>
    BY <1>1 DEF ftpVars
  <2> QED BY <2>1, SameAlone DEF AloneInv
<1>2. CASE Refresh \/ Export \/ Delete
  BY <1>2, RefreshAlone, BeginAlone
<1>3. CASE Client
  <2> SUFFICES ASSUME ~nested PROVE Alone'
    BY <1>3, ClientNotNested DEF AloneInv
  <2>1. Alone
    BY DEF AloneInv
  <2> QED BY <1>3, <2>1, UsesNoneAlone, SendAlone, ReadsAlone, FailsAlone, SucceedsAlone,
             ChannelAlone, DatedAlone, NextNameAlone, ListedAlone, FetchesAlone, DeletesAlone
          DEF Client
<1>4. CASE Serve
  <2>1. UNCHANGED <<stack, conn, rows, mFtp, lost, broken, nested>>
    BY <1>4, ServeUnchanged DEF ServerRest
  <2> QED BY <2>1, SameAlone DEF AloneInv
<1> QED BY <1>1, <1>2, <1>3, <1>4 DEF FtpNext

-----------------------------------------------------------------------------
(* Commands and their replies                                               *)

Calm == ~nested /\ lates = 0

\* Nothing is under way on the lines of a connection.
Quiet(g) == owed[g] = <<>> /\ inbox[g] = <<>>

\* The server has done what the command of a handler asks for.
Done(h) == IF h.cmd = "dele" THEN h.file \notin server ELSE h.file \in data[h.ftp]

\* The command of a handler and its reply: not answered yet, the file sent and
\* the reply still owed, the reply on its way, the reply read.
Asked(h) ==
  /\ owed[h.ftp] = <<[cmd |-> h.cmd, file |-> h.file]>> /\ inbox[h.ftp] = <<>>
  /\ ~h.good

Sending(h) ==
  /\ owed[h.ftp] = <<[cmd |-> "sent", file |-> h.file]>> /\ inbox[h.ftp] = <<>>
  /\ ~h.good /\ h.cmd = "retr" /\ Done(h)

Replied(h) ==
  /\ owed[h.ftp] = <<>> /\ ~h.good
  /\ \E class \in {2, 3, 5} : inbox[h.ftp] = <<class>> /\ (class = 2 => Done(h))

Heeded(h) == Quiet(h.ftp) /\ (h.good => Done(h))

\* While no reply is late: a handler of Export or Delete sends on quiet lines; a
\* reply to retr or dele says what the server has done; the lines of a listing
\* are quiet after each name.
Paired(h) ==
  /\ h.op = "refresh" /\ h.phase = "names" /\ h.names # {} => Quiet(h.ftp)
  /\ h.op # "refresh" /\ h.phase = "log" /\ conn[h.ftp] = "open" => Quiet(h.ftp)
  /\ h.cmd \in {"dele", "retr"} =>
       IF h.phase = "log" THEN ~h.good
       ELSE Asked(h) \/ Sending(h) \/ Replied(h) \/ Heeded(h)

\* Between handlers the lines are quiet, if there is a row to begin one with.
Rested ==
  stack = <<>> /\ mFtp # 0 /\ conn[mFtp] = "open" /\ rows # {} => Quiet(mFtp)

Logged ==
  /\ deleted \cap server = {}
  /\ ~cut => \A f \in fetched : local[f] \in {"short", "whole"}

Matched == Rested /\ (stack # <<>> => Paired(Top)) /\ Logged

MatchedInv == Calm => Matched

LEMMA TimesOutQuiet ==
  ASSUME Typed, Validates, lates' = 0
  PROVE  Quiet(Top.ftp) /\ lates = 0
<1>1. TimesOut /\ inbox[Top.ftp] = <<>> /\ lates \in Nat
  <2>1. lates \in 0..MaxLates
    BY DEF Typed, FlagsOK
  <2>2. lates \in Nat
    BY <2>1, FtpAssumption
  <2> QED BY <2>2 DEF Validates
<1>2. \/ owed[Top.ftp] = <<>> /\ lates' = lates
      \/ lates' = lates + 1
  BY <1>1 DEF TimesOut
<1>3. lates' # lates + 1
  BY <1>1
<1> QED BY <1>1, <1>2, <1>3 DEF Quiet

LEMMA SaidLogged ==
  ASSUME Logged, UNCHANGED <<server, saidVars, cut>>
  PROVE  Logged'
  BY DEF Logged, saidVars

LEMMA RefreshMatched ==
  ASSUME Typed, AloneInv, MatchedInv, Refresh PROVE MatchedInv'
<1> SUFFICES ASSUME Calm' PROVE Matched'
  BY DEF MatchedInv
<1> DEFINE new == made + 1
           h == Handler("refresh", new, "greeting", 0, "wait")
<1>1. /\ MayClick /\ made < MaxConns /\ rows' = {} /\ lates' = lates
      /\ (stack' = Append(stack, h) \/ UNCHANGED stack)
      /\ UNCHANGED <<server, saidVars, cut>>
  BY DEF Refresh
<1>2. stack = <<>> /\ Matched
  <2>1. stack = <<>> /\ ~nested
    BY <1>1, ClickAlone DEF Calm
  <2> QED BY <1>1, <2>1 DEF Calm, MatchedInv
<1>3. Rested' /\ Logged'
  BY <1>1, <1>2, SaidLogged DEF Rested, Matched
<1>4. CASE UNCHANGED stack
  BY <1>2, <1>3, <1>4 DEF Matched
<1>5. CASE stack' = Append(stack, h)
  <2>1. new \in Conns
    BY <1>1, FtpAssumption DEF Typed, TabOK, Conns
  <2>2. h \in Fit /\ h.op = "refresh" /\ h.cmd = "greeting" /\ h.phase = "wait"
    BY <2>1, FtpAssumption DEF Fit, Handler, Handlers, Commands, CommandsOf, Files
  <2> HIDE DEF h, new
  <2>3. Top' = h
    BY <1>2, <1>5, <2>2, StartsAlone
  <2>4. Paired(Top)'
    BY <2>2, <2>3 DEF Paired
  <2> QED BY <1>3, <2>4 DEF Matched
<1> QED BY <1>1, <1>4, <1>5

LEMMA BeginMatched ==
  ASSUME Typed, AloneInv, MatchedInv, Export \/ Delete PROVE MatchedInv'
<1> SUFFICES ASSUME Calm' PROVE Matched'
  BY DEF MatchedInv
<1>1. PICK op \in {"export", "delete"}, cmd \in {"type", "dele"} :
         Begin(op, cmd) /\ cmd \in CommandsOf(op)
  BY DEF Export, Delete, CommandsOf
<1>2. PICK chosen \in (SUBSET rows) \ {{}} :
         /\ selected' = chosen
         /\ stack' = Append(stack, Handler(op, mFtp, cmd, Min(chosen), "log"))
  BY <1>1 DEF Begin
<1> DEFINE h == Handler(op, mFtp, cmd, Min(chosen), "log")
<1>3. /\ MayClick /\ mFtp # 0
      /\ UNCHANGED <<mFtp, conn, rows, netVars, saidVars, cut, lates>>
  BY <1>1 DEF Begin
<1>4. Min(chosen) \in chosen /\ chosen \subseteq rows /\ rows \subseteq Files
  BY LeastFile DEF Typed, TabOK
<1>5. h \in Fit /\ h.ftp = mFtp /\ h.op # "refresh" /\ h.phase = "log" /\ h.good = FALSE
  <2>1. mFtp \in Conns /\ Min(chosen) \in Files /\ Min(chosen) \in 0..NumFiles
    <3>1. Min(chosen) \in Files
      BY <1>4
    <3>2. mFtp \in Conns
      BY <1>3, FtpAssumption DEF Typed, TabOK, Conns
    <3> QED BY <3>1, <3>2, FtpAssumption DEF Files
  <2> QED BY <1>1, <2>1 DEF Fit, Handler, Handlers, Commands
<1>6. stack = <<>> /\ Matched
  <2>1. stack = <<>> /\ ~nested
    BY <1>3, ClickAlone DEF Calm
  <2> QED BY <1>3, <2>1 DEF Calm, MatchedInv
<1> HIDE DEF h
<1>7. stack' # <<>> /\ Top' = h
  BY <1>2, <1>5, <1>6, StartsAlone DEF h
<1>8. conn[mFtp] = "open" => Quiet(mFtp)
  BY <1>2, <1>3, <1>6 DEF Matched, Rested
<1>9. conn'[mFtp] = "open" => owed'[mFtp] = <<>> /\ inbox'[mFtp] = <<>>
  BY <1>3, <1>8 DEF Quiet, netVars
<1>10. Paired(Top)'
  BY <1>5, <1>7, <1>9 DEF Paired, Quiet
<1>11. Logged'
  BY <1>3, <1>6, SaidLogged DEF Matched, netVars
<1>12. Rested'
  BY <1>7 DEF Rested
<1> QED BY <1>10, <1>11, <1>12 DEF Matched

LEMMA DropsMatched ==
  ASSUME Typed, Alone, Matched, Going, Drops, UNCHANGED <<rows, server, saidVars, cut>>
  PROVE  Matched'
<1>1. stack # <<>> /\ stack' = Below
  BY DEF Going, Drops, GivesUp
<1>2. stack' = <<>> /\ Placed(Top) /\ Top.ftp \in Conns
  BY <1>1, LastReturns, TopFields DEF Alone, Typed
<1>3. \/ mFtp' = 0
      \/ conn' = [conn EXCEPT ![Top.ftp] = "null"] /\ mFtp' = mFtp
  BY DEF Drops, Cleared
<1>4. rows = {} \/ mFtp = Top.ftp
  BY <1>2 DEF Placed
<1>5. Rested'
  <2>1. mFtp' = mFtp /\ mFtp = Top.ftp /\ conn' = [conn EXCEPT ![Top.ftp] = "null"]
        => conn'[mFtp'] = "null"
    BY <1>2 DEF Typed, TabOK
  <2> QED BY <1>3, <1>4, <2>1 DEF Rested
<1>6. Logged'
  BY SaidLogged DEF Matched
<1> QED BY <1>2, <1>5, <1>6 DEF Matched

\* A handler that goes on, or returns, on quiet lines leaves them quiet.
LEMMA GoesOnMatched ==
  ASSUME Typed, Alone, stack # <<>>, NEW to \in Fit, Goes(to), Paired(Top)', Logged'
  PROVE  Matched'
<1>1. stack' # <<>> /\ Top' = to
  BY GoesOnAlone
<1>2. Rested'
  BY <1>1 DEF Rested
<1> QED BY <1>1, <1>2 DEF Matched

LEMMA ReturnsMatched ==
  ASSUME Typed, Alone, stack # <<>>, stack' = Below, Logged',
         mFtp' = Top.ftp => owed'[Top.ftp] = <<>> /\ inbox'[Top.ftp] = <<>>,
         mFtp' = mFtp /\ rows' \subseteq rows
  PROVE  Matched'
<1>1. stack' = <<>> /\ Placed(Top)
  BY LastReturns DEF Alone
<1>2. rows = {} \/ mFtp = Top.ftp
  BY <1>1 DEF Placed
<1>3. Rested'
  BY <1>2 DEF Rested, Quiet
<1> QED BY <1>1, <1>3 DEF Matched

LEMMA UsesNoneMatched ==
  ASSUME Typed, Alone, Matched, UsesNone PROVE Matched'
<1>1. UNCHANGED <<stack, mFtp, conn, rows, netVars, saidVars, cut>>
  BY DEF UsesNone, Rest
<1>2. Top' = Top
  BY <1>1 DEF Top
<1> QED BY <1>1, <1>2 DEF Matched, Rested, Paired, Logged, Quiet, Asked, Sending, Replied,
                         Heeded, Done, netVars, saidVars

LEMMA SendMatched ==
  ASSUME Typed, Alone, Matched, Send PROVE Matched'
<1> DEFINE to == [Top EXCEPT !.phase = IF Top.cmd = "nlst" THEN "names" ELSE "wait"]
           one == [cmd |-> Top.cmd, file |-> Top.file]
<1>1. /\ Going /\ stack # <<>> /\ broken = "" /\ Top.phase = "log" /\ conn[Top.ftp] = "open"
      /\ UNCHANGED <<rows, data, server, saidVars, cut>>
  BY DEF Send, Going, Rest, Open
<1>2. /\ Top \in Handlers /\ Top \in Fit /\ Top.ftp \in Conns
      /\ Top.cmd \in CommandsOf(Top.op) /\ Top.op \in {"refresh", "export", "delete"}
      /\ (Top.cmd \notin {"size", "mdtm"} => Top.names = {})
  BY <1>1, TopFields, TopIsHandler DEF Typed
<1>3. Logged'
  BY <1>1, SaidLogged DEF Matched
<1>4. CASE Goes(to) /\ owed' = [owed EXCEPT ![Top.ftp] = Append(@, one)] /\ UNCHANGED inbox
  <2>1. /\ to \in Fit /\ to.ftp = Top.ftp /\ to.op = Top.op /\ to.file = Top.file
        /\ to.cmd = Top.cmd /\ to.good = Top.good /\ to.names = Top.names
        /\ to.phase = (IF Top.cmd = "nlst" THEN "names" ELSE "wait")
    BY <1>2 DEF Fit, Handlers, CommandsOf
  <2> HIDE DEF to
  <2>2. stack' # <<>> /\ Top' = to
    BY <1>1, <1>4, <2>1, GoesOnAlone
  <2>3. Top.op # "refresh" => Quiet(Top.ftp) /\ (Top.cmd \in {"dele", "retr"} => ~Top.good)
    BY <1>1 DEF Matched, Paired
  <2>4. ASSUME Top.cmd \in {"dele", "retr"}
        PROVE  owed'[Top.ftp] = <<one>> /\ inbox'[Top.ftp] = <<>> /\ ~Top.good
    <3>1. Top.op # "refresh"
      BY <1>2, <2>4 DEF CommandsOf
    <3>2. owed[Top.ftp] = <<>> /\ inbox[Top.ftp] = <<>> /\ ~Top.good
      BY <3>1, <2>3, <2>4 DEF Quiet
    <3>3. owed'[Top.ftp] = Append(<<>>, one)
      BY <1>2, <1>4, <3>2 DEF Typed, LinesOK
    <3>4. Append(<<>>, one) = <<one>>
      OBVIOUS
    <3> QED BY <1>4, <3>2, <3>3, <3>4
  <2>5. Top.cmd \in {"dele", "retr"} => Asked(Top)'
    BY <2>1, <2>2, <2>4 DEF Asked
  <2>6. Paired(Top)'
    BY <1>2, <2>1, <2>2, <2>5 DEF Paired
  <2> QED BY <1>1, <1>3, <1>4, <2>1, <2>6, GoesOnMatched
<1>5. CASE Drops
  BY <1>1, <1>5, DropsMatched
<1> QED BY <1>4, <1>5 DEF Send

LEMMA ReadsMatched ==
  ASSUME Typed, Alone, Matched, Reads PROVE Matched'
<1> DEFINE ok == Expected(Top.cmd, Head(inbox[Top.ftp]))
           to == [Top EXCEPT !.phase = "line", !.good = @ \/ ok]
<1>1. /\ stack # <<>> /\ Top.phase \in {"wait", "line"} /\ Goes(to) /\ inbox[Top.ftp] # <<>>
      /\ inbox' = [inbox EXCEPT ![Top.ftp] = Tail(@)]
      /\ UNCHANGED <<mFtp, conn, rows, owed, data, server, saidVars, cut>>
  BY DEF Reads, Going, Rest
<1>2. /\ Top \in Handlers /\ Top \in Fit /\ Top.ftp \in Conns
  BY <1>1, TopFields, TopIsHandler DEF Typed
<1>3. /\ to \in Fit /\ to.ftp = Top.ftp /\ to.op = Top.op /\ to.file = Top.file
      /\ to.cmd = Top.cmd /\ to.good = (Top.good \/ ok) /\ to.phase = "line"
  <2>1. (Top.good \/ ok) \in BOOLEAN
    BY DEF Expected
  <2> HIDE DEF ok
  <2> QED BY <1>2, <2>1 DEF Fit, Handlers
<1>4. Logged'
  BY <1>1, SaidLogged DEF Matched
<1> HIDE DEF to
<1>5. Top' = to
  BY <1>1, <1>3, GoesOnAlone
<1>6. ASSUME Top.cmd \in {"dele", "retr"} PROVE Heeded(Top)'
  <2>1. Replied(Top)
    <3>1. Top.phase # "log"
      BY <1>1
    <3> QED BY <1>1, <1>6, <3>1 DEF Matched, Paired, Asked, Sending, Heeded, Quiet
  <2>2. PICK class \in {2, 3, 5} : inbox[Top.ftp] = <<class>> /\ (class = 2 => Done(Top))
    BY <2>1 DEF Replied
  <2>3. Head(<<class>>) = class /\ Tail(<<class>>) = <<>>
    OBVIOUS
  <2>4. owed'[Top.ftp] = <<>> /\ inbox'[Top.ftp] = <<>> /\ ~Top.good
    BY <1>1, <1>2, <2>1, <2>2, <2>3 DEF Replied, Typed, LinesOK
  <2>5. to.good => Done(Top)
    <3>1. ok => class = 2
      BY <1>6, <2>2, <2>3 DEF Expected
    <3> HIDE DEF ok
    <3> QED BY <1>3, <2>2, <2>4, <3>1
  <2>6. Done(Top) => Done(Top)'
    BY <1>1, <1>3, <1>5 DEF Done
  <2> QED BY <1>3, <1>5, <2>4, <2>5, <2>6 DEF Heeded, Quiet
<1>7. Paired(Top)'
  BY <1>3, <1>5, <1>6 DEF Paired
<1> QED BY <1>1, <1>3, <1>4, <1>7, GoesOnMatched

LEMMA FailsMatched ==
  ASSUME Typed, Alone, Matched, Fails PROVE Matched'
<1>1. Validates /\ Drops /\ UNCHANGED <<rows, server, saidVars, cut>>
  BY DEF Fails, Rest
<1> QED BY <1>1, ValidatesFacts, DropsMatched

LEMMA SucceedsMatched ==
  ASSUME Typed, Alone, Matched, lates' = 0, Succeeds PROVE Matched'
<1> DEFINE next == Following(Top.cmd)
           to == [Top EXCEPT !.cmd = next, !.phase = "log", !.good = FALSE]
<1>1. /\ Validates /\ next # "" /\ Goes(to)
      /\ UNCHANGED <<netVars, saidVars, cut>>
  BY DEF Succeeds, Sends, Rest
<1>2. /\ stack # <<>> /\ Top \in Handlers /\ Top \in Fit /\ Quiet(Top.ftp)
      /\ Top.cmd \in CommandsOf(Top.op) /\ Top.op \in {"refresh", "export", "delete"}
  BY <1>1, ValidatesFacts, TimesOutQuiet
<1>3. /\ Top.cmd \in {"greeting", "user", "pass", "cwd", "type", "size"}
      /\ next \in {"user", "pass", "cwd", "type", "pasv", "mdtm"}
      /\ (Top.cmd = "type" <=> next = "pasv")
      /\ (Top.cmd = "size" <=> next = "mdtm")
  BY <1>1, FollowingCommands
<1> HIDE DEF next
<1>4. to \in Fit /\ to.ftp = Top.ftp /\ to.phase = "log" /\ to.cmd = next
  BY <1>2, <1>3 DEF Fit, Handlers, CommandsOf, Commands
<1> HIDE DEF to
<1>5. Top' = to
  BY <1>1, <1>2, <1>4, GoesOnAlone
<1>6. Quiet(Top.ftp)'
  BY <1>1, <1>2, <1>4, <1>5 DEF Quiet, netVars
<1>7. Paired(Top)'
  BY <1>3, <1>4, <1>5, <1>6 DEF Paired
<1>8. Logged'
  BY <1>1, SaidLogged DEF Matched, netVars
<1> QED BY <1>1, <1>2, <1>4, <1>7, <1>8, GoesOnMatched

LEMMA ChannelMatched ==
  ASSUME Typed, Alone, Matched, lates' = 0, Channel PROVE Matched'
<1> DEFINE next == IF Top.op = "refresh" THEN "nlst" ELSE "retr"
           to == [Top EXCEPT !.cmd = next, !.phase = "log", !.good = FALSE]
<1>1. /\ Validates /\ Top.cmd = "pasv" /\ UNCHANGED <<rows, owed, server, saidVars, cut>>
  BY DEF Channel, Rest
<1>2. /\ Going /\ stack # <<>> /\ Quiet(Top.ftp)
      /\ Top \in Handlers /\ Top \in Fit
      /\ Top.cmd \in CommandsOf(Top.op) /\ Top.op \in {"refresh", "export", "delete"}
  BY <1>1, ValidatesFacts, TimesOutQuiet
<1>3. Logged'
  BY <1>1, SaidLogged DEF Matched
<1>4. CASE Goes(to) /\ UNCHANGED <<mFtp, conn, inbox>>
  <2>1. /\ to \in Fit /\ to.ftp = Top.ftp /\ to.op = Top.op
       /\ to.phase = "log" /\ to.good = FALSE
    BY <1>1, <1>2 DEF Fit, Handlers, CommandsOf, Commands
  <2> HIDE DEF to, next
  <2>2. Top' = to
    BY <1>2, <1>4, <2>1, GoesOnAlone
  <2>3. Quiet(Top.ftp)'
    BY <1>1, <1>2, <1>4, <2>1, <2>2 DEF Quiet
  <2>4. Paired(Top)'
    BY <2>1, <2>2, <2>3 DEF Paired
  <2> QED BY <1>2, <1>3, <1>4, <2>1, <2>4, GoesOnMatched
<1>5. CASE GivesUp /\ UNCHANGED <<mFtp, conn, inbox>>
  BY <1>1, <1>2, <1>3, <1>5, ReturnsMatched DEF GivesUp, Quiet
<1>6. CASE Drops
  BY <1>1, <1>2, <1>6, DropsMatched
<1> QED BY <1>4, <1>5, <1>6 DEF Channel, Sends

LEMMA DatedMatched ==
  ASSUME Typed, Alone, Matched, lates' = 0, Dated PROVE Matched'
<1> DEFINE to == [Top EXCEPT !.phase = "names", !.names = @ \cup {Top.file}]
<1>1. /\ Validates /\ Top.cmd = "mdtm" /\ Goes(to) /\ UNCHANGED <<netVars, saidVars, cut>>
  BY DEF Dated, Rest
<1>2. /\ stack # <<>> /\ Top \in Handlers /\ Top \in Fit /\ Quiet(Top.ftp)
      /\ Top.cmd \in CommandsOf(Top.op) /\ Top.op \in {"refresh", "export", "delete"}
  BY <1>1, ValidatesFacts, TimesOutQuiet
<1>3. /\ to \in Fit /\ to.ftp = Top.ftp /\ to.cmd = "mdtm" /\ to.phase = "names"
  BY <1>1, <1>2 DEF Fit, Handlers, CommandsOf, Commands
<1> HIDE DEF to
<1>4. Top' = to
  BY <1>1, <1>2, <1>3, GoesOnAlone
<1>5. Quiet(Top.ftp)'
  BY <1>1, <1>2, <1>3, <1>4 DEF Quiet, netVars
<1>6. Paired(Top)'
  BY <1>3, <1>4, <1>5 DEF Paired
<1>7. Logged'
  BY <1>1, SaidLogged DEF Matched, netVars
<1> QED BY <1>1, <1>2, <1>3, <1>6, <1>7, GoesOnMatched

LEMMA NextNameMatched ==
  ASSUME Typed, Alone, Matched, NextName PROVE Matched'
<1> DEFINE name == Min(data[Top.ftp])
           to == [Top EXCEPT !.cmd = "size", !.file = name, !.phase = "log", !.good = FALSE]
<1>1. /\ stack # <<>> /\ Top.phase = "names" /\ data[Top.ftp] # {} /\ Goes(to)
      /\ UNCHANGED <<server, saidVars, cut>>
  BY DEF NextName, Going, Rest
<1>2. /\ Top \in Handlers /\ Top \in Fit /\ Top.ftp \in Conns /\ Top.op = "refresh"
  BY <1>1, TopFields, TopIsHandler DEF Typed
<1>3. name \in Files /\ name \in 0..NumFiles
  <2>1. data[Top.ftp] \subseteq Files
    BY <1>2 DEF Typed, LinesOK
  <2>2. name \in Files
    BY <1>1, <2>1, LeastFile
  <2> QED BY <2>2, FtpAssumption DEF Files
<1> HIDE DEF name
<1>4. to \in Fit /\ to.op = "refresh" /\ to.cmd = "size" /\ to.phase = "log"
  BY <1>2, <1>3 DEF Fit, Handlers, CommandsOf, Commands
<1> HIDE DEF to
<1>5. Top' = to
  BY <1>1, <1>4, GoesOnAlone
<1>6. Paired(Top)'
  BY <1>4, <1>5 DEF Paired
<1>7. Logged'
  BY <1>1, SaidLogged DEF Matched
<1> QED BY <1>1, <1>4, <1>6, <1>7, GoesOnMatched

LEMMA ListedMatched ==
  ASSUME Typed, Alone, Matched, Listed PROVE Matched'
<1>1. /\ stack # <<>> /\ Top.phase = "names" /\ stack' = Below
      /\ rows' = rows \cup Top.names
      /\ UNCHANGED <<mFtp, conn, netVars, saidVars, cut>>
  BY DEF Listed, Going
<1>2. Top.op = "refresh" /\ Top.cmd \notin Entering
  BY <1>1, TopFields DEF Typed, Entering
<1>3. mFtp = Top.ftp /\ rows = {} /\ stack' = <<>>
  BY <1>1, <1>2, LastReturns DEF Alone, Placed
<1>4. Top.names # {} => Quiet(Top.ftp)
  BY <1>1, <1>2 DEF Matched, Paired
<1>5. Rested'
  BY <1>1, <1>3, <1>4 DEF Rested, Quiet, netVars
<1>6. Logged'
  BY <1>1, SaidLogged DEF Matched, netVars
<1> QED BY <1>3, <1>5, <1>6 DEF Matched

LEMMA AdvancesMatched ==
  ASSUME Typed, Alone, Going, Advances(selected), UNCHANGED <<mFtp, owed, inbox>>,
         Top.op \in {"export", "delete"}, Quiet(Top.ftp), Logged', rows' \subseteq rows
  PROVE  Matched'
<1> DEFINE later == {f \in selected : f > Top.file}
           first == IF Top.op = "export" THEN "type" ELSE "dele"
           to == [Top EXCEPT !.file = Min(later), !.phase = "log", !.good = FALSE,
                             !.cmd = first]
<1>1. stack # <<>> /\ Top.file \in rows
  BY DEF Going, Alone, Placed
<1>2. \/ later = {} /\ stack' = Below
      \/ later # {} /\ Goes(to)
  BY <1>1 DEF Advances
<1>3. CASE stack' = Below
  BY <1>1, <1>3, ReturnsMatched DEF Quiet
<1>4. CASE later # {} /\ Goes(to)
  <2>1. Min(later) \in Files
    <3>1. later \subseteq Files
      BY DEF Typed, TabOK
    <3> HIDE DEF later
    <3> QED BY <1>4, <3>1, LeastFile
  <2>2. to \in Fit /\ to.ftp = Top.ftp /\ to.phase = "log" /\ to.good = FALSE
    <3> HIDE DEF later
    <3>1. Top \in Handlers /\ Min(later) \in 0..NumFiles
      BY <1>1, <2>1, TopFields, FtpAssumption DEF Typed, Files
    <3>2. Top.names = {}
      BY <1>1, TopFields DEF Typed, CommandsOf
    <3> QED BY <2>1, <3>1, <3>2 DEF Fit, Handlers, Commands, CommandsOf
  <2> HIDE DEF to, later
  <2>3. Top' = to
    BY <1>1, <1>4, <2>2, GoesOnAlone
  <2>4. Quiet(Top.ftp)'
    BY <2>2, <2>3 DEF Quiet
  <2>5. Paired(Top)'
    BY <2>2, <2>3, <2>4 DEF Paired
  <2> QED BY <1>1, <1>4, <2>2, <2>5, GoesOnMatched
<1> QED BY <1>2, <1>3, <1>4

\* A reply that was good, on quiet lines, was the reply to this command.
LEMMA GoodIsDone ==
  ASSUME Typed, Matched, Validates, Top.good, lates' = 0, Top.cmd \in {"dele", "retr"}
  PROVE  Done(Top)
<1>1. stack # <<>> /\ Top.phase # "log" /\ Quiet(Top.ftp)
  BY ValidatesFacts, TimesOutQuiet
<1>2. Asked(Top) \/ Sending(Top) \/ Replied(Top) \/ Heeded(Top)
  BY <1>1 DEF Matched, Paired
<1> QED BY <1>1, <1>2 DEF Asked, Sending, Replied, Heeded, Quiet

LEMMA FetchesMatched ==
  ASSUME Typed, Alone, Matched, lates' = 0, Fetches PROVE Matched'
<1>1. /\ Validates /\ Top.good /\ Top.cmd = "retr"
      /\ UNCHANGED <<mFtp, rows, owed, inbox, server, deleted>>
  BY DEF Fetches
<1>2. /\ Going /\ stack # <<>> /\ Quiet(Top.ftp) /\ Top.file \in data[Top.ftp]
      /\ Top.cmd \in CommandsOf(Top.op) /\ Top.op \in {"refresh", "export", "delete"}
  BY <1>1, ValidatesFacts, TimesOutQuiet, GoodIsDone DEF Done
<1>3. Top.op = "export" /\ Top.file \in Files
  <2>1. Top.op = "export"
    BY <1>1, <1>2 DEF CommandsOf
  <2> QED BY <1>2, <2>1, TopFields DEF Typed
<1>4. /\ Logged /\ local \in [Files -> {"none", "part", "short", "whole"}] /\ fetched \subseteq Files
      /\ deleted' \cap server' = {}
  BY <1>1 DEF Matched, Typed, SaidOK, Logged
<1>5. CASE /\ \/ /\ cut' = cut
                 /\ local' \in {[local EXCEPT ![Top.file] = "short"],
                                [local EXCEPT ![Top.file] = "whole"]}
              \/ cut' = TRUE
           /\ fetched' = fetched \cup {Top.file} /\ Advances(selected)
  <2>1. Logged'
    <3>1. ASSUME ~cut', NEW f \in fetched' PROVE local'[f] \in {"short", "whole"}
      <4>1. /\ ~cut
            /\ local' \in {[local EXCEPT ![Top.file] = "short"],
                           [local EXCEPT ![Top.file] = "whole"]}
        BY <1>5, <3>1
      <4>2. f = Top.file \/ (f \in fetched /\ f \in Files)
        BY <1>4, <1>5
      <4>3. f \in fetched => local[f] \in {"short", "whole"}
        BY <1>4, <4>1 DEF Logged
      <4> QED BY <1>3, <1>4, <4>1, <4>2, <4>3
    <3> QED BY <1>4, <3>1 DEF Logged
  <2> QED BY <1>1, <1>2, <1>3, <1>5, <2>1, AdvancesMatched
<1>6. CASE /\ GivesUp /\ cut' = cut
           /\ \/ UNCHANGED <<local, fetched>>
              \/ /\ local' = [local EXCEPT ![Top.file] = "none"]
                 /\ fetched' = fetched \ {Top.file}
  <2>1. Logged'
    <3>1. ASSUME ~cut', NEW f \in fetched' PROVE local'[f] \in {"short", "whole"}
      <4>1. f \in fetched /\ f \in Files /\ local[f] \in {"short", "whole"}
        BY <1>4, <1>6, <3>1 DEF Logged
      <4>2. local' = local \/ (local' = [local EXCEPT ![Top.file] = "none"] /\ f # Top.file)
        BY <1>6
      <4> QED BY <1>4, <4>1, <4>2
    <3> QED BY <1>4, <3>1 DEF Logged
  <2> QED BY <1>1, <1>2, <1>6, <2>1, ReturnsMatched DEF GivesUp, Quiet
<1> QED BY <1>2, <1>5, <1>6 DEF Fetches

LEMMA DeletesMatched ==
  ASSUME Typed, Alone, Matched, lates' = 0, Deletes PROVE Matched'
<1>1. /\ Validates /\ Top.good /\ Top.cmd = "dele" /\ Advances(selected)
      /\ deleted' = deleted \cup {Top.file} /\ rows' = rows \ {Top.file}
      /\ UNCHANGED <<mFtp, netVars, local, fetched, cut>>
  BY DEF Deletes
<1>2. /\ Going /\ Quiet(Top.ftp) /\ Top.file \notin server
      /\ Top.cmd \in CommandsOf(Top.op) /\ Top.op \in {"refresh", "export", "delete"}
  BY <1>1, ValidatesFacts, TimesOutQuiet, GoodIsDone DEF Done
<1>3. Top.op = "delete"
  BY <1>1, <1>2 DEF CommandsOf
<1>4. Logged'
  BY <1>1, <1>2 DEF Matched, Logged, netVars
<1> QED BY <1>1, <1>2, <1>3, <1>4, AdvancesMatched DEF netVars

\* The server does nothing on quiet lines.
LEMMA QuietStays ==
  ASSUME Typed, NEW g \in Conns, NEW q \in Conns, Quiet(q), Transfer(g) \/ Answer(g)
  PROVE  Quiet(q)' /\ data'[q] = data[q]
<1>1. owed[g] # <<>> /\ g # q
  BY DEF Transfer, Answer, Quiet
<1>2. CASE Transfer(g)
  <2>1. /\ owed' = [owed EXCEPT ![g][1].cmd = "sent"] /\ UNCHANGED inbox
        /\ data' \in {[data EXCEPT ![g] = server],
                      [data EXCEPT ![g] = {Head(owed[g]).file}]}
    BY <1>2 DEF Transfer
  <2> QED BY <1>1, <2>1 DEF Quiet, Typed, LinesOK
<1>3. CASE Answer(g)
  <2>1. UNCHANGED data /\ \E class : Says(g, class)
    BY <1>3 DEF Answer
  <2> QED BY <1>1, <2>1 DEF Quiet, Typed, LinesOK, Says
<1> QED BY <1>2, <1>3

\* A connection the server is not busy with keeps its lines.
LEMMA OtherStays ==
  ASSUME Typed, NEW g \in Conns, NEW q \in Conns, q # g, Transfer(g) \/ Answer(g)
  PROVE  owed'[q] = owed[q] /\ inbox'[q] = inbox[q] /\ data'[q] = data[q]
<1>2. CASE Transfer(g)
  <2>1. /\ owed' = [owed EXCEPT ![g][1].cmd = "sent"] /\ UNCHANGED inbox
        /\ data' \in {[data EXCEPT ![g] = server],
                      [data EXCEPT ![g] = {Head(owed[g]).file}]}
    BY <1>2 DEF Transfer
  <2> QED BY <2>1 DEF Typed, LinesOK
<1>3. CASE Answer(g)
  <2>1. UNCHANGED data /\ \E class : Says(g, class)
    BY <1>3 DEF Answer
  <2> QED BY <2>1 DEF Typed, LinesOK, Says
<1> QED BY <1>2, <1>3

\* The server's answer to retr or dele, or the file before it, keeps the reply
\* about what has been done.
LEMMA ServerPairs ==
  ASSUME Typed, NEW h \in Fit, Transfer(h.ftp) \/ Answer(h.ftp), h.cmd \in {"dele", "retr"},
         Asked(h) \/ Sending(h) \/ Replied(h) \/ Heeded(h)
  PROVE  (Sending(h) \/ Replied(h) \/ Heeded(h))'
<1> DEFINE g == h.ftp
<1>1. g \in Conns /\ owed[g] # <<>> /\ h.file \in 0..NumFiles
  BY DEF Fit, Handlers, Transfer, Answer
<1>2. Asked(h) \/ Sending(h)
  BY <1>1 DEF Replied, Heeded, Quiet
<1>3. /\ inbox[g] = <<>> /\ ~h.good
      /\ \/ owed[g] = <<[cmd |-> h.cmd, file |-> h.file]>>
         \/ owed[g] = <<[cmd |-> "sent", file |-> h.file]>> /\ Done(h) /\ h.cmd = "retr"
  BY <1>2 DEF Asked, Sending
<1> DEFINE head == Head(owed[g])
<1>4. /\ owed[g] = <<head>> /\ Tail(owed[g]) = <<>> /\ head.file = h.file
      /\ \/ head.cmd = h.cmd
         \/ head.cmd = "sent" /\ Done(h) /\ h.cmd = "retr"
  <2>1. \A x : Head(<<x>>) = x /\ Tail(<<x>>) = <<>>
    OBVIOUS
  <2>2. CASE owed[g] = <<[cmd |-> h.cmd, file |-> h.file]>>
    BY <2>1, <2>2
  <2>3. CASE /\ owed[g] = <<[cmd |-> "sent", file |-> h.file]>>
             /\ Done(h) /\ h.cmd = "retr"
    BY <2>1, <2>3
  <2> QED BY <1>3, <2>2, <2>3
<1>5. CASE Transfer(g)
  <2>1. /\ head.cmd = "retr" /\ head.file \in server
        /\ data' = [data EXCEPT ![g] = {head.file}]
        /\ owed' = [owed EXCEPT ![g][1].cmd = "sent"] /\ UNCHANGED inbox
    BY <1>4, <1>5 DEF Transfer
  <2>2. owed[g] = <<[cmd |-> h.cmd, file |-> h.file]>> /\ h.cmd = "retr"
    BY <1>3, <1>4, <2>1
  <2>3. owed'[g] = <<[cmd |-> "sent", file |-> h.file]>>
    <3>1. owed'[g] = [owed[g] EXCEPT ![1].cmd = "sent"]
      BY <1>1, <2>1 DEF Typed, LinesOK
    <3>2. [<<[cmd |-> h.cmd, file |-> h.file]>> EXCEPT ![1].cmd = "sent"]
          = <<[cmd |-> "sent", file |-> h.file]>>
      OBVIOUS
    <3> QED BY <2>2, <3>1, <3>2
  <2>4. data'[g] = {h.file}
    BY <1>1, <1>4, <2>1 DEF Typed, LinesOK
  <2>5. Sending(h)'
    BY <1>3, <2>1, <2>2, <2>3, <2>4 DEF Sending, Done
  <2> QED BY <2>5
<1>6. CASE Answer(g)
  <2>1. UNCHANGED data /\ server' \subseteq server
    BY <1>6 DEF Answer
  <2>2. PICK class \in {2, 3, 5} : Says(g, class) /\ (class = 2 => Done(h)')
    <3>1. \/ /\ head.cmd \notin {"nlst", "retr"}
             /\ server' = (IF head.cmd = "dele" THEN server \ {head.file} ELSE server)
             /\ Says(g, IF head.cmd = "user" THEN 3 ELSE 2)
          \/ Says(g, 5)
      BY <1>6 DEF Answer
    <3>2. CASE Says(g, 5)
      <4>1. 5 # 2
        OBVIOUS
      <4> QED BY <3>2, <4>1
    <3>3. CASE /\ head.cmd \notin {"nlst", "retr"}
               /\ server' = (IF head.cmd = "dele" THEN server \ {head.file} ELSE server)
               /\ Says(g, IF head.cmd = "user" THEN 3 ELSE 2)
      <4>1. head.cmd # "user"
        BY <1>4
      <4>2. Says(g, 2)
        BY <3>3, <4>1
      <4>3. Done(h)'
        BY <1>4, <3>3, <2>1 DEF Done
      <4> QED BY <4>2, <4>3
    <3> QED BY <3>1, <3>2, <3>3
  <2>3. /\ owed'[g] = <<>>
        /\ inbox'[g] = <<>> \/ inbox'[g] = <<class>>
    <3>1. owed'[g] = <<>>
      BY <1>1, <1>4, <2>2 DEF Says, Typed, LinesOK
    <3>2. inbox'[g] = (IF conn[g] = "open" THEN Append(inbox[g], class) ELSE inbox[g])
      BY <1>1, <2>2 DEF Says, Typed, LinesOK
    <3>3. Append(<<>>, class) = <<class>>
      OBVIOUS
    <3> QED BY <1>3, <3>1, <3>2, <3>3
  <2>4. CASE inbox'[g] = <<>>
    BY <1>3, <2>3, <2>4 DEF Heeded, Quiet
  <2>5. CASE inbox'[g] = <<class>>
    BY <1>3, <2>2, <2>3, <2>5 DEF Replied
  <2> QED BY <2>3, <2>4, <2>5
<1> QED BY <1>5, <1>6

LEMMA ServeMatched ==
  ASSUME Typed, Matched, Serve PROVE Matched'
<1>1. PICK g \in Conns : Transfer(g) \/ Answer(g)
  BY DEF Serve
<1>2. /\ UNCHANGED <<mFtp, conn, rows, stack, saidVars, cut>> /\ server' \subseteq server
      /\ Top' = Top
  BY <1>1 DEF Transfer, Answer, ServerRest, Top
<1>3. Logged'
  BY <1>2 DEF Matched, Logged, saidVars
<1>4. Rested'
  <2> SUFFICES ASSUME stack = <<>>, mFtp # 0, conn[mFtp] = "open", rows # {}
               PROVE  Quiet(mFtp)'
    BY <1>2 DEF Rested
  <2>1. mFtp \in Conns
    BY FtpAssumption DEF Typed, TabOK, Conns
  <2>2. Quiet(mFtp)
    BY DEF Matched, Rested
  <2>3. owed'[mFtp] = <<>> /\ inbox'[mFtp] = <<>>
    BY <1>1, <2>1, <2>2, QuietStays, OtherStays DEF Quiet
  <2> QED BY <1>2, <2>3 DEF Quiet
<1>5. ASSUME stack # <<>> PROVE Paired(Top)'
  <2>1. PICK h \in Fit : h = Top
    BY <1>5, TopIsHandler DEF Typed
  <2>2. Paired(h) /\ h.ftp \in Conns
    BY <1>5, <2>1 DEF Matched, Fit, Handlers
  <2>3. Quiet(h.ftp) => Quiet(h.ftp)'
    BY <1>1, <2>2, QuietStays
  <2>4. ASSUME h.cmd \in {"dele", "retr"}, h.phase # "log"
        PROVE  (Asked(h) \/ Sending(h) \/ Replied(h) \/ Heeded(h))'
    <3>1. Asked(h) \/ Sending(h) \/ Replied(h) \/ Heeded(h)
      BY <2>2, <2>4 DEF Paired
    <3>2. CASE g = h.ftp
      BY <1>1, <2>4, <3>1, <3>2, ServerPairs
    <3>3. CASE g # h.ftp
      <4>1. /\ owed'[h.ftp] = owed[h.ftp] /\ inbox'[h.ftp] = inbox[h.ftp]
            /\ data'[h.ftp] = data[h.ftp]
        BY <1>1, <2>2, <3>3, OtherStays
      <4>2. Done(h) => Done(h)'
        BY <1>2, <4>1 DEF Done
      <4> QED BY <3>1, <4>1, <4>2 DEF Asked, Sending, Replied, Heeded, Quiet
    <3> QED BY <3>2, <3>3
  <2>5. Paired(h)'
    BY <1>2, <2>2, <2>3, <2>4 DEF Paired
  <2>6. h = Top'
    BY <1>2, <2>1
  <2> QED BY <2>5, <2>6 DEF Paired, Asked, Sending, Replied, Heeded, Quiet, Done
<1> QED BY <1>2, <1>3, <1>4, <1>5 DEF Matched

LEMMA ClientLates ==
  ASSUME Typed, Client PROVE lates' = lates \/ lates' = lates + 1
<1>1. CASE UsesNone \/ Send \/ Reads \/ NextName
  BY <1>1 DEF UsesNone, Send, Reads, NextName
<1>2. CASE Fails \/ Succeeds \/ Channel \/ Dated \/ Fetches \/ Deletes
  BY <1>2, ValidatesFacts DEF Fails, Succeeds, Channel, Dated, Fetches, Deletes
<1>3. CASE Listed
  BY <1>3, TimesOutLate DEF Listed
<1> QED BY <1>1, <1>2, <1>3 DEF Client

LEMMA CalmBefore == Typed /\ Client /\ Calm' => Calm /\ lates' = 0
<1> SUFFICES ASSUME Typed, Client, Calm' PROVE Calm /\ lates' = 0
  OBVIOUS
<1>1. ~nested /\ lates' = 0
  BY ClientNotNested DEF Calm
<1>2. lates \in 0..MaxLates
  BY DEF Typed, FlagsOK
<1>3. lates' = lates \/ lates' = lates + 1
  BY ClientLates
<1>4. lates = 0
  BY <1>1, <1>2, <1>3, FtpAssumption
<1> QED BY <1>1, <1>4 DEF Calm

LEMMA InitMatched == FtpInit => MatchedInv
<1> SUFFICES ASSUME FtpInit PROVE Matched
  BY DEF MatchedInv
<1>1. stack = <<>> /\ mFtp = 0 /\ deleted = {} /\ fetched = {}
  BY DEF FtpInit
<1> QED BY <1>1 DEF Matched, Rested, Logged

LEMMA NextMatched == Typed /\ AloneInv /\ MatchedInv /\ [FtpNext]_ftpVars => MatchedInv'
<1> SUFFICES ASSUME Typed, AloneInv, MatchedInv, [FtpNext]_ftpVars PROVE MatchedInv'
  OBVIOUS
<1>1. CASE UNCHANGED ftpVars
  <2>1. /\ Top' = Top
       /\ UNCHANGED <<stack, mFtp, conn, rows, netVars, saidVars, cut, nested, lates>>
    BY <1>1 DEF ftpVars, Top
  <2> QED BY <2>1 DEF MatchedInv, Calm, Matched, Rested, Paired, Logged, Quiet, Asked, Sending,
                      Replied, Heeded, Done, netVars, saidVars
<1>2. CASE Refresh \/ Export \/ Delete
  BY <1>2, RefreshMatched, BeginMatched
<1>3. CASE Client
  <2> SUFFICES ASSUME Calm' PROVE Matched'
    BY DEF MatchedInv
  <2>1. Alone /\ Matched /\ lates' = 0
    BY <1>3, CalmBefore DEF AloneInv, MatchedInv, Calm
  <2> QED BY <1>3, <2>1, UsesNoneMatched, SendMatched, ReadsMatched, FailsMatched,
             SucceedsMatched, ChannelMatched, DatedMatched, NextNameMatched, ListedMatched,
             FetchesMatched, DeletesMatched DEF Client
<1>4. CASE Serve
  <2>1. UNCHANGED <<nested, lates>>
    BY <1>4, ServeUnchanged DEF ServerRest
  <2> QED BY <1>4, <2>1, ServeMatched DEF MatchedInv, Calm
<1> QED BY <1>1, <1>2, <1>3, <1>4 DEF FtpNext

FtpInv == Typed /\ AloneInv /\ MatchedInv

\* The types hold.  While no click starts a handler inside another one, at most
\* one is under way, on the connection of the tab, which has its socket or has
\* lost it to a failing operation; and while no reply is late either, the lines
\* are quiet when an operation sends, so that the reply it reads is its own.
THEOREM FtpInvariant == FtpSpec => []FtpInv
<1>1. FtpInit => FtpInv
  BY InitTypes, InitAlone, InitMatched DEF FtpInv
<1>2. FtpInv /\ [FtpNext]_ftpVars => FtpInv'
  BY NextTypes, NextAlone, NextMatched DEF FtpInv
<1> QED BY <1>1, <1>2, PTL DEF FtpSpec

\* Every variable of the tab and its client keeps its type: whatever is late and
\* however handlers are nested, each goes on with a connection that was made and
\* a command of its own operation.
THEOREM FtpTypeCorrect == FtpSpec => []FtpTypeOK
<1>1. FtpInv => FtpTypeOK
  BY FtpTypes DEF FtpInv
<1> QED BY <1>1, FtpInvariant, PTL

\* Without a handler inside another one no deleted connection and no erased row
\* is used, and a NULL socket only after a file operation has failed.
THEOREM ThereIsWhatIsUsed == FtpSpec => []UsesWhatIsThere
<1>1. FtpInv => UsesWhatIsThere
  BY DEF FtpInv, AloneInv, Alone, Sound, UsesWhatIsThere
<1> QED BY <1>1, FtpInvariant, PTL

\* Although FTPValidateResponse never asks which command a reply answers, what
\* onDeleteButton and onExportButton log is so, up to the end of a file that an
\* unnoticed fclose did not write, unless a reply was late, a handler was started
\* inside another one, or a transfer was cut off.
THEOREM WhatIsLoggedIsSo == FtpSpec => []LoggedIsSo
<1>1. FtpInv => LoggedIsSo
  BY DEF FtpInv, MatchedInv, Calm, Matched, Logged, LoggedIsSo
<1> QED BY <1>1, FtpInvariant, PTL
=============================================================================
