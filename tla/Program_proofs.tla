---------------------------- MODULE Program_proofs ----------------------------
(***************************************************************************)
(* The program with and without a screen, for any number of messages,      *)
(* failures, commands and faults, and any clock and calibrations.          *)
(*                                                                         *)
(* Each part has an inductive invariant of its own, for neither side       *)
(* touches the variables of the other.                                     *)
(***************************************************************************)
EXTENDS Program, TLAPS

-----------------------------------------------------------------------------
(* Without a screen                                                        *)

\* What enterIdleState looks at is what was acknowledged last; and a stop that is
\* there while nothing is recorded has outlived its recording.
RequestsAgree ==
  /\ stopIsAbort <=> lastRequest = "abort"
  /\ Idle /\ stopRequested => outlived

\* The part of HeadlessTypeOK about the record states
StatesTyped ==
  /\ recordState \in RecordStates /\ wait \in 0..Period
  /\ told \in {"none", "red", "yellow", "green"}
  /\ file \in {"none", "open", "kept", "deleted"}
  /\ stopRequested \in BOOLEAN /\ stopIsAbort \in BOOLEAN
  /\ lastRequest \in {"none", "stop", "abort"} /\ outlived \in BOOLEAN
  /\ outOfSpace \in BOOLEAN /\ rate \in {"max", "min", "other"}

LineTyped ==
  /\ half \in Seq(Letters) /\ Len(half) <= 1
  /\ moment \in 0..(Second - 1) /\ age \in 0..(2 * Second)
  /\ line \in Seq(Letters)
  /\ hungUp \in BOOLEAN /\ thread \in {"runs", "spins", "crashed"}
  /\ sent \in 0..MaxSent /\ faults \in 0..MaxFaults

StatesInv == StatesTyped /\ RequestsAgree /\ ControllerKnows

HeadlessInv == StatesInv /\ LineTyped

LEMMA HeadlessInitInv == HeadlessInit => HeadlessInv
<1> SUFFICES ASSUME HeadlessInit PROVE HeadlessInv
  OBVIOUS
<1>1. StatesTyped
  <2>1. wait \in 0..Period
    BY HeadlessAssumption DEF HeadlessInit
  <2>2. /\ stopRequested \in BOOLEAN /\ stopIsAbort \in BOOLEAN
        /\ outOfSpace \in BOOLEAN /\ outlived \in BOOLEAN
    BY DEF HeadlessInit
  <2> QED BY <2>1, <2>2 DEF HeadlessInit, StatesTyped, RecordStates
<1>2. LineTyped
  <2>1. hungUp \in BOOLEAN /\ thread \in {"runs", "spins", "crashed"}
    BY DEF HeadlessInit
  <2>2. /\ half = << >> /\ half \in Seq(Letters) /\ Len(half) <= 1
        /\ line \in Seq(Letters)
    BY DEF HeadlessInit
  <2>3. /\ moment \in 0..(Second - 1) /\ age \in 0..(2 * Second)
        /\ sent \in 0..MaxSent /\ faults \in 0..MaxFaults
    BY HeadlessAssumption DEF HeadlessInit
  <2> QED BY <2>1, <2>2, <2>3 DEF LineTyped
<1>3. RequestsAgree /\ ControllerKnows
  BY DEF HeadlessInit, RequestsAgree, ControllerKnows, Idle
<1> QED BY <1>1, <1>2, <1>3 DEF HeadlessInv, StatesInv

\* A state that is entered is one of a recording, and its color is sent.
LEMMA EnterKeeps ==
  ASSUME StatesInv, Idle => outlived, Runs, thread' = thread,
         NEW s \in RecordStates \ {"NOT_RECORDING"}, Enter(s),
         lastRequest' = lastRequest, stopIsAbort' = stopIsAbort,
         outOfSpace' \in BOOLEAN, rate' = rate, stopRequested' \in BOOLEAN
  PROVE  StatesInv'
<1> USE DEF StatesInv
<1>1. wait' \in 0..Period
  BY HeadlessAssumption DEF Enter, StatesTyped
<1>2. StatesTyped'
  BY <1>1 DEF Enter, StatesTyped
<1>3. RequestsAgree'
  BY DEF Enter, RequestsAgree, Idle
<1>4. ControllerKnows'
  BY DEF Enter, ControllerKnows, Idle, Color, Runs
<1> QED BY <1>2, <1>3, <1>4

LEMMA EnterIdleKeeps ==
  ASSUME StatesInv, EnterIdle, Runs, thread' = thread,
         lastRequest' = lastRequest, stopIsAbort' = stopIsAbort,
         outOfSpace' \in BOOLEAN, rate' = rate, stopRequested' \in BOOLEAN
  PROVE  StatesInv'
<1> USE DEF StatesInv
<1>1. StatesTyped'
  BY DEF EnterIdle, StatesTyped, RecordStates
<1>2. RequestsAgree' /\ ControllerKnows'
  BY DEF EnterIdle, RequestsAgree, ControllerKnows, Idle, Color, Runs
<1> QED BY <1>1, <1>2

\* Some calibrations are left, and one of them is the next.
LEMMA FirstOfFour ==
  ASSUME NEW left \in SUBSET (1..4), left # {}
  PROVE  \E i \in left : \A j \in left : i <= j
<1>1. CASE 1 \in left
  BY <1>1
<1>2. CASE 1 \notin left /\ 2 \in left
  BY <1>2
<1>3. CASE 1 \notin left /\ 2 \notin left /\ 3 \in left
  BY <1>3
<1>4. CASE 1 \notin left /\ 2 \notin left /\ 3 \notin left
  <2>1. \A i \in left : i = 4
    BY <1>4
  <2>2. PICK i \in left : TRUE
    OBVIOUS
  <2>3. \A j \in left : i <= j
    BY <2>1, <2>2
  <2> QED BY <2>2, <2>3
<1> QED BY <1>1, <1>2, <1>3, <1>4

LEMMA EnterAfterKeeps ==
  ASSUME StatesInv, Idle => outlived, Runs, thread' = thread, NEW s, EnterAfter(s),
         lastRequest' = lastRequest, stopIsAbort' = stopIsAbort,
         outOfSpace' \in BOOLEAN, rate' = rate, stopRequested' \in BOOLEAN
  PROVE  StatesInv'
<1> DEFINE left == {i \in 1..4 : i > Position(s) /\ CalOrder[i] \in Cals}
<1>1. CASE left = {}
  BY <1>1, EnterIdleKeeps DEF EnterAfter
<1>2. CASE left # {}
  <2> DEFINE next == CHOOSE i \in left : \A j \in left : i <= j
  <2>1. next \in 1..4
    <3>1. left \in SUBSET (1..4)
      OBVIOUS
    <3> HIDE DEF left
    <3>2. \E i \in left : \A j \in left : i <= j
      BY <1>2, <3>1, FirstOfFour
    <3> QED BY <3>1, <3>2
  <2>2. Enter(CalOrder[next])
    BY <1>2 DEF EnterAfter
  <2>3. CalOrder[next] \in RecordStates \ {"NOT_RECORDING"}
    <3> HIDE DEF next
    <3> QED BY <2>1 DEF CalOrder, RecordStates
  <2> HIDE DEF next
  <2> QED BY <2>2, <2>3, EnterKeeps
<1> QED BY <1>1, <1>2

LEMMA ObeyKeeps ==
  ASSUME StatesInv, Runs, thread' = thread, NEW c, Obey(c)
  PROVE  StatesInv'
<1> USE DEF StatesInv
<1>1. CASE Nothing
  BY <1>1 DEF Nothing, stateVars, stopVars, StatesTyped, RequestsAgree,
              ControllerKnows, Idle, Color, Runs
<1>2. CASE RecordWork /\ Idle
  <2>1. outOfSpace' \in BOOLEAN /\ rate' \in {"max", "min", "other"}
    BY <1>2 DEF RecordWork, StatesTyped
  <2>2. CASE UNCHANGED <<stateVars, stopVars>>
    BY <2>1, <2>2 DEF stateVars, stopVars, StatesTyped, RequestsAgree,
                      ControllerKnows, Idle, Color, Runs
  <2>3. CASE /\ ClearRequests /\ lastRequest' = "none"
             /\ recordState' = (IF "DARK1" \in Cals THEN "DARK1" ELSE "SCIENCE")
             /\ wait' = IF "DARK1" \in Cals THEN Period ELSE wait
             /\ told' = IF "DARK1" \in Cals THEN "yellow" ELSE "green"
             /\ file' = "open" /\ outlived' = FALSE
    <3>1. StatesTyped'
      <4>1. wait' \in 0..Period
        BY <2>3, HeadlessAssumption DEF StatesTyped
      <4>2. stopRequested' \in BOOLEAN /\ stopIsAbort' \in BOOLEAN
        BY <2>3 DEF ClearRequests
      <4> QED BY <2>1, <2>3, <4>1, <4>2 DEF StatesTyped, RecordStates
    <3>2. RequestsAgree' /\ ControllerKnows'
      BY <2>3 DEF RequestsAgree, ControllerKnows, Idle, Color, Runs, ClearRequests
    <3> QED BY <3>1, <3>2
  <2> QED BY <1>2, <2>2, <2>3 DEF RecordWork
<1>3. ASSUME NEW abort \in BOOLEAN, Request(abort), ~Idle
      PROVE  StatesInv'
  <2>1. StatesTyped'
    BY <1>3 DEF Request, stateVars, StatesTyped
  <2>2. RequestsAgree' /\ ControllerKnows'
    BY <1>3 DEF Request, stateVars, StatesTyped, RequestsAgree, ControllerKnows,
                Idle, Color, Runs
  <2> QED BY <2>1, <2>2
<1> QED BY <1>1, <1>2, <1>3 DEF Obey, Idle

LEMMA FrameKeeps ==
  ASSUME HeadlessInv, Frame
  PROVE  HeadlessInv'
<1> USE DEF HeadlessInv
<1>1. LineTyped'
  BY DEF Frame, lineVars, LineTyped
<1>2. /\ outOfSpace' \in BOOLEAN /\ rate' = rate /\ ~Idle /\ Runs
      /\ lastRequest' = lastRequest /\ stopIsAbort' = stopIsAbort
      /\ stopRequested' \in BOOLEAN /\ thread' = thread
  BY DEF Frame, stopVars, StatesInv, StatesTyped
<1>3. CASE EnterIdle
  BY <1>2, <1>3, EnterIdleKeeps, <1>1
<1>4. CASE EnterAfter("SCIENCE") \/ EnterAfter(recordState)
  BY <1>2, <1>4, EnterAfterKeeps, <1>1
<1>5. CASE Enter("SCIENCE")
  BY <1>2, <1>5, EnterKeeps, <1>1 DEF RecordStates
<1>6. CASE /\ wait > 1 /\ wait' = wait - 1
           /\ UNCHANGED <<recordState, told, file, outlived>>
  <2>1. StatesTyped' /\ RequestsAgree'
    BY <1>2, <1>6, HeadlessAssumption DEF StatesInv, StatesTyped, RequestsAgree, Idle
  <2>2. ControllerKnows'
    BY <1>2, <1>6 DEF StatesInv, ControllerKnows, Idle, Color
  <2> QED BY <1>1, <2>1, <2>2 DEF StatesInv
<1> QED BY <1>3, <1>4, <1>5, <1>6 DEF Frame

\* Without a frame a stop is honoured in any state; when nothing is recorded it is
\* one that has outlived its recording.
LEMMA NoFrameKeeps ==
  ASSUME HeadlessInv, NoFrame
  PROVE  HeadlessInv'
<1> USE DEF HeadlessInv
<1>1. LineTyped'
  BY DEF NoFrame, lineVars, LineTyped
<1>2. /\ outOfSpace' \in BOOLEAN /\ rate' = rate /\ Runs /\ thread' = thread
      /\ lastRequest' = lastRequest /\ stopIsAbort' = stopIsAbort
      /\ stopRequested' \in BOOLEAN
  BY DEF NoFrame, StatesInv, StatesTyped
<1>3. Idle => outlived
  BY DEF NoFrame, StatesInv, RequestsAgree
<1>4. CASE EnterIdle
  BY <1>1, <1>2, <1>4, EnterIdleKeeps
<1>5. CASE EnterAfter("SCIENCE")
  BY <1>1, <1>2, <1>3, <1>5, EnterAfterKeeps
<1> QED BY <1>4, <1>5 DEF NoFrame

LEMMA HeadlessNextKeeps ==
  ASSUME HeadlessInv, HeadlessNext
  PROVE  HeadlessInv'
<1> USE DEF HeadlessInv
<1>1. ASSUME UNCHANGED <<stateVars, stopVars, rate, outOfSpace>>,
             thread' = thread \/ thread' = "spins"
      PROVE  StatesInv'
  BY <1>1 DEF StatesInv, stateVars, stopVars, StatesTyped, RequestsAgree,
              ControllerKnows, Idle, Color
<1>2. << >> \in Seq(Letters) /\ Len(<< >>) = 0
      /\ 0 \in 0..(Second - 1) /\ 0 \in 0..(2 * Second)
  BY HeadlessAssumption
<1>3. ASSUME NEW n \in 1..2, PollBytes(n) PROVE HeadlessInv'
  <2> DEFINE bytes == half \o SubSeq(line, 1, n)
  <2>1. n \in 1..(2 - Len(half)) /\ n <= Len(line) /\ n \in Nat /\ Len(line) \in Nat
    BY <1>3 DEF PollBytes, LineTyped
  <2>2. /\ SubSeq(line, 1, n) \in Seq(Letters) /\ Len(SubSeq(line, 1, n)) = n
        /\ SubSeq(line, n + 1, Len(line)) \in Seq(Letters)
    BY <2>1 DEF LineTyped
  <2>3. bytes \in Seq(Letters) /\ Len(bytes) = Len(half) + n
    BY <2>2 DEF LineTyped
  <2>4. CASE Len(bytes) = 2
    <3>1. Obey(bytes) /\ half' = << >> /\ moment' = 0 /\ Runs /\ thread' = thread
      BY <1>3, <2>4 DEF PollBytes
    <3>2. LineTyped'
      BY <1>2, <1>3, <2>2, <3>1 DEF PollBytes, LineTyped
    <3> HIDE DEF bytes
    <3> QED BY <3>1, <3>2, ObeyKeeps
  <2>5. CASE Len(bytes) # 2
    <3>1. /\ Nothing /\ half' = bytes /\ moment' \in 0..(Second - 1)
          /\ thread' = thread
      BY <1>3, <2>5 DEF PollBytes
    <3>2. Len(bytes) <= 1
      BY <2>1, <2>3, <2>5 DEF LineTyped
    <3>3. LineTyped'
      BY <1>2, <1>3, <2>2, <2>3, <3>1, <3>2 DEF PollBytes, LineTyped
    <3> QED BY <1>1, <3>1, <3>3 DEF Nothing
  <2> QED BY <2>4, <2>5
<1>4. CASE PollNothing \/ PollHungUp \/ PollFails
  <2>1. StatesInv'
    BY <1>1, <1>4 DEF PollNothing, PollHungUp, PollFails
  <2>2. faults' \in 0..MaxFaults
    BY <1>4, HeadlessAssumption DEF PollNothing, PollHungUp, PollFails, Fault, LineTyped
  <2>3. hungUp' \in BOOLEAN /\ thread' \in {"runs", "spins", "crashed"}
    BY <1>4 DEF PollNothing, PollHungUp, PollFails, LineTyped
  <2>4. /\ half' \in Seq(Letters) /\ Len(half') <= 1
        /\ moment' \in 0..(Second - 1) /\ age' \in 0..(2 * Second)
        /\ line' \in Seq(Letters) /\ sent' \in 0..MaxSent
    <3>1. CASE PollNothing \/ PollFails
      <4>1. half' = << >> /\ moment' = 0 /\ age' = 0
            /\ line' = line /\ sent' = sent
        BY <3>1 DEF PollNothing, PollFails
      <4> QED BY <1>2, <4>1 DEF LineTyped
    <3>2. CASE PollHungUp
      BY <3>2 DEF PollHungUp, LineTyped
    <3> QED BY <1>4, <3>1, <3>2
  <2>5. LineTyped'
    BY <2>2, <2>3, <2>4 DEF LineTyped
  <2> QED BY <2>1, <2>5
<1>5. CASE WriteFails
  <2>1. StatesInv'
    BY <1>5, EnterIdleKeeps DEF WriteFails, stopVars, StatesInv, StatesTyped
  <2>2. LineTyped'
    BY <1>5, HeadlessAssumption DEF WriteFails, Fault, lineVars, LineTyped
  <2> QED BY <2>1, <2>2
<1>6. ASSUME NEW command \in Commands, Send(command) PROVE HeadlessInv'
  <2>1. StatesInv'
    BY <1>1, <1>6 DEF Send
  <2>2. command \in Seq(Letters)
    <3>1. /\ <<"R", "E">> \in Seq(Letters) /\ <<"S", "T">> \in Seq(Letters)
          /\ <<"A", "B">> \in Seq(Letters) /\ <<"I", "I">> \in Seq(Letters)
      BY DEF Letters
    <3> QED BY <3>1 DEF Commands
  <2>3. line' \in Seq(Letters) /\ sent' \in 0..MaxSent
    BY <1>6, <2>2, HeadlessAssumption DEF Send, LineTyped
  <2> QED BY <1>6, <2>1, <2>3 DEF Send, LineTyped
<1>7. CASE LoseByte
  <2>1. StatesInv'
    BY <1>1, <1>7 DEF LoseByte
  <2>2. line' \in Seq(Letters)
    <3>1. PICK i \in 1..Len(line) :
            line' = SubSeq(line, 1, i - 1) \o SubSeq(line, i + 1, Len(line))
      BY <1>7 DEF LoseByte
    <3>2. /\ SubSeq(line, 1, i - 1) \in Seq(Letters)
          /\ SubSeq(line, i + 1, Len(line)) \in Seq(Letters)
      BY DEF LineTyped
    <3> QED BY <3>1, <3>2
  <2>3. faults' \in 0..MaxFaults
    BY <1>7, HeadlessAssumption DEF LoseByte, Fault, LineTyped
  <2> QED BY <1>7, <2>1, <2>2, <2>3 DEF LoseByte, LineTyped
<1>8. CASE HangUp \/ Tick
  <2>1. StatesInv'
    BY <1>1, <1>8 DEF HangUp, Tick
  <2>2. faults' \in 0..MaxFaults /\ age' \in 0..(2 * Second)
    BY <1>8, HeadlessAssumption DEF HangUp, Tick, Fault, LineTyped
  <2> QED BY <1>8, <2>1, <2>2 DEF HangUp, Tick, LineTyped
<1>9. CASE WriteCrashes
  <2>1. outlived /\ thread' = "crashed"
    BY <1>9 DEF WriteCrashes, StatesInv, ControllerKnows, StatesTyped
  <2>2. /\ UNCHANGED <<stateVars, stopVars, rate, outOfSpace>>
        /\ UNCHANGED <<lineVars, faults>>
    BY <1>9 DEF WriteCrashes
  <2>3. StatesInv'
    BY <2>1, <2>2 DEF StatesInv, stateVars, stopVars, StatesTyped, RequestsAgree,
                      ControllerKnows, Idle, Color
  <2>4. LineTyped'
    BY <2>1, <2>2 DEF lineVars, LineTyped
  <2> QED BY <2>3, <2>4
<1> QED
  BY <1>3, <1>4, <1>5, <1>6, <1>7, <1>8, <1>9, FrameKeeps, NoFrameKeeps
  DEF HeadlessNext, Poll

LEMMA HeadlessStutters ==
  ASSUME HeadlessInv, UNCHANGED headlessVars
  PROVE  HeadlessInv'
BY DEF HeadlessInv, headlessVars, stateVars, stopVars, lineVars, StatesInv,
       StatesTyped, RequestsAgree, ControllerKnows, Idle, Color, LineTyped

\* Comparing seconds and microseconds apart is comparing times.
LEMMA ResyncIsAge ==
  ASSUME LineTyped
  PROVE  Resync <=> 2 * age >= Second
<1> DEFINE seconds == (moment + age) \div Second
           usec == (moment + age) % Second
<1>1. Second \in Nat /\ Second > 0 /\ moment \in Nat /\ moment < Second /\ age \in Nat
  BY HeadlessAssumption DEF LineTyped
<1>2. /\ seconds \in Nat /\ usec \in Nat /\ usec < Second
      /\ moment + age = Second * seconds + usec
  BY <1>1
<1>3. Resync <=> IF seconds = 0 THEN 2 * (usec - moment) >= Second
                 ELSE IF seconds = 1 THEN 2 * (usec + Second - moment) >= Second
                 ELSE TRUE
  BY DEF Resync
<1> HIDE DEF seconds, usec
<1>4. CASE seconds = 0
  BY <1>1, <1>2, <1>3, <1>4
<1>5. CASE seconds = 1
  BY <1>1, <1>2, <1>3, <1>5
<1>6. CASE seconds >= 2
  <2>1. Second * seconds >= 2 * Second
    BY <1>1, <1>2, <1>6
  <2> QED BY <1>1, <1>2, <1>3, <1>6, <2>1
<1> QED BY <1>2, <1>4, <1>5, <1>6

-----------------------------------------------------------------------------
(* Popups                                                                  *)

\* Until a notification is served in a popup's loop there is one popup at most;
\* the queue holds the last messages, and those before them, with the one that
\* is up, have been shown.
OneAtATime ==
  /\ ~broken
  /\ Len(popups) <= 1 /\ (popups # << >> => queue # << >>)
  /\ \A i \in 1..Len(queue) : queue[i] = messages - Len(queue) + i
  /\ Len(shown) = messages - Len(queue) + (IF popups = << >> THEN 0 ELSE 1)
  /\ \A i \in 1..Len(shown) : shown[i] = i

PopupsInv ==
  /\ PopupsTypeOK /\ notified <= messages
  /\ (~nested => OneAtATime)

LEMMA FirstAndRest ==
  ASSUME NEW S, NEW q \in Seq(S), q # << >>
  PROVE  /\ Len(q) \in Nat /\ Len(q) >= 1 /\ Head(q) = q[1] /\ Head(q) \in S
         /\ Tail(q) \in Seq(S) /\ Len(Tail(q)) = Len(q) - 1
         /\ \A i \in 1..Len(Tail(q)) : Tail(q)[i] = q[i + 1]
<1>1. Len(q) \in Nat /\ Len(q) >= 1
  OBVIOUS
<1> QED BY <1>1

LEMMA AllButLast ==
  ASSUME NEW S, NEW q \in Seq(S), q # << >>
  PROVE  Front(q) \in Seq(S) /\ Len(Front(q)) = Len(q) - 1
<1>1. Len(q) \in Nat /\ Len(q) >= 1
  OBVIOUS
<1>2. Front(q) = SubSeq(q, 1, Len(q) - 1)
  BY DEF Front
<1>3. SubSeq(q, 1, Len(q) - 1) \in Seq(S)
  BY <1>1
<1>4. Len(SubSeq(q, 1, Len(q) - 1)) = Len(q) - 1
  BY <1>1
<1> QED BY <1>2, <1>3, <1>4

LEMMA PopupsInitInv == PopupsInit => PopupsInv
<1> SUFFICES ASSUME PopupsInit PROVE PopupsInv
  OBVIOUS
<1>1. nested \in BOOLEAN /\ broken \in BOOLEAN /\ mainLoop \in BOOLEAN
  BY DEF PopupsInit
<1>2. PopupsTypeOK
  BY <1>1, PopupsAssumption DEF PopupsInit, PopupsTypeOK
<1>3. notified <= messages
  BY DEF PopupsInit
<1>4. /\ queue = << >> /\ Len(queue) = 0 /\ popups = << >>
      /\ Len(popups) = 0 /\ shown = << >> /\ Len(shown) = 0 /\ messages = 0
  BY DEF PopupsInit
<1>5. ~broken
  BY DEF PopupsInit
<1>6. OneAtATime
  <2>1. 1..Len(queue) = {} /\ 1..Len(shown) = {}
    BY <1>4
  <2>2. Len(shown) = messages - Len(queue) + (IF popups = << >> THEN 0 ELSE 1)
    <3>1. Len(shown) = 0 /\ messages = 0 /\ Len(queue) = 0
      BY <1>4
    <3>2. (IF popups = << >> THEN 0 ELSE 1) = 0
      BY <1>4
    <3> QED BY <3>1, <3>2
  <2>3. Len(popups) <= 1
    BY <1>4
  <2> QED BY <1>4, <1>5, <2>1, <2>2, <2>3 DEF OneAtATime
<1> QED BY <1>2, <1>3, <1>6 DEF PopupsInv

\* Messages may be queued by whoever has the lock.
LEMMA PostKeeps ==
  ASSUME PopupsInv, NEW n \in {1, 2}, Post(n),
         UNCHANGED <<popups, shown, nested, broken>>,
         dataSends' \in {"no", "waits", "ended"}, mainLoop' \in BOOLEAN
  PROVE  PopupsInv'
<1> USE PopupsAssumption DEF PopupsInv
<1> DEFINE new == [i \in 1..n |-> messages + i]
<1>1. messages \in Nat /\ n \in Nat /\ MaxMessages \in Nat /\ notified \in Nat
  BY DEF PopupsTypeOK
<1>2. new \in Seq(1..MaxMessages) /\ Len(new) = n
  <2>1. \A i \in 1..n : messages + i \in 1..MaxMessages
    BY <1>1 DEF Post
  <2> QED BY <1>1, <2>1
<1>3. queue \in Seq(1..MaxMessages) /\ Len(queue) \in Nat
  BY DEF PopupsTypeOK
<1>4. /\ queue' \in Seq(1..MaxMessages) /\ Len(queue') = Len(queue) + n
      /\ \A i \in 1..Len(queue) : queue'[i] = queue[i]
      /\ \A i \in 1..n : queue'[Len(queue) + i] = messages + i
  <2>1. queue' = queue \o new
    BY DEF Post
  <2>2. \A i \in 1..n : new[i] = messages + i
    OBVIOUS
  <2> HIDE DEF new
  <2> QED BY <1>1, <1>2, <1>3, <2>1, <2>2
<1>5. /\ messages' = messages + n /\ messages' \in 0..MaxMessages
      /\ notified' = notified + n /\ notified' \in 0..MaxMessages
      /\ notified' <= messages'
  BY <1>1 DEF Post
<1>6. PopupsTypeOK'
  BY <1>4, <1>5 DEF PopupsTypeOK
<1>7. ASSUME ~nested PROVE OneAtATime'
  <2>1. OneAtATime
    BY <1>7
  <2>2. \A i \in 1..Len(queue') : queue'[i] = messages' - Len(queue') + i
    <3> TAKE i \in 1..Len(queue')
    <3>1. CASE i <= Len(queue)
      BY <1>1, <1>3, <1>4, <1>5, <2>1, <3>1 DEF OneAtATime
    <3>2. CASE i > Len(queue)
      <4>1. i - Len(queue) \in 1..n /\ i = Len(queue) + (i - Len(queue))
        BY <1>1, <1>3, <1>4, <3>2
      <4>2. queue'[i] = messages + (i - Len(queue))
        BY <1>4, <4>1
      <4> QED BY <1>1, <1>3, <1>4, <1>5, <4>1, <4>2
    <3> QED BY <1>1, <1>3, <1>4, <3>1, <3>2
  <2>3. Len(shown') = messages' - Len(queue') + (IF popups' = << >> THEN 0 ELSE 1)
    BY <1>1, <1>3, <1>4, <1>5, <2>1 DEF OneAtATime
  <2>4. popups' # << >> => queue' # << >>
    BY <1>1, <1>3, <1>4
  <2> QED BY <2>1, <2>2, <2>3, <2>4 DEF OneAtATime
<1> QED BY <1>5, <1>6, <1>7

\* The first message of the queue is shown when the ones before it have been.
LEMMA ShowKeeps ==
  ASSUME PopupsTypeOK, queue' \in Seq(1..MaxMessages), queue' # << >>,
         NEW dialogs \in Seq(1..MaxMessages), Show(dialogs)
  PROVE  /\ popups' \in Seq(1..MaxMessages) /\ Len(popups') = Len(dialogs) + 1
         /\ shown' \in Seq(1..MaxMessages) /\ Len(shown') = Len(shown) + 1
         /\ \A i \in 1..Len(shown) : shown'[i] = shown[i]
         /\ shown'[Len(shown) + 1] = queue'[1]
<1>1. Head(queue') = queue'[1] /\ Head(queue') \in 1..MaxMessages
  BY FirstAndRest
<1>2. shown \in Seq(1..MaxMessages)
  BY DEF PopupsTypeOK
<1> QED BY <1>1, <1>2 DEF Show

LEMMA DispatchKeeps ==
  ASSUME PopupsInv, Dispatch
  PROVE  PopupsInv'
<1> USE PopupsAssumption DEF PopupsInv
<1>1. /\ messages \in Nat /\ notified \in Nat /\ notified' = notified - 1
      /\ notified' \in 0..MaxMessages /\ notified' <= messages' /\ queue' = queue
      /\ messages' = messages /\ queue \in Seq(1..MaxMessages)
      /\ shown \in Seq(1..MaxMessages) /\ popups \in Seq(1..MaxMessages)
  BY DEF Dispatch, PopupsTypeOK
<1>2. nested' \in BOOLEAN /\ broken' = broken /\ (~nested' => ~nested /\ ~Locked)
  BY DEF Dispatch, PopupsTypeOK
<1>3. CASE queue = << >>
  <2>1. popups' = popups /\ shown' = shown
    BY <1>3 DEF Dispatch
  <2>2. PopupsTypeOK'
    BY <1>1, <1>2, <2>1 DEF Dispatch, PopupsTypeOK
  <2>3. ~nested' => OneAtATime'
    BY <1>1, <1>2, <2>1 DEF OneAtATime
  <2> QED BY <1>1, <2>2, <2>3
<1>4. CASE queue # << >>
  <2>1. Show(popups)
    BY <1>4 DEF Dispatch
  <2>2. /\ popups' \in Seq(1..MaxMessages) /\ Len(popups') = Len(popups) + 1
        /\ shown' \in Seq(1..MaxMessages) /\ Len(shown') = Len(shown) + 1
        /\ \A i \in 1..Len(shown) : shown'[i] = shown[i]
        /\ shown'[Len(shown) + 1] = queue'[1]
    BY <1>1, <1>4, <2>1, ShowKeeps
  <2>3. PopupsTypeOK'
    BY <1>1, <1>2, <2>2 DEF Dispatch, PopupsTypeOK
  <2>4. ASSUME ~nested' PROVE OneAtATime'
    <3>1. OneAtATime /\ popups = << >>
      BY <1>2, <2>4 DEF Locked
    <3>2. Len(popups') = 1 /\ popups' # << >>
      <4>1. Len(popups) = 0
        BY <3>1
      <4>2. Len(popups') = 1
        BY <2>2, <4>1
      <4> QED BY <4>2
    <3>3. Len(queue) \in Nat /\ Len(queue) >= 1 /\ Len(shown) \in Nat
      BY <1>1, <1>4
    <3>4. Len(shown') = messages' - Len(queue') + 1
      BY <1>1, <2>2, <3>1, <3>3 DEF OneAtATime
    <3>5. \A i \in 1..Len(shown') : shown'[i] = i
      <4>1. queue'[1] = Len(shown) + 1
        BY <1>1, <3>1, <3>3 DEF OneAtATime
      <4>2. \A i \in 1..Len(shown) : shown'[i] = i
        BY <2>2, <3>1 DEF OneAtATime
      <4> QED BY <2>2, <3>3, <4>1, <4>2
    <3> QED BY <1>1, <1>2, <1>4, <3>1, <3>2, <3>4, <3>5 DEF OneAtATime
  <2> QED BY <1>1, <2>3, <2>4
<1> QED BY <1>3, <1>4

LEMMA ClickKeeps ==
  ASSUME PopupsInv, ClickOK
  PROVE  PopupsInv'
<1> USE PopupsAssumption DEF PopupsInv
<1>1. /\ messages \in Nat /\ messages' = messages /\ notified' = notified
      /\ nested' = nested /\ queue \in Seq(1..MaxMessages)
      /\ shown \in Seq(1..MaxMessages) /\ popups \in Seq(1..MaxMessages)
      /\ popups # << >>
  BY DEF ClickOK, PopupsTypeOK, Locked
<1>2. broken' \in BOOLEAN /\ (queue # << >> => broken' = broken)
  BY DEF ClickOK, PopupsTypeOK
<1>3. /\ queue' \in Seq(1..MaxMessages)
      /\ queue # << >> => /\ Len(queue') = Len(queue) - 1
                          /\ \A i \in 1..Len(queue') : queue'[i] = queue[i + 1]
  <2>1. CASE queue = << >>
    BY <1>1, <2>1 DEF ClickOK
  <2>2. CASE queue # << >>
    <3>1. queue' = Tail(queue)
      BY <2>2 DEF ClickOK
    <3> QED BY <1>1, <2>2, <3>1, FirstAndRest
  <2> QED BY <2>1, <2>2
<1>4. Front(popups) \in Seq(1..MaxMessages) /\ Len(Front(popups)) = Len(popups) - 1
  BY <1>1, AllButLast
<1>5. CASE queue' = << >>
  <2>1. popups' = Front(popups) /\ shown' = shown
    BY <1>5 DEF ClickOK
  <2>2. PopupsTypeOK'
    BY <1>1, <1>2, <1>3, <1>4, <2>1 DEF ClickOK, PopupsTypeOK
  <2>3. ASSUME ~nested PROVE OneAtATime'
    <3>1. OneAtATime /\ queue # << >> /\ Len(queue) = 1
      BY <1>1, <1>3, <1>5, <2>3 DEF OneAtATime
    <3>2. Len(popups') = 0 /\ popups' = << >>
      BY <1>1, <1>4, <2>1, <3>1 DEF OneAtATime
    <3> QED BY <1>1, <1>2, <1>5, <2>1, <3>1, <3>2 DEF OneAtATime
  <2> QED BY <1>1, <2>2, <2>3
<1>6. CASE queue' # << >>
  <2>1. Show(Front(popups))
    BY <1>6 DEF ClickOK
  <2>2. /\ popups' \in Seq(1..MaxMessages)
        /\ Len(popups') = Len(Front(popups)) + 1
        /\ shown' \in Seq(1..MaxMessages) /\ Len(shown') = Len(shown) + 1
        /\ \A i \in 1..Len(shown) : shown'[i] = shown[i]
        /\ shown'[Len(shown) + 1] = queue'[1]
    BY <1>3, <1>4, <1>6, <2>1, ShowKeeps
  <2>3. PopupsTypeOK'
    BY <1>1, <1>2, <1>3, <2>2 DEF ClickOK, PopupsTypeOK
  <2>4. ASSUME ~nested PROVE OneAtATime'
    <3>1. OneAtATime /\ queue # << >> /\ Len(queue) \in Nat /\ Len(shown) \in Nat
      BY <1>1, <2>4 DEF OneAtATime
    <3>2. Len(popups') = 1 /\ popups' # << >>
      <4>1. Len(popups) \in Nat /\ Len(popups) >= 1 /\ Len(popups) <= 1
        BY <1>1, <3>1 DEF OneAtATime
      <4>2. Len(popups') = 1
        BY <1>4, <2>2, <4>1
      <4> QED BY <4>2
    <3>3. Len(queue') = Len(queue) - 1 /\ Len(queue') >= 1
      BY <1>3, <1>6, <3>1
    <3>4. Len(shown') = messages' - Len(queue') + 1
      BY <1>1, <2>2, <3>1, <3>3 DEF OneAtATime
    <3>5. \A i \in 1..Len(queue') : queue'[i] = messages' - Len(queue') + i
      <4> TAKE i \in 1..Len(queue')
      <4>1. i + 1 \in 1..Len(queue) /\ queue'[i] = queue[i + 1]
        BY <1>3, <3>1, <3>3
      <4>2. queue[i + 1] = messages - Len(queue) + (i + 1)
        BY <3>1, <4>1 DEF OneAtATime
      <4> QED BY <1>1, <3>1, <3>3, <4>1, <4>2
    <3>6. \A i \in 1..Len(shown') : shown'[i] = i
      <4>1. queue'[1] = Len(shown) + 1
        BY <1>1, <3>1, <3>3, <3>5 DEF OneAtATime
      <4>2. \A i \in 1..Len(shown) : shown'[i] = i
        BY <2>2, <3>1 DEF OneAtATime
      <4> QED BY <2>2, <3>1, <4>1, <4>2
    <3> QED BY <1>2, <1>6, <3>1, <3>2, <3>4, <3>5, <3>6 DEF OneAtATime
  <2> QED BY <1>1, <2>3, <2>4
<1> QED BY <1>5, <1>6

\* A step that leaves the messages alone
LEMMA QuietKeeps ==
  ASSUME PopupsInv, UNCHANGED <<queue, notified, popups, messages, shown, nested,
                                broken>>,
         dataSends' \in {"no", "waits", "ended"}, mainLoop' \in BOOLEAN
  PROVE  PopupsInv'
BY DEF PopupsInv, PopupsTypeOK, OneAtATime

LEMMA PopupsNextKeeps ==
  ASSUME PopupsInv, PopupsNext
  PROVE  PopupsInv'
<1>1. mainLoop \in BOOLEAN /\ dataSends \in {"no", "waits", "ended"}
  BY DEF PopupsInv, PopupsTypeOK
<1>2. CASE MainSends
  BY <1>1, <1>2, PostKeeps DEF MainSends
<1>3. CASE DataWants
  BY <1>1, <1>3, QuietKeeps DEF DataWants
<1>4. CASE DataSends
  BY <1>1, <1>4, PostKeeps, QuietKeeps DEF DataSends
<1> QED BY <1>2, <1>3, <1>4, DispatchKeeps, ClickKeeps DEF PopupsNext

-----------------------------------------------------------------------------
(* The way out                                                             *)

\* The file at hand has its original until it is unlinked, which follows a copy
\* that has been written; those still to come have not been given up.
WorkInv ==
  /\ phase \in Phases /\ at \in 1..4
  /\ original \in [Fs -> {"none", "there", "gone"}]
  /\ copy \in [Fs -> {"none", "part", "whole", "short"}]
  /\ said \subseteq Fs /\ failures \in 0..MaxFailures
  /\ phase \in {"copy", "undo", "close"} => original[Current] = "there"
  /\ phase = "close" => copy[Current] \in {"whole", "short"}
  /\ phase \notin {"dark", "gone"} => \A i \in at..4 : Files[i] \notin said
  /\ NothingLost

LeavingInv == PopupsInv /\ WorkInv

LEMMA FourFiles ==
  /\ Len(Files) = 4
  /\ \A i \in 1..4 : Files[i] \in Fs
  /\ \A i, j \in 1..4 : Files[i] = Files[j] => i = j
<1>1. Len(Files) = 4
  BY DEF Files
<1>2. \A i, j \in 1..4 : Files[i] = Files[j] => i = j
  BY DEF Files
<1> QED BY <1>1, <1>2 DEF Fs

LEMMA LeavingInitInv == LeavingInit => LeavingInv
<1> SUFFICES ASSUME LeavingInit PROVE LeavingInv
  OBVIOUS
<1>1. PopupsInv
  BY PopupsInitInv DEF LeavingInit
<1>2. at \in 1..4 /\ failures \in 0..MaxFailures
  BY LeavingAssumption DEF LeavingInit
<1>3. NothingLost
  BY DEF LeavingInit, NothingLost
<1>4. WorkInv
  BY <1>2, <1>3 DEF LeavingInit, WorkInv, Phases
<1> QED BY <1>1, <1>4 DEF LeavingInv

\* Telling the user on the way out, or not, is a message like others.
LEMMA WarnKeeps ==
  ASSUME PopupsInv, Warn \/ NoWarning, UNCHANGED Elsewhere, mainLoop' = mainLoop
  PROVE  PopupsInv'
<1>1. mainLoop' \in BOOLEAN /\ dataSends' \in {"no", "waits", "ended"}
  BY DEF Elsewhere, PopupsInv, PopupsTypeOK
<1>2. UNCHANGED <<popups, shown, nested, broken>>
  BY DEF Elsewhere
<1>3. CASE Warn
  BY <1>1, <1>2, <1>3, PostKeeps, QuietKeeps DEF Warn
<1>4. CASE NoWarning
  BY <1>1, <1>2, <1>4, QuietKeeps DEF NoWarning
<1> QED BY <1>3, <1>4

LEMMA MessagesKeep ==
  ASSUME PopupsInv, Exit \/ ExitStep
  PROVE  PopupsInv'
<1>1. CASE Exit
  BY <1>1, QuietKeeps DEF Exit, Elsewhere, PopupsInv, PopupsTypeOK
<1>2. CASE Join
  BY <1>2, QuietKeeps DEF Join, PopupsInv, PopupsTypeOK
<1>3. CASE SaveSettings \/ Skip \/ OpenFails \/ Open \/ SaveDarkFrame
  BY <1>3, WarnKeeps DEF SaveSettings, Skip, OpenFails, Open, SaveDarkFrame
<1>4. CASE CopyFails \/ Undo \/ Copy \/ Unlink
  BY <1>4, WarnKeeps DEF CopyFails, Undo, Copy, Unlink
<1> QED BY <1>1, <1>2, <1>3, <1>4 DEF ExitStep

\* The next file, if there is one, comes after this.
LEMMA NextFileGoesOn ==
  ASSUME WorkInv, NextFile
  PROVE  /\ phase' \in {"dark", "open"} /\ at' \in 1..4
         /\ phase' = "open" => at' = at + 1
BY FourFiles DEF WorkInv, NextFile

LEMMA WorkKeeps ==
  ASSUME WorkInv, Exit \/ ExitStep
  PROVE  WorkInv'
<1> USE DEF WorkInv
<1>1. at \in 1..4 /\ Current \in Fs
  BY FourFiles DEF Current
<1>2. ASSUME Fails PROVE failures' \in 0..MaxFailures
  BY <1>2, LeavingAssumption DEF Fails
<1>3. CASE Exit \/ Join \/ SaveSettings
  <2>1. /\ phase' \in {"join", "settings", "open"}
        /\ phase \notin {"dark", "gone"}
        /\ UNCHANGED <<at, original, copy, said>>
    BY <1>3 DEF Exit, Join, SaveSettings
  <2>2. failures' \in 0..MaxFailures
    BY <1>2, <1>3 DEF Exit, Join, SaveSettings
  <2> QED BY <2>1, <2>2 DEF Phases, NothingLost
<1>4. CASE Skip
  <2>1. /\ phase' \in {"dark", "open"} /\ at' \in 1..4
        /\ phase' = "open" => at' = at + 1
    BY <1>4, NextFileGoesOn DEF Skip
  <2> QED BY <1>4, <2>1 DEF Skip, Phases, NothingLost
<1>5. CASE OpenFails
  <2>1. /\ phase' \in {"dark", "open"} /\ at' \in 1..4
        /\ phase' = "open" => at' = at + 1
    BY <1>5, NextFileGoesOn DEF OpenFails
  <2>2. said' \subseteq Fs
    BY <1>1, <1>5 DEF OpenFails
  <2>3. phase' \notin {"dark", "gone"} => \A i \in at'..4 : Files[i] \notin said'
    BY <1>5, <2>1, FourFiles DEF OpenFails, Current
  <2>4. NothingLost'
    BY <1>1, <1>5 DEF OpenFails, NothingLost
  <2> QED BY <1>2, <1>5, <2>1, <2>2, <2>3, <2>4 DEF OpenFails, Phases
<1>6. CASE Open
  <2>1. copy' \in [Fs -> {"none", "part", "whole", "short"}]
    BY <1>1, <1>6 DEF Open
  <2>2. NothingLost'
    BY <1>1, <1>6 DEF Open, NothingLost
  <2> QED BY <1>6, <2>1, <2>2 DEF Open, Phases, Current
<1>7. CASE CopyFails
  BY <1>2, <1>7 DEF CopyFails, Phases, NothingLost, Current
<1>8. CASE Undo
  <2>1. /\ phase' \in {"dark", "open"} /\ at' \in 1..4
        /\ phase' = "open" => at' = at + 1
    BY <1>8, NextFileGoesOn DEF Undo
  <2>2. /\ copy' \in [Fs -> {"none", "part", "whole", "short"}]
        /\ said' \subseteq Fs
    BY <1>1, <1>8 DEF Undo
  <2>3. phase' \notin {"dark", "gone"} => \A i \in at'..4 : Files[i] \notin said'
    BY <1>8, <2>1, FourFiles DEF Undo, Current
  <2>4. NothingLost'
    BY <1>1, <1>8 DEF Undo, NothingLost
  <2> QED BY <1>8, <2>1, <2>2, <2>3, <2>4 DEF Undo, Phases
<1>9. CASE Copy
  <2>1. copy' \in [Fs -> {"none", "part", "whole", "short"}]
        /\ copy'[Current] \in {"whole", "short"}
    BY <1>1, <1>9 DEF Copy
  <2>2. failures' \in 0..MaxFailures
    BY <1>2, <1>9 DEF Copy
  <2>3. NothingLost'
    BY <1>1, <1>9 DEF Copy, NothingLost
  <2> QED BY <1>9, <2>1, <2>2, <2>3 DEF Copy, Phases, Current
<1>10. CASE Unlink
  <2>1. /\ phase' \in {"dark", "open"} /\ at' \in 1..4
        /\ phase' = "open" => at' = at + 1
    BY <1>10, NextFileGoesOn DEF Unlink
  <2>2. original' \in [Fs -> {"none", "there", "gone"}]
    BY <1>1, <1>10 DEF Unlink
  <2>3. Current \notin said /\ copy[Current] \in {"whole", "short"}
    BY <1>10 DEF Unlink, Current
  <2>4. NothingLost'
    BY <1>1, <1>10, <2>3 DEF Unlink, NothingLost
  <2> QED BY <1>10, <2>1, <2>2, <2>4 DEF Unlink, Phases
<1>11. CASE SaveDarkFrame
  BY <1>2, <1>11 DEF SaveDarkFrame, Phases, NothingLost
<1> QED BY <1>3, <1>4, <1>5, <1>6, <1>7, <1>8, <1>9, <1>10, <1>11 DEF ExitStep

LEMMA WorkStutters ==
  ASSUME WorkInv, UNCHANGED <<phase, at, original, copy, said, failures>>
  PROVE  WorkInv'
BY DEF WorkInv, NothingLost, Current

LEMMA LeavingNextKeeps ==
  ASSUME LeavingInv, LeavingNext
  PROVE  LeavingInv'
<1>1. CASE PopupsNext /\ Unleft
  BY <1>1, PopupsNextKeeps, WorkStutters DEF LeavingInv, Unleft
<1>2. CASE Exit \/ ExitStep
  BY <1>2, MessagesKeep, WorkKeeps DEF LeavingInv
<1> QED BY <1>1, <1>2 DEF LeavingNext

LEMMA LeavingStutters ==
  ASSUME LeavingInv, UNCHANGED leavingVars
  PROVE  LeavingInv'
<1>1. PopupsInv'
  BY QuietKeeps DEF LeavingInv, leavingVars, popupVars, PopupsInv, PopupsTypeOK
<1> QED BY <1>1, WorkStutters DEF LeavingInv, leavingVars

-----------------------------------------------------------------------------
(* Theorems                                                                *)

\* Both sides keep their invariants, whichever of them runs.
THEOREM ProgramInvariant == Spec => [](LeavingInv /\ HeadlessInv)
<1>1. Init => LeavingInv /\ HeadlessInv
  BY LeavingInitInv, HeadlessInitInv DEF Init
<1>2. LeavingInv /\ HeadlessInv /\ [Next]_programVars => (LeavingInv /\ HeadlessInv)'
  <2> SUFFICES ASSUME LeavingInv, HeadlessInv, [Next]_programVars
               PROVE  LeavingInv' /\ HeadlessInv'
    OBVIOUS
  <2>1. CASE LeavingNext /\ UNCHANGED headlessVars
    BY <2>1, LeavingNextKeeps, HeadlessStutters
  <2>2. CASE HeadlessNext /\ UNCHANGED leavingVars
    BY <2>2, HeadlessNextKeeps, LeavingStutters
  <2>3. CASE UNCHANGED programVars
    BY <2>3, HeadlessStutters, LeavingStutters DEF programVars
  <2> QED BY <2>1, <2>2, <2>3 DEF Next
<1> QED BY <1>1, <1>2, PTL DEF Spec

\* The variables of both sides keep their types: the queue and the pipe of
\* CallbackDispatcher never hold more than was sent, and half a headless command
\* is at most one byte.
THEOREM TypeCorrect == Spec => [](LeavingTypeOK /\ HeadlessTypeOK)
<1>1. LeavingInv => LeavingTypeOK
  BY FourFiles DEF LeavingInv, PopupsInv, WorkInv, LeavingTypeOK
<1>2. HeadlessInv => HeadlessTypeOK
  BY DEF HeadlessInv, StatesInv, StatesTyped, LineTyped, HeadlessTypeOK
<1> QED BY <1>1, <1>2, ProgramInvariant, PTL

\* on_dispatch shows the messages of info, warn and error once each and in their
\* order, however many both threads send, as long as no notification is served
\* in a popup's loop.
THEOREM MessagesShownInOrder == Spec => []ShownInOrder
<1>1. LeavingInv => ShownInOrder
  <2> SUFFICES ASSUME LeavingInv, ~nested
               PROVE  ~broken /\ shown = [i \in 1..Len(shown) |-> i]
    BY DEF ShownInOrder
  <2>1. OneAtATime /\ shown \in Seq(1..MaxMessages)
    BY DEF LeavingInv, PopupsInv, PopupsTypeOK
  <2> QED BY <2>1 DEF OneAtATime
<1> QED BY <1>1, ProgramInvariant, PTL

\* Wherever handleExitRequest is cut off, and however many of its operations fail,
\* no file that cleanupForExit moves is lost but by a failing fclose, and one the
\* user was sent to is there.
THEOREM FilesNotLost == Spec => []NothingLost
<1>1. LeavingInv => NothingLost
  BY DEF LeavingInv, WorkInv
<1> QED BY <1>1, ProgramInvariant, PTL

\* The controller of checkHeadlessInterface knows the record state and what has
\* become of the flight line, after any commands, halves of commands and faults,
\* and whether frames are there or not; only a stop that outlived its recording
\* begins a calibration without a flight line, and only that can end in a frame
\* written to a closed file.
THEOREM ControllerIsTold == Spec => []ControllerKnows
<1>1. HeadlessInv => ControllerKnows
  BY DEF HeadlessInv, StatesInv
<1> QED BY <1>1, ProgramInvariant, PTL

\* Half a command is dropped at 500 ms, for every resolution of the clock.
THEOREM HalvesDroppedOnTime == Spec => []ResyncOnTime
<1>1. HeadlessInv => ResyncOnTime
  BY ResyncIsAge DEF HeadlessInv, ResyncOnTime
<1> QED BY <1>1, ProgramInvariant, PTL
=============================================================================
