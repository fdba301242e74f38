------------------------------ MODULE Headless ------------------------------
(***************************************************************************)
(* The program without a screen: class DisplayTab under the commands of a  *)
(* controller on a serial line (checkHeadlessInterface).                   *)
(*                                                                         *)
(* One thread, by turns, handles the frames that have come and polls the   *)
(* line; no Glib main loop runs, so the timer that looks at the disk and   *)
(* the mount's machine stand still.  A command is two bytes, which may     *)
(* come one at a time, late, or not at all.                                *)
(***************************************************************************)
EXTENDS Integers, Sequences

CONSTANTS
  Cals,      \* the calibrations with a period > 0, if there is a calibrator
  Period,    \* frames in a calibration
  Second,    \* clock ticks in a second
  MaxSent,   \* bound on the commands sent
  MaxFaults  \* bound on lost bytes, failing reads and writes, and hang-ups

CalOrder == <<"DARK2", "MEDIUM", "BRIGHT", "LASER">>

ASSUME HeadlessAssumption ==
  /\ Cals \subseteq {"DARK1", "DARK2", "MEDIUM", "BRIGHT", "LASER"}
  /\ Period \in Nat \ {0}
  /\ Second \in Nat \ {0} /\ Second % 2 = 0
  /\ MaxSent \in Nat /\ MaxFaults \in Nat

Commands == {<<"R", "E">>, <<"S", "T">>, <<"A", "B">>, <<"I", "I">>}

VARIABLES
  recordState,    \* m_recordState
  wait,           \* m_wait
  stopRequested,  \* m_stopRequested
  stopIsAbort,    \* m_stopIsAbort
  outOfSpace,     \* m_outOfSpace
  rate,           \* the frame rate: "max", "min" (index 0) or "other"
  half,           \* headlessCmd, between two calls: at most one byte
  moment,         \* lastTime.tv_usec, in ticks
  age,            \* ticks since lastTime
  line,           \* the bytes under way
  hungUp,         \* the line is gone
  thread,         \* "runs"; "spins" in readPCSerial for ever; "crashed"
  told,           \* the last color sent with "RE"
  sent, faults,   \* history: how many
  file,           \* the last flight line: "none", "open", "kept" or "deleted"
  lastRequest,    \* history: "stop" or "abort", if one was acknowledged
  outlived        \* history: the last recording came to its end by itself and
                  \* left a stop requested that was meant for it

stateVars == <<recordState, wait, told, file, outlived>>
stopVars  == <<stopRequested, stopIsAbort, lastRequest>>
lineVars  == <<half, moment, age, line, hungUp, sent>>
headlessVars ==
  <<stateVars, stopVars, lineVars, thread, outOfSpace, rate, faults>>

Idle == recordState = "NOT_RECORDING"
Runs == thread = "runs"

Fault == faults < MaxFaults /\ faults' = faults + 1

-----------------------------------------------------------------------------
(* The record states                                                       *)

\* enterDark1CalState, enterScienceState, ... and the color they send
Enter(state) ==
  /\ recordState' = state
  /\ wait' = IF state = "SCIENCE" THEN wait ELSE Period
  /\ told' = IF state = "SCIENCE" THEN "green" ELSE "yellow"
  /\ UNCHANGED <<file, outlived>>

\* enterIdleState: an aborted flight line is removed.
EnterIdle ==
  /\ recordState' = "NOT_RECORDING"
  /\ told' = "red"
  /\ file' = IF stopIsAbort THEN "deleted" ELSE "kept"
  /\ outlived' = stopRequested'
  /\ UNCHANGED wait

\* What comes after state: the next calibration with a period, or none
Position(state) ==
  IF \E i \in 1..4 : CalOrder[i] = state
  THEN CHOOSE i \in 1..4 : CalOrder[i] = state ELSE 0

EnterAfter(state) ==
  LET left == {i \in 1..4 : i > Position(state) /\ CalOrder[i] \in Cals}
  IN  IF left = {} THEN EnterIdle
      ELSE Enter(CalOrder[CHOOSE i \in left : \A j \in left : i <= j])

-----------------------------------------------------------------------------
(* Commands                                                                *)

\* Faulty: the requests of the recording before are kept.
KeepRequests == UNCHANGED <<stopRequested, stopIsAbort>>

\* leaveIdleState
ClearRequests == stopRequested' = FALSE /\ stopIsAbort' = FALSE

\* recordButtonWork: a rate that is not the highest is changed to index 0, after
\* a look at the disk.  The files may not open, which nobody is told.
RecordWork ==
  /\ IF rate = "max"
     THEN UNCHANGED <<rate, outOfSpace>>
     ELSE rate' = "min" /\ outOfSpace' \in BOOLEAN
  /\ \/ /\ ClearRequests /\ lastRequest' = "none"
        /\ recordState' = (IF "DARK1" \in Cals THEN "DARK1" ELSE "SCIENCE")
        /\ wait' = IF "DARK1" \in Cals THEN Period ELSE wait
        /\ told' = IF "DARK1" \in Cals THEN "yellow" ELSE "green"
        /\ file' = "open" /\ outlived' = FALSE
     \/ UNCHANGED <<stateVars, stopVars>>

\* stopButtonWork and abortButtonWork
Request(abort) ==
  /\ stopRequested' = TRUE /\ stopIsAbort' = abort
  /\ lastRequest' = IF abort THEN "abort" ELSE "stop"
  /\ UNCHANGED <<stateVars, rate, outOfSpace>>

Nothing == UNCHANGED <<stateVars, stopVars, rate, outOfSpace>>

\* The answer "A+" goes before the work, "A!" to what is refused.
Obey(command) ==
  \/ /\ command = <<"R", "E">> /\ Idle
     /\ RecordWork
  \/ /\ command = <<"S", "T">> /\ recordState = "SCIENCE"
     /\ Request(FALSE)
  \/ /\ command = <<"A", "B">> /\ ~Idle
     /\ Request(TRUE)
  \/ /\ command = <<"I", "I">>
     /\ Nothing
  \/ /\ \/ command \notin Commands
        \/ command = <<"R", "E">> /\ ~Idle
        \/ command = <<"S", "T">> /\ recordState # "SCIENCE"
        \/ command = <<"A", "B">> /\ Idle
     /\ Nothing

-----------------------------------------------------------------------------
(* checkHeadlessInterface                                                  *)

\* Faulty: a byte that came in the last second is always kept.
ResyncNextSecond == (moment + age) \div Second > 1

\* The byte came 500 ms ago, by the seconds and microseconds of gettimeofday.
Resync ==
  LET seconds == (moment + age) \div Second  \* timeNow.tv_sec - lastTime.tv_sec
      usec    == (moment + age) % Second     \* timeNow.tv_usec
  IN  IF seconds = 0 THEN 2 * (usec - moment) >= Second
      ELSE IF seconds = 1 THEN 2 * (usec + Second - moment) >= Second
      ELSE TRUE

\* readPCSerial finds one or two bytes, as many as the command has left.
PollBytes(n) ==
  /\ Runs /\ ~hungUp
  /\ n \in 1..(2 - Len(half)) /\ n <= Len(line)
  /\ LET bytes == half \o SubSeq(line, 1, n)
     IN  IF Len(bytes) = 2
         THEN Obey(bytes) /\ half' = << >> /\ moment' = 0
         ELSE /\ Nothing /\ half' = bytes
              /\ moment' \in 0..(Second - 1)
  /\ age' = 0
  /\ line' = SubSeq(line, n + 1, Len(line))
  /\ UNCHANGED <<hungUp, thread, sent, faults>>

\* It finds none.
PollNothing ==
  /\ Runs /\ ~hungUp
  /\ half # << >> /\ Resync
  /\ half' = << >> /\ moment' = 0 /\ age' = 0
  /\ UNCHANGED <<stateVars, stopVars, rate, outOfSpace, line, hungUp, thread,
                 sent, faults>>

\* It fails, and what there is of a command is dropped.
PollFails ==
  /\ Runs /\ ~hungUp /\ Fault
  /\ half' = << >> /\ moment' = 0 /\ age' = 0
  /\ UNCHANGED <<stateVars, stopVars, rate, outOfSpace, line, hungUp, thread,
                 sent>>

\* select reports a line that has been hung up as ready, and read returns 0.
PollHungUp ==
  /\ Runs /\ hungUp
  /\ thread' = "spins"
  /\ UNCHANGED <<stateVars, stopVars, rate, outOfSpace, half, moment, age, line,
                 hungUp, sent, faults>>

-----------------------------------------------------------------------------
(* lookForImageData                                                        *)

\* No frame is there: a stop is honoured whatever the record state, NOT_RECORDING
\* included, where it begins a calibration without files.
NoFrame ==
  /\ Runs /\ stopRequested
  /\ stopRequested' = FALSE
  /\ IF stopIsAbort THEN EnterIdle ELSE EnterAfter("SCIENCE")
  /\ UNCHANGED <<stopIsAbort, lastRequest, lineVars, thread, outOfSpace, rate,
                 faults>>

WriteFails ==
  /\ Runs /\ ~Idle /\ ~outOfSpace /\ file = "open" /\ Fault
  /\ UNCHANGED <<stopVars, lineVars, thread, rate>>
  /\ EnterIdle /\ outOfSpace' = TRUE

\* fwrite with a NULL file ends the process.
WriteCrashes ==
  /\ Runs /\ ~Idle /\ ~outOfSpace /\ file # "open"
  /\ thread' = "crashed"
  /\ UNCHANGED <<stateVars, stopVars, lineVars, outOfSpace, rate, faults>>

\* Faulty: a stop is seen only if the medium calibration comes next.
StopSeenWithMedium == stopRequested /\ "MEDIUM" \in Cals

StopSeen == stopRequested

\* One frame, with the record state's handling
Frame ==
  /\ Runs /\ ~Idle /\ (outOfSpace \/ file = "open")
  /\ LET aborted == stopRequested /\ stopIsAbort
         stopped == recordState = "SCIENCE" /\ StopSeen
         counted == recordState # "SCIENCE"
     IN  \/ outOfSpace /\ UNCHANGED stopVars /\ EnterIdle
         \/ /\ ~outOfSpace /\ aborted
            /\ stopRequested' = FALSE /\ EnterIdle
            /\ UNCHANGED <<stopIsAbort, lastRequest>>
         \/ /\ ~outOfSpace /\ ~aborted /\ stopped
            /\ stopRequested' = FALSE /\ EnterAfter("SCIENCE")
            /\ UNCHANGED <<stopIsAbort, lastRequest>>
         \/ /\ ~outOfSpace /\ ~aborted /\ counted
            /\ UNCHANGED stopVars
            /\ IF wait > 1
               THEN wait' = wait - 1 /\ UNCHANGED <<recordState, told, file, outlived>>
               ELSE IF recordState = "DARK1" THEN Enter("SCIENCE")
               ELSE EnterAfter(recordState)
  /\ UNCHANGED <<lineVars, thread, outOfSpace, rate, faults>>

-----------------------------------------------------------------------------
(* The controller, the line and the clock                                  *)

Send(command) ==
  /\ sent < MaxSent /\ sent' = sent + 1
  /\ line' = line \o command
  /\ UNCHANGED <<stateVars, stopVars, rate, outOfSpace, half, moment, age, hungUp,
                 thread, faults>>

\* A byte is lost.
LoseByte ==
  /\ Fault
  /\ \E i \in 1..Len(line) :
       line' = SubSeq(line, 1, i - 1) \o SubSeq(line, i + 1, Len(line))
  /\ UNCHANGED <<stateVars, stopVars, rate, outOfSpace, half, moment, age, hungUp,
                 thread, sent>>

HangUp ==
  /\ ~hungUp /\ Fault
  /\ hungUp' = TRUE
  /\ UNCHANGED <<stateVars, stopVars, rate, outOfSpace, half, moment, age, line,
                 thread, sent>>

\* Time matters only while half a command is there.
Tick ==
  /\ half # << >> /\ age < 2 * Second
  /\ age' = age + 1
  /\ UNCHANGED <<stateVars, stopVars, rate, outOfSpace, half, moment, line, hungUp,
                 thread, sent, faults>>

-----------------------------------------------------------------------------
(* The specification                                                       *)

HeadlessInit ==
  /\ recordState = "NOT_RECORDING" /\ wait = 0 /\ told = "none" /\ file = "none"
  /\ stopRequested = FALSE /\ stopIsAbort = FALSE /\ lastRequest = "none"
  /\ outlived = FALSE
  /\ outOfSpace \in BOOLEAN /\ rate \in {"max", "other"}
  /\ half = << >> /\ moment = 0 /\ age = 0 /\ line = << >>
  /\ hungUp = FALSE /\ thread = "runs"
  /\ sent = 0 /\ faults = 0

Poll == \/ \E n \in 1..2 : PollBytes(n)
        \/ PollNothing \/ PollHungUp

HeadlessNext ==
  \/ Poll \/ PollFails
  \/ Frame \/ WriteFails \/ WriteCrashes \/ NoFrame
  \/ \E command \in Commands : Send(command)
  \/ LoseByte \/ HangUp \/ Tick

\* Frames keep coming, and the line is polled between them.
HeadlessFairness ==
  /\ WF_headlessVars(Frame \/ WriteCrashes)
  /\ WF_headlessVars(Poll)

HeadlessSpec ==
  HeadlessInit /\ [][HeadlessNext]_headlessVars /\ HeadlessFairness

-----------------------------------------------------------------------------
(* Properties                                                              *)

RecordStates ==
  {"NOT_RECORDING", "DARK1", "SCIENCE", "DARK2", "MEDIUM", "BRIGHT", "LASER"}

Letters == {"R", "E", "S", "T", "A", "B", "I"}

\* Every variable has the type its declaration gives it.
HeadlessTypeOK ==
  /\ recordState \in RecordStates /\ wait \in 0..Period
  /\ told \in {"none", "red", "yellow", "green"}
  /\ file \in {"none", "open", "kept", "deleted"}
  /\ stopRequested \in BOOLEAN /\ stopIsAbort \in BOOLEAN
  /\ lastRequest \in {"none", "stop", "abort"} /\ outlived \in BOOLEAN
  /\ outOfSpace \in BOOLEAN /\ rate \in {"max", "min", "other"}
  /\ half \in Seq(Letters) /\ Len(half) <= 1
  /\ moment \in 0..(Second - 1) /\ age \in 0..(2 * Second)
  /\ line \in Seq(Letters)
  /\ hungUp \in BOOLEAN /\ thread \in {"runs", "spins", "crashed"}
  /\ sent \in 0..MaxSent /\ faults \in 0..MaxFaults

Color(state) ==
  IF state = "NOT_RECORDING" THEN "red"
  ELSE IF state = "SCIENCE" THEN "green" ELSE "yellow"

\* What the controller has heard last is so.  The "RE" indicator has the color of
\* the record state.  When it is red, the flight line is closed, and was deleted
\* exactly when the last of the stops and aborts acknowledged during its recording
\* was an abort, however the recording came to its end and whatever was requested
\* before it.  When it is not, a flight line is being written, with one exception:
\* a stop that outlived its recording has begun a calibration of nothing, the only
\* case, too, in which a frame may be written to a closed file.
ControllerKnows ==
  /\ told # "none" => told = Color(recordState)
  /\ Idle => /\ file # "open"
             /\ file # "none" => (file = "deleted" <=> lastRequest = "abort")
  /\ ~Idle => (file = "open" <=> ~outlived)
  /\ thread = "crashed" => outlived

\* Half a command is dropped when it is 500 ms old and not before, although the
\* code compares the seconds and the microseconds of two times apart.
ResyncOnTime == half # << >> => (Resync <=> 2 * age >= Second)

\* An acknowledged stop or abort ends the recording, unless the line is hung up
\* and the thread never returns from it, or the process is gone.
StopEnds ==
  (~Idle /\ lastRequest # "none") ~> (Idle \/ ~Runs)

\* "make sure we're at max frame rate, unless we're in test mode"
\* (displayTab.cpp:3232)
MaxRate == ~Idle => rate = "max"
=============================================================================
