------------------------------ MODULE Recording ------------------------------
(***************************************************************************)
(* How a flight line is started, stopped, aborted and closed when NGDCS    *)
(* runs with its GUI (class DisplayTab in src/Code/displayTab.cpp).        *)
(*                                                                         *)
(* Two threads share the recording state without a lock.  The main thread  *)
(* runs one GTK handler at a time: button clicks, the abort dialog, the    *)
(* 60 s resources timer and the Glib::Dispatcher callbacks, which arrive   *)
(* in the order they were sent.  The data thread runs lookForImageData for *)
(* every frame, or finds none, and then testDigitalLineTransition if a     *)
(* flight management system (FMS) drives the recording.                    *)
(*                                                                         *)
(* A step is what a thread does between two accesses to shared state that  *)
(* the other thread can come between.  Files are a flight line number and  *)
(* a flag; formatting, logging and popup messages are left out.  The OBC   *)
(* and mount mode combo boxes are not used during a behaviour.             *)
(***************************************************************************)
EXTENDS Integers, Sequences, FiniteSets

CONSTANTS
  Configs,    \* settings a behaviour can start with, see ConfigsAssumption
  Wait,       \* frames in one calibration period
  MaxLines,   \* bound: flight lines begun
  MaxSpace,   \* bound: times storage is full
  MaxToggles  \* bound: changes of the FMS line

CalStates == {"DARK1CAL", "DARK2CAL", "MEDIUMCAL", "BRIGHTCAL", "LASERCAL"}
RecordStates == CalStates \cup {"NOT_RECORDING", "SCIENCE"}

ASSUME ConfigsAssumption ==
  Configs \subseteq [cal : SUBSET CalStates, auto : BOOLEAN, fms : BOOLEAN]
ASSUME WaitAssumption == Wait \in Nat \ {0}
ASSUME BoundsAssumption ==
  MaxLines \in Nat /\ MaxSpace \in Nat /\ MaxToggles \in Nat

VARIABLES
  config,        \* calibration states with a period > 0; OBC and mount in AUTO;
                 \* FMSCONTROL_YES: the digital line presses Record and Stop
  recordState,   \* m_recordState
  wait,          \* m_wait
  stopRequested, \* m_stopRequested
  stopIsAbort,   \* m_stopIsAbort
  outOfSpace,    \* m_outOfSpace
  filesOpen,     \* m_imageFP # NULL, and with it the other three
  line,          \* the flight line m_currentRecording describes
  disk,          \* what became of each flight line's files
  listed,        \* how often addRecording showed it on the Recordings tab
  obc, mount, pxi,                         \* what was commanded last
  recordButton, stopButton, abortButton, exitButton,  \* sensitivity
  abortDialog,   \* abortButtonWork is in its dialog's nested main loop
  mainPC,        \* where the handler of the main thread is
  queue,         \* dispatcher callbacks sent and not yet run
  dataPC,        \* where lookForImageData is
  writeFailed,   \* it is in enterIdleState because a write failed
  lineHigh,      \* m_lineHigh
  fmsLine,       \* the line as it is read: most read errors mean low
  aborted,       \* history: the flight lines the user aborted
  twice,         \* history: those begun a second time under the same name
  overtaken,     \* history: the last recording had ended by itself before the
                 \* handler that began it told the OBC to go to dark
  trouble,       \* history: what went out of the ordinary
  spaceCount, toggleCount                  \* for the bounds

filesVars   == <<filesOpen, line, disk, listed>>
deviceVars  == <<obc, mount, pxi>>
buttonVars  == <<recordButton, stopButton, abortButton, exitButton>>
flagVars    == <<stopRequested, stopIsAbort>>
beginVars   == <<twice, overtaken>>
historyVars == <<aborted, beginVars, trouble>>
countVars   == <<spaceCount, toggleCount>>
fmsVars     == <<lineHigh, fmsLine>>
vars == <<config, recordState, wait, flagVars, outOfSpace, filesVars,
          deviceVars, buttonVars, abortDialog, mainPC, queue, dataPC,
          writeFailed, fmsVars, historyVars, countVars>>

Lines == 1 .. MaxLines

Init ==
  /\ config \in Configs
  /\ recordState = "NOT_RECORDING" /\ wait = 0
  /\ stopRequested = FALSE /\ stopIsAbort = FALSE /\ outOfSpace = FALSE
  /\ filesOpen = FALSE /\ line = 0
  /\ disk = [l \in Lines |-> "none"] /\ listed = [l \in Lines |-> 0]
  /\ obc = "SCIENCE" /\ mount = "IDLE" /\ pxi = FALSE
  /\ recordButton = ~config.fms /\ stopButton = FALSE /\ abortButton = FALSE
  /\ exitButton = TRUE
  /\ abortDialog = FALSE /\ mainPC = "loop" /\ queue = << >>
  /\ dataPC = "top" /\ writeFailed = FALSE
  /\ fmsLine \in IF config.fms THEN BOOLEAN ELSE {FALSE}
  /\ lineHigh = fmsLine
  /\ aborted = {} /\ twice = {} /\ overtaken = FALSE /\ trouble = {}
  /\ spaceCount = 0 /\ toggleCount = 0

Recording == recordState # "NOT_RECORDING"

-----------------------------------------------------------------------------
(* Entering a state (enterDark1CalState ... enterLaserCalState).           *)

\* m_app->setOBC, guarded by the AUTO mode
CommandOBC(state) == obc' = IF config.auto THEN state ELSE obc

EnterCal(state) ==
  /\ wait' = Wait
  /\ recordState' = state
  /\ CommandOBC(state)
  /\ UNCHANGED queue

\* The order of the states of a recording
Rank == [DARK1CAL |-> 1, SCIENCE |-> 2, DARK2CAL |-> 3, MEDIUMCAL |-> 4,
         BRIGHTCAL |-> 5, LASERCAL |-> 6]

\* The calibrations with a period > 0 that come after state
CalsAfter(state) == {s \in config.cal : Rank[s] > Rank[state]}

\* The next calibration, or enterIdleState with m_wait as it is
EnterNext(state, waitNow) ==
  \/ \E next \in CalsAfter(state) :
       /\ \A s \in CalsAfter(state) : Rank[next] <= Rank[s]
       /\ EnterCal(next)
       /\ dataPC' = "top"
  \/ /\ CalsAfter(state) = {}
     /\ dataPC' = "enterIdle"
     /\ wait' = waitNow
     /\ UNCHANGED <<recordState, obc, queue>>

-----------------------------------------------------------------------------
(* Main thread: the Record button (recordButtonWork).                      *)

\* In a bounded behaviour, MaxLines times
Pressed ==
  /\ line + Cardinality(twice) < MaxLines
  /\ mainPC' = "openFiles"
  /\ trouble' = IF exitButton THEN trouble ELSE trouble \cup {"early record"}

\* onRecordButton
ClickRecord ==
  /\ mainPC = "loop" /\ ~abortDialog /\ recordButton
  /\ Pressed
  /\ UNCHANGED <<config, recordState, wait, flagVars, outOfSpace, filesVars,
                 deviceVars, buttonVars, abortDialog, queue, dataPC,
                 writeFailed, fmsVars, aborted, beginVars, countVars>>

\* Files are named after the time of day, to the second.  Faulty: after the day
SameLine == 1

NewLine == line + 1

\* A flight line gets its name.  In the second in which the last one was begun it
\* gets that one's, as a bound once.
Begins(l) ==
  \/ l = NewLine /\ UNCHANGED twice
  \/ l = line /\ l \notin twice /\ twice' = twice \cup {l}

\* What is there under that name is truncated.
OpenFiles ==
  /\ mainPC = "openFiles"
  /\ \E l \in Lines :
       /\ Begins(l) /\ line' = l
       /\ disk' = [disk EXCEPT ![l] = "writing"]
  /\ filesOpen' = TRUE
  /\ mainPC' = "leaveIdle"
  /\ UNCHANGED <<config, recordState, wait, flagVars, outOfSpace, listed,
                 deviceVars, buttonVars, abortDialog, queue, dataPC, writeFailed,
                 fmsVars, aborted, overtaken, trouble, countVars>>

\* A file cannot be opened: those opened before it are closed again, empty, but
\* m_currentRecording already names the new flight line.
OpenFilesFails ==
  /\ mainPC = "openFiles"
  /\ \E l \in Lines :
       /\ Begins(l) /\ line' = l
       /\ disk' \in {disk, [disk EXCEPT ![l] = "empty"]}
  /\ filesOpen' = FALSE
  /\ mainPC' = "loop"
  /\ UNCHANGED <<config, recordState, wait, flagVars, outOfSpace, listed,
                 deviceVars, buttonVars, abortDialog, queue, dataPC, writeFailed,
                 fmsVars, aborted, overtaken, trouble, countVars>>

LeaveIdleState ==
  /\ mainPC = "leaveIdle"
  /\ recordButton' = FALSE
  /\ stopRequested' = FALSE /\ stopIsAbort' = FALSE
  /\ pxi' = TRUE
  /\ mainPC' = "enableControls"
  /\ UNCHANGED <<config, recordState, wait, outOfSpace, filesVars, obc, mount,
                 stopButton, abortButton, exitButton, abortDialog, queue,
                 dataPC, writeFailed, fmsVars, historyVars, countVars>>

\* Faulty, and as it is: disableExitButton
KeepExitButton == UNCHANGED exitButton

DisableExitButton == exitButton' = FALSE

EnableControls ==
  /\ mainPC = "enableControls"
  /\ DisableExitButton
  /\ abortButton' = TRUE
  /\ mount' = IF config.auto THEN "ACTIVE" ELSE mount
  /\ mainPC' = "enter"
  /\ UNCHANGED <<config, recordState, wait, flagVars, outOfSpace, filesVars, obc,
                 pxi, recordButton, stopButton, abortDialog, queue, dataPC,
                 writeFailed, fmsVars, historyVars, countVars>>

First == IF config.auto /\ "DARK1CAL" \in config.cal THEN "DARK1CAL" ELSE "SCIENCE"

\* enterDark1CalState or enterScienceState: from here on the data thread records.
EnterFirst ==
  /\ mainPC = "enter"
  /\ recordState' = First
  /\ wait' = IF First = "DARK1CAL" THEN Wait ELSE wait
  /\ mainPC' = "commandFirst"
  /\ overtaken' = FALSE
  /\ UNCHANGED <<config, flagVars, outOfSpace, filesVars, deviceVars, buttonVars,
                 abortDialog, queue, dataPC, writeFailed, fmsVars, aborted, twice,
                 trouble, countVars>>

\* Their setOBC, whatever the data thread has done meanwhile.  enterScienceState
\* goes on to tell the main thread itself, through the queue, to enable the Stop
\* button.
CommandFirst ==
  /\ mainPC = "commandFirst"
  /\ CommandOBC(First)
  /\ mainPC' = IF First = "DARK1CAL" THEN "loop" ELSE "sendStopButton"
  /\ overtaken' = (First = "DARK1CAL" /\ ~Recording)
  /\ UNCHANGED <<config, recordState, wait, flagVars, outOfSpace, filesVars,
                 mount, pxi, buttonVars, abortDialog, queue, dataPC, writeFailed,
                 fmsVars, aborted, twice, trouble, countVars>>

SendStopButton ==
  /\ mainPC = "sendStopButton"
  /\ queue' = Append(queue, "refreshStopButton")
  /\ mainPC' = "loop"
  /\ UNCHANGED <<config, recordState, wait, flagVars, outOfSpace, filesVars,
                 deviceVars, buttonVars, abortDialog, dataPC, writeFailed,
                 fmsVars, historyVars, countVars>>

-----------------------------------------------------------------------------
(* Main thread: Stop and Abort.                                            *)

\* stopButtonWork, from the user or from the FMS
StopWork ==
  /\ stopButton' = FALSE
  /\ stopRequested' = TRUE
  /\ mainPC' = "stopIsNoAbort"
  /\ trouble' = trouble \cup (IF stopIsAbort THEN {"stop after abort"} ELSE {})
                        \cup (IF Recording THEN {} ELSE {"stale stop"})

ClickStop ==
  /\ mainPC = "loop" /\ ~abortDialog /\ stopButton
  /\ StopWork
  /\ UNCHANGED <<config, recordState, wait, stopIsAbort, outOfSpace, filesVars,
                 deviceVars, recordButton, abortButton, exitButton, abortDialog,
                 queue, dataPC, writeFailed, fmsVars, aborted, beginVars,
                 countVars>>

ClickAbort ==
  /\ mainPC = "loop" /\ ~abortDialog /\ abortButton
  /\ abortDialog' = TRUE
  /\ UNCHANGED <<config, recordState, wait, flagVars, outOfSpace, filesVars,
                 deviceVars, buttonVars, mainPC, queue, dataPC, writeFailed,
                 fmsVars, historyVars, countVars>>

CancelAbort ==
  /\ mainPC = "loop" /\ abortDialog
  /\ abortDialog' = FALSE
  /\ UNCHANGED <<config, recordState, wait, flagVars, outOfSpace, filesVars,
                 deviceVars, buttonVars, mainPC, queue, dataPC, writeFailed,
                 fmsVars, historyVars, countVars>>

ConfirmAbort ==
  /\ mainPC = "loop" /\ abortDialog
  /\ abortDialog' = FALSE
  /\ stopButton' = FALSE /\ abortButton' = FALSE
  /\ stopRequested' = TRUE
  /\ mainPC' = "stopIsAbort"
  /\ aborted' = aborted \cup {line}
  /\ trouble' = IF Recording THEN trouble ELSE trouble \cup {"stale stop"}
  /\ UNCHANGED <<config, recordState, wait, stopIsAbort, outOfSpace, filesVars,
                 deviceVars, recordButton, exitButton, queue, dataPC,
                 writeFailed, fmsVars, beginVars, countVars>>

\* The second assignment of both; the data thread can run before it.
SetStopIsAbort ==
  /\ mainPC \in {"stopIsNoAbort", "stopIsAbort"}
  /\ stopIsAbort' = (mainPC = "stopIsAbort")
  /\ mainPC' = "loop"
  /\ UNCHANGED <<config, recordState, wait, stopRequested, outOfSpace, filesVars,
                 deviceVars, buttonVars, abortDialog, queue, dataPC, writeFailed,
                 fmsVars, historyVars, countVars>>

-----------------------------------------------------------------------------
(* Main thread: the dispatcher callbacks, which also run in the nested     *)
(* loop of the abort dialog, and the resources timer.                      *)

Dispatched(callback) ==
  /\ mainPC = "loop" /\ queue # << >>
  /\ Head(queue) = callback
  /\ queue' = Tail(queue)

\* addRecording.  Faulty: aborted flight lines are listed, too.
ListAlways == listed' = [listed EXCEPT ![line] = @ + 1]

ListUnlessAborted ==
  listed' = IF stopIsAbort THEN listed ELSE [listed EXCEPT ![line] = @ + 1]

\* recordControlsUpdateWork
RefreshRecordControls ==
  /\ Dispatched("refreshRecordControls")
  /\ stopButton' = FALSE /\ abortButton' = FALSE
  /\ ListUnlessAborted
  /\ recordButton' = (recordButton \/ ~config.fms)
  /\ exitButton' = TRUE
  /\ UNCHANGED <<config, recordState, wait, flagVars, outOfSpace, filesOpen,
                 line, disk, deviceVars, abortDialog, mainPC, dataPC,
                 writeFailed, fmsVars, historyVars, countVars>>

\* stopButtonUpdateWork
RefreshStopButton ==
  /\ Dispatched("refreshStopButton")
  /\ stopButton' = TRUE
  /\ UNCHANGED <<config, recordState, wait, flagVars, outOfSpace, filesVars,
                 deviceVars, recordButton, abortButton, exitButton, abortDialog,
                 mainPC, dataPC, writeFailed, fmsVars, historyVars, countVars>>

\* handleFMSRecord
PressRecord ==
  /\ Dispatched("pressRecord")
  /\ Pressed
  /\ UNCHANGED <<config, recordState, wait, flagVars, outOfSpace, filesVars,
                 deviceVars, buttonVars, abortDialog, dataPC, writeFailed,
                 fmsVars, aborted, beginVars, countVars>>

\* handleFMSStop: without effect while the Stop button is insensitive
PressStop ==
  /\ Dispatched("pressStop")
  /\ IF stopButton THEN StopWork
                   ELSE UNCHANGED <<stopButton, stopRequested, mainPC, trouble>>
  /\ UNCHANGED <<config, recordState, wait, stopIsAbort, outOfSpace, filesVars,
                 deviceVars, recordButton, abortButton, exitButton, abortDialog,
                 dataPC, writeFailed, fmsVars, aborted, beginVars, countVars>>

\* updateResourcesDisplay, from performResourcesCheck
CheckResources ==
  /\ mainPC = "loop"
  /\ \/ outOfSpace' = FALSE /\ UNCHANGED spaceCount
     \/ /\ spaceCount < MaxSpace
        /\ spaceCount' = spaceCount + 1
        /\ outOfSpace' = TRUE
  /\ UNCHANGED <<config, recordState, wait, flagVars, filesVars, deviceVars,
                 buttonVars, abortDialog, mainPC, queue, dataPC, writeFailed,
                 fmsVars, historyVars, toggleCount>>

-----------------------------------------------------------------------------
(* Main thread: the Exit button (on_exit_button, handleExitRequest).       *)

\* A request that is refused because of a recording is not honoured: the
\* window is hidden and the program ends with its data thread running.
ClickExit ==
  /\ mainPC = "loop" /\ ~abortDialog /\ exitButton
  /\ mainPC' = IF Recording THEN "ended" ELSE "stopThreads"
  /\ UNCHANGED <<config, recordState, wait, flagVars, outOfSpace, filesVars,
                 deviceVars, buttonVars, abortDialog, queue, dataPC, writeFailed,
                 fmsVars, historyVars, countVars>>

\* stopThreadsAndTimers joins the data thread; setOBC(OBC_SCIENCE).
ExitStopThreads ==
  /\ mainPC = "stopThreads" /\ dataPC = "top"
  /\ dataPC' = "joined"
  /\ obc' = "SCIENCE"
  /\ mainPC' = "ended"
  /\ UNCHANGED <<config, recordState, wait, flagVars, outOfSpace, filesVars,
                 mount, pxi, buttonVars, abortDialog, queue, writeFailed,
                 fmsVars, historyVars, countVars>>

-----------------------------------------------------------------------------
(* Data thread: lookForImageData.                                          *)

DataRuns(pc) == dataPC = pc /\ mainPC # "ended"

\* The data thread takes a stop that the main thread is turning into an abort.
Taken ==
  /\ stopRequested' = FALSE
  /\ trouble' = IF mainPC = "stopIsAbort" /\ ~stopIsAbort
                  THEN trouble \cup {"abort taken for a stop"} ELSE trouble

\* No frame is available: a stop is honoured in any state.
NoFrame ==
  /\ DataRuns("top") /\ stopRequested
  /\ Taken
  /\ dataPC' = "noFrameStop"
  /\ UNCHANGED <<config, recordState, wait, stopIsAbort, outOfSpace, filesVars,
                 deviceVars, buttonVars, abortDialog, mainPC, queue,
                 writeFailed, fmsVars, aborted, beginVars, countVars>>

NoFrameStop ==
  /\ DataRuns("noFrameStop")
  /\ IF ~config.auto \/ stopIsAbort
       THEN dataPC' = "enterIdle" /\ UNCHANGED <<wait, recordState, obc, queue>>
       ELSE EnterNext("SCIENCE", wait)
  /\ UNCHANGED <<config, flagVars, outOfSpace, filesVars, mount, pxi,
                 buttonVars, abortDialog, mainPC, writeFailed, fmsVars,
                 historyVars, countVars>>

\* A frame while storage is full ends the recording, whatever was requested.
FrameOutOfSpace ==
  /\ DataRuns("top") /\ outOfSpace /\ Recording
  /\ dataPC' = "enterIdle"
  /\ UNCHANGED <<config, recordState, wait, flagVars, outOfSpace, filesVars,
                 deviceVars, buttonVars, abortDialog, mainPC, queue,
                 writeFailed, fmsVars, historyVars, countVars>>

\* fwrite with a NULL file ends the process.
FrameWritten ==
  /\ DataRuns("top") /\ ~outOfSpace /\ Recording
  /\ dataPC' = IF filesOpen THEN "check" ELSE "crashed"
  /\ UNCHANGED <<config, recordState, wait, flagVars, outOfSpace, filesVars,
                 deviceVars, buttonVars, abortDialog, mainPC, queue,
                 writeFailed, fmsVars, historyVars, countVars>>

FrameNotWritten ==
  /\ DataRuns("top") /\ ~outOfSpace /\ Recording /\ filesOpen
  /\ spaceCount < MaxSpace
  /\ spaceCount' = spaceCount + 1
  /\ writeFailed' = TRUE
  /\ dataPC' = "enterIdle"
  /\ UNCHANGED <<config, recordState, wait, flagVars, outOfSpace, filesVars,
                 deviceVars, buttonVars, abortDialog, mainPC, queue, fmsVars,
                 historyVars, toggleCount>>

Checks == DataRuns("check") /\ ~(stopRequested /\ stopIsAbort)

CheckAbort ==
  /\ DataRuns("check") /\ stopRequested /\ stopIsAbort
  /\ stopRequested' = FALSE
  /\ dataPC' = "enterIdle"
  /\ UNCHANGED <<config, recordState, wait, stopIsAbort, outOfSpace, filesVars,
                 deviceVars, buttonVars, abortDialog, mainPC, queue,
                 writeFailed, fmsVars, historyVars, countVars>>

\* --m_wait == 0.  Faulty: m_wait-- == 0
CalOverLate == wait = 0

CalOver == wait = 1

\* enterScienceState at the end of the first calibration
CheckDark1 ==
  /\ Checks /\ recordState = "DARK1CAL"
  /\ wait' = wait - 1
  /\ dataPC' = "top"
  /\ IF CalOver
       THEN /\ recordState' = "SCIENCE"
            /\ CommandOBC("SCIENCE")
            /\ queue' = Append(queue, "refreshStopButton")
       ELSE UNCHANGED <<recordState, obc, queue>>
  /\ UNCHANGED <<config, flagVars, outOfSpace, filesVars, mount, pxi,
                 buttonVars, abortDialog, mainPC, writeFailed, fmsVars,
                 historyVars, countVars>>

\* Faulty: a stop is seen only if calibrations may follow.
StopSeenInAuto == stopRequested /\ config.auto

StopSeen == stopRequested

CheckScience ==
  /\ Checks /\ recordState = "SCIENCE"
  /\ IF ~StopSeen
       THEN /\ dataPC' = "top"
            /\ UNCHANGED <<recordState, wait, stopRequested, obc, queue, trouble>>
       ELSE /\ Taken
            /\ IF config.auto
                 THEN EnterNext("SCIENCE", wait)
                 ELSE /\ dataPC' = "enterIdle"
                      /\ UNCHANGED <<wait, recordState, obc, queue>>
  /\ UNCHANGED <<config, stopIsAbort, outOfSpace, filesVars, mount, pxi,
                 buttonVars, abortDialog, mainPC, writeFailed, fmsVars, aborted,
                 beginVars, countVars>>

\* A calibration that follows the science part
CheckEndingCal ==
  /\ Checks /\ recordState \in CalStates \ {"DARK1CAL"}
  /\ IF CalOver
       THEN EnterNext(recordState, wait - 1)
       ELSE /\ wait' = wait - 1
            /\ dataPC' = "top"
            /\ UNCHANGED <<recordState, obc, queue>>
  /\ UNCHANGED <<config, flagVars, outOfSpace, filesVars, mount, pxi,
                 buttonVars, abortDialog, mainPC, writeFailed, fmsVars,
                 historyVars, countVars>>

\* enterIdleState up to the removal of an aborted flight line's files, which
\* goes by their names
CloseFiles ==
  /\ DataRuns("enterIdle")
  /\ pxi' = FALSE
  /\ filesOpen' = FALSE
  /\ disk' = [disk EXCEPT ![line] = IF stopIsAbort THEN "deleted"
                                    ELSE IF @ = "writing" THEN "finished"
                                    ELSE @]
  /\ dataPC' = "leaveRecording"
  /\ UNCHANGED <<config, recordState, wait, flagVars, outOfSpace, line, listed,
                 obc, mount, buttonVars, abortDialog, mainPC, queue,
                 writeFailed, fmsVars, historyVars, countVars>>

\* Parts of enterIdleState, each after a faulty variant that omits it
KeepRecordState == UNCHANGED recordState

ResetRecordState == recordState' = "NOT_RECORDING"

KeepMount == UNCHANGED mount

IdleMount == mount' = IF config.auto THEN "IDLE" ELSE mount

KeepRecordControls == UNCHANGED queue

SendRecordControls == queue' = Append(queue, "refreshRecordControls")

\* The rest of enterIdleState, and its caller's assignment to m_outOfSpace
EnterIdleState ==
  /\ DataRuns("leaveRecording")
  /\ ResetRecordState
  /\ CommandOBC("SCIENCE")
  /\ IdleMount
  /\ SendRecordControls
  /\ outOfSpace' = (outOfSpace \/ writeFailed)
  /\ writeFailed' = FALSE
  /\ trouble' = IF stopRequested THEN trouble \cup {"stale stop"} ELSE trouble
  /\ dataPC' = "top"
  /\ UNCHANGED <<config, wait, flagVars, filesVars, pxi, buttonVars,
                 abortDialog, mainPC, fmsVars, aborted, beginVars, countVars>>

-----------------------------------------------------------------------------
(* Data thread: testDigitalLineTransition, and the line itself.            *)

LineRises ==
  /\ config.fms /\ DataRuns("top") /\ fmsLine /\ ~lineHigh
  /\ recordState \in {"NOT_RECORDING", "DARK1CAL", "SCIENCE"}
  /\ lineHigh' = TRUE
  /\ queue' = IF Recording THEN queue ELSE Append(queue, "pressRecord")
  /\ UNCHANGED <<config, recordState, wait, flagVars, outOfSpace, filesVars,
                 deviceVars, buttonVars, abortDialog, mainPC, dataPC,
                 writeFailed, fmsLine, historyVars, countVars>>

LineFalls ==
  /\ config.fms /\ DataRuns("top") /\ ~fmsLine /\ lineHigh
  /\ recordState # "DARK1CAL"
  /\ lineHigh' = FALSE
  /\ queue' = IF recordState = "SCIENCE" THEN Append(queue, "pressStop")
                                         ELSE queue
  /\ UNCHANGED <<config, recordState, wait, flagVars, outOfSpace, filesVars,
                 deviceVars, buttonVars, abortDialog, mainPC, dataPC,
                 writeFailed, fmsLine, historyVars, countVars>>

ToggleLine ==
  /\ config.fms /\ toggleCount < MaxToggles
  /\ toggleCount' = toggleCount + 1
  /\ fmsLine' = ~fmsLine
  /\ UNCHANGED <<config, recordState, wait, flagVars, outOfSpace, filesVars,
                 deviceVars, buttonVars, abortDialog, mainPC, queue, dataPC,
                 writeFailed, lineHigh, historyVars, spaceCount>>

-----------------------------------------------------------------------------
(* The specification.                                                      *)

\* The main thread goes on with the handler it is in.
Handle ==
  \/ OpenFiles \/ OpenFilesFails \/ LeaveIdleState \/ EnableControls
  \/ EnterFirst \/ CommandFirst \/ SendStopButton
  \/ SetStopIsAbort \/ ExitStopThreads

Dispatch ==
  \/ RefreshRecordControls \/ RefreshStopButton \/ PressRecord \/ PressStop

\* What the data thread does with a frame
Frame == FrameOutOfSpace \/ FrameWritten \/ FrameNotWritten

\* The data thread goes on with lookForImageData.
Continue ==
  \/ NoFrameStop \/ CheckAbort \/ CheckDark1 \/ CheckScience \/ CheckEndingCal
  \/ CloseFiles \/ EnterIdleState

User ==
  \/ ClickRecord \/ ClickStop \/ ClickAbort \/ CancelAbort \/ ConfirmAbort
  \/ ClickExit

Next ==
  \/ User \/ Handle \/ Dispatch \/ CheckResources
  \/ Frame \/ NoFrame \/ Continue
  \/ LineRises \/ LineFalls \/ ToggleLine

Spec == Init /\ [][Next]_vars

\* Both threads keep running, and frames keep coming; nobody has to click, no
\* line has to change, and storage need not fill up or be freed.
Fairness ==
  /\ WF_vars(Handle) /\ WF_vars(Dispatch)
  /\ WF_vars(Frame) /\ WF_vars(Continue)
  /\ WF_vars(LineRises) /\ WF_vars(LineFalls)

FairSpec == Spec /\ Fairness

-----------------------------------------------------------------------------
(* Properties.  The code has four known windows in which a command arrives *)
(* where it is not expected; trouble names those a behaviour has been in,  *)
(* and the properties say what holds outside of them:                      *)
(*   stale stop: m_stopRequested is set while nothing is recorded, because *)
(*     the recording ended by itself before or while Stop or Abort was     *)
(*     handled;                                                            *)
(*   abort taken for a stop: the data thread ran between the assignments   *)
(*     to m_stopRequested and m_stopIsAbort;                               *)
(*   stop after abort: the Stop button was enabled, late, by the end of    *)
(*     the first calibration after Abort had disabled it;                  *)
(*   early record: the FMS pressed Record before recordControlsUpdateWork  *)
(*     had closed the previous recording.                                  *)

Troubles == {"stale stop", "abort taken for a stop", "stop after abort",
             "early record"}

\* Every variable has the type its declaration in displayTab.h gives it.
TypeOK ==
  /\ config \in Configs
  /\ recordState \in RecordStates /\ wait \in 0 .. Wait
  /\ stopRequested \in BOOLEAN /\ stopIsAbort \in BOOLEAN
  /\ outOfSpace \in BOOLEAN /\ filesOpen \in BOOLEAN
  /\ line \in 0 .. MaxLines
  /\ disk \in [Lines -> {"none", "empty", "writing", "finished", "deleted"}]
  /\ listed \in [Lines -> Nat]
  /\ obc \in CalStates \cup {"SCIENCE"} /\ mount \in {"IDLE", "ACTIVE"}
  /\ pxi \in BOOLEAN /\ recordButton \in BOOLEAN /\ stopButton \in BOOLEAN
  /\ abortButton \in BOOLEAN /\ exitButton \in BOOLEAN /\ abortDialog \in BOOLEAN
  /\ writeFailed \in BOOLEAN /\ lineHigh \in BOOLEAN /\ fmsLine \in BOOLEAN
  /\ mainPC \in {"loop", "openFiles", "leaveIdle", "enableControls", "enter",
                 "commandFirst", "sendStopButton", "stopIsNoAbort",
                 "stopIsAbort", "stopThreads", "ended"}
  /\ queue \in Seq({"refreshRecordControls", "refreshStopButton",
                    "pressRecord", "pressStop"})
  /\ dataPC \in {"top", "noFrameStop", "check", "enterIdle", "leaveRecording",
                 "crashed", "joined"}
  /\ aborted \subseteq Lines /\ twice \subseteq Lines /\ overtaken \in BOOLEAN
  /\ trouble \subseteq Troubles
  /\ spaceCount \in 0 .. MaxSpace /\ toggleCount \in 0 .. MaxToggles

\* lookForImageData never writes a frame to a file that is not open, although
\* enterIdleState on the data thread and openFiles on the main thread close
\* and open the files without a lock.
WritesToOpenFiles ==
  dataPC = "crashed" =>
    "stale stop" \in trouble \/ "early record" \in trouble

Quiet == mainPC = "loop" /\ queue = << >> /\ dataPC = "top" /\ ~Recording

\* Between recordings every flight line is accounted for: its files are closed
\* and it is on the Recordings tab once, or it was aborted, its files are gone
\* and it is not listed, or its files could not be opened, of which some may have
\* been left empty.  Only a line begun twice in one second may be otherwise: its
\* second recording wrote over the files of the first.
LinesAccounted ==
  Quiet /\ trouble = {} =>
    \A l \in (1 .. line) \ twice :
      \/ disk[l] = "finished" /\ listed[l] = 1
      \/ disk[l] = "deleted" /\ listed[l] = 0 /\ l \in aborted
      \/ disk[l] \in {"none", "empty"} /\ listed[l] = 0

\* Between recordings the hardware is at rest: the PXI is told that nothing is
\* recorded, no file is open, the mount is idle and the OBC in science mode.  One
\* case is otherwise: a recording that ended by itself, its storage full, before
\* the handler that began it had commanded the OBC leaves it in the dark, though
\* nothing else.
IdleEquipment ==
  Quiet /\ trouble = {} =>
    /\ ~pxi /\ mount = "IDLE" /\ ~filesOpen
    /\ obc = IF overtaken THEN "DARK1CAL" ELSE "SCIENCE"

\* The program cannot be left during a recording: the Exit button is enabled
\* again only by the callback that follows enterIdleState.
ExitLocked ==
  mainPC = "ended" => ~Recording \/ trouble \cap {"stale stop", "early record"} # {}

\* A flight line on the Recordings tab has its files, and they stay: no later
\* recording, stop or abort writes to them or removes them, unless it is one of
\* the same second and has their names.
ListedStays ==
  [][\A l \in Lines \ twice' : trouble' = {} /\ listed[l] > 0 =>
        disk[l] = "finished" /\ disk'[l] = "finished"]_vars

\* A stop or an abort ends the recording while frames keep coming.
StopEndsRecording ==
  Recording /\ stopRequested /\ trouble = {} ~> ~Recording \/ trouble # {}

\* After a recording the Exit button comes back, unless the FMS has started
\* the next one.
ExitComesBack ==
  ~Recording /\ ~exitButton /\ mainPC = "loop" ~>
    exitButton \/ Recording \/ dataPC = "crashed"

\* "If line goes low, click the stop button" (displayTab.cpp:4991): with the
\* FMS line low for good, the recording it started ends.
FmsLineStops == <>[](~fmsLine) => <>[](~Recording)
=============================================================================
