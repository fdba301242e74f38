--------------------------- MODULE Recording_proofs ---------------------------
(***************************************************************************)
(* Recording control, for any settings, calibration periods and bounds.    *)
(*                                                                         *)
(* The main thread and the data thread share the record state, the files   *)
(* and two flags without a lock.  What keeps them apart is the Exit        *)
(* button: it is enabled only when nothing is recorded and no callback is  *)
(* on its way that follows a recording, and the main thread starts only    *)
(* then, unless the FMS comes early.  So while it is starting, the data    *)
(* thread has nothing to do; and while the data thread is closing, the     *)
(* main thread is not starting.  Everything else rests on that.            *)
(***************************************************************************)
EXTENDS Recording, TLAPS

Callbacks == {"refreshRecordControls", "refreshStopButton", "pressRecord",
              "pressStop"}

-----------------------------------------------------------------------------
(* The invariant                                                           *)

\* The main thread is in recordButtonWork.
Starting == mainPC \in {"openFiles", "leaveIdle", "enableControls", "enter"}

\* It has opened the files.
Opened == mainPC \in {"leaveIdle", "enableControls", "enter"}

\* The parts of the type invariant, and what two of them rest on: files are
\* opened for no more flight lines than there may be, and ...
Truth == BOOLEAN

Booleans ==
  /\ stopRequested \in Truth /\ stopIsAbort \in Truth
  /\ outOfSpace \in Truth /\ filesOpen \in Truth
  /\ pxi \in Truth /\ recordButton \in Truth /\ stopButton \in Truth
  /\ abortButton \in Truth /\ exitButton \in Truth /\ abortDialog \in Truth
  /\ writeFailed \in Truth /\ lineHigh \in Truth /\ fmsLine \in Truth

Names ==
  /\ config \in Configs
  /\ recordState \in RecordStates
  /\ obc \in CalStates \cup {"SCIENCE"} /\ mount \in {"IDLE", "ACTIVE"}
  /\ mainPC \in {"loop", "openFiles", "leaveIdle", "enableControls", "enter",
                 "commandFirst", "sendStopButton", "stopIsNoAbort", "stopIsAbort",
                 "stopThreads", "ended"}
  /\ dataPC \in {"top", "noFrameStop", "check", "enterIdle", "leaveRecording",
                 "crashed", "joined"}

Counts ==
  /\ line \in 0 .. MaxLines
  /\ spaceCount \in 0 .. MaxSpace /\ toggleCount \in 0 .. MaxToggles

FilesTyped ==
  /\ disk \in [Lines -> {"none", "empty", "writing", "finished", "deleted"}]
  /\ listed \in [Lines -> Nat]

HistoryTyped ==
  /\ aborted \subseteq Lines /\ twice \subseteq Lines
  /\ overtaken \in BOOLEAN /\ trouble \subseteq Troubles

\* ... a flight line is there to be recorded or aborted.
LineThere == Opened \/ abortButton \/ abortDialog => line > 0

\* A calibration that goes on has frames left.
FramesLeft ==
  /\ wait \in 0 .. Wait
  /\ recordState \in CalStates /\ dataPC \notin {"enterIdle", "leaveRecording"} =>
       wait > 0

TypeInv ==
  /\ Booleans /\ Names /\ Counts /\ FilesTyped /\ HistoryTyped
  /\ queue \in Seq(Callbacks)
  /\ LineThere /\ FramesLeft

\* callback has been sent and not yet run.
Pending(callback, q) == \E i \in 1..Len(q) : q[i] = callback

Once(callback, q) ==
  \A i, j \in 1..Len(q) : q[i] = callback /\ q[j] = callback => i = j

Refreshing == Pending("refreshRecordControls", queue)

OnlyOnce == Once("refreshRecordControls", queue)

\* Only one of the threads is at the files and the record state.
OneAtATime ==
  /\ stopRequested => Recording
  /\ dataPC \in {"noFrameStop", "check", "enterIdle", "leaveRecording"} => Recording
  /\ dataPC # "crashed" /\ (dataPC = "joined" => mainPC = "ended")
  /\ Starting \/ mainPC \in {"stopThreads", "ended"} => ~Recording

\* The files are open while something is recorded, and the equipment is at rest
\* while nothing is, up to the OBC of a recording that ended before it began.
FilesFollow ==
  /\ Recording /\ dataPC # "leaveRecording" => filesOpen
  /\ Opened => filesOpen
  /\ ~Recording /\ ~Opened => ~filesOpen
  /\ ~Recording /\ mainPC \notin {"enableControls", "enter"} => ~pxi
  /\ dataPC = "leaveRecording" => ~filesOpen /\ ~pxi
  /\ mainPC = "commandFirst" \/ Recording \/ ~config.auto => ~overtaken
  /\ ~config.auto => obc = "SCIENCE"
  /\ ~Recording /\ mainPC # "ended" =>
       obc = IF overtaken THEN "DARK1CAL" ELSE "SCIENCE"
  /\ (~Recording /\ mainPC # "enter") \/ ~config.auto => mount = "IDLE"

\* The Exit button tells that the last recording is over and closed.
ExitMeansIdle ==
  /\ exitButton => ~Recording /\ mainPC # "enter"
  /\ mainPC \in {"openFiles", "leaveIdle", "enableControls"} => exitButton
  /\ Refreshing => ~Recording /\ ~exitButton /\ mainPC # "enter"
  /\ OnlyOnce

Orderly == OneAtATime /\ FilesFollow /\ ExitMeansIdle

OrderlyInv == trouble \cap {"stale stop", "early record"} = {} => Orderly

\* stopIsAbort is an abort of the present flight line, and is not taken back.
AbortIsMeant ==
  /\ Recording /\ stopIsAbort => line \in aborted
  /\ mainPC \in {"enableControls", "enter"} => ~stopIsAbort
  /\ mainPC = "stopIsNoAbort" => ~stopIsAbort
  /\ mainPC = "stopIsAbort" => line \in aborted /\ (stopIsAbort \/ stopRequested)

Accounted(l) ==
  \/ disk[l] = "finished" /\ listed[l] = 1
  \/ disk[l] = "deleted" /\ listed[l] = 0 /\ l \in aborted
  \/ disk[l] \in {"none", "empty"} /\ listed[l] = 0

\* What has become of the flight lines before the present one
Others ==
  /\ \A l \in Lines : l < line /\ l \notin twice => Accounted(l)
  /\ \A l \in Lines : l > line =>
       disk[l] = "none" /\ listed[l] = 0 /\ l \notin twice

\* What becomes of the present one, over the steps of its closing: what its
\* files are, how often it is listed, and whether it was aborted; and whether its
\* name is its own
PresentIs(files, shown, isAborted, own) ==
  /\ Opened \/ Recording => line > 0 /\ (own => shown = 0)
  /\ Opened \/ (Recording /\ dataPC # "leaveRecording") => files = "writing"
  /\ dataPC = "leaveRecording" => files \in {"finished", "deleted"}
  /\ dataPC = "leaveRecording" /\ files = "deleted" => isAborted
  /\ dataPC = "leaveRecording" /\ ~stopRequested => (files = "deleted" <=> stopIsAbort)
  /\ Refreshing =>
       /\ line > 0 /\ (own => shown = 0)
       /\ \/ files = "finished" /\ ~stopIsAbort
          \/ files = "deleted" /\ stopIsAbort /\ isAborted
  /\ ~Opened /\ ~Recording /\ ~Refreshing /\ line > 0 /\ own =>
       \/ files = "finished" /\ shown = 1
       \/ files = "deleted" /\ shown = 0 /\ isAborted
       \/ files \in {"none", "empty"} /\ shown = 0

Present ==
  PresentIs(disk[line], listed[line], line \in aborted, line \notin twice)

LinesKept == Others /\ Present

LinesInv == trouble = {} => AbortIsMeant /\ LinesKept

RecordingInv == TypeInv /\ OrderlyInv /\ LinesInv

-----------------------------------------------------------------------------
(* Types                                                                   *)

\* The parts make up the type invariant.
LEMMA Parts == TypeInv => TypeOK
  BY DEF TypeInv, TypeOK, Booleans, Truth, Names, Counts, FilesTyped, HistoryTyped,
         Callbacks, FramesLeft

LEMMA NotCals == {"SCIENCE", "NOT_RECORDING"} \cap CalStates = {}
  BY DEF CalStates

LEMMA TypeInit == Init => TypeInv
<1> SUFFICES ASSUME Init PROVE TypeInv
  OBVIOUS
<1>1. Booleans
  <2>1. Truth = BOOLEAN
    BY DEF Truth
  <2>2. fmsLine \in BOOLEAN
    BY DEF Init
  <2>3. (~config.fms) \in BOOLEAN
    BY Zenon
  <2> QED
    BY <2>1, <2>2, <2>3, Zenon DEF Init, Booleans
<1>2. Names /\ Counts
  BY BoundsAssumption DEF Init, Names, Counts, RecordStates
<1>6. HistoryTyped
  <2>1. overtaken \in BOOLEAN
    BY Zenon DEF Init
  <2> QED
    BY <2>1 DEF Init, HistoryTyped
<1>3. FilesTyped
  BY DEF Init, FilesTyped
<1>4. queue \in Seq(Callbacks)
  BY DEF Init
<1>5. LineThere /\ FramesLeft
  BY NotCals, WaitAssumption DEF Init, LineThere, FramesLeft, Opened
<1> QED
  BY <1>1, <1>2, <1>3, <1>4, <1>5, <1>6 DEF TypeInv

\* Truth values
LEMMA Truths == TRUE \in Truth /\ FALSE \in Truth
  BY DEF Truth

\* What is assigned to a flag or a button is TRUE or FALSE.
LEMMA BooleansNext == Booleans /\ [Next]_vars => Booleans'
<1> SUFFICES ASSUME Booleans, [Next]_vars PROVE Booleans'
  OBVIOUS
<1> USE Truths
    DEF Booleans, buttonVars, filesVars, deviceVars, flagVars, historyVars, beginVars,
        countVars, fmsVars
<1>1. CASE User
  BY <1>1, Zenon DEF User, ClickRecord, ClickStop, ClickAbort, CancelAbort,
     ConfirmAbort,
         ClickExit, Pressed, StopWork
<1>2. CASE Handle
  BY <1>2, Zenon DEF Handle, OpenFiles, OpenFilesFails, LeaveIdleState,
     EnableControls,
         EnterFirst, CommandFirst, SendStopButton, SetStopIsAbort, ExitStopThreads,
            DisableExitButton
<1>3. CASE Dispatch
  BY <1>3, Zenon DEF Dispatch, RefreshRecordControls, RefreshStopButton,
     PressRecord, PressStop, Pressed, StopWork,
         ListUnlessAborted, Dispatched
<1>4. CASE CheckResources
  BY <1>4, Zenon DEF CheckResources
<1>5. CASE Frame \/ NoFrame
  BY <1>5, Zenon DEF Frame, NoFrame, FrameOutOfSpace, FrameWritten,
     FrameNotWritten, Taken
<1>6. CASE Continue
  BY <1>6, Zenon DEF Continue, NoFrameStop, CheckAbort, CheckDark1, CheckScience,
         CheckEndingCal, CloseFiles, EnterIdleState, Taken
<1>7. CASE LineRises \/ LineFalls \/ ToggleLine
  BY <1>7, Zenon DEF LineRises, LineFalls, ToggleLine
<1>8. CASE UNCHANGED vars
  BY <1>8, Zenon DEF vars
<1> QED
  BY <1>1, <1>2, <1>3, <1>4, <1>5, <1>6, <1>7, <1>8 DEF Next

\* The states are those there are.
LEMMA NamesNext ==
  ASSUME Names, [Next]_vars
  PROVE  Names'
<1> USE ConfigsAssumption DEF Names, RecordStates, CommandOBC,
        buttonVars, filesVars, deviceVars, flagVars, historyVars, beginVars,
        countVars, fmsVars
<1>1. CASE User
  BY <1>1 DEF User, ClickRecord, ClickStop, ClickAbort, CancelAbort, ConfirmAbort,
         ClickExit, Pressed, StopWork
<1>2. CASE Handle
  BY <1>2 DEF Handle, OpenFiles, OpenFilesFails, LeaveIdleState, EnableControls,
         EnterFirst, CommandFirst, First, SendStopButton, SetStopIsAbort,
         ExitStopThreads, DisableExitButton, CalStates
<1>3. CASE Dispatch
  BY <1>3 DEF Dispatch, RefreshRecordControls, RefreshStopButton, PressRecord,
     PressStop, Pressed, StopWork, ListUnlessAborted, Dispatched
<1>4. CASE CheckResources
  BY <1>4 DEF CheckResources
<1>5. CASE Frame \/ NoFrame
  BY <1>5 DEF Frame, NoFrame, FrameOutOfSpace, FrameWritten, FrameNotWritten, Taken
<1>6. CASE Continue
  BY <1>6 DEF Continue, NoFrameStop, CheckAbort, CheckDark1, CheckScience,
         CheckEndingCal, CloseFiles, EnterIdleState, Taken, EnterNext, EnterCal,
         CalsAfter, IdleMount, ResetRecordState
<1>7. CASE LineRises \/ LineFalls \/ ToggleLine
  BY <1>7 DEF LineRises, LineFalls, ToggleLine
<1>8. CASE UNCHANGED vars
  BY <1>8 DEF vars
<1> QED
  BY <1>1, <1>2, <1>3, <1>4, <1>5, <1>6, <1>7, <1>8 DEF Next

\* A name is one of a flight line.
LEMMA NamedInLines ==
  ASSUME OpenFiles \/ OpenFilesFails
  PROVE  /\ line' \in Lines /\ UNCHANGED <<aborted, overtaken, trouble>>
         /\ twice' = twice \/ twice' = twice \cup {line'}
<1>1. PICK l \in Lines : line' = l /\ Begins(l)
  BY DEF OpenFiles, OpenFilesFails
<1>2. UNCHANGED <<aborted, overtaken, trouble>>
  BY DEF OpenFiles, OpenFilesFails
<1> QED
  BY <1>1, <1>2, Zenon DEF Begins

\* The counts stay in their bounds.
LEMMA CountsNext ==
  ASSUME Counts, [Next]_vars
  PROVE  Counts'
<1> USE BoundsAssumption DEF Counts,
        buttonVars, filesVars, deviceVars, flagVars, historyVars, beginVars,
        countVars, fmsVars
<1>1. CASE User
  BY <1>1 DEF User, ClickRecord, ClickStop, ClickAbort, CancelAbort, ConfirmAbort,
         ClickExit, Pressed, StopWork
<1>2. CASE Handle
  <2>1. CASE OpenFiles \/ OpenFilesFails
    <3>1. line' \in Lines
      BY <2>1, NamedInLines
    <3>2. UNCHANGED countVars
      BY <2>1 DEF OpenFiles, OpenFilesFails
    <3> QED
      BY <3>1, <3>2 DEF Lines
  <2>2. CASE ~OpenFiles /\ ~OpenFilesFails
    BY <1>2, <2>2 DEF Handle, LeaveIdleState, EnableControls, EnterFirst,
       CommandFirst, SendStopButton, SetStopIsAbort, ExitStopThreads
  <2> QED
    BY <2>1, <2>2
<1>3. CASE Dispatch
  BY <1>3 DEF Dispatch, RefreshRecordControls, RefreshStopButton, PressRecord,
     PressStop, Pressed, StopWork, Dispatched
<1>4. CASE CheckResources
  BY <1>4 DEF CheckResources
<1>5. CASE Frame \/ NoFrame
  BY <1>5 DEF Frame, NoFrame, FrameOutOfSpace, FrameWritten, FrameNotWritten
<1>6. CASE Continue
  BY <1>6 DEF Continue, NoFrameStop, CheckAbort, CheckDark1, CheckScience,
         CheckEndingCal, CloseFiles, EnterIdleState
<1>7. CASE LineRises \/ LineFalls \/ ToggleLine
  BY <1>7 DEF LineRises, LineFalls, ToggleLine
<1>8. CASE UNCHANGED vars
  BY <1>8 DEF vars
<1> QED
  BY <1>1, <1>2, <1>3, <1>4, <1>5, <1>6, <1>7, <1>8 DEF Next

\* A flight line is there before anything is done to it.
LEMMA LineThereNext ==
  ASSUME Counts, LineThere, Booleans, [Next]_vars
  PROVE  LineThere'
<1> USE DEF LineThere, Opened,
        buttonVars, filesVars, deviceVars, flagVars, historyVars, beginVars,
        countVars, fmsVars
<1>1. CASE User
  BY <1>1 DEF User, ClickRecord, ClickStop, ClickAbort, CancelAbort, ConfirmAbort,
         ClickExit, Pressed, StopWork
<1>2. CASE Handle
  <2>1. CASE OpenFiles \/ OpenFilesFails
    <3>1. line' \in Lines
      BY <2>1, NamedInLines
    <3> QED
      BY <3>1 DEF Lines
  <2>2. CASE ~OpenFiles /\ ~OpenFilesFails
    BY <1>2, <2>2 DEF Handle, LeaveIdleState, EnableControls, EnterFirst,
       CommandFirst, SendStopButton, SetStopIsAbort, ExitStopThreads
  <2> QED
    BY <2>1, <2>2
<1>3. CASE Dispatch
  BY <1>3 DEF Dispatch, RefreshRecordControls, RefreshStopButton, PressRecord,
     PressStop, Pressed, StopWork, Dispatched
<1>4. CASE CheckResources
  BY <1>4 DEF CheckResources
<1>5. CASE Frame \/ NoFrame
  BY <1>5 DEF Frame, NoFrame, FrameOutOfSpace, FrameWritten, FrameNotWritten
<1>6. CASE Continue
  BY <1>6 DEF Continue, NoFrameStop, CheckAbort, CheckDark1, CheckScience,
         CheckEndingCal, CloseFiles, EnterIdleState
<1>7. CASE LineRises \/ LineFalls \/ ToggleLine
  BY <1>7 DEF LineRises, LineFalls, ToggleLine
<1>8. CASE UNCHANGED vars
  BY <1>8 DEF vars
<1> QED
  BY <1>1, <1>2, <1>3, <1>4, <1>5, <1>6, <1>7, <1>8 DEF Next

\* A calibration is left when its last frame has been counted.
LEMMA FramesLeftNext ==
  ASSUME Names, FramesLeft, [Next]_vars
  PROVE  FramesLeft'
<1> USE WaitAssumption DEF Names, FramesLeft,
        buttonVars, filesVars, deviceVars, flagVars, historyVars, beginVars,
        countVars, fmsVars
<1>1. CASE User
  BY <1>1 DEF User, ClickRecord, ClickStop, ClickAbort, CancelAbort, ConfirmAbort,
         ClickExit, Pressed, StopWork
<1>2. CASE Handle
  BY <1>2 DEF Handle, OpenFiles, OpenFilesFails, LeaveIdleState, EnableControls,
         EnterFirst, CommandFirst, SendStopButton, SetStopIsAbort, ExitStopThreads, First,
            CalStates
<1>3. CASE Dispatch
  BY <1>3 DEF Dispatch, RefreshRecordControls, RefreshStopButton, PressRecord,
     PressStop, Pressed, StopWork, Dispatched
<1>4. CASE CheckResources
  BY <1>4 DEF CheckResources
<1>5. CASE Frame \/ NoFrame
  BY <1>5 DEF Frame, NoFrame, FrameOutOfSpace, FrameWritten, FrameNotWritten,
     DataRuns
<1>6. CASE Continue
  <2> USE NotCals DEF DataRuns, Checks, CalOver, EnterNext, EnterCal
  <2>1. CASE NoFrameStop
    BY <2>1 DEF NoFrameStop, CalsAfter
  <2>2. CASE CheckAbort
    BY <2>2 DEF CheckAbort
  <2>3. CASE CheckDark1
    <3>1. /\ dataPC = "check" /\ recordState = "DARK1CAL"
          /\ dataPC' = "top" /\ wait' = wait - 1
          /\ IF wait = 1 THEN recordState' = "SCIENCE"
                         ELSE recordState' = recordState
      BY <2>3, Zenon DEF CheckDark1
    <3> QED
      BY <3>1 DEF CalStates
  <2>4. CASE CheckScience
    BY <2>4 DEF CheckScience
  <2>5. CASE CheckEndingCal
    BY <2>5 DEF CheckEndingCal
  <2>6. CASE CloseFiles \/ EnterIdleState
    BY <2>6 DEF CloseFiles, EnterIdleState, ResetRecordState
  <2> QED
    BY <1>6, <2>1, <2>2, <2>3, <2>4, <2>5, <2>6 DEF Continue
<1>7. CASE LineRises \/ LineFalls \/ ToggleLine
  BY <1>7 DEF LineRises, LineFalls, ToggleLine
<1>8. CASE UNCHANGED vars
  BY <1>8 DEF vars
<1> QED
  BY <1>1, <1>2, <1>3, <1>4, <1>5, <1>6, <1>7, <1>8 DEF Next

\* Files and the Recordings tab know the flight lines there are.
LEMMA FilesTypedNext ==
  ASSUME Counts, FilesTyped, Booleans, [Next]_vars
  PROVE  FilesTyped'
<1> USE BoundsAssumption DEF FilesTyped,
        buttonVars, filesVars, deviceVars, flagVars, historyVars, beginVars,
        countVars, fmsVars
<1>1. CASE User
  BY <1>1 DEF User, ClickRecord, ClickStop, ClickAbort, CancelAbort, ConfirmAbort,
         ClickExit, Pressed, StopWork
<1>2. CASE Handle
  BY <1>2 DEF Handle, OpenFiles, OpenFilesFails, LeaveIdleState, EnableControls,
         EnterFirst, CommandFirst, SendStopButton, SetStopIsAbort, ExitStopThreads, Begins,
            Counts, Lines
<1>3. CASE Dispatch
  <2>1. CASE RefreshRecordControls
    <3>1. listed' = listed \/ listed' = [listed EXCEPT ![line] = @ + 1]
      BY <2>1, Zenon DEF RefreshRecordControls, ListUnlessAborted
    <3>2. disk' = disk
      BY <2>1 DEF RefreshRecordControls
    <3> QED
      BY <3>1, <3>2
  <2>2. CASE RefreshStopButton \/ PressRecord \/ PressStop
    BY <2>2 DEF RefreshStopButton, PressRecord, PressStop, Pressed, StopWork
  <2> QED
    BY <1>3, <2>1, <2>2 DEF Dispatch
<1>4. CASE CheckResources
  BY <1>4 DEF CheckResources
<1>5. CASE Frame \/ NoFrame
  BY <1>5 DEF Frame, NoFrame, FrameOutOfSpace, FrameWritten, FrameNotWritten
<1>6. CASE Continue
  BY <1>6 DEF Continue, NoFrameStop, CheckAbort, CheckDark1, CheckScience,
         CheckEndingCal, CloseFiles, EnterIdleState, Counts, Lines
<1>7. CASE LineRises \/ LineFalls \/ ToggleLine
  BY <1>7 DEF LineRises, LineFalls, ToggleLine
<1>8. CASE UNCHANGED vars
  BY <1>8 DEF vars
<1> QED
  BY <1>1, <1>2, <1>3, <1>4, <1>5, <1>6, <1>7, <1>8 DEF Next

LEMMA LineIsThere ==
  Counts /\ LineThere /\ (Opened \/ abortButton \/ abortDialog) => line \in Lines
  BY BoundsAssumption DEF Counts, LineThere, Lines

\* What is aborted is a flight line, and the troubles are the known ones.
LEMMA HistoryNext ==
  ASSUME Counts, HistoryTyped, LineThere, [Next]_vars
  PROVE  HistoryTyped'
<1> USE BoundsAssumption DEF HistoryTyped, Troubles,
        buttonVars, filesVars, deviceVars, flagVars, historyVars, beginVars,
        countVars, fmsVars
<1>1. CASE User
  <2>1. CASE ClickRecord
    BY <2>1 DEF ClickRecord, Pressed
  <2>2. CASE ClickStop
    BY <2>2 DEF ClickStop, StopWork
  <2>3. CASE ConfirmAbort
    <3>1. /\ aborted' = aborted \cup {line} /\ abortDialog
          /\ twice' = twice /\ overtaken' = overtaken
          /\ trouble' \in {trouble, trouble \cup {"stale stop"}}
      BY <2>3 DEF ConfirmAbort
    <3>2. line \in Lines
      BY <3>1, LineIsThere
    <3> QED
      BY <3>1, <3>2
  <2>4. CASE ClickAbort \/ CancelAbort \/ ClickExit
    BY <2>4 DEF ClickAbort, CancelAbort, ClickExit
  <2> QED
    BY <1>1, <2>1, <2>2, <2>3, <2>4 DEF User
<1>2. CASE Handle
  <2>1. CASE OpenFiles \/ OpenFilesFails
    BY <2>1, NamedInLines
  <2>2. CASE CommandFirst
    <3>1. overtaken' \in BOOLEAN
      BY <2>2, Zenon DEF CommandFirst
    <3> QED
      BY <2>2, <3>1 DEF CommandFirst
  <2>3. CASE ~OpenFiles /\ ~OpenFilesFails /\ ~CommandFirst
    BY <1>2, <2>3 DEF Handle, LeaveIdleState, EnableControls, EnterFirst,
       SendStopButton, SetStopIsAbort, ExitStopThreads
  <2> QED
    BY <2>1, <2>2, <2>3
<1>3. CASE Dispatch
  BY <1>3 DEF Dispatch, RefreshRecordControls, RefreshStopButton, PressRecord,
     PressStop, Pressed, StopWork, Dispatched
<1>4. CASE CheckResources
  BY <1>4 DEF CheckResources
<1>5. CASE Frame \/ NoFrame
  BY <1>5 DEF Frame, NoFrame, FrameOutOfSpace, FrameWritten, FrameNotWritten, Taken
<1>6. CASE Continue
  BY <1>6 DEF Continue, NoFrameStop, CheckAbort, CheckDark1, CheckScience,
         CheckEndingCal, CloseFiles, EnterIdleState, Taken
<1>7. CASE LineRises \/ LineFalls \/ ToggleLine
  BY <1>7 DEF LineRises, LineFalls, ToggleLine
<1>8. CASE UNCHANGED vars
  BY <1>8 DEF vars
<1> QED
  BY <1>1, <1>2, <1>3, <1>4, <1>5, <1>6, <1>7, <1>8 DEF Next

\* Only callbacks are sent.
LEMMA QueueNext ==
  ASSUME queue \in Seq(Callbacks), [Next]_vars
  PROVE  queue' \in Seq(Callbacks)
<1> USE DEF Callbacks,
        buttonVars, filesVars, deviceVars, flagVars, historyVars, beginVars,
        countVars, fmsVars
<1>1. CASE User
  BY <1>1 DEF User, ClickRecord, ClickStop, ClickAbort, CancelAbort, ConfirmAbort,
         ClickExit, Pressed, StopWork
<1>2. CASE Handle
  BY <1>2 DEF Handle, OpenFiles, OpenFilesFails, LeaveIdleState, EnableControls,
         EnterFirst, CommandFirst, SendStopButton, SetStopIsAbort, ExitStopThreads
<1>3. CASE Dispatch
  BY <1>3 DEF Dispatch, RefreshRecordControls, RefreshStopButton, PressRecord,
     PressStop, Dispatched
<1>4. CASE CheckResources
  BY <1>4 DEF CheckResources
<1>5. CASE Frame \/ NoFrame
  BY <1>5 DEF Frame, NoFrame, FrameOutOfSpace, FrameWritten, FrameNotWritten
<1>6. CASE Continue
  <2>1. CASE CheckDark1
    BY <2>1 DEF CheckDark1
  <2>2. CASE EnterIdleState
    <3>1. queue' = Append(queue, "refreshRecordControls")
      BY <2>2, Zenon DEF EnterIdleState, SendRecordControls
    <3> QED
      BY <3>1
  <2>3. CASE CheckScience \/ NoFrameStop \/ CheckEndingCal
    BY <2>3 DEF CheckScience, NoFrameStop, CheckEndingCal, EnterNext, EnterCal
  <2>4. CASE CheckAbort \/ CloseFiles
    BY <2>4 DEF CheckAbort, CloseFiles
  <2> QED
    BY <1>6, <2>1, <2>2, <2>3, <2>4 DEF Continue
<1>7. CASE LineRises \/ LineFalls \/ ToggleLine
  BY <1>7 DEF LineRises, LineFalls, ToggleLine
<1>8. CASE UNCHANGED vars
  BY <1>8 DEF vars
<1> QED
  BY <1>1, <1>2, <1>3, <1>4, <1>5, <1>6, <1>7, <1>8 DEF Next

\* Every step keeps the types.
LEMMA TypeNext == TypeInv /\ [Next]_vars => TypeInv'
<1> SUFFICES ASSUME TypeInv, [Next]_vars PROVE TypeInv'
  OBVIOUS
<1>1. /\ Booleans /\ Names /\ Counts /\ FilesTyped /\ HistoryTyped
      /\ queue \in Seq(Callbacks) /\ LineThere /\ FramesLeft
  BY DEF TypeInv
<1>2. Booleans' /\ Names' /\ Counts' /\ HistoryTyped'
  BY <1>1, BooleansNext, NamesNext, CountsNext, HistoryNext
<1>3. FilesTyped' /\ queue' \in Seq(Callbacks)
  BY <1>1, FilesTypedNext, QueueNext
<1>4. LineThere' /\ FramesLeft'
  BY <1>1, LineThereNext, FramesLeftNext
<1> QED
  BY <1>2, <1>3, <1>4 DEF TypeInv

-----------------------------------------------------------------------------
(* The queue                                                               *)

\* What has been sent is pending.
LEMMA Sent ==
  ASSUME NEW q \in Seq(Callbacks), NEW sent \in Callbacks, NEW callback
  PROVE  /\ Pending(callback, Append(q, sent)) <=>
              Pending(callback, q) \/ sent = callback
         /\ Once(callback, q) /\ (sent = callback => ~Pending(callback, q)) =>
              Once(callback, Append(q, sent))
<1> DEFINE r == Append(q, sent)
<1>1. /\ Len(q) \in Nat /\ Len(r) = Len(q) + 1 /\ r[Len(q) + 1] = sent
      /\ \A i \in 1..Len(q) : r[i] = q[i]
  OBVIOUS
<1> HIDE DEF r
<1>2. Pending(callback, r) <=> Pending(callback, q) \/ sent = callback
  BY <1>1 DEF Pending
<1>3. ASSUME Once(callback, q), sent = callback => ~Pending(callback, q)
      PROVE  Once(callback, r)
  BY <1>1, <1>3 DEF Once, Pending
<1> QED
  BY <1>2, <1>3 DEF r

\* What has been run is not.
LEMMA Ran ==
  ASSUME NEW q \in Seq(Callbacks), q # << >>, NEW callback
  PROVE  /\ Pending(callback, Tail(q)) => Pending(callback, q)
         /\ Head(q) = callback => Pending(callback, q)
         /\ Head(q) # callback =>
              (Pending(callback, Tail(q)) <=> Pending(callback, q))
         /\ Once(callback, q) => Once(callback, Tail(q))
         /\ Once(callback, q) /\ Head(q) = callback => ~Pending(callback, Tail(q))
<1> DEFINE r == Tail(q)
<1>1. /\ Len(q) \in Nat \ {0} /\ Len(r) = Len(q) - 1 /\ Head(q) = q[1]
      /\ \A i \in 1..Len(r) : r[i] = q[i + 1]
  OBVIOUS
<1> HIDE DEF r
<1>2. Pending(callback, r) => Pending(callback, q)
  BY <1>1 DEF Pending
<1>3. Head(q) = callback => Pending(callback, q)
  BY <1>1 DEF Pending
<1>4. ASSUME Head(q) # callback, Pending(callback, q) PROVE Pending(callback, r)
  <2>1. PICK i \in 1..Len(q) : q[i] = callback
    BY <1>4 DEF Pending
  <2>2. i - 1 \in 1..Len(r) /\ r[i - 1] = callback
    BY <1>1, <1>4, <2>1
  <2> QED
    BY <2>2 DEF Pending
<1>5. Once(callback, q) => Once(callback, r)
  BY <1>1 DEF Once
<1>6. Once(callback, q) /\ Head(q) = callback => ~Pending(callback, r)
  BY <1>1 DEF Once, Pending
<1> QED
  BY <1>2, <1>3, <1>4, <1>5, <1>6 DEF r

\* Only enterIdleState asks for recordControlsUpdateWork.
LEMMA RefreshingKept ==
  ASSUME queue \in Seq(Callbacks), OnlyOnce,
         \/ User \/ Handle \/ RefreshStopButton \/ PressRecord \/ PressStop
         \/ CheckResources \/ Frame \/ NoFrame \/ NoFrameStop \/ CheckAbort
         \/ CheckDark1 \/ CheckScience \/ CheckEndingCal \/ CloseFiles
         \/ LineRises \/ LineFalls \/ ToggleLine \/ UNCHANGED vars
  PROVE  OnlyOnce' /\ (Refreshing' <=> Refreshing)
<1> DEFINE same == OnlyOnce' /\ (Refreshing' <=> Refreshing)
<1> SUFFICES same
  OBVIOUS
<1>1. ASSUME queue' = queue PROVE same
  BY <1>1 DEF Refreshing, OnlyOnce
<1>2. ASSUME NEW other \in Callbacks \ {"refreshRecordControls"},
             queue' = Append(queue, other)
      PROVE  same
  BY <1>2, Sent DEF Refreshing, OnlyOnce
<1>3. ASSUME NEW other \in Callbacks \ {"refreshRecordControls"}, Dispatched(other)
      PROVE  same
  BY <1>3, Ran DEF Refreshing, OnlyOnce, Dispatched
<1> HIDE DEF same
<1> DEFINE others == {"refreshStopButton", "pressRecord", "pressStop"}
<1>4. others = Callbacks \ {"refreshRecordControls"}
  BY DEF Callbacks
<1>5. CASE User \/ Handle \/ UNCHANGED vars
  <2>1. queue' = queue \/ queue' = Append(queue, "refreshStopButton")
    BY <1>5 DEF User, ClickRecord, ClickStop, ClickAbort, CancelAbort, ConfirmAbort,
         ClickExit, Handle, OpenFiles, OpenFilesFails, LeaveIdleState, EnableControls,
         EnterFirst, CommandFirst, SendStopButton, SetStopIsAbort, ExitStopThreads, vars
  <2> QED
    BY <2>1, <1>1, <1>2, <1>4
<1>6. CASE RefreshStopButton \/ PressRecord \/ PressStop
  <2>1. \E other \in others : Dispatched(other)
    BY <1>6 DEF RefreshStopButton, PressRecord, PressStop
  <2> QED
    BY <2>1, <1>3, <1>4
<1>7. CASE CheckResources \/ Frame \/ NoFrame \/ CheckAbort \/ CloseFiles \/ ToggleLine
  <2>1. queue' = queue
    BY <1>7 DEF CheckResources, Frame, FrameOutOfSpace, FrameWritten,
       FrameNotWritten,
         NoFrame, CheckAbort, CloseFiles, ToggleLine
  <2> QED
    BY <2>1, <1>1
<1>8. CASE NoFrameStop \/ CheckDark1 \/ CheckScience \/ CheckEndingCal
  <2>1. queue' = queue \/ queue' = Append(queue, "refreshStopButton")
    BY <1>8 DEF NoFrameStop, CheckDark1, CheckScience, CheckEndingCal, EnterNext,
         EnterCal
  <2> QED
    BY <2>1, <1>1, <1>2, <1>4
<1>9. CASE LineRises \/ LineFalls
  <2>1. \/ queue' = queue
        \/ \E other \in others : queue' = Append(queue, other)
    BY <1>9 DEF LineRises, LineFalls
  <2> QED
    BY <2>1, <1>1, <1>2, <1>4
<1> QED
  BY <1>5, <1>6, <1>7, <1>8, <1>9

\* It asks once, and the callback is run once.
LEMMA RefreshingEnds ==
  ASSUME queue \in Seq(Callbacks), RefreshRecordControls
  PROVE  Refreshing /\ (OnlyOnce => ~Refreshing' /\ OnlyOnce')
  BY Ran DEF RefreshRecordControls, Dispatched, Refreshing, OnlyOnce

LEMMA RefreshingStarts ==
  ASSUME queue \in Seq(Callbacks), EnterIdleState
  PROVE  Refreshing' /\ (OnlyOnce /\ ~Refreshing => OnlyOnce')
<1>1. queue' = Append(queue, "refreshRecordControls")
  BY Zenon DEF EnterIdleState, SendRecordControls
<1> QED
  BY <1>1, Sent DEF Refreshing, OnlyOnce, Callbacks

-----------------------------------------------------------------------------
(* Only one of the threads at a time                                       *)

Calm == trouble \cap {"stale stop", "early record"} = {}

\* Troubles are not forgotten.
LEMMA TroubleStays ==
  ASSUME [Next]_vars
  PROVE  trouble \subseteq trouble'
<1>1. CASE User
  BY <1>1 DEF User, ClickRecord, Pressed, ClickStop, StopWork, ClickAbort,
       CancelAbort, ConfirmAbort, ClickExit, historyVars, beginVars
<1>2. CASE Handle
  BY <1>2 DEF Handle, OpenFiles, OpenFilesFails, LeaveIdleState, EnableControls,
       EnterFirst, CommandFirst, SendStopButton, SetStopIsAbort, ExitStopThreads, historyVars, beginVars
<1>3. CASE Dispatch
  BY <1>3 DEF Dispatch, RefreshRecordControls, RefreshStopButton, PressRecord,
       Pressed, PressStop, StopWork, historyVars, beginVars
<1>4. CASE CheckResources \/ Frame \/ NoFrame
  BY <1>4 DEF CheckResources, Frame, FrameOutOfSpace, FrameWritten,
       FrameNotWritten, NoFrame, Taken, historyVars, beginVars
<1>5. CASE Continue
  BY <1>5 DEF Continue, NoFrameStop, CheckAbort, CheckDark1, CheckScience, Taken,
       CheckEndingCal, CloseFiles, EnterIdleState, historyVars, beginVars
<1>6. CASE LineRises \/ LineFalls \/ ToggleLine \/ UNCHANGED vars
  BY <1>6 DEF LineRises, LineFalls, ToggleLine, vars, historyVars, beginVars
<1> QED
  BY <1>1, <1>2, <1>3, <1>4, <1>5, <1>6 DEF Next

\* What a step that causes no trouble finds
LEMMA CalmSteps ==
  ASSUME [Next]_vars, Calm'
  PROVE  /\ Calm
         /\ Pressed => exitButton
         /\ StopWork \/ ConfirmAbort => Recording
         /\ EnterIdleState => ~stopRequested
<1>1. trouble \subseteq trouble'
  BY TroubleStays
<1>2. Calm
  BY <1>1 DEF Calm
<1>3. Pressed => exitButton
  BY DEF Calm, Pressed
<1>4. StopWork \/ ConfirmAbort => Recording
  BY DEF Calm, StopWork, ConfirmAbort
<1>5. EnterIdleState => ~stopRequested
  BY DEF Calm, EnterIdleState
<1> QED
  BY <1>2, <1>3, <1>4, <1>5

\* The next state of a recording is a calibration or the end.
LEMMA EnterNextGoesOn ==
  ASSUME Names, NEW state, NEW left, EnterNext(state, left)
  PROVE  \/ recordState' \in CalStates /\ dataPC' = "top"
         \/ recordState' = recordState /\ dataPC' = "enterIdle" /\ obc' = obc
  BY ConfigsAssumption DEF Names, EnterNext, EnterCal, CalsAfter

\* A step that may go on to the next state changes nothing else that counts.
LEMMA Goes ==
  ASSUME Names, NoFrameStop \/ CheckScience \/ CheckEndingCal
  PROVE  /\ dataPC \in {"noFrameStop", "check"}
         /\ \/ recordState' \in CalStates /\ dataPC' = "top"
            \/ recordState' = recordState /\ obc' = obc /\ dataPC' \in {"top", "enterIdle"}
         /\ obc' = obc \/ config.auto
         /\ stopRequested' = stopRequested \/ stopRequested' = FALSE
         /\ UNCHANGED <<config, stopIsAbort, filesVars, mount, pxi, buttonVars,
                        abortDialog, mainPC, aborted, beginVars>>
<1> DEFINE goesOn ==
         /\ \/ recordState' \in CalStates /\ dataPC' = "top"
            \/ recordState' = recordState /\ obc' = obc /\ dataPC' = "enterIdle"
         /\ obc' = obc \/ config.auto
<1> USE DEF DataRuns, Checks
<1>1. ASSUME NEW state, NEW left, EnterNext(state, left) PROVE goesOn
  BY <1>1, EnterNextGoesOn DEF EnterNext, EnterCal, CommandOBC
<1> HIDE DEF goesOn
<1>2. CASE NoFrameStop
  BY <1>1, <1>2 DEF NoFrameStop, flagVars, historyVars, beginVars, goesOn
<1>3. CASE CheckScience
  BY <1>1, <1>3 DEF CheckScience, Taken, goesOn
<1>4. CASE CheckEndingCal
  <2>1. goesOn \/ (dataPC' = "top" /\ UNCHANGED <<recordState, obc>>)
    BY <1>1, <1>4, Zenon DEF CheckEndingCal
  <2> QED
    BY <2>1, <1>4 DEF CheckEndingCal, flagVars, historyVars, beginVars, goesOn
<1> QED
  BY <1>2, <1>3, <1>4

\* Only one of the threads is at the files and the record state.
LEMMA OneAtATimeNext ==
  ASSUME [Next]_vars, Names, OneAtATime, FilesFollow, ExitMeansIdle, Calm'
  PROVE  OneAtATime'
<1> USE NotCals DEF OneAtATime, FilesFollow, ExitMeansIdle, Recording, DataRuns,
   Starting, Opened,
        buttonVars, filesVars, deviceVars, flagVars, historyVars, beginVars,
        countVars, fmsVars
<1>1. CASE User
  <2>1. CASE ClickRecord
    <3>1. exitButton
      BY <2>1, CalmSteps DEF ClickRecord
    <3> QED
      BY <2>1, <3>1 DEF ClickRecord, Pressed
  <2>2. CASE ClickStop
    <3>1. Recording
      BY <2>2, CalmSteps DEF ClickStop
    <3> QED
      BY <2>2, <3>1 DEF ClickStop, StopWork
  <2>3. CASE ConfirmAbort
    <3>1. Recording
      BY <2>3, CalmSteps
    <3> QED
      BY <2>3, <3>1 DEF ConfirmAbort
  <2>4. CASE ClickAbort \/ CancelAbort \/ ClickExit
    BY <2>4 DEF ClickAbort, CancelAbort, ClickExit
  <2> QED
    BY <1>1, <2>1, <2>2, <2>3, <2>4 DEF User
<1>2. CASE Handle
  BY <1>2 DEF Handle, OpenFiles, OpenFilesFails, LeaveIdleState, EnableControls,
         EnterFirst, CommandFirst, SendStopButton, SetStopIsAbort, ExitStopThreads,
            DisableExitButton, First
<1>3. CASE RefreshRecordControls
  BY <1>3 DEF RefreshRecordControls
<1>4. CASE RefreshStopButton \/ PressRecord \/ PressStop
  <2>1. CASE PressRecord
    <3>1. exitButton
      BY <2>1, CalmSteps DEF PressRecord
    <3> QED
      BY <2>1, <3>1 DEF PressRecord, Pressed, Dispatched
  <2>2. CASE PressStop
    <3>1. stopButton => Recording
      BY <2>2, CalmSteps DEF PressStop
    <3> QED
      BY <2>2, <3>1 DEF PressStop, StopWork, Dispatched
  <2>3. CASE RefreshStopButton
    BY <2>3 DEF RefreshStopButton
  <2> QED
    BY <1>4, <2>1, <2>2, <2>3
<1>5. CASE CheckResources
  BY <1>5 DEF CheckResources
<1>6. CASE Frame \/ NoFrame
  BY <1>6 DEF Frame, NoFrame, FrameOutOfSpace, FrameWritten, FrameNotWritten
<1>7. CASE NoFrameStop \/ CheckScience \/ CheckEndingCal
  BY <1>7, Goes
<1>8. CASE CheckAbort \/ CheckDark1 \/ CloseFiles
  BY <1>8 DEF CheckAbort, CheckDark1, CloseFiles
<1>9. CASE EnterIdleState
  <2>1. ~stopRequested
    BY <1>9, CalmSteps
  <2> QED
    BY <1>9, <2>1 DEF EnterIdleState, ResetRecordState, CommandOBC, IdleMount
<1>10. CASE LineRises \/ LineFalls \/ ToggleLine
  BY <1>10 DEF LineRises, LineFalls, ToggleLine
<1>11. CASE UNCHANGED vars
  BY <1>11 DEF vars
<1> QED
  BY <1>1, <1>2, <1>3, <1>4, <1>5, <1>6, <1>7, <1>8, <1>9, <1>10, <1>11 DEF Next,
     Dispatch, Continue

\* The files are open while something is recorded, and the equipment rests while
\* nothing is.
LEMMA FilesFollowNext ==
  ASSUME [Next]_vars, Names, OneAtATime, FilesFollow, ExitMeansIdle, Calm'
  PROVE  FilesFollow'
<1> USE NotCals DEF OneAtATime, FilesFollow, ExitMeansIdle, Recording, DataRuns,
   Starting, Opened,
        buttonVars, filesVars, deviceVars, flagVars, historyVars, beginVars,
        countVars, fmsVars
<1>1. CASE User
  <2>1. CASE ClickRecord
    <3>1. exitButton
      BY <2>1, CalmSteps DEF ClickRecord
    <3> QED
      BY <2>1, <3>1 DEF ClickRecord, Pressed
  <2>2. CASE ClickStop
    <3>1. Recording
      BY <2>2, CalmSteps DEF ClickStop
    <3> QED
      BY <2>2, <3>1 DEF ClickStop, StopWork
  <2>3. CASE ConfirmAbort
    <3>1. Recording
      BY <2>3, CalmSteps
    <3> QED
      BY <2>3, <3>1 DEF ConfirmAbort
  <2>4. CASE ClickAbort \/ CancelAbort \/ ClickExit
    BY <2>4 DEF ClickAbort, CancelAbort, ClickExit
  <2> QED
    BY <1>1, <2>1, <2>2, <2>3, <2>4 DEF User
<1>2. CASE Handle
  <2>1. CASE OpenFiles \/ OpenFilesFails
    BY <2>1, NamedInLines DEF OpenFiles, OpenFilesFails
  <2>2. CASE EnterFirst
    BY <2>2 DEF EnterFirst, First
  <2>3. CASE CommandFirst
    <3>1. /\ First \in {"DARK1CAL", "SCIENCE"}
          /\ First = "DARK1CAL" => config.auto
      BY DEF First
    <3>2. /\ ~overtaken /\ mainPC = "commandFirst" /\ mainPC' \notin {"commandFirst", "ended"}
          /\ obc' = IF config.auto THEN First ELSE obc
          /\ overtaken' <=> First = "DARK1CAL" /\ ~Recording
      BY <2>3 DEF CommandFirst, CommandOBC
    <3>3. mainPC' \notin {"openFiles", "leaveIdle", "enableControls", "enter"}
      BY <2>3 DEF CommandFirst
    <3>4. UNCHANGED <<config, recordState, dataPC, filesOpen, pxi, mount>>
      BY <2>3 DEF CommandFirst
    <3> QED
      BY <3>1, <3>2, <3>3, <3>4
  <2>4. CASE LeaveIdleState \/ EnableControls
    BY <2>4 DEF LeaveIdleState, EnableControls, DisableExitButton
  <2>5. CASE SendStopButton \/ SetStopIsAbort \/ ExitStopThreads
    BY <2>5 DEF SendStopButton, SetStopIsAbort, ExitStopThreads
  <2> QED
    BY <1>2, <2>1, <2>2, <2>3, <2>4, <2>5 DEF Handle
<1>3. CASE RefreshRecordControls
  BY <1>3 DEF RefreshRecordControls
<1>4. CASE RefreshStopButton \/ PressRecord \/ PressStop
  <2>1. CASE PressRecord
    <3>1. exitButton
      BY <2>1, CalmSteps DEF PressRecord
    <3> QED
      BY <2>1, <3>1 DEF PressRecord, Pressed, Dispatched
  <2>2. CASE PressStop
    <3>1. stopButton => Recording
      BY <2>2, CalmSteps DEF PressStop
    <3> QED
      BY <2>2, <3>1 DEF PressStop, StopWork, Dispatched
  <2>3. CASE RefreshStopButton
    BY <2>3 DEF RefreshStopButton
  <2> QED
    BY <1>4, <2>1, <2>2, <2>3
<1>5. CASE CheckResources
  BY <1>5 DEF CheckResources
<1>6. CASE Frame \/ NoFrame
  BY <1>6 DEF Frame, NoFrame, FrameOutOfSpace, FrameWritten, FrameNotWritten
<1>7. CASE NoFrameStop \/ CheckScience \/ CheckEndingCal
  <2>1. /\ Recording /\ Recording' /\ dataPC' # "leaveRecording"
        /\ dataPC # "leaveRecording"
    BY <1>7, Goes
  <2>2. /\ obc' = obc \/ config.auto
        /\ UNCHANGED <<config, filesOpen, mount, pxi, mainPC, overtaken>>
    BY <1>7, Goes
  <2> QED
    BY <2>1, <2>2
<1>8. CASE CheckAbort \/ CheckDark1 \/ CloseFiles
  BY <1>8 DEF CheckAbort, CheckDark1, CloseFiles, CommandOBC, Checks
<1>9. CASE EnterIdleState
  <2>1. ~stopRequested
    BY <1>9, CalmSteps
  <2> QED
    BY <1>9, <2>1 DEF EnterIdleState, ResetRecordState, CommandOBC, IdleMount
<1>10. CASE LineRises \/ LineFalls \/ ToggleLine
  BY <1>10 DEF LineRises, LineFalls, ToggleLine
<1>11. CASE UNCHANGED vars
  BY <1>11 DEF vars
<1> QED
  BY <1>1, <1>2, <1>3, <1>4, <1>5, <1>6, <1>7, <1>8, <1>9, <1>10, <1>11 DEF Next,
     Dispatch, Continue

\* The Exit button is enabled only when the last recording is over.
LEMMA ExitButtonNext ==
  ASSUME [Next]_vars, Names, OneAtATime, FilesFollow, ExitMeansIdle, Calm',
         queue \in Seq(Callbacks)
  PROVE  (exitButton => ~Recording /\ mainPC # "enter")' /\
         (mainPC \in {"openFiles", "leaveIdle", "enableControls"} => exitButton)'
<1> USE NotCals DEF OneAtATime, FilesFollow, ExitMeansIdle, Recording, DataRuns,
   Starting, Opened,
        buttonVars, filesVars, deviceVars, flagVars, historyVars, beginVars,
        countVars, fmsVars
<1>1. CASE User
  <2>1. CASE ClickRecord
    <3>1. exitButton
      BY <2>1, CalmSteps DEF ClickRecord
    <3> QED
      BY <2>1, <3>1 DEF ClickRecord, Pressed
  <2>2. CASE ClickStop
    <3>1. Recording
      BY <2>2, CalmSteps DEF ClickStop
    <3> QED
      BY <2>2, <3>1 DEF ClickStop, StopWork
  <2>3. CASE ConfirmAbort
    <3>1. Recording
      BY <2>3, CalmSteps
    <3> QED
      BY <2>3, <3>1 DEF ConfirmAbort
  <2>4. CASE ClickAbort \/ CancelAbort \/ ClickExit
    BY <2>4 DEF ClickAbort, CancelAbort, ClickExit
  <2> QED
    BY <1>1, <2>1, <2>2, <2>3, <2>4 DEF User
<1>2. CASE Handle
  BY <1>2 DEF Handle, OpenFiles, OpenFilesFails, LeaveIdleState, EnableControls,
         EnterFirst, CommandFirst, SendStopButton, SetStopIsAbort, ExitStopThreads,
            DisableExitButton, First
<1>3. CASE RefreshRecordControls
  <2>1. Refreshing
    BY <1>3, RefreshingEnds
  <2> QED
    BY <1>3, <2>1 DEF RefreshRecordControls
<1>4. CASE RefreshStopButton \/ PressRecord \/ PressStop
  <2>1. CASE PressRecord
    <3>1. exitButton
      BY <2>1, CalmSteps DEF PressRecord
    <3> QED
      BY <2>1, <3>1 DEF PressRecord, Pressed, Dispatched
  <2>2. CASE PressStop
    <3>1. stopButton => Recording
      BY <2>2, CalmSteps DEF PressStop
    <3> QED
      BY <2>2, <3>1 DEF PressStop, StopWork, Dispatched
  <2>3. CASE RefreshStopButton
    BY <2>3 DEF RefreshStopButton
  <2> QED
    BY <1>4, <2>1, <2>2, <2>3
<1>5. CASE CheckResources
  BY <1>5 DEF CheckResources
<1>6. CASE Frame \/ NoFrame
  BY <1>6 DEF Frame, NoFrame, FrameOutOfSpace, FrameWritten, FrameNotWritten
<1>7. CASE NoFrameStop \/ CheckScience \/ CheckEndingCal
  <2>1. Recording /\ ~exitButton
    BY <1>7, Goes
  <2>2. UNCHANGED <<exitButton, mainPC>>
    BY <1>7, Goes
  <2> QED
    BY <2>1, <2>2
<1>8. CASE CheckAbort \/ CheckDark1 \/ CloseFiles
  BY <1>8 DEF CheckAbort, CheckDark1, CloseFiles, Checks
<1>9. CASE EnterIdleState
  <2>1. ~stopRequested
    BY <1>9, CalmSteps
  <2> QED
    BY <1>9, <2>1 DEF EnterIdleState, ResetRecordState, CommandOBC, IdleMount
<1>10. CASE LineRises \/ LineFalls \/ ToggleLine
  BY <1>10 DEF LineRises, LineFalls, ToggleLine
<1>11. CASE UNCHANGED vars
  BY <1>11 DEF vars
<1> QED
  BY <1>1, <1>2, <1>3, <1>4, <1>5, <1>6, <1>7, <1>8, <1>9, <1>10, <1>11 DEF Next,
     Dispatch, Continue

\* Nothing starts before the last recording is closed.
LEMMA WaitingNext ==
  ASSUME [Next]_vars, Names, OneAtATime, FilesFollow, ExitMeansIdle, Calm',
         Refreshing, ~RefreshRecordControls
  PROVE  ~Recording' /\ ~exitButton' /\ mainPC' # "enter"
<1> USE NotCals DEF OneAtATime, FilesFollow, ExitMeansIdle, Recording, DataRuns,
   Starting, Opened,
        buttonVars, filesVars, deviceVars, flagVars, historyVars, beginVars,
        countVars, fmsVars
<1>1. CASE User
  <2>1. CASE ClickRecord
    <3>1. exitButton
      BY <2>1, CalmSteps DEF ClickRecord
    <3> QED
      BY <2>1, <3>1 DEF ClickRecord, Pressed
  <2>2. CASE ClickStop
    <3>1. Recording
      BY <2>2, CalmSteps DEF ClickStop
    <3> QED
      BY <2>2, <3>1 DEF ClickStop, StopWork
  <2>3. CASE ConfirmAbort
    <3>1. Recording
      BY <2>3, CalmSteps
    <3> QED
      BY <2>3, <3>1 DEF ConfirmAbort
  <2>4. CASE ClickAbort \/ CancelAbort \/ ClickExit
    BY <2>4 DEF ClickAbort, CancelAbort, ClickExit
  <2> QED
    BY <1>1, <2>1, <2>2, <2>3, <2>4 DEF User
<1>2. CASE Handle
  BY <1>2 DEF Handle, OpenFiles, OpenFilesFails, LeaveIdleState, EnableControls,
         EnterFirst, CommandFirst, SendStopButton, SetStopIsAbort, ExitStopThreads,
            DisableExitButton, First
<1>3. CASE RefreshRecordControls
  BY <1>3
<1>4. CASE RefreshStopButton \/ PressRecord \/ PressStop
  <2>1. CASE PressRecord
    <3>1. exitButton
      BY <2>1, CalmSteps DEF PressRecord
    <3> QED
      BY <2>1, <3>1 DEF PressRecord, Pressed, Dispatched
  <2>2. CASE PressStop
    <3>1. stopButton => Recording
      BY <2>2, CalmSteps DEF PressStop
    <3> QED
      BY <2>2, <3>1 DEF PressStop, StopWork, Dispatched
  <2>3. CASE RefreshStopButton
    BY <2>3 DEF RefreshStopButton
  <2> QED
    BY <1>4, <2>1, <2>2, <2>3
<1>5. CASE CheckResources
  BY <1>5 DEF CheckResources
<1>6. CASE Frame \/ NoFrame
  BY <1>6 DEF Frame, NoFrame, FrameOutOfSpace, FrameWritten, FrameNotWritten
<1>7. CASE NoFrameStop \/ CheckScience \/ CheckEndingCal
  BY <1>7, Goes
<1>8. CASE CheckAbort \/ CheckDark1 \/ CloseFiles
  BY <1>8 DEF CheckAbort, CheckDark1, CloseFiles, Checks
<1>9. CASE EnterIdleState
  <2>1. ~stopRequested
    BY <1>9, CalmSteps
  <2> QED
    BY <1>9, <2>1 DEF EnterIdleState, ResetRecordState, CommandOBC, IdleMount
<1>10. CASE LineRises \/ LineFalls \/ ToggleLine
  BY <1>10 DEF LineRises, LineFalls, ToggleLine
<1>11. CASE UNCHANGED vars
  BY <1>11 DEF vars
<1> QED
  BY <1>1, <1>2, <1>3, <1>4, <1>5, <1>6, <1>7, <1>8, <1>9, <1>10, <1>11 DEF Next,
     Dispatch, Continue

LEMMA ExitMeansIdleNext ==
  ASSUME Names, Orderly, queue \in Seq(Callbacks), Calm', [Next]_vars
  PROVE  ExitMeansIdle'
<1> USE DEF Orderly
<1>1. CASE RefreshRecordControls
  <2>1. ~Refreshing' /\ OnlyOnce'
    BY <1>1, RefreshingEnds DEF ExitMeansIdle
  <2> QED
    BY <2>1, ExitButtonNext DEF ExitMeansIdle
<1>2. CASE EnterIdleState
  <2>1. Recording /\ ~Recording' /\ exitButton' = exitButton /\ mainPC' = mainPC
    BY <1>2 DEF EnterIdleState, ResetRecordState, DataRuns, OneAtATime, Recording,
                buttonVars
  <2>2. ~Refreshing /\ ~exitButton /\ mainPC # "enter"
    BY <2>1 DEF ExitMeansIdle, OneAtATime, Starting
  <2>3. OnlyOnce'
    BY <1>2, <2>2, RefreshingStarts DEF ExitMeansIdle
  <2> QED
    BY <2>1, <2>2, <2>3, ExitButtonNext DEF ExitMeansIdle
<1>3. CASE ~RefreshRecordControls /\ ~EnterIdleState
  <2>1. OnlyOnce' /\ (Refreshing' <=> Refreshing)
    BY <1>3, RefreshingKept DEF Next, Dispatch, Continue, ExitMeansIdle
  <2>2. Refreshing' => ~Recording' /\ ~exitButton' /\ mainPC' # "enter"
    BY <1>3, <2>1, WaitingNext
  <2> QED
    BY <2>1, <2>2, ExitButtonNext DEF ExitMeansIdle
<1> QED
  BY <1>1, <1>2, <1>3

\* Every step keeps the order, unless it causes trouble.
LEMMA OrderlyNext == TypeInv /\ OrderlyInv /\ [Next]_vars => OrderlyInv'
<1> SUFFICES ASSUME TypeInv, OrderlyInv, [Next]_vars, Calm' PROVE Orderly'
  BY DEF OrderlyInv, Calm
<1>1. Orderly
  BY CalmSteps DEF OrderlyInv, Calm
<1>2. Names /\ queue \in Seq(Callbacks)
  BY DEF TypeInv
<1> QED
  BY <1>1, <1>2, OneAtATimeNext, FilesFollowNext, ExitMeansIdleNext DEF Orderly

LEMMA OrderlyInit == Init => OrderlyInv
  BY DEF Init, OrderlyInv, Orderly, OneAtATime, FilesFollow, ExitMeansIdle,
     Recording,
         Starting, Opened, Refreshing, OnlyOnce, Pending, Once

-----------------------------------------------------------------------------
(* What becomes of a flight line                                           *)

\* What a step finds that causes no trouble at all
LEMMA CleanSteps ==
  ASSUME [Next]_vars, trouble' = {}
  PROVE  /\ Calm' /\ Calm /\ trouble = {}
         /\ StopWork => ~stopIsAbort
         /\ Taken => mainPC # "stopIsAbort" \/ stopIsAbort
<1>1. Calm' /\ Calm
  BY CalmSteps DEF Calm
<1>2. trouble \subseteq trouble'
  BY TroubleStays
<1>3. StopWork => ~stopIsAbort
  BY DEF StopWork
<1>4. Taken => mainPC # "stopIsAbort" \/ stopIsAbort
  BY DEF Taken
<1> QED
  BY <1>1, <1>2, <1>3, <1>4

\* An abort is one of the present flight line, and is not taken back.
LEMMA AbortIsMeantNext ==
  ASSUME [Next]_vars, Names, Orderly, AbortIsMeant, trouble' = {}
  PROVE  AbortIsMeant'
<1> USE NotCals DEF Orderly, OneAtATime, FilesFollow, ExitMeansIdle, AbortIsMeant,
        Recording, DataRuns, Starting, Opened,
        buttonVars, filesVars, deviceVars, flagVars, historyVars, beginVars,
        countVars, fmsVars
<1>1. CASE User
  <2>1. CASE ClickRecord
    <3>1. exitButton
      BY <2>1, CalmSteps, CleanSteps DEF ClickRecord
    <3> QED
      BY <2>1, <3>1 DEF ClickRecord, Pressed
  <2>2. CASE ClickStop
    <3>1. Recording /\ ~stopIsAbort
      BY <2>2, CalmSteps, CleanSteps DEF ClickStop
    <3> QED
      BY <2>2, <3>1 DEF ClickStop, StopWork
  <2>3. CASE ConfirmAbort
    <3>1. Recording
      BY <2>3, CalmSteps, CleanSteps
    <3> QED
      BY <2>3, <3>1 DEF ConfirmAbort
  <2>4. CASE ClickAbort \/ CancelAbort \/ ClickExit
    BY <2>4 DEF ClickAbort, CancelAbort, ClickExit
  <2> QED
    BY <1>1, <2>1, <2>2, <2>3, <2>4 DEF User
<1>2. CASE Handle
  <2>1. CASE SetStopIsAbort
    <3>1. \/ mainPC = "stopIsAbort" /\ stopIsAbort'
          \/ mainPC = "stopIsNoAbort" /\ ~stopIsAbort'
      BY <2>1 DEF SetStopIsAbort
    <3>2. mainPC' = "loop" /\ UNCHANGED <<recordState, line, aborted>>
      BY <2>1 DEF SetStopIsAbort
    <3> QED
      BY <3>1, <3>2
  <2>2. CASE OpenFiles \/ OpenFilesFails \/ LeaveIdleState \/ EnableControls
    BY <2>2 DEF OpenFiles, OpenFilesFails, LeaveIdleState, EnableControls
  <2>3. CASE EnterFirst \/ CommandFirst \/ SendStopButton \/ ExitStopThreads
    BY <2>3 DEF EnterFirst, CommandFirst, SendStopButton, ExitStopThreads
  <2> QED
    BY <1>2, <2>1, <2>2, <2>3 DEF Handle
<1>3. CASE RefreshRecordControls
  BY <1>3 DEF RefreshRecordControls
<1>4. CASE RefreshStopButton \/ PressRecord \/ PressStop
  <2>1. CASE PressRecord
    <3>1. exitButton
      BY <2>1, CalmSteps, CleanSteps DEF PressRecord
    <3> QED
      BY <2>1, <3>1 DEF PressRecord, Pressed, Dispatched
  <2>2. CASE PressStop
    <3>1. stopButton => Recording /\ ~stopIsAbort
      BY <2>2, CalmSteps, CleanSteps DEF PressStop
    <3> QED
      BY <2>2, <3>1 DEF PressStop, StopWork, Dispatched
  <2>3. CASE RefreshStopButton
    BY <2>3 DEF RefreshStopButton
  <2> QED
    BY <1>4, <2>1, <2>2, <2>3
<1>5. CASE CheckResources
  BY <1>5 DEF CheckResources
<1>6. CASE Frame \/ NoFrame
  <2>1. CASE NoFrame
    <3>1. mainPC # "stopIsAbort" \/ stopIsAbort
      BY <2>1, CleanSteps DEF NoFrame
    <3> QED
      BY <2>1, <3>1 DEF NoFrame
  <2>2. CASE Frame
    BY <2>2 DEF Frame, FrameOutOfSpace, FrameWritten, FrameNotWritten
  <2> QED
    BY <1>6, <2>1, <2>2
<1>7. CASE NoFrameStop \/ CheckScience \/ CheckEndingCal
  <2>1. CASE CheckScience /\ stopRequested
    <3>1. mainPC # "stopIsAbort" \/ stopIsAbort
      BY <2>1, CleanSteps DEF CheckScience, StopSeen
    <3>2. Recording /\ UNCHANGED <<stopIsAbort, line, aborted, mainPC>>
      BY <1>7, Goes
    <3> QED
      BY <3>1, <3>2
  <2>2. CASE NoFrameStop \/ CheckEndingCal \/ (CheckScience /\ ~stopRequested)
    <3>1. stopRequested' = stopRequested
      BY <2>2 DEF NoFrameStop, CheckScience, CheckEndingCal, StopSeen
    <3> QED
      BY <1>7, <3>1, Goes
  <2> QED
    BY <1>7, <2>1, <2>2
<1>8. CASE CheckAbort \/ CheckDark1 \/ CloseFiles
  BY <1>8 DEF CheckAbort, CheckDark1, CloseFiles, Checks
<1>9. CASE EnterIdleState
  <2>1. ~stopRequested
    BY <1>9, CalmSteps, CleanSteps
  <2> QED
    BY <1>9, <2>1 DEF EnterIdleState, ResetRecordState, CommandOBC, IdleMount
<1>10. CASE LineRises \/ LineFalls \/ ToggleLine
  BY <1>10 DEF LineRises, LineFalls, ToggleLine
<1>11. CASE UNCHANGED vars
  BY <1>11 DEF vars
<1> QED
  BY <1>1, <1>2, <1>3, <1>4, <1>5, <1>6, <1>7, <1>8, <1>9, <1>10, <1>11 DEF Next,
     Dispatch, Continue

\* Only these steps touch the files or the Recordings tab.
LEMMA FilesKept ==
  ASSUME [Next]_vars, ~OpenFiles, ~OpenFilesFails, ~RefreshRecordControls, ~CloseFiles
  PROVE  UNCHANGED <<line, disk, listed, twice>> /\ aborted \subseteq aborted'
<1> USE DEF filesVars, historyVars, beginVars
<1>1. CASE User
  BY <1>1 DEF User, ClickRecord, ClickStop, ClickAbort, CancelAbort, ConfirmAbort,
       ClickExit
<1>2. CASE Handle
  BY <1>2 DEF Handle, LeaveIdleState, EnableControls, EnterFirst, CommandFirst, SendStopButton,
       SetStopIsAbort, ExitStopThreads
<1>3. CASE Dispatch \/ CheckResources
  BY <1>3 DEF Dispatch, RefreshStopButton, PressRecord, PressStop, CheckResources
<1>4. CASE Frame \/ NoFrame
  BY <1>4 DEF Frame, FrameOutOfSpace, FrameWritten, FrameNotWritten, NoFrame
<1>5. CASE Continue
  BY <1>5 DEF Continue, NoFrameStop, CheckAbort, CheckDark1, CheckScience,
       CheckEndingCal, EnterIdleState
<1>6. CASE LineRises \/ LineFalls \/ ToggleLine \/ UNCHANGED vars
  BY <1>6 DEF LineRises, LineFalls, ToggleLine, vars
<1> QED
  BY <1>1, <1>2, <1>3, <1>4, <1>5, <1>6 DEF Next

\* What a step leaves of the present flight line's files stays what it is.
LEMMA PresentKept ==
  ASSUME [Next]_vars, Names, Orderly, AbortIsMeant, trouble' = {}, line' = line,
         Refreshing' <=> Refreshing, NEW files, NEW shown, NEW was, NEW is, was => is,
         NEW own, PresentIs(files, shown, was, own),
         ~OpenFiles, ~OpenFilesFails, ~RefreshRecordControls, ~CloseFiles, ~EnterIdleState
  PROVE  PresentIs(files, shown, is, own)'
<1> USE NotCals DEF Orderly, OneAtATime, FilesFollow, ExitMeansIdle, AbortIsMeant,
        PresentIs, Recording, DataRuns, Starting, Opened,
        buttonVars, filesVars, deviceVars, flagVars, historyVars, beginVars,
        countVars, fmsVars
<1>1. CASE User
  <2>1. CASE ClickRecord
    <3>1. exitButton
      BY <2>1, CalmSteps, CleanSteps DEF ClickRecord
    <3> QED
      BY <2>1, <3>1 DEF ClickRecord, Pressed
  <2>2. CASE ClickStop
    <3>1. Recording /\ ~stopIsAbort
      BY <2>2, CalmSteps, CleanSteps DEF ClickStop
    <3> QED
      BY <2>2, <3>1 DEF ClickStop, StopWork
  <2>3. CASE ConfirmAbort
    <3>1. Recording
      BY <2>3, CalmSteps, CleanSteps
    <3> QED
      BY <2>3, <3>1 DEF ConfirmAbort
  <2>4. CASE ClickAbort \/ CancelAbort \/ ClickExit
    BY <2>4 DEF ClickAbort, CancelAbort, ClickExit
  <2> QED
    BY <1>1, <2>1, <2>2, <2>3, <2>4 DEF User
<1>2. CASE Handle
  <2>1. CASE SetStopIsAbort
    <3>1. \/ mainPC = "stopIsAbort" /\ stopIsAbort'
          \/ mainPC = "stopIsNoAbort" /\ ~stopIsAbort'
      BY <2>1 DEF SetStopIsAbort
    <3>2. mainPC' = "loop" /\ UNCHANGED <<recordState, dataPC, stopRequested>>
      BY <2>1 DEF SetStopIsAbort
    <3> QED
      BY <3>1, <3>2
  <2>2. CASE LeaveIdleState \/ EnableControls
    BY <2>2 DEF LeaveIdleState, EnableControls, DisableExitButton
  <2>3. CASE EnterFirst \/ CommandFirst \/ SendStopButton \/ ExitStopThreads
    BY <2>3 DEF EnterFirst, First, CommandFirst, SendStopButton, ExitStopThreads
  <2> QED
    BY <1>2, <2>1, <2>2, <2>3 DEF Handle
<1>3. CASE RefreshRecordControls
  BY <1>3
<1>4. CASE RefreshStopButton \/ PressRecord \/ PressStop
  <2>1. CASE PressRecord
    <3>1. exitButton
      BY <2>1, CalmSteps, CleanSteps DEF PressRecord
    <3> QED
      BY <2>1, <3>1 DEF PressRecord, Pressed, Dispatched
  <2>2. CASE PressStop
    <3>1. stopButton => Recording /\ ~stopIsAbort
      BY <2>2, CalmSteps, CleanSteps DEF PressStop
    <3> QED
      BY <2>2, <3>1 DEF PressStop, StopWork, Dispatched
  <2>3. CASE RefreshStopButton
    BY <2>3 DEF RefreshStopButton
  <2> QED
    BY <1>4, <2>1, <2>2, <2>3
<1>5. CASE CheckResources
  BY <1>5 DEF CheckResources
<1>6. CASE Frame \/ NoFrame
  <2>1. CASE NoFrame
    <3>1. mainPC # "stopIsAbort" \/ stopIsAbort
      BY <2>1, CleanSteps DEF NoFrame
    <3> QED
      BY <2>1, <3>1 DEF NoFrame
  <2>2. CASE Frame
    BY <2>2 DEF Frame, FrameOutOfSpace, FrameWritten, FrameNotWritten
  <2> QED
    BY <1>6, <2>1, <2>2
<1>7. CASE NoFrameStop \/ CheckScience \/ CheckEndingCal
  <2>1. Recording /\ Recording' /\ ~Refreshing /\ ~Refreshing'
    BY <1>7, Goes
  <2>2. dataPC' # "leaveRecording" /\ dataPC # "leaveRecording" /\ mainPC' = mainPC
    BY <1>7, Goes
  <2> QED
    BY <2>1, <2>2
<1>8. CASE CheckAbort \/ CheckDark1 \/ CloseFiles
  <2>1. CASE CheckAbort
    BY <2>1 DEF CheckAbort
  <2>2. CASE CheckDark1
    BY <2>2 DEF CheckDark1, Checks
  <2> QED
    BY <1>8, <2>1, <2>2
<1>9. CASE EnterIdleState
  BY <1>9
<1>10. CASE LineRises \/ LineFalls \/ ToggleLine
  BY <1>10 DEF LineRises, LineFalls, ToggleLine
<1>11. CASE UNCHANGED vars
  BY <1>11 DEF vars
<1> QED
  BY <1>1, <1>2, <1>3, <1>4, <1>5, <1>6, <1>7, <1>8, <1>9, <1>10, <1>11 DEF Next,
     Dispatch, Continue

\* A set has an element or not.
LEMMA Decided ==
  ASSUME NEW element, NEW set
  PROVE  /\ \E b \in BOOLEAN : b <=> element \in set
         /\ \E b \in BOOLEAN : b <=> element \notin set
<1>1. CASE element \in set
  <2>1. TRUE \in BOOLEAN /\ FALSE \in BOOLEAN
    OBVIOUS
  <2> QED
    BY <1>1, <2>1, Zenon
<1>2. CASE element \notin set
  <2>1. TRUE \in BOOLEAN /\ FALSE \in BOOLEAN
    OBVIOUS
  <2> QED
    BY <1>2, <2>1, Zenon
<1> QED
  BY <1>1, <1>2

\* One step: a step that leaves the files alone
LEMMA KeptLines ==
  ASSUME TypeInv, [Next]_vars, Orderly, AbortIsMeant, LinesKept, trouble' = {},
         ~OpenFiles, ~OpenFilesFails, ~RefreshRecordControls, ~CloseFiles, ~EnterIdleState
  PROVE  LinesKept'
<1>1. UNCHANGED <<line, disk, listed, twice>> /\ aborted \subseteq aborted'
  BY FilesKept
<1>2. Refreshing' <=> Refreshing
  BY RefreshingKept DEF Next, Dispatch, Continue, Orderly, ExitMeansIdle, TypeInv
<1>3. PICK files, shown : files = disk[line] /\ shown = listed[line]
  OBVIOUS
<1>4. PICK was \in BOOLEAN : was <=> line \in aborted
  BY Decided
<1>5. PICK is \in BOOLEAN : is <=> line \in aborted'
  BY Decided
<1>10. PICK own \in BOOLEAN : own <=> line \notin twice
  BY Decided
<1>6. PresentIs(files, shown, was, own)
  BY <1>3, <1>4, <1>10 DEF LinesKept, Present, PresentIs
<1>7. PresentIs(files, shown, is, own)'
  <2>1. Names /\ line' = line /\ (was => is)
    BY <1>1, <1>4, <1>5 DEF TypeInv
  <2> QED
    BY <1>2, <1>6, <2>1, PresentKept
<1>8. Present'
  <2>1. /\ files = disk'[line'] /\ shown = listed'[line']
        /\ is <=> line' \in aborted'
        /\ own <=> line' \notin twice'
    BY <1>1, <1>3, <1>5, <1>10
  <2> QED
    BY <1>7, <2>1 DEF Present, PresentIs
<1>9. Others'
  BY <1>1 DEF LinesKept, Others, Accounted
<1> QED
  BY <1>8, <1>9 DEF LinesKept

\* A flight line is begun under a name of its own, or once more under the last
\* one's.
LEMMA BegunLines ==
  ASSUME TypeInv, LinesKept, OpenFiles \/ OpenFilesFails
  PROVE  /\ line' \in Lines /\ twice \subseteq twice'
         /\ \/ line' = line + 1 /\ twice' = twice /\ line' \notin twice
               /\ disk[line'] = "none" /\ listed[line'] = 0
            \/ line' = line /\ line' \in twice' /\ twice' = twice \cup {line}
<1>1. PICK l \in Lines : Begins(l) /\ line' = l
  BY DEF OpenFiles, OpenFilesFails
<1>2. line \in Int /\ line < line + 1
  BY BoundsAssumption DEF TypeInv, Counts
<1>3. CASE l = NewLine /\ twice' = twice
  <2>1. l = line + 1 /\ l > line
    BY <1>2, <1>3 DEF NewLine
  <2> QED
    BY <1>1, <1>3, <2>1 DEF LinesKept, Others
<1>4. CASE l = line /\ twice' = twice \cup {l}
  BY <1>1, <1>4
<1> QED
  BY <1>1, <1>3, <1>4 DEF Begins

\* A new flight line: the one before it is accounted for.
LEMMA OpenedLines ==
  ASSUME TypeInv, [Next]_vars, Orderly, LinesKept, OpenFiles \/ OpenFilesFails
  PROVE  LinesKept'
<1>1. /\ mainPC = "openFiles" /\ ~Recording /\ ~Refreshing /\ dataPC # "leaveRecording"
      /\ ~Opened
  BY DEF OpenFiles, OpenFilesFails, Orderly, OneAtATime, ExitMeansIdle, Starting,
     Opened
<1>2. line \in 0..MaxLines /\ FilesTyped
  BY DEF TypeInv, Counts
<1>3. line > 0 /\ line \notin twice => Accounted(line)
  BY <1>1, <1>2 DEF LinesKept, Present, PresentIs, Accounted
<1>4. /\ listed' = listed /\ aborted' = aborted /\ line' \in Lines
      /\ \A l \in Lines : l # line' => disk'[l] = disk[l]
  <2>1. PICK l \in Lines : /\ line' = l
                           /\ disk' \in {disk, [disk EXCEPT ![l] = "empty"],
                                         [disk EXCEPT ![l] = "writing"]}
    BY DEF OpenFiles, OpenFilesFails
  <2>2. listed' = listed /\ aborted' = aborted
    BY DEF OpenFiles, OpenFilesFails
  <2> QED
    BY <1>2, <2>1, <2>2 DEF FilesTyped
<1>5. Others'
  <2>1. CASE line' = line + 1 /\ twice' = twice
    <3>1. ASSUME NEW l \in Lines, l < line', l \notin twice PROVE Accounted(l)
      <4>1. l = line \/ l < line
        BY <1>2, <2>1, <3>1, BoundsAssumption DEF Lines
      <4> QED
        BY <1>2, <1>3, <3>1, <4>1, BoundsAssumption DEF LinesKept, Others, Lines
    <3>2. \A l \in Lines : l > line' => l > line /\ l # line'
      BY <1>2, <2>1, BoundsAssumption DEF Lines
    <3>3. \A l \in Lines : l < line' => l # line'
      BY <1>4, BoundsAssumption DEF Lines
    <3> QED
      BY <1>4, <2>1, <3>1, <3>2, <3>3 DEF LinesKept, Others, Accounted
  <2>2. CASE line' = line /\ twice' = twice \cup {line}
    <3>1. \A l \in Lines : l < line \/ l > line => l # line
      BY <1>2, BoundsAssumption DEF Lines
    <3> QED
      BY <1>4, <2>2, <3>1 DEF LinesKept, Others, Accounted
  <2> QED
    BY <2>1, <2>2, BegunLines
<1>6. ~Recording' /\ ~Refreshing' /\ dataPC' # "leaveRecording"
  BY <1>1 DEF OpenFiles, OpenFilesFails, Recording, Refreshing
<1>7. line' > 0 /\ (line' \notin twice' => listed'[line'] = 0)
  BY <1>4, BegunLines, BoundsAssumption DEF Lines
<1>8. CASE OpenFiles
  <2>1. disk'[line'] = "writing" /\ mainPC' = "leaveIdle"
    BY <1>2, <1>8 DEF OpenFiles, FilesTyped
  <2>2. Opened'
    BY <2>1 DEF Opened
  <2>3. Present'
    BY <1>6, <1>7, <2>1, <2>2, Zenon DEF Present, PresentIs
  <2> QED
    BY <1>5, <2>3 DEF LinesKept
<1>9. CASE OpenFilesFails
  <2>1. PICK l \in Lines : line' = l /\ disk' \in {disk, [disk EXCEPT ![l] = "empty"]}
    BY <1>9 DEF OpenFilesFails
  <2>2. line' \notin twice' => disk'[line'] \in {"none", "empty"}
    BY <1>2, <2>1, BegunLines DEF FilesTyped
  <2>3. ~Opened'
    BY <1>9 DEF OpenFilesFails, Opened
  <2>4. Present'
    BY <1>6, <1>7, <2>2, <2>3, Zenon DEF Present, PresentIs
  <2> QED
    BY <1>5, <2>4 DEF LinesKept
<1> QED
  BY <1>8, <1>9

\* enterIdleState closes the files, and deletes them after an abort.
LEMMA ClosedLines ==
  ASSUME TypeInv, Orderly, AbortIsMeant, LinesKept, CloseFiles
  PROVE  LinesKept'
<1>1. /\ dataPC = "enterIdle" /\ dataPC' = "leaveRecording" /\ Recording /\ ~Opened
      /\ ~Refreshing
  BY DEF CloseFiles, DataRuns, Orderly, OneAtATime, ExitMeansIdle, Starting, Opened
<1>2. /\ UNCHANGED <<line, listed, aborted, twice, stopIsAbort, stopRequested,
                     recordState, mainPC>>
      /\ queue' = queue
  BY DEF CloseFiles, flagVars, historyVars, beginVars
<1>3. /\ line \in Lines /\ disk[line] = "writing"
      /\ line \notin twice => listed[line] = 0
  BY <1>1, BoundsAssumption DEF LinesKept, Present, PresentIs, TypeInv, Counts,
     Lines
<1>4. /\ \A l \in Lines : l # line => disk'[l] = disk[l]
      /\ disk'[line] = IF stopIsAbort THEN "deleted" ELSE "finished"
  BY <1>3 DEF CloseFiles, TypeInv, FilesTyped
<1>5. Others'
  BY <1>2, <1>3, <1>4, BoundsAssumption DEF LinesKept, Others, Accounted, Lines
<1>6. stopIsAbort => line \in aborted
  BY <1>1 DEF AbortIsMeant
<1>7. Recording' /\ ~Opened' /\ ~Refreshing'
  BY <1>1, <1>2 DEF Recording, Opened, Refreshing
<1>8. line' > 0 /\ (line' \notin twice' => listed'[line'] = 0)
  BY <1>2, <1>3 DEF Lines
<1>9. /\ disk'[line'] \in {"finished", "deleted"}
      /\ disk'[line'] = "deleted" <=> stopIsAbort'
      /\ disk'[line'] = "deleted" => line' \in aborted'
  <2>1. CASE stopIsAbort
    BY <1>2, <1>4, <1>6, <2>1
  <2>2. CASE ~stopIsAbort
    BY <1>2, <1>4, <2>2
  <2> QED
    BY <2>1, <2>2
<1>10. Present'
  BY <1>1, <1>7, <1>8, <1>9 DEF Present, PresentIs
<1> QED
  BY <1>5, <1>10 DEF LinesKept

\* The rest of enterIdleState: from here on the Recordings tab is to be told.
LEMMA LeftLines ==
  ASSUME TypeInv, [Next]_vars, Orderly, LinesKept, trouble' = {}, EnterIdleState
  PROVE  LinesKept'
<1>1. ~stopRequested /\ dataPC = "leaveRecording" /\ Recording /\ ~Opened
  BY CalmSteps, CleanSteps DEF EnterIdleState, DataRuns, Orderly, OneAtATime,
     Starting, Opened
<1>2. /\ UNCHANGED <<line, disk, listed, aborted, twice, stopIsAbort, mainPC>>
      /\ dataPC' = "top" /\ recordState' = "NOT_RECORDING"
  BY DEF EnterIdleState, filesVars, flagVars, beginVars, ResetRecordState
<1>3. /\ line > 0 /\ (line \notin twice => listed[line] = 0)
      /\ \/ disk[line] = "finished" /\ ~stopIsAbort
         \/ disk[line] = "deleted" /\ stopIsAbort /\ line \in aborted
  BY <1>1 DEF LinesKept, Present, PresentIs
<1>4. Refreshing'
  BY RefreshingStarts DEF TypeInv
<1>5. ~Opened' /\ ~Recording'
  BY <1>1, <1>2 DEF Opened, Recording
<1>6. Present'
  BY <1>2, <1>3, <1>4, <1>5 DEF Present, PresentIs
<1>7. Others'
  BY <1>2 DEF LinesKept, Others, Accounted
<1> QED
  BY <1>6, <1>7 DEF LinesKept

\* recordControlsUpdateWork puts the flight line on the Recordings tab.
LEMMA ListedLines ==
  ASSUME TypeInv, Orderly, LinesKept, RefreshRecordControls
  PROVE  LinesKept'
<1>1. Refreshing /\ ~Refreshing'
  BY RefreshingEnds DEF TypeInv, Orderly, ExitMeansIdle
<1>2. ~Recording /\ mainPC = "loop" /\ dataPC # "leaveRecording"
  BY <1>1 DEF Orderly, OneAtATime, ExitMeansIdle, RefreshRecordControls, Dispatched
<1>3. UNCHANGED <<line, disk, aborted, twice, stopIsAbort, mainPC, dataPC,
                  recordState>>
  BY DEF RefreshRecordControls, flagVars, historyVars, beginVars
<1>4. /\ line > 0 /\ (line \notin twice => listed[line] = 0)
      /\ \/ disk[line] = "finished" /\ ~stopIsAbort
         \/ disk[line] = "deleted" /\ stopIsAbort /\ line \in aborted
  BY <1>1 DEF LinesKept, Present, PresentIs
<1>5. line \in Lines
  BY <1>4 DEF TypeInv, Counts, Lines
<1>6. /\ \A l \in Lines : l # line => listed'[l] = listed[l]
      /\ line \notin twice => listed'[line] = IF stopIsAbort THEN 0 ELSE 1
  <2>1. CASE stopIsAbort
    <3>1. listed' = listed
      BY <2>1 DEF RefreshRecordControls, ListUnlessAborted
    <3> QED
      BY <1>4, <2>1, <3>1
  <2>2. CASE ~stopIsAbort
    <3>1. listed' = [listed EXCEPT ![line] = @ + 1]
      BY <2>2 DEF RefreshRecordControls, ListUnlessAborted
    <3> QED
      BY <1>4, <1>5, <2>2, <3>1 DEF TypeInv, FilesTyped
  <2> QED
    BY <2>1, <2>2
<1>7. Others'
  BY <1>3, <1>5, <1>6, BoundsAssumption DEF LinesKept, Others, Accounted, Lines
<1>8. line \notin twice => Accounted(line)'
  BY <1>3, <1>4, <1>6 DEF Accounted
<1>9. ~Opened' /\ ~Recording' /\ dataPC' # "leaveRecording"
  BY <1>2, <1>3 DEF Opened, Recording
<1>10. Present'
  BY <1>1, <1>3, <1>8, <1>9 DEF Present, PresentIs, Accounted
<1> QED
  BY <1>7, <1>10 DEF LinesKept

\* Every step accounts for the flight lines, unless it causes trouble.
LEMMA LinesNext == TypeInv /\ OrderlyInv /\ LinesInv /\ [Next]_vars => LinesInv'
<1> SUFFICES ASSUME TypeInv, OrderlyInv, LinesInv, [Next]_vars, trouble' = {}
             PROVE  (AbortIsMeant /\ LinesKept)'
  BY DEF LinesInv
<1>1. Orderly /\ AbortIsMeant /\ LinesKept
  BY CleanSteps DEF OrderlyInv, Calm, LinesInv
<1>2. AbortIsMeant'
  BY <1>1, AbortIsMeantNext DEF TypeInv
<1>3. LinesKept'
  BY <1>1, KeptLines, OpenedLines, ClosedLines, LeftLines, ListedLines
<1> QED
  BY <1>2, <1>3

LEMMA LinesInit == Init => LinesInv
<1> SUFFICES ASSUME Init PROVE AbortIsMeant /\ LinesKept
  BY DEF LinesInv
<1>1. /\ line = 0 /\ ~Opened /\ ~Recording /\ dataPC # "leaveRecording"
      /\ mainPC = "loop" /\ queue = << >>
  BY DEF Init, Opened, Recording
<1>2. ~Refreshing
  BY <1>1 DEF Refreshing, Pending
<1>3. AbortIsMeant
  BY <1>1 DEF AbortIsMeant
<1>4. Others
  BY <1>1 DEF Init, Others, Lines
<1>5. Present
  BY <1>1, <1>2 DEF Present, PresentIs
<1> QED
  BY <1>3, <1>4, <1>5 DEF LinesKept

-----------------------------------------------------------------------------
(* The theorems                                                            *)

\* Types, order and flight lines, as far as no trouble arises, in every state
\* of recording control
THEOREM RecordingInvariant == Spec => []RecordingInv
<1>1. Init => RecordingInv
  BY TypeInit, OrderlyInit, LinesInit DEF RecordingInv
<1>2. RecordingInv /\ [Next]_vars => RecordingInv'
  BY TypeNext, OrderlyNext, LinesNext DEF RecordingInv
<1> QED
  BY <1>1, <1>2, PTL DEF Spec

\* Every variable of recording control has its type, whatever the settings.
THEOREM TypeCorrect == Spec => []TypeOK
<1>1. RecordingInv => TypeOK
  BY Parts DEF RecordingInv
<1> QED
  BY <1>1, RecordingInvariant, PTL

\* lookForImageData writes to files that are open, although openFiles and
\* enterIdleState run on two threads: outside of a stop that comes too late and
\* a Record that comes too early, only one of the threads is at the files.
THEOREM FramesHaveFiles == Spec => []WritesToOpenFiles
<1>1. RecordingInv => WritesToOpenFiles
  BY DEF RecordingInv, OrderlyInv, Orderly, OneAtATime, WritesToOpenFiles
<1> QED
  BY <1>1, RecordingInvariant, PTL

\* on_exit_button finds no recording: the button it belongs to is enabled by the
\* callback that follows the end of the last recording, and disabled by the next.
THEOREM NoExitFromRecording == Spec => []ExitLocked
<1>1. RecordingInv => ExitLocked
  BY DEF RecordingInv, OrderlyInv, Orderly, OneAtATime, ExitLocked
<1> QED
  BY <1>1, RecordingInvariant, PTL

\* Between recordings the files are closed, and PXI, OBC and mount are told that
\* nothing is recorded; but the OBC is left in the dark by a recording that ended
\* by itself before enterDark1CalState, on the other thread, came to setOBC.
THEOREM EquipmentRests == Spec => []IdleEquipment
<1>1. RecordingInv => IdleEquipment
  BY DEF RecordingInv, OrderlyInv, Orderly, FilesFollow, Opened, IdleEquipment,
     Quiet
<1> QED
  BY <1>1, RecordingInvariant, PTL

\* Between recordings every flight line has been closed and listed, or deleted
\* after an abort, or could not be opened, unless another of the same second was
\* given its name.
THEOREM NoLineForgotten == Spec => []LinesAccounted
<1>1. RecordingInv => LinesAccounted
  <2> SUFFICES ASSUME RecordingInv, Quiet, trouble = {}, NEW l \in (1..line) \ twice
               PROVE  Accounted(l)
    BY DEF LinesAccounted, Accounted
  <2>1. LinesKept /\ line \in 0..MaxLines
    BY DEF RecordingInv, LinesInv, TypeInv, Counts
  <2>2. l \in Lines
    BY <2>1, BoundsAssumption DEF Lines
  <2>3. ~Opened /\ ~Recording
    BY DEF Quiet, Opened
  <2>4. ~Refreshing
    BY DEF Quiet, Refreshing, Pending
  <2>5. CASE l = line
    BY <2>1, <2>3, <2>4, <2>5 DEF LinesKept, Present, PresentIs, Accounted
  <2>6. CASE l < line
    BY <2>1, <2>2, <2>6 DEF LinesKept, Others
  <2> QED
    BY <2>1, <2>5, <2>6
<1> QED
  BY <1>1, RecordingInvariant, PTL

\* A flight line on the Recordings tab is closed, and no later openFiles,
\* enterIdleState or abort touches its files, unless one of the same second is
\* given its name.
THEOREM ListedFilesStay == Spec => ListedStays
<1>1. RecordingInv /\ [Next]_vars =>
        [\A l \in Lines \ twice' : trouble' = {} /\ listed[l] > 0 =>
           disk[l] = "finished" /\ disk'[l] = "finished"]_vars
  <2> SUFFICES ASSUME RecordingInv, [Next]_vars, trouble' = {},
                      NEW l \in Lines, l \notin twice', listed[l] > 0
               PROVE  disk[l] = "finished" /\ disk'[l] = "finished"
    OBVIOUS
  <2>1. Orderly /\ LinesKept
    BY CleanSteps DEF RecordingInv, OrderlyInv, LinesInv, Calm
  <2>2. line \in 0..MaxLines /\ FilesTyped
    BY DEF RecordingInv, TypeInv, Counts
  <2>9. l \notin twice
    <3>1. twice \subseteq twice'
      BY <2>1, BegunLines, FilesKept DEF RecordingInv, RefreshRecordControls,
         CloseFiles, beginVars, historyVars
    <3> QED
      BY <3>1
  <2>3. disk[l] = "finished" /\ l <= line
    BY <2>1, <2>2, <2>9, BoundsAssumption
    DEF LinesKept, Others, Present, PresentIs, Accounted, Lines
  <2>4. l = line => ~Recording /\ ~Opened
    BY <2>1, <2>9, <2>2, <2>3 DEF LinesKept, Present, PresentIs
  <2>5. CASE OpenFiles \/ OpenFilesFails
    <3>1. PICK m \in Lines : /\ line' = m
                             /\ disk' \in {disk, [disk EXCEPT ![m] = "empty"],
                                           [disk EXCEPT ![m] = "writing"]}
      BY <2>5 DEF OpenFiles, OpenFilesFails
    <3>2. line' # l
      BY <2>1, <2>2, <2>3, <2>5, BegunLines, BoundsAssumption DEF RecordingInv, Lines
    <3> QED
      BY <2>2, <2>3, <3>1, <3>2 DEF FilesTyped
  <2>6. CASE CloseFiles
    <3>1. l # line
      BY <2>1, <2>4, <2>6 DEF CloseFiles, DataRuns, Orderly, OneAtATime
    <3> QED
      BY <2>2, <2>3, <2>6, <3>1 DEF CloseFiles, FilesTyped
  <2>7. CASE RefreshRecordControls
    BY <2>3, <2>7 DEF RefreshRecordControls
  <2>8. CASE ~OpenFiles /\ ~OpenFilesFails /\ ~RefreshRecordControls /\ ~CloseFiles
    BY <2>3, <2>8, FilesKept
  <2> QED
    BY <2>5, <2>6, <2>7, <2>8
<1> QED
  BY <1>1, RecordingInvariant, PTL DEF Spec, ListedStays
=============================================================================
