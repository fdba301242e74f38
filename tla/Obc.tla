--------------------------------- MODULE Obc ---------------------------------
(***************************************************************************)
(* The onboard calibrator (OBC) and PXI lines, bits of one FPGA register   *)
(* (class appFrame and AlphaDataFrameBuffer::setGPIO).                     *)
(*                                                                         *)
(* The main thread changes the lines for the OBC combo box, for the start  *)
(* of a recording and at exit, the data thread for every state of a        *)
(* recording.  Neither takes a lock, and setGPIO reads the register,       *)
(* replaces the bits of a mask and writes the register.  What a thread is  *)
(* about to do is the sequence todo[t] of operations; each is a step, and  *)
(* setGPIO is two.  The register is the set of the bits that are high.     *)
(*                                                                         *)
(* Recording models when the states of a recording change; here they may   *)
(* change at any time, in their order.                                     *)
(***************************************************************************)
EXTENDS Integers, Sequences

CONSTANT Cals  \* the calibration states with a period > 0

ASSUME CalsAssumption ==
  Cals \subseteq {"DARK1", "DARK2", "MEDIUM", "BRIGHT", "LASER"}

ObcBits == {"A", "B", "SHUTTER", "TARGET", "LASER"}
PxiBits == {"START", "STOP"}
States == {"DARK1", "SCIENCE", "DARK2", "MEDIUM", "BRIGHT", "LASER", "IDLE"}

\* The lines of a state: the OBC's shutter is closed, its target open and its
\* laser off when they are low.
Lines ==
  [DARK1   |-> {"TARGET"},
   SCIENCE |-> {},
   DARK2   |-> {"B", "TARGET"},
   MEDIUM  |-> {"B", "SHUTTER", "TARGET"},
   BRIGHT  |-> {"A", "B", "SHUTTER", "TARGET"},
   LASER   |-> {"TARGET", "LASER"},
   IDLE    |-> {"SHUTTER", "TARGET"}]

\* Between BRIGHT and a state other than MEDIUM
SlowLines == {"SHUTTER", "TARGET", "LASER"}

\* What the combo box offers besides OBC Auto (obcControlCodes)
Choices == {"DARK1", "IDLE", "MEDIUM", "BRIGHT", "LASER"}

Threads == {"main", "data"}

VARIABLES
  gpio,        \* bits of the FPGA register that are high
  last,        \* lastOBCState
  fpie,        \* the state the FPIE was told last, over the serial line
  mode,        \* m_mostRecentOBCMode: "AUTO" or a choice
  recordState, \* m_recordState
  todo,        \* what each thread's handler has left to do
  read,        \* the register a thread in setGPIO has read, or << >>
  ended,       \* the program has been left
  trouble      \* history: what went out of the ordinary

vars == <<gpio, last, fpie, mode, recordState, todo, read, ended, trouble>>

Other(t) == IF t = "main" THEN "data" ELSE "main"

None == "none"

-----------------------------------------------------------------------------
(* Operations                                                              *)

SetGpio(mask, bits) == [op |-> "setGPIO", mask |-> mask, bits |-> bits]
SetObc(state)       == [op |-> "setOBC", state |-> state]
Note(state)         == [op |-> "note", state |-> state]
Tell                == [op |-> "tell"]
SetMode(m)          == [op |-> "setMode", mode |-> m]
Enter(state)        == [op |-> "enter", state |-> state]
Leave               == [op |-> "leave"]
Finish              == [op |-> "end"]

PxiRecord(recording) == SetGpio(PxiBits, {IF recording THEN "START" ELSE "STOP"})

\* A thread that starts something while the other one is at it
NoteOverlap(t) ==
  trouble' = IF todo[Other(t)] = << >> THEN trouble
                                       ELSE trouble \cup {"overlap"}

Idle(t) == ~ended /\ todo[t] = << >>

Starts(t, ops) ==
  /\ Idle(t)
  /\ todo' = [todo EXCEPT ![t] = ops]
  /\ NoteOverlap(t)

Does(t, op) == todo[t] # << >> /\ Head(todo[t]).op = op

\* The operation at the head gives way to these.
Goes(t, ops) == todo' = [todo EXCEPT ![t] = ops \o Tail(@)]

-----------------------------------------------------------------------------
(* setOBC and setGPIO                                                      *)

\* Faulty: only the way to SCIENCE is slow; lastOBCState is not kept
SetOBCFast(t) ==
  /\ Does(t, "setOBC")
  /\ LET new  == Head(todo[t]).state
         slow == last = "BRIGHT" /\ new = "SCIENCE"
     IN  Goes(t, (IF slow THEN <<SetGpio(ObcBits, SlowLines)>> ELSE << >>) \o
                 <<SetGpio(ObcBits, Lines[new]), Note(new), Tell>>)
  /\ UNCHANGED <<gpio, last, fpie, mode, recordState, read, ended, trouble>>

SetOBCForgets(t) ==
  /\ Does(t, "setOBC")
  /\ Goes(t, <<SetGpio(ObcBits, SlowLines),
               SetGpio(ObcBits, Lines[Head(todo[t]).state]), Tell>>)
  /\ UNCHANGED <<gpio, last, fpie, mode, recordState, read, ended, trouble>>

\* setOBC, up to its first access to the register
SetOBC(t) ==
  /\ Does(t, "setOBC")
  /\ LET new  == Head(todo[t]).state
         slow == last = "BRIGHT" /\ new # "MEDIUM"
     IN  Goes(t, (IF slow THEN <<SetGpio(ObcBits, SlowLines)>> ELSE << >>) \o
                 <<SetGpio(ObcBits, Lines[new]), Note(new), Tell>>)
  /\ UNCHANGED <<gpio, last, fpie, mode, recordState, read, ended, trouble>>

ReadGPIO(t) ==
  /\ Does(t, "setGPIO") /\ read[t] = << >>
  /\ read' = [read EXCEPT ![t] = <<gpio>>]
  /\ UNCHANGED <<gpio, last, fpie, mode, recordState, todo, ended, trouble>>

\* Faulty: the bits of the mask are not cleared first.
WriteGPIOUncleared(t) ==
  /\ Does(t, "setGPIO") /\ read[t] # << >>
  /\ gpio' = read[t][1] \cup (Head(todo[t]).bits \cap Head(todo[t]).mask)
  /\ read' = [read EXCEPT ![t] = << >>]
  /\ Goes(t, << >>)
  /\ UNCHANGED <<last, fpie, mode, recordState, ended, trouble>>

WriteGPIO(t) ==
  /\ Does(t, "setGPIO") /\ read[t] # << >>
  /\ gpio' = (read[t][1] \ Head(todo[t]).mask) \cup
                (Head(todo[t]).bits \cap Head(todo[t]).mask)
  /\ read' = [read EXCEPT ![t] = << >>]
  /\ Goes(t, << >>)
  /\ UNCHANGED <<last, fpie, mode, recordState, ended, trouble>>

NoteState(t) ==
  /\ Does(t, "note")
  /\ last' = Head(todo[t]).state
  /\ Goes(t, << >>)
  /\ UNCHANGED <<gpio, fpie, mode, recordState, read, ended, trouble>>

TellFPIE(t) ==
  /\ Does(t, "tell")
  /\ fpie' = last
  /\ Goes(t, << >>)
  /\ UNCHANGED <<gpio, last, mode, recordState, read, ended, trouble>>

-----------------------------------------------------------------------------
(* Main thread                                                             *)

\* Faulty: the record state is taken as it is, or not looked at
FollowingUnmapped == recordState

FollowingNothing == "SCIENCE"

\* The OBC state that goes with a record state, in onOBCControlCombo
Following == IF recordState = "NOT_RECORDING" THEN "SCIENCE" ELSE recordState

\* onOBCControlCombo: the mode is assigned last.
Select(choice) ==
  /\ choice # mode
  /\ Starts("main", <<SetObc(IF choice = "AUTO" THEN Following ELSE choice),
                      SetMode(choice)>>)
  /\ UNCHANGED <<gpio, last, fpie, mode, recordState, read, ended>>

AssignMode ==
  /\ Does("main", "setMode")
  /\ mode' = Head(todo["main"]).mode
  /\ Goes("main", << >>)
  /\ UNCHANGED <<gpio, last, fpie, recordState, read, ended, trouble>>

\* recordButtonWork.  The mode is forced to AUTO unless the user of the test
\* mode wants it otherwise; forcing it does not touch the lines.  The button
\* is enabled, or the FMS heard, after enterIdleState has returned.
Record ==
  /\ recordState = "NOT_RECORDING" /\ Idle("data")
  /\ mode' \in {mode, "AUTO"}
  /\ Starts("main",
       <<PxiRecord(TRUE),
         Enter(IF mode' = "AUTO" /\ "DARK1" \in Cals THEN "DARK1"
                                                     ELSE "SCIENCE")>>)
  /\ UNCHANGED <<gpio, last, fpie, recordState, read, ended>>

\* The files cannot be opened.
RecordFails ==
  /\ recordState = "NOT_RECORDING" /\ Idle("main") /\ Idle("data")
  /\ mode' \in {mode, "AUTO"}
  /\ trouble' = IF mode' = mode THEN trouble ELSE trouble \cup {"forced AUTO"}
  /\ UNCHANGED <<gpio, last, fpie, recordState, todo, read, ended>>

\* handleExitRequest, once the data thread has been joined
Exit ==
  /\ recordState = "NOT_RECORDING" /\ Idle("data")
  /\ Starts("main", <<SetObc("SCIENCE"), Finish>>)
  /\ UNCHANGED <<gpio, last, fpie, mode, recordState, read, ended>>

End ==
  /\ Does("main", "end") /\ todo["data"] = << >>
  /\ ended' = TRUE
  /\ Goes("main", << >>)
  /\ UNCHANGED <<gpio, last, fpie, mode, recordState, read, trouble>>

-----------------------------------------------------------------------------
(* Data thread                                                             *)

Rank == [DARK1 |-> 1, SCIENCE |-> 2, DARK2 |-> 3, MEDIUM |-> 4, BRIGHT |-> 5,
         LASER |-> 6]

\* next is the first calibration after state.
NextCal(state, next) ==
  /\ next \in Cals /\ Rank[next] > Rank[state]
  /\ \A s \in Cals : Rank[s] > Rank[state] => Rank[next] <= Rank[s]

\* The main thread is in recordButtonWork: nobody can have clicked Stop yet.
Starting ==
  /\ todo["main"] # << >>
  /\ todo["main"][Len(todo["main"])].op \notin {"setMode", "end"}

\* enterXState when a calibration is over, or when a stop was requested and the
\* OBC is in AUTO
Advance ==
  \E next \in Cals \cup {"SCIENCE"} :
    /\ \/ recordState = "DARK1" /\ next = "SCIENCE"
       \/ /\ recordState \in Cals \ {"DARK1"}
          /\ NextCal(recordState, next)
       \/ /\ recordState \in {"SCIENCE", "DARK1"} /\ mode = "AUTO"
          /\ ~Starting
          /\ NextCal("SCIENCE", next)
    /\ Starts("data", <<Enter(next)>>)
    /\ UNCHANGED <<gpio, last, fpie, mode, recordState, read, ended>>

\* enterIdleState, which an abort or a full disk reaches from every state
EndRecording ==
  /\ recordState # "NOT_RECORDING"
  /\ Starts("data", <<PxiRecord(FALSE), Leave>>)
  /\ UNCHANGED <<gpio, last, fpie, mode, recordState, read, ended>>

\* Either thread
EnterState(t) ==
  /\ Does(t, "enter") \/ Does(t, "leave")
  /\ LET state == IF Does(t, "enter") THEN Head(todo[t]).state ELSE "SCIENCE"
     IN  /\ recordState' = IF Does(t, "enter") THEN state ELSE "NOT_RECORDING"
         /\ Goes(t, IF mode = "AUTO" THEN <<SetObc(state)>> ELSE << >>)
  /\ UNCHANGED <<gpio, last, fpie, mode, read, ended, trouble>>

-----------------------------------------------------------------------------
(* The specification                                                       *)

\* The constructor of the frame buffer clears the register, and appFrame
\* assumes the worst before it goes to SCIENCE.
Init ==
  /\ gpio = {} /\ last = "BRIGHT" /\ fpie = None
  /\ mode = "AUTO" /\ recordState = "NOT_RECORDING"
  /\ todo = [t \in Threads |->
               IF t = "main" THEN <<SetObc("SCIENCE")>> ELSE << >>]
  /\ read = [t \in Threads |-> << >>]
  /\ ended = FALSE /\ trouble = {}

Step(t) ==
  SetOBC(t) \/ ReadGPIO(t) \/ WriteGPIO(t) \/ NoteState(t) \/ TellFPIE(t)
    \/ EnterState(t)

Next ==
  \/ \E t \in Threads : Step(t)
  \/ \E choice \in Choices \cup {"AUTO"} : Select(choice)
  \/ AssignMode \/ Record \/ RecordFails \/ Exit \/ End
  \/ Advance \/ EndRecording

Spec == Init /\ [][Next]_vars

-----------------------------------------------------------------------------
(* Properties                                                              *)

\* What the OBC may be commanded
Patterns == {Lines[state] : state \in States} \cup {SlowLines}

Ops ==
  [op : {"setGPIO"}, mask : {ObcBits}, bits : Patterns]
    \cup [op : {"setGPIO"}, mask : {PxiBits}, bits : {{"START"}, {"STOP"}}]
    \cup [op : {"setOBC", "note"}, state : States]
    \cup [op : {"enter"}, state : Cals \cup {"SCIENCE"}]
    \cup [op : {"setMode"}, mode : Choices \cup {"AUTO"}]
    \cup [op : {"tell", "leave", "end"}]

RecordStates == Cals \cup {"NOT_RECORDING", "SCIENCE"}

\* Every variable has the type its declaration gives it.
TypeOK ==
  /\ gpio \in SUBSET (ObcBits \cup PxiBits)
  /\ last \in States /\ fpie \in States \cup {None}
  /\ mode \in Choices \cup {"AUTO"}
  /\ recordState \in RecordStates
  /\ todo \in [Threads -> Seq(Ops)]
  /\ read \in [Threads -> Seq(SUBSET (ObcBits \cup PxiBits))]
  /\ ended \in BOOLEAN
  /\ trouble \subseteq {"overlap", "forced AUTO"}

\* The bright light never burns with the shutter closed, which would destroy
\* the bulb, however the two threads' accesses to the register interleave:
\* the OBC always sees the lines of one state, never a mixture of two.
WholePatterns == gpio \cap ObcBits \in Patterns

\* As long as the threads do not overlap in setOBC, the OBC goes from BRIGHT
\* to MEDIUM or by way of the slow transition, even though the test of
\* lastOBCState and the lines it stands for are apart.
SlowFromBright ==
  [][ gpio \cap ObcBits = Lines["BRIGHT"] /\ "overlap" \notin trouble' =>
        gpio' \cap ObcBits \in {Lines["BRIGHT"], Lines["MEDIUM"], SlowLines} ]_vars

Quiet == todo["main"] = << >> /\ todo["data"] = << >>

\* Between calls the register, lastOBCState, what the FPIE marks the images
\* with and what the PXI is told agree, unless the threads overlapped.
InStep ==
  Quiet /\ "overlap" \notin trouble =>
    /\ gpio \cap ObcBits = Lines[last]
    /\ fpie = last
    /\ "START" \in gpio <=> recordState # "NOT_RECORDING"

\* In OBC Auto the calibrator follows the recording, whichever thread changed the
\* mode or the record state last: when neither thread is between two accesses, the
\* state commanded last is the one that goes with the record state.  It says nothing
\* of the moments in between, in which frames of the new record state may be
\* handled, nor of calls that overlapped or found the mode forced.
AutoFollows ==
  Quiet /\ trouble = {} /\ mode = "AUTO" => last = Following
=============================================================================
