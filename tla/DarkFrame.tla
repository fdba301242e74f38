------------------------------ MODULE DarkFrame ------------------------------
(***************************************************************************)
(* The dark frame of class DisplayTab: the mean of the frames taken while  *)
(* the calibrator (OBC) is dark, which the display subtracts and the exit  *)
(* saves.                                                                  *)
(*                                                                         *)
(* Whoever darkens the OBC asks for a dark frame: the number of frames to  *)
(* wait for it to settle, then the accumulator and its count are set, by   *)
(* the main thread for the combo box and the first calibration, by the     *)
(* data thread for the second.  The data thread adds up the frames that    *)
(* follow.  There is no lock: every access to memory is a step, and the    *)
(* loops over the pixels are two, one for each half of the frame.          *)
(*                                                                         *)
(* The wait covers two frames less than it says: the frame that is in      *)
(* memory when it is set may count, and the frame that ends it is added.   *)
(***************************************************************************)
EXTENDS Integers

CONSTANTS
  Settle,     \* frames to wait: getFrameRateHz() * OBC_SETTLING_TIME_SECS
  Dim,        \* frames the OBC really takes to settle
  Divisor, Parts, \* getFrameRateHz() * DARK_ACCUM_TIME_SECS, a double, is
              \* Divisor / Parts: the sum's bound and its divisor
  Accum,      \* frames that are added until their count reaches it
  Level,      \* what a pixel is in the dark
  Period,     \* frames of a dark calibration, a whole number of seconds
  MaxRequests \* bound on what the user does

ASSUME DarkAssumption ==
  /\ Settle \in Nat /\ Accum \in Nat \ {0} /\ Period \in Nat /\ Level \in Nat
  /\ Divisor \in Nat \ {0} /\ Parts \in Nat \ {0}
  /\ (Accum - 1) * Parts < Divisor /\ Divisor <= Accum * Parts
  /\ Dim \in Nat /\ Dim + 2 <= Settle
  /\ Settle + Accum <= Period
  /\ MaxRequests \in Nat

VARIABLES
  framesUntilDark,  \* m_framesUntilDark
  accumulated,      \* m_darkFramesAccumulated
  accumulation,     \* m_darkFrameAccumulation, by halves
  darkFrame,        \* m_darkFrame, by halves
  buffered,         \* m_darkFrameBuffered, for a frame of this run
  recordState,      \* m_recordState; "CAL" for the calibrations with a light
  wait,             \* m_wait
  auto,             \* m_mostRecentOBCMode = OBC_AUTO
  obc,              \* "dark" or "light"
  settling,         \* frames until the pictures are what the OBC is
  picture,          \* the frame in m_imageBuffer
  dataPC, mainPC,   \* what the threads do next
  job,              \* what the main thread does: "record" or a combo choice
                    \* ("dark", "other", "auto"); "none" when it is idle
  reg,              \* the data thread's register
  requests,         \* history: how often the user has asked for something
  asker,            \* history: who asked for the dark frame last
  trouble,          \* history: what went wrong with it
  outcome           \* history: the trouble with the frame in darkFrame

memory  == <<framesUntilDark, accumulated, accumulation, darkFrame, buffered>>
light   == <<auto, obc, settling>>
record  == <<recordState, wait>>
history == <<asker, trouble>>
vars == <<memory, record, light, picture, dataPC, mainPC, job, reg, requests,
          history, outcome>>

Halves == {1, 2}

\* How many frames have been added up, and whether one of them was not dark; and
\* what became of that, the pixels of the dark frame
Zero == [n |-> 0, lit |-> FALSE]
Black == [level |-> 0, lit |-> FALSE]

DataSteps == {"frame", "wait", "decrement", "test", "compare", "add 1", "add 2",
              "count", "increment", "divide 1", "divide 2", "done", "state",
              "darken", "ask", "clear 1", "clear 2", "zero"}
MainSteps == {"idle", "darken", "ask", "clear 1", "clear 2", "zero", "mode"}

\* The data thread has looked at framesUntilDark and not yet done what follows.
Accumulating ==
  dataPC \in {"decrement", "compare", "add 1", "add 2", "count", "increment",
              "divide 1", "divide 2", "done"}

Clearing(pc) == pc \in {"clear 1", "clear 2", "zero"}

-----------------------------------------------------------------------------
(* Both threads                                                            *)

\* The OBC becomes what, unless it is that already.  Coming on before the dark
\* frame is made, other than at the calibration's own end, is trouble.
Shine(what, regular) ==
  /\ obc' = what
  /\ settling' = IF what = obc THEN settling ELSE Dim
  /\ trouble' = IF what = "light" /\ framesUntilDark >= 0 /\ ~regular
                THEN trouble \cup {"early"} ELSE trouble

\* m_framesUntilDark = ...; memset(m_darkFrameAccumulation, 0, ...);
\* m_darkFramesAccumulated = 0.  The other thread may be at the same data, the
\* light may be on, and the calibration, which the data thread counts down from
\* when recordState is assigned, may have too few frames left.
AskStep(pc, who, disturbed) ==
  /\ framesUntilDark' = IF pc = "ask" THEN Settle ELSE framesUntilDark
  /\ accumulation' = [h \in Halves |->
       IF pc = <<"clear 1", "clear 2">>[h] THEN Zero
       ELSE accumulation[h]]
  /\ accumulated' = IF pc = "zero" THEN 0 ELSE accumulated
  /\ asker' = IF pc = "ask" THEN who ELSE asker
  /\ trouble' = (IF disturbed THEN {"disturbed"} ELSE {}) \cup
                (IF pc # "ask" THEN trouble
                 ELSE (IF obc = "light" THEN {"early"} ELSE {}) \cup
                      (IF who = "record" /\ wait < Settle + Accum
                       THEN {"late"} ELSE {}))
  /\ UNCHANGED <<darkFrame, buffered>>

AskNext == [x \in {"ask", "clear 1", "clear 2"} |->
  IF x = "ask" THEN "clear 1" ELSE IF x = "clear 1" THEN "clear 2" ELSE "zero"]

-----------------------------------------------------------------------------
(* Data thread: lookForImageData for one frame                             *)

\* getImageFrame
GetFrame ==
  /\ dataPC = "frame"
  /\ picture' = IF obc = "dark" /\ settling = 0 THEN "dark" ELSE "light"
  /\ settling' = IF settling > 0 THEN settling - 1 ELSE 0
  /\ dataPC' = "wait"
  /\ UNCHANGED <<memory, record, auto, obc, mainPC, job, reg, requests, history,
                 outcome>>

quiet == <<record, light, picture, mainPC, job, requests>>
rest  == <<quiet, asker>>

\* if (m_framesUntilDark > 0) m_framesUntilDark--;
ReadWait ==
  /\ dataPC = "wait"
  /\ reg' = IF framesUntilDark > 0 THEN framesUntilDark ELSE reg
  /\ dataPC' = IF framesUntilDark > 0 THEN "decrement" ELSE "test"
  /\ UNCHANGED <<memory, rest, trouble, outcome>>

Decrement ==
  /\ dataPC = "decrement"
  /\ framesUntilDark' = reg - 1 /\ reg' = 0
  /\ dataPC' = "test"
  /\ UNCHANGED <<accumulated, accumulation, darkFrame, buffered, rest,
                 trouble, outcome>>

TestWait ==
  /\ dataPC = "test"
  /\ dataPC' = IF framesUntilDark = 0 THEN "compare" ELSE "state"
  /\ UNCHANGED <<memory, reg, rest, trouble, outcome>>

\* Faulty: one frame too many is added.
CompareLate ==
  /\ dataPC = "compare"
  /\ dataPC' = IF accumulated <= Accum THEN "add 1" ELSE "divide 1"
  /\ UNCHANGED <<memory, reg, rest, trouble, outcome>>

Compare ==
  /\ dataPC = "compare"
  /\ dataPC' = IF accumulated * Parts < Divisor THEN "add 1" ELSE "divide 1"
  /\ UNCHANGED <<memory, reg, rest, trouble, outcome>>

\* What the data thread does next is wrong if the main thread is clearing.
Meets == trouble' = IF Clearing(mainPC) THEN trouble \cup {"disturbed"}
                                        ELSE trouble

\* *uip++ += *usp++
AddHalf(h) ==
  /\ dataPC = <<"add 1", "add 2">>[h]
  /\ accumulation' = [accumulation EXCEPT
       ![h] = [n |-> @.n + 1,
               lit |-> @.lit \/ picture = "light"]]
  /\ dataPC' = <<"add 2", "count">>[h]
  /\ Meets
  /\ UNCHANGED <<framesUntilDark, accumulated, darkFrame, buffered, reg,
                 rest, outcome>>

\* m_darkFramesAccumulated++
ReadCount ==
  /\ dataPC = "count"
  /\ reg' = accumulated
  /\ dataPC' = "increment"
  /\ Meets
  /\ UNCHANGED <<memory, rest, outcome>>

Increment ==
  /\ dataPC = "increment"
  /\ accumulated' = reg + 1 /\ reg' = 0
  /\ dataPC' = "state"
  /\ Meets
  /\ UNCHANGED <<framesUntilDark, accumulation, darkFrame, buffered, rest,
                 outcome>>

\* A sum of n frames / (getFrameRateHz() * DARK_ACCUM_TIME_SECS), as a u_short
Quotient(n) == (n * Level * Parts) \div Divisor

\* *usp++ = *uip++ / ...
DivideHalf(h) ==
  /\ dataPC = <<"divide 1", "divide 2">>[h]
  /\ darkFrame' = [darkFrame EXCEPT ![h] =
       [level |-> Quotient(accumulation[h].n), lit |-> accumulation[h].lit]]
  /\ dataPC' = <<"divide 2", "done">>[h]
  /\ Meets
  /\ UNCHANGED <<framesUntilDark, accumulated, accumulation, buffered, reg,
                 rest, outcome>>

\* m_framesUntilDark = -1; m_darkFrameBuffered = 1
Done ==
  /\ dataPC = "done"
  /\ framesUntilDark' = -1
  /\ buffered' = TRUE
  /\ dataPC' = "state"
  /\ outcome' = IF Clearing(mainPC) THEN trouble \cup {"disturbed"} ELSE trouble
  /\ trouble' = {} /\ asker' = "none"
  /\ UNCHANGED <<accumulated, accumulation, darkFrame, reg, quiet>>

\* The record state is handled; its states may go on.
NoChange ==
  /\ dataPC = "state" /\ recordState \notin {"DARK1", "DARK2"}
  /\ dataPC' = "frame"
  /\ UNCHANGED <<memory, record, light, picture, mainPC, job, reg, requests,
                 history, outcome>>

Lit(regular) == IF auto THEN Shine("light", regular)
                        ELSE UNCHANGED <<obc, settling, trouble>>

\* if (--m_wait == 0) enterScienceState(), or what follows DARK2
CountDown ==
  /\ dataPC = "state" /\ recordState \in {"DARK1", "DARK2"}
  /\ wait' = wait - 1
  /\ IF wait' # 0
     THEN UNCHANGED <<recordState, obc, settling, trouble>>
     ELSE /\ recordState' \in (IF recordState = "DARK1" THEN {"SCIENCE"}
                               ELSE {"CAL", "NOT_RECORDING"})
          /\ Lit(asker # "combo")
  /\ dataPC' = "frame"
  /\ UNCHANGED <<memory, auto, picture, mainPC, job, reg, requests, asker,
                 outcome>>

\* A stop was requested: enterDark2CalState, up to setOBC, or a later calibration
Stop ==
  /\ dataPC = "state" /\ recordState = "SCIENCE" /\ auto
  /\ requests < MaxRequests /\ requests' = requests + 1
  /\ \/ /\ recordState' = "DARK2" /\ wait' = Period
        /\ dataPC' = "darken"
     \/ /\ recordState' = "CAL" /\ wait' = wait
        /\ dataPC' = "frame"
  /\ UNCHANGED <<memory, light, picture, mainPC, job, reg, history, outcome>>

Darken2 ==
  /\ dataPC = "darken"
  /\ IF auto THEN Shine("dark", TRUE) ELSE UNCHANGED <<obc, settling, trouble>>
  /\ dataPC' = "ask"
  /\ UNCHANGED <<memory, record, auto, picture, mainPC, job, reg, requests, asker, outcome>>

AskDark2 ==
  /\ dataPC = "ask" \/ Clearing(dataPC)
  /\ AskStep(dataPC, "data", Clearing(mainPC))
  /\ dataPC' = IF dataPC = "zero" THEN "frame" ELSE AskNext[dataPC]
  /\ UNCHANGED <<record, light, picture, mainPC, job, reg, requests, outcome>>

\* enterIdleState: a later calibration is over, or the recording is aborted
EndRecording ==
  /\ dataPC = "state" /\ recordState # "NOT_RECORDING"
  /\ recordState' = "NOT_RECORDING"
  /\ Lit(FALSE)
  /\ dataPC' = "frame"
  /\ UNCHANGED <<memory, wait, auto, picture, mainPC, job, reg, requests, asker, outcome>>

-----------------------------------------------------------------------------
(* Main thread                                                             *)

MainGoes(pc) == mainPC' = pc /\ job' = IF pc = "idle" THEN "none" ELSE job

Click ==
  /\ mainPC = "idle"
  /\ requests < MaxRequests /\ requests' = requests + 1

\* recordButtonWork: to DARK1, of which setOBC and the rest are steps of their
\* own, or to SCIENCE
Record ==
  /\ Click
  /\ recordState = "NOT_RECORDING"
  /\ auto' \in {auto, TRUE}
  /\ \/ /\ auto'
        /\ recordState' = "DARK1" /\ wait' = Period
        /\ job' = "record" /\ mainPC' = "darken"
        /\ UNCHANGED <<obc, settling, trouble>>
     \/ /\ recordState' = "SCIENCE"
        /\ IF auto' THEN Shine("light", FALSE)
                    ELSE UNCHANGED <<obc, settling, trouble>>
        /\ UNCHANGED <<wait, job, mainPC>>
  /\ UNCHANGED <<memory, picture, dataPC, reg, asker, outcome>>

\* onOBCControlCombo
Select(choice) ==
  /\ Click
  /\ job' = choice /\ mainPC' = "darken"
  /\ UNCHANGED <<memory, record, light, picture, dataPC, reg, history, outcome>>

\* Its setOBC, and enterDark1CalState's
SetOBC ==
  /\ mainPC = "darken"
  /\ Shine(IF \/ job \in {"record", "dark"}
              \/ job = "auto" /\ recordState \in {"DARK1", "DARK2"}
           THEN "dark" ELSE "light", FALSE)
  /\ mainPC' = IF job \in {"record", "dark"} THEN "ask" ELSE "mode"
  /\ UNCHANGED <<memory, record, auto, picture, dataPC, job, reg, requests, asker, outcome>>

\* Faulty: the accumulator and its count are not cleared.
AskUncleared ==
  /\ mainPC = "ask"
  /\ AskStep("ask", IF job = "dark" THEN "combo" ELSE job,
             Accumulating \/ Clearing(dataPC))
  /\ MainGoes(IF job = "record" THEN "idle" ELSE "mode")
  /\ UNCHANGED <<record, light, picture, dataPC, reg, requests, outcome>>

AskDark1 ==
  /\ mainPC = "ask" \/ Clearing(mainPC)
  /\ AskStep(mainPC, IF job = "dark" THEN "combo" ELSE job,
             Accumulating \/ Clearing(dataPC))
  /\ MainGoes(IF mainPC # "zero" THEN AskNext[mainPC]
              ELSE IF job = "record" THEN "idle" ELSE "mode")
  /\ UNCHANGED <<record, light, picture, dataPC, reg, requests, outcome>>

\* m_mostRecentOBCMode = selection
AssignMode ==
  /\ mainPC = "mode"
  /\ auto' = (job = "auto")
  /\ MainGoes("idle")
  /\ UNCHANGED <<memory, record, obc, settling, picture, dataPC, reg, requests,
                 history, outcome>>

-----------------------------------------------------------------------------
(* The specification                                                       *)

Init ==
  /\ framesUntilDark = -1 /\ accumulated = 0
  /\ accumulation = [h \in Halves |-> Zero]
  /\ darkFrame = [h \in Halves |-> Black] /\ buffered = FALSE
  /\ recordState = "NOT_RECORDING" /\ wait = 0
  /\ auto = TRUE /\ obc = "light" /\ settling = 0 /\ picture = "light"
  /\ dataPC = "frame" /\ mainPC = "idle" /\ job = "none" /\ reg = 0
  /\ requests = 0 /\ asker = "none" /\ trouble = {} /\ outcome = {}

DataStep ==
  \/ GetFrame \/ ReadWait \/ Decrement \/ TestWait \/ Compare
  \/ \E h \in Halves : AddHalf(h) \/ DivideHalf(h)
  \/ ReadCount \/ Increment \/ Done
  \/ NoChange \/ CountDown \/ Darken2 \/ AskDark2

MainStep == SetOBC \/ AskDark1 \/ AssignMode

Next ==
  \/ DataStep \/ MainStep
  \/ Stop \/ EndRecording \/ Record
  \/ \E choice \in {"dark", "other", "auto"} : Select(choice)

Spec == Init /\ [][Next]_vars

-----------------------------------------------------------------------------
(* Properties                                                              *)

Troubles == {"disturbed", "early", "late"}
Sums == [n : Nat, lit : BOOLEAN]
Means == [level : Nat, lit : BOOLEAN]

\* Every variable has the type its declaration gives it.
TypeOK ==
  /\ framesUntilDark \in -1..Settle /\ accumulated \in Nat
  /\ accumulation \in [Halves -> Sums] /\ darkFrame \in [Halves -> Means]
  /\ buffered \in BOOLEAN
  /\ recordState \in {"NOT_RECORDING", "DARK1", "SCIENCE", "DARK2", "CAL"}
  /\ wait \in 0..Period
  /\ auto \in BOOLEAN /\ obc \in {"dark", "light"} /\ settling \in 0..Dim
  /\ picture \in {"dark", "light"}
  /\ dataPC \in DataSteps /\ mainPC \in MainSteps
  /\ job \in {"none", "record", "dark", "other", "auto"} /\ reg \in Int
  /\ requests \in 0..MaxRequests
  /\ asker \in {"none", "combo", "record", "data"}
  /\ trouble \subseteq Troubles /\ outcome \subseteq Troubles

Divided == buffered /\ dataPC \notin {"divide 2", "done"}

\* Every pixel of the dark frame has the level of the dark, or is brighter by what
\* the sum has more than its divisor says, a fraction of a frame: as long as the
\* count falls short of a divisor that need not be whole, another frame is added.
\* It is never darker, and no further frame is left out, counted twice, or added
\* to the sum of the calibration before, unless one thread was adding or dividing
\* while the other was asking for a new dark frame.
WholeMean ==
  Divided /\ "disturbed" \notin outcome =>
    \A h \in Halves :
      LET excess == darkFrame[h].level - Level
      IN  0 <= excess /\ excess * Divisor <= Level * (Accum * Parts - Divisor)

\* Every frame of it was taken in the dark, if nobody switched the light on for
\* another reason than the end of the calibration: the wait for the calibrator
\* is not too short, and the sum is complete before the calibration is over,
\* unless the main thread was too late to ask.
OnlyDark ==
  Divided /\ outcome = {} => \A h \in Halves : ~darkFrame[h].lit
=============================================================================
