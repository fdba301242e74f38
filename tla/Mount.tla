--------------------------------- MODULE Mount ---------------------------------
(***************************************************************************)
(* The camera mount: the command machine handleMount of DisplayTab, the    *)
(* serial line, and the mount at its other end.                            *)
(*                                                                         *)
(* handleMount runs in the main loop whenever it is idle and does one step *)
(* at a time; setMount, called from the main thread when a recording       *)
(* starts or the combo box changes and from the data thread when a         *)
(* recording ends, redirects the machine at any point.  Both hold          *)
(* m_mountHandlerMutex, and the settings tab, which does not, runs on the  *)
(* thread of handleMount while nothing is recorded.  So each call is one   *)
(* step; what interleaves is the machine, its clients and the mount, whose *)
(* answers do not say what they answer.                                    *)
(*                                                                         *)
(* "S0" tells the mount to idle, "S1" to be active, "s" asks for its       *)
(* state.  It answers "+" to a command, "+0" or "+1" to the question.      *)
(***************************************************************************)
EXTENDS Integers, Sequences

CONSTANTS
  Patience,   \* reads without an answer before a command is repeated (200)
  Tries,      \* how often a command is sent (3)
  MaxSets,    \* bound: calls of setMount and of the settings tab
  MaxSlow,    \* bound: answers the mount takes too long for
  MaxFaults   \* bound: commands the line loses or the mount refuses

ASSUME PatienceAssumption == Patience \in Nat \ {0}
ASSUME TriesAssumption == Tries \in Nat \ {0}
ASSUME MountBoundsAssumption ==
  MaxSets \in Nat /\ MaxSlow \in Nat /\ MaxFaults \in Nat

VARIABLES
  used,      \* MOUNTUSED_YES
  state,     \* m_mountHandlerState
  color,     \* m_mountCheckColor
  open,      \* m_mountDevFd # -1
  iters,     \* m_mountCmdIterations
  tries,     \* m_mountCmdTries
  commands,  \* written and not yet taken by the mount
  replies,   \* sent by the mount and not yet read
  plugged,   \* the line is connected and the mount is on
  mode,      \* what the mount does: "IDLE" or "ACTIVE"
  steady,    \* it has reached its active state and answers "+1"
  wanted,    \* history: the mode asked for last
  late,      \* history: a command was sent before the one before was answered
  fault,     \* history: a command was lost or refused
  setCount, slowCount, faultCount    \* for the bounds

machineVars == <<state, color, open, iters, tries>>
lineVars    == <<commands, replies>>
mountVars   == <<plugged, mode, steady>>
historyVars == <<wanted, late, fault>>
countVars   == <<setCount, slowCount, faultCount>>
vars == <<used, machineVars, lineVars, mountVars, historyVars, countVars>>

Modes == {"IDLE", "ACTIVE"}

\* What follows MAKE_CONNECTION, what a SEND state sends, and for which command
\* a GET_REPLY state waits
Connect == [S0_MAKE_CONNECTION |-> "SEND_S0", S1_MAKE_CONNECTION |-> "SEND_S1"]
Sends   == [SEND_S0 |-> "S0", SEND_S1 |-> "S1", SEND_S |-> "s"]
Awaits  == [GET_S0_REPLY |-> "S0", GET_S1_REPLY |-> "S1", GET_S_REPLY |-> "s"]

Start == [IDLE |-> "S0_MAKE_CONNECTION", ACTIVE |-> "S1_MAKE_CONNECTION"]

Init ==
  /\ used \in BOOLEAN
  /\ state = IF used THEN Start["IDLE"] ELSE "IDLE"
  /\ color = IF used THEN "YELLOW" ELSE "UNUSED"
  /\ open = FALSE /\ iters = 0 /\ tries = 0
  /\ commands = << >> /\ replies = << >>
  /\ plugged \in BOOLEAN /\ mode \in Modes /\ steady = (mode = "ACTIVE")
  /\ wanted = "IDLE" /\ late = FALSE /\ fault = FALSE
  /\ setCount = 0 /\ slowCount = 0 /\ faultCount = 0

-----------------------------------------------------------------------------
(* handleMount                                                             *)

GiveUp == color' = "RED" /\ state' = "IDLE"

\* OPEN
MakeConnection ==
  /\ state \in DOMAIN Connect
  /\ \/ open' = TRUE /\ state' = Connect[state] /\ UNCHANGED color
     \/ ~open /\ GiveUp /\ UNCHANGED open
  /\ UNCHANGED <<used, iters, tries, lineVars, mountVars, historyVars, countVars>>

\* SEND, when the write succeeds
Write(command) ==
  /\ commands' = IF plugged THEN Append(commands, command) ELSE commands
  /\ iters' = 0
  /\ late' = (late \/ commands # << >> \/ replies # << >>)

\* Faulty: the count of a command given up is kept.
SendKeepsTries ==
  /\ state \in DOMAIN Sends
  /\ \/ /\ Write(Sends[state])
        /\ state' \in DOMAIN Awaits /\ Awaits[state'] = Sends[state]
        /\ UNCHANGED <<tries, color>>
     \/ GiveUp /\ UNCHANGED <<commands, iters, late, tries>>
  /\ UNCHANGED <<used, open, replies, mountVars, wanted, fault, countVars>>

Send ==
  /\ state \in DOMAIN Sends
  /\ \/ /\ Write(Sends[state])
        /\ tries' = 0
        /\ state' \in DOMAIN Awaits /\ Awaits[state'] = Sends[state]
        /\ UNCHANGED color
     \/ GiveUp /\ UNCHANGED <<commands, iters, late, tries>>
  /\ UNCHANGED <<used, open, replies, mountVars, wanted, fault, countVars>>

\* readPCSerial takes all there is; an answer starts with '+'.
Answered == replies # << >> /\ Head(replies) # "?"

\* Faulty: any answer to the question is taken for yes.
ReachedAnyhow == Answered

Reached == replies = <<"+1">>

GetReply ==
  /\ state \in DOMAIN Awaits /\ Answered
  /\ replies' = << >>
  /\ IF Awaits[state] = "S0" \/ (Awaits[state] = "s" /\ Reached)
       THEN color' = "GREEN" /\ state' = "IDLE"
       ELSE state' = "SEND_S" /\ UNCHANGED color
  /\ UNCHANGED <<used, open, iters, tries, commands, mountVars, historyVars,
                 countVars>>

\* Faulty: the repetitions are not counted.
NextTryUncounted == IF tries = 0 THEN 1 ELSE tries

NextTry == tries + 1

\* Time is up: send again or give up
Repeat ==
  /\ tries' = NextTry
  /\ \/ NextTry = Tries /\ GiveUp /\ UNCHANGED <<commands, late>> /\ iters' = iters + 1
     \/ NextTry # Tries /\ Write(Awaits[state]) /\ UNCHANGED <<color, state>>
     \/ /\ NextTry # Tries
        /\ GiveUp /\ UNCHANGED <<commands, late>> /\ iters' = iters + 1

\* No answer, or one that is not '+'.  That the mount, having the command, lets
\* the time run out is bounded.
NoReply ==
  /\ state \in DOMAIN Awaits /\ ~Answered
  /\ replies' = << >>
  /\ IF iters + 1 # Patience
       THEN /\ iters' = iters + 1
            /\ UNCHANGED <<tries, state, color, commands, late, slowCount>>
       ELSE /\ \/ commands = << >> /\ UNCHANGED slowCount
               \/ /\ commands # << >> /\ slowCount < MaxSlow
                  /\ slowCount' = slowCount + 1
            /\ Repeat
  /\ UNCHANGED <<used, open, mountVars, wanted, fault, setCount, faultCount>>

-----------------------------------------------------------------------------
(* Its clients                                                             *)

\* Faulty: a command under way is finished first, and nothing comes after it.
SetMountWhenIdle(m) ==
  /\ used /\ setCount < MaxSets
  /\ setCount' = setCount + 1
  /\ wanted' = m
  /\ state' = IF state = "IDLE" THEN Start[m] ELSE state
  /\ UNCHANGED <<used, color, open, iters, tries, lineVars, mountVars, late,
                 fault, slowCount, faultCount>>

\* setMount, from the record button, the end of a recording or the combo box
SetMount(m) ==
  /\ used /\ setCount < MaxSets
  /\ setCount' = setCount + 1
  /\ wanted' = m
  /\ state' = Start[m]
  /\ UNCHANGED <<used, color, open, iters, tries, lineVars, mountVars, late,
                 fault, slowCount, faultCount>>

\* The settings tab.  The machine and the line are left as they are.
MakeMountUnused ==
  /\ used /\ setCount < MaxSets
  /\ setCount' = setCount + 1
  /\ used' = FALSE
  /\ state' = "IDLE"
  /\ color' = "UNUSED"
  /\ UNCHANGED <<open, iters, tries, lineVars, mountVars, historyVars,
                 slowCount, faultCount>>

MakeMountUsed ==
  /\ ~used /\ setCount < MaxSets
  /\ setCount' = setCount + 1
  /\ used' = TRUE
  /\ \/ /\ open' = TRUE
        /\ state' = Start["IDLE"]
        /\ color' = "YELLOW"
        /\ wanted' = "IDLE"
     \/ ~open /\ color' = "RED" /\ UNCHANGED <<open, state, wanted>>
  /\ UNCHANGED <<iters, tries, lineVars, mountVars, late, fault, slowCount,
                 faultCount>>

-----------------------------------------------------------------------------
(* The mount and the line                                                  *)

Obey ==
  /\ plugged /\ commands # << >>
  /\ commands' = Tail(commands)
  /\ LET command == Head(commands)
     IN  /\ mode' = CASE command = "S0" -> "IDLE"
                      [] command = "S1" -> "ACTIVE"
                      [] OTHER -> mode
         /\ steady' = (steady /\ mode' = "ACTIVE")
         /\ replies' = Append(replies, IF command # "s" THEN "+"
                                       ELSE IF steady THEN "+1" ELSE "+0")
  /\ UNCHANGED <<used, machineVars, plugged, historyVars, countVars>>

\* A command is lost, or refused with an answer that is not '+'.
Fail ==
  /\ plugged /\ commands # << >> /\ faultCount < MaxFaults
  /\ faultCount' = faultCount + 1
  /\ fault' = TRUE
  /\ commands' = Tail(commands)
  /\ replies' \in {replies, Append(replies, "?")}
  /\ UNCHANGED <<used, machineVars, mountVars, wanted, late, setCount, slowCount>>

Settle ==
  /\ mode = "ACTIVE" /\ ~steady
  /\ steady' = TRUE
  /\ UNCHANGED <<used, machineVars, lineVars, plugged, mode, historyVars,
                 countVars>>

Unplug ==
  /\ plugged
  /\ plugged' = FALSE
  /\ commands' = << >>
  /\ fault' = (fault \/ commands # << >>)
  /\ UNCHANGED <<used, machineVars, replies, mode, steady, wanted, late,
                 countVars>>

-----------------------------------------------------------------------------
HandleMount == MakeConnection \/ Send \/ GetReply \/ NoReply

Clients ==
  (\E m \in Modes : SetMount(m)) \/ MakeMountUnused \/ MakeMountUsed

Next == HandleMount \/ Clients \/ Obey \/ Fail \/ Settle \/ Unplug

Spec == Init /\ [][Next]_vars

\* The main loop has idle time, and a mount that is on obeys and settles.
FairSpec ==
  Spec /\ WF_vars(HandleMount) /\ WF_vars(Obey) /\ WF_vars(Settle)

-----------------------------------------------------------------------------
(* Properties                                                              *)

\* Every variable has the type its declaration gives it; a command is sent no
\* more than Tries times.
TypeOK ==
  /\ used \in BOOLEAN /\ open \in BOOLEAN /\ plugged \in BOOLEAN
  /\ state \in {"IDLE"} \cup DOMAIN Connect \cup DOMAIN Sends \cup DOMAIN Awaits
  /\ color \in {"RED", "YELLOW", "GREEN", "UNUSED"}
  /\ iters \in 0 .. Patience /\ tries \in 0 .. Tries
  /\ commands \in Seq({"S0", "S1", "s"})
  /\ replies \in Seq({"+", "+0", "+1", "?"})
  /\ mode \in Modes /\ wanted \in Modes
  /\ steady \in BOOLEAN /\ late \in BOOLEAN /\ fault \in BOOLEAN
  /\ setCount \in 0 .. MaxSets /\ slowCount \in 0 .. MaxSlow
  /\ faultCount \in 0 .. MaxFaults

\* The indicator is green and no command is under way.
Green == state = "IDLE" /\ color = "GREEN"

\* A green indicator is true once the command is over: the mount has reached the
\* mode asked for last, whatever was lost, refused or repeated, as long as no
\* command was sent while an answer was outstanding: answers do not say what they
\* answer.  While a command is under way green is not: setMount does not touch the
\* indicator, which may stay green for the mode before until an answer, or its
\* lack, has decided.
GreenIsReached ==
  color = "GREEN" /\ ~late =>
    state # "IDLE" \/ (mode = wanted /\ (wanted = "ACTIVE" => steady))

\* Commands of the main and the data thread may overtake each other's answers;
\* if none is lost, the mount still ends up in the mode asked for last.
LastCommandWins ==
  Green /\ ~fault /\ plugged /\ commands = << >> => mode = wanted

\* The machine comes to rest, with a mount that is slow, refuses or is gone.  The
\* exception: the question is asked without end if it was asked on the strength of
\* another command's answer and the one to become active was lost.
ComesToRest == []<>(state = "IDLE" \/ (late /\ fault))
=============================================================================
