----------------------------- MODULE Lines_proofs -----------------------------
(***************************************************************************)
(* Two lines that answer late, in pieces or not at all: the serial line of *)
(* the camera mount and a channel of the interprocess library.             *)
(*                                                                         *)
(* The mount, for any patience, number of tries and bounds.  That green    *)
(* means reached needs more than what is on the line: as long as no        *)
(* command has been sent too early, there is at most one command or        *)
(* answer, and it belongs to the state the machine is in.  That the last   *)
(* command wins needs no such thing, for commands are obeyed in order: the *)
(* last one to change the mode tells what the mount will be.               *)
(*                                                                         *)
(* The channel, for any base and width of the integers, terminator, room   *)
(* and messages: it implements a mailbox.  The messages sent lie behind    *)
(* each other in one stream of bytes, of which the socket holds the next   *)
(* ones; what an accept has in its hands is the piece of that stream it    *)
(* has read, so that one that began with a message knows where in it it    *)
(* is.  A line that is read from the inside of another ends where that one *)
(* or the next ends, because neither holds its terminator earlier.         *)
(***************************************************************************)
EXTENDS Mount, Channel, SequenceTheorems, FiniteSetTheorems, WellFoundedInduction, TLAPS

-----------------------------------------------------------------------------
(* The mount                                                               *)


\* A command is repeated only while it may be.
Counted ==
  state \in DOMAIN Awaits => tries < Tries /\ iters < Patience

\* A mount that is not used is left alone; one that is used is told what is
\* wanted.
Wants ==
  /\ ~used => state = "IDLE" /\ color = "UNUSED"
  /\ state \in {"S0_MAKE_CONNECTION", "SEND_S0", "GET_S0_REPLY"} => wanted = "IDLE"
  /\ state \in {"S1_MAKE_CONNECTION", "SEND_S1", "GET_S1_REPLY", "SEND_S",
                "GET_S_REPLY"} => wanted = "ACTIVE"

\* At most one command or answer is on the line, and it is the state's.
InStep ==
  /\ commands = << >> \/ replies = << >>
  /\ Len(commands) <= 1 /\ Len(replies) <= 1
  /\ commands # << >> =>
       /\ state = "GET_S0_REPLY" => Head(commands) = "S0"
       /\ state = "GET_S1_REPLY" => Head(commands) = "S1"
       /\ state = "GET_S_REPLY" => Head(commands) = "s"
  /\ state = "GET_S0_REPLY" /\ Answered => mode = "IDLE"
  /\ state = "GET_S1_REPLY" /\ Answered => mode = "ACTIVE"
  /\ state \in {"SEND_S", "GET_S_REPLY"} => mode = "ACTIVE"
  /\ state = "GET_S_REPLY" /\ Reached => steady
  /\ state = "SEND_S" \/ Green => commands = << >> /\ replies = << >>
  /\ Green => mode = wanted /\ (wanted = "ACTIVE" => steady)

\* When all commands have been obeyed, the mode is the one of command.
Ends(command) ==
  \/ /\ mode = (IF command = "S0" THEN "IDLE" ELSE "ACTIVE")
     /\ \A i \in 1..Len(commands) : commands[i] = "s"
  \/ \E i \in 1..Len(commands) :
       /\ commands[i] = command
       /\ \A j \in 1..Len(commands) : j > i => commands[j] = "s"

\* What has been sent last is what is wanted.
Heading ==
  /\ state = "GET_S0_REPLY" => Ends("S0")
  /\ state \in {"GET_S1_REPLY", "SEND_S", "GET_S_REPLY"} => Ends("S1")
  /\ Green => Ends(IF wanted = "IDLE" THEN "S0" ELSE "S1")

MountInv ==
  /\ TypeOK /\ Counted /\ Wants
  /\ ~late => InStep
  /\ ~fault /\ plugged => Heading

-----------------------------------------------------------------------------
(* What the machine's tables hold                                          *)

LEMMA Tables ==
  /\ DOMAIN Connect = {"S0_MAKE_CONNECTION", "S1_MAKE_CONNECTION"}
  /\ DOMAIN Sends = {"SEND_S0", "SEND_S1", "SEND_S"}
  /\ DOMAIN Awaits = {"GET_S0_REPLY", "GET_S1_REPLY", "GET_S_REPLY"}
  /\ Connect["S0_MAKE_CONNECTION"] = "SEND_S0"
  /\ Connect["S1_MAKE_CONNECTION"] = "SEND_S1"
  /\ Sends["SEND_S0"] = "S0" /\ Sends["SEND_S1"] = "S1" /\ Sends["SEND_S"] = "s"
  /\ Awaits["GET_S0_REPLY"] = "S0" /\ Awaits["GET_S1_REPLY"] = "S1"
  /\ Awaits["GET_S_REPLY"] = "s"
  /\ Start["IDLE"] = "S0_MAKE_CONNECTION" /\ Start["ACTIVE"] = "S1_MAKE_CONNECTION"
BY DEF Connect, Sends, Awaits, Start

\* A command is appended to what is on the line, if it is plugged in.
LEMMA Appended ==
  ASSUME NEW c \in {"S0", "S1", "s"}, NEW cs \in Seq({"S0", "S1", "s"})
  PROVE  /\ Append(cs, c) \in Seq({"S0", "S1", "s"}) /\ Append(cs, c) # << >>
         /\ Len(Append(cs, c)) = Len(cs) + 1 /\ Len(cs) \in Nat
         /\ Append(cs, c)[Len(cs) + 1] = c
         /\ \A i \in 1..Len(cs) : Append(cs, c)[i] = cs[i]
         /\ cs = << >> => Len(cs) = 0 /\ Head(Append(cs, c)) = c
OBVIOUS

-----------------------------------------------------------------------------
(* What the mount will be                                                  *)

\* A command that changes the mode decides it,
LEMMA WriteDecides ==
  ASSUME TypeOK, NEW c \in {"S0", "S1"}, commands' = Append(commands, c)
  PROVE  Ends(c)'
<1>1. /\ Len(commands') = Len(commands) + 1 /\ Len(commands) \in Nat
      /\ commands'[Len(commands) + 1] = c
  BY Appended DEF TypeOK
<1>2. Len(commands) + 1 \in 1..Len(commands')
  BY <1>1
<1>3. \A j \in 1..Len(commands') : ~(j > Len(commands) + 1)
  BY <1>1
<1> QED BY <1>1, <1>2, <1>3 DEF Ends

\* and the question leaves it,
LEMMA AskingLeaves ==
  ASSUME TypeOK, NEW c \in {"S0", "S1"}, Ends(c), mode' = mode,
         commands' = Append(commands, "s")
  PROVE  Ends(c)'
<1>1. /\ Len(commands') = Len(commands) + 1 /\ Len(commands) \in Nat
      /\ commands'[Len(commands) + 1] = "s"
      /\ \A i \in 1..Len(commands) : commands'[i] = commands[i]
  BY Appended DEF TypeOK
<1>2. CASE /\ mode = (IF c = "S0" THEN "IDLE" ELSE "ACTIVE")
           /\ \A i \in 1..Len(commands) : commands[i] = "s"
  <2>1. \A i \in 1..Len(commands') : commands'[i] = "s"
    <3> TAKE i \in 1..Len(commands')
    <3>1. i \in 1..Len(commands) \/ i = Len(commands) + 1
      BY <1>1
    <3> QED BY <1>1, <1>2, <3>1
  <2> QED BY <1>2, <2>1 DEF Ends
<1>3. ASSUME NEW i \in 1..Len(commands), commands[i] = c,
             \A j \in 1..Len(commands) : j > i => commands[j] = "s"
      PROVE  Ends(c)'
  <2>1. i \in 1..Len(commands') /\ commands'[i] = c
    BY <1>1, <1>3
  <2>2. \A j \in 1..Len(commands') : j > i => commands'[j] = "s"
    <3> TAKE j \in 1..Len(commands')
    <3>1. j \in 1..Len(commands) \/ j = Len(commands) + 1
      BY <1>1
    <3> QED BY <1>1, <1>3, <3>1
  <2> QED BY <2>1, <2>2 DEF Ends
<1> QED BY <1>2, <1>3 DEF Ends

\* as does the mount that obeys.
LEMMA ObeyLeaves ==
  ASSUME TypeOK, Obey, NEW c \in {"S0", "S1"}, Ends(c)
  PROVE  Ends(c)'
<1>1. /\ commands \in Seq({"S0", "S1", "s"}) /\ commands # << >>
      /\ commands' = Tail(commands) /\ Len(commands) \in Nat /\ Len(commands) >= 1
      /\ commands[1] \in {"S0", "S1", "s"} /\ Head(commands) = commands[1]
  BY DEF TypeOK, Obey
<1>2. /\ Len(commands') = Len(commands) - 1
      /\ \A i \in 1..Len(commands') : commands'[i] = commands[i + 1]
  BY <1>1
<1>3. /\ commands[1] = "S0" => mode' = "IDLE"
      /\ commands[1] = "S1" => mode' = "ACTIVE"
      /\ commands[1] = "s" => mode' = mode
  BY <1>1 DEF Obey
<1>4. CASE /\ mode = (IF c = "S0" THEN "IDLE" ELSE "ACTIVE")
           /\ \A i \in 1..Len(commands) : commands[i] = "s"
  <2>1. commands[1] = "s" /\ mode' = mode
    BY <1>1, <1>3, <1>4
  <2>2. \A i \in 1..Len(commands') : commands'[i] = "s"
    <3> TAKE i \in 1..Len(commands')
    <3>1. i + 1 \in 1..Len(commands)
      BY <1>1, <1>2
    <3> QED BY <1>2, <1>4, <3>1
  <2> QED BY <1>4, <2>1, <2>2 DEF Ends
<1>5. ASSUME NEW i \in 1..Len(commands), commands[i] = c,
             \A j \in 1..Len(commands) : j > i => commands[j] = "s"
      PROVE  Ends(c)'
  <2>1. \A j \in 1..Len(commands') : j > i - 1 => commands'[j] = "s"
    <3> TAKE j \in 1..Len(commands')
    <3>1. j + 1 \in 1..Len(commands) /\ (j > i - 1 => j + 1 > i)
      BY <1>1, <1>2
    <3> QED BY <1>2, <1>5, <3>1
  <2>2. CASE i = 1
    <3>1. mode' = (IF c = "S0" THEN "IDLE" ELSE "ACTIVE")
      BY <1>3, <1>5, <2>2
    <3>2. \A j \in 1..Len(commands') : commands'[j] = "s"
      BY <2>1, <2>2
    <3> QED BY <3>1, <3>2 DEF Ends
  <2>3. CASE i > 1
    <3>1. i - 1 \in 1..Len(commands') /\ i = (i - 1) + 1
      BY <1>1, <1>2, <2>3
    <3>2. commands'[i - 1] = c
      BY <1>2, <1>5, <3>1
    <3> QED BY <2>1, <3>1, <3>2 DEF Ends
  <2> QED BY <2>2, <2>3
<1> QED BY <1>4, <1>5 DEF Ends

LEMMA EndsStutters ==
  ASSUME NEW c \in {"S0", "S1"}, Ends(c), UNCHANGED <<mode, commands>>
  PROVE  Ends(c)'
BY DEF Ends

\* With nothing under way the mode is what it ends in.
LEMMA Arrived ==
  ASSUME NEW c \in {"S0", "S1"}, Ends(c), commands = << >>
  PROVE  mode = (IF c = "S0" THEN "IDLE" ELSE "ACTIVE")
<1>1. 1..Len(commands) = {}
  OBVIOUS
<1> QED BY <1>1 DEF Ends

-----------------------------------------------------------------------------
(* Each step keeps the invariant                                           *)

LEMMA InitInv == Init => MountInv
<1> SUFFICES ASSUME Init PROVE MountInv
  OBVIOUS
<1>1. state \in {"IDLE", "S0_MAKE_CONNECTION"} /\ color \in {"YELLOW", "UNUSED"}
      /\ (~used => state = "IDLE" /\ color = "UNUSED")
  BY Tables DEF Init
<1>2. /\ used \in BOOLEAN /\ open \in BOOLEAN /\ plugged \in BOOLEAN
      /\ steady \in BOOLEAN /\ late \in BOOLEAN /\ fault \in BOOLEAN
  BY DEF Init
<1>3. /\ iters \in 0..Patience /\ tries \in 0..Tries /\ setCount \in 0..MaxSets
      /\ slowCount \in 0..MaxSlow /\ faultCount \in 0..MaxFaults
  BY PatienceAssumption, TriesAssumption, MountBoundsAssumption DEF Init
<1>4. /\ commands \in Seq({"S0", "S1", "s"}) /\ replies \in Seq({"+", "+0", "+1", "?"})
      /\ commands = << >> /\ replies = << >>
      /\ Len(commands) = 0 /\ Len(replies) = 0
  BY DEF Init
<1>5. TypeOK
  BY <1>1, <1>2, <1>3, <1>4, Tables DEF Init, TypeOK, Modes
<1>6. Counted /\ Wants /\ InStep /\ Heading
  BY <1>1, <1>4, Tables DEF Init, Counted, Wants, InStep, Heading, Green
<1> QED BY <1>5, <1>6 DEF MountInv

LEMMA MakeConnectionKeeps == MountInv /\ MakeConnection => MountInv'
<1> SUFFICES ASSUME MountInv, MakeConnection PROVE MountInv'
  OBVIOUS
<1> USE Tables DEF MountInv
<1>1. /\ \/ state = "S0_MAKE_CONNECTION" /\ state' = "SEND_S0" /\ color' = color
         \/ state = "S1_MAKE_CONNECTION" /\ state' = "SEND_S1" /\ color' = color
         \/ state' = "IDLE" /\ color' = "RED"
      /\ state # "IDLE" /\ open' \in BOOLEAN
      /\ UNCHANGED <<used, iters, tries, lineVars, mountVars, historyVars, countVars>>
  BY DEF MakeConnection, GiveUp, TypeOK
<1>2. TypeOK'
  BY <1>1 DEF TypeOK, lineVars, mountVars, historyVars, countVars
<1>3. Counted' /\ Wants'
  BY <1>1 DEF Counted, Wants, historyVars
<1>4. ~late' => InStep'
  BY <1>1 DEF InStep, Green, Answered, Reached, lineVars, mountVars, historyVars
<1>5. ~fault' /\ plugged' => Heading'
  BY <1>1 DEF Heading, Green
<1> QED BY <1>2, <1>3, <1>4, <1>5

\* What write does, whatever the state
LEMMA WriteTyped ==
  ASSUME TypeOK, NEW c \in {"S0", "S1", "s"}, Write(c)
  PROVE  /\ commands' \in Seq({"S0", "S1", "s"}) /\ iters' = 0 /\ late' \in BOOLEAN
         /\ ~late' => /\ ~late /\ commands = << >> /\ replies = << >>
                      /\ Len(commands') <= 1
                      /\ commands' # << >> => Head(commands') = c
         /\ plugged => commands' = Append(commands, c)
<1>1. commands' \in Seq({"S0", "S1", "s"})
  BY Appended DEF Write, TypeOK
<1>2. late' \in BOOLEAN /\ (~late' => ~late /\ commands = << >> /\ replies = << >>)
  BY DEF Write, TypeOK
<1>3. ASSUME commands = << >>
      PROVE  Len(commands') <= 1 /\ (commands' # << >> => Head(commands') = c)
  <2>1. CASE plugged
    BY <1>3, <2>1, Appended DEF Write, TypeOK
  <2>2. CASE ~plugged
    <3>1. commands' = << >> /\ Len(commands') = 0
      BY <1>3, <2>2 DEF Write
    <3> QED BY <3>1
  <2> QED BY <2>1, <2>2
<1> QED BY <1>1, <1>2, <1>3 DEF Write

\* A command of the state is sent, for the first time or again.
Sending(c) ==
  /\ Write(c)
  /\ \/ c = "S0" /\ state \in {"SEND_S0", "GET_S0_REPLY"} /\ state' = "GET_S0_REPLY"
     \/ c = "S1" /\ state \in {"SEND_S1", "GET_S1_REPLY"} /\ state' = "GET_S1_REPLY"
     \/ c = "s" /\ state \in {"SEND_S", "GET_S_REPLY"} /\ state' = "GET_S_REPLY"
  /\ UNCHANGED <<color, used, mode, steady, plugged, wanted, fault>>
  /\ replies' = replies \/ replies' = << >>
  /\ tries' \in 0..(Tries - 1)

LEMMA SendingKeeps ==
  ASSUME MountInv, NEW c \in {"S0", "S1", "s"}, Sending(c)
  PROVE  Counted' /\ Wants' /\ (~late' => InStep') /\ (~fault' /\ plugged' => Heading')
<1> USE DEF MountInv
<1>1. /\ commands' \in Seq({"S0", "S1", "s"}) /\ iters' = 0
      /\ ~late' => /\ ~late /\ commands = << >> /\ replies = << >>
                   /\ Len(commands') <= 1
                   /\ commands' # << >> => Head(commands') = c
      /\ plugged => commands' = Append(commands, c)
  BY WriteTyped DEF Sending
<1>2. Counted'
  <2>1. tries' < Tries
    BY TriesAssumption DEF Sending
  <2>2. iters' < Patience
    BY <1>1, PatienceAssumption
  <2> QED BY <2>1, <2>2 DEF Counted
<1>3. Wants'
  BY DEF Sending, Wants
<1>4. ASSUME ~late' PROVE InStep'
  <2>1. replies' = << >> /\ Len(replies') = 0
    BY <1>1, <1>4 DEF Sending
  <2>2. ~Answered' /\ ~Reached' /\ ~Green' /\ state' # "SEND_S"
    BY <2>1 DEF Answered, Reached, Green, Sending
  <2>3. c = "s" => mode' = "ACTIVE"
    BY <1>1, <1>4 DEF Sending, InStep
  <2>4. /\ c = "S0" => state' = "GET_S0_REPLY"
        /\ c = "S1" => state' = "GET_S1_REPLY"
        /\ c = "s" => state' = "GET_S_REPLY"
    BY DEF Sending
  <2> QED BY <1>1, <1>4, <2>1, <2>2, <2>3, <2>4 DEF InStep
<1>5. ASSUME ~fault', plugged' PROVE Heading'
  <2>1. Heading /\ commands' = Append(commands, c) /\ mode' = mode /\ ~Green'
    BY <1>1, <1>5 DEF Sending, Green
  <2>2. CASE c = "S0"
    BY <2>1, <2>2, WriteDecides DEF Sending, Heading
  <2>3. CASE c = "S1"
    BY <2>1, <2>3, WriteDecides DEF Sending, Heading
  <2>4. CASE c = "s"
    BY <2>1, <2>4, AskingLeaves DEF Sending, Heading
  <2> QED BY <2>2, <2>3, <2>4
<1> QED BY <1>2, <1>3, <1>4, <1>5

\* The machine gives up: it rests, and is not green.
LEMMA GivingUpKeeps ==
  ASSUME MountInv, GiveUp, used' = used, used,
         commands' = commands, mode' = mode, steady' = steady, late' = late,
         replies' = replies \/ replies' = << >>
  PROVE  Counted' /\ Wants' /\ (~late' => InStep') /\ Heading'
<1> USE DEF MountInv
<1>1. state' = "IDLE" /\ color' = "RED"
  BY DEF GiveUp
<1>2. Counted' /\ Wants' /\ Heading'
  BY <1>1, Tables DEF Counted, Wants, Heading, Green
<1>3. ASSUME ~late PROVE InStep'
  <2>1. Len(replies') <= 1 /\ (commands' = << >> \/ replies' = << >>)
    <3>1. Len(<< >>) = 0
      OBVIOUS
    <3> QED BY <1>3, <3>1 DEF InStep
  <2> QED BY <1>1, <1>3, <2>1 DEF InStep, Green
<1> QED BY <1>2, <1>3

LEMMA WorksUsed ==
  ASSUME MountInv, state # "IDLE"
  PROVE  used
BY DEF MountInv, Wants

LEMMA SendKeeps == MountInv /\ Send => MountInv'
<1> SUFFICES ASSUME MountInv, Send PROVE MountInv'
  OBVIOUS
<1> USE DEF MountInv
<1>1. state \in {"SEND_S0", "SEND_S1", "SEND_S"} /\ used
  BY Tables, WorksUsed DEF Send
<1>2. UNCHANGED <<used, open, replies, plugged, mode, steady, wanted, fault,
                  setCount, slowCount, faultCount>>
  BY DEF Send, mountVars, countVars
<1>3. 0 \in 0..Tries /\ 0 \in 0..(Tries - 1) /\ 0 \in 0..Patience
  BY TriesAssumption, PatienceAssumption
<1>4. CASE GiveUp /\ UNCHANGED <<commands, iters, late, tries>>
  <2>1. TypeOK'
    BY <1>2, <1>4 DEF TypeOK, GiveUp
  <2> QED BY <1>1, <1>2, <1>4, <2>1, GivingUpKeeps
<1>5. CASE /\ Write(Sends[state]) /\ tries' = 0
           /\ state' \in DOMAIN Awaits /\ Awaits[state'] = Sends[state]
           /\ UNCHANGED color
  <2>1. PICK c \in {"S0", "S1", "s"} : c = Sends[state] /\ Sending(c)
    BY <1>1, <1>2, <1>3, <1>5, Tables DEF Sending
  <2>2. commands' \in Seq({"S0", "S1", "s"}) /\ iters' = 0 /\ late' \in BOOLEAN
    BY <2>1, WriteTyped DEF Sending
  <2>3. TypeOK'
    BY <1>2, <1>3, <1>5, <2>2 DEF TypeOK
  <2> QED BY <2>1, <2>3, SendingKeeps
<1> QED BY <1>4, <1>5 DEF Send

LEMMA GetReplyKeeps == MountInv /\ GetReply => MountInv'
<1> SUFFICES ASSUME MountInv, GetReply PROVE MountInv'
  OBVIOUS
<1> USE DEF MountInv
<1>1. /\ state \in {"GET_S0_REPLY", "GET_S1_REPLY", "GET_S_REPLY"} /\ used /\ Answered
      /\ UNCHANGED <<used, open, iters, tries, commands, plugged, mode, steady,
                     wanted, late, fault, setCount, slowCount, faultCount>>
  BY Tables, WorksUsed DEF GetReply, mountVars, historyVars, countVars
<1>2. replies' = << >> /\ Len(replies') = 0 /\ replies # << >>
      /\ replies' \in Seq({"+", "+0", "+1", "?"})
  BY DEF GetReply, Answered
<1>3. \/ /\ state = "GET_S0_REPLY" \/ (state = "GET_S_REPLY" /\ Reached)
         /\ color' = "GREEN" /\ state' = "IDLE"
      \/ /\ state \in {"GET_S1_REPLY", "GET_S_REPLY"}
         /\ state' = "SEND_S" /\ color' = color
  BY <1>1, Tables DEF GetReply
<1>4. TypeOK'
  BY <1>1, <1>2, <1>3, Tables DEF TypeOK
<1>5. Counted' /\ Wants'
  BY <1>1, <1>3, Tables DEF Counted, Wants
<1>6. ASSUME ~late PROVE InStep'
  BY <1>1, <1>2, <1>3, <1>6 DEF InStep, Answered, Reached, Green, Wants
<1>7. ASSUME ~fault, plugged PROVE Heading'
  <2>1. \A c \in {"S0", "S1"} : Ends(c) => Ends(c)'
    BY <1>1, EndsStutters
  <2> QED BY <1>1, <1>3, <1>7, <2>1 DEF Heading, Wants, Green
<1> QED BY <1>1, <1>4, <1>5, <1>6, <1>7

LEMMA NoReplyKeeps == MountInv /\ NoReply => MountInv'
<1> SUFFICES ASSUME MountInv, NoReply PROVE MountInv'
  OBVIOUS
<1> USE DEF MountInv
<1>1. /\ state \in {"GET_S0_REPLY", "GET_S1_REPLY", "GET_S_REPLY"} /\ used
      /\ ~Answered /\ state \in DOMAIN Awaits
      /\ UNCHANGED <<used, open, plugged, mode, steady, wanted, fault, setCount,
                     faultCount>>
  BY Tables, WorksUsed DEF NoReply, mountVars
<1>2. replies' = << >> /\ Len(replies') = 0
      /\ replies' \in Seq({"+", "+0", "+1", "?"})
  BY DEF NoReply
<1>3. /\ tries \in Nat /\ tries < Tries /\ iters \in Nat /\ iters < Patience
      /\ Tries \in Nat /\ Patience \in Nat
  BY <1>1, TriesAssumption, PatienceAssumption DEF TypeOK, Counted
<1>4. slowCount' \in 0..MaxSlow
  BY MountBoundsAssumption DEF NoReply, TypeOK
<1>5. CASE /\ iters' = iters + 1 /\ iters + 1 # Patience
           /\ UNCHANGED <<tries, state, color, commands, late, slowCount>>
  <2>1. iters' \in 0..Patience /\ iters' < Patience
    BY <1>3, <1>5
  <2>2. TypeOK'
    BY <1>1, <1>2, <1>5, <2>1 DEF TypeOK
  <2>3. Counted' /\ Wants'
    BY <1>1, <1>3, <1>5, <2>1 DEF Counted, Wants
  <2>4. ASSUME ~late PROVE InStep'
    BY <1>1, <1>2, <1>5, <2>4 DEF InStep, Answered, Reached, Green
  <2>5. ASSUME ~fault, plugged PROVE Heading'
    <3>1. \A c \in {"S0", "S1"} : Ends(c) => Ends(c)'
      BY <1>1, <1>5, EndsStutters
    <3> QED BY <1>1, <1>5, <2>5, <3>1 DEF Heading, Green
  <2> QED BY <1>1, <1>5, <2>2, <2>3, <2>4, <2>5
<1>6. CASE Repeat
  <2>1. tries' = tries + 1 /\ tries' \in 0..Tries
    BY <1>3, <1>6 DEF Repeat, NextTry
  <2>2. CASE /\ tries + 1 # Tries /\ Write(Awaits[state])
             /\ UNCHANGED <<color, state>>
    <3>1. tries' \in 0..(Tries - 1)
      BY <1>3, <2>1, <2>2
    <3>2. PICK c \in {"S0", "S1", "s"} : Sending(c)
      BY <1>1, <1>2, <2>2, <3>1, Tables DEF Sending
    <3>3. commands' \in Seq({"S0", "S1", "s"}) /\ iters' = 0 /\ late' \in BOOLEAN
      BY <3>2, WriteTyped DEF Sending
    <3>4. iters' \in 0..Patience
      BY <1>3, <3>3
    <3>5. TypeOK'
      BY <1>1, <1>2, <1>4, <2>1, <2>2, <3>3, <3>4 DEF TypeOK
    <3> QED BY <3>2, <3>5, SendingKeeps
  <2>3. CASE GiveUp /\ UNCHANGED <<commands, late>> /\ iters' = iters + 1
    <3>1. iters' \in 0..Patience
      BY <1>3, <2>3
    <3>2. TypeOK'
      BY <1>1, <1>2, <1>4, <2>1, <2>3, <3>1 DEF TypeOK, GiveUp
    <3> QED BY <1>1, <1>2, <2>3, <3>2, GivingUpKeeps
  <2> QED BY <1>6, <2>2, <2>3 DEF Repeat, NextTry
<1> QED BY <1>5, <1>6 DEF NoReply

\* The machine is sent to the start of another command.
LEMMA SetMountKeeps ==
  ASSUME MountInv, NEW m \in Modes, SetMount(m)
  PROVE  MountInv'
<1> USE DEF MountInv
<1>1. state' = (IF m = "IDLE" THEN "S0_MAKE_CONNECTION" ELSE "S1_MAKE_CONNECTION")
      /\ wanted' = m /\ used
  BY Tables DEF SetMount, Modes
<1>2. UNCHANGED <<used, color, open, iters, tries, commands, replies, plugged, mode,
                  steady, late, fault, slowCount, faultCount>>
  BY DEF SetMount, lineVars, mountVars
<1>3. setCount' \in 0..MaxSets
  BY MountBoundsAssumption DEF SetMount, TypeOK
<1>4. TypeOK'
  BY <1>1, <1>2, <1>3, Tables DEF TypeOK
<1>5. Counted' /\ Wants' /\ Heading'
  BY <1>1, <1>2, Tables DEF Counted, Wants, Heading, Green, Modes
<1>6. ASSUME ~late PROVE InStep'
  BY <1>1, <1>2, <1>6 DEF InStep, Green
<1> QED BY <1>2, <1>4, <1>5, <1>6

LEMMA SettingsKeep ==
  ASSUME MountInv, MakeMountUnused \/ MakeMountUsed
  PROVE  MountInv'
<1> USE DEF MountInv
<1>1. /\ setCount' \in 0..MaxSets
      /\ UNCHANGED <<iters, tries, commands, replies, plugged, mode, steady, late,
                     fault, slowCount, faultCount>>
  BY MountBoundsAssumption
  DEF MakeMountUnused, MakeMountUsed, TypeOK, lineVars, mountVars, historyVars
<1>2. used' \in BOOLEAN /\ open' \in BOOLEAN
  BY DEF MakeMountUnused, MakeMountUsed, TypeOK
<1>3. \/ state' = "IDLE" /\ color' = "UNUSED" /\ ~used' /\ wanted' = wanted
      \/ state' = "S0_MAKE_CONNECTION" /\ color' = "YELLOW" /\ used' /\ wanted' = "IDLE"
      \/ state' = "IDLE" /\ color' = "RED" /\ used' /\ wanted' = wanted
  BY Tables DEF MakeMountUnused, MakeMountUsed, historyVars, Wants
<1>4. TypeOK'
  BY <1>1, <1>2, <1>3, Tables DEF TypeOK, Modes
<1>5. Counted' /\ Wants' /\ Heading'
  BY <1>1, <1>3, Tables DEF Counted, Wants, Heading, Green
<1>6. ASSUME ~late PROVE InStep'
  BY <1>1, <1>3, <1>6 DEF InStep, Green
<1> QED BY <1>1, <1>4, <1>5, <1>6

\* The only command on the line is taken and answered.
LEMMA ObeyKeeps == MountInv /\ Obey => MountInv'
<1> SUFFICES ASSUME MountInv, Obey PROVE MountInv'
  OBVIOUS
<1> USE DEF MountInv
<1> DEFINE command == Head(commands)
           reply == IF command # "s" THEN "+" ELSE IF steady THEN "+1" ELSE "+0"
<1>1. /\ plugged /\ commands # << >> /\ commands' = Tail(commands)
      /\ replies' = Append(replies, reply)
      /\ UNCHANGED <<used, state, color, open, iters, tries, plugged, wanted, late,
                     fault, setCount, slowCount, faultCount>>
  BY DEF Obey, machineVars, historyVars, countVars
<1>2. /\ command \in {"S0", "S1", "s"} /\ commands' \in Seq({"S0", "S1", "s"})
      /\ Len(commands) \in Nat /\ Len(commands) >= 1
      /\ Len(commands') = Len(commands) - 1
  BY <1>1 DEF TypeOK
<1>3. /\ mode' = (IF command = "S0" THEN "IDLE"
                  ELSE IF command = "S1" THEN "ACTIVE" ELSE mode)
      /\ mode' \in Modes
  BY <1>2 DEF Obey, Modes, TypeOK
<1>4. steady' = (steady /\ mode' = "ACTIVE") /\ steady' \in BOOLEAN
  BY DEF Obey, TypeOK
<1>5. reply \in {"+", "+0", "+1", "?"} /\ reply # "?"
  OBVIOUS
<1>6. replies' \in Seq({"+", "+0", "+1", "?"})
  BY <1>1, <1>5 DEF TypeOK
<1>7. TypeOK'
  BY <1>1, <1>2, <1>3, <1>4, <1>6 DEF TypeOK
<1>8. Counted' /\ Wants'
  BY <1>1 DEF Counted, Wants
<1>9. ASSUME ~late PROVE InStep'
  <2>1. InStep /\ commands' = << >> /\ replies = << >>
    BY <1>1, <1>2, <1>9 DEF InStep
  <2>2. replies' = <<reply>> /\ Len(replies') = 1 /\ Len(commands') = 0
    <3> HIDE DEF reply
    <3>1. Append(<< >>, reply) = <<reply>> /\ Len(<<reply>>) = 1
      OBVIOUS
    <3> QED BY <1>1, <2>1, <3>1
  <2>3. state # "SEND_S" /\ ~Green /\ ~Green'
    BY <1>1, <2>1 DEF InStep, Green
  <2>4. Reached' => reply = "+1"
    BY <2>2 DEF Reached
  <2>5. reply = "+1" => command = "s" /\ steady
    OBVIOUS
  <2>6. CASE state = "GET_S0_REPLY"
    BY <1>1, <1>3, <2>1, <2>2, <2>3, <2>6 DEF InStep
  <2>7. CASE state = "GET_S1_REPLY"
    BY <1>1, <1>3, <2>1, <2>2, <2>3, <2>7 DEF InStep
  <2>8. CASE state = "GET_S_REPLY"
    <3>1. command = "s" /\ mode' = "ACTIVE" /\ mode' = mode
      BY <1>1, <1>3, <2>1, <2>8 DEF InStep
    <3>2. steady => steady'
      BY <1>4, <3>1
    <3> QED BY <1>1, <2>1, <2>2, <2>3, <2>4, <2>5, <2>8, <3>1, <3>2 DEF InStep
  <2>9. CASE state \notin {"GET_S0_REPLY", "GET_S1_REPLY", "GET_S_REPLY"}
    BY <1>1, <2>1, <2>2, <2>3, <2>9 DEF InStep
  <2> QED BY <2>6, <2>7, <2>8, <2>9
<1>10. ASSUME ~fault PROVE Heading'
  <2>1. \A c \in {"S0", "S1"} : Ends(c) => Ends(c)'
    BY ObeyLeaves
  <2> QED BY <1>1, <1>10, <2>1 DEF Heading, Green
<1> QED BY <1>1, <1>7, <1>8, <1>9, <1>10

LEMMA FailKeeps == MountInv /\ Fail => MountInv'
<1> SUFFICES ASSUME MountInv, Fail PROVE MountInv'
  OBVIOUS
<1> USE DEF MountInv
<1>1. /\ commands # << >> /\ commands' = Tail(commands) /\ fault'
      /\ fault' \in BOOLEAN
      /\ replies' = replies \/ replies' = Append(replies, "?")
      /\ UNCHANGED <<used, state, color, open, iters, tries, plugged, mode, steady,
                     wanted, late, setCount, slowCount>>
  BY DEF Fail, machineVars, mountVars
<1>2. /\ commands' \in Seq({"S0", "S1", "s"}) /\ Len(commands) \in Nat
      /\ Len(commands) >= 1 /\ Len(commands') = Len(commands) - 1
  BY <1>1 DEF TypeOK
<1>3. replies' \in Seq({"+", "+0", "+1", "?"})
  <2>1. replies \in Seq({"+", "+0", "+1", "?"})
    BY DEF TypeOK
  <2>2. Append(replies, "?") \in Seq({"+", "+0", "+1", "?"})
    BY <2>1
  <2> QED BY <1>1, <2>1, <2>2
<1>4. faultCount' \in 0..MaxFaults
  BY MountBoundsAssumption DEF Fail, TypeOK
<1>5. TypeOK'
  BY <1>1, <1>2, <1>3, <1>4 DEF TypeOK
<1>6. Counted' /\ Wants'
  BY <1>1 DEF Counted, Wants
<1>7. ASSUME ~late PROVE InStep'
  <2>1. InStep /\ commands' = << >> /\ replies = << >> /\ Len(commands') = 0
    BY <1>1, <1>2, <1>7 DEF InStep
  <2>2. replies' \in {<< >>, <<"?">>} /\ Len(replies') <= 1
    <3>1. Len(<< >>) = 0
      OBVIOUS
    <3> QED BY <1>1, <2>1, <3>1
  <2>3. ~Answered' /\ ~Reached'
    BY <2>2 DEF Answered, Reached
  <2>4. state # "SEND_S" /\ ~Green /\ ~Green'
    BY <1>1, <2>1 DEF InStep, Green
  <2> QED BY <1>1, <2>1, <2>2, <2>3, <2>4 DEF InStep
<1> QED BY <1>1, <1>5, <1>6, <1>7

LEMMA MountMovesKeep ==
  ASSUME MountInv, Settle \/ Unplug
  PROVE  MountInv'
<1> USE DEF MountInv
<1>1. CASE Settle
  <2>1. /\ steady' /\ steady' \in BOOLEAN /\ mode = "ACTIVE"
        /\ UNCHANGED <<used, state, color, open, iters, tries, commands, replies,
                       plugged, mode, wanted, late, fault, setCount, slowCount,
                       faultCount>>
    BY <1>1 DEF Settle, machineVars, lineVars, historyVars, countVars
  <2>2. TypeOK' /\ Counted' /\ Wants'
    BY <2>1 DEF TypeOK, Counted, Wants
  <2>3. ASSUME ~late PROVE InStep'
    BY <2>1, <2>3 DEF InStep, Answered, Reached, Green
  <2>4. ASSUME ~fault, plugged PROVE Heading'
    <3>1. \A c \in {"S0", "S1"} : Ends(c) => Ends(c)'
      BY <2>1, EndsStutters
    <3> QED BY <2>1, <2>4, <3>1 DEF Heading, Green
  <2> QED BY <2>1, <2>2, <2>3, <2>4
<1>2. CASE Unplug
  <2>1. /\ commands' = << >> /\ Len(commands') = 0 /\ ~plugged'
        /\ commands' \in Seq({"S0", "S1", "s"})
        /\ UNCHANGED <<used, state, color, open, iters, tries, replies, mode, steady,
                       wanted, late, setCount, slowCount, faultCount>>
    BY <1>2 DEF Unplug, machineVars, countVars
  <2>2. plugged' \in BOOLEAN /\ fault' \in BOOLEAN
    BY <1>2 DEF Unplug, TypeOK
  <2>3. TypeOK' /\ Counted' /\ Wants'
    BY <2>1, <2>2 DEF TypeOK, Counted, Wants
  <2>4. ASSUME ~late PROVE InStep'
    BY <2>1, <2>4 DEF InStep, Answered, Reached, Green
  <2> QED BY <2>1, <2>3, <2>4
<1> QED BY <1>1, <1>2

LEMMA Stutters ==
  ASSUME MountInv, UNCHANGED vars
  PROVE  MountInv'
<1> USE DEF MountInv
<1>1. UNCHANGED <<used, state, color, open, iters, tries, commands, replies, plugged,
                  mode, steady, wanted, late, fault, setCount, slowCount, faultCount>>
  BY DEF vars, machineVars, lineVars, mountVars, historyVars, countVars
<1>2. TypeOK' /\ Counted' /\ Wants'
  BY <1>1 DEF TypeOK, Counted, Wants
<1>3. ASSUME ~late PROVE InStep'
  BY <1>1, <1>3 DEF InStep, Answered, Reached, Green
<1>4. ASSUME ~fault, plugged PROVE Heading'
  <2>1. \A c \in {"S0", "S1"} : Ends(c) => Ends(c)'
    BY <1>1, EndsStutters
  <2> QED BY <1>1, <1>4, <2>1 DEF Heading, Green
<1> QED BY <1>1, <1>2, <1>3, <1>4

-----------------------------------------------------------------------------
(* Theorems                                                                *)

\* The inductive invariant of the machine, its line and the mount.
THEOREM MountInvariant == Spec => []MountInv
<1>1. Init => MountInv
  BY InitInv
<1>2. MountInv /\ [Next]_vars => MountInv'
  <2> SUFFICES ASSUME MountInv, [Next]_vars PROVE MountInv'
    OBVIOUS
  <2>1. CASE HandleMount
    BY <2>1, MakeConnectionKeeps, SendKeeps, GetReplyKeeps, NoReplyKeeps
    DEF HandleMount
  <2>2. CASE Clients
    BY <2>2, SetMountKeeps, SettingsKeep DEF Clients
  <2>3. CASE Obey \/ Fail \/ Settle \/ Unplug
    BY <2>3, ObeyKeeps, FailKeeps, MountMovesKeep
  <2>4. CASE UNCHANGED vars
    BY <2>4, Stutters
  <2> QED BY <2>1, <2>2, <2>3, <2>4 DEF Next
<1> QED BY <1>1, <1>2, PTL DEF Spec

\* The variables of handleMount keep their types: m_mountCmdTries never passes
\* the number of tries, nor m_mountCmdIterations the patience.
THEOREM TypeCorrect == Spec => []TypeOK
<1>1. MountInv => TypeOK
  BY DEF MountInv
<1> QED BY <1>1, MountInvariant, PTL

\* Once a command of setMount is over a green indicator is true, whatever was lost,
\* refused, repeated or redirected, for as long as no command has overtaken an
\* answer.  While one is under way it may be green for the mode before.
THEOREM GreenAtRestIsTrue == Spec => []GreenIsReached
<1>1. MountInv => GreenIsReached
  BY DEF MountInv, InStep, GreenIsReached, Green
<1> QED BY <1>1, MountInvariant, PTL

\* However the commands that setMount starts overtake the answers to each other,
\* the mount ends up in the mode of the last one if none is lost.
THEOREM LastCommandIsObeyed == Spec => []LastCommandWins
<1>1. MountInv => LastCommandWins
  <2> SUFFICES ASSUME MountInv, Green, ~fault, plugged, commands = << >>
               PROVE  mode = wanted
    BY DEF LastCommandWins
  <2>1. Ends(IF wanted = "IDLE" THEN "S0" ELSE "S1") /\ wanted \in Modes
    BY DEF MountInv, Heading, TypeOK
  <2>2. CASE wanted = "IDLE"
    BY <2>1, <2>2, Arrived
  <2>3. CASE wanted = "ACTIVE"
    BY <2>1, <2>3, Arrived
  <2> QED BY <2>1, <2>2, <2>3 DEF Modes
<1> QED BY <1>1, MountInvariant, PTL

-----------------------------------------------------------------------------
(* Channel: numbers and sequences                                          *)

(* A nonempty set of naturals has a least element.                          *)
LEMMA LeastNatural ==
  ASSUME NEW some, some \subseteq Nat, some # {}
  PROVE  \E x \in some : \A y \in some : x <= y
<1>1. PICK x \in some : \A y \in some : ~ (<<y, x>> \in OpToRel(<, Nat))
  BY NatLessThanWellFounded, WFMin
<1>2. ASSUME NEW y \in some PROVE x <= y
  <2>1. <<y, x>> \in Nat \X Nat
    OBVIOUS
  <2>2. ~ (y < x)
    BY <1>1, <2>1 DEF OpToRel
  <2> QED BY <2>2
<1> QED BY <1>2

(* Induction from 0 to n.                                                    *)
LEMMA UpTo ==
  ASSUME NEW n \in Nat, NEW S, 0 \in S,
         \A k \in 0 .. n : k < n /\ k \in S => k + 1 \in S
  PROVE  \A k \in 0 .. n : k \in S
<1> DEFINE Out == {k \in Nat : k <= n /\ k \notin S}
<1> SUFFICES ASSUME Out # {} PROVE FALSE
  OBVIOUS
<1>1. PICK k \in Out : \A y \in Out : k <= y
  <2>1. Out \subseteq Nat
    OBVIOUS
  <2> HIDE DEF Out
  <2> QED BY <2>1, LeastNatural
<1>2. k \in Nat /\ k <= n /\ k \notin S /\ k # 0
  OBVIOUS
<1>3. k - 1 \in Nat /\ k - 1 <= n /\ k - 1 < n /\ (k - 1) + 1 = k
  BY <1>2
<1>4. k - 1 \in S
  BY <1>1, <1>3
<1> QED BY <1>2, <1>3, <1>4

(* A recursion from 0 to n has a solution.                                   *)
Solves(f, n, base, step) ==
  f[0] = base /\ \A k \in 1 .. n : f[k] = step[<<f[k - 1], k>>]

LEMMA Recursion ==
  ASSUME NEW n \in Nat, NEW D, NEW base \in D, NEW step \in [D \X (1 .. n) -> D]
  PROVE  \E f \in [0 .. n -> D] : Solves(f, n, base, step)
<1> DEFINE S == {m \in 0 .. n : \E f \in [0 .. m -> D] : Solves(f, m, base, step)}
<1>1. 0 \in S
  <2>1. [k \in 0 .. 0 |-> base] \in [0 .. 0 -> D]
    OBVIOUS
  <2>2. Solves([k \in 0 .. 0 |-> base], 0, base, step)
    BY DEF Solves
  <2> QED BY <2>1, <2>2
<1>2. ASSUME NEW m \in 0 .. n, m < n, m \in S PROVE m + 1 \in S
  <2>1. PICK f \in [0 .. m -> D] : Solves(f, m, base, step)
    BY <1>2
  <2> DEFINE g == [k \in 0 .. m + 1 |-> IF k <= m THEN f[k] ELSE step[<<f[m], m + 1>>]]
  <2>2. \A k \in 0 .. m + 1 : k <= m => k \in 0 .. m
    OBVIOUS
  <2>3. <<f[m], m + 1>> \in D \X (1 .. n)
    BY <1>2
  <2>4. g \in [0 .. m + 1 -> D]
    BY <2>2, <2>3
  <2>5. g[0] = base
    BY <2>1, <2>2 DEF Solves
  <2>6. ASSUME NEW k \in 1 .. m + 1 PROVE g[k] = step[<<g[k - 1], k>>]
    <3>1. CASE k <= m
      <4>1. k \in 1 .. m /\ k - 1 \in 0 .. m /\ k \in 0 .. m + 1 /\ k - 1 \in 0 .. m + 1
        BY <3>1
      <4>2. g[k] = f[k] /\ g[k - 1] = f[k - 1]
        BY <4>1
      <4> QED BY <2>1, <4>1, <4>2 DEF Solves
    <3>2. CASE ~(k <= m)
      <4>1. k = m + 1 /\ k - 1 = m
        BY <3>2
      <4>2. g[m + 1] = step[<<f[m], m + 1>>] /\ g[m] = f[m]
        OBVIOUS
      <4> QED BY <4>1, <4>2
    <3> QED BY <3>1, <3>2
  <2> HIDE DEF g
  <2> QED BY <2>4, <2>5, <2>6, <1>2 DEF Solves
<1>3. \A m \in 0 .. n : m \in S
  <2> HIDE DEF S
  <2> QED BY <1>1, <1>2, UpTo
<1> QED BY <1>3

-----------------------------------------------------------------------------
(* Channel: integers travel and come back                                  *)

LEMMA Bases ==
  /\ Base \in Nat /\ Base >= 2 /\ IntBytes \in Nat /\ IntBytes >= 1
  /\ Byte = 0 .. Base - 1 /\ Byte \subseteq Nat
  BY ChannelAssumption DEF Byte

LEMMA Powers ==
  \E power \in [0 .. IntBytes -> Nat] :
    /\ power[0] = 1 /\ power[IntBytes] = Modulus
    /\ \A k \in 1 .. IntBytes : power[k] = Base * power[k - 1]
<1> DEFINE n == IntBytes
           step == [x \in Nat \X (1 .. n) |-> Base * x[1]]
<1>1. n \in Nat /\ step \in [Nat \X (1 .. n) -> Nat]
  BY Bases
<1>2. PICK f \in [0 .. n -> Nat] : Solves(f, n, 1, step)
  <2> HIDE DEF step
  <2> QED BY <1>1, Recursion
<1>3. \A k \in 1 .. n : f[k] = Base * f[k - 1]
  <2> TAKE k \in 1 .. n
  <2>1. k - 1 \in 0 .. n
    BY Bases
  <2>2. <<f[k - 1], k>> \in Nat \X (1 .. n)
    BY <2>1
  <2> QED BY <1>2, <2>2 DEF Solves
<1>4. \A k \in 0 .. n : f[k] = IF k = 0 THEN 1 ELSE Base * f[k - 1]
  BY <1>1, <1>2, <1>3 DEF Solves
<1>5. f = [k \in 0 .. n |-> IF k = 0 THEN 1 ELSE Base * f[k - 1]]
  BY <1>4
<1> DEFINE Power == CHOOSE g : g = [k \in 0 .. n |-> IF k = 0 THEN 1 ELSE Base * g[k - 1]]
<1>6. Power = [k \in 0 .. n |-> IF k = 0 THEN 1 ELSE Base * Power[k - 1]]
  BY <1>5
<1>7. Modulus = Power[n]
  BY DEF Modulus
<1> HIDE DEF Power
<1>8. \A k \in 0 .. n : Power[k] = f[k]
  <2> DEFINE S == {k \in 0 .. n : Power[k] = f[k]}
  <2>1. 0 \in S
    BY <1>1, <1>4, <1>6
  <2>2. ASSUME NEW k \in 0 .. n, k < n, k \in S PROVE k + 1 \in S
    <3>1. k + 1 \in 0 .. n /\ k + 1 # 0 /\ (k + 1) - 1 = k
      BY <1>1, <2>2
    <3> QED BY <1>4, <1>6, <2>2, <3>1
  <2>3. \A k \in 0 .. n : k \in S
    <3> HIDE DEF S
    <3> QED BY <1>1, <2>1, <2>2, UpTo
  <2> QED BY <2>3
<1>9. f[0] = 1 /\ f[n] = Modulus
  BY <1>1, <1>4, <1>7, <1>8
<1> QED BY <1>3, <1>9

(* What Value and Shifted are, step by step.                                 *)
LEMMA Values ==
  ASSUME NEW b \in Seq(Byte)
  PROVE  \E value \in [0 .. Len(b) -> Nat] :
           /\ value[0] = 0 /\ value[Len(b)] = Unsigned(b)
           /\ \A k \in 1 .. Len(b) : value[k] = value[k - 1] * Base + b[k]
<1> DEFINE n == Len(b)
           step == [x \in Nat \X (1 .. n) |-> x[1] * Base + b[x[2]]]
<1>1. n \in Nat /\ step \in [Nat \X (1 .. n) -> Nat]
  <2>1. \A x \in Nat \X (1 .. n) : x[1] \in Nat /\ b[x[2]] \in Nat
    BY Bases
  <2> QED BY <2>1, Bases
<1>2. PICK f \in [0 .. n -> Nat] : Solves(f, n, 0, step)
  <2> HIDE DEF step
  <2> QED BY <1>1, Recursion
<1>3. \A k \in 1 .. n : f[k] = f[k - 1] * Base + b[k]
  <2> TAKE k \in 1 .. n
  <2>1. k - 1 \in 0 .. n
    BY <1>1
  <2>2. <<f[k - 1], k>> \in Nat \X (1 .. n)
    BY <2>1
  <2> QED BY <1>2, <2>2 DEF Solves
<1>4. \A k \in 0 .. n : f[k] = IF k = 0 THEN 0 ELSE f[k - 1] * Base + b[k]
  BY <1>1, <1>2, <1>3 DEF Solves
<1>5. f = [k \in 0 .. n |-> IF k = 0 THEN 0 ELSE f[k - 1] * Base + b[k]]
  BY <1>4
<1> DEFINE Value == CHOOSE g : g = [i \in 0 .. n |-> IF i = 0 THEN 0 ELSE g[i - 1] * Base + b[i]]
<1>6. Value = [i \in 0 .. n |-> IF i = 0 THEN 0 ELSE Value[i - 1] * Base + b[i]]
  BY <1>5
<1>7. Unsigned(b) = Value[n]
  BY DEF Unsigned
<1> HIDE DEF Value
<1>8. \A k \in 0 .. n : Value[k] = f[k]
  <2> DEFINE S == {k \in 0 .. n : Value[k] = f[k]}
  <2>1. 0 \in S
    BY <1>1, <1>4, <1>6
  <2>2. ASSUME NEW k \in 0 .. n, k < n, k \in S PROVE k + 1 \in S
    <3>1. k + 1 \in 0 .. n /\ k + 1 # 0 /\ (k + 1) - 1 = k
      BY <1>1, <2>2
    <3> QED BY <1>4, <1>6, <2>2, <3>1
  <2>3. \A k \in 0 .. n : k \in S
    <3> HIDE DEF S
    <3> QED BY <1>1, <2>1, <2>2, UpTo
  <2> QED BY <2>3
<1>9. f[0] = 0 /\ f[n] = Unsigned(b)
  BY <1>1, <1>4, <1>7, <1>8
<1> QED BY <1>3, <1>9

LEMMA Division ==
  ASSUME NEW a \in Nat
  PROVE  /\ a \div Base \in Nat /\ a % Base \in Byte
         /\ a = (a \div Base) * Base + (a % Base)
  BY Bases

(* The digits of a natural number below Modulus.                             *)
LEMMA Shifts ==
  ASSUME NEW x \in Int, x % Modulus \in Nat
  PROVE  \E shifted \in [0 .. IntBytes -> Nat] :
           /\ shifted[0] = x % Modulus
           /\ \A k \in 1 .. IntBytes : shifted[k] = shifted[k - 1] \div Base
           /\ Canonical(x) = [i \in 1 .. IntBytes |-> shifted[IntBytes - i] % Base]
<1> DEFINE n == IntBytes
           base == x % Modulus
           step == [y \in Nat \X (1 .. n) |-> y[1] \div Base]
<1>1. n \in Nat /\ step \in [Nat \X (1 .. n) -> Nat]
  BY Bases
<1>2. PICK f \in [0 .. n -> Nat] : Solves(f, n, base, step)
  <2> HIDE DEF step
  <2> QED BY <1>1, Recursion
<1>3. \A k \in 1 .. n : f[k] = f[k - 1] \div Base
  <2> TAKE k \in 1 .. n
  <2>1. k - 1 \in 0 .. n
    BY <1>1
  <2>2. <<f[k - 1], k>> \in Nat \X (1 .. n)
    BY <2>1
  <2> QED BY <1>2, <2>2 DEF Solves
<1>4. \A k \in 0 .. n : f[k] = IF k = 0 THEN base ELSE f[k - 1] \div Base
  BY <1>1, <1>2, <1>3 DEF Solves
<1>5. f = [k \in 0 .. n |-> IF k = 0 THEN base ELSE f[k - 1] \div Base]
  BY <1>4
<1> DEFINE Shifted == CHOOSE g : g = [k \in 0 .. n |-> IF k = 0 THEN base ELSE g[k - 1] \div Base]
<1>6. Shifted = [k \in 0 .. n |-> IF k = 0 THEN base ELSE Shifted[k - 1] \div Base]
  BY <1>5
<1>7. Canonical(x) = [i \in 1 .. n |-> Shifted[n - i] % Base]
  BY DEF Canonical
<1> HIDE DEF Shifted
<1>8. \A k \in 0 .. n : Shifted[k] = f[k]
  <2> DEFINE S == {k \in 0 .. n : Shifted[k] = f[k]}
  <2>1. 0 \in S
    BY <1>1, <1>4, <1>6
  <2>2. ASSUME NEW k \in 0 .. n, k < n, k \in S PROVE k + 1 \in S
    <3>1. k + 1 \in 0 .. n /\ k + 1 # 0 /\ (k + 1) - 1 = k
      BY <1>1, <2>2
    <3> QED BY <1>4, <1>6, <2>2, <3>1
  <2>3. \A k \in 0 .. n : k \in S
    <3> HIDE DEF S
    <3> QED BY <1>1, <2>1, <2>2, UpTo
  <2> QED BY <2>3
<1>9. f[0] = base
  BY <1>1, <1>4
<1>10. [i \in 1 .. n |-> Shifted[n - i] % Base] = [i \in 1 .. n |-> f[n - i] % Base]
  <2>1. \A i \in 1 .. n : Shifted[n - i] = f[n - i]
    BY <1>1, <1>8
  <2> QED BY <2>1
<1> QED BY <1>3, <1>7, <1>9, <1>10

(* What canonize makes of an integer, uncanonize makes an integer of again,  *)
(* modulo 2^32.                                                              *)
LEMMA RoundTrip ==
  ASSUME NEW x \in Int, x % Modulus \in 0 .. Modulus - 1
  PROVE  /\ Canonical(x) \in Seq(Byte) /\ Len(Canonical(x)) = IntBytes
         /\ Unsigned(Canonical(x)) = x % Modulus
<1> DEFINE n == IntBytes
<1>0. n \in Nat /\ n >= 1
  BY Bases
<1>1. PICK power \in [0 .. n -> Nat] :
        /\ power[0] = 1 /\ power[n] = Modulus
        /\ \A k \in 1 .. n : power[k] = Base * power[k - 1]
  BY Powers
<1>2. PICK shifted \in [0 .. n -> Nat] :
        /\ shifted[0] = x % Modulus
        /\ \A k \in 1 .. n : shifted[k] = shifted[k - 1] \div Base
        /\ Canonical(x) = [i \in 1 .. n |-> shifted[n - i] % Base]
  BY Shifts
<1>3. \A i \in 1 .. n : n - i \in 0 .. n /\ shifted[n - i] % Base \in Byte
  <2> TAKE i \in 1 .. n
  <2>1. n - i \in 0 .. n
    BY <1>0
  <2>2. shifted[n - i] \in Nat
    BY <1>2, <2>1
  <2> QED BY <2>1, <2>2, Division
<1>4. Canonical(x) \in Seq(Byte) /\ Len(Canonical(x)) = n
  BY <1>0, <1>2, <1>3
<1>5. \A k \in 0 .. n : shifted[k] < power[n - k]
  <2> DEFINE S == {k \in 0 .. n : shifted[k] < power[n - k]}
  <2>1. 0 \in S
    BY <1>0, <1>1, <1>2
  <2>2. ASSUME NEW k \in 0 .. n, k < n, k \in S PROVE k + 1 \in S
    <3>1. k + 1 \in 1 .. n /\ n - k \in 1 .. n /\ (n - k) - 1 = n - (k + 1)
          /\ (k + 1) - 1 = k /\ n - (k + 1) \in 0 .. n
      BY <1>0, <2>2
    <3> DEFINE a == shifted[k]
               q == a \div Base
               p == power[n - (k + 1)]
    <3>2. a < Base * p /\ p \in Nat /\ a \in Nat
      BY <1>1, <2>2, <3>1
    <3>3. q * Base <= a /\ q \in Nat
      <4>1. a = (a \div Base) * Base + (a % Base) /\ a \div Base \in Nat
        BY <3>2, Division
      <4> HIDE DEF a
      <4>2. a % Base \in Nat
        BY <3>2, Bases
      <4>3. (a \div Base) * Base \in Nat
        BY <4>1, Bases
      <4> QED BY <3>2, <4>1, <4>2, <4>3
    <3>4. q < p
      <4> HIDE DEF a, q, p
      <4>1. SUFFICES ASSUME q >= p PROVE FALSE
        BY <3>2, <3>3
      <4>2. q * Base >= p * Base
        BY <3>2, <3>3, <4>1, Bases
      <4>3. p * Base = Base * p /\ p * Base \in Nat /\ q * Base \in Nat
        BY <3>2, <3>3, Bases
      <4> QED BY <3>2, <3>3, <4>2, <4>3
    <3> QED BY <1>2, <3>1, <3>4
  <2>3. \A k \in 0 .. n : k \in S
    <3> HIDE DEF S
    <3> QED BY <1>0, <2>1, <2>2, UpTo
  <2> QED BY <2>3
<1>6. shifted[n] = 0
  BY <1>0, <1>1, <1>2, <1>5
<1>7. PICK value \in [0 .. n -> Nat] :
        /\ value[0] = 0 /\ value[n] = Unsigned(Canonical(x))
        /\ \A k \in 1 .. n : value[k] = value[k - 1] * Base + Canonical(x)[k]
  BY <1>4, Values
<1>8. \A k \in 0 .. n : value[k] = shifted[n - k]
  <2> DEFINE S == {k \in 0 .. n : value[k] = shifted[n - k]}
  <2>1. 0 \in S
    BY <1>0, <1>6, <1>7
  <2>2. ASSUME NEW k \in 0 .. n, k < n, k \in S PROVE k + 1 \in S
    <3>1. k + 1 \in 1 .. n /\ n - k \in 1 .. n /\ (n - k) - 1 = n - (k + 1)
          /\ (k + 1) - 1 = k /\ n - (k + 1) \in 0 .. n
      BY <1>0, <2>2
    <3> DEFINE a == shifted[n - (k + 1)]
    <3>2. a \in Nat /\ shifted[n - k] = a \div Base
      BY <1>2, <3>1
    <3>3. value[k + 1] = (a \div Base) * Base + (a % Base)
      BY <1>2, <1>7, <2>2, <3>1, <3>2
    <3>4. value[k + 1] = a
      BY <3>2, <3>3, Division
    <3> QED BY <3>1, <3>4
  <2>3. \A k \in 0 .. n : k \in S
    <3> HIDE DEF S
    <3> QED BY <1>0, <2>1, <2>2, UpTo
  <2> QED BY <2>3
<1> QED BY <1>0, <1>2, <1>4, <1>7, <1>8

LEMMA Moduli == Modulus \in Nat /\ Modulus >= 2
<1> DEFINE n == IntBytes
<1>0. n \in Nat /\ n >= 1
  BY Bases
<1>1. PICK power \in [0 .. n -> Nat] :
        /\ power[0] = 1 /\ power[n] = Modulus
        /\ \A k \in 1 .. n : power[k] = Base * power[k - 1]
  BY Powers
<1>2. \A k \in 0 .. n : power[k] >= 1
  <2> DEFINE S == {k \in 0 .. n : power[k] >= 1}
  <2>1. 0 \in S
    BY <1>0, <1>1
  <2>2. ASSUME NEW k \in 0 .. n, k < n, k \in S PROVE k + 1 \in S
    <3>1. k + 1 \in 1 .. n /\ (k + 1) - 1 = k
      BY <1>0, <2>2
    <3>2. power[k + 1] = Base * power[k] /\ power[k] \in Nat /\ power[k] >= 1
      BY <1>1, <2>2, <3>1
    <3>3. Base * power[k] >= 1
      BY <3>2, Bases
    <3> QED BY <3>1, <3>2, <3>3
  <2>3. \A k \in 0 .. n : k \in S
    <3> HIDE DEF S
    <3> QED BY <1>0, <2>1, <2>2, UpTo
  <2> QED BY <2>3
<1>3. n \in 1 .. n /\ n - 1 \in 0 .. n
  BY <1>0
<1>4. Modulus = Base * power[n - 1] /\ power[n - 1] \in Nat /\ power[n - 1] >= 1
  BY <1>1, <1>2, <1>3
<1> QED BY <1>4, Bases

(* The bytes of two sequences, one behind the other.                         *)
LEMMA Joined ==
  ASSUME NEW a \in Seq(Byte), NEW b \in Seq(Byte)
  PROVE  /\ a \o b \in Seq(Byte) /\ Len(a \o b) = Len(a) + Len(b)
         /\ \A i \in 1 .. Len(a) : (a \o b)[i] = a[i]
         /\ \A i \in 1 .. Len(b) : /\ Len(a) + i \in 1 .. Len(a \o b)
                                /\ (a \o b)[Len(a) + i] = b[i]
  OBVIOUS

(* The number in front of a string, and in front of an array.                *)
Announced(s) == IF s = NULL THEN Modulus - 1 ELSE Len(s)

LEMMA Residues ==
  /\ (-1) % Modulus = Modulus - 1
  /\ \A n \in Nat : n < Modulus => n % Modulus = n
  /\ Modulus \div 2 \in Nat /\ Modulus \div 2 < Modulus
  BY Moduli

(* Bytes that are those of an integer are that integer.                      *)
LEMMA Numeral ==
  ASSUME NEW x \in Int, x % Modulus \in 0 .. Modulus - 1,
         NEW item \in Seq(Byte), Len(item) = IntBytes,
         \A i \in 1 .. IntBytes : item[i] = Canonical(x)[i]
  PROVE  Unsigned(item) = x % Modulus
<1>1. item = Canonical(x)
  BY RoundTrip, SeqEqual
<1> QED BY <1>1, RoundTrip

LEMMA StringIs ==
  ASSUME NEW s \in Texts \cup {NULL}
  PROVE  /\ String(s) \in Seq(Byte) /\ Announced(s) \in 0 .. Modulus - 1
         /\ s # NULL => /\ s \in Seq(Byte) /\ Len(s) < Modulus \div 2
                        /\ Len(String(s)) = IntBytes + Len(s)
                        /\ \A i \in 1 .. Len(s) : String(s)[IntBytes + i] = s[i]
         /\ s = NULL => Len(String(s)) = IntBytes
         /\ Len(String(s)) >= IntBytes
         /\ \A item \in Seq(Byte) :
              Len(item) = IntBytes /\ (\A i \in 1 .. IntBytes : item[i] = String(s)[i])
                => Unsigned(item) = Announced(s)
<1>1. CASE s = NULL
  <2>1. (-1) % Modulus \in 0 .. Modulus - 1
    BY Moduli, Residues
  <2>2. String(s) = Canonical(-1) /\ Announced(s) = (-1) % Modulus
    BY <1>1, Residues DEF String, Announced
  <2>3. Canonical(-1) \in Seq(Byte) /\ Len(Canonical(-1)) = IntBytes
    BY <2>1, RoundTrip
  <2>4. \A item \in Seq(Byte) :
          Len(item) = IntBytes /\ (\A i \in 1 .. IntBytes : item[i] = Canonical(-1)[i])
            => Unsigned(item) = (-1) % Modulus
    BY <2>1, Numeral
  <2> QED BY <1>1, <2>1, <2>2, <2>3, <2>4, Bases
<1>2. CASE s # NULL
  <2>1. s \in Seq(Byte) /\ Len(s) < Modulus \div 2 /\ Len(s) \in Nat
    BY <1>2, ChannelAssumption
  <2>2. Len(s) % Modulus = Len(s) /\ Len(s) \in 0 .. Modulus - 1
    BY <2>1, Residues, Moduli
  <2>3. String(s) = Canonical(Len(s)) \o s /\ Announced(s) = Len(s)
    BY <1>2 DEF String, Announced
  <2>4. Canonical(Len(s)) \in Seq(Byte) /\ Len(Canonical(Len(s))) = IntBytes
    BY <2>1, <2>2, RoundTrip
  <2>5. /\ String(s) \in Seq(Byte) /\ Len(String(s)) = IntBytes + Len(s)
        /\ \A i \in 1 .. IntBytes : String(s)[i] = Canonical(Len(s))[i]
        /\ \A i \in 1 .. Len(s) : String(s)[IntBytes + i] = s[i]
    <3> DEFINE c == Canonical(Len(s))
    <3>1. c \in Seq(Byte) /\ Len(c) = IntBytes /\ String(s) = c \o s /\ IntBytes \in Nat
      BY <2>3, <2>4, Bases
    <3> HIDE DEF c
    <3>2. c \o s \in Seq(Byte) /\ Len(c \o s) = Len(c) + Len(s)
      BY <2>1, <3>1, ConcatProperties
    <3>3. \A i \in 1 .. Len(c) : (c \o s)[i] = c[i]
      BY <2>1, <3>1, <3>2
    <3>4. \A i \in 1 .. Len(s) : (c \o s)[Len(c) + i] = s[i]
      BY <2>1, <3>1, <3>2
    <3> QED BY <3>1, <3>2, <3>3, <3>4 DEF c
  <2>6. \A item \in Seq(Byte) :
          Len(item) = IntBytes /\ (\A i \in 1 .. IntBytes : item[i] = Canonical(Len(s))[i])
            => Unsigned(item) = Len(s)
    BY <2>1, <2>2, Numeral
  <2> QED BY <1>2, <2>1, <2>2, <2>3, <2>5, <2>6, Bases
<1> QED BY <1>1, <1>2

(* Where the elements of an array begin: offset[k] is behind the first k.    *)
Layout(ss, offset) ==
  /\ offset \in [0 .. Len(ss) -> Nat]
  /\ offset[0] = IntBytes /\ offset[Len(ss)] = Len(ArrayOf(ss))
  /\ \A k \in 0 .. Len(ss) : offset[k] <= Len(ArrayOf(ss))
  /\ \A i \in 1 .. IntBytes : ArrayOf(ss)[i] = Canonical(Len(ss))[i]
  /\ \A k \in 1 .. Len(ss) :
       /\ offset[k] = offset[k - 1] + Len(String(ss[k]))
       /\ \A i \in 1 .. Len(String(ss[k])) :
            ArrayOf(ss)[offset[k - 1] + i] = String(ss[k])[i]

Offset(ss) == CHOOSE offset : Layout(ss, offset)

LEMMA Firsts ==
  ASSUME NEW ss \in Arrays
  PROVE  \E first \in [0 .. Len(ss) -> Seq(Byte)] :
           /\ first[0] = Canonical(Len(ss)) /\ first[Len(ss)] = ArrayOf(ss)
           /\ \A k \in 1 .. Len(ss) : first[k] = first[k - 1] \o String(ss[k])
<1> DEFINE n == Len(ss)
           step == [x \in Seq(Byte) \X (1 .. n) |-> x[1] \o String(ss[x[2]])]
           base == Canonical(n)
<1>0. ss \in Seq(Texts \cup {NULL}) /\ n \in Nat /\ n < Modulus \div 2
  BY ChannelAssumption
<1>1. base \in Seq(Byte)
  <2>1. n % Modulus \in 0 .. Modulus - 1
    BY <1>0, Residues, Moduli
  <2> QED BY <1>0, <2>1, RoundTrip
<1>2. step \in [Seq(Byte) \X (1 .. n) -> Seq(Byte)]
  <2>1. \A x \in Seq(Byte) \X (1 .. n) : x[1] \in Seq(Byte) /\ String(ss[x[2]]) \in Seq(Byte)
    BY <1>0, StringIs
  <2> QED BY <2>1, ConcatProperties
<1>3. PICK f \in [0 .. n -> Seq(Byte)] : Solves(f, n, base, step)
  <2> HIDE DEF step, base
  <2> QED BY <1>0, <1>1, <1>2, Recursion
<1>4. \A k \in 1 .. n : f[k] = f[k - 1] \o String(ss[k])
  <2> TAKE k \in 1 .. n
  <2>1. k - 1 \in 0 .. n
    BY <1>0
  <2>2. <<f[k - 1], k>> \in Seq(Byte) \X (1 .. n)
    BY <2>1
  <2> QED BY <1>3, <2>2 DEF Solves
<1>5. \A k \in 0 .. n : f[k] = IF k = 0 THEN base ELSE f[k - 1] \o String(ss[k])
  BY <1>0, <1>3, <1>4 DEF Solves
<1>6. f = [k \in 0 .. n |-> IF k = 0 THEN base ELSE f[k - 1] \o String(ss[k])]
  BY <1>5
<1> DEFINE First == CHOOSE g : g = [k \in 0 .. n |-> IF k = 0 THEN base ELSE g[k - 1] \o String(ss[k])]
<1>7. First = [k \in 0 .. n |-> IF k = 0 THEN base ELSE First[k - 1] \o String(ss[k])]
  BY <1>6
<1>8. ArrayOf(ss) = First[n]
  BY DEF ArrayOf
<1> HIDE DEF First
<1>9. \A k \in 0 .. n : First[k] = f[k]
  <2> DEFINE S == {k \in 0 .. n : First[k] = f[k]}
  <2>1. 0 \in S
    <3>1. 0 \in 0 .. n
      BY <1>0
    <3> HIDE DEF base
    <3>2. f[0] = base /\ First[0] = base
      BY <1>5, <1>7, <3>1
    <3> QED BY <3>1, <3>2
  <2>2. ASSUME NEW k \in 0 .. n, k < n, k \in S PROVE k + 1 \in S
    <3>1. k + 1 \in 0 .. n /\ k + 1 # 0 /\ (k + 1) - 1 = k
      BY <1>0, <2>2
    <3> QED BY <1>5, <1>7, <2>2, <3>1
  <2>3. \A k \in 0 .. n : k \in S
    <3> HIDE DEF S
    <3> QED BY <1>0, <2>1, <2>2, UpTo
  <2> QED BY <2>3
<1>10. f[0] = base /\ f[n] = ArrayOf(ss)
  BY <1>0, <1>5, <1>8, <1>9
<1> QED BY <1>4, <1>10

LEMMA ArrayIs ==
  ASSUME NEW ss \in Arrays
  PROVE  /\ ss \in Seq(Texts \cup {NULL}) /\ Len(ss) < Modulus \div 2
         /\ ArrayOf(ss) \in Seq(Byte) /\ Layout(ss, Offset(ss))
         /\ \A item \in Seq(Byte) :
              Len(item) = IntBytes /\ (\A i \in 1 .. IntBytes : item[i] = ArrayOf(ss)[i])
                => Unsigned(item) = Len(ss)
<1> DEFINE n == Len(ss)
<1>0. ss \in Seq(Texts \cup {NULL}) /\ n \in Nat /\ n < Modulus \div 2
  BY ChannelAssumption
<1>1. n % Modulus \in 0 .. Modulus - 1 /\ n % Modulus = n
  BY <1>0, Residues, Moduli
<1>2. Canonical(n) \in Seq(Byte) /\ Len(Canonical(n)) = IntBytes
  BY <1>0, <1>1, RoundTrip
<1>3. PICK first \in [0 .. n -> Seq(Byte)] :
        /\ first[0] = Canonical(n) /\ first[n] = ArrayOf(ss)
        /\ \A k \in 1 .. n : first[k] = first[k - 1] \o String(ss[k])
  BY Firsts
<1>4. ArrayOf(ss) \in Seq(Byte)
  BY <1>0, <1>3
<1> DEFINE offset == [k \in 0 .. n |-> Len(first[k])]
<1>5. \A k \in 1 .. n : /\ k \in 0 .. n /\ k - 1 \in 0 .. n
                        /\ first[k - 1] \in Seq(Byte) /\ String(ss[k]) \in Seq(Byte)
                        /\ offset[k] = offset[k - 1] + Len(String(ss[k]))
  <2> TAKE k \in 1 .. n
  <2>1. k \in 0 .. n /\ k - 1 \in 0 .. n
    BY <1>0
  <2>2. first[k - 1] \in Seq(Byte) /\ String(ss[k]) \in Seq(Byte)
    <3>1. ss[k] \in Texts \cup {NULL}
      BY <1>0
    <3> QED BY <1>3, <2>1, <3>1, StringIs
  <2>3. Len(first[k]) = Len(first[k - 1]) + Len(String(ss[k]))
    BY <1>3, <2>2, ConcatProperties
  <2> QED BY <2>1, <2>2, <2>3
\* What is first stays first.
<1> DEFINE Stays(k) == \A j \in 0 .. k : /\ Len(first[j]) <= Len(first[k])
                                         /\ \A i \in 1 .. Len(first[j]) : first[k][i] = first[j][i]
<1>6. \A k \in 0 .. n : Stays(k)
  <2> DEFINE S == {k \in 0 .. n : Stays(k)}
  <2>1. 0 \in S
    BY <1>0
  <2>2. ASSUME NEW k \in 0 .. n, k < n, k \in S PROVE k + 1 \in S
    <3>1. k + 1 \in 1 .. n /\ (k + 1) - 1 = k
      BY <1>0, <2>2
    <3>2. first[k] \in Seq(Byte) /\ String(ss[k + 1]) \in Seq(Byte)
          /\ first[k + 1] = first[k] \o String(ss[k + 1])
      BY <1>3, <1>5, <3>1
    <3>3. Len(first[k + 1]) = Len(first[k]) + Len(String(ss[k + 1]))
          /\ Len(first[k]) \in Nat /\ Len(String(ss[k + 1])) \in Nat
      BY <3>2
    <3>4. \A i \in 1 .. Len(first[k]) : first[k + 1][i] = first[k][i]
      BY <3>2
    <3>5. ASSUME NEW j \in 0 .. k + 1
          PROVE  /\ Len(first[j]) <= Len(first[k + 1])
                 /\ \A i \in 1 .. Len(first[j]) : first[k + 1][i] = first[j][i]
      <4>1. CASE j = k + 1
        BY <3>1, <3>3, <4>1
      <4>2. CASE j \in 0 .. k
        <5>1. Len(first[j]) <= Len(first[k]) /\ Len(first[j]) \in Nat
              /\ \A i \in 1 .. Len(first[j]) : first[k][i] = first[j][i]
          BY <2>2, <4>2
        <5>2. \A i \in 1 .. Len(first[j]) : i \in 1 .. Len(first[k])
          BY <5>1, <3>3
        <5> QED BY <3>3, <3>4, <5>1, <5>2
      <4> QED BY <4>1, <4>2
    <3> QED BY <3>1, <3>5
  <2>3. \A k \in 0 .. n : k \in S
    <3> HIDE DEF S
    <3> QED BY <1>0, <2>1, <2>2, UpTo
  <2> QED BY <2>3
<1>7. \A j \in 0 .. n : \A i \in 1 .. Len(first[j]) : ArrayOf(ss)[i] = first[j][i]
  <2>1. n \in 0 .. n
    BY <1>0
  <2> QED BY <1>3, <1>6, <2>1
<1>8. Layout(ss, offset)
  <2>1. offset \in [0 .. n -> Nat]
    BY <1>3
  <2>2. offset[0] = IntBytes /\ offset[n] = Len(ArrayOf(ss))
    BY <1>0, <1>2, <1>3
  <2>3. \A i \in 1 .. IntBytes : ArrayOf(ss)[i] = Canonical(n)[i]
    <3>1. 0 \in 0 .. n
      BY <1>0
    <3> QED BY <1>2, <1>3, <1>7, <3>1
  <2>4. ASSUME NEW k \in 1 .. n, NEW i \in 1 .. Len(String(ss[k]))
        PROVE  ArrayOf(ss)[offset[k - 1] + i] = String(ss[k])[i]
    <3>1. Len(first[k]) = Len(first[k - 1]) + Len(String(ss[k])) /\ first[k] = first[k - 1] \o String(ss[k])
      BY <1>3, <1>5
    <3>2. first[k - 1] \in Seq(Byte) /\ String(ss[k]) \in Seq(Byte)
          /\ k \in 0 .. n /\ offset[k - 1] = Len(first[k - 1])
      BY <1>0, <1>5
    <3>3. Len(first[k - 1]) \in Nat /\ Len(String(ss[k])) \in Nat
      BY <3>2
    <3> HIDE DEF offset
    <3>4. Len(first[k - 1]) + i \in 1 .. Len(first[k - 1] \o String(ss[k]))
      BY <3>2, Joined
    <3>5. (first[k - 1] \o String(ss[k]))[Len(first[k - 1]) + i] = String(ss[k])[i]
      BY <3>2, Joined
    <3> QED BY <1>7, <3>1, <3>2, <3>4, <3>5
  <2>5. \A k \in 0 .. n : offset[k] <= Len(ArrayOf(ss))
    <3>1. n \in 0 .. n
      BY <1>0
    <3> QED BY <1>3, <1>6, <3>1
  <2> HIDE DEF offset
  <2> QED BY <1>5, <2>1, <2>2, <2>3, <2>4, <2>5 DEF Layout
<1>9. Layout(ss, Offset(ss))
  BY <1>8 DEF Offset
<1>10. \A item \in Seq(Byte) :
         Len(item) = IntBytes /\ (\A i \in 1 .. IntBytes : item[i] = ArrayOf(ss)[i])
           => Unsigned(item) = n
  <2>1. \A i \in 1 .. IntBytes : ArrayOf(ss)[i] = Canonical(n)[i]
    BY <1>9 DEF Layout
  <2> QED BY <1>0, <1>1, <2>1, Numeral
<1> QED BY <1>0, <1>4, <1>9, <1>10

-----------------------------------------------------------------------------
(* Channel: where the messages are in the stream                           *)

Agreed ==
  /\ kind \in {"line", "string", "array"} /\ sent \in Seq(Message[kind])

LEMMA MessageIs ==
  ASSUME kind \in {"line", "string", "array"}, NEW m \in Message[kind]
  PROVE  /\ Bytes(m) \in Seq(Byte) /\ Len(Bytes(m)) \in Nat /\ Len(Bytes(m)) >= 1
         /\ kind = "line" => m \in Lines /\ m \in Seq(Byte) /\ Bytes(m) = m \o Term
         /\ kind = "string" => m \in Texts \cup {NULL} /\ Bytes(m) = String(m)
         /\ kind = "array" => m \in Arrays /\ Bytes(m) = ArrayOf(m)
<1>1. CASE kind = "line"
  <2>1. m \in Lines /\ Bytes(m) = m \o Term
    BY <1>1 DEF Message, Bytes
  <2>2. m \in Seq(Byte) /\ Term \in Seq(Byte) /\ Term # << >>
    BY <2>1, ChannelAssumption
  <2>3. Len(Term) \in Nat /\ Len(Term) >= 1 /\ Len(m) \in Nat
    BY <2>2
  <2>4. m \o Term \in Seq(Byte) /\ Len(m \o Term) = Len(m) + Len(Term)
    BY <2>2, Joined
  <2> QED BY <1>1, <2>1, <2>2, <2>3, <2>4
<1>2. CASE kind = "string"
  <2>1. m \in Texts \cup {NULL} /\ Bytes(m) = String(m)
    BY <1>2 DEF Message, Bytes
  <2>2. String(m) \in Seq(Byte) /\ Len(String(m)) >= IntBytes
    BY <2>1, StringIs
  <2>3. Len(String(m)) \in Nat
    BY <2>2
  <2> QED BY <1>2, <2>1, <2>2, <2>3, Bases
<1>3. CASE kind = "array"
  <2>1. m \in Arrays /\ Bytes(m) = ArrayOf(m)
    BY <1>3 DEF Message, Bytes
  <2>2. /\ ArrayOf(m) \in Seq(Byte) /\ Layout(m, Offset(m)) /\ m \in Seq(Texts \cup {NULL})
    BY <2>1, ArrayIs
  <2>3. Len(m) \in Nat
    BY <2>2
  <2> DEFINE offset == Offset(m)
             S == {k \in 0 .. Len(m) : offset[k] >= IntBytes}
  <2>4. 0 \in S
    BY <2>2, <2>3, Bases DEF Layout
  <2>5. ASSUME NEW k \in 0 .. Len(m), k < Len(m), k \in S PROVE k + 1 \in S
    <3>1. k + 1 \in 1 .. Len(m) /\ (k + 1) - 1 = k
      BY <2>3, <2>5
    <3>2. offset[k + 1] = offset[k] + Len(String(m[k + 1])) /\ offset[k] \in Nat
      BY <2>2, <3>1 DEF Layout
    <3>3. m[k + 1] \in Texts \cup {NULL}
      BY <2>2, <3>1
    <3>4. Len(String(m[k + 1])) \in Nat
      BY <3>3, StringIs
    <3> HIDE DEF offset
    <3>5. offset[k + 1] >= IntBytes
      BY <2>5, <3>2, <3>4, Bases
    <3> QED BY <3>1, <3>5
  <2>6. \A k \in 0 .. Len(m) : k \in S
    <3> HIDE DEF S
    <3> QED BY <2>3, <2>4, <2>5, UpTo
  <2>7. Len(m) \in 0 .. Len(m)
    BY <2>3
  <2>8. Len(ArrayOf(m)) >= IntBytes
    BY <2>2, <2>6, <2>7 DEF Layout
  <2>9. Len(ArrayOf(m)) \in Nat
    BY <2>2
  <2> QED BY <1>3, <2>1, <2>2, <2>8, <2>9, Bases
<1> QED BY <1>1, <1>2, <1>3

\* Where the messages begin
Starts ==
  /\ Begin(1) = 0 /\ Begin(Len(sent) + 1) \in Nat
  /\ \A i \in 1 .. Len(sent) :
       /\ sent[i] \in Message[kind]
       /\ Bytes(sent[i]) \in Seq(Byte) /\ Len(Bytes(sent[i])) \in Nat
       /\ Len(Bytes(sent[i])) >= 1
       /\ Begin(i) \in Nat /\ Begin(i + 1) = Begin(i) + Len(Bytes(sent[i]))

LEMMA AllStart == Agreed => Starts
<1> SUFFICES ASSUME Agreed PROVE Starts
  OBVIOUS
<1> DEFINE n == Len(sent)
           step == [x \in Nat \X (1 .. n) |-> x[1] + Len(Bytes(sent[x[2]]))]
<1>0. n \in Nat
  BY DEF Agreed
<1>1. \A i \in 1 .. n : /\ sent[i] \in Message[kind] /\ Bytes(sent[i]) \in Seq(Byte)
                        /\ Len(Bytes(sent[i])) \in Nat /\ Len(Bytes(sent[i])) >= 1
  <2> TAKE i \in 1 .. n
  <2>1. sent[i] \in Message[kind]
    BY DEF Agreed
  <2> QED BY <2>1, MessageIs DEF Agreed
<1>2. step \in [Nat \X (1 .. n) -> Nat]
  BY <1>1
<1>3. PICK f \in [0 .. n -> Nat] : Solves(f, n, 0, step)
  <2> HIDE DEF step
  <2> QED BY <1>0, <1>2, Recursion
<1>4. \A k \in 1 .. n : f[k] = f[k - 1] + Len(Bytes(sent[k]))
  <2> TAKE k \in 1 .. n
  <2>1. k - 1 \in 0 .. n
    BY <1>0
  <2>2. <<f[k - 1], k>> \in Nat \X (1 .. n)
    BY <2>1
  <2> QED BY <1>3, <2>2 DEF Solves
<1>5. \A k \in 0 .. n : f[k] = IF k = 0 THEN 0 ELSE f[k - 1] + Len(Bytes(sent[k]))
  BY <1>0, <1>3, <1>4 DEF Solves
<1>6. f = [k \in 0 .. n |-> IF k = 0 THEN 0 ELSE f[k - 1] + Len(Bytes(sent[k]))]
  BY <1>5
<1> DEFINE Before == CHOOSE g : g = [k \in 0 .. n |-> IF k = 0 THEN 0
                                                      ELSE g[k - 1] + Len(Bytes(sent[k]))]
<1>7. Before = [k \in 0 .. n |-> IF k = 0 THEN 0 ELSE Before[k - 1] + Len(Bytes(sent[k]))]
  BY <1>6
<1>8. \A i : Begin(i) = Before[i - 1]
  BY DEF Begin
<1> HIDE DEF Before
<1>9. \A k \in 0 .. n : Before[k] = f[k]
  <2> DEFINE S == {k \in 0 .. n : Before[k] = f[k]}
  <2>1. 0 \in S
    BY <1>0, <1>5, <1>7
  <2>2. ASSUME NEW k \in 0 .. n, k < n, k \in S PROVE k + 1 \in S
    <3>1. k + 1 \in 0 .. n /\ k + 1 # 0 /\ (k + 1) - 1 = k
      BY <1>0, <2>2
    <3> QED BY <1>5, <1>7, <2>2, <3>1
  <2>3. \A k \in 0 .. n : k \in S
    <3> HIDE DEF S
    <3> QED BY <1>0, <2>1, <2>2, UpTo
  <2> QED BY <2>3
<1>10. Begin(1) = 0 /\ Begin(n + 1) \in Nat
  <2>1. 0 \in 0 .. n /\ n \in 0 .. n /\ (n + 1) - 1 = n /\ 1 - 1 = 0
    BY <1>0
  <2> QED BY <1>3, <1>5, <1>8, <1>9, <2>1
<1>11. \A i \in 1 .. n : Begin(i) \in Nat /\ Begin(i + 1) = Begin(i) + Len(Bytes(sent[i]))
  <2> TAKE i \in 1 .. n
  <2>1. i - 1 \in 0 .. n /\ i \in 0 .. n /\ (i + 1) - 1 = i
    BY <1>0
  <2> QED BY <1>3, <1>4, <1>8, <1>9, <2>1
<1> QED BY <1>1, <1>10, <1>11 DEF Starts

LEMMA AllStartNext == (Agreed => Starts)'
  BY AllStart, PTL

\* Later messages begin later.
InOrder ==
  \A i \in 1 .. Len(sent) + 1 :
    /\ Begin(i) \in Nat /\ Begin(i) <= Begin(Len(sent) + 1)
    /\ \A j \in 1 .. Len(sent) + 1 : i < j => Begin(i) < Begin(j)

LEMMA LaterLater == Agreed => InOrder
<1> SUFFICES ASSUME Agreed PROVE InOrder
  OBVIOUS
<1> DEFINE n == Len(sent)
           S == {k \in 0 .. n : \A i \in 1 .. k + 1 :
                   Begin(i) \in Nat /\ (i < k + 1 => Begin(i) < Begin(k + 1))}
<1>0. n \in Nat /\ Starts
  BY AllStart DEF Agreed
<1>1. 0 \in S
  BY <1>0 DEF Starts
<1>2. ASSUME NEW k \in 0 .. n, k < n, k \in S PROVE k + 1 \in S
  <2>1. k + 1 \in 1 .. n /\ k + 1 \in 0 .. n
    BY <1>0, <1>2
  <2>2. Begin(k + 1) \in Nat /\ Begin((k + 1) + 1) \in Nat /\ Begin(k + 1) < Begin((k + 1) + 1)
    BY <1>0, <2>1 DEF Starts
  <2>3. ASSUME NEW i \in 1 .. (k + 1) + 1
        PROVE  Begin(i) \in Nat /\ (i < (k + 1) + 1 => Begin(i) < Begin((k + 1) + 1))
    <3>1. CASE i = (k + 1) + 1
      BY <2>2, <3>1
    <3>2. CASE i = k + 1
      BY <2>2, <3>2
    <3>3. CASE i \in 1 .. k + 1 /\ i < k + 1
      <4>1. Begin(i) \in Nat /\ Begin(i) < Begin(k + 1)
        BY <1>2, <3>3
      <4> QED BY <2>2, <4>1
    <3> QED BY <3>1, <3>2, <3>3
  <2> QED BY <2>1, <2>3
<1>3. \A k \in 0 .. n : k \in S
  <2> HIDE DEF S
  <2> QED BY <1>0, <1>1, <1>2, UpTo
<1>4. ASSUME NEW i \in 1 .. n + 1, NEW j \in 1 .. n + 1, i < j PROVE Begin(i) < Begin(j)
  <2>1. j - 1 \in 0 .. n /\ (j - 1) + 1 = j /\ i \in 1 .. j
    BY <1>0, <1>4
  <2>2. j - 1 \in S
    BY <1>3, <2>1
  <2> QED BY <1>4, <2>1, <2>2
<1>5. \A i \in 1 .. n + 1 : Begin(i) \in Nat
  <2>1. n \in S
    BY <1>0, <1>3
  <2> QED BY <2>1
<1>6. ASSUME NEW i \in 1 .. n + 1 PROVE Begin(i) <= Begin(n + 1)
  <2>1. n + 1 \in 1 .. n + 1 /\ (i < n + 1 \/ i = n + 1)
    BY <1>0
  <2> QED BY <1>4, <1>5, <2>1
<1> QED BY <1>4, <1>5, <1>6 DEF InOrder

LEMMA LaterLaterNext == (Agreed => InOrder)'
  BY LaterLater, PTL

-----------------------------------------------------------------------------
(* Channel: what is read is what has been sent                             *)

\* bytes are those of the stream behind from.
Follows(bytes, from) ==
  /\ from + Len(bytes) <= Begin(Len(sent) + 1)
  /\ \A i \in 1 .. Len(sent) : \A j \in 1 .. Len(Bytes(sent[i])) :
       (Begin(i) + j) - from \in 1 .. Len(bytes)
         => bytes[(Begin(i) + j) - from] = Bytes(sent[i])[j]

LEMMA FollowsBoth ==
  ASSUME Agreed, NEW a \in Seq(Byte), NEW b \in Seq(Byte), NEW from \in Nat
  PROVE  Follows(a \o b, from) <=> Follows(a, from) /\ Follows(b, from + Len(a))
<1>0. Starts
  BY AllStart
<1>1. /\ Len(a) \in Nat /\ Len(b) \in Nat /\ Len(a \o b) = Len(a) + Len(b)
      /\ \A i \in 1 .. Len(a) : (a \o b)[i] = a[i]
      /\ \A i \in 1 .. Len(b) : (a \o b)[Len(a) + i] = b[i]
  BY Joined
<1> DEFINE c == a \o b
<1> HIDE DEF c
<1>2. \A i \in 1 .. Len(sent) : \A j \in 1 .. Len(Bytes(sent[i])) : Begin(i) + j \in Nat
  BY <1>0 DEF Starts
<1>3. ASSUME Follows(c, from) PROVE Follows(a, from) /\ Follows(b, from + Len(a))
  <2>1. Follows(a, from)
    <3>1. from + Len(a) <= Begin(Len(sent) + 1)
      BY <1>0, <1>1, <1>3 DEF Follows, Starts, c
    <3>2. ASSUME NEW i \in 1 .. Len(sent), NEW j \in 1 .. Len(Bytes(sent[i])),
                 (Begin(i) + j) - from \in 1 .. Len(a)
          PROVE  a[(Begin(i) + j) - from] = Bytes(sent[i])[j]
      <4> DEFINE y == (Begin(i) + j) - from
      <4>1. y \in 1 .. Len(a)
        BY <3>2
      <4>2. y \in 1 .. Len(c) /\ c[y] = a[y]
        <5> HIDE DEF y
        <5> QED BY <1>1, <4>1 DEF c
      <4>3. c[y] = Bytes(sent[i])[j]
        BY <1>3, <4>2 DEF Follows
      <4> QED BY <4>2, <4>3
    <3> QED BY <3>1, <3>2 DEF Follows
  <2>2. from + Len(a) + Len(b) <= Begin(Len(sent) + 1)
    BY <1>1, <1>3 DEF Follows, c
  <2>3. ASSUME NEW i \in 1 .. Len(sent), NEW j \in 1 .. Len(Bytes(sent[i])),
               (Begin(i) + j) - (from + Len(a)) \in 1 .. Len(b)
        PROVE  b[(Begin(i) + j) - (from + Len(a))] = Bytes(sent[i])[j]
    <3> DEFINE x == Begin(i) + j
               y == x - (from + Len(a))
    <3>1. x \in Nat
      BY <1>2
    <3>2. x - from = Len(a) + y /\ x - from \in 1 .. Len(c)
      <4> HIDE DEF x
      <4> QED BY <1>1, <2>3, <3>1 DEF c, x
    <3>3. c[x - from] = Bytes(sent[i])[j]
      BY <1>3, <3>2 DEF Follows
    <3>4. y \in 1 .. Len(b)
      BY <2>3
    <3> HIDE DEF x, y
    <3>5. c[Len(a) + y] = b[y]
      BY <1>1, <3>4 DEF c
    <3>6. b[y] = Bytes(sent[i])[j]
      BY <3>2, <3>3, <3>5
    <3> QED BY <3>6 DEF x, y
  <2> QED BY <1>1, <2>1, <2>2, <2>3 DEF Follows
<1>4. ASSUME Follows(a, from), Follows(b, from + Len(a)) PROVE Follows(c, from)
  <2>1. from + Len(c) <= Begin(Len(sent) + 1)
    BY <1>1, <1>4 DEF Follows, c
  <2>2. ASSUME NEW i \in 1 .. Len(sent), NEW j \in 1 .. Len(Bytes(sent[i])),
               (Begin(i) + j) - from \in 1 .. Len(c)
        PROVE  c[(Begin(i) + j) - from] = Bytes(sent[i])[j]
    <3> DEFINE x == Begin(i) + j
               y == x - (from + Len(a))
    <3>1. x \in Nat
      BY <1>2
    <3>2. CASE x - from \in 1 .. Len(a)
      <4>1. a[x - from] = Bytes(sent[i])[j]
        BY <1>4, <3>2 DEF Follows
      <4>2. c[x - from] = a[x - from]
        <5> HIDE DEF x
        <5> QED BY <1>1, <3>2 DEF c
      <4> QED BY <4>1, <4>2
    <3>3. CASE x - from \notin 1 .. Len(a)
      <4>1. y \in 1 .. Len(b) /\ x - from = Len(a) + y
        <5> HIDE DEF x
        <5> QED BY <1>1, <2>2, <3>1, <3>3 DEF c, x
      <4>2. b[y] = Bytes(sent[i])[j]
        BY <1>4, <4>1 DEF Follows
      <4> HIDE DEF x, y
      <4>3. c[Len(a) + y] = b[y]
        BY <1>1, <4>1 DEF c
      <4>4. c[x - from] = Bytes(sent[i])[j]
        BY <4>1, <4>2, <4>3
      <4> QED BY <4>4 DEF x
    <3> QED BY <3>2, <3>3
  <2> QED BY <2>1, <2>2 DEF Follows
<1> QED BY <1>3, <1>4 DEF c

(* Read from a message's place o on, bytes are those behind place o.         *)
LEMMA FollowsIn ==
  ASSUME Agreed, NEW i \in 1 .. Len(sent), NEW o \in Nat, NEW b \in Seq(Byte),
         Follows(b, Begin(i) + o)
  PROVE  \A j \in 1 .. Len(b) : o + j <= Len(Bytes(sent[i])) => b[j] = Bytes(sent[i])[o + j]
<1> SUFFICES ASSUME NEW j \in 1 .. Len(b), o + j <= Len(Bytes(sent[i]))
             PROVE  b[j] = Bytes(sent[i])[o + j]
  OBVIOUS
<1>1. Begin(i) \in Nat /\ Len(Bytes(sent[i])) \in Nat /\ Len(b) \in Nat
  BY AllStart DEF Starts
<1>2. o + j \in 1 .. Len(Bytes(sent[i])) /\ (Begin(i) + (o + j)) - (Begin(i) + o) = j
  BY <1>1
<1> QED BY <1>2 DEF Follows

-----------------------------------------------------------------------------
(* Channel: the invariant                                                  *)

ReadingsOf ==
  [line |-> {"idle", "line"}, string |-> {"idle", "length", "text", "dead"},
   array |-> {"idle", "count", "length", "text", "dead"}]

Typed ==
  /\ Agreed /\ alive \in BOOLEAN /\ reading \in ReadingsOf[kind]
  /\ out \in Seq(Byte) /\ wire \in Seq(Byte) /\ part \in Seq(Byte)
  /\ want \in Nat /\ left \in Nat /\ too_long \in BOOLEAN
  /\ items \in Seq(Seq(Byte) \cup {NULL})
  /\ position \in Nat /\ start \in Nat /\ start <= position

\* No byte is lost, doubled or out of its place on the way.
Conserved ==
  /\ Follows(wire \o out, position)
  /\ alive => position + Len(wire \o out) = Begin(Len(sent) + 1)

\* An accept that has read nothing has nothing in its hands.
Untouched ==
  /\ position = start => reading \notin {"text", "dead"} /\ part = << >> /\ ~too_long
  /\ position = start /\ reading = "length" => kind = "string"
  /\ reading = "idle" => position = start
  /\ reading \in {"idle", "count"} => items = << >>

\* What is stored of a line is its beginning, and its terminator was not there.
InLine ==
  reading = "line" =>
    /\ Len(part) = Least(position - start, MaxLine)
    /\ too_long <=> position - start > MaxLine
    /\ Follows(part, start)
    /\ \A k \in 0 .. Len(part) : ~IsSuffix(Term, SubSeq(part, 1, k))

\* Of an item it is all that has been read, and not yet the whole item.
InItem ==
  reading \in {"count", "length", "text"} =>
    /\ position - Len(part) \in Nat /\ Follows(part, position - Len(part))
    /\ Len(part) < (IF reading = "text" THEN want ELSE IntBytes)
    /\ reading # "count" /\ kind = "array" => left >= 1

\* The string that is being read of a message, and where it begins there
Current(m) == IF kind = "string" THEN m ELSE m[Len(items) + 1]
Ahead(m) == IF kind = "string" THEN 0 ELSE Offset(m)[Len(items)]

\* An accept that began with a message knows what it has read of it.
Decodes(m) ==
  /\ reading = "count" => position = start + Len(part)
  /\ reading \in {"length", "text"} /\ kind = "array" =>
       /\ Len(items) < Len(m) /\ left = Len(m) - Len(items)
       /\ items = SubSeq(m, 1, Len(items))
  /\ reading = "length" => position = start + Ahead(m) + Len(part)
  /\ reading = "text" =>
       /\ Current(m) # NULL /\ want = Len(Current(m))
       /\ position = start + Ahead(m) + IntBytes + Len(part)

InMessage == \A i \in 1 .. Len(sent) : Begin(i) = start => Decodes(sent[i])

ChannelInv == Typed /\ Conserved /\ Untouched /\ InLine /\ InItem /\ InMessage

LEMMA SameStream ==
  ASSUME sent' = sent, kind' = kind
  PROVE  /\ \A i : Begin(i)' = Begin(i)
         /\ \A m : Bytes(m)' = Bytes(m)
         /\ \A b, from : Follows(b, from)' <=> Follows(b, from)
         /\ Agreed' <=> Agreed
<1>1. \A m : Bytes(m)' = Bytes(m)
  BY DEF Bytes
<1>2. \A i : Begin(i)' = Begin(i)
  BY <1>1 DEF Begin
<1> QED BY <1>1, <1>2 DEF Follows, Agreed

LEMMA InitChannelInv == ChannelInit => ChannelInv
<1> SUFFICES ASSUME ChannelInit PROVE ChannelInv
  OBVIOUS
<1> USE DEF ChannelInit
<1>1. Typed
  <2>1. Agreed
    BY DEF Agreed, Message
  <2>2. reading \in ReadingsOf[kind]
    BY DEF ReadingsOf
  <2>3. << >> \in Seq(Byte) /\ << >> \in Seq(Seq(Byte) \cup {NULL})
    OBVIOUS
  <2>4. alive \in BOOLEAN /\ too_long \in BOOLEAN
    BY Zenon
  <2>5. /\ want \in Nat /\ left \in Nat /\ position \in Nat /\ start \in Nat
        /\ start <= position
    OBVIOUS
  <2>6. /\ out \in Seq(Byte) /\ wire \in Seq(Byte) /\ part \in Seq(Byte)
        /\ items \in Seq(Seq(Byte) \cup {NULL})
    BY <2>3
  <2> QED BY <2>1, <2>2, <2>4, <2>5, <2>6 DEF Typed
<1>2. Starts
  BY <1>1, AllStart DEF Typed
<1>3. Conserved
  <2>1. Len(sent) = 0 /\ wire \o out = << >> /\ Len(wire \o out) = 0
    OBVIOUS
  <2>2. Begin(Len(sent) + 1) = 0
    BY <1>2, <2>1 DEF Starts
  <2> QED BY <2>1, <2>2 DEF Conserved, Follows
<1> QED BY <1>1, <1>3 DEF ChannelInv, Untouched, InLine, InItem, InMessage

(* A message more                                                          *)
LEMMA Grown ==
  ASSUME Agreed, NEW m \in Message[kind], sent' = Append(sent, m), kind' = kind
  PROVE  /\ Agreed' /\ Len(sent') = Len(sent) + 1 /\ Len(sent) \in Nat
         /\ \A i \in 1 .. Len(sent) : sent'[i] = sent[i]
         /\ sent'[Len(sent) + 1] = m
         /\ \A b : Bytes(b)' = Bytes(b)
         /\ \A i \in 1 .. Len(sent) + 1 : Begin(i)' = Begin(i)
         /\ Begin(Len(sent) + 1)' = Begin(Len(sent) + 1) + Len(Bytes(m))
<1> DEFINE n == Len(sent)
<1>1. /\ Agreed' /\ Len(sent') = n + 1 /\ n \in Nat /\ sent'[n + 1] = m
      /\ \A i \in 1 .. n : sent'[i] = sent[i]
  BY DEF Agreed
<1>2. \A b : Bytes(b)' = Bytes(b)
  BY DEF Bytes
<1>3. Starts /\ Starts'
  BY <1>1, AllStart, AllStartNext
<1> DEFINE S == {k \in 0 .. n : Begin(k + 1)' = Begin(k + 1)}
<1>4. 0 \in S
  BY <1>1, <1>3 DEF Starts
\* The place of message k + 1 follows from that of message k, before and after.
<1>5. \A k \in 1 .. n + 1 : Begin(k + 1)' = Begin(k)' + Len(Bytes(IF k = n + 1 THEN m ELSE sent[k]))
  <2> TAKE k \in 1 .. n + 1
  <2>1. k \in 1 .. Len(sent')
    BY <1>1
  <2>2. Begin(k + 1)' = Begin(k)' + Len(Bytes(sent[k])')
    BY <1>3, <2>1 DEF Starts
  <2>3. sent'[k] = IF k = n + 1 THEN m ELSE sent[k]
    BY <1>1
  <2> QED BY <1>2, <2>2, <2>3
<1>6. ASSUME NEW k \in 0 .. n, k < n, k \in S PROVE k + 1 \in S
  <2>1. k + 1 \in 1 .. n /\ k + 1 \in 1 .. n + 1 /\ k + 1 \in 0 .. n /\ k + 1 # n + 1
    BY <1>1, <1>6
  <2>2. Begin((k + 1) + 1) = Begin(k + 1) + Len(Bytes(sent[k + 1]))
    BY <1>3, <2>1 DEF Starts
  <2>3. Begin((k + 1) + 1)' = Begin(k + 1)' + Len(Bytes(sent[k + 1]))
    BY <1>5, <2>1
  <2> QED BY <1>6, <2>1, <2>2, <2>3
<1>7. \A k \in 0 .. n : k \in S
  <2> HIDE DEF S
  <2> QED BY <1>1, <1>4, <1>6, UpTo
<1>8. \A i \in 1 .. n + 1 : Begin(i)' = Begin(i)
  <2> TAKE i \in 1 .. n + 1
  <2>1. i - 1 \in 0 .. n /\ (i - 1) + 1 = i
    BY <1>1
  <2> QED BY <1>7, <2>1
<1>9. Begin(n + 1)' = Begin(n + 1) + Len(Bytes(m))
  <2>1. PICK k \in 1 .. n + 1 : k = n + 1
    BY <1>1
  <2>2. (IF k = n + 1 THEN m ELSE sent[k]) = m
    BY <2>1
  <2>3. Begin(k + 1)' = Begin(k)' + Len(Bytes(m))
    BY <1>5, <2>2
  <2>4. Begin(k)' = Begin(k)
    BY <1>8
  <2>5. k + 1 = Len(sent') + 1
    BY <1>1, <2>1
  <2> QED BY <2>1, <2>3, <2>4, <2>5
<1> QED BY <1>1, <1>2, <1>8, <1>9

LEMMA GrownFollows ==
  ASSUME Agreed, NEW m \in Message[kind], sent' = Append(sent, m), kind' = kind,
         NEW b \in Seq(Byte), NEW from \in Nat, Follows(b, from)
  PROVE  Follows(b, from)'
<1>0. Starts /\ InOrder /\ Len(b) \in Nat /\ Len(sent) \in Nat
  BY AllStart, LaterLater DEF Agreed
<1>1. /\ Len(sent') = Len(sent) + 1 /\ sent'[Len(sent) + 1] = m
      /\ \A i \in 1 .. Len(sent) : sent'[i] = sent[i]
      /\ \A x : Bytes(x)' = Bytes(x)
      /\ \A i \in 1 .. Len(sent) + 1 : Begin(i)' = Begin(i)
      /\ Begin(Len(sent) + 1)' = Begin(Len(sent) + 1) + Len(Bytes(m))
  BY Grown
<1>2. Len(Bytes(m)) \in Nat /\ Begin(Len(sent) + 1) \in Nat
  BY <1>0, MessageIs DEF Starts, Agreed
<1>3. from + Len(b) <= Begin(Len(sent) + 1)'
  BY <1>0, <1>1, <1>2 DEF Follows
<1>4. ASSUME NEW i \in 1 .. Len(sent'), NEW j \in 1 .. Len(Bytes(sent[i])'),
             (Begin(i)' + j) - from \in 1 .. Len(b)
      PROVE  b[(Begin(i)' + j) - from] = Bytes(sent[i])'[j]
  <2>1. CASE i \in 1 .. Len(sent)
    <3>1. Begin(i)' = Begin(i) /\ Bytes(sent[i])' = Bytes(sent[i])
      BY <1>0, <1>1, <2>1
    <3> QED BY <1>4, <2>1, <3>1 DEF Follows
  <2>2. CASE i = Len(sent) + 1
    <3>1. Begin(i)' = Begin(Len(sent) + 1)
      BY <1>0, <1>1, <2>2
    <3>2. Bytes(sent[i])' = Bytes(m)
      BY <1>1, <2>2
    <3>3. (Begin(i)' + j) - from > Len(b)
      BY <1>0, <1>2, <3>1, <3>2 DEF Follows
    <3> QED BY <1>0, <1>4, <3>3
  <2> QED BY <1>0, <1>1, <2>1, <2>2
<1> QED BY <1>3, <1>4 DEF Follows

LEMMA SuffixIs ==
  ASSUME NEW t \in Seq(Byte), NEW s \in Seq(Byte)
  PROVE  IsSuffix(t, s) <=> /\ Len(t) <= Len(s)
                            /\ \A i \in 1 .. Len(t) : s[(Len(s) - Len(t)) + i] = t[i]
<1> DEFINE rt == Reverse(t)
           rs == Reverse(s)
<1>1. Len(t) \in Nat /\ Len(s) \in Nat
  OBVIOUS
<1>2. /\ rt \in Seq(Byte) /\ Len(rt) = Len(t) /\ rs \in Seq(Byte) /\ Len(rs) = Len(s)
      /\ \A i \in 1 .. Len(t) : rt[i] = t[(Len(t) - i) + 1]
      /\ \A i \in 1 .. Len(s) : rs[i] = s[(Len(s) - i) + 1]
  <2>1. \A i \in 1 .. Len(t) : (Len(t) - i) + 1 \in 1 .. Len(t)
    BY <1>1
  <2>2. \A i \in 1 .. Len(s) : (Len(s) - i) + 1 \in 1 .. Len(s)
    BY <1>1
  <2> QED BY <1>1, <2>1, <2>2 DEF Reverse
<1>3. IsSuffix(t, s) <=> /\ Len(t) <= Len(s)
                         /\ SubSeq(rt, 1, Len(t)) = SubSeq(rs, 1, Len(t))
  <2> HIDE DEF rt, rs
  <2>1. IsSuffix(t, s) <=> IsPrefix(rt, rs)
    BY DEF IsSuffix, rt, rs
  <2> QED BY <1>2, <2>1 DEF IsPrefix
<1> HIDE DEF rt, rs
<1>4. CASE Len(t) <= Len(s)
  <2>1. /\ SubSeq(rt, 1, Len(t)) = [i \in 1 .. Len(t) |-> rt[i]]
        /\ SubSeq(rs, 1, Len(t)) = [i \in 1 .. Len(t) |-> rs[i]]
    BY <1>1, <1>2, <1>4
  <2>2. (SubSeq(rt, 1, Len(t)) = SubSeq(rs, 1, Len(t))) <=> \A i \in 1 .. Len(t) : rt[i] = rs[i]
    BY <2>1
  <2>3. \A i \in 1 .. Len(t) : i \in 1 .. Len(s)
    BY <1>1, <1>4
  <2>4. ASSUME \A i \in 1 .. Len(t) : rt[i] = rs[i]
        PROVE  \A i \in 1 .. Len(t) : s[(Len(s) - Len(t)) + i] = t[i]
    <3> TAKE i \in 1 .. Len(t)
    <3>1. (Len(t) - i) + 1 \in 1 .. Len(t) /\ (Len(t) - ((Len(t) - i) + 1)) + 1 = i
          /\ (Len(s) - ((Len(t) - i) + 1)) + 1 = (Len(s) - Len(t)) + i
      BY <1>1
    <3> QED BY <1>2, <2>3, <2>4, <3>1
  <2>5. ASSUME \A i \in 1 .. Len(t) : s[(Len(s) - Len(t)) + i] = t[i]
        PROVE  \A i \in 1 .. Len(t) : rt[i] = rs[i]
    <3> TAKE i \in 1 .. Len(t)
    <3>1. (Len(t) - i) + 1 \in 1 .. Len(t)
          /\ (Len(s) - Len(t)) + ((Len(t) - i) + 1) = (Len(s) - i) + 1
      BY <1>1
    <3> QED BY <1>2, <2>3, <2>5, <3>1
  <2> QED BY <1>3, <1>4, <2>2, <2>4, <2>5
<1>5. CASE ~(Len(t) <= Len(s))
  BY <1>3, <1>5
<1> QED BY <1>4, <1>5

LEMMA TermIs == Term \in Seq(Byte) /\ Len(Term) \in Nat /\ Len(Term) >= 1 /\ MaxLine \in Nat /\ MaxLine >= 1
<1>1. Term \in Seq(Byte) /\ Term # << >> /\ MaxLine \in Nat /\ MaxLine # 0
  BY ChannelAssumption
<1> QED BY <1>1

LEMMA BothFollow ==
  Agreed => \A a \in Seq(Byte), b \in Seq(Byte), from \in Nat :
              Follows(a \o b, from) <=> Follows(a, from) /\ Follows(b, from + Len(a))
  BY FollowsBoth

LEMMA BothFollowNext ==
  (Agreed => \A a \in Seq(Byte), b \in Seq(Byte), from \in Nat :
               Follows(a \o b, from) <=> Follows(a, from) /\ Follows(b, from + Len(a)))'
  BY BothFollow, PTL

LEMMA SendMessageInv == ASSUME ChannelInv, SendMessage PROVE ChannelInv'
<1>1. PICK m \in Message[kind] : sent' = Append(sent, m) /\ out' = Bytes(m)
  BY DEF SendMessage
<1>2. /\ alive /\ out = << >> /\ kind' = kind /\ alive' = alive /\ wire' = wire
      /\ reading' = reading /\ part' = part /\ want' = want /\ left' = left /\ items' = items
      /\ too_long' = too_long /\ position' = position /\ start' = start
  BY DEF SendMessage, itemVars
<1>3. Typed /\ Conserved /\ Untouched /\ InLine /\ InItem /\ InMessage /\ Agreed
  BY DEF ChannelInv, Typed
<1>4. Starts /\ InOrder /\ Len(sent) \in Nat
  BY <1>3, AllStart, LaterLater DEF Agreed
<1> DEFINE n == Len(sent)
           b == Bytes(m)
<1>5. b \in Seq(Byte) /\ Len(b) \in Nat
  BY <1>3, MessageIs DEF Agreed
<1>6. /\ Agreed' /\ Len(sent') = n + 1 /\ sent'[n + 1] = m
      /\ \A i \in 1 .. n : sent'[i] = sent[i]
      /\ \A x : Bytes(x)' = Bytes(x)
      /\ \A i \in 1 .. n + 1 : Begin(i)' = Begin(i)
      /\ Begin(n + 1)' = Begin(n + 1) + Len(b)
  BY <1>1, <1>2, <1>3, Grown
<1>7. Typed'
  <2>1. ReadingsOf' = ReadingsOf
    BY DEF ReadingsOf
  <2> QED BY <1>1, <1>2, <1>3, <1>5, <1>6 DEF Typed, ReadingsOf
<1>8. wire \in Seq(Byte) /\ Len(wire) \in Nat /\ Follows(wire, position) /\ position \in Nat
      /\ position + Len(wire) = Begin(n + 1) /\ start \in Nat /\ start <= position
      /\ part \in Seq(Byte) /\ Len(part) \in Nat
  <2>1. wire \o << >> = wire
    BY <1>3 DEF Typed
  <2> QED BY <1>2, <1>3, <2>1 DEF Typed, Conserved
<1>9. \A w, p : w = wire /\ p = position => Follows(w, p)'
  <2>1. \A f \in Nat : Follows(wire, f) => (\A w \in Seq(Byte) : w = wire => Follows(w, f)')
    BY <1>1, <1>2, <1>3, GrownFollows
  <2> QED BY <1>2, <1>8, <2>1
<1>10. \A f, p : f = b /\ p = position + Len(wire) => Follows(f, p)'
  <2>1. \A w : w = Begin(n + 1) => w + Len(b) <= Begin(n + 1)'
    BY <1>4, <1>5, <1>6 DEF Starts
  <2>2. ASSUME NEW i \in 1 .. n + 1, NEW j \in 1 .. Len(Bytes(sent[i])'),
               (Begin(i)' + j) - Begin(n + 1) \in 1 .. Len(b)
        PROVE  b[(Begin(i)' + j) - Begin(n + 1)] = Bytes(sent[i])'[j]
    <3>1. CASE i = n + 1
      <4>1. Begin(i)' = Begin(n + 1) /\ Begin(n + 1) \in Nat /\ Bytes(sent[i])' = b
        BY <1>4, <1>6, <3>1 DEF Starts
      <4>2. (Begin(i)' + j) - Begin(n + 1) = j
        BY <1>5, <4>1
      <4> QED BY <4>1, <4>2
    <3>2. CASE i \in 1 .. n
      <4>1. Begin(i)' = Begin(i) /\ Bytes(sent[i])' = Bytes(sent[i])
        BY <1>4, <1>6, <3>2
      <4>2. /\ Begin(i + 1) = Begin(i) + Len(Bytes(sent[i])) /\ Begin(i) \in Nat
            /\ Len(Bytes(sent[i])) \in Nat
        BY <1>4, <3>2 DEF Starts
      <4>3. i + 1 \in 1 .. n + 1 /\ Begin(i + 1) <= Begin(n + 1) /\ Begin(n + 1) \in Nat
        BY <1>4, <3>2 DEF InOrder, Starts
      <4>4. (Begin(i)' + j) - Begin(n + 1) <= 0
        BY <4>1, <4>2, <4>3
      <4> QED BY <1>5, <2>2, <4>4
    <3> QED BY <1>4, <3>1, <3>2
  <2>3. \A w : w = Begin(n + 1) => \A f : f = b => Follows(f, w)'
    BY <1>6, <2>1, <2>2 DEF Follows
  <2>4. \A f, w : f = b /\ w = Begin(n + 1) => Follows(f, w)'
    BY <2>3
  <2> QED BY <1>8, <2>4
<1>11. Conserved'
  <2>1. wire' \o out' = wire \o b /\ Len(wire \o b) = Len(wire) + Len(b)
    BY <1>1, <1>2, <1>5, <1>8, Joined
  <2>2. \A w \in Seq(Byte), f \in Seq(Byte), p \in Nat :
          w = wire /\ f = b /\ p = position => Follows(w \o f, p)'
    <3> SUFFICES ASSUME NEW w \in Seq(Byte), NEW f \in Seq(Byte), NEW p \in Nat,
                        w = wire, f = b, p = position
                 PROVE  Follows(w \o f, p)'
      OBVIOUS
    <3>1. Follows(w, p)' /\ \A q : q = p + Len(w) => Follows(f, q)'
      BY <1>9, <1>10
    <3> QED BY <1>6, <3>1, BothFollowNext
  <2>3. Follows(wire \o out, position)'
    BY <1>2, <1>5, <1>8, <2>1, <2>2
  <2>4. position' + Len(wire' \o out') = Begin(n + 1)'
    BY <1>2, <1>4, <1>5, <1>6, <1>8, <2>1 DEF Starts
  <2> QED BY <2>3, <2>4 DEF Conserved
<1>12. Untouched'
  BY <1>2, <1>3 DEF Untouched
<1>13. InLine'
  <2>1. Follows(part, start) => Follows(part, start)'
    BY <1>1, <1>2, <1>3, <1>8, GrownFollows
  <2> QED BY <1>2, <1>3, <2>1 DEF InLine, Least
<1>14. InItem'
  <2>1. position - Len(part) \in Nat /\ Follows(part, position - Len(part))
           => Follows(part, position - Len(part))'
    BY <1>1, <1>2, <1>3, <1>8, GrownFollows
  <2> QED BY <1>2, <1>3, <2>1 DEF InItem
<1>15. InMessage'
  <2>1. \A x : Decodes(x)' <=> Decodes(x)
    BY <1>2 DEF Decodes, Current, Ahead
  <2>2. ASSUME NEW i \in 1 .. n + 1, Begin(i)' = start PROVE Decodes(sent[i])'
    <3>1. CASE i \in 1 .. n
      <4>1. Begin(i) = start
        BY <1>4, <1>6, <2>2, <3>1
      <4>2. Decodes(sent[i]) /\ sent'[i] = sent[i]
        BY <1>3, <1>6, <3>1, <4>1 DEF InMessage
      <4> QED BY <2>1, <4>2
    <3>2. CASE i = n + 1
      <4>1. start = Begin(n + 1)
        BY <1>4, <1>6, <2>2, <3>2
      <4>2. position = start
        BY <1>8, <4>1
      <4>3. Decodes(m)
        <5>1. Untouched /\ part = << >> /\ Len(part) = 0
          BY <1>3, <4>2 DEF Untouched
        <5> QED BY <1>8, <4>2, <5>1 DEF Decodes, Untouched, Ahead
      <4> QED BY <1>6, <2>1, <3>2, <4>3
    <3> QED BY <1>4, <3>1, <3>2
  <2> QED BY <1>2, <1>6, <2>2 DEF InMessage
<1> QED BY <1>7, <1>11, <1>12, <1>13, <1>14, <1>15 DEF ChannelInv

LEMMA ThreeJoined ==
  ASSUME NEW a \in Seq(Byte), NEW b \in Seq(Byte), NEW c \in Seq(Byte)
  PROVE  (a \o b) \o c = a \o (b \o c)
  BY ConcatAssociative

LEMMA TermInNothing == ~IsSuffix(Term, << >>)
<1>1. << >> \in Seq(Byte) /\ Len(<< >>) = 0
  OBVIOUS
<1>2. ~(Len(Term) <= Len(<< >>))
  BY <1>1, TermIs
<1> QED BY <1>1, <1>2, TermIs, SuffixIs

LEMMA InvParts ==
  ChannelInv => /\ Typed /\ Conserved /\ Untouched /\ InLine /\ InItem /\ InMessage
                /\ Agreed /\ Starts /\ InOrder /\ Len(sent) \in Nat
                /\ position <= Begin(Len(sent) + 1) /\ start <= Begin(Len(sent) + 1)
<1> SUFFICES ASSUME ChannelInv
             PROVE  /\ Typed /\ Conserved /\ Untouched /\ InLine /\ InItem /\ InMessage
                    /\ Agreed /\ Starts /\ InOrder /\ Len(sent) \in Nat
                    /\ position <= Begin(Len(sent) + 1) /\ start <= Begin(Len(sent) + 1)
  OBVIOUS
<1>1. Typed /\ Conserved /\ Untouched /\ InLine /\ InItem /\ InMessage /\ Agreed
  BY DEF ChannelInv, Typed
<1>2. Starts /\ InOrder /\ Len(sent) \in Nat
  BY <1>1, AllStart, LaterLater DEF Agreed
<1>3. wire \o out \in Seq(Byte)
  BY <1>1 DEF Typed
<1>4. Len(wire \o out) \in Nat
  BY <1>3
<1>5. position + Len(wire \o out) <= Begin(Len(sent) + 1)
  BY <1>1 DEF Conserved, Follows
<1>6. position \in Nat /\ start \in Nat /\ start <= position /\ Begin(Len(sent) + 1) \in Nat
  BY <1>1, <1>2 DEF Typed, Starts
<1>7. position <= Begin(Len(sent) + 1) /\ start <= Begin(Len(sent) + 1)
  BY <1>4, <1>5, <1>6
<1> QED BY <1>1, <1>2, <1>7

(* What only moves bytes on does not change what the receiver knows.         *)
LEMMA ReceiverSame ==
  ASSUME ChannelInv, sent' = sent, kind' = kind, reading' = reading, part' = part,
         want' = want, left' = left, items' = items, too_long' = too_long,
         position' = position, start' = start, Typed', Conserved'
  PROVE  ChannelInv'
<1>1. /\ \A i : Begin(i)' = Begin(i)
      /\ \A b, from : Follows(b, from)' <=> Follows(b, from)
  BY SameStream
<1>2. Untouched' /\ InLine' /\ InItem'
  BY <1>1, InvParts DEF Untouched, InLine, InItem, Least
<1>3. InMessage'
  <2>1. \A x : Decodes(x)' <=> Decodes(x)
    BY DEF Decodes, Current, Ahead
  <2> QED BY <1>1, <2>1, InvParts DEF InMessage
<1> QED BY <1>2, <1>3 DEF ChannelInv

LEMMA SendBytesInv == ASSUME ChannelInv, SendBytes PROVE ChannelInv'
<1>1. PICK n \in 1 .. Least(Len(out), Room - Len(wire)) :
        wire' = wire \o SubSeq(out, 1, n) /\ out' = SubSeq(out, n + 1, Len(out))
  BY DEF SendBytes
<1>2. /\ kind' = kind /\ alive' = alive /\ sent' = sent
      /\ reading' = reading /\ part' = part /\ want' = want /\ left' = left /\ items' = items
      /\ too_long' = too_long /\ position' = position /\ start' = start
  BY DEF SendBytes, itemVars
<1>3. wire \in Seq(Byte) /\ out \in Seq(Byte) /\ Len(wire) \in Nat /\ Len(out) \in Nat
  BY InvParts DEF Typed
<1>4. n \in 1 .. Len(out)
  BY <1>3, ChannelAssumption DEF Least
<1> DEFINE a == SubSeq(out, 1, n)
           b == SubSeq(out, n + 1, Len(out))
<1>5. a \in Seq(Byte) /\ b \in Seq(Byte) /\ a \o b = out
  <2>1. 1 \in 1 .. Len(out) + 1 /\ n \in 1 - 1 .. Len(out) /\ Len(out) \in n .. Len(out)
    BY <1>3, <1>4
  <2>2. a \in Seq(Byte) /\ b \in Seq(Byte)
    BY <1>3, <1>4
  <2>3. a \o b = SubSeq(out, 1, Len(out))
    BY <1>3, <2>1, ConcatAdjacentSubSeq
  <2>4. SubSeq(out, 1, Len(out)) = out
    BY <1>3, SubSeqFull
  <2> QED BY <2>2, <2>3, <2>4
<1> HIDE DEF a, b
<1>6. wire' = wire \o a /\ out' = b
  BY <1>1 DEF a, b
<1>7. wire' \o out' = wire \o out
  <2>1. (wire \o a) \o b = wire \o (a \o b)
    BY <1>3, <1>5, ThreeJoined
  <2> QED BY <1>5, <1>6, <2>1
<1>8. /\ \A i : Begin(i)' = Begin(i)
      /\ \A x, from : Follows(x, from)' <=> Follows(x, from)
  BY <1>2, SameStream
<1>9. Conserved'
  BY <1>2, <1>7, <1>8, InvParts DEF Conserved
<1>10. Typed'
  <2>1. wire' \in Seq(Byte) /\ out' \in Seq(Byte)
    BY <1>3, <1>5, <1>6
  <2>2. Agreed' /\ ReadingsOf' = ReadingsOf
    BY <1>2, SameStream, InvParts DEF ReadingsOf
  <2> QED BY <1>2, <2>1, <2>2, InvParts DEF Typed, ReadingsOf
<1> QED BY <1>2, <1>9, <1>10, ReceiverSame

LEMMA CloseInv == ASSUME ChannelInv, Close PROVE ChannelInv'
<1>1. /\ kind' = kind /\ alive' = FALSE /\ sent' = sent /\ wire' = wire /\ out' = << >>
      /\ reading' = reading /\ part' = part /\ want' = want /\ left' = left /\ items' = items
      /\ too_long' = too_long /\ position' = position /\ start' = start
  BY DEF Close, itemVars
<1>2. wire \in Seq(Byte) /\ out \in Seq(Byte) /\ Agreed /\ position \in Nat
  BY InvParts DEF Typed
<1>3. \A b, from : Follows(b, from)' <=> Follows(b, from)
  BY <1>1, SameStream
<1>4. Conserved'
  <2>1. Follows(wire, position)
    BY <1>2, InvParts, FollowsBoth DEF Conserved
  <2>2. wire' \o out' = wire
    BY <1>1, <1>2
  <2> QED BY <1>1, <1>3, <2>1, <2>2 DEF Conserved
<1>5. Typed'
  <2>0. alive' \in BOOLEAN
    BY <1>1, Zenon
  <2>1. alive' \in BOOLEAN /\ out' \in Seq(Byte)
    BY <1>1, <2>0
  <2>2. Agreed'
    BY <1>1, SameStream, InvParts
  <2> QED BY <1>1, <2>1, <2>2, InvParts DEF Typed, ReadingsOf
<1> QED BY <1>1, <1>4, <1>5, ReceiverSame

(* Nothing is a beginning of what follows.                                   *)
LEMMA Nothing ==
  ASSUME Agreed, NEW from \in Nat, from <= Begin(Len(sent) + 1)
  PROVE  Follows(<< >>, from)
<1>1. Len(<< >>) = 0 /\ 1 .. 0 = {}
  OBVIOUS
<1> QED BY <1>1, AllStart DEF Follows, Starts

LEMMA AcceptInv == ASSUME ChannelInv, Accept PROVE ChannelInv'
<1>1. /\ kind' = kind /\ alive' = alive /\ sent' = sent /\ wire' = wire /\ out' = out
      /\ part' = part /\ want' = want /\ left' = left /\ items' = items
      /\ too_long' = too_long /\ position' = position /\ start' = start
      /\ reading = "idle"
      /\ reading' = CASE kind = "line" -> "line" [] kind = "array" -> "count"
                      [] OTHER -> "length"
  BY DEF Accept, itemVars, sendVars
<1>2. /\ position = start /\ part = << >> /\ ~too_long /\ items = << >> /\ start \in Nat
      /\ start <= Begin(Len(sent) + 1) /\ Agreed
  BY <1>1, InvParts DEF Untouched, Typed
<1>3. /\ \A i : Begin(i)' = Begin(i)
      /\ \A b, from : Follows(b, from)' <=> Follows(b, from)
      /\ Agreed'
  BY <1>1, <1>2, SameStream
<1>4. \/ kind = "line" /\ reading' = "line"
      \/ kind = "string" /\ reading' = "length"
      \/ kind = "array" /\ reading' = "count"
  BY <1>1, <1>2 DEF Agreed
<1>5. Typed'
  BY <1>1, <1>3, <1>4, InvParts DEF Typed, ReadingsOf
<1>6. Conserved'
  BY <1>1, <1>3, InvParts DEF Conserved
<1>7. Untouched'
  BY <1>1, <1>2, <1>4 DEF Untouched
<1>8. Len(part) = 0 /\ Follows(part, start)
  BY <1>2, Nothing
<1>9. InLine'
  <2>1. 0 = Least(start - start, MaxLine) /\ ~(start - start > MaxLine)
    BY <1>2, TermIs DEF Least
  <2>2. \A k \in 0 .. 0 : ~IsSuffix(Term, SubSeq(<< >>, 1, k))
    <3> TAKE k \in 0 .. 0
    <3>1. SubSeq(<< >>, 1, k) = << >> /\ << >> \in Seq(Byte) /\ Len(<< >>) = 0
      OBVIOUS
    <3>2. ~IsSuffix(Term, << >>)
      BY TermInNothing
    <3> QED BY <3>1, <3>2
  <2> QED BY <1>1, <1>2, <1>3, <1>8, <2>1, <2>2 DEF InLine, Least
<1>10. InItem'
  BY <1>1, <1>2, <1>3, <1>4, <1>8, Bases DEF InItem
<1>11. InMessage'
  <2>1. \A x : Decodes(x)'
    BY <1>1, <1>2, <1>4, <1>8 DEF Decodes, Ahead
  <2> QED BY <1>1, <2>1 DEF InMessage
<1> QED BY <1>5, <1>6, <1>7, <1>9, <1>10, <1>11 DEF ChannelInv

(* An accept that has returned has nothing in its hands.                     *)
LEMMA ReturnInv ==
  ASSUME NEW value, Return(value), Typed', Conserved' PROVE ChannelInv'
<1>1. reading' = "idle" /\ start' = position' /\ part' = << >> /\ items' = << >> /\ too_long' = FALSE
  BY DEF Return, NoItem
<1>2. Untouched' /\ InLine' /\ InItem'
  BY <1>1 DEF Untouched, InLine, InItem
<1>3. InMessage'
  BY <1>1 DEF InMessage, Decodes
<1> QED BY <1>2, <1>3 DEF ChannelInv

LEMMA GiveUpInv == ASSUME ChannelInv, TimeOut \/ EndOfFile PROVE ChannelInv'
<1>1. /\ Return(Failed) /\ kind' = kind /\ alive' = alive /\ sent' = sent /\ wire' = wire
      /\ out' = out /\ position' = position
  BY DEF TimeOut, EndOfFile, sendVars
<1>2. /\ reading' = "idle" /\ start' = position' /\ part' = << >> /\ items' = << >>
      /\ too_long' = FALSE /\ want' = 0 /\ left' = 0
  BY <1>1 DEF Return, NoItem
<1>3. /\ \A i : Begin(i)' = Begin(i)
      /\ \A b, from : Follows(b, from)' <=> Follows(b, from)
      /\ Agreed' <=> Agreed
  BY <1>1, SameStream
<1>4. Conserved'
  BY <1>1, <1>3, InvParts DEF Conserved
<1>5. Typed'
  <2>1. reading' \in ReadingsOf'[kind']
    BY <1>1, <1>2, InvParts DEF Typed, ReadingsOf, Agreed
  <2>0. too_long' \in BOOLEAN
    BY <1>2, Zenon
  <2>2. part' \in Seq(Byte) /\ items' \in Seq(Seq(Byte) \cup {NULL}) /\ too_long' \in BOOLEAN
    BY <1>2, <2>0
  <2> QED BY <1>1, <1>2, <1>3, <2>1, <2>2, InvParts DEF Typed
<1> QED BY <1>1, <1>4, <1>5, ReturnInv

-----------------------------------------------------------------------------
(* Channel: a read                                                         *)

Item(n) == part \o SubSeq(wire, 1, n)

\* The socket gives n bytes.
Takes(n) ==
  /\ n \in 1 .. Len(wire) /\ n <= Chunk /\ reading \notin {"idle", "dead"}
  /\ kind' = kind /\ sent' = sent /\ alive' = alive /\ out' = out
  /\ wire' = SubSeq(wire, n + 1, Len(wire)) /\ position' = position + n

Completes(n) ==
  \/ reading = "text" /\ Len(Item(n)) >= want
  \/ reading \in {"length", "count"} /\ Len(Item(n)) = IntBytes

\* And accept does one of these.
Handles(n) ==
  \/ reading = "line" /\ AddToLine(wire[1])
  \/ reading = "text" /\ Completes(n) /\ Element(SubSeq(Item(n), 1, want))
  \/ reading = "length" /\ Completes(n) /\ HaveLength(Unsigned(Item(n)))
  \/ reading = "count" /\ Completes(n) /\ HaveCount(Unsigned(Item(n)))
  \/ /\ reading # "line" /\ ~Completes(n) /\ part' = Item(n)
     /\ reading' = reading /\ want' = want /\ left' = left /\ items' = items
     /\ too_long' = too_long /\ received' = received /\ start' = start

LEMMA ReadTakes ==
  ASSUME ChannelInv, Read
  PROVE  \E n : Takes(n) /\ Handles(n)
<1> DEFINE n == Least(Chunk, Len(wire))
<1>1. /\ wire \in Seq(Byte) /\ part \in Seq(Byte) /\ wire # << >> /\ want \in Nat
      /\ reading \notin {"idle", "dead"}
  BY InvParts DEF Typed, Read
<1>2. Len(wire) \in Nat /\ Len(wire) >= 1 /\ Len(part) \in Nat
  BY <1>1
<1>3. reading \in {"line", "count", "length", "text"}
  BY <1>1, InvParts DEF Typed, ReadingsOf, Agreed
<1>4. Chunk \in Nat /\ Chunk >= 1
  <2>1. CASE reading = "line"
    BY <2>1 DEF Chunk
  <2>2. CASE reading = "text"
    BY <1>1, <1>2, <2>2, InvParts DEF Chunk, InItem
  <2>3. CASE reading \in {"count", "length"}
    <3>1. Len(part) < IntBytes /\ Chunk = IntBytes - Len(part)
      BY <2>3, InvParts DEF Chunk, InItem
    <3> QED BY <1>2, <3>1, Bases
  <2> QED BY <1>3, <2>1, <2>2, <2>3
<1>5. n \in 1 .. Len(wire) /\ n <= Chunk
  BY <1>2, <1>4 DEF Least
<1>6. Takes(n)
  BY <1>1, <1>5 DEF Read, Takes, sendVars
<1>7. Handles(n)
  <2>1. CASE reading = "line"
    BY <2>1 DEF Read, Handles
  <2>2. CASE reading = "text"
    <3>1. CASE Len(Item(n)) >= want
      BY <2>2, <3>1 DEF Read, Handles, Completes, Item
    <3>2. CASE ~(Len(Item(n)) >= want)
      BY <2>2, <3>2 DEF Read, Handles, Completes, Item
    <3> QED BY <3>1, <3>2
  <2>3. CASE reading = "length"
    <3>1. CASE Len(Item(n)) = IntBytes
      BY <2>3, <3>1 DEF Read, Handles, Completes, Item
    <3>2. CASE Len(Item(n)) # IntBytes
      BY <2>3, <3>2 DEF Read, Handles, Completes, Item
    <3> QED BY <3>1, <3>2
  <2>4. CASE reading = "count"
    <3>1. CASE Len(Item(n)) = IntBytes
      BY <2>4, <3>1 DEF Read, Handles, Completes, Item
    <3>2. CASE Len(Item(n)) # IntBytes
      BY <2>4, <3>2 DEF Read, Handles, Completes, Item
    <3> QED BY <3>1, <3>2
  <2> QED BY <1>3, <2>1, <2>2, <2>3, <2>4
<1> QED BY <1>6, <1>7

(* The bytes taken are the next ones of the stream.                          *)
LEMMA Taken ==
  ASSUME ChannelInv, NEW n, Takes(n)
  PROVE  /\ n \in Nat /\ n >= 1 /\ Conserved' /\ wire' \in Seq(Byte) /\ out' \in Seq(Byte)
         /\ position' \in Nat /\ position' = position + n /\ start < position'
         /\ SubSeq(wire, 1, n) \in Seq(Byte) /\ Len(SubSeq(wire, 1, n)) = n
         /\ Follows(SubSeq(wire, 1, n), position)
         /\ Item(n) \in Seq(Byte) /\ Len(Item(n)) = Len(part) + n
         /\ position' <= Begin(Len(sent) + 1)
<1>1. wire \in Seq(Byte) /\ out \in Seq(Byte) /\ part \in Seq(Byte) /\ Agreed /\ position \in Nat
      /\ start \in Nat /\ start <= position /\ Follows(wire \o out, position)
  BY InvParts DEF Typed, Conserved
<1>2. n \in 1 .. Len(wire) /\ Len(wire) \in Nat /\ n \in Nat /\ n >= 1
  BY <1>1 DEF Takes
<1> DEFINE a == SubSeq(wire, 1, n)
           b == SubSeq(wire, n + 1, Len(wire))
<1>3. a \in Seq(Byte) /\ b \in Seq(Byte) /\ a \o b = wire /\ Len(a) = n
  <2>1. 1 \in 1 .. Len(wire) + 1 /\ n \in 1 - 1 .. Len(wire) /\ Len(wire) \in n .. Len(wire)
    BY <1>2
  <2>2. a \in Seq(Byte) /\ b \in Seq(Byte) /\ Len(a) = n
    BY <1>1, <1>2
  <2>3. a \o b = SubSeq(wire, 1, Len(wire))
    BY <1>1, <2>1, ConcatAdjacentSubSeq
  <2>4. SubSeq(wire, 1, Len(wire)) = wire
    BY <1>1, SubSeqFull
  <2> QED BY <2>2, <2>3, <2>4
<1> HIDE DEF a, b
<1>4. wire' = b /\ out' = out /\ position' = position + n /\ sent' = sent /\ kind' = kind
      /\ alive' = alive
  BY DEF Takes, b
<1>5. b \o out \in Seq(Byte) /\ a \o (b \o out) = wire \o out
      /\ Len(wire \o out) = n + Len(b \o out) /\ Len(b \o out) \in Nat
  <2>1. b \o out \in Seq(Byte) /\ (a \o b) \o out = a \o (b \o out)
    <3>1. b \o out \in Seq(Byte)
      BY <1>1, <1>3, Joined
    <3>2. (a \o b) \o out = a \o (b \o out)
      <4>1. a \in Seq(Byte) /\ b \in Seq(Byte) /\ out \in Seq(Byte)
        BY <1>1, <1>3
      <4> QED BY <4>1, ThreeJoined
    <3> QED BY <3>1, <3>2
  <2>2. Len(a \o (b \o out)) = Len(a) + Len(b \o out)
    BY <1>3, <2>1, Joined
  <2> QED BY <1>3, <2>1, <2>2
<1>6. Follows(a, position) /\ Follows(b \o out, position + Len(a))
  BY <1>1, <1>3, <1>5, FollowsBoth
<1>7. Conserved'
  <2>1. /\ \A i : Begin(i)' = Begin(i)
        /\ \A x, from : Follows(x, from)' <=> Follows(x, from)
    BY <1>4, SameStream
  <2> QED BY <1>1, <1>2, <1>3, <1>4, <1>5, <1>6, <2>1, InvParts DEF Conserved
<1>8. Item(n) \in Seq(Byte) /\ Len(Item(n)) = Len(part) + n
  BY <1>1, <1>3, Joined DEF Item, a
<1>9. position + Len(a) <= Begin(Len(sent) + 1)
  BY <1>6 DEF Follows
<1> QED BY <1>1, <1>2, <1>3, <1>4, <1>6, <1>7, <1>8, <1>9 DEF a

(* A byte more of a line                                                   *)
LEMMA LineByte ==
  ASSUME ChannelInv, NEW n, Takes(n), reading = "line"
  PROVE  /\ n = 1 /\ kind = "line" /\ Append(part, wire[1]) = Item(n)
         /\ Len(part) < MaxLine => /\ position - start = Len(part) /\ ~too_long
                                   /\ Follows(Append(part, wire[1]), start)
                                   /\ position' = start + Len(Append(part, wire[1]))
         /\ ~(Len(part) < MaxLine) => /\ Len(part) = MaxLine /\ ~IsSuffix(Term, part)
                                      /\ position - start >= MaxLine
<1>1. n \in Nat /\ n >= 1 /\ n <= 1
  BY Taken DEF Takes, Chunk
<1>2. n = 1 /\ kind = "line"
  <2>1. n = 1
    BY <1>1
  <2>2. kind = "line"
    <3>1. reading \in ReadingsOf[kind] /\ kind \in {"line", "string", "array"}
      BY InvParts DEF Typed, Agreed
    <3>2. "line" \notin ReadingsOf["string"] /\ "line" \notin ReadingsOf["array"]
      BY DEF ReadingsOf
    <3> QED BY <3>1, <3>2
  <2> QED BY <2>1, <2>2
<1>3. /\ wire \in Seq(Byte) /\ part \in Seq(Byte) /\ Agreed /\ position \in Nat /\ start \in Nat
      /\ start <= position /\ Len(wire) >= 1 /\ Len(part) \in Nat /\ wire[1] \in Byte
  BY <1>2, InvParts DEF Typed, Takes
<1>4. Append(part, wire[1]) = Item(n)
  <2>1. SubSeq(wire, 1, 1) = <<wire[1]>>
    <3>1. SubSeq(wire, 1, 1) \in Seq(Byte) /\ Len(SubSeq(wire, 1, 1)) = 1
          /\ SubSeq(wire, 1, 1)[1] = wire[1]
      BY <1>3
    <3>2. <<wire[1]>> \in Seq(Byte) /\ Len(<<wire[1]>>) = 1 /\ <<wire[1]>>[1] = wire[1]
      BY <1>3
    <3>3. \A i \in 1 .. 1 : SubSeq(wire, 1, 1)[i] = <<wire[1]>>[i]
      BY <3>1, <3>2
    <3> QED BY <3>1, <3>2, <3>3, SeqEqual
  <2>2. Append(part, wire[1]) = part \o <<wire[1]>>
    BY <1>3, AppendIsConcat
  <2> QED BY <1>2, <2>1, <2>2 DEF Item
<1>5. /\ Len(part) = Least(position - start, MaxLine) /\ (too_long <=> position - start > MaxLine)
      /\ Follows(part, start)
      /\ \A k \in 0 .. Len(part) : ~IsSuffix(Term, SubSeq(part, 1, k))
  BY InvParts DEF InLine
<1>6. CASE Len(part) < MaxLine
  <2>1. position - start = Len(part) /\ ~too_long
    BY <1>3, <1>5, <1>6, TermIs DEF Least
  <2>2. position = start + Len(part)
    BY <1>3, <2>1
  <2>3. SubSeq(wire, 1, n) \in Seq(Byte) /\ Follows(SubSeq(wire, 1, n), start + Len(part))
    BY <2>2, Taken
  <2>4. Follows(Item(n), start)
    BY <1>3, <1>5, <2>3, FollowsBoth DEF Item
  <2>5. position' = start + Len(Item(n))
    <3>1. position' = position + n /\ Len(Item(n)) = Len(part) + n
      BY Taken
    <3> QED BY <1>2, <1>3, <2>2, <3>1
  <2> QED BY <1>2, <1>4, <1>6, <2>1, <2>4, <2>5
<1>7. CASE ~(Len(part) < MaxLine)
  <2>1. Len(part) = MaxLine /\ position - start >= MaxLine
    BY <1>3, <1>5, <1>7, TermIs DEF Least
  <2>2. SubSeq(part, 1, Len(part)) = part /\ Len(part) \in 0 .. Len(part)
    BY <1>3, SubSeqFull
  <2>3. ~IsSuffix(Term, part)
    BY <1>5, <2>2
  <2> QED BY <1>2, <1>4, <1>7, <2>1, <2>3
<1> QED BY <1>6, <1>7

LEMMA SameTypes ==
  ASSUME ChannelInv, NEW n, Takes(n), part' \in Seq(Byte), want' \in Nat, left' \in Nat,
         items' \in Seq(Seq(Byte) \cup {NULL}), too_long' \in BOOLEAN,
         reading' \in ReadingsOf[kind], start' \in {start, position'}
  PROVE  Typed'
<1>1. Agreed'
  BY SameStream, InvParts DEF Takes
<1>2. ReadingsOf'[kind'] = ReadingsOf[kind] /\ alive' \in BOOLEAN
  BY InvParts DEF Takes, Typed, ReadingsOf
<1>3. start' \in Nat /\ start' <= position'
  <2>1. position' \in Nat /\ start < position'
    BY Taken
  <2>2. start \in Nat
    BY InvParts DEF Typed
  <2> QED BY <2>1, <2>2
<1>4. wire' \in Seq(Byte) /\ out' \in Seq(Byte) /\ position' \in Nat
  BY Taken
<1> QED BY <1>1, <1>2, <1>3, <1>4 DEF Typed

(* After a return everything is as in the beginning.                         *)
LEMMA ReturnsInv ==
  ASSUME ChannelInv, NEW n, Takes(n), NEW value, Return(value) PROVE ChannelInv'
<1>1. /\ reading' = "idle" /\ start' = position' /\ part' = << >> /\ items' = << >>
      /\ too_long' = FALSE /\ want' = 0 /\ left' = 0
  BY DEF Return, NoItem
<1>2. reading' \in ReadingsOf[kind]
  BY <1>1, InvParts DEF Agreed, ReadingsOf
<1>3. too_long' \in BOOLEAN
  BY <1>1, Zenon
<1>4. part' \in Seq(Byte) /\ items' \in Seq(Seq(Byte) \cup {NULL})
  BY <1>1
<1>5. Typed'
  BY <1>1, <1>2, <1>3, <1>4, SameTypes
<1> QED BY <1>5, Taken, ReturnInv

LEMMA AddToLineInv ==
  ASSUME ChannelInv, NEW n, Takes(n), reading = "line", AddToLine(wire[1])
  PROVE  ChannelInv'
<1> DEFINE fits == Len(part) < MaxLine
           buffer == IF fits THEN Append(part, wire[1]) ELSE part
<1>1. CASE IsSuffix(Term, buffer)
  <2>1. \E value : Return(value)
    BY <1>1 DEF AddToLine
  <2> QED BY <2>1, ReturnsInv
<1>2. CASE ~IsSuffix(Term, buffer)
  <2>1. /\ part' = buffer /\ too_long' = (too_long \/ ~fits)
        /\ reading' = "line" /\ want' = want /\ left' = left /\ items' = items /\ start' = start
    BY <1>2 DEF AddToLine
  <2>2. /\ part \in Seq(Byte) /\ Item(n) \in Seq(Byte) /\ Len(part) \in Nat
        /\ Len(Item(n)) = Len(part) + 1 /\ position \in Nat /\ start \in Nat /\ kind = "line"
        /\ position' = position + 1 /\ Append(part, wire[1]) = Item(n) /\ start < position'
    <3>1. n = 1 /\ kind = "line" /\ Append(part, wire[1]) = Item(n)
      BY LineByte
    <3>2. /\ Item(n) \in Seq(Byte) /\ Len(Item(n)) = Len(part) + n /\ position' = position + n
          /\ start < position'
      BY Taken
    <3>3. part \in Seq(Byte) /\ position \in Nat /\ start \in Nat
      BY InvParts DEF Typed
    <3>4. Len(part) \in Nat
      BY <3>3
    <3> QED BY <3>1, <3>2, <3>3, <3>4
  <2>3. /\ Len(part) = Least(position - start, MaxLine) /\ (too_long <=> position - start > MaxLine)
        /\ Follows(part, start)
        /\ \A k \in 0 .. Len(part) : ~IsSuffix(Term, SubSeq(part, 1, k))
    BY InvParts DEF InLine
  <2>4. Typed'
    <3>1. part' \in Seq(Byte)
      BY <2>1, <2>2
    <3>2. too_long' \in BOOLEAN
      BY <2>1, Zenon
    <3>3. want' \in Nat /\ left' \in Nat /\ items' \in Seq(Seq(Byte) \cup {NULL})
      BY <2>1, InvParts DEF Typed
    <3>4. reading' \in ReadingsOf[kind]
      BY <2>1, <2>2 DEF ReadingsOf
    <3> QED BY <2>1, <3>1, <3>2, <3>3, <3>4, SameTypes
  <2>5. InLine'
    <3>1. \A b, from : Follows(b, from)' <=> Follows(b, from)
      BY SameStream DEF Takes
    <3>2. CASE fits
      <4>1. part' = Item(n) /\ position - start = Len(part) /\ Follows(Item(n), start) /\ ~too_long
        BY <2>1, <2>2, <3>2, LineByte
      <4>2. Len(part') = Least(position' - start, MaxLine) /\ ~(position' - start > MaxLine)
        BY <2>2, <3>2, <4>1, TermIs DEF Least
      <4>3. ~too_long'
        BY <2>1, <3>2, <4>1
      <4>4. ASSUME NEW k \in 0 .. Len(Item(n)) PROVE ~IsSuffix(Term, SubSeq(Item(n), 1, k))
        <5>1. CASE k = Len(Item(n))
          <6>1. SubSeq(Item(n), 1, k) = Item(n)
            BY <2>2, <5>1, SubSeqFull
          <6> QED BY <1>2, <2>2, <3>2, <6>1
        <5>2. CASE k # Len(Item(n))
          <6>1. k \in 0 .. Len(part)
            BY <2>2, <5>2
          <6>2. SubSeq(Item(n), 1, k) = SubSeq(part, 1, k)
            <7>1. /\ part \in Seq(Byte) /\ SubSeq(wire, 1, n) \in Seq(Byte)
                  /\ 1 \in 1 .. Len(part) + 1 /\ k \in 1 - 1 .. Len(part)
              BY <2>2, <6>1, Taken
            <7> QED BY <7>1, SubSeqOfConcat1 DEF Item
          <6> QED BY <2>3, <6>1, <6>2
        <5> QED BY <5>1, <5>2
      <4> QED BY <2>1, <3>1, <4>1, <4>2, <4>3, <4>4 DEF InLine, Least
    <3>3. CASE ~fits
      <4>1. part' = part /\ too_long' /\ Len(part) = MaxLine /\ position - start >= MaxLine
        BY <2>1, <3>3, LineByte
      <4>2. Len(part) = Least(position' - start, MaxLine) /\ position' - start > MaxLine
        BY <2>2, <4>1, TermIs DEF Least
      <4> QED BY <2>1, <2>3, <3>1, <4>1, <4>2 DEF InLine, Least
    <3> QED BY <3>2, <3>3
  <2>6. Untouched' /\ InItem'
    BY <2>1, <2>2 DEF Untouched, InItem
  <2>7. InMessage'
    BY <2>1 DEF InMessage, Decodes
  <2> QED BY <2>4, <2>5, <2>6, <2>7, Taken DEF ChannelInv
<1> QED BY <1>1, <1>2

(* The string that is being read of a message is a part of it.               *)
LEMMA ElementAt ==
  ASSUME ChannelInv, reading \in {"length", "text"}, NEW i \in 1 .. Len(sent),
         Begin(i) = start, NEW m, m = sent[i], NEW s, s = Current(m)
  PROVE  /\ kind \in {"string", "array"} /\ s \in Texts \cup {NULL} /\ Ahead(m) \in Nat
         /\ Len(String(s)) \in Nat
         /\ \A x \in 1 .. Len(String(s)) : Bytes(m)[Ahead(m) + x] = String(s)[x]
         /\ Ahead(m) + Len(String(s)) <= Len(Bytes(m))
         /\ kind = "string" => Ahead(m) + Len(String(s)) = Len(Bytes(m)) /\ s = m
         /\ kind = "array" =>
              /\ m \in Arrays /\ Len(m) \in Nat /\ Len(items) + 1 \in 1 .. Len(m)
              /\ s = m[Len(items) + 1]
              /\ Offset(m)[Len(items) + 1] = Ahead(m) + Len(String(s))
              /\ left = 1 => Ahead(m) + Len(String(s)) = Len(Bytes(m))
<1>1. m \in Message[kind] /\ Agreed /\ Decodes(m)
  BY InvParts DEF Starts, InMessage
<1>2. kind \in {"string", "array"}
  <2>1. reading \in ReadingsOf[kind] /\ kind \in {"line", "string", "array"}
    BY InvParts DEF Typed, Agreed
  <2>2. "length" \notin ReadingsOf["line"] /\ "text" \notin ReadingsOf["line"]
    BY DEF ReadingsOf
  <2> QED BY <2>1, <2>2
<1>3. CASE kind = "string"
  <2>1. s = m /\ m \in Texts \cup {NULL} /\ Bytes(m) = String(m) /\ Ahead(m) = 0
    BY <1>1, <1>3, MessageIs DEF Agreed, Current, Ahead
  <2>2. Len(String(s)) \in Nat
    BY <2>1, StringIs
  <2>3. \A x \in 1 .. Len(String(s)) : Ahead(m) + x = x
    BY <2>1, <2>2
  <2> QED BY <1>3, <2>1, <2>2, <2>3
<1>4. CASE kind = "array"
  <2>1. m \in Arrays /\ Bytes(m) = ArrayOf(m)
    BY <1>1, <1>4, MessageIs DEF Agreed
  <2>2. m \in Seq(Texts \cup {NULL}) /\ ArrayOf(m) \in Seq(Byte) /\ Layout(m, Offset(m))
    BY <2>1, ArrayIs
  <2> DEFINE k == Len(items)
  <2>3. k \in Nat /\ k < Len(m) /\ left = Len(m) - k /\ Len(m) \in Nat
    <3>1. items \in Seq(Seq(Byte) \cup {NULL})
      BY InvParts DEF Typed
    <3>2. k < Len(m) /\ left = Len(m) - k
      BY <1>1, <1>4 DEF Decodes
    <3> QED BY <2>2, <3>1, <3>2
  <2>4. s = m[k + 1] /\ Ahead(m) = Offset(m)[k]
    BY <1>4 DEF Current, Ahead
  <2> HIDE DEF k
  <2>5. k + 1 \in 1 .. Len(m) /\ k \in 0 .. Len(m) /\ (k + 1) - 1 = k /\ k + 1 \in 0 .. Len(m)
    BY <2>3
  <2>6. s \in Texts \cup {NULL} /\ Ahead(m) \in Nat
    <3>1. s \in Texts \cup {NULL}
      BY <2>2, <2>4, <2>5
    <3>2. Offset(m) \in [0 .. Len(m) -> Nat]
      BY <2>2 DEF Layout
    <3> QED BY <2>4, <2>5, <3>1, <3>2
  <2>7. Len(String(s)) \in Nat
    BY <2>6, StringIs
  <2>8. /\ Offset(m)[k + 1] = Offset(m)[k] + Len(String(s))
        /\ \A x \in 1 .. Len(String(s)) : ArrayOf(m)[Offset(m)[k] + x] = String(s)[x]
        /\ Offset(m)[k + 1] <= Len(ArrayOf(m))
    BY <2>2, <2>4, <2>5 DEF Layout
  <2>9. left = 1 => Offset(m)[k + 1] = Len(ArrayOf(m))
    <3>1. left = 1 => k + 1 = Len(m)
      BY <2>3
    <3> QED BY <2>2, <3>1 DEF Layout
  <2> QED BY <1>4, <2>1, <2>3, <2>4, <2>5, <2>6, <2>7, <2>8, <2>9 DEF k
<1> QED BY <1>2, <1>3, <1>4

(* What has been read of an item, with the bytes taken now                   *)
LEMMA ItemFollows ==
  ASSUME ChannelInv, NEW n, Takes(n), reading \in {"count", "length", "text"}
  PROVE  /\ position - Len(part) \in Nat /\ Follows(Item(n), position - Len(part))
         /\ position' = (position - Len(part)) + Len(Item(n))
         /\ Len(Item(n)) <= (IF reading = "text" THEN want ELSE IntBytes)
<1>1. /\ position - Len(part) \in Nat /\ Follows(part, position - Len(part))
      /\ part \in Seq(Byte) /\ Agreed /\ position \in Nat /\ want \in Nat
  BY InvParts DEF InItem, Typed
<1>2. Len(part) \in Nat /\ position = (position - Len(part)) + Len(part)
  BY <1>1
<1>3. /\ SubSeq(wire, 1, n) \in Seq(Byte) /\ Follows(SubSeq(wire, 1, n), position) /\ n \in Nat
      /\ position' = position + n /\ Len(Item(n)) = Len(part) + n
  BY Taken
<1>4. Follows(Item(n), position - Len(part))
  BY <1>1, <1>2, <1>3, FollowsBoth DEF Item
<1>5. n <= (IF reading = "text" THEN want ELSE IntBytes) - Len(part)
  BY DEF Takes, Chunk
<1> QED BY <1>1, <1>2, <1>3, <1>4, <1>5, Bases

(* What stands in a message is what is read of it.                           *)
LEMMA ReadFrom ==
  ASSUME ChannelInv, NEW n, Takes(n), reading \in {"count", "length", "text"},
         NEW i \in 1 .. Len(sent), Begin(i) = start, NEW o \in Nat,
         position - Len(part) = start + o
  PROVE  \A x \in 1 .. Len(Item(n)) :
           o + x <= Len(Bytes(sent[i])) => Item(n)[x] = Bytes(sent[i])[o + x]
  BY ItemFollows, FollowsIn, Taken, InvParts

LEMMA CountRead ==
  ASSUME ChannelInv, NEW n, Takes(n), reading = "count", Completes(n),
         NEW i \in 1 .. Len(sent), Begin(i) = start
  PROVE  /\ kind = "array" /\ sent[i] \in Arrays /\ Unsigned(Item(n)) = Len(sent[i])
         /\ position' = start + IntBytes /\ items = << >>
<1> DEFINE m == sent[i]
<1>1. m \in Message[kind] /\ Agreed /\ Decodes(m) /\ part \in Seq(Byte) /\ start \in Nat
      /\ items = << >>
  BY InvParts DEF Starts, InMessage, Typed, Untouched
<1>2. kind = "array"
  <2>1. reading \in ReadingsOf[kind] /\ kind \in {"line", "string", "array"}
    BY InvParts DEF Typed, Agreed
  <2>2. "count" \notin ReadingsOf["line"] /\ "count" \notin ReadingsOf["string"]
    BY DEF ReadingsOf
  <2> QED BY <2>1, <2>2
<1>3. m \in Arrays /\ Bytes(m) = ArrayOf(m)
  BY <1>1, <1>2, MessageIs DEF Agreed
<1>4. ArrayOf(m) \in Seq(Byte) /\ Layout(m, Offset(m)) /\ m \in Seq(Texts \cup {NULL})
  BY <1>3, ArrayIs
<1>5. Len(ArrayOf(m)) >= IntBytes /\ Len(ArrayOf(m)) \in Nat
  <2>1. 0 \in 0 .. Len(m)
    BY <1>4
  <2>2. Len(ArrayOf(m)) \in Nat
    BY <1>4
  <2> QED BY <1>4, <2>1, <2>2, Bases DEF Layout
<1>6. position = start + Len(part) /\ Len(part) \in Nat /\ position - Len(part) = start + 0
  BY <1>1 DEF Decodes
<1>7. Len(Item(n)) = IntBytes /\ Item(n) \in Seq(Byte)
  BY Taken DEF Completes
<1>8. \A x \in 1 .. IntBytes : Item(n)[x] = ArrayOf(m)[x]
  <2>1. \A x \in 1 .. Len(Item(n)) : 0 + x <= Len(Bytes(m)) => Item(n)[x] = Bytes(m)[0 + x]
    BY <1>6, ReadFrom
  <2>2. \A x \in 1 .. IntBytes : 0 + x = x /\ x <= Len(ArrayOf(m))
    BY <1>5, Bases
  <2> QED BY <1>3, <1>7, <2>1, <2>2
<1>9. Unsigned(Item(n)) = Len(m)
  BY <1>3, <1>7, <1>8, ArrayIs
<1>10. position' = start + IntBytes
  <2>1. position' = (position - Len(part)) + IntBytes
    BY <1>7, ItemFollows
  <2> QED BY <1>1, <1>6, <2>1, Bases
<1> QED BY <1>1, <1>2, <1>3, <1>9, <1>10

LEMMA LengthRead ==
  ASSUME ChannelInv, NEW n, Takes(n), reading = "length", Completes(n),
         NEW i \in 1 .. Len(sent), Begin(i) = start
  PROVE  /\ Unsigned(Item(n)) = Announced(Current(sent[i]))
         /\ position' = start + Ahead(sent[i]) + IntBytes
<1> DEFINE m == sent[i]
           s == Current(m)
<1>1. /\ s \in Texts \cup {NULL} /\ Ahead(m) \in Nat /\ Len(String(s)) \in Nat
      /\ \A x \in 1 .. Len(String(s)) : Bytes(m)[Ahead(m) + x] = String(s)[x]
      /\ Ahead(m) + Len(String(s)) <= Len(Bytes(m))
  BY ElementAt
<1>2. Decodes(m) /\ part \in Seq(Byte) /\ start \in Nat /\ Len(Bytes(m)) \in Nat
  BY InvParts DEF Starts, InMessage, Typed
<1>3. position = start + Ahead(m) + Len(part) /\ Len(part) \in Nat
  BY <1>2 DEF Decodes
<1>4. position - Len(part) = start + Ahead(m)
  BY <1>1, <1>2, <1>3
<1>5. Len(Item(n)) = IntBytes /\ Item(n) \in Seq(Byte) /\ Len(String(s)) >= IntBytes
  BY <1>1, Taken, StringIs DEF Completes
<1>6. \A x \in 1 .. IntBytes : Item(n)[x] = String(s)[x]
  <2> HIDE DEF s
  <2>1. \A x \in 1 .. Len(Item(n)) :
          Ahead(m) + x <= Len(Bytes(m)) => Item(n)[x] = Bytes(m)[Ahead(m) + x]
    BY <1>1, <1>4, ReadFrom
  <2>2. \A x \in 1 .. IntBytes : Ahead(m) + x <= Len(Bytes(m)) /\ x \in 1 .. Len(String(s))
    BY <1>1, <1>2, <1>5, Bases
  <2> QED BY <1>1, <1>5, <2>1, <2>2
<1>7. Unsigned(Item(n)) = Announced(s)
  BY <1>1, <1>5, <1>6, StringIs
<1>8. position' = start + Ahead(m) + IntBytes
  BY <1>4, <1>5, ItemFollows
<1> QED BY <1>7, <1>8

LEMMA TextRead ==
  ASSUME ChannelInv, NEW n, Takes(n), reading = "text", Completes(n)
  PROVE  /\ SubSeq(Item(n), 1, want) = Item(n)
         /\ \A i \in 1 .. Len(sent) : Begin(i) = start =>
              /\ Item(n) = Current(sent[i])
              /\ position' = start + Ahead(sent[i]) + Len(String(Current(sent[i])))
<1>1. Item(n) \in Seq(Byte) /\ want \in Nat /\ Len(Item(n)) = want
  <2>1. Item(n) \in Seq(Byte) /\ want \in Nat /\ Len(Item(n)) >= want /\ Len(Item(n)) <= want
    BY Taken, ItemFollows, InvParts DEF Completes, Typed
  <2>2. Len(Item(n)) \in Nat
    BY <2>1
  <2> QED BY <2>1, <2>2
<1>2. SubSeq(Item(n), 1, want) = Item(n)
  BY <1>1, SubSeqFull
<1>3. ASSUME NEW i \in 1 .. Len(sent), Begin(i) = start
      PROVE  /\ Item(n) = Current(sent[i])
             /\ position' = start + Ahead(sent[i]) + Len(String(Current(sent[i])))
  <2> DEFINE m == sent[i]
             s == Current(m)
  <2>1. /\ s \in Texts \cup {NULL} /\ Ahead(m) \in Nat /\ Len(String(s)) \in Nat
        /\ \A x \in 1 .. Len(String(s)) : Bytes(m)[Ahead(m) + x] = String(s)[x]
        /\ Ahead(m) + Len(String(s)) <= Len(Bytes(m))
    BY <1>3, ElementAt
  <2>2. Decodes(m) /\ part \in Seq(Byte) /\ start \in Nat /\ Len(Bytes(m)) \in Nat
    BY <1>3, InvParts DEF Starts, InMessage, Typed
  <2>3. /\ position = start + Ahead(m) + IntBytes + Len(part) /\ Len(part) \in Nat
        /\ s # NULL /\ want = Len(s)
    BY <2>2 DEF Decodes
  <2>4. /\ s \in Seq(Byte) /\ Len(String(s)) = IntBytes + Len(s)
        /\ \A x \in 1 .. Len(s) : String(s)[IntBytes + x] = s[x]
    BY <2>1, <2>3, StringIs
  <2> HIDE DEF s
  <2> DEFINE o == Ahead(m) + IntBytes
  <2>5. o \in Nat /\ position - Len(part) = start + o
    BY <2>1, <2>2, <2>3, Bases
  <2>6. \A x \in 1 .. Len(Item(n)) : o + x <= Len(Bytes(m)) => Item(n)[x] = Bytes(m)[o + x]
    <3> HIDE DEF o
    <3> QED BY <1>3, <2>5, ReadFrom
  <2>7. \A x \in 1 .. Len(s) : /\ o + x <= Len(Bytes(m)) /\ o + x = Ahead(m) + (IntBytes + x)
                               /\ IntBytes + x \in 1 .. Len(String(s))
    <3> TAKE x \in 1 .. Len(s)
    <3>1. Len(s) \in Nat
      BY <2>4
    <3>2. x \in Nat /\ x >= 1 /\ x <= Len(s)
      BY <3>1
    <3>3. o + x = Ahead(m) + (IntBytes + x) /\ IntBytes + x \in 1 .. Len(String(s))
      BY <2>1, <2>4, <3>1, <3>2, Bases
    <3>4. o + x <= Len(Bytes(m))
      BY <2>1, <2>2, <2>4, <3>1, <3>2, Bases
    <3> QED BY <3>3, <3>4
  <2>8. \A x \in 1 .. Len(s) : Item(n)[x] = s[x]
    <3> HIDE DEF o
    <3> QED BY <1>1, <2>1, <2>3, <2>4, <2>6, <2>7
  <2>9. Item(n) = s
    BY <1>1, <2>3, <2>4, <2>8, SeqEqual
  <2>10. position' = start + Ahead(m) + Len(String(s))
    <3>1. position' = (start + o) + Len(s)
      BY <1>1, <2>3, <2>5, ItemFollows
    <3> QED BY <2>1, <2>2, <2>4, <3>1, Bases
  <2> QED BY <2>9, <2>10 DEF s
<1> QED BY <1>2, <1>3

LEMMA LessNothing == \A x \in Nat : x - 0 = x
  OBVIOUS

(* After a read that leaves the receiver in the middle of something          *)
LEMMA GoesOnInv ==
  ASSUME ChannelInv, NEW n, Takes(n), Typed', start' = start,
         reading' \in {"count", "length", "text", "dead"},
         reading' = "count" => items' = << >>,
         reading' # "dead" =>
           /\ \/ part' = << >>
              \/ part' = Item(n) /\ reading' = reading
           /\ Len(part') < (IF reading' = "text" THEN want' ELSE IntBytes)
           /\ reading' # "count" /\ kind = "array" => left' >= 1,
         \A i \in 1 .. Len(sent) : Begin(i) = start => Decodes(sent[i])'
  PROVE  ChannelInv'
<1>1. /\ \A i : Begin(i)' = Begin(i)
      /\ \A b, from : Follows(b, from)' <=> Follows(b, from)
      /\ sent' = sent /\ kind' = kind
  BY SameStream DEF Takes
<1>2. position' \in Nat /\ start < position' /\ position' <= Begin(Len(sent) + 1) /\ Conserved'
  BY Taken
<1>3. Untouched'
  <2>1. start \in Nat
    BY InvParts DEF Typed
  <2>2. position' # start
    BY <1>2, <2>1
  <2> QED BY <2>2 DEF Untouched
<1>4. InLine'
  BY DEF InLine
<1>5. InItem'
  <2>1. CASE part' = << >> /\ reading' # "dead"
    <3>1. Len(part') = 0 /\ position' - Len(part') = position'
      <4>1. Len(part') = 0
        BY <2>1
      <4>2. position' - 0 = position'
        BY <1>2, LessNothing
      <4> QED BY <4>1, <4>2
    <3>2. Follows(part', position')
      BY <1>2, <2>1, InvParts, Nothing
    <3> QED BY <1>1, <1>2, <2>1, <3>1, <3>2 DEF InItem
  <2>2. CASE part' = Item(n) /\ reading' = reading /\ reading' # "dead"
    <3>1. /\ position - Len(part) \in Nat /\ Follows(Item(n), position - Len(part))
          /\ position' = (position - Len(part)) + Len(Item(n))
      BY <2>2, ItemFollows
    <3>2. Len(Item(n)) \in Nat
      BY Taken
    <3>3. position' - Len(Item(n)) = position - Len(part)
      BY <3>1, <3>2
    <3> QED BY <1>1, <2>2, <3>1, <3>3 DEF InItem
  <2>3. CASE reading' = "dead"
    BY <2>3 DEF InItem
  <2> QED BY <2>1, <2>2, <2>3
<1>6. InMessage'
  BY <1>1 DEF InMessage
<1> QED BY <1>2, <1>3, <1>4, <1>5, <1>6 DEF ChannelInv

LEMMA Kinds ==
  ASSUME ChannelInv
  PROVE  /\ reading = "line" => kind = "line"
         /\ reading = "count" => kind = "array"
         /\ reading \in {"length", "text", "dead"} => kind \in {"string", "array"}
         /\ {"length", "text", "dead"} \subseteq ReadingsOf["string"]
         /\ {"count", "length", "text", "dead"} \subseteq ReadingsOf["array"]
<1>1. reading \in ReadingsOf[kind] /\ kind \in {"line", "string", "array"}
  BY InvParts DEF Typed, Agreed
<1>2. /\ ReadingsOf["line"] = {"idle", "line"}
      /\ ReadingsOf["string"] = {"idle", "length", "text", "dead"}
      /\ ReadingsOf["array"] = {"idle", "count", "length", "text", "dead"}
  BY DEF ReadingsOf
<1>3. CASE kind = "line"
  BY <1>1, <1>2, <1>3
<1>4. CASE kind = "string"
  BY <1>1, <1>2, <1>4
<1>5. CASE kind = "array"
  BY <1>1, <1>2, <1>5
<1> QED BY <1>1, <1>2, <1>3, <1>4, <1>5

\* s is the string that was to come, and it has been read to its end.
Complete(s) ==
  \A i \in 1 .. Len(sent) : Begin(i) = start =>
    /\ s = Current(sent[i])
    /\ position' = start + Ahead(sent[i]) + Len(String(s))

LEMMA ElementInv ==
  ASSUME ChannelInv, NEW n, Takes(n), reading \in {"length", "text"},
         NEW s \in Seq(Byte) \cup {NULL}, Element(s), Complete(s)
  PROVE  ChannelInv'
<1>1. CASE \E value : Return(value)
  BY <1>1, ReturnsInv
<1>2. CASE ~ \E value : Return(value)
  <2>1. /\ kind # "string" /\ left # 1 /\ items' = Append(items, s) /\ left' = left - 1
        /\ reading' = "length" /\ part' = << >> /\ want' = 0 /\ too_long' = too_long
        /\ start' = start
    BY <1>2 DEF Element
  <2>2. /\ kind = "array" /\ left \in Nat /\ left >= 1 /\ items \in Seq(Seq(Byte) \cup {NULL})
        /\ too_long \in BOOLEAN /\ start \in Nat /\ kind' = kind /\ sent' = sent
    BY <2>1, Kinds, InvParts DEF Typed, InItem, Takes
  <2>3. left' \in Nat /\ left' >= 1 /\ items' \in Seq(Seq(Byte) \cup {NULL})
        /\ Len(items') = Len(items) + 1 /\ Len(items) \in Nat
    BY <2>1, <2>2
  <2>4. Typed'
    <3>1. part' \in Seq(Byte) /\ want' \in Nat
      BY <2>1
    <3>2. reading' \in ReadingsOf[kind]
      BY <2>1, <2>2, Kinds
    <3>3. too_long' \in BOOLEAN
      BY <2>1, <2>2, Zenon
    <3> QED BY <2>1, <2>3, <3>1, <3>2, <3>3, SameTypes
  <2>5. ASSUME NEW i \in 1 .. Len(sent), Begin(i) = start PROVE Decodes(sent[i])'
    <3> DEFINE k == Len(items)
    <3>1. PICK m : m = sent[i]
      OBVIOUS
    <3>2. s = Current(m) /\ position' = start + Ahead(m) + Len(String(s))
      BY <2>5, <3>1 DEF Complete
    <3>3. /\ m \in Arrays /\ Len(m) \in Nat /\ k + 1 \in 1 .. Len(m) /\ s = m[k + 1]
          /\ Offset(m)[k + 1] = Ahead(m) + Len(String(s)) /\ Ahead(m) \in Nat
          /\ Len(String(s)) \in Nat
      BY <2>2, <2>5, <3>1, <3>2, ElementAt
    <3>4. k < Len(m) /\ left = Len(m) - k /\ items = SubSeq(m, 1, k)
      BY <2>2, <2>5, <3>1, InvParts DEF InMessage, Decodes
    <3>5. Len(items') < Len(m) /\ left' = Len(m) - Len(items')
      BY <2>1, <2>2, <2>3, <3>3, <3>4
    <3>6. items' = SubSeq(m, 1, Len(items'))
      <4>1. m \in Seq(Texts \cup {NULL})
        BY <3>3, ArrayIs
      <4> HIDE DEF k
      <4>2. k + 1 \in 1 .. Len(m) /\ Append(SubSeq(m, 1, k), m[k + 1]) = SubSeq(m, 1, k + 1)
        <5>1. SubSeq(m, 1, k + 1) = Append(SubSeq(m, 1, k), m[k + 1])
          <6>1. k \in Nat /\ 1 <= k + 1 /\ k + 1 <= Len(m)
            BY <2>3, <3>3 DEF k
          <6> QED BY <4>1, <6>1
        <5> QED BY <3>3, <5>1
      <4> QED BY <2>1, <2>3, <3>3, <3>4, <4>2 DEF k
    <3>7. Ahead(m)' = Offset(m)[k + 1]
      BY <2>2, <2>3 DEF Ahead
    <3>8. position' = start' + Offset(m)[k + 1] + Len(part')
      <4>1. Len(part') = 0
        BY <2>1
      <4> QED BY <2>1, <2>2, <3>2, <3>3, <4>1
    <3> QED BY <2>1, <2>2, <3>1, <3>5, <3>6, <3>7, <3>8 DEF Decodes
  <2>6. Len(part') < (IF reading' = "text" THEN want' ELSE IntBytes)
    BY <2>1, Bases
  <2> QED BY <2>1, <2>3, <2>4, <2>5, <2>6, GoesOnInv
<1> QED BY <1>1, <1>2

LEMMA UnsignedIs ==
  ASSUME NEW b \in Seq(Byte) PROVE Unsigned(b) \in Nat
<1>1. PICK value \in [0 .. Len(b) -> Nat] : value[Len(b)] = Unsigned(b)
  BY Values
<1>2. Len(b) \in 0 .. Len(b)
  OBVIOUS
<1> QED BY <1>1, <1>2

LEMMA DieInv ==
  ASSUME ChannelInv, NEW n, Takes(n), reading \in {"count", "length"}, Die
  PROVE  ChannelInv'
<1>1. /\ reading' = "dead" /\ part' = << >> /\ want' = 0 /\ left' = 0 /\ items' = << >>
      /\ too_long' = FALSE /\ start' = start
  BY DEF Die, NoItem
<1>2. Typed'
  <2>1. part' \in Seq(Byte) /\ items' \in Seq(Seq(Byte) \cup {NULL}) /\ want' \in Nat /\ left' \in Nat
    BY <1>1
  <2>2. too_long' \in BOOLEAN
    BY <1>1, Zenon
  <2>3. reading' \in ReadingsOf[kind]
    BY <1>1, Kinds
  <2> QED BY <1>1, <2>1, <2>2, <2>3, SameTypes
<1>3. \A i \in 1 .. Len(sent) : Decodes(sent[i])'
  BY <1>1 DEF Decodes
<1> QED BY <1>1, <1>2, <1>3, GoesOnInv

(* A string of no bytes, or none, is complete with its length.               *)
LEMMA Empty ==
  ASSUME ChannelInv, NEW n, Takes(n), reading = "length", Completes(n),
         NEW s, \/ s = NULL /\ Unsigned(Item(n)) = Modulus - 1
                \/ s = << >> /\ Unsigned(Item(n)) = 0
  PROVE  Complete(s)
<1> SUFFICES ASSUME NEW i \in 1 .. Len(sent), Begin(i) = start
             PROVE  /\ s = Current(sent[i])
                    /\ position' = start + Ahead(sent[i]) + Len(String(s))
  BY DEF Complete
<1>1. PICK t : t = Current(sent[i])
  OBVIOUS
<1>2. Unsigned(Item(n)) = Announced(t) /\ position' = start + Ahead(sent[i]) + IntBytes
  BY <1>1, LengthRead
<1>3. t \in Texts \cup {NULL}
  BY <1>1, ElementAt
<1>4. /\ t # NULL => t \in Seq(Byte) /\ Len(t) \in Nat /\ Len(t) < Modulus \div 2
                     /\ Len(String(t)) = IntBytes + Len(t) /\ Announced(t) = Len(t)
      /\ t = NULL => Len(String(t)) = IntBytes /\ Announced(t) = Modulus - 1
  BY <1>3, StringIs DEF Announced
<1>5. Modulus - 1 >= Modulus \div 2 /\ Modulus \in Nat /\ Modulus \div 2 \in Nat /\ Modulus - 1 # 0
  BY Moduli, Residues
<1>6. s = t /\ Len(String(t)) = IntBytes
  <2>1. CASE s = NULL /\ Unsigned(Item(n)) = Modulus - 1
    <3>1. t = NULL
      BY <1>2, <1>4, <1>5, <2>1
    <3> QED BY <1>4, <2>1, <3>1
  <2>2. CASE s = << >> /\ Unsigned(Item(n)) = 0
    <3>1. t # NULL
      BY <1>2, <1>4, <1>5, <2>2
    <3>2. t \in Seq(Byte) /\ Len(t) = 0
      BY <1>2, <1>4, <2>2, <3>1
    <3>3. t = << >>
      BY <3>2
    <3> QED BY <1>4, <2>2, <3>1, <3>2, <3>3, Bases
  <2> QED BY <2>1, <2>2
<1> QED BY <1>1, <1>2, <1>6

LEMMA HaveLengthInv ==
  ASSUME ChannelInv, NEW n, Takes(n), reading = "length", Completes(n),
         HaveLength(Unsigned(Item(n)))
  PROVE  ChannelInv'
<1> DEFINE u == Unsigned(Item(n))
<1>1. u \in Nat
  BY Taken, UnsignedIs
<1>2. CASE u = Modulus - 1 /\ Element(NULL)
  BY <1>2, Empty, ElementInv
<1>3. CASE u = 0 /\ Element(<< >>)
  <2>1. << >> \in Seq(Byte) \cup {NULL}
    OBVIOUS
  <2> QED BY <1>3, <2>1, Empty, ElementInv
<1>4. CASE /\ u \in 1 .. Modulus - 2 /\ reading' = "text" /\ part' = << >> /\ want' = u
           /\ UNCHANGED <<left, items, too_long, received, start>>
  <2>1. Typed'
    <3>1. part' \in Seq(Byte) /\ want' \in Nat /\ reading' \in ReadingsOf[kind]
      BY <1>1, <1>4, Kinds
    <3>2. left' \in Nat /\ items' \in Seq(Seq(Byte) \cup {NULL}) /\ too_long' \in BOOLEAN
      BY <1>4, InvParts DEF Typed
    <3> QED BY <1>4, <3>1, <3>2, SameTypes
  <2>2. ASSUME NEW i \in 1 .. Len(sent), Begin(i) = start PROVE Decodes(sent[i])'
    <3>1. PICK m : m = sent[i]
      OBVIOUS
    <3>2. PICK t : t = Current(m)
      OBVIOUS
    <3>3. u = Announced(t) /\ position' = start + Ahead(m) + IntBytes
      BY <2>2, <3>1, <3>2, LengthRead
    <3>4. t # NULL /\ u = Len(t)
      BY <1>1, <1>4, <3>3, Moduli DEF Announced
    <3>5. Decodes(m) /\ kind' = kind /\ sent' = sent
      BY <2>2, <3>1, InvParts DEF InMessage, Takes
    <3>6. Current(m)' = Current(m) /\ Ahead(m)' = Ahead(m)
      BY <1>4, <3>5 DEF Current, Ahead
    <3>7. Len(part') = 0
      BY <1>4
    <3>8. Ahead(m) \in Nat /\ start \in Nat
      BY <2>2, <3>1, <3>2, ElementAt, InvParts DEF Typed
    <3>9. position' = start' + Ahead(m)' + IntBytes + Len(part')
      BY <1>4, <3>3, <3>6, <3>7, <3>8, Bases
    <3>10. kind' = "array" => /\ Len(items') < Len(m) /\ left' = Len(m) - Len(items')
                              /\ items' = SubSeq(m, 1, Len(items'))
      BY <1>4, <3>5 DEF Decodes
    <3> QED BY <1>4, <3>1, <3>2, <3>4, <3>5, <3>6, <3>9, <3>10 DEF Decodes
  <2>3. Len(part') < want' /\ (kind = "array" => left' >= 1)
    <3>1. Len(part') = 0
      BY <1>4
    <3> QED BY <1>1, <1>4, <3>1, InvParts DEF InItem
  <2> QED BY <1>4, <2>1, <2>2, <2>3, GoesOnInv
<1>5. CASE Die
  BY <1>5, DieInv
<1> QED BY <1>2, <1>3, <1>4, <1>5 DEF HaveLength

LEMMA HaveCountInv ==
  ASSUME ChannelInv, NEW n, Takes(n), reading = "count", Completes(n),
         HaveCount(Unsigned(Item(n)))
  PROVE  ChannelInv'
<1> DEFINE u == Unsigned(Item(n))
<1>1. u \in Nat
  BY Taken, UnsignedIs
<1>2. CASE u = 0 /\ Return(<< >>)
  BY <1>2, ReturnsInv
<1>3. CASE /\ u > 0 /\ reading' = "length" /\ left' = u /\ part' = << >>
           /\ UNCHANGED <<want, items, too_long, received, start>>
  <2>1. Typed'
    <3>1. part' \in Seq(Byte) /\ left' \in Nat /\ reading' \in ReadingsOf[kind]
      BY <1>1, <1>3, Kinds
    <3>2. want' \in Nat /\ items' \in Seq(Seq(Byte) \cup {NULL}) /\ too_long' \in BOOLEAN
      BY <1>3, InvParts DEF Typed
    <3> QED BY <1>3, <3>1, <3>2, SameTypes
  <2>2. Len(part') = 0
    BY <1>3
  <2>3. ASSUME NEW i \in 1 .. Len(sent), Begin(i) = start PROVE Decodes(sent[i])'
    <3>1. PICK m : m = sent[i]
      OBVIOUS
    <3>2. /\ kind = "array" /\ m \in Arrays /\ u = Len(m) /\ position' = start + IntBytes
          /\ items = << >>
      BY <2>3, <3>1, CountRead
    <3>3. kind' = kind /\ sent' = sent /\ items' = << >> /\ Len(items') = 0 /\ start \in Nat
      BY <1>3, <3>2, InvParts DEF Takes, Typed
    <3>4. m \in Seq(Texts \cup {NULL}) /\ Layout(m, Offset(m))
      BY <3>2, ArrayIs
    <3>5. items' = SubSeq(m, 1, 0)
      BY <3>3, <3>4
    <3>6. Ahead(m)' = IntBytes
      BY <3>2, <3>3, <3>4 DEF Ahead, Layout
    <3>7. position' = start' + Ahead(m)' + Len(part')
      BY <1>3, <2>2, <3>2, <3>3, <3>6, Bases
    <3>8. Len(items') < Len(m) /\ left' = Len(m) - Len(items')
      BY <1>1, <1>3, <3>2, <3>3
    <3> QED BY <1>3, <3>1, <3>3, <3>5, <3>7, <3>8 DEF Decodes
  <2>4. Len(part') < IntBytes /\ left' >= 1
    BY <1>1, <1>3, <2>2, Bases
  <2> QED BY <1>3, <2>1, <2>3, <2>4, GoesOnInv
<1>4. CASE Die
  BY <1>4, DieInv
<1> QED BY <1>2, <1>3, <1>4 DEF HaveCount

(* A part of an item is read.                                                *)
LEMMA PartInv ==
  ASSUME ChannelInv, NEW n, Takes(n), reading # "line", ~Completes(n), part' = Item(n),
         reading' = reading, want' = want, left' = left, items' = items,
         too_long' = too_long, start' = start
  PROVE  ChannelInv'
<1>1. reading \in {"count", "length", "text"}
  BY InvParts DEF Takes, Typed, ReadingsOf, Agreed
<1>2. Typed'
  <2>1. part' \in Seq(Byte)
    BY Taken
  <2>2. /\ left' \in Nat /\ items' \in Seq(Seq(Byte) \cup {NULL}) /\ too_long' \in BOOLEAN
        /\ want' \in Nat /\ reading' \in ReadingsOf[kind]
    BY InvParts DEF Typed
  <2> QED BY <2>1, <2>2, SameTypes
<1>3. Len(part') < (IF reading' = "text" THEN want' ELSE IntBytes)
  <2>1. Len(Item(n)) <= (IF reading = "text" THEN want ELSE IntBytes)
    BY <1>1, ItemFollows
  <2>2. Len(Item(n)) \in Nat /\ want \in Nat
    BY Taken, InvParts DEF Typed
  <2>3. CASE reading = "text"
    BY <2>1, <2>2, <2>3 DEF Completes
  <2>4. CASE reading \in {"length", "count"}
    BY <2>1, <2>2, <2>4, Bases DEF Completes
  <2> QED BY <1>1, <2>3, <2>4
<1>4. /\ Len(Item(n)) = Len(part) + n /\ position' = position + n /\ n \in Nat
      /\ position \in Nat /\ start \in Nat /\ Len(part) \in Nat
  BY Taken, InvParts DEF Typed
<1>5. ASSUME NEW i \in 1 .. Len(sent), Begin(i) = start PROVE Decodes(sent[i])'
  <2>1. PICK m : m = sent[i]
    OBVIOUS
  <2>2. Decodes(m) /\ kind' = kind /\ sent' = sent
    BY <1>5, <2>1, InvParts DEF InMessage, Takes
  <2>3. Current(m)' = Current(m) /\ Ahead(m)' = Ahead(m)
    BY <2>2 DEF Current, Ahead
  <2>4. CASE reading = "count"
    <3>1. position' = start' + Len(part')
      BY <1>4, <2>2, <2>4 DEF Decodes
    <3> QED BY <2>1, <2>2, <2>4, <3>1 DEF Decodes
  <2>5. CASE reading = "length"
    <3>1. Ahead(m) \in Nat
      BY <1>5, <2>1, <2>5, ElementAt
    <3>2. position = start + Ahead(m) + Len(part)
      BY <2>2, <2>5 DEF Decodes
    <3>3. position' = start' + Ahead(m)' + Len(part')
      BY <1>4, <2>3, <3>1, <3>2
    <3> QED BY <2>1, <2>2, <2>3, <2>5, <3>3 DEF Decodes
  <2>6. CASE reading = "text"
    <3>1. Ahead(m) \in Nat
      BY <1>5, <2>1, <2>6, ElementAt
    <3>2. position = start + Ahead(m) + IntBytes + Len(part)
      BY <2>2, <2>6 DEF Decodes
    <3>3. position' = start' + Ahead(m)' + IntBytes + Len(part')
      BY <1>4, <2>3, <3>1, <3>2, Bases
    <3> QED BY <2>1, <2>2, <2>3, <2>6, <3>3 DEF Decodes
  <2> QED BY <1>1, <2>4, <2>5, <2>6
<1>6. reading' # "count" /\ kind = "array" => left' >= 1
  BY <1>1, InvParts DEF InItem
<1>7. reading' = "count" => items' = << >>
  BY InvParts DEF Untouched
<1> QED BY <1>1, <1>2, <1>3, <1>5, <1>6, <1>7, GoesOnInv

LEMMA ReadInv == ASSUME ChannelInv, Read PROVE ChannelInv'
<1>1. PICK n : Takes(n) /\ Handles(n)
  BY ReadTakes
<1>2. CASE reading = "line" /\ AddToLine(wire[1])
  BY <1>1, <1>2, AddToLineInv
<1>3. CASE reading = "text" /\ Completes(n) /\ Element(SubSeq(Item(n), 1, want))
  <2>1. Element(Item(n)) /\ Complete(Item(n)) /\ Item(n) \in Seq(Byte)
    BY <1>1, <1>3, TextRead, Taken DEF Complete
  <2> QED BY <1>1, <1>3, <2>1, ElementInv
<1>4. CASE reading = "length" /\ Completes(n) /\ HaveLength(Unsigned(Item(n)))
  BY <1>1, <1>4, HaveLengthInv
<1>5. CASE reading = "count" /\ Completes(n) /\ HaveCount(Unsigned(Item(n)))
  BY <1>1, <1>5, HaveCountInv
<1>6. CASE /\ reading # "line" /\ ~Completes(n) /\ part' = Item(n)
           /\ reading' = reading /\ want' = want /\ left' = left /\ items' = items
           /\ too_long' = too_long /\ received' = received /\ start' = start
  BY <1>1, <1>6, PartInv
<1> QED BY <1>1, <1>2, <1>3, <1>4, <1>5, <1>6 DEF Handles

LEMMA ChannelNextInv == ChannelInv /\ [ChannelNext]_channelVars => ChannelInv'
<1> SUFFICES ASSUME ChannelInv, [ChannelNext]_channelVars PROVE ChannelInv'
  OBVIOUS
<1>1. CASE SendMessage
  BY <1>1, SendMessageInv
<1>2. CASE SendBytes
  BY <1>2, SendBytesInv
<1>3. CASE Close
  BY <1>3, CloseInv
<1>4. CASE Accept
  BY <1>4, AcceptInv
<1>5. CASE Read
  BY <1>5, ReadInv
<1>6. CASE TimeOut \/ EndOfFile
  BY <1>6, GiveUpInv
<1>7. CASE UNCHANGED channelVars
  <2>1. /\ sent' = sent /\ kind' = kind /\ reading' = reading /\ part' = part
        /\ want' = want /\ left' = left /\ items' = items /\ too_long' = too_long
        /\ position' = position /\ start' = start /\ alive' = alive /\ wire' = wire /\ out' = out
    BY <1>7 DEF channelVars, sendVars, itemVars
  <2>2. /\ \A i : Begin(i)' = Begin(i)
        /\ \A b, from : Follows(b, from)' <=> Follows(b, from)
        /\ Agreed' <=> Agreed
    BY <2>1, SameStream
  <2>3. Typed' /\ Conserved'
    BY <2>1, <2>2, InvParts DEF Typed, Conserved, ReadingsOf
  <2> QED BY <2>1, <2>3, ReceiverSame
<1> QED BY <1>1, <1>2, <1>3, <1>4, <1>5, <1>6, <1>7 DEF ChannelNext

(* An accept holds the bytes that follow what was read before it, none lost,   *)
(* doubled or out of its place however send_bytes, the socket and accept_bytes *)
(* cut them, and one that began with a message has decoded what it has read.   *)
THEOREM ChannelInvariant == ChannelSpec => []ChannelInv
<1> QED BY InitChannelInv, ChannelNextInv, PTL DEF ChannelSpec

-----------------------------------------------------------------------------
(* Channel: where a line ends                                              *)

LEMMA TailFrom ==
  ASSUME NEW S, NEW s \in Seq(S), NEW c \in Nat, NEW n, n = Len(s), c <= n
  PROVE  /\ SubSeq(s, c + 1, n) \in Seq(S) /\ Len(SubSeq(s, c + 1, n)) = n - c
         /\ \A i \in 1 .. n - c : SubSeq(s, c + 1, n)[i] = s[c + i]
  OBVIOUS

LEMMA HeadTo ==
  ASSUME NEW S, NEW s \in Seq(S), NEW k \in Nat, k <= Len(s)
  PROVE  /\ SubSeq(s, 1, k) \in Seq(S) /\ Len(SubSeq(s, 1, k)) = k
         /\ \A i \in 1 .. k : SubSeq(s, 1, k)[i] = s[i]
  OBVIOUS

\* The first k bytes of s end with the terminator.
EndsAt(s, k) ==
  /\ Len(Term) <= k
  /\ \A x \in 1 .. Len(Term) : s[(k - Len(Term)) + x] = Term[x]

LEMMA EndsAtIs ==
  ASSUME NEW s \in Seq(Byte), NEW k \in 0 .. Len(s)
  PROVE  IsSuffix(Term, SubSeq(s, 1, k)) <=> EndsAt(s, k)
<1> DEFINE p == SubSeq(s, 1, k)
<1>1. p \in Seq(Byte) /\ Len(p) = k /\ \A i \in 1 .. k : p[i] = s[i]
  OBVIOUS
<1> HIDE DEF p
<1>2. Len(Term) <= k => \A x \in 1 .. Len(Term) : (k - Len(Term)) + x \in 1 .. k
  BY TermIs
<1>3. IsSuffix(Term, p) <=> /\ Len(Term) <= k
                            /\ \A x \in 1 .. Len(Term) : p[(k - Len(Term)) + x] = Term[x]
  <2>1. IsSuffix(Term, p) <=>
          /\ Len(Term) <= Len(p)
          /\ \A x \in 1 .. Len(Term) : p[(Len(p) - Len(Term)) + x] = Term[x]
    BY <1>1, TermIs, SuffixIs
  <2>2. Len(p) = k
    BY <1>1
  <2> QED BY <2>1, <2>2
<1>4. ASSUME Len(Term) <= k PROVE IsSuffix(Term, p) <=> EndsAt(s, k)
  <2>1. \A x \in 1 .. Len(Term) : p[(k - Len(Term)) + x] = s[(k - Len(Term)) + x]
    BY <1>1, <1>2, <1>4
  <2> QED BY <1>3, <1>4, <2>1 DEF EndsAt
<1>5. ASSUME ~(Len(Term) <= k) PROVE IsSuffix(Term, p) <=> EndsAt(s, k)
  BY <1>3, <1>5 DEF EndsAt
<1> QED BY <1>4, <1>5 DEF p

LEMMA WholeEnds ==
  ASSUME NEW s \in Seq(Byte) PROVE IsSuffix(Term, s) <=> EndsAt(s, Len(s))
<1>1. SubSeq(s, 1, Len(s)) = s /\ Len(s) \in 0 .. Len(s)
  BY SubSeqFull
<1> QED BY <1>1, EndsAtIs

\* The terminator is at the end of s and nowhere before.
Ending(s) == EndsAt(s, Len(s)) /\ \A k \in 0 .. Len(s) - 1 : ~EndsAt(s, k)

(* Two such sequences are not different beginnings of the same.              *)
LEMMA SameEnd ==
  ASSUME NEW s \in Seq(Byte), NEW b \in Seq(Byte), Ending(s), Ending(b),
         \A j \in 1 .. Len(b) : j <= Len(s) => b[j] = s[j]
  PROVE  b = s
<1>1. Len(s) \in Nat /\ Len(b) \in Nat
  OBVIOUS
<1>2. ASSUME NEW k \in Nat, k <= Len(s), k <= Len(b) PROVE EndsAt(s, k) <=> EndsAt(b, k)
  <2>1. Len(Term) <= k => \A x \in 1 .. Len(Term) : /\ (k - Len(Term)) + x \in 1 .. Len(b)
                                                    /\ (k - Len(Term)) + x <= Len(s)
    BY <1>1, <1>2, TermIs
  <2> QED BY <2>1 DEF EndsAt
<1>3. ~(Len(b) < Len(s))
  <2> SUFFICES ASSUME Len(b) < Len(s) PROVE FALSE
    OBVIOUS
  <2>1. EndsAt(s, Len(b)) /\ Len(b) \in 0 .. Len(s) - 1
    BY <1>1, <1>2 DEF Ending
  <2> QED BY <2>1 DEF Ending
<1>4. ~(Len(s) < Len(b))
  <2> SUFFICES ASSUME Len(s) < Len(b) PROVE FALSE
    OBVIOUS
  <2>1. EndsAt(b, Len(s)) /\ Len(s) \in 0 .. Len(b) - 1
    BY <1>1, <1>2 DEF Ending
  <2> QED BY <2>1 DEF Ending
<1>5. Len(s) = Len(b)
  BY <1>1, <1>3, <1>4
<1> QED BY <1>1, <1>5, SeqEqual

(* What is left of a terminator, and a line behind it                        *)
LEMMA LineBehind ==
  ASSUME NEW m \in Lines, NEW i \in 2 .. Len(Term) + 1,
         NEW r, r = SubSeq(Term, i, Len(Term)), NEW s, s = (r \o m) \o Term
  PROVE  s \in Seq(Byte) /\ Ending(s) /\ Len(s) = Len(r) + Len(m) + Len(Term)
<1>1. m \in Seq(Byte) /\ Term \in Seq(Byte) /\ Len(Term) \in Nat /\ r \in Seq(Byte)
  BY ChannelAssumption, TermIs
<1>2. Len(m) \in Nat /\ Len(r) \in Nat
  BY <1>1
<1>3. r \o m \in Seq(Byte) /\ Len(r \o m) = Len(r) + Len(m)
  BY <1>1, Joined
<1> DEFINE q == r \o m
<1> HIDE DEF q
<1>4. /\ q \in Seq(Byte) /\ s = q \o Term /\ s \in Seq(Byte) /\ Len(s) = Len(q) + Len(Term)
      /\ \A x \in 1 .. Len(Term) : s[Len(q) + x] = Term[x]
  <2>1. q \in Seq(Byte) /\ s = q \o Term
    BY <1>3 DEF q
  <2> QED BY <1>1, <2>1, Joined
<1>5. Len(s) - Len(Term) = Len(q) /\ Len(q) \in Nat /\ Len(s) \in Nat
  BY <1>1, <1>4
<1>6. EndsAt(s, Len(s))
  BY <1>1, <1>4, <1>5 DEF EndsAt
<1>7. \A k \in 0 .. Len(s) - 1 : ~EndsAt(s, k)
  <2> TAKE k \in 0 .. Len(s) - 1
  <2>1. k \in 0 .. Len(s)
    BY <1>5
  <2>2. ~IsSuffix(Term, SubSeq(s, 1, k))
    BY LinesAssumption
  <2> QED BY <1>4, <2>1, <2>2, EndsAtIs
<1> QED BY <1>2, <1>3, <1>4, <1>5, <1>6, <1>7, TermIs DEF Ending, q

LEMMA LineIs ==
  ASSUME NEW m \in Lines PROVE m \o Term \in Seq(Byte) /\ Ending(m \o Term)
<1>1. m \in Seq(Byte) /\ Term \in Seq(Byte) /\ Len(Term) \in Nat
  BY ChannelAssumption, TermIs
<1>2. Len(Term) + 1 \in 2 .. Len(Term) + 1
  BY TermIs
<1>3. SubSeq(Term, Len(Term) + 1, Len(Term)) = << >>
  BY <1>1
<1>4. << >> \o m = m
  BY <1>1
<1> QED BY <1>2, <1>3, <1>4, LineBehind

(* What is behind the first o bytes of a line, o within its text             *)
LEMMA LineRest ==
  ASSUME NEW m \in Lines, NEW o \in 0 .. Len(m), NEW l, l = m \o Term,
         NEW s, s = SubSeq(l, o + 1, Len(l))
  PROVE  /\ l \in Seq(Byte) /\ Len(l) = Len(m) + Len(Term) /\ s \in Seq(Byte)
         /\ Len(s) = Len(l) - o /\ Ending(s) /\ \A j \in 1 .. Len(s) : s[j] = l[o + j]
<1>1. m \in Seq(Byte) /\ Len(m) \in Nat /\ Term \in Seq(Byte) /\ Len(Term) \in Nat
  BY ChannelAssumption, TermIs
<1>2. /\ l \in Seq(Byte) /\ Len(l) = Len(m) + Len(Term) /\ Ending(l)
  BY <1>1, LineIs, Joined
<1>3. /\ s \in Seq(Byte) /\ Len(s) = Len(l) - o /\ \A j \in 1 .. Len(s) : s[j] = l[o + j]
  <2>1. o + 1 \in 1 .. Len(l) + 1 /\ Len(l) \in Nat
    BY <1>1, <1>2
  <2>2. \A i \in o + 1 .. Len(l) : l[i] \in Byte
    BY <1>2, <2>1
  <2>3. Len(l) >= o
    BY <1>1, <1>2
  <2> DEFINE a == o + 1
             b == Len(l)
  <2>4. a \in Int /\ b \in Int /\ b - a + 1 = b - o /\ (a <= b => b - a + 1 = b - o)
        /\ (~(a <= b) => b - o = 0) /\ \A i \in 1 .. b - o : a + i - 1 = o + i
    BY <2>1, <2>3
  <2>5. /\ SubSeq(l, a, b) \in Seq(Byte)
        /\ Len(SubSeq(l, a, b)) = IF a <= b THEN b - a + 1 ELSE 0
        /\ \A i \in 1 .. b - a + 1 : SubSeq(l, a, b)[i] = l[a + i - 1]
    <3> HIDE DEF a, b
    <3> QED BY <2>2, <2>4, SubSeqProperties DEF a, b
  <2> QED BY <2>4, <2>5
<1>4. ASSUME NEW k \in 0 .. Len(s) PROVE EndsAt(s, k) <=> Len(Term) <= k /\ EndsAt(l, o + k)
  <2>1. Len(Term) <= k => \A x \in 1 .. Len(Term) :
          /\ (k - Len(Term)) + x \in 1 .. Len(s)
          /\ o + ((k - Len(Term)) + x) = ((o + k) - Len(Term)) + x
    BY <1>1, <1>2, <1>3
  <2>2. Len(Term) <= k => Len(Term) <= o + k
    BY <1>1
  <2> QED BY <1>3, <2>1, <2>2 DEF EndsAt
<1>5. EndsAt(s, Len(s))
  <2>1. Len(s) \in 0 .. Len(s) /\ Len(Term) <= Len(s) /\ o + Len(s) = Len(l)
    BY <1>1, <1>2, <1>3
  <2> QED BY <1>2, <1>4, <2>1 DEF Ending
<1>6. \A k \in 0 .. Len(s) - 1 : ~EndsAt(s, k)
  <2> TAKE k \in 0 .. Len(s) - 1
  <2>1. k \in 0 .. Len(s) /\ o + k \in 0 .. Len(l) - 1
    BY <1>1, <1>2, <1>3
  <2> QED BY <1>2, <1>4, <2>1 DEF Ending
<1> QED BY <1>2, <1>3, <1>5, <1>6 DEF Ending

-----------------------------------------------------------------------------
(* Channel: where an accept began                                          *)

\* c messages had been touched when the present accept began.
Stands(c) ==
  /\ c \in 0 .. Len(sent) /\ Cardinality(Touched) = c
  /\ \A i \in 1 .. Len(sent) + 1 : Begin(i) < start <=> i <= c

LEMMA Standing == ChannelInv => \E c : Stands(c)
<1> SUFFICES ASSUME ChannelInv PROVE \E c : Stands(c)
  OBVIOUS
<1> DEFINE n == Len(sent)
           later == {i \in 1 .. n + 1 : start <= Begin(i)}
<1>1. /\ InOrder /\ n \in Nat /\ start \in Nat /\ start <= Begin(n + 1)
      /\ \A i \in 1 .. n + 1 : Begin(i) \in Nat
  BY InvParts DEF Typed, InOrder
<1>2. n + 1 \in later /\ later \subseteq Nat /\ later # {}
  BY <1>1
<1>3. PICK x \in later : \A y \in later : x <= y
  <2> HIDE DEF later
  <2> QED BY <1>2, LeastNatural
<1> DEFINE c == x - 1
<1>4. c \in 0 .. n /\ x = c + 1 /\ x \in 1 .. n + 1 /\ start <= Begin(x)
  BY <1>1, <1>3
<1>5. \A i \in 1 .. n + 1 : Begin(i) < start <=> i <= c
  <2> TAKE i \in 1 .. n + 1
  <2>1. ASSUME i <= c PROVE Begin(i) < start
    <3>1. i \notin later
      BY <1>3, <1>4, <2>1
    <3> QED BY <1>1, <3>1
  <2>2. ASSUME ~(i <= c) PROVE ~(Begin(i) < start)
    <3>1. i = x \/ x < i
      BY <1>4, <2>2
    <3>2. Begin(x) <= Begin(i)
      BY <1>1, <1>4, <3>1 DEF InOrder
    <3> QED BY <1>1, <1>4, <3>2
  <2> QED BY <2>1, <2>2
<1>6. Touched = 1 .. c
  <2>1. \A i \in 1 .. n : Begin(i) < start <=> i <= c
    BY <1>1, <1>5
  <2>2. DOMAIN sent = 1 .. n
    BY InvParts DEF Agreed
  <2>3. \A i : i \in 1 .. c <=> i \in 1 .. n /\ i <= c
    BY <1>1, <1>4
  <2> QED BY <2>1, <2>2, <2>3 DEF Touched
<1>7. Cardinality(1 .. c) = c
  <2>1. c \in Int /\ 1 \in Int /\ c \in Nat
    BY <1>4
  <2>2. Cardinality(1 .. c) = IF 1 > c THEN 0 ELSE c - 1 + 1
    BY <2>1, FS_Interval
  <2> QED BY <2>1, <2>2
<1> QED BY <1>4, <1>5, <1>6, <1>7 DEF Stands

LEMMA StandingNext == (ChannelInv => \E c : Stands(c))'
  BY Standing, PTL

\* What a mailbox shows
Box == SubSeq(sent, 1 + Cardinality(Touched), Len(sent))
Whole == \E i \in 1 .. Len(sent) + 1 : Begin(i) = start

LEMMA BoxIs ==
  ASSUME ChannelInv, NEW c, Stands(c)
  PROVE  /\ c \in Nat /\ c <= Len(sent) /\ Box = SubSeq(sent, c + 1, Len(sent))
         /\ Whole <=> Begin(c + 1) = start
         /\ start <= Begin(c + 1) /\ Begin(c + 1) \in Nat
         /\ c = 0 => Whole
         /\ c < Len(sent) => /\ c + 1 \in 1 .. Len(sent) /\ Box # << >>
                             /\ Head(Box) = sent[c + 1]
                             /\ Tail(Box) = SubSeq(sent, c + 2, Len(sent))
<1> DEFINE n == Len(sent)
<1>1. /\ InOrder /\ Starts /\ n \in Nat /\ start \in Nat /\ sent \in Seq(Message[kind])
      /\ \A i \in 1 .. n + 1 : Begin(i) \in Nat
  BY InvParts DEF Typed, InOrder, Agreed
<1>2. c \in Nat /\ c <= n /\ c + 1 \in 1 .. n + 1
      /\ \A i \in 1 .. n + 1 : Begin(i) < start <=> i <= c
  BY <1>1 DEF Stands
<1>3. Box = SubSeq(sent, c + 1, n)
  <2>1. 1 + c = c + 1
    BY <1>2
  <2> QED BY <2>1 DEF Box, Stands
<1>4. start <= Begin(c + 1) /\ Begin(c + 1) \in Nat
  BY <1>1, <1>2
<1>5. Whole <=> Begin(c + 1) = start
  <2>1. ASSUME NEW i \in 1 .. n + 1, Begin(i) = start PROVE Begin(c + 1) = start
    <3>1. ~(i <= c)
      BY <1>1, <1>2, <2>1
    <3>2. i = c + 1 \/ c + 1 < i
      BY <1>2, <3>1
    <3>3. Begin(c + 1) <= Begin(i)
      BY <1>1, <1>2, <3>2 DEF InOrder
    <3> QED BY <1>1, <1>4, <2>1, <3>3
  <2> QED BY <1>2, <2>1 DEF Whole
<1>6. c = 0 => Whole
  <2>1. Begin(1) = 0
    BY <1>1 DEF Starts
  <2> QED BY <1>1, <1>4, <1>5, <2>1
<1>7. ASSUME c < n
      PROVE  /\ c + 1 \in 1 .. n /\ Box # << >> /\ Head(Box) = sent[c + 1]
             /\ Tail(Box) = SubSeq(sent, c + 2, n)
  <2>1. c + 1 \in 1 .. n /\ n \in c + 1 .. n /\ (c + 1) + 1 = c + 2
    BY <1>1, <1>2, <1>7
  <2>2. Head(SubSeq(sent, c + 1, n)) = sent[c + 1]
        /\ Tail(SubSeq(sent, c + 1, n)) = SubSeq(sent, (c + 1) + 1, n)
    BY <1>1, <2>1, HeadTailOfSubSeq
  <2>3. Len(Box) = n - c
    BY <1>1, <1>2, <1>3, <1>7
  <2>4. Box # << >>
    BY <1>1, <1>2, <1>7, <2>3
  <2> QED BY <1>3, <2>1, <2>2, <2>4
<1> QED BY <1>1, <1>2, <1>3, <1>4, <1>5, <1>6, <1>7

(* What is behind message d is a suffix of what is behind message c.         *)
LEMMA Behind ==
  ASSUME NEW S, NEW s \in Seq(S), NEW c \in Nat, NEW d \in Nat, c <= d, d <= Len(s)
  PROVE  SubSeq(s, d + 1, Len(s)) \in Promise!SuffixesOf(SubSeq(s, c + 1, Len(s)))
<1> DEFINE n == Len(s)
           t == SubSeq(s, c + 1, n)
           k == (d - c) + 1
<1>1. n \in Nat
  OBVIOUS
<1>2. /\ t \in Seq(S) /\ Len(t) = n - c /\ \A i \in 1 .. n - c : t[i] = s[c + i]
  BY <1>1
<1>3. k \in 1 .. Len(t) + 1 /\ k \in Nat
  BY <1>1, <1>2
<1> HIDE DEF t
<1>4. /\ SubSeq(t, k, Len(t)) \in Seq(S) /\ Len(SubSeq(t, k, Len(t))) = n - d
      /\ \A i \in 1 .. n - d : SubSeq(t, k, Len(t))[i] = s[d + i]
  <2>1. \A i \in 1 .. n - d : k - 1 + i \in 1 .. n - c /\ c + (k - 1 + i) = d + i
    BY <1>1
  <2>2. (Len(t) - k) + 1 = n - d /\ Len(t) \in Nat
    BY <1>1, <1>2
  <2> HIDE DEF k
  <2>3. SubSeq(t, k, Len(t)) \in Seq(S) /\ Len(SubSeq(t, k, Len(t))) = n - d
        /\ \A i \in 1 .. n - d : SubSeq(t, k, Len(t))[i] = t[k - 1 + i]
    BY <1>1, <1>2, <1>3, <2>2
  <2> QED BY <1>2, <2>1, <2>3
<1>5. /\ SubSeq(s, d + 1, n) \in Seq(S) /\ Len(SubSeq(s, d + 1, n)) = n - d
      /\ \A i \in 1 .. n - d : SubSeq(s, d + 1, n)[i] = s[d + i]
  BY <1>1
<1>6. SubSeq(s, d + 1, n) = SubSeq(t, k, Len(t))
  BY <1>4, <1>5, SeqEqual
<1> QED BY <1>3, <1>6 DEF Promise!SuffixesOf, t

(* The receiver goes on: to the same message or to a later one.              *)
LEMMA Moved ==
  ASSUME ChannelInv, ChannelInv', sent' = sent, kind' = kind, start <= start', NEW c, Stands(c)
  PROVE  \E d \in Nat :
           /\ c <= d /\ d <= Len(sent) /\ Box' = SubSeq(sent, d + 1, Len(sent))
           /\ Whole' <=> Begin(d + 1) = start'
           /\ \A i \in 1 .. Len(sent) + 1 : Begin(i) < start' <=> i <= d
           /\ Box' \in Promise!SuffixesOf(Box)
           /\ c < d => Box' \in Promise!SuffixesOf(Tail(Box))
<1> DEFINE n == Len(sent)
<1>1. \A i : Begin(i)' = Begin(i)
  BY SameStream
<1>2. PICK d : Stands(d)'
  BY StandingNext
<1>3. /\ d \in 0 .. n /\ Cardinality(Touched)' = d
      /\ \A i \in 1 .. n + 1 : Begin(i) < start' <=> i <= d
  BY <1>1, <1>2 DEF Stands
<1>4. /\ c \in Nat /\ c <= n /\ Box = SubSeq(sent, c + 1, n) /\ n \in Nat
      /\ \A i \in 1 .. n + 1 : Begin(i) < start <=> i <= c
      /\ sent \in Seq(Message[kind]) /\ start \in Nat /\ start' \in Nat
      /\ \A i \in 1 .. n + 1 : Begin(i) \in Nat
  <2>1. ChannelInv' => start' \in Nat
    BY DEF ChannelInv, Typed
  <2> QED BY <2>1, BoxIs, InvParts DEF Stands, Agreed, Typed, InOrder
<1>5. c <= d
  <2> SUFFICES ASSUME d < c PROVE FALSE
    BY <1>3, <1>4
  <2>1. c \in 1 .. n + 1 /\ c <= c /\ ~(c <= d)
    BY <1>3, <1>4
  <2>2. Begin(c) < start /\ ~(Begin(c) < start') /\ Begin(c) \in Nat
    BY <1>3, <1>4, <2>1
  <2> QED BY <1>4, <2>2
<1>6. Box' = SubSeq(sent, d + 1, n)
  <2>1. 1 + d = d + 1
    BY <1>3
  <2> QED BY <1>3, <2>1 DEF Box
<1>7. Whole' <=> Begin(d + 1) = start'
  <2>1. Whole' <=> \E i \in 1 .. n + 1 : Begin(i) = start'
    BY <1>1 DEF Whole
  <2>2. d + 1 \in 1 .. n + 1
    BY <1>3, <1>4
  <2>3. ASSUME NEW i \in 1 .. n + 1, Begin(i) = start' PROVE Begin(d + 1) = start'
    <3>1. ~(i <= d)
      BY <1>3, <1>4, <2>3
    <3>2. i = d + 1 \/ d + 1 < i
      BY <1>3, <3>1
    <3>3. Begin(d + 1) <= Begin(i)
      BY <1>4, <2>2, <3>2, InvParts DEF InOrder
    <3>4. ~(d + 1 <= d)
      BY <1>3, <1>4
    <3>5. ~(Begin(d + 1) < start')
      BY <1>3, <2>2, <3>4
    <3> QED BY <1>4, <2>2, <2>3, <3>3, <3>5
  <2> QED BY <2>1, <2>2, <2>3
<1>8. Box' \in Promise!SuffixesOf(Box)
  BY <1>3, <1>4, <1>5, <1>6, Behind
<1>9. c < d => Box' \in Promise!SuffixesOf(Tail(Box))
  <2> SUFFICES ASSUME c < d PROVE Box' \in Promise!SuffixesOf(Tail(Box))
    OBVIOUS
  <2>1. c < n /\ c + 1 \in Nat /\ c + 1 <= d /\ (c + 1) + 1 = c + 2
    BY <1>3, <1>4
  <2>2. Tail(Box) = SubSeq(sent, (c + 1) + 1, n)
    BY <2>1, BoxIs
  <2>3. \A b \in Nat : b <= d =>
          SubSeq(sent, d + 1, n) \in Promise!SuffixesOf(SubSeq(sent, b + 1, n))
    BY <1>3, <1>4, Behind
  <2>4. SubSeq(sent, d + 1, n) \in Promise!SuffixesOf(SubSeq(sent, (c + 1) + 1, n))
    BY <2>1, <2>3
  <2> QED BY <1>6, <2>2, <2>4
<1> QED BY <1>3, <1>4, <1>5, <1>6, <1>7, <1>8, <1>9

LEMMA EndingLong == ASSUME NEW b \in Seq(Byte), Ending(b) PROVE Len(b) >= Len(Term) /\ Len(b) \in Nat /\ Len(b) >= 1
  BY TermIs DEF Ending, EndsAt

(* A line read from its beginning                                            *)
LEMMA LineWhole ==
  ASSUME ChannelInv, kind = "line", NEW b \in Seq(Byte), Follows(b, start), Ending(b),
         NEW c, Stands(c), Whole
  PROVE  /\ c < Len(sent) /\ b = Bytes(sent[c + 1]) /\ sent[c + 1] \in Lines
         /\ start + Len(b) = Begin(c + 2)
<1> DEFINE n == Len(sent)
<1>1. /\ c \in Nat /\ c <= n /\ n \in Nat /\ Begin(c + 1) = start /\ start \in Nat
      /\ Agreed /\ Starts /\ Len(b) \in Nat /\ Len(b) >= 1
  BY BoxIs, InvParts, EndingLong DEF Typed
<1>2. c < n
  <2>1. start + Len(b) <= Begin(n + 1)
    BY DEF Follows
  <2>2. c # n
    BY <1>1, <2>1
  <2> QED BY <1>1, <2>2
<1>3. c + 1 \in 1 .. n /\ (c + 1) + 1 = c + 2
  BY <1>1, <1>2
<1>4. PICK m : m = sent[c + 1]
  OBVIOUS
<1>5. m \in Lines /\ Bytes(m) = m \o Term
  BY <1>1, <1>3, <1>4, MessageIs DEF Starts, Agreed
<1> DEFINE l == m \o Term
           s == SubSeq(l, 0 + 1, Len(l))
<1>6. m \in Seq(Byte) /\ 0 \in 0 .. Len(m)
  BY <1>5, ChannelAssumption
<1>7. l \in Seq(Byte) /\ s \in Seq(Byte) /\ Ending(s)
  BY <1>5, <1>6, LineRest
<1>8. s = l
  BY <1>7, SubSeqFull
<1>9. \A j \in 1 .. Len(b) : 0 + j <= Len(Bytes(m)) => b[j] = Bytes(m)[0 + j]
  <2>1. Begin(c + 1) + 0 = start
    BY <1>1
  <2> QED BY <1>1, <1>3, <1>4, <2>1, FollowsIn
<1> HIDE DEF l, s
<1>10. \A j \in 1 .. Len(b) : j <= Len(l) => b[j] = l[j]
  BY <1>5, <1>9 DEF l
<1>11. b = l
  BY <1>7, <1>8, <1>10, SameEnd
<1>12. Begin(c + 2) = Begin(c + 1) + Len(Bytes(sent[c + 1]))
  BY <1>1, <1>3 DEF Starts
<1> QED BY <1>1, <1>2, <1>4, <1>5, <1>11, <1>12 DEF l

(* A line read from inside another                                           *)
LEMMA LineInside ==
  ASSUME ChannelInv, kind = "line", NEW b \in Seq(Byte), Follows(b, start), Ending(b),
         NEW c, Stands(c), ~Whole
  PROVE  \/ start + Len(b) = Begin(c + 1)
         \/ c < Len(sent) /\ start + Len(b) = Begin(c + 2)
<1> DEFINE n == Len(sent)
<1>1. /\ c \in Nat /\ c <= n /\ n \in Nat /\ start < Begin(c + 1) /\ start \in Nat
      /\ Begin(c + 1) \in Nat /\ c # 0
  BY BoxIs, InvParts DEF Typed
<1>2. /\ Agreed /\ Starts /\ Len(b) \in Nat /\ Len(b) >= Len(Term) /\ Len(Term) \in Nat
  BY InvParts, EndingLong, TermIs
<1>3. c \in 1 .. n /\ Begin(c) < start
  <2>1. c \in 1 .. n /\ c \in 1 .. n + 1 /\ c <= c
    BY <1>1
  <2> QED BY <2>1 DEF Stands
<1>4. PICK m : m = sent[c]
  OBVIOUS
<1>5. /\ m \in Lines /\ Bytes(m) = m \o Term /\ Begin(c) \in Nat
      /\ Begin(c + 1) = Begin(c) + Len(Bytes(m))
  BY <1>2, <1>3, <1>4, MessageIs DEF Starts, Agreed
<1> DEFINE l == m \o Term
<1>6. m \in Seq(Byte) /\ Len(m) \in Nat /\ Term \in Seq(Byte)
  BY <1>5, ChannelAssumption
<1>7. /\ l \in Seq(Byte) /\ Len(l) = Len(m) + Len(Term)
      /\ \A x \in 1 .. Len(Term) : l[Len(m) + x] = Term[x]
  BY <1>6, Joined
<1> HIDE DEF l
<1>8. PICK o \in Nat : start = Begin(c) + o /\ o >= 1 /\ o < Len(l) /\ Begin(c + 1) = start + (Len(l) - o)
  <2>1. start - Begin(c) \in Nat /\ start - Begin(c) >= 1 /\ start = Begin(c) + (start - Begin(c))
    BY <1>1, <1>3, <1>5
  <2>2. Begin(c + 1) = Begin(c) + Len(l) /\ Len(l) \in Nat
    BY <1>5, <1>7 DEF l
  <2>3. start - Begin(c) < Len(l) /\ Begin(c + 1) = start + (Len(l) - (start - Begin(c)))
    BY <1>1, <1>5, <2>2
  <2> QED BY <2>1, <2>3
<1>9. \A j \in 1 .. Len(b) : o + j <= Len(l) => b[j] = l[o + j]
  BY <1>2, <1>3, <1>4, <1>5, <1>8, FollowsIn DEF l
<1>10. CASE o <= Len(m)
  <2> DEFINE s == SubSeq(l, o + 1, Len(l))
  <2>1. o \in 0 .. Len(m)
    BY <1>6, <1>10
  <2>2. s \in Seq(Byte) /\ Len(s) = Len(l) - o /\ Ending(s) /\ \A j \in 1 .. Len(s) : s[j] = l[o + j]
    <3>1. l = m \o Term
      BY DEF l
    <3>2. s = SubSeq(l, o + 1, Len(l)) /\ m \in Lines
      BY <1>5
    <3> HIDE DEF l, s
    <3>3. s \in Seq(Byte) /\ Len(s) = Len(l) - o
      BY <2>1, <3>1, <3>2, LineRest
    <3>4. Ending(s)
      BY <2>1, <3>1, <3>2, LineRest
    <3>5. \A j \in 1 .. Len(s) : s[j] = l[o + j]
      <4>1. l \in Seq(Byte) /\ Len(l) \in Nat /\ o <= Len(l)
        BY <1>7, <1>8
      <4>2. \A j \in 1 .. Len(l) - o : SubSeq(l, o + 1, Len(l))[j] = l[o + j]
        BY <4>1, TailFrom
      <4> QED BY <3>2, <3>3, <4>2
    <3> QED BY <3>3, <3>4, <3>5
  <2> HIDE DEF s
  <2>3. \A j \in 1 .. Len(b) : j <= Len(s) => b[j] = s[j]
    <3>1. \A j \in 1 .. Len(b) : j <= Len(s) => j \in 1 .. Len(s) /\ o + j <= Len(l)
      BY <1>2, <1>6, <1>7, <1>8, <2>2
    <3> QED BY <1>9, <2>2, <3>1
  <2>4. b = s
    BY <2>2, <2>3, SameEnd
  <2> QED BY <1>8, <2>2, <2>4
<1>11. CASE ~(o <= Len(m))
  <2>1. PICK i \in Nat : i = (o - Len(m)) + 1 /\ i \in 2 .. Len(Term) + 1
    <3>1. (o - Len(m)) + 1 \in Nat /\ (o - Len(m)) + 1 \in 2 .. Len(Term) + 1
      BY <1>2, <1>6, <1>7, <1>8, <1>11
    <3> QED BY <3>1
  <2> DEFINE r == SubSeq(Term, i, Len(Term))
  <2>2. r \in Seq(Byte) /\ Len(r) = Len(l) - o /\ \A j \in 1 .. Len(r) : r[j] = l[o + j]
    <3>1. Len(l) - o = (Len(Term) - i) + 1 /\ (Len(Term) - i) + 1 \in Nat
      BY <1>2, <1>6, <1>7, <1>8, <2>1
    <3>2. r \in Seq(Byte) /\ Len(r) = (Len(Term) - i) + 1
          /\ \A j \in 1 .. (Len(Term) - i) + 1 : r[j] = Term[i - 1 + j]
      <4>1. PICK h \in Nat : h = i - 1 /\ h + 1 = i /\ h <= Len(Term)
        <5>1. i - 1 \in Nat /\ (i - 1) + 1 = i /\ i - 1 <= Len(Term)
          BY <1>2, <2>1
        <5> QED BY <5>1
      <4>2. /\ SubSeq(Term, h + 1, Len(Term)) \in Seq(Byte)
            /\ Len(SubSeq(Term, h + 1, Len(Term))) = Len(Term) - h
            /\ \A j \in 1 .. Len(Term) - h : SubSeq(Term, h + 1, Len(Term))[j] = Term[h + j]
        BY <1>6, <4>1, TailFrom
      <4>3. Len(Term) - h = (Len(Term) - i) + 1
        BY <1>2, <2>1, <4>1
      <4> HIDE DEF r
      <4>4. r = SubSeq(Term, h + 1, Len(Term))
        BY <4>1 DEF r
      <4> QED BY <4>1, <4>2, <4>3, <4>4
    <3>3. \A j \in 1 .. (Len(Term) - i) + 1 :
            i - 1 + j \in 1 .. Len(Term) /\ o + j = Len(m) + (i - 1 + j)
      BY <1>2, <1>6, <1>8, <2>1
    <3> HIDE DEF r
    <3> QED BY <1>7, <3>1, <3>2, <3>3
  <2>3. Len(r) \in Nat /\ Len(r) < Len(Term)
    BY <1>2, <1>6, <1>7, <1>8, <1>11, <2>2
  <2> HIDE DEF r
  <2>4. c < n
    <3>1. start + Len(b) <= Begin(n + 1)
      BY DEF Follows
    <3>2. c # n
      BY <1>1, <1>2, <1>8, <2>2, <2>3, <3>1
    <3> QED BY <1>1, <3>2
  <2>5. c + 1 \in 1 .. n /\ (c + 1) + 1 = c + 2
    BY <1>1, <2>4
  <2>6. PICK m2 : m2 = sent[c + 1]
    OBVIOUS
  <2>7. /\ m2 \in Lines /\ Bytes(m2) = m2 \o Term
        /\ Begin(c + 2) = Begin(c + 1) + Len(Bytes(m2))
    BY <1>2, <2>5, <2>6, MessageIs DEF Starts, Agreed
  <2> DEFINE l2 == m2 \o Term
             s == (r \o m2) \o Term
  <2>8. s \in Seq(Byte) /\ Ending(s)
    BY <2>1, <2>7, LineBehind DEF r
  <2>9. m2 \in Seq(Byte) /\ l2 \in Seq(Byte) /\ Len(l2) \in Nat
    <3>1. m2 \in Seq(Byte)
      BY <2>7, ChannelAssumption
    <3>2. l2 \in Seq(Byte)
      BY <1>6, <3>1, Joined
    <3> HIDE DEF l2
    <3> QED BY <3>1, <3>2
  <2>10. s = r \o l2
    BY <1>6, <2>2, <2>9, ThreeJoined
  <2> HIDE DEF s, l2
  <2>11. /\ Len(s) = Len(r) + Len(l2)
         /\ \A j \in 1 .. Len(r) : s[j] = r[j]
         /\ \A j \in 1 .. Len(l2) : s[Len(r) + j] = l2[j]
    BY <2>2, <2>9, <2>10, Joined
  <2>12. \A x \in 1 .. Len(l2) : Len(r) + x \in 1 .. Len(b) => b[Len(r) + x] = l2[x]
    <3> TAKE x \in 1 .. Len(l2)
    <3>1. (Begin(c + 1) + x) - start = Len(r) + x
      <4>1. Begin(c + 1) = start + Len(r)
        BY <1>8, <2>2
      <4>2. x \in Nat
        BY <2>9
      <4> HIDE DEF r
      <4> QED BY <1>1, <2>3, <4>1, <4>2
    <3>2. x \in 1 .. Len(Bytes(sent[c + 1])) /\ Bytes(sent[c + 1]) = l2
      BY <2>6, <2>7 DEF l2
    <3> QED BY <2>5, <3>1, <3>2 DEF Follows
  <2>13. \A j \in 1 .. Len(b) : j <= Len(s) => b[j] = s[j]
    <3> SUFFICES ASSUME NEW j \in 1 .. Len(b), j <= Len(s) PROVE b[j] = s[j]
      OBVIOUS
    <3>1. CASE j <= Len(r)
      <4>1. j \in 1 .. Len(r) /\ o + j <= Len(l)
        BY <1>2, <1>6, <1>7, <1>8, <2>2, <2>3, <3>1
      <4> QED BY <1>9, <2>2, <2>11, <4>1
    <3>2. CASE ~(j <= Len(r))
      <4>1. j - Len(r) \in 1 .. Len(l2) /\ Len(r) + (j - Len(r)) = j
        BY <1>2, <2>3, <2>9, <2>11, <3>2
      <4> QED BY <2>11, <2>12, <4>1
    <3> QED BY <3>1, <3>2
  <2>14. b = s
    BY <2>8, <2>13, SameEnd
  <2>15. start + Len(b) = Begin(c + 2)
    <3>1. Begin(c + 1) = start + Len(r) /\ Begin(c + 2) = Begin(c + 1) + Len(l2)
      BY <1>8, <2>2, <2>7 DEF l2
    <3>2. Len(b) = Len(r) + Len(l2)
      BY <2>11, <2>14
    <3> QED BY <1>1, <2>3, <2>9, <3>1, <3>2
  <2> QED BY <2>4, <2>15
<1> QED BY <1>10, <1>11

-----------------------------------------------------------------------------
(* Channel: what a mailbox does meanwhile                                  *)

LEMMA WholeIsSo == Whole \in BOOLEAN /\ Whole' \in BOOLEAN
  BY Zenon DEF Whole

LEMMA SameBox ==
  ASSUME sent' = sent, kind' = kind, start' = start PROVE Box' = Box /\ (Whole' <=> Whole)
<1>1. \A i : Begin(i)' = Begin(i)
  BY SameStream
<1>2. Touched' = Touched
  BY <1>1 DEF Touched
<1>3. Box' = Box
  BY <1>2 DEF Box
<1>4. Whole' <=> Whole
  BY <1>1 DEF Whole
<1> QED BY <1>3, <1>4

LEMMA MailboxStutters ==
  ASSUME sent' = sent, kind' = kind, start' = start, received' = received
  PROVE  UNCHANGED Promise!mvars
<1>1. Box' = Box
  BY SameBox
<1>2. Whole' = Whole
  BY SameBox, Zenon DEF Whole
<1> QED BY <1>1, <1>2 DEF Promise!mvars, Box, Whole

LEMMA MailboxFails ==
  ASSUME sent' = sent, kind' = kind, start' = start, received' = Failed
  PROVE  Promise!Fail
<1>1. Box' = Box
  BY SameBox
<1>2. Whole' = Whole
  BY SameBox, Zenon DEF Whole
<1> QED BY <1>1, <1>2 DEF Promise!Fail, Box, Whole

LEMMA MailboxTakes ==
  ASSUME ChannelInv, ChannelInv', sent' = sent, kind' = kind, NEW c, Stands(c), Whole,
         c < Len(sent), received' = sent[c + 1], start' = Begin(c + 2),
         kind = "line" => Len(sent[c + 1]) <= MaxLine - Len(Term)
  PROVE  Promise!Take
<1> DEFINE n == Len(sent)
<1>1. /\ c \in Nat /\ c < n /\ n \in Nat /\ c + 1 \in 1 .. n /\ Begin(c + 1) = start
      /\ Box # << >> /\ Head(Box) = sent[c + 1] /\ Tail(Box) = SubSeq(sent, c + 2, n)
      /\ InOrder /\ c + 1 \in 1 .. n + 1 /\ c + 2 \in 1 .. n + 1
  <2>1. n \in Nat /\ c \in Nat
    BY BoxIs, InvParts
  <2>2. c + 1 \in 1 .. n + 1 /\ c + 2 \in 1 .. n + 1
    BY <2>1
  <2> QED BY <2>1, <2>2, BoxIs, InvParts
<1>2. start < start' /\ start \in Nat /\ start' \in Nat
  <2>1. c + 1 < c + 2
    BY <1>1
  <2> QED BY <1>1, <2>1 DEF InOrder
<1>3. PICK d \in Nat :
        /\ Box' = SubSeq(sent, d + 1, n) /\ (Whole' <=> Begin(d + 1) = start') /\ d <= n
        /\ \A i \in 1 .. n + 1 : Begin(i) < start' <=> i <= d
  <2>1. start <= start'
    BY <1>2
  <2> QED BY <2>1, Moved
<1>4. d = c + 1
  <2>1. Begin(c + 1) < start' /\ ~(Begin(c + 2) < start')
    BY <1>1, <1>2
  <2>2. c + 1 <= d /\ ~(c + 2 <= d)
    BY <1>1, <1>3, <2>1
  <2> QED BY <1>1, <1>3, <2>2
<1>5. d + 1 = c + 2
  BY <1>1, <1>4
<1>6. Box' = Tail(Box)
  BY <1>1, <1>3, <1>5
<1>7. Whole' = Whole
  <2>1. Whole'
    BY <1>3, <1>5
  <2> QED BY <2>1, Zenon, WholeIsSo
<1>8. ~(kind = "line" /\ Len(Head(Box)) > MaxLine - Len(Term))
  <2> SUFFICES ASSUME kind = "line" PROVE ~(Len(Head(Box)) > MaxLine - Len(Term))
    OBVIOUS
  <2>1. PICK m : m = sent[c + 1]
    OBVIOUS
  <2>2. m \in Seq(Byte)
    BY <1>1, <2>1, InvParts, MessageIs DEF Starts, Agreed
  <2>3. Len(m) \in Nat /\ Len(m) <= MaxLine - Len(Term)
    BY <2>1, <2>2
  <2> QED BY <1>1, <2>1, <2>3, TermIs
<1> QED BY <1>1, <1>6, <1>7, <1>8 DEF Promise!Take, Promise!Oversized, Box, Whole

LEMMA MailboxLoses ==
  ASSUME ChannelInv, ChannelInv', sent' = sent, kind' = kind, NEW c, Stands(c), Whole,
         start < start', received' = Failed, c < Len(sent),
         \/ start' < Begin(c + 2)
         \/ kind = "line" /\ Len(sent[c + 1]) > MaxLine - Len(Term)
  PROVE  Promise!Fail \/ Promise!Swallow
<1> DEFINE n == Len(sent)
<1>1. /\ c \in Nat /\ c < n /\ n \in Nat /\ c + 1 \in 1 .. n /\ Begin(c + 1) = start
      /\ Box # << >> /\ Head(Box) = sent[c + 1] /\ Tail(Box) = SubSeq(sent, c + 2, n)
      /\ InOrder /\ c + 1 \in 1 .. n + 1 /\ c + 2 \in 1 .. n + 1
      /\ Begin(c + 1) \in Nat /\ Begin(c + 2) \in Nat
  <2>1. n \in Nat /\ c \in Nat
    BY BoxIs, InvParts
  <2>2. c + 1 \in 1 .. n + 1 /\ c + 2 \in 1 .. n + 1
    BY <2>1
  <2> QED BY <2>1, <2>2, BoxIs, InvParts DEF InOrder
<1>2. start \in Nat /\ start' \in Nat
  <2>1. ChannelInv' => start' \in Nat
    BY DEF ChannelInv, Typed
  <2> QED BY <1>1, <2>1
<1>3. PICK d \in Nat :
        /\ Box' = SubSeq(sent, d + 1, n) /\ (Whole' <=> Begin(d + 1) = start') /\ d <= n
        /\ \A i \in 1 .. n + 1 : Begin(i) < start' <=> i <= d
        /\ c < d => Box' \in Promise!SuffixesOf(Tail(Box))
  <2>1. start <= start'
    BY <1>2
  <2> QED BY <2>1, Moved
<1>4. c + 1 <= d
  BY <1>1, <1>3
<1>5. CASE start' < Begin(c + 2)
  <2>1. ~(Begin(c + 2) < start')
    BY <1>1, <1>2, <1>5
  <2>2. ~(c + 2 <= d)
    BY <1>1, <1>3, <2>1
  <2>3. d = c + 1 /\ d + 1 = c + 2
    BY <1>1, <1>3, <1>4, <2>2
  <2>4. Box' = Tail(Box)
    BY <1>1, <1>3, <2>3
  <2>5. Whole' = FALSE
    <3>1. ~Whole'
      BY <1>1, <1>2, <1>3, <1>5, <2>3
    <3> QED BY <3>1, WholeIsSo, Zenon
  <2>6. Promise!Fail
    BY <1>1, <2>4, <2>5 DEF Promise!Fail, Box, Whole
  <2> QED BY <2>6
<1>6. CASE kind = "line" /\ Len(sent[c + 1]) > MaxLine - Len(Term)
  <2>1. Box' \in Promise!SuffixesOf(Tail(Box))
    BY <1>1, <1>3, <1>4
  <2>2. kind = "line" /\ Len(Head(Box)) > MaxLine - Len(Term)
    BY <1>1, <1>6
  <2>3. Promise!Swallow
    BY <1>1, <2>1, <2>2, WholeIsSo DEF Promise!Swallow, Promise!Oversized, Box, Whole
  <2> QED BY <2>3
<1> QED BY <1>5, <1>6

(* An accept that began inside a message                                     *)
LEMMA MailboxSpoilt ==
  ASSUME ChannelInv, ChannelInv', sent' = sent, kind' = kind, ~Whole, start <= start',
         kind = "line" => received' = Failed
  PROVE  Promise!SwallowRest \/ Promise!Garbage
<1>1. PICK c : Stands(c)
  BY Standing
<1>2. Box' \in Promise!SuffixesOf(Box)
  BY <1>1, Moved
<1>3. CASE kind = "line"
  <2>1. Promise!SwallowRest
    BY <1>2, <1>3, WholeIsSo DEF Promise!SwallowRest, Box, Whole
  <2> QED BY <2>1
<1>4. CASE kind # "line"
  <2>1. Promise!Garbage
    BY <1>2, <1>4, WholeIsSo DEF Promise!Garbage, Box, Whole
  <2> QED BY <2>1
<1> QED BY <1>3, <1>4

LEMMA MailboxRest ==
  ASSUME ChannelInv, ChannelInv', sent' = sent, kind' = kind, kind = "line", ~Whole,
         start <= start', received' # Failed, NEW c, Stands(c),
         start' = Begin(c + 1) \/ (c < Len(sent) /\ start' = Begin(c + 2))
  PROVE  Promise!TakeRestOfLine
<1> DEFINE n == Len(sent)
<1>1. /\ c \in Nat /\ c <= n /\ n \in Nat /\ Box = SubSeq(sent, c + 1, n) /\ InOrder
      /\ c < n => Box # << >> /\ Tail(Box) = SubSeq(sent, c + 2, n)
      /\ start <= Begin(c + 1) /\ Begin(c + 1) # start /\ start \in Nat /\ Begin(c + 1) \in Nat
  BY BoxIs, InvParts DEF Typed
<1>2. PICK d \in Nat :
        /\ c <= d /\ d <= n /\ Box' = SubSeq(sent, d + 1, n) /\ (Whole' <=> Begin(d + 1) = start')
        /\ \A i \in 1 .. n + 1 : Begin(i) < start' <=> i <= d
  BY Moved
<1>3. CASE start' = Begin(c + 1)
  <2>1. c + 1 \in 1 .. n + 1 /\ ~(Begin(c + 1) < start')
    BY <1>1, <1>3
  <2>2. ~(c + 1 <= d)
    BY <1>2, <2>1
  <2>3. d = c
    BY <1>1, <1>2, <2>2
  <2>4. Box' = Box /\ Whole'
    BY <1>1, <1>2, <1>3, <2>3
  <2>5. Whole' = TRUE
    BY <2>4, WholeIsSo, Zenon
  <2> QED BY <2>4, <2>5 DEF Promise!TakeRestOfLine, Box, Whole
<1>4. CASE c < n /\ start' = Begin(c + 2)
  <2>1. /\ c + 1 \in 1 .. n + 1 /\ c + 2 \in 1 .. n + 1 /\ c + 1 < c + 2
    BY <1>1, <1>4
  <2>2. Begin(c + 1) < Begin(c + 2) /\ Begin(c + 2) \in Nat
    BY <1>1, <2>1 DEF InOrder
  <2>3. c + 1 <= d /\ ~(c + 2 <= d)
    BY <1>2, <1>4, <2>1, <2>2
  <2>4. d + 1 = c + 2
    BY <1>1, <1>2, <2>3
  <2>5. Box' = Tail(Box) /\ Whole' /\ Box # << >>
    BY <1>1, <1>2, <1>4, <2>4
  <2>6. Whole' = TRUE
    BY <2>5, WholeIsSo, Zenon
  <2> QED BY <2>5, <2>6 DEF Promise!TakeRestOfLine, Box, Whole
<1> QED BY <1>3, <1>4

-----------------------------------------------------------------------------
(* Channel: what each return is to a mailbox                               *)

(* A line that would fit has not been read to its end.                       *)
LEMMA LineNotOver ==
  ASSUME ChannelInv, reading = "line", NEW i \in 1 .. Len(sent), Begin(i) = start,
         Begin(i + 1) <= position
  PROVE  Len(sent[i]) > MaxLine - Len(Term)
<1>1. PICK m : m = sent[i]
  OBVIOUS
<1>2. kind = "line" /\ Agreed /\ Starts
  BY Kinds, InvParts
<1>3. /\ m \in Lines /\ m \in Seq(Byte) /\ Bytes(m) = m \o Term
      /\ Begin(i + 1) = start + Len(Bytes(m))
  BY <1>1, <1>2, MessageIs DEF Starts, Agreed
<1>4. Len(m) \in Nat /\ Term \in Seq(Byte) /\ Len(Term) \in Nat /\ Len(Term) >= 1 /\ MaxLine \in Nat
  BY <1>3, TermIs
<1>5. /\ Len(Bytes(m)) = Len(m) + Len(Term)
      /\ \A x \in 1 .. Len(Term) : Bytes(m)[Len(m) + x] = Term[x]
  BY <1>3, <1>4, Joined
<1>6. /\ part \in Seq(Byte) /\ Follows(part, start) /\ Len(part) = Least(position - start, MaxLine)
      /\ \A k \in 0 .. Len(part) : ~IsSuffix(Term, SubSeq(part, 1, k))
      /\ start \in Nat /\ position \in Nat
  BY InvParts DEF InLine, Typed
<1> DEFINE l == Len(m) + Len(Term)
<1>7. SUFFICES ASSUME ~(Len(m) > MaxLine - Len(Term)) PROVE FALSE
  BY <1>1
<1>8. l \in 0 .. Len(part) /\ l <= Len(part) /\ Len(part) \in Nat
  BY <1>3, <1>4, <1>5, <1>6, <1>7 DEF Least
<1>9. \A j \in 1 .. Len(part) : 0 + j <= Len(Bytes(m)) => part[j] = Bytes(m)[0 + j]
  <2>1. Begin(i) + 0 = start
    BY <1>6
  <2> QED BY <1>1, <1>2, <1>6, <2>1, FollowsIn
<1>10. \A x \in 1 .. Len(Term) : part[(l - Len(Term)) + x] = Term[x]
  <2> TAKE x \in 1 .. Len(Term)
  <2>1. /\ (l - Len(Term)) + x = Len(m) + x /\ Len(m) + x \in 1 .. Len(part)
        /\ 0 + (Len(m) + x) <= Len(Bytes(m)) /\ 0 + (Len(m) + x) = Len(m) + x
    BY <1>4, <1>5, <1>8
  <2> QED BY <1>5, <1>9, <2>1
<1>11. Len(Term) <= l
  BY <1>4
<1>12. EndsAt(part, l)
  BY <1>10, <1>11 DEF EndsAt
<1> HIDE DEF l
<1> QED BY <1>6, <1>8, <1>12, EndsAtIs

(* And neither has a string or an array.                                     *)
LEMMA ItemNotOver ==
  ASSUME ChannelInv, reading \in {"count", "length", "text"}, NEW i \in 1 .. Len(sent),
         Begin(i) = start
  PROVE  position < Begin(i + 1)
<1>1. PICK m : m = sent[i]
  OBVIOUS
<1>2. /\ Decodes(m) /\ Agreed /\ m \in Message[kind] /\ Begin(i + 1) = start + Len(Bytes(m))
      /\ Len(Bytes(m)) \in Nat /\ start \in Nat /\ position \in Nat /\ part \in Seq(Byte)
      /\ Len(part) < (IF reading = "text" THEN want ELSE IntBytes)
  BY <1>1, InvParts DEF InMessage, Starts, Typed, InItem
<1>3. Len(part) \in Nat
  BY <1>2
<1>4. CASE reading = "count"
  <2>1. position = start + Len(part) /\ Len(part) < IntBytes
    BY <1>2, <1>4 DEF Decodes
  <2>2. kind = "array"
    BY <1>4, Kinds
  <2>3. m \in Arrays /\ Bytes(m) = ArrayOf(m)
    BY <1>2, <2>2, MessageIs DEF Agreed
  <2>4. Layout(m, Offset(m)) /\ m \in Seq(Texts \cup {NULL})
    BY <2>3, ArrayIs
  <2>5. 0 \in 0 .. Len(m)
    BY <2>4
  <2>6. IntBytes <= Len(Bytes(m))
    BY <2>3, <2>4, <2>5 DEF Layout
  <2> QED BY <1>2, <1>3, <2>1, <2>6, Bases
<1>5. CASE reading \in {"length", "text"}
  <2>1. PICK s : s = Current(m)
    OBVIOUS
  <2>2. /\ s \in Texts \cup {NULL} /\ Ahead(m) \in Nat /\ Len(String(s)) \in Nat
        /\ Ahead(m) + Len(String(s)) <= Len(Bytes(m))
    BY <1>1, <1>5, <2>1, ElementAt
  <2>3. Len(String(s)) >= IntBytes /\ (s # NULL => Len(String(s)) = IntBytes + Len(s) /\ s \in Seq(Byte))
    BY <2>2, StringIs
  <2>4. CASE reading = "length"
    <3>1. position = start + Ahead(m) + Len(part) /\ Len(part) < IntBytes
      BY <1>2, <2>4 DEF Decodes
    <3> QED BY <1>2, <1>3, <2>2, <2>3, <3>1, Bases
  <2>5. CASE reading = "text"
    <3>1. /\ position = start + Ahead(m) + IntBytes + Len(part) /\ Len(part) < want
          /\ s # NULL /\ want = Len(s)
      BY <1>2, <2>1, <2>5 DEF Decodes
    <3>2. Len(s) \in Nat
      BY <2>3, <3>1
    <3>3. Ahead(m) + IntBytes + Len(s) <= Len(Bytes(m))
      BY <2>2, <2>3, <3>1, <3>2, Bases
    <3>4. \A a, b, p, w, e \in Nat : p < w /\ a + b + w <= e => start + a + b + p < start + e
      BY <1>2
    <3>5. IntBytes \in Nat
      BY Bases
    <3>6. start + Ahead(m) + IntBytes + Len(part) < start + Len(Bytes(m))
      BY <1>2, <1>3, <2>2, <3>1, <3>2, <3>3, <3>4, <3>5
    <3> QED BY <1>2, <3>1, <3>6
  <2> QED BY <1>5, <2>4, <2>5
<1> QED BY <1>4, <1>5

(* A timeout, or the end of the stream                                       *)
LEMMA GiveUpShows ==
  ASSUME ChannelInv, ChannelInv', sent' = sent, kind' = kind, position' = position,
         reading \notin {"idle", "dead"}, Return(Failed)
  PROVE  Promise!Fail \/ Promise!Swallow \/ Promise!SwallowRest \/ Promise!Garbage
<1>1. received' = Failed /\ start' = position
  BY DEF Return
<1>2. start \in Nat /\ position \in Nat /\ start <= position
  BY InvParts DEF Typed
<1>3. CASE position = start
  BY <1>1, <1>3, MailboxFails
<1>4. CASE ~Whole
  BY <1>1, <1>2, <1>4, MailboxSpoilt
<1>5. CASE Whole /\ position # start
  <2>1. PICK c : Stands(c)
    BY Standing
  <2>2. /\ c \in Nat /\ c <= Len(sent) /\ Begin(c + 1) = start /\ Len(sent) \in Nat
        /\ position <= Begin(Len(sent) + 1)
    BY <1>5, <2>1, BoxIs, InvParts
  <2>3. c # Len(sent)
    BY <1>2, <1>5, <2>2
  <2>4. c < Len(sent) /\ c + 1 \in 1 .. Len(sent) /\ (c + 1) + 1 = c + 2
    BY <2>2, <2>3
  <2>5. start < start'
    BY <1>1, <1>2, <1>5
  <2>6. Begin(c + 2) \in Nat
    <3>1. c + 2 \in 1 .. Len(sent) + 1
      BY <2>2, <2>4
    <3> QED BY <3>1, InvParts DEF InOrder
  <2>7. \/ start' < Begin(c + 2)
        \/ kind = "line" /\ Len(sent[c + 1]) > MaxLine - Len(Term)
    <3>1. CASE reading = "line"
      <4>1. kind = "line"
        BY <3>1, Kinds
      <4>2. Begin(c + 2) <= position => Len(sent[c + 1]) > MaxLine - Len(Term)
        BY <2>2, <2>4, <3>1, LineNotOver
      <4> QED BY <1>1, <1>2, <2>6, <4>1, <4>2
    <3>2. CASE reading \in {"count", "length", "text"}
      BY <1>1, <2>2, <2>4, <3>2, ItemNotOver
    <3> QED BY <3>1, <3>2, InvParts DEF Typed, ReadingsOf, Agreed
  <2> QED BY <1>1, <1>5, <2>1, <2>4, <2>5, <2>7, MailboxLoses
<1> QED BY <1>3, <1>4, <1>5

(* A byte more of a line                                                     *)
LEMMA LineShows ==
  ASSUME ChannelInv, ChannelInv', NEW n, Takes(n), reading = "line", AddToLine(wire[1])
  PROVE  Promise!Take \/ Promise!TakeRestOfLine \/ UNCHANGED Promise!mvars
<1>1. sent' = sent /\ kind' = kind /\ kind = "line" /\ Append(part, wire[1]) = Item(n)
  BY LineByte DEF Takes
<1> DEFINE fits == Len(part) < MaxLine
           buffer == IF fits THEN Append(part, wire[1]) ELSE part
<1>2. CASE ~IsSuffix(Term, buffer)
  <2>1. received' = received /\ start' = start
    BY <1>2 DEF AddToLine
  <2> QED BY <1>1, <2>1, MailboxStutters
<1>3. CASE IsSuffix(Term, buffer)
  <2>1. fits
    BY <1>3, LineByte
  <2>2. buffer = Item(n) /\ ~too_long
    BY <1>1, <2>1, LineByte
  <2> DEFINE b == Item(n)
             value == SubSeq(b, 1, Len(b) - Len(Term))
  <2>3. received' = value /\ start' = position'
    BY <1>3, <2>1, <2>2 DEF AddToLine, Return
  <2>4. /\ b \in Seq(Byte) /\ Len(b) = Len(part) + 1 /\ position' = start + Len(b)
        /\ Follows(b, start) /\ start < position' /\ part \in Seq(Byte)
    <3>1. n = 1
      BY LineByte
    <3> QED BY <1>1, <2>1, <3>1, LineByte, Taken, InvParts DEF Typed
  <2>5. Len(part) \in Nat /\ Len(b) \in Nat /\ Len(b) <= MaxLine
    BY <2>1, <2>4, TermIs
  <2>6. Ending(b)
    <3>1. EndsAt(b, Len(b))
      BY <1>3, <2>2, <2>4, WholeEnds
    <3>2. ASSUME NEW k \in 0 .. Len(b) - 1 PROVE ~EndsAt(b, k)
      <4>1. k \in 0 .. Len(part) /\ k \in 0 .. Len(b)
        BY <2>4, <2>5
      <4>2. ~IsSuffix(Term, SubSeq(part, 1, k))
        BY <4>1, InvParts DEF InLine
      <4>3. ~EndsAt(part, k)
        BY <2>4, <4>1, <4>2, EndsAtIs
      <4>4. \A x \in 1 .. Len(part) : b[x] = part[x]
        <5>1. SubSeq(wire, 1, n) \in Seq(Byte)
          BY Taken
        <5> QED BY <2>4, <5>1, Joined DEF Item
      <4>5. Len(Term) <= k => \A x \in 1 .. Len(Term) : (k - Len(Term)) + x \in 1 .. Len(part)
        BY <2>5, <4>1, TermIs
      <4> HIDE DEF b
      <4> QED BY <4>3, <4>4, <4>5 DEF EndsAt
    <3> QED BY <3>1, <3>2 DEF Ending
  <2> HIDE DEF b
  <2>7. PICK c : Stands(c)
    BY Standing
  <2>8. c \in Nat /\ c <= Len(sent) /\ Len(sent) \in Nat /\ (Whole <=> Begin(c + 1) = start)
    BY <2>7, BoxIs, InvParts
  <2>9. CASE Whole
    <3>1. /\ c < Len(sent) /\ b = Bytes(sent[c + 1]) /\ sent[c + 1] \in Lines
          /\ start + Len(b) = Begin(c + 2)
      BY <1>1, <2>4, <2>6, <2>7, <2>9, LineWhole
    <3>2. PICK m : m = sent[c + 1]
      OBVIOUS
    <3>3. m \in Seq(Byte) /\ b = m \o Term /\ Term \in Seq(Byte)
      BY <1>1, <3>1, <3>2, ChannelAssumption DEF Bytes
    <3>4. /\ Len(b) = Len(m) + Len(Term) /\ \A i \in 1 .. Len(m) : b[i] = m[i]
          /\ Len(m) \in Nat /\ Len(Term) \in Nat
      BY <3>3, Joined
    <3>5. Len(b) - Len(Term) = Len(m) /\ Len(m) <= MaxLine - Len(Term)
      BY <2>5, <3>4, TermIs
    <3>6. value = m
      <4>1. value = SubSeq(b, 1, Len(m))
        BY <3>5
      <4> HIDE DEF value
      <4>2. \A i \in 1 .. Len(m) : i \in 1 .. Len(b)
        BY <3>4
      <4>3. /\ SubSeq(b, 1, Len(m)) \in Seq(Byte) /\ Len(SubSeq(b, 1, Len(m))) = Len(m)
            /\ \A i \in 1 .. Len(m) : SubSeq(b, 1, Len(m))[i] = b[i]
        BY <2>4, <3>4, <4>2
      <4> QED BY <3>3, <3>4, <4>1, <4>3, SeqEqual
    <3>7. Promise!Take
      <4>1. received' = sent[c + 1] /\ start' = Begin(c + 2)
        BY <2>3, <2>4, <3>1, <3>2, <3>6
      <4> QED BY <1>1, <2>7, <2>9, <3>1, <3>2, <3>5, <4>1, MailboxTakes
    <3> QED BY <3>7
  <2>10. CASE ~Whole
    <3>1. start' = Begin(c + 1) \/ (c < Len(sent) /\ start' = Begin(c + 2))
      BY <1>1, <2>3, <2>4, <2>6, <2>7, <2>10, LineInside
    <3>2. received' # Failed
      <4>1. value \in Seq(Byte)
        <5>1. Len(b) - Len(Term) \in Int /\ \A i \in 1 .. Len(b) - Len(Term) : i \in 1 .. Len(b)
          BY <2>5, TermIs
        <5> QED BY <2>4, <5>1
      <4> HIDE DEF value
      <4> QED BY <2>3, <4>1, ChannelAssumption
    <3>3. start <= start'
      BY <2>3, <2>4, <2>5, InvParts DEF Typed
    <3>4. Promise!TakeRestOfLine
      BY <1>1, <2>7, <2>10, <3>1, <3>2, <3>3, MailboxRest
    <3> QED BY <3>4
  <2> QED BY <2>9, <2>10
<1> QED BY <1>2, <1>3

(* A string or an array is returned.                                         *)
LEMMA ReturnShows ==
  ASSUME ChannelInv, ChannelInv', NEW n, Takes(n), reading \in {"count", "length", "text"},
         NEW value, Return(value),
         \A i \in 1 .. Len(sent) : Begin(i) = start =>
           value = sent[i] /\ position' = Begin(i + 1)
  PROVE  Promise!Take \/ Promise!SwallowRest \/ Promise!Garbage
<1>1. /\ sent' = sent /\ kind' = kind /\ kind # "line" /\ received' = value /\ start' = position'
      /\ start < position' /\ position' <= Begin(Len(sent) + 1) /\ position' \in Nat
  BY Kinds, Taken DEF Takes, Return
<1>2. start \in Nat /\ start <= start'
  <2>1. start \in Nat
    BY InvParts DEF Typed
  <2> QED BY <1>1, <2>1
<1>3. CASE ~Whole
  BY <1>1, <1>2, <1>3, MailboxSpoilt
<1>4. CASE Whole
  <2>1. PICK c : Stands(c)
    BY Standing
  <2>2. /\ c \in Nat /\ c <= Len(sent) /\ Len(sent) \in Nat /\ Begin(c + 1) = start
        /\ Begin(Len(sent) + 1) \in Nat
    BY <1>4, <2>1, BoxIs, InvParts DEF Starts
  <2>3. c # Len(sent)
    BY <1>1, <1>2, <2>2
  <2>4. c < Len(sent) /\ c + 1 \in 1 .. Len(sent) /\ (c + 1) + 1 = c + 2
    BY <2>2, <2>3
  <2>5. received' = sent[c + 1] /\ start' = Begin(c + 2)
    BY <1>1, <2>2, <2>4
  <2> QED BY <1>1, <1>4, <2>1, <2>4, <2>5, MailboxTakes
<1> QED BY <1>3, <1>4

LEMMA ElementShows ==
  ASSUME ChannelInv, ChannelInv', NEW n, Takes(n), reading \in {"length", "text"},
         NEW s \in Seq(Byte) \cup {NULL}, Element(s), Complete(s)
  PROVE  \/ Promise!Take \/ Promise!SwallowRest \/ Promise!Garbage
         \/ UNCHANGED Promise!mvars
<1>1. ASSUME NEW i \in 1 .. Len(sent), Begin(i) = start
      PROVE  \E m : /\ m = sent[i] /\ s = Current(m) /\ start \in Nat
                    /\ position' = start + Ahead(m) + Len(String(s))
                    /\ Ahead(m) \in Nat /\ Len(String(s)) \in Nat
                    /\ Begin(i + 1) = start + Len(Bytes(m))
                    /\ kind = "string" => Ahead(m) + Len(String(s)) = Len(Bytes(m)) /\ s = m
                    /\ kind = "array" =>
                         /\ m \in Arrays /\ Len(m) \in Nat /\ Len(items) + 1 \in 1 .. Len(m)
                         /\ s = m[Len(items) + 1]
                         /\ left = 1 => Ahead(m) + Len(String(s)) = Len(Bytes(m))
                         /\ left = Len(m) - Len(items)
                         /\ items = SubSeq(m, 1, Len(items)) /\ Len(items) \in Nat
  <2>1. PICK m : m = sent[i]
    OBVIOUS
  <2>2. s = Current(m) /\ position' = start + Ahead(m) + Len(String(s))
    BY <1>1, <2>1 DEF Complete
  <2>3. start \in Nat /\ Begin(i + 1) = start + Len(Bytes(m)) /\ Decodes(m) /\ Len(items) \in Nat
    <3>1. start \in Nat /\ items \in Seq(Seq(Byte) \cup {NULL}) /\ Starts /\ InMessage
      BY InvParts DEF Typed
    <3>2. Len(items) \in Nat
      BY <3>1
    <3>3. Begin(i + 1) = start + Len(Bytes(m))
      BY <1>1, <2>1, <3>1 DEF Starts
    <3>4. Decodes(m)
      BY <1>1, <2>1, <3>1 DEF InMessage
    <3> QED BY <3>1, <3>2, <3>3, <3>4
  <2>4. kind = "array" => left = Len(m) - Len(items) /\ items = SubSeq(m, 1, Len(items))
    BY <2>3 DEF Decodes
  <2>5. /\ Ahead(m) \in Nat /\ Len(String(s)) \in Nat
        /\ kind = "string" => Ahead(m) + Len(String(s)) = Len(Bytes(m)) /\ s = m
        /\ kind = "array" =>
             /\ m \in Arrays /\ Len(m) \in Nat /\ Len(items) + 1 \in 1 .. Len(m)
             /\ s = m[Len(items) + 1]
             /\ left = 1 => Ahead(m) + Len(String(s)) = Len(Bytes(m))
    BY <1>1, <2>1, <2>2, ElementAt
  <2> QED BY <2>1, <2>2, <2>3, <2>4, <2>5
<1>2. CASE kind = "string"
  <2>1. Return(s)
    BY <1>2 DEF Element
  <2>2. \A i \in 1 .. Len(sent) : Begin(i) = start => s = sent[i] /\ position' = Begin(i + 1)
    <3> SUFFICES ASSUME NEW i \in 1 .. Len(sent), Begin(i) = start
                 PROVE  s = sent[i] /\ position' = Begin(i + 1)
      OBVIOUS
    <3>1. PICK m : /\ m = sent[i] /\ position' = start + Ahead(m) + Len(String(s))
                   /\ Ahead(m) \in Nat /\ Len(String(s)) \in Nat /\ start \in Nat
                   /\ Begin(i + 1) = start + Len(Bytes(m))
                   /\ Ahead(m) + Len(String(s)) = Len(Bytes(m)) /\ s = m
      BY <1>1, <1>2
    <3>2. position' = Begin(i + 1)
      <4>1. \A a, b, e, f \in Nat : a + b = f => e + a + b = e + f
        OBVIOUS
      <4>2. Len(Bytes(m)) \in Nat
        BY <3>1
      <4> QED BY <3>1, <4>1, <4>2
    <3>3. s = sent[i]
      BY <3>1
    <3> QED BY <3>2, <3>3
  <2> QED BY <2>1, <2>2, ReturnShows
<1>3. CASE kind # "string" /\ left = 1
  <2>1. Return(Append(items, s)) /\ kind = "array"
    BY <1>3, Kinds DEF Element
  <2>2. \A i \in 1 .. Len(sent) : Begin(i) = start =>
          Append(items, s) = sent[i] /\ position' = Begin(i + 1)
    <3> SUFFICES ASSUME NEW i \in 1 .. Len(sent), Begin(i) = start
                 PROVE  Append(items, s) = sent[i] /\ position' = Begin(i + 1)
      OBVIOUS
    <3>1. PICK m : /\ m = sent[i] /\ position' = start + Ahead(m) + Len(String(s))
                   /\ Ahead(m) \in Nat /\ Len(String(s)) \in Nat /\ start \in Nat
                   /\ Begin(i + 1) = start + Len(Bytes(m))
                   /\ Ahead(m) + Len(String(s)) = Len(Bytes(m))
                   /\ m \in Arrays /\ Len(m) \in Nat /\ Len(items) + 1 \in 1 .. Len(m)
                   /\ s = m[Len(items) + 1] /\ 1 = Len(m) - Len(items)
                   /\ items = SubSeq(m, 1, Len(items)) /\ Len(items) \in Nat
      BY <1>1, <1>3, <2>1
    <3>2. position' = Begin(i + 1)
      BY <3>1
    <3>3. PICK k \in Nat : k = Len(items)
      BY <3>1
    <3>4. Len(m) = k + 1 /\ items = SubSeq(m, 1, k) /\ s = m[k + 1]
      BY <3>1, <3>3
    <3>5. m \in Seq(Texts \cup {NULL})
      BY <3>1, ArrayIs
    <3>6. SubSeq(m, 1, k + 1) = Append(SubSeq(m, 1, k), m[k + 1])
      <4>1. 1 <= k + 1 /\ k + 1 <= Len(m)
        BY <3>3, <3>4
      <4> QED BY <3>3, <3>5, <4>1
    <3>7. SubSeq(m, 1, k + 1) = m
      BY <3>4, <3>5, SubSeqFull
    <3>8. Append(items, s) = m
      BY <3>4, <3>6, <3>7
    <3> QED BY <3>1, <3>2, <3>8
  <2> QED BY <2>1, <2>2, ReturnShows
<1>4. CASE kind # "string" /\ left # 1
  BY <1>4, MailboxStutters DEF Element, Takes
<1> QED BY <1>2, <1>3, <1>4

LEMMA HaveLengthShows ==
  ASSUME ChannelInv, ChannelInv', NEW n, Takes(n), reading = "length", Completes(n),
         HaveLength(Unsigned(Item(n)))
  PROVE  \/ Promise!Take \/ Promise!SwallowRest \/ Promise!Garbage
         \/ UNCHANGED Promise!mvars
<1> DEFINE u == Unsigned(Item(n))
<1>1. CASE u = Modulus - 1 /\ Element(NULL)
  BY <1>1, Empty, ElementShows
<1>2. CASE u = 0 /\ Element(<< >>)
  <2>1. << >> \in Seq(Byte) \cup {NULL}
    OBVIOUS
  <2> QED BY <1>2, <2>1, Empty, ElementShows
<1>3. CASE received' = received /\ start' = start
  BY <1>3, MailboxStutters DEF Takes
<1> QED BY <1>1, <1>2, <1>3 DEF HaveLength, Die

LEMMA HaveCountShows ==
  ASSUME ChannelInv, ChannelInv', NEW n, Takes(n), reading = "count", Completes(n),
         HaveCount(Unsigned(Item(n)))
  PROVE  \/ Promise!Take \/ Promise!SwallowRest \/ Promise!Garbage
         \/ UNCHANGED Promise!mvars
<1> DEFINE u == Unsigned(Item(n))
<1>1. CASE u = 0 /\ Return(<< >>)
  <2>1. ASSUME NEW i \in 1 .. Len(sent), Begin(i) = start
        PROVE  << >> = sent[i] /\ position' = Begin(i + 1)
    <3>1. PICK m : m = sent[i]
      OBVIOUS
    <3>2. kind = "array" /\ m \in Arrays /\ Len(m) = 0 /\ position' = start + IntBytes
      BY <1>1, <2>1, <3>1, CountRead
    <3>3. m \in Seq(Texts \cup {NULL}) /\ Layout(m, Offset(m))
      BY <3>2, ArrayIs
    <3>4. m = << >>
      BY <3>2, <3>3
    <3>5. Begin(i + 1) = start + Len(Bytes(m)) /\ Bytes(m) = ArrayOf(m)
      BY <2>1, <3>1, <3>2, InvParts DEF Starts, Bytes
    <3>6. Len(ArrayOf(m)) = IntBytes
      <4>1. Offset(m)[0] = IntBytes /\ Offset(m)[Len(m)] = Len(ArrayOf(m))
        BY <3>3 DEF Layout
      <4> QED BY <3>2, <4>1
    <3> QED BY <3>1, <3>2, <3>4, <3>5, <3>6
  <2> QED BY <1>1, <2>1, ReturnShows
<1>2. CASE received' = received /\ start' = start
  BY <1>2, MailboxStutters DEF Takes
<1> QED BY <1>1, <1>2 DEF HaveCount, Die

LEMMA ReadShows == ASSUME ChannelInv, ChannelInv', Read PROVE [Promise!MNext]_(Promise!mvars)
<1>1. PICK n : Takes(n) /\ Handles(n)
  BY ReadTakes
<1>2. CASE reading = "line" /\ AddToLine(wire[1])
  BY <1>1, <1>2, LineShows DEF Promise!MNext
<1>3. CASE reading = "text" /\ Completes(n) /\ Element(SubSeq(Item(n), 1, want))
  <2>1. /\ SubSeq(Item(n), 1, want) = Item(n) /\ Item(n) \in Seq(Byte) \cup {NULL}
        /\ Complete(Item(n))
    BY <1>1, <1>3, TextRead, Taken DEF Complete
  <2> QED BY <1>1, <1>3, <2>1, ElementShows DEF Promise!MNext
<1>4. CASE reading = "length" /\ Completes(n) /\ HaveLength(Unsigned(Item(n)))
  BY <1>1, <1>4, HaveLengthShows DEF Promise!MNext
<1>5. CASE reading = "count" /\ Completes(n) /\ HaveCount(Unsigned(Item(n)))
  BY <1>1, <1>5, HaveCountShows DEF Promise!MNext
<1>6. CASE received' = received /\ start' = start
  BY <1>1, <1>6, MailboxStutters DEF Takes
<1> QED BY <1>1, <1>2, <1>3, <1>4, <1>5, <1>6 DEF Handles

(* A message more                                                          *)
LEMMA SendShows == ASSUME ChannelInv, SendMessage PROVE Promise!Post
<1>1. PICK m \in Message[kind] : sent' = Append(sent, m)
  BY DEF SendMessage
<1>2. kind' = kind /\ received' = received /\ start' = start
  BY DEF SendMessage
<1>3. PICK c : Stands(c)
  BY Standing
<1>4. PICK n \in Nat : n = Len(sent)
  BY InvParts
<1>5. /\ Agreed /\ Starts /\ InOrder /\ sent \in Seq(Message[kind]) /\ start \in Nat
      /\ c \in Nat /\ c <= n /\ Box = SubSeq(sent, c + 1, n) /\ start <= Begin(n + 1)
      /\ Begin(n + 1) \in Nat /\ Cardinality(Touched) = c
  BY <1>3, <1>4, BoxIs, InvParts DEF Typed, Agreed, Stands, Starts
<1>6. /\ Len(sent') = n + 1 /\ sent' \in Seq(Message[kind]) /\ Agreed'
      /\ \A i \in 1 .. n : sent'[i] = sent[i]
      /\ \A i \in 1 .. n + 1 : Begin(i)' = Begin(i)
  <2>1. /\ Agreed' /\ Len(sent') = n + 1 /\ \A i \in 1 .. n : sent'[i] = sent[i]
        /\ \A i \in 1 .. n + 1 : Begin(i)' = Begin(i)
    BY <1>1, <1>2, <1>4, <1>5, Grown
  <2>2. sent' \in Seq(Message[kind])
    BY <1>1, <1>5
  <2> QED BY <2>1, <2>2
<1>7. Begin(n + 1)' >= start /\ Begin(n + 2)' > start /\ Begin(n + 2)' \in Nat
  <2>1. n + 1 \in 1 .. (n + 1) + 1 /\ n + 2 \in 1 .. (n + 1) + 1 /\ n + 1 < n + 2
        /\ n + 1 \in 1 .. n + 1
    BY <1>4
  <2>2. \A i \in 1 .. (n + 1) + 1 :
          /\ Begin(i)' \in Nat
          /\ \A j \in 1 .. (n + 1) + 1 : i < j => Begin(i)' < Begin(j)'
    BY <1>6, LaterLaterNext DEF InOrder
  <2>3. Begin(n + 1)' = Begin(n + 1)
    BY <1>6, <2>1
  <2>4. Begin(n + 1)' < Begin(n + 2)' /\ Begin(n + 2)' \in Nat
    BY <2>1, <2>2
  <2> QED BY <1>5, <2>3, <2>4
<1>8. Touched' = Touched
  <2>1. DOMAIN sent = 1 .. n /\ DOMAIN sent' = 1 .. n + 1
    BY <1>4, <1>5, <1>6
  <2>2. Touched = {i \in 1 .. n : Begin(i) < start}
    BY <2>1 DEF Touched
  <2>3. Touched' = {i \in 1 .. n + 1 : Begin(i)' < start}
    BY <1>2, <2>1 DEF Touched
  <2>4. ~(Begin(n + 1)' < start)
    <3>1. n + 1 \in 1 .. n + 1
      BY <1>4
    <3> QED BY <1>5, <1>6, <3>1
  <2>5. \A i \in 1 .. n + 1 : i \in 1 .. n \/ i = n + 1
    BY <1>4
  <2>6. \A i \in 1 .. n : i \in 1 .. n + 1 /\ Begin(i)' = Begin(i)
    BY <1>4, <1>6
  <2>7. ASSUME NEW i \in 1 .. n + 1, Begin(i)' < start PROVE i \in 1 .. n
    <3>1. i # n + 1
      BY <2>4, <2>7
    <3> QED BY <2>5, <3>1
  <2> QED BY <2>2, <2>3, <2>6, <2>7
<1>9. Box' = SubSeq(sent', c + 1, n + 1)
  <2>1. 1 + c = c + 1
    BY <1>5
  <2> QED BY <1>5, <1>6, <1>8, <2>1 DEF Box
<1>10. Len(Box') = Len(Box) + 1 /\ SubSeq(Box', 1, Len(Box)) = Box
  <2>1. /\ Box \in Seq(Message[kind]) /\ Len(Box) = n - c
        /\ \A i \in 1 .. n - c : Box[i] = sent[c + i]
    <3>1. PICK T : T = Message[kind]
      OBVIOUS
    <3>2. sent \in Seq(T) /\ n = Len(sent) /\ c \in Nat /\ c <= n
      BY <1>4, <1>5, <3>1
    <3>3. /\ SubSeq(sent, c + 1, n) \in Seq(T) /\ Len(SubSeq(sent, c + 1, n)) = n - c
          /\ \A i \in 1 .. n - c : SubSeq(sent, c + 1, n)[i] = sent[c + i]
      BY <3>2, TailFrom
    <3> QED BY <1>5, <3>1, <3>3
  <2>2. /\ Box' \in Seq(Message[kind]) /\ Len(Box') = (n - c) + 1
        /\ \A i \in 1 .. (n - c) + 1 : Box'[i] = sent'[c + i]
    <3>1. c <= n + 1 /\ (n + 1) - c = (n - c) + 1
      BY <1>4, <1>5
    <3>2. PICK s : s = sent'
      OBVIOUS
    <3>3. PICK z : z = n + 1
      OBVIOUS
    <3>4. PICK T : T = Message[kind]
      OBVIOUS
    <3>5. s \in Seq(T) /\ z = Len(s) /\ c \in Nat /\ c <= z
      BY <1>5, <1>6, <3>1, <3>2, <3>3, <3>4
    <3>6. /\ SubSeq(s, c + 1, z) \in Seq(T) /\ Len(SubSeq(s, c + 1, z)) = z - c
          /\ \A i \in 1 .. z - c : SubSeq(s, c + 1, z)[i] = s[c + i]
      BY <3>5, TailFrom
    <3> QED BY <1>9, <3>1, <3>2, <3>3, <3>4, <3>6
  <2>3. \A i \in 1 .. n - c : i \in 1 .. (n - c) + 1 /\ c + i \in 1 .. n
    BY <1>4, <1>5
  <2>4. n - c \in Nat
    BY <1>4, <1>5
  <2>5. PICK b : b = Box'
    OBVIOUS
  <2>6. /\ SubSeq(b, 1, n - c) \in Seq(Message[kind]) /\ Len(SubSeq(b, 1, n - c)) = n - c
        /\ \A i \in 1 .. n - c : SubSeq(b, 1, n - c)[i] = b[i]
    <3>1. n - c <= Len(b) /\ b \in Seq(Message[kind])
      BY <2>2, <2>4, <2>5
    <3> QED BY <2>4, <3>1, HeadTo
  <2>7. SubSeq(b, 1, n - c) = Box
    <3>1. PICK T : T = Message[kind]
      OBVIOUS
    <3>2. PICK z : z = SubSeq(b, 1, n - c)
      OBVIOUS
    <3>3. z \in Seq(T) /\ Box \in Seq(T) /\ Len(z) = Len(Box) /\ Len(z) = n - c
      BY <2>1, <2>6, <3>1, <3>2
    <3>4. \A i \in 1 .. Len(z) : z[i] = Box[i]
      <4>1. \A i \in 1 .. n - c : z[i] = sent'[c + i]
        BY <2>2, <2>3, <2>5, <2>6, <3>2
      <4>2. \A i \in 1 .. n - c : sent'[c + i] = sent[c + i]
        BY <1>6, <2>3
      <4> QED BY <2>1, <3>3, <4>1, <4>2
    <3> QED BY <3>2, <3>3, <3>4, SeqEqual
  <2> QED BY <2>1, <2>2, <2>5, <2>7
<1>11. Whole' = Whole
  <2>1. Whole' <=> \E i \in 1 .. (n + 1) + 1 : Begin(i)' = start
    BY <1>2, <1>6 DEF Whole
  <2>2. Whole <=> \E i \in 1 .. n + 1 : Begin(i) = start
    BY <1>4 DEF Whole
  <2>3. \A i \in 1 .. (n + 1) + 1 : i \in 1 .. n + 1 \/ i = n + 2
    BY <1>4
  <2>4. ASSUME NEW i \in 1 .. (n + 1) + 1, Begin(i)' = start PROVE Whole
    <3>1. i # n + 2
      BY <1>5, <1>7, <2>4
    <3> QED BY <1>6, <2>2, <2>3, <2>4, <3>1
  <2>5. \A i \in 1 .. n + 1 : i \in 1 .. (n + 1) + 1
    BY <1>4
  <2>6. Whole' <=> Whole
    BY <1>6, <2>1, <2>2, <2>4, <2>5
  <2> QED BY <2>6, WholeIsSo, Zenon
<1> QED BY <1>2, <1>10, <1>11 DEF Promise!Post, Box, Whole

LEMMA NextShows ==
  ChannelInv /\ ChannelInv' /\ [ChannelNext]_channelVars => [Promise!MNext]_(Promise!mvars)
<1> SUFFICES ASSUME ChannelInv, ChannelInv', [ChannelNext]_channelVars
             PROVE  [Promise!MNext]_(Promise!mvars)
  OBVIOUS
<1>1. CASE SendMessage
  BY <1>1, SendShows DEF Promise!MNext
<1>2. CASE sent' = sent /\ kind' = kind /\ start' = start /\ received' = received
  BY <1>2, MailboxStutters
<1>3. CASE Read
  BY <1>3, ReadShows
<1>4. CASE TimeOut \/ EndOfFile
  <2>1. /\ sent' = sent /\ kind' = kind /\ position' = position /\ Return(Failed)
        /\ reading \notin {"idle", "dead"}
    BY <1>4 DEF TimeOut, EndOfFile, sendVars
  <2> QED BY <2>1, GiveUpShows DEF Promise!MNext
<1> QED BY <1>1, <1>2, <1>3, <1>4
        DEF ChannelNext, SendBytes, Close, Accept, channelVars, sendVars, itemVars

LEMMA InitShows == ChannelInit => Promise!MInit
<1> SUFFICES ASSUME ChannelInit PROVE Promise!MInit
  OBVIOUS
<1>1. /\ sent = << >> /\ Len(sent) = 0 /\ start = 0 /\ received = Failed /\ ChannelInv
  BY InitChannelInv DEF ChannelInit
<1>2. PICK c : Stands(c)
  BY <1>1, Standing
<1>3. c = 0
  BY <1>1, <1>2, BoxIs
<1>4. Whole
  BY <1>1, <1>2, <1>3, BoxIs
<1>5. Box = << >>
  <2>1. Box = SubSeq(sent, 1, 0)
    BY <1>1, <1>2, <1>3, BoxIs
  <2> QED BY <1>1, <2>1
<1>6. Whole = TRUE
  BY <1>4, WholeIsSo, Zenon
<1>7. (kind = "line") \in BOOLEAN
  BY Zenon
<1> QED BY <1>1, <1>5, <1>6, <1>7 DEF Promise!MInit, Box, Whole

(* Messages come out of DA_RChan::accept whole, once and in the order of the   *)
(* sends, until an accept fails with a part of one in its hands; from there a  *)
(* line is only lost or mutilated up to the next end of a line.                *)
THEOREM ChannelImplementsMailbox == ChannelSpec => ImplementsMailbox
<1>1. ChannelSpec => Promise!MInit
  BY InitShows DEF ChannelSpec
<1>2. ChannelSpec => [][Promise!MNext]_(Promise!mvars)
  BY ChannelInvariant, NextShows, PTL DEF ChannelSpec
<1> QED BY <1>1, <1>2, PTL DEF ImplementsMailbox, Promise!MSpec
=============================================================================
