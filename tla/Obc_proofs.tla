----------------------------- MODULE Obc_proofs -----------------------------
(***************************************************************************)
(* However setGPIO calls of the two threads interleave, the OBC lines are  *)
(* those of one state.  The invariant says more than WholePatterns: a      *)
(* thread that has read the register and not yet written it also holds one *)
(* state's lines, for a write of the PXI bits puts them back.              *)
(*                                                                         *)
(* As long as the threads do not overlap more holds: one thread at most    *)
(* has operations left, no register it has read is out of date, and what   *)
(* it has left is a stage of setOBC or of the start or end of a recording, *)
(* each with what the lines, lastOBCState and the FPIE say by then         *)
(* (StepInv).  That everything agrees between calls, that the calibrator   *)
(* follows the recording, and that BRIGHT is left slowly, follow from it.  *)
(***************************************************************************)
EXTENDS Obc, SequenceTheorems, TLAPS

Bits == ObcBits \cup PxiBits

\* The register as a thread has read it holds the lines of one state.
WholeReads ==
  \A t \in Threads : read[t] # << >> =>
    read[t][1] \in SUBSET Bits /\ read[t][1] \cap ObcBits \in Patterns

ObcInv == TypeOK /\ WholePatterns /\ WholeReads

-----------------------------------------------------------------------------
(* Operations                                                              *)

LEMMA PatternsAreObcBits == \A p \in Patterns : p \subseteq ObcBits
  BY DEF Patterns, Lines, States, SlowLines, ObcBits

LEMMA LinesArePatterns == \A s \in States : Lines[s] \in Patterns
  BY DEF Patterns

LEMMA RecordedStates == Cals \cup {"SCIENCE"} \subseteq States
  BY CalsAssumption DEF States

\* The constructors build operations.
LEMMA OpsTyped ==
  /\ \A s \in States : SetObc(s) \in Ops /\ Note(s) \in Ops
  /\ \A s \in States : SetGpio(ObcBits, Lines[s]) \in Ops
  /\ SetGpio(ObcBits, SlowLines) \in Ops
  /\ \A b \in BOOLEAN : PxiRecord(b) \in Ops
  /\ \A m \in Choices \cup {"AUTO"} : SetMode(m) \in Ops
  /\ \A s \in Cals \cup {"SCIENCE"} : Enter(s) \in Ops
  /\ Tell \in Ops /\ Leave \in Ops /\ Finish \in Ops
  BY LinesArePatterns
  DEF Ops, SetObc, Note, SetGpio, PxiRecord, SetMode, Enter, Tell, Leave,
      Finish, Patterns

\* Operations in front of the rest of a handler are a handler.
LEMMA GoesTyped ==
  ASSUME todo \in [Threads -> Seq(Ops)], NEW t \in Threads, todo[t] # << >>,
         NEW ops \in Seq(Ops), Goes(t, ops)
  PROVE  todo' \in [Threads -> Seq(Ops)]
  <1>1. Tail(todo[t]) \in Seq(Ops)
    OBVIOUS
  <1>2. ops \o Tail(todo[t]) \in Seq(Ops)
    BY <1>1
  <1> QED BY <1>2 DEF Goes

LEMMA StartsTyped ==
  ASSUME todo \in [Threads -> Seq(Ops)], NEW t \in Threads,
         NEW ops \in Seq(Ops), Starts(t, ops), TypeOK
  PROVE  /\ todo' \in [Threads -> Seq(Ops)]
         /\ trouble' \subseteq {"overlap", "forced AUTO"}
  BY DEF Starts, NoteOverlap, TypeOK

LEMMA HeadTyped ==
  ASSUME todo \in [Threads -> Seq(Ops)], NEW t \in Threads, todo[t] # << >>
  PROVE  Head(todo[t]) \in Ops
  OBVIOUS

-----------------------------------------------------------------------------
(* The invariant                                                           *)

LEMMA InitInv == Init => ObcInv
<1> SUFFICES ASSUME Init PROVE ObcInv
  OBVIOUS
<1>1. "SCIENCE" \in States /\ "BRIGHT" \in States
  BY DEF States
<1>2. SetObc("SCIENCE") \in Ops
  BY <1>1, OpsTyped
<1>3. todo \in [Threads -> Seq(Ops)]
  BY <1>2 DEF Init
<1>4. Lines["SCIENCE"] = {}
  BY DEF Lines
<1>5. {} \in Patterns
  BY <1>1, <1>4, LinesArePatterns
<1>6. << >> \in Seq(SUBSET (ObcBits \cup PxiBits))
  OBVIOUS
<1>7. read \in [Threads -> Seq(SUBSET (ObcBits \cup PxiBits))]
  BY <1>6 DEF Init
<1>8. TypeOK
  BY <1>1, <1>3, <1>7 DEF Init, TypeOK, RecordStates
<1>9. WholePatterns
  BY <1>5 DEF Init, WholePatterns
<1>10. WholeReads
  BY DEF Init, WholeReads
<1> QED
  BY <1>8, <1>9, <1>10 DEF ObcInv

\* A write puts one state's lines in the register: its own, or those it read.
LEMMA WritesWhole ==
  ASSUME NEW reg \in SUBSET Bits, reg \cap ObcBits \in Patterns,
         NEW op \in Ops, op.op = "setGPIO",
         NEW new, new = (reg \ op.mask) \cup (op.bits \cap op.mask)
  PROVE  new \in SUBSET Bits /\ new \cap ObcBits \in Patterns
<1>1. ObcBits \cap PxiBits = {}
  BY DEF ObcBits, PxiBits
<1>2. CASE op \in [op : {"setGPIO"}, mask : {ObcBits}, bits : Patterns]
  <2>1. op.mask = ObcBits /\ op.bits \in Patterns
    BY <1>2
  <2>2. op.bits \subseteq ObcBits
    BY <2>1, PatternsAreObcBits
  <2>3. new \cap ObcBits = op.bits
    BY <2>1, <2>2
  <2> QED BY <2>1, <2>2, <2>3 DEF Bits
<1>3. CASE op \in [op : {"setGPIO"}, mask : {PxiBits},
                   bits : {{"START"}, {"STOP"}}]
  <2>1. op.mask = PxiBits
    BY <1>3
  <2>2. new \cap ObcBits = reg \cap ObcBits
    BY <1>1, <2>1
  <2> QED BY <2>1, <2>2 DEF Bits
<1>4. op \notin [op : {"setOBC", "note"}, state : States]
  OBVIOUS
<1>5. op \notin [op : {"enter"}, state : Cals \cup {"SCIENCE"}]
  OBVIOUS
<1>6. op \notin [op : {"setMode"}, mode : Choices \cup {"AUTO"}]
  OBVIOUS
<1>7. op \notin [op : {"tell", "leave", "end"}]
  OBVIOUS
<1> QED BY <1>2, <1>3, <1>4, <1>5, <1>6, <1>7 DEF Ops

\* The arguments of the operations
LEMMA Arguments ==
  ASSUME NEW op \in Ops
  PROVE  /\ op.op \in {"setOBC", "note"} => op.state \in States
         /\ op.op = "enter" => op.state \in Cals \cup {"SCIENCE"}
         /\ op.op = "setMode" => op.mode \in Choices \cup {"AUTO"}
  BY DEF Ops

LEMMA NextInv == ObcInv /\ [Next]_vars => ObcInv'
<1> SUFFICES ASSUME ObcInv, [Next]_vars PROVE ObcInv'
  OBVIOUS
<1> USE DEF ObcInv
<1>t. todo \in [Threads -> Seq(Ops)] /\ "main" \in Threads /\ "data" \in Threads
  BY DEF TypeOK, Threads
<1>s. "SCIENCE" \in States
  BY DEF States
<1>u. \A a, b \in Ops : <<a, b>> \in Seq(Ops)
  OBVIOUS
<1>1. ASSUME NEW t \in Threads, SetOBC(t) PROVE ObcInv'
  <2>1. todo[t] # << >> /\ Head(todo[t]) \in Ops /\ Head(todo[t]).op = "setOBC"
    BY <1>1, <1>t, HeadTyped DEF SetOBC, Does
  <2> DEFINE new == Head(todo[t]).state
             slow == last = "BRIGHT" /\ new # "MEDIUM"
             pre == IF slow THEN <<SetGpio(ObcBits, SlowLines)>> ELSE << >>
             ops == pre \o <<SetGpio(ObcBits, Lines[new]), Note(new), Tell>>
  <2>2. new \in States
    BY <2>1, Arguments
  <2>3. pre \in Seq(Ops)
    BY OpsTyped
  <2>4. <<SetGpio(ObcBits, Lines[new]), Note(new), Tell>> \in Seq(Ops)
    BY <2>2, OpsTyped
  <2>5. ops \in Seq(Ops)
    BY <2>3, <2>4
  <2>6. Goes(t, ops)
    BY <1>1 DEF SetOBC
  <2>7. todo' \in [Threads -> Seq(Ops)]
    BY <1>t, <2>1, <2>5, <2>6, GoesTyped
  <2> QED BY <1>1, <2>7 DEF SetOBC, TypeOK, WholePatterns, WholeReads
<1>2. ASSUME NEW t \in Threads, ReadGPIO(t) PROVE ObcInv'
  <2>1. gpio \in SUBSET Bits /\ read \in [Threads -> Seq(SUBSET Bits)]
    BY DEF TypeOK, Bits
  <2>2. read' = [read EXCEPT ![t] = <<gpio>>]
    BY <1>2 DEF ReadGPIO
  <2>3. read' \in [Threads -> Seq(SUBSET Bits)]
    BY <2>1, <2>2
  <2>4. WholeReads'
    <3> SUFFICES ASSUME NEW u \in Threads, read'[u] # << >>
                 PROVE  /\ read'[u][1] \in SUBSET Bits
                        /\ read'[u][1] \cap ObcBits \in Patterns
      BY <1>2 DEF WholeReads, ReadGPIO
    <3>1. CASE u = t
      BY <2>1, <2>2, <3>1 DEF WholePatterns
    <3>2. CASE u # t
      BY <2>1, <2>2, <3>2 DEF WholeReads
    <3> QED BY <3>1, <3>2
  <2> QED BY <1>2, <2>3, <2>4 DEF ReadGPIO, TypeOK, WholePatterns, Bits
<1>3. ASSUME NEW t \in Threads, WriteGPIO(t) PROVE ObcInv'
  <2>1. todo[t] # << >> /\ Head(todo[t]) \in Ops /\ Head(todo[t]).op = "setGPIO"
    BY <1>3, <1>t, HeadTyped DEF WriteGPIO, Does
  <2>2. read[t][1] \in SUBSET Bits /\ read[t][1] \cap ObcBits \in Patterns
    BY <1>3 DEF WriteGPIO, WholeReads
  <2>3. gpio' \in SUBSET Bits /\ gpio' \cap ObcBits \in Patterns
    <3> DEFINE op == Head(todo[t])
               new == (read[t][1] \ op.mask) \cup (op.bits \cap op.mask)
    <3>1. new \in SUBSET Bits /\ new \cap ObcBits \in Patterns
      <4> HIDE DEF op
      <4>1. op \in Ops /\ op.op = "setGPIO"
        BY <2>1 DEF op
      <4> QED BY <2>2, <4>1, WritesWhole
    <3>2. gpio' = new
      BY <1>3 DEF WriteGPIO
    <3> HIDE DEF new
    <3> QED BY <3>1, <3>2
  <2>4. << >> \in Seq(Ops) /\ Goes(t, << >>)
    BY <1>3 DEF WriteGPIO
  <2>5. todo' \in [Threads -> Seq(Ops)]
    BY <1>t, <2>1, <2>4, GoesTyped
  <2>6. read' = [read EXCEPT ![t] = << >>]
    BY <1>3 DEF WriteGPIO
  <2>7. read' \in [Threads -> Seq(SUBSET Bits)]
    <3>1. << >> \in Seq(SUBSET Bits)
      OBVIOUS
    <3>2. read \in [Threads -> Seq(SUBSET Bits)]
      BY DEF TypeOK, Bits
    <3> QED BY <2>6, <3>1, <3>2
  <2>8. WholeReads'
    BY <2>6 DEF WholeReads, TypeOK
  <2> QED BY <1>3, <2>3, <2>5, <2>7, <2>8 DEF WriteGPIO, TypeOK, WholePatterns, Bits
<1>4. ASSUME NEW t \in Threads, NoteState(t) PROVE ObcInv'
  <2>1. todo[t] # << >> /\ Head(todo[t]) \in Ops /\ Head(todo[t]).op = "note"
    BY <1>4, <1>t, HeadTyped DEF NoteState, Does
  <2>2. last' \in States
    BY <1>4, <2>1, Arguments DEF NoteState
  <2>3. << >> \in Seq(Ops) /\ Goes(t, << >>)
    BY <1>4 DEF NoteState
  <2>4. todo' \in [Threads -> Seq(Ops)]
    BY <1>t, <2>1, <2>3, GoesTyped
  <2> QED BY <1>4, <2>2, <2>4 DEF NoteState, TypeOK, WholePatterns, WholeReads
<1>5. ASSUME NEW t \in Threads, TellFPIE(t) PROVE ObcInv'
  <2>1. << >> \in Seq(Ops) /\ Goes(t, << >>) /\ todo[t] # << >>
    BY <1>5 DEF TellFPIE, Does
  <2>2. todo' \in [Threads -> Seq(Ops)]
    BY <1>t, <2>1, GoesTyped
  <2> QED BY <1>5, <2>2 DEF TellFPIE, TypeOK, WholePatterns, WholeReads
<1>6. ASSUME NEW t \in Threads, EnterState(t) PROVE ObcInv'
  <2> DEFINE state == IF Does(t, "enter") THEN Head(todo[t]).state ELSE "SCIENCE"
             ops == IF mode = "AUTO" THEN <<SetObc(state)>> ELSE << >>
  <2>1. todo[t] # << >> /\ Head(todo[t]) \in Ops
    BY <1>6, <1>t, HeadTyped DEF EnterState, Does
  <2>2. state \in Cals \cup {"SCIENCE"}
    BY <2>1, Arguments DEF Does
  <2>3. ops \in Seq(Ops)
    BY <2>2, RecordedStates, OpsTyped
  <2>4. Goes(t, ops)
    BY <1>6 DEF EnterState
  <2>5. todo' \in [Threads -> Seq(Ops)]
    BY <1>t, <2>1, <2>3, <2>4, GoesTyped
  <2>6. recordState' \in RecordStates
    BY <1>6, <2>2 DEF EnterState, RecordStates
  <2> QED BY <1>6, <2>5, <2>6 DEF EnterState, TypeOK, WholePatterns, WholeReads
<1>7. ASSUME NEW choice \in Choices \cup {"AUTO"}, Select(choice) PROVE ObcInv'
  <2> DEFINE state == IF choice = "AUTO" THEN Following ELSE choice
             ops == <<SetObc(state), SetMode(choice)>>
  <2>1. Following \in States
    BY <1>s, RecordedStates DEF Following, TypeOK, RecordStates
  <2>2. choice # "AUTO" => choice \in States
    BY DEF Choices, States
  <2>3. state \in States
    BY <2>1, <2>2
  <2>4. ops \in Seq(Ops)
    BY <2>3, OpsTyped
  <2>5. Starts("main", ops)
    BY <1>7 DEF Select
  <2>6. /\ todo' \in [Threads -> Seq(Ops)]
        /\ trouble' \subseteq {"overlap", "forced AUTO"}
    BY <1>t, <2>4, <2>5, StartsTyped
  <2> QED BY <1>7, <2>6 DEF Select, TypeOK, WholePatterns, WholeReads
<1>8. CASE AssignMode
  <2>1. /\ todo["main"] # << >> /\ Head(todo["main"]) \in Ops
        /\ Head(todo["main"]).op = "setMode"
    BY <1>8, <1>t, HeadTyped DEF AssignMode, Does
  <2>2. mode' \in Choices \cup {"AUTO"}
    BY <1>8, <2>1, Arguments DEF AssignMode
  <2>3. << >> \in Seq(Ops) /\ Goes("main", << >>)
    BY <1>8 DEF AssignMode
  <2>4. todo' \in [Threads -> Seq(Ops)]
    BY <1>t, <2>1, <2>3, GoesTyped
  <2> QED BY <1>8, <2>2, <2>4 DEF AssignMode, TypeOK, WholePatterns, WholeReads
<1>9. CASE Record
  <2> DEFINE first == IF mode' = "AUTO" /\ "DARK1" \in Cals THEN "DARK1"
                                                           ELSE "SCIENCE"
             ops == <<PxiRecord(TRUE), Enter(first)>>
  <2>1. first \in Cals \cup {"SCIENCE"}
    OBVIOUS
  <2>2. ops \in Seq(Ops)
    BY <1>u, <2>1, OpsTyped
  <2>3. Starts("main", ops)
    BY <1>9 DEF Record
  <2>4. /\ todo' \in [Threads -> Seq(Ops)]
        /\ trouble' \subseteq {"overlap", "forced AUTO"}
    BY <1>t, <2>2, <2>3, StartsTyped
  <2>5. mode' \in Choices \cup {"AUTO"}
    BY <1>9 DEF Record, TypeOK
  <2> QED BY <1>9, <2>4, <2>5 DEF Record, TypeOK, WholePatterns, WholeReads
<1>10. CASE RecordFails
  BY <1>10 DEF RecordFails, TypeOK, WholePatterns, WholeReads
<1>11. CASE Exit
  <2>1. <<SetObc("SCIENCE"), Finish>> \in Seq(Ops)
    BY <1>s, <1>u, OpsTyped
  <2>2. Starts("main", <<SetObc("SCIENCE"), Finish>>)
    BY <1>11 DEF Exit
  <2>3. /\ todo' \in [Threads -> Seq(Ops)]
        /\ trouble' \subseteq {"overlap", "forced AUTO"}
    BY <1>t, <2>1, <2>2, StartsTyped
  <2> QED BY <1>11, <2>3 DEF Exit, TypeOK, WholePatterns, WholeReads
<1>12. CASE End
  <2>1. << >> \in Seq(Ops) /\ Goes("main", << >>) /\ todo["main"] # << >>
    BY <1>12 DEF End, Does
  <2>2. todo' \in [Threads -> Seq(Ops)]
    BY <1>t, <2>1, GoesTyped
  <2> QED BY <1>12, <2>2 DEF End, TypeOK, WholePatterns, WholeReads
<1>13. CASE Advance
  <2>1. PICK next \in Cals \cup {"SCIENCE"} :
          /\ Starts("data", <<Enter(next)>>)
          /\ UNCHANGED <<gpio, last, fpie, mode, recordState, read, ended>>
    BY <1>13 DEF Advance
  <2>2. <<Enter(next)>> \in Seq(Ops)
    BY OpsTyped
  <2>3. /\ todo' \in [Threads -> Seq(Ops)]
        /\ trouble' \subseteq {"overlap", "forced AUTO"}
    BY <1>t, <2>1, <2>2, StartsTyped
  <2> QED BY <2>1, <2>3 DEF TypeOK, WholePatterns, WholeReads
<1>14. CASE EndRecording
  <2>1. <<PxiRecord(FALSE), Leave>> \in Seq(Ops)
    BY <1>u, OpsTyped
  <2>2. Starts("data", <<PxiRecord(FALSE), Leave>>)
    BY <1>14 DEF EndRecording
  <2>3. /\ todo' \in [Threads -> Seq(Ops)]
        /\ trouble' \subseteq {"overlap", "forced AUTO"}
    BY <1>t, <2>1, <2>2, StartsTyped
  <2> QED BY <1>14, <2>3 DEF EndRecording, TypeOK, WholePatterns, WholeReads
<1>15. CASE UNCHANGED vars
  BY <1>15 DEF vars, TypeOK, WholePatterns, WholeReads
<1> QED
  BY <1>1, <1>2, <1>3, <1>4, <1>5, <1>6, <1>7, <1>8, <1>9, <1>10, <1>11,
     <1>12, <1>13, <1>14, <1>15 DEF Next, Step

THEOREM ObcInvariant == Spec => []ObcInv
<1>1. Init => ObcInv
  BY InitInv
<1>2. ObcInv /\ [Next]_vars => ObcInv'
  BY NextInv
<1> QED BY <1>1, <1>2, PTL DEF Spec

(* Every variable keeps its type: the operations a thread has left to do,  *)
(* too, name only states and modes there are.                              *)
THEOREM TypeCorrect == Spec => []TypeOK
<1>1. ObcInv => TypeOK
  BY DEF ObcInv
<1> QED BY <1>1, ObcInvariant, PTL

(* The bulb is safe for every choice of calibration periods and however    *)
(* often the two threads are in setGPIO at once: no mixture of two states' *)
(* lines ever reaches the OBC.                                             *)
THEOREM BulbSafe == Spec => []WholePatterns
<1>1. ObcInv => WholePatterns
  BY DEF ObcInv
<1> QED BY <1>1, ObcInvariant, PTL

-----------------------------------------------------------------------------
(* As long as the threads do not overlap: what the one that is busy has    *)
(* done so far and what it has left to do                                  *)

Cons(op, ops) == <<op>> \o ops

\* What follows a setOBC in its caller
Rests == {<< >>, <<Finish>>} \cup {<<SetMode(m)>> : m \in Choices \cup {"AUTO"}}

ObcLines == gpio \cap ObcBits

PxiAgrees == "START" \in gpio <=> recordState # "NOT_RECORDING"

\* When the caller is done in OBC Auto, the state it is setting is the one that
\* goes with the recording.
ModeAfter(rest) ==
  IF \E m \in Choices \cup {"AUTO"} : rest = <<SetMode(m)>> THEN Head(rest).mode ELSE mode

Aims(state, rest) == trouble = {} /\ ModeAfter(rest) = "AUTO" => state = Following

\* The thread is in setOBC(state), or about to call it, or has come back.
Telling(rest)         == Cons(Tell, rest)
Noting(state, rest)   == Cons(Note(state), Telling(rest))
Writing(state, rest)  == Cons(SetGpio(ObcBits, Lines[state]), Noting(state, rest))
Slowing(state, rest)  == Cons(SetGpio(ObcBits, SlowLines), Writing(state, rest))

Setting(ops, state, rest) ==
  /\ PxiAgrees /\ Aims(state, rest)
  /\ \/ /\ ops = Cons(SetObc(state), rest)
        /\ ObcLines = Lines[last] \/ last = "BRIGHT"
     \/ ops = Slowing(state, rest)
     \/ /\ ops = Writing(state, rest)
        /\ ObcLines = Lines["BRIGHT"] => state = "MEDIUM"
     \/ ops = Noting(state, rest) /\ ObcLines = Lines[state]
     \/ ops = Telling(rest) /\ ObcLines = Lines[state] /\ last = state
     \/ ops = rest /\ ObcLines = Lines[state] /\ last = state /\ fpie = state

\* It starts or ends a recording, or goes to its next state.
Changing(ops) ==
  /\ ObcLines = Lines[last] /\ fpie = last
  /\ \/ /\ PxiAgrees
        /\ \/ \E s \in Cals \cup {"SCIENCE"} :
                ops = Cons(PxiRecord(TRUE), Cons(Enter(s), << >>))
           \/ ops = Cons(PxiRecord(FALSE), Cons(Leave, << >>))
     \/ /\ "START" \in gpio
        /\ \E s \in Cals \cup {"SCIENCE"} : ops = Cons(Enter(s), << >>)
     \/ "START" \notin gpio /\ ops = Cons(Leave, << >>)

Promise(ops) ==
  Changing(ops) \/ \E state \in States, rest \in Rests : Setting(ops, state, rest)

\* A register that has been read and is to be written has not changed.
ReadsFresh ==
  \A t \in Threads : read[t] # << >> => Does(t, "setGPIO") /\ read[t] = <<gpio>>

OneBusy == \E t \in Threads : todo[Other(t)] = << >> /\ Promise(todo[t])

StepInv == "overlap" \notin trouble => OneBusy /\ ReadsFresh

\* An operation in front of others
LEMMA ConsFacts ==
  ASSUME NEW op \in Ops, NEW ops \in Seq(Ops)
  PROVE  /\ Cons(op, ops) \in Seq(Ops) /\ Cons(op, ops) # << >>
         /\ Head(Cons(op, ops)) = op /\ Tail(Cons(op, ops)) = ops
<1>1. /\ Len(Cons(op, ops)) = Len(ops) + 1 /\ Cons(op, ops) \in Seq(Ops)
      /\ Cons(op, ops)[1] = op /\ \A i \in 1..Len(ops) : Cons(op, ops)[i + 1] = ops[i]
  BY DEF Cons
<1>2. Tail(Cons(op, ops)) \in Seq(Ops) /\ Len(Tail(Cons(op, ops))) = Len(ops)
  BY <1>1
<1>3. \A i \in 1..Len(ops) : Tail(Cons(op, ops))[i] = ops[i]
  BY <1>1, <1>2
<1>4. Tail(Cons(op, ops)) = ops
  BY <1>2, <1>3
<1> QED
  BY <1>1, <1>4

LEMMA Concats ==
  /\ \A a, b \in Ops : <<a, b>> = <<a>> \o <<b>>
  /\ \A a, b, c \in Ops : <<a, b, c>> = <<a>> \o (<<b>> \o <<c>>)
<1>1. ASSUME NEW a \in Ops, NEW b \in Ops PROVE <<a, b>> = <<a>> \o <<b>>
  <2> DEFINE s == <<a, b>>
             u == <<a>> \o <<b>>
  <2>1. s \in Seq(Ops) /\ Len(s) = 2 /\ s[1] = a /\ s[2] = b
    OBVIOUS
  <2>2. u \in Seq(Ops) /\ Len(u) = 2 /\ u[1] = a /\ u[2] = b
    OBVIOUS
  <2>3. \A i \in 1..2 : s[i] = u[i]
    BY <2>1, <2>2
  <2> HIDE DEF s, u
  <2>4. s = u
    BY <2>1, <2>2, <2>3, SeqEqual
  <2> QED BY <2>4 DEF s, u
<1>2. ASSUME NEW a \in Ops, NEW b \in Ops, NEW c \in Ops
      PROVE  <<a, b, c>> = <<a>> \o (<<b>> \o <<c>>)
  <2> DEFINE s == <<a, b, c>>
             u == <<a>> \o <<b, c>>
  <2>1. s \in Seq(Ops) /\ Len(s) = 3 /\ s[1] = a /\ s[2] = b /\ s[3] = c
    OBVIOUS
  <2>2. u \in Seq(Ops) /\ Len(u) = 3 /\ u[1] = a /\ u[2] = b /\ u[3] = c
    OBVIOUS
  <2>3. \A i \in 1..3 : s[i] = u[i]
    BY <2>1, <2>2
  <2>4. s = u
    <3> HIDE DEF s, u
    <3> QED BY <2>1, <2>2, <2>3, SeqEqual
  <2> QED BY <1>1, <2>4
<1> QED
  BY <1>1, <1>2

\* Lists of operations, one in front of the other
LEMMA ConsPair ==
  ASSUME NEW a \in Ops, NEW b \in Ops
  PROVE  <<a>> = Cons(a, << >>) /\ <<a, b>> = Cons(a, Cons(b, << >>))
<1>1. <<a>> = Cons(a, << >>) /\ <<b>> = Cons(b, << >>)
  BY DEF Cons
<1>2. <<a, b>> = <<a>> \o <<b>>
  BY Concats
<1> QED
  BY <1>1, <1>2 DEF Cons

LEMMA ConsInFront ==
  ASSUME NEW a \in Ops, NEW b \in Ops, NEW c \in Ops, NEW ops \in Seq(Ops)
  PROVE  <<a, b, c>> \o ops = Cons(a, Cons(b, Cons(c, ops)))
<1>1. <<a>> \in Seq(Ops) /\ <<b>> \in Seq(Ops) /\ <<c>> \in Seq(Ops)
  OBVIOUS
<1>2. <<b>> \o <<c>> \in Seq(Ops) /\ <<c>> \o ops \in Seq(Ops)
  BY <1>1
<1>3. <<a, b, c>> = <<a>> \o (<<b>> \o <<c>>)
  BY Concats
<1>4. <<a, b, c>> \o ops = <<a>> \o ((<<b>> \o <<c>>) \o ops)
  BY <1>1, <1>2, <1>3, ConcatAssociative
<1>5. (<<b>> \o <<c>>) \o ops = <<b>> \o (<<c>> \o ops)
  BY <1>1, ConcatAssociative
<1> QED
  BY <1>4, <1>5 DEF Cons

LEMMA ConsFourInFront ==
  ASSUME NEW d \in Ops, NEW a \in Ops, NEW b \in Ops, NEW c \in Ops,
         NEW ops \in Seq(Ops)
  PROVE  (<<d>> \o <<a, b, c>>) \o ops = Cons(d, Cons(a, Cons(b, Cons(c, ops))))
<1>1. <<d>> \in Seq(Ops) /\ <<a, b, c>> \in Seq(Ops)
  OBVIOUS
<1>2. (<<d>> \o <<a, b, c>>) \o ops = <<d>> \o (<<a, b, c>> \o ops)
  BY <1>1, ConcatAssociative
<1> QED
  BY <1>2, ConsInFront DEF Cons

\* The operation at the head of a list tells which constructor made it.
LEMMA Kinds ==
  /\ \A s : SetObc(s).op = "setOBC" /\ SetObc(s).state = s
  /\ \A s : Note(s).op = "note" /\ Note(s).state = s
  /\ \A s : Enter(s).op = "enter" /\ Enter(s).state = s
  /\ \A m : SetMode(m).op = "setMode" /\ SetMode(m).mode = m
  /\ \A m, b : SetGpio(m, b).op = "setGPIO" /\ SetGpio(m, b).mask = m
                                            /\ SetGpio(m, b).bits = b
  /\ Tell.op = "tell" /\ Leave.op = "leave" /\ Finish.op = "end"
BY DEF SetObc, Note, Enter, SetMode, SetGpio, Tell, Leave, Finish

\* What is left after setOBC: nothing, or one operation
LEMMA RestFacts ==
  ASSUME NEW rest \in Rests
  PROVE  /\ rest \in Seq(Ops)
         /\ rest # << >> => /\ Head(rest).op \in {"setMode", "end"}
                            /\ Tail(rest) = << >>
<1>1. CASE rest = << >>
  BY <1>1
<1>2. CASE rest = <<Finish>>
  BY <1>2, OpsTyped, Kinds
<1>3. ASSUME NEW m \in Choices \cup {"AUTO"}, rest = <<SetMode(m)>>
      PROVE  /\ rest \in Seq(Ops)
             /\ Head(rest).op = "setMode" /\ Tail(rest) = << >>
  <2>1. SetMode(m) \in Ops
    BY OpsTyped
  <2> QED BY <1>3, <2>1, Kinds
<1> QED
  BY <1>1, <1>2, <1>3 DEF Rests

\* The stages of setOBC, each the one before it without its head
LEMMA StageFacts ==
  ASSUME NEW state \in States, NEW rest \in Rests
  PROVE  /\ /\ Telling(rest) \in Seq(Ops) /\ Telling(rest) # << >>
            /\ Head(Telling(rest)) = Tell /\ Tail(Telling(rest)) = rest
         /\ /\ Noting(state, rest) \in Seq(Ops) /\ Noting(state, rest) # << >>
            /\ Head(Noting(state, rest)) = Note(state)
            /\ Tail(Noting(state, rest)) = Telling(rest)
         /\ /\ Writing(state, rest) \in Seq(Ops) /\ Writing(state, rest) # << >>
            /\ Head(Writing(state, rest)) = SetGpio(ObcBits, Lines[state])
            /\ Tail(Writing(state, rest)) = Noting(state, rest)
         /\ /\ Slowing(state, rest) \in Seq(Ops) /\ Slowing(state, rest) # << >>
            /\ Head(Slowing(state, rest)) = SetGpio(ObcBits, SlowLines)
            /\ Tail(Slowing(state, rest)) = Writing(state, rest)
         /\ LET calling == Cons(SetObc(state), rest)
            IN  /\ calling \in Seq(Ops) /\ calling # << >>
                /\ Head(calling) = SetObc(state) /\ Tail(calling) = rest
<1>1. rest \in Seq(Ops)
  BY RestFacts
<1>2. /\ Telling(rest) \in Seq(Ops) /\ Telling(rest) # << >>
      /\ Head(Telling(rest)) = Tell /\ Tail(Telling(rest)) = rest
  BY <1>1, ConsFacts, OpsTyped DEF Telling
<1>3. /\ Noting(state, rest) \in Seq(Ops) /\ Noting(state, rest) # << >>
      /\ Head(Noting(state, rest)) = Note(state)
      /\ Tail(Noting(state, rest)) = Telling(rest)
  BY <1>2, ConsFacts, OpsTyped DEF Noting
<1>4. /\ Writing(state, rest) \in Seq(Ops) /\ Writing(state, rest) # << >>
      /\ Head(Writing(state, rest)) = SetGpio(ObcBits, Lines[state])
      /\ Tail(Writing(state, rest)) = Noting(state, rest)
  BY <1>3, ConsFacts, OpsTyped DEF Writing
<1>5. /\ Slowing(state, rest) \in Seq(Ops) /\ Slowing(state, rest) # << >>
      /\ Head(Slowing(state, rest)) = SetGpio(ObcBits, SlowLines)
      /\ Tail(Slowing(state, rest)) = Writing(state, rest)
  BY <1>4, ConsFacts, OpsTyped DEF Slowing
<1>6. LET calling == Cons(SetObc(state), rest)
      IN  /\ calling \in Seq(Ops) /\ calling # << >>
          /\ Head(calling) = SetObc(state) /\ Tail(calling) = rest
  BY <1>1, ConsFacts, OpsTyped
<1> QED
  BY <1>2, <1>3, <1>4, <1>5, <1>6

\* The stages of a recording's start and end
LEMMA ChangeFacts ==
  /\ \A b \in BOOLEAN : \A op \in Ops :
       LET ops == Cons(PxiRecord(b), Cons(op, << >>))
       IN  ops # << >> /\ Head(ops) = PxiRecord(b) /\ Tail(ops) = Cons(op, << >>)
  /\ \A op \in Ops :
       /\ Cons(op, << >>) # << >> /\ Head(Cons(op, << >>)) = op
       /\ Tail(Cons(op, << >>)) = << >>
<1>1. ASSUME NEW op \in Ops
      PROVE  /\ Cons(op, << >>) \in Seq(Ops) /\ Cons(op, << >>) # << >>
             /\ Head(Cons(op, << >>)) = op /\ Tail(Cons(op, << >>)) = << >>
  <2>1. << >> \in Seq(Ops)
    OBVIOUS
  <2> QED BY <2>1, ConsFacts
<1>2. ASSUME NEW b \in BOOLEAN, NEW op \in Ops
      PROVE  LET ops == Cons(PxiRecord(b), Cons(op, << >>))
             IN  /\ ops # << >> /\ Head(ops) = PxiRecord(b)
                 /\ Tail(ops) = Cons(op, << >>)
  BY <1>1, ConsFacts, OpsTyped
<1> QED
  BY <1>1, <1>2

\* setOBC is about to be called: if the lines are not those of lastOBCState,
\* the worst is assumed of them.
Called(state, rest) ==
  PxiAgrees /\ Aims(state, rest) /\ (ObcLines = Lines[last] \/ last = "BRIGHT")

\* What a thread that is about to take a step has promised
LEMMA Shapes ==
  ASSUME NEW ops, ops # << >>, Promise(ops)
  PROVE  /\ Head(ops).op = "setOBC" =>
              \E state \in States, rest \in Rests :
                ops = Cons(SetObc(state), rest) /\ Called(state, rest)
         /\ Head(ops).op = "setGPIO" =>
              \/ Changing(ops)
              \/ \E state \in States, rest \in Rests :
                   /\ PxiAgrees /\ Aims(state, rest)
                   /\ \/ ops = Slowing(state, rest)
                      \/ /\ ops = Writing(state, rest)
                         /\ ObcLines = Lines["BRIGHT"] => state = "MEDIUM"
         /\ Head(ops).op = "note" =>
              \E state \in States, rest \in Rests :
                /\ ops = Noting(state, rest) /\ ObcLines = Lines[state]
                /\ PxiAgrees /\ Aims(state, rest)
         /\ Head(ops).op = "tell" =>
              \E state \in States, rest \in Rests :
                /\ ops = Telling(rest) /\ ObcLines = Lines[state] /\ last = state
                /\ PxiAgrees /\ Aims(state, rest)
         /\ Head(ops).op \in {"setMode", "end"} =>
              \E state \in States : \E rest \in Rests :
                /\ ops = rest /\ ObcLines = Lines[state] /\ last = state
                /\ fpie = state /\ PxiAgrees /\ Aims(state, rest)
         /\ Head(ops).op \in {"enter", "leave"} => Changing(ops)
<1> DEFINE k == Head(ops).op
<1>2. ASSUME NEW state \in States, NEW rest \in Rests, Setting(ops, state, rest)
      PROVE  /\ k = "setOBC" => ops = Cons(SetObc(state), rest) /\ Called(state, rest)
             /\ k = "setGPIO" => /\ PxiAgrees /\ Aims(state, rest)
                                 /\ \/ ops = Slowing(state, rest)
                                    \/ /\ ops = Writing(state, rest)
                                       /\ ObcLines = Lines["BRIGHT"] => state = "MEDIUM"
             /\ k = "note" => /\ ops = Noting(state, rest) /\ ObcLines = Lines[state]
                              /\ PxiAgrees /\ Aims(state, rest)
             /\ k = "tell" => /\ ops = Telling(rest) /\ ObcLines = Lines[state]
                              /\ last = state /\ PxiAgrees /\ Aims(state, rest)
             /\ k \in {"setMode", "end"} =>
                  /\ ops = rest /\ ObcLines = Lines[state] /\ last = state
                  /\ fpie = state /\ PxiAgrees /\ Aims(state, rest)
             /\ k \notin {"enter", "leave"}
  <2>1. PxiAgrees /\ Aims(state, rest)
    BY <1>2 DEF Setting
  <2>2. CASE /\ ops = Cons(SetObc(state), rest)
             /\ ObcLines = Lines[last] \/ last = "BRIGHT"
    <3>1. k = "setOBC"
      BY <2>2, StageFacts, Kinds
    <3> HIDE DEF k
    <3> QED BY <2>1, <2>2, <3>1 DEF Called
  <2>3. CASE ops = Slowing(state, rest)
    <3>1. k = "setGPIO"
      BY <2>3, StageFacts, Kinds
    <3> HIDE DEF k
    <3> QED BY <2>1, <2>3, <3>1
  <2>4. CASE /\ ops = Writing(state, rest)
             /\ ObcLines = Lines["BRIGHT"] => state = "MEDIUM"
    <3>1. k = "setGPIO"
      BY <2>4, StageFacts, Kinds
    <3> HIDE DEF k
    <3> QED BY <2>1, <2>4, <3>1
  <2>5. CASE ops = Noting(state, rest) /\ ObcLines = Lines[state]
    <3>1. k = "note"
      BY <2>5, StageFacts, Kinds
    <3> HIDE DEF k
    <3> QED BY <2>1, <2>5, <3>1
  <2>6. CASE ops = Telling(rest) /\ ObcLines = Lines[state] /\ last = state
    <3>1. k = "tell"
      BY <2>6, StageFacts, Kinds
    <3> HIDE DEF k
    <3> QED BY <2>1, <2>6, <3>1
  <2>7. CASE ops = rest /\ ObcLines = Lines[state] /\ last = state /\ fpie = state
    <3>1. k \in {"setMode", "end"}
      BY <2>7, RestFacts
    <3> HIDE DEF k
    <3> QED BY <2>1, <2>7, <3>1
  <2> HIDE DEF k
  <2> QED BY <1>2, <2>2, <2>3, <2>4, <2>5, <2>6, <2>7 DEF Setting
<1>3. Changing(ops) \/ \E state \in States, rest \in Rests : Setting(ops, state, rest)
  BY DEF Promise
<1> HIDE DEF k
<1>4. CASE \E state \in States, rest \in Rests : Setting(ops, state, rest)
  <2>1. PICK state \in States, rest \in Rests : Setting(ops, state, rest)
    BY <1>4
  <2> QED BY <1>2, <2>1 DEF k
<1>5. CASE Changing(ops)
  <2>1. \A b \in BOOLEAN : PxiRecord(b).op = "setGPIO"
    BY Kinds DEF PxiRecord
  <2>2. ASSUME NEW b \in BOOLEAN, NEW op \in Ops,
               ops = Cons(PxiRecord(b), Cons(op, << >>))
        PROVE  k = "setGPIO"
    BY <2>1, <2>2, ChangeFacts DEF k
  <2>3. ASSUME NEW op \in Ops, ops = Cons(op, << >>), op.op \in {"enter", "leave"}
        PROVE  k \in {"enter", "leave"}
    BY <2>3, ChangeFacts DEF k
  <2>4. /\ \A s \in Cals \cup {"SCIENCE"} : Enter(s) \in Ops /\ Enter(s).op = "enter"
        /\ Leave \in Ops /\ Leave.op = "leave"
    BY OpsTyped, Kinds
  <2>5. k \in {"setGPIO", "enter", "leave"}
    BY <1>5, <2>2, <2>3, <2>4 DEF Changing
  <2> QED BY <1>5, <2>5 DEF k
<1> QED
  BY <1>3, <1>4, <1>5

\* With nothing left to do everything agrees, and may do so again.
Agree ==
  /\ ObcLines = Lines[last] /\ fpie = last /\ PxiAgrees
  /\ trouble = {} /\ mode = "AUTO" => last = Following

LEMMA NoModeAfter ==
  /\ ModeAfter(<< >>) = mode /\ ModeAfter(<<Finish>>) = mode
  /\ \A m \in Choices \cup {"AUTO"} : ModeAfter(<<SetMode(m)>>) = m
<1>1. ModeAfter(<< >>) = mode
  BY DEF ModeAfter
<1>2. ModeAfter(<<Finish>>) = mode
  <2>1. ASSUME NEW m, <<Finish>> = <<SetMode(m)>> PROVE FALSE
    <3>1. <<Finish>>[1] = <<SetMode(m)>>[1]
      BY <2>1
    <3>2. Finish = SetMode(m)
      BY <3>1
    <3> QED BY <3>2, Kinds
  <2> QED BY <2>1 DEF ModeAfter
<1>3. ASSUME NEW m \in Choices \cup {"AUTO"} PROVE ModeAfter(<<SetMode(m)>>) = m
  BY Kinds DEF ModeAfter
<1> QED
  BY <1>1, <1>2, <1>3

LEMMA PromiseKept ==
  ASSUME Promise(<< >>), last \in States PROVE Agree
<1>1. ~Changing(<< >>)
  BY ChangeFacts, OpsTyped DEF Changing
<1>2. PICK state \in States, rest \in Rests : Setting(<< >>, state, rest)
  BY <1>1 DEF Promise
<1>3. /\ PxiAgrees /\ Aims(state, rest)
      /\ << >> = rest /\ ObcLines = Lines[state] /\ last = state /\ fpie = state
  BY <1>2, StageFacts DEF Setting
<1> QED
  BY <1>3, NoModeAfter DEF Agree, Aims

LEMMA AgreePromises == Agree /\ last \in States => Promise(<< >>)
<1> SUFFICES ASSUME Agree, last \in States PROVE Promise(<< >>)
  OBVIOUS
<1>1. << >> \in Rests
  BY DEF Rests
<1>2. Aims(last, << >>)
  BY NoModeAfter DEF Agree, Aims
<1>3. Setting(<< >>, last, << >>)
  BY <1>2 DEF Agree, Setting
<1> QED
  BY <1>1, <1>3 DEF Promise

LEMMA AgreePromisesNext == Agree' /\ last' \in States => Promise(<< >>)'
<1> SUFFICES ASSUME Agree', last' \in States PROVE Promise(<< >>)'
  OBVIOUS
<1>1. << >> \in Rests /\ ModeAfter(<< >>)' = mode'
  <2>1. \A m : << >> # <<SetMode(m)>>
    OBVIOUS
  <2> QED BY <2>1 DEF Rests, ModeAfter
<1>2. Aims(last, << >>)'
  BY <1>1 DEF Agree, Aims
<1>3. Setting(<< >>, last, << >>)'
  BY <1>2 DEF Agree, Setting
<1> QED
  BY <1>1, <1>3 DEF Promise

-----------------------------------------------------------------------------
(* The steps of the thread that is busy                                    *)

LEMMA LinesDiffer ==
  /\ \A s \in States : s # "BRIGHT" => Lines[s] # Lines["BRIGHT"]
  /\ SlowLines # Lines["BRIGHT"]
BY DEF Lines, States, SlowLines

\* What a step without effect on the state leaves as it was
LEMMA SameState ==
  ASSUME UNCHANGED <<gpio, recordState, trouble, mode>>
  PROVE  /\ PxiAgrees' = PxiAgrees /\ ObcLines' = ObcLines
         /\ \A state, rest : Aims(state, rest)' = Aims(state, rest)
BY DEF PxiAgrees, ObcLines, Aims, ModeAfter, Following

LEMMA GoesTo ==
  ASSUME todo \in [Threads -> Seq(Ops)], NEW t \in Threads, NEW ops, Goes(t, ops)
  PROVE  todo'[t] = ops \o Tail(todo[t])
BY DEF Goes

LEMMA GoesOn ==
  ASSUME todo \in [Threads -> Seq(Ops)], NEW t \in Threads, todo[t] # << >>,
         Goes(t, << >>)
  PROVE  todo'[t] = Tail(todo[t])
<1>1. Tail(todo[t]) \in Seq(Ops)
  OBVIOUS
<1>2. << >> \o Tail(todo[t]) = Tail(todo[t])
  BY <1>1, ConcatEmptySeq
<1> QED
  BY <1>2, GoesTo

LEMMA SetOBCKeeps ==
  ASSUME TypeOK, NEW t \in Threads, Promise(todo[t]), SetOBC(t)
  PROVE  Promise(todo[t])'
<1>1. todo[t] # << >> /\ Head(todo[t]).op = "setOBC" /\ todo \in [Threads -> Seq(Ops)]
  BY DEF SetOBC, Does, TypeOK
<1>2. PICK state \in States, rest \in Rests :
        todo[t] = Cons(SetObc(state), rest) /\ Called(state, rest)
  BY <1>1, Shapes
<1>3. /\ Head(todo[t]).state = state /\ Tail(todo[t]) = rest /\ rest \in Seq(Ops)
  BY <1>2, StageFacts, Kinds, RestFacts
<1>4. /\ SetGpio(ObcBits, SlowLines) \in Ops /\ SetGpio(ObcBits, Lines[state]) \in Ops
      /\ Note(state) \in Ops /\ Tell \in Ops
  BY OpsTyped
<1>5. /\ PxiAgrees' /\ Aims(state, rest)' /\ ObcLines' = ObcLines
      /\ ObcLines = Lines[last] \/ last = "BRIGHT"
  BY <1>2, SameState DEF Called, SetOBC
<1>6. CASE last = "BRIGHT" /\ state # "MEDIUM"
  <2>1. Goes(t, <<SetGpio(ObcBits, SlowLines)>> \o
                <<SetGpio(ObcBits, Lines[state]), Note(state), Tell>>)
    BY <1>3, <1>6 DEF SetOBC
  <2>2. todo'[t] = (<<SetGpio(ObcBits, SlowLines)>> \o
                    <<SetGpio(ObcBits, Lines[state]), Note(state), Tell>>) \o rest
    BY <1>1, <1>3, <2>1, GoesTo
  <2>3. todo'[t] = Slowing(state, rest)
    BY <1>3, <1>4, <2>2, ConsFourInFront DEF Slowing, Writing, Noting, Telling
  <2> QED BY <1>5, <2>3 DEF Promise, Setting
<1>7. CASE ~(last = "BRIGHT" /\ state # "MEDIUM")
  <2>1. Goes(t, << >> \o <<SetGpio(ObcBits, Lines[state]), Note(state), Tell>>)
    BY <1>3, <1>7 DEF SetOBC
  <2>2. << >> \o <<SetGpio(ObcBits, Lines[state]), Note(state), Tell>> =
          <<SetGpio(ObcBits, Lines[state]), Note(state), Tell>>
    BY ConcatEmptySeq, <1>4
  <2>3. todo'[t] = <<SetGpio(ObcBits, Lines[state]), Note(state), Tell>> \o rest
    BY <1>1, <1>3, <2>1, <2>2, GoesTo
  <2>4. todo'[t] = Writing(state, rest)
    BY <1>3, <1>4, <2>3, ConsInFront DEF Writing, Noting, Telling
  <2>5. ObcLines' = Lines["BRIGHT"] => state = "MEDIUM"
    BY <1>5, <1>7, LinesDiffer DEF TypeOK
  <2> QED BY <1>5, <2>4, <2>5 DEF Promise, Setting
<1> QED
  BY <1>6, <1>7

LEMMA ReadKeeps ==
  ASSUME NEW t \in Threads, Promise(todo[t]),
         UNCHANGED <<gpio, last, fpie, mode, recordState, todo, trouble>>
  PROVE  Promise(todo[t])'
<1>1. CASE Changing(todo[t])
  <2>1. Changing(todo[t])'
    BY <1>1 DEF Changing, PxiAgrees, ObcLines
  <2> QED BY <2>1 DEF Promise
<1>2. ASSUME NEW state \in States, NEW rest \in Rests, Setting(todo[t], state, rest)
      PROVE  Promise(todo[t])'
  <2>1. Aims(state, rest)' = Aims(state, rest)
    BY SameState
  <2>2. PxiAgrees' = PxiAgrees /\ ObcLines' = ObcLines
    BY SameState
  <2>3. Setting(todo[t], state, rest)'
    BY <1>2, <2>1, <2>2 DEF Setting
  <2> QED BY <2>3 DEF Promise
<1> QED
  BY <1>1, <1>2 DEF Promise

\* A register that is put back with the bits of one of the masks replaced
LEMMA Replaced ==
  ASSUME NEW reg \in SUBSET Bits
  PROVE  /\ \A p \in Patterns :
              LET new == (reg \ ObcBits) \cup (p \cap ObcBits)
              IN  new \cap ObcBits = p /\ ("START" \in new <=> "START" \in reg)
         /\ \A p \in {{"START"}, {"STOP"}} :
              LET new == (reg \ PxiBits) \cup (p \cap PxiBits)
              IN  /\ new \cap ObcBits = reg \cap ObcBits
                  /\ "START" \in new <=> p = {"START"}
<1>1. "START" \notin ObcBits /\ ObcBits \cap PxiBits = {} /\ "START" \in PxiBits
  BY DEF ObcBits, PxiBits
<1>2. ASSUME NEW p \in Patterns, NEW new, new = (reg \ ObcBits) \cup (p \cap ObcBits)
      PROVE  new \cap ObcBits = p /\ ("START" \in new <=> "START" \in reg)
  BY <1>1, <1>2, PatternsAreObcBits
<1>3. ASSUME NEW p \in {{"START"}, {"STOP"}}, NEW new,
             new = (reg \ PxiBits) \cup (p \cap PxiBits)
      PROVE  /\ new \cap ObcBits = reg \cap ObcBits
             /\ "START" \in new <=> p = {"START"}
  BY <1>1, <1>3
<1>4. ASSUME NEW p \in Patterns
      PROVE  LET new == (reg \ ObcBits) \cup (p \cap ObcBits)
             IN  new \cap ObcBits = p /\ ("START" \in new <=> "START" \in reg)
  <2> DEFINE new == (reg \ ObcBits) \cup (p \cap ObcBits)
  <2>1. new = (reg \ ObcBits) \cup (p \cap ObcBits)
    OBVIOUS
  <2> HIDE DEF new
  <2>2. new \cap ObcBits = p /\ ("START" \in new <=> "START" \in reg)
    BY <1>2, <2>1
  <2> QED BY <2>2 DEF new
<1>5. ASSUME NEW p \in {{"START"}, {"STOP"}}
      PROVE  LET new == (reg \ PxiBits) \cup (p \cap PxiBits)
             IN  /\ new \cap ObcBits = reg \cap ObcBits
                 /\ "START" \in new <=> p = {"START"}
  BY <1>3
<1> QED
  BY <1>4, <1>5

\* setGPIO has written the register: the lines are those of BRIGHT no more, but
\* on the way to MEDIUM or by the slow transition.
LEMMA WriteKeeps ==
  ASSUME TypeOK, ReadsFresh, NEW t \in Threads, Promise(todo[t]), WriteGPIO(t)
  PROVE  /\ Promise(todo[t])'
         /\ ObcLines = Lines["BRIGHT"] =>
              ObcLines' \in {Lines["BRIGHT"], Lines["MEDIUM"], SlowLines}
<1> DEFINE op == Head(todo[t])
           new == (gpio \ op.mask) \cup (op.bits \cap op.mask)
<1>1. todo[t] # << >> /\ Head(todo[t]).op = "setGPIO" /\ todo \in [Threads -> Seq(Ops)]
  BY DEF WriteGPIO, Does, TypeOK
<1>2. read[t] = <<gpio>>
  BY DEF WriteGPIO, ReadsFresh
<1>3. gpio' = new /\ gpio \in SUBSET Bits
  <2>1. read[t][1] = gpio
    BY <1>2
  <2>2. gpio \in SUBSET Bits
    BY DEF TypeOK, Bits
  <2>3. gpio' = (read[t][1] \ op.mask) \cup (op.bits \cap op.mask)
    BY DEF WriteGPIO
  <2> QED BY <2>1, <2>2, <2>3
<1>4. todo'[t] = Tail(todo[t])
  BY <1>1, GoesOn DEF WriteGPIO
<1>5. /\ recordState' = recordState /\ last' = last /\ fpie' = fpie
      /\ \A state, rest : Aims(state, rest)' <=> Aims(state, rest)
  BY DEF WriteGPIO, Aims, ModeAfter, Following
<1>6. ASSUME NEW p \in Patterns, op = SetGpio(ObcBits, p)
      PROVE  ObcLines' = p /\ (PxiAgrees' <=> PxiAgrees)
  <2>1. gpio' = (gpio \ ObcBits) \cup (p \cap ObcBits)
    BY <1>3, <1>6, Kinds
  <2> QED BY <1>3, <1>5, <2>1, Replaced DEF ObcLines, PxiAgrees
<1>7. ASSUME NEW b \in BOOLEAN, op = PxiRecord(b)
      PROVE  ObcLines' = ObcLines /\ ("START" \in gpio' <=> b)
  <2> DEFINE p == {IF b THEN "START" ELSE "STOP"}
  <2>1. p \in {{"START"}, {"STOP"}} /\ (p = {"START"} <=> b)
    OBVIOUS
  <2>2. gpio' = (gpio \ PxiBits) \cup (p \cap PxiBits)
    BY <1>3, <1>7, Kinds DEF PxiRecord
  <2> HIDE DEF p
  <2> QED BY <1>3, <2>1, <2>2, Replaced DEF ObcLines
<1> HIDE DEF op, new
<1>8. CASE Changing(todo[t])
  <2>1. ObcLines = Lines[last] /\ fpie = last
    BY <1>8 DEF Changing
  <2>2. ASSUME NEW s \in Cals \cup {"SCIENCE"},
               todo[t] = Cons(PxiRecord(TRUE), Cons(Enter(s), << >>))
        PROVE  Changing(todo[t])' /\ ObcLines' = ObcLines
    <3>1. Enter(s) \in Ops
      BY OpsTyped
    <3>2. op = PxiRecord(TRUE) /\ Tail(todo[t]) = Cons(Enter(s), << >>)
      BY <2>2, <3>1, ChangeFacts DEF op
    <3> QED BY <1>4, <1>5, <1>7, <2>1, <3>2 DEF Changing
  <2>3. ASSUME todo[t] = Cons(PxiRecord(FALSE), Cons(Leave, << >>))
        PROVE  Changing(todo[t])' /\ ObcLines' = ObcLines
    <3>1. op = PxiRecord(FALSE) /\ Tail(todo[t]) = Cons(Leave, << >>)
      BY <2>3, OpsTyped, ChangeFacts DEF op
    <3> QED BY <1>4, <1>5, <1>7, <2>1, <3>1 DEF Changing
  <2>4. ASSUME NEW x \in Ops, todo[t] = Cons(x, << >>), x.op \in {"enter", "leave"}
        PROVE  FALSE
    BY <1>1, <2>4, ChangeFacts
  <2>5. Changing(todo[t])' /\ ObcLines' = ObcLines
    BY <1>8, <2>2, <2>3, <2>4, OpsTyped, Kinds DEF Changing
  <2> QED BY <2>5 DEF Promise
<1>9. ASSUME NEW state \in States, NEW rest \in Rests,
             PxiAgrees, Aims(state, rest), todo[t] = Slowing(state, rest)
      PROVE  Promise(todo[t])' /\ ObcLines' = SlowLines
  <2>1. op = SetGpio(ObcBits, SlowLines) /\ todo'[t] = Writing(state, rest)
    BY <1>4, <1>9, StageFacts DEF op
  <2>2. SlowLines \in Patterns
    BY DEF Patterns
  <2>3. ObcLines' = SlowLines /\ PxiAgrees'
    BY <1>6, <1>9, <2>1, <2>2
  <2>4. Setting(todo[t], state, rest)'
    BY <1>5, <1>9, <2>1, <2>3, LinesDiffer DEF Setting
  <2> QED BY <2>3, <2>4 DEF Promise
<1>10. ASSUME NEW state \in States, NEW rest \in Rests,
              PxiAgrees, Aims(state, rest), todo[t] = Writing(state, rest),
              ObcLines = Lines["BRIGHT"] => state = "MEDIUM"
       PROVE  /\ Promise(todo[t])'
              /\ ObcLines = Lines["BRIGHT"] => ObcLines' = Lines["MEDIUM"]
  <2>1. op = SetGpio(ObcBits, Lines[state]) /\ todo'[t] = Noting(state, rest)
    BY <1>4, <1>10, StageFacts DEF op
  <2>2. ObcLines' = Lines[state] /\ PxiAgrees'
    BY <1>6, <1>10, <2>1, LinesArePatterns
  <2>3. Setting(todo[t], state, rest)'
    BY <1>5, <1>10, <2>1, <2>2 DEF Setting
  <2> QED BY <1>10, <2>2, <2>3 DEF Promise
<1>11. \/ Changing(todo[t])
       \/ \E state \in States, rest \in Rests :
            /\ PxiAgrees /\ Aims(state, rest)
            /\ \/ todo[t] = Slowing(state, rest)
               \/ /\ todo[t] = Writing(state, rest)
                  /\ ObcLines = Lines["BRIGHT"] => state = "MEDIUM"
  BY <1>1, Shapes
<1> QED
  BY <1>8, <1>9, <1>10, <1>11

LEMMA NoteKeeps ==
  ASSUME TypeOK, NEW t \in Threads, Promise(todo[t]), NoteState(t)
  PROVE  Promise(todo[t])'
<1>1. todo[t] # << >> /\ Head(todo[t]).op = "note" /\ todo \in [Threads -> Seq(Ops)]
  BY DEF NoteState, Does, TypeOK
<1>2. PICK state \in States, rest \in Rests :
        /\ todo[t] = Noting(state, rest) /\ ObcLines = Lines[state]
        /\ PxiAgrees /\ Aims(state, rest)
  BY <1>1, Shapes
<1>3. last' = state
  BY <1>2, StageFacts, Kinds DEF NoteState
<1>4. todo'[t] = Telling(rest)
  <2>1. Tail(todo[t]) = Telling(rest)
    BY <1>2, StageFacts
  <2>2. todo'[t] = Tail(todo[t])
    BY <1>1, GoesOn DEF NoteState
  <2> QED BY <2>1, <2>2
<1>5. PxiAgrees' /\ Aims(state, rest)' /\ ObcLines' = Lines[state]
  BY <1>2, SameState DEF NoteState
<1>6. Setting(todo[t], state, rest)'
  BY <1>3, <1>4, <1>5 DEF Setting
<1> QED
  BY <1>6 DEF Promise

LEMMA TellKeeps ==
  ASSUME TypeOK, NEW t \in Threads, Promise(todo[t]), TellFPIE(t)
  PROVE  Promise(todo[t])'
<1>1. todo[t] # << >> /\ Head(todo[t]).op = "tell" /\ todo \in [Threads -> Seq(Ops)]
  BY DEF TellFPIE, Does, TypeOK
<1>2. PICK state \in States, rest \in Rests :
        /\ todo[t] = Telling(rest) /\ ObcLines = Lines[state] /\ last = state
        /\ PxiAgrees /\ Aims(state, rest)
  BY <1>1, Shapes
<1>3. last' = state /\ fpie' = state
  BY <1>2 DEF TellFPIE
<1>4. todo'[t] = rest
  BY <1>1, <1>2, GoesOn, StageFacts DEF TellFPIE
<1>5. PxiAgrees' /\ Aims(state, rest)' /\ ObcLines' = Lines[state]
  BY <1>2, SameState DEF TellFPIE
<1>6. Setting(todo[t], state, rest)'
  BY <1>3, <1>4, <1>5 DEF Setting
<1> QED
  BY <1>6 DEF Promise

\* The state of the recording changes: the calibrator is to follow it in OBC
\* Auto, or is left alone.
LEMMA EnterKeeps ==
  ASSUME TypeOK, NEW t \in Threads, Promise(todo[t]), EnterState(t)
  PROVE  Promise(todo[t])'
<1>1. /\ todo[t] # << >> /\ Head(todo[t]).op \in {"enter", "leave"}
      /\ todo \in [Threads -> Seq(Ops)] /\ last \in States
  BY DEF EnterState, Does, TypeOK
<1>2. Changing(todo[t])
  BY <1>1, Shapes
<1>3. /\ ObcLines' = ObcLines /\ ObcLines = Lines[last] /\ fpie = last
      /\ last' = last /\ fpie' = fpie /\ mode' = mode /\ gpio' = gpio
  BY <1>2 DEF Changing, EnterState, ObcLines
<1>4. ASSUME NEW state \in States,
             recordState' # "NOT_RECORDING" => recordState' = state,
             recordState' = "NOT_RECORDING" => state = "SCIENCE",
             Tail(todo[t]) = << >>, PxiAgrees',
             Goes(t, IF mode = "AUTO" THEN <<SetObc(state)>> ELSE << >>)
      PROVE  Promise(todo[t])'
  <2>1. << >> \in Rests /\ SetObc(state) \in Ops
    BY OpsTyped DEF Rests
  <2>2. CASE mode = "AUTO"
    <3>1. <<SetObc(state)>> \o << >> = Cons(SetObc(state), << >>)
      BY DEF Cons
    <3>2. todo'[t] = Cons(SetObc(state), << >>)
      BY <1>1, <1>4, <2>2, <3>1, GoesTo
    <3>3. Aims(state, << >>)'
      BY <1>4 DEF Aims, Following
    <3>4. Setting(todo[t], state, << >>)'
      BY <1>3, <1>4, <3>2, <3>3 DEF Setting
    <3> QED BY <2>1, <3>4 DEF Promise
  <2>3. CASE mode # "AUTO"
    <3>1. todo'[t] = << >>
      BY <1>1, <1>4, <2>3, GoesOn
    <3>2. Agree'
      BY <1>3, <1>4, <2>3 DEF Agree
    <3>3. Promise(<< >>)'
      <4>1. last' \in States
        BY <1>1, <1>3
      <4> QED BY <3>2, <4>1, AgreePromisesNext
    <3> QED BY <3>1, <3>3
  <2> QED BY <2>2, <2>3
<1>5. ASSUME NEW s \in Cals \cup {"SCIENCE"}, "START" \in gpio,
             todo[t] = Cons(Enter(s), << >>)
      PROVE  Promise(todo[t])'
  <2>1. Enter(s) \in Ops /\ s \in States /\ s # "NOT_RECORDING"
    BY OpsTyped, RecordedStates DEF States
  <2>2. /\ Head(todo[t]) = Enter(s) /\ Tail(todo[t]) = << >>
        /\ Does(t, "enter") /\ ~Does(t, "leave")
    BY <1>5, <2>1, ChangeFacts, Kinds DEF Does
  <2>3. recordState' = s /\ Goes(t, IF mode = "AUTO" THEN <<SetObc(s)>> ELSE << >>)
    BY <2>2, Kinds DEF EnterState
  <2>4. PxiAgrees'
    BY <1>3, <1>5, <2>1, <2>3 DEF PxiAgrees
  <2> QED BY <1>4, <2>1, <2>2, <2>3, <2>4
<1>6. ASSUME "START" \notin gpio, todo[t] = Cons(Leave, << >>)
      PROVE  Promise(todo[t])'
  <2>1. "SCIENCE" \in States
    BY DEF States
  <2>2. /\ Head(todo[t]) = Leave /\ Tail(todo[t]) = << >>
        /\ Does(t, "leave") /\ ~Does(t, "enter")
    BY <1>6, OpsTyped, ChangeFacts, Kinds DEF Does
  <2>3. /\ recordState' = "NOT_RECORDING"
        /\ Goes(t, IF mode = "AUTO" THEN <<SetObc("SCIENCE")>> ELSE << >>)
    BY <2>2 DEF EnterState
  <2>4. PxiAgrees'
    BY <1>3, <1>6, <2>3 DEF PxiAgrees
  <2> QED BY <1>4, <2>1, <2>2, <2>3, <2>4
<1>7. ASSUME NEW b \in BOOLEAN, NEW x \in Ops,
             todo[t] = Cons(PxiRecord(b), Cons(x, << >>))
      PROVE  FALSE
  BY <1>1, <1>7, ChangeFacts, Kinds DEF PxiRecord
<1>8. Leave \in Ops /\ \A s \in Cals \cup {"SCIENCE"} : Enter(s) \in Ops
  BY OpsTyped
<1> QED
  BY <1>2, <1>5, <1>6, <1>7, <1>8 DEF Changing

\* The caller of setOBC is done.
LEMMA CallerKeeps ==
  ASSUME TypeOK, NEW t \in Threads, Promise(todo[t]), AssignMode \/ End,
         t = "main"
  PROVE  Promise(todo[t])'
<1>1. /\ todo[t] # << >> /\ Head(todo[t]).op \in {"setMode", "end"}
      /\ todo \in [Threads -> Seq(Ops)] /\ Goes(t, << >>) /\ last \in States
      /\ UNCHANGED <<gpio, last, fpie, recordState, trouble>>
  BY DEF AssignMode, End, Does, TypeOK
<1>2. PICK state \in States : \E rest \in Rests :
        /\ todo[t] = rest /\ ObcLines = Lines[state] /\ last = state
        /\ fpie = state /\ PxiAgrees /\ Aims(state, rest)
  BY <1>1, Shapes
<1>3. PICK rest \in Rests :
        /\ todo[t] = rest /\ ObcLines = Lines[state] /\ last = state
        /\ fpie = state /\ PxiAgrees /\ Aims(state, rest)
  BY <1>2
<1>4. todo'[t] = << >>
  BY <1>1, <1>3, GoesOn, RestFacts
<1>5. mode' = ModeAfter(rest)
  <2>1. CASE rest = << >>
    BY <1>1, <1>3, <2>1
  <2>2. CASE rest = <<Finish>>
    <3>1. Head(todo[t]).op = "end"
      BY <1>3, <2>2, Kinds
    <3>2. End
      BY <3>1 DEF AssignMode, Does
    <3> QED BY <2>2, <3>2, NoModeAfter DEF End
  <2>3. ASSUME NEW m \in Choices \cup {"AUTO"}, rest = <<SetMode(m)>>
        PROVE  mode' = ModeAfter(rest)
    <3>1. Head(todo[t]).op = "setMode" /\ Head(todo[t]).mode = m
      BY <1>3, <2>3, Kinds
    <3>2. AssignMode
      BY <3>1 DEF End, Does
    <3> QED BY <2>3, <3>1, <3>2, NoModeAfter DEF AssignMode
  <2> QED BY <2>1, <2>2, <2>3 DEF Rests
<1>6. Agree'
  BY <1>1, <1>3, <1>5 DEF Agree, Aims, Following, PxiAgrees, ObcLines
<1>7. last' \in States
  BY <1>1
<1>8. Promise(<< >>)'
  BY <1>6, <1>7, AgreePromisesNext
<1> QED
  BY <1>4, <1>8

-----------------------------------------------------------------------------
(* The steps that start something                                          *)

\* Nothing was going on: the one that starts is alone from now on.
LEMMA StartKeeps ==
  ASSUME TypeOK, OneBusy, NEW t \in Threads, NEW ops, Starts(t, ops),
         "overlap" \notin trouble'
  PROVE  /\ todo[t] = << >> /\ todo[Other(t)] = << >> /\ Agree
         /\ trouble' = trouble /\ todo'[t] = ops /\ todo'[Other(t)] = << >>
<1>1. todo[t] = << >> /\ todo[Other(t)] = << >> /\ trouble' = trouble
  BY DEF Starts, Idle, NoteOverlap
<1>2. \A u \in Threads : Other(u) \in Threads /\ Other(u) # u /\ u \in {t, Other(t)}
  BY DEF Threads, Other
<1>3. Promise(<< >>)
  BY <1>1, <1>2 DEF OneBusy
<1>4. Agree
  BY <1>3, PromiseKept DEF TypeOK
<1>5. todo'[t] = ops /\ todo'[Other(t)] = << >>
  BY <1>1, <1>2 DEF Starts, TypeOK
<1> QED
  BY <1>1, <1>4, <1>5

LEMMA SelectKeeps ==
  ASSUME TypeOK, Agree, NEW choice \in Choices \cup {"AUTO"}, Select(choice),
         trouble' = trouble
  PROVE  Promise(todo["main"])'
<1>1. Following \in States
  BY RecordedStates DEF Following, TypeOK, RecordStates, States
<1>2. PICK state \in States :
        state = IF choice = "AUTO" THEN Following ELSE choice
  BY <1>1 DEF Choices, States
<1>3. SetObc(state) \in Ops /\ SetMode(choice) \in Ops /\ <<SetMode(choice)>> \in Rests
  BY OpsTyped DEF Rests
<1>4. todo'["main"] = <<SetObc(state), SetMode(choice)>>
  BY <1>2 DEF Select, Starts, TypeOK, Threads
<1>5. todo'["main"] = Cons(SetObc(state), <<SetMode(choice)>>)
  BY <1>3, <1>4, ConsPair
<1>6. Aims(state, <<SetMode(choice)>>)'
  <2>1. ModeAfter(<<SetMode(choice)>>)' = choice
    BY Kinds DEF ModeAfter
  <2>2. Following' = Following
    BY DEF Following, Select
  <2> QED BY <1>2, <2>1, <2>2 DEF Aims
<1>7. PxiAgrees' /\ ObcLines' = Lines[last]'
  BY DEF Agree, Select, PxiAgrees, ObcLines
<1>8. Setting(todo["main"], state, <<SetMode(choice)>>)'
  BY <1>5, <1>6, <1>7 DEF Setting
<1> QED
  BY <1>3, <1>8 DEF Promise

LEMMA ExitKeeps ==
  ASSUME TypeOK, Agree, Exit, trouble' = trouble
  PROVE  Promise(todo["main"])'
<1>1. "SCIENCE" \in States /\ <<Finish>> \in Rests
  BY DEF States, Rests
<1>2. SetObc("SCIENCE") \in Ops /\ Finish \in Ops
  BY <1>1, OpsTyped
<1>3. todo'["main"] = <<SetObc("SCIENCE"), Finish>>
  BY DEF Exit, Starts, TypeOK, Threads
<1>4. todo'["main"] = Cons(SetObc("SCIENCE"), <<Finish>>)
  BY <1>2, <1>3, ConsPair
<1>5. Aims("SCIENCE", <<Finish>>)'
  BY DEF Aims, Following, Exit
<1>6. PxiAgrees' /\ ObcLines' = Lines[last]'
  BY DEF Agree, Exit, PxiAgrees, ObcLines
<1>7. Setting(todo["main"], "SCIENCE", <<Finish>>)'
  BY <1>4, <1>5, <1>6 DEF Setting
<1> QED
  BY <1>1, <1>7 DEF Promise

LEMMA RecordKeeps ==
  ASSUME TypeOK, Agree, Record PROVE Promise(todo["main"])'
<1> DEFINE first == IF mode' = "AUTO" /\ "DARK1" \in Cals THEN "DARK1"
                                                          ELSE "SCIENCE"
<1>1. first \in Cals \cup {"SCIENCE"}
  OBVIOUS
<1>2. todo'["main"] = <<PxiRecord(TRUE), Enter(first)>>
  BY DEF Record, Starts, TypeOK, Threads
<1> HIDE DEF first
<1>3. PxiRecord(TRUE) \in Ops /\ Enter(first) \in Ops
  BY <1>1, OpsTyped
<1>4. todo'["main"] = Cons(PxiRecord(TRUE), Cons(Enter(first), << >>))
  BY <1>2, <1>3, ConsPair
<1>5. PxiAgrees' /\ ObcLines' = Lines[last]' /\ (fpie = last)'
  BY DEF Agree, Record, PxiAgrees, ObcLines
<1>6. Changing(todo["main"])'
  BY <1>1, <1>4, <1>5 DEF Changing
<1> QED
  BY <1>6 DEF Promise

LEMMA AdvanceKeeps ==
  ASSUME TypeOK, Agree, Advance PROVE Promise(todo["data"])'
<1>1. PICK next \in Cals \cup {"SCIENCE"} :
        /\ recordState \in Cals \cup {"SCIENCE", "DARK1"}
        /\ Starts("data", <<Enter(next)>>)
        /\ UNCHANGED <<gpio, last, fpie, mode, recordState, read, ended>>
  BY DEF Advance
<1>2. Enter(next) \in Ops
  BY OpsTyped
<1>3. todo'["data"] = <<Enter(next)>>
  BY <1>1 DEF Starts, TypeOK, Threads
<1>4. todo'["data"] = Cons(Enter(next), << >>)
  BY <1>2, <1>3, ConsPair
<1>5. recordState # "NOT_RECORDING"
  BY <1>1, CalsAssumption
<1>6. /\ "START" \in gpio' /\ ObcLines' = Lines[last]' /\ (fpie = last)'
  BY <1>1, <1>5 DEF Agree, PxiAgrees, ObcLines
<1>7. Changing(todo["data"])'
  BY <1>4, <1>6 DEF Changing
<1> QED
  BY <1>7 DEF Promise

LEMMA EndKeeps ==
  ASSUME TypeOK, Agree, EndRecording PROVE Promise(todo["data"])'
<1>1. PxiRecord(FALSE) \in Ops /\ Leave \in Ops
  BY OpsTyped
<1>2. todo'["data"] = <<PxiRecord(FALSE), Leave>>
  BY DEF EndRecording, Starts, TypeOK, Threads
<1>3. todo'["data"] = Cons(PxiRecord(FALSE), Cons(Leave, << >>))
  BY <1>1, <1>2, ConsPair
<1>4. PxiAgrees' /\ ObcLines' = Lines[last]' /\ (fpie = last)'
  BY DEF Agree, EndRecording, PxiAgrees, ObcLines
<1>5. Changing(todo["data"])'
  BY <1>3, <1>4 DEF Changing
<1> QED
  BY <1>5 DEF Promise

\* A recording that fails to start may force AUTO and leave the lines alone.
LEMMA FailKeeps ==
  ASSUME TypeOK, OneBusy, RecordFails
  PROVE  Promise(todo["main"])' /\ todo'["data"] = << >>
<1>1. todo["main"] = << >> /\ todo["data"] = << >> /\ todo' = todo
  BY DEF RecordFails, Idle
<1>2. Promise(<< >>)
  BY <1>1 DEF OneBusy, Threads
<1>3. Agree /\ last \in States
  BY <1>2, PromiseKept DEF TypeOK
<1>4. Agree'
  <2>1. PxiAgrees' /\ ObcLines' = Lines[last]' /\ (fpie = last)'
    BY <1>3 DEF Agree, RecordFails, PxiAgrees, ObcLines
  <2>2. CASE mode' = mode
    BY <1>3, <2>1, <2>2 DEF Agree, RecordFails, Following
  <2>3. CASE mode' # mode
    <3>1. trouble' # {}
      BY <2>3 DEF RecordFails
    <3> QED BY <2>1, <3>1 DEF Agree
  <2> QED BY <2>2, <2>3
<1>5. last' \in States
  BY <1>3 DEF RecordFails
<1>6. Promise(<< >>)'
  BY <1>4, <1>5, AgreePromisesNext
<1> QED
  BY <1>1, <1>6

-----------------------------------------------------------------------------
(* No step of a thread that is alone disturbs the invariant                *)

\* The busy thread is the only one that takes a step.
LEMMA Alone ==
  ASSUME TypeOK, OneBusy, ReadsFresh, NEW t \in Threads, todo[t] # << >>
  PROVE  /\ Promise(todo[t]) /\ todo[Other(t)] = << >>
         /\ read[Other(t)] = << >> /\ Other(t) \in Threads /\ Other(t) # t
<1>1. /\ Other(t) \in Threads /\ Other(t) # t /\ Other(Other(t)) = t
      /\ \A u \in Threads : u = t \/ u = Other(t)
  BY DEF Threads, Other
<1>2. Promise(todo[t]) /\ todo[Other(t)] = << >>
  BY <1>1 DEF OneBusy
<1>3. read[Other(t)] = << >>
  BY <1>1, <1>2 DEF ReadsFresh, Does
<1> QED
  BY <1>1, <1>2, <1>3

\* A step of the busy thread leaves it the only one, with no register read
\* unless it has just read it.
LEMMA StaysAlone ==
  ASSUME TypeOK, OneBusy, ReadsFresh, NEW t \in Threads, todo[t] # << >>,
         Promise(todo[t])', NEW ops, Goes(t, ops),
         \/ read' = read /\ ~Does(t, "setGPIO")
         \/ read' = [read EXCEPT ![t] = << >>]
  PROVE  OneBusy' /\ ReadsFresh'
<1>1. /\ todo[Other(t)] = << >> /\ read[Other(t)] = << >>
      /\ Other(t) \in Threads /\ Other(t) # t
  BY Alone
<1>2. todo'[Other(t)] = << >>
  BY <1>1 DEF Goes, TypeOK
<1>3. OneBusy'
  BY <1>2 DEF OneBusy
<1>4. read'[t] = << >> /\ read'[Other(t)] = << >>
  BY <1>1 DEF ReadsFresh, TypeOK
<1>5. \A u \in Threads : u = t \/ u = Other(t)
  BY DEF Threads, Other
<1>6. ReadsFresh'
  BY <1>4, <1>5 DEF ReadsFresh
<1> QED
  BY <1>3, <1>6

LEMMA StepKeeps ==
  ASSUME TypeOK, OneBusy, ReadsFresh, NEW t \in Threads, Step(t)
  PROVE  OneBusy' /\ ReadsFresh'
<1>1. CASE SetOBC(t)
  <2>1. todo[t] # << >> /\ ~Does(t, "setGPIO") /\ read' = read
    BY <1>1 DEF SetOBC, Does
  <2>2. PICK ops : Goes(t, ops)
    BY <1>1 DEF SetOBC
  <2>3. Promise(todo[t])'
    BY <1>1, <2>1, Alone, SetOBCKeeps
  <2> QED BY <2>1, <2>2, <2>3, StaysAlone
<1>2. CASE ReadGPIO(t)
  <2>1. todo[t] # << >> /\ todo' = todo /\ read' = [read EXCEPT ![t] = <<gpio>>]
    BY <1>2 DEF ReadGPIO, Does
  <2>2. /\ todo[Other(t)] = << >> /\ read[Other(t)] = << >> /\ Promise(todo[t])
        /\ Other(t) \in Threads /\ Other(t) # t
    BY <2>1, Alone
  <2>3. Promise(todo[t])'
    BY <1>2, <2>2, ReadKeeps DEF ReadGPIO
  <2>4. OneBusy'
    BY <2>1, <2>2, <2>3 DEF OneBusy
  <2>5. read'[t] = <<gpio>> /\ read'[Other(t)] = << >>
    BY <2>1, <2>2 DEF TypeOK
  <2>6. \A u \in Threads : u = t \/ u = Other(t)
    BY DEF Threads, Other
  <2>7. gpio' = gpio /\ Does(t, "setGPIO")'
    BY <1>2 DEF ReadGPIO, Does
  <2>8. ReadsFresh'
    BY <2>5, <2>6, <2>7 DEF ReadsFresh
  <2> QED BY <2>4, <2>8
<1>3. CASE WriteGPIO(t)
  <2>1. /\ todo[t] # << >> /\ Goes(t, << >>)
        /\ read' = [read EXCEPT ![t] = << >>]
    BY <1>3 DEF WriteGPIO, Does
  <2>2. Promise(todo[t])'
    BY <1>3, <2>1, Alone, WriteKeeps
  <2> QED BY <2>1, <2>2, StaysAlone
<1>4. CASE NoteState(t)
  <2>1. /\ todo[t] # << >> /\ Goes(t, << >>)
        /\ ~Does(t, "setGPIO") /\ read' = read
    BY <1>4 DEF NoteState, Does
  <2>2. Promise(todo[t])'
    BY <1>4, <2>1, Alone, NoteKeeps
  <2> QED BY <2>1, <2>2, StaysAlone
<1>5. CASE TellFPIE(t)
  <2>1. /\ todo[t] # << >> /\ Goes(t, << >>)
        /\ ~Does(t, "setGPIO") /\ read' = read
    BY <1>5 DEF TellFPIE, Does
  <2>2. Promise(todo[t])'
    BY <1>5, <2>1, Alone, TellKeeps
  <2> QED BY <2>1, <2>2, StaysAlone
<1>6. CASE EnterState(t)
  <2>1. todo[t] # << >> /\ ~Does(t, "setGPIO") /\ read' = read
    BY <1>6 DEF EnterState, Does
  <2>2. PICK ops : Goes(t, ops)
    BY <1>6 DEF EnterState
  <2>3. Promise(todo[t])'
    BY <1>6, <2>1, Alone, EnterKeeps
  <2> QED BY <2>1, <2>2, <2>3, StaysAlone
<1> QED
  BY <1>1, <1>2, <1>3, <1>4, <1>5, <1>6 DEF Step

\* Nor does the start of something.
LEMMA StartsAlone ==
  ASSUME TypeOK, ReadsFresh, NEW t \in Threads, todo[t] = << >>,
         todo[Other(t)] = << >>, todo'[Other(t)] = << >>, Promise(todo[t])',
         read' = read
  PROVE  OneBusy' /\ ReadsFresh'
<1>1. \A u \in Threads : u = t \/ u = Other(t)
  BY DEF Threads, Other
<1>2. \A u \in Threads : read'[u] = << >>
  BY <1>1 DEF ReadsFresh, Does
<1> QED
  BY <1>2 DEF OneBusy, ReadsFresh

LEMMA StepInvNext == TypeOK /\ StepInv /\ [Next]_vars => StepInv'
<1> SUFFICES ASSUME TypeOK, StepInv, [Next]_vars, "overlap" \notin trouble'
             PROVE  OneBusy' /\ ReadsFresh'
  BY DEF StepInv
<1>1. trouble \subseteq trouble'
  BY DEF Next, Step, SetOBC, ReadGPIO, WriteGPIO, NoteState, TellFPIE, EnterState,
     Select, AssignMode, Record, RecordFails, Exit, End, Advance, EndRecording,
     Starts, NoteOverlap, vars
<1>2. OneBusy /\ ReadsFresh
  BY <1>1 DEF StepInv
<1>3. "main" \in Threads /\ "data" \in Threads /\ Other("main") = "data"
      /\ Other("data") = "main"
  BY DEF Threads, Other
<1>4. CASE UNCHANGED vars
  <2>1. PICK t \in Threads : todo[Other(t)] = << >> /\ Promise(todo[t])
    BY <1>2 DEF OneBusy
  <2>2. Promise(todo[t])' /\ todo'[Other(t)] = << >>
    BY <1>4, <2>1, ReadKeeps DEF vars
  <2> QED BY <1>2, <1>4, <2>2 DEF OneBusy, ReadsFresh, Does, vars
<1>5. ASSUME NEW t \in Threads, Step(t) PROVE OneBusy' /\ ReadsFresh'
  BY <1>2, <1>5, StepKeeps
<1>6. ASSUME NEW choice \in Choices \cup {"AUTO"}, Select(choice)
      PROVE  OneBusy' /\ ReadsFresh'
  <2>1. PICK ops : Starts("main", ops)
    BY <1>6 DEF Select
  <2>2. /\ todo["main"] = << >> /\ todo["data"] = << >> /\ Agree
        /\ trouble' = trouble /\ todo'["data"] = << >>
    BY <1>2, <1>3, <2>1, StartKeeps
  <2>3. Promise(todo["main"])' /\ read' = read
    BY <1>6, <2>2, SelectKeeps DEF Select
  <2> QED BY <1>2, <1>3, <2>2, <2>3, StartsAlone
<1>7. CASE AssignMode \/ End
  <2>1. /\ todo["main"] # << >> /\ Goes("main", << >>)
        /\ ~Does("main", "setGPIO") /\ read' = read
    BY <1>7 DEF AssignMode, End, Does
  <2>2. Promise(todo["main"])'
    BY <1>2, <1>3, <1>7, <2>1, Alone, CallerKeeps
  <2> QED BY <1>2, <1>3, <2>1, <2>2, StaysAlone
<1>8. CASE Record
  <2>1. PICK ops : Starts("main", ops)
    BY <1>8 DEF Record
  <2>2. /\ todo["main"] = << >> /\ todo["data"] = << >> /\ Agree
        /\ todo'["data"] = << >>
    BY <1>2, <1>3, <2>1, StartKeeps
  <2>3. Promise(todo["main"])' /\ read' = read
    BY <1>8, <2>2, RecordKeeps DEF Record
  <2> QED BY <1>2, <1>3, <2>2, <2>3, StartsAlone
<1>9. CASE RecordFails
  <2>1. Promise(todo["main"])' /\ todo'["data"] = << >>
    BY <1>2, <1>9, FailKeeps
  <2>2. todo["main"] = << >> /\ todo["data"] = << >> /\ read' = read
    BY <1>9 DEF RecordFails, Idle
  <2> QED BY <1>2, <1>3, <2>1, <2>2, StartsAlone
<1>10. CASE Exit
  <2>1. PICK ops : Starts("main", ops)
    BY <1>10 DEF Exit
  <2>2. /\ todo["main"] = << >> /\ todo["data"] = << >> /\ Agree
        /\ trouble' = trouble /\ todo'["data"] = << >>
    BY <1>2, <1>3, <2>1, StartKeeps
  <2>3. Promise(todo["main"])' /\ read' = read
    BY <1>10, <2>2, ExitKeeps DEF Exit
  <2> QED BY <1>2, <1>3, <2>2, <2>3, StartsAlone
<1>11. CASE Advance
  <2>1. PICK ops : Starts("data", ops)
    BY <1>11 DEF Advance
  <2>2. /\ todo["main"] = << >> /\ todo["data"] = << >> /\ Agree
        /\ todo'["main"] = << >>
    BY <1>2, <1>3, <2>1, StartKeeps
  <2>3. Promise(todo["data"])' /\ read' = read
    BY <1>11, <2>2, AdvanceKeeps DEF Advance
  <2> QED BY <1>2, <1>3, <2>2, <2>3, StartsAlone
<1>12. CASE EndRecording
  <2>1. PICK ops : Starts("data", ops)
    BY <1>12 DEF EndRecording
  <2>2. /\ todo["main"] = << >> /\ todo["data"] = << >> /\ Agree
        /\ todo'["main"] = << >>
    BY <1>2, <1>3, <2>1, StartKeeps
  <2>3. Promise(todo["data"])' /\ read' = read
    BY <1>12, <2>2, EndKeeps DEF EndRecording
  <2> QED BY <1>2, <1>3, <2>2, <2>3, StartsAlone
<1> QED
  BY <1>4, <1>5, <1>6, <1>7, <1>8, <1>9, <1>10, <1>11, <1>12 DEF Next

LEMMA StepInvInit == Init => StepInv
<1> SUFFICES ASSUME Init PROVE OneBusy /\ ReadsFresh
  BY DEF StepInv
<1>1. /\ "main" \in Threads /\ "data" \in Threads /\ Other("main") = "data"
      /\ "SCIENCE" \in States /\ << >> \in Rests
  BY DEF Threads, Other, States, Rests
<1>2. todo["main"] = <<SetObc("SCIENCE")>> /\ todo["data"] = << >>
  BY <1>1 DEF Init, Threads
<1>3. todo["main"] = Cons(SetObc("SCIENCE"), << >>)
  BY <1>1, <1>2, OpsTyped, ConsPair
<1>4. PxiAgrees /\ Aims("SCIENCE", << >>) /\ last = "BRIGHT"
  BY DEF Init, PxiAgrees, Aims, Following
<1>5. Setting(todo["main"], "SCIENCE", << >>)
  BY <1>3, <1>4 DEF Setting
<1>6. ReadsFresh
  BY DEF Init, ReadsFresh
<1> QED
  BY <1>1, <1>2, <1>5, <1>6 DEF OneBusy, Promise

-----------------------------------------------------------------------------
(* What follows from the invariant                                         *)

LEMMA QuietAgrees ==
  TypeOK /\ StepInv /\ Quiet /\ "overlap" \notin trouble => Agree
<1> SUFFICES ASSUME TypeOK, StepInv, Quiet, "overlap" \notin trouble PROVE Agree
  OBVIOUS
<1>1. Promise(<< >>)
  BY DEF StepInv, OneBusy, Quiet, Threads
<1> QED
  BY <1>1, PromiseKept DEF TypeOK

\* Only setGPIO changes the lines.
LEMMA SlowStep ==
  TypeOK /\ StepInv /\ [Next]_vars =>
    (ObcLines = Lines["BRIGHT"] /\ "overlap" \notin trouble' =>
       ObcLines' \in {Lines["BRIGHT"], Lines["MEDIUM"], SlowLines})
<1> SUFFICES ASSUME TypeOK, StepInv, [Next]_vars, ObcLines = Lines["BRIGHT"],
                    "overlap" \notin trouble'
             PROVE  ObcLines' \in {Lines["BRIGHT"], Lines["MEDIUM"], SlowLines}
  OBVIOUS
<1>1. ASSUME NEW t \in Threads, WriteGPIO(t)
      PROVE  ObcLines' \in {Lines["BRIGHT"], Lines["MEDIUM"], SlowLines}
  <2>1. OneBusy /\ ReadsFresh /\ todo[t] # << >>
    BY <1>1 DEF StepInv, WriteGPIO, Does
  <2> QED BY <1>1, <2>1, Alone, WriteKeeps
<1>2. CASE UNCHANGED gpio
  BY <1>2 DEF ObcLines
<1>3. (\E t \in Threads : WriteGPIO(t)) \/ UNCHANGED gpio
  BY DEF Next, Step, SetOBC, ReadGPIO, NoteState, TellFPIE, EnterState, Select,
     AssignMode, Record, RecordFails, Exit, End, Advance, EndRecording, vars
<1> QED
  BY <1>1, <1>2, <1>3

LEMMA StepInvariant == Spec => [](TypeOK /\ StepInv)
<1>1. Init => StepInv
  BY StepInvInit
<1>2. TypeOK /\ StepInv /\ [Next]_vars => StepInv'
  BY StepInvNext
<1> QED BY <1>1, <1>2, TypeCorrect, PTL DEF Spec

(* Whatever the two threads did one after the other, the lines, the        *)
(* remembered state, the FPIE and the PXI agree when both are back.        *)
THEOREM ThreadsAgree == Spec => []InStep
<1>1. TypeOK /\ StepInv => InStep
  BY QuietAgrees DEF InStep, Agree, ObcLines, PxiAgrees
<1> QED BY <1>1, StepInvariant, PTL

(* In OBC Auto, when both threads are back from their calls and nothing    *)
(* overlapped or was forced, the state commanded last is the one that goes *)
(* with the record state, whichever thread changed the mode or the record  *)
(* state last.                                                             *)
THEOREM AutoIsFollowed == Spec => []AutoFollows
<1>1. TypeOK /\ StepInv => AutoFollows
  BY QuietAgrees DEF AutoFollows, Agree
<1> QED BY <1>1, StepInvariant, PTL

(* No way of calling setOBC takes the OBC from BRIGHT straight to a state  *)
(* other than MEDIUM, unless the threads overlap.                          *)
THEOREM BrightLeftSlowly == Spec => SlowFromBright
<1>1. TypeOK /\ StepInv /\ [Next]_vars =>
        [ gpio \cap ObcBits = Lines["BRIGHT"] /\ "overlap" \notin trouble' =>
            gpio' \cap ObcBits \in
              {Lines["BRIGHT"], Lines["MEDIUM"], SlowLines} ]_vars
  BY SlowStep DEF ObcLines
<1> QED BY <1>1, StepInvariant, PTL DEF Spec, SlowFromBright
=============================================================================
