--------------------------- MODULE DarkFrame_proofs ---------------------------
(***************************************************************************)
(* Proofs about DarkFrame, for any times, calibrations and requests.        *)
(*                                                                         *)
(* Nothing orders the two threads, so everything is said under the         *)
(* condition that trouble does not tell of a meeting: then one thread      *)
(* clears at most, the counts of the two halves are what the data thread's *)
(* place in its loop makes of them (Counted), and the frames left, of the  *)
(* wait, of the sum and of the calibration, keep a distance (InTime).      *)
(***************************************************************************)
EXTENDS DarkFrame, TLAPS

Calm == ~Clearing(mainPC) /\ ~Clearing(dataPC)

\* The data thread has seen that the wait is over.
Adding == dataPC \in {"compare", "add 1", "add 2", "count", "increment",
                      "divide 1", "divide 2", "done"}

\* What the frame in memory has already added to either half
More1 == IF dataPC \in {"add 2", "count", "increment"} THEN 1 ELSE 0
More2 == IF dataPC \in {"count", "increment"} THEN 1 ELSE 0

\* Both halves hold as many frames as the count says, and are divided when it
\* is complete.
Counted ==
  /\ accumulation[1].n = accumulated + More1
  /\ accumulation[2].n = accumulated + More2
  /\ accumulated <= Accum
  /\ dataPC \in {"add 1", "add 2", "count", "increment"} => accumulated < Accum
  /\ dataPC = "increment" => reg = accumulated
  /\ dataPC \in {"divide 1", "divide 2", "done"} => accumulated = Accum
  /\ dataPC \in {"divide 2", "done"} => darkFrame[1].level = Quotient(Accum)
  /\ dataPC = "done" => darkFrame[2].level = Quotient(Accum)

\* As far as a thread at pc has come in clearing
ClearedBy(pc) ==
  /\ pc \in {"clear 2", "zero"} => accumulation[1] = Zero
  /\ pc = "zero" => accumulation[2] = Zero

\* While the threads have not met
Apart ==
  "disturbed" \notin trouble =>
    /\ ~(Clearing(mainPC) /\ Clearing(dataPC))
    /\ Adding => framesUntilDark = 0
    /\ dataPC = "decrement" => reg = framesUntilDark
    /\ framesUntilDark >= 0 =>
         ClearedBy(mainPC) /\ ClearedBy(dataPC) /\ (Calm => Counted)

\* Frames still to be added, and those that pass until the last of them is, the
\* one in memory included when it may be counted
Todo == IF Calm THEN Accum - accumulated ELSE Accum
Frames ==
  IF dataPC = "state"
  THEN IF framesUntilDark = 0 THEN Todo + 1 ELSE framesUntilDark + Todo
  ELSE IF dataPC = "test" \/ Adding THEN framesUntilDark + Todo
  ELSE IF framesUntilDark = 0 THEN Todo ELSE framesUntilDark - 1 + Todo

\* The calibrator settles before the wait is over, and the calibration, if its
\* end may put the light on, is not over before the frames are added.
InTime ==
  /\ obc = "dark"
  /\ \/ settling = 0
     \/ settling + (IF dataPC \in {"wait", "decrement"} THEN 2 ELSE 1) <= framesUntilDark
  /\ dataPC \in {"wait", "decrement"} => picture = "dark" \/ framesUntilDark >= 2
  /\ dataPC = "test" => picture = "dark" \/ framesUntilDark >= 1
  /\ dataPC \in {"compare", "add 1", "add 2"} => picture = "dark"
  /\ recordState \in {"DARK1", "DARK2"} /\ asker # "combo" => wait >= Frames

\* Nothing that was added was lit.
Unlit ==
  /\ ~accumulation[1].lit /\ ~accumulation[2].lit
  /\ dataPC \in {"divide 2", "done"} => ~darkFrame[1].lit
  /\ dataPC = "done" => ~darkFrame[2].lit

\* While nothing has gone wrong
Regular ==
  trouble = {} /\ framesUntilDark >= 0 => (Calm => Unlit) /\ (Todo > 0 => InTime)

\* What the threads are doing, in terms of each other's variables
Steps ==
  /\ recordState \in {"DARK1", "DARK2"} => wait >= 1
  /\ dataPC \in {"darken", "ask", "clear 1", "clear 2", "zero"} =>
       recordState = "DARK2" /\ wait = Period
  /\ dataPC = "decrement" => reg \in 1..Settle
  /\ dataPC = "increment" => reg \in Nat
  /\ mainPC = "idle" <=> job = "none"
  /\ mainPC \in {"ask", "clear 1", "clear 2", "zero"} => job \in {"record", "dark"}

\* The dark frame is what Accum frames are when they are divided.
ExactMean ==
  Divided /\ "disturbed" \notin outcome =>
    \A h \in Halves : darkFrame[h].level = Quotient(Accum)

DarkInv == TypeOK /\ Steps /\ Apart /\ Regular /\ ExactMean /\ OnlyDark

-----------------------------------------------------------------------------
(* TypeOK by what it is about                                              *)

Numbers ==
  /\ framesUntilDark \in -1..Settle /\ accumulated \in Nat
  /\ wait \in 0..Period /\ settling \in 0..Dim /\ reg \in Int
  /\ requests \in 0..MaxRequests

Words ==
  /\ recordState \in {"NOT_RECORDING", "DARK1", "SCIENCE", "DARK2", "CAL"}
  /\ obc \in {"dark", "light"} /\ picture \in {"dark", "light"}
  /\ dataPC \in DataSteps /\ mainPC \in MainSteps
  /\ job \in {"none", "record", "dark", "other", "auto"}
  /\ asker \in {"none", "combo", "record", "data"}
  /\ trouble \subseteq Troubles /\ outcome \subseteq Troubles

Pixels == accumulation \in [Halves -> Sums] /\ darkFrame \in [Halves -> Means]

Switches == buffered \in BOOLEAN /\ auto \in BOOLEAN

LEMMA Types == TypeOK <=> Numbers /\ Words /\ Pixels /\ Switches
  BY DEF TypeOK, Numbers, Words, Pixels, Switches

LEMMA TypesNext == Numbers' /\ Words' /\ Pixels' /\ Switches' => TypeOK'
  BY DEF TypeOK, Numbers, Words, Pixels, Switches

LEMMA Times ==
  /\ Settle \in Nat /\ Accum \in Nat /\ Accum >= 1 /\ Period \in Nat /\ Dim \in Nat
  /\ MaxRequests \in Nat /\ Dim + 2 <= Settle /\ Settle + Accum <= Period
  BY DarkAssumption

(* The bound that the count is compared with is Accum, and the quotient.    *)
LEMMA Reached ==
  ASSUME NEW n \in Nat PROVE n * Parts < Divisor <=> n < Accum
<1>1. /\ Parts \in Nat /\ Parts >= 1 /\ Divisor \in Nat /\ Accum \in Nat
      /\ (Accum - 1) * Parts < Divisor /\ Divisor <= Accum * Parts
  BY DarkAssumption
<1>2. CASE n < Accum
  <2>1. n * Parts <= (Accum - 1) * Parts
    BY <1>1, <1>2
  <2> QED BY <1>1, <1>2, <2>1
<1>3. CASE ~(n < Accum)
  <2>1. Accum * Parts <= n * Parts
    BY <1>1, <1>3
  <2> QED BY <1>1, <1>3, <2>1
<1> QED BY <1>2, <1>3

LEMMA QuotientBounds ==
  ASSUME NEW n \in Nat
  PROVE  /\ Quotient(n) \in Nat
         /\ Divisor * Quotient(n) <= n * Level * Parts
         /\ n * Level * Parts < Divisor * Quotient(n) + Divisor
<1>1. Divisor \in Nat /\ Divisor > 0 /\ n * Level * Parts \in Nat
  BY DarkAssumption
<1> QED BY <1>1 DEF Quotient

LEMMA MeanOfAccum ==
  LET excess == Quotient(Accum) - Level
  IN  0 <= excess /\ excess * Divisor <= Level * (Accum * Parts - Divisor)
<1> DEFINE q == Quotient(Accum)
           sum == Accum * Parts
<1>1. /\ Divisor \in Nat /\ Divisor > 0 /\ Level \in Nat /\ sum \in Nat
      /\ Divisor <= sum /\ q \in Nat
  BY DarkAssumption, QuotientBounds
<1>2. Accum * Level * Parts = Level * sum
  BY DarkAssumption
<1>3. Divisor * q <= Level * sum /\ Level * sum < Divisor * q + Divisor
  BY <1>2, QuotientBounds, DarkAssumption
<1> HIDE DEF q, sum
<1>4. /\ Level * Divisor <= Level * sum
      /\ Level * (sum - Divisor) = Level * sum - Level * Divisor
  BY <1>1
<1>5. (q - Level) * Divisor = Divisor * q - Level * Divisor
  BY <1>1
<1>6. Level * Divisor < Divisor * q + Divisor
  BY <1>1, <1>3, <1>4
<1>7. Level < q + 1
  <2>1. SUFFICES ASSUME q + 1 <= Level PROVE FALSE
    BY <1>1
  <2>2. Divisor * (q + 1) <= Divisor * Level
    BY <1>1, <2>1
  <2> QED BY <1>1, <1>6, <2>2
<1>8. 0 <= q - Level /\ (q - Level) * Divisor <= Level * (sum - Divisor)
  BY <1>1, <1>3, <1>4, <1>5, <1>7
<1> QED BY <1>8 DEF q, sum

LEMMA Known ==
  DarkInv => /\ Numbers /\ Words /\ Pixels /\ Switches
             /\ Steps /\ Apart /\ Regular /\ ExactMean /\ OnlyDark
  BY Types DEF DarkInv

LEMMA Integral ==
  Numbers => /\ framesUntilDark \in Int /\ framesUntilDark <= Settle
             /\ settling \in Int /\ settling >= 0 /\ settling <= Dim
             /\ accumulated \in Int /\ accumulated >= 0 /\ wait \in Int
             /\ Todo \in Int /\ Todo <= Accum
  BY Times DEF Numbers, Todo

(* What was divided stays what it is, as long as the data thread does not   *)
(* leave the division.                                                     *)
LEMMA Keeps ==
  ASSUME DarkInv, Numbers', Words', Pixels', Switches', Steps', Apart', Regular',
         UNCHANGED <<darkFrame, buffered, outcome>>,
         dataPC \in {"divide 2", "done"} => dataPC' \in {"divide 2", "done"}
  PROVE  DarkInv'
<1>1. ExactMean' /\ OnlyDark'
  BY DEF DarkInv, ExactMean, OnlyDark, Divided, Halves
<1> QED BY <1>1, TypesNext DEF DarkInv

(* A step that neither adds nor clears, by the main thread or by the data   *)
(* thread outside the accumulation, may spoil the times only.              *)
Outside == {"frame", "state", "darken", "ask"}
Preparing == {"idle", "darken", "ask", "mode"}

LEMMA AsideKeeps ==
  ASSUME DarkInv,
         UNCHANGED <<framesUntilDark, accumulated, accumulation, darkFrame, buffered,
                     reg, outcome>>,
         trouble \subseteq trouble',
         dataPC' = dataPC \/ (dataPC \in Outside /\ dataPC' \in Outside),
         mainPC' = mainPC \/ (mainPC \in Preparing /\ mainPC' \in Preparing),
         Numbers', Words', auto' \in BOOLEAN, Steps',
         trouble' = {} /\ framesUntilDark >= 0 /\ Todo > 0 /\ InTime => InTime'
  PROVE  DarkInv'
<1>0. Pixels /\ Switches /\ Apart /\ Regular
  BY Known
<1>1. Pixels' /\ Switches'
  BY <1>0 DEF Pixels, Switches
<1>2. /\ Clearing(mainPC') <=> Clearing(mainPC)
      /\ Clearing(dataPC') <=> Clearing(dataPC)
  BY DEF Clearing, Outside, Preparing
<1>3. Calm' <=> Calm
  BY <1>2 DEF Calm
<1>4. Adding' <=> Adding
  BY DEF Adding, Outside
<1>5. More1' = More1 /\ More2' = More2
  BY DEF More1, More2, Outside
<1>6. Counted => Counted'
  BY <1>5 DEF Counted, Outside
<1>7. ClearedBy(mainPC)' <=> ClearedBy(mainPC)
  BY DEF ClearedBy, Preparing
<1>8. ClearedBy(dataPC)' <=> ClearedBy(dataPC)
  BY DEF ClearedBy, Outside
<1>9. dataPC' = "decrement" => dataPC = "decrement"
  BY DEF Outside
<1>10. Apart'
  BY <1>0, <1>2, <1>3, <1>4, <1>6, <1>7, <1>8, <1>9 DEF Apart
<1>11. Todo' = Todo
  BY <1>3 DEF Todo
<1>12. Unlit => Unlit'
  BY DEF Unlit, Outside
<1>13. Regular'
  BY <1>0, <1>3, <1>11, <1>12 DEF Regular
<1>14. dataPC \in {"divide 2", "done"} => dataPC' \in {"divide 2", "done"}
  BY DEF Outside
<1> QED BY <1>1, <1>10, <1>13, <1>14, Keeps

FramesFit ==
  Numbers /\ framesUntilDark >= 0 => Frames \in Int /\ Frames <= Settle + Accum

LEMMA FramesBound == FramesFit
<1> SUFFICES ASSUME Numbers, framesUntilDark >= 0
             PROVE  Frames \in Int /\ Frames <= Settle + Accum
  BY DEF FramesFit
<1>1. framesUntilDark \in Int /\ framesUntilDark <= Settle /\ Todo \in Int /\ Todo <= Accum
  BY Integral
<1> QED BY <1>1, Times DEF Frames

LEMMA FramesBoundNext == FramesFit'
  BY FramesBound, PTL

LEMMA Enough ==
  ASSUME Numbers', framesUntilDark' >= 0, wait' = Period PROVE wait' >= Frames'
  BY FramesBoundNext, Times DEF FramesFit

-----------------------------------------------------------------------------
(* The data thread: a frame comes, and the wait is counted down             *)

LEMMA GetFrameKeeps == DarkInv /\ GetFrame => DarkInv'
<1> SUFFICES ASSUME DarkInv, GetFrame PROVE DarkInv'
  OBVIOUS
<1>0. Numbers /\ Words /\ Pixels /\ Switches /\ Steps /\ Apart /\ Regular
  BY Known
<1>1. /\ dataPC = "frame" /\ dataPC' = "wait"
      /\ picture' = IF obc = "dark" /\ settling = 0 THEN "dark" ELSE "light"
      /\ settling' = IF settling > 0 THEN settling - 1 ELSE 0
      /\ UNCHANGED <<framesUntilDark, accumulated, accumulation, darkFrame, buffered,
                     recordState, wait, auto, obc, mainPC, job, reg, requests,
                     asker, trouble, outcome>>
  BY DEF GetFrame, memory, record, history
<1>2. Numbers'
  <2>1. settling' \in 0..Dim
    BY <1>0, <1>1, Times DEF Numbers
  <2> QED BY <1>0, <1>1, <2>1 DEF Numbers
<1>3. Words' /\ Pixels' /\ Switches'
  BY <1>0, <1>1 DEF Words, Pixels, Switches, DataSteps
<1>4. Steps'
  BY <1>0, <1>1 DEF Steps
<1>5. Apart'
  BY <1>0, <1>1 DEF Apart, Calm, Clearing, Adding, ClearedBy, Counted, More1, More2
<1>6. Todo' = Todo /\ Frames' = Frames /\ (Calm' <=> Calm)
  BY <1>0, <1>1 DEF Todo, Calm, Clearing, Frames, Adding
<1>7. ASSUME InTime, framesUntilDark >= 0 PROVE InTime'
  <2>1. framesUntilDark \in Int /\ settling \in Int /\ settling >= 0
    BY <1>0, Integral
  <2>2. /\ settling = 0 \/ settling + 1 <= framesUntilDark
        /\ obc = "dark"
        /\ recordState \in {"DARK1", "DARK2"} /\ asker # "combo" => wait >= Frames
    BY <1>1, <1>7 DEF InTime
  <2>3. /\ settling' = 0 \/ settling' + 2 <= framesUntilDark
        /\ picture' = "dark" \/ framesUntilDark >= 2
    BY <1>1, <2>1, <2>2
  <2> QED BY <1>1, <1>6, <2>2, <2>3 DEF InTime
<1>8. Regular'
  BY <1>0, <1>1, <1>6, <1>7 DEF Regular, Unlit
<1> QED BY <1>1, <1>2, <1>3, <1>4, <1>5, <1>8, Keeps

LEMMA ReadWaitKeeps == DarkInv /\ ReadWait => DarkInv'
<1> SUFFICES ASSUME DarkInv, ReadWait PROVE DarkInv'
  OBVIOUS
<1>0. Numbers /\ Words /\ Pixels /\ Switches /\ Steps /\ Apart /\ Regular
  BY Known
<1>1. framesUntilDark \in Int /\ framesUntilDark <= Settle /\ settling \in Int
      /\ settling >= 0 /\ Todo \in Int
  BY <1>0, Integral
<1>2. /\ dataPC = "wait"
      /\ UNCHANGED <<framesUntilDark, accumulated, accumulation, darkFrame, buffered,
                     recordState, wait, auto, obc, settling, picture, mainPC, job,
                     requests, asker, trouble, outcome>>
  BY DEF ReadWait, memory, record, light, quiet, rest
<1>3. \/ framesUntilDark > 0 /\ dataPC' = "decrement" /\ reg' = framesUntilDark
      \/ framesUntilDark <= 0 /\ dataPC' = "test" /\ reg' = reg
  BY <1>1 DEF ReadWait
<1>4. Numbers'
  BY <1>0, <1>1, <1>2, <1>3 DEF Numbers
<1>5. dataPC' \in DataSteps
  BY <1>3 DEF DataSteps
<1>6. Words' /\ Pixels' /\ Switches'
  BY <1>0, <1>2, <1>5 DEF Words, Pixels, Switches
<1>7. Steps'
  <2>1. dataPC' = "decrement" => reg' \in 1..Settle
    BY <1>1, <1>3, Times
  <2> QED BY <1>0, <1>2, <1>3, <2>1 DEF Steps
<1>8. Apart'
  BY <1>0, <1>2, <1>3 DEF Apart, Calm, Clearing, Adding, ClearedBy, Counted, More1, More2
<1>9. Todo' = Todo /\ (Calm' <=> Calm)
  BY <1>0, <1>2, <1>3 DEF Todo, Calm, Clearing
<1>10. ASSUME framesUntilDark >= 0 PROVE Frames' = Frames
  <2>1. Frames = IF framesUntilDark = 0 THEN Todo ELSE framesUntilDark - 1 + Todo
    BY <1>2 DEF Frames, Adding
  <2>2. CASE dataPC' = "decrement"
    BY <1>2, <1>9, <2>1, <2>2 DEF Frames, Adding
  <2>3. CASE framesUntilDark <= 0 /\ dataPC' = "test"
    <3>1. framesUntilDark = 0
      BY <1>1, <1>10, <2>3
    <3>2. Frames' = 0 + Todo
      BY <1>2, <1>9, <2>3, <3>1 DEF Frames
    <3> QED BY <1>1, <2>1, <3>1, <3>2
  <2> QED BY <1>3, <2>2, <2>3
<1>11. ASSUME InTime, framesUntilDark >= 0 PROVE InTime'
  <2>1. /\ settling = 0 \/ settling + 2 <= framesUntilDark
        /\ picture = "dark" \/ framesUntilDark >= 2
        /\ obc = "dark"
        /\ recordState \in {"DARK1", "DARK2"} /\ asker # "combo" => wait >= Frames
    BY <1>2, <1>11 DEF InTime
  <2>2. CASE dataPC' = "decrement"
    BY <1>2, <1>10, <1>11, <2>1, <2>2 DEF InTime
  <2>3. CASE framesUntilDark <= 0 /\ dataPC' = "test"
    <3>1. settling = 0 /\ picture = "dark"
      BY <1>1, <2>1, <2>3
    <3> QED BY <1>2, <1>10, <1>11, <2>1, <2>3, <3>1 DEF InTime
  <2> QED BY <1>3, <2>2, <2>3
<1>12. Regular'
  BY <1>0, <1>2, <1>3, <1>9, <1>11 DEF Regular, Unlit
<1> QED BY <1>2, <1>3, <1>4, <1>6, <1>7, <1>8, <1>12, Keeps

(* The register is stale only when the threads have met.                    *)
LEMMA DecrementKeeps == DarkInv /\ Decrement => DarkInv'
<1> SUFFICES ASSUME DarkInv, Decrement PROVE DarkInv'
  OBVIOUS
<1>0. Numbers /\ Words /\ Pixels /\ Switches /\ Steps /\ Apart /\ Regular
  BY Known
<1>1. framesUntilDark \in Int /\ framesUntilDark <= Settle /\ settling \in Int
      /\ settling >= 0 /\ Todo \in Int
  BY <1>0, Integral
<1>2. /\ dataPC = "decrement" /\ dataPC' = "test"
      /\ framesUntilDark' = reg - 1 /\ reg' = 0
      /\ UNCHANGED <<accumulated, accumulation, darkFrame, buffered,
                     recordState, wait, auto, obc, settling, picture, mainPC, job,
                     requests, asker, trouble, outcome>>
  BY DEF Decrement, record, light, quiet, rest
<1>3. reg \in Int /\ reg >= 1 /\ reg <= Settle
  <2>1. reg \in 1..Settle
    BY <1>0, <1>2 DEF Steps
  <2> QED BY <2>1, Times
<1>4. Numbers'
  <2>1. framesUntilDark' \in -1..Settle /\ reg' \in Int
    BY <1>2, <1>3, Times
  <2> QED BY <1>0, <1>2, <2>1 DEF Numbers
<1>5. Words' /\ Pixels' /\ Switches'
  BY <1>0, <1>2 DEF Words, Pixels, Switches, DataSteps
<1>6. Steps'
  BY <1>0, <1>2 DEF Steps
<1>7. "disturbed" \notin trouble =>
        reg = framesUntilDark /\ framesUntilDark >= 1
        /\ framesUntilDark' = framesUntilDark - 1
  BY <1>0, <1>2, <1>3 DEF Apart
<1>8. (Calm' <=> Calm) /\ (Counted => Counted') /\ Todo' = Todo
  BY <1>2 DEF Calm, Clearing, Counted, More1, More2, Todo
<1>9. Apart'
  <2> SUFFICES ASSUME "disturbed" \notin trouble
               PROVE  /\ ~(Clearing(mainPC') /\ Clearing(dataPC'))
                      /\ Adding' => framesUntilDark' = 0
                      /\ dataPC' = "decrement" => reg' = framesUntilDark'
                      /\ ClearedBy(mainPC)' /\ ClearedBy(dataPC)' /\ (Calm' => Counted')
    BY <1>2 DEF Apart
  <2>1. ClearedBy(mainPC) /\ (Calm => Counted)
    BY <1>0, <1>1, <1>7 DEF Apart
  <2>2. ClearedBy(mainPC)' /\ ClearedBy(dataPC)'
    BY <1>2, <2>1 DEF ClearedBy
  <2>3. ~Clearing(dataPC') /\ ~Adding' /\ dataPC' # "decrement"
    BY <1>2 DEF Clearing, Adding
  <2> QED BY <1>8, <2>1, <2>2, <2>3
<1>10. ASSUME trouble' = {}, framesUntilDark' >= 0
       PROVE  (Calm' => Unlit') /\ (Todo' > 0 => InTime')
  <2>1. trouble = {} /\ framesUntilDark >= 1 /\ framesUntilDark' = framesUntilDark - 1
    BY <1>2, <1>7, <1>10
  <2>2. (Calm => Unlit) /\ (Todo > 0 => InTime)
    BY <1>0, <1>1, <2>1 DEF Regular
  <2>3. Calm' => Unlit'
    BY <1>2, <1>8, <2>2 DEF Unlit
  <2>4. ASSUME Todo > 0 PROVE InTime'
    <3>1. /\ settling = 0 \/ settling + 2 <= framesUntilDark
          /\ picture = "dark" \/ framesUntilDark >= 2
          /\ obc = "dark"
          /\ recordState \in {"DARK1", "DARK2"} /\ asker # "combo" => wait >= Frames
      BY <1>2, <2>2, <2>4 DEF InTime
    <3>2. /\ settling = 0 \/ settling + 1 <= framesUntilDark'
          /\ picture = "dark" \/ framesUntilDark' >= 1
      BY <1>1, <2>1, <3>1
    <3>3. Frames = framesUntilDark - 1 + Todo
      BY <1>1, <1>2, <2>1 DEF Frames, Adding
    <3>4. Frames' = framesUntilDark' + Todo
      BY <1>2, <1>8 DEF Frames
    <3>5. Frames' = Frames
      BY <2>1, <3>3, <3>4
    <3> QED BY <1>2, <3>1, <3>2, <3>5 DEF InTime
  <2> QED BY <1>8, <2>3, <2>4
<1>11. Regular'
  BY <1>10 DEF Regular
<1> QED BY <1>2, <1>4, <1>5, <1>6, <1>9, <1>11, Keeps

LEMMA TestWaitKeeps == DarkInv /\ TestWait => DarkInv'
<1> SUFFICES ASSUME DarkInv, TestWait PROVE DarkInv'
  OBVIOUS
<1>0. Numbers /\ Words /\ Pixels /\ Switches /\ Steps /\ Apart /\ Regular
  BY Known
<1>1. framesUntilDark \in Int /\ Todo \in Int
  BY <1>0, Integral
<1>2. /\ dataPC = "test"
      /\ UNCHANGED <<framesUntilDark, accumulated, accumulation, darkFrame, buffered,
                     recordState, wait, auto, obc, settling, picture, mainPC, job, reg,
                     requests, asker, trouble, outcome>>
  BY DEF TestWait, memory, record, light, quiet, rest
<1>3. \/ framesUntilDark = 0 /\ dataPC' = "compare"
      \/ framesUntilDark # 0 /\ dataPC' = "state"
  BY DEF TestWait
<1>4. Numbers'
  BY <1>0, <1>2 DEF Numbers
<1>5. dataPC' \in DataSteps
  BY <1>3 DEF DataSteps
<1>6. Words' /\ Pixels' /\ Switches'
  BY <1>0, <1>2, <1>5 DEF Words, Pixels, Switches
<1>7. Steps'
  BY <1>0, <1>2, <1>3 DEF Steps
<1>8. Apart'
  BY <1>0, <1>2, <1>3 DEF Apart, Calm, Clearing, Adding, ClearedBy, Counted, More1, More2
<1>9. Todo' = Todo /\ (Calm' <=> Calm)
  BY <1>0, <1>2, <1>3 DEF Todo, Calm, Clearing
<1>10. Frames' = Frames
  BY <1>2, <1>3, <1>9 DEF Frames, Adding
<1>11. ASSUME InTime PROVE InTime'
  <2>1. framesUntilDark = 0 => picture = "dark"
    BY <1>2, <1>11 DEF InTime
  <2> QED BY <1>2, <1>3, <1>10, <1>11, <2>1 DEF InTime
<1>12. Regular'
  BY <1>0, <1>2, <1>3, <1>9, <1>11 DEF Regular, Unlit
<1> QED BY <1>2, <1>3, <1>4, <1>6, <1>7, <1>8, <1>12, Keeps

-----------------------------------------------------------------------------
(* The data thread adds, counts and divides                                 *)

LEMMA CompareKeeps == DarkInv /\ Compare => DarkInv'
<1> SUFFICES ASSUME DarkInv, Compare PROVE DarkInv'
  OBVIOUS
<1>0. Numbers /\ Words /\ Pixels /\ Switches /\ Steps /\ Apart /\ Regular
  BY Known
<1>1. accumulated \in Int /\ Todo \in Int
  BY <1>0, Integral
<1>2. /\ dataPC = "compare"
      /\ UNCHANGED <<framesUntilDark, accumulated, accumulation, darkFrame, buffered,
                     recordState, wait, auto, obc, settling, picture, mainPC, job, reg,
                     requests, asker, trouble, outcome>>
  BY DEF Compare, memory, record, light, quiet, rest
<1>3. \/ accumulated < Accum /\ dataPC' = "add 1"
      \/ ~(accumulated < Accum) /\ dataPC' = "divide 1"
  BY <1>0, Reached DEF Compare, Numbers
<1>4. Numbers'
  BY <1>0, <1>2 DEF Numbers
<1>5. dataPC' \in DataSteps
  BY <1>3 DEF DataSteps
<1>6. Words' /\ Pixels' /\ Switches'
  BY <1>0, <1>2, <1>5 DEF Words, Pixels, Switches
<1>7. Steps'
  BY <1>0, <1>2, <1>3 DEF Steps
<1>8. Counted => Counted'
  <2> SUFFICES ASSUME Counted PROVE Counted'
    OBVIOUS
  <2>1. /\ accumulation[1].n = accumulated + More1
        /\ accumulation[2].n = accumulated + More2
        /\ accumulated <= Accum
    BY DEF Counted
  <2>2. More1' = More1 /\ More2' = More2
    BY <1>2, <1>3 DEF More1, More2
  <2>3. ASSUME dataPC' = "divide 1" PROVE accumulated = Accum
    <3>1. ~(accumulated < Accum)
      BY <1>3, <2>3
    <3> QED BY <1>1, <2>1, <3>1, Times
  <2> QED BY <1>2, <1>3, <2>1, <2>2, <2>3 DEF Counted
<1>9. Todo' = Todo /\ (Calm' <=> Calm)
  BY <1>0, <1>2, <1>3 DEF Todo, Calm, Clearing
<1>10. Apart'
  BY <1>0, <1>2, <1>3, <1>8, <1>9 DEF Apart, Clearing, Adding, ClearedBy
<1>11. Frames' = Frames
  BY <1>2, <1>3, <1>9 DEF Frames, Adding
<1>12. InTime => InTime'
  BY <1>2, <1>3, <1>11 DEF InTime
<1>13. Regular'
  BY <1>0, <1>2, <1>3, <1>9, <1>12 DEF Regular, Unlit
<1> QED BY <1>2, <1>3, <1>4, <1>6, <1>7, <1>10, <1>13, Keeps

(* Where the data thread is adding or dividing and has not met the main     *)
(* thread, no one clears, and what is left to add is what the count says.   *)
LEMMA Undisturbed ==
  ASSUME DarkInv, Adding, Meets, "disturbed" \notin trouble'
  PROVE  /\ Calm /\ Counted /\ framesUntilDark = 0
         /\ trouble' = trouble /\ Todo = Accum - accumulated
         /\ trouble = {} => Unlit /\ (accumulated < Accum => InTime)
<1>0. Numbers /\ Apart /\ Regular
  BY Known
<1>1. ~Clearing(mainPC) /\ trouble' = trouble
  BY DEF Meets
<1>2. ~Clearing(dataPC)
  BY DEF Adding, Clearing
<1>3. Calm /\ framesUntilDark = 0
  BY <1>0, <1>1, <1>2 DEF Calm, Apart
<1>4. Counted /\ Todo = Accum - accumulated
  BY <1>0, <1>1, <1>3 DEF Apart, Todo
<1>5. trouble = {} => Unlit /\ (Todo > 0 => InTime)
  BY <1>0, <1>3 DEF Regular
<1>6. accumulated \in Int
  BY <1>0, Integral
<1>7. accumulated < Accum => Todo > 0
  BY <1>4, <1>6, Times
<1> QED BY <1>1, <1>3, <1>4, <1>5, <1>7

LEMMA MeetsTyped == ASSUME Words, Meets PROVE trouble' \subseteq Troubles
  BY DEF Words, Meets, Troubles

LEMMA OneIsNotTwo == 1 # 2
  OBVIOUS

LEMMA AddHalfKeeps == ASSUME DarkInv, NEW h \in Halves, AddHalf(h) PROVE DarkInv'
<1>0. Numbers /\ Words /\ Pixels /\ Switches /\ Steps /\ Apart /\ Regular
  BY Known
<1>1. accumulated \in Int /\ Todo \in Int
  BY <1>0, Integral
<1>2. /\ Meets
      /\ UNCHANGED <<framesUntilDark, accumulated, darkFrame, buffered,
                     recordState, wait, auto, obc, settling, picture, mainPC, job, reg,
                     requests, asker, outcome>>
  BY DEF AddHalf, record, light, quiet, rest
<1>3. /\ h = 1 => dataPC = "add 1" /\ dataPC' = "add 2"
      /\ h = 2 => dataPC = "add 2" /\ dataPC' = "count"
      /\ \/ dataPC = "add 1" /\ dataPC' = "add 2"
         \/ dataPC = "add 2" /\ dataPC' = "count"
  <2>1. CASE h = 1
    <3>1. dataPC = "add 1" /\ dataPC' = "add 2"
      BY <2>1 DEF AddHalf
    <3> QED BY <2>1, <3>1, OneIsNotTwo, Zenon
  <2>2. CASE h = 2
    <3>1. dataPC = "add 2" /\ dataPC' = "count"
      BY <2>2 DEF AddHalf
    <3> QED BY <2>2, <3>1, OneIsNotTwo, Zenon
  <2> QED BY <2>1, <2>2 DEF Halves
<1>4. accumulation' = [accumulation EXCEPT
        ![h] = [n |-> accumulation[h].n + 1,
                lit |-> accumulation[h].lit \/ picture = "light"]]
  BY DEF AddHalf
<1>5. accumulation[h] \in Sums /\ accumulation \in [Halves -> Sums]
  BY <1>0 DEF Pixels
<1>6. Pixels'
  <2>1. [n |-> accumulation[h].n + 1,
         lit |-> accumulation[h].lit \/ picture = "light"] \in Sums
    <3>1. accumulation[h].n + 1 \in Nat
      BY <1>5 DEF Sums
    <3>2. (accumulation[h].lit \/ picture = "light") \in BOOLEAN
      OBVIOUS
    <3> QED BY <3>1, <3>2, Zenon DEF Sums
  <2>2. accumulation' \in [Halves -> Sums]
    <3> HIDE DEF Sums
    <3> QED BY <1>4, <1>5, <2>1, Zenon
  <2> QED BY <1>0, <1>2, <2>2 DEF Pixels
<1>7. /\ accumulation'[h].n = accumulation[h].n + 1
      /\ accumulation'[h].lit <=> accumulation[h].lit \/ picture = "light"
      /\ \A g \in Halves \ {h} : accumulation'[g] = accumulation[g]
  BY <1>4, <1>5
<1>8. Numbers'
  BY <1>0, <1>2 DEF Numbers
<1>9. dataPC' \in DataSteps /\ Adding
  BY <1>3 DEF DataSteps, Adding
<1>10. Words' /\ Switches'
  BY <1>0, <1>2, <1>9, MeetsTyped DEF Words, Switches
<1>11. Steps'
  BY <1>0, <1>2, <1>3 DEF Steps
<1>12. ASSUME "disturbed" \notin trouble'
       PROVE  /\ Calm /\ Counted /\ framesUntilDark = 0
              /\ trouble' = trouble /\ Todo = Accum - accumulated
              /\ trouble = {} => Unlit /\ (accumulated < Accum => InTime)
  BY <1>2, <1>9, <1>12, Undisturbed
<1>13. /\ ~Clearing(dataPC) /\ ~Clearing(dataPC') /\ Adding'
       /\ (Calm' <=> Calm) /\ Todo' = Todo
       /\ dataPC' # "decrement" /\ dataPC' \notin {"clear 2", "zero"}
  BY <1>2, <1>3 DEF Clearing, Adding, Calm, Todo
<1>14. Counted => Counted'
  <2> SUFFICES ASSUME Counted PROVE Counted'
    OBVIOUS
  <2>1. /\ accumulation[1].n = accumulated + More1
        /\ accumulation[2].n = accumulated + More2
        /\ accumulated < Accum /\ accumulated <= Accum
    BY <1>3 DEF Counted
  <2>2. CASE h = 1
    <3>0. dataPC = "add 1" /\ dataPC' = "add 2"
      BY <1>3, <2>2
    <3>1. More1 = 0 /\ More2 = 0 /\ More1' = 1 /\ More2' = 0
      BY <3>0 DEF More1, More2
    <3>2. accumulation'[2] = accumulation[2]
      BY <1>7, <2>2 DEF Halves
    <3>3. accumulation'[1].n = accumulated + 1
      BY <1>1, <1>7, <2>1, <2>2, <3>1
    <3> QED BY <1>2, <1>3, <2>1, <2>2, <3>1, <3>2, <3>3 DEF Counted
  <2>3. CASE h = 2
    <3>0. dataPC = "add 2" /\ dataPC' = "count"
      BY <1>3, <2>3
    <3>1. More1 = 1 /\ More2 = 0 /\ More1' = 1 /\ More2' = 1
      BY <3>0 DEF More1, More2
    <3>2. accumulation'[1] = accumulation[1]
      BY <1>7, <2>3 DEF Halves
    <3>3. accumulation'[2].n = accumulated + 1
      BY <1>1, <1>7, <2>1, <2>3, <3>1
    <3> QED BY <1>2, <1>3, <2>1, <2>3, <3>1, <3>2, <3>3 DEF Counted
  <2> QED BY <2>2, <2>3 DEF Halves
<1>15. Apart'
  <2> SUFFICES ASSUME "disturbed" \notin trouble'
               PROVE  /\ framesUntilDark' = 0 /\ Calm' /\ Counted'
    BY <1>13 DEF Apart, Calm, Clearing, ClearedBy
  <2> QED BY <1>2, <1>12, <1>13, <1>14
<1>16. Regular'
  <2> SUFFICES ASSUME trouble' = {} PROVE (Calm' => Unlit') /\ (Todo' > 0 => InTime')
    BY DEF Regular
  <2>1. /\ Counted /\ framesUntilDark = 0 /\ trouble = {}
        /\ Unlit /\ (accumulated < Accum => InTime)
    BY <1>12
  <2>2. accumulated < Accum
    BY <1>3, <2>1 DEF Counted
  <2>3. InTime /\ picture = "dark"
    BY <1>3, <2>1, <2>2 DEF InTime
  <2>4. Unlit'
    BY <1>3, <1>7, <2>1, <2>3 DEF Unlit, Halves
  <2>5. Frames' = Frames
    BY <1>2, <1>3, <1>13 DEF Frames, Adding
  <2>6. InTime'
    BY <1>2, <1>3, <2>3, <2>5 DEF InTime
  <2> QED BY <2>4, <2>6
<1> QED BY <1>2, <1>3, <1>6, <1>8, <1>10, <1>11, <1>15, <1>16, Keeps

LEMMA ReadCountKeeps == DarkInv /\ ReadCount => DarkInv'
<1> SUFFICES ASSUME DarkInv, ReadCount PROVE DarkInv'
  OBVIOUS
<1>0. Numbers /\ Words /\ Pixels /\ Switches /\ Steps /\ Apart /\ Regular
  BY Known
<1>1. /\ dataPC = "count" /\ dataPC' = "increment" /\ reg' = accumulated /\ Meets
      /\ UNCHANGED <<framesUntilDark, accumulated, accumulation, darkFrame, buffered,
                     recordState, wait, auto, obc, settling, picture, mainPC, job,
                     requests, asker, outcome>>
  BY DEF ReadCount, memory, record, light, quiet, rest
<1>2. Numbers' /\ reg' \in Nat
  BY <1>0, <1>1 DEF Numbers
<1>3. dataPC' \in DataSteps /\ Adding
  BY <1>1 DEF DataSteps, Adding
<1>4. Words' /\ Pixels' /\ Switches'
  BY <1>0, <1>1, <1>3, MeetsTyped DEF Words, Pixels, Switches
<1>5. Steps'
  BY <1>0, <1>1, <1>2 DEF Steps
<1>6. ASSUME "disturbed" \notin trouble'
      PROVE  /\ Calm /\ Counted /\ framesUntilDark = 0
             /\ trouble' = trouble /\ Todo = Accum - accumulated
             /\ trouble = {} => Unlit /\ (accumulated < Accum => InTime)
  BY <1>1, <1>3, <1>6, Undisturbed
<1>7. /\ ~Clearing(dataPC') /\ (Calm' <=> Calm) /\ Todo' = Todo
  BY <1>1 DEF Clearing, Calm, Todo
<1>8. Counted => Counted'
  BY <1>1 DEF Counted, More1, More2
<1>9. Apart'
  <2> SUFFICES ASSUME "disturbed" \notin trouble'
               PROVE  /\ framesUntilDark' = 0 /\ Calm' /\ Counted'
    BY <1>1, <1>7 DEF Apart, Calm, Clearing, ClearedBy
  <2> QED BY <1>1, <1>6, <1>7, <1>8
<1>10. Regular'
  <2> SUFFICES ASSUME trouble' = {} PROVE (Calm' => Unlit') /\ (Todo' > 0 => InTime')
    BY DEF Regular
  <2>1. /\ Counted /\ Unlit /\ (accumulated < Accum => InTime)
    BY <1>6
  <2>2. InTime
    BY <1>1, <2>1 DEF Counted
  <2>3. Frames' = Frames
    BY <1>1, <1>7 DEF Frames, Adding
  <2> QED BY <1>1, <2>1, <2>2, <2>3 DEF InTime, Unlit
<1> QED BY <1>1, <1>2, <1>4, <1>5, <1>9, <1>10, Keeps

LEMMA IncrementKeeps == DarkInv /\ Increment => DarkInv'
<1> SUFFICES ASSUME DarkInv, Increment PROVE DarkInv'
  OBVIOUS
<1>0. Numbers /\ Words /\ Pixels /\ Switches /\ Steps /\ Apart /\ Regular
  BY Known
<1>1. /\ dataPC = "increment" /\ dataPC' = "state" /\ Meets
      /\ accumulated' = reg + 1 /\ reg' = 0
      /\ UNCHANGED <<framesUntilDark, accumulation, darkFrame, buffered,
                     recordState, wait, auto, obc, settling, picture, mainPC, job,
                     requests, asker, outcome>>
  BY DEF Increment, record, light, quiet, rest
<1>2. reg \in Nat
  BY <1>0, <1>1 DEF Steps
<1>3. Numbers'
  <2>1. accumulated' \in Nat /\ reg' \in Int
    BY <1>1, <1>2
  <2> QED BY <1>0, <1>1, <2>1 DEF Numbers
<1>4. dataPC' \in DataSteps /\ Adding
  BY <1>1 DEF DataSteps, Adding
<1>5. Words' /\ Pixels' /\ Switches'
  BY <1>0, <1>1, <1>4, MeetsTyped DEF Words, Pixels, Switches
<1>6. Steps'
  BY <1>0, <1>1 DEF Steps
<1>7. ASSUME "disturbed" \notin trouble'
      PROVE  /\ Calm /\ Counted /\ framesUntilDark = 0
             /\ trouble' = trouble /\ Todo = Accum - accumulated
             /\ trouble = {} => Unlit /\ (accumulated < Accum => InTime)
  BY <1>1, <1>4, <1>7, Undisturbed
<1>8. ~Clearing(dataPC') /\ (Calm' <=> Calm)
  BY <1>1 DEF Clearing, Calm
<1>9. accumulated \in Int
  BY <1>0, Integral
<1>10. ASSUME Counted
       PROVE  Counted' /\ accumulated' = accumulated + 1 /\ accumulated < Accum
  <2>1. /\ accumulation[1].n = accumulated + 1 /\ accumulation[2].n = accumulated + 1
        /\ accumulated < Accum /\ reg = accumulated
    BY <1>1, <1>10 DEF Counted, More1, More2
  <2>2. accumulated' = accumulated + 1 /\ accumulated' <= Accum
    BY <1>1, <1>9, <2>1, Times
  <2>3. More1' = 0 /\ More2' = 0
    BY <1>1 DEF More1, More2
  <2>4. /\ accumulation'[1].n = accumulated' + 0
        /\ accumulation'[2].n = accumulated' + 0
    BY <1>1, <1>9, <2>1, <2>2
  <2> QED BY <1>1, <2>1, <2>2, <2>3, <2>4 DEF Counted
<1>11. Apart'
  <2> SUFFICES ASSUME "disturbed" \notin trouble'
               PROVE  /\ framesUntilDark' = 0 /\ Calm' /\ Counted'
    BY <1>1, <1>8 DEF Apart, Calm, Clearing, ClearedBy
  <2> QED BY <1>1, <1>7, <1>8, <1>10
<1>12. Regular'
  <2> SUFFICES ASSUME trouble' = {} PROVE (Calm' => Unlit') /\ (Todo' > 0 => InTime')
    BY DEF Regular
  <2>1. /\ Calm /\ Counted /\ Unlit /\ (accumulated < Accum => InTime)
        /\ framesUntilDark = 0 /\ Todo = Accum - accumulated
    BY <1>7
  <2>2. InTime /\ accumulated' = accumulated + 1
    BY <1>10, <2>1
  <2>3. Todo' = Accum - accumulated'
    BY <1>8, <2>1 DEF Todo
  <2>4. Frames' = Todo' + 1
    BY <1>1, <2>1 DEF Frames
  <2>5. Frames = 0 + Todo
    BY <1>1, <2>1 DEF Frames, Adding
  <2>6. Frames' = Frames
    BY <1>9, <2>1, <2>2, <2>3, <2>4, <2>5, Times
  <2>7. InTime'
    BY <1>1, <2>2, <2>6 DEF InTime
  <2> QED BY <1>1, <2>1, <2>7 DEF Unlit
<1> QED BY <1>1, <1>3, <1>5, <1>6, <1>11, <1>12, Keeps

LEMMA DivideHalfKeeps == ASSUME DarkInv, NEW h \in Halves, DivideHalf(h) PROVE DarkInv'
<1> DEFINE mean == [level |-> Quotient(accumulation[h].n), lit |-> accumulation[h].lit]
<1>0. Numbers /\ Words /\ Pixels /\ Switches /\ Steps /\ Apart /\ Regular
  BY Known
<1>1. accumulated \in Int
  BY <1>0, Integral
<1>2. /\ Meets /\ darkFrame' = [darkFrame EXCEPT ![h] = mean]
      /\ UNCHANGED <<framesUntilDark, accumulated, accumulation, buffered,
                     recordState, wait, auto, obc, settling, picture, mainPC, job, reg,
                     requests, asker, outcome>>
  BY DEF DivideHalf, record, light, quiet, rest
<1>3. /\ h = 1 => dataPC = "divide 1" /\ dataPC' = "divide 2"
      /\ h = 2 => dataPC = "divide 2" /\ dataPC' = "done"
      /\ \/ dataPC = "divide 1" /\ dataPC' = "divide 2"
         \/ dataPC = "divide 2" /\ dataPC' = "done"
  <2>1. CASE h = 1
    <3>1. dataPC = "divide 1" /\ dataPC' = "divide 2"
      BY <2>1 DEF DivideHalf
    <3> QED BY <2>1, <3>1, OneIsNotTwo, Zenon
  <2>2. CASE h = 2
    <3>1. dataPC = "divide 2" /\ dataPC' = "done"
      BY <2>2 DEF DivideHalf
    <3> QED BY <2>2, <3>1, OneIsNotTwo, Zenon
  <2> QED BY <2>1, <2>2 DEF Halves
<1>4. Pixels'
  <2>1. accumulation[h].n \in Nat /\ accumulation[h].lit \in BOOLEAN
    BY <1>0 DEF Pixels, Sums
  <2>2. mean \in Means
    BY <2>1, QuotientBounds DEF Means
  <2> QED BY <1>0, <1>2, <2>2, Zenon DEF Pixels
<1>5. \A g \in Halves \ {h} : darkFrame'[g] = darkFrame[g]
  BY <1>0, <1>2, Zenon DEF Pixels
<1>16. /\ darkFrame'[h].level = Quotient(accumulation[h].n)
       /\ darkFrame'[h].lit = accumulation[h].lit
  <2>1. darkFrame'[h] = mean
    BY <1>0, <1>2, Zenon DEF Pixels
  <2>2. mean.level = Quotient(accumulation[h].n) /\ mean.lit = accumulation[h].lit
    OBVIOUS
  <2> QED BY <2>1, <2>2, Zenon
<1>6. Numbers'
  BY <1>0, <1>2 DEF Numbers
<1>7. dataPC' \in DataSteps /\ Adding
  BY <1>3 DEF DataSteps, Adding
<1>8. Words' /\ Switches'
  BY <1>0, <1>2, <1>7, MeetsTyped DEF Words, Switches
<1>9. Steps'
  BY <1>0, <1>2, <1>3 DEF Steps
<1>10. ASSUME "disturbed" \notin trouble'
       PROVE  /\ Calm /\ Counted /\ framesUntilDark = 0
              /\ trouble' = trouble /\ Todo = Accum - accumulated
              /\ trouble = {} => Unlit
  BY <1>2, <1>7, <1>10, Undisturbed
<1>11. /\ ~Clearing(dataPC') /\ (Calm' <=> Calm) /\ Todo' = Todo
       /\ dataPC' # "decrement" /\ dataPC' \notin {"clear 2", "zero"}
  BY <1>2, <1>3 DEF Clearing, Calm, Todo
<1>12. ASSUME Counted PROVE Counted' /\ accumulated = Accum
  <2>1. /\ accumulation[1].n = accumulated + 0 /\ accumulation[2].n = accumulated + 0
        /\ accumulated = Accum
    BY <1>3, <1>12 DEF Counted, More1, More2
  <2>2. More1' = 0 /\ More2' = 0
    BY <1>3 DEF More1, More2
  <2>3. accumulation[1].n = Accum /\ accumulation[2].n = Accum
    BY <1>1, <2>1
  <2>6. /\ accumulation'[1].n = accumulated' + 0 /\ accumulation'[2].n = accumulated' + 0
        /\ accumulated' <= Accum /\ accumulated' = Accum
    BY <1>1, <1>2, <2>1, Times
  <2>4. CASE h = 1
    <3>1. dataPC' = "divide 2" /\ darkFrame'[1].level = Quotient(Accum)
      BY <1>3, <1>16, <2>3, <2>4, Zenon, OneIsNotTwo
    <3> QED BY <2>1, <2>2, <2>6, <3>1 DEF Counted
  <2>5. CASE h = 2
    <3>1. dataPC = "divide 2" /\ dataPC' = "done" /\ darkFrame'[1] = darkFrame[1]
      BY <1>3, <1>5, <2>5 DEF Halves
    <3>3. darkFrame'[2].level = Quotient(Accum)
      BY <1>16, <2>3, <2>5, Zenon
    <3>2. darkFrame'[1].level = Quotient(Accum)
      BY <1>12, <3>1 DEF Counted
    <3> QED BY <2>1, <2>2, <2>6, <3>1, <3>2, <3>3 DEF Counted
  <2> QED BY <2>1, <2>4, <2>5 DEF Halves
<1>13. Apart'
  <2> SUFFICES ASSUME "disturbed" \notin trouble'
               PROVE  /\ framesUntilDark' = 0 /\ Calm' /\ Counted'
    BY <1>11 DEF Apart, Calm, Clearing, ClearedBy
  <2> QED BY <1>2, <1>10, <1>11, <1>12
<1>14. Regular'
  <2> SUFFICES ASSUME trouble' = {} PROVE (Calm' => Unlit') /\ (Todo' > 0 => InTime')
    BY DEF Regular
  <2>1. Counted /\ Unlit /\ Todo = Accum - accumulated
    BY <1>10
  <2>2. Todo' = 0
    <3>1. Todo' = Accum - accumulated /\ accumulated = Accum
      BY <1>11, <1>12, <2>1
    <3> QED BY <3>1, Times
  <2>3. Unlit'
    <3>1. CASE h = 1
      <4>1. dataPC' = "divide 2" /\ darkFrame'[1].lit = accumulation[1].lit
        BY <1>3, <1>16, <3>1, Zenon, OneIsNotTwo
      <4> QED BY <1>2, <2>1, <4>1 DEF Unlit
    <3>2. CASE h = 2
      <4>1. dataPC = "divide 2" /\ darkFrame'[1] = darkFrame[1]
        BY <1>3, <1>5, <3>2 DEF Halves
      <4>2. darkFrame'[2].lit = accumulation[2].lit
        BY <1>16, <3>2, Zenon
      <4> QED BY <1>2, <2>1, <4>1, <4>2 DEF Unlit
    <3> QED BY <3>1, <3>2 DEF Halves
  <2> QED BY <2>2, <2>3
<1>15. ExactMean' /\ OnlyDark'
  <2>1. ~Divided'
    BY <1>3 DEF Divided
  <2> QED BY <2>1 DEF ExactMean, OnlyDark
<1> QED BY <1>4, <1>6, <1>8, <1>9, <1>13, <1>14, <1>15, TypesNext DEF DarkInv

(* The dark frame is there, and with it what is known of its sums.          *)
LEMMA DoneKeeps == DarkInv /\ Done => DarkInv'
<1> SUFFICES ASSUME DarkInv, Done PROVE DarkInv'
  OBVIOUS
<1>0. Numbers /\ Words /\ Pixels /\ Switches /\ Steps /\ Apart /\ Regular
  BY Known
<1>1. /\ dataPC = "done" /\ dataPC' = "state" /\ framesUntilDark' = -1
      /\ buffered' = TRUE /\ trouble' = {} /\ asker' = "none"
      /\ outcome' = IF Clearing(mainPC) THEN trouble \cup {"disturbed"} ELSE trouble
      /\ UNCHANGED <<accumulated, accumulation, darkFrame, reg,
                     recordState, wait, auto, obc, settling, picture, mainPC, job,
                     requests>>
  BY DEF Done, record, light, quiet
<1>2. Numbers'
  <2>1. framesUntilDark' \in -1..Settle
    BY <1>1, Times
  <2> QED BY <1>0, <1>1, <2>1 DEF Numbers
<1>3. outcome' \subseteq Troubles /\ trouble' \subseteq Troubles
  BY <1>0, <1>1 DEF Words, Troubles
<1>4. Words' /\ Pixels' /\ Switches'
  BY <1>0, <1>1, <1>3 DEF Words, Pixels, Switches, DataSteps
<1>5. Steps'
  BY <1>0, <1>1 DEF Steps
<1>6. Apart' /\ Regular'
  <2>1. ~(framesUntilDark' >= 0)
    BY <1>1
  <2> QED BY <1>1, <2>1 DEF Apart, Regular, Clearing, Adding
<1>7. ASSUME "disturbed" \notin outcome'
      PROVE  /\ "disturbed" \notin trouble /\ outcome' = trouble
             /\ Calm /\ framesUntilDark = 0
  <2>1. ~Clearing(mainPC) /\ outcome' = trouble
    BY <1>1, <1>7
  <2>2. Calm /\ Adding
    BY <1>1, <2>1 DEF Calm, Clearing, Adding
  <2> QED BY <1>0, <1>7, <2>1, <2>2 DEF Apart
<1>8. ExactMean'
  <2> SUFFICES ASSUME "disturbed" \notin outcome', NEW h \in Halves
               PROVE  darkFrame'[h].level = Quotient(Accum)
    BY DEF ExactMean
  <2>1. Counted
    BY <1>0, <1>7 DEF Apart
  <2> QED BY <1>1, <2>1 DEF Counted, Halves
<1>9. OnlyDark'
  <2> SUFFICES ASSUME outcome' = {}, NEW h \in Halves PROVE ~darkFrame'[h].lit
    BY DEF OnlyDark
  <2>1. Unlit
    BY <1>0, <1>7 DEF Regular
  <2> QED BY <1>1, <2>1 DEF Unlit, Halves
<1> QED BY <1>2, <1>4, <1>5, <1>6, <1>8, <1>9, TypesNext DEF DarkInv

-----------------------------------------------------------------------------
(* The record state and the light                                          *)

\* Nothing but the light, the record state and the requests may have changed,
\* nor has the light, and the calibration has frames enough.
LEMMA InTimeStays ==
  ASSUME InTime, framesUntilDark >= 0,
         UNCHANGED <<framesUntilDark, obc, settling, picture>>,
         dataPC' = dataPC \/ (dataPC \in Outside /\ dataPC' \in Outside),
         recordState' \in {"DARK1", "DARK2"} /\ asker' # "combo" => wait' >= Frames'
  PROVE  InTime'
  BY DEF InTime, Outside

LEMMA ShineTyped ==
  ASSUME NEW what \in {"dark", "light"}, NEW regular \in BOOLEAN, Shine(what, regular),
         Numbers, Words
  PROVE  /\ obc' \in {"dark", "light"} /\ settling' \in 0..Dim
         /\ trouble \subseteq trouble' /\ trouble' \subseteq Troubles
<1>1. settling' \in 0..Dim
  BY Times DEF Shine, Numbers
<1>2. trouble \subseteq trouble' /\ trouble' \subseteq Troubles
  BY DEF Shine, Words, Troubles
<1> QED BY <1>1, <1>2 DEF Shine

(* Light that is regular or comes when no dark frame is wanted is no        *)
(* trouble; all other light is told of.                                    *)
LEMMA NoLight ==
  ASSUME NEW what \in {"dark", "light"}, Shine(what, FALSE), obc = "dark",
         framesUntilDark >= 0, trouble' = {}
  PROVE  UNCHANGED <<obc, settling>>
  BY DEF Shine

LEMMA StaysDark ==
  ASSUME NEW regular, Shine("dark", regular), obc = "dark"
  PROVE  UNCHANGED <<obc, settling>> /\ trouble' = trouble
  BY DEF Shine

LEMMA LitTyped ==
  ASSUME NEW regular \in BOOLEAN, Lit(regular), Numbers, Words
  PROVE  /\ obc' \in {"dark", "light"} /\ settling' \in 0..Dim
         /\ trouble \subseteq trouble' /\ trouble' \subseteq Troubles
<1>1. CASE Shine("light", regular)
  BY <1>1, ShineTyped
<1>2. CASE UNCHANGED <<obc, settling, trouble>>
  BY <1>2 DEF Numbers, Words
<1> QED BY <1>1, <1>2 DEF Lit

LEMMA NotLit ==
  ASSUME Lit(FALSE), obc = "dark", framesUntilDark >= 0, trouble' = {}
  PROVE  UNCHANGED <<obc, settling>>
  BY NoLight DEF Lit

LEMMA NoChangeKeeps == DarkInv /\ NoChange => DarkInv'
<1> SUFFICES ASSUME DarkInv, NoChange PROVE DarkInv'
  OBVIOUS
<1>0. Numbers /\ Words /\ Switches /\ Steps
  BY Known
<1>1. /\ dataPC = "state" /\ dataPC' = "frame" /\ recordState \notin {"DARK1", "DARK2"}
      /\ UNCHANGED <<framesUntilDark, accumulated, accumulation, darkFrame, buffered,
                     recordState, wait, auto, obc, settling, picture, mainPC, job, reg,
                     requests, asker, trouble, outcome>>
  BY DEF NoChange, memory, record, light, history
<1>2. Numbers' /\ Words' /\ auto' \in BOOLEAN
  BY <1>0, <1>1 DEF Numbers, Words, Switches, DataSteps
<1>3. Steps'
  BY <1>0, <1>1 DEF Steps
<1>4. dataPC \in Outside /\ dataPC' \in Outside
  BY <1>1 DEF Outside
<1>5. trouble' = {} /\ framesUntilDark >= 0 /\ Todo > 0 /\ InTime => InTime'
  BY <1>1, <1>4, InTimeStays
<1> QED BY <1>1, <1>2, <1>3, <1>4, <1>5, AsideKeeps

(* When a calibration is over, so is the sum, unless trouble tells why not. *)
LEMMA CountDownKeeps == DarkInv /\ CountDown => DarkInv'
<1> SUFFICES ASSUME DarkInv, CountDown PROVE DarkInv'
  OBVIOUS
<1>0. Numbers /\ Words /\ Switches /\ Steps
  BY Known
<1>1. /\ dataPC = "state" /\ dataPC' = "frame" /\ recordState \in {"DARK1", "DARK2"}
      /\ wait' = wait - 1
      /\ UNCHANGED <<framesUntilDark, accumulated, accumulation, darkFrame, buffered,
                     auto, picture, mainPC, job, reg, requests, asker, outcome>>
  BY DEF CountDown, memory
<1>2. \/ wait' # 0 /\ UNCHANGED <<recordState, obc, settling, trouble>>
      \/ /\ wait' = 0 /\ recordState' \in {"SCIENCE", "CAL", "NOT_RECORDING"}
         /\ Lit(asker # "combo")
  BY DEF CountDown
<1>3. wait \in Int /\ wait >= 1 /\ wait <= Period
  <2>1. wait \in 0..Period /\ wait >= 1
    BY <1>0, <1>1 DEF Numbers, Steps
  <2> QED BY <2>1, Times
<1>4. wait' \in 0..Period
  BY <1>1, <1>3, Times
<1>5. /\ obc' \in {"dark", "light"} /\ settling' \in 0..Dim
      /\ trouble \subseteq trouble' /\ trouble' \subseteq Troubles
  <2>1. CASE UNCHANGED <<recordState, obc, settling, trouble>>
    BY <1>0, <2>1 DEF Numbers, Words
  <2>2. CASE Lit(asker # "combo")
    BY <1>0, <2>2, LitTyped
  <2> QED BY <1>2, <2>1, <2>2
<1>6. Numbers'
  BY <1>0, <1>1, <1>4, <1>5 DEF Numbers
<1>7. recordState' \in {"NOT_RECORDING", "DARK1", "SCIENCE", "DARK2", "CAL"}
      /\ dataPC' \in DataSteps
  BY <1>0, <1>1, <1>2 DEF Words, DataSteps
<1>8. Words' /\ auto' \in BOOLEAN
  BY <1>0, <1>1, <1>5, <1>7 DEF Words, Switches
<1>9. Steps'
  <2>1. recordState' \in {"DARK1", "DARK2"} => wait' >= 1
    BY <1>1, <1>2, <1>3
  <2> QED BY <1>0, <1>1, <2>1 DEF Steps
<1>10. dataPC \in Outside /\ dataPC' \in Outside
  BY <1>1 DEF Outside
<1>11. ASSUME trouble' = {}, framesUntilDark >= 0, Todo > 0, InTime PROVE InTime'
  <2>1. framesUntilDark \in Int /\ Todo \in Int
    BY <1>0, Integral
  <2>2. obc = "dark" /\ (asker # "combo" => wait >= Frames)
    BY <1>1, <1>11 DEF InTime
  <2>3. Frames = IF framesUntilDark = 0 THEN Todo + 1 ELSE framesUntilDark + Todo
    BY <1>1 DEF Frames
  <2>4. Todo' = Todo
    BY <1>1 DEF Todo, Calm, Clearing
  <2>5. Frames' = IF framesUntilDark = 0 THEN Todo ELSE framesUntilDark - 1 + Todo
    BY <1>1, <2>4 DEF Frames, Adding
  <2>6. Frames' = Frames - 1 /\ Frames >= 2 /\ Frames \in Int
    BY <1>11, <2>1, <2>3, <2>5
  <2>7. CASE wait' # 0 /\ UNCHANGED <<recordState, obc, settling, trouble>>
    <3>1. asker # "combo" => wait' >= Frames'
      BY <1>1, <1>3, <2>2, <2>6
    <3> QED BY <1>1, <1>10, <1>11, <2>7, <3>1, InTimeStays
  <2>8. CASE /\ wait' = 0 /\ recordState' \in {"SCIENCE", "CAL", "NOT_RECORDING"}
             /\ Lit(asker # "combo")
    <3>1. wait = 1
      BY <1>1, <1>3, <2>8
    <3>2. asker = "combo"
      BY <2>2, <2>6, <3>1
    <3>3. UNCHANGED <<obc, settling>>
      BY <1>11, <2>2, <2>8, <3>2, NotLit
    <3> QED BY <1>1, <1>10, <1>11, <2>8, <3>3, InTimeStays
  <2> QED BY <1>2, <2>7, <2>8
<1> QED BY <1>1, <1>5, <1>6, <1>8, <1>9, <1>10, <1>11, AsideKeeps

LEMMA StopKeeps == DarkInv /\ Stop => DarkInv'
<1> SUFFICES ASSUME DarkInv, Stop PROVE DarkInv'
  OBVIOUS
<1>0. Numbers /\ Words /\ Switches /\ Steps
  BY Known
<1>1. /\ dataPC = "state"
      /\ \/ recordState' = "DARK2" /\ wait' = Period /\ dataPC' = "darken"
         \/ recordState' = "CAL" /\ wait' = wait /\ dataPC' = "frame"
      /\ requests < MaxRequests /\ requests' = requests + 1
      /\ UNCHANGED <<framesUntilDark, accumulated, accumulation, darkFrame, buffered,
                     auto, obc, settling, picture, mainPC, job, reg, asker, trouble,
                     outcome>>
  BY DEF Stop, memory, light, history
<1>2. Period \in 0..Period /\ Period >= 1 /\ Settle + Accum <= Period
  BY Times
<1>3. Numbers'
  <2>1. requests' \in 0..MaxRequests
    BY <1>0, <1>1, Times DEF Numbers
  <2>2. wait' \in 0..Period
    BY <1>0, <1>1, <1>2 DEF Numbers
  <2> QED BY <1>0, <1>1, <2>1, <2>2 DEF Numbers
<1>4. recordState' \in {"NOT_RECORDING", "DARK1", "SCIENCE", "DARK2", "CAL"}
      /\ dataPC' \in DataSteps
  BY <1>1 DEF DataSteps
<1>5. Words' /\ auto' \in BOOLEAN
  BY <1>0, <1>1, <1>4 DEF Words, Switches
<1>6. Steps'
  <2>1. recordState' \in {"DARK1", "DARK2"} => wait' = Period
    BY <1>1
  <2>2. wait' = Period => wait' >= 1
    BY <1>2
  <2>3. dataPC' = "darken" => recordState' = "DARK2" /\ wait' = Period
    BY <1>1
  <2> QED BY <1>0, <1>1, <2>1, <2>2, <2>3 DEF Steps
<1>7. dataPC \in Outside /\ dataPC' \in Outside
  BY <1>1 DEF Outside
<1>8. ASSUME framesUntilDark >= 0, InTime PROVE InTime'
  <2>1. recordState' \in {"DARK1", "DARK2"} => wait' >= Frames'
    BY <1>1, <1>3, <1>8, Enough
  <2> QED BY <1>1, <1>7, <1>8, <2>1, InTimeStays
<1> QED BY <1>1, <1>3, <1>5, <1>6, <1>7, <1>8, AsideKeeps

LEMMA Darken2Keeps == DarkInv /\ Darken2 => DarkInv'
<1> SUFFICES ASSUME DarkInv, Darken2 PROVE DarkInv'
  OBVIOUS
<1>0. Numbers /\ Words /\ Switches /\ Steps
  BY Known
<1>1. /\ dataPC = "darken" /\ dataPC' = "ask"
      /\ UNCHANGED <<framesUntilDark, accumulated, accumulation, darkFrame, buffered,
                     recordState, wait, auto, picture, mainPC, job, reg, requests,
                     asker, outcome>>
  BY DEF Darken2, memory, record
<1>2. Shine("dark", TRUE) \/ UNCHANGED <<obc, settling, trouble>>
  BY DEF Darken2
<1>3. /\ obc' \in {"dark", "light"} /\ settling' \in 0..Dim
      /\ trouble \subseteq trouble' /\ trouble' \subseteq Troubles
  <2>1. CASE Shine("dark", TRUE)
    BY <1>0, <2>1, ShineTyped
  <2>2. CASE UNCHANGED <<obc, settling, trouble>>
    BY <1>0, <2>2 DEF Numbers, Words
  <2> QED BY <1>2, <2>1, <2>2
<1>4. Numbers'
  BY <1>0, <1>1, <1>3 DEF Numbers
<1>5. Words' /\ auto' \in BOOLEAN
  BY <1>0, <1>1, <1>3 DEF Words, Switches, DataSteps
<1>6. Steps'
  BY <1>0, <1>1 DEF Steps
<1>7. dataPC \in Outside /\ dataPC' \in Outside
  BY <1>1 DEF Outside
<1>8. ASSUME framesUntilDark >= 0, InTime PROVE InTime'
  <2>1. UNCHANGED <<obc, settling>>
    BY <1>2, <1>8, StaysDark DEF InTime
  <2>2. recordState' \in {"DARK1", "DARK2"} => wait' >= Frames'
    BY <1>0, <1>1, <1>4, <1>8, Enough DEF Steps
  <2> QED BY <1>1, <1>7, <1>8, <2>1, <2>2, InTimeStays
<1> QED BY <1>1, <1>3, <1>4, <1>5, <1>6, <1>7, <1>8, AsideKeeps

LEMMA EndRecordingKeeps == DarkInv /\ EndRecording => DarkInv'
<1> SUFFICES ASSUME DarkInv, EndRecording PROVE DarkInv'
  OBVIOUS
<1>0. Numbers /\ Words /\ Switches /\ Steps
  BY Known
<1>1. /\ dataPC = "state" /\ dataPC' = "frame" /\ recordState' = "NOT_RECORDING"
      /\ Lit(FALSE)
      /\ UNCHANGED <<framesUntilDark, accumulated, accumulation, darkFrame, buffered,
                     wait, auto, picture, mainPC, job, reg, requests, asker, outcome>>
  BY DEF EndRecording, memory
<1>2. /\ obc' \in {"dark", "light"} /\ settling' \in 0..Dim
      /\ trouble \subseteq trouble' /\ trouble' \subseteq Troubles
  BY <1>0, <1>1, LitTyped
<1>3. Numbers'
  BY <1>0, <1>1, <1>2 DEF Numbers
<1>4. Words' /\ auto' \in BOOLEAN
  BY <1>0, <1>1, <1>2 DEF Words, Switches, DataSteps
<1>5. Steps'
  BY <1>0, <1>1 DEF Steps
<1>6. dataPC \in Outside /\ dataPC' \in Outside
  BY <1>1 DEF Outside
<1>7. ASSUME trouble' = {}, framesUntilDark >= 0, InTime PROVE InTime'
  <2>1. UNCHANGED <<obc, settling>>
    BY <1>1, <1>7, NotLit DEF InTime
  <2> QED BY <1>1, <1>6, <1>7, <2>1, InTimeStays
<1> QED BY <1>1, <1>2, <1>3, <1>4, <1>5, <1>6, <1>7, AsideKeeps

-----------------------------------------------------------------------------
(* The main thread                                                          *)

LEMMA ClickTyped ==
  ASSUME Numbers, Click PROVE requests' \in 0..MaxRequests /\ mainPC = "idle"
<1>1. mainPC = "idle" /\ requests < MaxRequests /\ requests' = requests + 1
  BY DEF Click
<1> QED BY <1>1, Times DEF Numbers

LEMMA RecordKeeps == DarkInv /\ Record => DarkInv'
<1> SUFFICES ASSUME DarkInv, Record PROVE DarkInv'
  OBVIOUS
<1>0. Numbers /\ Words /\ Switches /\ Steps
  BY Known
<1>1. /\ mainPC = "idle" /\ requests' \in 0..MaxRequests
      /\ recordState = "NOT_RECORDING" /\ auto' \in BOOLEAN
      /\ UNCHANGED <<framesUntilDark, accumulated, accumulation, darkFrame, buffered,
                     picture, dataPC, reg, asker, outcome>>
  BY <1>0, ClickTyped DEF Record, memory, Switches
<1>2. \/ /\ recordState' = "DARK1" /\ wait' = Period
         /\ job' = "record" /\ mainPC' = "darken"
         /\ UNCHANGED <<obc, settling, trouble>>
      \/ /\ recordState' = "SCIENCE"
         /\ Shine("light", FALSE) \/ UNCHANGED <<obc, settling, trouble>>
         /\ UNCHANGED <<wait, job, mainPC>>
  BY DEF Record
<1>3. Period \in 0..Period /\ Period >= 1
  BY Times
<1>4. /\ obc' \in {"dark", "light"} /\ settling' \in 0..Dim
      /\ trouble \subseteq trouble' /\ trouble' \subseteq Troubles
  <2>1. CASE Shine("light", FALSE)
    BY <1>0, <2>1, ShineTyped
  <2>2. CASE UNCHANGED <<obc, settling, trouble>>
    BY <1>0, <2>2 DEF Numbers, Words
  <2> QED BY <1>2, <2>1, <2>2
<1>5. Numbers'
  <2>1. wait' \in 0..Period
    BY <1>0, <1>2, <1>3 DEF Numbers
  <2> QED BY <1>0, <1>1, <1>4, <2>1 DEF Numbers
<1>6. /\ recordState' \in {"NOT_RECORDING", "DARK1", "SCIENCE", "DARK2", "CAL"}
      /\ mainPC' \in MainSteps /\ job' \in {"none", "record", "dark", "other", "auto"}
  BY <1>0, <1>2 DEF Words, MainSteps
<1>7. Words'
  BY <1>0, <1>1, <1>4, <1>6 DEF Words
<1>8. Steps'
  <2>1. dataPC' \notin {"darken", "ask", "clear 1", "clear 2", "zero"}
    BY <1>0, <1>1 DEF Steps
  <2>2. mainPC' = "idle" <=> job' = "none"
    BY <1>0, <1>2 DEF Steps
  <2>3. recordState' \in {"DARK1", "DARK2"} => wait' >= 1
    BY <1>2, <1>3
  <2> QED BY <1>0, <1>1, <1>2, <2>1, <2>2, <2>3 DEF Steps
<1>9. mainPC' = mainPC \/ (mainPC \in Preparing /\ mainPC' \in Preparing)
  BY <1>1, <1>2 DEF Preparing
<1>10. ASSUME trouble' = {}, framesUntilDark >= 0, InTime PROVE InTime'
  <2>1. UNCHANGED <<obc, settling>>
    BY <1>2, <1>10, NoLight DEF InTime
  <2>2. recordState' \in {"DARK1", "DARK2"} => wait' >= Frames'
    BY <1>1, <1>2, <1>5, <1>10, Enough
  <2> QED BY <1>1, <1>10, <2>1, <2>2, InTimeStays
<1> QED BY <1>1, <1>4, <1>5, <1>7, <1>8, <1>9, <1>10, AsideKeeps

LEMMA SelectKeeps ==
  ASSUME DarkInv, NEW choice \in {"dark", "other", "auto"}, Select(choice) PROVE DarkInv'
<1>0. Numbers /\ Words /\ Switches /\ Steps
  BY Known
<1>1. /\ mainPC = "idle" /\ requests' \in 0..MaxRequests
      /\ job' = choice /\ mainPC' = "darken"
      /\ UNCHANGED <<framesUntilDark, accumulated, accumulation, darkFrame, buffered,
                     recordState, wait, auto, obc, settling, picture, dataPC, reg,
                     asker, trouble, outcome>>
  BY <1>0, ClickTyped DEF Select, memory, record, light, history
<1>2. Numbers'
  BY <1>0, <1>1 DEF Numbers
<1>3. Words' /\ auto' \in BOOLEAN
  BY <1>0, <1>1 DEF Words, MainSteps, Switches
<1>4. Steps'
  BY <1>0, <1>1 DEF Steps
<1>5. mainPC \in Preparing /\ mainPC' \in Preparing
  BY <1>1 DEF Preparing
<1>6. InTime => InTime'
  <2>1. Frames' = Frames
    <3>1. Calm' <=> Calm
      BY <1>1 DEF Calm, Clearing
    <3> QED BY <1>1, <3>1 DEF Frames, Todo, Adding
  <2> QED BY <1>1, <2>1 DEF InTime
<1> QED BY <1>1, <1>2, <1>3, <1>4, <1>5, <1>6, AsideKeeps

LEMMA SetOBCKeeps == DarkInv /\ SetOBC => DarkInv'
<1> SUFFICES ASSUME DarkInv, SetOBC PROVE DarkInv'
  OBVIOUS
<1>0. Numbers /\ Words /\ Switches /\ Steps
  BY Known
<1>1. /\ mainPC = "darken"
      /\ Shine("dark", FALSE) \/ Shine("light", FALSE)
      /\ UNCHANGED <<framesUntilDark, accumulated, accumulation, darkFrame, buffered,
                     recordState, wait, auto, picture, dataPC, job, reg, requests,
                     asker, outcome>>
  BY DEF SetOBC, memory, record
<1>2. \/ job \in {"record", "dark"} /\ mainPC' = "ask"
      \/ mainPC' = "mode"
  BY DEF SetOBC
<1>3. /\ obc' \in {"dark", "light"} /\ settling' \in 0..Dim
      /\ trouble \subseteq trouble' /\ trouble' \subseteq Troubles
  <2>1. CASE Shine("dark", FALSE)
    BY <1>0, <2>1, ShineTyped
  <2>2. CASE Shine("light", FALSE)
    BY <1>0, <2>2, ShineTyped
  <2> QED BY <1>1, <2>1, <2>2
<1>4. Numbers'
  BY <1>0, <1>1, <1>3 DEF Numbers
<1>5. mainPC' \in MainSteps
  BY <1>2 DEF MainSteps
<1>6. Words' /\ auto' \in BOOLEAN
  BY <1>0, <1>1, <1>3, <1>5 DEF Words, Switches
<1>7. Steps'
  BY <1>0, <1>1, <1>2 DEF Steps
<1>8. mainPC \in Preparing /\ mainPC' \in Preparing
  BY <1>1, <1>2 DEF Preparing
<1>9. ASSUME trouble' = {}, framesUntilDark >= 0, InTime PROVE InTime'
  <2>1. UNCHANGED <<obc, settling>>
    <3>1. CASE Shine("dark", FALSE)
      BY <1>9, <3>1, StaysDark DEF InTime
    <3>2. CASE Shine("light", FALSE)
      BY <1>9, <3>2, NoLight DEF InTime
    <3> QED BY <1>1, <3>1, <3>2
  <2>2. Frames' = Frames
    <3>1. Calm' <=> Calm
      BY <1>1, <1>2 DEF Calm, Clearing
    <3> QED BY <1>1, <3>1 DEF Frames, Todo, Adding
  <2> QED BY <1>1, <1>9, <2>1, <2>2 DEF InTime
<1> QED BY <1>1, <1>3, <1>4, <1>6, <1>7, <1>8, <1>9, AsideKeeps

LEMMA AssignModeKeeps == DarkInv /\ AssignMode => DarkInv'
<1> SUFFICES ASSUME DarkInv, AssignMode PROVE DarkInv'
  OBVIOUS
<1>0. Numbers /\ Words /\ Switches /\ Steps
  BY Known
<1>1. /\ mainPC = "mode" /\ mainPC' = "idle" /\ job' = "none" /\ auto' = (job = "auto")
      /\ UNCHANGED <<framesUntilDark, accumulated, accumulation, darkFrame, buffered,
                     recordState, wait, obc, settling, picture, dataPC, reg, requests,
                     asker, trouble, outcome>>
  BY DEF AssignMode, MainGoes, memory, record, history
<1>2. Numbers'
  BY <1>0, <1>1 DEF Numbers
<1>3. auto' \in BOOLEAN
  BY <1>1, Zenon
<1>4. Words'
  BY <1>0, <1>1 DEF Words, MainSteps
<1>5. Steps'
  BY <1>0, <1>1 DEF Steps
<1>6. mainPC \in Preparing /\ mainPC' \in Preparing
  BY <1>1 DEF Preparing
<1>7. InTime => InTime'
  <2>1. Frames' = Frames
    <3>1. Calm' <=> Calm
      BY <1>1 DEF Calm, Clearing
    <3> QED BY <1>1, <3>1 DEF Frames, Todo, Adding
  <2> QED BY <1>1, <2>1 DEF InTime
<1> QED BY <1>1, <1>2, <1>3, <1>4, <1>5, <1>6, <1>7, AsideKeeps

-----------------------------------------------------------------------------
(* Either thread asks for a dark frame                                      *)

(* The wait is set: what went wrong before does not count any more.         *)
LEMMA WaitSet ==
  ASSUME DarkInv, NEW who, NEW disturbed \in BOOLEAN, AskStep("ask", who, disturbed)
  PROVE  /\ framesUntilDark' = Settle /\ framesUntilDark' \in -1..Settle
         /\ asker' = who /\ trouble' \subseteq Troubles
         /\ "disturbed" \notin trouble' => ~disturbed
         /\ trouble' = {} => obc = "dark" /\ (who = "record" => wait >= Settle + Accum)
         /\ UNCHANGED <<accumulated, accumulation, darkFrame, buffered>>
<1>0. Numbers /\ Words /\ Pixels
  BY Known
<1>1. framesUntilDark' = Settle /\ asker' = who
      /\ UNCHANGED <<accumulated, darkFrame, buffered>>
  BY DEF AskStep
<1>2. accumulation' = accumulation
  <2>1. \A h \in Halves : "ask" # <<"clear 1", "clear 2">>[h]
    <3>1. "ask" # <<"clear 1", "clear 2">>[1] /\ "ask" # <<"clear 1", "clear 2">>[2]
      OBVIOUS
    <3> QED BY <3>1, Zenon DEF Halves
  <2>2. accumulation' = [h \in Halves |-> accumulation[h]]
    BY <2>1 DEF AskStep
  <2> QED BY <1>0, <2>2 DEF Pixels
<1>3. trouble' = (IF disturbed THEN {"disturbed"} ELSE {}) \cup
                 ((IF obc = "light" THEN {"early"} ELSE {}) \cup
                  (IF who = "record" /\ wait < Settle + Accum THEN {"late"} ELSE {}))
  BY DEF AskStep
<1>4. trouble' \subseteq Troubles /\ ("disturbed" \notin trouble' => ~disturbed)
  BY <1>3 DEF Troubles
<1>5. ASSUME trouble' = {} PROVE obc = "dark" /\ (who = "record" => wait >= Settle + Accum)
  <2>1. obc # "light" /\ ~(who = "record" /\ wait < Settle + Accum)
    BY <1>3, <1>5
  <2>2. wait \in Int /\ Settle + Accum \in Int
    BY <1>0, Integral, Times
  <2>3. obc = "dark"
    BY <1>0, <2>1 DEF Words
  <2> QED BY <2>1, <2>2, <2>3
<1>6. framesUntilDark' \in -1..Settle
  BY <1>1, Times
<1> QED BY <1>1, <1>2, <1>4, <1>5, <1>6

(* The wait is long enough for the calibrator.                              *)
LEMMA LongEnough ==
  ASSUME Numbers', framesUntilDark' >= 0, wait' >= Settle + Accum PROVE wait' >= Frames'
<1>1. Frames' \in Int /\ Frames' <= Settle + Accum
  BY FramesBoundNext DEF FramesFit
<1>2. wait' \in 0..Period
  BY DEF Numbers
<1>3. wait' \in Int /\ Settle + Accum \in Int
  BY <1>2, Times
<1> QED BY <1>1, <1>3

LEMMA WaitCovers ==
  ASSUME Numbers
  PROVE  settling + 2 <= Settle /\ settling + 1 <= Settle /\ Settle >= 2 /\ Settle >= 1
<1>1. settling \in Int /\ settling >= 0 /\ settling <= Dim
  BY Integral
<1> QED BY <1>1, Times

LEMMA WaitIsLong ==
  ASSUME Numbers, framesUntilDark' = Settle, obc' = "dark",
         settling' = settling, dataPC' \notin {"compare", "add 1", "add 2"},
         recordState' \in {"DARK1", "DARK2"} /\ asker' # "combo" => wait' >= Frames'
  PROVE  InTime'
<1>1. /\ settling' + 2 <= framesUntilDark' /\ settling' + 1 <= framesUntilDark'
      /\ framesUntilDark' >= 2 /\ framesUntilDark' >= 1
  BY WaitCovers
<1> QED BY <1>1 DEF InTime

(* A half is cleared.                                                       *)
LEMMA HalfCleared ==
  ASSUME DarkInv, NEW pc \in {"clear 1", "clear 2"}, NEW who, NEW disturbed \in BOOLEAN,
         AskStep(pc, who, disturbed)
  PROVE  /\ pc = "clear 1" => accumulation'[1] = Zero
         /\ pc = "clear 2" => accumulation'[1] = accumulation[1] /\ accumulation'[2] = Zero
         /\ Pixels' /\ trouble' \subseteq Troubles /\ trouble \subseteq trouble'
         /\ "disturbed" \notin trouble' => ~disturbed
         /\ UNCHANGED <<framesUntilDark, asker, accumulated, darkFrame, buffered>>
<1>0. Words /\ Pixels
  BY Known
<1>1. UNCHANGED <<framesUntilDark, asker, accumulated, darkFrame, buffered>>
  BY DEF AskStep
<1>2. /\ trouble' = (IF disturbed THEN {"disturbed"} ELSE {}) \cup trouble
      /\ accumulation' = [h \in Halves |->
           IF pc = <<"clear 1", "clear 2">>[h] THEN Zero ELSE accumulation[h]]
  BY DEF AskStep
<1>3. /\ trouble' \subseteq Troubles /\ trouble \subseteq trouble'
      /\ "disturbed" \notin trouble' => ~disturbed
  BY <1>0, <1>2 DEF Words, Troubles
<1>4. accumulation'[1] = IF pc = "clear 1" THEN Zero ELSE accumulation[1]
  BY <1>2 DEF Halves
<1>5. accumulation'[2] = IF pc = "clear 2" THEN Zero ELSE accumulation[2]
  BY <1>2 DEF Halves
<1>6. Pixels'
  <2>1. Zero \in Sums
    BY DEF Zero, Sums
  <2>2. \A h \in Halves : accumulation[h] \in Sums
    BY <1>0 DEF Pixels
  <2>3. accumulation' \in [Halves -> Sums]
    <3>1. \A h \in Halves :
            (IF pc = <<"clear 1", "clear 2">>[h] THEN Zero ELSE accumulation[h]) \in Sums
      BY <2>1, <2>2, Zenon
    <3> HIDE DEF Sums, Zero
    <3> QED BY <1>2, <3>1, Zenon
  <2> QED BY <1>0, <1>1, <2>3 DEF Pixels
<1> QED BY <1>1, <1>3, <1>4, <1>5, <1>6

(* So is the count.                                                         *)
LEMMA CountCleared ==
  ASSUME DarkInv, NEW who, NEW disturbed \in BOOLEAN, AskStep("zero", who, disturbed)
  PROVE  /\ accumulated' = 0 /\ trouble' \subseteq Troubles /\ trouble \subseteq trouble'
         /\ "disturbed" \notin trouble' => ~disturbed
         /\ UNCHANGED <<framesUntilDark, asker, accumulation, darkFrame, buffered>>
<1>0. Words /\ Pixels
  BY Known
<1>1. accumulated' = 0 /\ UNCHANGED <<framesUntilDark, asker, darkFrame, buffered>>
  BY DEF AskStep
<1>2. accumulation' = accumulation
  <2>1. \A h \in Halves : "zero" # <<"clear 1", "clear 2">>[h]
    <3>1. "zero" # <<"clear 1", "clear 2">>[1] /\ "zero" # <<"clear 1", "clear 2">>[2]
      OBVIOUS
    <3> QED BY <3>1, Zenon DEF Halves
  <2>2. accumulation' = [h \in Halves |-> accumulation[h]]
    BY <2>1 DEF AskStep
  <2> QED BY <1>0, <2>2 DEF Pixels
<1>3. trouble' = (IF disturbed THEN {"disturbed"} ELSE {}) \cup trouble
  BY DEF AskStep
<1> QED BY <1>0, <1>1, <1>2, <1>3 DEF Words, Troubles

(* A sum that has been cleared while the data thread is not adding.         *)
LEMMA ClearedSum ==
  ASSUME accumulation'[1] = Zero, accumulation'[2] = Zero, accumulated' = 0,
         dataPC' \in {"frame", "wait", "test", "state", "darken", "ask"}
  PROVE  Counted' /\ Unlit'
<1>1. /\ accumulation'[1].n = 0 /\ accumulation'[2].n = 0
      /\ ~accumulation'[1].lit /\ ~accumulation'[2].lit
  BY DEF Zero
<1>2. More1' = 0 /\ More2' = 0
  BY DEF More1, More2
<1>3. /\ accumulation'[1].n = accumulated' + More1'
      /\ accumulation'[2].n = accumulated' + More2' /\ accumulated' <= Accum
  BY <1>1, <1>2, Times
<1> QED BY <1>1, <1>3 DEF Counted, Unlit

Elsewhere == {"frame", "wait", "test", "state", "darken", "ask"}

(* The main thread asks, and the data thread is not at the sum.             *)
LEMMA AskDark1Keeps == DarkInv /\ AskDark1 => DarkInv'
<1> SUFFICES ASSUME DarkInv, AskDark1 PROVE DarkInv'
  OBVIOUS
<1> DEFINE who == IF job = "dark" THEN "combo" ELSE job
           met == Accumulating \/ Clearing(dataPC)
<1>0. Numbers /\ Words /\ Pixels /\ Switches /\ Steps /\ Apart /\ Regular
  BY Known
<1>1. /\ mainPC \in {"ask", "clear 1", "clear 2", "zero"} /\ job \in {"record", "dark"}
      /\ UNCHANGED <<recordState, wait, auto, obc, settling, picture, dataPC, reg,
                     requests, outcome>>
  BY <1>0 DEF AskDark1, record, light, Clearing, Steps
<1>2. AskStep(mainPC, who, met) /\ met \in BOOLEAN /\ who \in {"combo", "record"}
  BY <1>1 DEF AskDark1, Accumulating, Clearing
<1>3. /\ mainPC = "ask" => mainPC' = "clear 1" /\ job' = job
      /\ mainPC = "clear 1" => mainPC' = "clear 2" /\ job' = job
      /\ mainPC = "clear 2" => mainPC' = "zero" /\ job' = job
      /\ mainPC = "zero" => \/ mainPC' = "idle" /\ job' = "none"
                            \/ mainPC' = "mode" /\ job' = job
  <2>1. CASE mainPC = "ask"
    BY <2>1 DEF AskDark1, MainGoes, AskNext
  <2>2. CASE mainPC = "clear 1"
    BY <2>2 DEF AskDark1, MainGoes, AskNext
  <2>3. CASE mainPC = "clear 2"
    BY <2>3 DEF AskDark1, MainGoes, AskNext
  <2>4. CASE mainPC = "zero"
    BY <2>4 DEF AskDark1, MainGoes
  <2> QED BY <1>1, <2>1, <2>2, <2>3, <2>4
<1>4. ~met => dataPC \in Elsewhere
  BY <1>0 DEF Accumulating, Clearing, Words, DataSteps, Elsewhere
<1> HIDE DEF who, met
<1>5. mainPC' \in MainSteps /\ job' \in {"none", "record", "dark", "other", "auto"}
  BY <1>1, <1>3 DEF MainSteps
<1>6. Steps'
  BY <1>0, <1>1, <1>3 DEF Steps
<1>7. CASE mainPC = "ask"
  <2>1. /\ framesUntilDark' = Settle /\ framesUntilDark' \in -1..Settle
        /\ asker' = who /\ trouble' \subseteq Troubles
        /\ "disturbed" \notin trouble' => ~met
        /\ trouble' = {} => obc = "dark" /\ (who = "record" => wait >= Settle + Accum)
        /\ UNCHANGED <<accumulated, accumulation, darkFrame, buffered>>
    BY <1>2, <1>7, WaitSet
  <2>2. Numbers' /\ Words' /\ Pixels' /\ Switches'
    BY <1>0, <1>1, <1>2, <1>5, <2>1 DEF Numbers, Words, Pixels, Switches
  <2>3. mainPC' = "clear 1" /\ Clearing(mainPC')
    BY <1>3, <1>7 DEF Clearing
  <2>4. Apart'
    <3> SUFFICES ASSUME "disturbed" \notin trouble'
                 PROVE  dataPC' \in Elsewhere
      BY <2>3 DEF Apart, Elsewhere, Adding, Clearing, ClearedBy, Calm
    <3> QED BY <1>1, <1>4, <2>1
  <2>5. Regular'
    <3> SUFFICES ASSUME trouble' = {} PROVE InTime'
      BY <2>3 DEF Regular, Calm
    <3>1. dataPC' \notin {"compare", "add 1", "add 2"}
      BY <1>1, <1>4, <2>1 DEF Elsewhere
    <3>2. asker' # "combo" => wait' >= Settle + Accum
      BY <1>1, <1>2, <2>1
    <3>3. framesUntilDark' >= 0
      BY <2>1, Times
    <3>4. asker' # "combo" => wait' >= Frames'
      BY <2>2, <3>2, <3>3, LongEnough
    <3> QED BY <1>0, <1>1, <2>1, <3>1, <3>4, WaitIsLong
  <2> QED BY <1>1, <1>6, <2>1, <2>2, <2>4, <2>5, Keeps
<1>8. CASE mainPC \in {"clear 1", "clear 2"}
  <2>1. /\ mainPC = "clear 1" => accumulation'[1] = Zero
        /\ mainPC = "clear 2" => accumulation'[1] = accumulation[1] /\ accumulation'[2] = Zero
        /\ Pixels' /\ trouble' \subseteq Troubles /\ trouble \subseteq trouble'
        /\ "disturbed" \notin trouble' => ~met
        /\ UNCHANGED <<framesUntilDark, asker, accumulated, darkFrame, buffered>>
    BY <1>2, <1>8, HalfCleared
  <2>2. Numbers' /\ Words' /\ Switches'
    BY <1>0, <1>1, <1>5, <2>1 DEF Numbers, Words, Switches
  <2>3. /\ Clearing(mainPC) /\ Clearing(mainPC') /\ ~Calm /\ ~Calm'
        /\ mainPC' \in {"clear 2", "zero"}
    BY <1>3, <1>8 DEF Clearing, Calm
  <2>4. Apart'
    <3> SUFFICES ASSUME "disturbed" \notin trouble'
                 PROVE  dataPC' \in Elsewhere /\ (framesUntilDark' >= 0 => ClearedBy(mainPC)')
      BY <2>3 DEF Apart, Elsewhere, Adding, Clearing, ClearedBy
    <3>1. dataPC' \in Elsewhere /\ "disturbed" \notin trouble
      BY <1>1, <1>4, <2>1
    <3>2. framesUntilDark >= 0 => ClearedBy(mainPC)
      BY <1>0, <3>1 DEF Apart
    <3>3. ASSUME ClearedBy(mainPC) PROVE ClearedBy(mainPC)'
      <4>1. CASE mainPC = "clear 1"
        BY <1>3, <2>1, <4>1 DEF ClearedBy
      <4>2. CASE mainPC = "clear 2"
        BY <1>3, <2>1, <3>3, <4>2 DEF ClearedBy
      <4> QED BY <1>8, <4>1, <4>2
    <3> QED BY <2>1, <3>1, <3>2, <3>3
  <2>5. Regular'
    <3> SUFFICES ASSUME trouble' = {}, framesUntilDark' >= 0 PROVE InTime'
      BY <2>3 DEF Regular
    <3>1. InTime
      <4>1. Todo > 0
        <5>1. Todo = Accum
          BY <2>3 DEF Todo
        <5> QED BY <5>1, Times
      <4>2. trouble = {} /\ framesUntilDark >= 0
        BY <2>1
      <4> QED BY <1>0, <4>1, <4>2 DEF Regular
    <3>2. Frames' = Frames
      BY <1>1, <2>1, <2>3 DEF Frames, Todo, Adding
    <3> QED BY <1>1, <2>1, <3>1, <3>2 DEF InTime
  <2> QED BY <1>1, <1>6, <2>1, <2>2, <2>4, <2>5, Keeps
<1>9. CASE mainPC = "zero"
  <2>1. /\ accumulated' = 0 /\ trouble' \subseteq Troubles /\ trouble \subseteq trouble'
        /\ "disturbed" \notin trouble' => ~met
        /\ UNCHANGED <<framesUntilDark, asker, accumulation, darkFrame, buffered>>
    BY <1>2, <1>9, CountCleared
  <2>2. Numbers' /\ Words' /\ Pixels' /\ Switches'
    BY <1>0, <1>1, <1>5, <2>1 DEF Numbers, Words, Pixels, Switches
  <2>3. ~Clearing(mainPC') /\ mainPC' \notin {"clear 2", "zero"} /\ ~Calm
    BY <1>3, <1>9 DEF Clearing, Calm
  <2>4. ASSUME "disturbed" \notin trouble', framesUntilDark' >= 0
        PROVE  Counted' /\ Unlit' /\ Calm'
    <3>1. dataPC' \in Elsewhere /\ "disturbed" \notin trouble /\ framesUntilDark >= 0
      BY <1>1, <1>4, <2>1, <2>4
    <3>2. ClearedBy(mainPC)
      BY <1>0, <3>1 DEF Apart
    <3>3. accumulation'[1] = Zero /\ accumulation'[2] = Zero
      BY <1>9, <2>1, <3>2 DEF ClearedBy
    <3>4. Calm'
      BY <2>3, <3>1 DEF Calm, Clearing, Elsewhere
    <3> QED BY <2>1, <3>1, <3>3, <3>4, ClearedSum DEF Elsewhere
  <2>5. Apart'
    <3> SUFFICES ASSUME "disturbed" \notin trouble' PROVE dataPC' \in Elsewhere
      BY <2>3, <2>4 DEF Apart, Elsewhere, Adding, Clearing, ClearedBy
    <3> QED BY <1>1, <1>4, <2>1
  <2>6. Regular'
    <3> SUFFICES ASSUME trouble' = {}, framesUntilDark' >= 0 PROVE Unlit' /\ InTime'
      BY DEF Regular
    <3>1. Unlit' /\ Calm'
      BY <2>4
    <3>2. InTime
      <4>1. Todo > 0
        <5>1. Todo = Accum
          BY <2>3 DEF Todo
        <5> QED BY <5>1, Times
      <4>2. trouble = {} /\ framesUntilDark >= 0
        BY <2>1
      <4> QED BY <1>0, <4>1, <4>2 DEF Regular
    <3>3. Todo' = Accum - 0 /\ Todo = Accum
      BY <2>1, <2>3, <3>1 DEF Todo
    <3>4. Todo' = Todo
      BY <3>3, Times
    <3>5. Frames' = Frames
      BY <1>1, <2>1, <3>4 DEF Frames, Adding
    <3> QED BY <1>1, <2>1, <3>1, <3>2, <3>5 DEF InTime
  <2> QED BY <1>1, <1>6, <2>1, <2>2, <2>5, <2>6, Keeps
<1> QED BY <1>1, <1>7, <1>8, <1>9

(* The data thread asks, and the main thread does not.                      *)
LEMMA AskDark2Keeps == DarkInv /\ AskDark2 => DarkInv'
<1> SUFFICES ASSUME DarkInv, AskDark2 PROVE DarkInv'
  OBVIOUS
<1> DEFINE met == Clearing(mainPC)
<1>0. Numbers /\ Words /\ Pixels /\ Switches /\ Steps /\ Apart /\ Regular
  BY Known
<1>1. /\ dataPC \in {"ask", "clear 1", "clear 2", "zero"}
      /\ recordState = "DARK2" /\ wait = Period
      /\ UNCHANGED <<recordState, wait, auto, obc, settling, picture, mainPC, job, reg,
                     requests, outcome>>
  BY <1>0 DEF AskDark2, record, light, Clearing, Steps
<1>2. AskStep(dataPC, "data", met) /\ met \in BOOLEAN
  <2>1. AskStep(dataPC, "data", met)
    BY Zenon DEF AskDark2
  <2>2. met \in BOOLEAN
    BY DEF Clearing
  <2> QED BY <2>1, <2>2
<1>3. /\ dataPC = "ask" => dataPC' = "clear 1"
      /\ dataPC = "clear 1" => dataPC' = "clear 2"
      /\ dataPC = "clear 2" => dataPC' = "zero"
      /\ dataPC = "zero" => dataPC' = "frame"
  <2>1. CASE dataPC = "ask"
    BY <2>1 DEF AskDark2, AskNext
  <2>2. CASE dataPC = "clear 1"
    BY <2>2 DEF AskDark2, AskNext
  <2>3. CASE dataPC = "clear 2"
    BY <2>3 DEF AskDark2, AskNext
  <2>4. CASE dataPC = "zero"
    BY <2>4 DEF AskDark2
  <2> QED BY <1>1, <2>1, <2>2, <2>3, <2>4
<1> HIDE DEF met
<1>4. ~met => ~Clearing(mainPC') /\ mainPC' \notin {"clear 2", "zero"}
  BY <1>1 DEF met, Clearing
<1>5. dataPC' \in {"clear 1", "clear 2", "zero", "frame"} /\ dataPC' \in DataSteps
  BY <1>1, <1>3 DEF DataSteps
<1>6. Steps'
  BY <1>0, <1>1, <1>5 DEF Steps
<1>7. ASSUME Numbers', framesUntilDark' >= 0 PROVE wait' >= Frames'
  BY <1>1, <1>7, Enough
<1>8. CASE dataPC = "ask"
  <2>1. /\ framesUntilDark' = Settle /\ framesUntilDark' \in -1..Settle
        /\ asker' = "data" /\ trouble' \subseteq Troubles
        /\ "disturbed" \notin trouble' => ~met
        /\ trouble' = {} => obc = "dark"
        /\ UNCHANGED <<accumulated, accumulation, darkFrame, buffered>>
    BY <1>2, <1>8, WaitSet
  <2>2. Numbers' /\ Words' /\ Pixels' /\ Switches'
    BY <1>0, <1>1, <1>5, <2>1 DEF Numbers, Words, Pixels, Switches
  <2>3. dataPC' = "clear 1" /\ Clearing(dataPC')
    BY <1>3, <1>8 DEF Clearing
  <2>4. Apart'
    <3> SUFFICES ASSUME "disturbed" \notin trouble'
                 PROVE  ~Clearing(mainPC') /\ mainPC' \notin {"clear 2", "zero"}
      BY <2>3 DEF Apart, Adding, ClearedBy, Calm
    <3> QED BY <1>4, <2>1
  <2>5. Regular'
    <3> SUFFICES ASSUME trouble' = {}, framesUntilDark' >= 0 PROVE InTime'
      BY <2>3 DEF Regular, Calm
    <3>1. dataPC' \notin {"compare", "add 1", "add 2"}
      BY <2>3
    <3>2. wait' >= Frames'
      BY <1>7, <2>2
    <3> QED BY <1>0, <1>1, <2>1, <3>1, <3>2, WaitIsLong
  <2> QED BY <1>1, <1>8, <1>6, <2>1, <2>2, <2>4, <2>5, Keeps
<1>9. CASE dataPC \in {"clear 1", "clear 2"}
  <2>1. /\ dataPC = "clear 1" => accumulation'[1] = Zero
        /\ dataPC = "clear 2" => accumulation'[1] = accumulation[1] /\ accumulation'[2] = Zero
        /\ Pixels' /\ trouble' \subseteq Troubles /\ trouble \subseteq trouble'
        /\ "disturbed" \notin trouble' => ~met
        /\ UNCHANGED <<framesUntilDark, asker, accumulated, darkFrame, buffered>>
    BY <1>2, <1>9, HalfCleared
  <2>2. Numbers' /\ Words' /\ Switches'
    BY <1>0, <1>1, <1>5, <2>1 DEF Numbers, Words, Switches
  <2>3. /\ Clearing(dataPC) /\ Clearing(dataPC') /\ ~Calm /\ ~Calm'
        /\ dataPC' \in {"clear 2", "zero"}
    BY <1>3, <1>9 DEF Clearing, Calm
  <2>4. Apart'
    <3> SUFFICES ASSUME "disturbed" \notin trouble'
                 PROVE  /\ ~Clearing(mainPC') /\ mainPC' \notin {"clear 2", "zero"}
                        /\ framesUntilDark' >= 0 => ClearedBy(dataPC)'
      BY <2>3 DEF Apart, Adding, ClearedBy
    <3>1. ~Clearing(mainPC') /\ mainPC' \notin {"clear 2", "zero"}
          /\ "disturbed" \notin trouble
      BY <1>4, <2>1
    <3>2. framesUntilDark >= 0 => ClearedBy(dataPC)
      BY <1>0, <3>1 DEF Apart
    <3>3. ASSUME ClearedBy(dataPC) PROVE ClearedBy(dataPC)'
      <4>1. CASE dataPC = "clear 1"
        BY <1>3, <2>1, <4>1 DEF ClearedBy
      <4>2. CASE dataPC = "clear 2"
        BY <1>3, <2>1, <3>3, <4>2 DEF ClearedBy
      <4> QED BY <1>9, <4>1, <4>2
    <3> QED BY <2>1, <3>1, <3>2, <3>3
  <2>5. Regular'
    <3> SUFFICES ASSUME trouble' = {}, framesUntilDark' >= 0 PROVE InTime'
      BY <2>3 DEF Regular
    <3>1. InTime
      <4>1. Todo > 0
        <5>1. Todo = Accum
          BY <2>3 DEF Todo
        <5> QED BY <5>1, Times
      <4>2. trouble = {} /\ framesUntilDark >= 0
        BY <2>1
      <4> QED BY <1>0, <4>1, <4>2 DEF Regular
    <3>2. wait' >= Frames'
      BY <1>7, <2>2
    <3> QED BY <1>1, <1>9, <2>1, <2>3, <3>1, <3>2 DEF InTime
  <2> QED BY <1>1, <1>9, <1>6, <2>1, <2>2, <2>4, <2>5, Keeps
<1>10. CASE dataPC = "zero"
  <2>1. /\ accumulated' = 0 /\ trouble' \subseteq Troubles /\ trouble \subseteq trouble'
        /\ "disturbed" \notin trouble' => ~met
        /\ UNCHANGED <<framesUntilDark, asker, accumulation, darkFrame, buffered>>
    BY <1>2, <1>10, CountCleared
  <2>2. Numbers' /\ Words' /\ Pixels' /\ Switches'
    BY <1>0, <1>1, <1>5, <2>1 DEF Numbers, Words, Pixels, Switches
  <2>3. dataPC' = "frame" /\ ~Clearing(dataPC') /\ ~Calm
    BY <1>3, <1>10 DEF Clearing, Calm
  <2>4. ASSUME "disturbed" \notin trouble', framesUntilDark' >= 0
        PROVE  Counted' /\ Unlit' /\ Calm'
    <3>1. ~Clearing(mainPC') /\ "disturbed" \notin trouble /\ framesUntilDark >= 0
      BY <1>4, <2>1, <2>4
    <3>2. ClearedBy(dataPC)
      BY <1>0, <3>1 DEF Apart
    <3>3. accumulation'[1] = Zero /\ accumulation'[2] = Zero
      BY <1>10, <2>1, <3>2 DEF ClearedBy
    <3> QED BY <2>1, <2>3, <3>1, <3>3, ClearedSum DEF Calm
  <2>5. Apart'
    <3> SUFFICES ASSUME "disturbed" \notin trouble'
                 PROVE  mainPC' \notin {"clear 2", "zero"}
      BY <2>3, <2>4 DEF Apart, Adding, ClearedBy
    <3> QED BY <1>4, <2>1
  <2>6. Regular'
    <3> SUFFICES ASSUME trouble' = {}, framesUntilDark' >= 0 PROVE Unlit' /\ InTime'
      BY DEF Regular
    <3>1. Unlit'
      BY <2>4
    <3>2. InTime
      <4>1. Todo > 0
        <5>1. Todo = Accum
          BY <2>3 DEF Todo
        <5> QED BY <5>1, Times
      <4>2. trouble = {} /\ framesUntilDark >= 0
        BY <2>1
      <4> QED BY <1>0, <4>1, <4>2 DEF Regular
    <3>3. wait' >= Frames'
      BY <1>7, <2>2
    <3> QED BY <1>1, <1>10, <2>1, <2>3, <3>1, <3>2, <3>3 DEF InTime
  <2> QED BY <1>1, <1>10, <1>6, <2>1, <2>2, <2>5, <2>6, Keeps
<1> QED BY <1>1, <1>8, <1>9, <1>10

-----------------------------------------------------------------------------
(* The specification                                                        *)

LEMMA InitDark == Init => DarkInv
<1> SUFFICES ASSUME Init PROVE DarkInv
  OBVIOUS
<1>1. framesUntilDark = -1 /\ dataPC = "frame" /\ mainPC = "idle" /\ ~buffered
  BY DEF Init
<1>2. Numbers
  <2>1. -1 \in -1..Settle /\ 0 \in 0..Period /\ 0 \in 0..Dim /\ 0 \in 0..MaxRequests
    BY Times
  <2> QED BY <2>1 DEF Init, Numbers
<1>3. Words
  BY DEF Init, Words, DataSteps, MainSteps
<1>4. Pixels
  <2>1. Zero \in Sums /\ Black \in Means
    BY DEF Zero, Sums, Black, Means
  <2> QED BY <2>1 DEF Init, Pixels
<1>5. Switches /\ Steps
  BY DEF Init, Switches, Steps
<1>6. Apart /\ Regular
  <2>1. ~(framesUntilDark >= 0)
    BY <1>1
  <2> QED BY <1>1, <2>1 DEF Apart, Regular, Clearing, Adding
<1>7. ExactMean /\ OnlyDark
  BY <1>1 DEF ExactMean, OnlyDark, Divided
<1> QED BY <1>2, <1>3, <1>4, <1>5, <1>6, <1>7, Types DEF DarkInv

LEMMA DataStepKeeps == DarkInv /\ DataStep => DarkInv'
  BY GetFrameKeeps, ReadWaitKeeps, DecrementKeeps, TestWaitKeeps, CompareKeeps,
     AddHalfKeeps, DivideHalfKeeps, ReadCountKeeps, IncrementKeeps, DoneKeeps,
     NoChangeKeeps, CountDownKeeps, Darken2Keeps, AskDark2Keeps, Zenon DEF DataStep

LEMMA NextDark == DarkInv /\ [Next]_vars => DarkInv'
<1> SUFFICES ASSUME DarkInv, [Next]_vars PROVE DarkInv'
  OBVIOUS
<1>1. CASE DataStep
  BY <1>1, DataStepKeeps
<1>2. CASE MainStep
  BY <1>2, SetOBCKeeps, AskDark1Keeps, AssignModeKeeps DEF MainStep
<1>3. CASE Stop \/ EndRecording \/ Record
  BY <1>3, StopKeeps, EndRecordingKeeps, RecordKeeps
<1>4. CASE \E choice \in {"dark", "other", "auto"} : Select(choice)
  BY <1>4, SelectKeeps
<1>5. CASE UNCHANGED vars
  <2>1. UNCHANGED <<framesUntilDark, accumulated, accumulation, darkFrame, buffered,
                    recordState, wait, auto, obc, settling, picture, dataPC, mainPC,
                    job, reg, requests, asker, trouble, outcome>>
    BY <1>5 DEF vars, memory, record, light, history
  <2>2. Numbers' /\ Words' /\ Pixels' /\ Switches' /\ Steps'
    <3>1. Numbers'
      BY <2>1, Known DEF Numbers
    <3>2. Words' /\ Pixels' /\ Switches'
      BY <2>1, Known DEF Words, Pixels, Switches
    <3>3. Steps'
      BY <2>1, Known DEF Steps
    <3> QED BY <3>1, <3>2, <3>3
  <2>3. Calm' = Calm /\ Counted' = Counted /\ Unlit' = Unlit /\ Adding' = Adding
    BY <2>1 DEF Calm, Clearing, Counted, More1, More2, Unlit, Adding
  <2>4. Apart'
    BY <2>1, <2>3, Known DEF Apart, ClearedBy
  <2>5. Todo' = Todo /\ Frames' = Frames
    BY <2>1, <2>3 DEF Todo, Frames
  <2>6. Regular'
    BY <2>1, <2>3, <2>5, Known DEF Regular, InTime
  <2> QED BY <2>1, <2>2, <2>4, <2>6, Keeps
<1> QED BY <1>1, <1>2, <1>3, <1>4, <1>5 DEF Next

\* While the two threads have not met, one of them at most clears, the counts
\* of the halves are what the data thread's place in its loop makes of them, and
\* while nothing has gone wrong the calibrator settles before the wait is over
\* and the calibration outlasts the frames still to be added.
THEOREM DarkInvariant == Spec => []DarkInv
  BY InitDark, NextDark, PTL DEF Spec

\* Every variable has the type its declaration gives it: in particular the wait
\* never falls below -1, although it is written from a register.
THEOREM TypeCorrect == Spec => []TypeOK
<1>1. DarkInv => TypeOK
  BY DEF DarkInv
<1> QED BY <1>1, DarkInvariant, PTL

\* Every pixel of the dark frame is as bright as the dark, or brighter by what the
\* frames added have more than the divisor says, a fraction of one frame, unless
\* one thread was adding or dividing while the other asked.
THEOREM MeanIsWhole == Spec => []WholeMean
<1>1. ASSUME DarkInv PROVE WholeMean
  BY <1>1, MeanOfAccum DEF DarkInv, ExactMean, WholeMean
<1> QED BY <1>1, DarkInvariant, PTL

\* No frame of the dark frame was lit, if nobody switched the light on early and
\* the main thread asked in time: the wait is long enough for the calibrator,
\* and the calibration for the sum.
THEOREM FramesAreDark == Spec => []OnlyDark
<1>1. DarkInv => OnlyDark
  BY DEF DarkInv
<1> QED BY <1>1, DarkInvariant, PTL

=============================================================================
