--------------------------- MODULE FrameRing_proofs ---------------------------
(***************************************************************************)
(* Proofs about FrameRing for every ring size, buffer size and number of   *)
(* frames.  RingInv is the inductive invariant of the counters; everything *)
(* about them follows from it.                                             *)
(*                                                                         *)
(* That the ring implements FrameQueue also needs QueueInv, which says     *)
(* what the buffers hold: frames numbered as the camera sent them, newer   *)
(* in the buffer being filled than in those published.  A write into the   *)
(* buffer being filled is then a step of the queue only when that buffer   *)
(* is being consumed, and counting it publishes its frames.                *)
(***************************************************************************)
EXTENDS FrameRingQueue, SequenceTheorems, TLAPS

USE NAssumption, KAssumption, MaxFramesAssumption DEF Buffers, Offsets

(* An index that is advanced stays an index (the wrap at framebuf.cpp:587). *)
LEMMA SuccType == \A b \in Buffers : Succ(b) \in Buffers
  BY DEF Succ

LEMMA InitInv == Init => RingInv
<1> SUFFICES ASSUME Init PROVE RingInv
  OBVIOUS
<1>1. Blank \in Contents
  BY DEF Contents
<1>2. 0 \in Buffers /\ 0 \in Offsets
  OBVIOUS
<1>3. buf \in [Buffers -> [Offsets -> Contents]]
  BY <1>1 DEF Init
<1>4. TypeOK
  <2>1. reading \in Buffers \X Offsets
    BY <1>2 DEF Init
  <2>2. seen \in Contents /\ out \in Contents
    BY <1>1 DEF Init
  <2>3. nextFree \in Buffers /\ nextPop \in Buffers /\ cur \in Buffers
    BY <1>2 DEF Init
  <2>4. appRunning \in BOOLEAN /\ connected \in BOOLEAN /\ overrun \in BOOLEAN
    BY DEF Init
  <2>5. /\ sem \in {-1, 0, 1} /\ ready \in 0 .. N /\ left \in Offsets
        /\ thisFrame \in Offsets /\ camera \in 0 .. MaxFrames
        /\ fetchReg \in 0 .. N /\ dataReg \in 0 .. N
    BY <1>2 DEF Init
  <2>6. fetchPC = "get" /\ dataPC = "idle"
    BY DEF Init
  <2> QED BY <1>3, <2>1, <2>2, <2>3, <2>4, <2>5, <2>6 DEF TypeOK
<1> QED
  BY <1>4 DEF Init, RingInv, Exclusion, Registers, RingIndices, Joined, Room,
              Current, FetchHolds, DataHolds, Uncounted

(* Each part of the invariant speaks of what these definitions name.        *)
LEMMA NextInv == RingInv /\ [Next]_vars => RingInv'
<1> SUFFICES ASSUME RingInv, [Next]_vars PROVE RingInv'
  OBVIOUS
<1> USE DEF RingInv, TypeOK, Exclusion, Registers, RingIndices, Joined, Room,
            Current, FetchHolds, DataHolds, Uncounted, ringVars, fetchVars, dataVars
<1>1. CASE FetchGet
  <2>1. camera + 1 \in Frames /\ camera + 1 \in 0 .. MaxFrames
    BY <1>1 DEF FetchGet, Frames
  <2>2. buf' \in [Buffers -> [Offsets -> Contents]]
    BY <1>1 DEF FetchGet, Contents
  <2>3. overrun' \in BOOLEAN
    BY <1>1 DEF FetchGet, Consuming
  <2> QED BY <1>1, <2>1, <2>2, <2>3 DEF FetchGet
<1>2. CASE FetchCopied
  <2>1. buf' \in [Buffers -> [Offsets -> Contents]]
    <3>1. camera \in Contents
      BY DEF Contents, Frames, Blank
    <3> QED BY <1>2, <3>1 DEF FetchCopied
  <2> QED BY <1>2, <2>1 DEF FetchCopied
<1>3. CASE FetchReleaseFailed
  BY <1>3 DEF FetchReleaseFailed
<1>4. CASE FetchReleased
  <2>1. CASE thisFrame + 1 = K
    <3>1. nextFree' \in Buffers
      BY <1>4, <2>1, SuccType DEF FetchReleased
    <3>2. RingIndices'
      BY <1>4, <2>1 DEF FetchReleased, Succ
    <3> QED BY <1>4, <2>1, <3>1, <3>2 DEF FetchReleased
  <2>2. CASE thisFrame + 1 # K
    <3>1. thisFrame' \in Offsets
      BY <1>4, <2>2 DEF FetchReleased
    <3> QED BY <1>4, <2>2, <3>1 DEF FetchReleased
  <2> QED BY <2>1, <2>2
<1>5. CASE FetchPublish
  BY <1>5 DEF FetchPublish
<1>6. CASE FetchIncr
  BY <1>6 DEF FetchIncr
<1>7. CASE FetchTest
  BY <1>7 DEF FetchTest, MustWait
<1>8. CASE FetchWake
  BY <1>8 DEF FetchWake
<1>9. CASE FetchExit
  BY <1>9 DEF FetchExit
<1>10. CASE FrameIsAvailable
  BY <1>10 DEF FrameIsAvailable
<1>11. CASE GetFrameEnter
  BY <1>11 DEF GetFrameEnter
<1>12. CASE GetFrameLeave
  <2>1. left > 0 \/ dataReg > 0
    BY <1>12 DEF GetFrameLeave
  <2>2. CASE TakeCurrent
    BY <1>12, <2>1, <2>2 DEF GetFrameLeave, TakeCurrent
  <2>3. CASE TakeNext
    BY <1>12, <2>1, <2>3, SuccType DEF GetFrameLeave, TakeNext, Succ
  <2> QED BY <1>12, <2>1, <2>2, <2>3 DEF GetFrameLeave
<1>13. CASE CopyBegin
  <2>1. buf[reading[1]][reading[2]] \in Contents
    OBVIOUS
  <2> QED BY <1>13, <2>1 DEF CopyBegin
<1>14. CASE CopyEnd
  BY <1>14 DEF CopyEnd, Contents
<1>15. CASE StopDataThread
  BY <1>15 DEF StopDataThread
<1>16. CASE Destroy
  BY <1>16 DEF Destroy
<1>17. CASE DestroyJoin
  <2>1. dataPC = "stopped" /\ fetchPC = "done"
    BY <1>17 DEF DestroyJoin
  <2>2. sem' \in {-1, 0, 1} /\ connected' \in BOOLEAN
    BY <1>17 DEF DestroyJoin
  <2>3. Exclusion'
    BY <1>17, <2>1 DEF DestroyJoin
  <2> QED BY <1>17, <2>1, <2>2, <2>3 DEF DestroyJoin
<1>18. CASE LoseConnection
  BY <1>18 DEF LoseConnection
<1>19. CASE UNCHANGED vars
  BY <1>19 DEF vars
<1> QED
  BY <1>1, <1>2, <1>3, <1>4, <1>5, <1>6, <1>7, <1>8, <1>9, <1>10, <1>11, <1>12,
     <1>13, <1>14, <1>15, <1>16, <1>17, <1>18, <1>19
     DEF Next, Fetch, Data, Main

(* The counters, indices and thread positions of framebuf.cpp agree in every *)
(* reachable state.                                                          *)
THEOREM RingInvariant == Spec => []RingInv
<1> QED BY InitInv, NextInv, PTL DEF Spec

(* No variable leaves its range; ready never exceeds N.                      *)
THEOREM TypeCorrect == Spec => []TypeOK
<1>1. RingInv => TypeOK
  BY DEF RingInv
<1> QED BY <1>1, RingInvariant, PTL

(* m_fetchSem is a critical section and outlives its users.                  *)
THEOREM SemaphoreExcludes == Spec => []Exclusion
<1>1. RingInv => Exclusion
  BY DEF RingInv
<1> QED BY <1>1, RingInvariant, PTL

(* nextFree, nextPopulated and ready never disagree.                         *)
THEOREM IndicesAgree == Spec => []RingIndices
<1>1. RingInv => RingIndices
  BY DEF RingInv
<1> QED BY <1>1, RingInvariant, PTL

(* FetchThread never writes into a buffer that waits to be taken.            *)
THEOREM ReadyBuffersSafe == Spec => []ReadyNotWritten
<1>1. RingInv => ReadyNotWritten
  BY DEF RingInv, TypeOK, RingIndices, Room, ReadyNotWritten, IsReady, Uncounted
<1> QED BY <1>1, RingInvariant, PTL

(* getFrame returns a frame whenever frameIsAvailable promised one.          *)
THEOREM FrameNeverNull == Spec => []NeverNull
<1>1. RingInv => NeverNull
  BY DEF RingInv, Current, NeverNull
<1> QED BY <1>1, RingInvariant, PTL

(* The buffer being consumed is written into only when the N - 1 others are  *)
(* full.                                                                     *)
THEOREM OverrunNeedsFullRing == Spec => OverrunOnlyWhenFull
<1>1. RingInv /\ [Next]_vars => [overrun' # overrun => ready = N - 1]_vars
  <2> SUFFICES ASSUME RingInv, Next, overrun' # overrun PROVE ready = N - 1
    OBVIOUS
  <2>1. FetchGet
    BY DEF Next, Fetch, Data, Main, FetchCopied, FetchReleaseFailed,
           FetchReleased, FetchPublish, FetchIncr, FetchTest, FetchWake,
           FetchExit, FrameIsAvailable, GetFrameEnter, GetFrameLeave, CopyBegin,
           CopyEnd, StopDataThread, Destroy, DestroyJoin, LoseConnection
  <2>2. Consuming(nextFree)
    BY <2>1 DEF FetchGet, RingInv, TypeOK
  <2>3. nextPop = Succ(nextFree)
    BY <2>2 DEF Consuming, RingInv, Current
  <2> QED BY <2>1, <2>3
          DEF FetchGet, RingInv, TypeOK, RingIndices, Room, Uncounted, Succ
<1> QED BY <1>1, RingInvariant, PTL DEF Spec, OverrunOnlyWhenFull

-----------------------------------------------------------------------------
(* What the buffers hold                                                   *)

\* How many frames of the buffer being filled are complete
Filled == IF fetchPC = "release" THEN thisFrame + 1 ELSE thisFrame

\* The last buffer filled and not yet counted
Full == At(nextFree, N - 1)

\* No frame is newer than the one the fetch thread got last, which is nowhere
\* while it is being copied.
Numbered ==
  /\ \A b \in Buffers, o \in Offsets : buf[b][o] <= camera
  /\ seen <= camera
  /\ fetchPC = "copy" =>
       /\ \A b \in Buffers, o \in Offsets : buf[b][o] < camera
       /\ seen < camera
       /\ buf[nextFree][thisFrame] = Torn
  /\ fetchPC = "release" => buf[nextFree][thisFrame] = camera

\* The frames of the buffer being filled follow each other and those published.
Filling ==
  fetchPC \in {"get", "copy", "release"} =>
    /\ \A o \in Offsets : o < Filled => lastPublished < buf[nextFree][o]
    /\ \A o, p \in Offsets :
         o < p /\ p < Filled => buf[nextFree][o] < buf[nextFree][p]

\* So do those of a buffer that is filled and not yet counted.
Counting ==
  fetchPC \in {"publish", "incr"} =>
    /\ lastPublished < buf[Full][0]
    /\ \A o, p \in Offsets : o < p => buf[Full][o] < buf[Full][p]

\* A new buffer is filled from its first frame on.
FromTheStart == fetchPC \in {"publish", "incr", "test", "sleep"} => thisFrame = 0

QueueInv == Numbered /\ Filling /\ Counting /\ FromTheStart

-----------------------------------------------------------------------------
(* Indices and positions                                                   *)

LEMMA AtType ==
  ASSUME NEW b \in Buffers, NEW n \in 0 .. N - 1
  PROVE  /\ At(b, n) \in Buffers /\ (n > 0 => At(b, n) # b)
         /\ At(Succ(b), n) = IF n = N - 1 THEN b ELSE At(b, n + 1)
  BY DEF At, Succ

\* The j-th frame of consecutive buffers
LEMMA Position ==
  ASSUME NEW j \in Nat
  PROVE  /\ j \div K \in Nat /\ j - (j \div K) * K \in Offsets
         /\ \A q \in Nat : j < q * K => j \div K < q
  OBVIOUS

LEMMA PositionOf ==
  ASSUME NEW q \in Nat, NEW r \in Offsets
  PROVE  (q * K + r) \div K = q
  OBVIOUS

LEMMA PositionShift ==
  ASSUME NEW j \in Nat
  PROVE  (j + K) \div K = j \div K + 1 /\ (j < K => j \div K = 0)
  OBVIOUS

\* How many frames wait, and where the last one published is
LEMMA Sizes ==
  ASSUME RingInv
  PROVE  /\ left \in Nat /\ left < K /\ ready \in Nat /\ ready * K \in Nat
         /\ left + ready * K \in Nat /\ (ready + 1) * K = ready * K + K
         /\ Uncounted \in {0, 1} /\ N - 1 - Uncounted \in 0 .. N - 1
<1>1. left \in Nat /\ left < K /\ ready \in Nat
  BY DEF RingInv, TypeOK
<1>2. \A r \in Nat : r * K \in Nat /\ (r + 1) * K = r * K + K
  OBVIOUS
<1>3. Uncounted \in {0, 1} /\ N - 1 - Uncounted \in 0 .. N - 1
  BY SeveralBuffers DEF Uncounted
<1> QED
  BY <1>1, <1>2, <1>3

\* A waiting frame is in the current buffer or in a ready one.
LEMMA WaitingIn ==
  ASSUME RingInv, NEW i \in 1 .. left + ready * K
  PROVE  /\ i <= left => /\ K - left + i - 1 \in Offsets
                         /\ Waiting(i) = buf[cur][K - left + i - 1]
         /\ i > left =>
              \E n \in 0 .. ready - 1, o \in Offsets :
                /\ n < N /\ o = (i - left - 1) - n * K /\ n = (i - left - 1) \div K
                /\ Waiting(i) = buf[At(nextPop, n)][o]
<1>1. CASE i <= left
  BY <1>1, Sizes DEF Waiting
<1>2. CASE i > left
  <2> DEFINE j == i - left - 1
             n == j \div K
             o == j - n * K
  <2>1. j \in Nat /\ j < ready * K
    BY <1>2, Sizes
  <2> HIDE DEF j
  <2>2. n \in Nat /\ o \in Offsets /\ n < ready
    BY <2>1, Position, Sizes
  <2>3. ready <= N
    BY DEF RingInv, TypeOK
  <2>4. Waiting(i) = buf[At(nextPop, n)][o]
    BY <1>2, Sizes DEF Waiting, j
  <2>5. n \in 0 .. ready - 1 /\ n < N
    BY <2>2, <2>3, Sizes
  <2>6. /\ n = (i - left - 1) \div K /\ o = (i - left - 1) - n * K
    BY DEF j
  <2> HIDE DEF n, o
  <2>7. /\ n < N /\ o = (i - left - 1) - n * K /\ n = (i - left - 1) \div K
        /\ Waiting(i) = buf[At(nextPop, n)][o] /\ o \in Offsets
    BY <2>2, <2>4, <2>5, <2>6
  <2>8. \E m \in 0 .. ready - 1, p \in Offsets :
          /\ m < N /\ p = (i - left - 1) - m * K /\ m = (i - left - 1) \div K
          /\ Waiting(i) = buf[At(nextPop, m)][p]
    BY <2>5, <2>7, Zenon
  <2>9. ~(i <= left)
    BY <1>2, Sizes
  <2> QED BY <2>8, <2>9
<1> QED
  BY <1>1, <1>2, Sizes

Pending ==
  /\ pendingFrames \in Seq(Contents) /\ Len(pendingFrames) = left + ready * K
  /\ \A i \in 1 .. left + ready * K : pendingFrames[i] = Waiting(i)

LEMMA PendingSeq == RingInv => Pending
<1> SUFFICES ASSUME RingInv PROVE Pending
  OBVIOUS
<1>1. \A i \in 1 .. left + ready * K : Waiting(i) \in Contents
  <2> SUFFICES ASSUME NEW i \in 1 .. left + ready * K PROVE Waiting(i) \in Contents
    OBVIOUS
  <2>1. CASE i <= left
    BY <2>1, WaitingIn DEF RingInv, TypeOK
  <2>2. CASE i > left
    <3>1. PICK n \in 0 .. ready - 1, o \in Offsets :
            n < N /\ Waiting(i) = buf[At(nextPop, n)][o]
      BY <2>2, WaitingIn
    <3>2. nextPop \in Buffers /\ n \in 0 .. N - 1
      BY <3>1, Sizes DEF RingInv, TypeOK
    <3>3. At(nextPop, n) \in Buffers
      BY <3>2, AtType
    <3> QED BY <3>1, <3>3 DEF RingInv, TypeOK
  <2> QED BY <2>1, <2>2, Sizes
<1>2. left + ready * K \in Nat
  BY Sizes
<1> QED
  BY <1>1, <1>2, IsASeq DEF pendingFrames, Pending

LEMMA PendingSeqNext == RingInv' => Pending'
  BY PendingSeq, PTL

-----------------------------------------------------------------------------
(* The contents of the buffers                                             *)

LEMMA QueueInit == Init => QueueInv
<1> SUFFICES ASSUME Init PROVE QueueInv
  OBVIOUS
<1>1. \A b \in Buffers, o \in Offsets : buf[b][o] = 0
  BY DEF Init, Blank
<1>2. fetchPC = "get" /\ thisFrame = 0 /\ camera = 0 /\ seen = 0
  BY DEF Init, Blank
<1> QED
  BY <1>1, <1>2 DEF QueueInv, Numbered, Filling, Counting, FromTheStart, Filled

\* Writing a slot of the buffer being filled leaves the last frame published.
LEMMA PublishedKept ==
  ASSUME RingInv, fetchPC \in {"get", "copy", "release"},
         fetchPC' \in {"get", "copy", "release"}, nextFree' = nextFree,
         \A b \in Buffers, o \in Offsets : b # nextFree => buf'[b][o] = buf[b][o]
  PROVE  lastPublished' = lastPublished
<1>1. Uncounted = 0 /\ Uncounted' = 0
  BY DEF Uncounted
<1>2. nextFree \in Buffers /\ N - 1 \in 0 .. N - 1 /\ N - 1 > 0 /\ K - 1 \in Offsets
  BY SeveralBuffers DEF RingInv, TypeOK
<1>3. At(nextFree, N - 1) \in Buffers /\ At(nextFree, N - 1) # nextFree
  BY <1>2, AtType
<1>4. lastPublished = buf[At(nextFree, N - 1)][K - 1]
  BY <1>1, <1>2 DEF lastPublished
<1>5. lastPublished' = buf'[At(nextFree, N - 1)][K - 1]
  BY <1>1, <1>2 DEF lastPublished, At
<1> QED
  BY <1>2, <1>3, <1>4, <1>5

LEMMA GetKeeps == RingInv /\ QueueInv /\ FetchGet => QueueInv'
<1> SUFFICES ASSUME RingInv, QueueInv, FetchGet PROVE QueueInv'
  OBVIOUS
<1>1. /\ fetchPC = "get" /\ fetchPC' = "copy" /\ camera' = camera + 1
      /\ nextFree' = nextFree /\ thisFrame' = thisFrame /\ seen' = seen
      /\ buf' = [buf EXCEPT ![nextFree][thisFrame] = Torn]
  BY DEF FetchGet, dataVars
<1>2. /\ nextFree \in Buffers /\ thisFrame \in Offsets /\ camera \in Nat
      /\ buf \in [Buffers -> [Offsets -> Contents]] /\ seen \in Contents
      /\ Contents \subseteq Int /\ Torn = -1
  BY DEF RingInv, TypeOK, Contents, Frames, Torn, Blank
<1>3. \A b \in Buffers, o \in Offsets :
        buf'[b][o] = IF b = nextFree /\ o = thisFrame THEN Torn ELSE buf[b][o]
  BY <1>1, <1>2
<1>4. seen < camera' /\ \A b \in Buffers, o \in Offsets : buf'[b][o] < camera'
  <2>1. \A b \in Buffers, o \in Offsets : buf[b][o] \in Int /\ buf[b][o] <= camera
    BY <1>2 DEF QueueInv, Numbered
  <2>2. seen \in Int /\ seen <= camera
    BY <1>2 DEF QueueInv, Numbered
  <2> QED BY <1>1, <1>2, <1>3, <2>1, <2>2
<1>5. Numbered'
  <2>1. \A b \in Buffers, o \in Offsets : buf'[b][o] \in Int
    <3>1. \A b \in Buffers, o \in Offsets : buf[b][o] \in Int
      BY <1>2
    <3>2. Torn \in Int
      BY <1>2
    <3> QED BY <1>3, <3>1, <3>2
  <2>2. buf'[nextFree][thisFrame] = Torn
    BY <1>2, <1>3
  <2>3. /\ seen <= camera'
        /\ \A b \in Buffers, o \in Offsets : buf'[b][o] <= camera'
    BY <1>1, <1>2, <1>4, <2>1
  <2> QED BY <1>1, <1>4, <2>2, <2>3 DEF Numbered
<1>6. lastPublished' = lastPublished
  BY <1>1, <1>3, PublishedKept
<1>7. Filling'
  BY <1>1, <1>2, <1>3, <1>6 DEF QueueInv, Filling, Filled
<1> QED
  BY <1>1, <1>5, <1>7 DEF QueueInv, Counting, FromTheStart

LEMMA CopiedKeeps == RingInv /\ QueueInv /\ FetchCopied => QueueInv'
<1> SUFFICES ASSUME RingInv, QueueInv, FetchCopied PROVE QueueInv'
  OBVIOUS
<1>1. /\ fetchPC = "copy" /\ fetchPC' = "release" /\ camera' = camera
      /\ nextFree' = nextFree /\ thisFrame' = thisFrame /\ seen' = seen
      /\ buf' = [buf EXCEPT ![nextFree][thisFrame] = camera]
  BY DEF FetchCopied, dataVars
<1>2. /\ nextFree \in Buffers /\ thisFrame \in Offsets /\ camera \in Nat
      /\ buf \in [Buffers -> [Offsets -> Contents]] /\ seen \in Contents
      /\ Contents \subseteq Int
  BY DEF RingInv, TypeOK, Contents, Frames, Torn, Blank
<1>3. \A b \in Buffers, o \in Offsets :
        buf'[b][o] = IF b = nextFree /\ o = thisFrame THEN camera ELSE buf[b][o]
  BY <1>1, <1>2
<1>4. Numbered'
  BY <1>1, <1>2, <1>3 DEF QueueInv, Numbered
<1>5. lastPublished' = lastPublished
  BY <1>1, <1>3, PublishedKept
<1>6. lastPublished < camera
  <2>1. N - 1 \in 0 .. N - 1 /\ K - 1 \in Offsets
    BY SeveralBuffers
  <2>2. At(nextFree, N - 1) \in Buffers
    BY <1>2, <2>1, AtType
  <2>3. lastPublished = buf[At(nextFree, N - 1)][K - 1]
    BY <1>1, <2>1 DEF lastPublished, Uncounted
  <2> QED BY <1>1, <2>1, <2>2, <2>3 DEF QueueInv, Numbered
<1>7. \A o \in Offsets : o < Filled' => o < Filled \/ o = thisFrame
  BY <1>1, <1>2 DEF Filled
<1>8. Filling'
  BY <1>1, <1>2, <1>3, <1>5, <1>6 DEF QueueInv, Filling, Filled, Numbered
<1> QED
  BY <1>1, <1>4, <1>8 DEF QueueInv, Counting, FromTheStart

LEMMA ReleasedKeeps == RingInv /\ QueueInv /\ FetchReleased => QueueInv'
<1> SUFFICES ASSUME RingInv, QueueInv, FetchReleased PROVE QueueInv'
  OBVIOUS
<1>1. /\ fetchPC = "release" /\ camera' = camera /\ seen' = seen /\ buf' = buf
  BY DEF FetchReleased, dataVars
<1>2. nextFree \in Buffers /\ thisFrame \in Offsets
  BY DEF RingInv, TypeOK
<1>3. Numbered'
  BY <1>1 DEF QueueInv, Numbered, FetchReleased
<1>4. CASE thisFrame + 1 # K
  <2>1. fetchPC' = "get" /\ thisFrame' = thisFrame + 1 /\ nextFree' = nextFree
    BY <1>4 DEF FetchReleased
  <2>2. lastPublished' = lastPublished
    BY <1>1, <2>1, PublishedKept
  <2>3. Filling'
    BY <1>1, <2>1, <2>2 DEF QueueInv, Filling, Filled
  <2> QED BY <1>3, <2>1, <2>3 DEF QueueInv, Counting, FromTheStart
<1>5. CASE thisFrame + 1 = K
  <2>1. fetchPC' = "publish" /\ thisFrame' = 0 /\ nextFree' = Succ(nextFree)
    BY <1>5 DEF FetchReleased
  <2>2. At(Succ(nextFree), N - 1) = nextFree
    BY <1>2, SeveralBuffers, AtType
  <2>3. At(Succ(nextFree), N - 2) = At(nextFree, N - 1)
    BY <1>2, SeveralBuffers, AtType
  <2>4. Full' = nextFree
    BY <2>1, <2>2 DEF Full, At
  <2>5. lastPublished' = lastPublished
    BY <1>1, <2>1, <2>3 DEF lastPublished, Uncounted, At
  <2>6. /\ lastPublished < buf[nextFree][0]
        /\ \A o, p \in Offsets : o < p => buf[nextFree][o] < buf[nextFree][p]
    BY <1>1, <1>5 DEF QueueInv, Filling, Filled
  <2>7. Counting'
    BY <1>1, <2>4, <2>5, <2>6 DEF Counting
  <2> QED BY <1>3, <2>1, <2>7 DEF QueueInv, Filling, FromTheStart
<1> QED
  BY <1>4, <1>5

LEMMA FailedKeeps == RingInv /\ QueueInv /\ FetchReleaseFailed => QueueInv'
<1> SUFFICES ASSUME RingInv, QueueInv, FetchReleaseFailed PROVE QueueInv'
  OBVIOUS
<1>1. /\ fetchPC = "release" /\ fetchPC' = "get"
      /\ UNCHANGED <<ringVars, thisFrame, camera, dataVars>>
  BY DEF FetchReleaseFailed
<1>2. lastPublished' = lastPublished
  BY <1>1, PublishedKept DEF ringVars
<1>3. thisFrame \in Offsets
  BY DEF RingInv, TypeOK
<1> QED
  BY <1>1, <1>2, <1>3 DEF QueueInv, Numbered, Filling, Filled, Counting, FromTheStart,
                          ringVars, dataVars

LEMMA IncrKeeps == RingInv /\ QueueInv /\ FetchIncr => QueueInv'
<1> SUFFICES ASSUME RingInv, QueueInv, FetchIncr PROVE QueueInv'
  OBVIOUS
<1>1. /\ fetchPC = "incr" /\ fetchPC' = "test"
      /\ UNCHANGED <<buf, nextFree, thisFrame, camera, dataVars>>
  BY DEF FetchIncr
<1> QED
  BY <1>1 DEF QueueInv, Numbered, Filling, Counting, FromTheStart, dataVars

\* What the other steps leave as it was
LEMMA OthersKeep ==
  RingInv /\ QueueInv /\ [Next]_vars
    /\ ~FetchGet /\ ~FetchCopied /\ ~FetchReleased /\ ~FetchReleaseFailed /\ ~FetchIncr
    => QueueInv'
<1> SUFFICES ASSUME RingInv, QueueInv, [Next]_vars, ~FetchGet, ~FetchCopied,
                    ~FetchReleased, ~FetchReleaseFailed, ~FetchIncr
             PROVE  QueueInv'
  OBVIOUS
<1>1. UNCHANGED <<buf, nextFree, thisFrame, camera>>
  BY DEF Next, Fetch, Data, Main, FetchPublish, FetchTest, FetchWake, FetchExit,
         FrameIsAvailable, GetFrameEnter, GetFrameLeave, CopyBegin, CopyEnd,
         StopDataThread, Destroy, DestroyJoin, LoseConnection, vars, ringVars,
         fetchVars, TakeCurrent, TakeNext
<1>2. \/ fetchPC' = fetchPC
      \/ fetchPC = "publish" /\ fetchPC' = "incr"
      \/ fetchPC = "test" /\ fetchPC' \in {"sleep", "get"}
      \/ fetchPC = "sleep" /\ fetchPC' = "test"
      \/ fetchPC = "get" /\ fetchPC' = "done"
  BY DEF Next, Fetch, Data, Main, FetchPublish, FetchTest, FetchWake, FetchExit,
         FrameIsAvailable, GetFrameEnter, GetFrameLeave, CopyBegin, CopyEnd,
         StopDataThread, Destroy, DestroyJoin, LoseConnection, vars, fetchVars
<1>3. seen' = seen \/ (seen' \in {buf[b][o] : b \in Buffers, o \in Offsets}
                          /\ fetchPC' = fetchPC)
  <2>1. CASE CopyBegin
    BY <2>1 DEF CopyBegin, fetchVars, RingInv, TypeOK
  <2>2. CASE ~CopyBegin
    BY <2>2 DEF Next, Fetch, Data, Main, FetchPublish, FetchTest, FetchWake, FetchExit,
         FrameIsAvailable, GetFrameEnter, GetFrameLeave, CopyEnd,
         StopDataThread, Destroy, DestroyJoin, LoseConnection, vars, dataVars
  <2> QED BY <2>1, <2>2
<1>4. Numbered'
  BY <1>1, <1>2, <1>3 DEF QueueInv, Numbered
<1>5. FromTheStart'
  BY <1>1, <1>2 DEF QueueInv, FromTheStart
<1>6. Filling' /\ Counting'
  <2>1. CASE fetchPC' = fetchPC \/ (fetchPC = "publish" /\ fetchPC' = "incr")
    <3>1. lastPublished' = lastPublished /\ Filled' = Filled /\ Full' = Full
      BY <1>1, <2>1 DEF lastPublished, Uncounted, Filled, Full, At
    <3> QED BY <1>1, <2>1, <3>1 DEF QueueInv, Filling, Counting
  <2>2. CASE fetchPC = "test" /\ fetchPC' \in {"sleep", "get"}
    <3>1. thisFrame' = 0
      BY <1>1, <2>2 DEF QueueInv, FromTheStart
    <3>2. \A o \in Offsets : ~(o < Filled')
      BY <2>2, <3>1 DEF Filled
    <3> QED BY <2>2, <3>2 DEF Filling, Counting
  <2>3. CASE fetchPC' \in {"test", "done"}
    BY <2>3 DEF Filling, Counting
  <2>4. \/ fetchPC' = fetchPC \/ (fetchPC = "publish" /\ fetchPC' = "incr")
        \/ fetchPC = "test" /\ fetchPC' \in {"sleep", "get"}
        \/ fetchPC' \in {"test", "done"}
    BY <1>2
  <2> QED BY <2>1, <2>2, <2>3, <2>4
<1> QED
  BY <1>4, <1>5, <1>6 DEF QueueInv

LEMMA QueueNext == RingInv /\ QueueInv /\ [Next]_vars => QueueInv'
  BY GetKeeps, CopiedKeeps, ReleasedKeeps, FailedKeeps, IncrKeeps, OthersKeep

(* The frames in the buffers follow each other as the camera numbered them. *)
THEOREM FramesInOrder == Spec => []QueueInv
<1> QED BY RingInvariant, QueueInit, QueueNext, PTL DEF Spec

-----------------------------------------------------------------------------
(* Every step of the ring is a step of the queue                           *)

\* The ring's variables, as far as the queue sees them
LEMMA SameQueue ==
  ASSUME UNCHANGED <<buf, left, cur, nextPop, ready, out>>,
         UNCHANGED <<reading, seen, dataPC>>, lastPublished' = lastPublished
  PROVE  UNCHANGED Queue!qvars
<1>1. \A i : Waiting(i)' = Waiting(i)
  BY DEF Waiting, At
<1>2. pendingFrames' = pendingFrames
  BY <1>1 DEF pendingFrames
<1>3. inHandFrame' = inHandFrame
  BY DEF inHandFrame, copied
<1> QED
  BY <1>2, <1>3 DEF Queue!qvars

LEMMA InitQueue == Init => Queue!QInit
<1> SUFFICES ASSUME Init PROVE Queue!QInit
  OBVIOUS
<1>1. left + ready * K = 0
  BY DEF Init
<1>2. pendingFrames = << >>
  BY <1>1 DEF pendingFrames
<1>3. lastPublished = 0
  <2>1. N - 1 - 0 \in 0 .. N - 1 /\ K - 1 \in Offsets /\ 0 \in Buffers
    BY SeveralBuffers
  <2>2. At(0, N - 1 - 0) \in Buffers
    BY <2>1, AtType
  <2>3. nextFree = 0 /\ Uncounted = 0
    BY DEF Init, Uncounted
  <2> QED BY <2>1, <2>2, <2>3 DEF Init, lastPublished, Blank
<1>4. inHandFrame = << >> /\ left = 0 /\ out = 0
  BY DEF Init, inHandFrame, Blank
<1> QED
  BY <1>2, <1>3, <1>4 DEF Queue!QInit

\* A ready buffer is not the one that is being filled.
LEMMA ReadyApart ==
  ASSUME RingInv, Uncounted = 0, ready < N, NEW n \in 0 .. ready - 1
  PROVE  At(nextPop, n) \in Buffers /\ At(nextPop, n) # nextFree
<1>1. /\ nextPop \in Buffers /\ ready \in Nat /\ nextFree \in Buffers
      /\ nextFree \in {nextPop + ready, nextPop + ready - N}
  BY DEF RingInv, TypeOK, RingIndices
<1> QED
  BY <1>1 DEF At

\* A slot of the buffer being filled is written.
LEMMA FillIsQueueStep ==
  ASSUME RingInv, RingInv', Uncounted = 0, ready < N, NEW v,
         v = Torn \/ v > lastPublished, lastPublished' = lastPublished,
         buf' = [buf EXCEPT ![nextFree][thisFrame] = v],
         UNCHANGED <<left, cur, nextPop, ready, out, reading, seen, dataPC>>
  PROVE  Queue!Overrun \/ UNCHANGED Queue!qvars
<1>1. /\ nextFree \in Buffers /\ thisFrame \in Offsets /\ cur \in Buffers
      /\ buf \in [Buffers -> [Offsets -> Contents]]
      /\ reading[1] \in Buffers /\ reading[2] \in Offsets
  BY DEF RingInv, TypeOK
<1>2. \A b \in Buffers, o \in Offsets :
        buf'[b][o] = IF b = nextFree /\ o = thisFrame THEN v ELSE buf[b][o]
  BY <1>1
<1>3. ASSUME NEW i \in 1 .. left + ready * K
      PROVE  /\ Waiting(i)' = Waiting(i) \/ (i <= left /\ cur = nextFree /\ Waiting(i)' = v)
  <2>1. CASE i <= left
    <3>1. K - left + i - 1 \in Offsets /\ Waiting(i) = buf[cur][K - left + i - 1]
      BY <2>1, WaitingIn
    <3>2. Waiting(i)' = buf'[cur][K - left + i - 1]
      BY <2>1 DEF Waiting
    <3> QED BY <1>1, <1>2, <2>1, <3>1, <3>2
  <2>2. CASE i > left
    <3>1. PICK n \in 0 .. ready - 1, o \in Offsets :
            /\ n < N /\ o = (i - left - 1) - n * K /\ n = (i - left - 1) \div K
            /\ Waiting(i) = buf[At(nextPop, n)][o]
      BY <2>2, WaitingIn
    <3>2. Waiting(i)' = buf'[At(nextPop, n)][o]
      <4>1. ~(i <= left)
        BY <2>2, Sizes
      <4> QED BY <3>1, <4>1 DEF Waiting, At
    <3>3. At(nextPop, n) \in Buffers /\ At(nextPop, n) # nextFree
      BY ReadyApart
    <3> QED BY <1>2, <3>1, <3>2, <3>3
  <2> QED BY <2>1, <2>2, Sizes
<1>4. /\ Pending /\ Pending' /\ Len(pendingFrames') = Len(pendingFrames)
      /\ \A i \in 1 .. left + ready * K : /\ pendingFrames[i] = Waiting(i)
                                          /\ pendingFrames'[i] = Waiting(i)'
  BY PendingSeq, PendingSeqNext DEF Pending
<1>5. CASE cur = nextFree /\ (left > 0 \/ dataPC \in {"start", "copy"})
  <2>1. ready = N - 1
    <3>1. nextPop = Succ(cur) /\ nextFree \in {nextPop + ready, nextPop + ready - N}
      BY <1>5, Sizes DEF RingInv, TypeOK, Current, RingIndices
    <3>2. ready \in Nat
      BY Sizes
    <3> QED BY <1>1, <1>5, <3>1, <3>2 DEF Succ
  <2>2. Len(pendingFrames) >= (N - 1) * K
    BY <1>4, <2>1, Sizes DEF Pending
  <2>3. \A i \in DOMAIN pendingFrames :
          IF i <= left THEN Queue!Spoiled(pendingFrames'[i], pendingFrames[i])
                       ELSE pendingFrames'[i] = pendingFrames[i]
    <3>1. DOMAIN pendingFrames = 1 .. left + ready * K
      BY <1>4 DEF Pending
    <3> QED BY <1>3, <1>4, <3>1 DEF Queue!Spoiled
  <2>4. Len(inHandFrame') = Len(inHandFrame)
    BY DEF inHandFrame
  <2>5. copied' = copied \/ copied' = Torn \/ copied' > lastPublished
    BY <1>1, <1>2 DEF copied
  <2>6. \A i \in DOMAIN inHandFrame : Queue!Spoiled(inHandFrame'[i], inHandFrame[i])
    BY <2>5 DEF inHandFrame, Queue!Spoiled
  <2> QED BY <1>4, <2>2, <2>3, <2>4, <2>6 DEF Queue!Overrun
<1>6. CASE ~(cur = nextFree /\ (left > 0 \/ dataPC \in {"start", "copy"}))
  <2>1. \A i \in 1 .. left + ready * K : pendingFrames'[i] = pendingFrames[i]
    BY <1>3, <1>4, <1>6, Sizes
  <2>2. pendingFrames' = pendingFrames
    BY <1>4, <2>1, SeqEqual DEF Pending
  <2>3. inHandFrame' = inHandFrame
    BY <1>1, <1>2, <1>6 DEF inHandFrame, copied, RingInv, Current
  <2> QED BY <2>2, <2>3 DEF Queue!qvars
<1> QED
  BY <1>5, <1>6

LEMMA GetIsQueueStep ==
  ASSUME RingInv, RingInv', QueueInv, FetchGet
  PROVE  Queue!Overrun \/ UNCHANGED Queue!qvars
<1>1. /\ fetchPC = "get" /\ fetchPC' = "copy" /\ nextFree' = nextFree
      /\ buf' = [buf EXCEPT ![nextFree][thisFrame] = Torn] /\ appRunning
      /\ UNCHANGED <<left, cur, nextPop, ready, out, reading, seen, dataPC>>
  BY DEF FetchGet, dataVars
<1>2. Uncounted = 0 /\ ready < N
  BY <1>1 DEF Uncounted, RingInv, Room
<1>3. lastPublished' = lastPublished
  BY <1>1, PublishedKept DEF RingInv, TypeOK
<1> QED
  BY <1>1, <1>2, <1>3, FillIsQueueStep

LEMMA CopiedIsQueueStep ==
  ASSUME RingInv, RingInv', QueueInv, FetchCopied
  PROVE  Queue!Overrun \/ UNCHANGED Queue!qvars
<1>1. /\ fetchPC = "copy" /\ fetchPC' = "release" /\ nextFree' = nextFree
      /\ buf' = [buf EXCEPT ![nextFree][thisFrame] = camera]
      /\ UNCHANGED <<left, cur, nextPop, ready, out, reading, seen, dataPC>>
  BY DEF FetchCopied, dataVars
<1>2. Uncounted = 0 /\ ready < N
  BY <1>1 DEF Uncounted, RingInv, Room
<1>3. lastPublished' = lastPublished
  BY <1>1, PublishedKept DEF RingInv, TypeOK
<1>4. lastPublished = buf[At(nextFree, N - 1)][K - 1]
  BY <1>2, SeveralBuffers DEF lastPublished
<1>5. camera > lastPublished
  <2>1. N - 1 \in 0 .. N - 1 /\ K - 1 \in Offsets /\ nextFree \in Buffers
    BY SeveralBuffers DEF RingInv, TypeOK
  <2>2. At(nextFree, N - 1) \in Buffers
    BY <2>1, AtType
  <2>3. lastPublished < camera
    BY <1>1, <1>4, <2>1, <2>2 DEF QueueInv, Numbered
  <2>4. Contents \subseteq Int
    BY DEF Contents, Frames, Torn, Blank
  <2>5. buf \in [Buffers -> [Offsets -> Contents]]
    BY DEF RingInv, TypeOK
  <2>6. camera \in Int
    BY DEF RingInv, TypeOK
  <2>7. lastPublished \in Contents
    BY <1>4, <2>1, <2>2, <2>5
  <2> QED BY <2>3, <2>4, <2>6, <2>7
<1> QED
  BY <1>1, <1>2, <1>3, <1>5, FillIsQueueStep

\* The buffer is counted: its frames are published.
LEMMA IncrIsPublish ==
  ASSUME RingInv, RingInv', QueueInv, FetchIncr
  PROVE  Queue!Publish
<1>1. /\ fetchPC = "incr" /\ fetchPC' = "test" /\ ready' = ready + 1
      /\ UNCHANGED <<buf, nextFree, nextPop, cur, left, reading, seen, dataPC, out>>
  BY DEF FetchIncr, dataVars, RingInv, Registers
<1>2. /\ nextFree \in Buffers /\ nextPop \in Buffers /\ ready \in 0 .. N - 1
      /\ nextFree \in {nextPop + ready + 1, nextPop + ready + 1 - N}
      /\ buf \in [Buffers -> [Offsets -> Contents]] /\ Contents \subseteq Int
  BY <1>1 DEF RingInv, TypeOK, RingIndices, Uncounted, Contents, Frames, Torn, Blank
<1>3. Full = At(nextPop, ready) /\ Full \in Buffers
  BY <1>2, SeveralBuffers DEF Full, At
<1>4. lastPublished' = buf[Full][K - 1]
  BY <1>1, SeveralBuffers DEF lastPublished, Uncounted, Full, At
<1>5. /\ lastPublished < buf[Full][0]
      /\ \A o, p \in Offsets : o < p => buf[Full][o] < buf[Full][p]
  BY <1>1 DEF QueueInv, Counting
<1> DEFINE m == left + ready * K
<1>6. m \in Nat /\ left' + ready' * K = m + K /\ left \in Nat
  BY <1>1, Sizes
<1>7. Pending /\ Pending'
  BY PendingSeq, PendingSeqNext
<1>8. \A i \in 1 .. m : pendingFrames'[i] = pendingFrames[i]
  <2> SUFFICES ASSUME NEW i \in 1 .. m PROVE pendingFrames'[i] = pendingFrames[i]
    OBVIOUS
  <2>1. Waiting(i)' = Waiting(i)
    BY <1>1 DEF Waiting, At
  <2>2. pendingFrames[i] = Waiting(i)
    BY <1>7 DEF Pending
  <2>3. i \in 1 .. left' + ready' * K
    BY <1>6
  <2>4. pendingFrames'[i] = Waiting(i)'
    BY <1>7, <2>3 DEF Pending
  <2> QED BY <2>1, <2>2, <2>4
<1>9. \A o \in Offsets : pendingFrames'[m + o + 1] = buf[Full][o]
  <2> SUFFICES ASSUME NEW o \in Offsets PROVE pendingFrames'[m + o + 1] = buf[Full][o]
    OBVIOUS
  <2>1. PICK i \in Nat : i = m + o + 1
    BY <1>6
  <2> DEFINE j == i - left - 1
  <2>2. i \in 1 .. left' + ready' * K /\ ~(i <= left)
    BY <1>6, <2>1, Sizes
  <2>3. j = ready * K + o
    BY <1>6, <2>1, Sizes
  <2>4. j \div K = ready
    <3>1. ready \in Nat /\ (ready * K + o) \div K = ready
      BY Sizes, PositionOf
    <3> HIDE DEF j
    <3> QED BY <2>3, <3>1
  <2>5. j - ready * K = o
    BY <2>3, Sizes
  <2>6. Waiting(i)' = buf[At(nextPop, ready)][o]
    <3> HIDE DEF m
    <3>1. Waiting(i)' = Waiting(i)
      BY <1>1 DEF Waiting, At
    <3>2. Waiting(i) = buf[At(nextPop, j \div K)][j - (j \div K) * K]
      BY <2>2 DEF Waiting
    <3> HIDE DEF j
    <3> QED BY <2>4, <2>5, <3>1, <3>2
  <2> QED BY <1>3, <1>7, <2>1, <2>2, <2>6 DEF Pending
<1> HIDE DEF m
<1>10. /\ Len(pendingFrames) = m /\ Len(pendingFrames') = m + K
       /\ pendingFrames \in Seq(Contents) /\ pendingFrames' \in Seq(Contents)
  BY <1>6, <1>7 DEF Pending, m
<1> DEFINE batch == SubSeq(pendingFrames', m + 1, m + K)
<1>11. /\ batch \in Seq(Contents) /\ Len(batch) = K
       /\ \A i \in 1 .. K : batch[i] = buf[Full][i - 1]
  <2>1. batch \in Seq(Contents) /\ Len(batch) = K
    BY <1>6, <1>10, SubSeqProperties
  <2>2. ASSUME NEW i \in 1 .. K PROVE batch[i] = buf[Full][i - 1]
    <3>1. batch[i] = pendingFrames'[m + 1 + i - 1]
      BY <1>6, <1>10, <2>1, SubSeqProperties
    <3>2. i - 1 \in Offsets /\ m + 1 + i - 1 = m + (i - 1) + 1
      BY <1>6
    <3> QED BY <1>9, <3>1, <3>2
  <2> QED BY <2>1, <2>2
<1>12. SubSeq(pendingFrames', 1, m) = pendingFrames
  <2> DEFINE s == SubSeq(pendingFrames', 1, m)
  <2>1. s \in Seq(Contents) /\ Len(s) = m
    BY <1>6, <1>10, SubSeqProperties
  <2>2. \A i \in 1 .. m : s[i] = pendingFrames[i]
    BY <1>6, <1>8, <1>10, <2>1, SubSeqProperties
  <2> HIDE DEF s
  <2>3. s = pendingFrames
    BY <1>10, <2>1, <2>2, SeqEqual
  <2> QED BY <2>3 DEF s
<1> HIDE DEF batch
<1>13. Queue!Increasing(batch)
  <2>1. DOMAIN batch = 1 .. K
    BY <1>11
  <2>2. ASSUME NEW i \in 1 .. K, NEW k \in 1 .. K, i < k PROVE batch[i] < batch[k]
    <3>1. i - 1 \in Offsets /\ k - 1 \in Offsets /\ i - 1 < k - 1
      BY <2>2
    <3> QED BY <1>5, <1>11, <3>1
  <2> QED BY <2>1, <2>2 DEF Queue!Increasing
<1>14. batch[1] = buf[Full][0] /\ batch[K] = buf[Full][K - 1]
  BY <1>11
<1>15. inHandFrame' = inHandFrame
  BY <1>1 DEF inHandFrame, copied
<1>16. SubSeq(pendingFrames', Len(pendingFrames) + 1, Len(pendingFrames')) = batch
  BY <1>10 DEF batch
<1> QED
  BY <1>1, <1>4, <1>5, <1>10, <1>12, <1>13, <1>14, <1>15, <1>16 DEF Queue!Publish

\* getFrame takes the first waiting frame.
LEMMA LeaveIsTake ==
  ASSUME RingInv, RingInv', GetFrameLeave
  PROVE  Queue!Take
<1>1. /\ dataPC = "take" /\ dataReg = ready
      /\ UNCHANGED <<buf, nextFree, fetchVars, seen, out>>
  BY DEF GetFrameLeave, RingInv, Registers, DataHolds
<1>2. ready > 0 \/ left > 0
  BY <1>1 DEF RingInv, Current
<1>3. dataPC' = "start" /\ (TakeCurrent \/ TakeNext)
  <2>1. ~(dataReg = 0 /\ left = 0)
    BY <1>1, <1>2
  <2> QED BY <2>1, Zenon DEF GetFrameLeave
<1>4. Pending /\ Pending'
  BY PendingSeq, PendingSeqNext
<1> DEFINE m == left + ready * K
<1>5. m \in Nat /\ m > 0 /\ left' + ready' * K = m - 1
  <2>1. CASE TakeCurrent
    BY <2>1, Sizes DEF TakeCurrent
  <2>2. CASE TakeNext
    <3>1. left = 0 /\ left' = K - 1 /\ ready' = ready - 1 /\ ready - 1 \in Nat
      BY <1>1, <1>2, <2>2, Sizes DEF TakeNext
    <3>2. \A r \in Nat : (r + 1) * K = r * K + K /\ r * K \in Nat
      OBVIOUS
    <3>3. ready = (ready - 1) + 1
      BY Sizes
    <3>4. ready * K = (ready - 1) * K + K /\ (ready - 1) * K \in Nat
      BY <3>1, <3>2, <3>3
    <3>5. (ready' * K) = (ready - 1) * K
      BY <3>1
    <3> QED BY <3>1, <3>4, <3>5
  <2> QED BY <1>3, <2>1, <2>2
<1>6. /\ Len(pendingFrames) = m /\ pendingFrames \in Seq(Contents)
      /\ Len(pendingFrames') = m - 1 /\ pendingFrames' \in Seq(Contents)
      /\ \A i \in 1 .. m : pendingFrames[i] = Waiting(i)
      /\ \A i \in 1 .. m - 1 : pendingFrames'[i] = Waiting(i)'
  BY <1>4, <1>5 DEF Pending
<1>7. ASSUME NEW i \in 1 .. m - 1 PROVE Waiting(i)' = Waiting(i + 1)
  <2>1. CASE TakeCurrent
    <3>1. left' = left - 1 /\ left \in Nat /\ left > 0 /\ cur' = cur
          /\ nextPop' = nextPop
      BY <2>1, Sizes DEF TakeCurrent
    <3>2. CASE i <= left - 1
      <4>1. i + 1 <= left /\ K - (left - 1) + i - 1 = K - left + (i + 1) - 1
        BY <3>1, <3>2
      <4> QED BY <1>1, <3>1, <3>2, <4>1 DEF Waiting
    <3>3. CASE ~(i <= left - 1)
      <4>1. ~(i + 1 <= left) /\ i - (left - 1) - 1 = (i + 1) - left - 1
        BY <3>1, <3>3
      <4>2. Waiting(i)' = LET j == i - (left - 1) - 1
                              n == j \div K
                          IN  buf[At(nextPop, n)][j - n * K]
        BY <1>1, <3>1, <3>3 DEF Waiting, At
      <4> QED BY <4>1, <4>2 DEF Waiting
    <3> QED BY <3>2, <3>3
  <2>2. CASE TakeNext
    <3>1. /\ left = 0 /\ left' = K - 1 /\ cur' = nextPop /\ nextPop' = Succ(nextPop)
          /\ nextPop \in Buffers
      BY <2>2 DEF TakeNext, RingInv, TypeOK
    <3>2. i \in Nat /\ i > 0
      BY <1>5
    <3>3. CASE i <= K - 1
      <4>1. Waiting(i)' = buf[nextPop][K - (K - 1) + i - 1]
        BY <1>1, <3>1, <3>3 DEF Waiting
      <4>2. K - (K - 1) + i - 1 = i /\ i \div K = 0 /\ i - 0 * K = i
        BY <3>2, <3>3, PositionShift
      <4>3. Waiting(i + 1) = buf[At(nextPop, 0)][i]
        <5>1. ~(i + 1 <= left) /\ (i + 1) - left - 1 = i
          BY <3>1, <3>2
        <5> QED BY <4>2, <5>1 DEF Waiting
      <4>4. At(nextPop, 0) = nextPop
        BY <3>1 DEF At
      <4> QED BY <4>1, <4>2, <4>3, <4>4
    <3>4. CASE ~(i <= K - 1)
      <4>1. PICK j \in Nat : j = i - (K - 1) - 1 /\ i = j + K
        BY <3>2, <3>4
      <4>2. PICK n \in Nat : n = j \div K /\ i \div K = n + 1
        BY <4>1, Position, PositionShift
      <4>3. i - (n + 1) * K = j - n * K
        BY <4>1
      <4>4. Waiting(i)' = buf[At(Succ(nextPop), n)][j - n * K]
        BY <1>1, <3>1, <3>4, <4>1, <4>2 DEF Waiting, At
      <4>5. Waiting(i + 1) = buf[At(nextPop, n + 1)][i - (n + 1) * K]
        <5>1. ~(i + 1 <= left) /\ (i + 1) - left - 1 = i
          BY <3>1, <3>2
        <5> QED BY <4>2, <5>1 DEF Waiting
      <4>6. At(Succ(nextPop), n) = At(nextPop, n + 1)
        <5>1. i < ready * K
          BY <1>5, <3>1, Sizes
        <5>2. i \div K < ready
          BY <3>2, <5>1, Position, Sizes
        <5>3. ready <= N /\ ready \in Nat
          BY DEF RingInv, TypeOK
        <5>4. n + 1 \in Nat /\ n + 1 < N
          BY <4>2, <5>2, <5>3
        <5> QED BY <3>1, <5>4 DEF At, Succ
      <4> QED BY <4>3, <4>4, <4>5, <4>6
    <3> QED BY <3>3, <3>4
  <2> QED BY <1>3, <2>1, <2>2
<1> HIDE DEF m
<1>8. pendingFrames # << >> /\ Tail(pendingFrames) \in Seq(Contents)
      /\ Len(Tail(pendingFrames)) = m - 1
      /\ \A i \in 1 .. m - 1 : Tail(pendingFrames)[i] = pendingFrames[i + 1]
      /\ Head(pendingFrames) = pendingFrames[1]
  BY <1>5, <1>6, HeadTailProperties
<1>9. \A i \in 1 .. m - 1 : pendingFrames'[i] = Tail(pendingFrames)[i]
  BY <1>5, <1>6, <1>7, <1>8
<1>10. pendingFrames' = Tail(pendingFrames)
  BY <1>6, <1>8, <1>9, SeqEqual
<1>11. inHandFrame' = <<Head(pendingFrames)>> /\ inHandFrame = << >>
  <2>1. inHandFrame' = <<buf[reading'[1]][reading'[2]]>> /\ inHandFrame = << >>
    BY <1>1, <1>3 DEF inHandFrame, copied
  <2>2. Head(pendingFrames) = Waiting(1)
    BY <1>5, <1>6, <1>8
  <2>3. CASE TakeCurrent
    <3>1. reading' = <<cur, K - left>> /\ 1 <= left /\ K - left + 1 - 1 = K - left
      BY <2>3, Sizes DEF TakeCurrent
    <3>2. Waiting(1) = buf[cur][K - left]
      BY <3>1 DEF Waiting
    <3> QED BY <2>1, <2>2, <3>1, <3>2
  <2>4. CASE TakeNext
    <3>1. reading' = <<nextPop, 0>> /\ left = 0 /\ nextPop \in Buffers
      BY <2>4 DEF TakeNext, RingInv, TypeOK
    <3>2. ~(1 <= left) /\ 1 - left - 1 = 0 /\ 0 \div K = 0 /\ 0 - 0 * K = 0
      BY <3>1, PositionShift
    <3>3. Waiting(1) = buf[At(nextPop, 0)][0]
      BY <3>2 DEF Waiting
    <3>4. At(nextPop, 0) = nextPop
      BY <3>1 DEF At
    <3> QED BY <2>1, <2>2, <3>1, <3>3, <3>4
  <2> QED BY <1>3, <2>3, <2>4
<1>12. left' = IF left = 0 THEN K - 1 ELSE left - 1
  BY <1>3 DEF TakeCurrent, TakeNext
<1>13. lastPublished' = lastPublished
  BY <1>1 DEF lastPublished, Uncounted, fetchVars, At
<1> QED
  BY <1>1, <1>8, <1>10, <1>11, <1>12, <1>13 DEF Queue!Take

LEMMA CopyEndIsHandOut ==
  ASSUME RingInv, CopyEnd
  PROVE  Queue!HandOut
<1>1. \A i : Waiting(i)' = Waiting(i)
  BY DEF Waiting, At, CopyEnd, ringVars
<1>2. pendingFrames' = pendingFrames /\ left' = left
  BY <1>1 DEF pendingFrames, CopyEnd, ringVars
<1>3. lastPublished' = lastPublished
  BY DEF CopyEnd, ringVars, fetchVars, lastPublished, Uncounted, At
<1>4. inHandFrame = <<copied>> /\ inHandFrame' = << >> /\ out' = copied
  BY DEF CopyEnd, inHandFrame, copied
<1> QED
  BY <1>2, <1>3, <1>4 DEF Queue!HandOut

\* The other steps are none of the queue's.
LEMMA OthersStutter ==
  ASSUME RingInv, [Next]_vars, ~FetchGet, ~FetchCopied, ~FetchIncr, ~GetFrameLeave,
         ~CopyEnd
  PROVE  UNCHANGED Queue!qvars
<1>1. UNCHANGED <<buf, left, cur, nextPop, ready, out, reading>>
  BY DEF Next, Fetch, Data, Main, FetchPublish, FetchTest, FetchWake, FetchExit,
         FetchReleased, FetchReleaseFailed, FrameIsAvailable, GetFrameEnter, CopyBegin,
         StopDataThread, Destroy, DestroyJoin, LoseConnection, vars, ringVars, dataVars
<1>2. inHandFrame' = inHandFrame
  <2>1. CASE CopyBegin
    BY <1>1, <2>1 DEF CopyBegin, inHandFrame, copied
  <2>2. CASE ~CopyBegin
    <3>1. /\ seen' = seen
          /\ dataPC' = dataPC \/ {dataPC, dataPC'} \cap {"start", "copy"} = {}
      BY <2>2 DEF Next, Fetch, Data, Main, FetchPublish, FetchTest, FetchWake, FetchExit,
         FetchReleased, FetchReleaseFailed, FrameIsAvailable, GetFrameEnter,
         StopDataThread, Destroy, DestroyJoin, LoseConnection, vars, dataVars
    <3> QED BY <1>1, <3>1 DEF inHandFrame, copied
  <2> QED BY <2>1, <2>2
<1>3. lastPublished' = lastPublished
  <2>1. CASE FetchReleased
    <3>1. nextFree \in Buffers /\ fetchPC = "release"
      BY <2>1 DEF RingInv, TypeOK, FetchReleased
    <3>2. CASE thisFrame + 1 = K
      <4>1. At(Succ(nextFree), N - 2) = At(nextFree, N - 1)
        BY <3>1, SeveralBuffers, AtType
      <4> QED BY <1>1, <2>1, <3>1, <3>2, <4>1
              DEF FetchReleased, lastPublished, Uncounted, At
    <3>3. CASE thisFrame + 1 # K
      BY <1>1, <2>1, <3>1, <3>3 DEF FetchReleased, lastPublished, Uncounted, At
    <3> QED BY <3>2, <3>3
  <2>2. CASE ~FetchReleased
    <3>1. nextFree' = nextFree /\ Uncounted' = Uncounted
      BY <2>2 DEF Next, Fetch, Data, Main, FetchPublish, FetchTest, FetchWake, FetchExit,
         FetchReleaseFailed, FrameIsAvailable, GetFrameEnter, CopyBegin,
         StopDataThread, Destroy, DestroyJoin, LoseConnection, vars, ringVars, fetchVars,
         Uncounted
    <3> QED BY <1>1, <3>1 DEF lastPublished, At
  <2> QED BY <2>1, <2>2
<1>4. \A i : Waiting(i)' = Waiting(i)
  BY <1>1 DEF Waiting, At
<1>5. pendingFrames' = pendingFrames
  BY <1>1, <1>4 DEF pendingFrames
<1> QED
  BY <1>1, <1>2, <1>3, <1>5 DEF Queue!qvars

LEMMA StepIsQueueStep ==
  RingInv /\ RingInv' /\ QueueInv /\ [Next]_vars => [Queue!QNext]_(Queue!qvars)
<1> SUFFICES ASSUME RingInv, RingInv', QueueInv, [Next]_vars
             PROVE  [Queue!QNext]_(Queue!qvars)
  OBVIOUS
<1>1. CASE FetchGet \/ FetchCopied
  BY <1>1, GetIsQueueStep, CopiedIsQueueStep DEF Queue!QNext
<1>2. CASE FetchIncr
  BY <1>2, IncrIsPublish DEF Queue!QNext
<1>3. CASE GetFrameLeave
  BY <1>3, LeaveIsTake DEF Queue!QNext
<1>4. CASE CopyEnd
  BY <1>4, CopyEndIsHandOut DEF Queue!QNext
<1> QED
  BY <1>1, <1>2, <1>3, <1>4, OthersStutter

(* The ring of buffers, its semaphore and its two threads implement the        *)
(* queue: frames come out whole, in order and once, but for what a ring with   *)
(* N - 1 buffers waiting lets the fetch thread write into.                     *)
THEOREM RingIsQueue == Spec => ImplementsQueue
<1>1. Init => Queue!QInit
  BY InitQueue
<1>2. RingInv /\ RingInv' /\ QueueInv /\ [Next]_vars => [Queue!QNext]_(Queue!qvars)
  BY StepIsQueueStep
<1> QED
  BY <1>1, <1>2, RingInvariant, FramesInOrder, PTL
  DEF Spec, ImplementsQueue, Queue!QSpec
==============================================================================
