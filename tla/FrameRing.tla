------------------------------ MODULE FrameRing ------------------------------
(***************************************************************************)
(* The image ring of AlphaDataFrameBuffer (src/Code/framebuf.cpp).         *)
(*                                                                         *)
(* The frame-server thread FetchThread copies camera frames into N image   *)
(* buffers of K frames each; the data thread of DisplayTab takes them out  *)
(* one frame at a time with frameIsAvailable, getFrame and a copy loop     *)
(* (getImageFrame).  The semaphore m_fetchSem guards the count of ready    *)
(* buffers; the frame contents are copied with the semaphore free, on both *)
(* sides.  The main thread joins the data thread and then deletes the      *)
(* frame buffer.                                                           *)
(*                                                                         *)
(* A frame is the number the camera gave it; a slot that is being          *)
(* overwritten holds Torn.                                                 *)
(***************************************************************************)
EXTENDS Integers

CONSTANTS
  N,          \* image buffers in the ring (NUM_IMAGE_BUFFERS)
  K,          \* frames in one image buffer (m_framesPerBuffer)
  MaxFrames   \* bound: frames the camera produces in a behaviour

ASSUME NAssumption == N \in Nat \ {0}
ASSUME KAssumption == K \in Nat \ {0}
ASSUME MaxFramesAssumption == MaxFrames \in Nat

VARIABLES
  appRunning, \* m_appRunning, set to FALSE by the destructor
  connected,  \* m_clientHandle.IsConnected()
  sem,        \* m_fetchSem
  buf,        \* m_imageBuffers
  nextFree,   \* m_nextFreeImageBuffer
  nextPop,    \* m_nextPopulatedImageBuffer
  ready,      \* m_readyImageBuffers
  cur,        \* the buffer m_currentImageBuffer points into
  left,       \* m_framesLeftInBuffer
  fetchPC,    \* where FetchThread is
  thisFrame,  \* its local thisFrame
  camera,     \* number of the last frame it got from the server
  fetchReg,   \* its copy of ready between the load and the store of ready++
  dataPC,     \* where the data thread is
  dataReg,    \* its copy of ready inside getFrame
  reading,    \* <<buffer, frame>> getFrame returned
  seen,       \* what the copy loop of getImageFrame found when it started
  out,        \* the last frame copied out
  overrun     \* history: a buffer being consumed has been written into

ringVars  == <<buf, nextFree, nextPop, ready, cur, left>>
fetchVars == <<fetchPC, thisFrame, camera, fetchReg>>
dataVars  == <<dataPC, dataReg, reading, seen, out>>
vars == <<appRunning, connected, sem, ringVars, fetchVars, dataVars, overrun>>

Buffers == 0 .. N - 1
Offsets == 0 .. K - 1
Torn    == -1               \* a slot whose memcpy is under way
Blank   == 0                \* memset of a new buffer
Frames  == 1 .. MaxFrames
Contents == Frames \cup {Torn, Blank}

Succ(b) == IF b + 1 = N THEN 0 ELSE b + 1

Init ==
  /\ appRunning = TRUE
  /\ connected = TRUE
  /\ sem = 1
  /\ buf = [b \in Buffers |-> [o \in Offsets |-> Blank]]
  /\ nextFree = 0 /\ nextPop = 0 /\ ready = 0
  /\ cur = 0 /\ left = 0
  /\ fetchPC = "get" /\ thisFrame = 0 /\ camera = 0 /\ fetchReg = 0
  /\ dataPC = "idle" /\ dataReg = 0
  /\ reading = <<0, 0>> /\ seen = Blank /\ out = Blank
  /\ overrun = FALSE

-----------------------------------------------------------------------------
(* FetchThread.                                                            *)

\* The buffer the data thread still has frames of, or is copying from.
Consuming(b) ==
  \/ left > 0 /\ cur = b
  \/ dataPC \in {"start", "copy"} /\ reading[1] = b

\* GetFrame succeeded and the memcpy has begun.  (A failing GetFrame is
\* retried with no change of state.)
FetchGet ==
  /\ fetchPC = "get" /\ appRunning /\ connected
  /\ camera < MaxFrames
  /\ camera' = camera + 1
  /\ buf' = [buf EXCEPT ![nextFree][thisFrame] = Torn]
  /\ overrun' = (overrun \/ Consuming(nextFree))
  /\ fetchPC' = "copy"
  /\ UNCHANGED <<appRunning, connected, sem, nextFree, nextPop, ready, cur,
                 left, thisFrame, fetchReg, dataVars>>

FetchCopied ==
  /\ fetchPC = "copy"
  /\ buf' = [buf EXCEPT ![nextFree][thisFrame] = camera]
  /\ fetchPC' = "release"
  /\ UNCHANGED <<appRunning, connected, sem, nextFree, nextPop, ready, cur,
                 left, thisFrame, camera, fetchReg, dataVars, overrun>>

\* ReleaseFrameChk reports that the server's buffer was reused meanwhile: the
\* next frame goes into the same place.
FetchReleaseFailed ==
  /\ fetchPC = "release"
  /\ fetchPC' = "get"
  /\ UNCHANGED <<appRunning, connected, sem, ringVars, thisFrame, camera,
                 fetchReg, dataVars, overrun>>

FetchReleased ==
  /\ fetchPC = "release"
  /\ IF thisFrame + 1 = K
       THEN /\ thisFrame' = 0
            /\ nextFree' = Succ(nextFree)
            /\ fetchPC' = "publish"
       ELSE /\ thisFrame' = thisFrame + 1
            /\ fetchPC' = "get"
            /\ UNCHANGED nextFree
  /\ UNCHANGED <<appRunning, connected, sem, buf, nextPop, ready, cur, left,
                 camera, fetchReg, dataVars, overrun>>

\* Faulty: no sem_wait before the increment
FetchPublishUnguarded ==
  /\ fetchPC = "publish"
  /\ sem' = 0
  /\ fetchReg' = ready
  /\ fetchPC' = "incr"
  /\ UNCHANGED <<appRunning, connected, ringVars, thisFrame, camera, dataVars,
                 overrun>>

\* sem_wait, then the load of m_readyImageBuffers++
FetchPublish ==
  /\ fetchPC = "publish" /\ sem = 1
  /\ sem' = 0
  /\ fetchReg' = ready
  /\ fetchPC' = "incr"
  /\ UNCHANGED <<appRunning, connected, ringVars, thisFrame, camera, dataVars,
                 overrun>>

FetchIncr ==
  /\ fetchPC = "incr"
  /\ ready' = fetchReg + 1
  /\ fetchPC' = "test"
  /\ UNCHANGED <<appRunning, connected, sem, buf, nextFree, nextPop, cur, left,
                 thisFrame, camera, fetchReg, dataVars, overrun>>

\* Faulty: an off-by-one in the wait, and a wait that does not see the exit
MustWaitLate == appRunning /\ ready > N

MustWaitForever == ready = N

\* while (m_appRunning && m_readyImageBuffers == NUM_IMAGE_BUFFERS)
MustWait == appRunning /\ ready = N

FetchTest ==
  /\ fetchPC = "test"
  /\ sem' = 1
  /\ fetchPC' = IF MustWait THEN "sleep" ELSE "get"
  /\ UNCHANGED <<appRunning, connected, ringVars, thisFrame, camera, fetchReg,
                 dataVars, overrun>>

FetchWake ==
  /\ fetchPC = "sleep" /\ sem = 1
  /\ sem' = 0
  /\ fetchPC' = "test"
  /\ UNCHANGED <<appRunning, connected, ringVars, thisFrame, camera, fetchReg,
                 dataVars, overrun>>

FetchExit ==
  /\ fetchPC = "get" /\ ~(appRunning /\ connected)
  /\ fetchPC' = "done"
  /\ UNCHANGED <<appRunning, connected, sem, ringVars, thisFrame, camera,
                 fetchReg, dataVars, overrun>>

-----------------------------------------------------------------------------
(* The data thread: frameIsAvailable, getFrame, getImageFrame.             *)

\* Faulty: the data thread calls getFrame without an available frame.
FrameIsAvailableUnchecked ==
  /\ dataPC = "idle" /\ sem = 1
  /\ dataPC' = "available"
  /\ UNCHANGED <<appRunning, connected, sem, ringVars, fetchVars, dataReg,
                 reading, seen, out, overrun>>

\* The whole critical section of frameIsAvailable only reads.
FrameIsAvailable ==
  /\ dataPC = "idle" /\ sem = 1
  /\ ready > 0 \/ left # 0
  /\ dataPC' = "available"
  /\ UNCHANGED <<appRunning, connected, sem, ringVars, fetchVars, dataReg,
                 reading, seen, out, overrun>>

GetFrameEnter ==
  /\ dataPC = "available" /\ sem = 1
  /\ sem' = 0
  /\ dataReg' = ready
  /\ dataPC' = "take"
  /\ UNCHANGED <<appRunning, connected, ringVars, fetchVars, reading, seen, out,
                 overrun>>

TakeCurrent ==
  /\ left # 0
  /\ reading' = <<cur, K - left>>
  /\ left' = left - 1
  /\ UNCHANGED <<nextPop, ready, cur>>

\* Faulty: all the ready buffers are given up; the frame handed out is counted
\* as left
TakeNextDrains ==
  /\ left = 0
  /\ reading' = <<nextPop, 0>>
  /\ cur' = nextPop
  /\ nextPop' = Succ(nextPop)
  /\ ready' = 0
  /\ left' = K - 1

TakeNextSkips ==
  /\ left = 0
  /\ reading' = <<nextPop, 0>>
  /\ cur' = nextPop
  /\ nextPop' = Succ(nextPop)
  /\ ready' = dataReg - 1
  /\ left' = 0

TakeNext ==
  /\ left = 0
  /\ reading' = <<nextPop, 0>>
  /\ cur' = nextPop
  /\ nextPop' = Succ(nextPop)
  /\ ready' = dataReg - 1
  /\ left' = K - 1

\* The rest of the critical section; "null" stands for a NULL result, which
\* getImageFrame would dereference.
GetFrameLeave ==
  /\ dataPC = "take"
  /\ sem' = 1
  /\ IF dataReg = 0 /\ left = 0
       THEN /\ dataPC' = "null"
            /\ UNCHANGED <<nextPop, ready, cur, left, reading>>
       ELSE /\ dataPC' = "start"
            /\ TakeCurrent \/ TakeNext
  /\ UNCHANGED <<appRunning, connected, buf, nextFree, fetchVars, dataReg, seen,
                 out, overrun>>

CopyBegin ==
  /\ dataPC = "start"
  /\ seen' = buf[reading[1]][reading[2]]
  /\ dataPC' = "copy"
  /\ UNCHANGED <<appRunning, connected, sem, ringVars, fetchVars, dataReg,
                 reading, out, overrun>>

\* A slot that changed during the copy gives a mixture of two frames.
CopyEnd ==
  /\ dataPC = "copy"
  /\ out' = IF buf[reading[1]][reading[2]] = seen THEN seen ELSE Torn
  /\ dataPC' = "idle"
  /\ UNCHANGED <<appRunning, connected, sem, ringVars, fetchVars, dataReg,
                 reading, seen, overrun>>

-----------------------------------------------------------------------------
(* The main thread and the environment.                                    *)

\* stopThreadsAndTimers joins the data thread between two frames.
StopDataThread ==
  /\ dataPC = "idle"
  /\ dataPC' = "stopped"
  /\ UNCHANGED <<appRunning, connected, sem, ringVars, fetchVars, dataReg,
                 reading, seen, out, overrun>>

\* ~AlphaDataFrameBuffer tells the fetch thread to stop ...
Destroy ==
  /\ dataPC = "stopped" /\ appRunning
  /\ appRunning' = FALSE
  /\ UNCHANGED <<connected, sem, ringVars, fetchVars, dataVars, overrun>>

\* ... joins it, destroys the semaphore (-1) and disconnects.
DestroyJoin ==
  /\ ~appRunning /\ fetchPC = "done" /\ sem # -1
  /\ sem' = -1
  /\ connected' = FALSE
  /\ UNCHANGED <<appRunning, ringVars, fetchVars, dataVars, overrun>>

LoseConnection ==
  /\ connected
  /\ connected' = FALSE
  /\ UNCHANGED <<appRunning, sem, ringVars, fetchVars, dataVars, overrun>>

-----------------------------------------------------------------------------
Fetch ==
  \/ FetchGet \/ FetchCopied \/ FetchReleaseFailed \/ FetchReleased
  \/ FetchPublish \/ FetchIncr \/ FetchTest \/ FetchWake \/ FetchExit

Data ==
  \/ FrameIsAvailable \/ GetFrameEnter \/ GetFrameLeave \/ CopyBegin \/ CopyEnd

Main == StopDataThread \/ Destroy \/ DestroyJoin

Next == Fetch \/ Data \/ Main \/ LoseConnection

Spec == Init /\ [][Next]_vars

(***************************************************************************)
(* Both threads keep being scheduled, and a thread that waits for a        *)
(* semaphore the other keeps releasing gets it in the end.  Nothing makes  *)
(* the user exit.                                                          *)
(***************************************************************************)
Fairness ==
  /\ WF_vars(Fetch) /\ SF_vars(FetchPublish) /\ SF_vars(FetchWake)
  /\ WF_vars(Data) /\ SF_vars(FrameIsAvailable) /\ SF_vars(GetFrameEnter)
  /\ WF_vars(Destroy) /\ WF_vars(DestroyJoin)

FairSpec == Spec /\ Fairness

-----------------------------------------------------------------------------
(* Properties.                                                             *)

\* Every variable has the type framebuf.h declares; ready counts buffers of the
\* ring, so never more than there are.
TypeOK ==
  /\ appRunning \in BOOLEAN
  /\ connected \in BOOLEAN
  /\ sem \in {-1, 0, 1}
  /\ buf \in [Buffers -> [Offsets -> Contents]]
  /\ nextFree \in Buffers
  /\ nextPop \in Buffers
  /\ ready \in 0 .. N
  /\ cur \in Buffers
  /\ left \in 0 .. K - 1
  /\ fetchPC \in {"get", "copy", "release", "publish", "incr", "test", "sleep",
                  "done"}
  /\ thisFrame \in Offsets
  /\ camera \in 0 .. MaxFrames
  /\ fetchReg \in 0 .. N
  /\ dataPC \in {"idle", "available", "take", "null", "start", "copy",
                 "stopped"}
  /\ dataReg \in 0 .. N
  /\ reading \in Buffers \X Offsets
  /\ seen \in Contents
  /\ out \in Contents
  /\ overrun \in BOOLEAN

\* A buffer that has been filled but whose number is not yet counted in ready
Uncounted == IF fetchPC \in {"publish", "incr"} THEN 1 ELSE 0

FetchHolds == fetchPC \in {"incr", "test"}
DataHolds  == dataPC = "take"

\* m_fetchSem admits one thread at a time, is free exactly when neither is
\* inside, and is destroyed only when nobody can wait for it any more.
Exclusion ==
  /\ ~(FetchHolds /\ DataHolds)
  /\ sem = 0 <=> FetchHolds \/ DataHolds
  /\ sem = -1 => fetchPC = "done" /\ dataPC = "stopped"

\* The two indices and the count, which three different statements maintain
\* and only one of them under the semaphore, never disagree.
RingIndices ==
  /\ ready + Uncounted <= N
  /\ nextFree \in {nextPop + ready + Uncounted, nextPop + ready + Uncounted - N}

\* Buffers that are counted ready and not yet taken
IsReady(b) ==
  IF b >= nextPop THEN b - nextPop < ready ELSE b + N - nextPop < ready

\* FetchThread writes outside the semaphore, yet never into a buffer that
\* waits to be taken.
ReadyNotWritten == fetchPC \in {"copy", "release"} => ~IsReady(nextFree)

(* The parts of the inductive invariant that no property above states.      *)

\* Inside the critical section a thread's copy of ready is ready.
Registers ==
  /\ fetchPC = "incr" => fetchReg = ready
  /\ DataHolds => dataReg = ready

\* The destructor runs when the data thread has been joined.
Joined == ~appRunning => dataPC = "stopped"

\* FetchThread is past its wait only with a free buffer, or to end.
Room ==
  \/ fetchPC \in {"test", "sleep", "done"}
  \/ fetchPC = "get" /\ ~appRunning
  \/ ready < N

\* The data thread has called getFrame because there is a frame, and what it
\* consumes is the buffer before nextPop.
Current ==
  /\ dataPC \in {"available", "take"} => ready > 0 \/ left > 0
  /\ dataPC # "null"
  /\ left > 0 \/ dataPC \in {"start", "copy"} => nextPop = Succ(cur)
  /\ dataPC \in {"start", "copy"} => reading[1] = cur

\* The inductive invariant: indices, count and semaphore as the two threads
\* leave them at every step
RingInv ==
  TypeOK /\ Exclusion /\ Registers /\ RingIndices /\ Joined /\ Room /\ Current

\* The data thread uses the pointer of getFrame unchecked: after a positive
\* frameIsAvailable it is never NULL.
NeverNull == dataPC # "null"

\* The fetch thread reaches a buffer that is being consumed only when all the
\* others are full: the wait at ready = N does not count that buffer.
OverrunOnlyWhenFull == [][overrun' # overrun => ready = N - 1]_vars

\* A frame of a ready buffer is handed to the data thread in the end, unless
\* that thread is stopped or the ring is overrun.
ReadyDelivered ==
  \A f \in Frames :
    (\E b \in Buffers, o \in Offsets : IsReady(b) /\ buf[b][o] = f)
      ~> (out = f \/ overrun \/ dataPC = "stopped")

\* The destructor's join ends, even when the fetch thread sleeps on a full ring.
ShutdownEnds == ~appRunning ~> sem = -1
=============================================================================
