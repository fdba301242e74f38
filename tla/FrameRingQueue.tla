--------------------------- MODULE FrameRingQueue ---------------------------
(***************************************************************************)
(* FrameRing implements FrameQueue: the frames that are left of the        *)
(* current buffer followed by those of the ready buffers are the queue.    *)
(***************************************************************************)
EXTENDS FrameRing, Sequences

\* The newest frame published is never in the buffer that is being filled.
ASSUME SeveralBuffers == N > 1

\* The buffer n places after b
At(b, n) == IF b + n < N THEN b + n ELSE b + n - N

\* The i-th waiting frame
Waiting(i) ==
  IF i <= left THEN buf[cur][K - left + i - 1]
               ELSE LET j == i - left - 1
                        n == j \div K
                    IN  buf[At(nextPop, n)][j - n * K]

pendingFrames == [i \in 1 .. left + ready * K |-> Waiting(i)]

\* What the copy loop will produce, as far as it is decided
copied ==
  LET now == buf[reading[1]][reading[2]]
  IN  IF dataPC = "copy" /\ now # seen THEN Torn ELSE now

inHandFrame == IF dataPC \in {"start", "copy"} THEN <<copied>> ELSE << >>

\* The newest published frame: the last one of the last buffer counted ready
lastPublished == buf[At(nextFree, N - 1 - Uncounted)][K - 1]

Queue == INSTANCE FrameQueue
  WITH Batch <- K, Capacity <- (N - 1) * K, Damaged <- Torn,
       pending <- pendingFrames, batchLeft <- left, newest <- lastPublished,
       inHand <- inHandFrame

\* The ring behaves like a queue that loses, reorders or repeats nothing until
\* N - 1 whole buffers wait for the data thread.
ImplementsQueue == Queue!QSpec
=============================================================================
