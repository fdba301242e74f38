----------------------------- MODULE FrameQueue -----------------------------
(***************************************************************************)
(* What a frame source promises the data thread (class FrameBuffer in      *)
(* src/Code/framebuf.h): a queue of camera frames that is filled a batch   *)
(* at a time and emptied one frame at a time, in order.                    *)
(*                                                                         *)
(* The promise has one exception.  When the queue holds Capacity frames or *)
(* more, the frames that are left of the batch being consumed, and the one *)
(* in hand, may be replaced by something newer or be damaged.              *)
(***************************************************************************)
EXTENDS Integers, Sequences

CONSTANTS
  Batch,      \* frames that become available together, at least 1
  Capacity,   \* frames that can wait before the queue may damage itself
  Damaged     \* a frame that is not what the camera sent

VARIABLES
  pending,    \* the frames that wait, oldest first
  batchLeft,  \* how many of them belong to the batch being consumed
  newest,     \* the newest frame ever published
  inHand,     \* <<frame>> while one is being copied out, else << >>
  out         \* the last frame handed out

qvars == <<pending, batchLeft, newest, inHand, out>>

Increasing(s) == \A i, j \in DOMAIN s : i < j => s[i] < s[j]

QInit ==
  /\ pending = << >> /\ batchLeft = 0
  /\ newest = 0
  /\ inHand = << >> /\ out = 0

\* A batch of newer frames arrives behind all that wait.
Publish ==
  /\ Len(pending') = Len(pending) + Batch
  /\ SubSeq(pending', 1, Len(pending)) = pending
  /\ LET batch == SubSeq(pending', Len(pending) + 1, Len(pending'))
     IN  /\ Increasing(batch)
         /\ newest < batch[1]
         /\ newest' = batch[Batch]
  /\ UNCHANGED <<batchLeft, inHand, out>>

Take ==
  /\ pending # << >> /\ inHand = << >>
  /\ inHand' = <<Head(pending)>>
  /\ pending' = Tail(pending)
  /\ batchLeft' = IF batchLeft = 0 THEN Batch - 1 ELSE batchLeft - 1
  /\ UNCHANGED <<newest, out>>

HandOut ==
  /\ inHand # << >>
  /\ out' = inHand[1]
  /\ inHand' = << >>
  /\ UNCHANGED <<pending, batchLeft, newest>>

\* The exception: the batch being consumed is overrun.
Spoiled(new, old) == new = old \/ new = Damaged \/ new > newest

Overrun ==
  /\ Len(pending) >= Capacity
  /\ Len(pending') = Len(pending)
  /\ \A i \in DOMAIN pending :
       IF i <= batchLeft THEN Spoiled(pending'[i], pending[i])
                         ELSE pending'[i] = pending[i]
  /\ Len(inHand') = Len(inHand)
  /\ \A i \in DOMAIN inHand : Spoiled(inHand'[i], inHand[i])
  /\ UNCHANGED <<batchLeft, newest, out>>

QNext == Publish \/ Take \/ HandOut \/ Overrun

QSpec == QInit /\ [][QNext]_qvars
=============================================================================
