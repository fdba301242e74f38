------------------------------- MODULE Popups -------------------------------
(***************************************************************************)
(* Messages to the user: info, warn and error of class DisplayTab, which   *)
(* any thread may call, and the popups that the main thread shows for them *)
(* (class CallbackDispatcher).                                             *)
(*                                                                         *)
(* A message is appended to a queue under a recursive lock, and the main   *)
(* loop is notified.  on_dispatch takes the lock, shows the first message  *)
(* in a dialog that runs the main loop, and removes it when the user has   *)
(* answered.  Whether another notification is served in the dialog's loop  *)
(* is up to the version of glibmm.                                         *)
(***************************************************************************)
EXTENDS Integers, Sequences, SequencesExt

CONSTANTS
  Recursive,   \* the library serves notifications in a dialog's loop
  MaxMessages  \* bound on the messages, which are numbered as they are queued

ASSUME PopupsAssumption == Recursive \in BOOLEAN /\ MaxMessages \in Nat

VARIABLES
  queue,     \* queue
  notified,  \* notifications in the pipe
  popups,    \* the nested on_dispatch calls, each with the message it shows
  dataSends, \* the data thread: "no", "waits" for the lock, or "ended"
  mainLoop,  \* the main loop runs
  messages,  \* history: how many have been queued
  shown,     \* history: the messages shown
  nested,    \* history: an on_dispatch ran in another's dialog
  broken     \* history: an empty queue was popped

popupVars == <<queue, notified, popups, dataSends, mainLoop, messages, shown,
               nested, broken>>

\* The main thread holds the lock for as long as a popup is up.
Locked == popups # << >>

-----------------------------------------------------------------------------
(* send                                                                    *)

\* n messages are queued by the thread that has the lock.
Post(n) ==
  /\ messages + n <= MaxMessages
  /\ queue' = queue \o [i \in 1..n |-> messages + i]
  /\ notified' = notified + n
  /\ messages' = messages + n

\* A handler or timer of the main thread, in the main loop or in a popup's; a
\* Record button that finds settings changed sends several at once.
MainSends ==
  /\ mainLoop
  /\ \E n \in {1, 2} : Post(n)
  /\ UNCHANGED <<popups, dataSends, mainLoop, shown, nested, broken>>

DataWants ==
  /\ dataSends = "no" /\ messages < MaxMessages
  /\ dataSends' = "waits"
  /\ UNCHANGED <<queue, notified, popups, mainLoop, messages, shown, nested,
                 broken>>

\* Faulty: the main loop is not notified.
DataSendsUnnoticed ==
  /\ dataSends = "waits" /\ ~Locked /\ messages < MaxMessages
  /\ dataSends' = "no"
  /\ queue' = Append(queue, messages + 1) /\ messages' = messages + 1
  /\ UNCHANGED <<notified, popups, mainLoop, shown, nested, broken>>

DataSends ==
  /\ dataSends = "waits" /\ ~Locked
  /\ dataSends' = "no"
  /\ \/ Post(1)
     \/ /\ messages = MaxMessages \* the others were quicker: the bound is reached
        /\ UNCHANGED <<queue, notified, messages>>
  /\ UNCHANGED <<popups, mainLoop, shown, nested, broken>>

-----------------------------------------------------------------------------
(* on_dispatch                                                             *)

Show(dialogs) ==
  /\ popups' = Append(dialogs, Head(queue'))
  /\ shown' = Append(shown, Head(queue'))

\* Faulty: a notification is good for one message, shown or not.
DispatchDrops ==
  /\ mainLoop /\ notified > 0
  /\ Locked => Recursive
  /\ notified' = notified - 1
  /\ queue' = IF Len(queue) > 1 THEN Tail(queue) ELSE queue
  /\ IF queue' = << >> THEN UNCHANGED <<popups, shown>> ELSE Show(popups)
  /\ nested' = (nested \/ Locked)
  /\ UNCHANGED <<dataSends, mainLoop, messages, broken>>

Dispatch ==
  /\ mainLoop /\ notified > 0
  /\ Locked => Recursive
  /\ notified' = notified - 1
  /\ queue' = queue
  /\ IF queue = << >> THEN UNCHANGED <<popups, shown>> ELSE Show(popups)
  /\ nested' = (nested \/ Locked)
  /\ UNCHANGED <<dataSends, mainLoop, messages, broken>>

\* The user clicks OK on the topmost popup.  Popping an empty queue is undefined.
ClickOK ==
  /\ mainLoop /\ Locked
  /\ broken' = (broken \/ queue = << >>)
  /\ queue' = IF queue = << >> THEN queue ELSE Tail(queue)
  /\ IF queue' = << >> THEN popups' = Front(popups) /\ shown' = shown
                       ELSE Show(Front(popups))
  /\ UNCHANGED <<notified, dataSends, mainLoop, messages, nested>>

-----------------------------------------------------------------------------
(* Initial state, steps and fairness                                       *)

PopupsInit ==
  /\ queue = << >> /\ notified = 0 /\ popups = << >>
  /\ dataSends = "no" /\ mainLoop = TRUE
  /\ messages = 0 /\ shown = << >> /\ nested = FALSE /\ broken = FALSE

PopupsNext == MainSends \/ DataWants \/ DataSends \/ Dispatch \/ ClickOK

-----------------------------------------------------------------------------
(* Properties                                                              *)

\* Every variable has the type its declaration gives it.
PopupsTypeOK ==
  /\ queue \in Seq(1..MaxMessages) /\ notified \in 0..MaxMessages
  /\ popups \in Seq(1..MaxMessages) /\ shown \in Seq(1..MaxMessages)
  /\ dataSends \in {"no", "waits", "ended"} /\ mainLoop \in BOOLEAN
  /\ messages \in 0..MaxMessages
  /\ nested \in BOOLEAN /\ broken \in BOOLEAN

\* The user sees every message once, in the order of sending, although a message
\* leaves the queue only after its popup's loop, in which others are sent; and
\* nothing is popped from an empty queue.  It needs a library that does not
\* serve a notification in a popup's loop.
ShownInOrder ==
  ~nested => ~broken /\ shown = [i \in 1..Len(shown) |-> i]
=============================================================================
