------------------------------- MODULE Leaving -------------------------------
(***************************************************************************)
(* The way out of the program with a screen: handleExitRequest of class    *)
(* appFrame, with cleanupForExit and copyFile of class DisplayTab.         *)
(*                                                                         *)
(* The main thread joins the data thread, which may be sending a message,  *)
(* saves the settings, brings four files from where they were written to   *)
(* where they belong, with a copy and an unlink each, and saves the dark   *)
(* frame.  The program may be cut off at any step.  What goes wrong is     *)
(* told to the user by Popups.                                             *)
(***************************************************************************)
EXTENDS Popups

CONSTANT MaxFailures  \* bound on failing operations

ASSUME LeavingAssumption == MaxFailures \in Nat

Files == <<"allgps", "allpps", "diags", "log">>
Fs == {Files[i] : i \in 1..Len(Files)}

VARIABLES
  phase,      \* where handleExitRequest is
  at,         \* the index of the file it is at
  original,   \* of each file: "none", "there" or "gone"
  copy,       \* of each file: "none", "part", "whole" or "short"
  said,       \* history: the files that the user was told are where they were
  failures      \* history: how many operations failed

leavingVars == <<popupVars, phase, at, original, copy, said, failures>>

Current == Files[at]

Fails == failures < MaxFailures /\ failures' = failures + 1

\* warn, if the bound on messages allows: the queue is not served any more.
Warn == IF messages < MaxMessages
        THEN Post(1)
        ELSE UNCHANGED <<queue, notified, messages>>

NoWarning == UNCHANGED <<queue, notified, messages>>

Elsewhere == <<popups, dataSends, shown, nested, broken>>

-----------------------------------------------------------------------------
(* handleExitRequest                                                       *)

\* Faulty: a popup does not keep the user from leaving.
ExitAnyTime ==
  /\ phase = "running" /\ mainLoop
  /\ phase' = "join" /\ mainLoop' = FALSE
  /\ UNCHANGED <<queue, notified, messages, Elsewhere, at, original, copy, said,
                 failures>>

\* The Exit button or the window's close button, which a popup makes insensitive.
\* The main loop waits for the handler, and ends with the window.
Exit ==
  /\ phase = "running" /\ mainLoop /\ ~Locked
  /\ phase' = "join" /\ mainLoop' = FALSE
  /\ UNCHANGED <<queue, notified, messages, Elsewhere, at, original, copy, said,
                 failures>>

\* stopThreadsAndTimers: the data thread ends when it has sent its message.
Join ==
  /\ phase = "join" /\ dataSends = "no"
  /\ phase' = "settings" /\ dataSends' = "ended"
  /\ UNCHANGED <<queue, notified, messages, mainLoop, popups, shown, nested,
                 broken, at, original, copy, said, failures>>

SaveSettings ==
  /\ phase = "settings" /\ phase' = "open"
  /\ \/ NoWarning /\ UNCHANGED failures
     \/ Fails /\ Warn
  /\ UNCHANGED <<mainLoop, Elsewhere, at, original, copy, said>>

-----------------------------------------------------------------------------
(* cleanupForExit: for each file that there is, copyFile                   *)

NextFile ==
  IF at = Len(Files) THEN phase' = "dark" /\ at' = at
                     ELSE phase' = "open" /\ at' = at + 1

Skip ==
  /\ phase = "open" /\ original[Current] = "none"
  /\ NextFile
  /\ NoWarning
  /\ UNCHANGED <<mainLoop, Elsewhere, original, copy, said, failures>>

\* The file cannot be reopened, or its copy not be created.
OpenFails ==
  /\ phase = "open" /\ original[Current] = "there"
  /\ Fails /\ Warn
  /\ said' \in {said, said \cup {Current}}
  /\ NextFile
  /\ UNCHANGED <<mainLoop, Elsewhere, original, copy>>

Open ==
  /\ phase = "open" /\ original[Current] = "there"
  /\ copy' = [copy EXCEPT ![Current] = "part"]
  /\ phase' = "copy"
  /\ NoWarning
  /\ UNCHANGED <<mainLoop, Elsewhere, at, original, said, failures>>

\* Faulty: the end of the file is not told from a failing read.
CopyFailsUnseen ==
  /\ phase = "copy"
  /\ Fails
  /\ phase' = "close"
  /\ NoWarning
  /\ UNCHANGED <<mainLoop, Elsewhere, at, original, copy, said>>

\* fwrite writes less, or fread ends before the end of the file.
CopyFails ==
  /\ phase = "copy"
  /\ Fails
  /\ phase' = "undo"
  /\ NoWarning
  /\ UNCHANGED <<mainLoop, Elsewhere, at, original, copy, said>>

\* unlink(to), with the message where the data is
Undo ==
  /\ phase = "undo"
  /\ copy' = [copy EXCEPT ![Current] = "none"]
  /\ said' = said \cup {Current}
  /\ Warn
  /\ NextFile
  /\ UNCHANGED <<mainLoop, Elsewhere, original, failures>>

\* All has been handed to fwrite, and fclose, whose result is ignored, writes
\* what is left in its buffer.
Copy ==
  /\ phase = "copy"
  /\ \/ copy' = [copy EXCEPT ![Current] = "whole"] /\ UNCHANGED failures
     \/ copy' = [copy EXCEPT ![Current] = "short"] /\ Fails
  /\ phase' = "close"
  /\ NoWarning
  /\ UNCHANGED <<mainLoop, Elsewhere, at, original, said>>

\* unlink(from)
Unlink ==
  /\ phase = "close"
  /\ original' = [original EXCEPT ![Current] = "gone"]
  /\ NextFile
  /\ NoWarning
  /\ UNCHANGED <<mainLoop, Elsewhere, copy, said, failures>>

\* writeDarkFrame, if there is one: it cannot be opened, or what was written of it
\* is removed.
SaveDarkFrame ==
  /\ phase = "dark" /\ phase' = "gone"
  /\ \/ NoWarning /\ UNCHANGED failures
     \/ Fails /\ Warn
  /\ UNCHANGED <<mainLoop, Elsewhere, at, original, copy, said>>

-----------------------------------------------------------------------------
(* The specification                                                       *)

LeavingInit ==
  /\ PopupsInit
  /\ phase = "running" /\ at = 1
  /\ original \in [Fs -> {"none", "there"}]
  /\ copy = [f \in Fs |-> "none"] /\ said = {} /\ failures = 0

ExitStep == Join \/ SaveSettings \/ Skip \/ OpenFails \/ Open \/ CopyFails
              \/ Undo \/ Copy \/ Unlink \/ SaveDarkFrame

Unleft == UNCHANGED <<phase, at, original, copy, said, failures>>

LeavingNext == (PopupsNext /\ Unleft) \/ Exit \/ ExitStep

\* The threads run, and the user answers the popups.
LeavingFairness ==
  /\ WF_leavingVars(DataSends /\ Unleft)
  /\ WF_leavingVars(Dispatch /\ Unleft)
  /\ WF_leavingVars(ClickOK /\ Unleft)
  /\ WF_leavingVars(ExitStep)

LeavingSpec == LeavingInit /\ [][LeavingNext]_leavingVars /\ LeavingFairness

-----------------------------------------------------------------------------
(* Properties                                                              *)

Phases == {"running", "join", "settings", "open", "copy", "undo", "close", "dark",
           "gone"}

\* Every variable has the type its declaration gives it.
LeavingTypeOK ==
  /\ PopupsTypeOK
  /\ phase \in Phases /\ at \in 1..Len(Files)
  /\ original \in [Fs -> {"none", "there", "gone"}]
  /\ copy \in [Fs -> {"none", "part", "whole", "short"}]
  /\ said \subseteq Fs /\ failures \in 0..MaxFailures

\* Wherever the program is cut off, each file's data is in the original or in a
\* whole copy, and an original that the user was told to look for is there.
\* Only a failing fclose of the copy loses data.
NothingLost ==
  \A f \in Fs :
    /\ original[f] = "gone" => copy[f] \in {"whole", "short"}
    /\ f \in said => original[f] = "there"

\* Every message is shown in the end, unless the user leaves first, or the
\* library serves notifications in a popup's loop.
EveryMessageShown ==
  \A m \in 1..MaxMessages :
    messages >= m ~>
      (m \in Range(shown) \/ nested \/ phase # "running")

\* The program can always be left: the data thread that the main thread waits
\* for never waits for the lock that a popup holds.
ExitEnds == phase = "join" ~> phase = "gone"
=============================================================================
