------------------------------- MODULE Program -------------------------------
(***************************************************************************)
(* The program runs with a screen, where messages are popups and the user  *)
(* leaves by a button, or without one, under the commands of a controller  *)
(* (appFrame::headless, which is set once, from the command line).         *)
(***************************************************************************)
EXTENDS Leaving, Headless

VARIABLE headless  \* appFrame::headless

programVars == <<leavingVars, headlessVars, headless>>

\* The side that does not run does not matter.
Init ==
  /\ headless \in BOOLEAN
  /\ LeavingInit /\ (headless => \A f \in Fs : original[f] = "none")
  /\ HeadlessInit /\ (~headless => ~outOfSpace /\ rate = "max")

Next ==
  \/ ~headless /\ LeavingNext /\ UNCHANGED <<headlessVars, headless>>
  \/ headless /\ HeadlessNext /\ UNCHANGED <<leavingVars, headless>>

Spec == Init /\ [][Next]_programVars /\ LeavingFairness /\ HeadlessFairness
=============================================================================
