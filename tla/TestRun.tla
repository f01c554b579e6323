------------------------------- MODULE TestRun -------------------------------
(***************************************************************************)
(* What running the registered tests means: every test gets one verdict,   *)
(* which is final, and the run is over when all of them have theirs. The   *)
(* run may be given up, but only before it is over.                        *)
(***************************************************************************)
CONSTANTS Tests, Verdicts, NONE

VARIABLES
  verdict,  (* the verdict on each test, or NONE                            *)
  over      (* "no", "yes", or "given up"                                   *)

vars == <<verdict, over>>

Init ==
  /\ verdict = [t \in Tests |-> NONE]
  /\ over = "no"

Judge(t) ==
  /\ over = "no"
  /\ verdict[t] = NONE
  /\ \E v \in Verdicts : verdict' = [verdict EXCEPT ![t] = v]
  /\ UNCHANGED over

Return ==
  /\ over = "no"
  /\ \A t \in Tests : verdict[t] # NONE
  /\ over' = "yes"
  /\ UNCHANGED verdict

GiveUp ==
  /\ over = "no"
  /\ over' = "given up"
  /\ UNCHANGED verdict

Next ==
  \/ \E t \in Tests : Judge(t)
  \/ Return
  \/ GiveUp

Spec == Init /\ [][Next]_vars
=============================================================================
