------------------------------ MODULE Enrollment ------------------------------
(****************************************************************************)
(* What an enrollment promises the framework: every touch is judged exactly *)
(* once, before the finger is taken to be off; an accepted touch is one     *)
(* stage; the enrollment is over when the finger is off after the last of   *)
(* them, and not before.                                                    *)
(****************************************************************************)
EXTENDS Naturals

CONSTANT Required  \* accepted touches that make a template

VARIABLES
  finger,  \* the framework was told that a finger is on the sensor
  judged,  \* the image of the last touch was accepted or refused
  stage,   \* how many were accepted
  outcome  \* open, enrolled or failed

vars == <<finger, judged, stage, outcome>>

Init == finger = FALSE /\ judged = TRUE /\ stage = 0 /\ outcome = "open"

Touch ==
  /\ outcome = "open" /\ ~finger /\ stage < Required
  /\ finger' = TRUE /\ judged' = FALSE
  /\ UNCHANGED <<stage, outcome>>

Judged == judged' = TRUE /\ stage' \in {stage, stage + 1} /\ stage' <= Required

Judge ==
  /\ outcome = "open" /\ finger /\ ~judged
  /\ Judged
  /\ UNCHANGED <<finger, outcome>>

(* A touch may be judged in the very step that takes the finger off.        *)
Lift ==
  /\ outcome = "open" /\ finger
  /\ finger' = FALSE
  /\ IF judged THEN UNCHANGED <<judged, stage>> ELSE Judged
  /\ outcome' = IF stage' = Required THEN "enrolled" ELSE "open"

Fail ==
  /\ outcome = "open" /\ outcome' = "failed"
  /\ UNCHANGED <<finger, judged, stage>>

(* A later epoch begins another enrollment.                                 *)
Again ==
  /\ outcome # "open" /\ outcome' = "open"
  /\ finger' = FALSE /\ judged' = TRUE /\ stage' = 0

Next == Touch \/ Judge \/ Lift \/ Fail \/ Again

Spec == Init /\ [][Next]_vars

===============================================================================
