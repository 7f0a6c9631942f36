-------------------------------- MODULE Capture --------------------------------
(****************************************************************************)
(* What the post-TLS lifecycle promises the framework: a contact is told as *)
(* finger down, one image, finger up, in this order; only as many contacts  *)
(* are told as were asked for; and nothing is told after the end, until a   *)
(* later epoch.                                                             *)
(****************************************************************************)
EXTENDS Naturals

VARIABLES
  told,   \* what the framework was told last: nothing, down, image or up
  downs,  \* how many contacts it was told of
  asked,  \* how many it has asked for
  ended   \* nothing more will be told

vars == <<told, downs, asked, ended>>

Init ==
  /\ told = "nothing" /\ downs = 0
  /\ asked \in 0..1
  /\ ended = FALSE

(* A step that tells the framework something may end the capture as well:   *)
(* what the framework does in return reaches the lifecycle before it goes   *)
(* on.                                                                      *)
MayEnd == ended' \in BOOLEAN

Down ==
  /\ ~ended /\ told \in {"nothing", "up"} /\ downs < asked
  /\ told' = "down" /\ downs' = downs + 1
  /\ MayEnd /\ UNCHANGED asked

Image ==
  /\ ~ended /\ told = "down" /\ told' = "image"
  /\ MayEnd /\ UNCHANGED <<downs, asked>>

(* The framework may ask for the next contact as soon as the finger is up.  *)
Up ==
  /\ ~ended /\ told = "image" /\ told' = "up"
  /\ asked' \in {asked, downs + 1}
  /\ MayEnd /\ UNCHANGED downs

(* One contact at a time: the earlier one is complete when the next is      *)
(* asked for, or it is asked for while the finger is still down.            *)
Ask ==
  /\ ~ended /\ asked <= downs
  /\ asked' = downs + 1
  /\ MayEnd /\ UNCHANGED <<told, downs>>

End ==
  /\ ~ended /\ ended' = TRUE
  /\ UNCHANGED <<told, downs, asked>>

(* A later epoch begins another capture.                                    *)
Again ==
  /\ ended /\ ended' = FALSE
  /\ told' = "nothing" /\ downs' = 0
  /\ asked' \in 0..1

Next == Down \/ Image \/ Up \/ Ask \/ End \/ Again

Spec == Init /\ [][Next]_vars

=============================================================================
