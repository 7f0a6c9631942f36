------------------------ MODULE MCChicagoEnrollment ------------------------
(* Three ordinary touches, then four stages at each of which tips may come, *)
(* four of them in all and at most two in a row; the store has just room.   *)
EXTENDS ChicagoEnrollment
=============================================================================
