-------------------------- MODULE MCEnrollmentGraph --------------------------
(* Of four touches one is the first, two are later ones, of which a refused *)
(* and an accepted one can follow each other, and one is the last; two more *)
(* can be refused; the limit of strays is that of the code and is exceeded. *)
EXTENDS EnrollmentGraph
=============================================================================
