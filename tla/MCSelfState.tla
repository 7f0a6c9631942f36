---------------------------- MODULE MCSelfState ------------------------------
(* SelfState for TLC: two PSKs, two readers that might claim the directory, *)
(* and three generations, so that a third write reuses the first slot after *)
(* any crash of the second.  PSKs and bindings are only ever compared.      *)
EXTENDS SelfState, TLC

Symmetry == Permutations(Psk) \cup Permutations(Binding)

==============================================================================
