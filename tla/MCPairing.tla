----------------------------- MODULE MCPairing -------------------------------
(* Pairing for TLC.  The PSKs, and the readers, are only ever compared.     *)
EXTENDS Pairing, TLC

Symmetry ==
  Permutations(HostPsk) \cup Permutations(ForeignPsk)
    \cup Permutations(Reader) \cup Permutations(Bb)

==============================================================================
