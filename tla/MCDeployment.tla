---------------------------- MODULE MCDeployment ----------------------------
(* Two releases, so that an update and what it restores are told apart.     *)
EXTENDS Deployment

=============================================================================
