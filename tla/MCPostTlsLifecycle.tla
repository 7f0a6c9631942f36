-------------------------- MODULE MCPostTlsLifecycle --------------------------
(* Every use of the lifecycle with the limits of the code: two further arms *)
(* for strays and a third stray to exceed them, a login of three contacts.  *)
EXTENDS PostTlsLifecycle
=============================================================================
