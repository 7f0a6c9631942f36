--------------------------- MODULE MCSecureSession ---------------------------
(* A typed command and two that share a control byte and are acknowledged   *)
(* only; a ClientHello in two pieces; flights of two records each, with     *)
(* records of one chunk and of two.                                         *)
EXTENDS SecureSession

MCControl == <<"a2", "80", "80">>
MCChunks == <<2, 1, 1, 2>>
=============================================================================
