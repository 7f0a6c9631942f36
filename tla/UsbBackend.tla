----------------------------- MODULE UsbBackend ------------------------------
(****************************************************************************)
(* The USB backend and the frame router of one open reader, as operators on *)
(* a record u:                                                              *)
(*   in, inGen, out, outGen   the bulk transfers under way                  *)
(*   gen, fence, notified     the epoch, its terminal fence, and whether    *)
(*                            its drain has been reported                   *)
(*   sync                     the pre-session drain is on                   *)
(*   rGen, rFence, rOut, rOutGen  the router's epoch, fence and receive     *)
(*                            token                                         *)
(* A guard is named Can...; what cannot is refused with an error.           *)
(****************************************************************************)
EXTENDS Naturals

NewUsb == [in |-> "none", inGen |-> 0, out |-> FALSE, outGen |-> 0,
           gen |-> 0, fence |-> FALSE, notified |-> FALSE, sync |-> FALSE,
           rGen |-> 0, rFence |-> FALSE, rOut |-> FALSE, rOutGen |-> 0]

Drained(u) == u.in = "none" /\ ~u.out

(* A new epoch starts only over transfers that have all come back.          *)
CanBegin(u, g) == g # 0 /\ Drained(u)
Begun(u, g) ==
  [u EXCEPT !.gen = g, !.fence = FALSE, !.notified = FALSE,
            !.rGen = g, !.rFence = FALSE, !.rOut = FALSE, !.rOutGen = 0]

(* The router issues its only token, then the transfer is submitted.        *)
CanRequest(u) == ~u.rFence /\ u.rGen # 0 /\ ~u.rOut
CanArm(u, g) ==
  ~u.fence /\ ~u.sync /\ g = u.gen /\ u.in = "none" /\ CanRequest(u)
Armed(u, g) ==
  [u EXCEPT !.in = "rx", !.inGen = g, !.rOut = TRUE, !.rOutGen = u.rGen]

CanBeginSync(u, g) == ~u.fence /\ g = u.gen /\ Drained(u) /\ ~u.sync
SyncBegun(u) == [u EXCEPT !.sync = TRUE]
CanArmSync(u, g) == ~u.fence /\ u.sync /\ g = u.gen /\ Drained(u)
SyncArmed(u, g) == [u EXCEPT !.in = "sync", !.inGen = g]
CanEndSync(u, g) == u.sync /\ g = u.gen /\ Drained(u)
SyncEnded(u) == [u EXCEPT !.sync = FALSE]

CanSubmit(u, g) == ~u.fence /\ ~u.sync /\ g = u.gen /\ ~u.out
Submitted(u, g) == [u EXCEPT !.out = TRUE, !.outGen = g]

(* An IN transfer comes back.  Its bytes go to the router unless the epoch  *)
(* is over; the router takes them only against the token of that epoch, and *)
(* gives up for good on a transport error.                                  *)
InReturned(u) == [u EXCEPT !.in = "none", !.inGen = 0]
Delivers(u) ==
  /\ u.in = "rx" /\ ~u.fence /\ u.inGen = u.gen
  /\ u.inGen = u.rGen /\ u.inGen = u.rOutGen /\ ~u.rFence /\ u.rOut
TokenReturned(u) == [u EXCEPT !.rOut = FALSE, !.rOutGen = 0]
RouterFailed(u) == [u EXCEPT !.rFence = TRUE, !.rOut = FALSE]

OutReturned(u) == [u EXCEPT !.out = FALSE, !.outGen = 0]

(* Mutant: the router is not told.                                          *)
CancelledAlone(u) ==
  IF u.fence THEN u ELSE [u EXCEPT !.fence = TRUE, !.notified = FALSE]

(* The fence of an epoch.  The drain is reported once, as soon as nothing   *)
(* is under way.                                                            *)
Cancelled(u) ==
  IF u.fence THEN u
  ELSE [u EXCEPT !.fence = TRUE, !.notified = FALSE,
                 !.rFence = TRUE, !.rOut = FALSE, !.rOutGen = 0]
MustNotify(u) == u.fence /\ Drained(u) /\ ~u.notified
Notified(u) == [u EXCEPT !.notified = TRUE]

CanReset(u) == u.fence /\ Drained(u) /\ ~u.sync
AuditReset(u) == [u EXCEPT !.gen = 0, !.inGen = 0, !.outGen = 0,
                           !.notified = FALSE]

==============================================================================
