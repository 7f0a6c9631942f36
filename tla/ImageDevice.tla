----------------------------- MODULE ImageDevice -----------------------------
(****************************************************************************)
(* The image device of libfprint, as operators on a record f: the part of   *)
(* the framework that the driver's callbacks go through and that calls the  *)
(* driver back only through DeviceContext's FwDeactivate.                   *)
(*   open, action      the client's claim and its operation                 *)
(*   st, active        FpiImageDeviceState, and whether activation completed*)
(*   err               the error the operation will end with                *)
(*   finger, stage     the finger, the enrollment stages accepted           *)
(*   held              the driver holds back the end of an enrollment       *)
(*   cancelled, idle   the client cancelled; the idle that will act on it   *)
(*   result            how the last operation ended                         *)
(*   breach            an assertion, a g_return_if_fail() or the warning    *)
(*                     about deactivating a busy device was hit             *)
(****************************************************************************)
EXTENDS Naturals

NewDevice ==
  [open |-> FALSE, action |-> "none", st |-> "INACTIVE", active |-> FALSE,
   err |-> "none", finger |-> FALSE, stage |-> 0, held |-> FALSE,
   cancelled |-> FALSE, idle |-> FALSE, result |-> "none", breach |-> FALSE]

Breach(f) == [f EXCEPT !.breach = TRUE]
Expect(f, condition) == [f EXCEPT !.breach = @ \/ ~condition]

(* A new operation clears the counters and starts the activation.           *)
ActionBegins(f, a) ==
  [Expect(f, ~f.finger /\ ~f.active) EXCEPT
     !.action = a, !.result = "none", !.stage = 0, !.held = FALSE,
     !.st = "ACTIVATING"]

(* The end of an operation also removes its pending cancellation.           *)
ActionEnds(f, r) ==
  [f EXCEPT !.action = "none", !.err = "none", !.cancelled = FALSE,
            !.idle = FALSE, !.result = r]

(* The first error is kept, and the operation ends when the device is not   *)
(* active: with that error, or as cancelled, or with its result.            *)
MaybeComplete(f, e) ==
  LET first == IF f.err # "none" THEN f.err ELSE e
      kept == [f EXCEPT !.err = first] IN
  IF kept.active THEN kept
  ELSE IF kept.action = "none" THEN Breach(kept)
  ELSE ActionEnds(kept, IF first # "none" THEN first
                        ELSE IF kept.cancelled THEN "cancelled" ELSE "ok")

(* A failed activation ends the operation and leaves st as it is.           *)
ActivateComplete(f, e) ==
  IF f.active \/ f.st # "ACTIVATING" \/ f.action = "none" THEN Breach(f)
  ELSE IF e # "none" THEN ActionEnds(f, e)
  ELSE [f EXCEPT !.active = TRUE, !.st = "AWAIT_ON"]

DeactivateComplete(f, e) ==
  IF ~f.active \/ f.st # "DEACTIVATING" THEN Breach(f)
  ELSE MaybeComplete([f EXCEPT !.active = FALSE, !.finger = FALSE,
                               !.st = "INACTIVE"], e)

(* An image is taken only in CAPTURE, then the finger has to be lifted.     *)
ImageTaken(f) == [Expect(f, f.st = "CAPTURE") EXCEPT !.st = "AWAIT_OFF"]

HoldCompletion(f) ==
  [Expect(f, f.action = "enroll" /\ f.active /\ ~f.held) EXCEPT !.held = TRUE]

RetryScan(f) == [Expect(f, f.st # "INACTIVE") EXCEPT !.st = "AWAIT_OFF"]

==============================================================================
