---------------------------- MODULE DeviceContext ----------------------------
(****************************************************************************)
(* One reader under libfprint: the client's operations, the framework's     *)
(* image device (fw), the driver's context (ctx), the USB backend and       *)
(* router (usb) and what outlives a context (left).                         *)
(*                                                                          *)
(* Everything runs on one main loop, so an action is one callback with all  *)
(* that it calls: the framework and the driver call each other, a completed *)
(* transfer can end the operation, and the end of an operation can cancel   *)
(* transfers.  An operator maps s = [fw, ctx, usb, left] to the state after *)
(* its function returned; an action chooses the input.                      *)
(*                                                                          *)
(* The protocol engines are reduced to what the context sees of them, in    *)
(* ctx.sub, the engine that the next frame goes to:                         *)
(*   preflight -> (pairing ->) secure -> calibrate -> down -> imaged -> stop*)
(* for verify and identify; an enrollment goes from calibrate to            *)
(*   await -> contact -> sampled -> (await | complete)                      *)
(* and an engine that was cancelled or gave up is "failed".  A transfer     *)
(* brings one frame or none; two frames in one transfer behave as two       *)
(* transfers.  The secure session's timer, which paces its records, is part *)
(* of the frame or completion that started it.  The client may cancel at    *)
(* any callback into it, which is the same as right after it.               *)
(****************************************************************************)
EXTENDS UsbBackend, ImageDevice

CONSTANTS
  MaxGen,      \* bound on the generations of one open context
  MaxDiscards, \* PRE_SESSION_RX_MAX_COMPLETIONS, 16 in the code
  Stages,      \* accepted images an enrollment needs, 12 in the code
  MaxStale     \* bound on the idle callbacks that outlive their context

ASSUME DeviceAssumption ==
  /\ MaxGen \in Nat \ {0} /\ MaxDiscards \in Nat
  /\ Stages \in Nat \ {0} /\ MaxStale \in Nat

VARIABLES fw, ctx, usb, left
vars == <<fw, ctx, usb, left>>

Capture == {"verify", "identify"}
Action == Capture \cup {"enroll"}

(* Engines by who cancels them: set_terminal_fence() cancels the sessions   *)
(* and the enrollment binding, and no other.                                *)
Exchange == {"preflight", "pairing"}
Lifecycle == {"calibrate", "down", "imaged"}
Session == {"secure"} \cup Lifecycle
Binding == {"await", "contact", "sampled", "complete"}

(* The context between open and close; "NONE" when there is none.           *)
(*   gen, seq, fence, poisoned    the epoch                                 *)
(*   actDone                      the activation was answered               *)
(*   pending, nonquiescent, scheduled  the deactivation                     *)
(*   consumed, action             the operation this epoch was used for     *)
(*   known, success, match        its outcome, and terminal: none may follow*)
(*   closedEpoch, armed           the epoch that may be reopened            *)
(*   claimed, held                the USB interface, the end of enrollment  *)
(*   sync, discards               the pre-session drain                     *)
(*   sub, reply                   the engine; what its exchange has so far  *)
NewContext ==
  [st |-> "INACTIVE", gen |-> 0, seq |-> 0, fence |-> FALSE,
   poisoned |-> FALSE, actDone |-> FALSE, pending |-> FALSE,
   nonquiescent |-> FALSE, scheduled |-> FALSE, consumed |-> FALSE,
   action |-> "none", known |-> FALSE, success |-> FALSE, match |-> FALSE,
   terminal |-> FALSE, closedEpoch |-> "none", armed |-> FALSE,
   claimed |-> FALSE, held |-> FALSE, sync |-> "none", discards |-> 0,
   sub |-> "none", reply |-> "open"]
NoContext == [NewContext EXCEPT !.st = "NONE"]

(* Idle callbacks still queued, and whether a context was ever leaked.      *)
NothingLeft == [cancel |-> 0, finish |-> 0, leaked |-> FALSE]

Now == [fw |-> fw, ctx |-> ctx, usb |-> usb, left |-> left]
Becomes(s) ==
  fw' = s.fw /\ ctx' = s.ctx /\ usb' = s.usb /\ left' = s.left

Init ==
  fw = NewDevice /\ ctx = NoContext /\ usb = NewUsb /\ left = NothingLeft

------------------------------------------------------------------------------
(* Ending a deactivation.                                                   *)

Poison(s) == [s EXCEPT !.ctx.poisoned = TRUE]
Poisoned(s) == [Poison(s) EXCEPT !.ctx.st = "POISONED"]
ReleaseObjects(s) == [s EXCEPT !.ctx.sub = "none", !.ctx.reply = "open"]

(* A verify or identify whose finger was lifted and whose transfers came    *)
(* back gives up its interface and its objects, and may be followed by      *)
(* another; after a clean no-match, an identify also by one enrollment.     *)
CanCloseEpoch(s) ==
  /\ s.ctx.consumed /\ ~s.ctx.poisoned /\ Drained(s.usb)
  /\ s.ctx.sub = "stop"
CloseEpoch(s) ==
  [ReleaseObjects(s) EXCEPT
     !.ctx.claimed = FALSE, !.ctx.gen = 0, !.ctx.closedEpoch = s.ctx.action,
     !.ctx.armed = /\ s.ctx.action = "identify" /\ s.ctx.known
                   /\ s.ctx.success /\ ~s.ctx.match /\ ~s.ctx.terminal]

FwDeactivateComplete(s, e) == [s EXCEPT !.fw = DeactivateComplete(@, e)]

FinishDeactivation(s, releaseOk) ==
  LET t == [s EXCEPT !.ctx.pending = FALSE, !.ctx.st = "INACTIVE"]
      clean == ~s.ctx.nonquiescent
      closes == clean /\ s.ctx.action \in Capture
      closed == closes /\ CanCloseEpoch(s) /\ releaseOk
      e == IF closes /\ ~closed THEN "error" ELSE "none" IN
  FwDeactivateComplete(
    CASE closed /\ s.ctx.success -> CloseEpoch(t)
      [] closed /\ ~s.ctx.success -> Poisoned(CloseEpoch(t))
      [] clean /\ ~closes -> t
      [] OTHER -> Poisoned(t), e)

(* Mutant: an idle callback is queued each time the drain is noticed.       *)
CompleteAgain(s) ==
  IF ~Drained(s.usb) THEN s
  ELSE IF s.ctx.nonquiescent \/ s.ctx.poisoned \/ s.ctx.action \notin Capture
  THEN FinishDeactivation(s, TRUE)
  ELSE [s EXCEPT !.ctx.scheduled = TRUE, !.left.finish = @ + 1]

(* Mutant: a capture, too, finishes inside the callback that ends it.       *)
CompleteAtOnce(s) ==
  IF ~Drained(s.usb) THEN s ELSE FinishDeactivation(s, TRUE)

(* Mutant: a poisoned capture waits for an outcome it will never have.      *)
CompleteWhenKnown(s) ==
  IF ~Drained(s.usb) THEN s
  ELSE IF s.ctx.nonquiescent \/ s.ctx.action \notin Capture
  THEN FinishDeactivation(s, TRUE)
  ELSE IF s.ctx.known /\ ~s.ctx.scheduled
  THEN [s EXCEPT !.ctx.scheduled = TRUE, !.left.finish = @ + 1]
  ELSE s

(* A capture waits for its outcome and finishes from an idle callback,      *)
(* because finishing frees the engine whose callback this may be.           *)
CompleteDeactivation(s) ==
  IF ~s.ctx.pending \/ s.ctx.st # "DEACTIVATING"
  THEN [s EXCEPT !.fw = Breach(@)]
  ELSE IF ~Drained(s.usb) THEN s
  ELSE IF s.ctx.nonquiescent \/ s.ctx.poisoned \/ s.ctx.action \notin Capture
  THEN FinishDeactivation(s, TRUE)
  ELSE IF s.ctx.known /\ ~s.ctx.scheduled
  THEN [s EXCEPT !.ctx.scheduled = TRUE, !.left.finish = @ + 1]
  ELSE s

CompleteIfDrained(s) ==
  IF s.ctx.pending /\ Drained(s.usb) THEN CompleteDeactivation(s) ELSE s

ContextUsbDrained(s) == IF s.ctx.pending THEN CompleteDeactivation(s) ELSE s

MaybeNotifyDrained(s) ==
  IF MustNotify(s.usb)
  THEN ContextUsbDrained([s EXCEPT !.usb = Notified(@)]) ELSE s

------------------------------------------------------------------------------
(* Fencing, and beginning a deactivation.                                   *)

BackendCancel(s) ==
  IF s.usb.fence THEN s
  ELSE MaybeNotifyDrained([s EXCEPT !.usb = Cancelled(@)])

(* The sessions report their own cancellation, which poisons a fenced       *)
(* context; the enrollment binding does not, and is left alone once its     *)
(* transaction is complete.                                                 *)
SetFence(s) ==
  LET cancels == s.ctx.sub \in Session \cup (Binding \ {"complete"})
      fenced == [s EXCEPT !.ctx.fence = TRUE,
                          !.ctx.sub = IF cancels THEN "failed" ELSE @] IN
  [BackendCancel(fenced) EXCEPT !.ctx.poisoned = @ \/ s.ctx.sub \in Session]

(* The driver's deactivate handler.  The fence may already complete the     *)
(* deactivation, before nonquiescent is written.                            *)
DriverDeactivate(s) ==
  IF s.ctx.st = "DEACTIVATING" THEN s
  ELSE CompleteIfDrained(
         [SetFence([s EXCEPT !.ctx.held = FALSE, !.ctx.pending = TRUE,
                             !.ctx.st = "DEACTIVATING"]) EXCEPT
            !.ctx.gen = 0, !.ctx.nonquiescent = s.fw.cancelled])

FwDeactivate(s, cancelling) ==
  LET f == [s.fw EXCEPT !.held = @ /\ ~cancelling] IN
  IF ~f.active \/ f.st = "DEACTIVATING" THEN [s EXCEPT !.fw = f]
  ELSE DriverDeactivate(
         [s EXCEPT !.fw = [Expect(f, cancelling \/ f.st = "IDLE") EXCEPT
                             !.st = "DEACTIVATING"]])

------------------------------------------------------------------------------
(* Failing.                                                                 *)

FwActivateComplete(s, e) == [s EXCEPT !.fw = ActivateComplete(@, e)]

SessionError(s, e) ==
  IF ~s.fw.active /\ s.fw.action # "none" THEN FwActivateComplete(s, e)
  ELSE IF s.fw.active /\ e = "cancelled" /\ s.fw.cancelled THEN s
  ELSE FwDeactivate([s EXCEPT !.fw = MaybeComplete(@, e)], TRUE)

(* An activation is answered with the error; an active operation is ended   *)
(* by the framework.  The fence is already up.                              *)
EmitTerminal(s, e) ==
  LET t == [Poison(s) EXCEPT !.ctx.gen = 0] IN
  CASE s.ctx.st = "ACTIVATING" ->
         FwActivateComplete([t EXCEPT !.ctx.st = "INACTIVE"], e)
    [] s.ctx.st = "ACTIVE" ->
         SessionError([t EXCEPT !.ctx.st = "POISONED"], e)
    [] OTHER -> s

(* A failure of a fenced epoch only poisons it.                             *)
ProtocolFailure(s, e) ==
  IF s.ctx.fence THEN Poison(s) ELSE EmitTerminal(Poison(SetFence(s)), e)

(* An engine gives up: it stops the backend before it tells the context.    *)
(* An exchange leaves that to the context.                                  *)
EngineFails(s, e) ==
  ProtocolFailure(
    IF s.ctx.sub \in Exchange THEN s
    ELSE BackendCancel([s EXCEPT !.ctx.sub = "failed"]), e)

------------------------------------------------------------------------------
(* Talking to the reader.                                                   *)

(* Mutant: the enrollment binding is left out.                              *)
ReceivingButBinding(s) == s.ctx.sub \in Exchange \cup Session

Receiving(s) ==
  \/ s.ctx.sub \in Exchange \cup Session
  \/ s.ctx.sub \in Binding \ {"complete"} /\ ~s.usb.out

ArmReceive(s) ==
  IF CanArm(s.usb, s.ctx.gen)
  THEN [s EXCEPT !.usb = Armed(@, s.ctx.gen)]
  ELSE ProtocolFailure(s, "error")

Listen(s) ==
  IF ~s.ctx.fence /\ s.usb.in = "none" /\ Receiving(s)
  THEN ArmReceive(s) ELSE s

(* What cannot be sent is the end of the engine that would send it.         *)
Send(s) ==
  IF CanSubmit(s.usb, s.ctx.gen)
  THEN [s EXCEPT !.usb = Submitted(@, s.ctx.gen)]
  ELSE EngineFails(s, "error")

(* The next request of an exchange, and the receive that awaits its reply.  *)
Request(s) == Listen(Send([s EXCEPT !.ctx.reply = "open"]))

(* The secure session needs both transfers; then the operation is active    *)
(* before the handshake is done.                                            *)
StartSecureGraph(s) ==
  LET t == [s EXCEPT !.ctx.sub = "secure", !.ctx.reply = "open"] IN
  IF s.ctx.st # "ACTIVATING" \/ s.ctx.fence \/ ~s.ctx.claimed THEN s
  ELSE IF \/ s.ctx.sync # "pass" \/ ~CanSubmit(s.usb, s.ctx.gen)
          \/ ~CanArm(s.usb, s.ctx.gen)
  THEN EngineFails(t, "error")
  ELSE FwActivateComplete(
         [t EXCEPT !.usb = Armed(Submitted(@, s.ctx.gen), s.ctx.gen),
                   !.ctx.actDone = TRUE, !.ctx.st = "ACTIVE"], "none")

(* An exchange moves on when its request was sent and answered: to the next *)
(* request, to pairing, to the secure session, or nowhere.                  *)
Advance(s) ==
  CASE s.ctx.reply = "ready" -> StartSecureGraph(s)
    [] s.ctx.reply = "refuse" -> ProtocolFailure(s, "error")
    [] OTHER -> Request([s EXCEPT !.ctx.sub = IF s.ctx.reply = "pair"
                                              THEN "pairing" ELSE @])

Progress(s) ==
  IF s.usb.out \/ s.ctx.reply = "open" THEN Listen(s) ELSE Advance(s)

StartLivePreflight(s) ==
  IF s.ctx.fence \/ s.ctx.sub # "none" \/ ~s.ctx.claimed THEN s
  ELSE Request([s EXCEPT !.ctx.sub = "preflight"])

------------------------------------------------------------------------------
(* The pre-session drain: bytes an earlier session left are read away until *)
(* the reader is quiet, and nothing is sent before.                         *)

SyncFail(s) ==
  ProtocolFailure(
    [s EXCEPT !.ctx.sync = "fail",
              !.usb = IF CanEndSync(@, s.ctx.gen) THEN SyncEnded(@) ELSE @],
    "error")

ArmSync(s) ==
  IF CanArmSync(s.usb, s.ctx.gen)
  THEN [s EXCEPT !.usb = SyncArmed(@, s.ctx.gen)] ELSE SyncFail(s)

BeginSync(s) ==
  IF ~CanBeginSync(s.usb, s.ctx.gen) THEN SyncFail(s)
  ELSE ArmSync([s EXCEPT !.ctx.sync = "active", !.ctx.discards = 0,
                         !.usb = SyncBegun(@)])

SyncCompleted(s, g, o) ==
  IF g # s.ctx.gen \/ s.ctx.sync # "active" THEN s
  ELSE CASE o = "quiet" /\ CanEndSync(s.usb, g) ->
              StartLivePreflight([s EXCEPT !.usb = SyncEnded(@),
                                           !.ctx.sync = "pass"])
         [] o = "data" /\ s.ctx.discards < MaxDiscards ->
              ArmSync([s EXCEPT !.ctx.discards = @ + 1])
         [] OTHER -> SyncFail(s)

------------------------------------------------------------------------------
(* The finger and the image.                                                *)

Terminal(s) == s.ctx.fence \/ s.ctx.gen = 0

(* Mutant: the last image ends the enrollment with the finger still there.  *)
EnrollAtOnce(s) ==
  IF s.fw.stage = Stages
  THEN FwDeactivate([s EXCEPT !.fw = MaybeComplete(@, "none")], FALSE)
  ELSE IF s.fw.finger \/ s.fw.held THEN s
  ELSE [s EXCEPT !.fw.st = "AWAIT_ON"]

(* Mutant: one image fewer is enough.                                       *)
EnrollOneShort(s) ==
  IF s.fw.finger \/ s.fw.held THEN s
  ELSE IF s.fw.stage + 1 >= Stages
  THEN FwDeactivate([s EXCEPT !.fw = MaybeComplete(@, "none")], FALSE)
  ELSE [s EXCEPT !.fw.st = "AWAIT_ON"]

EnrollMaybeAwait(s) ==
  IF s.fw.finger \/ s.fw.held THEN s
  ELSE IF s.fw.stage = Stages
  THEN FwDeactivate([s EXCEPT !.fw = MaybeComplete(@, "none")], FALSE)
  ELSE [s EXCEPT !.fw.st = "AWAIT_ON"]

ReportFinger(s, present) ==
  IF Terminal(s) \/ s.fw.st = "INACTIVE" THEN s
  ELSE LET t == [s EXCEPT !.fw.finger = present] IN
       IF present /\ s.fw.st = "AWAIT_ON" THEN [t EXCEPT !.fw.st = "CAPTURE"]
       ELSE IF present \/ s.fw.st # "AWAIT_OFF" THEN t
       ELSE LET idle == [t EXCEPT !.fw.st = "IDLE"] IN
            IF s.fw.action = "enroll" THEN EnrollMaybeAwait(idle)
            ELSE FwDeactivate(idle, FALSE)

(* Mutant: a match does not end the context's captures.                     *)
ResultAfterMatch(s, success, match) ==
  IF s.ctx.action # s.fw.action THEN s
  ELSE [s EXCEPT !.ctx.known = TRUE, !.ctx.success = success,
                 !.ctx.match = match, !.ctx.terminal = @ \/ ~success]

(* The driver's record of a match result, which may be what a deactivation  *)
(* waits for.                                                               *)
ResultKnown(s, success, match) ==
  IF s.ctx.action # s.fw.action THEN s
  ELSE CompleteIfDrained(
         [s EXCEPT !.ctx.known = TRUE, !.ctx.success = success,
                   !.ctx.match = match,
                   !.ctx.terminal = @ \/ ~success \/ match])

RawImage(s, o) ==
  LET t == [s EXCEPT !.fw = ImageTaken(@)] IN
  IF s.fw.action = "enroll"
  THEN EnrollMaybeAwait([t EXCEPT !.fw.stage = @ + 1])
  ELSE [ResultKnown(t, o \in {"match", "nomatch"}, o = "match") EXCEPT
          !.fw = MaybeComplete(@, IF o = "unmatched" THEN "error" ELSE "none")]

(* What the biometric engine makes of an image.                             *)
ImageOutcome(a) ==
  {"broken"} \cup IF a = "enroll" THEN {"accept", "again"}
                  ELSE {"match", "nomatch", "retry", "unmatched"}

FailsIfPoisoned(s) == IF s.ctx.poisoned THEN EngineFails(s, "error") ELSE s

(* The last accepted image holds back the end of the enrollment until the   *)
(* finger is lifted.                                                        *)
DeliverImage(s, o) ==
  LET last == o = "accept" /\ s.fw.stage + 1 = Stages
      over == Terminal(s) \/ s.fw.cancelled IN
  IF over \/ o = "broken"
  THEN EngineFails(s, IF over THEN "cancelled" ELSE "error")
  ELSE FailsIfPoisoned(
         IF o = "again" THEN [s EXCEPT !.fw = RetryScan(@)]
         ELSE RawImage([s EXCEPT !.ctx.held = @ \/ last,
                                 !.fw = IF last THEN HoldCompletion(@) ELSE @],
                       o))

ReleaseCompletion(s) ==
  LET f == Expect(s.fw, s.fw.action = "enroll" /\ s.fw.held)
      t == [s EXCEPT !.ctx.held = FALSE, !.fw = [f EXCEPT !.held = FALSE]] IN
  IF ~s.ctx.held THEN s
  ELSE IF f.active /\ f.stage = Stages
  THEN FwDeactivate([t EXCEPT !.fw = MaybeComplete(@, "none")], FALSE) ELSE t

------------------------------------------------------------------------------
(* Frames.  Frames(s) is what the next frame may mean to its engine.        *)

Moves == {"step", "send", "bad"}
Frames(s) ==
  CASE s.ctx.sub \in Exchange ->
         IF s.ctx.reply # "open" THEN {"bad"}
         ELSE {"step", "bad", "next", "ready", "refuse"}
              \cup IF s.ctx.sub = "preflight" THEN {"pair"} ELSE {}
    [] s.ctx.sub = "secure" -> Moves \cup {"stop"}
    [] s.ctx.sub = "calibrate" ->
         Moves \cup IF s.fw.action = "enroll" THEN {"armed"} ELSE {"touch"}
    [] s.ctx.sub = "down" -> Moves \cup ImageOutcome(s.fw.action)
    [] s.ctx.sub = "imaged" -> Moves \cup {"lift"}
    [] s.ctx.sub = "await" -> Moves \cup {"touch"}
    [] s.ctx.sub = "contact" -> Moves \cup ImageOutcome("enroll")
    [] s.ctx.sub = "sampled" -> Moves \cup {"lift"}
    [] OTHER -> {"bad"}

SendUnlessFailed(s) == IF s.ctx.sub = "failed" THEN s ELSE Send(s)

(* The lifecycle of one capture.  The finger-off frame stops it before the  *)
(* framework hears of it, and is the last.                                  *)
LifecycleFrame(s, m) ==
  CASE m = "armed" -> IF Drained(s.usb) THEN [s EXCEPT !.ctx.sub = "await"]
                      ELSE EngineFails(s, "error")
    [] m = "touch" -> Send(ReportFinger([s EXCEPT !.ctx.sub = "down"], TRUE))
    [] m = "lift" -> ReportFinger([s EXCEPT !.ctx.sub = "stop"], FALSE)
    [] OTHER ->
         SendUnlessFailed(DeliverImage([s EXCEPT !.ctx.sub = "imaged"], m))

BindingFrame(s, m) ==
  CASE m = "step" -> s
    [] m = "touch" \/ (m = "lift" /\ ~s.ctx.held) ->
         Send(ReportFinger([s EXCEPT !.ctx.sub = IF m = "touch" THEN "contact"
                                                 ELSE "await"], m = "touch"))
    [] m = "lift" /\ s.ctx.held ->
         ReleaseCompletion(
           [ReportFinger(s, FALSE) EXCEPT
              !.ctx.sub = IF @ = "failed" THEN @ ELSE "complete"])
    [] OTHER -> DeliverImage([s EXCEPT !.ctx.sub = "sampled"], m)

(* The end of the handshake, "stop": the pairing is promoted and the        *)
(* backend is handed to the post-TLS lifecycle, which sends its first       *)
(* command.  The enrollment binding takes nothing while it is sending.      *)
Consume(s, m) ==
  CASE s.ctx.fence -> s
    [] ~s.ctx.fence /\ (m = "bad" \/ (s.ctx.sub \in Binding /\ s.usb.out)) ->
         EngineFails(s, "error")
    [] OTHER ->
         CASE s.ctx.sub \in Exchange ->
                Progress([s EXCEPT !.ctx.reply = IF m = "step" THEN @ ELSE m])
           [] m = "send" -> Send(s)
           [] m = "stop" -> Send([s EXCEPT !.ctx.sub = "calibrate"])
           [] m \notin {"send", "stop"} /\ s.ctx.sub \in Binding ->
                BindingFrame(s, m)
           [] OTHER -> IF m = "step" THEN s ELSE LifecycleFrame(s, m)

------------------------------------------------------------------------------
(* Callbacks of the backend.                                                *)

(* An IN transfer returns: the router and its consumer first, then the      *)
(* context, which listens again, then the drain.                            *)
InOutcomes(s) ==
  IF s.usb.in = "sync" /\ ~s.usb.fence THEN {"quiet", "data", "error"}
  ELSE IF Delivers(s.usb) THEN {"error", "partial"} \cup Frames(s)
  ELSE {"error"}

Routed(s, o) ==
  LET t == [s EXCEPT !.usb = TokenReturned(InReturned(@))] IN
  CASE o = "error" -> [t EXCEPT !.usb = RouterFailed(@)]
    [] o = "partial" -> t
    [] OTHER -> Consume(t, o)

InTold(s, purpose, g, o) ==
  IF purpose = "sync" THEN SyncCompleted(s, g, o) ELSE Listen(s)

InReturns(s, o) ==
  MaybeNotifyDrained(
    InTold(IF Delivers(s.usb) THEN Routed(s, o)
           ELSE [s EXCEPT !.usb = InReturned(@)],
           s.usb.in, s.usb.inGen, o))

InCompletes ==
  /\ usb.in # "none"
  /\ \E o \in InOutcomes(Now) : Becomes(InReturns(Now, o))

(* An OUT transfer returns, to the exchange or the engine that sent it.     *)
OutOutcomes(s) ==
  {"ok", "error"} \cup IF s.ctx.sub = "secure" THEN {"send", "stop"} ELSE {}

OutConsumed(s, g, o) ==
  CASE s.ctx.sub = "none" -> s
    [] s.ctx.sub = "failed" -> Poison(s)
    [] s.ctx.sub \in Exchange /\ (s.ctx.fence \/ g # s.ctx.gen) -> s
    [] OTHER ->
         CASE o = "error" -> EngineFails(s, "error")
           [] o = "send" -> Send(s)
           [] o = "stop" -> Send([s EXCEPT !.ctx.sub = "calibrate"])
           [] o = "ok" /\ s.ctx.sub \in Exchange -> Progress(s)
           [] o = "ok" /\ s.ctx.sub \in Binding -> Listen(s)
           [] OTHER -> s

OutReturns(s, o) ==
  MaybeNotifyDrained(
    OutConsumed([s EXCEPT !.usb = OutReturned(@)], s.usb.outGen, o))

OutCompletes ==
  /\ usb.out
  /\ \E o \in OutOutcomes(Now) : Becomes(OutReturns(Now, o))

------------------------------------------------------------------------------
(* The client.                                                              *)

Refuse(s) == FwActivateComplete(s, "error")

(* A new generation.  Its number is never reused in one context.            *)
Begin(s) ==
  LET g == s.ctx.seq + 1
      t == [s EXCEPT !.ctx.seq = g, !.ctx.gen = g, !.ctx.fence = FALSE,
                     !.ctx.actDone = FALSE] IN
  IF ~CanBegin(t.usb, g)
  THEN Refuse([Poison(t) EXCEPT !.ctx.fence = TRUE, !.ctx.gen = 0,
                                !.ctx.st = "INACTIVE"])
  ELSE BeginSync([t EXCEPT !.usb = Begun(@, g), !.ctx.st = "ACTIVATING"])

(* A closed epoch is reopened with nothing of the one before.               *)
CanReopen(s) ==
  /\ ~s.ctx.poisoned /\ s.ctx.st = "INACTIVE" /\ ~s.ctx.claimed
  /\ s.ctx.sub = "none" /\ CanReset(s.usb)
Reopened(s) ==
  [s EXCEPT !.usb = AuditReset(@),
            !.ctx = [@ EXCEPT
              !.consumed = FALSE, !.action = "none", !.known = FALSE,
              !.success = FALSE, !.match = FALSE, !.closedEpoch = "none",
              !.fence = TRUE, !.actDone = FALSE, !.pending = FALSE,
              !.nonquiescent = FALSE, !.held = FALSE, !.sync = "none",
              !.discards = 0, !.armed = FALSE]]

Licensed(c, a) ==
  CASE c.closedEpoch = "identify" ->
         a = "identify" \/ (a = "enroll" /\ c.armed)
    [] c.closedEpoch = "verify" -> a = "verify"
    [] OTHER -> ~c.consumed

(* An operation that is not licensed is refused; after an identify, it also *)
(* ends what the epoch licensed.                                            *)
Unlicensed(s) ==
  IF s.ctx.closedEpoch = "identify"
  THEN Refuse([Poison(s) EXCEPT !.ctx.armed = FALSE]) ELSE Refuse(s)

Activate(s, a, resources) ==
  LET fresh == s.ctx.closedEpoch = "none"
      t == [(IF fresh THEN s ELSE Reopened(s)) EXCEPT
              !.ctx.consumed = fresh \/ resources,
              !.ctx.action = IF fresh \/ resources THEN a ELSE @] IN
  IF s.ctx.poisoned \/ s.ctx.terminal THEN Refuse(s)
  ELSE IF ~Licensed(s.ctx, a) THEN Unlicensed(s)
  ELSE IF ~fresh /\ ~CanReopen(s) THEN Refuse(s)
  ELSE IF ~resources THEN Refuse(ReleaseObjects(Poison(t)))
  ELSE Begin([t EXCEPT !.ctx.claimed = TRUE])

(* resources: the pairing material is available and the interface can be    *)
(* claimed; usable: the client's prints are.                                *)
Start(a) ==
  /\ fw.open /\ fw.action = "none" /\ ctx.seq < MaxGen
  /\ \E usable, resources \in BOOLEAN :
       LET s == [Now EXCEPT !.fw = Expect(ActionBegins(fw, a),
                   ctx.st \in {"INACTIVE", "ACTIVE", "POISONED"})] IN
       Becomes(IF usable THEN Activate(s, a, resources) ELSE Refuse(s))

Open ==
  /\ ~fw.open /\ left.finish <= MaxStale
  /\ Becomes([Now EXCEPT !.fw.open = TRUE, !.ctx = NewContext,
                         !.usb = NewUsb])

(* Closing destroys the context, unless transfers are still under way.      *)
Close ==
  /\ fw.open /\ fw.action = "none"
  /\ LET s == SetFence([Now EXCEPT !.fw = Expect(@, ~fw.active)]) IN
     Becomes([s EXCEPT !.fw.open = FALSE, !.ctx = NoContext, !.usb = NewUsb,
                       !.left.leaked = @ \/ ~Drained(s.usb)])

(* The client cancels.  During the activation the driver reacts at once;    *)
(* the framework always does, from an idle callback.                        *)
Cancel ==
  /\ fw.action # "none" /\ ~fw.cancelled
  /\ LET s == [Now EXCEPT !.fw.cancelled = TRUE, !.fw.idle = TRUE] IN
     Becomes(
       IF ctx.st # "ACTIVATING" \/ ctx.actDone THEN s
       ELSE [Poison(SetFence(s)) EXCEPT
               !.ctx.gen = 0, !.ctx.st = "INACTIVE", !.ctx.actDone = TRUE,
               !.left.cancel = @ + 1])

CancelIdle ==
  /\ fw.idle
  /\ Becomes(FwDeactivate([Now EXCEPT !.fw.idle = FALSE], TRUE))

ActivationCancelIdle ==
  /\ left.cancel > 0
  /\ LET s == [Now EXCEPT !.left.cancel = @ - 1] IN
     Becomes(IF ctx.st = "INACTIVE" /\ ctx.actDone /\ fw.cancelled
             THEN FwActivateComplete(s, "cancelled") ELSE s)

DeactivationIdle ==
  /\ left.finish > 0
  /\ \E releaseOk \in BOOLEAN :
       LET s == [Now EXCEPT !.left.finish = @ - 1,
                            !.ctx.scheduled = FALSE] IN
       Becomes(IF /\ ctx.pending /\ ctx.st = "DEACTIVATING"
                  /\ Drained(usb)
               THEN FinishDeactivation(s, releaseOk) ELSE s)

Next ==
  \/ Open \/ Close \/ Cancel
  \/ \E a \in Action : Start(a)
  \/ InCompletes \/ OutCompletes
  \/ CancelIdle \/ ActivationCancelIdle \/ DeactivationIdle

Spec == Init /\ [][Next]_vars

(* A cancelled transfer always comes back, and the main loop runs its idle  *)
(* callbacks.  That a transfer comes back on its own is not assumed: the    *)
(* reader may stay silent for ever.                                         *)
CancelledTransferReturns == usb.fence /\ (InCompletes \/ OutCompletes)
LiveSpec ==
  /\ Spec
  /\ WF_vars(CancelledTransferReturns)
  /\ WF_vars(CancelIdle) /\ WF_vars(ActivationCancelIdle)
  /\ WF_vars(DeactivationIdle)

------------------------------------------------------------------------------
(* Properties.                                                              *)

(* Every variable stays in its range; in particular each context queues at  *)
(* most one completion idle, and no cancellation idle outlives its          *)
(* operation, however operations follow each other.                         *)
TypeOK ==
  /\ fw \in [open : BOOLEAN, action : Action \cup {"none"},
             st : {"INACTIVE", "ACTIVATING", "IDLE", "AWAIT_ON", "CAPTURE",
                   "AWAIT_OFF", "DEACTIVATING"},
             active : BOOLEAN, err : {"none", "error", "cancelled"},
             finger : BOOLEAN, stage : 0..Stages, held : BOOLEAN,
             cancelled : BOOLEAN, idle : BOOLEAN,
             result : {"none", "ok", "error", "cancelled"},
             breach : BOOLEAN]
  /\ ctx \in [st : {"NONE", "INACTIVE", "ACTIVATING", "ACTIVE",
                    "DEACTIVATING", "POISONED"},
              gen : 0..MaxGen, seq : 0..MaxGen, fence : BOOLEAN,
              poisoned : BOOLEAN, actDone : BOOLEAN, pending : BOOLEAN,
              nonquiescent : BOOLEAN, scheduled : BOOLEAN,
              consumed : BOOLEAN, action : Action \cup {"none"},
              known : BOOLEAN, success : BOOLEAN, match : BOOLEAN,
              terminal : BOOLEAN, closedEpoch : Capture \cup {"none"},
              armed : BOOLEAN, claimed : BOOLEAN, held : BOOLEAN,
              sync : {"none", "active", "pass", "fail"},
              discards : 0..MaxDiscards,
              sub : Exchange \cup Session \cup Binding
                      \cup {"none", "stop", "failed"},
              reply : {"open", "next", "ready", "pair", "refuse"}]
  /\ usb \in [in : {"none", "sync", "rx"}, inGen : 0..MaxGen,
              out : BOOLEAN, outGen : 0..MaxGen, gen : 0..MaxGen,
              fence : BOOLEAN, notified : BOOLEAN, sync : BOOLEAN,
              rGen : 0..MaxGen, rFence : BOOLEAN, rOut : BOOLEAN,
              rOutGen : 0..MaxGen]
  /\ left \in [cancel : 0..1, finish : 0..(MaxStale + 1), leaked : BOOLEAN]

(* No order of callbacks trips an assertion or a g_return_if_fail() of the  *)
(* framework or the driver, or deactivates a device that is not idle; and   *)
(* the driver deactivates exactly when the framework waits for it: neither  *)
(* can be left in a deactivation that the other has finished or never began.*)
NoBreach ==
  /\ ~fw.breach
  /\ (fw.st = "DEACTIVATING") = ctx.pending
  /\ (ctx.st = "DEACTIVATING") = ctx.pending

(* While an operation is alive and not fenced, some transfer is under way:  *)
(* the driver is never deaf and waiting for nothing.                        *)
Listening ==
  ctx.st \in {"ACTIVATING", "ACTIVE"} /\ ~ctx.fence => ~Drained(usb)

(* A transfer under way belongs to the backend's epoch, and the router      *)
(* holds its token, so a late completion can reach no other epoch.          *)
TokensAgree ==
  /\ usb.in # "none" => usb.inGen = usb.gen
  /\ usb.out => usb.outGen = usb.gen
  /\ usb.rOut = (usb.in = "rx" /\ ~usb.fence)
  /\ usb.rOut => usb.rOutGen = usb.gen /\ usb.rGen = usb.gen

(* Epochs are kept apart: no transfer and no token of one is left in another,*)
(* and nothing is sent in one before its drain saw the reader quiet.        *)
EpochsApart == TokensAgree /\ (usb.out => ctx.sync = "pass")

(* Once poisoned, a context stays poisoned and begins no epoch until it is  *)
(* closed, whatever idle callbacks and operations follow; and a second epoch*)
(* in one context follows a capture that ended cleanly and without a match, *)
(* gave everything back, and licensed this operation.                       *)
EpochIsLicensed ==
  [][/\ ctx.poisoned /\ ctx'.st # "NONE"
          => ctx'.poisoned /\ ctx'.seq = ctx.seq
     /\ ctx.seq > 0 /\ ctx'.seq > ctx.seq
          => /\ ctx.known /\ ctx.success /\ ~ctx.match /\ ~ctx.poisoned
             /\ ~ctx.claimed /\ ctx.sub = "none" /\ Drained(usb)
             /\ \/ ctx'.action = ctx.action
                \/ ctx.action = "identify" /\ ctx'.action = "enroll"]_vars

(* The engines are freed from the main loop or by the client, and never by  *)
(* a transfer's completion, which may be running inside one of them.        *)
ReleasedFromIdle ==
  [][ctx.sub # "none" /\ ctx'.sub = "none"
       => left'.finish < left.finish \/ fw.action = "none"]_vars

(* An operation that ends well has given back its transfers; a capture has  *)
(* its outcome and its interface released, an enrollment all its images.    *)
OkMeansDone ==
  [][fw.action # "none" /\ fw'.action = "none" /\ fw'.result = "ok"
       => /\ Drained(usb')
          /\ IF fw.action = "enroll" THEN fw.stage = Stages
             ELSE ctx'.known /\ ~ctx'.claimed]_vars

(* TECHNICAL_MANUAL.md:270 promises that closing drains the host-side       *)
(* callbacks and clears the context and its secrets.  It does not when the  *)
(* activation failed or was cancelled a moment before: the context is then  *)
(* abandoned with its transfers, because freeing it is refused.             *)
CloseDrains == ~left.leaked

(* The reply to a preflight command may arrive before the completion of the *)
(* command's own transfer (test_goodix_live_preflight.c:256).  After the    *)
(* last one the secure session must start, and not fail because a receive   *)
(* is already under way.                                                    *)
ReplyMayOvertake ==
  [][ctx.sub \in Exchange /\ ctx.reply = "ready" /\ ctx'.sub # ctx.sub
       => ctx'.sub \in {"none", "secure"}]_vars

(* An operation that is cancelled ends, and a deactivation ends, whatever   *)
(* the reader does.                                                         *)
OperationsEnd ==
  /\ fw.cancelled ~> ~fw.cancelled
  /\ fw.st = "DEACTIVATING" ~> fw.st # "DEACTIVATING"

==============================================================================
