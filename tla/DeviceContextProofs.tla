------------------------- MODULE DeviceContextProofs -------------------------
(* The driver's context and the framework never lose each other: no order of *)
(* callbacks hits an assertion, leaves an operation without a transfer, lets *)
(* an epoch reach another, frees an engine from inside itself, or ends well  *)
(* what is not done, however many epochs, stages and discards there are.     *)
(*                                                                          *)
(* The argument: IInv is inductive.  Core holds after every single callback, *)
(* inside a step too; a state of a step is then Activating, Active, Giving   *)
(* (an activation that was cancelled), Doomed (a poisoned operation that the *)
(* cancellation will end), Deactivating, Idle or Absent.  Hears adds to the  *)
(* first two the transfer that the operation waits for.  Rel is what no step *)
(* of an epoch undoes, and DoneIfOk what a good end means.  Ends, Stays and  *)
(* Leads say where a callback takes an operation; there is a lemma for each  *)
(* operator that models a function, and one for each action, Good(Now, Now').*)
EXTENDS DeviceContext, TLAPS

Gens == 0..MaxGen
Device ==
  [open : BOOLEAN, action : Action \cup {"none"},
   st : {"INACTIVE", "ACTIVATING", "IDLE", "AWAIT_ON", "CAPTURE",
         "AWAIT_OFF", "DEACTIVATING"},
   active : BOOLEAN, err : {"none", "error", "cancelled"},
   finger : BOOLEAN, stage : 0..Stages, held : BOOLEAN,
   cancelled : BOOLEAN, idle : BOOLEAN,
   result : {"none", "ok", "error", "cancelled"}, breach : BOOLEAN]
Subs == Exchange \cup Session \cup Binding \cup {"none", "stop", "failed"}
Context ==
  [st : {"NONE", "INACTIVE", "ACTIVATING", "ACTIVE", "DEACTIVATING",
         "POISONED"},
   gen : Gens, seq : Gens, fence : BOOLEAN, poisoned : BOOLEAN,
   actDone : BOOLEAN, pending : BOOLEAN, nonquiescent : BOOLEAN,
   scheduled : BOOLEAN, consumed : BOOLEAN, action : Action \cup {"none"},
   known : BOOLEAN, success : BOOLEAN, match : BOOLEAN, terminal : BOOLEAN,
   closedEpoch : Capture \cup {"none"}, armed : BOOLEAN, claimed : BOOLEAN,
   held : BOOLEAN, sync : {"none", "active", "pass", "fail"},
   discards : 0..MaxDiscards, sub : Subs,
   reply : {"open", "next", "ready", "pair", "refuse"}]
Usb ==
  [in : {"none", "sync", "rx"}, inGen : Gens, out : BOOLEAN,
   outGen : Gens, gen : Gens, fence : BOOLEAN, notified : BOOLEAN,
   sync : BOOLEAN, rGen : Gens, rFence : BOOLEAN, rOut : BOOLEAN,
   rOutGen : Gens]
Remains == [cancel : 0..1, finish : 0..(MaxStale + 1), leaked : BOOLEAN]
State == [fw : Device, ctx : Context, usb : Usb, left : Remains]

-----------------------------------------------------------------------------
(* Core: the transfers and the token are of the backend's epoch, and the     *)
(* framework's device is one that it could be in between two callbacks.      *)
Epoch(u) ==
  /\ u.in # "none" => u.inGen = u.gen /\ u.gen # 0
  /\ u.out => u.outGen = u.gen
  /\ u.rOut = (u.in = "rx" /\ ~u.fence)
  /\ u.rOut => u.rOutGen = u.gen /\ u.rGen = u.gen /\ ~u.rFence
  /\ ~u.rFence => u.rGen = u.gen
  /\ u.fence => u.rFence

Framework(f) ==
  /\ ~f.breach
  /\ f.action # "none" => f.open
  /\ f.active => f.action # "none"
  /\ ~f.active => f.st \in {"INACTIVE", "ACTIVATING"} /\ f.err = "none"
                  /\ ~f.finger
  /\ ~f.active /\ f.action # "none" => f.st = "ACTIVATING"
  /\ f.action = "none" => ~f.cancelled /\ ~f.idle
  /\ f.idle => f.cancelled

Core(s) ==
  /\ s \in State /\ Epoch(s.usb) /\ Framework(s.fw)
  /\ s.usb.out \/ s.usb.in = "rx" => s.ctx.sync = "pass"
  /\ s.ctx.known /\ (~s.ctx.success \/ s.ctx.match) => s.ctx.terminal

(* The context is in use by the framework's operation.                      *)
Serves(s) ==
  /\ s.ctx.consumed /\ s.ctx.claimed /\ s.ctx.closedEpoch = "none"
  /\ s.ctx.seq # 0 /\ s.ctx.action = s.fw.action /\ s.fw.action # "none"
  /\ s.left.cancel = 0

(* ... and no deactivation has begun.                                       *)
Works(s) ==
  /\ Serves(s) /\ ~s.ctx.pending /\ ~s.ctx.scheduled /\ ~s.ctx.nonquiescent
  /\ s.left.finish <= MaxStale

Live(s) ==
  /\ Works(s) /\ s.ctx.gen = s.ctx.seq /\ s.usb.gen = s.ctx.seq
  /\ ~s.ctx.fence /\ ~s.usb.fence /\ ~s.ctx.poisoned

Activating(s) ==
  /\ Live(s) /\ s.ctx.st = "ACTIVATING" /\ ~s.ctx.actDone
  /\ ~s.fw.active /\ ~s.fw.cancelled /\ ~s.fw.held /\ s.fw.stage = 0
  /\ ~s.ctx.held /\ ~s.ctx.known
  /\ \/ s.ctx.sync = "active" /\ s.ctx.sub = "none" /\ s.usb.sync
     \/ s.ctx.sync = "pass" /\ s.ctx.sub \in Exchange /\ ~s.usb.sync

(* What the framework and the engine have to agree on.                      *)
InStep(f, sub) ==
  /\ sub \in {"secure", "calibrate", "await"} => f.st = "AWAIT_ON" /\ ~f.finger
  /\ sub \in {"down", "contact"} => f.st = "CAPTURE" /\ f.finger
  /\ sub \in {"imaged", "sampled"} => f.st = "AWAIT_OFF" /\ f.finger
  /\ sub \in {"down", "imaged"} => f.action \in Capture
  /\ sub \in Binding => f.action = "enroll"
  /\ sub # "imaged" => f.err = "none"
  /\ f.held <=> sub = "sampled" /\ f.stage = Stages
  /\ f.stage = Stages => f.held

Active(s) ==
  /\ Live(s) /\ s.ctx.st = "ACTIVE" /\ s.ctx.actDone /\ s.fw.active
  /\ s.ctx.sync = "pass" /\ ~s.usb.sync /\ s.ctx.held = s.fw.held
  /\ s.ctx.sub \in Session \cup (Binding \ {"complete"})
  /\ InStep(s.fw, s.ctx.sub)
  /\ s.ctx.known <=> s.ctx.sub = "imaged"

(* The transfer that a working operation waits for.                         *)
Hears(s) ==
  /\ s.ctx.sync = "active" => s.usb.in = "sync"
  /\ s.ctx.sub \in Exchange \cup Session => s.usb.in = "rx"
  /\ s.ctx.sub \in Binding => ~Drained(s.usb) /\ s.usb.in # "sync"

(* The epoch is over.                                                       *)
Over(s) ==
  /\ s.ctx.fence \/ s.ctx.seq = 0
  /\ s.ctx.seq = 0 => s.usb = NewUsb /\ s.ctx.sub = "none"
  /\ s.ctx.seq # 0 => s.usb.fence
  /\ s.left.finish <= MaxStale + IF s.ctx.scheduled THEN 1 ELSE 0
  /\ s.ctx.scheduled => s.ctx.pending \/ s.ctx.poisoned

Idle(s) ==
  /\ Over(s) /\ s.ctx.st \in {"INACTIVE", "POISONED"} /\ s.fw.open
  /\ s.fw.action = "none" /\ ~s.ctx.pending /\ s.left.cancel = 0
  /\ s.ctx.st = "POISONED" => s.ctx.poisoned
  /\ s.ctx.closedEpoch # "none" =>
       /\ s.ctx.action = s.ctx.closedEpoch /\ s.ctx.known
       /\ ~s.ctx.claimed /\ s.ctx.sub = "none"
       /\ s.ctx.success \/ s.ctx.poisoned
  /\ ~s.ctx.consumed /\ s.ctx.closedEpoch = "none" /\ ~s.ctx.poisoned =>
       s.ctx = NewContext

Giving(s) ==
  /\ Over(s) /\ s.ctx.st = "INACTIVE" /\ s.ctx.seq # 0 /\ s.left.cancel = 1
  /\ s.ctx.poisoned /\ s.ctx.actDone /\ s.fw.cancelled
  /\ s.fw.action # "none" /\ ~s.fw.active /\ ~s.ctx.pending
  /\ s.ctx.sub \in Exchange \cup {"none"} /\ s.ctx.closedEpoch = "none"

Doomed(s) ==
  /\ Over(s) /\ Works(s) /\ s.ctx.st = "POISONED" /\ s.ctx.poisoned
  /\ s.fw.active /\ s.fw.cancelled /\ s.fw.st # "DEACTIVATING"
  /\ s.ctx.sub = "failed"

Deactivating(s) ==
  /\ Over(s) /\ Serves(s) /\ s.ctx.st = "DEACTIVATING" /\ s.ctx.pending
  /\ s.fw.active /\ s.fw.st = "DEACTIVATING"
  /\ s.ctx.sub \in {"failed", "stop", "complete"}
  /\ s.ctx.sub = "stop" => s.ctx.known /\ s.ctx.action \in Capture
  /\ s.ctx.nonquiescent => s.fw.cancelled
  /\ s.fw.action = "enroll" /\ s.fw.err = "none" /\ ~s.fw.cancelled
       => s.fw.stage = Stages
  /\ s.ctx.scheduled => Drained(s.usb) /\ s.ctx.action \in Capture

Absent(s) ==
  /\ s.ctx = NoContext /\ s.usb = NewUsb /\ ~s.fw.open
  /\ s.fw.action = "none" /\ s.left.cancel = 0

Rest(s) ==
  s.ctx.gen = 0 /\ (Idle(s) \/ Giving(s) \/ Doomed(s) \/ Deactivating(s))

Holds(s) ==
  /\ Core(s)
  /\ \/ (Activating(s) \/ Active(s)) /\ Hears(s)
     \/ Rest(s) \/ Absent(s)

IInv == Holds(Now)

(* What no callback within an epoch undoes.                                 *)
Rel(s, t) ==
  /\ t.ctx.seq = s.ctx.seq
  /\ s.ctx.poisoned => t.ctx.poisoned
  /\ s.ctx.sub # "none" => t.ctx.sub # "none"
  /\ s.ctx.sub = "failed" => t.ctx.sub = "failed"

DoneIfOk(s, t) ==
  s.fw.action # "none" /\ t.fw.action = "none" /\ t.fw.result = "ok" =>
    /\ Drained(t.usb)
    /\ IF s.fw.action = "enroll" THEN s.fw.stage = Stages
       ELSE t.ctx.known /\ ~t.ctx.claimed

(* The operation of s, or none, at the same stage.                          *)
Same(s, t) ==
  t.fw.action # "none" => t.fw.action = s.fw.action /\ t.fw.stage = s.fw.stage

(* In state t the operation of s has ended or is being ended.               *)
Ends(s, t) == Core(t) /\ Rest(t) /\ Rel(s, t) /\ DoneIfOk(s, t) /\ Same(s, t)

(* ... or it goes on, and waits for a transfer.                             *)
Working(s) == Core(s) /\ (Activating(s) \/ Active(s))
Stays(s, t) == Working(t) /\ Rel(s, t) /\ Same(s, t)
Goes(s, t) == Ends(s, t) \/ (Stays(s, t) /\ Hears(t))

(* A state t that a deactivation in state s leads to.                       *)
Settles(s, t) ==
  /\ Core(t) /\ Rel(s, t) /\ DoneIfOk(s, t)
  /\ t.ctx.gen \in {s.ctx.gen, 0} /\ t.ctx.sub = s.ctx.sub
  /\ \/ Deactivating(t) /\ t.fw = s.fw
     \/ Idle(t) /\ t.ctx.seq # 0

(* An operation that may be deactivated now.                                *)
Ending(s) ==
  /\ Works(s) /\ s.fw.active /\ s.ctx.st \in {"ACTIVE", "POISONED"}
  /\ s.ctx.sub \in Session \cup Binding \cup {"stop", "failed"}
  /\ s.ctx.sub = "stop" => s.ctx.known /\ s.ctx.action \in Capture
  /\ s.fw.action = "enroll" /\ s.fw.err = "none" /\ ~s.fw.cancelled
       => s.fw.stage = Stages

(* An operation that is about to fail.                                      *)
Troubled(s) ==
  /\ Works(s) /\ ~s.ctx.fence
  /\ \/ s.ctx.st = "ACTIVATING" /\ ~s.fw.active
     \/ /\ s.ctx.st = "ACTIVE" /\ s.fw.active /\ s.fw.st # "DEACTIVATING"
        /\ s.ctx.sub \in Session \cup (Binding \ {"complete"}) \cup {"failed"}

(* What fencing, failing and sending leave alone.                           *)
Keeps(b, c) ==
  /\ c.seq = b.seq /\ c.pending = b.pending
  /\ c.nonquiescent = b.nonquiescent /\ c.scheduled = b.scheduled
  /\ c.consumed = b.consumed /\ c.action = b.action /\ c.known = b.known
  /\ c.success = b.success /\ c.match = b.match /\ c.terminal = b.terminal
  /\ c.closedEpoch = b.closedEpoch /\ c.claimed = b.claimed

(* Another step of an activation, with context c and backend u.             *)
StillActivating(s, c, u) ==
  /\ c \in Context /\ u \in Usb /\ Epoch(u) /\ u.gen = s.usb.gen /\ ~u.fence
  /\ Keeps(s.ctx, c) /\ c.gen = s.ctx.gen /\ ~c.fence /\ c.st = s.ctx.st
  /\ ~c.actDone /\ ~c.poisoned /\ ~c.held
  /\ \/ c.sync = "active" /\ c.sub = "none" /\ s.ctx.sub = "none" /\ u.sync
     \/ c.sync = "pass" /\ c.sub \in Exchange /\ ~u.sync
  /\ u.out \/ u.in = "rx" => c.sync = "pass"

(* Another step of an active operation, with device f and context c.        *)
StillActive(s, f, c) ==
  /\ f \in Device /\ Framework(f) /\ f.active /\ f.action = s.fw.action
  /\ c \in Context /\ c.st = s.ctx.st /\ c.gen = s.ctx.gen /\ c.seq = s.ctx.seq
  /\ ~c.fence /\ ~c.poisoned /\ c.actDone /\ ~c.pending
  /\ ~c.nonquiescent /\ ~c.scheduled /\ c.consumed /\ c.claimed
  /\ c.action = s.ctx.action /\ c.closedEpoch = s.ctx.closedEpoch
  /\ c.sync = "pass" /\ c.held = f.held /\ (c.known <=> c.sub = "imaged")
  /\ c.known /\ (~c.success \/ c.match) => c.terminal
  /\ c.sub \in Session \cup (Binding \ {"complete"}) /\ InStep(f, c.sub)

(* An active operation that takes a frame, and what it makes of it: only a  *)
(* receive that cannot fail may follow an accepted image.                   *)
Framed(s) == Core(s) /\ Active(s) /\ s.usb.in = "none" /\ ~s.usb.rFence
Frame(s, t) ==
  \/ Ends(s, t)
  \/ /\ Working(t) /\ Rel(s, t) /\ t.fw.action = s.fw.action
     /\ t.ctx.sync = "pass" /\ t.usb.in # "sync"
     /\ t.fw.stage = s.fw.stage \/ ~t.usb.rFence

(* A transfer came back: an image may have been accepted meanwhile.         *)
Leads(s, t) ==
  \/ Ends(s, t)
  \/ Working(t) /\ Hears(t) /\ Rel(s, t)

(* What a whole step does: the bodies of the three action properties.       *)
Epochs(s, t) ==
  /\ s.ctx.poisoned /\ t.ctx.st # "NONE"
       => t.ctx.poisoned /\ t.ctx.seq = s.ctx.seq
  /\ s.ctx.seq > 0 /\ t.ctx.seq > s.ctx.seq
       => /\ s.ctx.known /\ s.ctx.success /\ ~s.ctx.match /\ ~s.ctx.poisoned
          /\ ~s.ctx.claimed /\ s.ctx.sub = "none" /\ Drained(s.usb)
          /\ \/ t.ctx.action = s.ctx.action
             \/ s.ctx.action = "identify" /\ t.ctx.action = "enroll"
Released(s, t) ==
  s.ctx.sub # "none" /\ t.ctx.sub = "none"
    => t.left.finish < s.left.finish \/ s.fw.action = "none"
Good(s, t) ==
  Holds(t) /\ Epochs(s, t) /\ Released(s, t) /\ DoneIfOk(s, t)
-----------------------------------------------------------------------------
(* The backend and the router.                                              *)

LEMMA ZeroIs == 0 \in Gens /\ 0 \in 0..Stages
BY DeviceAssumption DEF Gens

LEMMA NewUsbIs == NewUsb \in Usb /\ Epoch(NewUsb) /\ Drained(NewUsb)
BY ZeroIs DEF NewUsb, Usb, Epoch, Drained

LEMMA BegunIs ==
  ASSUME NEW u \in Usb, NEW g \in Gens, CanBegin(u, g)
  PROVE  LET v == Begun(u, g)
         IN /\ v \in Usb /\ Epoch(v) /\ Drained(v) /\ ~v.fence /\ v.gen = g
            /\ v.sync = u.sync
BY ZeroIs DEF Usb, Epoch, CanBegin, Begun, Drained

LEMMA ArmedIs ==
  ASSUME NEW u \in Usb, Epoch(u), NEW g \in Gens, CanArm(u, g)
  PROVE  LET v == Armed(u, g)
         IN /\ v \in Usb /\ Epoch(v) /\ v.in = "rx" /\ ~v.fence
            /\ v.out = u.out /\ v.gen = u.gen /\ v.sync = u.sync
            /\ v.rFence = u.rFence
BY DEF Usb, Epoch, CanArm, CanRequest, Armed

LEMMA SubmittedIs ==
  ASSUME NEW u \in Usb, Epoch(u), NEW g \in Gens, CanSubmit(u, g)
  PROVE  LET v == Submitted(u, g)
         IN /\ v \in Usb /\ Epoch(v) /\ v.in = u.in /\ v.out /\ ~v.fence
            /\ v.gen = u.gen /\ v.sync = u.sync /\ v.rFence = u.rFence
            /\ CanArm(v, g) = CanArm(u, g)
BY DEF Usb, Epoch, CanSubmit, Submitted, CanArm, CanRequest

LEMMA SyncIs ==
  ASSUME NEW u \in Usb, Epoch(u)
  PROVE  /\ \A b \in BOOLEAN :
              LET v == [u EXCEPT !.sync = b]
              IN /\ v \in Usb /\ Epoch(v) /\ v.in = u.in /\ v.out = u.out
                 /\ v.fence = u.fence /\ v.gen = u.gen /\ v.sync = b
                 /\ v.rFence = u.rFence
         /\ \A g \in Gens :
              CanArmSync(u, g) /\ g # 0 =>
                LET v == SyncArmed(u, g)
                IN /\ v \in Usb /\ Epoch(v) /\ v.in = "sync" /\ ~v.out
                   /\ v.fence = u.fence /\ v.gen = u.gen /\ v.sync = u.sync
                   /\ v.rFence = u.rFence
BY DEF Usb, Epoch, CanArmSync, SyncArmed, Drained

(* A transfer that came back is nobody's, and so is its token.              *)
LEMMA InReturnedIs ==
  ASSUME NEW u \in Usb, Epoch(u), u.in # "none"
  PROVE  /\ u.in = "rx" /\ ~u.fence => Delivers(u)
         /\ Delivers(u) => u.in = "rx" /\ ~u.fence /\ ~u.rFence
         /\ LET v == TokenReturned(InReturned(u))
            IN Delivers(u) =>
                 /\ v \in Usb /\ Epoch(v) /\ v.in = "none" /\ v.out = u.out
                 /\ v.fence = u.fence /\ v.gen = u.gen /\ v.sync = u.sync
                 /\ ~v.rFence
                 /\ RouterFailed(v) \in Usb /\ Epoch(RouterFailed(v))
                 /\ RouterFailed(v).in = "none" /\ RouterFailed(v).out = u.out
                 /\ RouterFailed(v).fence = u.fence
                 /\ RouterFailed(v).gen = u.gen
                 /\ RouterFailed(v).sync = u.sync
         /\ LET v == InReturned(u)
            IN ~Delivers(u) =>
                 /\ v \in Usb /\ Epoch(v) /\ v.in = "none" /\ v.out = u.out
                 /\ v.fence = u.fence /\ v.gen = u.gen /\ v.sync = u.sync
BY ZeroIs
   DEF Usb, Epoch, Delivers, InReturned, TokenReturned, RouterFailed

LEMMA OutReturnedIs ==
  ASSUME NEW u \in Usb, Epoch(u)
  PROVE  LET v == OutReturned(u)
         IN /\ v \in Usb /\ Epoch(v) /\ v.in = u.in /\ ~v.out
            /\ v.fence = u.fence /\ v.gen = u.gen /\ v.sync = u.sync
            /\ v.rFence = u.rFence
BY ZeroIs DEF Usb, Epoch, OutReturned

LEMMA CancelledIs ==
  ASSUME NEW u \in Usb, Epoch(u), ~u.fence
  PROVE  LET v == Cancelled(u)
         IN /\ v \in Usb /\ Epoch(v) /\ v.fence /\ v.in = u.in /\ v.out = u.out
            /\ v.gen = u.gen /\ v.sync = u.sync /\ ~v.notified
BY ZeroIs DEF Usb, Epoch, Cancelled

LEMMA NotifiedIs ==
  ASSUME NEW u \in Usb, Epoch(u)
  PROVE  LET v == Notified(u)
         IN /\ v \in Usb /\ Epoch(v) /\ v.fence = u.fence /\ v.in = u.in
            /\ v.out = u.out /\ v.gen = u.gen /\ v.sync = u.sync
BY DEF Usb, Epoch, Notified

LEMMA AuditResetIs ==
  ASSUME NEW u \in Usb, Epoch(u), CanReset(u)
  PROVE  LET v == AuditReset(u)
         IN v \in Usb /\ Epoch(v) /\ Drained(v) /\ v.fence /\ ~v.sync
BY ZeroIs DEF Usb, Epoch, CanReset, AuditReset, Drained

-----------------------------------------------------------------------------
(* The framework's device.                                                  *)

LEMMA ActionBeginsIs ==
  ASSUME NEW f \in Device, Framework(f), f.action = "none", f.open,
         NEW a \in Action
  PROVE  LET g == ActionBegins(f, a)
         IN /\ g \in Device /\ Framework(g) /\ g.action = a /\ g.open
            /\ ~g.active /\ g.st = "ACTIVATING" /\ ~g.cancelled /\ ~g.held
            /\ g.stage = 0
<1>1. ~f.breach /\ ~f.finger /\ ~f.active /\ a # "none" /\ f.err = "none"
      /\ ~f.cancelled /\ ~f.idle
  BY DEF Framework, Action, Capture
<1>2. Expect(f, ~f.finger /\ ~f.active) = f
  BY <1>1 DEF Expect, Device
<1> DEFINE g == [f EXCEPT !.action = a, !.result = "none", !.stage = 0,
                          !.held = FALSE, !.st = "ACTIVATING"]
<1>3. ActionBegins(f, a) = g
  BY <1>2 DEF ActionBegins
<1>4. /\ g \in Device /\ g.action = a /\ g.open = f.open /\ g.active = f.active
      /\ g.st = "ACTIVATING" /\ g.cancelled = f.cancelled /\ ~g.held
      /\ g.stage = 0 /\ g.breach = f.breach /\ g.finger = f.finger
      /\ g.err = f.err /\ g.idle = f.idle
  BY ZeroIs DEF Device
<1> QED
  BY <1>1, <1>3, <1>4 DEF Framework

LEMMA ActivateCompleteIs ==
  ASSUME NEW f \in Device, Framework(f), ~f.active, f.action # "none",
         NEW e \in {"none", "error", "cancelled"}
  PROVE  LET g == ActivateComplete(f, e)
         IN /\ g \in Device /\ Framework(g) /\ g.open
            /\ e # "none" => /\ g.action = "none" /\ ~g.active /\ g.result = e
                             /\ g.st = "ACTIVATING"
            /\ e = "none" => /\ g.action = f.action /\ g.active
                             /\ g.st = "AWAIT_ON" /\ g.err = "none"
                             /\ ~g.finger /\ g.held = f.held
                             /\ g.stage = f.stage
                             /\ g.cancelled = f.cancelled
<1>1. /\ f.st = "ACTIVATING" /\ ~f.breach /\ f.open /\ f.err = "none"
      /\ ~f.finger
  BY DEF Framework
<1>2. CASE e # "none"
  <2>1. ActivateComplete(f, e) = ActionEnds(f, e)
    BY <1>1, <1>2 DEF ActivateComplete
  <2> DEFINE g == ActionEnds(f, e)
  <2>2. /\ g \in Device /\ g.open /\ g.action = "none" /\ ~g.active
        /\ g.result = e /\ g.st = "ACTIVATING" /\ ~g.breach /\ g.err = "none"
        /\ ~g.finger /\ ~g.cancelled /\ ~g.idle
    BY <1>1 DEF ActionEnds, Device
  <2> QED
    BY <1>2, <2>1, <2>2 DEF Framework
<1>3. CASE e = "none"
  <2> DEFINE g == [f EXCEPT !.active = TRUE, !.st = "AWAIT_ON"]
  <2>1. ActivateComplete(f, e) = g
    BY <1>1, <1>3 DEF ActivateComplete
  <2>2. /\ g \in Device /\ g.open /\ g.action = f.action /\ g.active
        /\ g.st = "AWAIT_ON" /\ g.err = "none" /\ ~g.finger
        /\ g.held = f.held /\ g.stage = f.stage /\ ~g.breach
        /\ g.cancelled = f.cancelled /\ g.idle = f.idle
    BY <1>1 DEF Device
  <2> QED
    BY <1>3, <2>1, <2>2 DEF Framework
<1> QED
  BY <1>2, <1>3

(* An active device keeps the first error and goes on.                      *)
LEMMA MaybeCompleteIs ==
  ASSUME NEW f \in Device, Framework(f), f.active,
         NEW e \in {"none", "error", "cancelled"}
  PROVE  LET g == MaybeComplete(f, e)
         IN /\ g = [f EXCEPT !.err = IF f.err # "none" THEN f.err ELSE e]
            /\ g \in Device /\ Framework(g) /\ g.active /\ g.open
            /\ g.action = f.action /\ g.st = f.st /\ g.stage = f.stage
            /\ g.finger = f.finger /\ g.held = f.held
            /\ g.cancelled = f.cancelled
            /\ g.err = IF f.err # "none" THEN f.err ELSE e
<1> DEFINE g == [f EXCEPT !.err = IF f.err # "none" THEN f.err ELSE e]
<1>1. /\ g \in Device /\ g.active /\ g.open = f.open /\ g.action = f.action
      /\ g.st = f.st /\ g.stage = f.stage /\ g.finger = f.finger
      /\ g.held = f.held /\ g.cancelled = f.cancelled /\ g.idle = f.idle
      /\ g.breach = f.breach /\ g.err = IF f.err # "none" THEN f.err ELSE e
  BY DEF Device
<1>2. MaybeComplete(f, e) = g
  BY <1>1 DEF MaybeComplete
<1> HIDE DEF g
<1> QED
  BY <1>1, <1>2 DEF Framework, g

LEMMA DeactivateCompleteIs ==
  ASSUME NEW f \in Device, Framework(f), f.active, f.st = "DEACTIVATING",
         NEW e \in {"none", "error"}
  PROVE  LET g == DeactivateComplete(f, e)
         IN /\ g \in Device /\ Framework(g) /\ g.open /\ g.action = "none"
            /\ g.stage = f.stage
            /\ g.result = "ok" =>
                 f.err = "none" /\ e = "none" /\ ~f.cancelled
<1> DEFINE h == [f EXCEPT !.active = FALSE, !.finger = FALSE,
                          !.st = "INACTIVE"]
           first == IF f.err # "none" THEN f.err ELSE e
           k == [h EXCEPT !.err = first]
           r == IF first # "none" THEN first
                ELSE IF f.cancelled THEN "cancelled" ELSE "ok"
<1>1. ~f.breach /\ f.action # "none" /\ f.open
  BY DEF Framework
<1>2. /\ h \in Device /\ ~h.active /\ ~h.finger /\ h.st = "INACTIVE"
      /\ h.open /\ h.action # "none" /\ ~h.breach /\ h.err = f.err
      /\ h.stage = f.stage /\ h.cancelled = f.cancelled
  BY <1>1 DEF Device
<1>3. DeactivateComplete(f, e) = MaybeComplete(h, e)
  BY DEF DeactivateComplete
<1> HIDE DEF h
<1>4. /\ k \in Device /\ ~k.active /\ ~k.finger /\ k.st = "INACTIVE"
      /\ k.open /\ k.action # "none" /\ ~k.breach /\ k.err = first
      /\ k.stage = f.stage /\ k.cancelled = f.cancelled
  BY <1>2 DEF Device
<1>5. MaybeComplete(h, e) = ActionEnds(k, r)
  BY <1>2, <1>4 DEF MaybeComplete
<1>6. r \in {"ok", "error", "cancelled"}
  BY DEF Device
<1> DEFINE g == ActionEnds(k, r)
<1> HIDE DEF k, r
<1>7. /\ g \in Device /\ ~g.active /\ ~g.finger /\ g.st = "INACTIVE" /\ g.open
      /\ g.action = "none" /\ ~g.breach /\ g.err = "none" /\ ~g.cancelled
      /\ ~g.idle /\ g.stage = f.stage /\ g.result = r
  BY <1>4, <1>6 DEF ActionEnds, Device
<1> HIDE DEF g
<1>8. Framework(g)
  BY <1>7 DEF Framework
<1>9. r = "ok" => f.err = "none" /\ e = "none" /\ ~f.cancelled
  BY DEF r, Device
<1> QED
  BY <1>3, <1>5, <1>7, <1>8, <1>9 DEF g

-----------------------------------------------------------------------------
(* The parts of a state, and of one that an operator made.                  *)

LEMMA PartsAre ==
  ASSUME NEW s \in State
  PROVE  /\ s.fw \in Device /\ s.ctx \in Context /\ s.usb \in Usb
         /\ s.left \in Remains
BY DEF State

LEMMA WholeIs ==
  ASSUME NEW s \in State, NEW f \in Device, NEW c \in Context, NEW u \in Usb,
         NEW l \in Remains
  PROVE  LET t == [s EXCEPT !.fw = f, !.ctx = c, !.usb = u, !.left = l]
         IN t \in State /\ t.fw = f /\ t.ctx = c /\ t.usb = u /\ t.left = l
BY DEF State

-----------------------------------------------------------------------------
(* Ending a deactivation.                                                   *)

LEMMA PoisonIs ==
  ASSUME NEW s \in State
  PROVE  /\ Poison(s) \in State /\ Poison(s).fw = s.fw /\ Poison(s).usb = s.usb
         /\ Poison(s).left = s.left
         /\ Poison(s).ctx = [s.ctx EXCEPT !.poisoned = TRUE]
         /\ Poisoned(s) \in State /\ Poisoned(s).fw = s.fw
         /\ Poisoned(s).usb = s.usb /\ Poisoned(s).left = s.left
         /\ Poisoned(s).ctx = [s.ctx EXCEPT !.poisoned = TRUE,
                                            !.st = "POISONED"]
<1> DEFINE c == [s.ctx EXCEPT !.poisoned = TRUE]
           d == [s.ctx EXCEPT !.poisoned = TRUE, !.st = "POISONED"]
<1>0. s.ctx \in Context
  BY PartsAre
<1>1. c \in Context /\ d \in Context
  BY <1>0 DEF Context
<1>2. Poison(s) = [s EXCEPT !.ctx = c] /\ Poisoned(s) = [s EXCEPT !.ctx = d]
  BY DEF Poison, Poisoned, State
<1> HIDE DEF c, d
<1>3. [s EXCEPT !.ctx = c] \in State /\ [s EXCEPT !.ctx = d] \in State
  BY <1>1 DEF State
<1> QED
  BY <1>2, <1>3 DEF State, c, d

LEMMA CloseEpochIs ==
  ASSUME NEW s \in State, s.ctx.action \in Capture
  PROVE  LET t == CloseEpoch(s)
         IN /\ t \in State /\ t.fw = s.fw /\ t.usb = s.usb /\ t.left = s.left
            /\ t.ctx = [s.ctx EXCEPT
                 !.sub = "none", !.reply = "open", !.claimed = FALSE,
                 !.gen = 0, !.closedEpoch = s.ctx.action,
                 !.armed = /\ s.ctx.action = "identify" /\ s.ctx.known
                           /\ s.ctx.success /\ ~s.ctx.match
                           /\ ~s.ctx.terminal]
<1> DEFINE a == /\ s.ctx.action = "identify" /\ s.ctx.known
                /\ s.ctx.success /\ ~s.ctx.match /\ ~s.ctx.terminal
           c == [s.ctx EXCEPT
                  !.sub = "none", !.reply = "open", !.claimed = FALSE,
                  !.gen = 0, !.closedEpoch = s.ctx.action, !.armed = a]
<1>0. s.ctx \in Context
  BY PartsAre
<1>1. a \in BOOLEAN /\ "none" \in Subs
  BY DEF Subs
<1>2. CloseEpoch(s) = [s EXCEPT !.ctx = c]
  BY DEF CloseEpoch, ReleaseObjects, State
<1> HIDE DEF a
<1>3. c \in Context
  BY <1>0, <1>1, ZeroIs DEF Context
<1> HIDE DEF c
<1>4. [s EXCEPT !.ctx = c] \in State
  BY <1>3 DEF State
<1> QED
  BY <1>2, <1>4 DEF State, c, a

LEMMA FinishHolds ==
  ASSUME NEW s, Core(s), Deactivating(s), Drained(s.usb), NEW ok \in BOOLEAN,
         s.ctx.scheduled => s.ctx.poisoned \/ s.ctx.nonquiescent
  PROVE  LET t == FinishDeactivation(s, ok)
         IN /\ Core(t) /\ Idle(t) /\ t.ctx.gen \in {s.ctx.gen, 0}
            /\ t.ctx.seq = s.ctx.seq /\ (s.ctx.poisoned => t.ctx.poisoned)
            /\ DoneIfOk(s, t) /\ t.usb = s.usb /\ t.left = s.left
            /\ \/ t.ctx.sub = s.ctx.sub
               \/ /\ ~s.ctx.nonquiescent /\ ~s.ctx.poisoned
                  /\ s.ctx.action \in Capture
<1> DEFINE t == FinishDeactivation(s, ok)
           clean == ~s.ctx.nonquiescent
           closes == clean /\ s.ctx.action \in Capture
           closed == closes /\ CanCloseEpoch(s) /\ ok
           e == IF closes /\ ~closed THEN "error" ELSE "none"
           b == [s.ctx EXCEPT !.pending = FALSE, !.st = "INACTIVE"]
           a == /\ b.action = "identify" /\ b.known
                /\ b.success /\ ~b.match /\ ~b.terminal
           d == [b EXCEPT !.sub = "none", !.reply = "open", !.claimed = FALSE,
                          !.gen = 0, !.closedEpoch = b.action, !.armed = a]
           T == [s EXCEPT !.ctx.pending = FALSE, !.ctx.st = "INACTIVE"]
           X == CASE closed /\ s.ctx.success -> CloseEpoch(T)
                  [] closed /\ ~s.ctx.success -> Poisoned(CloseEpoch(T))
                  [] clean /\ ~closes -> T
                  [] OTHER -> Poisoned(T)
           g == DeactivateComplete(s.fw, e)
<1>1. s \in State /\ Epoch(s.usb) /\ Framework(s.fw)
  BY DEF Core
<1>2. /\ s.fw \in Device /\ s.ctx \in Context /\ s.usb \in Usb
      /\ s.left \in Remains
  BY <1>1, PartsAre
<1>3. /\ g \in Device /\ Framework(g) /\ g.open /\ g.action = "none"
      /\ g.stage = s.fw.stage
      /\ g.result = "ok" => s.fw.err = "none" /\ e = "none" /\ ~s.fw.cancelled
  <2>1. e \in {"none", "error"}
    OBVIOUS
  <2> HIDE DEF e
  <2> QED
    BY <1>1, <1>2, <2>1, DeactivateCompleteIs DEF Deactivating
<1>4. /\ T \in State /\ T.ctx = b /\ T.fw = s.fw /\ T.usb = s.usb
      /\ T.left = s.left
  <2>1. b \in Context
    BY <1>2 DEF Context
  <2>2. T = [s EXCEPT !.ctx = b]
    BY <1>1 DEF State
  <2> HIDE DEF b, T
  <2> QED
    BY <1>1, <2>1, <2>2 DEF State
<1>5. t = [X EXCEPT !.fw = DeactivateComplete(@, e)]
  BY DEF FinishDeactivation, FwDeactivateComplete
<1>6. b.action = s.ctx.action /\ b.sub = s.ctx.sub
  BY <1>2 DEF Context
<1> HIDE DEF T
<1>7. /\ X \in State /\ X.fw = s.fw /\ X.usb = s.usb /\ X.left = s.left
      /\ closed /\ s.ctx.success => X.ctx = d
      /\ closed /\ ~s.ctx.success =>
           X.ctx = [d EXCEPT !.poisoned = TRUE, !.st = "POISONED"]
      /\ clean /\ ~closes => X.ctx = b
      /\ ~closed /\ ~(clean /\ ~closes) =>
           X.ctx = [b EXCEPT !.poisoned = TRUE, !.st = "POISONED"]
  <2> HIDE DEF b
  <2>1. CASE closed /\ s.ctx.success
    BY <1>4, <1>6, <2>1, CloseEpochIs
  <2>2. CASE closed /\ ~s.ctx.success
    <3>1. /\ CloseEpoch(T) \in State /\ CloseEpoch(T).ctx = d
          /\ CloseEpoch(T).fw = T.fw /\ CloseEpoch(T).usb = T.usb
          /\ CloseEpoch(T).left = T.left
      BY <1>4, <1>6, <2>2, CloseEpochIs
    <3> HIDE DEF d
    <3>2. X = Poisoned(CloseEpoch(T)) /\ closes
      BY <2>2
    <3>3. /\ X.ctx = [d EXCEPT !.poisoned = TRUE, !.st = "POISONED"]
          /\ X \in State /\ X.fw = s.fw /\ X.usb = s.usb /\ X.left = s.left
      <4> HIDE DEF X
      <4> QED
        BY <1>4, <3>1, <3>2, PoisonIs
    <3> HIDE DEF X, closed, closes
    <3> QED
      BY <2>2, <3>2, <3>3
  <2>3. CASE ~closed /\ clean /\ ~closes
    BY <1>4, <2>3
  <2>4. CASE ~closed /\ ~(clean /\ ~closes)
    <3>1. X = Poisoned(T)
      BY <2>4
    <3>2. /\ X.ctx = [T.ctx EXCEPT !.poisoned = TRUE, !.st = "POISONED"]
          /\ X \in State /\ X.fw = s.fw /\ X.usb = s.usb /\ X.left = s.left
      <4> HIDE DEF X
      <4> QED
        BY <1>4, <3>1, PoisonIs
    <3>3. X.ctx = [b EXCEPT !.poisoned = TRUE, !.st = "POISONED"]
      BY <1>4, <3>2
    <3> HIDE DEF X, closed, closes, clean
    <3> QED
      BY <2>4, <3>2, <3>3
  <2> QED
    BY <2>1, <2>2, <2>3, <2>4
<1>8. t \in State /\ t.fw = g /\ t.ctx = X.ctx /\ t.usb = s.usb /\ t.left = s.left
  <2> HIDE DEF X, g, e, t
  <2> QED
    BY <1>3, <1>5, <1>7 DEF State, g
<1> DEFINE k == t.ctx
<1> HIDE DEF t, X, g, T
<1>9. /\ k.seq = s.ctx.seq /\ k.fence = s.ctx.fence /\ ~k.pending
      /\ k.scheduled = s.ctx.scheduled /\ k.consumed = s.ctx.consumed
      /\ k.action = s.ctx.action /\ k.known = s.ctx.known
      /\ k.success = s.ctx.success /\ k.match = s.ctx.match
      /\ k.terminal = s.ctx.terminal /\ k.sync = s.ctx.sync
      /\ k.st \in {"INACTIVE", "POISONED"}
      /\ k.st = "POISONED" => k.poisoned
      /\ s.ctx.poisoned => k.poisoned
      /\ k.gen \in {s.ctx.gen, 0}
      /\ ~closed => k.sub = s.ctx.sub /\ k.closedEpoch = s.ctx.closedEpoch
      /\ closed => /\ k.sub = "none" /\ k.closedEpoch = s.ctx.action
                   /\ ~k.claimed /\ (k.success \/ k.poisoned)
      /\ ~clean => k.poisoned
  <2>1. CASE closed /\ s.ctx.success
    <3>1. k = d /\ clean
      BY <1>7, <1>8, <2>1
    <3> HIDE DEF closed, closes, clean, k
    <3> QED
      BY <1>2, <2>1, <3>1 DEF Context
  <2>2. CASE closed /\ ~s.ctx.success
    <3>1. k = [d EXCEPT !.poisoned = TRUE, !.st = "POISONED"]
      BY <1>7, <1>8, <2>2
    <3> HIDE DEF closed, closes, clean, k
    <3> QED
      BY <1>2, <2>2, <3>1 DEF Context
  <2>3. CASE clean /\ ~closes
    <3>1. k = b /\ ~closed
      BY <1>7, <1>8, <2>3
    <3> HIDE DEF closed, closes, clean, k
    <3> QED
      BY <1>2, <2>3, <3>1 DEF Context
  <2>4. CASE ~closed /\ ~(clean /\ ~closes)
    <3>1. k = [b EXCEPT !.poisoned = TRUE, !.st = "POISONED"]
      BY <1>7, <1>8, <2>4
    <3> HIDE DEF closed, closes, clean, k
    <3> QED
      BY <1>2, <2>4, <3>1 DEF Context
  <2> QED
    BY <2>1, <2>2, <2>3, <2>4
<1>11. closed => /\ clean /\ s.ctx.action \in Capture /\ s.ctx.consumed
                 /\ ~s.ctx.poisoned /\ s.ctx.sub = "stop"
  BY DEF CanCloseEpoch
<1>12. ~closed /\ closes => e = "error"
  OBVIOUS
<1>13. closed => s.ctx.known /\ s.ctx.action # "none"
  BY <1>11 DEF Deactivating, Capture
<1> HIDE DEF closed, e, k
<1>14. Core(t)
  BY <1>1, <1>3, <1>8, <1>9 DEF Core, k
<1>15. Idle(t)
  <2>1. Over(t)
    BY <1>8, <1>9, <1>11 DEF Deactivating, Over, Serves, k
  <2> QED
    BY <1>3, <1>8, <1>9, <1>11, <1>13, <2>1
       DEF Idle, Deactivating, Serves, k
<1>16. DoneIfOk(s, t)
  <2> SUFFICES ASSUME g.result = "ok"
               PROVE  /\ Drained(s.usb)
                      /\ IF s.fw.action = "enroll" THEN s.fw.stage = Stages
                         ELSE k.known /\ ~k.claimed
    BY <1>8 DEF DoneIfOk, k
  <2>1. s.fw.err = "none" /\ e = "none" /\ ~s.fw.cancelled
    BY <1>3
  <2>2. CASE s.fw.action = "enroll"
    BY <2>1, <2>2 DEF Deactivating
  <2>3. CASE s.fw.action # "enroll"
    <3>1. s.ctx.action \in Capture
      BY <1>2, <2>3 DEF Deactivating, Serves, Context, Device, Action
    <3>2. closed
      BY <1>12, <2>1, <3>1 DEF Deactivating
    <3> QED
      BY <1>9, <1>13, <2>3, <3>2
  <2> QED
    BY <2>2, <2>3
<1> QED
  BY <1>8, <1>9, <1>11, <1>14, <1>15, <1>16 DEF k, t

(* What waits for its outcome has it, or is finished at once.               *)
LEMMA CompleteHolds ==
  ASSUME NEW s, Core(s), Deactivating(s)
  PROVE  /\ Settles(s, CompleteDeactivation(s))
         /\ CompleteIfDrained(s) = CompleteDeactivation(s)
         /\ ContextUsbDrained(s) = CompleteDeactivation(s)
         /\ CompleteDeactivation(s).usb = s.usb
<1> DEFINE t == CompleteDeactivation(s)
<1>1. /\ s \in State /\ s.ctx \in Context /\ s.left \in Remains
      /\ s.ctx.pending /\ s.ctx.st = "DEACTIVATING" /\ s.ctx.seq # 0
  BY PartsAre DEF Core, Deactivating, Serves
<1>2. CASE ~Drained(s.usb)
  <2>1. t = s
    BY <1>1, <1>2 DEF CompleteDeactivation
  <2>2. Settles(s, s)
    BY <1>1 DEF Settles, Rel, DoneIfOk, Deactivating, Serves
  <2> QED
    BY <1>1, <1>2, <2>1, <2>2 DEF CompleteIfDrained, ContextUsbDrained
<1>3. CASE Drained(s.usb)
  <2>1. CompleteIfDrained(s) = t /\ ContextUsbDrained(s) = t
    BY <1>1, <1>3 DEF CompleteIfDrained, ContextUsbDrained
  <2>2. CASE \/ s.ctx.nonquiescent \/ s.ctx.poisoned
             \/ s.ctx.action \notin Capture
    <3>1. t = FinishDeactivation(s, TRUE)
      BY <1>1, <1>3, <2>2 DEF CompleteDeactivation
    <3>2. s.ctx.scheduled => s.ctx.poisoned \/ s.ctx.nonquiescent
      BY <2>2 DEF Deactivating
    <3> HIDE DEF t
    <3>3. /\ Core(t) /\ Idle(t) /\ t.ctx.gen \in {s.ctx.gen, 0}
          /\ t.ctx.seq = s.ctx.seq /\ (s.ctx.poisoned => t.ctx.poisoned)
          /\ DoneIfOk(s, t) /\ t.usb = s.usb /\ t.ctx.sub = s.ctx.sub
      BY <1>3, <2>2, <3>1, <3>2, FinishHolds
    <3> QED
      BY <1>1, <2>1, <3>3 DEF Settles, Rel, t
  <2>3. CASE ~ (\/ s.ctx.nonquiescent \/ s.ctx.poisoned
                \/ s.ctx.action \notin Capture)
    <3>1. CASE s.ctx.known /\ ~s.ctx.scheduled
      <4> DEFINE c == [s.ctx EXCEPT !.scheduled = TRUE]
                 l == [s.left EXCEPT !.finish = @ + 1]
      <4>1. t = [s EXCEPT !.ctx = c, !.left = l]
        BY <1>1, <1>3, <2>3, <3>1 DEF CompleteDeactivation, State
      <4>2. /\ c \in Context /\ c.scheduled /\ c.gen = s.ctx.gen
            /\ c.seq = s.ctx.seq /\ c.poisoned = s.ctx.poisoned
            /\ c.sub = s.ctx.sub /\ c.sync = s.ctx.sync /\ c.st = s.ctx.st
            /\ c.known = s.ctx.known /\ c.success = s.ctx.success
            /\ c.match = s.ctx.match /\ c.terminal = s.ctx.terminal
            /\ c.pending /\ c.consumed = s.ctx.consumed
            /\ c.claimed = s.ctx.claimed /\ c.fence = s.ctx.fence
            /\ c.closedEpoch = s.ctx.closedEpoch
            /\ c.action = s.ctx.action
            /\ c.nonquiescent = s.ctx.nonquiescent
        BY <1>1 DEF Context
      <4>3. s.left.finish <= MaxStale
        BY <3>1, DeviceAssumption DEF Deactivating, Over
      <4>4. /\ l \in Remains /\ l.cancel = s.left.cancel
            /\ l.finish <= MaxStale + 1
        BY <1>1, <4>3, DeviceAssumption DEF Remains
      <4> HIDE DEF c, l, t
      <4>5. /\ t \in State /\ t.fw = s.fw /\ t.ctx = c /\ t.usb = s.usb
            /\ t.left = l
        BY <1>1, <4>1, <4>2, <4>4 DEF State
      <4>6. Core(t)
        BY <4>2, <4>5 DEF Core
      <4>7. Deactivating(t)
        BY <1>1, <1>3, <2>3, <3>1, <4>2, <4>4, <4>5
           DEF Deactivating, Over, Serves
      <4> QED
        BY <1>1, <2>1, <4>2, <4>5, <4>6, <4>7
           DEF Settles, Rel, DoneIfOk, Deactivating, Serves, t
    <3>2. CASE ~(s.ctx.known /\ ~s.ctx.scheduled)
      <4>1. t = s
        BY <1>1, <1>3, <2>3, <3>2 DEF CompleteDeactivation
      <4>2. Settles(s, s)
        BY <1>1 DEF Settles, Rel, DoneIfOk, Deactivating, Serves
      <4> QED
        BY <2>1, <4>1, <4>2
    <3> QED
      BY <3>1, <3>2
  <2> QED
    BY <2>2, <2>3
<1> QED
  BY <1>2, <1>3

(* The backend's epoch may change where the context's is over.              *)
LEMMA NotifyHolds ==
  ASSUME NEW s, Core(s), Deactivating(s)
  PROVE  Settles(s, MaybeNotifyDrained(s))
<1> DEFINE u == Notified(s.usb)
           n == [s EXCEPT !.usb = u]
           t == MaybeNotifyDrained(s)
<1>1. /\ s \in State /\ s.usb \in Usb /\ Epoch(s.usb) /\ s.ctx.seq # 0
  BY PartsAre DEF Core, Deactivating, Serves
<1>2. CASE ~MustNotify(s.usb)
  <2>1. t = s
    BY <1>2 DEF MaybeNotifyDrained
  <2> QED
    BY <1>1, <2>1 DEF Settles, Rel, DoneIfOk, Deactivating, Serves
<1>3. CASE MustNotify(s.usb)
  <2>1. t = ContextUsbDrained(n)
    BY <1>1, <1>3 DEF MaybeNotifyDrained, State
  <2>2. /\ u \in Usb /\ Epoch(u) /\ u.fence = s.usb.fence /\ u.in = s.usb.in
        /\ u.out = s.usb.out
    BY <1>1, NotifiedIs
  <2> HIDE DEF u
  <2>3. /\ n \in State /\ n.fw = s.fw /\ n.ctx = s.ctx /\ n.usb = u
        /\ n.left = s.left
    BY <1>1, <2>2 DEF State
  <2> HIDE DEF n, t
  <2>4. Core(n) /\ Deactivating(n)
    BY <1>1, <2>2, <2>3 DEF Core, Deactivating, Over, Serves, Drained
  <2>5. Settles(n, t)
    BY <2>1, <2>4, CompleteHolds
  <2> QED
    BY <2>3, <2>5 DEF Settles, Rel, DoneIfOk, t
<1> QED
  BY <1>2, <1>3

-----------------------------------------------------------------------------
(* Fencing, and beginning a deactivation.                                   *)

LEMMA DeactivateHolds ==
  ASSUME NEW s, Core(s), Ending(s), s.fw.st = "DEACTIVATING"
  PROVE  Ends(s, DriverDeactivate(s))
<1> DEFINE cancels == s.ctx.sub \in Session \cup (Binding \ {"complete"})
           b == [s.ctx EXCEPT !.held = FALSE, !.pending = TRUE,
                              !.st = "DEACTIVATING"]
           c == [b EXCEPT !.fence = TRUE,
                          !.sub = IF cancels THEN "failed" ELSE @]
           y == [s EXCEPT !.ctx.held = FALSE, !.ctx.pending = TRUE,
                          !.ctx.st = "DEACTIVATING"]
           z == [y EXCEPT !.ctx.fence = TRUE,
                          !.ctx.sub = IF y.ctx.sub \in Session
                                         \cup (Binding \ {"complete"})
                                      THEN "failed" ELSE @]
           p == BackendCancel(z)
           q == [p EXCEPT !.ctx.poisoned = @ \/ y.ctx.sub \in Session]
           r == [q EXCEPT !.ctx.gen = 0, !.ctx.nonquiescent = s.fw.cancelled]
           t == DriverDeactivate(s)
<1>1. /\ s \in State /\ s.fw \in Device /\ s.ctx \in Context /\ s.usb \in Usb
      /\ s.left \in Remains /\ Epoch(s.usb) /\ Framework(s.fw)
  BY PartsAre DEF Core
<1>2. /\ b \in Context /\ b.sub = s.ctx.sub /\ b.gen = s.ctx.gen
      /\ b.seq = s.ctx.seq /\ b.fence = s.ctx.fence
      /\ b.poisoned = s.ctx.poisoned /\ b.pending
      /\ b.nonquiescent = s.ctx.nonquiescent /\ b.scheduled = s.ctx.scheduled
      /\ b.consumed = s.ctx.consumed /\ b.action = s.ctx.action
      /\ b.known = s.ctx.known /\ b.success = s.ctx.success
      /\ b.match = s.ctx.match /\ b.terminal = s.ctx.terminal
      /\ b.closedEpoch = s.ctx.closedEpoch /\ b.claimed = s.ctx.claimed
      /\ b.sync = s.ctx.sync /\ b.st = "DEACTIVATING"
  BY <1>1 DEF Context
<1>3. /\ y \in State /\ y.fw = s.fw /\ y.ctx = b /\ y.usb = s.usb
      /\ y.left = s.left
  <2>1. y = [s EXCEPT !.ctx = b]
    BY <1>1 DEF State
  <2> HIDE DEF b, y
  <2> QED
    BY <1>1, <1>2, <2>1 DEF State
<1>4. t = CompleteIfDrained(r)
  BY DEF DriverDeactivate, SetFence, Ending
<1> HIDE DEF b, y, t
<1>5. /\ c \in Context /\ c.gen = b.gen /\ c.seq = b.seq /\ c.fence
      /\ c.poisoned = b.poisoned /\ c.pending
      /\ c.nonquiescent = b.nonquiescent /\ c.scheduled = b.scheduled
      /\ c.consumed = b.consumed /\ c.action = b.action
      /\ c.known = b.known /\ c.success = b.success
      /\ c.match = b.match /\ c.terminal = b.terminal
      /\ c.closedEpoch = b.closedEpoch /\ c.claimed = b.claimed
      /\ c.sync = b.sync /\ c.st = "DEACTIVATING"
      /\ c.sub = IF cancels THEN "failed" ELSE b.sub
  <2> "failed" \in Subs
    BY DEF Subs
  <2> HIDE DEF cancels
  <2> QED
    BY <1>2 DEF Context
<1>6. z \in State /\ z.fw = s.fw /\ z.ctx = c /\ z.usb = s.usb /\ z.left = s.left
  <2>1. z = [y EXCEPT !.ctx = c]
    BY <1>2, <1>3 DEF State
  <2> HIDE DEF c, z
  <2> QED
    BY <1>3, <1>5, <2>1 DEF State
<1> DEFINE u == IF s.usb.fence THEN s.usb ELSE Cancelled(s.usb)
           w == [z EXCEPT !.usb = u]
<1>7. u \in Usb /\ Epoch(u) /\ u.fence /\ u.in = s.usb.in /\ u.out = s.usb.out
  BY <1>1, CancelledIs
<1> HIDE DEF z, c
<1>8. w \in State /\ w.fw = s.fw /\ w.ctx = c /\ w.usb = u /\ w.left = s.left
  <2> HIDE DEF u
  <2> QED
    BY <1>6, <1>7 DEF State
<1>9. c.sub \in {"failed", "stop", "complete"} /\ (c.sub = "stop" => c.known /\ c.action \in Capture)
      /\ c.sub # "none"
  <2>1. "stop" \notin Session /\ "stop" \notin Binding
    BY DEF Session, Lifecycle, Binding
  <2> QED
    BY <1>2, <1>5, <2>1 DEF Ending
<1>10. Core(w) /\ Deactivating(w)
  <2> HIDE DEF w, u
  <2>1. Core(w)
    BY <1>2, <1>5, <1>7, <1>8 DEF Core
  <2>2. Over(w)
    BY <1>2, <1>5, <1>7, <1>8, DeviceAssumption
       DEF Ending, Works, Serves, Over
  <2>3. Serves(w)
    <3>1. Serves(s)
      BY DEF Ending, Works
    <3>2. c.consumed
      BY <1>2, <1>5, <3>1 DEF Serves
    <3>3. c.claimed
      BY <1>2, <1>5, <3>1 DEF Serves
    <3>4. c.closedEpoch = "none"
      BY <1>2, <1>5, <3>1 DEF Serves
    <3>5. c.seq # 0 /\ c.action = s.fw.action /\ s.fw.action # "none"
      BY <1>2, <1>5, <3>1 DEF Serves
    <3>6. w.left.cancel = 0
      BY <1>8, <3>1 DEF Serves
    <3> QED
      BY <1>8, <3>2, <3>3, <3>4, <3>5, <3>6 DEF Serves
  <2>4. Deactivating(w)
    BY <1>2, <1>5, <1>8, <1>9, <2>2, <2>3 DEF Ending, Works, Deactivating
  <2> QED
    BY <2>1, <2>4
<1>11. Settles(w, p)
  <2>1. CASE s.usb.fence
    <3>1. p = z /\ w = z
      BY <1>6, <2>1 DEF BackendCancel, State
    <3> HIDE DEF p, w
    <3> QED
      BY <1>8, <1>10, <3>1 DEF Settles, Rel, DoneIfOk, Deactivating, Serves
  <2>2. CASE ~s.usb.fence
    <3>1. p = MaybeNotifyDrained(w)
      BY <1>6, <2>2 DEF BackendCancel, State
    <3> HIDE DEF p, w
    <3> QED
      BY <1>10, <3>1, NotifyHolds
  <2> QED
    BY <2>1, <2>2
<1> HIDE DEF p, w, u
<1> DEFINE d == [p.ctx EXCEPT !.poisoned = @ \/ s.ctx.sub \in Session]
           k == [d EXCEPT !.gen = 0, !.nonquiescent = s.fw.cancelled]
<1>12. /\ p \in State /\ p.ctx \in Context /\ p.fw \in Device
       /\ s.fw.cancelled \in BOOLEAN
  BY <1>1, <1>11, PartsAre DEF Settles, Core, Device
<1>13. /\ d \in Context /\ d.seq = p.ctx.seq /\ d.fence = p.ctx.fence
       /\ (d.poisoned <=> p.ctx.poisoned \/ s.ctx.sub \in Session)
       /\ d.pending = p.ctx.pending
       /\ d.scheduled = p.ctx.scheduled
       /\ d.consumed = p.ctx.consumed /\ d.action = p.ctx.action
       /\ d.known = p.ctx.known /\ d.success = p.ctx.success
       /\ d.match = p.ctx.match /\ d.terminal = p.ctx.terminal
       /\ d.closedEpoch = p.ctx.closedEpoch /\ d.claimed = p.ctx.claimed
       /\ d.sync = p.ctx.sync /\ d.st = p.ctx.st /\ d.sub = p.ctx.sub
  BY <1>12 DEF Context
<1>14. /\ q \in State /\ q.ctx = d /\ q.fw = p.fw /\ q.usb = p.usb
       /\ q.left = p.left
  <2>1. q = [p EXCEPT !.ctx = d]
    BY <1>2, <1>3, <1>12 DEF State
  <2> HIDE DEF q, d
  <2> QED
    BY <1>12, <1>13, <2>1 DEF State
<1> HIDE DEF q, d
<1>15. /\ k \in Context /\ k.gen = 0 /\ k.nonquiescent = s.fw.cancelled
       /\ k.seq = d.seq /\ k.fence = d.fence
       /\ k.poisoned = d.poisoned /\ k.pending = d.pending
       /\ k.scheduled = d.scheduled
       /\ k.consumed = d.consumed /\ k.action = d.action
       /\ k.known = d.known /\ k.success = d.success
       /\ k.match = d.match /\ k.terminal = d.terminal
       /\ k.closedEpoch = d.closedEpoch /\ k.claimed = d.claimed
       /\ k.sync = d.sync /\ k.st = d.st /\ k.sub = d.sub
  BY <1>12, <1>13, ZeroIs DEF Context
<1>16. /\ r \in State /\ r.ctx = k /\ r.fw = p.fw /\ r.usb = p.usb
       /\ r.left = p.left
  <2>1. r = [q EXCEPT !.ctx = k]
    BY <1>14 DEF State
  <2> HIDE DEF r, k
  <2> QED
    BY <1>14, <1>15, <2>1 DEF State
<1> HIDE DEF r, k
<1>17. Core(r) /\ Rel(s, r)
  <2>1. Core(r)
    BY <1>11, <1>13, <1>15, <1>16 DEF Settles, Core
  <2>2. Rel(s, r)
    BY <1>2, <1>5, <1>8, <1>9, <1>11, <1>13, <1>15, <1>16 DEF Settles, Rel
  <2> QED
    BY <2>1, <2>2
<1>18. DoneIfOk(s, r)
  BY <1>8, <1>11, <1>13, <1>15, <1>16 DEF Settles, DoneIfOk
<1>19. CASE Deactivating(p) /\ p.fw = w.fw
  <2>1. Deactivating(r)
    <3>1. Over(r)
      BY <1>13, <1>15, <1>16, <1>19, DeviceAssumption DEF Deactivating, Over
    <3>2. Serves(p)
      BY <1>19 DEF Deactivating
    <3>3. Serves(r)
      BY <1>13, <1>15, <1>16, <3>2 DEF Serves
    <3> QED
      BY <1>8, <1>13, <1>15, <1>16, <1>19, <3>1, <3>3 DEF Deactivating
  <2>2. Settles(r, t) /\ r.ctx.gen = 0
    BY <1>4, <1>15, <1>16, <1>17, <2>1, CompleteHolds
  <2>3. Rest(t)
    BY <2>2 DEF Settles, Rest
  <2>4. DoneIfOk(s, t)
    BY <1>8, <1>16, <1>19, <2>2 DEF Settles, DoneIfOk
  <2>5. Same(s, t)
    BY <1>8, <1>16, <1>19, <2>2 DEF Settles, Same, Idle
  <2> QED
    BY <1>17, <2>2, <2>3, <2>4, <2>5 DEF Settles, Rel, Ends, t
<1>20. CASE Idle(p) /\ p.ctx.seq # 0
  <2>1. t = r
    BY <1>4, <1>13, <1>15, <1>16, <1>20 DEF CompleteIfDrained, Idle
  <2>2. p.ctx.consumed \/ p.ctx.closedEpoch # "none" \/ p.ctx.poisoned
    BY <1>20 DEF Idle, NewContext
  <2>3. Over(r) /\ r.ctx.gen = 0
    BY <1>13, <1>15, <1>16, <1>20 DEF Idle, Over
  <2>4. Idle(r)
    BY <1>13, <1>15, <1>16, <1>20, <2>2, <2>3 DEF Idle
  <2> QED
    BY <1>17, <1>18, <2>1, <2>3, <2>4 DEF Rest, Idle, Same, Ends, t
<1> QED
  BY <1>11, <1>19, <1>20 DEF Settles

LEMMA FwDeactivateHolds ==
  ASSUME NEW s, Core(s), Ending(s), s.fw.st # "DEACTIVATING",
         NEW cancelling \in BOOLEAN, cancelling \/ s.fw.st = "IDLE"
  PROVE  Ends(s, FwDeactivate(s, cancelling))
<1> DEFINE f == [s.fw EXCEPT !.held = @ /\ ~cancelling]
           g == [f EXCEPT !.st = "DEACTIVATING"]
           v == [s EXCEPT !.fw = g]
           t == FwDeactivate(s, cancelling)
<1>1. s \in State /\ s.fw \in Device /\ Framework(s.fw) /\ s.fw.active
  BY PartsAre DEF Core, Ending
<1>2. /\ f \in Device /\ f.active /\ f.st = s.fw.st /\ f.breach = s.fw.breach
      /\ g \in Device /\ g.active /\ g.st = "DEACTIVATING"
      /\ g.breach = s.fw.breach /\ g.action = s.fw.action
      /\ g.open = s.fw.open /\ g.err = s.fw.err /\ g.stage = s.fw.stage
      /\ g.cancelled = s.fw.cancelled /\ g.idle = s.fw.idle
  BY <1>1 DEF Device
<1>3. Expect(f, cancelling \/ f.st = "IDLE") = f
  <2>1. f.breach = FALSE
    BY <1>1, <1>2 DEF Framework, Device
  <2> HIDE DEF f
  <2> QED
    BY <1>2, <2>1 DEF Expect, Device
<1>4. t = DriverDeactivate(v)
  <2> HIDE DEF f
  <2> QED
    BY <1>2, <1>3 DEF FwDeactivate, f
<1> HIDE DEF f, g, t
<1>5. /\ v \in State /\ v.fw = g /\ v.ctx = s.ctx /\ v.usb = s.usb
      /\ v.left = s.left
  BY <1>1, <1>2 DEF State
<1> HIDE DEF v
<1>6. Core(v)
  BY <1>1, <1>2, <1>5 DEF Core, Framework
<1>7. Ending(v)
  BY <1>2, <1>5 DEF Ending, Works, Serves
<1>8. Ends(v, t)
  BY <1>2, <1>4, <1>5, <1>6, <1>7, DeactivateHolds
<1> QED
  BY <1>2, <1>5, <1>8 DEF Ends, Rel, DoneIfOk, Same, t

LEMMA SetFenceIs ==
  ASSUME NEW s, Core(s), ~s.ctx.pending
  PROVE  LET t == SetFence(s)
         IN /\ Core(t) /\ t.fw = s.fw /\ t.left = s.left
            /\ Keeps(s.ctx, t.ctx) /\ t.ctx.fence /\ t.ctx.st = s.ctx.st
            /\ t.ctx.gen = s.ctx.gen /\ t.ctx.actDone = s.ctx.actDone
            /\ (t.ctx.poisoned <=> s.ctx.poisoned \/ s.ctx.sub \in Session)
            /\ t.ctx.sub = IF s.ctx.sub \in Session
                                            \cup (Binding \ {"complete"})
                           THEN "failed" ELSE s.ctx.sub
            /\ t.usb.fence /\ Drained(t.usb) = Drained(s.usb)
<1> DEFINE cancels == s.ctx.sub \in Session \cup (Binding \ {"complete"})
           c == [s.ctx EXCEPT !.fence = TRUE,
                              !.sub = IF cancels THEN "failed" ELSE @]
           z == [s EXCEPT !.ctx.fence = TRUE,
                          !.ctx.sub = IF cancels THEN "failed" ELSE @]
           x == Cancelled(s.usb)
           u == IF s.usb.fence THEN s.usb
                ELSE IF MustNotify(x) THEN Notified(x) ELSE x
           p == BackendCancel(z)
           d == [c EXCEPT !.poisoned = @ \/ s.ctx.sub \in Session]
           t == SetFence(s)
<1>1. /\ s \in State /\ s.fw \in Device /\ s.ctx \in Context /\ s.usb \in Usb
      /\ s.left \in Remains /\ Epoch(s.usb)
  BY PartsAre DEF Core
<1>2. /\ c \in Context /\ ~c.pending /\ c.poisoned = s.ctx.poisoned
      /\ c.sub = IF cancels THEN "failed" ELSE s.ctx.sub
  <2> "failed" \in Subs
    BY DEF Subs
  <2> HIDE DEF cancels
  <2> QED
    BY <1>1 DEF Context
<1>3. /\ d \in Context /\ Keeps(s.ctx, d) /\ d.fence /\ d.st = s.ctx.st
      /\ d.gen = s.ctx.gen /\ d.actDone = s.ctx.actDone
      /\ d.sync = s.ctx.sync
      /\ (d.poisoned <=> s.ctx.poisoned \/ s.ctx.sub \in Session)
      /\ d.sub = IF cancels THEN "failed" ELSE s.ctx.sub
  <2> "failed" \in Subs
    BY DEF Subs
  <2> HIDE DEF cancels
  <2> QED
    BY <1>1 DEF Context, Keeps
<1>4. /\ u \in Usb /\ Epoch(u) /\ u.fence /\ u.in = s.usb.in
      /\ u.out = s.usb.out
  <2>1. ~s.usb.fence => /\ x \in Usb /\ Epoch(x) /\ x.fence
                        /\ x.in = s.usb.in /\ x.out = s.usb.out
    BY <1>1, CancelledIs
  <2> HIDE DEF x
  <2> QED
    BY <1>1, <2>1, NotifiedIs
<1>5. /\ z \in State /\ z.fw = s.fw /\ z.ctx = c /\ z.usb = s.usb
      /\ z.left = s.left
  <2>1. z = [s EXCEPT !.ctx = c]
    BY <1>1 DEF State
  <2> HIDE DEF c, z
  <2> QED
    BY <1>1, <1>2, <2>1 DEF State
<1>6. t = [p EXCEPT !.ctx.poisoned = @ \/ s.ctx.sub \in Session]
  BY DEF SetFence
<1> HIDE DEF c, z, t
<1>7. /\ p \in State /\ p.fw = s.fw /\ p.ctx = c /\ p.usb = u
      /\ p.left = s.left
  <2> DEFINE w == [z EXCEPT !.usb = x]
             n == [w EXCEPT !.usb = Notified(@)]
  <2>1. CASE s.usb.fence
    BY <1>5, <2>1 DEF BackendCancel
  <2>2. CASE ~s.usb.fence
    <3>1. x \in Usb
      BY <1>1, <2>2, CancelledIs
    <3>2. p = MaybeNotifyDrained(w)
      BY <1>5, <2>2 DEF BackendCancel
    <3> HIDE DEF p, x
    <3>3. w \in State /\ w.fw = s.fw /\ w.ctx = c /\ w.usb = x /\ w.left = s.left
      BY <1>5, <3>1 DEF State
    <3> HIDE DEF w
    <3>4. /\ MustNotify(x) => u = Notified(x)
          /\ ~MustNotify(x) => u = x
      BY <2>2
    <3> HIDE DEF u
    <3>5. CASE MustNotify(x)
      <4>1. /\ n \in State /\ n.fw = s.fw /\ n.ctx = c /\ n.usb = u
            /\ n.left = s.left
        BY <1>4, <3>3, <3>4, <3>5 DEF State
      <4>2. p = ContextUsbDrained(n)
        BY <3>2, <3>3, <3>5 DEF MaybeNotifyDrained
      <4> HIDE DEF n
      <4>3. p = n
        BY <1>2, <4>1, <4>2 DEF ContextUsbDrained
      <4> QED
        BY <4>1, <4>3
    <3>6. CASE ~MustNotify(x)
      <4>1. p = w
        BY <3>2, <3>3, <3>6 DEF MaybeNotifyDrained
      <4> QED
        BY <3>3, <3>4, <3>6, <4>1
    <3> QED
      BY <3>5, <3>6
  <2> QED
    BY <2>1, <2>2
<1> HIDE DEF p, u
<1>8. t \in State /\ t.fw = s.fw /\ t.ctx = d /\ t.usb = u /\ t.left = s.left
  <2>1. t = [p EXCEPT !.ctx = d]
    BY <1>6, <1>7 DEF State
  <2> HIDE DEF d
  <2> QED
    BY <1>3, <1>7, <2>1 DEF State
<1> HIDE DEF d
<1>9. Core(t)
  BY <1>3, <1>4, <1>8 DEF Core, Keeps
<1>10. Drained(t.usb) = Drained(s.usb)
  BY <1>4, <1>8 DEF Drained
<1> QED
  BY <1>3, <1>4, <1>8, <1>9, <1>10 DEF t

-----------------------------------------------------------------------------
(* Failing.                                                                 *)

(* A refused or failed activation ends the operation, and nothing else.     *)
LEMMA RefusedIs ==
  ASSUME NEW s \in State, Framework(s.fw), ~s.fw.active,
         s.fw.action # "none", NEW e \in {"error", "cancelled"}
  PROVE  LET t == FwActivateComplete(s, e)
         IN /\ t \in State /\ t.ctx = s.ctx /\ t.usb = s.usb /\ t.left = s.left
            /\ Framework(t.fw) /\ t.fw.open /\ t.fw.action = "none"
            /\ t.fw.result # "ok"
<1> DEFINE g == ActivateComplete(s.fw, e)
           t == FwActivateComplete(s, e)
<1>1. s.fw \in Device
  BY PartsAre
<1>2. /\ g \in Device /\ Framework(g) /\ g.open /\ g.action = "none"
      /\ g.result # "ok"
  BY <1>1, ActivateCompleteIs
<1>3. t = [s EXCEPT !.fw = g]
  BY DEF FwActivateComplete, State
<1> HIDE DEF g, t
<1>4. t \in State /\ t.fw = g /\ t.ctx = s.ctx /\ t.usb = s.usb /\ t.left = s.left
  BY <1>2, <1>3 DEF State
<1> QED
  BY <1>2, <1>4 DEF t

LEMMA EmitHolds ==
  ASSUME NEW s, Core(s), Works(s), s.ctx.fence, s.usb.fence,
         NEW e \in {"error", "cancelled"},
         \/ s.ctx.st = "ACTIVATING" /\ ~s.fw.active
         \/ /\ s.ctx.st = "ACTIVE" /\ s.fw.active /\ s.fw.st # "DEACTIVATING"
            /\ s.ctx.sub = "failed"
  PROVE  Ends(s, EmitTerminal(s, e))
<1> DEFINE x == IF s.ctx.st = "ACTIVATING" THEN "INACTIVE" ELSE "POISONED"
           c == [s.ctx EXCEPT !.poisoned = TRUE, !.gen = 0, !.st = x]
           b == [s.ctx EXCEPT !.poisoned = TRUE, !.gen = 0]
           z == [Poison(s) EXCEPT !.ctx.gen = 0]
           v == [z EXCEPT !.ctx.st = x]
           t == EmitTerminal(s, e)
<1>1. /\ s \in State /\ s.fw \in Device /\ s.ctx \in Context /\ s.usb \in Usb
      /\ s.left \in Remains /\ Framework(s.fw) /\ Epoch(s.usb)
  BY PartsAre DEF Core
<1>2. /\ c \in Context /\ c.poisoned /\ c.gen = 0 /\ c.st = x /\ c.fence
      /\ Keeps(s.ctx, c) /\ c.sub = s.ctx.sub /\ c.sync = s.ctx.sync
  BY <1>1, ZeroIs DEF Context, Keeps
<1>3. v \in State /\ v.ctx = c /\ v.fw = s.fw /\ v.usb = s.usb /\ v.left = s.left
  <2>1. z = [s EXCEPT !.ctx = b]
    BY <1>1 DEF Poison, State, Context
  <2>2. b \in Context /\ c = [b EXCEPT !.st = x]
    BY <1>1, ZeroIs DEF Context
  <2> HIDE DEF b, z, x
  <2>3. z \in State /\ z.ctx = b /\ z.fw = s.fw /\ z.usb = s.usb /\ z.left = s.left
    BY <1>1, <2>1, <2>2 DEF State
  <2>4. v = [z EXCEPT !.ctx = c]
    BY <2>2, <2>3 DEF State
  <2> HIDE DEF c, v
  <2> QED
    BY <1>2, <2>3, <2>4 DEF State
<1>4. t = IF s.ctx.st = "ACTIVATING" THEN FwActivateComplete(v, e)
          ELSE SessionError(v, e)
  <2>1. CASE s.ctx.st = "ACTIVATING"
    <3>1. x = "INACTIVE"
      BY <2>1
    <3>2. t = FwActivateComplete([z EXCEPT !.ctx.st = "INACTIVE"], e)
      BY <2>1 DEF EmitTerminal
    <3> HIDE DEF x, z, t
    <3> QED
      BY <2>1, <3>1, <3>2
  <2>2. CASE s.ctx.st = "ACTIVE"
    <3>1. x = "POISONED"
      BY <2>2
    <3>2. t = SessionError([z EXCEPT !.ctx.st = "POISONED"], e)
      BY <2>2 DEF EmitTerminal
    <3> HIDE DEF x, z, t
    <3> QED
      BY <2>2, <3>1, <3>2
  <2> QED
    BY <2>1, <2>2
<1> HIDE DEF c, v, t, x
<1>5. Core(v)
  BY <1>1, <1>2, <1>3 DEF Core, Keeps
<1>6. Works(v) /\ Over(v)
  <2>1. Works(s) /\ Serves(s)
    BY DEF Works
  <2>2. Serves(v)
    BY <1>2, <1>3, <2>1 DEF Serves, Keeps
  <2>3. Works(v)
    BY <1>2, <1>3, <2>1, <2>2 DEF Works, Keeps
  <2>4. Over(v)
    BY <1>2, <1>3, <2>1, DeviceAssumption DEF Works, Serves, Keeps, Over
  <2> QED
    BY <2>3, <2>4
<1>7. Rel(s, v)
  BY <1>2, <1>3 DEF Rel, Keeps
<1>8. CASE s.ctx.st = "ACTIVATING"
  <2>1. /\ t \in State /\ t.ctx = c /\ t.usb = s.usb /\ t.left = s.left
        /\ Framework(t.fw) /\ t.fw.open /\ t.fw.action = "none"
        /\ t.fw.result # "ok"
    BY <1>1, <1>3, <1>4, <1>6, <1>8, RefusedIs DEF Works, Serves
  <2>2. Core(t)
    BY <1>1, <1>3, <1>5, <2>1 DEF Core
  <2>3. Over(t)
    BY <1>3, <1>6, <2>1 DEF Over
  <2>4. Idle(t)
    BY <1>2, <1>3, <1>6, <1>8, <2>1, <2>3 DEF Idle, Works, Serves, Keeps, x
  <2> QED
    BY <1>2, <1>3, <1>7, <2>1, <2>2, <2>4
       DEF Ends, Rest, Rel, DoneIfOk, Same, t
<1>9. CASE s.ctx.st = "ACTIVE"
  <2>1. s.fw.active /\ s.fw.st # "DEACTIVATING" /\ s.ctx.sub = "failed"
    BY <1>9
  <2>2. v.ctx.st = "POISONED" /\ t = SessionError(v, e)
    BY <1>2, <1>3, <1>4, <1>9 DEF x
  <2>3. CASE e = "cancelled" /\ s.fw.cancelled
    <3>1. t = v
      BY <1>3, <2>1, <2>2, <2>3 DEF SessionError
    <3>2. Doomed(v)
      BY <1>2, <1>3, <1>6, <2>1, <2>2, <2>3 DEF Doomed, Keeps
    <3>3. s.fw.action # "none"
      BY DEF Works, Serves
    <3> QED
      BY <1>2, <1>3, <1>5, <1>7, <3>1, <3>2, <3>3
         DEF Ends, Rest, DoneIfOk, Same, t
  <2>4. CASE ~(e = "cancelled" /\ s.fw.cancelled)
    <3> DEFINE f == MaybeComplete(s.fw, e)
               w == [v EXCEPT !.fw = f]
    <3>1. /\ f \in Device /\ Framework(f) /\ f.active /\ f.action = s.fw.action
          /\ f.st = s.fw.st /\ f.stage = s.fw.stage /\ f.err # "none"
      BY <1>1, <2>1, MaybeCompleteIs
    <3>2. t = FwDeactivate(w, TRUE)
      BY <1>3, <2>1, <2>2, <2>4 DEF SessionError, State
    <3> HIDE DEF f
    <3>3. w \in State /\ w.fw = f /\ w.ctx = c /\ w.usb = s.usb /\ w.left = s.left
      BY <1>3, <3>1 DEF State
    <3> HIDE DEF w
    <3>4. Core(w)
      BY <1>3, <1>5, <3>1, <3>3 DEF Core
    <3>5. Works(w)
      BY <1>3, <1>6, <3>1, <3>3 DEF Works, Serves
    <3>6. Ending(w)
      BY <1>2, <1>3, <2>1, <2>2, <3>1, <3>3, <3>5 DEF Ending
    <3>7. Ends(w, t)
      BY <2>1, <3>1, <3>2, <3>3, <3>4, <3>6, FwDeactivateHolds
    <3> QED
      BY <1>2, <3>1, <3>3, <3>7 DEF Ends, Rel, DoneIfOk, Same, Keeps, t
  <2> QED
    BY <2>3, <2>4
<1> QED
  BY <1>8, <1>9

LEMMA FailureHolds ==
  ASSUME NEW s, Core(s), Troubled(s), NEW e \in {"error", "cancelled"}
  PROVE  Ends(s, ProtocolFailure(s, e))
<1> DEFINE z == SetFence(s)
           v == Poison(z)
           t == ProtocolFailure(s, e)
<1>1. Works(s) /\ Serves(s) /\ ~s.ctx.pending /\ ~s.ctx.fence
  BY DEF Troubled, Works
<1>2. /\ Core(z) /\ z.fw = s.fw /\ z.left = s.left
      /\ Keeps(s.ctx, z.ctx) /\ z.ctx.fence /\ z.ctx.st = s.ctx.st
      /\ (z.ctx.poisoned <=> s.ctx.poisoned \/ s.ctx.sub \in Session)
      /\ z.ctx.sub = IF s.ctx.sub \in Session \cup (Binding \ {"complete"})
                     THEN "failed" ELSE s.ctx.sub
      /\ z.usb.fence
  BY <1>1, SetFenceIs
<1>3. t = EmitTerminal(v, e)
  BY <1>1 DEF ProtocolFailure
<1> HIDE DEF z, t
<1>4. /\ v \in State /\ v.fw = s.fw /\ v.left = s.left /\ v.usb = z.usb
      /\ v.ctx = [z.ctx EXCEPT !.poisoned = TRUE]
  BY <1>2, PoisonIs DEF Core
<1>5. /\ v.ctx.fence /\ Keeps(s.ctx, v.ctx) /\ v.ctx.st = s.ctx.st
      /\ v.ctx.sub = z.ctx.sub /\ v.ctx.sync = z.ctx.sync /\ v.ctx.poisoned
  <2>1. z.ctx \in Context
    BY <1>2, PartsAre DEF Core
  <2> QED
    BY <1>2, <1>4, <2>1 DEF Context, Keeps
<1> HIDE DEF v
<1>6. Core(v)
  BY <1>2, <1>4, <1>5 DEF Core, Keeps
<1>7. Works(v)
  <2>1. Serves(v)
    BY <1>1, <1>4, <1>5 DEF Serves, Keeps
  <2> QED
    BY <1>1, <1>4, <1>5, <2>1 DEF Works, Keeps
<1>8. /\ \/ v.ctx.st = "ACTIVATING" /\ ~v.fw.active
         \/ /\ v.ctx.st = "ACTIVE" /\ v.fw.active /\ v.fw.st # "DEACTIVATING"
            /\ v.ctx.sub = "failed"
  BY <1>2, <1>4, <1>5 DEF Troubled
<1>9. Ends(v, t)
  BY <1>2, <1>3, <1>4, <1>5, <1>6, <1>7, <1>8, EmitHolds
<1>10. Rel(s, v)
  BY <1>2, <1>5 DEF Rel, Keeps
<1> QED
  BY <1>4, <1>9, <1>10 DEF Ends, Rel, DoneIfOk, Same, t

LEMMA EngineFailsHolds ==
  ASSUME NEW s, Core(s), Troubled(s), NEW e \in {"error", "cancelled"}
  PROVE  /\ Ends(s, EngineFails(s, e))
         /\ s.ctx.sub \notin Exchange => EngineFails(s, e).ctx.sub = "failed"
<1> DEFINE c == [s.ctx EXCEPT !.sub = "failed"]
           z == [s EXCEPT !.ctx.sub = "failed"]
           w == BackendCancel(z)
           t == EngineFails(s, e)
<1>1. CASE s.ctx.sub \in Exchange
  BY <1>1, FailureHolds DEF EngineFails
<1>2. CASE s.ctx.sub \notin Exchange
  <2>1. /\ s \in State /\ s.fw \in Device /\ s.ctx \in Context /\ s.usb \in Usb
        /\ s.left \in Remains /\ Framework(s.fw) /\ Epoch(s.usb)
        /\ Works(s) /\ Serves(s) /\ ~s.ctx.pending
    BY PartsAre DEF Core, Troubled, Works
  <2>2. /\ c \in Context /\ Keeps(s.ctx, c) /\ c.sub = "failed"
        /\ c.st = s.ctx.st /\ c.sync = s.ctx.sync /\ c.fence = s.ctx.fence
        /\ c.poisoned = s.ctx.poisoned /\ ~c.pending
    <3> "failed" \in Subs
      BY DEF Subs
    <3> QED
      BY <2>1 DEF Context, Keeps
  <2>3. z \in State /\ z.fw = s.fw /\ z.ctx = c /\ z.usb = s.usb /\ z.left = s.left
    <3>1. z = [s EXCEPT !.ctx = c]
      BY <2>1 DEF State
    <3> HIDE DEF c, z
    <3> QED
      BY <2>1, <2>2, <3>1 DEF State
  <2>4. t = ProtocolFailure(w, e)
    BY <1>2 DEF EngineFails
  <2> HIDE DEF c, z, t
  <2>5. /\ w \in State /\ w.fw = s.fw /\ w.ctx = c /\ w.left = s.left
        /\ w.usb \in Usb /\ Epoch(w.usb) /\ w.usb.in = s.usb.in
        /\ w.usb.out = s.usb.out
    <3> DEFINE x == Cancelled(s.usb)
               y == [z EXCEPT !.usb = x]
               n == [y EXCEPT !.usb = Notified(@)]
    <3>1. CASE s.usb.fence
      BY <2>1, <2>3, <3>1 DEF BackendCancel
    <3>2. CASE ~s.usb.fence
      <4>1. x \in Usb /\ Epoch(x) /\ x.in = s.usb.in /\ x.out = s.usb.out
        BY <2>1, <3>2, CancelledIs
      <4>2. w = MaybeNotifyDrained(y)
        BY <2>3, <3>2 DEF BackendCancel
      <4> HIDE DEF w, x
      <4>3. y \in State /\ y.fw = s.fw /\ y.ctx = c /\ y.usb = x /\ y.left = s.left
        BY <2>3, <4>1 DEF State
      <4> HIDE DEF y
      <4>4. CASE MustNotify(x)
        <5>1. /\ Notified(x) \in Usb /\ Epoch(Notified(x))
              /\ Notified(x).in = x.in /\ Notified(x).out = x.out
          BY <4>1, NotifiedIs
        <5>2. /\ n \in State /\ n.fw = s.fw /\ n.ctx = c
              /\ n.usb = Notified(x) /\ n.left = s.left
          BY <4>3, <5>1 DEF State
        <5>3. w = ContextUsbDrained(n)
          BY <4>2, <4>3, <4>4 DEF MaybeNotifyDrained
        <5> HIDE DEF n
        <5>4. w = n
          BY <2>2, <5>2, <5>3 DEF ContextUsbDrained
        <5> QED
          BY <4>1, <5>1, <5>2, <5>4
      <4>5. CASE ~MustNotify(x)
        <5>1. w = y
          BY <4>2, <4>3, <4>5 DEF MaybeNotifyDrained
        <5> QED
          BY <4>1, <4>3, <5>1
      <4> QED
        BY <4>4, <4>5
    <3> QED
      BY <3>1, <3>2
  <2> HIDE DEF w
  <2>6. Core(w)
    BY <2>1, <2>2, <2>5 DEF Core, Keeps
  <2>7. Troubled(w)
    <3>1. Serves(w)
      BY <2>1, <2>2, <2>5 DEF Serves, Keeps
    <3>2. Works(w)
      BY <2>1, <2>2, <2>5, <3>1 DEF Works, Keeps
    <3> QED
      BY <2>2, <2>5, <3>2 DEF Troubled
  <2>8. Ends(w, t)
    BY <2>4, <2>6, <2>7, FailureHolds
  <2> QED
    BY <1>2, <2>2, <2>5, <2>8 DEF Ends, Rel, DoneIfOk, Same, Keeps, t
<1> QED
  BY <1>1, <1>2

-----------------------------------------------------------------------------
(* Talking to the reader.                                                   *)

LEMMA WorkingIs ==
  ASSUME NEW s, Working(s)
  PROVE  /\ s \in State /\ s.fw \in Device /\ s.ctx \in Context
         /\ s.usb \in Usb /\ s.left \in Remains
         /\ Epoch(s.usb) /\ Framework(s.fw) /\ Core(s) /\ Live(s) /\ Works(s)
         /\ Serves(s)
         /\ Troubled(s) /\ ~s.ctx.fence /\ ~s.usb.fence /\ s.ctx.seq # 0
         /\ s.ctx.gen = s.ctx.seq /\ s.usb.gen = s.ctx.seq /\ ~s.ctx.pending
         /\ ~s.ctx.poisoned /\ s.fw.action # "none"
<1>1. Core(s) /\ Live(s) /\ Works(s) /\ Serves(s)
  BY DEF Working, Activating, Active, Live, Works
<1>2. s \in State /\ Epoch(s.usb) /\ Framework(s.fw)
  BY <1>1 DEF Core
<1>3. Troubled(s)
  <2>1. CASE Activating(s)
    BY <1>1, <2>1 DEF Activating, Live, Troubled
  <2>2. CASE Active(s)
    <3>1. s.fw.st # "DEACTIVATING"
      BY <2>2 DEF Active, InStep, Session, Lifecycle, Binding
    <3> QED
      BY <1>1, <2>2, <3>1 DEF Active, Live, Troubled
  <2> QED
    BY <2>1, <2>2 DEF Working
<1> QED
  BY <1>1, <1>2, <1>3, PartsAre DEF Live, Works, Serves

LEMMA EndsAfter ==
  ASSUME NEW s, NEW m, NEW t, Stays(s, m), Ends(m, t)
  PROVE  Ends(s, t)
<1>1. m.fw.action = s.fw.action /\ m.fw.stage = s.fw.stage
  BY WorkingIs DEF Stays, Same
<1> QED
  BY <1>1 DEF Stays, Ends, Rel, DoneIfOk, Same

LEMMA StaysAfter ==
  ASSUME NEW s, NEW m, NEW t, Stays(s, m), Stays(m, t)
  PROVE  Stays(s, t)
<1>1. m.fw.action = s.fw.action /\ m.fw.stage = s.fw.stage
  BY WorkingIs DEF Stays, Same
<1> QED
  BY <1>1 DEF Stays, Rel, Same

LEMMA GoesAfter ==
  ASSUME NEW s, NEW m, NEW t, Stays(s, m), Goes(m, t)
  PROVE  Goes(s, t)
BY EndsAfter, StaysAfter DEF Goes

(* A fenced context does not listen.                                        *)
LEMMA RestListens ==
  ASSUME NEW s, Rest(s), s.ctx.seq # 0
  PROVE  Listen(s) = s /\ s.ctx.fence
BY DEF Rest, Idle, Giving, Doomed, Deactivating, Over, Listen

LEMMA UsbKeeps ==
  ASSUME NEW s, Working(s), NEW u \in Usb, Epoch(u), u.gen = s.usb.gen,
         u.fence = s.usb.fence, u.sync = s.usb.sync,
         u.out \/ u.in = "rx" => s.ctx.sync = "pass"
  PROVE  LET t == [s EXCEPT !.usb = u]
         IN /\ Stays(s, t) /\ t.fw = s.fw /\ t.ctx = s.ctx /\ t.usb = u
            /\ t.left = s.left /\ Activating(t) = Activating(s)
<1> DEFINE t == [s EXCEPT !.usb = u]
<1>1. s \in State /\ Core(s) /\ Works(s) /\ Serves(s)
  BY WorkingIs
<1>2. t \in State /\ t.fw = s.fw /\ t.ctx = s.ctx /\ t.usb = u /\ t.left = s.left
  BY <1>1 DEF State
<1> HIDE DEF t
<1>3. Core(t)
  BY <1>1, <1>2 DEF Core
<1>4. Serves(t) = Serves(s)
  BY <1>2 DEF Serves
<1>5. Works(t) = Works(s)
  BY <1>2, <1>4 DEF Works
<1>6. Live(t) = Live(s)
  BY <1>2, <1>5 DEF Live
<1>7. Activating(t) = Activating(s)
  BY <1>2, <1>6 DEF Activating
<1>8. Active(t) = Active(s)
  BY <1>2, <1>6 DEF Active
<1> QED
  BY <1>2, <1>3, <1>7, <1>8 DEF Working, Stays, Rel, Same, t

(* Only a router that gave up cannot listen.                                *)
LEMMA ListenHolds ==
  ASSUME NEW s, Working(s), s.ctx.sync = "pass", s.usb.in # "sync"
  PROVE  LET t == Listen(s)
         IN \/ /\ Stays(s, t) /\ Hears(t) /\ t.fw = s.fw /\ t.ctx = s.ctx
               /\ t.left = s.left
            \/ Ends(s, t) /\ s.usb.rFence
<1> DEFINE t == Listen(s)
           u == Armed(s.usb, s.ctx.gen)
<1>1. /\ s \in State /\ s.ctx \in Context /\ s.usb \in Usb /\ Epoch(s.usb)
      /\ Core(s) /\ Troubled(s) /\ ~s.ctx.fence /\ ~s.usb.fence
      /\ s.ctx.gen = s.usb.gen /\ s.ctx.gen # 0
  BY WorkingIs
<1>2. s.ctx.sub \in Exchange \cup Session \cup (Binding \ {"complete"})
  BY DEF Working, Activating, Active
<1>3. s.ctx.sub \in Binding => s.ctx.sub \notin Exchange \cup Session
  BY DEF Binding, Exchange, Session, Lifecycle
<1>4. s.ctx.sync # "active" /\ ~s.usb.sync
  BY DEF Working, Activating, Active
<1>5. Stays(s, s)
  BY DEF Stays, Rel, Same
<1>6. CASE s.usb.in # "none"
  <2>1. t = s
    BY <1>6 DEF Listen
  <2>2. Hears(s)
    <3>1. s.usb.in = "rx"
      BY <1>1, <1>6 DEF Usb
    <3> QED
      BY <1>4, <3>1 DEF Hears, Drained
  <2> QED
    BY <1>5, <2>1, <2>2
<1>7. CASE s.usb.in = "none" /\ ~Receiving(s)
  <2>1. t = s
    BY <1>7 DEF Listen
  <2>2. s.ctx.sub \in Binding /\ s.usb.out /\ s.ctx.sub \notin Exchange \cup Session
    BY <1>2, <1>3, <1>7 DEF Receiving
  <2>3. Hears(s)
    BY <1>4, <2>2 DEF Hears, Drained
  <2> QED
    BY <1>5, <2>1, <2>3
<1>8. CASE s.usb.in = "none" /\ Receiving(s)
  <2>1. t = ArmReceive(s)
    BY <1>1, <1>8 DEF Listen
  <2>2. CanArm(s.usb, s.ctx.gen) <=> ~s.usb.rFence
    BY <1>1, <1>4, <1>8 DEF CanArm, CanRequest, Epoch, Usb
  <2>3. CASE s.usb.rFence
    <3>1. t = ProtocolFailure(s, "error")
      BY <2>1, <2>2, <2>3 DEF ArmReceive
    <3> HIDE DEF t
    <3>2. Ends(s, t)
      BY <1>1, <3>1, FailureHolds
    <3> QED
      BY <2>3, <3>2 DEF t
  <2>4. CASE ~s.usb.rFence
    <3>1. t = [s EXCEPT !.usb = u]
      BY <1>1, <2>1, <2>2, <2>4 DEF ArmReceive, State
    <3>2. /\ u \in Usb /\ Epoch(u) /\ u.in = "rx" /\ ~u.fence
          /\ u.gen = s.usb.gen /\ u.sync = s.usb.sync
      BY <1>1, <2>2, <2>4, ArmedIs DEF Context
    <3> HIDE DEF t, u
    <3>5. u.fence = s.usb.fence
      BY <1>1, <3>2 DEF Usb
    <3>3. /\ Stays(s, t) /\ t.fw = s.fw /\ t.ctx = s.ctx /\ t.usb = u
          /\ t.left = s.left
      BY <3>1, <3>2, <3>5, UsbKeeps
    <3>4. Hears(t)
      BY <1>4, <3>2, <3>3 DEF Hears, Drained
    <3> QED
      BY <3>3, <3>4 DEF t
  <2> QED
    BY <2>3, <2>4
<1> QED
  BY <1>6, <1>7, <1>8

LEMMA SendHolds ==
  ASSUME NEW s, Working(s), s.ctx.sync = "pass"
  PROVE  LET t == Send(s)
         IN \/ /\ Stays(s, t) /\ t.fw = s.fw /\ t.ctx = s.ctx
               /\ t.usb.in = s.usb.in /\ t.usb.out
               /\ t.usb.rFence = s.usb.rFence
               /\ Activating(t) = Activating(s)
            \/ Ends(s, t)
<1> DEFINE t == Send(s)
           u == Submitted(s.usb, s.ctx.gen)
<1>1. /\ s \in State /\ s.ctx \in Context /\ s.usb \in Usb /\ Epoch(s.usb)
      /\ Core(s) /\ Troubled(s) /\ ~s.usb.fence
  BY WorkingIs
<1>2. CASE CanSubmit(s.usb, s.ctx.gen)
  <2>1. t = [s EXCEPT !.usb = u]
    BY <1>1, <1>2 DEF Send, State
  <2>2. /\ u \in Usb /\ Epoch(u) /\ u.in = s.usb.in /\ u.out /\ ~u.fence
        /\ u.gen = s.usb.gen /\ u.sync = s.usb.sync
        /\ u.rFence = s.usb.rFence
    BY <1>1, <1>2, SubmittedIs DEF Context
  <2> HIDE DEF t, u
  <2>4. u.fence = s.usb.fence
    BY <1>1, <2>2 DEF Usb
  <2>3. /\ Stays(s, t) /\ t.fw = s.fw /\ t.ctx = s.ctx /\ t.usb = u
        /\ Activating(t) = Activating(s)
    BY <2>1, <2>2, <2>4, UsbKeeps
  <2> QED
    BY <2>2, <2>3 DEF t
<1>3. CASE ~CanSubmit(s.usb, s.ctx.gen)
  <2>1. t = EngineFails(s, "error")
    BY <1>3 DEF Send
  <2> HIDE DEF t
  <2> QED
    BY <1>1, <2>1, EngineFailsHolds DEF t
<1> QED
  BY <1>2, <1>3

(* Sent, then heard: an operation that has something to send goes on.       *)
LEMMA SendListenHolds ==
  ASSUME NEW s, Working(s), s.ctx.sync = "pass", s.usb.in # "sync"
  PROVE  Goes(s, Listen(Send(s)))
<1> DEFINE m == Send(s)
           t == Listen(m)
<1>1. \/ Stays(s, m) /\ m.ctx = s.ctx /\ m.usb.in = s.usb.in
      \/ Ends(s, m)
  BY SendHolds
<1>2. CASE Stays(s, m) /\ m.ctx = s.ctx /\ m.usb.in = s.usb.in
  <2> HIDE DEF m
  <2>1. Working(m)
    BY <1>2 DEF Stays
  <2>2. Goes(m, t)
    BY <1>2, <2>1, ListenHolds DEF Goes
  <2> QED
    BY <1>2, <2>2, GoesAfter DEF m
<1>3. CASE Ends(s, m)
  <2> HIDE DEF m
  <2>1. t = m
    BY <1>3, RestListens, WorkingIs DEF Ends, Rel
  <2> QED
    BY <1>3, <2>1 DEF Goes, m
<1> QED
  BY <1>1, <1>2, <1>3

-----------------------------------------------------------------------------
(* The exchanges, and the drain before them.                                *)

LEMMA ExchangeKeeps ==
  ASSUME NEW s, Core(s), Activating(s), NEW t \in State, t.fw = s.fw,
         t.left = s.left, StillActivating(s, t.ctx, t.usb)
  PROVE  Stays(s, t) /\ Activating(t)
<1>3. Core(t)
  BY DEF Core, Keeps, StillActivating
<1>4. Serves(t)
  BY DEF Activating, Live, Works, Serves, Keeps, StillActivating
<1>5. Works(t)
  BY <1>4 DEF Activating, Live, Works, Keeps, StillActivating
<1>6. Live(t)
  BY <1>5 DEF Activating, Live, Keeps, StillActivating
<1>7. Activating(t)
  BY <1>6 DEF Activating, Keeps, StillActivating
<1>8. Rel(s, t)
  BY DEF Rel, Keeps, Exchange, Activating, Live, StillActivating
<1> QED
  BY <1>3, <1>7, <1>8 DEF Stays, Working, Same

LEMMA RequestHolds ==
  ASSUME NEW s, Core(s), Activating(s), s.ctx.sync = "pass",
         s.usb.in # "sync", NEW x \in Exchange
  PROVE  Goes(s, Request([s EXCEPT !.ctx.sub = x]))
<1> DEFINE c == [s.ctx EXCEPT !.sub = x, !.reply = "open"]
           z == [s EXCEPT !.ctx.sub = x]
           m == [z EXCEPT !.ctx.reply = "open"]
           t == Listen(Send(m))
<1>1. /\ s \in State /\ s.ctx \in Context /\ s.usb \in Usb /\ Epoch(s.usb)
      /\ ~s.usb.sync
  BY PartsAre DEF Core, Activating
<1>2. m = [s EXCEPT !.ctx = c, !.usb = s.usb]
  BY <1>1 DEF State, Context
<1>3. /\ c \in Context /\ Keeps(s.ctx, c) /\ c.gen = s.ctx.gen
      /\ c.fence = s.ctx.fence /\ c.st = s.ctx.st /\ c.actDone = s.ctx.actDone
      /\ c.poisoned = s.ctx.poisoned /\ c.held = s.ctx.held
      /\ c.sync = "pass" /\ c.sub = x
  <2>1. x \in Subs
    BY DEF Subs
  <2> QED
    BY <1>1, <2>1 DEF Context, Keeps
<1> HIDE DEF c, z, m, t
<1>4. Stays(s, m) /\ m.ctx = c /\ m.usb = s.usb
  <2>1. ~s.usb.fence /\ ~c.fence /\ ~c.actDone /\ ~c.poisoned /\ ~c.held
    BY <1>3 DEF Activating, Live
  <2>2. StillActivating(s, c, s.usb)
    BY <1>1, <1>3, <2>1 DEF StillActivating
  <2>3. m \in State /\ m.fw = s.fw /\ m.ctx = c /\ m.usb = s.usb /\ m.left = s.left
    BY <1>1, <1>2, <1>3 DEF State
  <2> QED
    BY <2>2, <2>3, ExchangeKeeps
<1>5. Goes(m, t)
  BY <1>3, <1>4, SendListenHolds DEF Stays, t
<1>6. Goes(s, t)
  BY <1>4, <1>5, GoesAfter
<1> QED
  BY <1>6 DEF Request, t, m, z

LEMMA StartSecureHolds ==
  ASSUME NEW s, Core(s), Activating(s), s.ctx.sync = "pass"
  PROVE  Goes(s, StartSecureGraph(s))
<1> DEFINE c == [s.ctx EXCEPT !.sub = "secure", !.reply = "open"]
           d == [c EXCEPT !.actDone = TRUE, !.st = "ACTIVE"]
           z == [s EXCEPT !.ctx.sub = "secure", !.ctx.reply = "open"]
           v == Submitted(s.usb, s.ctx.gen)
           u == Armed(v, s.ctx.gen)
           m == [z EXCEPT !.usb = Armed(Submitted(@, s.ctx.gen), s.ctx.gen),
                          !.ctx.actDone = TRUE, !.ctx.st = "ACTIVE"]
           f == ActivateComplete(s.fw, "none")
           t == StartSecureGraph(s)
<1>0. /\ Working(s) /\ ~s.usb.sync /\ s.ctx.st = "ACTIVATING"
      /\ s.ctx.sub # "failed"
  BY DEF Working, Activating, Exchange
<1>1. /\ s \in State /\ s.fw \in Device /\ s.ctx \in Context /\ s.usb \in Usb
      /\ s.left \in Remains /\ Epoch(s.usb) /\ Framework(s.fw) /\ ~s.ctx.fence
      /\ s.ctx.claimed /\ Works(s) /\ Serves(s) /\ Troubled(s)
      /\ s.fw.action # "none" /\ s.ctx.gen = s.ctx.seq /\ s.usb.gen = s.ctx.seq
      /\ ~s.usb.fence /\ ~s.ctx.poisoned
  BY <1>0, WorkingIs DEF Serves
<1>2. /\ c \in Context /\ Keeps(s.ctx, c) /\ c.gen = s.ctx.gen
      /\ c.fence = s.ctx.fence /\ c.st = s.ctx.st /\ c.sub = "secure"
      /\ c.sync = s.ctx.sync /\ c.held = s.ctx.held
      /\ c.poisoned = s.ctx.poisoned
  <2> "secure" \in Subs
    BY DEF Subs, Session
  <2> QED
    BY <1>1 DEF Context, Keeps
<1>3. z \in State /\ z.fw = s.fw /\ z.ctx = c /\ z.usb = s.usb /\ z.left = s.left
  <2>1. z = [s EXCEPT !.ctx = c]
    BY <1>1 DEF State, Context
  <2> HIDE DEF c, z
  <2> QED
    BY <1>1, <1>2, <2>1 DEF State
<1>4. CASE ~CanSubmit(s.usb, s.ctx.gen) \/ ~CanArm(s.usb, s.ctx.gen)
  <2>1. t = EngineFails(z, "error")
    BY <1>0, <1>1, <1>4 DEF StartSecureGraph
  <2> HIDE DEF c, z, t
  <2>2. Core(z)
    BY <1>1, <1>2, <1>3 DEF Core, Keeps
  <2>3. Troubled(z)
    <3>1. Serves(z)
      BY <1>1, <1>2, <1>3 DEF Serves, Keeps
    <3>2. Works(z)
      BY <1>1, <1>2, <1>3, <3>1 DEF Works, Keeps
    <3> QED
      BY <1>0, <1>1, <1>2, <1>3, <3>2 DEF Troubled
  <2>4. Ends(z, t)
    BY <2>1, <2>2, <2>3, EngineFailsHolds
  <2>5. Ends(s, t)
    BY <1>0, <1>2, <1>3, <2>4 DEF Ends, Rel, DoneIfOk, Same, Keeps
  <2> QED
    BY <2>5 DEF Goes, t
<1>5. CASE CanSubmit(s.usb, s.ctx.gen) /\ CanArm(s.usb, s.ctx.gen)
  <2>1. t = FwActivateComplete(m, "none")
    BY <1>0, <1>1, <1>5 DEF StartSecureGraph
  <2>2. /\ u \in Usb /\ Epoch(u) /\ u.in = "rx" /\ ~u.fence
        /\ u.gen = s.usb.gen /\ u.sync = s.usb.sync
    <3>1. s.ctx.gen \in Gens
      BY <1>1 DEF Context
    <3>2. /\ v \in Usb /\ Epoch(v) /\ CanArm(v, s.ctx.gen)
          /\ v.gen = s.usb.gen /\ v.sync = s.usb.sync
      BY <1>1, <1>5, <3>1, SubmittedIs
    <3> HIDE DEF v
    <3> QED
      BY <3>1, <3>2, ArmedIs
  <2>3. /\ d \in Context /\ Keeps(s.ctx, d) /\ d.gen = s.ctx.gen
        /\ d.fence = s.ctx.fence /\ d.st = "ACTIVE" /\ d.sub = "secure"
        /\ d.sync = s.ctx.sync /\ d.held = s.ctx.held
        /\ d.poisoned = s.ctx.poisoned /\ d.actDone
    BY <1>1, <1>2 DEF Context, Keeps
  <2>4. m = [z EXCEPT !.ctx = d, !.usb = u]
    <3> HIDE DEF c
    <3>1. z.ctx = c /\ z.usb = s.usb /\ z \in State
      BY <1>3
    <3> HIDE DEF z
    <3> QED
      BY <1>2, <3>1 DEF State, Context
  <2>5. /\ f \in Device /\ Framework(f) /\ f.action = s.fw.action /\ f.active
        /\ f.st = "AWAIT_ON" /\ f.err = "none" /\ ~f.finger
        /\ f.held = s.fw.held /\ f.stage = s.fw.stage
        /\ f.cancelled = s.fw.cancelled
    BY <1>1, ActivateCompleteIs DEF Activating
  <2> HIDE DEF c, d, u, v, z, m, t
  <2>6. /\ m \in State /\ m.fw = s.fw /\ m.ctx = d /\ m.usb = u
        /\ m.left = s.left
    BY <1>3, <2>2, <2>3, <2>4 DEF State
  <2>7. t = [m EXCEPT !.fw = f]
    BY <2>1, <2>6 DEF FwActivateComplete, State
  <2> HIDE DEF f
  <2>8. t \in State /\ t.fw = f /\ t.ctx = d /\ t.usb = u /\ t.left = s.left
    BY <2>5, <2>6, <2>7 DEF State
  <2>9. Core(t)
    BY <2>2, <2>3, <2>5, <2>8 DEF Core, Keeps
  <2>10. Live(t)
    <3>1. Serves(t)
      BY <1>1, <2>3, <2>5, <2>8 DEF Serves, Keeps
    <3>2. Works(t)
      BY <1>1, <2>3, <2>8, <3>1 DEF Works, Keeps
    <3> QED
      BY <1>1, <2>2, <2>3, <2>8, <3>2 DEF Live, Keeps
  <2>11. InStep(f, "secure")
    BY <2>5, DeviceAssumption
       DEF Activating, InStep, Binding
  <2>12. Active(t)
    <3>1. ~s.ctx.known /\ s.ctx.held = s.fw.held
      BY <1>1 DEF Activating, Context, Device
    <3>2. "secure" \in Session
      BY DEF Session
    <3> QED
      BY <1>0, <2>2, <2>3, <2>5, <2>8, <2>10, <2>11, <3>1, <3>2
         DEF Active, Keeps
  <2>13. Hears(t)
    BY <2>2, <2>3, <2>8 DEF Hears, Binding, Drained
  <2>14. Rel(s, t) /\ Same(s, t)
    BY <1>0, <1>1, <2>3, <2>5, <2>8 DEF Rel, Same, Keeps
  <2> QED
    BY <2>9, <2>12, <2>13, <2>14 DEF Goes, Stays, Working, t
<1> QED
  BY <1>4, <1>5

LEMMA ProgressHolds ==
  ASSUME NEW s, Core(s), Activating(s), s.ctx.sync = "pass",
         s.usb.in # "sync"
  PROVE  Goes(s, Progress(s))
<1>1. Working(s) /\ s.ctx.sub \in Exchange
  BY DEF Working, Activating
<1>2. CASE s.usb.out \/ s.ctx.reply = "open"
  BY <1>1, <1>2, ListenHolds DEF Progress, Goes
<1>3. CASE ~(s.usb.out \/ s.ctx.reply = "open")
  <2>1. Progress(s) = Advance(s)
    BY <1>3 DEF Progress
  <2>2. CASE s.ctx.reply = "ready"
    BY <2>1, <2>2, StartSecureHolds DEF Advance
  <2>3. CASE s.ctx.reply = "refuse"
    <3>1. Advance(s) = ProtocolFailure(s, "error")
      BY <2>3 DEF Advance
    <3> QED
      BY <1>1, <2>1, <3>1, WorkingIs, FailureHolds DEF Goes
  <2>4. CASE s.ctx.reply \notin {"ready", "refuse"}
    <3> DEFINE x == IF s.ctx.reply = "pair" THEN "pairing" ELSE s.ctx.sub
    <3>1. x \in Exchange
      BY <1>1 DEF Exchange
    <3>2. Advance(s) = Request([s EXCEPT !.ctx.sub = x])
      BY <2>4 DEF Advance
    <3> HIDE DEF x
    <3> QED
      BY <2>1, <3>1, <3>2, RequestHolds
  <2> QED
    BY <2>2, <2>3, <2>4
<1> QED
  BY <1>2, <1>3

LEMMA ArmSyncHolds ==
  ASSUME NEW s, Core(s), Activating(s), s.ctx.sync = "active",
         Drained(s.usb)
  PROVE  Stays(s, ArmSync(s)) /\ Hears(ArmSync(s))
<1> DEFINE u == SyncArmed(s.usb, s.ctx.gen)
           t == ArmSync(s)
<1>1. /\ s \in State /\ s.ctx \in Context /\ s.usb \in Usb /\ Epoch(s.usb)
      /\ ~s.usb.fence /\ s.ctx.gen = s.usb.gen /\ s.ctx.gen # 0
  BY WorkingIs DEF Working
<1>2. CanArmSync(s.usb, s.ctx.gen) /\ s.ctx.sub = "none"
  BY <1>1 DEF Activating, CanArmSync
<1>3. t = [s EXCEPT !.usb = u]
  BY <1>1, <1>2 DEF ArmSync, State
<1>4. /\ u \in Usb /\ Epoch(u) /\ u.in = "sync" /\ ~u.out
      /\ u.fence = s.usb.fence /\ u.gen = s.usb.gen /\ u.sync = s.usb.sync
  BY <1>1, <1>2, SyncIs DEF Context
<1> HIDE DEF u, t
<1>5. t \in State /\ t.fw = s.fw /\ t.ctx = s.ctx /\ t.usb = u /\ t.left = s.left
  BY <1>1, <1>3, <1>4 DEF State
<1>6. StillActivating(s, t.ctx, t.usb)
  <2>1. Keeps(s.ctx, s.ctx)
    BY DEF Keeps
  <2> QED
    BY <1>1, <1>2, <1>4, <1>5, <2>1 DEF StillActivating, Activating, Live
<1>7. Hears(t)
  BY <1>2, <1>4, <1>5
     DEF Hears, Exchange, Session, Lifecycle, Binding
<1> QED
  BY <1>5, <1>6, <1>7, ExchangeKeeps DEF t

LEMMA SyncFailHolds ==
  ASSUME NEW s, Core(s), Activating(s), s.ctx.sync = "active",
         Drained(s.usb)
  PROVE  Ends(s, SyncFail(s))
<1> DEFINE u == IF CanEndSync(s.usb, s.ctx.gen) THEN SyncEnded(s.usb) ELSE s.usb
           c == [s.ctx EXCEPT !.sync = "fail"]
           m == [s EXCEPT !.ctx.sync = "fail",
                          !.usb = IF CanEndSync(@, s.ctx.gen)
                                  THEN SyncEnded(@) ELSE @]
           t == SyncFail(s)
<1>1. /\ s \in State /\ s.ctx \in Context /\ s.usb \in Usb /\ Epoch(s.usb)
      /\ Framework(s.fw) /\ Works(s) /\ Serves(s) /\ Troubled(s)
  BY WorkingIs DEF Working
<1>2. /\ u \in Usb /\ Epoch(u) /\ Drained(u)
  BY <1>1, SyncIs DEF SyncEnded, Drained
<1>3. /\ c \in Context /\ Keeps(s.ctx, c) /\ c.fence = s.ctx.fence
      /\ c.st = s.ctx.st /\ c.sub = s.ctx.sub /\ c.poisoned = s.ctx.poisoned
  BY <1>1 DEF Context, Keeps
<1>4. m = [s EXCEPT !.ctx = c, !.usb = u]
  BY <1>1 DEF State
<1>5. t = ProtocolFailure(m, "error")
  BY DEF SyncFail
<1> HIDE DEF c, u, m, t
<1>6. m \in State /\ m.fw = s.fw /\ m.ctx = c /\ m.usb = u /\ m.left = s.left
  BY <1>1, <1>2, <1>3, <1>4 DEF State
<1>7. Core(m)
  BY <1>1, <1>2, <1>3, <1>6 DEF Core, Keeps, Drained
<1>8. Troubled(m)
  <2>1. Serves(m)
    BY <1>1, <1>3, <1>6 DEF Serves, Keeps
  <2>2. Works(m)
    BY <1>1, <1>3, <1>6, <2>1 DEF Works, Keeps
  <2> QED
    BY <1>1, <1>3, <1>6, <2>2 DEF Troubled
<1>9. Ends(m, t)
  BY <1>5, <1>7, <1>8, FailureHolds
<1> QED
  BY <1>3, <1>6, <1>9 DEF Ends, Rel, DoneIfOk, Same, Keeps, t

LEMMA SyncCompletedHolds ==
  ASSUME NEW s, Core(s), Activating(s), s.ctx.sync = "active",
         Drained(s.usb), NEW o \in {"quiet", "data", "error"}
  PROVE  Goes(s, SyncCompleted(s, s.ctx.gen, o))
<1> DEFINE t == SyncCompleted(s, s.ctx.gen, o)
<1>1. /\ s \in State /\ s.ctx \in Context /\ s.usb \in Usb /\ Epoch(s.usb)
      /\ ~s.usb.fence /\ ~s.ctx.fence /\ s.ctx.gen = s.usb.gen
      /\ s.ctx.claimed /\ s.ctx.sub = "none" /\ s.usb.sync
  BY WorkingIs DEF Working, Serves, Activating
<1>2. CanEndSync(s.usb, s.ctx.gen)
  BY <1>1 DEF CanEndSync
<1>3. CASE o = "quiet"
  <2> DEFINE u == [s.usb EXCEPT !.sync = FALSE]
             c == [s.ctx EXCEPT !.sync = "pass"]
             d == [c EXCEPT !.sub = "preflight", !.reply = "open"]
             p == [s EXCEPT !.usb = SyncEnded(@), !.ctx.sync = "pass"]
             q == [p EXCEPT !.ctx.sub = "preflight"]
             m == [q EXCEPT !.ctx.reply = "open"]
             r == Listen(Send(m))
  <2>1. t = StartLivePreflight(p)
    BY <1>2, <1>3 DEF SyncCompleted
  <2>2. /\ u \in Usb /\ Epoch(u) /\ u.in = s.usb.in /\ u.out = s.usb.out
        /\ u.fence = s.usb.fence /\ u.gen = s.usb.gen /\ ~u.sync
    BY <1>1, SyncIs
  <2>3. /\ c \in Context /\ ~c.fence /\ c.sub = "none" /\ c.claimed
    BY <1>1 DEF Context
  <2>4. /\ d \in Context /\ Keeps(s.ctx, d) /\ d.gen = s.ctx.gen
        /\ d.fence = s.ctx.fence /\ d.st = s.ctx.st
        /\ d.actDone = s.ctx.actDone /\ d.poisoned = s.ctx.poisoned
        /\ d.held = s.ctx.held /\ d.sync = "pass" /\ d.sub = "preflight"
    <3> "preflight" \in Subs
      BY DEF Subs, Exchange
    <3> QED
      BY <1>1 DEF Context, Keeps
  <2>5. /\ p \in State /\ p.fw = s.fw /\ p.ctx = c /\ p.usb = u
        /\ p.left = s.left
    <3>1. p = [s EXCEPT !.usb = u, !.ctx = c]
      BY <1>1 DEF State, SyncEnded
    <3> HIDE DEF u, c, p
    <3> QED
      BY <1>1, <2>2, <2>3, <3>1 DEF State
  <2> HIDE DEF t, p
  <2>6. t = Request(q)
    BY <2>1, <2>3, <2>5 DEF StartLivePreflight
  <2>7. /\ m \in State /\ m.fw = s.fw /\ m.ctx = d /\ m.usb = u
        /\ m.left = s.left
    <3>1. m = [p EXCEPT !.ctx = d]
      BY <2>3, <2>5 DEF State, Context
    <3> HIDE DEF d, m, u
    <3> QED
      BY <2>4, <2>5, <3>1 DEF State
  <2>8. t = r
    BY <2>6 DEF Request
  <2> HIDE DEF u, c, d, q, m, r
  <2>9. StillActivating(s, m.ctx, m.usb)
    BY <1>1, <2>2, <2>4, <2>7
       DEF StillActivating, Activating, Live, Exchange
  <2>10. Stays(s, m)
    BY <2>7, <2>9, ExchangeKeeps
  <2>11. Goes(m, r)
    <3>1. m.ctx.sync = "pass" /\ m.usb.in # "sync" /\ Working(m)
      BY <2>2, <2>4, <2>7, <2>10 DEF Drained, Stays
    <3> QED
      BY <3>1, SendListenHolds DEF r
  <2> QED
    BY <2>8, <2>10, <2>11, GoesAfter DEF t
<1>4. CASE o = "data" /\ s.ctx.discards < MaxDiscards
  <2> DEFINE c == [s.ctx EXCEPT !.discards = @ + 1]
             m == [s EXCEPT !.ctx.discards = @ + 1]
             r == ArmSync(m)
  <2>1. t = r
    BY <1>4 DEF SyncCompleted
  <2>2. /\ c \in Context /\ Keeps(s.ctx, c) /\ c.gen = s.ctx.gen
        /\ c.fence = s.ctx.fence /\ c.st = s.ctx.st
        /\ c.actDone = s.ctx.actDone /\ c.poisoned = s.ctx.poisoned
        /\ c.held = s.ctx.held /\ c.sync = "active" /\ c.sub = "none"
    <3>1. s.ctx.discards + 1 \in 0..MaxDiscards
      BY <1>1, <1>4, DeviceAssumption DEF Context
    <3> QED
      BY <1>1, <3>1 DEF Context, Keeps
  <2>3. /\ m \in State /\ m.fw = s.fw /\ m.ctx = c /\ m.usb = s.usb
        /\ m.left = s.left
    <3>1. m = [s EXCEPT !.ctx = c]
      BY <1>1 DEF State
    <3> HIDE DEF c, m
    <3> QED
      BY <1>1, <2>2, <3>1 DEF State
  <2> HIDE DEF c, m, r, t
  <2>4. StillActivating(s, m.ctx, m.usb)
    BY <1>1, <2>2, <2>3 DEF StillActivating, Activating, Live, Drained
  <2>5. Stays(s, m) /\ Activating(m)
    BY <2>3, <2>4, ExchangeKeeps
  <2>6. Stays(m, r) /\ Hears(r)
    BY <2>2, <2>3, <2>5, ArmSyncHolds DEF Stays, Working, r
  <2> QED
    BY <2>1, <2>5, <2>6, GoesAfter DEF Goes, t
<1>5. CASE o # "quiet" /\ ~(o = "data" /\ s.ctx.discards < MaxDiscards)
  <2>1. t = SyncFail(s)
    BY <1>5 DEF SyncCompleted
  <2> HIDE DEF t
  <2> QED
    BY <2>1, SyncFailHolds DEF Goes, t
<1> QED
  BY <1>3, <1>4, <1>5

-----------------------------------------------------------------------------
(* The finger and the image.                                                *)

LEMMA EndsFrom ==
  ASSUME NEW s, NEW z, NEW t, Ends(z, t), Rel(s, z),
         z.fw.action = s.fw.action, z.fw.stage = s.fw.stage
  PROVE  Ends(s, t)
BY DEF Ends, Rel, DoneIfOk, Same

LEMMA FramedIs ==
  ASSUME NEW s, Framed(s)
  PROVE  /\ Working(s) /\ s \in State /\ s.fw \in Device /\ s.ctx \in Context
         /\ Framework(s.fw) /\ Works(s) /\ Serves(s) /\ Troubled(s)
         /\ s.fw.action # "none" /\ s.fw.active /\ s.ctx.actDone
         /\ ~s.fw.breach /\ ~Terminal(s) /\ ~s.ctx.poisoned
         /\ s.ctx.sync = "pass" /\ s.ctx.st = "ACTIVE"
         /\ s.fw.st \in {"AWAIT_ON", "CAPTURE", "AWAIT_OFF"}
         /\ s.ctx.held = s.fw.held /\ InStep(s.fw, s.ctx.sub)
         /\ s.ctx.action = s.fw.action /\ s.ctx.sub # "failed"
<1>1. Working(s) /\ s.ctx.sub # "failed"
  BY DEF Framed, Working, Active, Session, Lifecycle, Binding
<1>2. s.fw.st \in {"AWAIT_ON", "CAPTURE", "AWAIT_OFF"}
  BY DEF Framed, Active, InStep, Session, Lifecycle, Binding
<1>3. ~Terminal(s)
  BY <1>1, WorkingIs DEF Terminal
<1> QED
  BY <1>1, <1>2, <1>3, WorkingIs DEF Framed, Active, Framework, Serves

LEMMA ActiveKeeps ==
  ASSUME NEW s, Framed(s), NEW t \in State, t.usb = s.usb, t.left = s.left,
         StillActive(s, t.fw, t.ctx)
  PROVE  Framed(t) /\ Rel(s, t) /\ t.fw.action = s.fw.action
<1>1. Core(s) /\ Live(s) /\ Works(s) /\ Serves(s)
  BY FramedIs, WorkingIs
<1>2. Core(t)
  BY <1>1 DEF Core, StillActive
<1>3. Serves(t)
  BY <1>1 DEF Serves, StillActive
<1>4. Works(t)
  BY <1>1, <1>3 DEF Works, StillActive
<1>5. Live(t)
  BY <1>1, <1>4 DEF Live, StillActive
<1>6. Active(t)
  BY <1>5 DEF Framed, Active, StillActive
<1>7. Rel(s, t)
  <2>1. t.ctx.sub # "none"
    BY DEF StillActive, Session, Lifecycle, Binding
  <2> QED
    BY <1>1, <2>1, FramedIs DEF Rel, Live, StillActive
<1> QED
  BY <1>2, <1>6, <1>7 DEF Framed, StillActive

(* The engine moved, the framework not yet.                                 *)
LEMMA MovedIs ==
  ASSUME NEW s, Framed(s),
         NEW x \in Session \cup Binding \cup {"stop", "failed"}
  PROVE  LET z == [s EXCEPT !.ctx.sub = x]
             c == [s.ctx EXCEPT !.sub = x]
         IN /\ z \in State /\ z.fw = s.fw /\ z.ctx = c /\ z.usb = s.usb
            /\ z.left = s.left /\ Core(z) /\ Rel(s, z)
            /\ c \in Context /\ Keeps(s.ctx, c) /\ c.gen = s.ctx.gen
            /\ c.fence = s.ctx.fence /\ c.poisoned = s.ctx.poisoned
            /\ c.actDone = s.ctx.actDone /\ c.st = s.ctx.st
            /\ c.sync = s.ctx.sync /\ c.held = s.ctx.held /\ c.sub = x
            /\ Works(z)
            /\ x \in Session \cup (Binding \ {"complete"}) \cup {"failed"} =>
                 Troubled(z)
<1> DEFINE c == [s.ctx EXCEPT !.sub = x]
           z == [s EXCEPT !.ctx.sub = x]
<1>1. /\ s \in State /\ s.ctx \in Context /\ Core(s) /\ Works(s) /\ Serves(s)
      /\ Troubled(s) /\ s.ctx.st = "ACTIVE" /\ s.ctx.sub # "failed"
  BY FramedIs DEF Framed
<1>2. x \in Subs /\ x # "none"
  BY DEF Subs, Session, Lifecycle, Binding
<1>3. /\ c \in Context /\ Keeps(s.ctx, c) /\ c.gen = s.ctx.gen
      /\ c.fence = s.ctx.fence /\ c.poisoned = s.ctx.poisoned
      /\ c.actDone = s.ctx.actDone /\ c.st = s.ctx.st
      /\ c.sync = s.ctx.sync /\ c.held = s.ctx.held /\ c.sub = x
  BY <1>1, <1>2 DEF Context, Keeps
<1>4. z = [s EXCEPT !.ctx = c]
  BY <1>1 DEF State
<1> HIDE DEF c, z
<1>5. z \in State /\ z.fw = s.fw /\ z.ctx = c /\ z.usb = s.usb /\ z.left = s.left
  BY <1>1, <1>3, <1>4 DEF State
<1>6. Core(z)
  BY <1>1, <1>3, <1>5 DEF Core, Keeps
<1>7. Works(z)
  <2>1. Serves(z)
    BY <1>1, <1>3, <1>5 DEF Serves, Keeps
  <2> QED
    BY <1>1, <1>3, <1>5, <2>1 DEF Works, Keeps
<1>8. Rel(s, z)
  BY <1>1, <1>2, <1>3, <1>5 DEF Rel, Keeps
<1>9. x \in Session \cup (Binding \ {"complete"}) \cup {"failed"} => Troubled(z)
  BY <1>1, <1>3, <1>5, <1>7 DEF Troubled
<1> QED
  BY <1>3, <1>5, <1>6, <1>7, <1>8, <1>9 DEF z, c

LEMMA MovedFails ==
  ASSUME NEW s, Framed(s), NEW e \in {"error", "cancelled"},
         NEW x \in Session \cup (Binding \ {"complete"})
  PROVE  LET t == EngineFails([s EXCEPT !.ctx.sub = x], e)
         IN Ends(s, t) /\ t.ctx.sub = "failed"
<1> DEFINE z == [s EXCEPT !.ctx.sub = x]
<1>1. /\ z.fw = s.fw /\ Core(z) /\ Rel(s, z) /\ Troubled(z)
      /\ z.ctx.sub \notin Exchange
  <2>1. /\ x \in Session \cup Binding \cup {"stop", "failed"}
        /\ x \in Session \cup (Binding \ {"complete"}) \cup {"failed"}
    OBVIOUS
  <2>2. x \notin Exchange
    BY DEF Exchange, Session, Lifecycle, Binding
  <2> DEFINE c == [s.ctx EXCEPT !.sub = x]
  <2>3. /\ z.fw = s.fw /\ z.ctx = c /\ Core(z) /\ Rel(s, z) /\ c.sub = x
        /\ Works(z)
    BY <2>1, MovedIs
  <2>4. Troubled(z)
    BY <2>1, MovedIs
  <2> HIDE DEF z, c
  <2> QED
    BY <2>2, <2>3, <2>4
<1> HIDE DEF z
<1>2. Ends(z, EngineFails(z, e)) /\ EngineFails(z, e).ctx.sub = "failed"
  BY <1>1, EngineFailsHolds
<1>3. Ends(s, EngineFails(z, e))
  BY <1>1, <1>2, EndsFrom
<1> QED
  BY <1>2, <1>3 DEF z

LEMMA SendFrame ==
  ASSUME NEW s, NEW m, Framed(m), Rel(s, m), m.fw.action = s.fw.action,
         m.fw.stage = s.fw.stage
  PROVE  Frame(s, Send(m))
<1> DEFINE t == Send(m)
<1>1. Working(m) /\ m.ctx.sync = "pass" /\ m.usb.in = "none"
  BY FramedIs DEF Framed
<1>2. \/ /\ Stays(m, t) /\ t.fw = m.fw /\ t.ctx = m.ctx
         /\ t.usb.in = m.usb.in
      \/ Ends(m, t)
  BY <1>1, SendHolds
<1> HIDE DEF t
<1>3. CASE Ends(m, t)
  BY <1>3, EndsFrom DEF Frame, t
<1>4. CASE Stays(m, t) /\ t.fw = m.fw /\ t.ctx = m.ctx /\ t.usb.in = m.usb.in
  BY <1>1, <1>4 DEF Stays, Frame, Rel, t
<1> QED
  BY <1>2, <1>3, <1>4

(* A finger is put down: the framework captures.                            *)
LEMMA TouchHolds ==
  ASSUME NEW s, Framed(s), NEW x,
         \/ x = "down" /\ s.ctx.sub = "calibrate" /\ s.fw.action # "enroll"
         \/ x = "contact" /\ s.ctx.sub = "await"
  PROVE  LET t == ReportFinger([s EXCEPT !.ctx.sub = x], TRUE)
         IN Framed(t) /\ Rel(s, t) /\ t.fw.action = s.fw.action
            /\ t.fw.stage = s.fw.stage
<1> DEFINE z == [s EXCEPT !.ctx.sub = x]
           c == [s.ctx EXCEPT !.sub = x]
           f == [s.fw EXCEPT !.finger = TRUE, !.st = "CAPTURE"]
           t == ReportFinger(z, TRUE)
<1>1. /\ s \in State /\ s.fw \in Device /\ s.ctx \in Context /\ Framework(s.fw)
      /\ ~Terminal(s) /\ s.fw.action # "none" /\ s.fw.active /\ s.ctx.actDone
      /\ Works(s) /\ Serves(s) /\ s.ctx.sync = "pass" /\ ~s.ctx.poisoned
      /\ s.ctx.held = s.fw.held /\ InStep(s.fw, s.ctx.sub)
  BY FramedIs
<1>2. s.fw.st = "AWAIT_ON" /\ s.fw.err = "none"
  BY <1>1 DEF InStep
<1>3. x \in Session \cup (Binding \ {"complete"})
  BY DEF Session, Lifecycle, Binding
<1>4. /\ z \in State /\ z.fw = s.fw /\ z.ctx = c /\ z.usb = s.usb
      /\ z.left = s.left
      /\ c \in Context /\ Keeps(s.ctx, c) /\ c.gen = s.ctx.gen
      /\ c.fence = s.ctx.fence /\ c.poisoned = s.ctx.poisoned
      /\ c.actDone = s.ctx.actDone /\ c.st = s.ctx.st
      /\ c.sync = s.ctx.sync /\ c.held = s.ctx.held /\ c.sub = x
  BY <1>3, MovedIs
<1> HIDE DEF z, c
<1>5. t = [z EXCEPT !.fw = f]
  <2>1. ~Terminal(z)
    BY <1>1, <1>4 DEF Terminal
  <2> QED
    BY <1>1, <1>2, <1>4, <2>1 DEF ReportFinger, State, Device
<1>6. /\ f \in Device /\ f.active /\ f.st = "CAPTURE" /\ f.finger
      /\ f.open = s.fw.open /\ f.action = s.fw.action /\ f.err = "none"
      /\ f.stage = s.fw.stage /\ f.held = s.fw.held /\ f.breach = s.fw.breach
      /\ f.cancelled = s.fw.cancelled /\ f.idle = s.fw.idle
  BY <1>1, <1>2 DEF Device
<1> HIDE DEF f, t
<1>7. t \in State /\ t.fw = f /\ t.ctx = c /\ t.usb = s.usb /\ t.left = s.left
  BY <1>4, <1>5, <1>6 DEF State
<1>8. Framework(f)
  BY <1>1, <1>6 DEF Framework
<1>9. InStep(f, x)
  BY <1>1, <1>6 DEF InStep, Device, Action, Binding
<1>10. ~c.known
  BY <1>4 DEF Framed, Active, Keeps, Context
<1>11. StillActive(s, f, c)
  <2>1. x # "imaged"
    OBVIOUS
  <2>2. /\ ~c.fence /\ ~c.pending /\ ~c.nonquiescent /\ ~c.scheduled
        /\ c.consumed /\ c.claimed
    BY <1>1, <1>4 DEF Works, Serves, Keeps, Terminal
  <2> QED
    BY <1>1, <1>3, <1>4, <1>6, <1>8, <1>9, <1>10, <2>1, <2>2
       DEF StillActive, Keeps
<1>12. Framed(t) /\ Rel(s, t) /\ t.fw.action = s.fw.action
  BY <1>7, <1>11, ActiveKeeps
<1> QED
  BY <1>6, <1>7, <1>12 DEF t, z

(* It is lifted: the framework waits for the next one ...                   *)
LEMMA LiftHolds ==
  ASSUME NEW s, Framed(s), s.ctx.sub = "sampled", ~s.ctx.held
  PROVE  LET t == ReportFinger([s EXCEPT !.ctx.sub = "await"], FALSE)
         IN Framed(t) /\ Rel(s, t) /\ t.fw.action = s.fw.action
            /\ t.fw.stage = s.fw.stage
<1> DEFINE z == [s EXCEPT !.ctx.sub = "await"]
           c == [s.ctx EXCEPT !.sub = "await"]
           g == [s.fw EXCEPT !.finger = FALSE, !.st = "IDLE"]
           f == [g EXCEPT !.st = "AWAIT_ON"]
           y == [[z EXCEPT !.fw.finger = FALSE] EXCEPT !.fw.st = "IDLE"]
           t == ReportFinger(z, FALSE)
<1>1. /\ s \in State /\ s.fw \in Device /\ s.ctx \in Context /\ Framework(s.fw)
      /\ ~Terminal(s) /\ s.fw.action # "none" /\ s.fw.active /\ s.ctx.actDone
      /\ Works(s) /\ Serves(s) /\ s.ctx.sync = "pass" /\ ~s.ctx.poisoned
      /\ s.ctx.held = s.fw.held /\ InStep(s.fw, s.ctx.sub)
  BY FramedIs
<1>2. /\ s.fw.st = "AWAIT_OFF" /\ s.fw.err = "none" /\ s.fw.action = "enroll"
      /\ ~s.fw.held /\ s.fw.stage # Stages
  BY <1>1 DEF InStep, Binding
<1>3. "await" \in Session \cup (Binding \ {"complete"})
  BY DEF Session, Lifecycle, Binding
<1>4. /\ z \in State /\ z.fw = s.fw /\ z.ctx = c /\ z.usb = s.usb
      /\ z.left = s.left
      /\ c \in Context /\ Keeps(s.ctx, c) /\ c.gen = s.ctx.gen
      /\ c.fence = s.ctx.fence /\ c.poisoned = s.ctx.poisoned
      /\ c.actDone = s.ctx.actDone /\ c.st = s.ctx.st
      /\ c.sync = s.ctx.sync /\ c.held = s.ctx.held /\ c.sub = "await"
  BY <1>3, MovedIs
<1>5. /\ g \in Device /\ g.active /\ g.st = "IDLE" /\ ~g.finger
      /\ g.action = s.fw.action /\ g.stage = s.fw.stage /\ ~g.held
      /\ f \in Device /\ f.active /\ f.st = "AWAIT_ON" /\ ~f.finger
      /\ f.open = s.fw.open /\ f.action = s.fw.action /\ f.err = "none"
      /\ f.stage = s.fw.stage /\ ~f.held /\ f.breach = s.fw.breach
      /\ f.cancelled = s.fw.cancelled /\ f.idle = s.fw.idle
  BY <1>1, <1>2 DEF Device
<1> HIDE DEF z, c
<1>6. t = EnrollMaybeAwait(y)
  <2>1. ~Terminal(z)
    BY <1>1, <1>4 DEF Terminal
  <2> QED
    BY <1>2, <1>4, <2>1 DEF ReportFinger
<1>7. y = [z EXCEPT !.fw = g]
  BY <1>1, <1>4 DEF State, Device
<1> HIDE DEF g, y, t
<1>8. y \in State /\ y.fw = g /\ y.ctx = c /\ y.usb = s.usb /\ y.left = s.left
  BY <1>4, <1>5, <1>7 DEF State
<1>9. t = [y EXCEPT !.fw = f]
  <2>1. t = [y EXCEPT !.fw.st = "AWAIT_ON"]
    BY <1>2, <1>5, <1>6, <1>8 DEF EnrollMaybeAwait
  <2> QED
    BY <1>8, <2>1 DEF State
<1> HIDE DEF f
<1>10. t \in State /\ t.fw = f /\ t.ctx = c /\ t.usb = s.usb /\ t.left = s.left
  BY <1>5, <1>8, <1>9 DEF State
<1>11. Framework(f)
  BY <1>1, <1>5 DEF Framework
<1>12. InStep(f, "await")
  BY <1>2, <1>5 DEF InStep
<1>13. StillActive(s, f, c)
  <2>1. ~c.known
    BY <1>4 DEF Framed, Active, Keeps, Context
  <2>2. /\ ~c.fence /\ ~c.pending /\ ~c.nonquiescent /\ ~c.scheduled
        /\ c.consumed /\ c.claimed
    BY <1>1, <1>4 DEF Works, Serves, Keeps, Terminal
  <2>3. c.held = f.held
    BY <1>1, <1>2, <1>4, <1>5 DEF Context, Device
  <2> QED
    BY <1>1, <1>3, <1>4, <1>5, <1>11, <1>12, <2>1, <2>2, <2>3
       DEF StillActive, Keeps
<1>14. Framed(t) /\ Rel(s, t) /\ t.fw.action = s.fw.action
  BY <1>10, <1>13, ActiveKeeps
<1> QED
  BY <1>5, <1>10, <1>14 DEF t, z

(* ... or ends the capture ...                                              *)
LEMMA LiftEndsCapture ==
  ASSUME NEW s, Framed(s), s.ctx.sub = "imaged"
  PROVE  Ends(s, ReportFinger([s EXCEPT !.ctx.sub = "stop"], FALSE))
<1> DEFINE z == [s EXCEPT !.ctx.sub = "stop"]
           c == [s.ctx EXCEPT !.sub = "stop"]
           g == [s.fw EXCEPT !.finger = FALSE, !.st = "IDLE"]
           y == [[z EXCEPT !.fw.finger = FALSE] EXCEPT !.fw.st = "IDLE"]
           t == ReportFinger(z, FALSE)
<1>1. /\ s \in State /\ s.fw \in Device /\ s.ctx \in Context /\ Framework(s.fw)
      /\ ~Terminal(s) /\ s.fw.action # "none" /\ s.fw.active
      /\ Works(s) /\ Serves(s) /\ InStep(s.fw, s.ctx.sub)
      /\ s.ctx.action = s.fw.action /\ s.ctx.st = "ACTIVE"
  BY FramedIs
<1>2. s.fw.st = "AWAIT_OFF" /\ s.fw.action \in Capture
  BY <1>1 DEF InStep
<1>3. s.ctx.known /\ s.fw.action # "enroll"
  BY <1>2 DEF Framed, Active, Capture
<1>4. /\ z \in State /\ z.fw = s.fw /\ z.ctx = c /\ z.usb = s.usb
      /\ z.left = s.left /\ Core(z) /\ Rel(s, z) /\ Works(z)
      /\ c \in Context /\ Keeps(s.ctx, c) /\ c.gen = s.ctx.gen
      /\ c.fence = s.ctx.fence /\ c.st = s.ctx.st /\ c.sub = "stop"
  BY MovedIs
<1>5. /\ g \in Device /\ g.active /\ g.st = "IDLE" /\ ~g.finger
      /\ g.action = s.fw.action /\ g.stage = s.fw.stage
      /\ g.open = s.fw.open /\ g.err = s.fw.err /\ g.breach = s.fw.breach
      /\ g.cancelled = s.fw.cancelled /\ g.idle = s.fw.idle
  BY <1>1 DEF Device
<1> HIDE DEF z, c
<1>6. t = FwDeactivate(y, FALSE)
  <2>1. ~Terminal(z)
    BY <1>1, <1>4 DEF Terminal
  <2> QED
    BY <1>2, <1>3, <1>4, <2>1 DEF ReportFinger
<1>7. y = [z EXCEPT !.fw = g]
  BY <1>1, <1>4 DEF State, Device
<1> HIDE DEF g, y, t
<1>8. y \in State /\ y.fw = g /\ y.ctx = c /\ y.usb = s.usb /\ y.left = s.left
  BY <1>4, <1>5, <1>7 DEF State
<1>9. Core(y)
  BY <1>1, <1>4, <1>5, <1>8 DEF Core, Framework
<1>10. Ending(y)
  <2>1. Works(y)
    BY <1>4, <1>5, <1>8 DEF Works, Serves
  <2> QED
    BY <1>1, <1>2, <1>3, <1>4, <1>5, <1>8, <2>1 DEF Ending, Keeps
<1>11. Ends(y, t)
  BY <1>5, <1>6, <1>8, <1>9, <1>10, FwDeactivateHolds
<1>12. Rel(s, y)
  BY <1>4, <1>8 DEF Rel
<1> QED
  BY <1>5, <1>8, <1>11, <1>12, EndsFrom DEF t, z

(* ... or the enrollment.                                                   *)
LEMMA LiftEndsEnrollment ==
  ASSUME NEW s, Framed(s), s.ctx.sub = "sampled", s.ctx.held
  PROVE  Ends(s, ReleaseCompletion(
                   [ReportFinger(s, FALSE) EXCEPT
                      !.ctx.sub = IF @ = "failed" THEN @ ELSE "complete"]))
<1> DEFINE g == [s.fw EXCEPT !.finger = FALSE, !.st = "IDLE"]
           y == [[s EXCEPT !.fw.finger = FALSE] EXCEPT !.fw.st = "IDLE"]
           r == ReportFinger(s, FALSE)
           c == [s.ctx EXCEPT !.sub = "complete"]
           z == [r EXCEPT !.ctx.sub = IF @ = "failed" THEN @ ELSE "complete"]
           d == [c EXCEPT !.held = FALSE]
           h == [g EXCEPT !.held = FALSE]
           k == MaybeComplete(h, "none")
           m == [z EXCEPT !.ctx.held = FALSE, !.fw = h]
           n == [m EXCEPT !.fw = k]
           t == ReleaseCompletion(z)
<1>1. /\ s \in State /\ s.fw \in Device /\ s.ctx \in Context /\ Framework(s.fw)
      /\ ~Terminal(s) /\ s.fw.action # "none" /\ s.fw.active
      /\ Works(s) /\ Serves(s) /\ InStep(s.fw, s.ctx.sub) /\ Core(s)
      /\ s.ctx.action = s.fw.action /\ s.ctx.st = "ACTIVE"
      /\ s.ctx.held = s.fw.held /\ ~s.fw.breach /\ s.usb \in Usb
      /\ s.left \in Remains
  BY FramedIs, PartsAre DEF Framed
<1>2. /\ s.fw.st = "AWAIT_OFF" /\ s.fw.action = "enroll" /\ s.fw.held
      /\ s.fw.stage = Stages /\ s.fw.err = "none"
  BY <1>1 DEF InStep, Binding
<1>3. /\ g \in Device /\ g.active /\ g.st = "IDLE" /\ ~g.finger
      /\ g.action = s.fw.action /\ g.stage = s.fw.stage /\ g.held
      /\ g.open = s.fw.open /\ g.err = s.fw.err /\ ~g.breach
      /\ g.cancelled = s.fw.cancelled /\ g.idle = s.fw.idle
  BY <1>1, <1>2 DEF Device
<1>4. y = [s EXCEPT !.fw = g]
  BY <1>1 DEF State, Device
<1>5. r = EnrollMaybeAwait(y)
  BY <1>1, <1>2 DEF ReportFinger
<1> HIDE DEF g, y, r
<1>6. y \in State /\ y.fw = g /\ y.ctx = s.ctx /\ y.usb = s.usb /\ y.left = s.left
  BY <1>1, <1>3, <1>4 DEF State
<1>7. r = y
  BY <1>3, <1>5, <1>6 DEF EnrollMaybeAwait
<1>8. /\ c \in Context /\ Keeps(s.ctx, c) /\ c.st = s.ctx.st
      /\ c.sub = "complete" /\ c.held = s.ctx.held /\ c.sync = s.ctx.sync
      /\ d \in Context /\ Keeps(s.ctx, d) /\ d.st = s.ctx.st
      /\ d.sub = "complete" /\ d.sync = s.ctx.sync
      /\ d.poisoned = s.ctx.poisoned
  <2> "complete" \in Subs
    BY DEF Subs, Binding
  <2> QED
    BY <1>1 DEF Context, Keeps
<1>9. z \in State /\ z.fw = g /\ z.ctx = c /\ z.usb = s.usb /\ z.left = s.left
  <2>1. z = [y EXCEPT !.ctx = c]
    BY <1>6, <1>7 DEF State
  <2> HIDE DEF z, c
  <2> QED
    BY <1>6, <1>8, <2>1 DEF State
<1>10. h \in Device /\ h.active /\ h.st = "IDLE" /\ h.stage = Stages
       /\ h.action = "enroll" /\ h.open = s.fw.open /\ h.err = "none"
       /\ ~h.breach /\ h.cancelled = s.fw.cancelled /\ h.idle = s.fw.idle
       /\ ~h.held
  BY <1>2, <1>3 DEF Device
<1>11. t = FwDeactivate(n, FALSE)
  <2>1. Expect(g, g.action = "enroll" /\ g.held) = g
    BY <1>2, <1>3 DEF Expect, Device
  <2>2. c.held
    BY <1>1, <1>2, <1>8 DEF Context, Device
  <2>3. m.fw = h
    BY <1>9 DEF State
  <2> HIDE DEF z, c, h, m
  <2> QED
    BY <1>2, <1>3, <1>9, <2>1, <2>2, <2>3 DEF ReleaseCompletion, m, h
<1> HIDE DEF z, h
<1>12. m \in State /\ m.fw = h /\ m.ctx = d /\ m.usb = s.usb /\ m.left = s.left
  <2>1. m = [z EXCEPT !.ctx = d, !.fw = h]
    BY <1>9 DEF State
  <2> HIDE DEF m, d
  <2> QED
    BY <1>8, <1>9, <1>10, <2>1 DEF State
<1>13. Framework(h)
  BY <1>1, <1>10 DEF Framework
<1>14. /\ k \in Device /\ Framework(k) /\ k.active /\ k.action = h.action
       /\ k.st = h.st /\ k.stage = h.stage /\ k.err = "none"
  BY <1>10, <1>13, MaybeCompleteIs
<1> HIDE DEF c, d, k, m, t
<1>15. n \in State /\ n.fw = k /\ n.ctx = d /\ n.usb = s.usb /\ n.left = s.left
  BY <1>12, <1>14 DEF State
<1> HIDE DEF n
<1>16. Core(n)
  BY <1>1, <1>8, <1>14, <1>15 DEF Core, Keeps
<1>17. Ending(n)
  <2>1. Serves(n)
    <3>1. d.consumed /\ d.claimed /\ d.closedEpoch = "none" /\ d.seq # 0
          /\ d.action = s.ctx.action /\ s.left.cancel = 0
      BY <1>1, <1>8 DEF Serves, Keeps
    <3>2. k.action = s.ctx.action /\ k.action # "none"
      BY <1>1, <1>2, <1>10, <1>14
    <3> QED
      BY <1>15, <3>1, <3>2 DEF Serves
  <2>2. Works(n)
    BY <1>1, <1>8, <1>15, <2>1 DEF Works, Keeps
  <2> QED
    BY <1>1, <1>8, <1>10, <1>14, <1>15, <2>2 DEF Ending, Binding
<1>18. Ends(n, t)
  BY <1>10, <1>11, <1>14, <1>15, <1>16, <1>17, FwDeactivateHolds
<1>19. Rel(s, n)
  BY <1>8, <1>15 DEF Rel, Keeps
<1> QED
  BY <1>2, <1>10, <1>14, <1>15, <1>18, <1>19, EndsFrom DEF t, z, r

(* A touch of an enrollment is sampled: it counts, or has to be repeated.   *)
LEMMA SampleHolds ==
  ASSUME NEW s, Framed(s), s.ctx.sub = "contact", ~s.fw.cancelled,
         NEW o \in {"accept", "again"}
  PROVE  LET t == DeliverImage([s EXCEPT !.ctx.sub = "sampled"], o)
         IN Framed(t) /\ Rel(s, t) /\ t.fw.action = s.fw.action
<1> DEFINE z == [s EXCEPT !.ctx.sub = "sampled"]
           c == [s.ctx EXCEPT !.sub = "sampled"]
           last == o = "accept" /\ s.fw.stage + 1 = Stages
           d == [c EXCEPT !.held = @ \/ last]
           g == IF last THEN [s.fw EXCEPT !.held = TRUE] ELSE s.fw
           h == [g EXCEPT !.st = "AWAIT_OFF"]
           k == [h EXCEPT !.stage = @ + 1]
           f == IF o = "again" THEN [s.fw EXCEPT !.st = "AWAIT_OFF"] ELSE k
           y == [z EXCEPT !.ctx.held = @ \/ last,
                          !.fw = IF last THEN HoldCompletion(@) ELSE @]
           m == IF o = "again" THEN [z EXCEPT !.fw = RetryScan(@)]
                ELSE RawImage(y, o)
           t == DeliverImage(z, o)
<1>1. /\ s \in State /\ s.fw \in Device /\ s.ctx \in Context /\ Framework(s.fw)
      /\ ~Terminal(s) /\ s.fw.action # "none" /\ s.fw.active /\ s.ctx.actDone
      /\ Works(s) /\ Serves(s) /\ s.ctx.sync = "pass" /\ ~s.ctx.poisoned
      /\ s.ctx.held = s.fw.held /\ InStep(s.fw, s.ctx.sub) /\ ~s.fw.breach
  BY FramedIs
<1>2. /\ s.fw.st = "CAPTURE" /\ s.fw.err = "none" /\ s.fw.action = "enroll"
      /\ ~s.fw.held /\ s.fw.stage # Stages /\ s.fw.finger
  BY <1>1 DEF InStep, Binding
<1>3. "sampled" \in Session \cup (Binding \ {"complete"})
  BY DEF Session, Lifecycle, Binding
<1>4. /\ z \in State /\ z.fw = s.fw /\ z.ctx = c /\ z.usb = s.usb
      /\ z.left = s.left
      /\ c \in Context /\ Keeps(s.ctx, c) /\ c.gen = s.ctx.gen
      /\ c.fence = s.ctx.fence /\ c.poisoned = s.ctx.poisoned
      /\ c.actDone = s.ctx.actDone /\ c.st = s.ctx.st
      /\ c.sync = s.ctx.sync /\ c.held = s.ctx.held /\ c.sub = "sampled"
  BY <1>3, MovedIs
<1> HIDE DEF z, c
<1>5. t = FailsIfPoisoned(m)
  <2>1. ~Terminal(z)
    BY <1>1, <1>4 DEF Terminal
  <2>2. ~(Terminal(z) \/ z.fw.cancelled) /\ o # "broken"
    BY <1>4, <2>1
  <2>3. z.fw = s.fw
    BY <1>4
  <2> HIDE DEF z
  <2> QED
    BY <2>2, <2>3 DEF DeliverImage
<1>6. s.fw.stage \in 0..Stages /\ s.fw.stage + 1 \in 0..Stages
  BY <1>1, <1>2, DeviceAssumption DEF Device
<1>7. /\ k \in Device /\ k.st = "AWAIT_OFF" /\ k.active
      /\ k.finger /\ k.open = s.fw.open /\ k.action = s.fw.action
      /\ k.err = "none" /\ (k.held <=> last) /\ k.breach = s.fw.breach
      /\ k.cancelled = s.fw.cancelled /\ k.idle = s.fw.idle
      /\ k.stage = s.fw.stage + 1
  BY <1>1, <1>2, <1>6 DEF Device
<1>8. /\ f \in Device /\ f.st = "AWAIT_OFF" /\ f.active
      /\ f.finger /\ f.open = s.fw.open /\ f.action = s.fw.action
      /\ f.err = "none" /\ (f.held <=> last) /\ f.breach = s.fw.breach
      /\ f.cancelled = s.fw.cancelled /\ f.idle = s.fw.idle
      /\ (f.stage = Stages <=> last)
  <2>1. CASE o = "again"
    BY <1>1, <1>2, <2>1 DEF Device
  <2>2. CASE o = "accept"
    <3>1. f = k /\ (last <=> s.fw.stage + 1 = Stages)
      BY <2>2
    <3> HIDE DEF f, k, last
    <3> QED
      BY <1>7, <3>1
  <2> QED
    BY <2>1, <2>2
<1>9. /\ d \in Context /\ Keeps(c, d) /\ d.gen = c.gen
      /\ d.fence = c.fence /\ d.poisoned = c.poisoned
      /\ d.actDone = c.actDone /\ d.st = c.st
      /\ d.sync = c.sync /\ (d.held <=> c.held \/ last) /\ d.sub = c.sub
  <2> DEFINE b == c.held \/ last
  <2>1. b \in BOOLEAN /\ d = [c EXCEPT !.held = b]
    OBVIOUS
  <2> HIDE DEF last, d, b
  <2>2. /\ d \in Context /\ Keeps(c, d) /\ d.gen = c.gen
        /\ d.fence = c.fence /\ d.poisoned = c.poisoned
        /\ d.actDone = c.actDone /\ d.st = c.st
        /\ d.sync = c.sync /\ d.held = b /\ d.sub = c.sub
    BY <1>4, <2>1 DEF Context, Keeps
  <2> QED
    BY <2>2 DEF b
<1>10. ~c.held
  BY <1>1, <1>2, <1>4
<1>11. m \in State /\ m.fw = f /\ m.usb = s.usb /\ m.left = s.left /\ m.ctx = d
  <2>1. CASE o = "again"
    <3>1. ~last /\ d = c
      BY <1>4, <1>10, <2>1 DEF Context
    <3>2. RetryScan(s.fw) = f
      <4>1. Expect(s.fw, s.fw.st # "INACTIVE") = s.fw
        BY <1>1, <1>2 DEF Expect, Device
      <4> QED
        BY <2>1, <4>1 DEF RetryScan
    <3>3. m = [z EXCEPT !.fw = f]
      <4> HIDE DEF f
      <4> QED
        BY <1>4, <2>1, <3>2
    <3> HIDE DEF m, f, d
    <3> QED
      BY <1>4, <1>8, <3>1, <3>3 DEF State
  <2>2. CASE o = "accept"
    <3> DEFINE w == [y EXCEPT !.fw = ImageTaken(@)]
               v == [w EXCEPT !.fw.stage = @ + 1]
    <3>1. m = RawImage(y, o) /\ f = k
      BY <2>2
    <3>2. HoldCompletion(s.fw) = [s.fw EXCEPT !.held = TRUE]
      <4>1. Expect(s.fw, s.fw.action = "enroll" /\ s.fw.active /\ ~s.fw.held)
              = s.fw
        BY <1>1, <1>2 DEF Expect, Device
      <4> QED
        BY <4>1 DEF HoldCompletion
    <3>3. y = [z EXCEPT !.ctx = d, !.fw = g]
      <4> HIDE DEF last
      <4> QED
        BY <1>4, <3>2 DEF State
    <3>4. /\ g \in Device /\ g.breach = s.fw.breach /\ g.st = s.fw.st
          /\ g.action = s.fw.action /\ g.finger = s.fw.finger
          /\ h \in Device /\ h.stage = g.stage /\ h.action = g.action
      <4>1. /\ g \in Device /\ g.breach = s.fw.breach /\ g.st = s.fw.st
            /\ g.action = s.fw.action /\ g.finger = s.fw.finger
        <5> HIDE DEF last
        <5>1. CASE last
          BY <1>1, <5>1 DEF Device
        <5>2. CASE ~last
          BY <1>1, <5>2
        <5> QED
          BY <5>1, <5>2
      <4> HIDE DEF g
      <4>2. h \in Device /\ h.stage = g.stage /\ h.action = g.action
        BY <4>1 DEF Device
      <4> QED
        BY <4>1, <4>2
    <3>5. ImageTaken(g) = h
      <4> HIDE DEF g
      <4>1. Expect(g, g.st = "CAPTURE") = g
        BY <1>1, <1>2, <3>4 DEF Expect, Device
      <4> QED
        BY <4>1 DEF ImageTaken
    <3> HIDE DEF d, g, y
    <3>6. y \in State /\ y.fw = g /\ y.ctx = d /\ y.usb = s.usb /\ y.left = s.left
      BY <1>4, <1>9, <3>3, <3>4 DEF State
    <3> HIDE DEF h, k
    <3>7. w \in State /\ w.fw = h /\ w.ctx = d /\ w.usb = s.usb /\ w.left = s.left
      BY <3>4, <3>5, <3>6 DEF State
    <3>8. RawImage(y, o) = EnrollMaybeAwait(v)
      BY <1>2, <3>4, <3>6 DEF RawImage
    <3> HIDE DEF w, m
    <3>9. v \in State /\ v.fw = k /\ v.ctx = d /\ v.usb = s.usb /\ v.left = s.left
      <4>1. v = [w EXCEPT !.fw = k]
        BY <3>7 DEF State, k
      <4> QED
        BY <1>7, <3>7, <4>1 DEF State
    <3> HIDE DEF v
    <3>10. EnrollMaybeAwait(v) = v
      BY <1>7, <3>9 DEF EnrollMaybeAwait
    <3> QED
      BY <3>1, <3>8, <3>9, <3>10
  <2> QED
    BY <2>1, <2>2
<1> HIDE DEF m, t, f, d, last
<1>12. t = m
  BY <1>1, <1>4, <1>5, <1>9, <1>11 DEF FailsIfPoisoned
<1>13. Framework(f)
  BY <1>1, <1>8 DEF Framework
<1>14. InStep(f, "sampled")
  BY <1>2, <1>8 DEF InStep
<1>15. StillActive(s, f, d)
  <2>1. ~d.known
    BY <1>4, <1>9 DEF Framed, Active, Keeps, Context
  <2>2. /\ ~d.fence /\ ~d.pending /\ ~d.nonquiescent /\ ~d.scheduled
        /\ d.consumed /\ d.claimed
    BY <1>1, <1>4, <1>9 DEF Works, Serves, Keeps, Terminal
  <2>3. d.held = f.held
    BY <1>8, <1>9, <1>10 DEF Context, Device
  <2> QED
    BY <1>1, <1>3, <1>4, <1>8, <1>9, <1>13, <1>14, <2>1, <2>2, <2>3
       DEF StillActive, Keeps
<1>16. Framed(t) /\ Rel(s, t) /\ t.fw.action = s.fw.action
  BY <1>11, <1>12, <1>15, ActiveKeeps
<1> QED
  BY <1>16 DEF t, z

(* The image of a capture is matched, well or not.                          *)
LEMMA MatchHolds ==
  ASSUME NEW s, Framed(s), s.ctx.sub = "down", ~s.fw.cancelled,
         NEW o \in {"match", "nomatch", "retry", "unmatched"}
  PROVE  LET t == DeliverImage([s EXCEPT !.ctx.sub = "imaged"], o)
         IN Framed(t) /\ Rel(s, t) /\ t.fw.action = s.fw.action
            /\ t.fw.stage = s.fw.stage /\ t.ctx.sub = "imaged"
<1> DEFINE z == [s EXCEPT !.ctx.sub = "imaged"]
           c == [s.ctx EXCEPT !.sub = "imaged"]
           success == o \in {"match", "nomatch"}
           match == o = "match"
           d == [c EXCEPT !.known = TRUE, !.success = success, !.match = match,
                          !.terminal = @ \/ ~success \/ match]
           g == [s.fw EXCEPT !.st = "AWAIT_OFF"]
           e == IF o = "unmatched" THEN "error" ELSE "none"
           f == MaybeComplete(g, e)
           y == [z EXCEPT !.ctx.held = @ \/ FALSE, !.fw = @]
           w == [z EXCEPT !.fw = ImageTaken(@)]
           v == [w EXCEPT !.ctx.known = TRUE, !.ctx.success = success,
                          !.ctx.match = match,
                          !.ctx.terminal = @ \/ ~success \/ match]
           m == RawImage(z, o)
           t == DeliverImage(z, o)
<1>1. /\ s \in State /\ s.fw \in Device /\ s.ctx \in Context /\ Framework(s.fw)
      /\ ~Terminal(s) /\ s.fw.action # "none" /\ s.fw.active /\ s.ctx.actDone
      /\ Works(s) /\ Serves(s) /\ s.ctx.sync = "pass" /\ ~s.ctx.poisoned
      /\ s.ctx.held = s.fw.held /\ InStep(s.fw, s.ctx.sub) /\ ~s.fw.breach
      /\ s.ctx.action = s.fw.action
  BY FramedIs
<1>2. /\ s.fw.st = "CAPTURE" /\ s.fw.err = "none" /\ s.fw.action \in Capture
      /\ ~s.fw.held /\ s.fw.stage # Stages /\ s.fw.finger
  BY <1>1 DEF InStep, Binding
<1>3. "imaged" \in Session \cup (Binding \ {"complete"})
  BY DEF Session, Lifecycle
<1>4. /\ z \in State /\ z.fw = s.fw /\ z.ctx = c /\ z.usb = s.usb
      /\ z.left = s.left
      /\ c \in Context /\ Keeps(s.ctx, c) /\ c.gen = s.ctx.gen
      /\ c.fence = s.ctx.fence /\ c.poisoned = s.ctx.poisoned
      /\ c.actDone = s.ctx.actDone /\ c.st = s.ctx.st
      /\ c.sync = s.ctx.sync /\ c.held = s.ctx.held /\ c.sub = "imaged"
  BY <1>3, MovedIs
<1> HIDE DEF z, c
<1>5. t = FailsIfPoisoned(RawImage(y, o))
  <2>1. ~Terminal(z)
    BY <1>1, <1>4 DEF Terminal
  <2>2. ~(Terminal(z) \/ z.fw.cancelled) /\ o \notin {"broken", "accept", "again"}
    BY <1>4, <2>1
  <2> QED
    BY <2>2 DEF DeliverImage
<1>6. y = z
  <2>1. [c EXCEPT !.held = @ \/ FALSE] = c
    BY <1>4 DEF Context
  <2>2. y = [z EXCEPT !.ctx = [c EXCEPT !.held = @ \/ FALSE], !.fw = s.fw]
    BY <1>4 DEF State
  <2> HIDE DEF y
  <2>3. y = [z EXCEPT !.ctx = z.ctx, !.fw = z.fw]
    BY <1>4, <2>1, <2>2
  <2> QED
    BY <1>4, <2>3 DEF State
<1>7. /\ g \in Device /\ g.st = "AWAIT_OFF" /\ g.active
      /\ g.finger /\ g.open = s.fw.open /\ g.action = s.fw.action
      /\ g.err = "none" /\ ~g.held /\ g.breach = s.fw.breach
      /\ g.cancelled = s.fw.cancelled /\ g.idle = s.fw.idle
      /\ g.stage = s.fw.stage
  BY <1>1, <1>2 DEF Device
<1>8. ImageTaken(s.fw) = g
  <2>1. Expect(s.fw, s.fw.st = "CAPTURE") = s.fw
    BY <1>1, <1>2 DEF Expect, Device
  <2> QED
    BY <2>1 DEF ImageTaken
<1> HIDE DEF g
<1>9. Framework(g)
  BY <1>1, <1>7 DEF Framework
<1>10. e \in {"none", "error", "cancelled"}
  OBVIOUS
<1>11. /\ f \in Device /\ Framework(f) /\ f.active /\ f.action = g.action
       /\ f.st = g.st /\ f.stage = g.stage /\ f.finger = g.finger
       /\ f.held = g.held
  <2>1. ASSUME NEW x \in {"none", "error", "cancelled"}
        PROVE  LET q == MaybeComplete(g, x)
               IN /\ q \in Device /\ Framework(q) /\ q.active
                  /\ q.action = g.action /\ q.st = g.st /\ q.stage = g.stage
                  /\ q.finger = g.finger /\ q.held = g.held
    <3>1. g \in Device /\ Framework(g) /\ g.active
      BY <1>7, <1>9
    <3> QED
      BY <3>1, MaybeCompleteIs
  <2> HIDE DEF e
  <2> QED
    BY <1>10, <2>1
<1>12. success \in BOOLEAN /\ match \in BOOLEAN
  OBVIOUS
<1>13. /\ d \in Context /\ d.known /\ (d.terminal <=> c.terminal \/ ~success \/ match)
       /\ d.success = success /\ d.match = match
       /\ d.gen = c.gen /\ d.fence = c.fence /\ d.poisoned = c.poisoned
       /\ d.actDone = c.actDone /\ d.st = c.st /\ d.sync = c.sync
       /\ d.held = c.held /\ d.sub = c.sub /\ d.seq = c.seq
       /\ d.pending = c.pending /\ d.nonquiescent = c.nonquiescent
       /\ d.scheduled = c.scheduled /\ d.consumed = c.consumed
       /\ d.action = c.action /\ d.closedEpoch = c.closedEpoch
       /\ d.claimed = c.claimed
  <2> HIDE DEF success, match
  <2> DEFINE b == c.terminal \/ ~success \/ match
             q == [c EXCEPT !.known = TRUE, !.success = success,
                            !.match = match, !.terminal = b]
  <2>1. b \in BOOLEAN /\ d = q
    OBVIOUS
  <2> HIDE DEF b, d
  <2>3. c \in Context /\ success \in BOOLEAN /\ match \in BOOLEAN
    BY <1>4, <1>12
  <2>4. q \in Context
    BY <2>1, <2>3 DEF Context
  <2>2. /\ q \in Context /\ q.known /\ q.terminal = b
        /\ q.success = success /\ q.match = match
        /\ q.gen = c.gen /\ q.fence = c.fence /\ q.poisoned = c.poisoned
        /\ q.actDone = c.actDone /\ q.st = c.st /\ q.sync = c.sync
        /\ q.held = c.held /\ q.sub = c.sub /\ q.seq = c.seq
        /\ q.pending = c.pending /\ q.nonquiescent = c.nonquiescent
        /\ q.scheduled = c.scheduled /\ q.consumed = c.consumed
        /\ q.action = c.action /\ q.closedEpoch = c.closedEpoch
        /\ q.claimed = c.claimed
    BY <2>3, <2>4 DEF Context
  <2> HIDE DEF q
  <2> QED
    BY <2>1, <2>2 DEF b
<1>14. w \in State /\ w.fw = g /\ w.ctx = c /\ w.usb = s.usb /\ w.left = s.left
  BY <1>4, <1>7, <1>8 DEF State
<1> HIDE DEF w
<1>15. v \in State /\ v.fw = g /\ v.ctx = d /\ v.usb = s.usb /\ v.left = s.left
  <2> HIDE DEF success, match
  <2>1. v = [w EXCEPT !.ctx = d]
    BY <1>4, <1>12, <1>14 DEF State, Context
  <2> HIDE DEF v, d
  <2> QED
    BY <1>13, <1>14, <2>1 DEF State
<1>16. ResultKnown(w, success, match) = v
  <2>1. w.ctx.action = w.fw.action /\ ~c.pending
    BY <1>1, <1>4, <1>7, <1>14 DEF Works, Keeps
  <2>2. ResultKnown(w, success, match) = CompleteIfDrained(v)
    <3> HIDE DEF success, match, d
    <3> QED
      BY <2>1 DEF ResultKnown
  <2> HIDE DEF v, success, match, d
  <2> QED
    BY <1>13, <1>15, <2>1, <2>2 DEF CompleteIfDrained
<1>17. m = [v EXCEPT !.fw = f]
  <2>1. s.fw.action # "enroll"
    BY <1>2 DEF Capture
  <2>2. m = [ResultKnown(w, success, match) EXCEPT !.fw = MaybeComplete(@, e)]
    BY <1>4, <2>1 DEF RawImage, w
  <2> HIDE DEF v, success, match, d, f, e
  <2> QED
    BY <1>15, <1>16, <2>2 DEF State, f
<1> HIDE DEF f, v, m, t, d, y
<1>18. m \in State /\ m.fw = f /\ m.ctx = d /\ m.usb = s.usb /\ m.left = s.left
  BY <1>11, <1>15, <1>17 DEF State
<1>19. t = m
  BY <1>1, <1>4, <1>5, <1>6, <1>13, <1>18 DEF FailsIfPoisoned, m
<1>20. InStep(f, "imaged")
  BY <1>2, <1>7, <1>11 DEF InStep, Binding
<1>21. StillActive(s, f, d)
  <2> HIDE DEF success, match
  <2>1. d.held = f.held
    BY <1>1, <1>2, <1>4, <1>7, <1>11, <1>13 DEF Context, Device
  <2>2. /\ ~d.fence /\ ~d.pending /\ ~d.nonquiescent /\ ~d.scheduled
        /\ d.consumed /\ d.claimed
    BY <1>1, <1>4, <1>13 DEF Works, Serves, Keeps, Terminal
  <2>3. d.known /\ (~d.success \/ d.match) => d.terminal
    BY <1>12, <1>13
  <2>4. /\ d.st = s.ctx.st /\ d.gen = s.ctx.gen /\ d.seq = s.ctx.seq
        /\ d.action = s.ctx.action /\ d.closedEpoch = s.ctx.closedEpoch
        /\ d.sync = "pass" /\ ~d.poisoned /\ d.actDone /\ d.sub = "imaged"
    BY <1>1, <1>4, <1>13 DEF Keeps
  <2> QED
    BY <1>3, <1>7, <1>11, <1>13, <1>20, <2>1, <2>2, <2>3, <2>4
       DEF StillActive
<1>22. Framed(t) /\ Rel(s, t) /\ t.fw.action = s.fw.action
  BY <1>18, <1>19, <1>21, ActiveKeeps
<1>23. t.fw.stage = s.fw.stage /\ t.ctx.sub = "imaged"
  BY <1>4, <1>7, <1>11, <1>13, <1>18, <1>19
<1> QED
  BY <1>22, <1>23 DEF t, z

-----------------------------------------------------------------------------
(* Frames.                                                                  *)

(* An image that nobody can use ends the operation.                         *)
LEMMA ImageFails ==
  ASSUME NEW s, Framed(s), NEW x \in Session \cup (Binding \ {"complete"}),
         NEW o, o = "broken" \/ s.fw.cancelled
  PROVE  LET t == DeliverImage([s EXCEPT !.ctx.sub = x], o)
         IN Ends(s, t) /\ t.ctx.sub = "failed"
<1> DEFINE z == [s EXCEPT !.ctx.sub = x]
           over == Terminal(z) \/ z.fw.cancelled
           e == IF over THEN "cancelled" ELSE "error"
<1>1. z.fw = s.fw
  BY FramedIs DEF State
<1>2. DeliverImage(z, o) = EngineFails(z, e)
  BY <1>1 DEF DeliverImage
<1>3. e \in {"error", "cancelled"}
  OBVIOUS
<1> HIDE DEF e
<1> QED
  BY <1>2, <1>3, MovedFails

(* A frame of the secure session or the lifecycle of a capture.             *)
LEMMA SessionFrame ==
  ASSUME NEW s, Framed(s), s.ctx.sub \in Session, NEW m \in Frames(s),
         m # "bad"
  PROVE  Frame(s, Consume(s, m))
<1> DEFINE t == Consume(s, m)
<1>1. /\ Working(s) /\ ~s.ctx.fence /\ s.ctx.sync = "pass"
      /\ s.fw \in Device /\ s.ctx \in Context /\ s \in State
      /\ s.fw.action # "none" /\ Troubled(s) /\ Core(s)
      /\ InStep(s.fw, s.ctx.sub) /\ s.usb.in = "none" /\ ~s.usb.rFence
  BY FramedIs, WorkingIs DEF Framed
<1>2. s.ctx.sub \notin Exchange /\ s.ctx.sub \notin Binding
  BY DEF Exchange, Session, Lifecycle, Binding
<1>3. Rel(s, s)
  BY DEF Rel
<1>4. Frame(s, s)
  BY <1>1, <1>3 DEF Frame
<1>5. t = CASE m = "send" -> Send(s)
            [] m = "stop" -> Send([s EXCEPT !.ctx.sub = "calibrate"])
            [] OTHER -> IF m = "step" THEN s ELSE LifecycleFrame(s, m)
  BY <1>1, <1>2 DEF Consume
<1> HIDE DEF t
<1>6. CASE m = "send"
  <2>1. t = Send(s)
    BY <1>5, <1>6
  <2> QED
    BY <1>3, <2>1, SendFrame DEF t
<1>7. CASE m = "step"
  BY <1>4, <1>5, <1>7 DEF t
<1>8. CASE m = "stop"
  <2> DEFINE z == [s EXCEPT !.ctx.sub = "calibrate"]
             c == [s.ctx EXCEPT !.sub = "calibrate"]
  <2>1. s.ctx.sub = "secure"
    <3>1. s.ctx.sub \in {"secure", "calibrate", "down", "imaged"}
      BY DEF Session, Lifecycle
    <3> QED
      BY <1>8, <3>1 DEF Frames, Moves, ImageOutcome, Exchange
  <2>2. t = Send(z)
    BY <1>5, <1>8
  <2>3. "calibrate" \in Session
    BY DEF Session, Lifecycle
  <2>4. /\ z \in State /\ z.fw = s.fw /\ z.ctx = c /\ z.usb = s.usb
        /\ z.left = s.left /\ c \in Context /\ Keeps(s.ctx, c)
        /\ c.gen = s.ctx.gen /\ c.fence = s.ctx.fence
        /\ c.poisoned = s.ctx.poisoned /\ c.actDone = s.ctx.actDone
        /\ c.st = s.ctx.st /\ c.sync = s.ctx.sync /\ c.held = s.ctx.held
        /\ c.sub = "calibrate"
    BY <2>3, MovedIs
  <2> HIDE DEF z, c
  <2>5. InStep(s.fw, "calibrate")
    BY <1>1, <2>1 DEF InStep, Binding
  <2>6. StillActive(s, s.fw, c)
    <3>1. ~c.known
      BY <2>1, <2>4 DEF Framed, Active, Keeps, Context
    <3>2. /\ ~c.pending /\ ~c.nonquiescent /\ ~c.scheduled
          /\ c.consumed /\ c.claimed /\ ~c.poisoned
      BY <1>1, <2>4 DEF Troubled, Works, Serves, Keeps, Framed, Active, Live
    <3> QED
      BY <1>1, <2>3, <2>4, <2>5, <3>1, <3>2, FramedIs
         DEF StillActive, Keeps
  <2>7. Framed(z) /\ Rel(s, z)
    BY <2>4, <2>6, ActiveKeeps
  <2> QED
    BY <2>2, <2>4, <2>7, SendFrame DEF t
<1>9. CASE m \notin {"send", "step", "stop"}
  <2>1. t = LifecycleFrame(s, m)
    BY <1>5, <1>9
  <2>2. CASE s.ctx.sub = "secure"
    BY <1>9, <2>2 DEF Frames, Moves, Exchange
  <2>3. CASE s.ctx.sub = "calibrate"
    <3>1. IF s.fw.action = "enroll" THEN m = "armed" ELSE m = "touch"
      BY <1>9, <2>3 DEF Frames, Moves, Exchange
    <3>2. CASE m = "touch"
      <4> DEFINE r == ReportFinger([s EXCEPT !.ctx.sub = "down"], TRUE)
      <4>1. t = Send(r)
        BY <2>1, <3>2 DEF LifecycleFrame
      <4>2. /\ Framed(r) /\ Rel(s, r) /\ r.fw.action = s.fw.action
            /\ r.fw.stage = s.fw.stage
        BY <2>3, <3>1, <3>2, TouchHolds
      <4> HIDE DEF r
      <4> QED
        BY <4>1, <4>2, SendFrame DEF t
    <3>3. CASE m = "armed" /\ ~Drained(s.usb)
      <4>1. t = EngineFails(s, "error")
        BY <2>1, <3>3 DEF LifecycleFrame
      <4> QED
        BY <1>1, <4>1, EngineFailsHolds DEF Frame, t
    <3>4. CASE m = "armed" /\ Drained(s.usb)
      <4> DEFINE z == [s EXCEPT !.ctx.sub = "await"]
                 c == [s.ctx EXCEPT !.sub = "await"]
      <4>1. t = z
        BY <2>1, <3>4 DEF LifecycleFrame
      <4>2. "await" \in Binding \ {"complete"}
        BY DEF Binding
      <4>3. /\ z \in State /\ z.fw = s.fw /\ z.ctx = c /\ z.usb = s.usb
            /\ z.left = s.left /\ c \in Context /\ Keeps(s.ctx, c)
            /\ c.gen = s.ctx.gen /\ c.fence = s.ctx.fence
            /\ c.poisoned = s.ctx.poisoned /\ c.actDone = s.ctx.actDone
            /\ c.st = s.ctx.st /\ c.sync = s.ctx.sync
            /\ c.held = s.ctx.held /\ c.sub = "await"
        BY <4>2, MovedIs
      <4> HIDE DEF z, c
      <4>4. InStep(s.fw, "await")
        BY <1>1, <2>3, <3>1, <3>4 DEF InStep, Binding
      <4>5. StillActive(s, s.fw, c)
        <5>1. ~c.known
          BY <2>3, <4>3 DEF Framed, Active, Keeps, Context
        <5>2. /\ ~c.pending /\ ~c.nonquiescent /\ ~c.scheduled
              /\ c.consumed /\ c.claimed /\ ~c.poisoned
          BY <1>1, <4>3
             DEF Troubled, Works, Serves, Keeps, Framed, Active, Live
        <5> QED
          BY <1>1, <4>2, <4>3, <4>4, <5>1, <5>2, FramedIs
             DEF StillActive, Keeps
      <4>6. Framed(z) /\ Rel(s, z)
        BY <4>3, <4>5, ActiveKeeps
      <4> QED
        BY <4>1, <4>3, <4>6, FramedIs DEF Frame, Framed, t
    <3> QED
      BY <3>1, <3>2, <3>3, <3>4
  <2>4. CASE s.ctx.sub = "down"
    <3> DEFINE r == DeliverImage([s EXCEPT !.ctx.sub = "imaged"], m)
    <3>1. m \in {"broken", "match", "nomatch", "retry", "unmatched"}
      <4>1. s.fw.action \in Capture /\ s.fw.action # "enroll"
        BY <1>1, <2>4 DEF InStep, Capture
      <4> QED
        BY <1>9, <2>4, <4>1 DEF Frames, Moves, Exchange, ImageOutcome
    <3>2. t = SendUnlessFailed(r)
      BY <2>1, <3>1 DEF LifecycleFrame
    <3>3. CASE m = "broken" \/ s.fw.cancelled
      <4>1. "imaged" \in Session \cup (Binding \ {"complete"})
        BY DEF Session, Lifecycle
      <4>2. Ends(s, r) /\ r.ctx.sub = "failed"
        BY <3>3, <4>1, ImageFails
      <4> HIDE DEF r
      <4> QED
        BY <3>2, <4>2 DEF SendUnlessFailed, Frame, t
    <3>4. CASE m # "broken" /\ ~s.fw.cancelled
      <4>1. /\ Framed(r) /\ Rel(s, r) /\ r.fw.action = s.fw.action
            /\ r.fw.stage = s.fw.stage /\ r.ctx.sub = "imaged"
        BY <2>4, <3>1, <3>4, MatchHolds
      <4> HIDE DEF r
      <4>2. t = Send(r)
        BY <3>2, <4>1 DEF SendUnlessFailed
      <4> QED
        BY <4>1, <4>2, SendFrame DEF t
    <3> QED
      BY <3>3, <3>4
  <2>5. CASE s.ctx.sub = "imaged"
    <3>1. m = "lift"
      BY <1>9, <2>5 DEF Frames, Moves, Exchange
    <3>2. t = ReportFinger([s EXCEPT !.ctx.sub = "stop"], FALSE)
      BY <2>1, <3>1 DEF LifecycleFrame
    <3> QED
      BY <2>5, <3>2, LiftEndsCapture DEF Frame, t
  <2> QED
    BY <2>2, <2>3, <2>4, <2>5 DEF Session, Lifecycle
<1> QED
  BY <1>6, <1>7, <1>8, <1>9

(* A frame of the enrollment binding, which is not sending.                 *)
LEMMA BindingTakes ==
  ASSUME NEW s, Framed(s), s.ctx.sub \in Binding, ~s.usb.out,
         NEW m \in Frames(s), m # "bad"
  PROVE  Frame(s, Consume(s, m))
<1> DEFINE t == Consume(s, m)
<1>1. /\ Working(s) /\ ~s.ctx.fence /\ s.ctx.sync = "pass"
      /\ s.ctx.sub \in {"await", "contact", "sampled"}
      /\ InStep(s.fw, s.ctx.sub) /\ s.usb.in = "none" /\ ~s.usb.rFence
  BY FramedIs, WorkingIs
     DEF Framed, Active, Session, Lifecycle, Binding
<1>2. s.ctx.sub \notin Exchange
  BY DEF Exchange, Binding
<1>3. Rel(s, s)
  BY DEF Rel
<1>4. Frame(s, s)
  BY <1>1, <1>3 DEF Frame
<1>5. m # "stop"
  BY <1>1 DEF Frames, Moves, Exchange, ImageOutcome
<1>6. t = IF m = "send" THEN Send(s) ELSE BindingFrame(s, m)
  BY <1>1, <1>2, <1>5 DEF Consume
<1> HIDE DEF t
<1>7. CASE m = "send"
  <2>1. t = Send(s)
    BY <1>6, <1>7
  <2> QED
    BY <1>3, <2>1, SendFrame DEF t
<1>8. CASE m = "step"
  BY <1>4, <1>6, <1>8 DEF BindingFrame, t
<1>9. CASE m \notin {"send", "step"}
  <2>1. t = BindingFrame(s, m)
    BY <1>6, <1>9
  <2>2. CASE s.ctx.sub = "await"
    <3> DEFINE r == ReportFinger([s EXCEPT !.ctx.sub = "contact"], TRUE)
    <3>1. m = "touch"
      BY <1>9, <2>2 DEF Frames, Moves, Exchange
    <3>2. t = Send(r)
      BY <2>1, <3>1 DEF BindingFrame
    <3>3. /\ Framed(r) /\ Rel(s, r) /\ r.fw.action = s.fw.action
          /\ r.fw.stage = s.fw.stage
      BY <2>2, TouchHolds
    <3> HIDE DEF r
    <3> QED
      BY <3>2, <3>3, SendFrame DEF t
  <2>3. CASE s.ctx.sub = "contact"
    <3>1. m \in {"broken", "accept", "again"}
      BY <1>9, <2>3 DEF Frames, Moves, Exchange, ImageOutcome
    <3>2. t = DeliverImage([s EXCEPT !.ctx.sub = "sampled"], m)
      BY <2>1, <3>1 DEF BindingFrame
    <3>3. CASE m = "broken" \/ s.fw.cancelled
      <4>1. "sampled" \in Session \cup (Binding \ {"complete"})
        BY DEF Binding
      <4> QED
        BY <3>2, <3>3, <4>1, ImageFails DEF Frame, t
    <3>4. CASE m # "broken" /\ ~s.fw.cancelled
      <4>1. Framed(t) /\ Rel(s, t) /\ t.fw.action = s.fw.action
        BY <2>3, <3>1, <3>2, <3>4, SampleHolds
      <4> QED
        BY <4>1, FramedIs DEF Frame, Framed, t
    <3> QED
      BY <3>3, <3>4
  <2>4. CASE s.ctx.sub = "sampled"
    <3>1. m = "lift"
      BY <1>9, <2>4 DEF Frames, Moves, Exchange
    <3>2. CASE ~s.ctx.held
      <4> DEFINE r == ReportFinger([s EXCEPT !.ctx.sub = "await"], FALSE)
      <4>1. t = Send(r)
        BY <2>1, <3>1, <3>2 DEF BindingFrame
      <4>2. /\ Framed(r) /\ Rel(s, r) /\ r.fw.action = s.fw.action
            /\ r.fw.stage = s.fw.stage
        BY <2>4, <3>2, LiftHolds
      <4> HIDE DEF r
      <4> QED
        BY <4>1, <4>2, SendFrame DEF t
    <3>3. CASE s.ctx.held
      <4> DEFINE r == ReleaseCompletion(
                        [ReportFinger(s, FALSE) EXCEPT
                           !.ctx.sub = IF @ = "failed" THEN @ ELSE "complete"])
      <4>1. t = r
        BY <2>1, <3>1, <3>3 DEF BindingFrame
      <4>2. Ends(s, r)
        BY <2>4, <3>3, LiftEndsEnrollment
      <4> QED
        BY <4>1, <4>2 DEF Frame, t
    <3> QED
      BY <3>2, <3>3
  <2> QED
    BY <1>1, <2>2, <2>3, <2>4
<1> QED
  BY <1>7, <1>8, <1>9

LEMMA ConsumeHolds ==
  ASSUME NEW s, Working(s), s.ctx.sync = "pass", s.usb.in = "none",
         ~s.usb.rFence, NEW m \in Frames(s)
  PROVE  Frame(s, Consume(s, m))
<1> DEFINE t == Consume(s, m)
<1>1. /\ s \in State /\ s.ctx \in Context /\ s.usb \in Usb /\ Epoch(s.usb)
      /\ Core(s) /\ Troubled(s) /\ ~s.ctx.fence
  BY WorkingIs
<1>2. CASE m = "bad" \/ (s.ctx.sub \in Binding /\ s.usb.out)
  <2>1. t = EngineFails(s, "error")
    BY <1>1, <1>2 DEF Consume
  <2> QED
    BY <1>1, <2>1, EngineFailsHolds DEF Frame
<1>3. CASE m # "bad" /\ ~(s.ctx.sub \in Binding /\ s.usb.out) /\ Active(s)
  <2>1. Framed(s)
    BY <1>1, <1>3 DEF Framed
  <2>2. s.ctx.sub \in Session \cup Binding
    BY <1>3 DEF Active
  <2> QED
    BY <1>3, <2>1, <2>2, SessionFrame, BindingTakes
<1>4. CASE m # "bad" /\ ~(s.ctx.sub \in Binding /\ s.usb.out) /\ Activating(s)
  <2> DEFINE y == IF m = "step" THEN s.ctx.reply ELSE m
             c == [s.ctx EXCEPT !.reply = y]
             z == [s EXCEPT !.ctx.reply = IF m = "step" THEN @ ELSE m]
  <2>1. s.ctx.sub \in Exchange
    BY <1>4 DEF Activating
  <2>2. m \in {"step", "next", "ready", "refuse", "pair"}
    <3>1. CASE s.ctx.reply # "open"
      BY <1>4, <2>1, <3>1 DEF Frames, Exchange
    <3>2. CASE s.ctx.reply = "open"
      <4>1. m \in {"step", "bad", "next", "ready", "refuse"} \cup {"pair"}
        BY <2>1, <3>2 DEF Frames, Exchange
      <4> QED
        BY <1>4, <4>1
    <3> QED
      BY <3>1, <3>2
  <2>3. t = Progress(z)
    <3>1. ~(m = "bad" \/ (s.ctx.sub \in Binding /\ s.usb.out))
      BY <1>4
    <3>2. m \notin {"send", "stop"}
      BY <2>2
    <3>3. s.ctx.sub \notin Binding
      BY <2>1 DEF Exchange, Binding
    <3> QED
      BY <1>1, <2>1, <3>1, <3>2, <3>3 DEF Consume
  <2>4. y \in {"open", "next", "ready", "pair", "refuse"}
    BY <1>1, <2>2 DEF Context
  <2>5. z = [s EXCEPT !.ctx = c]
    BY <1>1 DEF State
  <2> HIDE DEF y, z, t
  <2>6. /\ c \in Context /\ Keeps(s.ctx, c) /\ c.gen = s.ctx.gen
        /\ c.fence = s.ctx.fence /\ c.st = s.ctx.st
        /\ c.actDone = s.ctx.actDone /\ c.poisoned = s.ctx.poisoned
        /\ c.held = s.ctx.held /\ c.sync = "pass" /\ c.sub = s.ctx.sub
    BY <1>1, <2>4 DEF Context, Keeps
  <2> HIDE DEF c
  <2>7. /\ z \in State /\ z.fw = s.fw /\ z.ctx = c /\ z.usb = s.usb
        /\ z.left = s.left
    BY <1>1, <2>5, <2>6 DEF State
  <2>8. StillActivating(s, z.ctx, z.usb)
    BY <1>1, <1>4, <2>1, <2>6, <2>7 DEF StillActivating, Activating, Live
  <2>9. Stays(s, z) /\ Activating(z)
    BY <1>4, <2>7, <2>8, <1>1, ExchangeKeeps
  <2>10. Goes(s, t)
    <3>1. Goes(z, t)
      BY <2>3, <2>6, <2>7, <2>9, ProgressHolds DEF Stays, Working
    <3> QED
      BY <2>9, <3>1, GoesAfter
  <2>11. CASE Stays(s, t) /\ Hears(t)
    <3>1. t.ctx.sub # "none" /\ Working(t)
      BY <2>1, <2>11 DEF Stays, Rel, Exchange
    <3>2. t.ctx.sync = "pass"
      BY <3>1 DEF Working, Activating, Active
    <3>3. t.usb.in # "sync"
      BY <2>11, <3>1, <3>2 DEF Hears, Working, Activating, Active
    <3>4. t.fw.action # "none"
      BY <3>1, WorkingIs
    <3> QED
      BY <2>11, <3>1, <3>2, <3>3, <3>4 DEF Frame, Stays, Same, t
  <2> QED
    BY <2>10, <2>11 DEF Goes, Frame, t
<1> QED
  BY <1>2, <1>3, <1>4 DEF Working

-----------------------------------------------------------------------------
(* Transfers come back.                                                     *)

LEMMA RestIs ==
  ASSUME NEW s, Core(s), Rest(s)
  PROVE  /\ s \in State /\ s.usb \in Usb /\ s.ctx \in Context
         /\ Epoch(s.usb) /\ s.ctx.gen = 0
         /\ s.ctx.seq = 0 => s.usb = NewUsb
         /\ s.ctx.seq # 0 => s.usb.fence /\ s.ctx.fence
         /\ s.ctx.pending => Deactivating(s)
         /\ s.fw.action = "none" => Idle(s)
BY PartsAre
   DEF Core, Rest, Idle, Giving, Doomed, Deactivating, Over, Works, Serves

LEMMA RestKeeps ==
  ASSUME NEW s, Core(s), Rest(s), s.ctx.seq # 0,
         NEW t \in State, t.fw = s.fw, t.left = s.left, Epoch(t.usb),
         t.usb.fence = s.usb.fence, t.usb.out => s.usb.out,
         t.usb.in \in {s.usb.in, "none"}, Keeps(s.ctx, t.ctx),
         t.ctx.gen = 0, t.ctx.st = s.ctx.st, t.ctx.fence = s.ctx.fence,
         t.ctx.actDone = s.ctx.actDone, t.ctx.sync = s.ctx.sync,
         s.ctx.poisoned => t.ctx.poisoned,
         \/ t.ctx.sub = s.ctx.sub
         \/ t.ctx.sub = "failed" /\ s.ctx.sub \notin Exchange \cup {"none"}
  PROVE  Ends(s, t)
<1>1. Core(t)
  BY DEF Core, Keeps
<1>2. Rel(s, t) /\ Same(s, t)
  BY DEF Rel, Same, Keeps
<1>3. DoneIfOk(s, t)
  BY DEF DoneIfOk
<1>4. Over(s) => Over(t)
  BY DEF Over, Keeps
<1>5. Drained(s.usb) => Drained(t.usb)
  BY DEF Drained
<1>6. Serves(s) => Serves(t)
  BY DEF Serves, Keeps
<1>7. Works(s) => Works(t)
  BY <1>6 DEF Works, Keeps
<1>8. CASE Idle(s)
  <2>1. s.ctx # NewContext
    BY DEF NewContext
  <2> QED
    BY <1>1, <1>2, <1>3, <1>4, <1>8, <2>1 DEF Ends, Rest, Idle, Keeps
<1>9. CASE Giving(s)
  BY <1>1, <1>2, <1>3, <1>4, <1>9 DEF Ends, Rest, Giving, Keeps
<1>10. CASE Doomed(s)
  BY <1>1, <1>2, <1>3, <1>4, <1>7, <1>10 DEF Ends, Rest, Doomed
<1>11. CASE Deactivating(s)
  <2>1. Deactivating(t)
    BY <1>4, <1>5, <1>6, <1>11 DEF Deactivating, Keeps
  <2> QED
    BY <1>1, <1>2, <1>3, <2>1 DEF Ends, Rest
<1> QED
  BY <1>8, <1>9, <1>10, <1>11 DEF Rest

(* The drain is noticed: only a deactivation cares.                         *)
LEMMA NotifyRest ==
  ASSUME NEW s, Core(s), Rest(s)
  PROVE  LET t == MaybeNotifyDrained(s)
         IN /\ Ends(s, t)
            /\ s.fw.action = "none" =>
                 t.fw = s.fw /\ t.ctx = s.ctx /\ Drained(t.usb) = Drained(s.usb)
<1> DEFINE t == MaybeNotifyDrained(s)
           u == Notified(s.usb)
           n == [s EXCEPT !.usb = u]
<1>1. /\ s \in State /\ s.usb \in Usb /\ s.ctx \in Context /\ Epoch(s.usb)
      /\ s.ctx.gen = 0
  BY RestIs
<1>2. CASE ~MustNotify(s.usb)
  <2>1. t = s
    BY <1>2 DEF MaybeNotifyDrained
  <2>2. Ends(s, s)
    BY DEF Ends, Rel, DoneIfOk, Same
  <2> QED
    BY <2>1, <2>2
<1>3. CASE MustNotify(s.usb) /\ s.ctx.pending
  <2>1. Deactivating(s) /\ s.fw.action # "none"
    BY <1>3, RestIs DEF Deactivating, Serves
  <2>2. Settles(s, t)
    BY <2>1, NotifyHolds
  <2> HIDE DEF t
  <2>3. Rest(t) /\ Same(s, t)
    BY <1>1, <2>2 DEF Settles, Rest, Same, Idle
  <2> QED
    BY <2>1, <2>2, <2>3 DEF Settles, Ends, t
<1>4. CASE MustNotify(s.usb) /\ ~s.ctx.pending
  <2>1. /\ u \in Usb /\ Epoch(u) /\ u.fence = s.usb.fence /\ u.in = s.usb.in
        /\ u.out = s.usb.out
    BY <1>1, NotifiedIs
  <2>2. t = ContextUsbDrained(n)
    BY <1>1, <1>4 DEF MaybeNotifyDrained, State
  <2> HIDE DEF t, u
  <2>3. /\ n \in State /\ n.fw = s.fw /\ n.ctx = s.ctx /\ n.usb = u
        /\ n.left = s.left
    BY <1>1, <2>1 DEF State
  <2> HIDE DEF n
  <2>4. t = n
    BY <1>4, <2>2, <2>3 DEF ContextUsbDrained
  <2>5. s.ctx.seq # 0
    <3>1. ~NewUsb.fence
      BY DEF NewUsb
    <3> QED
      BY <1>4, <3>1, RestIs DEF MustNotify
  <2>6. Keeps(s.ctx, n.ctx)
    BY <2>3 DEF Keeps
  <2>7. Ends(s, n)
    BY <1>1, <2>1, <2>3, <2>5, <2>6, RestKeeps
  <2> QED
    BY <2>1, <2>3, <2>4, <2>7 DEF Drained, t
<1> QED
  BY <1>2, <1>3, <1>4

LEMMA NotifyEnds ==
  ASSUME NEW s, NEW m, Ends(s, m)
  PROVE  Ends(s, MaybeNotifyDrained(m))
<1> DEFINE t == MaybeNotifyDrained(m)
<1>1. /\ Ends(m, t)
      /\ m.fw.action = "none" =>
           t.fw = m.fw /\ t.ctx = m.ctx /\ Drained(t.usb) = Drained(m.usb)
  BY NotifyRest DEF Ends
<1> HIDE DEF t
<1>2. CASE m.fw.action = "none"
  BY <1>1, <1>2 DEF Ends, Rel, DoneIfOk, Same, t
<1>3. CASE m.fw.action # "none"
  BY <1>1, <1>3 DEF Ends, Rel, DoneIfOk, Same, t
<1> QED
  BY <1>2, <1>3

LEMMA NotifyLeads ==
  ASSUME NEW s, NEW m, Leads(s, m)
  PROVE  Leads(s, MaybeNotifyDrained(m))
<1>1. CASE Ends(s, m)
  BY <1>1, NotifyEnds DEF Leads
<1>2. CASE Working(m) /\ Hears(m) /\ Rel(s, m)
  <2>1. MaybeNotifyDrained(m) = m
    BY <1>2, WorkingIs DEF MaybeNotifyDrained, MustNotify
  <2> QED
    BY <1>2, <2>1 DEF Leads
<1> QED
  BY <1>1, <1>2 DEF Leads

LEMMA GoesLeads ==
  ASSUME NEW s, NEW m, NEW t, Stays(s, m), Goes(m, t)
  PROVE  Leads(s, t)
BY GoesAfter DEF Goes, Stays, Leads

LEMMA InWorks ==
  ASSUME NEW s, Working(s), Hears(s), s.usb.in # "none",
         NEW o \in InOutcomes(s)
  PROVE  Leads(s, InReturns(s, o))
<1> DEFINE v == InReturned(s.usb)
           u == TokenReturned(v)
           w == RouterFailed(u)
           n == [s EXCEPT !.usb = v]
           m == [s EXCEPT !.usb = u]
           k == [s EXCEPT !.usb = w]
           p == IF Delivers(s.usb) THEN Routed(s, o)
                ELSE [s EXCEPT !.usb = InReturned(@)]
           q == InTold(p, s.usb.in, s.usb.inGen, o)
<1>1. /\ s \in State /\ s.usb \in Usb /\ Epoch(s.usb) /\ ~s.usb.fence
      /\ s.ctx.gen = s.usb.gen /\ Core(s) /\ s.usb.in \in {"sync", "rx"}
  BY WorkingIs DEF Usb
<1>2. InReturns(s, o) = MaybeNotifyDrained(q)
  BY DEF InReturns
<1>3. CASE s.usb.in = "sync"
  <2>1. Activating(s) /\ s.ctx.sync = "active"
    BY <1>3 DEF Working, Activating, Active, Hears
  <2>2. /\ v \in Usb /\ Epoch(v) /\ v.in = "none" /\ v.out = s.usb.out
        /\ v.fence = s.usb.fence /\ v.gen = s.usb.gen /\ v.sync = s.usb.sync
        /\ ~Delivers(s.usb)
    BY <1>1, <1>3, InReturnedIs
  <2>3. ~s.usb.out
    BY <1>1, <2>1 DEF Core, Usb
  <2>4. o \in {"quiet", "data", "error"}
    BY <1>1, <1>3 DEF InOutcomes
  <2>5. s.usb.inGen = s.ctx.gen
    BY <1>1, <1>3 DEF Epoch
  <2>6. p = n
    BY <1>1, <2>2 DEF State
  <2> HIDE DEF v, n, p
  <2>7. Stays(s, n) /\ n.ctx = s.ctx /\ n.usb = v /\ Activating(n)
    BY <1>1, <2>1, <2>2, <2>3, UsbKeeps DEF n
  <2>8. q = SyncCompleted(n, n.ctx.gen, o)
    BY <1>3, <2>5, <2>6, <2>7 DEF InTold
  <2> HIDE DEF q
  <2>9. Drained(n.usb)
    BY <2>2, <2>3, <2>7 DEF Drained
  <2>10. Goes(n, q)
    BY <2>1, <2>4, <2>7, <2>8, <2>9, SyncCompletedHolds DEF Stays, Working
  <2> QED
    BY <1>2, <2>7, <2>10, GoesLeads, NotifyLeads
<1>4. CASE s.usb.in = "rx"
  <2>1. s.ctx.sync = "pass"
    BY <1>1, <1>4 DEF Core
  <2>2. /\ u \in Usb /\ Epoch(u) /\ u.in = "none" /\ u.out = s.usb.out
        /\ u.fence = s.usb.fence /\ u.gen = s.usb.gen /\ u.sync = s.usb.sync
        /\ ~u.rFence /\ Delivers(s.usb)
    BY <1>1, <1>4, InReturnedIs
  <2>3. /\ w \in Usb /\ Epoch(w) /\ w.in = "none" /\ w.fence = s.usb.fence
        /\ w.gen = s.usb.gen /\ w.sync = s.usb.sync
    BY <1>1, <1>4, <2>2, InReturnedIs
  <2>4. o \in {"error", "partial"} \cup Frames(s)
    BY <1>4, <2>2 DEF InOutcomes
  <2>5. p = CASE o = "error" -> k
              [] o = "partial" -> m
              [] OTHER -> Consume(m, o)
    BY <1>1, <2>2 DEF Routed, State
  <2>6. q = Listen(p)
    BY <1>4 DEF InTold
  <2> HIDE DEF u, w, p
  <2>7. Stays(s, m) /\ m.ctx = s.ctx /\ m.usb = u /\ m.fw = s.fw
    BY <2>1, <2>2, UsbKeeps
  <2>8. Stays(s, k) /\ k.ctx = s.ctx /\ k.usb = w
    BY <2>1, <2>3, UsbKeeps
  <2> HIDE DEF m, k, q
  <2>9. CASE o = "error"
    <3>1. Goes(k, q)
      BY <2>1, <2>3, <2>5, <2>6, <2>8, <2>9, ListenHolds DEF Stays, Goes
    <3> QED
      BY <1>2, <2>8, <3>1, GoesLeads, NotifyLeads
  <2>10. CASE o = "partial"
    <3>1. Goes(m, q)
      BY <2>1, <2>2, <2>5, <2>6, <2>7, <2>10, ListenHolds DEF Stays, Goes
    <3> QED
      BY <1>2, <2>7, <3>1, GoesLeads, NotifyLeads
  <2>11. CASE o \notin {"error", "partial"}
    <3>1. p = Consume(m, o)
      BY <2>5, <2>11
    <3>2. o \in Frames(m)
      BY <2>4, <2>7, <2>11 DEF Frames
    <3>3. Frame(m, p)
      BY <2>1, <2>2, <2>7, <3>1, <3>2, ConsumeHolds DEF Stays
    <3>4. CASE Ends(m, p)
      <4>1. Ends(s, p)
        BY <2>7, <3>4, EndsAfter
      <4>2. p.ctx.seq # 0
        BY <2>7, <3>4, WorkingIs DEF Stays, Ends, Rel
      <4>3. q = p
        BY <2>6, <3>4, <4>2, RestListens DEF Ends
      <4> QED
        BY <1>2, <4>1, <4>3, NotifyLeads DEF Leads
    <3>5. CASE /\ Working(p) /\ Rel(m, p) /\ p.fw.action = m.fw.action
               /\ p.ctx.sync = "pass" /\ p.usb.in # "sync"
               /\ p.fw.stage = m.fw.stage \/ ~p.usb.rFence
      <4>1. \/ Stays(p, q) /\ Hears(q)
            \/ Ends(p, q) /\ p.usb.rFence
        BY <2>6, <3>5, ListenHolds
      <4>2. CASE Stays(p, q) /\ Hears(q)
        <5>1. Rel(s, q)
          BY <2>7, <3>5, <4>2 DEF Stays, Rel
        <5>2. Leads(s, q)
          BY <4>2, <5>1 DEF Stays, Leads
        <5> QED
          BY <1>2, <5>2, NotifyLeads
      <4>3. CASE Ends(p, q) /\ p.usb.rFence
        <5>1. Ends(m, q)
          BY <3>5, <4>3, EndsFrom
        <5>2. Ends(s, q)
          BY <2>7, <5>1, EndsAfter
        <5> QED
          BY <1>2, <5>2, NotifyLeads DEF Leads
      <4> QED
        BY <4>1, <4>2, <4>3
    <3> QED
      BY <3>3, <3>4, <3>5 DEF Frame
  <2> QED
    BY <2>9, <2>10, <2>11
<1> QED
  BY <1>1, <1>3, <1>4

LEMMA InRests ==
  ASSUME NEW s, Core(s), Rest(s), s.usb.in # "none", NEW o
  PROVE  Ends(s, InReturns(s, o))
<1> DEFINE v == InReturned(s.usb)
           n == [s EXCEPT !.usb = v]
           p == IF Delivers(s.usb) THEN Routed(s, o)
                ELSE [s EXCEPT !.usb = InReturned(@)]
           q == InTold(p, s.usb.in, s.usb.inGen, o)
<1>0. InReturns(s, o) = MaybeNotifyDrained(q)
  BY DEF InReturns
<1>1. s \in State /\ s.usb \in Usb /\ Epoch(s.usb) /\ s.ctx.gen = 0
  BY RestIs
<1>2. s.ctx.seq # 0 /\ s.usb.fence
  BY RestIs DEF NewUsb
<1>3. /\ v \in Usb /\ Epoch(v) /\ v.in = "none" /\ v.out = s.usb.out
      /\ v.fence = s.usb.fence /\ ~Delivers(s.usb)
  BY <1>1, <1>2, InReturnedIs
<1>4. p = n
  BY <1>1, <1>3 DEF State
<1> HIDE DEF v, p
<1>5. /\ n \in State /\ n.fw = s.fw /\ n.ctx = s.ctx /\ n.usb = v
      /\ n.left = s.left
  BY <1>1, <1>3 DEF State
<1> HIDE DEF n
<1>6. Ends(s, n)
  <2>1. Keeps(s.ctx, n.ctx)
    BY <1>5 DEF Keeps
  <2> QED
    BY <1>1, <1>2, <1>3, <1>5, <2>1, RestKeeps
<1>7. q = n
  <2>1. s.usb.inGen # n.ctx.gen
    BY <1>1, <1>5 DEF Epoch
  <2>2. Listen(n) = n
    BY <1>2, <1>5, <1>6, RestListens DEF Ends
  <2> QED
    BY <1>4, <2>1, <2>2 DEF InTold, SyncCompleted
<1> HIDE DEF q
<1> QED
  BY <1>0, <1>6, <1>7, NotifyEnds

(* The handshake ended, with the receive of the first command armed.        *)
LEMMA HandedOver ==
  ASSUME NEW s, Core(s), Active(s), s.ctx.sub = "secure"
  PROVE  LET t == [s EXCEPT !.ctx.sub = "calibrate"]
         IN Stays(s, t) /\ t.ctx.sub = "calibrate" /\ t.usb = s.usb
<1> DEFINE c == [s.ctx EXCEPT !.sub = "calibrate"]
           t == [s EXCEPT !.ctx.sub = "calibrate"]
<1>1. /\ s \in State /\ s.ctx \in Context /\ s.fw \in Device /\ Live(s)
      /\ Works(s) /\ Serves(s)
  BY WorkingIs DEF Working
<1>2. "calibrate" \in Subs /\ "calibrate" \in Session
  BY DEF Subs, Session, Lifecycle
<1>3. /\ c \in Context /\ Keeps(s.ctx, c) /\ c.gen = s.ctx.gen
      /\ c.fence = s.ctx.fence /\ c.poisoned = s.ctx.poisoned
      /\ c.actDone = s.ctx.actDone /\ c.st = s.ctx.st
      /\ c.sync = s.ctx.sync /\ c.held = s.ctx.held /\ c.sub = "calibrate"
  BY <1>1, <1>2 DEF Context, Keeps
<1>4. t = [s EXCEPT !.ctx = c]
  BY <1>1 DEF State
<1> HIDE DEF c, t
<1>5. t \in State /\ t.fw = s.fw /\ t.ctx = c /\ t.usb = s.usb /\ t.left = s.left
  BY <1>1, <1>3, <1>4 DEF State
<1>6. Core(t)
  BY <1>3, <1>5 DEF Core, Keeps
<1>7. Serves(t)
  BY <1>1, <1>3, <1>5 DEF Serves, Keeps
<1>8. Works(t)
  BY <1>1, <1>3, <1>5, <1>7 DEF Works, Keeps
<1>9. Live(t)
  BY <1>1, <1>3, <1>5, <1>8 DEF Live, Keeps
<1>10. InStep(s.fw, "calibrate")
  BY DEF Active, InStep, Binding
<1>11. Active(t)
  <2>1. ~c.known
    BY <1>1, <1>3 DEF Active, Context, Keeps
  <2> QED
    BY <1>2, <1>3, <1>5, <1>9, <1>10, <2>1 DEF Active
<1> QED
  BY <1>3, <1>5, <1>6, <1>11 DEF Stays, Working, Rel, Same, Keeps, t

LEMMA OutWorks ==
  ASSUME NEW s, Working(s), Hears(s), s.usb.out, NEW o \in OutOutcomes(s)
  PROVE  Leads(s, OutReturns(s, o))
<1> DEFINE u == OutReturned(s.usb)
           m == [s EXCEPT !.usb = OutReturned(@)]
           q == OutConsumed(m, s.usb.outGen, o)
<1>1. /\ s \in State /\ s.usb \in Usb /\ Epoch(s.usb) /\ ~s.usb.fence
      /\ s.ctx.gen = s.usb.gen /\ Core(s) /\ s.ctx.sync = "pass"
  BY WorkingIs DEF Core
<1>2. /\ u \in Usb /\ Epoch(u) /\ u.in = s.usb.in /\ u.fence = s.usb.fence
      /\ u.gen = s.usb.gen /\ u.sync = s.usb.sync
  BY <1>1, OutReturnedIs
<1>3. OutReturns(s, o) = MaybeNotifyDrained(q)
  BY DEF OutReturns
<1>4. m = [s EXCEPT !.usb = u]
  BY <1>1 DEF State
<1> HIDE DEF u, m
<1>5. /\ Stays(s, m) /\ m.ctx = s.ctx /\ m.usb = u /\ m.fw = s.fw
      /\ Activating(m) = Activating(s)
  BY <1>1, <1>2, <1>4, UsbKeeps
<1>6. /\ Working(m) /\ Core(m) /\ Troubled(m) /\ ~m.ctx.fence
      /\ m.ctx.sub \in Exchange \cup Session \cup Binding
      /\ m.ctx.sub \notin {"none", "failed"}
  <2>1. m.ctx.sub \in Exchange \cup Session \cup Binding
    BY <1>1, <1>5 DEF Stays, Working, Activating, Active
  <2> QED
    BY <1>5, <2>1, WorkingIs
       DEF Stays, Exchange, Session, Lifecycle, Binding
<1>7. s.usb.outGen = m.ctx.gen
  BY <1>1, <1>5 DEF Epoch
<1>8. m.usb.in # "sync"
  BY <1>1, <1>2, <1>5, <1>6 DEF Hears
<1>9. q = CASE o = "error" -> EngineFails(m, "error")
            [] o = "send" -> Send(m)
            [] o = "stop" -> Send([m EXCEPT !.ctx.sub = "calibrate"])
            [] o = "ok" /\ m.ctx.sub \in Exchange -> Progress(m)
            [] o = "ok" /\ m.ctx.sub \in Binding -> Listen(m)
            [] OTHER -> m
  BY <1>6, <1>7 DEF OutConsumed
<1> HIDE DEF q
<1>10. o \in {"ok", "error", "send", "stop"}
  BY DEF OutOutcomes
<1>11. o \in {"send", "stop"} => s.ctx.sub = "secure"
  BY DEF OutOutcomes
<1> SUFFICES Leads(s, q)
  BY <1>3, NotifyLeads
<1>12. CASE o = "error"
  <2>1. q = EngineFails(m, "error")
    BY <1>9, <1>12
  <2> QED
    BY <1>5, <1>6, <2>1, EngineFailsHolds, EndsAfter DEF Leads
<1>13. CASE o = "send" \/ o = "stop"
  <2> DEFINE k == IF o = "send" THEN m
                  ELSE [m EXCEPT !.ctx.sub = "calibrate"]
  <2>1. q = Send(k)
    BY <1>9, <1>13
  <2>2. s.ctx.sub = "secure"
    BY <1>11, <1>13
  <2>3. Active(m)
    BY <1>5, <1>6, <2>2 DEF Working, Activating, Exchange
  <2>4. /\ Stays(m, k) /\ k.ctx.sub \in {"secure", "calibrate"}
        /\ k.usb = m.usb
    <3>1. CASE o = "send"
      BY <1>5, <1>6, <2>2, <3>1 DEF Stays, Rel, Same
    <3>2. CASE o # "send"
      BY <1>5, <1>6, <2>2, <2>3, <3>2, HandedOver
    <3> QED
      BY <3>1, <3>2
  <2> HIDE DEF k
  <2>5. "secure" \in Session /\ "calibrate" \in Session
    BY DEF Session, Lifecycle
  <2>6. m.usb.in = "rx"
    BY <1>2, <1>5, <2>2, <2>5 DEF Hears
  <2>7. Working(k) /\ k.ctx.sync = "pass"
    <3>1. Working(k) /\ ~Activating(k)
      BY <2>4 DEF Stays, Activating, Exchange
    <3> QED
      BY <3>1 DEF Working, Active
  <2>8. \/ /\ Stays(k, q) /\ q.ctx = k.ctx /\ q.usb.in = k.usb.in
        \/ Ends(k, q)
    BY <2>1, <2>7, SendHolds
  <2>9. CASE Stays(k, q) /\ q.ctx = k.ctx /\ q.usb.in = k.usb.in
    <3>1. Hears(q)
      <4>1. q.ctx.sub \notin Binding /\ q.ctx.sync # "active"
        BY <2>4, <2>7, <2>9 DEF Binding
      <4> QED
        BY <2>4, <2>6, <2>9, <4>1 DEF Hears
    <3> QED
      BY <1>5, <2>4, <2>9, <3>1, StaysAfter DEF Leads, Stays
  <2>10. CASE Ends(k, q)
    BY <1>5, <2>4, <2>10, EndsAfter DEF Leads
  <2> QED
    BY <2>8, <2>9, <2>10
<1>14. CASE o = "ok" /\ m.ctx.sub \in Exchange
  <2>0. m.ctx.sub \notin Binding
    BY <1>14 DEF Exchange, Binding
  <2>1. q = Progress(m)
    BY <1>9, <1>14, <2>0
  <2>2. Activating(m)
    <3>1. m.ctx.sub \notin Session \cup Binding
      BY <1>14 DEF Exchange, Session, Lifecycle, Binding
    <3> QED
      BY <1>6, <3>1 DEF Working, Active
  <2>3. Goes(m, q)
    BY <1>1, <1>5, <1>6, <1>8, <2>1, <2>2, ProgressHolds
  <2> QED
    BY <1>5, <2>3, GoesLeads
<1>15. CASE o = "ok" /\ m.ctx.sub \in Binding
  <2>1. m.ctx.sub \notin Exchange
    BY <1>15 DEF Exchange, Binding
  <2>2. q = Listen(m)
    BY <1>9, <1>15, <2>1
  <2>3. Goes(m, q)
    BY <1>1, <1>5, <1>6, <1>8, <2>2, ListenHolds DEF Goes
  <2> QED
    BY <1>5, <2>3, GoesLeads
<1>16. CASE o = "ok" /\ m.ctx.sub \notin Exchange \cup Binding
  <2>1. q = m
    BY <1>9, <1>16
  <2>2. m.ctx.sub \in Session
    BY <1>6, <1>16
  <2>3. Hears(m)
    BY <1>1, <1>2, <1>5, <1>16, <2>2 DEF Hears
  <2> QED
    BY <1>5, <2>1, <2>3 DEF Stays, Leads
<1> QED
  BY <1>10, <1>12, <1>13, <1>14, <1>15, <1>16

(* An engine that gives up after the end only poisons the context.          *)
LEMMA RestFails ==
  ASSUME NEW s, Core(s), Rest(s), s.ctx.seq # 0,
         s.ctx.sub \notin Exchange \cup {"none"},
         NEW x \in Subs \ Exchange
  PROVE  Ends(s, EngineFails([s EXCEPT !.ctx.sub = x], "error"))
<1> DEFINE c == [s.ctx EXCEPT !.sub = "failed"]
           d == [s.ctx EXCEPT !.sub = "failed", !.poisoned = TRUE]
           z == [s EXCEPT !.ctx.sub = x]
           y == [z EXCEPT !.ctx.sub = "failed"]
           t == EngineFails(z, "error")
<1>1. /\ s \in State /\ s.ctx \in Context /\ s.usb \in Usb /\ Epoch(s.usb)
      /\ s.usb.fence /\ s.ctx.fence /\ s.ctx.gen = 0
  BY RestIs
<1>2. "failed" \in Subs
  BY DEF Subs
<1>3. c \in Context /\ c.fence /\ [c EXCEPT !.poisoned = TRUE] = d
  BY <1>1, <1>2 DEF Context
<1>4. /\ d \in Context /\ Keeps(s.ctx, d) /\ d.gen = 0 /\ d.st = s.ctx.st
      /\ d.fence = s.ctx.fence /\ d.actDone = s.ctx.actDone
      /\ d.sync = s.ctx.sync /\ d.poisoned /\ d.sub = "failed"
  BY <1>1, <1>2 DEF Context, Keeps
<1>5. z.ctx.sub = x /\ z.usb = s.usb
  BY <1>1 DEF State, Context
<1>6. y = [s EXCEPT !.ctx = c]
  BY <1>1 DEF State, Context
<1> HIDE DEF z, c, d
<1>7. t = ProtocolFailure(BackendCancel(y), "error")
  BY <1>5 DEF EngineFails
<1> HIDE DEF y, t
<1>8. y \in State /\ y.fw = s.fw /\ y.ctx = c /\ y.usb = s.usb /\ y.left = s.left
  BY <1>1, <1>3, <1>6 DEF State
<1>9. t = Poison(y)
  BY <1>1, <1>3, <1>7, <1>8 DEF BackendCancel, ProtocolFailure
<1>10. t \in State /\ t.fw = s.fw /\ t.ctx = d /\ t.usb = s.usb /\ t.left = s.left
  BY <1>3, <1>8, <1>9, PoisonIs
<1>11. Ends(s, t)
  BY <1>1, <1>4, <1>10, RestKeeps
<1> QED
  BY <1>11 DEF t, z

LEMMA OutRests ==
  ASSUME NEW s, Core(s), Rest(s), s.usb.out, NEW o \in OutOutcomes(s)
  PROVE  Ends(s, OutReturns(s, o))
<1> DEFINE u == OutReturned(s.usb)
           m == [s EXCEPT !.usb = OutReturned(@)]
           g == s.usb.outGen
           q == OutConsumed(m, g, o)
<1>1. /\ s \in State /\ s.usb \in Usb /\ Epoch(s.usb) /\ s.ctx.gen = 0
      /\ s.ctx.seq # 0 /\ s.usb.fence /\ s.ctx.fence /\ s.ctx \in Context
  BY RestIs DEF NewUsb
<1>2. /\ u \in Usb /\ Epoch(u) /\ u.in = s.usb.in /\ u.fence = s.usb.fence
      /\ ~u.out
  BY <1>1, OutReturnedIs
<1>3. OutReturns(s, o) = MaybeNotifyDrained(q)
  BY DEF OutReturns
<1>4. m = [s EXCEPT !.usb = u]
  BY <1>1 DEF State
<1> HIDE DEF u, m
<1>5. /\ m \in State /\ m.fw = s.fw /\ m.ctx = s.ctx /\ m.usb = u
      /\ m.left = s.left
  BY <1>1, <1>2, <1>4 DEF State
<1>6. Ends(s, m)
  <2>1. Keeps(s.ctx, m.ctx)
    BY <1>5 DEF Keeps
  <2> QED
    BY <1>1, <1>2, <1>5, <2>1, RestKeeps
<1>7. Core(m) /\ Rest(m)
  BY <1>6 DEF Ends
<1> HIDE DEF q, g
<1>8. /\ m.ctx.sub = "none" => q = m
      /\ m.ctx.sub = "failed" => q = Poison(m)
      /\ m.ctx.sub \in Exchange => q = m
  BY <1>1, <1>5 DEF OutConsumed, Exchange, q
<1>9. Ends(m, q) \/ q = m
  <2>1. CASE m.ctx.sub = "failed"
    <3> DEFINE d == [m.ctx EXCEPT !.poisoned = TRUE]
    <3>1. /\ d \in Context /\ Keeps(m.ctx, d) /\ d.gen = 0
          /\ d.st = m.ctx.st /\ d.fence = m.ctx.fence
          /\ d.actDone = m.ctx.actDone /\ d.sync = m.ctx.sync
          /\ d.poisoned /\ d.sub = m.ctx.sub
      BY <1>1, <1>5 DEF Context, Keeps
    <3> HIDE DEF d
    <3>2. /\ q \in State /\ q.fw = m.fw /\ q.usb = m.usb /\ q.left = m.left
          /\ q.ctx = d
      BY <1>5, <1>8, <2>1, PoisonIs DEF d
    <3> QED
      BY <1>1, <1>2, <1>5, <1>7, <3>1, <3>2, RestKeeps
  <2>2. CASE m.ctx.sub \notin Exchange \cup {"none", "failed"}
    <3> DEFINE f(x) == EngineFails([m EXCEPT !.ctx.sub = x], "error")
    <3>1. m.ctx.sub \in Subs \ Exchange
      BY <1>1, <1>5, <2>2 DEF Context
    <3>2. m = [m EXCEPT !.ctx.sub = m.ctx.sub]
      BY <1>1, <1>5 DEF State, Context
    <3>3. Ends(m, EngineFails(m, "error"))
      <4>1. Ends(m, f(m.ctx.sub))
        BY <1>1, <1>5, <1>7, <2>2, <3>1, RestFails
      <4> QED
        BY <3>2, <4>1
    <3>4. q = CASE o = "error" -> EngineFails(m, "error")
                [] o = "send" -> Send(m)
                [] o = "stop" -> Send([m EXCEPT !.ctx.sub = "calibrate"])
                [] o = "ok" /\ m.ctx.sub \in Exchange -> Progress(m)
                [] o = "ok" /\ m.ctx.sub \in Binding -> Listen(m)
                [] OTHER -> m
      BY <2>2 DEF OutConsumed, q
    <3>5. CASE o = "error"
      BY <3>3, <3>4, <3>5
    <3>6. CASE o = "send"
      <4>1. q = Send(m)
        BY <3>4, <3>6
      <4>2. Send(m) = EngineFails(m, "error")
        BY <1>1, <1>2, <1>5 DEF Send, CanSubmit
      <4> QED
        BY <3>3, <4>1, <4>2
    <3>7. CASE o = "stop"
      <4> DEFINE z == [m EXCEPT !.ctx.sub = "calibrate"]
      <4>1. q = Send(z)
        BY <3>4, <3>7
      <4>2. z.usb = m.usb
        BY <1>5 DEF State
      <4>3. Send(z) = EngineFails(z, "error")
        <5> HIDE DEF z
        <5> QED
          BY <1>1, <1>2, <1>5, <4>2 DEF Send, CanSubmit
      <4>4. "calibrate" \in Subs \ Exchange
        BY DEF Subs, Session, Lifecycle, Exchange
      <4>5. Ends(m, f("calibrate"))
        BY <1>1, <1>5, <1>7, <2>2, <4>4, RestFails
      <4> QED
        BY <4>1, <4>3, <4>5
    <3>8. CASE o \notin {"error", "send", "stop"}
      <4>1. Listen(m) = m
        BY <1>1, <1>5, <1>7, RestListens
      <4> QED
        BY <2>2, <3>4, <3>8, <4>1
    <3> QED
      BY <3>5, <3>6, <3>7, <3>8
  <2> QED
    BY <1>8, <2>1, <2>2
<1>10. Ends(s, q)
  BY <1>5, <1>6, <1>9, EndsFrom DEF Ends
<1> QED
  BY <1>3, <1>10, NotifyEnds

-----------------------------------------------------------------------------
(* Whole steps.                                                             *)

LEMMA BecomesIs ==
  ASSUME NEW t \in State, Becomes(t)
  PROVE  Now' = t
BY DEF Becomes, Now, State

LEMMA EndsGood ==
  ASSUME NEW s, NEW t, Ends(s, t)
  PROVE  Good(s, t)
<1>1. t.ctx.seq \in Nat
  BY PartsAre, DeviceAssumption DEF Ends, Core, Context, Gens
<1> QED
  BY <1>1 DEF Ends, Good, Holds, Rel, Epochs, Released

LEMMA LeadsGood ==
  ASSUME NEW s, NEW t, Leads(s, t)
  PROVE  Good(s, t)
<1>1. CASE Ends(s, t)
  BY <1>1, EndsGood
<1>2. CASE Working(t) /\ Hears(t) /\ Rel(s, t)
  <2>1. t.ctx.seq \in Nat /\ t.fw.action # "none"
    BY <1>2, WorkingIs, DeviceAssumption DEF Context, Gens
  <2> QED
    BY <1>2, <2>1
       DEF Working, Good, Holds, Rel, Epochs, Released, DoneIfOk
<1> QED
  BY <1>1, <1>2 DEF Leads

(* Where a state that holds can be.                                         *)
LEMMA HoldsIs ==
  ASSUME NEW s, Holds(s)
  PROVE  /\ Core(s) /\ s \in State /\ s.fw \in Device /\ s.ctx \in Context
         /\ s.usb \in Usb /\ s.left \in Remains /\ Framework(s.fw)
         /\ (Working(s) /\ Hears(s)) \/ Rest(s) \/ Absent(s)
         /\ ~s.fw.open => Absent(s)
         /\ s.fw.open /\ s.fw.action = "none" => Rest(s) /\ Idle(s)
         /\ s.left.cancel # 0 => Rest(s) /\ Giving(s)
         /\ s.usb.in # "none" \/ s.usb.out => ~Absent(s)
<1>1. /\ Core(s) /\ s \in State /\ s.fw \in Device /\ s.ctx \in Context
      /\ s.usb \in Usb /\ s.left \in Remains /\ Framework(s.fw)
      /\ (Working(s) /\ Hears(s)) \/ Rest(s) \/ Absent(s)
  BY PartsAre DEF Holds, Working, Core
<1>2. CASE Working(s) /\ Hears(s)
  <2>1. s.fw.action # "none" /\ s.fw.open /\ s.left.cancel = 0
    BY <1>1, <1>2, WorkingIs DEF Framework, Serves
  <2>2. ~Absent(s)
    BY <2>1 DEF Absent
  <2> QED
    BY <1>1, <1>2, <2>1, <2>2
<1>3. CASE Rest(s)
  <2>1. s.fw.action # "none" => s.fw.open
    BY <1>1 DEF Framework
  <2>2. ~Absent(s) /\ s.fw.open
    BY <1>3, <2>1
       DEF Rest, Idle, Giving, Doomed, Deactivating, Works, Serves, Absent
  <2>3. s.left.cancel # 0 => Giving(s)
    BY <1>3 DEF Rest, Idle, Giving, Doomed, Deactivating, Works, Serves
  <2>4. s.fw.action = "none" => Idle(s)
    BY <1>1, <1>3, RestIs
  <2> QED
    BY <1>1, <1>3, <2>2, <2>3, <2>4
<1>4. CASE Absent(s)
  <2>1. NewUsb.in = "none" /\ ~NewUsb.out
    BY DEF NewUsb
  <2> QED
    BY <1>1, <1>4, <2>1 DEF Absent
<1> QED
  BY <1>1, <1>2, <1>3, <1>4

LEMMA NewContextIs ==
  /\ NewContext \in Context /\ ~NewContext.known /\ NewContext.seq = 0
  /\ NoContext \in Context /\ ~NoContext.known /\ NoContext.st = "NONE"
  /\ NoContext.seq = 0
<1>1. NewContext \in Context /\ ~NewContext.known /\ NewContext.seq = 0
  BY ZeroIs, DeviceAssumption DEF NewContext, Context, Subs
<1> QED
  BY <1>1 DEF NoContext, Context

LEMMA InitHolds == Init => IInv
<1> SUFFICES ASSUME Init PROVE Holds(Now)
  BY DEF IInv
<1>1. /\ Now.fw = NewDevice /\ Now.ctx = NoContext /\ Now.usb = NewUsb
      /\ Now.left = NothingLeft
  BY DEF Init, Now
<1>2. NewDevice \in Device /\ Framework(NewDevice)
  BY ZeroIs DEF NewDevice, Device, Framework
<1>3. NoContext \in Context /\ ~NoContext.known
  BY NewContextIs
<1>4. NothingLeft \in Remains
  BY DeviceAssumption DEF NothingLeft, Remains
<1>5. Now \in State
  BY <1>1, <1>2, <1>3, <1>4, NewUsbIs DEF Now, State
<1>6. Core(Now)
  BY <1>1, <1>2, <1>3, <1>5, NewUsbIs DEF Core, Drained
<1>7. Absent(Now)
  BY <1>1 DEF Absent, NewDevice, NothingLeft
<1> QED
  BY <1>6, <1>7 DEF Holds

LEMMA OpenHolds ==
  ASSUME IInv, Open
  PROVE  Good(Now, Now')
<1> DEFINE s == Now
           f == [s.fw EXCEPT !.open = TRUE]
           t == [s EXCEPT !.fw.open = TRUE, !.ctx = NewContext, !.usb = NewUsb]
<1>1. /\ s \in State /\ s.fw \in Device /\ Framework(s.fw)
      /\ s.left \in Remains /\ Absent(s)
  BY HoldsIs DEF IInv, Open, Now
<1>2. s.left.finish <= MaxStale
  BY DEF Open, Now
<1> HIDE DEF s
<1>3. /\ f \in Device /\ f.open /\ f.action = "none"
      /\ Framework(f)
  BY <1>1 DEF Absent, Framework, Device
<1>4. /\ NewContext \in Context /\ ~NewContext.known
      /\ NewContext.seq = 0 /\ NewContext.gen = 0 /\ ~NewContext.pending
      /\ NewContext.sub = "none" /\ ~NewContext.scheduled
      /\ NewContext.st = "INACTIVE" /\ NewContext.closedEpoch = "none"
  BY ZeroIs, DeviceAssumption DEF NewContext, Context, Subs
<1>5. /\ t \in State /\ t.fw = f /\ t.ctx = NewContext /\ t.usb = NewUsb
      /\ t.left = s.left
  <2>1. t = [s EXCEPT !.fw = f, !.ctx = NewContext, !.usb = NewUsb]
    BY <1>1 DEF State
  <2> HIDE DEF f, t
  <2> QED
    BY <1>1, <1>3, <1>4, <2>1, NewUsbIs DEF State
<1>6. Now' = t
  <2>1. Becomes(t)
    BY DEF Open, s
  <2> QED
    BY <1>5, <2>1, BecomesIs
<1> HIDE DEF f, t
<1>7. Core(t)
  BY <1>3, <1>4, <1>5, NewUsbIs DEF Core, Drained
<1>8. Idle(t)
  <2>1. Over(t)
    BY <1>1, <1>2, <1>4, <1>5, DeviceAssumption DEF Over, Remains
  <2> QED
    BY <1>1, <1>3, <1>4, <1>5, <2>1 DEF Idle, Absent
<1>9. /\ ~s.ctx.poisoned /\ s.ctx.sub = "none" /\ s.fw.action = "none"
      /\ s.ctx.seq = 0
  BY <1>1 DEF Absent, NoContext, NewContext
<1>10. Good(s, t)
  BY <1>4, <1>5, <1>7, <1>8, <1>9
     DEF Good, Holds, Rest, Epochs, Released, DoneIfOk
<1> QED
  BY <1>6, <1>10 DEF s

LEMMA CloseHolds ==
  ASSUME IInv, Close
  PROVE  Good(Now, Now')
<1> DEFINE s == Now
           m == [s EXCEPT !.fw = Expect(@, ~fw.active)]
           z == SetFence(m)
           f == [s.fw EXCEPT !.open = FALSE]
           b == s.left.leaked \/ ~Drained(z.usb)
           l == [s.left EXCEPT !.leaked = b]
           t == [z EXCEPT !.fw.open = FALSE, !.ctx = NoContext,
                          !.usb = NewUsb,
                          !.left.leaked = @ \/ ~Drained(z.usb)]
<1>1. /\ s \in State /\ s.fw \in Device /\ Framework(s.fw) /\ Core(s)
      /\ s.left \in Remains /\ Idle(s) /\ s.fw = fw
  BY HoldsIs DEF IInv, Close, Now
<1>2. Becomes(t)
  BY DEF Close
<1> HIDE DEF s
<1>3. m = s
  <2>1. Expect(s.fw, ~fw.active) = s.fw
    BY <1>1 DEF Expect, Framework, Idle, Device
  <2> QED
    BY <1>1, <2>1 DEF State
<1> HIDE DEF m
<1>4. Core(z) /\ z \in State /\ z.fw = s.fw /\ z.left = s.left
  BY <1>1, <1>3, SetFenceIs DEF Idle, Core
<1> HIDE DEF z
<1>5. f \in Device /\ ~f.open /\ f.action = "none" /\ Framework(f)
  BY <1>1 DEF Idle, Framework, Device
<1>6. l \in Remains /\ l.cancel = 0
  <2>1. b \in BOOLEAN
    OBVIOUS
  <2> HIDE DEF b
  <2> QED
    BY <1>1, <2>1 DEF Idle, Remains
<1>7. NoContext \in Context /\ ~NoContext.known /\ NoContext.st = "NONE"
      /\ NoContext.seq = 0
  BY NewContextIs
<1>8. /\ t \in State /\ t.fw = f /\ t.ctx = NoContext /\ t.usb = NewUsb
      /\ t.left = l
  <2>1. t = [z EXCEPT !.fw = f, !.ctx = NoContext, !.usb = NewUsb, !.left = l]
    BY <1>4 DEF State
  <2> HIDE DEF f, l, t
  <2> QED
    BY <1>4, <1>5, <1>6, <1>7, <2>1, NewUsbIs DEF State
<1>9. Now' = t
  BY <1>2, <1>8, BecomesIs
<1> HIDE DEF f, l, t
<1>10. Core(t) /\ Absent(t)
  BY <1>5, <1>6, <1>7, <1>8, NewUsbIs DEF Core, Absent, Drained
<1>11. s.fw.action = "none" /\ s.ctx.seq \in Nat
  BY <1>1, PartsAre, DeviceAssumption DEF Idle, Context, Gens
<1>12. Good(s, t)
  BY <1>7, <1>8, <1>10, <1>11
     DEF Good, Holds, Epochs, Released, DoneIfOk
<1> QED
  BY <1>9, <1>12 DEF s

(* Cancelling during the activation gives it up; otherwise the framework    *)
(* will, from its idle callback.                                            *)
LEMMA CancelHolds ==
  ASSUME IInv, Cancel
  PROVE  Good(Now, Now')
<1> DEFINE s == Now
           f == [s.fw EXCEPT !.cancelled = TRUE, !.idle = TRUE]
           m == [s EXCEPT !.fw.cancelled = TRUE, !.fw.idle = TRUE]
           z == SetFence(m)
           c == [z.ctx EXCEPT !.poisoned = TRUE, !.gen = 0,
                              !.st = "INACTIVE", !.actDone = TRUE]
           l == [s.left EXCEPT !.cancel = @ + 1]
           r == [Poison(z) EXCEPT !.ctx.gen = 0, !.ctx.st = "INACTIVE",
                                  !.ctx.actDone = TRUE,
                                  !.left.cancel = @ + 1]
           t == IF s.ctx.st # "ACTIVATING" \/ s.ctx.actDone THEN m ELSE r
<1>1. /\ s \in State /\ s.fw \in Device /\ Framework(s.fw) /\ Core(s)
      /\ s.ctx \in Context /\ s.usb \in Usb /\ s.left \in Remains
      /\ s.fw.action # "none" /\ ~s.fw.cancelled
  BY HoldsIs DEF IInv, Cancel, Now
<1>2. \/ (Activating(s) \/ Active(s)) /\ Hears(s)
      \/ Deactivating(s) /\ Rest(s)
  BY <1>1 DEF IInv, Holds, Rest, Idle, Giving, Doomed, Absent
<1>3. Becomes(t)
  BY DEF Cancel, Now
<1> HIDE DEF s
<1>4. /\ f \in Device /\ Framework(f) /\ f.action = s.fw.action
      /\ f.stage = s.fw.stage /\ f.st = s.fw.st /\ f.active = s.fw.active
      /\ f.finger = s.fw.finger /\ f.err = s.fw.err /\ f.held = s.fw.held
      /\ f.cancelled
  BY <1>1 DEF Framework, Device
<1>5. m \in State /\ m.fw = f /\ m.ctx = s.ctx /\ m.usb = s.usb /\ m.left = s.left
  <2>1. m = [s EXCEPT !.fw = f]
    BY <1>1 DEF State
  <2> HIDE DEF f, m
  <2> QED
    BY <1>1, <1>4, <2>1 DEF State
<1> HIDE DEF f, m
<1>6. Core(m) /\ Rel(s, m) /\ Same(s, m) /\ DoneIfOk(s, m)
  BY <1>1, <1>4, <1>5 DEF Core, Rel, Same, DoneIfOk
<1>7. Serves(m) = Serves(s) /\ Works(m) = Works(s)
  BY <1>4, <1>5 DEF Works, Serves
<1>8. CASE Active(s) /\ Hears(s)
  <2>1. Active(m)
    <3>1. Live(m) = Live(s)
      BY <1>5, <1>7 DEF Live
    <3>2. InStep(f, s.ctx.sub) = InStep(s.fw, s.ctx.sub)
      BY <1>4 DEF InStep
    <3> QED
      BY <1>4, <1>5, <1>8, <3>1, <3>2 DEF Active
  <2>2. Hears(m)
    BY <1>5, <1>8 DEF Hears
  <2>3. t = m
    BY <1>8 DEF Active
  <2>4. m \in State
    BY <1>5
  <2>5. Leads(s, m)
    BY <1>6, <2>1, <2>2 DEF Leads, Working
  <2> HIDE DEF t
  <2>6. Now' = m
    BY <1>3, <2>3, <2>4, BecomesIs
  <2> QED
    BY <2>5, <2>6, LeadsGood DEF s
<1>9. CASE Deactivating(s)
  <2>1. Deactivating(m)
    BY <1>4, <1>5, <1>7, <1>9 DEF Deactivating, Over
  <2>2. Ends(s, m)
    <3>1. s.ctx.gen = 0
      BY <1>2, <1>9 DEF Rest, Deactivating, Activating, Active
    <3> QED
      BY <1>5, <1>6, <2>1, <3>1 DEF Ends, Rest
  <2>3. t = m
    BY <1>9 DEF Deactivating
  <2>4. m \in State
    BY <1>5
  <2> HIDE DEF t
  <2>5. Now' = m
    BY <1>3, <2>3, <2>4, BecomesIs
  <2> QED
    BY <2>2, <2>5, EndsGood DEF s
<1>10. CASE Activating(s)
  <2>1. /\ Serves(s) /\ Works(s) /\ ~s.ctx.pending /\ s.ctx.seq # 0
        /\ s.ctx.sub \in Exchange \cup {"none"} /\ ~s.ctx.scheduled
        /\ s.left.finish <= MaxStale /\ s.ctx.closedEpoch = "none"
        /\ s.left.cancel = 0 /\ ~s.fw.active
    BY <1>10 DEF Activating, Live, Works, Serves
  <2>2. s.ctx.sub \notin Session \cup (Binding \ {"complete"})
    BY <2>1 DEF Exchange, Session, Lifecycle, Binding
  <2>3. /\ Core(z) /\ z.fw = f /\ z.left = s.left
        /\ Keeps(s.ctx, z.ctx) /\ z.ctx.fence /\ z.ctx.sub = s.ctx.sub
        /\ z.usb.fence /\ z \in State /\ z.ctx \in Context
    BY <1>5, <1>6, <2>1, <2>2, SetFenceIs, PartsAre DEF Core
  <2> HIDE DEF z
  <2>4. /\ c \in Context /\ Keeps(z.ctx, c) /\ c.poisoned /\ c.gen = 0
        /\ c.st = "INACTIVE" /\ c.actDone /\ c.fence = z.ctx.fence
        /\ c.sub = z.ctx.sub /\ c.sync = z.ctx.sync
    BY <2>3, ZeroIs DEF Context, Keeps
  <2>5. l \in Remains /\ l.cancel = 1 /\ l.finish = s.left.finish
    BY <1>1, <2>1 DEF Remains
  <2>6. r \in State /\ r.fw = f /\ r.ctx = c /\ r.usb = z.usb /\ r.left = l
    <3>1. r = [z EXCEPT !.ctx = c, !.left = l]
      BY <2>3 DEF Poison, State, Context
    <3> HIDE DEF c, l, r
    <3> QED
      BY <2>3, <2>4, <2>5, <3>1 DEF State
  <2>7. t = r
    BY <1>10 DEF Activating
  <2> HIDE DEF c, l, r, t
  <2>8. Core(r)
    BY <2>3, <2>4, <2>6 DEF Core, Keeps
  <2>9. Over(r)
    <3>1. ~r.ctx.scheduled /\ r.ctx.seq # 0 /\ r.ctx.fence
      BY <2>1, <2>3, <2>4, <2>6 DEF Keeps
    <3>2. r.left.finish <= MaxStale /\ r.usb.fence
      BY <2>1, <2>3, <2>5, <2>6
    <3>3. r.left.finish <= MaxStale + IF r.ctx.scheduled THEN 1 ELSE 0
      BY <3>1, <3>2, DeviceAssumption
    <3> QED
      BY <3>1, <3>2, <3>3 DEF Over
  <2>10. Giving(r)
    BY <1>1, <1>4, <2>1, <2>3, <2>4, <2>5, <2>6, <2>9 DEF Giving, Keeps
  <2>11. Ends(s, r)
    <3>1. Rel(s, r)
      BY <2>3, <2>4, <2>6 DEF Rel, Keeps
    <3> QED
      BY <1>1, <1>4, <2>4, <2>6, <2>8, <2>10, <3>1
         DEF Ends, Rest, DoneIfOk, Same
  <2>12. Now' = r
    BY <1>3, <2>6, <2>7, BecomesIs
  <2> QED
    BY <2>11, <2>12, EndsGood DEF s
<1> QED
  BY <1>2, <1>8, <1>9, <1>10

LEMMA CancelIdleHolds ==
  ASSUME IInv, CancelIdle
  PROVE  Good(Now, Now')
<1> DEFINE s == Now
           f == [s.fw EXCEPT !.idle = FALSE]
           g == [f EXCEPT !.held = FALSE]
           m == [s EXCEPT !.fw.idle = FALSE]
           t == FwDeactivate(m, TRUE)
<1>1. /\ s \in State /\ s.fw \in Device /\ Framework(s.fw) /\ Core(s)
      /\ s.fw.idle /\ s.fw.cancelled /\ s.fw.action # "none"
  BY HoldsIs DEF IInv, CancelIdle, Framework, Now
<1>2. \/ Active(s)
      \/ (Giving(s) \/ Doomed(s) \/ Deactivating(s)) /\ s.ctx.gen = 0
  BY <1>1 DEF IInv, Holds, Rest, Idle, Activating, Absent
<1>3. Becomes(t)
  BY DEF CancelIdle, Now
<1> HIDE DEF s
<1>4. /\ f \in Device /\ Framework(f) /\ f.action = s.fw.action
      /\ f.stage = s.fw.stage /\ f.st = s.fw.st /\ f.active = s.fw.active
      /\ f.err = s.fw.err /\ f.cancelled
  BY <1>1 DEF Framework, Device
<1>5. m \in State /\ m.fw = f /\ m.ctx = s.ctx /\ m.usb = s.usb /\ m.left = s.left
  <2>1. m = [s EXCEPT !.fw = f]
    BY <1>1 DEF State
  <2> HIDE DEF f, m
  <2> QED
    BY <1>1, <1>4, <2>1 DEF State
<1>6. /\ g \in Device /\ Framework(g) /\ g.action = f.action
      /\ g.stage = f.stage /\ g.st = f.st /\ g.active = f.active
      /\ g.err = f.err /\ g.cancelled
  <2> HIDE DEF f
  <2> QED
    BY <1>4 DEF Framework, Device
<1> HIDE DEF m
<1>7. Core(m) /\ Rel(s, m)
  <2> HIDE DEF f
  <2> QED
    BY <1>1, <1>4, <1>5 DEF Core, Rel
<1>8. CASE s.fw.active /\ s.fw.st # "DEACTIVATING"
  <2> HIDE DEF f, g, t
  <2>1. Ending(m)
    <3>1. Works(s) /\ (Active(s) \/ Doomed(s))
      BY <1>2, <1>8
         DEF Active, Live, Giving, Doomed, Deactivating
    <3>2. Works(m)
      BY <1>4, <1>5, <3>1 DEF Works, Serves
    <3>3. /\ s.ctx.sub \in Session \cup Binding \cup {"failed"}
          /\ s.ctx.sub # "stop" /\ s.ctx.st \in {"ACTIVE", "POISONED"}
      BY <3>1 DEF Active, Doomed, Session, Lifecycle, Binding
    <3> QED
      BY <1>4, <1>5, <1>8, <3>2, <3>3 DEF Ending
  <2>2. Ends(m, t)
    BY <1>4, <1>5, <1>7, <1>8, <2>1, FwDeactivateHolds DEF t
  <2>3. Ends(s, t)
    BY <1>4, <1>5, <1>7, <2>2, EndsFrom
  <2>4. Now' = t
    BY <1>3, <2>3, BecomesIs DEF Ends, Core
  <2> QED
    BY <2>3, <2>4, EndsGood DEF s
<1>9. CASE ~(s.fw.active /\ s.fw.st # "DEACTIVATING")
  <2>1. Giving(s) \/ Deactivating(s)
    <3>1. ~Active(s)
      BY <1>9 DEF Active, InStep, Session, Lifecycle, Binding
    <3> QED
      BY <1>2, <1>9, <3>1 DEF Doomed
  <2>2. t = [m EXCEPT !.fw = g]
    <3>1. [m.fw EXCEPT !.held = @ /\ ~TRUE] = g
      <4> HIDE DEF f
      <4> QED
        BY <1>4, <1>5 DEF Device
    <3> HIDE DEF f, g
    <3> QED
      BY <1>4, <1>6, <1>9, <3>1 DEF FwDeactivate
  <2> HIDE DEF f, g, t
  <2>3. t \in State /\ t.fw = g /\ t.ctx = s.ctx /\ t.usb = s.usb /\ t.left = s.left
    BY <1>5, <1>6, <2>2 DEF State
  <2>4. Core(t)
    BY <1>1, <1>6, <2>3 DEF Core
  <2>5. Rest(t)
    <3>1. s.ctx.gen = 0
      BY <1>2, <2>1 DEF Active, Giving, Deactivating
    <3>2. Over(s) => Over(t)
      BY <2>3 DEF Over
    <3>3. Giving(s) => Giving(t)
      BY <1>4, <1>6, <2>3, <3>2 DEF Giving
    <3>4. Deactivating(s) => Deactivating(t)
      BY <1>4, <1>6, <2>3, <3>2 DEF Deactivating, Serves
    <3> QED
      BY <2>1, <2>3, <3>1, <3>3, <3>4 DEF Rest
  <2>6. Ends(s, t)
    BY <1>1, <1>4, <1>6, <2>3, <2>4, <2>5 DEF Ends, Rel, DoneIfOk, Same
  <2>7. Now' = t
    BY <1>3, <2>3, BecomesIs
  <2> QED
    BY <2>6, <2>7, EndsGood DEF s
<1> QED
  BY <1>8, <1>9

(* The idle of a cancelled activation finds the activation still cancelled. *)
LEMMA ActivationCancelHolds ==
  ASSUME IInv, ActivationCancelIdle
  PROVE  Good(Now, Now')
<1> DEFINE s == Now
           l == [s.left EXCEPT !.cancel = @ - 1]
           m == [s EXCEPT !.left.cancel = @ - 1]
           t == FwActivateComplete(m, "cancelled")
<1>1. /\ s \in State /\ s.fw \in Device /\ Framework(s.fw) /\ Core(s)
      /\ s.left \in Remains /\ Giving(s) /\ s.ctx.gen = 0
  <2>1. s.left.cancel # 0
    BY DEF ActivationCancelIdle, Now
  <2> QED
    BY <2>1, HoldsIs DEF IInv, Rest
<1>2. Becomes(t)
  <2>1. ctx.st = "INACTIVE" /\ ctx.actDone /\ fw.cancelled
    BY <1>1 DEF Giving, Now
  <2> QED
    BY <2>1 DEF ActivationCancelIdle
<1> HIDE DEF s
<1>3. l \in Remains /\ l.cancel = 0 /\ l.finish = s.left.finish
  BY <1>1 DEF Giving, Remains
<1>4. m \in State /\ m.fw = s.fw /\ m.ctx = s.ctx /\ m.usb = s.usb /\ m.left = l
  <2>1. m = [s EXCEPT !.left = l]
    BY <1>1 DEF State
  <2> HIDE DEF l, m
  <2> QED
    BY <1>1, <1>3, <2>1 DEF State
<1> HIDE DEF l, m
<1>5. /\ t \in State /\ t.ctx = s.ctx /\ t.usb = s.usb /\ t.left = l
      /\ Framework(t.fw) /\ t.fw.open /\ t.fw.action = "none"
      /\ t.fw.result # "ok"
  BY <1>1, <1>4, RefusedIs DEF Giving
<1> HIDE DEF t
<1>6. Core(t)
  BY <1>1, <1>5 DEF Core
<1>7. Idle(t)
  BY <1>1, <1>3, <1>5 DEF Giving, Idle, Over
<1>8. Ends(s, t)
  BY <1>1, <1>5, <1>6, <1>7 DEF Ends, Rest, Rel, DoneIfOk, Same
<1>9. Now' = t
  BY <1>2, <1>5, BecomesIs
<1> QED
  BY <1>8, <1>9, EndsGood DEF s

(* A completion idle runs once; one that outlived its context or its        *)
(* deactivation does nothing.                                               *)
LEMMA DeactivationIdleHolds ==
  ASSUME IInv, DeactivationIdle
  PROVE  Good(Now, Now')
<1> DEFINE s == Now
           l == [s.left EXCEPT !.finish = @ - 1]
           c == [s.ctx EXCEPT !.scheduled = FALSE]
           m == [s EXCEPT !.left.finish = @ - 1, !.ctx.scheduled = FALSE]
<1>1. /\ s \in State /\ s.fw \in Device /\ Framework(s.fw) /\ Core(s)
      /\ s.ctx \in Context /\ s.left \in Remains
      /\ (Working(s) /\ Hears(s)) \/ Rest(s) \/ Absent(s)
  BY HoldsIs DEF IInv
<1>2. /\ s.left.finish \in 1..(MaxStale + 1) /\ s.ctx = ctx /\ s.usb = usb
      /\ s.fw = fw /\ s.left = left
  BY <1>1, DeviceAssumption DEF DeactivationIdle, Now, Remains
<1>3. PICK ok \in BOOLEAN :
        Becomes(IF /\ s.ctx.pending /\ s.ctx.st = "DEACTIVATING"
                   /\ Drained(s.usb)
                THEN FinishDeactivation(m, ok) ELSE m)
  BY <1>2 DEF DeactivationIdle
<1> HIDE DEF s
<1>4. /\ l \in Remains /\ l.cancel = s.left.cancel
      /\ l.finish = s.left.finish - 1
  <2>1. s.left.finish - 1 \in 0..(MaxStale + 1)
    BY <1>2, DeviceAssumption
  <2> QED
    BY <1>1, <2>1 DEF Remains
<1>5. /\ c \in Context /\ c.gen = s.ctx.gen /\ c.fence = s.ctx.fence
      /\ c.poisoned = s.ctx.poisoned /\ c.actDone = s.ctx.actDone
      /\ c.st = s.ctx.st /\ c.sync = s.ctx.sync /\ c.held = s.ctx.held
      /\ c.sub = s.ctx.sub /\ ~c.scheduled /\ c.seq = s.ctx.seq
      /\ c.pending = s.ctx.pending /\ c.nonquiescent = s.ctx.nonquiescent
      /\ c.consumed = s.ctx.consumed /\ c.action = s.ctx.action
      /\ c.known = s.ctx.known /\ c.success = s.ctx.success
      /\ c.match = s.ctx.match /\ c.terminal = s.ctx.terminal
      /\ c.closedEpoch = s.ctx.closedEpoch /\ c.claimed = s.ctx.claimed
      /\ ~s.ctx.scheduled => c = s.ctx
  BY <1>1 DEF Context
<1>6. m \in State /\ m.fw = s.fw /\ m.ctx = c /\ m.usb = s.usb /\ m.left = l
  <2>1. m = [s EXCEPT !.ctx = c, !.left = l]
    BY <1>1 DEF State
  <2> HIDE DEF c, l, m
  <2> QED
    BY <1>1, <1>4, <1>5, <2>1 DEF State
<1> HIDE DEF c, l, m
<1>7. Core(m) /\ Rel(s, m)
  BY <1>1, <1>5, <1>6 DEF Core, Rel
<1>8. Serves(m) = Serves(s)
  BY <1>4, <1>5, <1>6 DEF Serves
<1>9. s.left.finish <= MaxStale + 1 /\ l.finish <= MaxStale
  BY <1>2, <1>4, DeviceAssumption
<1>10. Over(s) => Over(m)
  BY <1>5, <1>6, <1>9, DeviceAssumption DEF Over
<1>11. Works(s) => Works(m)
  BY <1>5, <1>6, <1>8, <1>9 DEF Works
<1>12. Deactivating(s) => Deactivating(m)
  BY <1>5, <1>6, <1>8, <1>10 DEF Deactivating
<1>13. CASE Working(s) /\ Hears(s)
  <2>1. ~s.ctx.pending /\ ~s.ctx.scheduled /\ s.fw.action # "none"
    BY <1>13, WorkingIs DEF Works
  <2>2. m.ctx = s.ctx
    BY <1>5, <1>6, <2>1
  <2>3. Live(s) => Live(m)
    BY <1>6, <1>11, <2>2 DEF Live
  <2>4. Working(m)
    BY <1>6, <1>7, <1>13, <2>2, <2>3 DEF Working, Activating, Active
  <2>5. Hears(m)
    BY <1>6, <1>13, <2>2 DEF Hears
  <2>6. Now' = m
    BY <1>3, <1>6, <2>1, BecomesIs
  <2>7. Leads(s, m)
    BY <1>7, <2>4, <2>5 DEF Leads
  <2> QED
    BY <2>6, <2>7, LeadsGood DEF s
<1>14. CASE Rest(s) /\ s.ctx.pending /\ s.ctx.st = "DEACTIVATING" /\ Drained(s.usb)
  <2> DEFINE t == FinishDeactivation(m, ok)
  <2>1. Deactivating(s) /\ s.ctx.gen = 0 /\ s.ctx.seq # 0 /\ s.fw.action # "none"
    BY <1>1, <1>14, RestIs DEF Deactivating, Serves
  <2>2. /\ Core(t) /\ Idle(t) /\ t.ctx.gen \in {m.ctx.gen, 0}
        /\ t.ctx.seq = m.ctx.seq /\ (m.ctx.poisoned => t.ctx.poisoned)
        /\ DoneIfOk(m, t) /\ t.usb = m.usb /\ t.left = m.left
    BY <1>5, <1>6, <1>7, <1>12, <1>14, <2>1, FinishHolds
  <2> HIDE DEF t
  <2>3. Now' = t
    BY <1>3, <1>14, <2>2, BecomesIs DEF Core, t
  <2>4. Holds(t)
    BY <1>5, <1>6, <2>1, <2>2 DEF Holds, Rest
  <2>5. Epochs(s, t)
    <3>1. t.ctx.seq = s.ctx.seq /\ t.ctx.seq \in Nat
      BY <1>5, <1>6, <2>2, PartsAre, DeviceAssumption DEF Core, Context, Gens
    <3> QED
      BY <1>5, <1>6, <2>2, <3>1 DEF Epochs
  <2>6. Released(s, t)
    <3>1. t.left.finish = s.left.finish - 1
      BY <1>4, <1>6, <2>2
    <3> QED
      BY <1>2, <3>1, DeviceAssumption DEF Released
  <2>7. DoneIfOk(s, t)
    BY <1>6, <2>2 DEF DoneIfOk
  <2> QED
    BY <2>3, <2>4, <2>5, <2>6, <2>7 DEF Good, s
<1>15. CASE /\ Rest(s)
            /\ ~(s.ctx.pending /\ s.ctx.st = "DEACTIVATING" /\ Drained(s.usb))
  <2>1. Rest(m)
    <3>1. s.ctx.gen = 0
      BY <1>15 DEF Rest
    <3>2. CASE Idle(s)
      <4>1. s.ctx = NewContext => m.ctx = NewContext
        BY <1>5, <1>6 DEF NewContext
      <4> QED
        BY <1>4, <1>5, <1>6, <1>10, <3>1, <3>2, <4>1 DEF Rest, Idle
    <3>3. CASE Giving(s)
      BY <1>4, <1>5, <1>6, <1>10, <3>1, <3>3 DEF Rest, Giving
    <3>4. CASE Doomed(s)
      BY <1>4, <1>5, <1>6, <1>10, <1>11, <3>1, <3>4 DEF Rest, Doomed
    <3>5. CASE Deactivating(s)
      BY <1>5, <1>6, <1>12, <3>1, <3>5 DEF Rest
    <3> QED
      BY <1>15, <3>2, <3>3, <3>4, <3>5 DEF Rest
  <2>2. Ends(s, m)
    BY <1>6, <1>7, <2>1 DEF Ends, DoneIfOk, Same
  <2>3. Now' = m
    BY <1>3, <1>6, <1>15, BecomesIs
  <2> QED
    BY <2>2, <2>3, EndsGood DEF s
<1>16. CASE Absent(s)
  <2>1. /\ ~s.ctx.pending /\ ~s.ctx.scheduled /\ s.ctx.seq = 0
        /\ s.fw.action = "none" /\ ~s.ctx.poisoned /\ s.ctx.sub = "none"
    BY <1>16 DEF Absent, NoContext, NewContext
  <2>2. m.ctx = s.ctx
    BY <1>5, <1>6, <2>1
  <2>3. Absent(m)
    BY <1>4, <1>6, <1>16, <2>2 DEF Absent
  <2>4. Now' = m
    BY <1>3, <1>6, <2>1, BecomesIs
  <2>5. Good(s, m)
    BY <1>7, <2>1, <2>2, <2>3 DEF Good, Holds, Epochs, Released, DoneIfOk
  <2> QED
    BY <2>4, <2>5 DEF s
<1> QED
  BY <1>1, <1>13, <1>14, <1>15, <1>16

-----------------------------------------------------------------------------
(* An operation begins.                                                     *)

LEMMA BeginHolds ==
  ASSUME NEW s, Core(s), s.ctx.consumed, s.ctx.claimed,
         s.ctx.closedEpoch = "none", s.ctx.action = s.fw.action,
         s.fw.action # "none", s.left.cancel = 0, s.left.finish <= MaxStale,
         ~s.ctx.pending, ~s.ctx.scheduled, ~s.ctx.nonquiescent,
         ~s.ctx.poisoned, ~s.ctx.held, ~s.ctx.known, s.ctx.sub = "none",
         Drained(s.usb), ~s.usb.sync, s.ctx.seq < MaxGen,
         ~s.fw.active, ~s.fw.cancelled, ~s.fw.held, s.fw.stage = 0
  PROVE  LET t == Begin(s)
         IN Working(t) /\ Hears(t) /\ t.ctx.action = s.ctx.action
<1> DEFINE g == s.ctx.seq + 1
           c == [s.ctx EXCEPT !.seq = g, !.gen = g, !.fence = FALSE,
                              !.actDone = FALSE, !.st = "ACTIVATING"]
           d == [c EXCEPT !.sync = "active", !.discards = 0]
           b == Begun(s.usb, g)
           u == [b EXCEPT !.sync = TRUE]
           z == [s EXCEPT !.ctx.seq = g, !.ctx.gen = g, !.ctx.fence = FALSE,
                          !.ctx.actDone = FALSE]
           m == [z EXCEPT !.usb = Begun(@, g), !.ctx.st = "ACTIVATING"]
           r == [m EXCEPT !.ctx.sync = "active", !.ctx.discards = 0,
                          !.usb = SyncBegun(@)]
           t == Begin(s)
<1>1. /\ s \in State /\ s.ctx \in Context /\ s.usb \in Usb /\ Epoch(s.usb)
      /\ Framework(s.fw)
  BY PartsAre DEF Core
<1>2. g \in Gens /\ g # 0
  BY <1>1, DeviceAssumption DEF Context, Gens
<1> HIDE DEF g
<1>3. CanBegin(s.usb, g)
  BY <1>2 DEF CanBegin
<1>4. /\ b \in Usb /\ Epoch(b) /\ Drained(b) /\ ~b.fence /\ b.gen = g
      /\ ~b.sync
  BY <1>1, <1>2, <1>3, BegunIs
<1>5. /\ u \in Usb /\ Epoch(u) /\ Drained(u) /\ ~u.fence /\ u.gen = g
      /\ u.sync
  <2> HIDE DEF b
  <2> QED
    BY <1>4, SyncIs DEF Drained
<1>6. c \in Context /\ c.gen = g /\ c.fence = FALSE
  BY <1>1, <1>2 DEF Context
<1>7. /\ d \in Context /\ d.gen = g /\ d.seq = g /\ ~d.fence /\ ~d.actDone
      /\ d.st = "ACTIVATING" /\ d.sync = "active" /\ d.consumed /\ d.claimed
      /\ d.closedEpoch = "none" /\ d.action = s.ctx.action /\ ~d.pending
      /\ ~d.scheduled /\ ~d.nonquiescent /\ ~d.poisoned /\ ~d.held
      /\ ~d.known /\ d.sub = "none"
  <2>1. 0 \in 0..MaxDiscards
    BY DeviceAssumption
  <2>2. /\ c.seq = g /\ ~c.actDone /\ c.st = "ACTIVATING" /\ c.consumed
        /\ c.claimed /\ c.closedEpoch = "none" /\ c.action = s.ctx.action
        /\ ~c.pending /\ ~c.scheduled /\ ~c.nonquiescent /\ ~c.poisoned
        /\ ~c.held /\ ~c.known /\ c.sub = "none"
    BY <1>1 DEF Context
  <2> HIDE DEF c
  <2> QED
    BY <1>6, <2>1, <2>2 DEF Context
<1>8. m \in State /\ m.ctx = c /\ m.fw = s.fw /\ m.usb = b /\ m.left = s.left
  <2>1. m = [s EXCEPT !.ctx = c, !.usb = b]
    BY <1>1 DEF State, Context
  <2> HIDE DEF m, c, b
  <2> QED
    BY <1>1, <1>4, <1>6, <2>1 DEF State
<1>9. t = BeginSync(m)
  <2>1. z.usb = s.usb
    BY <1>1 DEF State
  <2> HIDE DEF m, z
  <2> QED
    BY <1>3, <2>1 DEF Begin, g, z, m
<1>10. r \in State /\ r.ctx = d /\ r.fw = s.fw /\ r.usb = u /\ r.left = s.left
  <2> HIDE DEF m
  <2>1. r = [m EXCEPT !.ctx = d, !.usb = u]
    <3> HIDE DEF b, c
    <3> QED
      BY <1>8 DEF State, SyncBegun
  <2> HIDE DEF r, d, u, b
  <2> QED
    BY <1>1, <1>5, <1>7, <1>8, <2>1 DEF State
<1>11. t = ArmSync(r)
  <2>1. CanBeginSync(m.usb, m.ctx.gen)
    <3> HIDE DEF m, c, b
    <3> QED
      BY <1>4, <1>6, <1>8 DEF CanBeginSync
  <2> HIDE DEF t, m
  <2> QED
    BY <1>9, <2>1 DEF BeginSync
<1> HIDE DEF b, u, c, d, z, m, r, t
<1>12. Core(r)
  BY <1>1, <1>5, <1>7, <1>10 DEF Core, Drained
<1>13. Activating(r)
  <2>1. Works(r)
    BY <1>2, <1>7, <1>10 DEF Works, Serves
  <2> QED
    BY <1>5, <1>7, <1>10, <2>1 DEF Activating, Live
<1>14. Stays(r, t) /\ Hears(t)
  BY <1>5, <1>7, <1>10, <1>11, <1>12, <1>13, ArmSyncHolds
<1>15. t.ctx.action = s.ctx.action
  <2>1. t.fw.action = s.fw.action
    BY <1>10, <1>14, WorkingIs DEF Stays, Same
  <2> QED
    BY <1>14, <2>1, WorkingIs DEF Stays, Serves
<1> QED
  BY <1>14, <1>15 DEF Stays, t

LEMMA RefusedHolds ==
  ASSUME NEW s, NEW k, s.fw.action = "none", Core(k), Idle(k),
         k.ctx.gen = 0, Rel(s, k),
         NEW m \in State, m.ctx = k.ctx, m.usb = k.usb, m.left = k.left,
         Framework(m.fw), ~m.fw.active, m.fw.action # "none"
  PROVE  Refuse(m) \in State /\ Good(s, Refuse(m))
<1> DEFINE t == Refuse(m)
<1>1. /\ t \in State /\ t.ctx = k.ctx /\ t.usb = k.usb /\ t.left = k.left
      /\ Framework(t.fw) /\ t.fw.open /\ t.fw.action = "none"
  BY RefusedIs DEF Refuse
<1> HIDE DEF t
<1>2. Core(t)
  BY <1>1 DEF Core
<1>3. Idle(t)
  BY <1>1 DEF Idle, Over
<1>4. k.ctx.seq \in Nat
  BY PartsAre, DeviceAssumption DEF Core, Context, Gens
<1>5. Good(s, t)
  BY <1>1, <1>2, <1>3, <1>4
     DEF Good, Holds, Rest, Rel, Epochs, Released, DoneIfOk
<1> QED
  BY <1>1, <1>5 DEF t

(* The context that an operation which was licensed starts from.            *)
Prepared(s, m, a, r) ==
  [(IF s.ctx.closedEpoch = "none" THEN m ELSE Reopened(m)) EXCEPT
     !.ctx.consumed = s.ctx.closedEpoch = "none" \/ r,
     !.ctx.action = IF s.ctx.closedEpoch = "none" \/ r THEN a ELSE @]

LEMMA PreparedIs ==
  ASSUME NEW s, Core(s), Idle(s), s.ctx.gen = 0, ~s.ctx.poisoned,
         NEW a \in Action, NEW r \in BOOLEAN, Licensed(s.ctx, a),
         NEW m \in State, m.ctx = s.ctx, m.usb = s.usb, m.left = s.left,
         s.ctx.closedEpoch = "none" \/ CanReopen(m)
  PROVE  LET x == Prepared(s, m, a, r)
         IN /\ x \in State /\ x.fw = m.fw /\ x.left = s.left /\ Epoch(x.usb)
            /\ Drained(x.usb) /\ ~x.usb.sync
            /\ x.ctx.seq = 0 => x.usb = NewUsb
            /\ x.ctx.seq # 0 => x.usb.fence /\ x.ctx.fence
            /\ x.ctx.seq = s.ctx.seq /\ x.ctx.gen = 0 /\ x.ctx.sub = "none"
            /\ ~x.ctx.pending /\ ~x.ctx.scheduled /\ ~x.ctx.nonquiescent
            /\ ~x.ctx.poisoned /\ ~x.ctx.held /\ ~x.ctx.known
            /\ x.ctx.closedEpoch = "none" /\ x.ctx.st = "INACTIVE"
            /\ r => x.ctx.consumed /\ x.ctx.action = a
            /\ s.ctx.closedEpoch = "none" => s.ctx = NewContext
<1> DEFINE x == Prepared(s, m, a, r)
<1>1. /\ s \in State /\ s.ctx \in Context /\ s.usb \in Usb /\ Epoch(s.usb)
      /\ m.fw \in Device /\ m.left \in Remains
      /\ ~s.ctx.pending /\ ~s.ctx.scheduled /\ s.ctx.st = "INACTIVE"
  BY PartsAre DEF Core, Idle, Over
<1>2. CASE s.ctx.closedEpoch = "none"
  <2> DEFINE c == [s.ctx EXCEPT !.consumed = TRUE, !.action = a]
  <2>1. s.ctx = NewContext /\ ~s.ctx.consumed
    BY <1>2 DEF Idle, Licensed
  <2>2. s.ctx.seq = 0 /\ s.usb = NewUsb
    BY <2>1 DEF Idle, Over, NewContext
  <2>3. ~NewUsb.sync
    BY DEF NewUsb
  <2>4. x = [m EXCEPT !.ctx = c]
    BY <1>2 DEF Prepared, State
  <2>5. /\ c \in Context /\ c.seq = s.ctx.seq /\ c.gen = 0 /\ c.sub = "none"
        /\ ~c.pending /\ ~c.scheduled /\ ~c.nonquiescent /\ ~c.poisoned
        /\ ~c.held /\ ~c.known /\ c.closedEpoch = "none"
        /\ c.st = "INACTIVE" /\ c.consumed /\ c.action = a
    <3>1. /\ ~s.ctx.nonquiescent /\ ~s.ctx.held /\ ~s.ctx.known
          /\ s.ctx.sub = "none"
      BY <2>1 DEF NewContext
    <3> QED
      BY <1>1, <1>2, <3>1 DEF Context
  <2> HIDE DEF c, x
  <2>6. x \in State /\ x.fw = m.fw /\ x.ctx = c /\ x.usb = s.usb /\ x.left = s.left
    BY <2>4, <2>5 DEF State
  <2> QED
    BY <2>1, <2>2, <2>3, <2>5, <2>6, NewUsbIs DEF x
<1>3. CASE s.ctx.closedEpoch # "none"
  <2> DEFINE b == [s.ctx EXCEPT
                !.consumed = FALSE, !.action = "none", !.known = FALSE,
                !.success = FALSE, !.match = FALSE, !.closedEpoch = "none",
                !.fence = TRUE, !.actDone = FALSE, !.pending = FALSE,
                !.nonquiescent = FALSE, !.held = FALSE, !.sync = "none",
                !.discards = 0, !.armed = FALSE]
             e == IF r THEN a ELSE "none"
             c == [b EXCEPT !.consumed = r, !.action = e]
             u == AuditReset(s.usb)
             y == Reopened(m)
  <2>1. CanReset(s.usb) /\ s.ctx.sub = "none"
    BY <1>3 DEF CanReopen
  <2>2. u \in Usb /\ Epoch(u) /\ Drained(u) /\ u.fence /\ ~u.sync
    BY <1>1, <2>1, AuditResetIs
  <2>3. s.ctx.seq # 0
    <3>1. ~NewUsb.fence
      BY DEF NewUsb
    <3> QED
      BY <2>1, <3>1 DEF Idle, Over, CanReset
  <2>4. /\ b \in Context /\ b.seq = s.ctx.seq /\ b.gen = 0 /\ b.sub = "none"
        /\ ~b.pending /\ ~b.scheduled /\ ~b.nonquiescent /\ ~b.poisoned
        /\ ~b.held /\ ~b.known /\ b.closedEpoch = "none" /\ b.fence
        /\ b.st = "INACTIVE" /\ b.action = "none"
    <3> DEFINE b1 == [s.ctx EXCEPT
                   !.consumed = FALSE, !.action = "none", !.known = FALSE,
                   !.success = FALSE, !.match = FALSE, !.closedEpoch = "none"]
               b2 == [b1 EXCEPT
                   !.fence = TRUE, !.actDone = FALSE, !.pending = FALSE,
                   !.nonquiescent = FALSE, !.held = FALSE, !.sync = "none",
                   !.discards = 0, !.armed = FALSE]
    <3>1. 0 \in 0..MaxDiscards
      BY DeviceAssumption
    <3>2. "none" \in Action \cup {"none"} /\ "none" \in Capture \cup {"none"}
      OBVIOUS
    <3>3. /\ b1 \in Context /\ b1.seq = s.ctx.seq /\ b1.gen = s.ctx.gen
          /\ b1.sub = s.ctx.sub /\ b1.scheduled = s.ctx.scheduled
          /\ b1.poisoned = s.ctx.poisoned /\ b1.st = s.ctx.st
          /\ ~b1.known /\ b1.closedEpoch = "none" /\ b1.action = "none"
      BY <1>1, <3>2 DEF Context
    <3>4. b = b2
      BY <1>1 DEF Context
    <3> HIDE DEF b, b1
    <3>5. /\ b2 \in Context /\ b2.seq = b1.seq /\ b2.gen = b1.gen
          /\ b2.sub = b1.sub /\ b2.scheduled = b1.scheduled
          /\ b2.poisoned = b1.poisoned /\ b2.st = b1.st /\ ~b2.known
          /\ b2.closedEpoch = "none" /\ b2.action = "none" /\ ~b2.pending
          /\ ~b2.nonquiescent /\ ~b2.held /\ b2.fence
      <4> DEFINE c1 == [b1 EXCEPT
                   !.fence = TRUE, !.actDone = FALSE, !.pending = FALSE,
                   !.nonquiescent = FALSE, !.held = FALSE]
                 c2 == [c1 EXCEPT !.sync = "none", !.discards = 0,
                                  !.armed = FALSE]
      <4>1. /\ c1 \in Context /\ c1.seq = b1.seq /\ c1.gen = b1.gen
            /\ c1.sub = b1.sub /\ c1.scheduled = b1.scheduled
            /\ c1.poisoned = b1.poisoned /\ c1.st = b1.st /\ ~c1.known
            /\ c1.closedEpoch = "none" /\ c1.action = "none" /\ ~c1.pending
            /\ ~c1.nonquiescent /\ ~c1.held /\ c1.fence
        BY <3>3 DEF Context
      <4>2. b2 = c2
        BY <3>3 DEF Context
      <4> HIDE DEF c1, b2
      <4>3. /\ c2 \in Context /\ c2.seq = c1.seq /\ c2.gen = c1.gen
            /\ c2.sub = c1.sub /\ c2.scheduled = c1.scheduled
            /\ c2.poisoned = c1.poisoned /\ c2.st = c1.st
            /\ c2.known = c1.known /\ c2.closedEpoch = c1.closedEpoch
            /\ c2.action = c1.action /\ c2.pending = c1.pending
            /\ c2.nonquiescent = c1.nonquiescent /\ c2.held = c1.held
            /\ c2.fence = c1.fence
        BY <3>1, <4>1 DEF Context
      <4> HIDE DEF c2
      <4> QED
        BY <4>1, <4>2, <4>3
    <3> HIDE DEF b2
    <3> QED
      BY <1>1, <2>1, <3>3, <3>4, <3>5
  <2>5. y = [m EXCEPT !.ctx = b, !.usb = u]
    BY DEF Reopened, State
  <2> HIDE DEF b, u, y
  <2>6. y \in State /\ y.fw = m.fw /\ y.ctx = b /\ y.usb = u /\ y.left = s.left
    BY <2>2, <2>4, <2>5 DEF State
  <2>7. x = [y EXCEPT !.ctx = c]
    <3>1. x = [y EXCEPT !.ctx.consumed = r,
                        !.ctx.action = IF r THEN a ELSE y.ctx.action]
      BY <1>3 DEF Prepared, y
    <3> HIDE DEF x
    <3> QED
      BY <2>4, <2>6, <3>1 DEF State, Context
  <2>8. e \in Action \cup {"none"} /\ (r => e = a)
    OBVIOUS
  <2> HIDE DEF e
  <2>9. /\ c \in Context /\ c.seq = s.ctx.seq /\ c.gen = 0 /\ c.sub = "none"
        /\ ~c.pending /\ ~c.scheduled /\ ~c.nonquiescent /\ ~c.poisoned
        /\ ~c.held /\ ~c.known /\ c.closedEpoch = "none" /\ c.fence
        /\ c.st = "INACTIVE" /\ c.consumed = r /\ c.action = e
    BY <2>4, <2>8 DEF Context
  <2> HIDE DEF c, x
  <2>10. x \in State /\ x.fw = m.fw /\ x.ctx = c /\ x.usb = u /\ x.left = s.left
    BY <2>6, <2>7, <2>9 DEF State
  <2> QED
    BY <1>3, <2>2, <2>3, <2>8, <2>9, <2>10 DEF x
<1> QED
  BY <1>2, <1>3

LEMMA ActivateHolds ==
  ASSUME NEW s, Core(s), Idle(s), s.ctx.gen = 0, s.ctx.seq < MaxGen,
         NEW a \in Action, NEW r \in BOOLEAN,
         NEW m \in State, m.ctx = s.ctx, m.usb = s.usb, m.left = s.left,
         Framework(m.fw), ~m.fw.active, m.fw.action = a, ~m.fw.cancelled,
         ~m.fw.held, m.fw.stage = 0
  PROVE  Activate(m, a, r) \in State /\ Good(s, Activate(m, a, r))
<1> DEFINE t == Activate(m, a, r)
           x == Prepared(s, m, a, r)
<1>1. /\ s \in State /\ s.fw \in Device /\ s.ctx \in Context /\ s.usb \in Usb
      /\ s.left \in Remains /\ Epoch(s.usb) /\ Framework(s.fw)
      /\ s.fw.action = "none" /\ s.fw.open /\ m.fw.action # "none"
      /\ s.left.cancel = 0 /\ m.fw \in Device
  BY PartsAre DEF Core, Idle, Action, Capture
<1>2. Rel(s, s)
  BY DEF Rel
<1>3. Refuse(m) \in State /\ Good(s, Refuse(m))
  BY <1>1, <1>2, RefusedHolds
<1>4. CASE s.ctx.poisoned \/ s.ctx.terminal
  BY <1>3, <1>4 DEF Activate
<1>5. CASE ~(s.ctx.poisoned \/ s.ctx.terminal) /\ ~Licensed(s.ctx, a)
  <2>1. t = Unlicensed(m)
    BY <1>5 DEF Activate
  <2>2. CASE s.ctx.closedEpoch # "identify"
    BY <1>3, <2>1, <2>2 DEF Unlicensed
  <2>3. CASE s.ctx.closedEpoch = "identify"
    <3> DEFINE c == [s.ctx EXCEPT !.poisoned = TRUE, !.armed = FALSE]
               n == [Poison(m) EXCEPT !.ctx.armed = FALSE]
               k == [s EXCEPT !.ctx = c]
    <3>1. /\ c \in Context /\ Keeps(s.ctx, c) /\ c.poisoned
          /\ c.st = s.ctx.st /\ c.fence = s.ctx.fence /\ c.gen = s.ctx.gen
          /\ c.sub = s.ctx.sub /\ c.sync = s.ctx.sync
      BY <1>1 DEF Context, Keeps
    <3>2. t = Refuse(n)
      BY <2>1, <2>3 DEF Unlicensed
    <3>3. n = [m EXCEPT !.ctx = c]
      BY DEF Poison, State
    <3> HIDE DEF c, n, t
    <3>4. n \in State /\ n.fw = m.fw /\ n.ctx = c /\ n.usb = s.usb /\ n.left = s.left
      BY <3>1, <3>3 DEF State
    <3>5. k \in State /\ k.fw = s.fw /\ k.ctx = c /\ k.usb = s.usb /\ k.left = s.left
      BY <1>1, <3>1 DEF State
    <3> HIDE DEF k
    <3>6. Core(k)
      BY <1>1, <3>1, <3>5 DEF Core, Keeps
    <3>7. Idle(k)
      <4>1. Over(k)
        BY <3>1, <3>5 DEF Idle, Over, Keeps
      <4> QED
        BY <3>1, <3>5, <4>1 DEF Idle, Keeps
    <3>8. Rel(s, k)
      BY <3>1, <3>5 DEF Rel, Keeps
    <3> QED
      BY <1>1, <3>1, <3>2, <3>4, <3>5, <3>6, <3>7, <3>8, RefusedHolds DEF t
  <2> QED
    BY <2>2, <2>3
<1>6. CASE /\ ~(s.ctx.poisoned \/ s.ctx.terminal) /\ Licensed(s.ctx, a)
           /\ s.ctx.closedEpoch # "none" /\ ~CanReopen(m)
  BY <1>3, <1>6 DEF Activate
<1>7. CASE /\ ~(s.ctx.poisoned \/ s.ctx.terminal) /\ Licensed(s.ctx, a)
           /\ s.ctx.closedEpoch = "none" \/ CanReopen(m)
  <2>1. t = IF r THEN Begin([x EXCEPT !.ctx.claimed = TRUE])
            ELSE Refuse(ReleaseObjects(Poison(x)))
    <3> DEFINE y == Prepared(m, m, a, r)
    <3>1. /\ ~(m.ctx.poisoned \/ m.ctx.terminal) /\ Licensed(m.ctx, a)
          /\ ~(~(m.ctx.closedEpoch = "none") /\ ~CanReopen(m))
      BY <1>7
    <3>2. y = x
      <4>1. (s.ctx.closedEpoch = "none") = (m.ctx.closedEpoch = "none")
        OBVIOUS
      <4> QED
        BY <4>1 DEF Prepared
    <3>3. t = IF ~r THEN Refuse(ReleaseObjects(Poison(y)))
              ELSE Begin([y EXCEPT !.ctx.claimed = TRUE])
      BY <3>1, Zenon DEF Activate, Prepared
    <3> HIDE DEF x, y, t
    <3> QED
      BY <3>2, <3>3
  <2>2. /\ x \in State /\ x.fw = m.fw /\ x.left = s.left /\ Epoch(x.usb)
        /\ Drained(x.usb) /\ ~x.usb.sync
        /\ x.ctx.seq = 0 => x.usb = NewUsb
        /\ x.ctx.seq # 0 => x.usb.fence /\ x.ctx.fence
        /\ x.ctx.seq = s.ctx.seq /\ x.ctx.gen = 0 /\ x.ctx.sub = "none"
        /\ ~x.ctx.pending /\ ~x.ctx.scheduled /\ ~x.ctx.nonquiescent
        /\ ~x.ctx.poisoned /\ ~x.ctx.held /\ ~x.ctx.known
        /\ x.ctx.closedEpoch = "none" /\ x.ctx.st = "INACTIVE"
        /\ r => x.ctx.consumed /\ x.ctx.action = a
        /\ s.ctx.closedEpoch = "none" => s.ctx = NewContext
    BY <1>7, PreparedIs
  <2>3. s.left.finish <= MaxStale
    BY <1>1, <1>7, DeviceAssumption DEF Idle, Over
  <2>4. x.ctx \in Context /\ x.usb \in Usb
    BY <2>2, PartsAre
  <2>5. s.ctx.sub = "none"
    BY <1>7, <2>2 DEF CanReopen, NewContext
  <2> HIDE DEF x, t
  <2>6. CASE r
    <3> DEFINE c == [x.ctx EXCEPT !.claimed = TRUE]
               y == [x EXCEPT !.ctx.claimed = TRUE]
    <3>1. /\ c \in Context /\ c.seq = x.ctx.seq /\ c.sub = "none"
          /\ ~c.pending /\ ~c.scheduled /\ ~c.nonquiescent
          /\ ~c.poisoned /\ ~c.held /\ ~c.known /\ c.closedEpoch = "none"
          /\ c.consumed /\ c.action = a /\ c.claimed
      BY <2>2, <2>4, <2>6 DEF Context
    <3>2. y = [x EXCEPT !.ctx = c]
      BY <2>2 DEF State
    <3> HIDE DEF c
    <3>3. y \in State /\ y.fw = m.fw /\ y.ctx = c /\ y.usb = x.usb /\ y.left = s.left
      BY <2>2, <3>1, <3>2 DEF State
    <3> HIDE DEF y
    <3>4. Core(y)
      BY <2>2, <3>1, <3>3 DEF Core, Drained
    <3>5. t = Begin(y)
      BY <2>1, <2>6 DEF y
    <3>6. Working(t) /\ Hears(t) /\ t.ctx.action = a
      BY <1>1, <2>2, <2>3, <3>1, <3>3, <3>4, <3>5, BeginHolds
    <3>7. Epochs(s, t)
      <4> SUFFICES ASSUME s.ctx.seq > 0
                   PROVE  /\ s.ctx.known /\ s.ctx.success /\ ~s.ctx.match
                          /\ ~s.ctx.poisoned /\ ~s.ctx.claimed
                          /\ s.ctx.sub = "none" /\ Drained(s.usb)
                          /\ \/ a = s.ctx.action
                             \/ s.ctx.action = "identify" /\ a = "enroll"
        BY <1>7, <3>6 DEF Epochs
      <4>1. s.ctx.closedEpoch # "none"
        BY <2>2 DEF NewContext
      <4>2. /\ s.ctx.known /\ ~s.ctx.claimed /\ s.ctx.success
            /\ s.ctx.action = s.ctx.closedEpoch
        BY <1>7, <4>1 DEF Idle
      <4>3. ~s.ctx.match
        BY <1>1, <1>7, <4>2 DEF Core
      <4>4. Drained(s.usb)
        BY <1>7, <4>1 DEF CanReopen, CanReset
      <4>5. s.ctx.action \in {"verify", "identify"}
        BY <1>1, <4>1, <4>2 DEF Context, Capture
      <4>6. \/ a = s.ctx.action
            \/ s.ctx.action = "identify" /\ a = "enroll"
        BY <1>7, <4>2, <4>5 DEF Licensed
      <4> QED
        BY <1>7, <2>5, <4>2, <4>3, <4>4, <4>6
    <3>8. Good(s, t)
      BY <1>1, <3>6, <3>7 DEF Good, Holds, Working, Released, DoneIfOk
    <3> QED
      BY <3>6, <3>8, WorkingIs DEF t
  <2>7. CASE ~r
    <3> DEFINE c == [x.ctx EXCEPT !.poisoned = TRUE, !.sub = "none",
                                  !.reply = "open"]
               n == ReleaseObjects(Poison(x))
               k == [s EXCEPT !.ctx = c, !.usb = x.usb]
    <3>1. /\ c \in Context /\ c.seq = x.ctx.seq /\ c.sub = "none"
          /\ ~c.pending /\ ~c.scheduled /\ c.poisoned /\ ~c.known
          /\ c.closedEpoch = "none" /\ c.st = "INACTIVE" /\ c.gen = 0
          /\ c.fence = x.ctx.fence
      <4> "none" \in Subs
        BY DEF Subs
      <4> QED
        BY <2>2, <2>4 DEF Context
    <3>2. n = [x EXCEPT !.ctx = c]
      BY <2>2 DEF ReleaseObjects, Poison, State
    <3>3. t = Refuse(n)
      BY <2>1, <2>7
    <3> HIDE DEF c, n
    <3>4. n \in State /\ n.fw = m.fw /\ n.ctx = c /\ n.usb = x.usb /\ n.left = s.left
      BY <2>2, <3>1, <3>2 DEF State
    <3>5. k \in State /\ k.fw = s.fw /\ k.ctx = c /\ k.usb = x.usb /\ k.left = s.left
      BY <1>1, <2>4, <3>1 DEF State
    <3> HIDE DEF k
    <3>6. Core(k)
      BY <1>1, <2>2, <3>1, <3>5 DEF Core, Drained
    <3>7. Idle(k)
      <4>1. Over(k)
        BY <2>2, <2>3, <3>1, <3>5, DeviceAssumption DEF Over
      <4> QED
        BY <1>1, <3>1, <3>5, <4>1 DEF Idle
    <3>8. Rel(s, k)
      BY <2>2, <2>5, <3>1, <3>5 DEF Rel
    <3> QED
      BY <1>1, <3>1, <3>3, <3>4, <3>5, <3>6, <3>7, <3>8, RefusedHolds DEF t
  <2> QED
    BY <2>6, <2>7
<1> QED
  BY <1>4, <1>5, <1>6, <1>7

LEMMA StartHolds ==
  ASSUME IInv, NEW a \in Action, Start(a)
  PROVE  Good(Now, Now')
<1> DEFINE s == Now
           f == ActionBegins(s.fw, a)
           m == [s EXCEPT !.fw = Expect(ActionBegins(fw, a),
                            ctx.st \in {"INACTIVE", "ACTIVE", "POISONED"})]
<1>1. /\ s \in State /\ s.fw \in Device /\ Framework(s.fw) /\ Core(s)
      /\ Idle(s) /\ Rest(s) /\ s.ctx.gen = 0 /\ s.fw = fw /\ s.ctx = ctx
      /\ s.ctx.seq < MaxGen /\ s.fw.open /\ s.fw.action = "none"
  BY HoldsIs, RestIs DEF IInv, Start, Now
<1>2. PICK usable \in BOOLEAN, r \in BOOLEAN :
        Becomes(IF usable THEN Activate(m, a, r) ELSE Refuse(m))
  BY DEF Start
<1> HIDE DEF s
<1>3. /\ f \in Device /\ Framework(f) /\ f.action = a /\ ~f.active
      /\ ~f.cancelled /\ ~f.held /\ f.stage = 0
  BY <1>1, ActionBeginsIs
<1>4. m \in State /\ m.fw = f /\ m.ctx = s.ctx /\ m.usb = s.usb /\ m.left = s.left
  <2> HIDE DEF f
  <2>1. ctx.st \in {"INACTIVE", "ACTIVE", "POISONED"}
    BY <1>1 DEF Idle
  <2>2. Expect(f, TRUE) = f
    BY <1>3 DEF Expect, Framework, Device
  <2>3. m = [s EXCEPT !.fw = f]
    BY <1>1, <2>1, <2>2 DEF f
  <2> QED
    BY <1>1, <1>3, <2>3 DEF State
<1> HIDE DEF f, m
<1>5. Refuse(m) \in State /\ Good(s, Refuse(m))
  <2>1. Rel(s, s) /\ a # "none"
    BY DEF Rel, Action, Capture
  <2> QED
    BY <1>1, <1>3, <1>4, <2>1, RefusedHolds
<1>6. Activate(m, a, r) \in State /\ Good(s, Activate(m, a, r))
  BY <1>1, <1>3, <1>4, ActivateHolds
<1>7. CASE usable
  BY <1>2, <1>6, <1>7, BecomesIs DEF s
<1>8. CASE ~usable
  BY <1>2, <1>5, <1>8, BecomesIs DEF s
<1> QED
  BY <1>7, <1>8

LEMMA InCompletesHolds ==
  ASSUME IInv, InCompletes
  PROVE  Good(Now, Now')
<1> DEFINE s == Now
<1>1. /\ Core(s) /\ s.usb.in # "none" /\ s.usb = usb
      /\ (Working(s) /\ Hears(s)) \/ Rest(s)
  BY HoldsIs DEF IInv, InCompletes, Now
<1>2. PICK o \in InOutcomes(s) : Becomes(InReturns(s, o))
  BY DEF InCompletes
<1> DEFINE t == InReturns(s, o)
<1> HIDE DEF s
<1>3. CASE Working(s) /\ Hears(s)
  <2>1. Leads(s, t)
    BY <1>1, <1>3, InWorks
  <2> HIDE DEF t
  <2>2. t \in State
    BY <2>1, WorkingIs DEF Leads, Ends, Core
  <2> QED
    BY <1>2, <2>1, <2>2, BecomesIs, LeadsGood DEF s, t
<1>4. CASE Rest(s)
  <2>1. Ends(s, t)
    BY <1>1, <1>4, InRests
  <2> HIDE DEF t
  <2>2. t \in State
    BY <2>1 DEF Ends, Core
  <2> QED
    BY <1>2, <2>1, <2>2, BecomesIs, EndsGood DEF s, t
<1> QED
  BY <1>1, <1>3, <1>4

LEMMA OutCompletesHolds ==
  ASSUME IInv, OutCompletes
  PROVE  Good(Now, Now')
<1> DEFINE s == Now
<1>1. /\ Core(s) /\ s.usb.out /\ s.usb = usb
      /\ (Working(s) /\ Hears(s)) \/ Rest(s)
  BY HoldsIs DEF IInv, OutCompletes, Now
<1>2. PICK o \in OutOutcomes(s) : Becomes(OutReturns(s, o))
  BY DEF OutCompletes
<1> DEFINE t == OutReturns(s, o)
<1> HIDE DEF s
<1>3. CASE Working(s) /\ Hears(s)
  <2>1. Leads(s, t)
    BY <1>1, <1>3, OutWorks
  <2> HIDE DEF t
  <2>2. t \in State
    BY <2>1, WorkingIs DEF Leads, Ends, Core
  <2> QED
    BY <1>2, <2>1, <2>2, BecomesIs, LeadsGood DEF s, t
<1>4. CASE Rest(s)
  <2>1. Ends(s, t)
    BY <1>1, <1>4, OutRests
  <2> HIDE DEF t
  <2>2. t \in State
    BY <2>1 DEF Ends, Core
  <2> QED
    BY <1>2, <2>1, <2>2, BecomesIs, EndsGood DEF s, t
<1> QED
  BY <1>1, <1>3, <1>4

-----------------------------------------------------------------------------
(* The theorems.                                                            *)
LEMMA NextHolds ==
  ASSUME IInv, Next
  PROVE  Good(Now, Now')
<1>1. CASE Open
  BY <1>1, OpenHolds
<1>2. CASE Close
  BY <1>2, CloseHolds
<1>3. CASE Cancel
  BY <1>3, CancelHolds
<1>4. CASE \E a \in Action : Start(a)
  BY <1>4, StartHolds
<1>5. CASE InCompletes
  BY <1>5, InCompletesHolds
<1>6. CASE OutCompletes
  BY <1>6, OutCompletesHolds
<1>7. CASE CancelIdle
  BY <1>7, CancelIdleHolds
<1>8. CASE ActivationCancelIdle
  BY <1>8, ActivationCancelHolds
<1>9. CASE DeactivationIdle
  BY <1>9, DeactivationIdleHolds
<1> QED
  BY <1>1, <1>2, <1>3, <1>4, <1>5, <1>6, <1>7, <1>8, <1>9 DEF Next

(* After every callback of the main loop the framework, the context and the *)
(* backend are in one of seven matching modes: between two operations, in   *)
(* an activation, in an operation that waits for a transfer, in one that    *)
(* was cancelled or that failed, in a deactivation, or without a context.   *)
THEOREM AlwaysMatching == Spec => []IInv
<1>1. Init => IInv
  BY InitHolds
<1>2. IInv /\ [Next]_vars => IInv'
  <2> SUFFICES ASSUME IInv, [Next]_vars PROVE IInv'
    OBVIOUS
  <2>1. CASE Next
    BY <2>1, NextHolds DEF Good, IInv
  <2>2. CASE UNCHANGED vars
    <3>1. Now' = Now
      BY <2>2 DEF Now, vars
    <3> QED
      BY <3>1 DEF IInv
  <2> QED
    BY <2>1, <2>2
<1> QED
  BY <1>1, <1>2, PTL DEF Spec

(* The state of the framework, of the driver's context and of the backend   *)
(* stays in range: a context queues one deactivation idle at most, and no   *)
(* cancellation idle (goodix_fpimage_device.c) outlives its operation.      *)
THEOREM AlwaysTypeOK == Spec => []TypeOK
<1>1. IInv => TypeOK
  <2> SUFFICES ASSUME IInv PROVE TypeOK
    OBVIOUS
  <2>1. /\ Now.fw \in Device /\ Now.ctx \in Context /\ Now.usb \in Usb
        /\ Now.left \in Remains
    BY HoldsIs DEF IInv
  <2>2. /\ fw \in Device /\ ctx \in Context /\ usb \in Usb
        /\ left \in Remains
    BY <2>1 DEF Now
  <2> QED
    BY <2>2 DEF TypeOK, Device, Context, Usb, Remains, Gens, Subs
<1> QED
  BY <1>1, AlwaysMatching, PTL

(* No callback of the driver trips an assertion of the framework's image    *)
(* device, and the two agree on when a deactivation is under way.           *)
THEOREM AlwaysNoBreach == Spec => []NoBreach
<1>1. IInv => NoBreach
  <2> SUFFICES ASSUME IInv PROVE NoBreach
    OBVIOUS
  <2> DEFINE s == Now
  <2>1. /\ Framework(s.fw) /\ (Working(s) \/ Rest(s) \/ Absent(s))
        /\ s.fw \in Device /\ s.ctx \in Context
    BY HoldsIs DEF IInv
  <2>2. s.fw = fw /\ s.ctx = ctx
    BY DEF Now
  <2> HIDE DEF s
  <2>3. /\ (s.fw.st = "DEACTIVATING") <=> s.ctx.pending
        /\ (s.ctx.st = "DEACTIVATING") <=> s.ctx.pending
    <3>1. CASE Activating(s)
      BY <2>1, <3>1 DEF Activating, Live, Works, Framework
    <3>2. CASE Active(s)
      <4>1. s.fw.st \in {"AWAIT_ON", "CAPTURE", "AWAIT_OFF"}
        BY <3>2 DEF Active, InStep, Session, Lifecycle, Binding
      <4> QED
        BY <3>2, <4>1 DEF Active, Live, Works
    <3>3. CASE Idle(s)
      BY <2>1, <3>3 DEF Idle, Framework
    <3>4. CASE Giving(s)
      BY <2>1, <3>4 DEF Giving, Framework
    <3>5. CASE Doomed(s)
      BY <2>1, <3>5 DEF Doomed, Works
    <3>6. CASE Deactivating(s)
      BY <3>6 DEF Deactivating
    <3>7. CASE Absent(s)
      BY <2>1, <3>7 DEF Absent, NoContext, NewContext, Framework
    <3> QED
      BY <2>1, <3>1, <3>2, <3>3, <3>4, <3>5, <3>6, <3>7 DEF Working, Rest
  <2> QED
    BY <2>1, <2>2, <2>3 DEF NoBreach, Framework, Context
<1> QED
  BY <1>1, AlwaysMatching, PTL

(* As long as an operation is not fenced, it has a transfer under way: the  *)
(* driver never forgets to listen again after a frame, an image or a send.  *)
THEOREM AlwaysListening == Spec => []Listening
<1>1. IInv => Listening
  <2> SUFFICES ASSUME IInv, ctx.st \in {"ACTIVATING", "ACTIVE"}, ~ctx.fence
               PROVE  ~Drained(usb)
    BY DEF Listening
  <2> DEFINE s == Now
  <2>1. s.ctx = ctx /\ s.usb = usb
    BY DEF Now
  <2>2. (Working(s) /\ Hears(s)) \/ Rest(s) \/ Absent(s)
    BY HoldsIs DEF IInv
  <2> HIDE DEF s
  <2>3. ~Absent(s)
    BY <2>1 DEF Absent, NoContext, NewContext
  <2>4. ~Rest(s)
    BY <2>1 DEF Rest, Idle, Giving, Doomed, Deactivating
  <2>5. Working(s) /\ Hears(s)
    BY <2>2, <2>3, <2>4
  <2>6. CASE Activating(s)
    BY <2>1, <2>5, <2>6 DEF Activating, Hears, Drained
  <2>7. CASE Active(s)
    BY <2>1, <2>5, <2>7 DEF Active, Hears, Drained
  <2> QED
    BY <2>5, <2>6, <2>7 DEF Working
<1> QED
  BY <1>1, AlwaysMatching, PTL

(* Epochs are kept apart: every transfer and the router's token belong to   *)
(* the backend's generation, and nothing was sent before the drain ended.   *)
THEOREM AlwaysEpochsApart == Spec => []EpochsApart
<1>1. IInv => EpochsApart
  <2> SUFFICES ASSUME IInv PROVE EpochsApart
    OBVIOUS
  <2>1. Core(Now)
    BY HoldsIs DEF IInv
  <2>2. /\ Epoch(usb) /\ (usb.out => ctx.sync = "pass")
    BY <2>1 DEF Core, Now
  <2> QED
    BY <2>2 DEF EpochsApart, TokensAgree, Epoch
<1> QED
  BY <1>1, AlwaysMatching, PTL

LEMMA StepIsGood ==
  ASSUME IInv, Next
  PROVE  /\ /\ ctx.poisoned /\ ctx'.st # "NONE"
                 => ctx'.poisoned /\ ctx'.seq = ctx.seq
            /\ ctx.seq > 0 /\ ctx'.seq > ctx.seq
                 => /\ ctx.known /\ ctx.success /\ ~ctx.match
                    /\ ~ctx.poisoned /\ ~ctx.claimed /\ ctx.sub = "none"
                    /\ Drained(usb)
                    /\ \/ ctx'.action = ctx.action
                       \/ ctx.action = "identify" /\ ctx'.action = "enroll"
         /\ ctx.sub # "none" /\ ctx'.sub = "none"
              => left'.finish < left.finish \/ fw.action = "none"
         /\ fw.action # "none" /\ fw'.action = "none" /\ fw'.result = "ok"
              => /\ Drained(usb')
                 /\ IF fw.action = "enroll" THEN fw.stage = Stages
                    ELSE ctx'.known /\ ~ctx'.claimed
<1> DEFINE s == Now
           t == Now'
<1>1. Good(s, t)
  BY NextHolds
<1>2. /\ s.fw = fw /\ s.ctx = ctx /\ s.usb = usb /\ s.left = left
      /\ t.fw = fw' /\ t.ctx = ctx' /\ t.usb = usb' /\ t.left = left'
  BY DEF Now
<1> HIDE DEF s, t
<1>3. Epochs(s, t) /\ Released(s, t) /\ DoneIfOk(s, t)
  BY <1>1 DEF Good
<1> QED
  BY <1>2, <1>3 DEF Epochs, Released, DoneIfOk

(* A poisoned context stays poisoned and begins no epoch, and a second      *)
(* epoch needs a capture that ended without a match, gave all back and      *)
(* licensed the operation, however the idle callbacks are interleaved.      *)
THEOREM OnlyLicensedEpochs == Spec => EpochIsLicensed
<1>1. IInv /\ [Next]_vars =>
        [/\ ctx.poisoned /\ ctx'.st # "NONE"
              => ctx'.poisoned /\ ctx'.seq = ctx.seq
         /\ ctx.seq > 0 /\ ctx'.seq > ctx.seq
              => /\ ctx.known /\ ctx.success /\ ~ctx.match /\ ~ctx.poisoned
                 /\ ~ctx.claimed /\ ctx.sub = "none" /\ Drained(usb)
                 /\ \/ ctx'.action = ctx.action
                    \/ ctx.action = "identify" /\ ctx'.action = "enroll"]_vars
  BY StepIsGood
<1> QED
  BY <1>1, AlwaysMatching, PTL DEF Spec, EpochIsLicensed

(* A completion of a transfer, which runs inside an engine, never frees the *)
(* engines: they are freed from the deactivation's idle callback, or when   *)
(* the client starts or closes.                                             *)
THEOREM OnlyReleasedFromIdle == Spec => ReleasedFromIdle
<1>1. IInv /\ [Next]_vars =>
        [ctx.sub # "none" /\ ctx'.sub = "none"
           => left'.finish < left.finish \/ fw.action = "none"]_vars
  BY StepIsGood
<1> QED
  BY <1>1, AlwaysMatching, PTL DEF Spec, ReleasedFromIdle

(* An operation that the framework reports as done has its transfers back,  *)
(* and its outcome and interface, or all the images of an enrollment.       *)
THEOREM AlwaysOkMeansDone == Spec => OkMeansDone
<1>1. IInv /\ [Next]_vars =>
        [fw.action # "none" /\ fw'.action = "none" /\ fw'.result = "ok"
           => /\ Drained(usb')
              /\ IF fw.action = "enroll" THEN fw.stage = Stages
                 ELSE ctx'.known /\ ~ctx'.claimed]_vars
  BY StepIsGood
<1> QED
  BY <1>1, AlwaysMatching, PTL DEF Spec, OkMeansDone
=============================================================================
