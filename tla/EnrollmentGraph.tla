---------------------------- MODULE EnrollmentGraph ----------------------------
(****************************************************************************)
(* The graph of events that takes the touches of an enrollment, from the    *)
(* hand-over at the first arm on: goodix_enrollment_model.c with its        *)
(* pipeline, command plan, FDT state, lifecycle adapter, A0 adapter         *)
(* (goodix_enrollment_post_tls_events.c), outbound transaction and USB      *)
(* binding, the callbacks of the context, and the framework they call.      *)
(*                                                                          *)
(* A touch (IRQ 2) is captured (22) and must be followed by a lift: 34 arms *)
(* for it.  After the first touch come a tail (20) and a navigation (32,    *)
(* 50, 32); after each later one the sensor is scanned (36) and a tail read *)
(* (20) before the lift is waited for (34 again).  Then 32 arms for the next*)
(* touch.  The image is judged only once the lift is armed for.  A scan that*)
(* finds no finger ends the touch early, and the lift, which the reader may *)
(* still report, is then let pass once.                                     *)
(*                                                                          *)
(* The graph and all its layers are one record; an operator named for a C   *)
(* function maps it to what that function leaves.  A layer that refuses     *)
(* fails all above it, up to the context, which fences itself.  This is the *)
(* ChicagoHS build: the framework judges an image inside the callback.      *)
(****************************************************************************)
EXTENDS ImageDevice, Sequences

CONSTANTS
  Required,    \* GOODIX_BIOMETRIC_ENROLL_STAGES
  Irq80Limit,  \* GOODIX_IRQ80_PER_WAIT_LIMIT
  MaxRetries,  \* bound on the touches the engine refuses
  MaxStrays,   \* bound on the IRQ0080 of one wait
  MaxErrors    \* bound on misbehaviour of the reader and of its cable

ASSUME RequiredAssumption == Required \in Nat /\ Required >= 2
ASSUME BoundAssumption ==
  {Irq80Limit, MaxRetries, MaxStrays, MaxErrors} \subseteq Nat

VARIABLES
  graph,   \* the enrollment's objects, their OUT and IN, and the framework
  reader,  \* the reader and the finger on it
  blame,   \* somebody gave the enrollment a reason to fail
  errors   \* how often reader or cable misbehaved

vars == <<graph, reader, blame, errors>>

-----------------------------------------------------------------------------
(* GoodixEnrollmentEvent.  Those that the reader causes are also its frames.*)

Command(c) == [kind |-> "command", of |-> c]
Ack(c) == [kind |-> "ack", of |-> c]
Event(kind) == [kind |-> kind, of |-> "event"]
Plain(part) == [kind |-> "plain", of |-> part]  \* an image, or half of one

Nothing == Event("none")
Primary == Event("primary")      \* the image of the touch
Auxiliary == Event("auxiliary")  \* the image of the tail, never looked at
Touch == Event("irq0002")
Sample == Event("irq0100")
ZeroSample == Event("zero")      \* IRQ 0100 of a sensor without a finger
Lift == Event("irq0200")
Stray == Event("irq0080")
Nav == Event("nav")
Garbage == Event("garbage")      \* fails a check of its handler

Commands == {"20", "22", "32", "34", "36", "50"}
PlainFrames == {Plain("whole"), Plain("half"), Plain("garbage")}
A0Frames ==
  {Ack(c) : c \in Commands}
    \cup {Touch, Sample, ZeroSample, Lift, Stray, Nav, Garbage}

(* What the engine makes of an image.                                       *)
Verdicts == {"good", "again", "broken"}

-----------------------------------------------------------------------------
(* "at" is where the OUT transfer is: none, under way, or received by the   *)
(* reader and not yet returned.  current, up and down are the touches that  *)
(* the FDT tables belong to.                                                *)

NewGraph ==
  [expected |-> Touch, transition |-> "none", navSeen |-> FALSE,
   afterAux |-> FALSE, pending |-> FALSE, observed |-> 0, completed |-> 0,
   retried |-> 0, complete |-> FALSE, failed |-> FALSE, fenced |-> FALSE,
   out |-> "none", at |-> "idle", listening |-> TRUE, half |-> FALSE,
   strays |-> 0, rearm |-> "none",
   window |-> FALSE, awaiting |-> FALSE, late |-> FALSE,
   current |-> 0, up |-> 0, down |-> 0, held |-> FALSE,
   fw |-> [NewDevice EXCEPT !.open = TRUE, !.action = "enroll",
                            !.active = TRUE, !.st = "AWAIT_ON"]]

ExpectedEvent(g) ==
  CASE g.failed -> Nothing
    [] ~g.failed /\ g.rearm = "command" -> Command("32")
    [] ~g.failed /\ g.rearm = "ack" -> Ack("32")
    [] ~g.failed /\ g.rearm = "none" -> g.expected

CommandIsNext(g) == ExpectedEvent(g).kind = "command"

(* goodix_device_context_set_terminal_fence(): a graph that is complete is  *)
(* not cancelled.                                                           *)
SetFence(g) ==
  IF g.complete THEN [g EXCEPT !.fenced = TRUE]
  ELSE [g EXCEPT !.failed = TRUE, !.fenced = TRUE, !.rearm = "none",
                 !.half = FALSE, !.window = FALSE, !.awaiting = FALSE,
                 !.late = FALSE]

Fail(g) == SetFence(g)

NeedsReceive(g) ==
  ~g.failed /\ g.out = "none" /\ ~g.complete /\ (g.awaiting \/ ~CommandIsNext(g))

ArmIfNeeded(g) ==
  IF g.fenced \/ ~NeedsReceive(g) THEN g ELSE [g EXCEPT !.listening = TRUE]

-----------------------------------------------------------------------------
(* Sending.  A command takes an FDT table of the touch it belongs to.       *)

Touched(g, command) == IF command = "22" THEN g.observed + 1 ELSE g.observed

Resolves(g, command) ==
  LET touch == Touched(g, command)
  IN /\ touch = g.current
     /\ command = "34" => g.up = touch
     /\ command = "36" => touch >= 2 /\ g.down + 1 = touch
     /\ command = "32" => g.down = touch

SubmitNext(g) ==
  LET command == ExpectedEvent(g).of
  IN IF \/ g.failed \/ g.complete \/ g.out # "none" \/ g.half \/ g.awaiting
        \/ ~CommandIsNext(g)
        \/ g.rearm = "none" /\ ~Resolves(g, command)
     THEN Fail(g)
     ELSE [g EXCEPT !.out = command, !.at = "flying"]

(* submit_if_graph_ready()                                                  *)
SubmitIfReady(g) ==
  IF g.failed \/ g.out # "none" \/ g.complete \/ g.awaiting \/ ~CommandIsNext(g)
  THEN g ELSE SubmitNext(g)

(* A command counts as sent when its OUT is back.                           *)
Commit(g) ==
  IF g.rearm # "none" THEN [g EXCEPT !.rearm = "ack"]
  ELSE [g EXCEPT !.expected = Ack(g.out)]

BackendOutComplete(g) ==
  LET sent == [g EXCEPT !.at = "idle", !.out = "none"]
      committed == [Commit(g) EXCEPT !.at = "idle", !.out = "none"]
  IN IF g.failed THEN sent
     ELSE IF NeedsReceive(committed) THEN [committed EXCEPT !.listening = TRUE]
     ELSE Fail(committed)

BackendOutFailed(g) == Fail([g EXCEPT !.at = "idle", !.out = "none"])

-----------------------------------------------------------------------------
(* The framework, through the context's callbacks.                          *)

EnrollMaybeAwait(f) ==
  IF f.finger \/ f.held THEN f
  ELSE IF f.stage = Required THEN [f EXCEPT !.st = "DEACTIVATING"]
  ELSE [f EXCEPT !.st = "AWAIT_ON"]

ReportFinger(f, present) ==
  LET t == [f EXCEPT !.finger = present]
  IN IF present /\ f.st = "AWAIT_ON" THEN [t EXCEPT !.st = "CAPTURE"]
     ELSE IF present \/ f.st # "AWAIT_OFF" THEN t
     ELSE EnrollMaybeAwait([t EXCEPT !.st = "IDLE"])

RawImage(f) == EnrollMaybeAwait([ImageTaken(f) EXCEPT !.stage = @ + 1])

Contact(g, present) ==
  IF g.fenced THEN Fail(g) ELSE [g EXCEPT !.fw = ReportFinger(@, present)]

ReleaseCompletion(g) ==
  LET f == [Expect(g.fw, g.fw.held) EXCEPT !.held = FALSE]
  IN IF f.active /\ f.stage = Required
     THEN [g EXCEPT !.held = FALSE, !.fenced = TRUE,
                    !.fw = [Expect(f, f.st = "IDLE") EXCEPT !.st = "DEACTIVATING"]]
     ELSE [g EXCEPT !.held = FALSE, !.fw = f]

-----------------------------------------------------------------------------
(* The model.  An image is judged once: refused, accepted, or accepted as   *)
(* the last, which makes the touch terminal and holds back the end.         *)

DeliverStage(g, verdict) ==
  LET last == g.completed + 1 = Required
      hold == IF last THEN HoldCompletion(g.fw) ELSE g.fw
  IN CASE verdict = "broken" -> Fail(g)
       [] verdict = "again" ->
            [g EXCEPT !.retried = @ + 1, !.fw = RetryScan(@)]
       [] verdict = "good" ->
            IF g.completed >= Required THEN Fail(g)
            ELSE [g EXCEPT !.completed = @ + 1, !.held = @ \/ last,
                           !.transition = IF last THEN "terminal" ELSE @,
                           !.fw = RawImage(hold)]

(* Mutant of DeliverPending: the touch stays pending.                       *)
DeliverAndKeep(g, verdict) == IF g.pending THEN DeliverStage(g, verdict) ELSE g

DeliverPending(g, verdict) ==
  IF ~g.pending THEN g
  ELSE LET d == DeliverStage(g, verdict)
       IN IF d.failed THEN d ELSE [d EXCEPT !.pending = FALSE]

Finish(g, verdict) ==
  LET d == DeliverPending(g, verdict)
  IN IF d.failed THEN d
     ELSE [d EXCEPT !.complete = TRUE, !.expected = Nothing]

Expecting(g, event) == [g EXCEPT !.expected = event]

PrimaryTaken(g) ==
  Expecting([g EXCEPT !.observed = @ + 1, !.pending = TRUE,
                      !.transition = IF g.observed = 0 THEN "first"
                                     ELSE "repeated"],
            Command("34"))

AuxiliaryTaken(g) ==
  IF g.transition = "first" THEN Expecting(g, Command("32"))
  ELSE Expecting([g EXCEPT !.afterAux = TRUE], Command("34"))

(* Mutant of LiftArmed: the first touch is not judged.                      *)
JudgedAfterTail(g, verdict) ==
  IF g.transition = "first" THEN Expecting(g, Lift)
  ELSE IF g.afterAux THEN DeliverPending(Expecting(g, Lift), verdict)
  ELSE Expecting(g, Command("36"))

(* The ACK of the 34 that arms for the lift is where the image is judged.   *)
LiftArmed(g, verdict) ==
  IF g.transition = "first" \/ g.afterAux
  THEN DeliverPending(Expecting(g, Lift), verdict)
  ELSE Expecting(g, Command("36"))

Acknowledged(g, verdict) ==
  CASE g.expected.of = "22" -> Expecting(g, Primary)
    [] g.expected.of = "34" -> LiftArmed(g, verdict)
    [] g.expected.of = "36" -> Expecting(g, Sample)
    [] g.expected.of = "20" -> Expecting(g, Auxiliary)
    [] g.expected.of = "50" -> Expecting(g, Nav)
    [] g.expected.of = "32" ->
         Expecting(g, IF g.transition = "first" /\ ~g.navSeen
                      THEN Command("50") ELSE Touch)

(* Mutant of ShutWindow: a touch leaves the window open.                    *)
ForgetLate(g) == [g EXCEPT !.late = FALSE]

ShutWindow(g) == [g EXCEPT !.window = FALSE, !.late = FALSE]

TouchSeen(g) ==
  IF g.current # g.observed THEN Fail(g)
  ELSE Contact(
         Expecting([ShutWindow(g) EXCEPT !.current = g.observed + 1,
                                         !.up = g.observed + 1,
                                         !.transition = "none", !.strays = 0],
                   Command("22")),
         TRUE)

LiftSeen(g, verdict) ==
  LET off == [g EXCEPT !.down = g.observed, !.afterAux = FALSE]
      next == CASE g.transition = "first" -> Expecting(off, Command("20"))
                [] g.transition = "terminal" -> Finish(off, verdict)
                [] OTHER -> Expecting(off, Command("32"))
  IN IF g.observed # g.current \/ g.up # g.observed \/ g.down >= g.observed
     THEN Fail(g)
     ELSE IF next.failed THEN next ELSE Contact(next, FALSE)

(* A scan without a finger.  The next 32 waits until the framework, told    *)
(* here that the finger is off, asks for another touch.                     *)
MayRecover(g) ==
  /\ ~g.window /\ g.observed >= 2
  /\ g.observed = g.completed + g.retried + 1
  /\ g.current = g.observed /\ g.up = g.observed /\ g.down + 1 = g.observed
  /\ g.pending /\ ~g.afterAux

ZeroSeen(g, verdict) ==
  LET off == DeliverPending([g EXCEPT !.down = g.observed], verdict)
      next == IF off.transition = "terminal" THEN Finish(off, verdict)
              ELSE Expecting(off, Command("32"))
      open == [next EXCEPT !.window = ~next.complete,
                           !.awaiting = ~next.complete, !.late = FALSE]
  IN IF ~MayRecover(g) THEN Fail(g)
     ELSE IF off.failed THEN off ELSE Contact(open, FALSE)

(* Mutant of StrayMayPass: one stray too many.                              *)
OneMoreMayPass(g) == g.strays <= Irq80Limit /\ g.down = g.current

StrayMayPass(g) == g.strays < Irq80Limit /\ g.down = g.current

(* An IRQ0080 arms once more with a new table, outside the model's order.   *)
StraySeen(g) ==
  IF StrayMayPass(g) THEN [g EXCEPT !.rearm = "command", !.strays = @ + 1]
  ELSE Fail(g)

-----------------------------------------------------------------------------
(* What a frame does, from the events up to the context.                    *)

EventsHandleA0(g, f, verdict) ==
  LET expected == ExpectedEvent(g)
  IN CASE g.half -> Fail(g)
       [] ~g.half /\ expected = Touch /\ f = Stray -> StraySeen(g)
       [] ~g.half /\ expected = Sample /\ f = ZeroSample -> ZeroSeen(g, verdict)
       [] ~g.half /\ expected = f /\ f.kind = "ack" ->
            IF g.rearm = "ack" THEN [g EXCEPT !.rearm = "none"]
            ELSE Acknowledged(g, verdict)
       [] ~g.half /\ expected = f /\ f = Touch -> TouchSeen(g)
       [] ~g.half /\ expected = f /\ f = Sample -> Expecting(g, Command("20"))
       [] ~g.half /\ expected = f /\ f = Lift -> LiftSeen(g, verdict)
       [] ~g.half /\ expected = f /\ f = Nav ->
            Expecting([g EXCEPT !.navSeen = TRUE], Command("32"))
       [] OTHER -> Fail(g)

(* Mutant of IsLate: late only until the framework asks for a touch.        *)
LateWhileAwaiting(g, f) == g.window /\ g.awaiting /\ f = Lift

(* goodix_enrollment_post_tls_events_consume_stale_release()                *)
IsLate(g, f) == g.window /\ f = Lift

BindingHandleA0(g, f, verdict) ==
  IF IsLate(g, f) THEN IF g.late THEN Fail(g) ELSE [g EXCEPT !.late = TRUE]
  ELSE IF g.out # "none" THEN Fail(g)
  ELSE SubmitIfReady(EventsHandleA0(g, f, verdict))

(* goodix_device_context_maybe_rearm(): the next sample is asked for.       *)
MaybeRearm(g) ==
  IF g.fw.st # "AWAIT_ON" \/ ~g.awaiting THEN g
  ELSE IF g.out # "none" \/ g.expected # Command("32") THEN Fail(g)
  ELSE SubmitIfReady([g EXCEPT !.awaiting = FALSE])

ContextHandleA0(g, f, verdict) ==
  LET handled == BindingHandleA0(g, f, verdict)
      released == IF ~handled.failed /\ handled.held /\ handled.complete
                  THEN ReleaseCompletion(handled) ELSE handled
  IN IF released.fenced THEN released ELSE MaybeRearm(released)

(* An image comes whole or in two pieces.                                   *)
HandlePlaintext(g, f) ==
  LET expected == ExpectedEvent(g)
      done == [g EXCEPT !.half = FALSE]
  IN IF \/ g.out # "none"
        \/ expected \notin {Primary, Auxiliary}
        \/ f = Plain("garbage")
        \/ f = Plain("whole") /\ g.half
     THEN Fail(g)
     ELSE IF f = Plain("half") /\ ~g.half THEN [g EXCEPT !.half = TRUE]
     ELSE SubmitIfReady(IF expected = Primary THEN PrimaryTaken(done)
                        ELSE AuxiliaryTaken(done))

-----------------------------------------------------------------------------
(* The reader.  "captures", "releases" and "arms" count the 22, and the 34  *)
(* and 32 since the last of them, as far as they make a difference; "due"   *)
(* is what the host has not read yet; "lifting" is a lift to be reported.   *)

FreshReader ==
  [armed |-> "touch", finger |-> FALSE, lifting |-> FALSE, due |-> <<>>,
   captures |-> 0, releases |-> 0, arms |-> 0, zeroed |-> FALSE, strays |-> 0]

UpToTwo(n) == IF n < 2 THEN n ELSE 2

Replies(r, command) ==
  CASE command = "22" -> {<<Plain("whole")>>, <<Plain("half"), Plain("half")>>}
    [] command = "20" -> {<<Plain("whole")>>}
    [] command = "36" -> IF r.finger THEN {<<Sample>>, <<ZeroSample>>}
                         ELSE {<<ZeroSample>>}
    [] command = "50" -> {<<Nav>>}
    [] command \in {"32", "34"} -> {<<>>}

After(r, command, reply) ==
  LET told == [r EXCEPT !.due = (@ \o <<Ack(command)>>) \o reply]
  IN CASE command = "22" ->
            [told EXCEPT !.captures = UpToTwo(@ + 1), !.releases = 0,
                         !.arms = 0, !.zeroed = FALSE]
       [] command = "34" ->
            [told EXCEPT !.armed = "lift", !.releases = UpToTwo(@ + 1),
                         !.lifting = ~r.finger]
       [] command = "32" ->
            [told EXCEPT !.armed = "touch", !.arms = UpToTwo(@ + 1)]
       [] command = "36" -> [told EXCEPT !.zeroed = reply = <<ZeroSample>>]
       [] command \in {"20", "50"} -> told

(* Between the two 32 after the first touch nothing may be reported.        *)
Navigating == reader.captures = 1 /\ reader.arms = 1

ReaderTakes ==
  /\ graph.at = "flying"
  /\ graph' = [graph EXCEPT !.at = "taken"]
  /\ \E reply \in Replies(reader, graph.out) :
       reader' = After(reader, graph.out, reply)
  /\ UNCHANGED <<blame, errors>>

FingerDown ==
  /\ reader.armed = "touch"
  /\ reader' = [reader EXCEPT !.due = Append(@, Touch), !.armed = "none",
                              !.finger = TRUE, !.lifting = FALSE, !.strays = 0]
  /\ blame' = (blame \/ Navigating)
  /\ UNCHANGED <<graph, errors>>

FingerUp ==
  /\ reader.finger
  /\ reader' = [reader EXCEPT !.finger = FALSE,
                              !.lifting = @ \/ reader.armed = "lift"]
  /\ UNCHANGED <<graph, blame, errors>>

(* Not while a later touch is still scanned, unless it was found empty.  A  *)
(* lift that is not reported before the next touch is not reported.         *)
ReportLift ==
  /\ reader.lifting
  /\ reader' = [reader EXCEPT !.due = Append(@, Lift), !.lifting = FALSE,
                              !.armed = IF @ = "lift" THEN "none" ELSE @]
  /\ blame' = \/ blame
              \/ reader.captures = 2 /\ reader.releases = 1 /\ ~reader.zeroed
  /\ UNCHANGED <<graph, errors>>

StrayEvent ==
  /\ reader.armed = "touch" /\ reader.strays < MaxStrays
  /\ reader' = [reader EXCEPT !.due = Append(@, Stray), !.armed = "none",
                              !.strays = @ + 1]
  /\ blame' = (blame \/ reader.strays >= Irq80Limit \/ Navigating)
  /\ UNCHANGED <<graph, errors>>

ReaderErrs ==
  /\ ~graph.fenced /\ errors < MaxErrors
  /\ errors' = errors + 1
  /\ blame' = TRUE
  /\ \/ \E f \in A0Frames \cup PlainFrames :
          reader' = [reader EXCEPT !.due = <<f>> \o @]
     \/ /\ reader.due # <<>>
        /\ reader' = [reader EXCEPT !.due = Tail(@)]
  /\ UNCHANGED graph

-----------------------------------------------------------------------------
(* The main loop.                                                           *)

Reads ==
  /\ graph.listening /\ ~graph.fenced /\ reader.due # <<>>
  /\ reader' = [reader EXCEPT !.due = Tail(@)]

(* After the frame was handled the context listens again, if it has to.     *)
Receive ==
  /\ Reads
  /\ LET f == Head(reader.due)
         heard == [graph EXCEPT !.listening = FALSE]
     IN \E verdict \in IF graph.pending THEN Verdicts ELSE {"good"} :
          /\ verdict = "again" => graph.retried < MaxRetries
          /\ graph' = ArmIfNeeded(IF f \in PlainFrames THEN HandlePlaintext(heard, f)
                                  ELSE ContextHandleA0(heard, f, verdict))
          /\ blame' = (blame \/ verdict = "broken")
  /\ UNCHANGED errors

OutCompletes ==
  /\ graph.at = "taken"
  /\ graph' = BackendOutComplete(graph)
  /\ UNCHANGED <<reader, blame, errors>>

(* An OUT fails, or it was cancelled by the fence, taken or not.            *)
OutFails ==
  /\ graph.at # "idle"
  /\ graph.fenced \/ errors < MaxErrors
  /\ graph' = BackendOutFailed(graph)
  /\ blame' = TRUE
  /\ errors' = IF graph.fenced THEN errors ELSE errors + 1
  /\ UNCHANGED reader

(* Cancellation, or a failure elsewhere.                                    *)
Fence ==
  /\ ~graph.fenced
  /\ graph' = SetFence(graph)
  /\ blame' = TRUE
  /\ UNCHANGED <<reader, errors>>

(* The objects are freed once the backend is drained; a later enrollment    *)
(* makes new ones.                                                          *)
Renew ==
  /\ graph.fenced /\ graph.at = "idle"
  /\ graph' = NewGraph
  /\ reader' = FreshReader
  /\ blame' = FALSE
  /\ errors' = 0

-----------------------------------------------------------------------------
Init ==
  /\ graph = NewGraph
  /\ reader = FreshReader
  /\ blame = FALSE
  /\ errors = 0

Next ==
  \/ Receive \/ OutCompletes \/ OutFails \/ Fence \/ Renew
  \/ ReaderTakes \/ FingerDown \/ FingerUp \/ ReportLift \/ StrayEvent
  \/ ReaderErrs

Spec == Init /\ [][Next]_vars

(* Completions and frames are dispatched by the main loop (a step that takes*)
(* the next frame is Receive, or the cable lost it), the reader takes what  *)
(* is sent to it and reports a lift it was armed for, and a finger that is  *)
(* waited for comes and goes.                                               *)
LiveSpec ==
  /\ Spec
  /\ WF_reader(Reads) /\ WF_vars(OutCompletes) /\ WF_vars(ReaderTakes)
  /\ WF_vars(FingerDown) /\ WF_vars(FingerUp) /\ WF_vars(ReportLift)

-----------------------------------------------------------------------------
(* Properties.                                                              *)

Touches == 0..Required + MaxRetries

GraphType ==
  [expected : {Command(c) : c \in Commands} \cup {Ack(c) : c \in Commands}
                \cup {Nothing, Primary, Auxiliary, Touch, Sample, Lift, Nav},
   transition : {"none", "first", "repeated", "terminal"},
   navSeen : BOOLEAN, afterAux : BOOLEAN, pending : BOOLEAN,
   observed : Touches, completed : 0..Required, retried : 0..MaxRetries,
   complete : BOOLEAN, failed : BOOLEAN, fenced : BOOLEAN,
   out : Commands \cup {"none"}, at : {"idle", "flying", "taken"},
   listening : BOOLEAN, half : BOOLEAN, strays : 0..Irq80Limit,
   rearm : {"none", "command", "ack"}, window : BOOLEAN, awaiting : BOOLEAN,
   late : BOOLEAN, current : Touches, up : Touches, down : Touches,
   held : BOOLEAN, fw : {graph.fw}]

(* The graph and the reader are what their declarations say; no wait passes *)
(* more than Irq80Limit strays (the limit in events_handle_a0()).           *)
TypeOK ==
  /\ graph \in GraphType
  /\ graph.fw.st \in {"IDLE", "AWAIT_ON", "CAPTURE", "AWAIT_OFF", "DEACTIVATING"}
  /\ reader.armed \in {"none", "touch", "lift"}
  /\ reader.due \in Seq(A0Frames \cup PlainFrames)
  /\ {reader.captures, reader.releases, reader.arms} \subseteq 0..2
  /\ blame \in BOOLEAN
  /\ errors \in 0..MaxErrors

(* The graph never fails by itself: whenever it did, somebody failed it or  *)
(* cancelled it, or the sensor reported what it may not.  In particular the *)
(* lift of a touch that was found empty never fails it, whether it comes    *)
(* while the 32 is under way, before its ACK, after it, or among strays.    *)
FailsOnlyForCause == graph.failed => blame

(* The model's count, the FDT tables, the framework and the transfers stay  *)
(* in step: every touch is judged once, the framework counts the accepted,  *)
(* it awaits a finger whenever the graph does, nothing of libfprint's       *)
(* assertions is hit, and as long as the enrollment goes on the host either *)
(* listens or has a command under way, never both and never neither.        *)
InStep ==
  /\ ~graph.fw.breach /\ graph.fw.stage = graph.completed
  /\ graph.observed = graph.completed + graph.retried
                        + IF graph.pending THEN 1 ELSE 0
  /\ ~graph.fenced =>
       /\ graph.listening = (graph.at = "idle")
       /\ graph.expected = Touch =>
            /\ ~graph.pending /\ graph.fw.st = "AWAIT_ON"
            /\ graph.current = graph.observed /\ graph.down = graph.observed

(* What the framework is told is an enrollment as Enrollment.tla specifies  *)
(* it: the stages that deliver_stage() reports and the touches and lifts    *)
(* that context_enrollment_contact() reports.                               *)
Promised == INSTANCE Enrollment
  WITH finger <- graph.fw.finger, judged <- graph.fw.st # "CAPTURE",
       stage <- graph.fw.stage,
       outcome <- IF graph.fw.st = "DEACTIVATING" THEN "enrolled"
                  ELSE IF graph.fenced THEN "failed" ELSE "open"
ImplementsEnrollment == Promised!Spec

(* With a reader that answers, a finger that comes and goes and an engine   *)
(* that refuses only so often, an enrollment completes, or was failed: no   *)
(* empty scan, late lift or stray leaves it waiting for a frame that never  *)
(* comes.                                                                   *)
EnrollmentEnds == ~graph.fenced ~> graph.complete \/ blame

=============================================================================
