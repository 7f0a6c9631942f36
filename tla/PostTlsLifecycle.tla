--------------------------- MODULE PostTlsLifecycle ---------------------------
(****************************************************************************)
(* The lifecycle that captures a contact once TLS is up,                    *)
(* libfprint-driver/goodix_post_tls_lifecycle.c with the flag rules of      *)
(* goodix_fdt_irq_policy.c, and the reader it drives.                       *)
(*                                                                          *)
(* A phase sends a command and waits for its ACK, or waits for an event or  *)
(* an image.  The lifecycle first takes three samples of the empty sensor   *)
(* and a baseline image, then arms the sensor (32), captures (22), waits    *)
(* for the lift (34) and reads the tail (20, 50).  It is used in four ways: *)
(* one contact (verify, identify), two contacts, a prepared login of up to  *)
(* three contacts, and for an enrollment, which takes the backend over at   *)
(* the first arm.                                                           *)
(*                                                                          *)
(* An operator named for a C function maps the lifecycle to the lifecycle   *)
(* after that function returned.  A callback runs the framework, which may  *)
(* fence the context before the lifecycle goes on: "answer" is what it does.*)
(****************************************************************************)
EXTENDS Naturals, Sequences

CONSTANTS
  Irq80Limit,    \* GOODIX_FIRST_CONTACT_IRQ80_LIMIT
  AttemptLimit,  \* contacts of one prepared login
  MaxStrays,     \* bound on the IRQ0080 of one contact
  MaxErrors      \* bound on misbehaviour of the reader and of its cable

ASSUME LimitAssumption == Irq80Limit \in Nat /\ AttemptLimit \in Nat \ {0}
ASSUME BoundAssumption == MaxStrays \in Nat /\ MaxErrors \in Nat

VARIABLES
  life,    \* GoodixPostTlsLifecycle with its OUT endpoint and the context's fence
  reader,  \* the reader and the finger on it
  blame,   \* somebody gave the lifecycle a reason to fail
  errors   \* how often reader or cable misbehaved

vars == <<life, reader, blame, errors>>

Uses == {"verify", "two", "login", "enroll"}

-----------------------------------------------------------------------------
(* Frames from the reader.                                                  *)

Ack(command) == [kind |-> "ack", of |-> command]
Event(kind) == [kind |-> kind, of |-> "event"]
Sample(touched, steady) ==
  [kind |-> "irq0100", of |-> [touched |-> touched, steady |-> steady]]
Plain(part) == [kind |-> "plain", of |-> part]  \* an image, or half of one

Controller == Event("ae")
Nav == Event("nav")
Threshold == Event("threshold")
Stray == Event("irq0080")
Touch == Event("irq0002")
Lift == Event("irq0200")
Garbage == Event("garbage")  \* fails a check of its handler

Commands == {"d4", "af", "36", "50", "82", "20", "32", "22", "34"}
PlainFrames == {Plain("whole"), Plain("half"), Plain("garbage")}
A0Frames ==
  {Ack(c) : c \in Commands}
    \cup {Sample(t, s) : t \in BOOLEAN, s \in BOOLEAN}
    \cup {Controller, Nav, Threshold, Stray, Touch, Lift, Garbage}

-----------------------------------------------------------------------------
(* The lifecycle.  "at" is where its OUT transfer is: none, under way, or   *)
(* received by the reader and not yet returned to the host.                 *)

NewLifecycle(use) ==
  [use |-> use, phase |-> "NOT_STARTED", expected |-> "none", ack |-> FALSE,
   out |-> FALSE, at |-> "idle", owned |-> FALSE, fenced |-> FALSE,
   samples |-> 0, steady |-> FALSE, learned |-> FALSE, baseline |-> FALSE,
   half |-> FALSE, irq80 |-> 0, rearming |-> FALSE, down |-> FALSE,
   await |-> FALSE, rearmed |-> FALSE, authorized |-> FALSE, attempts |-> 0,
   told |-> "nothing", downs |-> 0,
   asked |-> IF use \in {"login", "enroll"} THEN 0 ELSE 1]

Gated(l) == l.use = "login" /\ ~l.authorized

(* lifecycle_fail(): its terminal callback fences the context.              *)
Fail(l) ==
  IF l.phase = "TERMINAL" THEN l
  ELSE [l EXCEPT !.phase = "TERMINAL", !.learned = FALSE, !.down = FALSE,
                 !.half = FALSE, !.fenced = TRUE]

(* goodix_device_context_set_terminal_fence() leaves a stopped one alone.   *)
SetFence(l) == IF l.phase = "STOP" THEN [l EXCEPT !.fenced = TRUE] ELSE Fail(l)

(* What a callback tells the framework, and what comes back.                *)
Tell(l, event, answer) ==
  LET said == [l EXCEPT !.told = event]
  IN IF answer = "fence" THEN SetFence(said) ELSE said

(* submit_command() and submit_or_fail().                                   *)
Submit(l, command, phase) ==
  IF l.out \/ l.phase \in {"STOP", "TERMINAL"} THEN Fail(l)
  ELSE [l EXCEPT !.phase = phase, !.expected = command, !.ack = FALSE,
                 !.out = TRUE, !.at = "flying"]

BackendOutComplete(l) ==
  [l EXCEPT !.at = "idle", !.out = l.out /\ (~l.owned \/ l.phase = "TERMINAL")]

BackendOutFailed(l) ==
  IF ~l.owned \/ ~l.out \/ l.phase = "TERMINAL" THEN [l EXCEPT !.at = "idle"]
  ELSE Fail([l EXCEPT !.at = "idle", !.out = FALSE])

MaybeSubmitRearm(l) ==
  IF l.phase = "REARM_GATE" /\ l.await /\ l.down /\ ~l.rearmed
  THEN Submit([l EXCEPT !.rearmed = TRUE], "32", "SECOND_ARM")
  ELSE l

SetFrameworkAwait(l) ==
  IF l.phase \in {"STOP", "TERMINAL"} THEN l
  ELSE MaybeSubmitRearm([l EXCEPT !.await = TRUE, !.asked = 2])

Authorize(l) ==
  IF Gated(l) /\ l.phase = "FIRST_IRQ2"
  THEN [l EXCEPT !.authorized = TRUE, !.attempts = 1, !.asked = 1]
  ELSE l

MayGoOn(l) ==
  /\ l.use = "login" /\ l.authorized /\ l.attempts < AttemptLimit
  /\ l.phase = "STOP" /\ l.down /\ l.at = "idle"

NextLogin(l) ==
  IF ~MayGoOn(l) THEN l
  ELSE Submit([l EXCEPT !.attempts = l.attempts + 1, !.irq80 = 0,
                        !.down = FALSE, !.phase = "REARM_GATE",
                        !.asked = l.asked + 1],
              "32", "FIRST_ARM")

-----------------------------------------------------------------------------
(* goodix_post_tls_lifecycle_handle_a0(), by what the phase waits for.      *)

Acknowledges(l, f) == ~l.ack /\ f = Ack(l.expected)

(* Phases whose ACK only moves on, and those that stay for one more frame.  *)
AfterAck ==
  [FDT36_1 |-> "FDT_IRQ100_1", FDT36_2 |-> "FDT_IRQ100_2",
   FDT36_3 |-> "FDT_IRQ100_3", FDT_20 |-> "FDT_B0", FIRST_22 |-> "FIRST_B0",
   RELEASE_34 |-> "RELEASE_IRQ200", RELEASE_20 |-> "RELEASE_B0",
   RELEASE_50 |-> "RELEASE_NAV", SECOND_ARM |-> "SECOND_IRQ2",
   SECOND_22 |-> "SECOND_B0", FDT_NAV_1 |-> "FDT_NAV_1", FDT_82 |-> "FDT_82"]

HandleAck(l, f) ==
  IF Acknowledges(l, f)
  THEN [l EXCEPT !.ack = TRUE, !.phase = AfterAck[l.phase]]
  ELSE Fail(l)

(* The frame that a phase waits for, and the command it leads to.           *)
Expected ==
  [AF |-> <<Controller, "36", "FDT36_1">>,
   FDT_NAV_1 |-> <<Nav, "36", "FDT36_2">>]

HandleExpected(l, f) ==
  LET e == Expected[l.phase]
  IN IF f = e[1] THEN Submit(l, e[2], e[3]) ELSE Fail(l)

HandleD4(l, f) == IF Acknowledges(l, f) THEN Submit(l, "af", "AF") ELSE Fail(l)

(* Only the first sample may be of a touched sensor.  The second is         *)
(* compared with the first once the threshold is known, the third at once.  *)
HandleSample(l, f) ==
  LET s == [l EXCEPT !.samples = l.samples + 1, !.steady = f.of.steady]
  IN IF \/ f.kind # "irq0100"
        \/ f.of.touched /\ l.phase # "FDT_IRQ100_1"
        \/ ~f.of.steady /\ l.phase = "FDT_IRQ100_3"
     THEN Fail(l)
     ELSE CASE l.phase = "FDT_IRQ100_1" -> Submit(s, "50", "FDT_NAV_1")
            [] l.phase = "FDT_IRQ100_2" -> Submit(s, "82", "FDT_82")
            [] l.phase = "FDT_IRQ100_3" ->
                 Submit([s EXCEPT !.learned = TRUE], "32", "FIRST_ARM")

HandleThreshold(l, f) ==
  IF f = Threshold /\ l.steady THEN Submit(l, "20", "FDT_20") ELSE Fail(l)

(* Mutant of HandleFirstArm: the OUT of the arm may still be under way.     *)
FirstArmGivesEarly(l, f, answer) ==
  LET armed == [l EXCEPT !.ack = TRUE, !.rearming = FALSE,
                         !.phase = "FIRST_IRQ2"]
  IN IF ~Acknowledges(l, f) THEN Fail(l)
     ELSE IF l.use # "enroll" THEN armed
     ELSE IF answer = "ok" THEN [armed EXCEPT !.owned = FALSE, !.phase = "STOP"]
     ELSE Fail(l)

(* Mutant of HandleFirstArm: a further arm is never over.                   *)
FurtherArmStays(l, f, answer) ==
  LET armed == [l EXCEPT !.ack = TRUE, !.phase = "FIRST_IRQ2"]
      quiet == ~l.out /\ l.at = "idle"
      given == [armed EXCEPT !.owned = FALSE, !.phase = "STOP"]
  IN IF (l.rearming /\ ~quiet) \/ ~Acknowledges(l, f) THEN Fail(l)
     ELSE IF l.rearming \/ l.use # "enroll" THEN armed
     ELSE IF ~quiet \/ ~l.owned THEN Fail(l)
     ELSE IF answer = "ok" THEN given ELSE Fail(given)

(* The ACK of an arm.  An enrollment takes the backend over here, if the    *)
(* context consents.                                                        *)
HandleFirstArm(l, f, answer) ==
  LET armed == [l EXCEPT !.ack = TRUE, !.rearming = FALSE,
                         !.phase = "FIRST_IRQ2"]
      quiet == ~l.out /\ l.at = "idle"
      given == [armed EXCEPT !.owned = FALSE, !.phase = "STOP"]
  IN IF (l.rearming /\ ~quiet) \/ ~Acknowledges(l, f) THEN Fail(l)
     ELSE IF l.rearming \/ l.use # "enroll" THEN armed
     ELSE IF ~quiet \/ ~l.owned THEN Fail(l)
     ELSE IF answer = "ok" THEN given ELSE Fail(given)

(* Mutant of HandleStray: off by one.                                       *)
StrayOffByOne(l) ==
  IF l.irq80 > Irq80Limit \/ l.out THEN Fail(l)
  ELSE Submit([l EXCEPT !.irq80 = l.irq80 + 1, !.rearming = TRUE],
              "32", "FIRST_ARM")

HandleStray(l) ==
  IF l.irq80 >= Irq80Limit \/ l.out THEN Fail(l)
  ELSE Submit([l EXCEPT !.irq80 = l.irq80 + 1, !.rearming = TRUE],
              "32", "FIRST_ARM")

HandleTouch(l, answer) ==
  LET first == l.phase = "FIRST_IRQ2"
      seen == [l EXCEPT !.downs = l.downs + 1,
                        !.irq80 = IF first THEN 0 ELSE l.irq80]
  IN Submit(Tell(seen, "down", answer), "22",
            IF first THEN "FIRST_22" ELSE "SECOND_22")

(* Mutant of HandleContact: a prepared login captures before it is asked to.*)
ContactUngated(l, f, answer) ==
  CASE f = Stray /\ l.phase = "FIRST_IRQ2" -> HandleStray(l)
    [] f = Touch -> HandleTouch(l, answer)
    [] OTHER -> Fail(l)

HandleContact(l, f, answer) ==
  CASE f = Stray /\ l.phase = "FIRST_IRQ2" /\ ~Gated(l) -> HandleStray(l)
    [] f = Touch /\ ~Gated(l) -> HandleTouch(l, answer)
    [] OTHER -> Fail(l)

HandleLift(l, f) ==
  IF f = Lift THEN Submit([l EXCEPT !.down = TRUE], "20", "RELEASE_20")
  ELSE Fail(l)

Answered(l, answer) == IF answer = "await" THEN SetFrameworkAwait(l) ELSE l

AfterRelease(l) == IF l.use \in {"verify", "login"} THEN "STOP" ELSE "REARM_GATE"

(* Mutant of HandleReleaseNav: the framework is called in the old phase.    *)
ReleaseNavTellsFirst(l, f, answer) ==
  LET told == Answered(Tell(l, "up", answer), answer)
  IN IF f # Nav THEN Fail(l)
     ELSE IF told.phase = "TERMINAL" THEN told
     ELSE [told EXCEPT !.phase = AfterRelease(l)]

(* The framework is told of the lift once the tail is complete, and may     *)
(* await the next finger from inside the callback.                          *)
HandleReleaseNav(l, f, answer) ==
  LET over == [l EXCEPT !.phase = AfterRelease(l)]
  IN IF f # Nav THEN Fail(l)
     ELSE MaybeSubmitRearm(Answered(Tell(over, "up", answer), answer))

HandleA0(l, f, answer) ==
  CASE l.phase \in {"STOP", "TERMINAL"} -> l
    [] l.phase = "D4" -> HandleD4(l, f)
    [] l.phase \in DOMAIN AfterAck /\ (l.phase \notin {"FDT_NAV_1", "FDT_82"} \/ ~l.ack) ->
         HandleAck(l, f)
    [] l.phase = "AF" \/ (l.phase = "FDT_NAV_1" /\ l.ack) -> HandleExpected(l, f)
    [] l.phase = "FDT_82" /\ l.ack -> HandleThreshold(l, f)
    [] l.phase \in {"FDT_IRQ100_1", "FDT_IRQ100_2", "FDT_IRQ100_3"} ->
         HandleSample(l, f)
    [] l.phase = "FIRST_ARM" -> HandleFirstArm(l, f, answer)
    [] l.phase \in {"FIRST_IRQ2", "SECOND_IRQ2"} -> HandleContact(l, f, answer)
    [] l.phase = "RELEASE_IRQ200" -> HandleLift(l, f)
    [] l.phase = "RELEASE_NAV" -> HandleReleaseNav(l, f, answer)
    [] OTHER -> Fail(l)

-----------------------------------------------------------------------------
(* goodix_post_tls_lifecycle_handle_plaintext().                            *)

(* Mutant of HandleImage: a refused image does not end the capture.         *)
ImageRefusalIgnored(l, answer) ==
  LET given == Tell(l, "image", answer)
  IN CASE l.phase = "FDT_B0" -> Submit([l EXCEPT !.baseline = TRUE], "36", "FDT36_3")
       [] l.phase = "FIRST_B0" /\ answer = "refuse" -> Submit(l, "34", "RELEASE_34")
       [] l.phase = "FIRST_B0" /\ answer # "refuse" -> Submit(given, "34", "RELEASE_34")
       [] l.phase = "SECOND_B0" /\ given.phase # "TERMINAL" ->
            [given EXCEPT !.phase = "STOP"]
       [] OTHER -> Fail(given)

HandleImage(l, answer) ==
  LET given == Tell(l, "image", answer)
  IN CASE l.phase = "FDT_B0" -> Submit([l EXCEPT !.baseline = TRUE], "36", "FDT36_3")
       [] l.phase # "FDT_B0" /\ answer = "refuse" -> Fail(l)
       [] l.phase = "FIRST_B0" /\ answer # "refuse" -> Submit(given, "34", "RELEASE_34")
       [] l.phase = "SECOND_B0" /\ answer # "refuse" ->
            IF given.phase = "TERMINAL" THEN given
            ELSE [given EXCEPT !.phase = "STOP"]

(* An image may come in pieces; the image of the tail is not looked at.     *)
HandlePlaintext(l, f, answer) ==
  CASE l.phase \in {"STOP", "TERMINAL"} -> l
    [] l.phase = "RELEASE_B0" -> Submit(l, "50", "RELEASE_50")
    [] l.phase \in {"FDT_B0", "FIRST_B0", "SECOND_B0"} ->
         IF f = Plain("half") /\ ~l.half THEN [l EXCEPT !.half = TRUE]
         ELSE IF f = Plain(IF l.half THEN "half" ELSE "whole")
              THEN HandleImage([l EXCEPT !.half = FALSE], answer)
         ELSE Fail(l)
    [] OTHER -> Fail(l)

-----------------------------------------------------------------------------
(* The reader, as the lifecycle uses it, with the finger on it.  Once it    *)
(* has reported an event it waits to be armed again.  "arms" is counted     *)
(* since the last capture, "strays" since the last touch.                   *)

FreshReader ==
  [armed |-> "nothing", due |-> <<>>, arms |-> 0, strays |-> 0, captures |-> 0]

Replies(command) ==
  CASE command = "af" -> {<<Controller>>}
    [] command = "36" ->
         {<<Ack("36"), Sample(t, s)>> : t \in BOOLEAN, s \in BOOLEAN}
    [] command = "50" -> {<<Ack("50"), Nav>>}
    [] command = "82" -> {<<Ack("82"), Threshold>>}
    [] command = "20" /\ reader.armed = "lifted" -> {<<Ack("20"), Plain("whole")>>}
    [] command = "22" \/ (command = "20" /\ reader.armed # "lifted") ->
         {<<Ack(command), Plain("whole")>>,
          <<Ack(command), Plain("half"), Plain("half")>>}
    [] command \in {"d4", "32", "34"} -> {<<Ack(command)>>}

ArmedBy(command) ==
  CASE command = "32" -> "touch"
    [] command = "34" -> "lift"
    [] OTHER -> reader.armed

(* A sample that the lifecycle has to reject: the finger is on the sensor   *)
(* too early, or the readings drift.                                        *)
Unusable(frame) ==
  /\ frame.kind = "irq0100"
  /\ \/ frame.of.touched /\ life.samples > 0
     \/ ~frame.of.steady /\ life.samples > 0

ReaderTakes ==
  /\ life.at = "flying"
  /\ life' = [life EXCEPT !.at = "taken"]
  /\ LET command == life.expected
     IN \E reply \in Replies(command) :
          /\ reader' = [reader EXCEPT
                          !.due = @ \o reply,
                          !.armed = ArmedBy(command),
                          !.arms = CASE command = "32" -> reader.arms + 1
                                     [] command = "22" -> 0
                                     [] OTHER -> @,
                          !.captures = @ + IF command = "22" THEN 1 ELSE 0]
          /\ blame' = (blame \/ \E i \in 1..Len(reply) : Unusable(reply[i]))
  /\ UNCHANGED errors

ReaderReports(event, armed) ==
  /\ reader.armed = armed
  /\ reader' = [reader EXCEPT
                  !.due = Append(@, event),
                  !.armed = IF event = Lift THEN "lifted" ELSE "nothing",
                  !.strays = CASE event = Touch -> 0
                               [] event = Stray -> reader.strays + 1
                               [] OTHER -> @]
  /\ UNCHANGED <<life, errors>>

FingerDown == ReaderReports(Touch, "touch") /\ UNCHANGED blame
FingerUp == ReaderReports(Lift, "lift") /\ UNCHANGED blame

(* Too many strays, or one where none is allowed, are reason to fail.       *)
StrayEvent ==
  /\ reader.strays < MaxStrays
  /\ ReaderReports(Stray, "touch")
  /\ blame' = \/ blame
              \/ reader.strays >= Irq80Limit
              \/ life.use = "two" /\ life.downs = 1

ReaderErrs ==
  /\ life.phase # "NOT_STARTED" /\ ~life.fenced /\ errors < MaxErrors
  /\ errors' = errors + 1
  /\ blame' = TRUE
  /\ \/ \E f \in A0Frames \cup PlainFrames :
          reader' = [reader EXCEPT !.due = <<f>> \o @]
     \/ /\ reader.due # <<>>
        /\ reader' = [reader EXCEPT !.due = Tail(@)]
  /\ UNCHANGED life

-----------------------------------------------------------------------------
(* The main loop, and what the context asks for.                            *)

Start ==
  /\ life.phase = "NOT_STARTED" /\ ~life.fenced
  /\ life' = Submit([life EXCEPT !.owned = TRUE], "d4", "D4")
  /\ UNCHANGED <<reader, blame, errors>>

OutCompletes ==
  /\ life.at = "taken"
  /\ life' = BackendOutComplete(life)
  /\ UNCHANGED <<reader, blame, errors>>

(* An OUT fails, or it was cancelled by the fence, taken or not.            *)
OutFails ==
  /\ life.at # "idle"
  /\ life.fenced \/ errors < MaxErrors
  /\ life' = BackendOutFailed(life)
  /\ blame' = TRUE
  /\ errors' = IF life.fenced THEN errors ELSE errors + 1
  /\ UNCHANGED reader

(* Frames that may be handled before the OUT of their command is back: an   *)
(* ACK that only moves on.  The ACK of a further arm of one contact may not.*)
MayOvertake(f) ==
  /\ f.kind = "ack" /\ life.phase # "D4"
  /\ life.phase = "FIRST_ARM" => life.use # "enroll" /\ reader.arms <= 1

NeedsReceive == life.phase \notin {"NOT_STARTED", "STOP", "TERMINAL"}

Receive ==
  /\ NeedsReceive /\ ~life.fenced /\ reader.due # <<>>
  /\ LET f == Head(reader.due)
     IN \E answer \in {"ok", "fence", "refuse", "await"} :
          /\ life' = IF f \in PlainFrames THEN HandlePlaintext(life, f, answer)
                     ELSE HandleA0(life, f, answer)
          /\ answer = "await" => life.phase = "RELEASE_NAV" /\ life.use = "two"
          /\ blame' = \/ blame
                      \/ answer \in {"fence", "refuse"}
                      \/ life.at # "idle" /\ ~MayOvertake(f)
                      \/ Gated(life) /\ f \in {Touch, Stray}
  /\ reader' = [reader EXCEPT !.due = Tail(@)]
  /\ UNCHANGED errors

(* goodix_device_context_maybe_rearm(), when the framework awaits a finger. *)
AwaitFinger ==
  /\ life.phase = "REARM_GATE" /\ ~life.await /\ ~life.fenced
  /\ life' = SetFrameworkAwait(life)
  /\ UNCHANGED <<reader, blame, errors>>

(* The client's first Verify of a prepared login, and the later ones.       *)
AuthorizeLogin ==
  /\ Gated(life) /\ life.phase = "FIRST_IRQ2" /\ ~life.fenced
  /\ life' = Authorize(life)
  /\ UNCHANGED <<reader, blame, errors>>

VerifyAgain ==
  /\ MayGoOn(life) /\ ~life.fenced
  /\ life' = NextLogin(life)
  /\ UNCHANGED <<reader, blame, errors>>

(* Cancellation, or a failure elsewhere, at any callback.                   *)
Fence ==
  /\ ~life.fenced
  /\ life' = SetFence(life)
  /\ blame' = TRUE
  /\ UNCHANGED <<reader, errors>>

(* goodix_post_tls_lifecycle_timeout(): only the samples have a deadline.   *)
Timeout ==
  /\ NeedsReceive /\ life.phase # "TERMINAL" /\ ~life.learned
  /\ life' = Fail(life)
  /\ blame' = TRUE
  /\ UNCHANGED <<reader, errors>>

(* The lifecycle is freed once the backend is drained; a later epoch makes  *)
(* a new one, after the pre-session drain has discarded what was under way. *)
Renew ==
  /\ life.fenced /\ life.at = "idle"
  /\ \E use \in Uses : life' = NewLifecycle(use)
  /\ reader' = FreshReader
  /\ blame' = FALSE
  /\ errors' = 0

-----------------------------------------------------------------------------
Init ==
  /\ \E use \in Uses : life = NewLifecycle(use)
  /\ reader = FreshReader
  /\ blame = FALSE
  /\ errors = 0

Next ==
  \/ Start \/ OutCompletes \/ OutFails \/ Receive \/ AwaitFinger
  \/ AuthorizeLogin \/ VerifyAgain \/ Fence \/ Timeout \/ Renew
  \/ ReaderTakes \/ FingerDown \/ FingerUp \/ StrayEvent \/ ReaderErrs

Spec == Init /\ [][Next]_vars

(* Completions and frames are dispatched by the main loop, the reader takes *)
(* what is sent to it, a finger that is waited for comes and goes, and the  *)
(* client asks for the contact it prepared.                                 *)
LiveSpec ==
  /\ Spec
  /\ WF_vars(OutCompletes) /\ WF_vars(Receive) /\ WF_vars(ReaderTakes)
  /\ WF_vars(FingerDown) /\ WF_vars(FingerUp)
  /\ WF_vars(AwaitFinger) /\ WF_vars(AuthorizeLogin)

-----------------------------------------------------------------------------
(* Properties.                                                              *)

Phases ==
  {"NOT_STARTED", "D4", "AF", "FIRST_ARM", "FIRST_IRQ2", "RELEASE_IRQ200",
   "RELEASE_NAV", "REARM_GATE", "SECOND_IRQ2", "STOP", "TERMINAL"}
    \cup DOMAIN AfterAck \cup {AfterAck[p] : p \in DOMAIN AfterAck}

LifeType ==
  [use : Uses, phase : Phases, expected : Commands \cup {"none"},
   ack : BOOLEAN, out : BOOLEAN, at : {"idle", "flying", "taken"},
   owned : BOOLEAN, fenced : BOOLEAN, samples : 0..3, steady : BOOLEAN,
   learned : BOOLEAN, baseline : BOOLEAN, half : BOOLEAN,
   irq80 : 0..Irq80Limit, rearming : BOOLEAN, down : BOOLEAN, await : BOOLEAN,
   rearmed : BOOLEAN, authorized : BOOLEAN, attempts : 0..AttemptLimit,
   told : {"nothing", "down", "image", "up"}, downs : Nat, asked : Nat]

(* The lifecycle and the reader are what their declarations say.            *)
TypeOK ==
  /\ life \in LifeType
  /\ reader.armed \in {"nothing", "touch", "lift", "lifted"}
  /\ reader.due \in Seq(A0Frames \cup PlainFrames)
  /\ {reader.arms, reader.strays, reader.captures} \subseteq Nat
  /\ blame \in BOOLEAN
  /\ errors \in 0..MaxErrors

(* The lifecycle never fails by itself: whenever it did, somebody failed it *)
(* or cancelled it, a frame that leads to a command overtook the OUT before *)
(* it, or the sensor reported something it may not.  (Every handler treats  *)
(* a frame outside its slot, and a command over a pending OUT, as fatal.)   *)
FailsOnlyForCause == life.phase = "TERMINAL" => blame

(* The sensor does only what it was asked for: it is armed once and at most *)
(* Irq80Limit times more for a contact, however often IRQ0080 is reported,  *)
(* also in the later contacts of a login; and it captures no contact the    *)
(* framework did not ask for, none before the first Verify of a login.      *)
SensorIsAsked ==
  reader.arms <= Irq80Limit + 1 /\ reader.captures <= life.asked

(* An enrollment takes over at a moment when nothing is under way and the   *)
(* sensor is armed, or its event is still unread: no contact gets lost      *)
(* between the two owners of the backend.                                   *)
HandsOverArmed ==
  life.use = "enroll" /\ life.phase = "STOP" =>
    /\ life.at = "idle" /\ ~life.out /\ ~life.owned
    /\ \/ reader.armed = "touch" \/ errors > 0
       \/ \E i \in 1..Len(reader.due) : reader.due[i] \in {Touch, Stray}

(* What the framework is told is a capture as Capture.tla specifies it.     *)
Promised == INSTANCE Capture
  WITH told <- life.told, downs <- life.downs, asked <- life.asked,
       ended <- life.fenced
ImplementsCapture == Promised!Spec

(* With a reader that answers and a finger that comes and goes, a lifecycle *)
(* that was started stops, or was failed.                                   *)
CaptureEnds == life.phase = "D4" ~> life.phase = "STOP" \/ blame

=============================================================================
