------------------------ MODULE EnrollmentGraphProofs ------------------------
(****************************************************************************)
(* Proofs about the enrollment graph, for every number of stages, every     *)
(* limit of strays and every bound on retries and errors.                   *)
(*                                                                          *)
(* The argument has two invariants.                                         *)
(*                                                                          *)
(* Sound, of the graph alone.  Whatever happened, the touches are counted   *)
(* (Counted) and the framework's device is one of an enrollment.  As long   *)
(* as nothing failed, each event is expected only in its turn (Ordered):    *)
(* the state of a touch is one of four, Fresh before its image, Taken while *)
(* the image waits to be judged, Judged until its lift, Lifted until the    *)
(* next, and each says of which touch the FDT tables are, what the          *)
(* framework awaits and which command may come.  And the host listens or    *)
(* has the command that is next under way (Connected).  A handler is        *)
(* followed from the event up to the context in two steps: the event makes  *)
(* the graph Ready for what comes next, and a Ready graph is Settled by     *)
(* submit_if_graph_ready() and by the next receive.  Types, counts and the  *)
(* refinement of Enrollment.tla follow from Sound and from what each step   *)
(* Tells the framework.                                                     *)
(*                                                                          *)
(* Script, of the graph and the reader, as long as nobody is to blame.  By  *)
(* the event that is expected it says what the reader is armed for and the  *)
(* exact frames that the host has not read yet: what is still to come for   *)
(* a command that is under way (Before), was taken (Owing) or whose ACK was *)
(* read (Answering).  The late lift of an empty scan is the hard part: it   *)
(* may be anywhere among the frames of the wait for the next touch, but     *)
(* there is one at most, and the window is open for it (OneLate).  So the   *)
(* frame that is read first is always one that its handler takes, and       *)
(* FailsOnlyForCause follows.                                               *)
(****************************************************************************)
EXTENDS EnrollmentGraph, SequenceTheorems, TLAPS

(* A framework's device during an enrollment.                               *)
Device(st, finger, stage, held) ==
  [open |-> TRUE, action |-> "enroll", st |-> st, active |-> TRUE,
   err |-> "none", finger |-> finger, stage |-> stage, held |-> held,
   cancelled |-> FALSE, idle |-> FALSE, result |-> "none", breach |-> FALSE]

States == {"IDLE", "AWAIT_ON", "CAPTURE", "AWAIT_OFF", "DEACTIVATING"}
Stages == 0..Required
Devices ==
  {Device(st, finger, stage, held) :
     st \in States, finger \in BOOLEAN, stage \in Stages, held \in BOOLEAN}
Expectations ==
  {Command(c) : c \in Commands} \cup {Ack(c) : c \in Commands}
    \cup {Nothing, Primary, Auxiliary, Touch, Sample, Lift, Nav}
Graphs ==
  [expected : Expectations, transition : {"none", "first", "repeated", "terminal"},
   navSeen : BOOLEAN, afterAux : BOOLEAN, pending : BOOLEAN,
   observed : Touches, completed : Stages, retried : 0..MaxRetries,
   complete : BOOLEAN, failed : BOOLEAN, fenced : BOOLEAN,
   out : Commands \cup {"none"}, at : {"idle", "flying", "taken"},
   listening : BOOLEAN, half : BOOLEAN, strays : 0..Irq80Limit,
   rearm : {"none", "command", "ack"}, window : BOOLEAN, awaiting : BOOLEAN,
   late : BOOLEAN, current : Touches, up : Touches, down : Touches,
   held : BOOLEAN, fw : Devices]

One(condition) == IF condition THEN 1 ELSE 0

(* The graph, whatever happened to it.                                      *)
Counted(g) ==
  /\ g.fw = Device(g.fw.st, g.fw.finger, g.completed, g.held)
  /\ g.observed = g.completed + g.retried + One(g.pending)

(* The touches that the tables belong to, and what the framework does.      *)
Tables(g, up, down) == g.current = up /\ g.up = up /\ g.down = down
Telling(g, st, finger) == g.fw.st = st /\ g.fw.finger = finger

Fresh(g) ==
  /\ g.transition = "none" /\ ~g.pending /\ ~g.window
  /\ Tables(g, g.observed + 1, g.observed) /\ Telling(g, "CAPTURE", TRUE)
Taken(g) ==
  /\ g.transition = IF g.observed = 1 THEN "first" ELSE "repeated"
  /\ g.pending /\ ~g.window
  /\ Tables(g, g.observed, g.observed - 1) /\ Telling(g, "CAPTURE", TRUE)
Judged(g) ==
  /\ g.transition = IF g.held THEN "terminal"
                    ELSE IF g.observed = 1 THEN "first" ELSE "repeated"
  /\ ~g.pending /\ ~g.window /\ g.observed > 0
  /\ Tables(g, g.observed, g.observed - 1) /\ Telling(g, "AWAIT_OFF", TRUE)
Lifted(g) ==
  /\ g.transition = IF g.observed = 0 THEN "none"
                    ELSE IF g.observed = 1 THEN "first" ELSE "repeated"
  /\ ~g.pending /\ ~g.afterAux
  /\ g.window => g.transition = "repeated"
  /\ Tables(g, g.observed, g.observed) /\ Telling(g, "AWAIT_ON", FALSE)

(* The command that an event belongs to, and when it may be the next.       *)
CommandOf(e) ==
  CASE e.kind \in {"command", "ack"} -> e.of
    [] e = Primary -> "22"
    [] e = Sample -> "36"
    [] e = Auxiliary -> "20"
    [] e = Nav -> "50"
    [] OTHER -> "none"

Turn(g, command) ==
  \/ command = "22" /\ Fresh(g) /\ ~g.afterAux
  \/ command = "34" /\ Taken(g) /\ (g.afterAux => g.observed # 1)
  \/ command \in {"36", "20"} /\ Taken(g) /\ ~g.afterAux /\ g.observed # 1
  \/ command \in {"20", "50"} /\ Lifted(g) /\ g.observed = 1 /\ ~g.navSeen
  \/ command = "32" /\ Lifted(g) /\ g.observed # 0

(* What an event may be expected for.                                       *)
Place(g, e) ==
  \/ Turn(g, CommandOf(e)) /\ ~g.held
  \/ /\ e = Touch /\ Lifted(g) /\ ~g.held
     /\ g.observed = 1 => g.navSeen
  \/ e = Lift /\ Judged(g)

(* The order of the events ...                                              *)
Going(g) ==
  /\ ~g.fenced /\ ~g.failed /\ ~g.complete
  /\ g.late => g.window
  /\ g.held <=> g.completed = Required
  /\ g.pending => g.completed < Required
  /\ g.navSeen => g.observed # 0 /\ (g.observed = 1 => g.down = 1)

Ordered(g) ==
  /\ Going(g) /\ Place(g, g.expected)
  /\ g.half => g.expected \in {Primary, Auxiliary}
  /\ g.rearm # "none" => g.expected = Touch

(* ... and the transfers.                                                   *)
Attached(g) == (g.out = "none") = (g.at = "idle")
Connected(g) ==
  /\ ~g.awaiting /\ g.listening = (g.at = "idle")
  /\ CommandIsNext(g) = (g.at # "idle")
  /\ g.at # "idle" => g.out = ExpectedEvent(g).of

Sound(g) ==
  /\ g \in Graphs /\ Counted(g) /\ Attached(g)
  /\ g.fenced = (g.failed \/ g.complete)
  /\ (g.fw.st = "DEACTIVATING") = g.complete
  /\ g.complete => ~g.failed /\ g.at = "idle" /\ g.completed = Required
                   /\ ~g.fw.finger
  /\ g.failed => g.rearm = "none"
  /\ ~g.fenced => Ordered(g) /\ Connected(g)

-----------------------------------------------------------------------------
(* The reader, as long as nobody is to blame.                               *)
Readers ==
  [armed : {"none", "touch", "lift"}, finger : BOOLEAN, lifting : BOOLEAN,
   due : Seq(A0Frames \cup PlainFrames), captures : 0..2, releases : 0..2,
   arms : 0..2, zeroed : BOOLEAN, strays : 0..MaxStrays]

A == Ack("32")

(* A lift that was reported, or that cannot be any more.                    *)
Lifting(r, before) ==
  \/ r.armed = "lift" /\ r.due = before
  \/ r.armed = "none" /\ ~r.lifting /\ ~r.finger /\ r.due = before \o <<Lift>>

(* The wait for a touch, with a late lift anywhere; p is what comes before. *)
Quiet == {<<>>, <<Lift>>}
Arrived == {<<Touch>>, <<Lift, Touch>>}
Strayed == {<<Stray>>, <<Lift, Stray>>, <<Stray, Lift>>}
QuietAck == {<<A>>, <<Lift, A>>, <<A, Lift>>}
TouchedAck == {<<A, Touch>>, <<Lift, A, Touch>>, <<A, Lift, Touch>>}
StrayedAck ==
  {<<A, Stray>>, <<Lift, A, Stray>>, <<A, Lift, Stray>>, <<A, Stray, Lift>>}

In(f, due) == \E i \in 1..Len(due) : due[i] = f

Waiting(g, r, quiet, touched, strayed) ==
  /\ g.observed = 1 => r.arms = 2
  /\ \/ r.armed = "touch" /\ r.due \in quiet /\ r.strays = g.strays
     \/ r.armed = "none" /\ r.due \in touched /\ ~r.lifting /\ r.strays = 0
     \/ r.armed = "none" /\ r.due \in strayed /\ r.strays = g.strays + 1

(* The next lift is a late one, and there is but one.                       *)
OneLate(g, r) ==
  /\ In(Lift, r.due) \/ r.lifting \/ (r.armed = "lift" /\ r.finger)
       => g.window /\ ~g.late
  /\ In(Lift, r.due) => ~r.lifting /\ (r.armed = "lift" => ~r.finger)

(* Between a touch and the lift it is waited for.                           *)
Quieted(r) == r.armed = "none" /\ ~r.lifting
Scanning(r) ==
  r.armed = "lift" /\ r.captures = 2 /\ r.releases = 1 /\ ~r.zeroed
Scanned(r, before) ==
  \/ Scanning(r) /\ r.due = before \o <<Sample>>
  \/ r.zeroed /\ Lifting(r, before \o <<ZeroSample>>)

(* Where a command is under way, and where the reader has taken it.         *)
Before(g, r, command) ==
  CASE command = "22" -> Quieted(r) /\ r.due = <<>>
    [] command = "34" ->
         /\ r.due = <<>>
         /\ IF g.afterAux THEN Scanning(r)
            ELSE Quieted(r) /\ r.releases = 0 /\ r.arms = 0 /\ ~r.zeroed
    [] command = "36" -> Scanning(r) /\ r.due = <<>>
    [] command = "20" -> r.due = <<>> /\ IF g.pending THEN Scanning(r)
                                         ELSE Quieted(r) /\ r.arms = 0
    [] command = "50" -> r.due = <<>> /\ r.armed = "touch" /\ ~r.lifting /\ r.arms = 1
    [] command = "32" ->
         IF g.observed = 1 /\ g.rearm = "none"
         THEN /\ r.due = <<>> /\ ~r.lifting
              /\ IF g.navSeen THEN r.armed = "touch" /\ r.arms = 1
                 ELSE r.armed = "none" /\ r.arms = 0
         ELSE /\ r.armed # "touch" /\ r.due \in Quiet /\ OneLate(g, r)
              /\ g.observed = 1 => r.arms = 2
              /\ g.rearm # "none" => r.armed = "none"

Owing(g, r, command) ==
  CASE command = "22" ->
         /\ Quieted(r) /\ r.releases = 0 /\ r.arms = 0 /\ ~r.zeroed
         /\ r.due \in {<<Ack("22"), Plain("whole")>>,
                       <<Ack("22"), Plain("half"), Plain("half")>>}
    [] command = "34" ->
         IF g.observed = 1 \/ g.afterAux
         THEN Lifting(r, <<Ack("34")>>) /\ (g.observed = 1 => r.arms = 0)
         ELSE Scanning(r) /\ r.due = <<Ack("34")>>
    [] command = "36" -> Scanned(r, <<Ack("36")>>)
    [] command = "20" -> /\ r.due = <<Ack("20"), Plain("whole")>>
                         /\ IF g.pending THEN Scanning(r)
                            ELSE Quieted(r) /\ r.arms = 0
    [] command = "50" -> /\ r.due = <<Ack("50"), Nav>> /\ r.armed = "touch"
                         /\ ~r.lifting /\ r.arms = 1
    [] command = "32" ->
         IF g.observed = 1 /\ ~g.navSeen
         THEN /\ r.due = <<A>> /\ ~r.lifting /\ r.armed = "touch" /\ r.arms = 1
              /\ r.strays = g.strays
         ELSE Waiting(g, r, QuietAck, TouchedAck, StrayedAck) /\ OneLate(g, r)

(* Where the ACK was read.                                                  *)
Answering(g, r) ==
  CASE g.expected = Primary ->
         /\ Quieted(r) /\ r.releases = 0 /\ r.arms = 0 /\ ~r.zeroed
         /\ r.due \in IF g.half THEN {<<Plain("half")>>}
                      ELSE {<<Plain("whole")>>, <<Plain("half"), Plain("half")>>}
    [] g.expected = Auxiliary ->
         /\ r.due = <<Plain("whole")>> /\ ~g.half
         /\ IF g.pending THEN Scanning(r) ELSE Quieted(r) /\ r.arms = 0
    [] g.expected = Sample -> Scanned(r, <<>>)
    [] g.expected = Nav ->
         r.due = <<Nav>> /\ r.armed = "touch" /\ ~r.lifting /\ r.arms = 1
    [] g.expected = Lift -> Lifting(r, <<>>) /\ (g.observed = 1 => r.arms = 0)
    [] g.expected = Touch ->
         Waiting(g, r, Quiet, Arrived, Strayed) /\ OneLate(g, r)

CapturesOf(g) ==
  IF g.transition # "none" THEN g.observed
  ELSE IF g.expected = Touch \/ g.at = "flying"
       THEN g.observed ELSE g.observed + 1

Common(g, r) ==
  /\ r.lifting => ~r.finger
  /\ r.captures = UpToTwo(CapturesOf(g))
  /\ r.strays <= Irq80Limit
  /\ ExpectedEvent(g) # Touch /\ CommandOf(ExpectedEvent(g)) # "32"
       => r.strays = g.strays
  /\ g.expected # Touch => g.strays = 0

Position(g, r) ==
  LET e == ExpectedEvent(g)
  IN CASE e.kind = "command" /\ g.at = "flying" ->
            Before(g, r, e.of) /\ r.strays = g.strays
       [] e.kind = "ack" \/ (e.kind = "command" /\ g.at = "taken") ->
            Owing(g, r, e.of)
       [] e.kind \notin {"command", "ack"} -> Answering(g, r)

Script(g, r) == Common(g, r) /\ Position(g, r)

-----------------------------------------------------------------------------
(* Facts about the events, the sequences and the framework's device.        *)

(* An event is told by its kind, and a command, an ACK and an image by what *)
(* they are of.                                                             *)
LEMMA Kinds ==
  /\ \A c : /\ Command(c).kind = "command" /\ Command(c).of = c
            /\ Ack(c).kind = "ack" /\ Ack(c).of = c
            /\ Plain(c).kind = "plain" /\ Plain(c).of = c
  /\ Nothing.kind = "none" /\ Primary.kind = "primary"
  /\ Auxiliary.kind = "auxiliary" /\ Touch.kind = "irq0002"
  /\ Sample.kind = "irq0100" /\ ZeroSample.kind = "zero"
  /\ Lift.kind = "irq0200" /\ Stray.kind = "irq0080" /\ Nav.kind = "nav"
  /\ Garbage.kind = "garbage"
BY DEF Command, Ack, Plain, Event, Nothing, Primary, Auxiliary, Touch, Sample,
       ZeroSample, Lift, Stray, Nav, Garbage

(* CommandOf: the command of each event that is expected.                   *)
LEMMA CommandsOf ==
  /\ \A c : CommandOf(Command(c)) = c /\ CommandOf(Ack(c)) = c
  /\ CommandOf(Primary) = "22" /\ CommandOf(Sample) = "36"
  /\ CommandOf(Auxiliary) = "20" /\ CommandOf(Nav) = "50"
  /\ CommandOf(Touch) = "none" /\ CommandOf(Lift) = "none"
  /\ CommandOf(Nothing) = "none"
<1>1. \A c : CommandOf(Command(c)) = c /\ CommandOf(Ack(c)) = c
  BY Kinds DEF CommandOf
<1>2. CommandOf(Primary) = "22" /\ CommandOf(Sample) = "36"
      /\ CommandOf(Auxiliary) = "20" /\ CommandOf(Nav) = "50"
  BY Kinds DEF CommandOf
<1>3. CommandOf(Touch) = "none" /\ CommandOf(Lift) = "none"
      /\ CommandOf(Nothing) = "none"
  BY Kinds DEF CommandOf
<1> QED BY <1>1, <1>2, <1>3

(* What a graph may expect, by cases.                                       *)
LEMMA Expected ==
  ASSUME NEW e \in Expectations
  PROVE  \/ \E c \in Commands : e = Command(c) \/ e = Ack(c)
         \/ e \in {Nothing, Primary, Auxiliary, Touch, Sample, Lift, Nav}
BY DEF Expectations

(* Every command, its ACK and every event of the graph may be expected.     *)
LEMMA Expectable ==
  /\ \A c \in Commands : Command(c) \in Expectations /\ Ack(c) \in Expectations
  /\ {Nothing, Primary, Auxiliary, Touch, Sample, Lift, Nav} \subseteq Expectations
BY DEF Expectations

(* An assertion of libfprint that holds leaves the device as it is.         *)
LEMMA QuietDevice ==
  ASSUME NEW st, NEW finger, NEW n, NEW b
  PROVE  Expect(Device(st, finger, n, b), TRUE) = Device(st, finger, n, b)
<1> DEFINE f == Device(st, finger, n, b)
<1>1. (f.breach \/ ~TRUE) = FALSE
  BY DEF Device
<1>2. Expect(f, TRUE) = [f EXCEPT !.breach = f.breach \/ ~TRUE]
  BY DEF Expect
<1>3. [f EXCEPT !.breach = FALSE] = f
  <2>1. f.breach = FALSE /\ f = [x \in DOMAIN f |-> f[x]]
    BY DEF Device
  <2>2. \A x \in DOMAIN f : (IF x = "breach" THEN FALSE ELSE f[x]) = f[x]
    BY <2>1
  <2>3. [f EXCEPT !.breach = FALSE] = [x \in DOMAIN f |-> f[x]]
    <3>1. [f EXCEPT !.breach = FALSE]
            = [x \in DOMAIN f |-> IF x = "breach" THEN FALSE ELSE f[x]]
      OBVIOUS
    <3> HIDE DEF f
    <3> QED BY <2>2, <3>1
  <2> QED BY <2>1, <2>3
<1> QED BY <1>1, <1>2, <1>3

(* The device is kept within the enrollment by all that is called on it:    *)
(* fpi_device_enroll_progress() by way of an image, a retry, the held-back  *)
(* completion and the reports of the finger.                                *)
LEMMA DeviceKeeps ==
  ASSUME NEW st, NEW n, NEW b
  PROVE  /\ HoldCompletion(Device(st, TRUE, n, FALSE)) = Device(st, TRUE, n, TRUE)
         /\ RetryScan(Device("CAPTURE", TRUE, n, b)) = Device("AWAIT_OFF", TRUE, n, b)
         /\ RawImage(Device("CAPTURE", TRUE, n, b)) = Device("AWAIT_OFF", TRUE, n + 1, b)
<1>1. HoldCompletion(Device(st, TRUE, n, FALSE)) = Device(st, TRUE, n, TRUE)
  <2> DEFINE f == Device(st, TRUE, n, FALSE)
  <2>1. f.action = "enroll" /\ f.active = TRUE /\ f.held = FALSE /\ f.breach = FALSE
    BY DEF Device
  <2>2. (f.action = "enroll" /\ f.active /\ ~f.held) = TRUE
    BY <2>1
  <2>3. Expect(f, TRUE) = f
    BY QuietDevice
  <2>4. HoldCompletion(f) = [f EXCEPT !.held = TRUE]
    BY <2>2, <2>3 DEF HoldCompletion
  <2> QED BY <2>4 DEF Device
<1>2. RetryScan(Device("CAPTURE", TRUE, n, b)) = Device("AWAIT_OFF", TRUE, n, b)
  <2> DEFINE f == Device("CAPTURE", TRUE, n, b)
  <2>1. f.st = "CAPTURE"
    BY DEF Device
  <2>2. (f.st # "INACTIVE") = TRUE
    BY <2>1
  <2>3. Expect(f, TRUE) = f
    BY QuietDevice
  <2>4. RetryScan(f) = [f EXCEPT !.st = "AWAIT_OFF"]
    BY <2>2, <2>3 DEF RetryScan
  <2> QED BY <2>4 DEF Device
<1>3. RawImage(Device("CAPTURE", TRUE, n, b)) = Device("AWAIT_OFF", TRUE, n + 1, b)
  BY DEF RawImage, ImageTaken, EnrollMaybeAwait, Device, Expect
<1> QED BY <1>1, <1>2, <1>3

(* What a report of the finger makes of the framework's device, before and  *)
(* after an image was judged.                                               *)
LEMMA DeviceTells ==
  ASSUME NEW n, NEW b \in BOOLEAN
  PROVE  /\ ReportFinger(Device("AWAIT_ON", FALSE, n, b), TRUE)
              = Device("CAPTURE", TRUE, n, b)
         /\ ~b /\ n # Required =>
              ReportFinger(Device("AWAIT_OFF", TRUE, n, b), FALSE)
                = Device("AWAIT_ON", FALSE, n, b)
         /\ b => ReportFinger(Device("AWAIT_OFF", TRUE, n, b), FALSE)
                   = Device("IDLE", FALSE, n, b)
<1>1. ReportFinger(Device("AWAIT_ON", FALSE, n, b), TRUE) = Device("CAPTURE", TRUE, n, b)
  BY DEF ReportFinger, Device
<1>2. ASSUME ~b, n # Required
      PROVE  ReportFinger(Device("AWAIT_OFF", TRUE, n, b), FALSE)
                = Device("AWAIT_ON", FALSE, n, b)
  BY <1>2 DEF ReportFinger, EnrollMaybeAwait, Device
<1>3. ASSUME b
      PROVE  ReportFinger(Device("AWAIT_OFF", TRUE, n, b), FALSE)
                   = Device("IDLE", FALSE, n, b)
  BY <1>3 DEF ReportFinger, EnrollMaybeAwait, Device
<1> QED BY <1>1, <1>2, <1>3

(* The fields of a device that the graph looks at.                          *)
LEMMA DeviceFields ==
  ASSUME NEW st, NEW finger, NEW n, NEW b
  PROVE  /\ Device(st, finger, n, b).st = st
         /\ Device(st, finger, n, b).finger = finger
         /\ Device(st, finger, n, b).stage = n
         /\ Device(st, finger, n, b).held = b
         /\ Device(st, finger, n, b).breach = FALSE
BY DEF Device

(* The end of the last touch deactivates the device and nothing else.       *)
LEMMA DeviceStates ==
  ASSUME NEW n
  PROVE  [Device("IDLE", FALSE, n, FALSE) EXCEPT !.st = "DEACTIVATING"]
           = Device("DEACTIVATING", FALSE, n, FALSE)
<1> DEFINE f == Device("IDLE", FALSE, n, FALSE)
           g == Device("DEACTIVATING", FALSE, n, FALSE)
<1>1. g = [x \in DOMAIN f |-> g[x]]
  BY DEF Device
<1>2. \A x \in DOMAIN f : (IF x = "st" THEN "DEACTIVATING" ELSE f[x]) = g[x]
  <2>1. DOMAIN f = {"open", "action", "st", "active", "err", "finger", "stage",
                    "held", "cancelled", "idle", "result", "breach"}
    BY DEF Device
  <2>2. /\ f.open = g.open /\ f.action = g.action /\ f.active = g.active
        /\ f.err = g.err /\ f.finger = g.finger /\ f.stage = g.stage
    BY DEF Device
  <2>3. /\ f.held = g.held /\ f.cancelled = g.cancelled /\ f.idle = g.idle
        /\ f.result = g.result /\ f.breach = g.breach
        /\ g.st = "DEACTIVATING"
    BY DEF Device
  <2> HIDE DEF f, g
  <2> QED BY <2>1, <2>2, <2>3
<1>3. [f EXCEPT !.st = "DEACTIVATING"]
        = [x \in DOMAIN f |-> IF x = "st" THEN "DEACTIVATING" ELSE f[x]]
  OBVIOUS
<1> HIDE DEF f, g
<1>4. [f EXCEPT !.st = "DEACTIVATING"] = [x \in DOMAIN f |-> g[x]]
  BY <1>2, <1>3
<1> QED BY <1>1, <1>4 DEF f, g

-----------------------------------------------------------------------------
(* A graph that has taken an event, and what the binding and the context    *)
(* then make of it: send what is next, or listen.                           *)
Ready(m) ==
  /\ m \in Graphs /\ Counted(m) /\ Ordered(m)
  /\ m.at = "idle" /\ m.out = "none" /\ ~m.listening /\ ~m.awaiting

Settled(m) ==
  IF CommandIsNext(m)
  THEN [m EXCEPT !.out = ExpectedEvent(m).of, !.at = "flying"]
  ELSE [m EXCEPT !.listening = TRUE]

(* What Counted and Ordered say does not depend on the transfers.           *)
LEMMA OrderedKeeps ==
  ASSUME NEW m \in Graphs, NEW k \in Graphs,
         k.expected = m.expected, k.transition = m.transition,
         k.navSeen = m.navSeen, k.afterAux = m.afterAux,
         k.pending = m.pending, k.observed = m.observed,
         k.completed = m.completed, k.retried = m.retried,
         k.complete = m.complete, k.failed = m.failed, k.fenced = m.fenced,
         k.half = m.half, k.rearm = m.rearm,
         k.window = m.window, k.late = m.late, k.current = m.current,
         k.up = m.up, k.down = m.down, k.held = m.held, k.fw = m.fw
  PROVE  /\ Counted(m) => Counted(k)
         /\ Ordered(m) => Ordered(k)
         /\ ExpectedEvent(k) = ExpectedEvent(m)
         /\ CommandIsNext(k) = CommandIsNext(m)
<1>1. Counted(m) => Counted(k)
  BY DEF Counted
<1>2. \A c : Turn(m, c) => Turn(k, c)
  BY DEF Turn, Fresh, Taken, Lifted, Tables, Telling
<1>3. /\ Lifted(m) => Lifted(k)
      /\ Judged(m) => Judged(k)
  BY DEF Lifted, Judged, Tables, Telling
<1>4. Ordered(m) => Ordered(k)
  BY <1>2, <1>3 DEF Ordered, Going, Place
<1>5. ExpectedEvent(k) = ExpectedEvent(m)
  BY DEF ExpectedEvent
<1> QED BY <1>1, <1>4, <1>5 DEF CommandIsNext

(* resolve_table() finds the table of every command whose turn it is.       *)
LEMMA TurnResolves ==
  ASSUME NEW m \in Graphs, NEW c, Turn(m, c)
  PROVE  Resolves(m, c)
<1>1. m.observed \in Nat /\ m.down \in Nat
  BY RequiredAssumption, BoundAssumption DEF Graphs, Touches
<1>2. CASE c = "22" /\ Fresh(m)
  BY <1>1, <1>2 DEF Fresh, Resolves, Touched, Tables
<1>3. CASE c = "34" /\ Taken(m)
  BY <1>1, <1>3 DEF Taken, Resolves, Touched, Tables
<1>4. CASE c \in {"36", "20"} /\ Taken(m) /\ m.observed # 1
  BY <1>1, <1>4 DEF Taken, Resolves, Touched, Tables
<1>5. CASE c \in {"20", "50", "32"} /\ Lifted(m)
  BY <1>1, <1>5 DEF Lifted, Resolves, Touched, Tables
<1> QED BY <1>2, <1>3, <1>4, <1>5 DEF Turn

(* The command that is next: its turn has come, or a stray asked for it.    *)
LEMMA CommandNext ==
  ASSUME NEW m \in Graphs, Ordered(m), CommandIsNext(m)
  PROVE  /\ ~m.half
         /\ m.rearm = "none" => /\ m.expected = Command(ExpectedEvent(m).of)
                                /\ Turn(m, ExpectedEvent(m).of)
         /\ m.rearm # "none" => m.rearm = "command" /\ m.expected = Touch
                                /\ ExpectedEvent(m).of = "32"
         /\ ExpectedEvent(m).of \in Commands
         /\ ExpectedEvent(m) = Command(ExpectedEvent(m).of)
<1> DEFINE e == ExpectedEvent(m)
<1>1. ~m.failed /\ m.rearm \in {"none", "command", "ack"}
      /\ m.expected \in Expectations
  BY DEF Ordered, Going, Place, Graphs
<1>2. e.kind = "command"
  BY DEF CommandIsNext
<1>3. CASE m.rearm = "none"
  <2>1. e = m.expected
    BY <1>1, <1>3 DEF ExpectedEvent
  <2>2. PICK c \in Commands : e = Command(c)
    BY <2>1, <1>1, <1>2, Expected, Kinds
  <2>3. e.of = c /\ CommandOf(m.expected) = c
    BY <2>1, <2>2, Kinds, CommandsOf
  <2>4. m.expected # Touch /\ m.expected # Lift /\ m.expected \notin {Primary, Auxiliary}
    BY <2>1, <2>2, Kinds
  <2>5. ~m.half /\ Turn(m, c)
    BY <2>3, <2>4 DEF Ordered, Going, Place
  <2> HIDE DEF e
  <2> QED BY <1>3, <2>1, <2>2, <2>3, <2>5 DEF e
<1>4. CASE m.rearm # "none"
  <2>1. m.rearm = "command" /\ e = Command("32")
    BY <1>1, <1>2, <1>4, Kinds DEF ExpectedEvent
  <2>2. m.expected = Touch /\ ~m.half
    BY <1>4, Kinds DEF Ordered, Going, Place
  <2> HIDE DEF e
  <2> QED BY <1>4, <2>1, <2>2, Kinds DEF Commands, e
<1> QED BY <1>3, <1>4

(* submit_if_graph_ready() and the arming of the next receive.              *)
LEMMA Settles ==
  ASSUME NEW m, Ready(m)
  PROVE  /\ ArmIfNeeded(SubmitIfReady(m)) = Settled(m)
         /\ SubmitIfReady(m).awaiting = FALSE
         /\ SubmitIfReady(m).failed = FALSE
         /\ SubmitIfReady(m).fenced = FALSE
         /\ SubmitIfReady(m).complete = FALSE
         /\ Sound(Settled(m))
<1> DEFINE e == ExpectedEvent(m) s == SubmitIfReady(m) k == Settled(m)
<1>1. /\ m \in Graphs /\ Counted(m) /\ Ordered(m)
      /\ m.at = "idle" /\ m.out = "none" /\ m.listening = FALSE /\ m.awaiting = FALSE
  BY DEF Ready, Graphs
<1>2. m.failed = FALSE /\ m.fenced = FALSE /\ m.complete = FALSE
  BY <1>1 DEF Ordered, Going, Place, Graphs
<1>3. m.fw.st # "DEACTIVATING"
  BY <1>1 DEF Ordered, Going, Place, Turn, Fresh, Taken, Judged, Lifted, Telling
<1>4. CASE CommandIsNext(m)
  <2>1. /\ ~m.half /\ e.of \in Commands
        /\ m.rearm = "none" => Turn(m, e.of)
    BY <1>1, <1>4, CommandNext
  <2>2. m.rearm = "none" => Resolves(m, e.of)
    BY <1>1, <2>1, TurnResolves
  <2>3. s = SubmitNext(m)
    BY <1>1, <1>2, <1>4 DEF SubmitIfReady
  <2>4. s = [m EXCEPT !.out = e.of, !.at = "flying"]
    BY <1>1, <1>2, <1>4, <2>1, <2>2, <2>3 DEF SubmitNext
  <2>5. k = s
    BY <1>4, <2>4 DEF Settled
  <2>6. "none" \notin Commands
    BY DEF Commands
  <2>7. s \in Graphs /\ s.out = e.of /\ s.at = "flying" /\ s.listening = FALSE
        /\ s.awaiting = FALSE
    BY <1>1, <2>1, <2>4 DEF Graphs
  <2>8. /\ s.expected = m.expected /\ s.transition = m.transition
        /\ s.navSeen = m.navSeen /\ s.afterAux = m.afterAux
        /\ s.pending = m.pending /\ s.observed = m.observed
        /\ s.completed = m.completed /\ s.retried = m.retried
        /\ s.complete = m.complete /\ s.failed = m.failed /\ s.fenced = m.fenced
    BY <1>1, <2>4 DEF Graphs
  <2>9. /\ s.half = m.half /\ s.rearm = m.rearm
        /\ s.window = m.window /\ s.late = m.late /\ s.current = m.current
        /\ s.up = m.up /\ s.down = m.down /\ s.held = m.held /\ s.fw = m.fw
    BY <1>1, <2>4 DEF Graphs
  <2> HIDE DEF s, k, e
  <2>10. Counted(s) /\ Ordered(s) /\ ExpectedEvent(s) = e
        /\ CommandIsNext(s) = CommandIsNext(m)
    <3>1. ExpectedEvent(s) = ExpectedEvent(m)
      BY <1>1, <2>7, <2>8, <2>9, OrderedKeeps
    <3> QED BY <1>1, <2>7, <2>8, <2>9, <3>1, OrderedKeeps DEF e
  <2>11. Connected(s)
    BY <1>4, <2>1, <2>6, <2>7, <2>10 DEF Connected
  <2>12. Attached(s)
    BY <2>1, <2>6, <2>7 DEF Attached
  <2>13. Sound(s)
    BY <1>2, <1>3, <2>7, <2>8, <2>9, <2>10, <2>11, <2>12 DEF Sound
  <2>14. ArmIfNeeded(s) = s
    BY <2>1, <2>6, <2>7 DEF ArmIfNeeded, NeedsReceive
  <2> QED BY <1>2, <2>5, <2>7, <2>8, <2>13, <2>14 DEF s, k
<1>5. CASE ~CommandIsNext(m)
  <2>1. s = m
    BY <1>5 DEF SubmitIfReady
  <2>2. NeedsReceive(m)
    BY <1>1, <1>2, <1>5 DEF NeedsReceive
  <2>3. ArmIfNeeded(m) = k
    BY <1>2, <1>5, <2>2 DEF ArmIfNeeded, Settled
  <2>4. k = [m EXCEPT !.listening = TRUE]
    BY <1>5 DEF Settled
  <2>5. k \in Graphs /\ k.out = "none" /\ k.at = "idle" /\ k.listening = TRUE
        /\ k.awaiting = FALSE
    BY <1>1, <2>4 DEF Graphs
  <2>6. /\ k.expected = m.expected /\ k.transition = m.transition
        /\ k.navSeen = m.navSeen /\ k.afterAux = m.afterAux
        /\ k.pending = m.pending /\ k.observed = m.observed
        /\ k.completed = m.completed /\ k.retried = m.retried
        /\ k.complete = m.complete /\ k.failed = m.failed /\ k.fenced = m.fenced
    BY <1>1, <2>4 DEF Graphs
  <2>7. /\ k.half = m.half /\ k.rearm = m.rearm
        /\ k.window = m.window /\ k.late = m.late /\ k.current = m.current
        /\ k.up = m.up /\ k.down = m.down /\ k.held = m.held /\ k.fw = m.fw
    BY <1>1, <2>4 DEF Graphs
  <2> HIDE DEF s, k, e
  <2>8. Counted(k) /\ Ordered(k) /\ CommandIsNext(k) = CommandIsNext(m)
    BY <1>1, <2>5, <2>6, <2>7, OrderedKeeps
  <2>9. Connected(k)
    BY <1>5, <2>5, <2>8 DEF Connected, CommandIsNext
  <2>10. Attached(k)
    BY <2>5 DEF Attached
  <2>11. Sound(k)
    BY <1>2, <1>3, <2>5, <2>6, <2>7, <2>8, <2>9, <2>10 DEF Sound
  <2> QED BY <1>1, <1>2, <2>1, <2>3, <2>11 DEF s, k
<1> QED BY <1>4, <1>5

-----------------------------------------------------------------------------
(* What an enrollment tells the framework: Promised is the abstract step.    *)
OutcomeOf(g) ==
  IF g.fw.st = "DEACTIVATING" THEN "enrolled"
  ELSE IF g.fenced THEN "failed" ELSE "open"
JudgedOf(g) == g.fw.st # "CAPTURE"

Silent(g, k) ==
  /\ k.fw.finger = g.fw.finger /\ JudgedOf(k) = JudgedOf(g)
  /\ k.fw.stage = g.fw.stage /\ OutcomeOf(k) = OutcomeOf(g)
Fails(g, k) ==
  /\ OutcomeOf(g) = "open" /\ OutcomeOf(k) = "failed"
  /\ k.fw.finger = g.fw.finger /\ JudgedOf(k) = JudgedOf(g)
  /\ k.fw.stage = g.fw.stage
Arrives(g, k) ==
  /\ OutcomeOf(g) = "open" /\ OutcomeOf(k) = "open"
  /\ ~g.fw.finger /\ g.fw.stage < Required
  /\ k.fw.finger = TRUE /\ ~JudgedOf(k) /\ k.fw.stage = g.fw.stage
Accepts(g, k) ==
  /\ JudgedOf(k) /\ k.fw.stage \in {g.fw.stage, g.fw.stage + 1}
  /\ k.fw.stage <= Required
Judges(g, k) ==
  /\ OutcomeOf(g) = "open" /\ OutcomeOf(k) = "open"
  /\ g.fw.finger /\ ~JudgedOf(g)
  /\ k.fw.finger = g.fw.finger /\ Accepts(g, k)
Lifts(g, k) ==
  /\ OutcomeOf(g) = "open" /\ g.fw.finger /\ k.fw.finger = FALSE
  /\ IF JudgedOf(g) THEN JudgedOf(k) /\ k.fw.stage = g.fw.stage
     ELSE Accepts(g, k)
  /\ OutcomeOf(k) = IF k.fw.stage = Required THEN "enrolled" ELSE "open"
Tells(g, k) ==
  Silent(g, k) \/ Fails(g, k) \/ Arrives(g, k) \/ Judges(g, k) \/ Lifts(g, k)

-----------------------------------------------------------------------------
(* Failing.                                                                 *)

(* goodix_device_context_set_terminal_fence() on a graph that goes on.      *)
LEMMA FailFields ==
  ASSUME NEW g \in Graphs, ~g.complete
  PROVE  /\ Fail(g) \in Graphs
         /\ Fail(g).failed = TRUE /\ Fail(g).fenced = TRUE
         /\ Fail(g).rearm = "none" /\ Fail(g).awaiting = FALSE
         /\ Fail(g).fw = g.fw /\ Fail(g).completed = g.completed
         /\ Fail(g).held = g.held /\ Fail(g).complete = FALSE
         /\ Fail(g).observed = g.observed /\ Fail(g).retried = g.retried
         /\ Fail(g).pending = g.pending /\ Fail(g).at = g.at
         /\ Fail(g).out = g.out
<1> DEFINE a == [g EXCEPT !.failed = TRUE, !.fenced = TRUE, !.rearm = "none",
                          !.half = FALSE]
           k == [a EXCEPT !.window = FALSE, !.awaiting = FALSE, !.late = FALSE]
<1>1. Fail(g) = k
  BY DEF Fail, SetFence, Graphs
<1>2. /\ a \in Graphs /\ a.failed = TRUE /\ a.fenced = TRUE /\ a.rearm = "none"
      /\ a.fw = g.fw /\ a.completed = g.completed /\ a.held = g.held
      /\ a.complete = g.complete /\ a.observed = g.observed
      /\ a.retried = g.retried /\ a.pending = g.pending /\ a.at = g.at
      /\ a.out = g.out
  BY DEF Graphs
<1> HIDE DEF a
<1>3. /\ k \in Graphs /\ k.failed = TRUE /\ k.fenced = TRUE /\ k.rearm = "none"
      /\ k.awaiting = FALSE
      /\ k.fw = g.fw /\ k.completed = g.completed /\ k.held = g.held
      /\ k.complete = g.complete /\ k.observed = g.observed
      /\ k.retried = g.retried /\ k.pending = g.pending /\ k.at = g.at
      /\ k.out = g.out
  BY <1>2 DEF Graphs
<1>4. k.complete = FALSE
  BY <1>3 DEF Graphs
<1> HIDE DEF k
<1> QED BY <1>1, <1>3, <1>4

(* A graph that is failed in any state is sound, and tells the framework    *)
(* that the enrollment failed, once.                                        *)
LEMMA FailIsSound ==
  ASSUME NEW g \in Graphs, Counted(g), Attached(g), ~g.complete,
         g.fw.st # "DEACTIVATING"
  PROVE  /\ Sound(Fail(g)) /\ Fail(g).failed = TRUE /\ Fail(g).fenced = TRUE
         /\ ~g.fenced => Fails(g, Fail(g))
         /\ g.fenced => Silent(g, Fail(g))
<1> DEFINE k == Fail(g)
<1>1. /\ k \in Graphs /\ k.failed = TRUE /\ k.fenced = TRUE /\ k.rearm = "none"
      /\ k.fw = g.fw /\ k.completed = g.completed
      /\ k.held = g.held /\ k.complete = FALSE
      /\ k.observed = g.observed /\ k.retried = g.retried
      /\ k.pending = g.pending /\ k.at = g.at /\ k.out = g.out
  BY FailFields
<1> HIDE DEF k
<1>2. Counted(k) /\ Attached(k)
  BY <1>1 DEF Counted, Attached
<1>3. Sound(k)
  BY <1>1, <1>2 DEF Sound
<1>4. g.fenced \in BOOLEAN
  BY DEF Graphs
<1>5. /\ ~g.fenced => Fails(g, k)
      /\ g.fenced => Silent(g, k)
  BY <1>1, <1>4 DEF Fails, Silent, OutcomeOf, JudgedOf
<1> QED BY <1>1, <1>3, <1>5 DEF k

(* What a graph that goes on is not.                                        *)
LEMMA GoesOn ==
  ASSUME NEW g, g \in Graphs, Ordered(g)
  PROVE  /\ g.failed = FALSE /\ g.fenced = FALSE /\ g.complete = FALSE
         /\ g.fw.st \in {"CAPTURE", "AWAIT_OFF", "AWAIT_ON"}
         /\ OutcomeOf(g) = "open"
<1>1. g.failed = FALSE /\ g.fenced = FALSE /\ g.complete = FALSE
  BY DEF Ordered, Going, Place, Graphs
<1>2. g.fw.st \in {"CAPTURE", "AWAIT_OFF", "AWAIT_ON"}
  BY DEF Ordered, Going, Place, Turn, Fresh, Taken, Judged, Lifted, Telling
<1> QED BY <1>1, <1>2 DEF OutcomeOf

-----------------------------------------------------------------------------
(* Receiving: the layers around the events.                                 *)

(* The graph whose receive has come back.                                   *)
Heard(g) == [g EXCEPT !.listening = FALSE]

(* The graph whose receive has come back is ready for the frame.            *)
LEMMA HeardIsReady ==
  ASSUME NEW g, Sound(g), ~g.fenced, g.listening
  PROVE  /\ Ready(Heard(g)) /\ CommandIsNext(Heard(g)) = FALSE
         /\ ExpectedEvent(Heard(g)) = ExpectedEvent(g)
         /\ Silent(g, Heard(g))
<1> DEFINE h == Heard(g)
<1>1. g \in Graphs /\ Counted(g) /\ Ordered(g) /\ Connected(g)
  BY DEF Sound
<1>2. g.at = "idle" /\ g.out = "none" /\ ~g.awaiting /\ ~CommandIsNext(g)
  BY <1>1 DEF Connected, Sound, Attached
<1>3. h \in Graphs /\ h.listening = FALSE /\ h.at = "idle" /\ h.out = "none"
      /\ h.awaiting = g.awaiting
  BY <1>1, <1>2 DEF Heard, Graphs
<1>4. /\ h.expected = g.expected /\ h.transition = g.transition
      /\ h.navSeen = g.navSeen /\ h.afterAux = g.afterAux
      /\ h.pending = g.pending /\ h.observed = g.observed
      /\ h.completed = g.completed /\ h.retried = g.retried
      /\ h.complete = g.complete /\ h.failed = g.failed /\ h.fenced = g.fenced
  BY <1>1 DEF Heard, Graphs
<1>5. /\ h.half = g.half /\ h.rearm = g.rearm
      /\ h.window = g.window /\ h.late = g.late /\ h.current = g.current
      /\ h.up = g.up /\ h.down = g.down /\ h.held = g.held /\ h.fw = g.fw
  BY <1>1 DEF Heard, Graphs
<1> HIDE DEF h
<1>6. Counted(h) /\ Ordered(h) /\ ExpectedEvent(h) = ExpectedEvent(g)
      /\ CommandIsNext(h) = CommandIsNext(g)
  <2>1. ExpectedEvent(h) = ExpectedEvent(g)
    BY <1>1, <1>3, <1>4, <1>5, OrderedKeeps
  <2> QED BY <1>1, <1>3, <1>4, <1>5, <2>1, OrderedKeeps
<1>7. CommandIsNext(h) = FALSE
  BY <1>2, <1>6 DEF CommandIsNext
<1>8. Silent(g, h)
  BY <1>4, <1>5 DEF Silent, OutcomeOf, JudgedOf
<1> QED BY <1>2, <1>3, <1>6, <1>7, <1>8 DEF h, Ready

(* A frame that the events took.                                            *)
LEMMA ContextSettles ==
  ASSUME NEW h, Ready(h), NEW f, NEW verdict, ~IsLate(h, f),
         NEW m, m = EventsHandleA0(h, f, verdict), Ready(m)
  PROVE  ArmIfNeeded(ContextHandleA0(h, f, verdict)) = Settled(m)
<1> DEFINE s == SubmitIfReady(m)
<1>1. BindingHandleA0(h, f, verdict) = s
  BY DEF BindingHandleA0, Ready
<1>2. s.awaiting = FALSE /\ s.failed = FALSE /\ s.fenced = FALSE
      /\ s.complete = FALSE /\ ArmIfNeeded(s) = Settled(m)
  BY Settles
<1> HIDE DEF s
<1>3. MaybeRearm(s) = s
  BY <1>2 DEF MaybeRearm
<1>4. ContextHandleA0(h, f, verdict) = s
  BY <1>1, <1>2, <1>3 DEF ContextHandleA0
<1> QED BY <1>2, <1>4

(* A frame that the events refused.                                         *)
LEMMA ContextFails ==
  ASSUME NEW h, Ready(h), NEW f, NEW verdict, ~IsLate(h, f),
         NEW m, m = EventsHandleA0(h, f, verdict), m.failed = TRUE, m.fenced = TRUE
  PROVE  ArmIfNeeded(ContextHandleA0(h, f, verdict)) = m
<1>1. SubmitIfReady(m) = m
  BY DEF SubmitIfReady
<1>2. BindingHandleA0(h, f, verdict) = m
  BY <1>1 DEF BindingHandleA0, Ready
<1>3. ContextHandleA0(h, f, verdict) = m
  BY <1>2 DEF ContextHandleA0
<1> QED BY <1>3 DEF ArmIfNeeded

-----------------------------------------------------------------------------
(* The events, one by one: each leaves a graph that is ready, and tells the  *)
(* framework what it may.                                                   *)
Idle(m) ==
  /\ m \in Graphs /\ Counted(m) /\ Going(m)
  /\ m.at = "idle" /\ m.out = "none" /\ ~m.listening /\ ~m.awaiting

(* A graph that is ready may be changed by an event.                        *)
LEMMA ReadyIsIdle ==
  ASSUME NEW m
  PROVE  /\ Ready(m) => Idle(m) /\ Place(m, m.expected)
         /\ Idle(m) /\ Place(m, m.expected) /\ ~m.half /\ m.rearm = "none"
              => Ready(m)
BY DEF Ready, Idle, Ordered

(* goodix_enrollment_model: the next event is another one.                  *)
LEMMA Moves ==
  ASSUME NEW h, Idle(h), ~h.half, h.rearm = "none",
         NEW e \in Expectations, Place(h, e)
  PROVE  LET m == Expecting(h, e)
         IN /\ Ready(m) /\ Silent(h, m) /\ m.expected = e
            /\ m.rearm = "none" /\ m.half = FALSE
            /\ m.fw = h.fw /\ m.transition = h.transition
            /\ m.pending = h.pending /\ m.observed = h.observed
            /\ m.strays = h.strays /\ m.afterAux = h.afterAux
            /\ m.navSeen = h.navSeen /\ m.window = h.window /\ m.late = h.late
<1> DEFINE m == Expecting(h, e)
<1>1. h \in Graphs /\ Counted(h) /\ Going(h) /\ h.half = FALSE
  BY DEF Idle, Graphs
<1>2. m = [h EXCEPT !.expected = e]
  BY DEF Expecting
<1>3. m \in Graphs /\ m.expected = e
  BY <1>1, <1>2 DEF Graphs
<1>4. /\ m.transition = h.transition
      /\ m.navSeen = h.navSeen /\ m.afterAux = h.afterAux
      /\ m.pending = h.pending /\ m.observed = h.observed
      /\ m.completed = h.completed /\ m.retried = h.retried
      /\ m.complete = h.complete /\ m.failed = h.failed /\ m.fenced = h.fenced
      /\ m.at = h.at /\ m.out = h.out /\ m.listening = h.listening
      /\ m.awaiting = h.awaiting
  BY <1>1, <1>2 DEF Graphs
<1>5. /\ m.half = h.half /\ m.rearm = h.rearm /\ m.strays = h.strays
      /\ m.window = h.window /\ m.late = h.late /\ m.current = h.current
      /\ m.up = h.up /\ m.down = h.down /\ m.held = h.held /\ m.fw = h.fw
  BY <1>1, <1>2 DEF Graphs
<1> HIDE DEF m
<1>6. Counted(m) /\ Going(m)
  BY <1>1, <1>4, <1>5 DEF Counted, Going
<1>7. Place(m, e)
  BY <1>4, <1>5 DEF Place, Turn, Fresh, Taken, Lifted, Judged, Tables, Telling
<1>8. Idle(m)
  BY <1>3, <1>4, <1>5, <1>6 DEF Idle
<1>9. Ready(m)
  BY <1>1, <1>3, <1>5, <1>7, <1>8, ReadyIsIdle
<1>10. Silent(h, m)
  BY <1>4, <1>5 DEF Silent, OutcomeOf, JudgedOf
<1> QED BY <1>1, <1>3, <1>4, <1>5, <1>9, <1>10 DEF m

(* A frame that a ready graph expects.                                      *)
LEMMA Awaits ==
  ASSUME NEW h, Ready(h), ExpectedEvent(h).kind # "command"
  PROVE  /\ Idle(h) /\ h.rearm # "command"
         /\ h.rearm = "none" => h.expected = ExpectedEvent(h)
                               /\ Place(h, ExpectedEvent(h))
         /\ h.rearm = "ack" => ExpectedEvent(h) = Ack("32")
                              /\ h.expected = Touch /\ Place(h, Touch)
         /\ ExpectedEvent(h) # Primary /\ ExpectedEvent(h) # Auxiliary
              => h.half = FALSE
         /\ ExpectedEvent(h) = Primary \/ ExpectedEvent(h) = Auxiliary
              => h.rearm = "none"
<1> DEFINE f == ExpectedEvent(h)
<1>1. h \in Graphs /\ Idle(h) /\ Ordered(h) /\ h.failed = FALSE
  BY GoesOn, ReadyIsIdle DEF Ready
<1>2. h.rearm \in {"none", "command", "ack"}
  BY <1>1 DEF Graphs
<1>3. CASE h.rearm = "none"
  <2>1. h.expected = f
    BY <1>1, <1>3 DEF ExpectedEvent
  <2>2. f # Primary /\ f # Auxiliary => h.half = FALSE
    BY <1>1, <2>1 DEF Ordered, Graphs
  <2> QED BY <1>1, <1>3, <2>1, <2>2 DEF Ordered
<1>4. CASE h.rearm = "command"
  <2>1. f = Command("32")
    BY <1>1, <1>4 DEF ExpectedEvent
  <2> QED BY <2>1, Kinds
<1>5. CASE h.rearm = "ack"
  <2>1. f = Ack("32")
    BY <1>1, <1>5 DEF ExpectedEvent
  <2>2. h.expected = Touch
    BY <1>1, <1>5 DEF Ordered
  <2>3. h.half = FALSE
    BY <1>1, <2>2, Kinds DEF Ordered, Graphs
  <2>4. f # Primary /\ f # Auxiliary
    BY <2>1, Kinds
  <2> QED BY <1>1, <1>5, <2>1, <2>2, <2>3, <2>4 DEF Ordered
<1> QED BY <1>2, <1>3, <1>4, <1>5

(* An expected event that no IRQ0080 and no empty scan comes instead of.    *)
LEMMA HandlesExpected ==
  ASSUME NEW h, Ready(h), NEW verdict, ExpectedEvent(h).kind # "command",
         ExpectedEvent(h) # Primary, ExpectedEvent(h) # Auxiliary
  PROVE  LET f == ExpectedEvent(h)
         IN /\ f.kind = "ack" /\ h.rearm = "ack" =>
                 EventsHandleA0(h, f, verdict) = [h EXCEPT !.rearm = "none"]
            /\ f.kind = "ack" /\ h.rearm = "none" =>
                 EventsHandleA0(h, f, verdict) = Acknowledged(h, verdict)
            /\ f = Touch => EventsHandleA0(h, f, verdict) = TouchSeen(h)
            /\ f = Sample => EventsHandleA0(h, f, verdict)
                               = Expecting(h, Command("20"))
            /\ f = Lift => EventsHandleA0(h, f, verdict) = LiftSeen(h, verdict)
            /\ f = Nav => EventsHandleA0(h, f, verdict)
                            = Expecting([h EXCEPT !.navSeen = TRUE], Command("32"))
<1> DEFINE f == ExpectedEvent(h)
<1>1. h.half = FALSE
  BY Awaits
<1>2. f = ExpectedEvent(h)
  OBVIOUS
<1> HIDE DEF f
<1> USE <1>1, <1>2, Kinds DEF EventsHandleA0
<1>3. ASSUME f.kind = "ack"
      PROVE  /\ h.rearm = "ack" =>
              EventsHandleA0(h, f, verdict) = [h EXCEPT !.rearm = "none"]
             /\ h.rearm = "none" =>
              EventsHandleA0(h, f, verdict) = Acknowledged(h, verdict)
  BY <1>3
<1>4. f = Touch => EventsHandleA0(h, f, verdict) = TouchSeen(h)
  OBVIOUS
<1>5. f = Sample => EventsHandleA0(h, f, verdict) = Expecting(h, Command("20"))
  OBVIOUS
<1>6. f = Lift => EventsHandleA0(h, f, verdict) = LiftSeen(h, verdict)
  OBVIOUS
<1>7. f = Nav => EventsHandleA0(h, f, verdict)
                         = Expecting([h EXCEPT !.navSeen = TRUE], Command("32"))
  OBVIOUS
<1> QED BY <1>3, <1>4, <1>5, <1>6, <1>7 DEF f

(* The numbers of touches.                                                  *)
LEMMA Counts ==
  ASSUME NEW h, Idle(h)
  PROVE  /\ h.observed \in Nat /\ h.completed \in Nat /\ h.retried \in Nat
         /\ h.current \in Nat /\ h.up \in Nat /\ h.down \in Nat
         /\ h.retried <= MaxRetries /\ h.completed <= Required
         /\ h.pending => h.observed = h.completed + h.retried + 1
         /\ ~h.pending => h.observed = h.completed + h.retried
         /\ ~h.held /\ ~h.pending => h.completed < Required /\ h.observed + 1 \in Touches
         /\ h.fw = Device(h.fw.st, h.fw.finger, h.completed, h.held)
         /\ Required \in Nat /\ Required >= 2 /\ MaxRetries \in Nat
<1>1. h \in Graphs /\ Counted(h) /\ Going(h)
  BY DEF Idle
<1>2. Required \in Nat /\ Required >= 2 /\ MaxRetries \in Nat
  BY RequiredAssumption, BoundAssumption
<1>3. /\ h.observed \in Touches /\ h.completed \in Stages /\ h.retried \in 0..MaxRetries
      /\ h.current \in Touches /\ h.up \in Touches /\ h.down \in Touches
  BY <1>1 DEF Graphs
<1>4. /\ h.observed = h.completed + h.retried + One(h.pending)
      /\ h.fw = Device(h.fw.st, h.fw.finger, h.completed, h.held)
      /\ h.held <=> h.completed = Required
  BY <1>1 DEF Counted, Going
<1> QED BY <1>2, <1>3, <1>4 DEF Touches, Stages, One

(* The devices of the enrollment, by their parts.                           *)
LEMMA InDevices ==
  ASSUME NEW st \in States, NEW finger \in BOOLEAN, NEW n \in Stages,
         NEW b \in BOOLEAN
  PROVE  Device(st, finger, n, b) \in Devices
BY DEF Devices

(* The states of the framework that an enrollment goes through.             *)
LEMMA StateNames ==
  {"IDLE", "AWAIT_ON", "CAPTURE", "AWAIT_OFF", "DEACTIVATING"} \subseteq States
BY DEF States

(* deliver_stage() and deliver_pending(): the image of a touch is judged.   *)
WasJudged(h, d) ==
  /\ Idle(d) /\ d.pending = FALSE /\ d.failed = FALSE
  /\ d.transition = IF d.held THEN "terminal" ELSE h.transition
  /\ Telling(d, "AWAIT_OFF", TRUE)
  /\ d.fw.stage \in {h.fw.stage, h.fw.stage + 1}
  /\ d.expected = h.expected /\ d.navSeen = h.navSeen
  /\ d.afterAux = h.afterAux /\ d.observed = h.observed
  /\ d.half = h.half /\ d.rearm = h.rearm /\ d.strays = h.strays
  /\ d.window = h.window /\ d.late = h.late /\ d.current = h.current
  /\ d.up = h.up /\ d.down = h.down

(* deliver_pending() on a touch that waits to be judged: refused, accepted, *)
(* accepted as the last, or failed by the engine.                           *)
LEMMA Judging ==
  ASSUME NEW h, Idle(h), h.pending, Telling(h, "CAPTURE", TRUE),
         NEW verdict \in Verdicts, verdict = "again" => h.retried < MaxRetries
  PROVE  \/ verdict = "broken" /\ DeliverPending(h, verdict) = Fail(h)
         \/ WasJudged(h, DeliverPending(h, verdict))
<1> DEFINE d == DeliverPending(h, verdict)
<1> SUFFICES (verdict = "broken" /\ d = Fail(h)) \/ WasJudged(h, d)
  OBVIOUS
<1> HIDE DEF d
<1> DEFINE s == DeliverStage(h, verdict)
<1>1. /\ h \in Graphs /\ Counted(h) /\ Going(h) /\ h.pending = TRUE
      /\ h.failed = FALSE /\ h.complete = FALSE /\ h.fenced = FALSE
  BY DEF Idle, Graphs, Going
<1>2. /\ h.completed \in Nat /\ h.retried \in Nat /\ h.completed < Required
      /\ h.completed # Required /\ h.held = FALSE
      /\ h.fw = Device("CAPTURE", TRUE, h.completed, FALSE)
      /\ Required \in Nat /\ MaxRetries \in Nat /\ h.retried <= MaxRetries
      /\ h.observed = h.completed + h.retried + 1
  <2>1. h.completed < Required /\ h.completed \in Nat /\ Required \in Nat
    BY <1>1, Counts DEF Going
  <2>2. h.held = FALSE
    BY <1>1, <2>1 DEF Going, Graphs
  <2>3. h.fw.st = "CAPTURE" /\ h.fw.finger = TRUE
    BY DEF Telling
  <2>4. h.fw = Device(h.fw.st, h.fw.finger, h.completed, h.held)
    BY Counts
  <2>5. h.fw = Device("CAPTURE", TRUE, h.completed, FALSE)
    BY <2>2, <2>3, <2>4, Zenon
  <2>6. /\ h.observed = h.completed + h.retried + 1 /\ h.retried \in Nat
        /\ Required \in Nat /\ MaxRetries \in Nat /\ h.retried <= MaxRetries
    BY <1>1, Counts
  <2> QED BY <2>1, <2>2, <2>5, <2>6
<1>3. CASE verdict = "broken"
  <2>1. s = Fail(h)
    BY <1>3 DEF DeliverStage
  <2>2. Fail(h).failed = TRUE
    BY <1>1, FailFields
  <2> HIDE DEF s
  <2>3. d = Fail(h)
    BY <1>1, <2>1, <2>2 DEF DeliverPending, d, s
  <2> QED BY <1>3, <2>3
<1>4. CASE verdict = "again"
  <2> DEFINE k == [h EXCEPT !.retried = @ + 1, !.fw = RetryScan(@)]
             f == Device("AWAIT_OFF", TRUE, h.completed, FALSE)
  <2>1. s = k
    BY <1>4 DEF DeliverStage
  <2>2. RetryScan(h.fw) = Device("AWAIT_OFF", TRUE, h.completed, FALSE)
    BY <1>2, DeviceKeeps, Zenon
  <2>3. k.failed = FALSE
    BY <1>1 DEF Graphs
  <2>4. d = [h EXCEPT !.retried = @ + 1,
               !.fw = f, !.pending = FALSE]
    <3>1. d = [s EXCEPT !.pending = FALSE]
      <4> HIDE DEF k, s
      <4> QED BY <1>1, <2>1, <2>3 DEF DeliverPending, d, s
    <3> QED BY <2>1, <2>2, <3>1
  <2>5. f = Device("AWAIT_OFF", TRUE, h.completed, FALSE)
    OBVIOUS
  <2>6. f.st = "AWAIT_OFF" /\ f.finger = TRUE /\ f.stage = h.completed
    BY DEF Device
  <2>7. h.fw.stage = h.completed
    BY <1>2 DEF Device
  <2>8. f \in Devices
        /\ h.retried + 1 \in 0..MaxRetries
    <3>1. h.completed \in Stages
      BY <1>2 DEF Stages
    <3>2. h.retried + 1 \in 0..MaxRetries
      BY <1>2, <1>4
    <3> QED BY <3>1, <3>2, InDevices, StateNames
  <2> HIDE DEF f
  <2>9. /\ d \in Graphs /\ d.pending = FALSE /\ d.retried = h.retried + 1
        /\ d.fw = f
    BY <1>1, <2>4, <2>8 DEF Graphs
  <2>10. /\ d.completed = h.completed /\ d.held = h.held
        /\ d.transition = h.transition /\ d.failed = h.failed
        /\ d.fenced = h.fenced /\ d.complete = h.complete
        /\ d.at = h.at /\ d.out = h.out /\ d.listening = h.listening
        /\ d.awaiting = h.awaiting
    BY <1>1, <2>4 DEF Graphs
  <2>11. /\ d.expected = h.expected /\ d.navSeen = h.navSeen
        /\ d.afterAux = h.afterAux /\ d.observed = h.observed
        /\ d.half = h.half /\ d.rearm = h.rearm /\ d.strays = h.strays
        /\ d.window = h.window /\ d.late = h.late /\ d.current = h.current
        /\ d.up = h.up /\ d.down = h.down
    BY <1>1, <2>4 DEF Graphs
  <2>12. d.fw.st = "AWAIT_OFF" /\ d.fw.finger = TRUE /\ d.fw.stage = h.completed
        /\ h.fw.stage = h.completed
    BY <2>9, <2>6, <2>7
  <2>13. Counted(d)
    <3>1. d.fw = Device(d.fw.st, d.fw.finger, d.completed, d.held)
      BY <1>2, <2>5, <2>9, <2>10, <2>12, Zenon
    <3> QED BY <1>2, <2>9, <2>10, <2>11, <3>1 DEF Counted, One
  <2>14. Going(d)
    BY <1>1, <2>9, <2>10, <2>11 DEF Going
  <2> QED BY <1>1, <1>2, <2>9, <2>10, <2>11, <2>12, <2>13, <2>14
      DEF Telling, Idle, WasJudged
<1>5. CASE verdict = "good"
  <2> DEFINE last == h.completed + 1 = Required
             hold == IF last THEN HoldCompletion(h.fw) ELSE h.fw
             way == IF last THEN "terminal" ELSE h.transition
             f == Device("AWAIT_OFF", TRUE, h.completed + 1, last)
             k == [h EXCEPT !.completed = @ + 1, !.held = @ \/ last,
                            !.transition = IF last THEN "terminal" ELSE @,
                            !.fw = RawImage(hold)]
  <2>1. s = k
    BY <1>2, <1>5 DEF DeliverStage
  <2>2. RawImage(hold) = f
    <3>1. CASE last
      <4>1. hold = Device("CAPTURE", TRUE, h.completed, TRUE)
        BY <1>2, <3>1, DeviceKeeps
      <4>2. last = TRUE
        BY <3>1
      <4> HIDE DEF last, hold
      <4> QED BY <4>1, <4>2, DeviceKeeps
    <3>2. CASE ~last
      <4>1. hold = Device("CAPTURE", TRUE, h.completed, FALSE)
        BY <1>2, <3>2
      <4>2. last = FALSE
        BY <3>2
      <4> HIDE DEF last, hold
      <4> QED BY <4>1, <4>2, DeviceKeeps
    <3> QED BY <3>1, <3>2
  <2>3. k.failed = FALSE
    BY <1>1 DEF Graphs
  <2>4. d = [h EXCEPT !.completed = @ + 1, !.held = last,
               !.transition = way, !.fw = f, !.pending = FALSE]
    <3>1. d = [s EXCEPT !.pending = FALSE]
      <4> HIDE DEF k, s
      <4> QED BY <1>1, <2>1, <2>3 DEF DeliverPending, d, s
    <3>2. (h.held \/ last) = last
      BY <1>2
    <3>3. k = [h EXCEPT !.completed = @ + 1, !.held = last,
               !.transition = way, !.fw = f]
      <4> HIDE DEF last, hold, f
      <4> QED BY <2>2, <3>2
    <3> HIDE DEF k, s, last, f, way
    <3> QED BY <2>1, <3>1, <3>3
  <2>5. f \in Devices /\ h.completed + 1 \in Stages /\ last \in BOOLEAN
        /\ way \in {"none", "first", "repeated", "terminal"}
    <3>1. last \in BOOLEAN /\ way \in {"none", "first", "repeated", "terminal"}
      BY <1>1 DEF Graphs
    <3>2. h.completed + 1 \in Stages
      BY <1>2 DEF Stages
    <3> HIDE DEF last, way
    <3> QED BY <3>1, <3>2, InDevices, StateNames
  <2>6. f = Device("AWAIT_OFF", TRUE, h.completed + 1, last)
    OBVIOUS
  <2>7. f.st = "AWAIT_OFF" /\ f.finger = TRUE /\ f.stage = h.completed + 1
    BY DEF Device
  <2>8. h.fw.stage = h.completed
    BY <1>2 DEF Device
  <2>9. last <=> h.completed + 1 = Required
    OBVIOUS
  <2> HIDE DEF f, last, way
  <2>10. /\ d \in Graphs /\ d.pending = FALSE /\ d.completed = h.completed + 1
        /\ d.held = last /\ d.fw = f /\ d.transition = way
    <3> DEFINE n == h.completed + 1
    <3>1. n \in Stages /\ d = [h EXCEPT !.completed = n, !.held = last,
                               !.transition = way, !.fw = f, !.pending = FALSE]
      BY <2>4, <2>5
    <3> HIDE DEF n
    <3>2. d \in Graphs
      <4> DEFINE a == [h EXCEPT !.completed = n, !.held = last, !.transition = way]
      <4>1. a \in Graphs
        BY <1>1, <2>5, <3>1 DEF Graphs
      <4>2. d = [a EXCEPT !.fw = f, !.pending = FALSE]
        BY <3>1
      <4> HIDE DEF a
      <4> QED BY <2>5, <4>1, <4>2 DEF Graphs
    <3>3. /\ d.pending = FALSE /\ d.completed = n
          /\ d.held = last /\ d.fw = f /\ d.transition = way
      BY <1>1, <3>1 DEF Graphs
    <3> QED BY <3>2, <3>3 DEF n
  <2>11. /\ d.retried = h.retried /\ d.failed = h.failed
        /\ d.fenced = h.fenced /\ d.complete = h.complete
        /\ d.at = h.at /\ d.out = h.out /\ d.listening = h.listening
        /\ d.awaiting = h.awaiting
    <3> QED BY <1>1, <2>4 DEF Graphs
  <2>12. /\ d.expected = h.expected /\ d.navSeen = h.navSeen
        /\ d.afterAux = h.afterAux /\ d.observed = h.observed
        /\ d.half = h.half /\ d.rearm = h.rearm /\ d.strays = h.strays
        /\ d.window = h.window /\ d.late = h.late /\ d.current = h.current
        /\ d.up = h.up /\ d.down = h.down
    <3> QED BY <1>1, <2>4 DEF Graphs
  <2>13. d.fw.st = "AWAIT_OFF" /\ d.fw.finger = TRUE /\ d.fw.stage = h.completed + 1
        /\ h.fw.stage = h.completed
    BY <2>10, <2>7, <2>8
  <2>14. Counted(d)
    <3>1. d.fw = Device(d.fw.st, d.fw.finger, d.completed, d.held)
      BY <2>6, <2>10, <2>13, Zenon
    <3> QED BY <1>2, <2>10, <2>11, <2>12, <3>1 DEF Counted, One
  <2>15. Going(d)
    BY <1>1, <1>2, <2>9, <2>10, <2>11, <2>12 DEF Going
  <2>16. d.transition = IF d.held THEN "terminal" ELSE h.transition
    BY <2>10 DEF way
  <2> QED BY <1>1, <1>2, <2>10, <2>11, <2>12, <2>13, <2>14, <2>15, <2>16
      DEF Telling, Idle, WasJudged
<1> QED BY <1>3, <1>4, <1>5 DEF Verdicts

(* The ACK of a command that is not the last before a judgement.            *)
NextOf(h, c) ==
  CASE c = "22" -> Primary
    [] c = "34" -> Command("36")
    [] c = "36" -> Sample
    [] c = "20" -> Auxiliary
    [] c = "50" -> Nav
    [] c = "32" -> IF h.transition = "first" /\ ~h.navSeen
                   THEN Command("50") ELSE Touch

Judgement(h, c) == c = "34" /\ (h.transition = "first" \/ h.afterAux)

(* An ACK that judges nothing moves the graph on to what its command asks   *)
(* for.                                                                     *)
LEMMA AckMoves ==
  ASSUME NEW h, Ready(h), NEW c \in Commands, Ack(c) = ExpectedEvent(h),
         NEW verdict, h.rearm = "none", ~Judgement(h, c),
         NEW m, m = EventsHandleA0(h, Ack(c), verdict)
  PROVE  /\ m = Expecting(h, NextOf(h, c)) /\ Ready(m)
         /\ NextOf(h, c) \in Expectations /\ Place(h, NextOf(h, c))
<1>1. /\ Idle(h) /\ h.expected = Ack(c) /\ Place(h, Ack(c)) /\ h.half = FALSE
      /\ m = Acknowledged(h, verdict)
  <2> DEFINE f == ExpectedEvent(h)
  <2>1. f.kind = "ack" /\ f # Primary /\ f # Auxiliary /\ f = Ack(c)
    BY Kinds
  <2>2. Idle(h) /\ h.expected = f /\ Place(h, f) /\ h.half = FALSE
    BY <2>1, Awaits
  <2>3. EventsHandleA0(h, f, verdict) = Acknowledged(h, verdict)
    BY <2>1, HandlesExpected
  <2> QED BY <2>1, <2>2, <2>3
<1>2. Turn(h, c) /\ ~h.held
  BY <1>1, CommandsOf, Kinds DEF Place
<1>3. h.expected.of = c
  BY <1>1, Kinds
<1>4. m = Expecting(h, NextOf(h, c))
  BY <1>1, <1>3 DEF Acknowledged, LiftArmed, NextOf, Judgement, Commands
<1>5. h.observed \in Nat
  BY <1>1, Counts
<1>6. NextOf(h, c) \in Expectations
  BY Expectable DEF NextOf, Commands
<1>7. Place(h, NextOf(h, c))
  <2>1. CASE c \in {"22", "36", "20", "50"}
    <3>1. CommandOf(NextOf(h, c)) = c
      BY <2>1, CommandsOf DEF NextOf
    <3> QED BY <1>2, <3>1 DEF Place
  <2>2. CASE c = "34"
    <3>1. NextOf(h, c) = Command("36")
      BY <2>2 DEF NextOf
    <3>2. Taken(h) /\ ~h.afterAux /\ h.observed # 1
      BY <1>2, <2>2 DEF Turn, Judgement, Taken
    <3>3. Turn(h, "36")
      BY <3>2 DEF Turn
    <3> QED BY <1>2, <3>1, <3>3, CommandsOf DEF Place
  <2>3. CASE c = "32"
    <3>1. Lifted(h) /\ h.observed # 0
      BY <1>2, <2>3 DEF Turn
    <3>2. h.transition = "first" <=> h.observed = 1
      BY <3>1 DEF Lifted
    <3>3. CASE h.observed = 1 /\ ~h.navSeen
      <4>1. NextOf(h, c) = Command("50")
        BY <2>3, <3>2, <3>3 DEF NextOf
      <4>2. Turn(h, "50")
        BY <3>1, <3>3 DEF Turn
      <4> QED BY <1>2, <4>1, <4>2, CommandsOf DEF Place
    <3>4. CASE ~(h.observed = 1 /\ ~h.navSeen)
      <4>1. NextOf(h, c) = Touch
        BY <2>3, <3>2, <3>4 DEF NextOf
      <4> QED BY <1>2, <3>1, <3>4, <4>1 DEF Place
    <3> QED BY <3>3, <3>4
  <2> QED BY <2>1, <2>2, <2>3 DEF Commands
<1>8. Ready(m)
  BY <1>1, <1>4, <1>6, <1>7, Moves
<1> QED BY <1>4, <1>6, <1>7, <1>8

(* The ACK of the 34 that arms for the lift: the image is judged.           *)
Kept(h, m) ==
  m.rearm = "none" /\ m.observed = h.observed /\ m.strays = h.strays

(* The ACK of the 34 that arms for the lift: the image is judged, whatever  *)
(* the verdict.                                                             *)
LEMMA AckJudges ==
  ASSUME NEW h, Ready(h), NEW c \in Commands, Ack(c) = ExpectedEvent(h),
         NEW verdict \in Verdicts, verdict = "again" => h.retried < MaxRetries,
         h.rearm = "none", Judgement(h, c),
         NEW m, m = EventsHandleA0(h, Ack(c), verdict)
  PROVE  \/ /\ verdict = "broken" /\ Sound(m) /\ Fails(h, m)
            /\ m.failed = TRUE /\ m.fenced = TRUE
         \/ /\ Ready(m) /\ Judges(h, m) /\ m.expected = Lift /\ Kept(h, m)
            /\ m.transition # "none"
<1>1. /\ Idle(h) /\ h.expected = Ack(c) /\ Place(h, Ack(c)) /\ h.half = FALSE
      /\ m = Acknowledged(h, verdict)
  <2> DEFINE f == ExpectedEvent(h)
  <2>1. f.kind = "ack" /\ f # Primary /\ f # Auxiliary /\ f = Ack(c)
    BY Kinds
  <2>2. Idle(h) /\ h.expected = f /\ Place(h, f) /\ h.half = FALSE
    BY <2>1, Awaits
  <2>3. EventsHandleA0(h, f, verdict) = Acknowledged(h, verdict)
    BY <2>1, HandlesExpected
  <2> QED BY <2>1, <2>2, <2>3
<1>2. Turn(h, c) /\ ~h.held
  BY <1>1, CommandsOf, Kinds DEF Place
<1>3. h.expected.of = "34"
  BY <1>1, Kinds DEF Judgement
<1> DEFINE b == Expecting(h, Lift)
<1>4. m = DeliverPending(b, verdict)
  BY <1>1, <1>3 DEF Acknowledged, LiftArmed, Judgement
<1>5. Taken(h)
  BY <1>2 DEF Turn, Judgement
<1>6. h \in Graphs /\ Counted(h) /\ Going(h)
  BY <1>1 DEF Idle
<1>7. /\ b \in Graphs /\ b.expected = Lift /\ b.transition = h.transition
      /\ b.navSeen = h.navSeen /\ b.afterAux = h.afterAux
      /\ b.pending = h.pending /\ b.observed = h.observed
      /\ b.completed = h.completed /\ b.retried = h.retried
      /\ b.complete = h.complete /\ b.failed = h.failed /\ b.fenced = h.fenced
      /\ b.at = h.at /\ b.out = h.out /\ b.listening = h.listening
      /\ b.awaiting = h.awaiting
  BY <1>6, Expectable DEF Expecting, Graphs
<1>8. /\ b.half = h.half /\ b.rearm = h.rearm /\ b.strays = h.strays
      /\ b.window = h.window /\ b.late = h.late /\ b.current = h.current
      /\ b.up = h.up /\ b.down = h.down /\ b.held = h.held /\ b.fw = h.fw
  BY <1>6 DEF Expecting, Graphs
<1> HIDE DEF b
<1>9. Counted(b) /\ Going(b)
  BY <1>6, <1>7, <1>8 DEF Counted, Going
<1>10. Idle(b) /\ b.pending /\ Telling(b, "CAPTURE", TRUE)
  BY <1>1, <1>5, <1>7, <1>8, <1>9 DEF Idle, Taken, Telling
<1>11. verdict = "again" => b.retried < MaxRetries
  BY <1>7
<1>12. CASE verdict = "broken" /\ m = Fail(b)
  <2>1. b.fw.st # "DEACTIVATING" /\ ~b.complete /\ ~b.fenced
        /\ Attached(b)
    BY <1>10 DEF Telling, Idle, Going, Attached
  <2>2. Sound(m) /\ m.failed = TRUE /\ m.fenced = TRUE /\ Fails(b, m)
    BY <1>7, <1>9, <1>12, <2>1, FailIsSound
  <2>3. Fails(h, m)
    BY <1>7, <1>8, <2>2 DEF Fails, OutcomeOf, JudgedOf
  <2> QED BY <1>12, <2>2, <2>3
<1>13. CASE WasJudged(b, m)
  <2>1. /\ Idle(m) /\ m.pending = FALSE /\ m.failed = FALSE
        /\ m.transition = IF m.held THEN "terminal" ELSE b.transition
        /\ Telling(m, "AWAIT_OFF", TRUE)
        /\ m.fw.stage \in {b.fw.stage, b.fw.stage + 1}
        /\ m.expected = b.expected /\ m.navSeen = b.navSeen
        /\ m.afterAux = b.afterAux /\ m.observed = b.observed
        /\ m.half = b.half /\ m.rearm = b.rearm /\ m.strays = b.strays
        /\ m.window = b.window /\ m.late = b.late /\ m.current = b.current
        /\ m.up = b.up /\ m.down = b.down
    BY <1>13 DEF WasJudged
  <2>2. m.observed \in Nat /\ m.observed > 0 /\ m.down \in Nat
    BY <1>5, <1>7, <1>8, <2>1, Counts DEF Taken, Tables
  <2>3. Judged(m)
    BY <1>5, <1>7, <1>8, <2>1, <2>2 DEF Judged, Taken, Tables
  <2>4. Place(m, m.expected)
    BY <1>7, <2>1, <2>3 DEF Place
  <2>5. Ready(m)
    BY <1>1, <1>8, <2>1, <2>4, ReadyIsIdle
  <2>6. m.transition # "none"
    BY <2>3 DEF Judged
  <2>7. Judges(h, m)
    <3>1. m.fw.stage <= Required
      <4>1. m.fw = Device(m.fw.st, m.fw.finger, m.completed, m.held)
            /\ m.completed <= Required
        BY <2>1, Counts
      <4>2. m.fw.stage = m.completed
        BY <4>1 DEF Device
      <4> QED BY <4>1, <4>2
    <3>2. OutcomeOf(h) = "open" /\ OutcomeOf(m) = "open"
      BY <2>5, GoesOn DEF Ready
    <3>3. h.fw.finger /\ ~JudgedOf(h) /\ m.fw.finger = h.fw.finger /\ JudgedOf(m)
      BY <1>5, <2>1 DEF Taken, Telling, JudgedOf
    <3> QED BY <1>8, <2>1, <3>1, <3>2, <3>3 DEF Judges, Accepts
  <2>8. Kept(h, m)
    BY <1>1, <1>7, <1>8, <2>1 DEF Kept
  <2> QED BY <1>7, <2>1, <2>5, <2>6, <2>7, <2>8
<1>14. (verdict = "broken" /\ m = Fail(b)) \/ WasJudged(b, m)
  BY <1>4, <1>10, <1>11, Judging
<1> QED BY <1>12, <1>13, <1>14

(* The ACK of the 32 that arms again after an IRQ0080.                      *)
LEMMA AckRearms ==
  ASSUME NEW h, Ready(h), NEW f, f = ExpectedEvent(h), f.kind = "ack",
         NEW verdict, h.rearm = "ack",
         NEW m, m = EventsHandleA0(h, f, verdict)
  PROVE  /\ Ready(m) /\ Silent(h, m) /\ m.expected = Touch /\ f = Ack("32")
         /\ m.rearm = "none" /\ m.observed = h.observed
         /\ m.transition = h.transition /\ m.strays = h.strays
         /\ m.navSeen = h.navSeen /\ m.window = h.window /\ m.late = h.late
<1>1. /\ Idle(h) /\ h.expected = Touch /\ Place(h, Touch) /\ h.half = FALSE
      /\ f = Ack("32") /\ m = [h EXCEPT !.rearm = "none"]
  <2>1. f.kind # "command" /\ f # Primary /\ f # Auxiliary
    BY Kinds
  <2>2. /\ Idle(h) /\ h.expected = Touch /\ Place(h, Touch) /\ h.half = FALSE
        /\ f = Ack("32")
    BY <2>1, Awaits
  <2>3. m = [h EXCEPT !.rearm = "none"]
    BY <2>1, HandlesExpected
  <2> QED BY <2>2, <2>3
<1>2. h \in Graphs /\ Counted(h) /\ Going(h)
  BY <1>1 DEF Idle
<1>3. /\ m \in Graphs /\ m.expected = h.expected /\ m.transition = h.transition
      /\ m.navSeen = h.navSeen /\ m.afterAux = h.afterAux
      /\ m.pending = h.pending /\ m.observed = h.observed
      /\ m.completed = h.completed /\ m.retried = h.retried
      /\ m.complete = h.complete /\ m.failed = h.failed /\ m.fenced = h.fenced
      /\ m.at = h.at /\ m.out = h.out /\ m.listening = h.listening
      /\ m.awaiting = h.awaiting
  BY <1>1, <1>2 DEF Graphs
<1>4. /\ m.half = h.half /\ m.rearm = "none" /\ m.strays = h.strays
      /\ m.window = h.window /\ m.late = h.late /\ m.current = h.current
      /\ m.up = h.up /\ m.down = h.down /\ m.held = h.held /\ m.fw = h.fw
  BY <1>1, <1>2 DEF Graphs
<1>5. Counted(m) /\ Going(m)
  BY <1>2, <1>3, <1>4 DEF Counted, Going
<1>6. Place(m, m.expected)
  BY <1>1, <1>3, <1>4, Kinds, CommandsOf
  DEF Place, Turn, Lifted, Tables, Telling
<1>7. Idle(m)
  BY <1>1, <1>3, <1>4, <1>5 DEF Idle
<1>8. Ready(m)
  BY <1>1, <1>3, <1>4, <1>6, <1>7, ReadyIsIdle
<1> QED BY <1>1, <1>3, <1>4, <1>8 DEF Silent, OutcomeOf, JudgedOf

(* IRQ 2: the framework has a finger, and 22 captures its image.            *)
LEMMA TouchTakes ==
  ASSUME NEW h, Ready(h), ExpectedEvent(h) = Touch
  PROVE  /\ Ready(TouchSeen(h)) /\ Arrives(h, TouchSeen(h))
         /\ TouchSeen(h).expected = Command("22") /\ TouchSeen(h).rearm = "none"
         /\ TouchSeen(h).transition = "none" /\ TouchSeen(h).strays = 0
         /\ TouchSeen(h).observed = h.observed
         /\ TouchSeen(h).afterAux = FALSE
<1> DEFINE m == TouchSeen(h)
           n == h.observed + 1
           f == Device("CAPTURE", TRUE, h.completed, FALSE)
           a == [h EXCEPT !.window = FALSE, !.late = FALSE, !.current = n,
                          !.up = n]
           b == [a EXCEPT !.transition = "none", !.strays = 0,
                          !.expected = Command("22")]
           k == [b EXCEPT !.fw = f]
<1>1. Idle(h) /\ h.half = FALSE /\ h.rearm # "command"
  BY Awaits, Kinds
<1>2. h.rearm = "none" /\ h.expected = Touch
  <2>1. h.rearm # "ack"
    BY Awaits, Kinds
  <2>2. h.rearm = "none"
    BY <1>1, <2>1 DEF Idle, Graphs
  <2> QED BY <2>2, Awaits, Kinds
<1>3. Lifted(h) /\ ~h.held
  <2>1. Place(h, Touch)
    BY <1>2, Awaits, Kinds
  <2> QED BY <2>1, CommandsOf, Kinds DEF Place, Turn
<1>4. h \in Graphs /\ Counted(h) /\ Going(h) /\ h.held = FALSE
  BY <1>1, <1>3 DEF Idle, Graphs
<1>5. h.observed \in Nat /\ n \in Touches /\ h.completed < Required
      /\ h.completed \in Nat /\ Required \in Nat /\ ~h.pending
      /\ h.fw = Device(h.fw.st, h.fw.finger, h.completed, h.held)
  BY <1>1, <1>3, Counts DEF Lifted
<1>6. h.fw = Device("AWAIT_ON", FALSE, h.completed, FALSE)
  <2>1. h.fw.st = "AWAIT_ON" /\ h.fw.finger = FALSE
    BY <1>3 DEF Lifted, Telling
  <2> QED BY <1>4, <1>5, <2>1, Zenon
<1>7. ReportFinger(h.fw, TRUE) = f
  BY <1>6, DeviceTells
<1>8. m = k
  <2>1. h.current = h.observed
    BY <1>3 DEF Lifted, Tables
  <2>2. b = Expecting([ShutWindow(h) EXCEPT !.current = n, !.up = n,
                         !.transition = "none", !.strays = 0], Command("22"))
    BY <1>4 DEF Expecting, ShutWindow, Graphs
  <2>3. m = Contact(b, TRUE)
    <3> HIDE DEF b
    <3> QED BY <2>1, <2>2 DEF TouchSeen
  <2>4. b.fenced = FALSE /\ b.fw = h.fw
    <3>1. a \in Graphs /\ a.fenced = h.fenced /\ a.fw = h.fw
      BY <1>4, <1>5 DEF Graphs
    <3> HIDE DEF a
    <3> QED BY <1>4, <3>1 DEF Going, Graphs
  <2> HIDE DEF b, f
  <2> QED BY <1>7, <2>3, <2>4 DEF Contact
<1>9. f \in Devices
  <2>1. h.completed \in Stages
    BY <1>4 DEF Graphs
  <2> QED BY <2>1, InDevices, StateNames
<1>10. f.st = "CAPTURE" /\ f.finger = TRUE /\ f.stage = h.completed
       /\ f = Device("CAPTURE", TRUE, h.completed, FALSE)
  BY DEF Device
<1>11. h.fw.st = "AWAIT_ON" /\ h.fw.finger = FALSE /\ h.fw.stage = h.completed
  BY <1>6 DEF Device
<1> HIDE DEF f
<1>12. /\ a \in Graphs /\ a.expected = h.expected /\ a.transition = h.transition
       /\ a.navSeen = h.navSeen /\ a.afterAux = h.afterAux
       /\ a.pending = h.pending /\ a.observed = h.observed
       /\ a.completed = h.completed /\ a.retried = h.retried
       /\ a.complete = h.complete /\ a.failed = h.failed /\ a.fenced = h.fenced
       /\ a.at = h.at /\ a.out = h.out /\ a.listening = h.listening
       /\ a.awaiting = h.awaiting
  <2> HIDE DEF n
  <2> QED BY <1>4, <1>5 DEF Graphs
<1>13. /\ a.half = h.half /\ a.rearm = h.rearm /\ a.strays = h.strays
       /\ a.window = FALSE /\ a.late = FALSE /\ a.current = n
       /\ a.up = n /\ a.down = h.down /\ a.held = h.held /\ a.fw = h.fw
  <2> HIDE DEF n
  <2> QED BY <1>4, <1>5 DEF Graphs
<1> HIDE DEF a
<1>14. /\ k \in Graphs /\ k.expected = Command("22") /\ k.transition = "none"
       /\ k.navSeen = a.navSeen /\ k.afterAux = a.afterAux
       /\ k.pending = a.pending /\ k.observed = a.observed
       /\ k.completed = a.completed /\ k.retried = a.retried
       /\ k.complete = a.complete /\ k.failed = a.failed /\ k.fenced = a.fenced
       /\ k.at = a.at /\ k.out = a.out /\ k.listening = a.listening
       /\ k.awaiting = a.awaiting
  <2>1. Command("22") \in Expectations /\ 0 \in 0..Irq80Limit
    BY BoundAssumption, Expectable DEF Commands
  <2> QED BY <1>9, <1>12, <2>1 DEF Graphs
<1>15. /\ k.half = a.half /\ k.rearm = a.rearm /\ k.strays = 0
       /\ k.window = a.window /\ k.late = a.late /\ k.current = a.current
       /\ k.up = a.up /\ k.down = a.down /\ k.held = a.held /\ k.fw = f
  BY <1>9, <1>12 DEF Graphs
<1> HIDE DEF k, n
<1>16. k.fw = Device(k.fw.st, k.fw.finger, k.completed, k.held)
  BY <1>4, <1>10, <1>12, <1>13, <1>14, <1>15, Zenon
<1>17. Counted(k) /\ Going(k)
  BY <1>4, <1>12, <1>13, <1>14, <1>15, <1>16 DEF Counted, Going
<1>18. Idle(k)
  BY <1>1, <1>12, <1>13, <1>14, <1>15, <1>17 DEF Idle
<1>19. Fresh(k) /\ ~k.afterAux /\ ~k.held
  BY <1>3, <1>10, <1>12, <1>13, <1>14, <1>15 DEF Fresh, Lifted, Tables, Telling, n
<1>20. Place(k, k.expected)
  BY <1>14, <1>19, CommandsOf DEF Place, Turn
<1>21. Ready(k)
  BY <1>1, <1>2, <1>13, <1>15, <1>18, <1>20, ReadyIsIdle
<1>22. OutcomeOf(h) = "open" /\ OutcomeOf(k) = "open"
  BY <1>21, GoesOn DEF Ready
<1>23. Arrives(h, k)
  BY <1>5, <1>10, <1>11, <1>12, <1>14, <1>15, <1>22 DEF Arrives, JudgedOf
<1>24. k.afterAux = FALSE
  BY <1>14, <1>19 DEF Graphs
<1> HIDE DEF m
<1> QED
  BY <1>2, <1>8, <1>12, <1>13, <1>14, <1>15, <1>21, <1>23, <1>24 DEF m

(* IRQ 0100 of a finger: the tail is read next.                             *)
LEMMA SampleMoves ==
  ASSUME NEW h, Ready(h), ExpectedEvent(h) = Sample
  PROVE  /\ Ready(Expecting(h, Command("20"))) /\ Idle(h) /\ h.half = FALSE
         /\ h.rearm = "none" /\ h.expected = Sample
         /\ Taken(h) /\ ~h.afterAux /\ h.observed # 1 /\ ~h.held
         /\ Place(h, Command("20"))
<1>1. Idle(h) /\ h.half = FALSE /\ h.rearm # "command" /\ h.rearm # "ack"
  BY Awaits, Kinds
<1>2. h.rearm = "none"
  BY <1>1 DEF Idle, Graphs
<1>3. h.expected = Sample /\ Place(h, Sample)
  BY <1>2, Awaits, Kinds
<1>4. Turn(h, "36") /\ ~h.held
  BY <1>3, CommandsOf, Kinds DEF Place
<1>5. Taken(h) /\ ~h.afterAux /\ h.observed # 1
  BY <1>4 DEF Turn
<1>6. Turn(h, "20")
  BY <1>5 DEF Turn
<1>7. Place(h, Command("20")) /\ Command("20") \in Expectations
  BY <1>4, <1>6, CommandsOf, Expectable DEF Place, Commands
<1>8. Ready(Expecting(h, Command("20")))
  BY <1>1, <1>2, <1>7, Moves
<1> QED BY <1>1, <1>2, <1>3, <1>4, <1>5, <1>7, <1>8

(* The navigation was seen: 32 arms for a touch.                            *)
LEMMA NavMoves ==
  ASSUME NEW h, Ready(h), ExpectedEvent(h) = Nav
  PROVE  LET m == Expecting([h EXCEPT !.navSeen = TRUE], Command("32"))
         IN /\ Ready(m) /\ Silent(h, m) /\ m.expected = Command("32")
            /\ m.rearm = "none" /\ m.transition = h.transition
            /\ m.observed = h.observed /\ m.strays = h.strays
            /\ m.navSeen = TRUE /\ m.window = h.window /\ m.late = h.late
            /\ h.observed = 1 /\ h.expected = Nav /\ h.rearm = "none"
<1> DEFINE b == [h EXCEPT !.navSeen = TRUE] m == Expecting(b, Command("32"))
<1>1. Idle(h) /\ h.half = FALSE /\ h.rearm # "command" /\ h.rearm # "ack"
  BY Awaits, Kinds
<1>2. h.rearm = "none" /\ h \in Graphs /\ Counted(h) /\ Going(h)
  BY <1>1 DEF Idle, Graphs
<1>3. h.expected = Nav /\ Place(h, Nav)
  BY <1>2, Awaits, Kinds
<1>4. Turn(h, "50") /\ ~h.held
  BY <1>3, CommandsOf, Kinds DEF Place
<1>5. Lifted(h) /\ h.observed = 1
  BY <1>4 DEF Turn
<1>6. /\ b \in Graphs /\ b.expected = h.expected /\ b.transition = h.transition
      /\ b.navSeen = TRUE /\ b.afterAux = h.afterAux
      /\ b.pending = h.pending /\ b.observed = h.observed
      /\ b.completed = h.completed /\ b.retried = h.retried
      /\ b.complete = h.complete /\ b.failed = h.failed /\ b.fenced = h.fenced
      /\ b.at = h.at /\ b.out = h.out /\ b.listening = h.listening
      /\ b.awaiting = h.awaiting
  BY <1>2 DEF Graphs
<1>7. /\ b.half = h.half /\ b.rearm = h.rearm /\ b.strays = h.strays
      /\ b.window = h.window /\ b.late = h.late /\ b.current = h.current
      /\ b.up = h.up /\ b.down = h.down /\ b.held = h.held /\ b.fw = h.fw
  BY <1>2 DEF Graphs
<1> HIDE DEF b
<1>8. Counted(b) /\ Going(b)
  BY <1>2, <1>5, <1>6, <1>7 DEF Counted, Going, Lifted, Tables
<1>9. Idle(b) /\ b.half = FALSE /\ b.rearm = "none"
  BY <1>1, <1>2, <1>6, <1>7, <1>8 DEF Idle
<1>10. Turn(b, "32")
  BY <1>5, <1>6, <1>7 DEF Turn, Lifted, Tables, Telling
<1>11. Place(b, Command("32")) /\ Command("32") \in Expectations
  BY <1>4, <1>7, <1>10, CommandsOf, Expectable DEF Place, Commands
<1>12. /\ Ready(m) /\ Silent(b, m) /\ m.expected = Command("32")
       /\ m.rearm = "none" /\ m.transition = b.transition
       /\ m.observed = b.observed /\ m.strays = b.strays
       /\ m.navSeen = b.navSeen /\ m.window = b.window /\ m.late = b.late
  BY <1>9, <1>11, Moves
<1>13. Silent(h, m)
  BY <1>6, <1>7, <1>12 DEF Silent, OutcomeOf, JudgedOf
<1> HIDE DEF m
<1>14. /\ Ready(m) /\ Silent(h, m) /\ m.expected = Command("32")
       /\ m.rearm = "none" /\ m.transition = h.transition
       /\ m.observed = h.observed /\ m.strays = h.strays
       /\ m.navSeen = TRUE /\ m.window = h.window /\ m.late = h.late
  BY <1>6, <1>7, <1>12, <1>13
<1> QED BY <1>2, <1>3, <1>5, <1>14 DEF m, b

-----------------------------------------------------------------------------
(* The end: the completion that was held back is released.                  *)
Completes(m) ==
  /\ m \in Graphs /\ Counted(m) /\ m.complete = TRUE /\ m.failed = FALSE
  /\ m.fenced = FALSE /\ m.at = "idle" /\ m.out = "none" /\ m.held = TRUE
  /\ m.completed = Required /\ m.fw = Device("IDLE", FALSE, Required, TRUE)

Ended(k) ==
  /\ Sound(k) /\ k.complete = TRUE /\ k.failed = FALSE /\ k.fenced = TRUE
  /\ k.fw = Device("DEACTIVATING", FALSE, Required, FALSE)

(* goodix_device_context_release_completion() ends the enrollment.          *)
LEMMA Releases ==
  ASSUME NEW m, Completes(m)
  PROVE  Ended(ReleaseCompletion(m))
<1> DEFINE f == [Expect(m.fw, m.fw.held) EXCEPT !.held = FALSE]
           d == Device("DEACTIVATING", FALSE, Required, FALSE)
           k == [m EXCEPT !.held = FALSE, !.fenced = TRUE, !.fw = d]
<1>1. m \in Graphs /\ m.fw = Device("IDLE", FALSE, Required, TRUE)
  BY DEF Completes
<1>2. f = Device("IDLE", FALSE, Required, FALSE)
  <2>1. m.fw.held = TRUE
    BY <1>1 DEF Device
  <2>2. Expect(m.fw, TRUE) = Device("IDLE", FALSE, Required, TRUE)
    BY <1>1, QuietDevice
  <2>3. f = [Device("IDLE", FALSE, Required, TRUE) EXCEPT !.held = FALSE]
    BY <2>1, <2>2
  <2> HIDE DEF f
  <2> QED BY <2>3 DEF Device
<1>3. [Expect(f, f.st = "IDLE") EXCEPT !.st = "DEACTIVATING"] = d
  <2> HIDE DEF f
  <2>1. (f.st = "IDLE") = TRUE
    BY <1>2 DEF Device
  <2>2. Expect(f, TRUE) = Device("IDLE", FALSE, Required, FALSE)
    BY <1>2, QuietDevice
  <2>3. [Expect(f, f.st = "IDLE") EXCEPT !.st = "DEACTIVATING"]
          = [Device("IDLE", FALSE, Required, FALSE) EXCEPT !.st = "DEACTIVATING"]
    BY <2>1, <2>2
  <2>4. [Device("IDLE", FALSE, Required, FALSE) EXCEPT !.st = "DEACTIVATING"] = d
    BY DeviceStates
  <2> HIDE DEF d
  <2> QED BY <2>3, <2>4, Zenon
<1>4. f.active /\ f.stage = Required
  <2> HIDE DEF f
  <2> QED BY <1>2 DEF Device
<1>5. ReleaseCompletion(m) = k
  <2> HIDE DEF d
  <2> QED BY <1>3, <1>4 DEF ReleaseCompletion
<1>6. d \in Devices
  <2>1. Required \in Stages
    BY RequiredAssumption DEF Stages
  <2> QED BY <2>1, InDevices, StateNames
<1>7. d.st = "DEACTIVATING" /\ d.finger = FALSE
  BY DEF Device
<1>8. d = Device("DEACTIVATING", FALSE, Required, FALSE)
  OBVIOUS
<1> HIDE DEF d, f
<1>9. /\ k \in Graphs /\ k.held = FALSE /\ k.fenced = TRUE /\ k.fw = d
      /\ k.complete = m.complete /\ k.failed = m.failed /\ k.at = m.at
      /\ k.out = m.out
      /\ k.completed = m.completed /\ k.observed = m.observed
      /\ k.retried = m.retried /\ k.pending = m.pending
  BY <1>1, <1>6 DEF Graphs
<1> HIDE DEF k
<1>10. /\ k.complete = TRUE /\ k.failed = FALSE /\ k.at = "idle"
      /\ k.completed = Required /\ Attached(k)
  BY <1>9 DEF Completes, Attached
<1>11. Counted(k)
  <2>1. k.fw = Device(k.fw.st, k.fw.finger, k.completed, k.held)
    BY <1>7, <1>8, <1>9, <1>10, Zenon
  <2> QED BY <1>9, <2>1 DEF Counted, Completes
<1>12. Sound(k)
  BY <1>7, <1>9, <1>10, <1>11 DEF Sound
<1> QED BY <1>5, <1>8, <1>9, <1>10, <1>12 DEF Ended

(* A frame after which the model is complete, up to the context.            *)
LEMMA ContextEnds ==
  ASSUME NEW h, Ready(h), NEW f, NEW verdict, ~IsLate(h, f),
         Completes(EventsHandleA0(h, f, verdict))
  PROVE  Ended(ArmIfNeeded(ContextHandleA0(h, f, verdict)))
<1> DEFINE m == EventsHandleA0(h, f, verdict) k == ReleaseCompletion(m)
<1>1. SubmitIfReady(m) = m
  BY DEF SubmitIfReady, Completes
<1>2. BindingHandleA0(h, f, verdict) = m
  BY <1>1 DEF BindingHandleA0, Ready
<1>3. Ended(k)
  BY Releases
<1>4. ~m.failed /\ m.held /\ m.complete
  BY DEF Completes
<1> HIDE DEF m
<1>5. ContextHandleA0(h, f, verdict) = k
  BY <1>2, <1>3, <1>4 DEF ContextHandleA0, Ended
<1>6. ArmIfNeeded(k) = k
  BY <1>3 DEF ArmIfNeeded, Ended
<1> QED BY <1>3, <1>5, <1>6

(* The lift that is waited for.                                             *)
LEMMA LiftIsJudged ==
  ASSUME NEW h, Ready(h), ExpectedEvent(h) = Lift
  PROVE  /\ Idle(h) /\ h.half = FALSE /\ h.rearm = "none" /\ h.expected = Lift
         /\ Judged(h) /\ h.observed \in Nat
<1>1. Idle(h) /\ h.half = FALSE /\ h.rearm # "command" /\ h.rearm # "ack"
  BY Awaits, Kinds
<1>2. h.rearm = "none"
  BY <1>1 DEF Idle, Graphs
<1>3. h.expected = Lift /\ Place(h, Lift)
  BY <1>2, Awaits, Kinds
<1>4. Judged(h)
  BY <1>3, CommandsOf, Kinds DEF Place, Turn
<1> QED BY <1>1, <1>2, <1>3, <1>4, Counts

(* What the lift of a touch leaves of the tables.                           *)
LiftedOff(h) == [h EXCEPT !.down = h.observed, !.afterAux = FALSE]

(* The graph that has seen the lift, before the framework hears of it.      *)
LEMMA LiftedOffFields ==
  ASSUME NEW h, Idle(h), Judged(h) \/ Taken(h)
  PROVE  LET b == LiftedOff(h)
         IN /\ Idle(b) /\ b.expected = h.expected /\ b.transition = h.transition
            /\ b.navSeen = h.navSeen /\ b.afterAux = FALSE
            /\ b.pending = h.pending /\ b.observed = h.observed
            /\ b.completed = h.completed /\ b.retried = h.retried
            /\ b.half = h.half /\ b.rearm = h.rearm /\ b.strays = h.strays
            /\ b.window = h.window /\ b.late = h.late /\ b.current = h.current
            /\ b.up = h.up /\ b.down = h.observed /\ b.held = h.held
            /\ b.fw = h.fw
<1> DEFINE b == LiftedOff(h)
<1>1. h \in Graphs /\ Counted(h) /\ Going(h)
  BY DEF Idle
<1>2. /\ b \in Graphs /\ b.expected = h.expected /\ b.transition = h.transition
      /\ b.navSeen = h.navSeen /\ b.afterAux = FALSE
      /\ b.pending = h.pending /\ b.observed = h.observed
      /\ b.completed = h.completed /\ b.retried = h.retried
      /\ b.complete = h.complete /\ b.failed = h.failed /\ b.fenced = h.fenced
      /\ b.at = h.at /\ b.out = h.out /\ b.listening = h.listening
      /\ b.awaiting = h.awaiting
  BY <1>1 DEF LiftedOff, Graphs
<1>3. /\ b.half = h.half /\ b.rearm = h.rearm /\ b.strays = h.strays
      /\ b.window = h.window /\ b.late = h.late /\ b.current = h.current
      /\ b.up = h.up /\ b.down = h.observed /\ b.held = h.held /\ b.fw = h.fw
  BY <1>1 DEF LiftedOff, Graphs
<1> HIDE DEF b
<1>4. Counted(b) /\ Going(b)
  BY <1>1, <1>2, <1>3 DEF Counted, Going
<1>5. Idle(b)
  BY <1>2, <1>3, <1>4 DEF Idle
<1> QED BY <1>2, <1>3, <1>5 DEF b

(* The framework is told that the finger is off, and asks for another.      *)
LEMMA ContactOff ==
  ASSUME NEW b, Idle(b), ~b.held, Telling(b, "AWAIT_OFF", TRUE)
  PROVE  LET m == Contact(b, FALSE)
         IN /\ Idle(m) /\ m.expected = b.expected /\ m.transition = b.transition
            /\ m.navSeen = b.navSeen /\ m.afterAux = b.afterAux
            /\ m.pending = b.pending /\ m.observed = b.observed
            /\ m.half = b.half /\ m.rearm = b.rearm /\ m.strays = b.strays
            /\ m.window = b.window /\ m.late = b.late /\ m.current = b.current
            /\ m.up = b.up /\ m.down = b.down /\ m.held = b.held
            /\ Telling(m, "AWAIT_ON", FALSE) /\ m.fw.stage = b.fw.stage
            /\ b.fw.stage # Required /\ b.fw.stage \in 0..Required
            /\ OutcomeOf(b) = "open" /\ OutcomeOf(m) = "open"
<1> DEFINE f == Device("AWAIT_ON", FALSE, b.completed, FALSE)
           m == [b EXCEPT !.fw = f]
<1>1. b \in Graphs /\ Counted(b) /\ Going(b) /\ b.held = FALSE
  BY DEF Idle, Graphs
<1>2. b.completed # Required /\ b.completed \in 0..Required /\ b.fenced = FALSE
  BY <1>1 DEF Going, Graphs, Stages
<1>3. b.fw = Device("AWAIT_OFF", TRUE, b.completed, FALSE)
  <2>1. b.fw = Device(b.fw.st, b.fw.finger, b.completed, b.held)
    BY <1>1 DEF Counted
  <2>2. b.fw.st = "AWAIT_OFF" /\ b.fw.finger = TRUE
    BY DEF Telling
  <2> QED BY <1>1, <2>1, <2>2, Zenon
<1>4. ReportFinger(b.fw, FALSE) = f
  BY <1>2, <1>3, DeviceTells
<1>5. Contact(b, FALSE) = m
  <2> HIDE DEF f
  <2> QED BY <1>2, <1>4 DEF Contact
<1>6. f \in Devices
  BY <1>2, InDevices, StateNames DEF Stages
<1>7. f.st = "AWAIT_ON" /\ f.finger = FALSE /\ f.stage = b.completed
  BY DEF Device
<1>8. b.fw.stage = b.completed /\ b.fw.st = "AWAIT_OFF"
  BY <1>3 DEF Device
<1>9. f = Device("AWAIT_ON", FALSE, b.completed, FALSE)
  OBVIOUS
<1> HIDE DEF f
<1>10. /\ m \in Graphs /\ m.expected = b.expected /\ m.transition = b.transition
      /\ m.navSeen = b.navSeen /\ m.afterAux = b.afterAux
      /\ m.pending = b.pending /\ m.observed = b.observed
      /\ m.completed = b.completed /\ m.retried = b.retried
      /\ m.complete = b.complete /\ m.failed = b.failed /\ m.fenced = b.fenced
      /\ m.at = b.at /\ m.out = b.out /\ m.listening = b.listening
      /\ m.awaiting = b.awaiting
  BY <1>1, <1>6 DEF Graphs
<1>11. /\ m.half = b.half /\ m.rearm = b.rearm /\ m.strays = b.strays
       /\ m.window = b.window /\ m.late = b.late /\ m.current = b.current
       /\ m.up = b.up /\ m.down = b.down /\ m.held = b.held /\ m.fw = f
  BY <1>1, <1>6 DEF Graphs
<1> HIDE DEF m
<1>12. m.fw = Device(m.fw.st, m.fw.finger, m.completed, m.held)
  BY <1>1, <1>7, <1>9, <1>10, <1>11, Zenon
<1>13. Counted(m) /\ Going(m)
  BY <1>1, <1>10, <1>11, <1>12 DEF Counted, Going
<1>14. Idle(m)
  BY <1>10, <1>11, <1>13 DEF Idle
<1>15. Telling(m, "AWAIT_ON", FALSE) /\ m.fw.stage = b.fw.stage
  BY <1>7, <1>8, <1>11 DEF Telling
<1>16. OutcomeOf(b) = "open" /\ OutcomeOf(m) = "open"
  BY <1>2, <1>7, <1>8, <1>10, <1>11 DEF OutcomeOf
<1> QED BY <1>2, <1>5, <1>8, <1>10, <1>11, <1>14, <1>15, <1>16

(* The lift of a touch that is not the last.                                *)
LEMMA LiftMoves ==
  ASSUME NEW h, Ready(h), ExpectedEvent(h) = Lift, ~h.held, NEW verdict
  PROVE  LET m == LiftSeen(h, verdict)
         IN /\ Ready(m) /\ Lifts(h, m) /\ m.rearm = "none"
            /\ m.expected = IF h.observed = 1 THEN Command("20") ELSE Command("32")
            /\ m.observed = h.observed /\ m.strays = h.strays
            /\ m.transition = h.transition /\ h.transition # "none"
            /\ m.window = FALSE /\ m.pending = FALSE /\ m.afterAux = FALSE
            /\ (h.observed = 1 => m.navSeen = FALSE)
<1>1. /\ Idle(h) /\ h.half = FALSE /\ h.rearm = "none" /\ h.expected = Lift
      /\ Judged(h) /\ h.observed \in Nat
  BY LiftIsJudged
<1>2. /\ h.transition = IF h.observed = 1 THEN "first" ELSE "repeated"
      /\ ~h.pending /\ ~h.window /\ h.observed > 0
      /\ h.current = h.observed /\ h.up = h.observed
      /\ h.down = h.observed - 1 /\ Telling(h, "AWAIT_OFF", TRUE)
  BY <1>1 DEF Judged, Tables
<1> DEFINE b == LiftedOff(h)
           c == Contact(b, FALSE)
           e == IF h.observed = 1 THEN Command("20") ELSE Command("32")
           m == Expecting(c, e)
<1>3. /\ Idle(b) /\ b.expected = h.expected /\ b.transition = h.transition
      /\ b.navSeen = h.navSeen /\ b.afterAux = FALSE
      /\ b.pending = h.pending /\ b.observed = h.observed
      /\ b.half = h.half /\ b.rearm = h.rearm /\ b.strays = h.strays
      /\ b.window = h.window /\ b.late = h.late /\ b.current = h.current
      /\ b.up = h.up /\ b.down = h.observed /\ b.held = h.held
      /\ b.fw = h.fw
  BY <1>1, LiftedOffFields
<1>4. b = LiftedOff(h)
  OBVIOUS
<1> HIDE DEF b
<1>5. ~b.held /\ Telling(b, "AWAIT_OFF", TRUE)
  BY <1>2, <1>3 DEF Telling
<1>6. /\ Idle(c) /\ c.expected = b.expected /\ c.transition = b.transition
      /\ c.navSeen = b.navSeen /\ c.afterAux = b.afterAux
      /\ c.pending = b.pending /\ c.observed = b.observed
      /\ c.half = b.half /\ c.rearm = b.rearm /\ c.strays = b.strays
      /\ c.window = b.window /\ c.late = b.late /\ c.current = b.current
      /\ c.up = b.up /\ c.down = b.down /\ c.held = b.held
      /\ Telling(c, "AWAIT_ON", FALSE) /\ c.fw.stage = b.fw.stage
      /\ b.fw.stage # Required /\ b.fw.stage \in 0..Required
      /\ OutcomeOf(b) = "open" /\ OutcomeOf(c) = "open"
  BY <1>3, <1>5, ContactOff
<1>7. c = Contact(b, FALSE)
  OBVIOUS
<1>8. LiftSeen(h, verdict) = m
  <2>1. ~(h.observed # h.current \/ h.up # h.observed \/ h.down >= h.observed)
    BY <1>1, <1>2
  <2>2. h.transition # "terminal"
    BY <1>2
  <2>3. b \in Graphs /\ b.fenced = FALSE /\ b.failed = FALSE
    BY <1>3 DEF Idle, Going, Graphs
  <2>4. Expecting(b, e).failed = FALSE /\ Expecting(b, e).fenced = FALSE
        /\ Expecting(b, e).fw = b.fw
    BY <2>3 DEF Expecting, Graphs
  <2>5. LiftSeen(h, verdict) = Contact(Expecting(b, e), FALSE)
    <3>1. CASE h.observed = 1
      <4>1. h.transition = "first" /\ e = Command("20")
        BY <1>2, <3>1
      <4> HIDE DEF e
      <4> QED BY <1>4, <2>1, <2>2, <2>4, <4>1 DEF LiftSeen, LiftedOff
    <3>2. CASE h.observed # 1
      <4>1. h.transition = "repeated" /\ e = Command("32")
        BY <1>2, <3>2
      <4> HIDE DEF e
      <4> QED BY <1>4, <2>1, <2>2, <2>4, <4>1 DEF LiftSeen, LiftedOff
    <3> QED BY <3>1, <3>2
  <2>6. Contact(Expecting(b, e), FALSE)
          = [Expecting(b, e) EXCEPT !.fw = ReportFinger(b.fw, FALSE)]
    <3> HIDE DEF e
    <3> QED BY <2>4 DEF Contact
  <2>7. c = [b EXCEPT !.fw = ReportFinger(b.fw, FALSE)]
    BY <2>3 DEF Contact
  <2> HIDE DEF e, c
  <2> QED BY <2>3, <2>5, <2>6, <2>7 DEF Expecting, Graphs
<1> HIDE DEF c
<1>9. Place(c, e) /\ e \in Expectations
  <2>1. Lifted(c) /\ ~c.held
    <3>1. c.transition = IF h.observed = 1 THEN "first" ELSE "repeated"
      BY <1>2, <1>3, <1>6
    <3>2. ~c.pending /\ ~c.afterAux /\ ~c.window /\ ~c.held
      BY <1>2, <1>3, <1>5, <1>6
    <3>3. c.observed = h.observed /\ h.observed # 0
      BY <1>1, <1>2, <1>3, <1>6
    <3>4. c.current = c.observed /\ c.up = c.observed /\ c.down = c.observed
      BY <1>2, <1>3, <1>6
    <3> QED BY <1>6, <3>1, <3>2, <3>3, <3>4 DEF Lifted, Tables
  <2>2. CASE h.observed = 1
    <3>1. ~c.navSeen
      BY <1>1, <1>2, <1>3, <1>6, <2>2 DEF Idle, Going
    <3>2. Turn(c, "20")
      BY <1>3, <1>6, <2>1, <2>2, <3>1 DEF Turn
    <3> QED BY <2>1, <2>2, <3>2, CommandsOf, Expectable DEF Place, Commands
  <2>3. CASE h.observed # 1
    <3>1. Turn(c, "32")
      BY <1>1, <1>2, <1>3, <1>6, <2>1 DEF Turn
    <3> QED BY <2>1, <2>3, <3>1, CommandsOf, Expectable DEF Place, Commands
  <2> QED BY <2>2, <2>3
<1>10. c.half = FALSE /\ c.rearm = "none"
  BY <1>1, <1>3, <1>6
<1>11. e = IF h.observed = 1 THEN Command("20") ELSE Command("32")
  OBVIOUS
<1> HIDE DEF e
<1>12. /\ Ready(m) /\ Silent(c, m) /\ m.expected = e /\ m.rearm = "none"
       /\ m.fw = c.fw /\ m.transition = c.transition
       /\ m.pending = c.pending /\ m.observed = c.observed
       /\ m.strays = c.strays /\ m.afterAux = c.afterAux
       /\ m.navSeen = c.navSeen /\ m.window = c.window
  BY <1>6, <1>9, <1>10, Moves
<1>13. OutcomeOf(h) = "open" /\ OutcomeOf(m) = "open"
  BY <1>12, GoesOn DEF Ready
<1>14. Lifts(h, m)
  <2>1. h.fw.finger /\ JudgedOf(h)
    BY <1>2 DEF Telling, JudgedOf
  <2>2. m.fw.finger = FALSE /\ JudgedOf(m) /\ m.fw.stage = h.fw.stage
        /\ m.fw.stage # Required
    BY <1>3, <1>6, <1>12 DEF Telling, JudgedOf
  <2> QED BY <1>13, <2>1, <2>2 DEF Lifts
<1>15. h.observed = 1 => m.navSeen = FALSE
  <2>1. h.observed = 1 => ~h.navSeen
    BY <1>1, <1>2 DEF Idle, Going
  <2>2. h.navSeen \in BOOLEAN
    BY <1>1 DEF Idle, Graphs
  <2> QED BY <1>3, <1>6, <1>12, <2>1, <2>2
<1>16. h.pending = FALSE /\ h.window = FALSE
  BY <1>1, <1>2 DEF Idle, Graphs
<1> HIDE DEF m
<1> QED BY <1>1, <1>2, <1>3, <1>6, <1>8, <1>11, <1>12, <1>14, <1>15, <1>16

(* The framework is told that the finger is off after the last stage.       *)
LEMMA ContactLast ==
  ASSUME NEW b \in Graphs, Counted(b), b.complete, ~b.failed, ~b.fenced,
         b.at = "idle", b.out = "none", b.held, b.completed = Required,
         Telling(b, "AWAIT_OFF", TRUE)
  PROVE  Completes(Contact(b, FALSE))
<1> DEFINE f == Device("IDLE", FALSE, Required, TRUE)
           m == [b EXCEPT !.fw = f]
<1>1. /\ b.held = TRUE /\ b.fenced = FALSE /\ b.failed = FALSE
      /\ b.complete = TRUE
  BY DEF Graphs
<1>2. b.fw = Device("AWAIT_OFF", TRUE, Required, TRUE)
  <2>1. b.fw = Device(b.fw.st, b.fw.finger, b.completed, b.held)
    BY DEF Counted
  <2>2. b.fw.st = "AWAIT_OFF" /\ b.fw.finger = TRUE
    BY DEF Telling
  <2> QED BY <1>1, <2>1, <2>2, Zenon
<1>3. ReportFinger(b.fw, FALSE) = f
  BY <1>2, DeviceTells
<1>4. Contact(b, FALSE) = m
  <2> HIDE DEF f
  <2> QED BY <1>1, <1>3 DEF Contact
<1>5. f \in Devices
  <2>1. Required \in Stages
    BY RequiredAssumption DEF Stages
  <2> QED BY <2>1, InDevices, StateNames
<1>6. f.st = "IDLE" /\ f.finger = FALSE
      /\ f = Device("IDLE", FALSE, Required, TRUE)
  BY DEF Device
<1> HIDE DEF f
<1>7. /\ m \in Graphs /\ m.complete = b.complete /\ m.failed = b.failed
      /\ m.fenced = b.fenced /\ m.at = b.at /\ m.out = b.out /\ m.held = b.held
      /\ m.completed = b.completed /\ m.fw = f /\ m.observed = b.observed
      /\ m.retried = b.retried /\ m.pending = b.pending
  BY <1>5 DEF Graphs
<1> HIDE DEF m
<1>8. m.fw = Device(m.fw.st, m.fw.finger, m.completed, m.held)
  BY <1>1, <1>6, <1>7, Zenon
<1>9. Counted(m)
  BY <1>7, <1>8 DEF Counted
<1> QED BY <1>1, <1>4, <1>6, <1>7, <1>9 DEF Completes

(* goodix_enrollment_model finishes: the touch was terminal.                *)
Finished(b) == [b EXCEPT !.complete = TRUE, !.expected = Nothing]

(* finish() after the last touch.                                           *)
LEMMA FinishedFields ==
  ASSUME NEW b, Idle(b), b.held, ~b.pending, NEW verdict
  PROVE  /\ Finish(b, verdict) = Finished(b)
         /\ Finished(b) \in Graphs /\ Counted(Finished(b))
         /\ Finished(b).complete = TRUE /\ Finished(b).failed = FALSE
         /\ Finished(b).fenced = FALSE /\ Finished(b).at = "idle"
         /\ Finished(b).out = "none"
         /\ Finished(b).held = TRUE /\ Finished(b).completed = Required
         /\ Finished(b).fw = b.fw
<1> DEFINE m == Finished(b)
<1>1. b \in Graphs /\ Counted(b) /\ b.failed = FALSE /\ b.fenced = FALSE
      /\ b.held = TRUE /\ b.completed = Required /\ b.at = "idle"
      /\ b.out = "none"
  BY DEF Idle, Going, Graphs
<1>2. Finish(b, verdict) = m
  BY <1>1 DEF Finish, DeliverPending, Finished
<1>3. /\ m \in Graphs /\ m.complete = TRUE /\ m.failed = b.failed
      /\ m.fenced = b.fenced /\ m.at = b.at /\ m.out = b.out /\ m.held = b.held
      /\ m.completed = b.completed /\ m.fw = b.fw /\ m.observed = b.observed
      /\ m.retried = b.retried /\ m.pending = b.pending
  BY <1>1, Expectable DEF Finished, Graphs
<1> HIDE DEF m
<1>4. Counted(m)
  BY <1>1, <1>3 DEF Counted
<1> QED BY <1>1, <1>2, <1>3, <1>4 DEF m

(* The lift of the last touch.                                              *)
LEMMA LiftCompletes ==
  ASSUME NEW h, Ready(h), ExpectedEvent(h) = Lift, h.held, NEW verdict
  PROVE  /\ Completes(LiftSeen(h, verdict)) /\ OutcomeOf(h) = "open"
         /\ h.fw.finger /\ JudgedOf(h) /\ h.fw.stage = Required
<1>1. /\ Idle(h) /\ h.half = FALSE /\ h.rearm = "none" /\ h.expected = Lift
      /\ Judged(h) /\ h.observed \in Nat
  BY LiftIsJudged
<1>2. /\ h.transition = "terminal"
      /\ ~h.pending /\ h.observed > 0
      /\ h.current = h.observed /\ h.up = h.observed
      /\ h.down = h.observed - 1 /\ Telling(h, "AWAIT_OFF", TRUE)
  BY <1>1 DEF Judged, Tables
<1> DEFINE b == LiftedOff(h) n == Finished(b)
<1>3. /\ Idle(b) /\ b.held = h.held /\ b.pending = h.pending /\ b.fw = h.fw
      /\ b.transition = h.transition
  BY <1>1, LiftedOffFields
<1>4. b = LiftedOff(h)
  OBVIOUS
<1> HIDE DEF b
<1>5. /\ Finish(b, verdict) = n /\ n \in Graphs /\ Counted(n)
      /\ n.complete = TRUE /\ n.failed = FALSE
      /\ n.fenced = FALSE /\ n.at = "idle" /\ n.out = "none"
      /\ n.held = TRUE /\ n.completed = Required /\ n.fw = b.fw
  BY <1>2, <1>3, FinishedFields
<1> HIDE DEF n
<1>6. Telling(n, "AWAIT_OFF", TRUE)
  BY <1>2, <1>3, <1>5 DEF Telling
<1>7. Completes(Contact(n, FALSE))
  BY <1>5, <1>6, ContactLast
<1>8. LiftSeen(h, verdict) = Contact(n, FALSE)
  <2>1. ~(h.observed # h.current \/ h.up # h.observed \/ h.down >= h.observed)
    BY <1>1, <1>2
  <2> QED BY <1>2, <1>4, <1>5, <2>1 DEF LiftSeen, LiftedOff
<1>9. OutcomeOf(h) = "open"
  BY GoesOn DEF Ready
<1>10. h.fw.stage = Required
  <2>1. h.fw = Device(h.fw.st, h.fw.finger, h.completed, h.held)
    BY <1>1, Counts
  <2>2. h.completed = Required
    BY <1>1 DEF Idle, Going
  <2> QED BY <2>1, <2>2 DEF Device
<1> QED BY <1>2, <1>7, <1>8, <1>9, <1>10 DEF Telling, JudgedOf

-----------------------------------------------------------------------------
(* IRQ 0100 without a finger.                                               *)

(* What may_recover_missed_release() checks always holds there.             *)
LEMMA ZeroMayRecover ==
  ASSUME NEW h, Ready(h), ExpectedEvent(h) = Sample
  PROVE  /\ MayRecover(h) /\ Idle(h) /\ Taken(h) /\ ~h.held
         /\ h.half = FALSE /\ h.rearm = "none"
         /\ h.observed \in Nat /\ h.observed >= 2 /\ ~h.afterAux
         /\ h.transition = "repeated"
<1>1. /\ Idle(h) /\ h.half = FALSE /\ h.rearm = "none"
      /\ Taken(h) /\ ~h.afterAux /\ h.observed # 1 /\ ~h.held
  BY SampleMoves
<1>2. /\ h.pending /\ ~h.window /\ h.current = h.observed
      /\ h.up = h.observed /\ h.down = h.observed - 1
      /\ h.transition = "repeated"
  BY <1>1 DEF Taken, Tables
<1>3. /\ h.observed \in Nat /\ h.down \in Nat
      /\ h.observed = h.completed + h.retried + 1
  BY <1>1, <1>2, Counts
<1>4. h.observed >= 2
  BY <1>1, <1>2, <1>3
<1> QED BY <1>1, <1>2, <1>3, <1>4 DEF MayRecover

(* What the scan without a finger leaves of the tables.                     *)
ZeroOff(h) == [h EXCEPT !.down = h.observed]
Opened(n, open) ==
  [n EXCEPT !.window = open, !.awaiting = open, !.late = FALSE]

(* The empty scan: the table of the lift is the touch's, and the touch is   *)
(* judged.                                                                  *)
LEMMA ZeroOffFields ==
  ASSUME NEW h, Idle(h), Taken(h), ~h.afterAux
  PROVE  ZeroOff(h) = LiftedOff(h)
<1>1. h \in Graphs /\ h.afterAux = FALSE
  BY DEF Idle, Graphs
<1> DEFINE a == ZeroOff(h) b == LiftedOff(h)
<1>2. a \in Graphs /\ b \in Graphs
  BY <1>1 DEF Graphs, ZeroOff, LiftedOff
<1>3. /\ a.expected = b.expected /\ a.transition = b.transition
      /\ a.navSeen = b.navSeen /\ a.afterAux = b.afterAux
      /\ a.pending = b.pending /\ a.observed = b.observed
      /\ a.completed = b.completed /\ a.retried = b.retried
      /\ a.complete = b.complete /\ a.failed = b.failed /\ a.fenced = b.fenced
  BY <1>1 DEF Graphs, ZeroOff, LiftedOff
<1>4. /\ a.at = b.at /\ a.out = b.out /\ a.listening = b.listening
      /\ a.awaiting = b.awaiting
      /\ a.half = b.half /\ a.rearm = b.rearm /\ a.strays = b.strays
      /\ a.window = b.window /\ a.late = b.late /\ a.current = b.current
      /\ a.up = b.up /\ a.down = b.down /\ a.held = b.held
      /\ a.fw = b.fw
  BY <1>1 DEF Graphs, ZeroOff, LiftedOff
<1> HIDE DEF a, b
<1>5. a = b
  BY <1>2, <1>3, <1>4 DEF Graphs
<1> QED BY <1>5 DEF a, b

(* The graph waits for the framework, and goes on when it asks for a touch. *)
Asked(m) == [m EXCEPT !.awaiting = FALSE]

(* An empty scan up to the context, which asks for the next touch.          *)
LEMMA ContextReopens ==
  ASSUME NEW h, Ready(h), NEW f, NEW verdict, ~IsLate(h, f),
         NEW m \in Graphs, EventsHandleA0(h, f, verdict) = m,
         m.awaiting, m.fw.st = "AWAIT_ON", m.expected = Command("32"),
         Ready(Asked(m))
  PROVE  ArmIfNeeded(ContextHandleA0(h, f, verdict)) = Settled(Asked(m))
<1> DEFINE n == Asked(m)
<1>1. n.out = m.out /\ n.failed = m.failed /\ n.fenced = m.fenced
      /\ n.complete = m.complete
  BY DEF Asked, Graphs
<1>2. m.out = "none" /\ ~m.failed /\ ~m.fenced /\ ~m.complete
  BY <1>1, GoesOn DEF Ready
<1>3. SubmitIfReady(m) = m
  BY DEF SubmitIfReady
<1>4. BindingHandleA0(h, f, verdict) = m
  BY <1>3 DEF BindingHandleA0, Ready
<1>5. MaybeRearm(m) = SubmitIfReady(n)
  BY <1>2 DEF MaybeRearm, Asked
<1>6. ContextHandleA0(h, f, verdict) = SubmitIfReady(n)
  BY <1>2, <1>4, <1>5 DEF ContextHandleA0
<1> QED BY <1>6, Settles

(* An empty scan of a touch that is not the last: 32 arms for the next one, *)
(* and its lift may still come.                                             *)
Reopens(h, n) ==
  /\ Ready(n) /\ Lifts(h, n) /\ n.expected = Command("32")
  /\ n.rearm = "none" /\ n.observed = h.observed /\ n.strays = h.strays
  /\ n.transition = "repeated" /\ n.window = TRUE /\ n.late = FALSE
  /\ n.pending = FALSE /\ n.afterAux = FALSE

(* An empty scan of a touch that is not the last opens the window for one   *)
(* late lift.                                                               *)
LEMMA ZeroReopens ==
  ASSUME NEW h, Ready(h), ExpectedEvent(h) = Sample, NEW verdict,
         NEW off, DeliverPending(ZeroOff(h), verdict) = off,
         WasJudged(ZeroOff(h), off), ~off.held
  PROVE  LET m == ZeroSeen(h, verdict)
         IN /\ m \in Graphs /\ m.awaiting = TRUE /\ m.fw.st = "AWAIT_ON"
            /\ m.expected = Command("32") /\ Reopens(h, Asked(m))
<1> DEFINE b == ZeroOff(h)
           c == Contact(off, FALSE)
           n == [c EXCEPT !.expected = Command("32"), !.window = TRUE,
                          !.late = FALSE]
           k == [n EXCEPT !.awaiting = TRUE]
           m == ZeroSeen(h, verdict)
<1>1. /\ MayRecover(h) /\ Idle(h) /\ Taken(h) /\ ~h.held
      /\ h.half = FALSE /\ h.rearm = "none"
      /\ h.observed \in Nat /\ h.observed >= 2 /\ ~h.afterAux
      /\ h.transition = "repeated"
  BY ZeroMayRecover
<1>2. /\ Idle(b) /\ b.transition = h.transition /\ b.navSeen = h.navSeen
      /\ b.afterAux = FALSE /\ b.pending = h.pending
      /\ b.observed = h.observed /\ b.half = h.half /\ b.rearm = h.rearm
      /\ b.strays = h.strays /\ b.window = h.window /\ b.late = h.late
      /\ b.current = h.current /\ b.up = h.up /\ b.down = h.observed
      /\ b.held = h.held /\ b.fw = h.fw
  <2>1. b = LiftedOff(h)
    BY <1>1, ZeroOffFields
  <2> HIDE DEF b
  <2> QED BY <1>1, <2>1, LiftedOffFields
<1>3. b = ZeroOff(h) /\ DeliverPending(b, verdict) = off
  OBVIOUS
<1> HIDE DEF b
<1>4. /\ Idle(off) /\ off.pending = FALSE /\ off.failed = FALSE
      /\ off.transition = b.transition
      /\ Telling(off, "AWAIT_OFF", TRUE)
      /\ off.fw.stage \in {b.fw.stage, b.fw.stage + 1}
      /\ off.navSeen = b.navSeen
      /\ off.afterAux = b.afterAux /\ off.observed = b.observed
      /\ off.half = b.half /\ off.rearm = b.rearm /\ off.strays = b.strays
      /\ off.window = b.window /\ off.late = b.late
      /\ off.current = b.current /\ off.up = b.up /\ off.down = b.down
  BY <1>3 DEF WasJudged
<1>5. /\ Idle(c) /\ c.transition = off.transition
      /\ c.navSeen = off.navSeen /\ c.afterAux = off.afterAux
      /\ c.pending = off.pending /\ c.observed = off.observed
      /\ c.half = off.half /\ c.rearm = off.rearm /\ c.strays = off.strays
      /\ c.current = off.current
      /\ c.up = off.up /\ c.down = off.down /\ c.held = off.held
      /\ Telling(c, "AWAIT_ON", FALSE) /\ c.fw.stage = off.fw.stage
      /\ off.fw.stage # Required /\ off.fw.stage \in 0..Required
      /\ OutcomeOf(c) = "open"
  BY <1>4, ContactOff
<1>6. c \in Graphs /\ Counted(c) /\ Going(c) /\ off \in Graphs
      /\ off.fenced = FALSE /\ off.complete = FALSE /\ c.awaiting = FALSE
  BY <1>4, <1>5 DEF Idle, Going, Graphs
<1>7. c = [off EXCEPT !.fw = ReportFinger(off.fw, FALSE)]
  BY <1>6 DEF Contact
<1> HIDE DEF c
<1>8. Command("32") \in Expectations
  BY Expectable DEF Commands
<1>9. m = k
  <2> DEFINE x == Expecting(off, Command("32")) o == Opened(x, TRUE)
  <2>1. x \in Graphs /\ x.complete = FALSE /\ x.fenced = FALSE
        /\ x.fw = off.fw
    BY <1>6, <1>8 DEF Expecting, Graphs
  <2>2. o \in Graphs /\ o.fenced = FALSE /\ o.fw = off.fw
    <3> HIDE DEF x
    <3> QED BY <2>1 DEF Opened, Graphs
  <2>3. [x EXCEPT !.window = ~x.complete, !.awaiting = ~x.complete,
                  !.late = FALSE] = o
    <3> HIDE DEF x
    <3>1. (~x.complete) = TRUE
      BY <2>1
    <3> QED BY <3>1 DEF Opened
  <2>4. off.transition # "terminal"
    BY <1>1, <1>2, <1>4
  <2>5. m = Contact(o, FALSE)
    <3>1. ~off.failed
      BY <1>4
    <3> HIDE DEF o
    <3> QED BY <1>1, <1>3, <3>1, <2>3, <2>4 DEF ZeroSeen, ZeroOff
  <2>6. Contact(o, FALSE) = [o EXCEPT !.fw = ReportFinger(off.fw, FALSE)]
    <3> HIDE DEF o
    <3> QED BY <2>2 DEF Contact
  <2>7. [o EXCEPT !.fw = ReportFinger(off.fw, FALSE)] = k
    <3> DEFINE r == ReportFinger(off.fw, FALSE)
    <3>1. /\ c = [off EXCEPT !.fw = r]
          /\ o = [off EXCEPT !.expected = Command("32"), !.window = TRUE,
                             !.awaiting = TRUE, !.late = FALSE]
      BY <1>6, <1>7 DEF Opened, Expecting, Graphs
    <3> HIDE DEF r, o
    <3>2. [o EXCEPT !.fw = r]
            = [off EXCEPT !.expected = Command("32"), !.window = TRUE,
                          !.awaiting = TRUE, !.late = FALSE, !.fw = r]
      BY <1>6, <3>1 DEF Graphs
    <3>3. k = [off EXCEPT !.expected = Command("32"), !.window = TRUE,
                          !.awaiting = TRUE, !.late = FALSE, !.fw = r]
      BY <1>6, <3>1 DEF Graphs
    <3>4. [o EXCEPT !.fw = r] = k
      BY <3>2, <3>3
    <3> QED BY <3>4 DEF r
  <2> HIDE DEF o, k, m
  <2> QED BY <2>5, <2>6, <2>7
<1>10. /\ n \in Graphs /\ n.expected = Command("32") /\ n.transition = c.transition
       /\ n.navSeen = c.navSeen /\ n.afterAux = c.afterAux
       /\ n.pending = c.pending /\ n.observed = c.observed
       /\ n.completed = c.completed /\ n.retried = c.retried
       /\ n.complete = c.complete /\ n.failed = c.failed /\ n.fenced = c.fenced
       /\ n.at = c.at /\ n.out = c.out /\ n.listening = c.listening
       /\ n.awaiting = c.awaiting
  BY <1>6, <1>8 DEF Graphs
<1>11. /\ n.half = c.half /\ n.rearm = c.rearm /\ n.strays = c.strays
       /\ n.window = TRUE /\ n.late = FALSE /\ n.current = c.current
       /\ n.up = c.up /\ n.down = c.down /\ n.held = c.held /\ n.fw = c.fw
  BY <1>6, <1>8 DEF Graphs
<1> HIDE DEF n
<1>12. k \in Graphs /\ k.awaiting = TRUE /\ k.fw = n.fw /\ k.expected = n.expected
  BY <1>10 DEF Graphs
<1>13. Asked(k) = n
  <2> DEFINE a == Asked(k)
  <2>1. a \in Graphs /\ a.awaiting = FALSE
    BY <1>10 DEF Asked, Graphs
  <2>2. /\ a.expected = n.expected /\ a.transition = n.transition
        /\ a.navSeen = n.navSeen /\ a.afterAux = n.afterAux
        /\ a.pending = n.pending /\ a.observed = n.observed
        /\ a.completed = n.completed /\ a.retried = n.retried
        /\ a.complete = n.complete /\ a.failed = n.failed /\ a.fenced = n.fenced
    BY <1>10 DEF Asked, Graphs
  <2>3. /\ a.at = n.at /\ a.out = n.out /\ a.listening = n.listening
        /\ a.half = n.half /\ a.rearm = n.rearm /\ a.strays = n.strays
        /\ a.window = n.window /\ a.late = n.late /\ a.current = n.current
        /\ a.up = n.up /\ a.down = n.down /\ a.held = n.held
        /\ a.fw = n.fw
    BY <1>10 DEF Asked, Graphs
  <2>4. n.awaiting = FALSE
    BY <1>6, <1>10
  <2> HIDE DEF a, k
  <2>5. a = n
    BY <1>10, <2>1, <2>2, <2>3, <2>4 DEF Graphs
  <2> QED BY <2>5 DEF a
<1> HIDE DEF k
<1>14. Counted(n) /\ Going(n)
  BY <1>6, <1>10, <1>11 DEF Counted, Going
<1>15. Idle(n)
  BY <1>5, <1>10, <1>11, <1>14 DEF Idle
<1>16. Turn(n, "32") /\ ~n.held
  <2>1. /\ n.transition = "repeated" /\ ~n.pending /\ ~n.afterAux
        /\ n.observed = h.observed /\ n.observed # 0 /\ n.observed # 1
    BY <1>1, <1>2, <1>4, <1>5, <1>10
  <2>2. Tables(n, n.observed, n.observed)
    BY <1>1, <1>2, <1>4, <1>5, <1>10, <1>11 DEF Tables, Taken
  <2>3. Telling(n, "AWAIT_ON", FALSE)
    BY <1>5, <1>11 DEF Telling
  <2> QED BY <1>5, <1>11, <2>1, <2>2, <2>3 DEF Turn, Lifted
<1>17. Place(n, n.expected)
  BY <1>10, <1>16, CommandsOf DEF Place
<1>18. Ready(n)
  BY <1>1, <1>2, <1>4, <1>5, <1>11, <1>15, <1>17, ReadyIsIdle
<1>19. Lifts(h, n)
  <2>1. OutcomeOf(h) = "open" /\ OutcomeOf(n) = "open"
    BY <1>18, GoesOn DEF Ready
  <2>2. h.fw.finger /\ ~JudgedOf(h)
    BY <1>1 DEF Taken, Telling, JudgedOf
  <2>3. n.fw.finger = FALSE /\ JudgedOf(n)
    BY <1>5, <1>11 DEF Telling, JudgedOf
  <2>4. n.fw.stage \in {h.fw.stage, h.fw.stage + 1} /\ n.fw.stage # Required
        /\ n.fw.stage <= Required
    BY <1>2, <1>4, <1>5, <1>11, RequiredAssumption
  <2> QED BY <2>1, <2>2, <2>3, <2>4 DEF Lifts, Accepts
<1>20. Reopens(h, n)
  BY <1>1, <1>2, <1>4, <1>5, <1>10, <1>11, <1>18, <1>19 DEF Reopens
<1>21. k.fw.st = "AWAIT_ON"
  BY <1>5, <1>11, <1>12 DEF Telling
<1> HIDE DEF m
<1> QED BY <1>9, <1>10, <1>12, <1>13, <1>20, <1>21 DEF m

(* An empty scan of the last touch ends the enrollment.                     *)
LEMMA ZeroCompletes ==
  ASSUME NEW h, Ready(h), ExpectedEvent(h) = Sample, NEW verdict,
         NEW off, DeliverPending(ZeroOff(h), verdict) = off,
         WasJudged(ZeroOff(h), off), off.held
  PROVE  /\ Completes(ZeroSeen(h, verdict)) /\ OutcomeOf(h) = "open"
         /\ h.fw.finger /\ ~JudgedOf(h)
         /\ Required \in {h.fw.stage, h.fw.stage + 1}
<1> DEFINE b == ZeroOff(h) n == Finished(off) o == Opened(n, FALSE)
<1>1. MayRecover(h) /\ Idle(h) /\ Taken(h) /\ ~h.afterAux
  BY ZeroMayRecover
<1>2. b.fw = h.fw
  <2>1. b = LiftedOff(h)
    BY <1>1, ZeroOffFields
  <2> HIDE DEF b
  <2> QED BY <1>1, <2>1, LiftedOffFields
<1>3. b = ZeroOff(h) /\ DeliverPending(b, verdict) = off
  OBVIOUS
<1> HIDE DEF b
<1>4. /\ Idle(off) /\ off.pending = FALSE /\ off.failed = FALSE
      /\ off.transition = "terminal"
      /\ Telling(off, "AWAIT_OFF", TRUE)
      /\ off.fw.stage \in {b.fw.stage, b.fw.stage + 1}
  BY <1>3 DEF WasJudged
<1>5. /\ Finish(off, verdict) = n /\ n \in Graphs /\ Counted(n)
      /\ n.complete = TRUE /\ n.failed = FALSE
      /\ n.fenced = FALSE /\ n.at = "idle" /\ n.out = "none"
      /\ n.held = TRUE /\ n.completed = Required /\ n.fw = off.fw
  BY <1>4, FinishedFields
<1> HIDE DEF n
<1>6. /\ o \in Graphs /\ o.complete = n.complete /\ o.failed = n.failed
      /\ o.fenced = n.fenced /\ o.at = n.at /\ o.out = n.out /\ o.held = n.held
      /\ o.completed = n.completed /\ o.fw = n.fw /\ o.observed = n.observed
      /\ o.retried = n.retried /\ o.pending = n.pending
  <2>1. n \in Graphs
    BY <1>5
  <2>2. o \in Graphs
    BY <2>1 DEF Opened, Graphs
  <2>3. /\ o.complete = n.complete /\ o.failed = n.failed
        /\ o.fenced = n.fenced /\ o.at = n.at /\ o.out = n.out /\ o.held = n.held
        /\ o.completed = n.completed
    BY <2>1 DEF Opened, Graphs
  <2>4. /\ o.fw = n.fw /\ o.observed = n.observed
        /\ o.retried = n.retried /\ o.pending = n.pending
    BY <2>1 DEF Opened, Graphs
  <2> QED BY <2>2, <2>3, <2>4
<1>7. [n EXCEPT !.window = ~n.complete, !.awaiting = ~n.complete,
                !.late = FALSE] = o
  <2>1. (~n.complete) = FALSE
    BY <1>5
  <2> QED BY <2>1 DEF Opened
<1> HIDE DEF o
<1>8. ZeroSeen(h, verdict) = Contact(o, FALSE)
  <2>1. ~off.failed /\ off.transition = "terminal"
    BY <1>4
  <2> QED BY <1>1, <1>3, <1>5, <1>7, <2>1 DEF ZeroSeen, ZeroOff
<1>9. Counted(o) /\ Telling(o, "AWAIT_OFF", TRUE)
  BY <1>4, <1>5, <1>6 DEF Counted, Telling
<1>10. Completes(Contact(o, FALSE))
  BY <1>5, <1>6, <1>9, ContactLast
<1>11. OutcomeOf(h) = "open"
  BY GoesOn DEF Ready
<1>12. off.fw.stage = Required
  <2>1. off.fw = Device(off.fw.st, off.fw.finger, off.completed, off.held)
    BY <1>4, Counts
  <2>2. off.completed = Required
    BY <1>4 DEF Idle, Going
  <2> QED BY <2>1, <2>2 DEF Device
<1>13. h.fw.finger /\ ~JudgedOf(h)
  BY <1>1 DEF Taken, Telling, JudgedOf
<1> QED BY <1>2, <1>4, <1>8, <1>10, <1>11, <1>12, <1>13

(* An empty scan, by what the engine makes of the image.                    *)
LEMMA ZeroHandled ==
  ASSUME NEW h, Ready(h), ExpectedEvent(h) = Sample,
         NEW verdict \in Verdicts, verdict = "again" => h.retried < MaxRetries
  PROVE  LET m == ZeroSeen(h, verdict)
         IN \/ /\ verdict = "broken" /\ Sound(m) /\ Fails(h, m)
               /\ m.failed = TRUE /\ m.fenced = TRUE
            \/ /\ m \in Graphs /\ m.awaiting = TRUE /\ m.fw.st = "AWAIT_ON"
               /\ m.expected = Command("32") /\ Reopens(h, Asked(m))
            \/ /\ Completes(m) /\ OutcomeOf(h) = "open"
               /\ h.fw.finger /\ ~JudgedOf(h)
               /\ Required \in {h.fw.stage, h.fw.stage + 1}
<1> DEFINE b == ZeroOff(h) off == DeliverPending(b, verdict)
           m == ZeroSeen(h, verdict)
<1>1. MayRecover(h) /\ Idle(h) /\ Taken(h) /\ ~h.afterAux
  BY ZeroMayRecover
<1>2. /\ Idle(b) /\ b.pending = h.pending /\ b.retried = h.retried
      /\ b.fw = h.fw
  <2>1. b = LiftedOff(h)
    BY <1>1, ZeroOffFields
  <2> HIDE DEF b
  <2> QED BY <1>1, <2>1, LiftedOffFields
<1>3. b.pending /\ Telling(b, "CAPTURE", TRUE)
  BY <1>1, <1>2 DEF Taken, Telling
<1>4. verdict = "again" => b.retried < MaxRetries
  BY <1>2
<1>5. (verdict = "broken" /\ off = Fail(b)) \/ WasJudged(b, off)
  <2> HIDE DEF b
  <2> QED BY <1>2, <1>3, <1>4, Judging
<1>6. CASE verdict = "broken" /\ off = Fail(b)
  <2>1. b \in Graphs /\ Counted(b) /\ ~b.complete /\ ~b.fenced
        /\ b.fw.st # "DEACTIVATING" /\ Attached(b)
    BY <1>2, <1>3 DEF Idle, Going, Telling, Attached
  <2>2. /\ Sound(Fail(b)) /\ Fail(b).failed = TRUE /\ Fail(b).fenced = TRUE
        /\ Fails(b, Fail(b))
    <3> HIDE DEF b
    <3> QED BY <2>1, FailIsSound
  <2>3. m = off
    <3>1. off.failed /\ off = DeliverPending([h EXCEPT !.down = h.observed], verdict)
      BY <1>6, <2>2 DEF ZeroOff
    <3> HIDE DEF off, b
    <3> QED BY <1>1, <3>1 DEF ZeroSeen
  <2>4. Fails(h, Fail(b))
    <3>1. OutcomeOf(h) = "open"
      BY GoesOn DEF Ready
    <3> HIDE DEF b
    <3> QED BY <1>2, <2>2, <3>1 DEF Fails, JudgedOf
  <2> HIDE DEF m, off
  <2> QED BY <1>6, <2>2, <2>3, <2>4 DEF m
<1>7. CASE WasJudged(b, off)
  <2>1. CASE off.held
    BY <1>7, <2>1, ZeroCompletes
  <2>2. CASE ~off.held
    BY <1>7, <2>2, ZeroReopens
  <2> QED BY <2>1, <2>2
<1> QED BY <1>5, <1>6, <1>7

-----------------------------------------------------------------------------
(* The frames that are not an event of the model, and the images.           *)

(* A graph that is settled, by the one that was ready.                      *)
LEMMA SettledFields ==
  ASSUME NEW m, Ready(m)
  PROVE  LET k == Settled(m)
         IN /\ k \in Graphs /\ k.expected = m.expected /\ k.transition = m.transition
            /\ k.navSeen = m.navSeen /\ k.afterAux = m.afterAux
            /\ k.pending = m.pending /\ k.observed = m.observed
            /\ k.complete = m.complete /\ k.failed = m.failed
            /\ k.fenced = m.fenced /\ k.half = m.half /\ k.strays = m.strays
            /\ k.rearm = m.rearm /\ k.window = m.window /\ k.late = m.late
            /\ k.fw = m.fw
            /\ k.at = IF CommandIsNext(m) THEN "flying" ELSE "idle"
            /\ ExpectedEvent(k) = ExpectedEvent(m)
<1> DEFINE k == Settled(m)
<1>1. m \in Graphs /\ m.at = "idle"
  BY DEF Ready
<1>2. CASE CommandIsNext(m)
  <2>1. ExpectedEvent(m).of \in Commands
    BY <1>1, <1>2, CommandNext DEF Ready
  <2>2. k = [m EXCEPT !.out = ExpectedEvent(m).of, !.at = "flying"]
    BY <1>2 DEF Settled
  <2>3. k \in Graphs /\ k.at = "flying"
    BY <1>1, <2>1, <2>2 DEF Graphs
  <2>4. /\ k.expected = m.expected /\ k.transition = m.transition
        /\ k.navSeen = m.navSeen /\ k.afterAux = m.afterAux
        /\ k.pending = m.pending /\ k.observed = m.observed
        /\ k.complete = m.complete /\ k.failed = m.failed
        /\ k.fenced = m.fenced /\ k.half = m.half
    BY <1>1, <2>2 DEF Graphs
  <2>5. /\ k.strays = m.strays /\ k.rearm = m.rearm /\ k.window = m.window
        /\ k.late = m.late /\ k.fw = m.fw
    BY <1>1, <2>2 DEF Graphs
  <2> HIDE DEF k
  <2>6. ExpectedEvent(k) = ExpectedEvent(m)
    BY <2>4, <2>5 DEF ExpectedEvent
  <2> QED BY <1>2, <2>3, <2>4, <2>5, <2>6 DEF k
<1>3. CASE ~CommandIsNext(m)
  <2>1. k = [m EXCEPT !.listening = TRUE]
    BY <1>3 DEF Settled
  <2>2. k \in Graphs /\ k.at = "idle"
    BY <1>1, <2>1 DEF Graphs
  <2>3. /\ k.expected = m.expected /\ k.transition = m.transition
        /\ k.navSeen = m.navSeen /\ k.afterAux = m.afterAux
        /\ k.pending = m.pending /\ k.observed = m.observed
        /\ k.complete = m.complete /\ k.failed = m.failed
        /\ k.fenced = m.fenced /\ k.half = m.half
    BY <1>1, <2>1 DEF Graphs
  <2>4. /\ k.strays = m.strays /\ k.rearm = m.rearm /\ k.window = m.window
        /\ k.late = m.late /\ k.fw = m.fw
    BY <1>1, <2>1 DEF Graphs
  <2> HIDE DEF k
  <2>5. ExpectedEvent(k) = ExpectedEvent(m)
    BY <2>3, <2>4 DEF ExpectedEvent
  <2> QED BY <1>3, <2>2, <2>3, <2>4, <2>5 DEF k
<1> QED BY <1>2, <1>3

(* An IRQ0080 that may pass: 32 arms once more.                             *)
Strayed1(h) == [h EXCEPT !.rearm = "command", !.strays = @ + 1]

(* An IRQ0080 that may pass asks for one more 32 and changes nothing else.  *)
LEMMA StrayRearms ==
  ASSUME NEW h, Ready(h), ExpectedEvent(h) = Touch, NEW verdict,
         StrayMayPass(h)
  PROVE  LET m == Strayed1(h)
         IN /\ EventsHandleA0(h, Stray, verdict) = m
            /\ Ready(m) /\ Silent(h, m) /\ m.expected = Touch
            /\ m.rearm = "command" /\ m.observed = h.observed
            /\ m.transition = h.transition /\ m.strays = h.strays + 1
            /\ m.navSeen = h.navSeen /\ m.window = h.window /\ m.late = h.late
            /\ h.expected = Touch
<1> DEFINE m == Strayed1(h)
<1>1. /\ Idle(h) /\ h.rearm = "none" /\ h.half = FALSE /\ h.expected = Touch
      /\ Place(h, Touch)
  <2>1. /\ Idle(h) /\ h.rearm # "command" /\ h.half = FALSE
        /\ h.rearm = "none" => h.expected = Touch /\ Place(h, Touch)
        /\ h.rearm = "ack" => Touch = Ack("32")
    BY Awaits, Kinds
  <2>2. h.rearm \in {"none", "command", "ack"}
    BY <2>1 DEF Idle, Graphs
  <2> QED BY <2>1, <2>2, Kinds
<1>2. h \in Graphs /\ Counted(h) /\ Going(h) /\ h.strays \in 0..Irq80Limit
      /\ h.strays + 1 \in 0..Irq80Limit
  BY <1>1, BoundAssumption DEF Idle, Graphs, StrayMayPass
<1>3. EventsHandleA0(h, Stray, verdict) = m
  <2>1. EventsHandleA0(h, Stray, verdict) = StraySeen(h)
    BY <1>1, Kinds DEF EventsHandleA0
  <2> QED BY <2>1 DEF StraySeen, Strayed1
<1>4. m \in Graphs /\ m.rearm = "command" /\ m.strays = h.strays + 1
  BY <1>2 DEF Strayed1, Graphs
<1>5. /\ m.expected = h.expected /\ m.transition = h.transition
      /\ m.navSeen = h.navSeen /\ m.afterAux = h.afterAux
      /\ m.pending = h.pending /\ m.observed = h.observed
      /\ m.completed = h.completed /\ m.retried = h.retried
      /\ m.complete = h.complete /\ m.failed = h.failed /\ m.fenced = h.fenced
      /\ m.at = h.at /\ m.out = h.out /\ m.listening = h.listening
      /\ m.awaiting = h.awaiting
  BY <1>2 DEF Strayed1, Graphs
<1>6. /\ m.half = h.half
      /\ m.window = h.window /\ m.late = h.late /\ m.current = h.current
      /\ m.up = h.up /\ m.down = h.down /\ m.held = h.held /\ m.fw = h.fw
  BY <1>2 DEF Strayed1, Graphs
<1> HIDE DEF m
<1>7. Counted(m) /\ Going(m)
  BY <1>2, <1>5, <1>6 DEF Counted, Going
<1>8. Place(m, Touch)
  BY <1>1, <1>5, <1>6 DEF Place, Turn, Fresh, Taken, Lifted, Judged, Tables, Telling
<1>9. Idle(m) /\ Ordered(m)
  BY <1>1, <1>4, <1>5, <1>6, <1>7, <1>8 DEF Idle, Ordered
<1>10. Ready(m)
  BY <1>9 DEF Idle, Ready
<1>11. Silent(h, m)
  BY <1>5, <1>6 DEF Silent, OutcomeOf, JudgedOf
<1> QED BY <1>1, <1>3, <1>4, <1>5, <1>6, <1>10, <1>11 DEF m

(* goodix_enrollment_post_tls_events_consume_stale_release(): the late lift *)
(* of an empty scan, once.                                                  *)
Late(h) == [h EXCEPT !.late = TRUE]

(* consume_stale_release(): one late lift is let pass, and shuts out the    *)
(* next.                                                                    *)
LEMMA LateIsLetPass ==
  ASSUME NEW h, Ready(h), ~CommandIsNext(h), h.window, ~h.late, NEW verdict
  PROVE  LET m == Late(h)
         IN /\ ArmIfNeeded(ContextHandleA0(h, Lift, verdict)) = Settled(m)
            /\ Ready(m) /\ Silent(h, m) /\ ExpectedEvent(m) = ExpectedEvent(h)
            /\ CommandIsNext(m) = FALSE
            /\ m.expected = h.expected /\ m.rearm = h.rearm
            /\ m.observed = h.observed /\ m.transition = h.transition
            /\ m.strays = h.strays /\ m.navSeen = h.navSeen /\ m.window = TRUE
            /\ m.late = TRUE /\ m.afterAux = h.afterAux
            /\ m.pending = h.pending /\ m.half = h.half
<1> DEFINE m == Late(h)
<1>1. /\ h \in Graphs /\ Counted(h) /\ Ordered(h) /\ Going(h) /\ h.out = "none"
      /\ h.failed = FALSE /\ h.fenced = FALSE /\ h.complete = FALSE
      /\ h.awaiting = FALSE /\ h.window = TRUE
  <2>1. h \in Graphs /\ Counted(h) /\ Ordered(h) /\ h.out = "none" /\ ~h.awaiting
    BY DEF Ready
  <2> QED BY <2>1, GoesOn DEF Ordered, Graphs
<1>2. m \in Graphs /\ m.late = TRUE
  BY <1>1 DEF Late, Graphs
<1>3. /\ m.expected = h.expected /\ m.transition = h.transition
      /\ m.navSeen = h.navSeen /\ m.afterAux = h.afterAux
      /\ m.pending = h.pending /\ m.observed = h.observed
      /\ m.completed = h.completed /\ m.retried = h.retried
      /\ m.complete = h.complete /\ m.failed = h.failed /\ m.fenced = h.fenced
      /\ m.at = h.at /\ m.out = h.out /\ m.listening = h.listening
      /\ m.awaiting = h.awaiting
  BY <1>1 DEF Late, Graphs
<1>4. /\ m.half = h.half /\ m.rearm = h.rearm /\ m.strays = h.strays
      /\ m.window = TRUE /\ m.current = h.current
      /\ m.up = h.up /\ m.down = h.down /\ m.held = h.held /\ m.fw = h.fw
  BY <1>1 DEF Late, Graphs
<1>5. ArmIfNeeded(ContextHandleA0(h, Lift, verdict)) = ArmIfNeeded(m)
  <2>1. BindingHandleA0(h, Lift, verdict) = m
    BY DEF BindingHandleA0, IsLate, Late
  <2> HIDE DEF m
  <2>2. MaybeRearm(m) = m
    BY <1>1, <1>3 DEF MaybeRearm
  <2> QED BY <1>1, <1>3, <2>1, <2>2 DEF ContextHandleA0
<1> HIDE DEF m
<1>6. Counted(m) /\ Going(m) /\ ExpectedEvent(m) = ExpectedEvent(h)
  BY <1>1, <1>2, <1>3, <1>4 DEF Counted, Going, ExpectedEvent
<1>7. Place(m, m.expected)
  BY <1>1, <1>3, <1>4 DEF Ordered, Place, Turn, Fresh, Taken, Lifted, Judged,
                          Tables, Telling
<1>8. Ordered(m)
  BY <1>1, <1>3, <1>4, <1>6, <1>7 DEF Ordered
<1>9. Ready(m)
  BY <1>2, <1>3, <1>6, <1>8 DEF Ready
<1>10. ArmIfNeeded(m) = Settled(m)
  <2>1. CommandIsNext(m) = FALSE
    BY <1>6 DEF CommandIsNext
  <2>2. SubmitIfReady(m) = m
    BY <2>1 DEF SubmitIfReady
  <2> QED BY <1>9, <2>2, Settles
<1>11. Silent(h, m)
  BY <1>3, <1>4 DEF Silent, OutcomeOf, JudgedOf
<1>12. CommandIsNext(m) = FALSE
  BY <1>6 DEF CommandIsNext
<1> QED BY <1>2, <1>3, <1>4, <1>5, <1>6, <1>9, <1>10, <1>11, <1>12 DEF m

(* An image that comes whole, or whose second half comes.                   *)
Whole(h, f) ==
  f = (IF h.half THEN Plain("half") ELSE Plain("whole"))
Put(h) == [h EXCEPT !.half = FALSE]

(* The graph to which a piece of an image was given.                        *)
LEMMA PutFields ==
  ASSUME NEW h, Idle(h), h.rearm = "none"
  PROVE  LET d == Put(h)
         IN /\ Idle(d) /\ d.half = FALSE /\ d.rearm = "none"
            /\ d.expected = h.expected /\ d.transition = h.transition
            /\ d.navSeen = h.navSeen /\ d.afterAux = h.afterAux
            /\ d.pending = h.pending /\ d.observed = h.observed
            /\ d.completed = h.completed /\ d.retried = h.retried
            /\ d.strays = h.strays /\ d.window = h.window /\ d.late = h.late
            /\ d.current = h.current /\ d.up = h.up /\ d.down = h.down
            /\ d.held = h.held /\ d.fw = h.fw
<1> DEFINE d == Put(h)
<1>1. h \in Graphs /\ Counted(h) /\ Going(h)
  BY DEF Idle
<1>2. d \in Graphs /\ d.half = FALSE
  BY <1>1 DEF Put, Graphs
<1>3. /\ d.expected = h.expected /\ d.transition = h.transition
      /\ d.navSeen = h.navSeen /\ d.afterAux = h.afterAux
      /\ d.pending = h.pending /\ d.observed = h.observed
      /\ d.completed = h.completed /\ d.retried = h.retried
      /\ d.complete = h.complete /\ d.failed = h.failed /\ d.fenced = h.fenced
      /\ d.at = h.at /\ d.out = h.out /\ d.listening = h.listening
      /\ d.awaiting = h.awaiting
  BY <1>1 DEF Put, Graphs
<1>4. /\ d.rearm = h.rearm /\ d.strays = h.strays
      /\ d.window = h.window /\ d.late = h.late /\ d.current = h.current
      /\ d.up = h.up /\ d.down = h.down /\ d.held = h.held /\ d.fw = h.fw
  BY <1>1 DEF Put, Graphs
<1> HIDE DEF d
<1>5. Counted(d) /\ Going(d)
  BY <1>1, <1>3, <1>4 DEF Counted, Going
<1>6. Idle(d)
  BY <1>2, <1>3, <1>4, <1>5 DEF Idle
<1> QED BY <1>2, <1>3, <1>4, <1>6 DEF d

(* What the binding makes of an image that is expected.                     *)
LEMMA ImageIsTaken ==
  ASSUME NEW h, Ready(h), ExpectedEvent(h) = Primary \/ ExpectedEvent(h) = Auxiliary,
         NEW f, Whole(h, f),
         NEW m, (IF ExpectedEvent(h) = Primary THEN PrimaryTaken(Put(h))
                 ELSE AuxiliaryTaken(Put(h))) = m,
         Ready(m)
  PROVE  ArmIfNeeded(HandlePlaintext(h, f)) = Settled(m)
<1>1. h.out = "none" /\ h.half \in BOOLEAN
  BY DEF Ready, Graphs
<1>2. /\ Plain("half") # Plain("whole") /\ Plain("garbage") # Plain("whole")
      /\ Plain("garbage") # Plain("half")
  <2>1. /\ Plain("half").of = "half" /\ Plain("whole").of = "whole"
        /\ Plain("garbage").of = "garbage"
    BY Kinds
  <2> QED BY <2>1
<1>3. f # Plain("garbage") /\ ~(f = Plain("whole") /\ h.half)
      /\ ~(f = Plain("half") /\ ~h.half)
  BY <1>1, <1>2 DEF Whole
<1>4. HandlePlaintext(h, f) = SubmitIfReady(m)
  BY <1>1, <1>3 DEF HandlePlaintext, Put
<1> QED BY <1>4, Settles

(* The first half of an image.                                              *)
Halved(h) == [h EXCEPT !.half = TRUE]

(* The first half of an image is kept, and the graph listens on.            *)
LEMMA HalfIsKept ==
  ASSUME NEW h, Ready(h), ExpectedEvent(h) = Primary \/ ExpectedEvent(h) = Auxiliary,
         ~h.half
  PROVE  LET m == Halved(h)
         IN /\ ArmIfNeeded(HandlePlaintext(h, Plain("half"))) = Settled(m)
            /\ Ready(m) /\ Silent(h, m) /\ ExpectedEvent(m) = ExpectedEvent(h)
            /\ CommandIsNext(m) = FALSE /\ m.half = TRUE
            /\ m.expected = h.expected /\ m.rearm = "none"
            /\ m.observed = h.observed /\ m.transition = h.transition
            /\ m.strays = h.strays
            /\ m.pending = h.pending
<1> DEFINE m == Halved(h)
<1>1. ExpectedEvent(h).kind # "command" /\ CommandIsNext(h) = FALSE
  BY Kinds DEF CommandIsNext
<1>2. h.rearm = "none" /\ h.expected = ExpectedEvent(h)
  BY <1>1, Awaits
<1>3. /\ h \in Graphs /\ Counted(h) /\ Ordered(h) /\ Going(h) /\ h.out = "none"
      /\ h.failed = FALSE /\ h.fenced = FALSE /\ h.complete = FALSE
      /\ h.half = FALSE
  <2>1. h \in Graphs /\ Counted(h) /\ Ordered(h) /\ h.out = "none"
    BY DEF Ready
  <2> QED BY <2>1, GoesOn DEF Ordered, Graphs
<1>4. HandlePlaintext(h, Plain("half")) = m
  <2>1. /\ Plain("half").of = "half" /\ Plain("whole").of = "whole"
        /\ Plain("garbage").of = "garbage"
    BY Kinds
  <2> QED BY <1>3, <2>1 DEF HandlePlaintext, Halved
<1>5. m \in Graphs /\ m.half = TRUE
  BY <1>3 DEF Halved, Graphs
<1>6. /\ m.expected = h.expected /\ m.transition = h.transition
      /\ m.navSeen = h.navSeen /\ m.afterAux = h.afterAux
      /\ m.pending = h.pending /\ m.observed = h.observed
      /\ m.completed = h.completed /\ m.retried = h.retried
      /\ m.complete = h.complete /\ m.failed = h.failed /\ m.fenced = h.fenced
      /\ m.at = h.at /\ m.out = h.out /\ m.listening = h.listening
      /\ m.awaiting = h.awaiting
  BY <1>3 DEF Halved, Graphs
<1>7. /\ m.rearm = h.rearm /\ m.strays = h.strays
      /\ m.window = h.window /\ m.late = h.late /\ m.current = h.current
      /\ m.up = h.up /\ m.down = h.down /\ m.held = h.held /\ m.fw = h.fw
  BY <1>3 DEF Halved, Graphs
<1> HIDE DEF m
<1>8. Counted(m) /\ Going(m) /\ ExpectedEvent(m) = ExpectedEvent(h)
  BY <1>3, <1>6, <1>7 DEF Counted, Going, ExpectedEvent
<1>9. Place(m, m.expected)
  BY <1>3, <1>6, <1>7 DEF Ordered, Place, Turn, Fresh, Taken, Lifted, Judged,
                          Tables, Telling
<1>10. Ordered(m)
  BY <1>2, <1>6, <1>7, <1>8, <1>9 DEF Ordered
<1>11. Ready(m)
  BY <1>5, <1>6, <1>8, <1>10 DEF Ready
<1>12. CommandIsNext(m) = FALSE
  BY <1>1, <1>8 DEF CommandIsNext
<1>13. ArmIfNeeded(m) = Settled(m)
  <2>1. SubmitIfReady(m) = m
    BY <1>12 DEF SubmitIfReady
  <2> QED BY <1>11, <2>1, Settles
<1>14. Silent(h, m)
  BY <1>6, <1>7 DEF Silent, OutcomeOf, JudgedOf
<1> QED BY <1>2, <1>4, <1>5, <1>6, <1>7, <1>8, <1>11, <1>12, <1>13, <1>14 DEF m

(* The image of a touch: it is one more that was observed, and 34 arms for  *)
(* its lift.                                                                *)
Observed(d) ==
  [d EXCEPT !.observed = @ + 1, !.pending = TRUE,
            !.transition = IF d.observed = 0 THEN "first" ELSE "repeated"]

(* The whole image of a touch: the touch is counted and is to be judged.    *)
LEMMA PrimaryMoves ==
  ASSUME NEW h, Ready(h), ExpectedEvent(h) = Primary
  PROVE  LET m == PrimaryTaken(Put(h))
         IN /\ Ready(m) /\ Silent(h, m) /\ m.expected = Command("34")
            /\ m.rearm = "none" /\ m.half = FALSE
            /\ m.observed = h.observed + 1 /\ m.pending = TRUE
            /\ m.transition # "none" /\ m.afterAux = FALSE
            /\ m.strays = h.strays
            /\ h.expected = Primary /\ h.rearm = "none" /\ h.transition = "none"
            /\ h.observed \in Nat
<1> DEFINE d == Put(h) x == Observed(d) m == PrimaryTaken(d)
<1>1. h.rearm = "none" /\ h.expected = Primary /\ Place(h, Primary) /\ Idle(h)
  BY Awaits, Kinds
<1>2. Fresh(h) /\ ~h.afterAux /\ ~h.held
  <2>1. CommandOf(Primary) = "22" /\ Primary # Touch /\ Primary # Lift
    BY CommandsOf, Kinds
  <2> QED BY <1>1, <2>1 DEF Place, Turn
<1>3. /\ Idle(d) /\ d.half = FALSE /\ d.rearm = "none"
      /\ d.expected = h.expected /\ d.transition = h.transition
      /\ d.navSeen = h.navSeen /\ d.afterAux = h.afterAux
      /\ d.pending = h.pending /\ d.observed = h.observed
      /\ d.completed = h.completed /\ d.retried = h.retried
      /\ d.strays = h.strays /\ d.window = h.window /\ d.late = h.late
      /\ d.current = h.current /\ d.up = h.up /\ d.down = h.down
      /\ d.held = h.held /\ d.fw = h.fw
  BY <1>1, PutFields
<1> HIDE DEF d
<1>4. /\ d.observed \in Nat /\ d.completed \in Nat /\ d.retried \in Nat
      /\ d.observed = d.completed + d.retried /\ d.completed < Required
      /\ d.observed + 1 \in Touches
  BY <1>2, <1>3, Counts DEF Fresh
<1>5. d \in Graphs /\ Counted(d) /\ Going(d) /\ m = Expecting(x, Command("34"))
  BY <1>3 DEF Idle, PrimaryTaken, Observed
<1>6. /\ x \in Graphs /\ x.observed = d.observed + 1 /\ x.pending = TRUE
      /\ x.transition = IF d.observed = 0 THEN "first" ELSE "repeated"
  BY <1>4, <1>5 DEF Observed, Graphs
<1>7. /\ x.expected = d.expected
      /\ x.navSeen = d.navSeen /\ x.afterAux = d.afterAux
      /\ x.completed = d.completed /\ x.retried = d.retried
      /\ x.complete = d.complete /\ x.failed = d.failed /\ x.fenced = d.fenced
      /\ x.at = d.at /\ x.out = d.out /\ x.listening = d.listening
      /\ x.awaiting = d.awaiting /\ x.half = d.half
  BY <1>5 DEF Observed, Graphs
<1>8. /\ x.rearm = d.rearm /\ x.strays = d.strays
      /\ x.window = d.window /\ x.late = d.late /\ x.current = d.current
      /\ x.up = d.up /\ x.down = d.down /\ x.held = d.held /\ x.fw = d.fw
  BY <1>5 DEF Observed, Graphs
<1> HIDE DEF x
<1>9. Counted(x)
  BY <1>4, <1>5, <1>6, <1>7, <1>8 DEF Counted, One
<1>10. x.observed # 0 /\ x.down = d.observed /\ (x.observed = 1 => ~x.navSeen)
  <2>1. d.observed = 0 => ~d.navSeen
    BY <1>5 DEF Going
  <2>2. x.observed = d.observed + 1 /\ d.observed \in Nat /\ x.navSeen = d.navSeen
    BY <1>4, <1>6, <1>7
  <2>3. x.down = d.observed
    <3>1. h.down = h.observed
      BY <1>2 DEF Fresh, Tables
    <3> QED BY <1>3, <1>8, <3>1
  <2> QED BY <2>1, <2>2, <2>3
<1>11. Going(x)
  BY <1>4, <1>5, <1>6, <1>7, <1>8, <1>10 DEF Going
<1>12. Idle(x)
  BY <1>3, <1>6, <1>7, <1>9, <1>11 DEF Idle
<1>13. Taken(x)
  <2>1. x.transition = IF x.observed = 1 THEN "first" ELSE "repeated"
    BY <1>4, <1>6
  <2>2. Tables(x, x.observed, x.observed - 1)
    <3>1. h.current = h.observed + 1 /\ h.up = h.observed + 1 /\ h.down = h.observed
      BY <1>2 DEF Fresh, Tables
    <3>2. x.current = d.observed + 1 /\ x.up = d.observed + 1 /\ x.down = d.observed
      BY <1>3, <1>8, <3>1
    <3>3. x.observed = d.observed + 1 /\ x.observed - 1 = d.observed
      BY <1>4, <1>6
    <3> QED BY <3>2, <3>3 DEF Tables
  <2>3. ~x.window /\ Telling(x, "CAPTURE", TRUE)
    BY <1>2, <1>3, <1>8 DEF Fresh, Telling
  <2> QED BY <1>6, <2>1, <2>2, <2>3 DEF Taken
<1>14. Place(x, Command("34")) /\ Command("34") \in Expectations
  BY <1>2, <1>3, <1>7, <1>8, <1>13, CommandsOf, Expectable DEF Place, Turn, Commands
<1>15. ~x.half /\ x.rearm = "none"
  BY <1>3, <1>7, <1>8
<1>16. Silent(h, x)
  <2>1. x.fw = h.fw
    BY <1>3, <1>8
  <2>2. x.fenced = FALSE /\ h.fenced = FALSE
    BY <1>1, <1>11, <1>6 DEF Going, Idle, Graphs
  <2> QED BY <2>1, <2>2 DEF Silent, OutcomeOf, JudgedOf
<1>17. /\ Ready(Expecting(x, Command("34"))) /\ Silent(x, Expecting(x, Command("34")))
       /\ Expecting(x, Command("34")).expected = Command("34")
       /\ Expecting(x, Command("34")).rearm = "none"
       /\ Expecting(x, Command("34")).half = FALSE
       /\ Expecting(x, Command("34")).transition = x.transition
       /\ Expecting(x, Command("34")).pending = x.pending
       /\ Expecting(x, Command("34")).observed = x.observed
       /\ Expecting(x, Command("34")).strays = x.strays
       /\ Expecting(x, Command("34")).afterAux = x.afterAux
  BY <1>12, <1>14, <1>15, Moves
<1>18. /\ Ready(m) /\ Silent(x, m) /\ m.expected = Command("34")
       /\ m.rearm = "none" /\ m.half = FALSE /\ m.transition = x.transition
       /\ m.pending = x.pending /\ m.observed = x.observed
       /\ m.strays = x.strays /\ m.afterAux = x.afterAux
  BY <1>5, <1>17
<1> HIDE DEF m
<1>19. Silent(h, m)
  BY <1>16, <1>18 DEF Silent
<1>20. m.transition # "none" /\ m.afterAux = FALSE /\ h.transition = "none"
  BY <1>1, <1>2, <1>3, <1>6, <1>7, <1>18 DEF Fresh, Idle, Graphs
<1> QED BY <1>1, <1>3, <1>4, <1>6, <1>8, <1>18, <1>19, <1>20 DEF m, d

(* The image of a tail: after the first touch the navigation follows, after *)
(* a later one 34 arms for its lift once more.                              *)
LEMMA AuxiliaryMoves ==
  ASSUME NEW h, Ready(h), ExpectedEvent(h) = Auxiliary
  PROVE  LET m == AuxiliaryTaken(Put(h))
         IN /\ Ready(m) /\ Silent(h, m) /\ m.rearm = "none" /\ m.half = FALSE
            /\ m.expected = IF h.pending THEN Command("34") ELSE Command("32")
            /\ m.afterAux = h.pending /\ m.observed = h.observed
            /\ m.transition = h.transition /\ m.strays = h.strays
            /\ m.navSeen = h.navSeen /\ m.transition # "none"
            /\ h.pending => h.observed # 1
            /\ ~h.pending => h.observed = 1 /\ ~h.navSeen
            /\ h.expected = Auxiliary /\ h.rearm = "none"
<1> DEFINE d == Put(h) x == [d EXCEPT !.afterAux = TRUE] m == AuxiliaryTaken(d)
<1>1. h.rearm = "none" /\ h.expected = Auxiliary /\ Place(h, Auxiliary) /\ Idle(h)
  BY Awaits, Kinds
<1>2. /\ ~h.held
      /\ \/ Taken(h) /\ ~h.afterAux /\ h.observed # 1
         \/ Lifted(h) /\ h.observed = 1 /\ ~h.navSeen
  <2>1. CommandOf(Auxiliary) = "20" /\ Auxiliary # Touch /\ Auxiliary # Lift
    BY CommandsOf, Kinds
  <2> QED BY <1>1, <2>1 DEF Place, Turn
<1>3. /\ Idle(d) /\ d.half = FALSE /\ d.rearm = "none"
      /\ d.expected = h.expected /\ d.transition = h.transition
      /\ d.navSeen = h.navSeen /\ d.afterAux = h.afterAux
      /\ d.pending = h.pending /\ d.observed = h.observed
      /\ d.strays = h.strays /\ d.window = h.window /\ d.late = h.late
      /\ d.current = h.current /\ d.up = h.up /\ d.down = h.down
      /\ d.held = h.held /\ d.fw = h.fw
  BY <1>1, PutFields
<1> HIDE DEF d
<1>4. d \in Graphs /\ Counted(d) /\ Going(d)
  BY <1>3 DEF Idle
<1>5. Silent(h, d)
  <2>1. d.fenced = FALSE /\ h.fenced = FALSE
    BY <1>1, <1>4 DEF Going, Idle, Graphs
  <2> QED BY <1>3, <2>1 DEF Silent, OutcomeOf, JudgedOf
<1>6. {Command("34"), Command("32")} \subseteq Expectations
      /\ CommandOf(Command("34")) = "34" /\ CommandOf(Command("32")) = "32"
  BY Expectable, CommandsOf DEF Commands
<1>7. CASE Lifted(h) /\ h.observed = 1 /\ ~h.navSeen
  <2>1. h.transition = "first" /\ h.pending = FALSE /\ h.afterAux = FALSE
    BY <1>1, <1>7 DEF Lifted, Idle, Graphs
  <2>2. m = Expecting(d, Command("32"))
    BY <1>3, <2>1 DEF AuxiliaryTaken
  <2>3. Lifted(d) /\ d.observed # 0
    BY <1>3, <1>7 DEF Lifted, Tables, Telling
  <2>4. Place(d, Command("32"))
    BY <1>2, <1>3, <1>6, <2>3 DEF Place, Turn
  <2>5. /\ Ready(Expecting(d, Command("32"))) /\ Silent(d, Expecting(d, Command("32")))
        /\ Expecting(d, Command("32")).expected = Command("32")
        /\ Expecting(d, Command("32")).rearm = "none"
        /\ Expecting(d, Command("32")).half = FALSE
        /\ Expecting(d, Command("32")).transition = d.transition
        /\ Expecting(d, Command("32")).observed = d.observed
        /\ Expecting(d, Command("32")).strays = d.strays
        /\ Expecting(d, Command("32")).afterAux = d.afterAux
        /\ Expecting(d, Command("32")).navSeen = d.navSeen
    BY <1>3, <1>6, <2>4, Moves
  <2>6. /\ Ready(m) /\ Silent(d, m) /\ m.expected = Command("32")
        /\ m.rearm = "none" /\ m.half = FALSE /\ m.transition = d.transition
        /\ m.observed = d.observed /\ m.strays = d.strays
        /\ m.afterAux = d.afterAux /\ m.navSeen = d.navSeen
    BY <2>2, <2>5
  <2> HIDE DEF m
  <2>7. Silent(h, m)
    BY <1>5, <2>6 DEF Silent
  <2> QED BY <1>1, <1>3, <1>7, <2>1, <2>6, <2>7 DEF m, d
<1>8. CASE Taken(h) /\ ~h.afterAux /\ h.observed # 1
  <2>1. h.transition = "repeated" /\ h.pending = TRUE
    BY <1>1, <1>8 DEF Taken, Idle, Graphs
  <2>2. m = Expecting(x, Command("34"))
    BY <1>3, <2>1 DEF AuxiliaryTaken
  <2>3. x \in Graphs /\ x.afterAux = TRUE
    BY <1>4 DEF Graphs
  <2>4. /\ x.expected = d.expected /\ x.transition = d.transition
        /\ x.navSeen = d.navSeen
        /\ x.pending = d.pending /\ x.observed = d.observed
        /\ x.completed = d.completed /\ x.retried = d.retried
        /\ x.complete = d.complete /\ x.failed = d.failed /\ x.fenced = d.fenced
        /\ x.at = d.at /\ x.out = d.out /\ x.listening = d.listening
        /\ x.awaiting = d.awaiting
    BY <1>4 DEF Graphs
  <2>5. /\ x.rearm = d.rearm /\ x.strays = d.strays /\ x.half = d.half
        /\ x.window = d.window /\ x.late = d.late /\ x.current = d.current
        /\ x.up = d.up /\ x.down = d.down /\ x.held = d.held /\ x.fw = d.fw
    BY <1>4 DEF Graphs
  <2> HIDE DEF x
  <2>6. Counted(x) /\ Going(x)
    BY <1>4, <2>4, <2>5 DEF Counted, Going
  <2>7. Idle(x)
    BY <1>3, <2>3, <2>4, <2>5, <2>6 DEF Idle
  <2>8. Taken(x)
    <3>1. x.transition = h.transition /\ x.pending = h.pending
          /\ x.observed = h.observed /\ x.window = h.window /\ x.current = h.current
          /\ x.up = h.up /\ x.down = h.down /\ x.fw = h.fw
      BY <1>3, <2>4, <2>5
    <3> QED BY <1>8, <3>1 DEF Taken, Tables, Telling
  <2>9. Place(x, Command("34"))
    <3>1. x.observed # 1 /\ ~x.held
      BY <1>2, <1>3, <1>8, <2>4, <2>5
    <3> QED BY <1>6, <2>8, <3>1 DEF Place, Turn
  <2>10. ~x.half /\ x.rearm = "none"
    BY <1>3, <2>5
  <2>11. /\ Ready(Expecting(x, Command("34"))) /\ Silent(x, Expecting(x, Command("34")))
         /\ Expecting(x, Command("34")).expected = Command("34")
         /\ Expecting(x, Command("34")).rearm = "none"
         /\ Expecting(x, Command("34")).half = FALSE
         /\ Expecting(x, Command("34")).transition = x.transition
         /\ Expecting(x, Command("34")).observed = x.observed
         /\ Expecting(x, Command("34")).strays = x.strays
         /\ Expecting(x, Command("34")).afterAux = x.afterAux
         /\ Expecting(x, Command("34")).navSeen = x.navSeen
    BY <1>6, <2>7, <2>9, <2>10, Moves
  <2>12. /\ Ready(m) /\ Silent(x, m) /\ m.expected = Command("34")
         /\ m.rearm = "none" /\ m.half = FALSE /\ m.transition = x.transition
         /\ m.observed = x.observed /\ m.strays = x.strays
         /\ m.afterAux = x.afterAux /\ m.navSeen = x.navSeen
    BY <2>2, <2>11
  <2> HIDE DEF m
  <2>13. Silent(h, m)
    <3>1. x.fw = d.fw /\ x.fenced = d.fenced
      BY <2>4, <2>5
    <3> QED BY <1>5, <2>12, <3>1 DEF Silent, OutcomeOf, JudgedOf
  <2> QED BY <1>1, <1>3, <1>8, <2>1, <2>3, <2>4, <2>5, <2>12, <2>13 DEF m, d
<1> QED BY <1>2, <1>7, <1>8

-----------------------------------------------------------------------------
(* Any frame.                                                               *)

(* What a receive leaves: a graph that goes on, or has failed or ended; the *)
(* framework was told what an enrollment may tell it.                       *)
Receives(h, k) == Sound(k) /\ Tells(h, k)

(* A graph that is ready settles, with the framework told the same.         *)
LEMMA GoingOn ==
  ASSUME NEW h, NEW m, Ready(m),
         Silent(h, m) \/ Arrives(h, m) \/ Judges(h, m) \/ Lifts(h, m)
  PROVE  Receives(h, Settled(m))
<1> DEFINE k == Settled(m)
<1>1. Sound(k)
  BY Settles
<1>2. k.fw = m.fw /\ k.fenced = m.fenced
  BY SettledFields
<1> HIDE DEF k
<1>3. OutcomeOf(k) = OutcomeOf(m) /\ JudgedOf(k) = JudgedOf(m)
  BY <1>2 DEF OutcomeOf, JudgedOf
<1>4. Tells(h, k)
  BY <1>2, <1>3 DEF Tells, Silent, Arrives, Judges, Lifts, Accepts
<1> QED BY <1>1, <1>4 DEF Receives, k

(* A frame that a layer refuses.                                            *)
LEMMA Refusing ==
  ASSUME NEW h, Ready(h)
  PROVE  /\ ArmIfNeeded(Fail(h)) = Fail(h) /\ SubmitIfReady(Fail(h)) = Fail(h)
         /\ Fail(h).failed = TRUE /\ Fail(h).fenced = TRUE
         /\ Receives(h, Fail(h))
<1>1. /\ h \in Graphs /\ Counted(h) /\ h.complete = FALSE /\ h.fenced = FALSE
      /\ h.fw.st # "DEACTIVATING" /\ Attached(h)
  BY GoesOn DEF Ready, Attached
<1> DEFINE k == Fail(h)
<1>2. Sound(k) /\ k.failed = TRUE /\ k.fenced = TRUE /\ Fails(h, k)
  BY <1>1, FailIsSound
<1> HIDE DEF k
<1>3. ArmIfNeeded(k) = k /\ SubmitIfReady(k) = k
  BY <1>2 DEF ArmIfNeeded, SubmitIfReady
<1> QED BY <1>2, <1>3 DEF k, Receives, Tells

(* HandlePlaintext: any image.                                              *)
LEMMA PlainReceives ==
  ASSUME NEW h, Ready(h), NEW f \in PlainFrames
  PROVE  Receives(h, ArmIfNeeded(HandlePlaintext(h, f)))
<1> DEFINE e == ExpectedEvent(h) res == HandlePlaintext(h, f)
<1>1. h.half \in BOOLEAN /\ h.out = "none"
  BY DEF Ready, Graphs
<1>2. CASE e \notin {Primary, Auxiliary} \/ f = Plain("garbage")
           \/ (f = Plain("whole") /\ h.half)
  <2>1. res = Fail(h)
    BY <1>2 DEF HandlePlaintext
  <2> QED BY <2>1, Refusing
<1>3. CASE e \in {Primary, Auxiliary} /\ f = Plain("half") /\ ~h.half
  <2>1. Ready(Halved(h)) /\ Silent(h, Halved(h)) /\ ArmIfNeeded(res) = Settled(Halved(h))
    BY <1>3, HalfIsKept
  <2> QED BY <2>1, GoingOn
<1>4. CASE e \in {Primary, Auxiliary} /\ Whole(h, f)
  <2>1. CASE e = Primary
    <3> DEFINE m == PrimaryTaken(Put(h))
    <3>1. Ready(m) /\ Silent(h, m)
      BY <2>1, PrimaryMoves
    <3>2. (IF ExpectedEvent(h) = Primary THEN PrimaryTaken(Put(h))
                 ELSE AuxiliaryTaken(Put(h))) = m
      BY <2>1
    <3> HIDE DEF m
    <3>3. ArmIfNeeded(res) = Settled(m)
      BY <1>4, <2>1, <3>1, <3>2, ImageIsTaken
    <3> QED BY <3>1, <3>3, GoingOn
  <2>2. CASE e = Auxiliary
    <3> DEFINE m == AuxiliaryTaken(Put(h))
    <3>1. Ready(m) /\ Silent(h, m)
      BY <2>2, AuxiliaryMoves
    <3>2. (IF ExpectedEvent(h) = Primary THEN PrimaryTaken(Put(h))
                 ELSE AuxiliaryTaken(Put(h))) = m
      <4>1. Primary # Auxiliary
        BY Kinds
      <4> QED BY <2>2, <4>1
    <3> HIDE DEF m
    <3>3. ArmIfNeeded(res) = Settled(m)
      BY <1>4, <2>2, <3>1, <3>2, ImageIsTaken
    <3> QED BY <3>1, <3>3, GoingOn
  <2> QED BY <1>4, <2>1, <2>2
<1>5. f \in {Plain("whole"), Plain("half"), Plain("garbage")}
  BY DEF PlainFrames
<1> QED BY <1>1, <1>2, <1>3, <1>4, <1>5 DEF Whole

(* ContextHandleA0: a frame that the events take or refuse.                 *)
LEMMA EventSettles ==
  ASSUME NEW h, Ready(h), NEW f, NEW verdict, ~IsLate(h, f),
         NEW m, EventsHandleA0(h, f, verdict) = m, Ready(m),
         Silent(h, m) \/ Arrives(h, m) \/ Judges(h, m) \/ Lifts(h, m)
  PROVE  Receives(h, ArmIfNeeded(ContextHandleA0(h, f, verdict)))
<1>1. ArmIfNeeded(ContextHandleA0(h, f, verdict)) = Settled(m)
  BY ContextSettles
<1> QED BY <1>1, GoingOn

(* An event that is refused fails the enrollment.                           *)
LEMMA EventFails ==
  ASSUME NEW h, Ready(h), NEW f, NEW verdict, ~IsLate(h, f),
         EventsHandleA0(h, f, verdict) = Fail(h)
  PROVE  Receives(h, ArmIfNeeded(ContextHandleA0(h, f, verdict)))
<1> DEFINE m == Fail(h)
<1>1. m.failed = TRUE /\ m.fenced = TRUE /\ Receives(h, m)
  BY Refusing
<1>2. m = EventsHandleA0(h, f, verdict)
  OBVIOUS
<1> HIDE DEF m
<1>3. ArmIfNeeded(ContextHandleA0(h, f, verdict)) = m
  BY <1>1, <1>2, ContextFails
<1> QED BY <1>1, <1>3

(* An ACK, received.                                                        *)
LEMMA AckReceives ==
  ASSUME NEW h, Ready(h), NEW f \in A0Frames, f.kind = "ack",
         ExpectedEvent(h) = f,
         NEW verdict \in Verdicts, verdict = "again" => h.retried < MaxRetries
  PROVE  Receives(h, ArmIfNeeded(ContextHandleA0(h, f, verdict)))
<1> DEFINE m == EventsHandleA0(h, f, verdict)
<1>1. PICK c \in Commands : f = Ack(c)
  BY Kinds DEF A0Frames
<1>2. ~IsLate(h, f)
  BY <1>1, Kinds DEF IsLate
<1>3. f = ExpectedEvent(h) /\ m = EventsHandleA0(h, f, verdict)
      /\ EventsHandleA0(h, f, verdict) = m
  OBVIOUS
<1>4. ExpectedEvent(h).kind # "command" /\ h.rearm # "command"
      /\ h.rearm \in {"none", "command", "ack"}
  <2>1. ExpectedEvent(h).kind # "command"
    OBVIOUS
  <2> QED BY <2>1, Awaits DEF Ready, Graphs
<1> HIDE DEF m
<1>5. CASE h.rearm = "ack"
  <2>1. Ready(m) /\ Silent(h, m)
    BY <1>3, <1>5, AckRearms
  <2> QED BY <1>2, <1>3, <2>1, EventSettles
<1>6. CASE h.rearm = "none" /\ ~Judgement(h, c)
  <2>1. Ack(c) = ExpectedEvent(h) /\ m = EventsHandleA0(h, Ack(c), verdict)
    BY <1>1, <1>3
  <2>2. m = Expecting(h, NextOf(h, c)) /\ Ready(m) /\ NextOf(h, c) \in Expectations
        /\ Place(h, NextOf(h, c))
    BY <1>6, <2>1, AckMoves
  <2>3. Idle(h) /\ h.half = FALSE
    <3>1. ExpectedEvent(h) # Primary /\ ExpectedEvent(h) # Auxiliary
      BY Kinds
    <3> QED BY <1>4, <3>1, Awaits
  <2>4. Silent(h, Expecting(h, NextOf(h, c)))
    BY <1>6, <2>2, <2>3, Moves
  <2>5. Silent(h, m)
    BY <2>2, <2>4
  <2> QED BY <1>2, <1>3, <2>2, <2>5, EventSettles
<1>7. CASE h.rearm = "none" /\ Judgement(h, c)
  <2>1. Ack(c) = ExpectedEvent(h) /\ m = EventsHandleA0(h, Ack(c), verdict)
    BY <1>1, <1>3
  <2>2. \/ Sound(m) /\ Fails(h, m) /\ m.failed = TRUE /\ m.fenced = TRUE
        \/ Ready(m) /\ Judges(h, m)
    BY <1>7, <2>1, AckJudges
  <2>3. CASE Ready(m) /\ Judges(h, m)
    BY <1>2, <1>3, <2>3, EventSettles
  <2>4. CASE Sound(m) /\ Fails(h, m) /\ m.failed = TRUE /\ m.fenced = TRUE
    <3>1. ArmIfNeeded(ContextHandleA0(h, f, verdict)) = m
      BY <1>2, <1>3, <2>4, ContextFails
    <3> QED BY <2>4, <3>1 DEF Receives, Tells
  <2> QED BY <2>2, <2>3, <2>4
<1> QED BY <1>4, <1>5, <1>6, <1>7

(* The frame that completes the enrollment, received.                       *)
LEMMA EndedReceives ==
  ASSUME NEW h, NEW k, Ended(k), OutcomeOf(h) = "open", h.fw.finger,
         h.fw.stage \in Nat,
         (JudgedOf(h) /\ h.fw.stage = Required)
           \/ (~JudgedOf(h) /\ Required \in {h.fw.stage, h.fw.stage + 1})
  PROVE  Receives(h, k)
<1>1. /\ Sound(k) /\ k.fw.st = "DEACTIVATING" /\ k.fw.finger = FALSE
      /\ k.fw.stage = Required
  BY DEF Ended, Device
<1>2. OutcomeOf(k) = "enrolled" /\ JudgedOf(k)
  BY <1>1 DEF OutcomeOf, JudgedOf
<1>3. Lifts(h, k)
  BY <1>1, <1>2, RequiredAssumption DEF Lifts, Accepts
<1> QED BY <1>1, <1>3 DEF Receives, Tells

(* The stages are natural numbers.                                          *)
LEMMA StageIsNatural ==
  ASSUME NEW h, Ready(h)
  PROVE  h.fw.stage \in Nat /\ h.fw.stage = h.completed
<1>1. h.fw = Device(h.fw.st, h.fw.finger, h.completed, h.held)
      /\ h.completed \in Nat
  BY ReadyIsIdle, Counts
<1>2. Device(h.fw.st, h.fw.finger, h.completed, h.held).stage = h.completed
  BY DEF Device
<1> QED BY <1>1, <1>2

(* An empty scan, received.                                                 *)
LEMMA EmptyScanReceives ==
  ASSUME NEW h, Ready(h), ExpectedEvent(h) = Sample,
         NEW verdict \in Verdicts, verdict = "again" => h.retried < MaxRetries
  PROVE  Receives(h, ArmIfNeeded(ContextHandleA0(h, ZeroSample, verdict)))
<1> DEFINE m == ZeroSeen(h, verdict)
           k == ArmIfNeeded(ContextHandleA0(h, ZeroSample, verdict))
<1>1. ~IsLate(h, ZeroSample)
  BY Kinds DEF IsLate
<1>2. EventsHandleA0(h, ZeroSample, verdict) = m
  <2>1. h.half = FALSE
    BY ZeroMayRecover
  <2> QED BY <2>1, Kinds DEF EventsHandleA0
<1>3. \/ /\ Sound(m) /\ Fails(h, m) /\ m.failed = TRUE /\ m.fenced = TRUE
      \/ /\ m \in Graphs /\ m.awaiting = TRUE /\ m.fw.st = "AWAIT_ON"
         /\ m.expected = Command("32") /\ Reopens(h, Asked(m))
      \/ /\ Completes(m) /\ OutcomeOf(h) = "open"
         /\ h.fw.finger /\ ~JudgedOf(h)
         /\ Required \in {h.fw.stage, h.fw.stage + 1}
  BY ZeroHandled
<1> HIDE DEF m
<1>4. CASE Sound(m) /\ Fails(h, m) /\ m.failed = TRUE /\ m.fenced = TRUE
  <2>1. m = EventsHandleA0(h, ZeroSample, verdict)
    BY <1>2
  <2>2. k = m
    BY <1>1, <1>4, <2>1, ContextFails
  <2> HIDE DEF k
  <2>3. Receives(h, k)
    BY <1>4, <2>2 DEF Receives, Tells
  <2> QED BY <2>3 DEF k
<1>5. CASE /\ m \in Graphs /\ m.awaiting = TRUE /\ m.fw.st = "AWAIT_ON"
           /\ m.expected = Command("32") /\ Reopens(h, Asked(m))
  <2>1. Ready(Asked(m)) /\ Lifts(h, Asked(m))
    BY <1>5 DEF Reopens
  <2>2. k = Settled(Asked(m))
    BY <1>1, <1>2, <1>5, <2>1, ContextReopens
  <2>3. Receives(h, Settled(Asked(m)))
    BY <2>1, GoingOn
  <2> QED BY <2>2, <2>3
<1>6. CASE /\ Completes(m) /\ OutcomeOf(h) = "open"
           /\ h.fw.finger /\ ~JudgedOf(h)
           /\ Required \in {h.fw.stage, h.fw.stage + 1}
  <2>1. Completes(EventsHandleA0(h, ZeroSample, verdict))
    BY <1>2, <1>6
  <2>2. Ended(k)
    BY <1>1, <2>1, ContextEnds
  <2>3. h.fw.stage \in Nat
    BY StageIsNatural
  <2> HIDE DEF k
  <2>4. Receives(h, k)
    BY <1>6, <2>2, <2>3, EndedReceives
  <2> QED BY <2>4 DEF k
<1> QED BY <1>3, <1>4, <1>5, <1>6

(* A lift, received.                                                        *)
LEMMA LiftReceives ==
  ASSUME NEW h, Ready(h), ExpectedEvent(h) = Lift, NEW verdict, ~IsLate(h, Lift)
  PROVE  Receives(h, ArmIfNeeded(ContextHandleA0(h, Lift, verdict)))
<1> DEFINE m == LiftSeen(h, verdict)
<1>1. EventsHandleA0(h, Lift, verdict) = m
  <2>1. h.half = FALSE
    BY LiftIsJudged
  <2> QED BY <2>1, Kinds DEF EventsHandleA0
<1>2. CASE ~h.held
  <2>1. Ready(m) /\ Lifts(h, m)
    BY <1>2, LiftMoves
  <2> HIDE DEF m
  <2> QED BY <1>1, <2>1, EventSettles
<1>3. CASE h.held
  <2>1. Completes(m) /\ OutcomeOf(h) = "open"
        /\ h.fw.finger /\ JudgedOf(h) /\ h.fw.stage = Required
    BY <1>3, LiftCompletes
  <2>2. Completes(EventsHandleA0(h, Lift, verdict))
    BY <1>1, <2>1
  <2>3. Ended(ArmIfNeeded(ContextHandleA0(h, Lift, verdict)))
    BY <2>2, ContextEnds
  <2>4. h.fw.stage \in Nat
    BY StageIsNatural
  <2> QED BY <2>1, <2>3, <2>4, EndedReceives
<1> QED BY <1>2, <1>3

(* A stray, received.                                                       *)
LEMMA StrayReceives ==
  ASSUME NEW h, Ready(h), ExpectedEvent(h) = Touch, ~h.half, NEW verdict
  PROVE  Receives(h, ArmIfNeeded(ContextHandleA0(h, Stray, verdict)))
<1>1. ~IsLate(h, Stray)
  BY Kinds DEF IsLate
<1>2. CASE StrayMayPass(h)
  <2> DEFINE m == Strayed1(h)
  <2>1. EventsHandleA0(h, Stray, verdict) = m /\ Ready(m) /\ Silent(h, m)
    BY <1>2, StrayRearms
  <2> HIDE DEF m
  <2> QED BY <1>1, <2>1, EventSettles
<1>3. CASE ~StrayMayPass(h)
  <2>1. EventsHandleA0(h, Stray, verdict) = Fail(h)
    BY <1>3, Kinds DEF EventsHandleA0, StraySeen
  <2> QED BY <1>1, <2>1, EventFails
<1> QED BY <1>2, <1>3

(* Any frame of the A0 route.                                               *)
LEMMA A0Receives ==
  ASSUME NEW h, Ready(h), ~CommandIsNext(h), NEW f \in A0Frames,
         NEW verdict \in Verdicts, verdict = "again" => h.retried < MaxRetries
  PROVE  Receives(h, ArmIfNeeded(ContextHandleA0(h, f, verdict)))
<1> DEFINE e == ExpectedEvent(h)
<1>1. h.half \in BOOLEAN /\ ExpectedEvent(h).kind # "command"
  BY DEF Ready, Graphs, CommandIsNext
<1>2. CASE IsLate(h, f)
  <2>1. f = Lift /\ h.window
    BY <1>2 DEF IsLate
  <2>2. CASE h.late
    <3>1. BindingHandleA0(h, f, verdict) = Fail(h)
      BY <1>2, <2>2 DEF BindingHandleA0
    <3>2. Fail(h).failed = TRUE /\ Fail(h).fenced = TRUE /\ Receives(h, Fail(h))
          /\ ArmIfNeeded(Fail(h)) = Fail(h)
      BY Refusing
    <3>3. ContextHandleA0(h, f, verdict) = Fail(h)
      BY <3>1, <3>2 DEF ContextHandleA0
    <3> QED BY <3>2, <3>3
  <2>3. CASE ~h.late
    <3> DEFINE m == Late(h)
    <3>1. ArmIfNeeded(ContextHandleA0(h, f, verdict)) = Settled(m)
          /\ Ready(m) /\ Silent(h, m)
      BY <2>1, <2>3, LateIsLetPass
    <3> HIDE DEF m
    <3> QED BY <3>1, GoingOn
  <2> QED BY <2>2, <2>3
<1>3. CASE ~IsLate(h, f) /\ h.half
  <2>1. EventsHandleA0(h, f, verdict) = Fail(h)
    BY <1>3 DEF EventsHandleA0
  <2> QED BY <1>3, <2>1, EventFails
<1>4. CASE ~IsLate(h, f) /\ ~h.half /\ e = Touch /\ f = Stray
  BY <1>4, StrayReceives
<1>5. CASE ~IsLate(h, f) /\ ~h.half /\ e = Sample /\ f = ZeroSample
  BY <1>5, EmptyScanReceives
<1>6. CASE ~IsLate(h, f) /\ ~h.half /\ e = f /\ f.kind = "ack"
  BY <1>6, AckReceives
<1>7. CASE ~IsLate(h, f) /\ ~h.half /\ e = f /\ f = Lift
  BY <1>7, LiftReceives
<1>8. CASE ~IsLate(h, f) /\ ~h.half /\ e = f /\ f = Touch
  <2>1. e # Primary /\ e # Auxiliary
    BY <1>8, Kinds
  <2>2. EventsHandleA0(h, f, verdict) = TouchSeen(h)
    BY <1>1, <1>8, <2>1, HandlesExpected
  <2>3. Ready(TouchSeen(h)) /\ Arrives(h, TouchSeen(h))
    BY <1>8, TouchTakes
  <2> QED BY <1>8, <2>2, <2>3, EventSettles
<1>9. CASE ~IsLate(h, f) /\ ~h.half /\ e = f /\ f = Sample
  <2>1. e # Primary /\ e # Auxiliary
    BY <1>9, Kinds
  <2>2. EventsHandleA0(h, f, verdict) = Expecting(h, Command("20"))
    BY <1>1, <1>9, <2>1, HandlesExpected
  <2>3. /\ Ready(Expecting(h, Command("20"))) /\ Idle(h) /\ h.rearm = "none"
        /\ Place(h, Command("20"))
    BY <1>9, SampleMoves
  <2>4. Command("20") \in Expectations
    BY Expectable DEF Commands
  <2>5. Silent(h, Expecting(h, Command("20")))
    BY <1>9, <2>3, <2>4, Moves
  <2> QED BY <1>9, <2>2, <2>3, <2>5, EventSettles
<1>10. CASE ~IsLate(h, f) /\ ~h.half /\ e = f /\ f = Nav
  <2> DEFINE m == Expecting([h EXCEPT !.navSeen = TRUE], Command("32"))
  <2>1. e # Primary /\ e # Auxiliary
    BY <1>10, Kinds
  <2>2. EventsHandleA0(h, f, verdict) = m
    BY <1>1, <1>10, <2>1, HandlesExpected
  <2>3. Ready(m) /\ Silent(h, m)
    BY <1>10, NavMoves
  <2> HIDE DEF m
  <2> QED BY <1>10, <2>2, <2>3, EventSettles
<1>11. CASE /\ ~IsLate(h, f) /\ ~h.half
            /\ ~(e = Touch /\ f = Stray) /\ ~(e = Sample /\ f = ZeroSample)
            /\ ~(e = f /\ (f.kind = "ack" \/ f \in {Lift, Touch, Sample, Nav}))
  <2>1. EventsHandleA0(h, f, verdict) = Fail(h)
    BY <1>11 DEF EventsHandleA0
  <2> QED BY <1>11, <2>1, EventFails
<1> QED BY <1>1, <1>2, <1>3, <1>4, <1>5, <1>6, <1>7, <1>8, <1>9, <1>10, <1>11

-----------------------------------------------------------------------------
(* The other steps of the graph.                                            *)

(* goodix_device_context_set_terminal_fence() by cancellation, and a failed *)
(* OUT.                                                                     *)
Returned(g) == [g EXCEPT !.at = "idle", !.out = "none"]

(* The graph whose OUT is no longer under way.                              *)
LEMMA ReturnedFields ==
  ASSUME NEW g \in Graphs
  PROVE  LET s == Returned(g)
         IN /\ s \in Graphs /\ s.at = "idle" /\ s.out = "none"
            /\ s.expected = g.expected /\ s.transition = g.transition
            /\ s.completed = g.completed /\ s.retried = g.retried
            /\ s.pending = g.pending /\ s.observed = g.observed
            /\ s.complete = g.complete /\ s.failed = g.failed
            /\ s.fenced = g.fenced /\ s.rearm = g.rearm
            /\ s.held = g.held /\ s.fw = g.fw
<1> DEFINE s == Returned(g)
<1>1. s \in Graphs /\ s.at = "idle" /\ s.out = "none"
  BY DEF Returned, Graphs
<1>2. /\ s.expected = g.expected /\ s.transition = g.transition
      /\ s.completed = g.completed /\ s.retried = g.retried
      /\ s.pending = g.pending /\ s.observed = g.observed
  BY DEF Returned, Graphs
<1>3. /\ s.complete = g.complete /\ s.failed = g.failed
      /\ s.fenced = g.fenced /\ s.rearm = g.rearm
      /\ s.held = g.held /\ s.fw = g.fw
  BY DEF Returned, Graphs
<1> HIDE DEF s
<1> QED BY <1>1, <1>2, <1>3 DEF s

(* Cancellation, or a failure elsewhere, of a graph that is not complete.   *)
LEMMA FenceReceives ==
  ASSUME NEW g, Sound(g), ~g.complete
  PROVE  /\ Receives(g, Fail(g)) /\ Fail(g).failed = TRUE
         /\ g \in Graphs /\ Counted(g) /\ g.fw.st # "DEACTIVATING"
<1>1. g \in Graphs /\ Counted(g) /\ Attached(g) /\ g.fw.st # "DEACTIVATING"
  BY DEF Sound
<1> DEFINE k == Fail(g)
<1>2. Sound(k) /\ k.failed = TRUE /\ (~g.fenced => Fails(g, k))
      /\ (g.fenced => Silent(g, k))
  BY <1>1, FailIsSound
<1> HIDE DEF k
<1> QED BY <1>1, <1>2 DEF k, Receives, Tells

(* An OUT that failed.                                                      *)
LEMMA OutFailsReceives ==
  ASSUME NEW g, Sound(g), g.at # "idle"
  PROVE  Receives(g, BackendOutFailed(g)) /\ BackendOutFailed(g).failed = TRUE
<1> DEFINE s == Returned(g) k == Fail(s)
<1>1. g \in Graphs /\ Counted(g) /\ g.complete = FALSE /\ g.fw.st # "DEACTIVATING"
  BY DEF Sound, Graphs
<1>2. /\ s \in Graphs /\ s.completed = g.completed /\ s.retried = g.retried
      /\ s.pending = g.pending /\ s.observed = g.observed
      /\ s.complete = FALSE /\ s.fenced = g.fenced /\ s.at = "idle" /\ s.out = "none"
      /\ s.held = g.held /\ s.fw = g.fw
  BY <1>1, ReturnedFields
<1>3. BackendOutFailed(g) = k
  BY DEF BackendOutFailed, Returned
<1> HIDE DEF s
<1>4. Counted(s) /\ Attached(s) /\ s.fw.st # "DEACTIVATING"
  BY <1>1, <1>2 DEF Counted, Attached
<1>5. Sound(k) /\ k.failed = TRUE /\ (~s.fenced => Fails(s, k))
      /\ (s.fenced => Silent(s, k))
  BY <1>2, <1>4, FailIsSound
<1> HIDE DEF k
<1>6. Tells(g, k)
  BY <1>2, <1>5 DEF Tells, Fails, Silent, OutcomeOf, JudgedOf
<1> QED BY <1>3, <1>5, <1>6 DEF Receives

(* The reader takes the command.                                            *)
LEMMA TakenFields ==
  ASSUME NEW g, Sound(g), g.at = "flying"
  PROVE  LET k == [g EXCEPT !.at = "taken"]
         IN /\ Receives(g, k) /\ k.at = "taken"
            /\ k.expected = g.expected /\ k.transition = g.transition
            /\ k.navSeen = g.navSeen /\ k.afterAux = g.afterAux
            /\ k.pending = g.pending /\ k.observed = g.observed
            /\ k.half = g.half /\ k.strays = g.strays /\ k.rearm = g.rearm
            /\ k.window = g.window /\ k.late = g.late
            /\ k.complete = g.complete /\ k.failed = g.failed
            /\ ExpectedEvent(k) = ExpectedEvent(g)
            /\ ~g.complete
<1> DEFINE k == [g EXCEPT !.at = "taken"]
<1>1. g \in Graphs /\ Counted(g) /\ g.complete = FALSE
  BY DEF Sound, Graphs
<1>2. k \in Graphs /\ k.at = "taken" /\ k.out = g.out /\ k.listening = g.listening
      /\ k.awaiting = g.awaiting
  BY <1>1 DEF Graphs
<1>3. /\ k.expected = g.expected /\ k.transition = g.transition
      /\ k.navSeen = g.navSeen /\ k.afterAux = g.afterAux
      /\ k.pending = g.pending /\ k.observed = g.observed
      /\ k.completed = g.completed /\ k.retried = g.retried
      /\ k.complete = g.complete /\ k.failed = g.failed /\ k.fenced = g.fenced
  BY <1>1 DEF Graphs
<1>4. /\ k.half = g.half /\ k.rearm = g.rearm /\ k.strays = g.strays
      /\ k.window = g.window /\ k.late = g.late /\ k.current = g.current
      /\ k.up = g.up /\ k.down = g.down /\ k.held = g.held /\ k.fw = g.fw
  BY <1>1 DEF Graphs
<1> HIDE DEF k
<1>5. /\ Counted(k) /\ (Ordered(g) => Ordered(k))
      /\ ExpectedEvent(k) = ExpectedEvent(g) /\ CommandIsNext(k) = CommandIsNext(g)
  <2>1. ExpectedEvent(k) = ExpectedEvent(g)
    BY <1>1, <1>2, <1>3, <1>4, OrderedKeeps
  <2> QED BY <1>1, <1>2, <1>3, <1>4, <2>1, OrderedKeeps
<1>6. Connected(g) => Connected(k)
  BY <1>2, <1>5 DEF Connected
<1>7. Attached(g) => Attached(k)
  BY <1>1, <1>2 DEF Attached
<1>8. Sound(k)
  BY <1>7, <1>1, <1>2, <1>3, <1>4, <1>5, <1>6 DEF Sound
<1>9. Tells(g, k)
  BY <1>3, <1>4 DEF Tells, Silent, OutcomeOf, JudgedOf
<1> QED BY <1>1, <1>2, <1>3, <1>4, <1>5, <1>8, <1>9 DEF k, Receives

(* An OUT that comes back to a graph that has failed.                       *)
LEMMA OutDrains ==
  ASSUME NEW g, Sound(g), g.at = "taken", g.failed
  PROVE  Receives(g, BackendOutComplete(g)) /\ BackendOutComplete(g).failed
<1> DEFINE s == Returned(g)
<1>1. g \in Graphs /\ Counted(g) /\ g.complete = FALSE /\ g.fenced = TRUE
      /\ g.fw.st # "DEACTIVATING" /\ g.rearm = "none"
  BY DEF Sound, Graphs
<1>2. /\ s \in Graphs /\ s.completed = g.completed /\ s.retried = g.retried
      /\ s.pending = g.pending /\ s.observed = g.observed /\ s.failed = g.failed
      /\ s.complete = FALSE /\ s.fenced = g.fenced /\ s.at = "idle"
      /\ s.out = "none" /\ s.rearm = g.rearm
      /\ s.held = g.held /\ s.fw = g.fw
  BY <1>1, ReturnedFields
<1>3. BackendOutComplete(g) = s
  BY DEF BackendOutComplete, Returned
<1> HIDE DEF s
<1>4. Counted(s) /\ Attached(s)
  BY <1>1, <1>2 DEF Counted, Attached
<1>5. Sound(s) /\ Tells(g, s)
  BY <1>1, <1>2, <1>4 DEF Sound, Tells, Silent, OutcomeOf, JudgedOf
<1> QED BY <1>2, <1>3, <1>5 DEF Receives

(* A command counts as sent: its ACK is what is expected now.               *)
LEMMA OutCommits ==
  ASSUME NEW g, Sound(g), g.at = "taken", ~g.failed
  PROVE  LET k == BackendOutComplete(g) c == ExpectedEvent(g).of
         IN /\ Receives(g, k) /\ k.at = "idle" /\ ~k.complete
            /\ k.transition = g.transition /\ k.failed = FALSE
            /\ k.navSeen = g.navSeen /\ k.afterAux = g.afterAux
            /\ k.pending = g.pending /\ k.observed = g.observed
            /\ k.half = g.half /\ k.strays = g.strays
            /\ k.window = g.window /\ k.late = g.late
            /\ ExpectedEvent(g) = Command(c) /\ ExpectedEvent(k) = Ack(c)
            /\ c \in Commands
            /\ (k.expected = Touch) = (g.expected = Touch)
            /\ (g.rearm # "none") = (k.rearm # "none")
            /\ g.rearm # "none" => c = "32" /\ g.expected = Touch
<1> DEFINE c == ExpectedEvent(g).of
           k == BackendOutComplete(g)
           r == IF g.rearm # "none" THEN "ack" ELSE "none"
           e == IF g.rearm # "none" THEN g.expected ELSE Ack(c)
           s == [g EXCEPT !.rearm = r, !.expected = e, !.at = "idle", !.out = "none"]
           t == [s EXCEPT !.listening = TRUE]
<1>1. /\ g \in Graphs /\ Counted(g) /\ Ordered(g) /\ Connected(g)
      /\ g.failed = FALSE /\ g.complete = FALSE /\ g.fenced = FALSE
      /\ g.listening = FALSE /\ g.awaiting = FALSE
  BY DEF Sound, Connected, Graphs
<1>2. CommandIsNext(g) /\ g.out = c
  BY <1>1 DEF Connected
<1>3. /\ ~g.half
      /\ g.rearm = "none" => g.expected = Command(c) /\ Turn(g, c)
      /\ g.rearm # "none" => g.rearm = "command" /\ g.expected = Touch /\ c = "32"
      /\ c \in Commands /\ ExpectedEvent(g) = Command(c)
  BY <1>1, <1>2, CommandNext
<1>4. r \in {"none", "ack"} /\ e \in Expectations /\ g.rearm \in {"none", "command", "ack"}
  BY <1>1, <1>3, Expectable DEF Graphs
<1>5. [Commit(g) EXCEPT !.at = "idle", !.out = "none"] = s
  <2>1. CASE g.rearm # "none"
    <3>1. Commit(g) = [g EXCEPT !.rearm = "ack"]
      BY <2>1 DEF Commit
    <3>2. g = [g EXCEPT !.expected = g.expected]
      BY <1>1 DEF Graphs
    <3>3. r = "ack" /\ e = g.expected
      BY <2>1
    <3>4. s = [g EXCEPT !.rearm = "ack", !.at = "idle", !.out = "none"]
      BY <1>1, <3>3 DEF Graphs
    <3> QED BY <3>1, <3>4, <1>1 DEF Graphs
  <2>2. CASE g.rearm = "none"
    <3>1. Commit(g) = [g EXCEPT !.expected = Ack(c)]
      BY <1>2, <2>2 DEF Commit
    <3>2. r = "none" /\ e = Ack(c)
      BY <2>2
    <3>3. s = [g EXCEPT !.expected = Ack(c), !.at = "idle", !.out = "none"]
      BY <1>1, <2>2, <3>2 DEF Graphs
    <3> QED BY <3>1, <3>3, <1>1 DEF Graphs
  <2> QED BY <2>1, <2>2
<1> HIDE DEF r, e
<1>6. /\ s \in Graphs /\ s.expected = e /\ s.rearm = r
      /\ s.at = "idle" /\ s.out = "none" /\ s.listening = FALSE
      /\ s.awaiting = FALSE
  BY <1>1, <1>4 DEF Graphs
<1>7. /\ s.transition = g.transition
      /\ s.navSeen = g.navSeen /\ s.afterAux = g.afterAux
      /\ s.pending = g.pending /\ s.observed = g.observed
      /\ s.completed = g.completed /\ s.retried = g.retried
      /\ s.complete = FALSE /\ s.failed = FALSE /\ s.fenced = FALSE
  BY <1>1, <1>4 DEF Graphs
<1>8. /\ s.half = g.half /\ s.strays = g.strays
      /\ s.window = g.window /\ s.late = g.late /\ s.current = g.current
      /\ s.up = g.up /\ s.down = g.down /\ s.held = g.held /\ s.fw = g.fw
  BY <1>1, <1>4 DEF Graphs
<1>9. k = IF NeedsReceive(s) THEN t ELSE Fail(s)
  BY <1>1, <1>5 DEF BackendOutComplete
<1> HIDE DEF s
<1>10. ExpectedEvent(s) = Ack(c)
  BY <1>3, <1>4, <1>6, <1>7, Kinds DEF ExpectedEvent, r, e
<1>11. CommandIsNext(s) = FALSE
  BY <1>10, Kinds DEF CommandIsNext
<1>12. k = t
  BY <1>6, <1>7, <1>9, <1>11 DEF NeedsReceive
<1>13. Settled(s) = t
  BY <1>11 DEF Settled
<1>14. Counted(s) /\ Going(s)
  BY <1>1, <1>7, <1>8 DEF Counted, Ordered, Going
<1>15. Place(s, s.expected)
  <2>1. CASE g.rearm = "none"
    <3>1. e = Ack(c) /\ Turn(g, c)
      BY <1>3, <2>1 DEF e
    <3>2. ~g.held
      <4>1. Place(g, Command(c))
        BY <1>1, <1>3, <2>1 DEF Ordered
      <4> QED BY <4>1, CommandsOf, Kinds DEF Place
    <3>3. Turn(s, c)
      BY <1>7, <1>8, <3>1 DEF Turn, Fresh, Taken, Lifted, Tables, Telling
    <3> QED BY <1>6, <1>8, <3>1, <3>2, <3>3, CommandsOf DEF Place
  <2>2. CASE g.rearm # "none"
    <3>1. e = Touch /\ Place(g, Touch)
      BY <1>1, <1>3, <2>2 DEF e, Ordered
    <3> QED BY <1>6, <1>7, <1>8, <3>1 DEF Place, Turn, Fresh, Taken, Lifted,
                                         Judged, Tables, Telling
  <2> QED BY <2>1, <2>2
<1>16. Ready(s)
  <2>1. s.rearm # "none" => s.expected = Touch
    BY <1>3, <1>6 DEF r, e
  <2> QED BY <1>3, <1>6, <1>8, <1>14, <1>15, <2>1 DEF Ready, Ordered
<1>17. Silent(g, s)
  BY <1>1, <1>7, <1>8 DEF Silent, OutcomeOf, JudgedOf
<1>18. Receives(g, Settled(s))
  BY <1>16, <1>17, GoingOn
<1>19. LET q == Settled(s)
       IN /\ q.expected = s.expected /\ q.transition = s.transition
          /\ q.navSeen = s.navSeen /\ q.afterAux = s.afterAux
          /\ q.pending = s.pending /\ q.observed = s.observed
          /\ q.complete = s.complete /\ q.failed = s.failed
          /\ q.half = s.half /\ q.strays = s.strays
          /\ q.rearm = s.rearm /\ q.window = s.window /\ q.late = s.late
          /\ q.at = "idle" /\ ExpectedEvent(q) = ExpectedEvent(s)
  BY <1>11, <1>16, SettledFields
<1> HIDE DEF t, k
<1>20. /\ k.expected = s.expected /\ k.transition = s.transition
       /\ k.navSeen = s.navSeen /\ k.afterAux = s.afterAux
       /\ k.pending = s.pending /\ k.observed = s.observed
       /\ k.complete = s.complete /\ k.failed = s.failed
       /\ k.half = s.half /\ k.strays = s.strays
       /\ k.rearm = s.rearm /\ k.window = s.window /\ k.late = s.late
       /\ k.at = "idle" /\ ExpectedEvent(k) = ExpectedEvent(s) /\ Receives(g, k)
  BY <1>12, <1>13, <1>18, <1>19
<1>21. /\ (e = Touch) = (g.expected = Touch)
       /\ (g.rearm # "none") = (r # "none")
  <2>1. Ack(c) # Touch /\ Command(c) # Touch
    BY Kinds
  <2> QED BY <1>3, <2>1 DEF e, r
<1> QED BY <1>3, <1>6, <1>7, <1>8, <1>10, <1>20, <1>21 DEF k

-----------------------------------------------------------------------------
(* The steps of the specification, as far as the graph is concerned.        *)
Typed ==
  /\ Sound(graph) /\ reader \in Readers /\ errors \in 0..MaxErrors
  /\ blame \in BOOLEAN

(* A later enrollment.                                                      *)
Renews(g, k) == OutcomeOf(g) # "open" /\ k = NewGraph

(* The graph at the hand-over.                                              *)
LEMMA NewIsSound ==
  /\ Sound(NewGraph) /\ NewGraph.fw = Device("AWAIT_ON", FALSE, 0, FALSE)
  /\ NewGraph.fenced = FALSE /\ NewGraph.failed = FALSE
  /\ NewGraph.complete = FALSE
<1> DEFINE g == NewGraph
<1>1. Required \in Nat /\ Required >= 2 /\ MaxRetries \in Nat /\ Irq80Limit \in Nat
  BY RequiredAssumption, BoundAssumption
<1>2. /\ g.expected = Touch /\ g.transition = "none" /\ g.navSeen = FALSE
      /\ g.afterAux = FALSE /\ g.pending = FALSE /\ g.observed = 0
      /\ g.completed = 0 /\ g.retried = 0 /\ g.complete = FALSE
      /\ g.failed = FALSE /\ g.fenced = FALSE
  BY DEF NewGraph
<1>3. /\ g.out = "none" /\ g.at = "idle" /\ g.listening = TRUE /\ g.half = FALSE
      /\ g.strays = 0 /\ g.rearm = "none" /\ g.window = FALSE
      /\ g.awaiting = FALSE /\ g.late = FALSE /\ g.current = 0 /\ g.up = 0
      /\ g.down = 0 /\ g.held = FALSE
  BY DEF NewGraph
<1>4. g.fw = Device("AWAIT_ON", FALSE, 0, FALSE)
  BY DEF NewGraph, NewDevice, Device
<1>5. g.fw.st = "AWAIT_ON" /\ g.fw.finger = FALSE
  BY <1>4 DEF Device
<1>6. g \in Graphs
  <2>1. Touch \in Expectations
    BY Expectable
  <2>2. 0 \in Touches /\ 0 \in Stages /\ 0 \in 0..MaxRetries /\ 0 \in 0..Irq80Limit
    BY <1>1 DEF Touches, Stages
  <2>3. g.fw \in Devices
    <3>1. "AWAIT_ON" \in States
      BY StateNames
    <3> QED BY <1>4, <2>2, <3>1, InDevices
  <2>4. [NewDevice EXCEPT !.open = TRUE, !.action = "enroll",
                          !.active = TRUE, !.st = "AWAIT_ON"] \in Devices
    BY <2>3 DEF NewGraph
  <2> HIDE DEF g
  <2>5. g = NewGraph
    BY DEF g
  <2>6. NewGraph \in Graphs
    BY <2>1, <2>2, <2>4 DEF NewGraph, Graphs
  <2> QED BY <2>5, <2>6
<1> HIDE DEF g
<1>7. Counted(g)
  <2>1. One(g.pending) = 0
    BY <1>2 DEF One
  <2>2. g.observed = g.completed + g.retried + One(g.pending)
    BY <1>2, <2>1
  <2>3. g.fw = Device(g.fw.st, g.fw.finger, g.completed, g.held)
    BY <1>2, <1>3, <1>4, <1>5, Zenon
  <2> QED BY <2>2, <2>3 DEF Counted
<1>8. Lifted(g)
  BY <1>2, <1>3, <1>5 DEF Lifted, Tables, Telling
<1>9. Ordered(g)
  BY <1>1, <1>2, <1>3, <1>8 DEF Ordered, Going, Place
<1>10. ExpectedEvent(g) = Touch /\ CommandIsNext(g) = FALSE
  BY <1>2, <1>3, Kinds DEF ExpectedEvent, CommandIsNext
<1>11. Connected(g)
  BY <1>3, <1>10 DEF Connected
<1>12. Attached(g)
  BY <1>3 DEF Attached
<1>13. Sound(g)
  BY <1>12, <1>2, <1>3, <1>5, <1>6, <1>7, <1>9, <1>11 DEF Sound
<1> QED BY <1>2, <1>4, <1>13 DEF g

(* What a receive does, for the graph as it was before.                     *)
LEMMA ReceiveIsSound ==
  ASSUME NEW g, Sound(g), ~g.fenced, g.listening,
         NEW f \in A0Frames \cup PlainFrames,
         NEW verdict \in Verdicts, verdict = "again" => g.retried < MaxRetries,
         NEW k, ArmIfNeeded(IF f \in PlainFrames THEN HandlePlaintext(Heard(g), f)
                            ELSE ContextHandleA0(Heard(g), f, verdict)) = k
  PROVE  Sound(k) /\ Tells(g, k)
<1> DEFINE h == Heard(g)
<1>1. Ready(h) /\ ~CommandIsNext(h)
  BY HeardIsReady
<1>2. h.retried = g.retried /\ h.fw = g.fw /\ h.fenced = g.fenced
  BY DEF Sound, Heard, Graphs
<1> HIDE DEF h
<1>3. Receives(h, k)
  <2>1. CASE f \in PlainFrames
    BY <1>1, <2>1, PlainReceives DEF h
  <2>2. CASE f \in A0Frames /\ f \notin PlainFrames
    BY <1>1, <1>2, <2>2, A0Receives DEF h
  <2> QED BY <2>1, <2>2
<1>4. Tells(g, k)
  <2>1. OutcomeOf(h) = OutcomeOf(g) /\ JudgedOf(h) = JudgedOf(g)
    BY <1>2 DEF OutcomeOf, JudgedOf
  <2>2. Tells(h, k)
    BY <1>3 DEF Receives
  <2> QED BY <1>2, <2>1, <2>2 DEF Tells, Silent, Fails, Arrives, Judges, Lifts,
                                  Accepts
<1> QED BY <1>3, <1>4 DEF Receives

(* Every step keeps the graph sound, and tells the framework something that *)
(* an enrollment may tell, or starts the next enrollment.                   *)
LEMMA SoundStep ==
  ASSUME Sound(graph), reader \in Readers, [Next]_vars
  PROVE  /\ Sound(graph')
         /\ Tells(graph, graph') \/ Renews(graph, graph')
<1>1. CASE Receive
  <2> DEFINE f == Head(reader.due)
  <2>1. graph.listening /\ ~graph.fenced /\ reader.due # <<>>
    BY <1>1 DEF Receive, Reads
  <2>2. f \in A0Frames \cup PlainFrames
    <3>1. reader.due \in Seq(A0Frames \cup PlainFrames)
      BY DEF Readers
    <3> QED BY <2>1, <3>1
  <2> HIDE DEF f
  <2>3. PICK verdict \in IF graph.pending THEN Verdicts ELSE {"good"} :
          /\ verdict = "again" => graph.retried < MaxRetries
          /\ graph' = ArmIfNeeded(IF f \in PlainFrames
                                  THEN HandlePlaintext(Heard(graph), f)
                                  ELSE ContextHandleA0(Heard(graph), f, verdict))
    BY <1>1 DEF Receive, Heard, f
  <2>4. verdict \in Verdicts
    BY <2>3 DEF Verdicts
  <2> QED BY <2>1, <2>2, <2>3, <2>4, ReceiveIsSound
<1>2. CASE OutCompletes
  <2>1. graph.at = "taken" /\ graph' = BackendOutComplete(graph)
    BY <1>2 DEF OutCompletes
  <2>2. CASE graph.failed
    BY <2>1, <2>2, OutDrains DEF Receives
  <2>3. CASE ~graph.failed
    BY <2>1, <2>3, OutCommits DEF Receives
  <2> QED BY <2>2, <2>3
<1>3. CASE OutFails
  BY <1>3, OutFailsReceives DEF OutFails, Receives
<1>4. CASE Fence
  <2>1. ~graph.fenced /\ graph' = Fail(graph)
    BY <1>4 DEF Fence, Fail
  <2>2. ~graph.complete
    BY <2>1 DEF Sound, Graphs
  <2> QED BY <2>1, <2>2, FenceReceives DEF Receives
<1>5. CASE Renew
  <2>1. graph.fenced /\ graph' = NewGraph
    BY <1>5 DEF Renew
  <2>2. OutcomeOf(graph) # "open"
    BY <2>1 DEF OutcomeOf
  <2> QED BY <2>1, <2>2, NewIsSound DEF Renews
<1>6. CASE ReaderTakes
  <2>1. graph.at = "flying" /\ graph' = [graph EXCEPT !.at = "taken"]
    BY <1>6 DEF ReaderTakes
  <2>2. Receives(graph, [graph EXCEPT !.at = "taken"])
    BY <2>1, TakenFields
  <2> QED BY <2>1, <2>2 DEF Receives
<1>7. CASE UNCHANGED graph
  BY <1>7 DEF Tells, Silent, OutcomeOf, JudgedOf
<1> QED BY <1>1, <1>2, <1>3, <1>4, <1>5, <1>6, <1>7
        DEF Next, vars, FingerDown, FingerUp, ReportLift, StrayEvent, ReaderErrs

-----------------------------------------------------------------------------
(* The reader.                                                              *)
Frames == A0Frames \cup PlainFrames

(* The frames of the reader.                                                *)
LEMMA InFrames ==
  /\ \A c \in Commands : Ack(c) \in Frames
  /\ {Touch, Sample, ZeroSample, Lift, Stray, Nav} \subseteq Frames
  /\ Plain("whole") \in Frames /\ Plain("half") \in Frames
BY DEF Frames, A0Frames, PlainFrames

(* Replies: what the reader answers to each command.                        *)
LEMMA ReplyOf20 == \A r : Replies(r, "20") = {<<Plain("whole")>>}
BY DEF Replies

(* What the reader answers to the navigation.                               *)
LEMMA ReplyOf50 == \A r : Replies(r, "50") = {<<Nav>>}
BY DEF Replies

(* The reader answers to an arming with its ACK only.                       *)
LEMMA ReplyOf32 ==
  ASSUME NEW r, NEW c \in {"32", "34"}
  PROVE  Replies(r, c) = {<<>>}
BY DEF Replies

(* A scan finds the finger, or not; without a finger it does not.           *)
LEMMA ReplyOf36 ==
  ASSUME NEW r
  PROVE  /\ Replies(r, "36") \subseteq {<<Sample>>, <<ZeroSample>>}
         /\ ~r.finger => Replies(r, "36") = {<<ZeroSample>>}
<1>1. CASE r.finger
  BY <1>1 DEF Replies
<1>2. CASE ~r.finger
  BY <1>2 DEF Replies
<1> QED BY <1>1, <1>2

(* What the reader answers is made of frames.                               *)
LEMMA ReplyTyped ==
  ASSUME NEW r, NEW c \in Commands, NEW reply \in Replies(r, c)
  PROVE  reply \in Seq(Frames)
<1>1. /\ <<Plain("whole")>> \in Seq(Frames)
      /\ <<Plain("half"), Plain("half")>> \in Seq(Frames)
      /\ <<Sample>> \in Seq(Frames) /\ <<ZeroSample>> \in Seq(Frames)
      /\ <<Nav>> \in Seq(Frames) /\ <<>> \in Seq(Frames)
  BY InFrames
<1>2. CASE c = "22"
  <2>1. reply \in {<<Plain("whole")>>, <<Plain("half"), Plain("half")>>}
    BY <1>2, Zenon DEF Replies
  <2> QED BY <1>1, <2>1, Zenon
<1>3. CASE c = "20"
  <2>1. reply \in {<<Plain("whole")>>}
    BY <1>3, ReplyOf20
  <2> QED BY <1>1, <2>1, Zenon
<1>4. CASE c = "36"
  <2>1. reply \in {<<Sample>>, <<ZeroSample>>}
    BY <1>4, ReplyOf36
  <2> QED BY <1>1, <2>1, Zenon
<1>5. CASE c = "50"
  <2>1. reply \in {<<Nav>>}
    BY <1>5, ReplyOf50
  <2> QED BY <1>1, <2>1, Zenon
<1>6. CASE c \in {"32", "34"}
  <2>1. reply \in {<<>>}
    BY <1>6, ReplyOf32
  <2> QED BY <1>1, <2>1, Zenon
<1> QED BY <1>2, <1>3, <1>4, <1>5, <1>6 DEF Commands

(* The counters of the reader stay within their type.                       *)
LEMMA TwoTyped ==
  ASSUME NEW n \in 0..2
  PROVE  UpToTwo(n + 1) \in 0..2
BY DEF UpToTwo

(* The reader that has taken a command, field by field.                     *)
Takes(r, q, c, reply) ==
  /\ q.due = (r.due \o <<Ack(c)>>) \o reply
  /\ q.finger = r.finger /\ q.strays = r.strays
  /\ q.armed = IF c = "34" THEN "lift" ELSE IF c = "32" THEN "touch" ELSE r.armed
  /\ q.lifting = IF c = "34" THEN ~r.finger ELSE r.lifting
  /\ q.captures = IF c = "22" THEN UpToTwo(r.captures + 1) ELSE r.captures
  /\ q.releases = IF c = "22" THEN 0
                  ELSE IF c = "34" THEN UpToTwo(r.releases + 1) ELSE r.releases
  /\ q.arms = IF c = "22" THEN 0
              ELSE IF c = "32" THEN UpToTwo(r.arms + 1) ELSE r.arms
  /\ q.zeroed = IF c = "22" THEN FALSE
                ELSE IF c = "36" THEN reply = <<ZeroSample>> ELSE r.zeroed

(* After, field by field.                                                   *)
LEMMA AfterFields ==
  ASSUME NEW r \in Readers, NEW c \in Commands, NEW reply \in Seq(Frames)
  PROVE  LET q == After(r, c, reply)
         IN q \in Readers /\ Takes(r, q, c, reply)
<1> DEFINE t == [r EXCEPT !.due = (@ \o <<Ack(c)>>) \o reply]
           q == After(r, c, reply)
<1>1. (r.due \o <<Ack(c)>>) \o reply \in Seq(Frames)
  <2>1. r.due \in Seq(Frames) /\ <<Ack(c)>> \in Seq(Frames)
    BY InFrames DEF Readers, Frames
  <2> QED BY <2>1
<1>2. /\ t \in Readers /\ t.due = (r.due \o <<Ack(c)>>) \o reply
      /\ t.finger = r.finger /\ t.strays = r.strays /\ t.armed = r.armed
      /\ t.lifting = r.lifting /\ t.captures = r.captures
      /\ t.releases = r.releases /\ t.arms = r.arms /\ t.zeroed = r.zeroed
  BY <1>1 DEF Readers, Frames
<1>3. t \in Readers
  BY <1>2
<1>4. q = CASE c = "22" ->
                 [t EXCEPT !.captures = UpToTwo(@ + 1), !.releases = 0,
                           !.arms = 0, !.zeroed = FALSE]
            [] c = "34" ->
                 [t EXCEPT !.armed = "lift", !.releases = UpToTwo(@ + 1),
                           !.lifting = ~r.finger]
            [] c = "32" -> [t EXCEPT !.armed = "touch", !.arms = UpToTwo(@ + 1)]
            [] c = "36" -> [t EXCEPT !.zeroed = reply = <<ZeroSample>>]
            [] c \in {"20", "50"} -> t
  BY DEF After
<1> HIDE DEF t, q
<1>5. /\ t.captures \in 0..2 /\ t.releases \in 0..2 /\ t.arms \in 0..2
      /\ UpToTwo(t.captures + 1) \in 0..2 /\ UpToTwo(t.releases + 1) \in 0..2
      /\ UpToTwo(t.arms + 1) \in 0..2
  BY <1>2, TwoTyped DEF Readers
<1> USE DEF q
<1>6. CASE c = "22"
  <2>1. q = [t EXCEPT !.captures = UpToTwo(t.captures + 1), !.releases = 0,
                      !.arms = 0, !.zeroed = FALSE]
    BY <1>4, <1>6
  <2> HIDE DEF q
  <2>2. q \in Readers
    <3> DEFINE u == [t EXCEPT !.captures = UpToTwo(t.captures + 1), !.releases = 0]
    <3>1. u \in Readers
      <4>1. 0 \in 0..2
        OBVIOUS
      <4> QED BY <1>3, <1>5, <4>1 DEF Readers
    <3>2. q = [u EXCEPT !.arms = 0, !.zeroed = FALSE]
      BY <1>3, <2>1 DEF Readers
    <3>3. 0 \in 0..2
      OBVIOUS
    <3> HIDE DEF u
    <3> QED BY <3>1, <3>2, <3>3 DEF Readers
  <2>3. /\ q.captures = UpToTwo(t.captures + 1) /\ q.releases = 0
        /\ q.arms = 0 /\ q.zeroed = FALSE
        /\ q.due = t.due /\ q.finger = t.finger /\ q.strays = t.strays
        /\ q.armed = t.armed /\ q.lifting = t.lifting
    BY <1>2, <2>1 DEF Readers
  <2> QED BY <1>2, <1>6, <2>2, <2>3 DEF q, Takes
<1>7. CASE c = "34"
  <2>1. q = [t EXCEPT !.armed = "lift", !.releases = UpToTwo(t.releases + 1),
                      !.lifting = ~r.finger]
    BY <1>4, <1>7
  <2> HIDE DEF q
  <2>2. q \in Readers
    BY <1>3, <1>5, <2>1 DEF Readers
  <2>3. /\ q.armed = "lift" /\ q.releases = UpToTwo(t.releases + 1)
        /\ q.lifting = ~r.finger
        /\ q.due = t.due /\ q.finger = t.finger /\ q.strays = t.strays
        /\ q.captures = t.captures /\ q.arms = t.arms /\ q.zeroed = t.zeroed
    BY <1>2, <2>1 DEF Readers
  <2> QED BY <1>2, <1>7, <2>2, <2>3 DEF q, Takes
<1>8. CASE c = "32"
  <2>1. q = [t EXCEPT !.armed = "touch", !.arms = UpToTwo(t.arms + 1)]
    BY <1>4, <1>8
  <2> HIDE DEF q
  <2>2. q \in Readers
    BY <1>3, <1>5, <2>1 DEF Readers
  <2>3. /\ q.armed = "touch" /\ q.arms = UpToTwo(t.arms + 1)
        /\ q.lifting = t.lifting /\ q.releases = t.releases
        /\ q.due = t.due /\ q.finger = t.finger /\ q.strays = t.strays
        /\ q.captures = t.captures /\ q.zeroed = t.zeroed
    BY <1>2, <2>1 DEF Readers
  <2> QED BY <1>2, <1>8, <2>2, <2>3 DEF q, Takes
<1>9. CASE c = "36"
  <2>1. q = [t EXCEPT !.zeroed = reply = <<ZeroSample>>]
    BY <1>4, <1>9
  <2> HIDE DEF q
  <2>2. q \in Readers
    BY <1>3, <2>1 DEF Readers
  <2>3. /\ q.zeroed = (reply = <<ZeroSample>>) /\ q.armed = t.armed
        /\ q.arms = t.arms
        /\ q.lifting = t.lifting /\ q.releases = t.releases
        /\ q.due = t.due /\ q.finger = t.finger /\ q.strays = t.strays
        /\ q.captures = t.captures
    BY <1>2, <2>1 DEF Readers
  <2> QED BY <1>2, <1>9, <2>2, <2>3 DEF q, Takes
<1>10. CASE c \in {"20", "50"}
  <2>1. q = t
    BY <1>4, <1>10
  <2> QED BY <1>2, <1>10, <2>1 DEF Takes
<1> QED BY <1>6, <1>7, <1>8, <1>9, <1>10 DEF Commands

(* Every step keeps the types.                                              *)
LEMMA TypedStep ==
  ASSUME Typed, [Next]_vars
  PROVE  Typed'
<1>1. /\ Sound(graph) /\ graph \in Graphs /\ reader \in Readers
      /\ errors \in 0..MaxErrors /\ blame \in BOOLEAN
      /\ MaxErrors \in Nat /\ MaxStrays \in Nat
  BY BoundAssumption DEF Typed, Sound
<1>2. Sound(graph')
  BY <1>1, SoundStep
<1>3. blame' \in BOOLEAN /\ errors' \in 0..MaxErrors
  <2>1. CASE Receive
    <3>1. errors' = errors /\ \E verdict : blame' = (blame \/ verdict = "broken")
      BY <2>1 DEF Receive
    <3> QED BY <1>1, <3>1
  <2>2. CASE OutCompletes \/ ReaderTakes \/ FingerUp \/ UNCHANGED vars
    BY <1>1, <2>2 DEF OutCompletes, ReaderTakes, FingerUp, vars
  <2>3. CASE Fence
    BY <1>1, <2>3 DEF Fence
  <2>4. CASE OutFails
    <3>1. blame' = TRUE /\ (errors' = errors \/ (errors < MaxErrors /\ errors' = errors + 1))
      BY <2>4 DEF OutFails
    <3> QED BY <1>1, <3>1
  <2>5. CASE Renew
    <3>1. blame' = FALSE /\ errors' = 0 /\ 0 \in 0..MaxErrors
      BY <1>1, <2>5 DEF Renew
    <3> QED BY <3>1
  <2>6. CASE FingerDown \/ ReportLift \/ StrayEvent
    BY <1>1, <2>6 DEF FingerDown, ReportLift, StrayEvent
  <2>7. CASE ReaderErrs
    <3>1. errors < MaxErrors /\ errors' = errors + 1 /\ blame' = TRUE
      BY <2>7 DEF ReaderErrs
    <3> QED BY <1>1, <3>1
  <2> QED BY <2>1, <2>2, <2>3, <2>4, <2>6, <2>7, <2>5 DEF Next
<1>4. reader' \in Readers
  <2>1. reader.due \in Seq(Frames) /\ reader.strays \in 0..MaxStrays
    BY <1>1 DEF Readers, Frames
  <2> USE <1>1
  <2>2. CASE Receive
    <3>1. reader.due # <<>> /\ reader' = [reader EXCEPT !.due = Tail(@)]
      BY <2>2 DEF Receive, Reads
    <3>2. Tail(reader.due) \in Seq(Frames)
      BY <2>1, <3>1
    <3> QED BY <3>1, <3>2 DEF Readers, Frames
  <2>3. CASE ReaderTakes
    <3>1. PICK reply \in Replies(reader, graph.out) :
            graph.at = "flying" /\ reader' = After(reader, graph.out, reply)
      BY <2>3 DEF ReaderTakes
    <3>2. graph.out \in Commands
      BY <3>1 DEF Sound, Attached, Graphs
    <3>3. reply \in Seq(Frames)
      BY <3>2, ReplyTyped
    <3> QED BY <3>1, <3>2, <3>3, AfterFields
  <2>4. CASE FingerDown
    <3>1. Append(reader.due, Touch) \in Seq(Frames)
      BY <2>1, InFrames
    <3>2. 0 \in 0..MaxStrays
      OBVIOUS
    <3> DEFINE s == [reader EXCEPT !.due = Append(reader.due, Touch), !.armed = "none"]
               q == [s EXCEPT !.finger = TRUE, !.lifting = FALSE, !.strays = 0]
    <3>3. s \in Readers
      BY <3>1 DEF Readers, Frames
    <3>4. reader' = q
      BY <2>4 DEF FingerDown, Readers
    <3> HIDE DEF s
    <3> QED BY <3>2, <3>3, <3>4 DEF Readers
  <2>5. CASE FingerUp
    BY <2>5 DEF FingerUp, Readers
  <2>6. CASE ReportLift
    <3>1. Append(reader.due, Lift) \in Seq(Frames)
      BY <2>1, InFrames
    <3> QED BY <2>6, <3>1 DEF ReportLift, Readers, Frames
  <2>7. CASE StrayEvent
    <3>1. Append(reader.due, Stray) \in Seq(Frames)
      BY <2>1, InFrames
    <3>2. reader.strays + 1 \in 0..MaxStrays
      BY <2>1, <2>7 DEF StrayEvent
    <3> QED BY <2>7, <3>1, <3>2 DEF StrayEvent, Readers, Frames
  <2>8. CASE ReaderErrs
    <3>1. CASE \E f \in Frames : reader' = [reader EXCEPT !.due = <<f>> \o @]
      <4>1. PICK f \in Frames : reader' = [reader EXCEPT !.due = <<f>> \o @]
        BY <3>1
      <4>2. <<f>> \o reader.due \in Seq(Frames)
        BY <2>1
      <4> QED BY <4>1, <4>2 DEF Readers, Frames
    <3>2. CASE reader.due # <<>> /\ reader' = [reader EXCEPT !.due = Tail(@)]
      <4>1. Tail(reader.due) \in Seq(Frames)
        BY <2>1, <3>2
      <4> QED BY <3>2, <4>1 DEF Readers, Frames
    <3> QED BY <2>8, <3>1, <3>2 DEF ReaderErrs, Frames
  <2>9. CASE Renew
    <3>1. FreshReader \in Readers
      BY DEF FreshReader, Readers
    <3> QED BY <2>9, <3>1 DEF Renew
  <2>10. CASE UNCHANGED reader
    BY <2>10
  <2> QED BY <2>2, <2>3, <2>4, <2>5, <2>6, <2>7, <2>8, <2>9, <2>10
          DEF Next, vars, OutCompletes, OutFails, Fence
<1> QED BY <1>2, <1>3, <1>4 DEF Typed

(* The hand-over has the types.                                             *)
LEMMA TypedInit ==
  ASSUME Init
  PROVE  Typed
<1>1. FreshReader \in Readers
  BY BoundAssumption DEF FreshReader, Readers
<1>2. MaxErrors \in Nat /\ 0 \in 0..MaxErrors
  BY BoundAssumption
<1>3. graph = NewGraph /\ reader = FreshReader /\ blame = FALSE /\ errors = 0
  BY DEF Init
<1> QED BY <1>1, <1>2, <1>3, NewIsSound DEF Typed

-----------------------------------------------------------------------------
(* The frames that are due.                                                 *)

(* One frame that is due.                                                   *)
LEMMA OneFrame ==
  ASSUME NEW a
  PROVE  /\ Head(<<a>>) = a /\ Tail(<<a>>) = <<>> /\ <<a>> # <<>>
         /\ \A f : In(f, <<a>>) <=> f = a
BY DEF In

(* Two frames that are due.                                                 *)
LEMMA TwoFrames ==
  ASSUME NEW a, NEW b
  PROVE  /\ Head(<<a, b>>) = a /\ Tail(<<a, b>>) = <<b>> /\ <<a, b>> # <<>>
         /\ \A f : In(f, <<a, b>>) <=> f = a \/ f = b
<1>1. Head(<<a, b>>) = a /\ Tail(<<a, b>>) = <<b>> /\ <<a, b>> # <<>>
  OBVIOUS
<1>2. \A f : In(f, <<a, b>>) <=> f = a \/ f = b
  BY DEF In
<1> QED BY <1>1, <1>2

(* Three frames that are due.                                               *)
LEMMA ThreeFrames ==
  ASSUME NEW a, NEW b, NEW c
  PROVE  /\ Head(<<a, b, c>>) = a /\ Tail(<<a, b, c>>) = <<b, c>>
         /\ <<a, b, c>> # <<>>
         /\ \A f : In(f, <<a, b, c>>) <=> f = a \/ f = b \/ f = c
<1>1. /\ Head(<<a, b, c>>) = a /\ Tail(<<a, b, c>>) = <<b, c>>
      /\ <<a, b, c>> # <<>>
  OBVIOUS
<1>2. \A f : In(f, <<a, b, c>>) <=> f = a \/ f = b \/ f = c
  BY DEF In
<1> QED BY <1>1, <1>2

(* A frame behind none or one.                                              *)
LEMMA Appended ==
  ASSUME NEW a \in Frames, NEW b \in Frames
  PROVE  Append(<<>>, a) = <<a>> /\ Append(<<a>>, b) = <<a, b>>
<1>1. Append(<<>>, a) = <<a>>
  OBVIOUS
<1>2. Append(<<a>>, b) = <<a, b>>
  <2>1. Append(<<a>>, b) \in Seq(Frames) /\ <<a, b>> \in Seq(Frames)
    OBVIOUS
  <2>2. Len(Append(<<a>>, b)) = 2 /\ Len(<<a, b>>) = 2
    OBVIOUS
  <2>3. \A i \in 1..2 : Append(<<a>>, b)[i] = <<a, b>>[i]
    OBVIOUS
  <2> QED BY <2>1, <2>2, <2>3, SeqEqual
<1> QED BY <1>1, <1>2

(* A frame behind two.                                                      *)
LEMMA AppendedThird ==
  ASSUME NEW a \in Frames, NEW b \in Frames, NEW c \in Frames
  PROVE  Append(<<a, b>>, c) = <<a, b, c>>
<1>1. Append(<<a, b>>, c) \in Seq(Frames) /\ <<a, b, c>> \in Seq(Frames)
  OBVIOUS
<1>2. Len(Append(<<a, b>>, c)) = 3 /\ Len(<<a, b, c>>) = 3
  OBVIOUS
<1>3. \A i \in 1..3 : Append(<<a, b>>, c)[i] = <<a, b, c>>[i]
  OBVIOUS
<1> QED BY <1>1, <1>2, <1>3, SeqEqual

(* What is due, joined with an ACK and a reply.                             *)
LEMMA Joined ==
  ASSUME NEW a \in Frames, NEW b \in Frames, NEW c \in Frames
  PROVE  /\ <<>> \o <<a>> = <<a>> /\ <<a>> \o <<>> = <<a>>
         /\ <<a>> \o <<b>> = <<a, b>> /\ <<a, b>> \o <<>> = <<a, b>>
         /\ <<a>> \o <<b, c>> = <<a, b, c>> /\ <<a, b>> \o <<c>> = <<a, b, c>>
<1>1. <<>> \o <<a>> = <<a>> /\ <<a>> \o <<>> = <<a>>
  OBVIOUS
<1>2. <<a, b>> \o <<>> = <<a, b>>
  OBVIOUS
<1>3. <<a>> \o <<b>> = <<a, b>>
  <2>1. <<a>> \o <<b>> \in Seq(Frames) /\ <<a, b>> \in Seq(Frames)
    OBVIOUS
  <2>2. Len(<<a>> \o <<b>>) = 2 /\ Len(<<a, b>>) = 2
    OBVIOUS
  <2>3. \A i \in 1..2 : (<<a>> \o <<b>>)[i] = <<a, b>>[i]
    OBVIOUS
  <2> QED BY <2>1, <2>2, <2>3, SeqEqual
<1>4. <<a>> \o <<b, c>> = <<a, b, c>>
  <2>1. <<a>> \o <<b, c>> \in Seq(Frames) /\ <<a, b, c>> \in Seq(Frames)
    OBVIOUS
  <2>2. Len(<<a>> \o <<b, c>>) = 3 /\ Len(<<a, b, c>>) = 3
    OBVIOUS
  <2>3. \A i \in 1..3 : (<<a>> \o <<b, c>>)[i] = <<a, b, c>>[i]
    OBVIOUS
  <2> QED BY <2>1, <2>2, <2>3, SeqEqual
<1>5. <<a, b>> \o <<c>> = <<a, b, c>>
  <2>1. <<a, b>> \o <<c>> \in Seq(Frames) /\ <<a, b, c>> \in Seq(Frames)
    OBVIOUS
  <2>2. Len(<<a, b>> \o <<c>>) = 3 /\ Len(<<a, b, c>>) = 3
    OBVIOUS
  <2>3. \A i \in 1..3 : (<<a, b>> \o <<c>>)[i] = <<a, b, c>>[i]
    OBVIOUS
  <2> QED BY <2>1, <2>2, <2>3, SeqEqual
<1> QED BY <1>1, <1>2, <1>3, <1>4, <1>5

(* Nothing is in what is not there.                                         *)
LEMMA NoFrame == \A f : ~In(f, <<>>)
BY DEF In

(* The frames of a wait differ.                                             *)
LEMMA FramesDiffer ==
  /\ A # Lift /\ A # Touch /\ A # Stray /\ Lift # Touch /\ Lift # Stray
  /\ Touch # Stray /\ A.kind = "ack" /\ A \in Frames
BY Kinds, InFrames DEF A, Commands

(* The wait, and the frame that is read first.                              *)
LEMMA WaitTails ==
  ASSUME NEW due
  PROVE  /\ due \in Quiet =>
              due = <<>> \/ (Head(due) = Lift /\ Tail(due) = <<>>)
         /\ due \in Arrived =>
              \/ Head(due) = Touch /\ Tail(due) = <<>>
              \/ Head(due) = Lift /\ Tail(due) = <<Touch>>
         /\ due \in Strayed =>
              \/ Head(due) = Stray /\ Tail(due) \in Quiet
              \/ Head(due) = Lift /\ Tail(due) = <<Stray>>
<1>1. due \in Quiet =>
       due = <<>> \/ (Head(due) = Lift /\ Tail(due) = <<>>)
  <2>1. Head(<<Lift>>) = Lift /\ Tail(<<Lift>>) = <<>>
    BY OneFrame
  <2> QED BY <2>1, Zenon DEF Quiet
<1>2. due \in Arrived =>
       \/ Head(due) = Touch /\ Tail(due) = <<>>
       \/ Head(due) = Lift /\ Tail(due) = <<Touch>>
  <2>1. Head(<<Touch>>) = Touch /\ Tail(<<Touch>>) = <<>>
    BY OneFrame
  <2>2. Head(<<Lift, Touch>>) = Lift /\ Tail(<<Lift, Touch>>) = <<Touch>>
    BY TwoFrames
  <2> QED BY <2>1, <2>2, Zenon DEF Arrived
<1>3. due \in Strayed =>
       \/ Head(due) = Stray /\ Tail(due) \in Quiet
       \/ Head(due) = Lift /\ Tail(due) = <<Stray>>
  <2>1. Head(<<Stray>>) = Stray /\ Tail(<<Stray>>) = <<>>
    BY OneFrame
  <2>2. Head(<<Lift, Stray>>) = Lift /\ Tail(<<Lift, Stray>>) = <<Stray>>
    BY TwoFrames
  <2>3. Head(<<Stray, Lift>>) = Stray /\ Tail(<<Stray, Lift>>) = <<Lift>>
    BY TwoFrames
  <2> QED BY <2>1, <2>2, <2>3, Zenon DEF Strayed, Quiet
<1> QED BY <1>1, <1>2, <1>3

(* The wait before its ACK was read.                                       *)
LEMMA AckTails ==
  ASSUME NEW due
  PROVE  /\ due \in QuietAck =>
              \/ Head(due) = A /\ Tail(due) \in Quiet
              \/ Head(due) = Lift /\ Tail(due) = <<A>>
         /\ due \in TouchedAck =>
              \/ Head(due) = A /\ Tail(due) \in Arrived
              \/ Head(due) = Lift /\ Tail(due) = <<A, Touch>>
         /\ due \in StrayedAck =>
              \/ Head(due) = A /\ Tail(due) \in Strayed
              \/ Head(due) = Lift /\ Tail(due) = <<A, Stray>>
<1>1. due \in QuietAck =>
       \/ Head(due) = A /\ Tail(due) \in Quiet
       \/ Head(due) = Lift /\ Tail(due) = <<A>>
  <2>1. Head(<<A>>) = A /\ Tail(<<A>>) = <<>>
    BY OneFrame
  <2>2. Head(<<Lift, A>>) = Lift /\ Tail(<<Lift, A>>) = <<A>>
    BY TwoFrames
  <2>3. Head(<<A, Lift>>) = A /\ Tail(<<A, Lift>>) = <<Lift>>
    BY TwoFrames
  <2> QED BY <2>1, <2>2, <2>3, Zenon DEF QuietAck, Quiet
<1>2. due \in TouchedAck =>
       \/ Head(due) = A /\ Tail(due) \in Arrived
       \/ Head(due) = Lift /\ Tail(due) = <<A, Touch>>
  <2>1. Head(<<A, Touch>>) = A /\ Tail(<<A, Touch>>) = <<Touch>>
    BY TwoFrames
  <2>2. Head(<<Lift, A, Touch>>) = Lift /\ Tail(<<Lift, A, Touch>>) = <<A, Touch>>
    BY ThreeFrames
  <2>3. Head(<<A, Lift, Touch>>) = A /\ Tail(<<A, Lift, Touch>>) = <<Lift, Touch>>
    BY ThreeFrames
  <2> QED BY <2>1, <2>2, <2>3, Zenon DEF TouchedAck, Arrived
<1>3. due \in StrayedAck =>
       \/ Head(due) = A /\ Tail(due) \in Strayed
       \/ Head(due) = Lift /\ Tail(due) = <<A, Stray>>
  <2>1. Head(<<A, Stray>>) = A /\ Tail(<<A, Stray>>) = <<Stray>>
    BY TwoFrames
  <2>2. Head(<<Lift, A, Stray>>) = Lift /\ Tail(<<Lift, A, Stray>>) = <<A, Stray>>
    BY ThreeFrames
  <2>3. Head(<<A, Lift, Stray>>) = A /\ Tail(<<A, Lift, Stray>>) = <<Lift, Stray>>
    BY ThreeFrames
  <2>4. Head(<<A, Stray, Lift>>) = A /\ Tail(<<A, Stray, Lift>>) = <<Stray, Lift>>
    BY ThreeFrames
  <2> QED BY <2>1, <2>2, <2>3, <2>4, Zenon DEF StrayedAck, Strayed
<1> QED BY <1>1, <1>2, <1>3

(* Which of them hold the late lift.                                        *)
LEMMA WhereLift ==
  ASSUME NEW due
  PROVE  /\ due \in Quiet => (In(Lift, due) <=> due # <<>>)
         /\ due \in Arrived => (In(Lift, due) <=> due # <<Touch>>)
         /\ due \in Strayed => (In(Lift, due) <=> due # <<Stray>>)
         /\ due \in QuietAck => (In(Lift, due) <=> due # <<A>>)
         /\ due \in TouchedAck => (In(Lift, due) <=> due # <<A, Touch>>)
         /\ due \in StrayedAck => (In(Lift, due) <=> due # <<A, Stray>>)
<1>1. due \in Quiet => (In(Lift, due) <=> due # <<>>)
  <2>1. ~In(Lift, <<>>)
    BY NoFrame, FramesDiffer
  <2>2. In(Lift, <<Lift>>) /\ <<Lift>> # <<>>
    BY OneFrame, FramesDiffer
  <2> QED BY <2>1, <2>2, Zenon DEF Quiet
<1>2. due \in Arrived => (In(Lift, due) <=> due # <<Touch>>)
  <2>1. ~In(Lift, <<Touch>>)
    BY OneFrame, FramesDiffer
  <2>2. In(Lift, <<Lift, Touch>>) /\ <<Lift, Touch>> # <<Touch>>
    BY TwoFrames, OneFrame, FramesDiffer
  <2> QED BY <2>1, <2>2, Zenon DEF Arrived
<1>3. due \in Strayed => (In(Lift, due) <=> due # <<Stray>>)
  <2>1. ~In(Lift, <<Stray>>)
    BY OneFrame, FramesDiffer
  <2>2. In(Lift, <<Lift, Stray>>) /\ <<Lift, Stray>> # <<Stray>>
    BY TwoFrames, OneFrame, FramesDiffer
  <2>3. In(Lift, <<Stray, Lift>>) /\ <<Stray, Lift>> # <<Stray>>
    BY TwoFrames, OneFrame, FramesDiffer
  <2> QED BY <2>1, <2>2, <2>3, Zenon DEF Strayed
<1>4. due \in QuietAck => (In(Lift, due) <=> due # <<A>>)
  <2>1. ~In(Lift, <<A>>)
    BY OneFrame, FramesDiffer
  <2>2. In(Lift, <<Lift, A>>) /\ <<Lift, A>> # <<A>>
    BY TwoFrames, OneFrame, FramesDiffer
  <2>3. In(Lift, <<A, Lift>>) /\ <<A, Lift>> # <<A>>
    BY TwoFrames, OneFrame, FramesDiffer
  <2> QED BY <2>1, <2>2, <2>3, Zenon DEF QuietAck
<1>5. due \in TouchedAck => (In(Lift, due) <=> due # <<A, Touch>>)
  <2>1. ~In(Lift, <<A, Touch>>)
    <3>1. \A b : \A f : In(f, <<A, b>>) <=> f = A \/ f = b
      BY TwoFrames
    <3> QED BY <3>1, FramesDiffer
  <2>2. In(Lift, <<Lift, A, Touch>>) /\ <<Lift, A, Touch>> # <<A, Touch>>
    BY ThreeFrames, TwoFrames, FramesDiffer
  <2>3. In(Lift, <<A, Lift, Touch>>) /\ <<A, Lift, Touch>> # <<A, Touch>>
    BY ThreeFrames, TwoFrames, FramesDiffer
  <2> QED BY <2>1, <2>2, <2>3, Zenon DEF TouchedAck
<1>6. due \in StrayedAck => (In(Lift, due) <=> due # <<A, Stray>>)
  <2>1. ~In(Lift, <<A, Stray>>)
    <3>1. \A b : \A f : In(f, <<A, b>>) <=> f = A \/ f = b
      BY TwoFrames
    <3> QED BY <3>1, FramesDiffer
  <2>2. In(Lift, <<Lift, A, Stray>>) /\ <<Lift, A, Stray>> # <<A, Stray>>
    BY ThreeFrames, TwoFrames, FramesDiffer
  <2>3. In(Lift, <<A, Lift, Stray>>) /\ <<A, Lift, Stray>> # <<A, Stray>>
    BY ThreeFrames, TwoFrames, FramesDiffer
  <2>4. In(Lift, <<A, Stray, Lift>>) /\ <<A, Stray, Lift>> # <<A, Stray>>
    BY ThreeFrames, TwoFrames, FramesDiffer
  <2> QED BY <2>1, <2>2, <2>3, <2>4, Zenon DEF StrayedAck
<1> QED BY <1>1, <1>2, <1>3, <1>4, <1>5, <1>6

(* What the reader may add to a wait.                                       *)
LEMMA WaitAppends ==
  ASSUME NEW due
  PROVE  /\ due \in Quiet => Append(due, Touch) \in Arrived
         /\ due \in Quiet => Append(due, Stray) \in Strayed
         /\ due \in QuietAck => Append(due, Touch) \in TouchedAck
         /\ due \in QuietAck => Append(due, Stray) \in StrayedAck
<1>1. due \in Quiet => Append(due, Touch) \in Arrived
  <2>1. Append(<<>>, Touch) = <<Touch>>
    BY Appended, FramesDiffer, InFrames
  <2>2. Append(<<Lift>>, Touch) = <<Lift, Touch>>
    BY Appended, FramesDiffer, InFrames
  <2> QED BY <2>1, <2>2, Zenon DEF Quiet, Arrived
<1>2. due \in Quiet => Append(due, Stray) \in Strayed
  <2>1. Append(<<>>, Stray) = <<Stray>>
    BY Appended, FramesDiffer, InFrames
  <2>2. Append(<<Lift>>, Stray) = <<Lift, Stray>>
    BY Appended, FramesDiffer, InFrames
  <2> QED BY <2>1, <2>2, Zenon DEF Quiet, Strayed
<1>3. due \in QuietAck => Append(due, Touch) \in TouchedAck
  <2>1. Append(<<A>>, Touch) = <<A, Touch>>
    BY Appended, FramesDiffer, InFrames
  <2>2. Append(<<Lift, A>>, Touch) = <<Lift, A, Touch>>
    BY AppendedThird, FramesDiffer, InFrames
  <2>3. Append(<<A, Lift>>, Touch) = <<A, Lift, Touch>>
    BY AppendedThird, FramesDiffer, InFrames
  <2> QED BY <2>1, <2>2, <2>3, Zenon DEF QuietAck, TouchedAck
<1>4. due \in QuietAck => Append(due, Stray) \in StrayedAck
  <2>1. Append(<<A>>, Stray) = <<A, Stray>>
    BY Appended, FramesDiffer, InFrames
  <2>2. Append(<<Lift, A>>, Stray) = <<Lift, A, Stray>>
    BY AppendedThird, FramesDiffer, InFrames
  <2>3. Append(<<A, Lift>>, Stray) = <<A, Lift, Stray>>
    BY AppendedThird, FramesDiffer, InFrames
  <2> QED BY <2>1, <2>2, <2>3, Zenon DEF QuietAck, StrayedAck
<1> QED BY <1>1, <1>2, <1>3, <1>4

(* The late lift, as the last frame of a wait.                              *)
LEMMA LateAppends ==
  /\ Append(<<>>, Lift) = <<Lift>> /\ <<Lift>> \in Quiet
  /\ Append(<<Stray>>, Lift) = <<Stray, Lift>> /\ <<Stray, Lift>> \in Strayed
  /\ Append(<<A>>, Lift) = <<A, Lift>> /\ <<A, Lift>> \in QuietAck
  /\ Append(<<A, Stray>>, Lift) = <<A, Stray, Lift>> /\ <<A, Stray, Lift>> \in StrayedAck
<1>1. Append(<<>>, Lift) = <<Lift>> /\ <<Lift>> \in Quiet
  BY AppendedThird, FramesDiffer, InFrames DEF Quiet
<1>2. Append(<<Stray>>, Lift) = <<Stray, Lift>> /\ <<Stray, Lift>> \in Strayed
  BY Appended, FramesDiffer, InFrames DEF Strayed
<1>3. Append(<<A>>, Lift) = <<A, Lift>> /\ <<A, Lift>> \in QuietAck
  BY Appended, FramesDiffer, InFrames DEF QuietAck
<1>4. Append(<<A, Stray>>, Lift) = <<A, Stray, Lift>> /\ <<A, Stray, Lift>> \in StrayedAck
  BY AppendedThird, FramesDiffer, InFrames DEF StrayedAck
<1> QED BY <1>1, <1>2, <1>3, <1>4

-----------------------------------------------------------------------------
(* What the script says of each event.                                      *)

(* Position, by the kind of the event.                                      *)
LEMMA Positions ==
  ASSUME NEW g, NEW r
  PROVE  LET e == ExpectedEvent(g)
         IN /\ e.kind = "ack" => (Position(g, r) <=> Owing(g, r, e.of))
            /\ e.kind = "command" /\ g.at = "taken" =>
                 (Position(g, r) <=> Owing(g, r, e.of))
            /\ e.kind = "command" /\ g.at = "flying" =>
                 (Position(g, r) <=> Before(g, r, e.of) /\ r.strays = g.strays)
            /\ e.kind # "ack" /\ e.kind # "command" =>
                 (Position(g, r) <=> Answering(g, r))
<1> DEFINE e == ExpectedEvent(g)
<1>1. e.kind = "ack" => (Position(g, r) <=> Owing(g, r, e.of))
  BY DEF Position
<1>2. e.kind = "command" /\ g.at = "taken" =>
        (Position(g, r) <=> Owing(g, r, e.of))
  BY DEF Position
<1>3. e.kind = "command" /\ g.at = "flying" =>
        (Position(g, r) <=> Before(g, r, e.of) /\ r.strays = g.strays)
  BY DEF Position
<1>4. e.kind # "ack" /\ e.kind # "command" =>
        (Position(g, r) <=> Answering(g, r))
  BY DEF Position
<1> QED BY <1>1, <1>2, <1>3, <1>4

(* Before, command by command.                                              *)
LEMMA Befores ==
  ASSUME NEW g, NEW r
  PROVE  /\ Before(g, r, "22") <=> Quieted(r) /\ r.due = <<>>
         /\ Before(g, r, "34") <=>
              /\ r.due = <<>>
              /\ IF g.afterAux THEN Scanning(r)
                 ELSE Quieted(r) /\ r.releases = 0 /\ r.arms = 0 /\ ~r.zeroed
         /\ Before(g, r, "36") <=> Scanning(r) /\ r.due = <<>>
         /\ Before(g, r, "20") <=>
              r.due = <<>> /\ IF g.pending THEN Scanning(r)
                              ELSE Quieted(r) /\ r.arms = 0
         /\ Before(g, r, "50") <=>
              r.due = <<>> /\ r.armed = "touch" /\ ~r.lifting /\ r.arms = 1
         /\ Before(g, r, "32") <=>
              IF g.observed = 1 /\ g.rearm = "none"
              THEN /\ r.due = <<>> /\ ~r.lifting
                   /\ IF g.navSeen THEN r.armed = "touch" /\ r.arms = 1
                      ELSE r.armed = "none" /\ r.arms = 0
              ELSE /\ r.armed # "touch" /\ r.due \in Quiet /\ OneLate(g, r)
                   /\ g.observed = 1 => r.arms = 2
                   /\ g.rearm # "none" => r.armed = "none"
<1>1. Before(g, r, "22") <=> Quieted(r) /\ r.due = <<>>
  BY DEF Before
<1>2. Before(g, r, "34") <=>
        /\ r.due = <<>>
        /\ IF g.afterAux THEN Scanning(r)
           ELSE Quieted(r) /\ r.releases = 0 /\ r.arms = 0 /\ ~r.zeroed
  BY DEF Before
<1>3. Before(g, r, "36") <=> Scanning(r) /\ r.due = <<>>
  BY DEF Before
<1>4. Before(g, r, "20") <=>
        r.due = <<>> /\ IF g.pending THEN Scanning(r)
                        ELSE Quieted(r) /\ r.arms = 0
  BY DEF Before
<1>5. Before(g, r, "50") <=>
        r.due = <<>> /\ r.armed = "touch" /\ ~r.lifting /\ r.arms = 1
  BY DEF Before
<1>6. Before(g, r, "32") <=>
        IF g.observed = 1 /\ g.rearm = "none"
        THEN /\ r.due = <<>> /\ ~r.lifting
             /\ IF g.navSeen THEN r.armed = "touch" /\ r.arms = 1
                ELSE r.armed = "none" /\ r.arms = 0
        ELSE /\ r.armed # "touch" /\ r.due \in Quiet /\ OneLate(g, r)
             /\ g.observed = 1 => r.arms = 2
             /\ g.rearm # "none" => r.armed = "none"
  BY DEF Before
<1> QED BY <1>1, <1>2, <1>3, <1>4, <1>5, <1>6

(* Owing, command by command.                                               *)
LEMMA Owings ==
  ASSUME NEW g, NEW r
  PROVE  /\ Owing(g, r, "22") <=>
              /\ Quieted(r) /\ r.releases = 0 /\ r.arms = 0 /\ ~r.zeroed
              /\ r.due \in {<<Ack("22"), Plain("whole")>>,
                            <<Ack("22"), Plain("half"), Plain("half")>>}
         /\ Owing(g, r, "34") <=>
              IF g.observed = 1 \/ g.afterAux
              THEN Lifting(r, <<Ack("34")>>) /\ (g.observed = 1 => r.arms = 0)
              ELSE Scanning(r) /\ r.due = <<Ack("34")>>
         /\ Owing(g, r, "36") <=> Scanned(r, <<Ack("36")>>)
         /\ Owing(g, r, "20") <=>
              /\ r.due = <<Ack("20"), Plain("whole")>>
              /\ IF g.pending THEN Scanning(r) ELSE Quieted(r) /\ r.arms = 0
         /\ Owing(g, r, "50") <=>
              /\ r.due = <<Ack("50"), Nav>> /\ r.armed = "touch"
              /\ ~r.lifting /\ r.arms = 1
         /\ Owing(g, r, "32") <=>
              IF g.observed = 1 /\ ~g.navSeen
              THEN /\ r.due = <<A>> /\ ~r.lifting /\ r.armed = "touch"
                   /\ r.arms = 1 /\ r.strays = g.strays
              ELSE Waiting(g, r, QuietAck, TouchedAck, StrayedAck) /\ OneLate(g, r)
<1>1. Owing(g, r, "22") <=>
        /\ Quieted(r) /\ r.releases = 0 /\ r.arms = 0 /\ ~r.zeroed
        /\ r.due \in {<<Ack("22"), Plain("whole")>>,
                      <<Ack("22"), Plain("half"), Plain("half")>>}
  BY Zenon DEF Owing
<1>2. Owing(g, r, "34") <=>
        IF g.observed = 1 \/ g.afterAux
        THEN Lifting(r, <<Ack("34")>>) /\ (g.observed = 1 => r.arms = 0)
        ELSE Scanning(r) /\ r.due = <<Ack("34")>>
  BY DEF Owing
<1>3. Owing(g, r, "36") <=> Scanned(r, <<Ack("36")>>)
  BY DEF Owing
<1>4. Owing(g, r, "20") <=>
        /\ r.due = <<Ack("20"), Plain("whole")>>
        /\ IF g.pending THEN Scanning(r) ELSE Quieted(r) /\ r.arms = 0
  BY DEF Owing
<1>5. Owing(g, r, "50") <=>
        /\ r.due = <<Ack("50"), Nav>> /\ r.armed = "touch"
        /\ ~r.lifting /\ r.arms = 1
  BY DEF Owing
<1>6. Owing(g, r, "32") <=>
        IF g.observed = 1 /\ ~g.navSeen
        THEN /\ r.due = <<A>> /\ ~r.lifting /\ r.armed = "touch"
             /\ r.arms = 1 /\ r.strays = g.strays
        ELSE Waiting(g, r, QuietAck, TouchedAck, StrayedAck) /\ OneLate(g, r)
  BY DEF Owing
<1> QED BY <1>1, <1>2, <1>3, <1>4, <1>5, <1>6

(* Answering, event by event.                                               *)
LEMMA Answerings ==
  ASSUME NEW g, NEW r
  PROVE  /\ g.expected = Primary => (Answering(g, r) <=>
              /\ Quieted(r) /\ r.releases = 0 /\ r.arms = 0 /\ ~r.zeroed
              /\ r.due \in IF g.half THEN {<<Plain("half")>>}
                   ELSE {<<Plain("whole")>>, <<Plain("half"), Plain("half")>>})
         /\ g.expected = Auxiliary => (Answering(g, r) <=>
              /\ r.due = <<Plain("whole")>> /\ ~g.half
              /\ IF g.pending THEN Scanning(r) ELSE Quieted(r) /\ r.arms = 0)
         /\ g.expected = Sample => (Answering(g, r) <=> Scanned(r, <<>>))
         /\ g.expected = Nav => (Answering(g, r) <=>
              r.due = <<Nav>> /\ r.armed = "touch" /\ ~r.lifting /\ r.arms = 1)
         /\ g.expected = Lift => (Answering(g, r) <=>
              Lifting(r, <<>>) /\ (g.observed = 1 => r.arms = 0))
         /\ g.expected = Touch => (Answering(g, r) <=>
              Waiting(g, r, Quiet, Arrived, Strayed) /\ OneLate(g, r))
<1>1. ASSUME g.expected = Primary
      PROVE  Answering(g, r) <=>
               /\ Quieted(r) /\ r.releases = 0 /\ r.arms = 0 /\ ~r.zeroed
               /\ r.due \in IF g.half THEN {<<Plain("half")>>}
                    ELSE {<<Plain("whole")>>, <<Plain("half"), Plain("half")>>}
  BY <1>1, Kinds DEF Answering
<1>2. ASSUME g.expected = Auxiliary
      PROVE  Answering(g, r) <=>
               /\ r.due = <<Plain("whole")>> /\ ~g.half
               /\ IF g.pending THEN Scanning(r) ELSE Quieted(r) /\ r.arms = 0
  BY <1>2, Kinds DEF Answering
<1>3. ASSUME g.expected = Sample
      PROVE  Answering(g, r) <=> Scanned(r, <<>>)
  BY <1>3, Kinds DEF Answering
<1>4. ASSUME g.expected = Nav
      PROVE  Answering(g, r) <=>
               r.due = <<Nav>> /\ r.armed = "touch" /\ ~r.lifting /\ r.arms = 1
  BY <1>4, Kinds DEF Answering
<1>5. ASSUME g.expected = Lift
      PROVE  Answering(g, r) <=> Lifting(r, <<>>) /\ (g.observed = 1 => r.arms = 0)
  BY <1>5, Kinds DEF Answering
<1>6. ASSUME g.expected = Touch
      PROVE  Answering(g, r) <=>
               Waiting(g, r, Quiet, Arrived, Strayed) /\ OneLate(g, r)
  BY <1>6, Kinds DEF Answering
<1> QED BY <1>1, <1>2, <1>3, <1>4, <1>5, <1>6

-----------------------------------------------------------------------------
(* A frame is read.                                                         *)

HasRead(r, q) ==
  /\ q.armed = r.armed /\ q.finger = r.finger /\ q.lifting = r.lifting
  /\ q.due = Tail(r.due) /\ q.captures = r.captures /\ q.releases = r.releases
  /\ q.arms = r.arms /\ q.zeroed = r.zeroed /\ q.strays = r.strays

(* Reading a frame takes it off what is due and changes nothing else.       *)
LEMMA FrameIsRead ==
  ASSUME NEW r \in Readers, r.due # <<>>
  PROVE  LET q == [r EXCEPT !.due = Tail(@)]
         IN HasRead(r, q) /\ q \in Readers
<1> DEFINE q == [r EXCEPT !.due = Tail(@)]
<1>1. r.due \in Seq(Frames)
  BY DEF Readers, Frames
<1>2. Tail(r.due) \in Seq(Frames)
  BY <1>1
<1>3. q \in Readers
  BY <1>2 DEF Readers, Frames
<1>4. HasRead(r, q)
  BY DEF Readers, HasRead
<1> QED BY <1>3, <1>4

(* A frame is the first one, or among those behind it.                      *)
LEMMA InTail ==
  ASSUME NEW due \in Seq(Frames), due # <<>>, NEW f
  PROVE  In(f, due) <=> f = Head(due) \/ In(f, Tail(due))
<1>1. Len(due) \in Nat /\ Len(due) # 0 /\ Len(Tail(due)) = Len(due) - 1
  OBVIOUS
<1>2. \A i \in 1..Len(Tail(due)) : Tail(due)[i] = due[i + 1]
  OBVIOUS
<1>3. Head(due) = due[1]
  OBVIOUS
<1>4. ASSUME In(f, due), f # Head(due)
      PROVE  In(f, Tail(due))
  <2>1. PICK i \in 1..Len(due) : due[i] = f
    BY <1>4 DEF In
  <2>2. i - 1 \in 1..Len(Tail(due)) /\ Tail(due)[i - 1] = due[(i - 1) + 1]
    BY <1>1, <1>2, <1>3, <1>4, <2>1
  <2>3. (i - 1) + 1 = i
    BY <2>1
  <2>4. Tail(due)[i - 1] = f
    BY <2>1, <2>2, <2>3
  <2> QED BY <2>2, <2>4 DEF In
<1>5. ASSUME f = Head(due)
      PROVE  In(f, due)
  BY <1>1, <1>3, <1>5 DEF In
<1>6. ASSUME In(f, Tail(due))
      PROVE  In(f, due)
  <2>1. PICK i \in 1..Len(Tail(due)) : Tail(due)[i] = f
    BY <1>6 DEF In
  <2>2. i + 1 \in 1..Len(due) /\ due[i + 1] = f
    BY <1>1, <1>2, <2>1
  <2> QED BY <2>2 DEF In
<1> QED BY <1>4, <1>5, <1>6

(* A frame before what a lift or a scan waits for.                          *)
LEMMA Behind ==
  ASSUME NEW a \in Frames, NEW b \in Frames
  PROVE  /\ Head(<<a>> \o <<b>>) = a /\ Tail(<<a>> \o <<b>>) = <<b>>
         /\ <<>> \o <<b>> = <<b>>
<1>1. <<a>> \o <<b>> = <<a, b>> /\ <<>> \o <<b>> = <<b>>
  BY Joined
<1>2. Head(<<a, b>>) = a /\ Tail(<<a, b>>) = <<b>>
  BY TwoFrames
<1> QED BY <1>1, <1>2, Zenon

(* A lift that was waited for is so once the ACK before it was read.        *)
LEMMA LiftingBehind ==
  ASSUME NEW r, NEW q, HasRead(r, q), NEW a \in Frames, Lifting(r, <<a>>)
  PROVE  Lifting(q, <<>>) /\ Head(r.due) = a
<1>1. Head(<<a>>) = a /\ Tail(<<a>>) = <<>>
  BY OneFrame
<1>2. Lift \in Frames
  BY InFrames
<1>3. Head(<<a>> \o <<Lift>>) = a /\ Tail(<<a>> \o <<Lift>>) = <<>> \o <<Lift>>
  BY Behind, <1>2
<1>4. CASE r.armed = "lift" /\ r.due = <<a>>
  BY <1>1, <1>4, Zenon DEF Lifting, HasRead
<1>5. CASE /\ r.armed = "none" /\ ~r.lifting /\ ~r.finger
           /\ r.due = <<a>> \o <<Lift>>
  BY <1>3, <1>5, Zenon DEF Lifting, HasRead
<1> QED BY <1>4, <1>5 DEF Lifting

(* The same of a scan.                                                      *)
LEMMA ScannedBehind ==
  ASSUME NEW r, NEW q, HasRead(r, q), NEW a \in Frames, Scanned(r, <<a>>)
  PROVE  Scanned(q, <<>>) /\ Head(r.due) = a
<1>1. Lift \in Frames /\ Sample \in Frames /\ ZeroSample \in Frames
  BY InFrames
<1>2. /\ Head(<<a>> \o <<Sample>>) = a
      /\ Tail(<<a>> \o <<Sample>>) = <<>> \o <<Sample>>
  BY Behind, <1>1
<1>3. /\ Head(<<a>> \o <<ZeroSample>>) = a
      /\ Tail(<<a>> \o <<ZeroSample>>) = <<>> \o <<ZeroSample>>
  BY Behind, <1>1
<1>4. /\ Head((<<a>> \o <<ZeroSample>>) \o <<Lift>>) = a
      /\ Tail((<<a>> \o <<ZeroSample>>) \o <<Lift>>)
           = (<<>> \o <<ZeroSample>>) \o <<Lift>>
  <2>1. <<a>> \o <<ZeroSample>> = <<a, ZeroSample>>
    BY Joined, <1>1
  <2>2. <<a, ZeroSample>> \o <<Lift>> = <<a, ZeroSample, Lift>>
    BY Joined, <1>1
  <2>3. <<>> \o <<ZeroSample>> = <<ZeroSample>>
    BY Joined, <1>1
  <2>4. <<ZeroSample>> \o <<Lift>> = <<ZeroSample, Lift>>
    BY Joined, <1>1
  <2>5. /\ Head(<<a, ZeroSample, Lift>>) = a
        /\ Tail(<<a, ZeroSample, Lift>>) = <<ZeroSample, Lift>>
    BY ThreeFrames
  <2> QED BY <2>1, <2>2, <2>3, <2>4, <2>5, Zenon
<1>5. CASE Scanning(r) /\ r.due = <<a>> \o <<Sample>>
  <2>1. Scanning(q)
    BY <1>5 DEF Scanning, HasRead
  <2> QED BY <1>2, <1>5, <2>1, Zenon DEF Scanned, HasRead
<1>6. CASE r.zeroed /\ Lifting(r, <<a>> \o <<ZeroSample>>)
  <2>1. CASE r.armed = "lift" /\ r.due = <<a>> \o <<ZeroSample>>
    BY <1>3, <1>6, <2>1, Zenon DEF Scanned, Lifting, HasRead
  <2>2. CASE /\ r.armed = "none" /\ ~r.lifting /\ ~r.finger
             /\ r.due = (<<a>> \o <<ZeroSample>>) \o <<Lift>>
    BY <1>4, <1>6, <2>2, Zenon DEF Scanned, Lifting, HasRead
  <2> QED BY <1>6, <2>1, <2>2 DEF Lifting
<1> QED BY <1>5, <1>6 DEF Scanned

(* What every step of the script keeps.                                     *)
LEMMA CommonKeeps ==
  ASSUME NEW g, NEW r, Common(g, r), g.expected # Touch,
         ExpectedEvent(g) # Touch, CommandOf(ExpectedEvent(g)) # "32",
         NEW q, HasRead(r, q),
         NEW k, UpToTwo(CapturesOf(k)) = UpToTwo(CapturesOf(g)),
         k.strays = g.strays
  PROVE  Common(k, q) /\ q.strays = k.strays
<1>1. r.strays = g.strays /\ g.strays = 0
  BY DEF Common
<1>2. q.strays = k.strays /\ k.strays = 0
  BY <1>1 DEF HasRead
<1> QED BY <1>1, <1>2 DEF Common, HasRead

-----------------------------------------------------------------------------
(* The script of an ACK.                                                    *)

(* What is common to all positions, after a frame that moves the graph on.  *)
LEMMA CommonMoves ==
  ASSUME NEW h, Ready(h), NEW r, Common(h, r), NEW q, HasRead(r, q),
         h.expected # Touch,
         ExpectedEvent(h) # Touch, CommandOf(ExpectedEvent(h)) # "32",
         NEW m, Ready(m), m.expected # Touch, m.transition = h.transition,
         m.observed = h.observed, m.strays = h.strays,
         m.transition # "none" \/ ~CommandIsNext(m)
  PROVE  Common(Settled(m), q) /\ q.strays = Settled(m).strays
<1> DEFINE k == Settled(m)
<1>1. /\ k.expected = m.expected /\ k.transition = m.transition
      /\ k.observed = m.observed /\ k.strays = m.strays
      /\ k.at = IF CommandIsNext(m) THEN "flying" ELSE "idle"
  BY SettledFields
<1>2. h.at = "idle"
  BY DEF Ready
<1> HIDE DEF k
<1>3. CapturesOf(k) = CapturesOf(h)
  BY <1>1, <1>2 DEF CapturesOf
<1>4. k.strays = h.strays
  BY <1>1
<1>5. Common(k, q) /\ q.strays = k.strays
  BY <1>3, <1>4, CommonKeeps
<1> QED BY <1>5 DEF k

(* The ACK is that of a command of the order.                               *)
LEMMA AckIsOrdered ==
  ASSUME NEW h, Ready(h), NEW c \in Commands, ExpectedEvent(h) = Ack(c), c # "32"
  PROVE  /\ Idle(h) /\ h.half = FALSE /\ h.rearm = "none"
         /\ h.expected = Ack(c) /\ h.expected # Touch /\ ExpectedEvent(h) # Touch
         /\ CommandOf(ExpectedEvent(h)) # "32" /\ Turn(h, c) /\ ~h.held
         /\ ExpectedEvent(h).kind = "ack" /\ ExpectedEvent(h).of = c
<1>1. /\ Ack(c).kind = "ack" /\ Ack(c).of = c /\ CommandOf(Ack(c)) = c
      /\ Ack(c) # Touch /\ Ack(c) # Primary /\ Ack(c) # Auxiliary /\ Ack(c) # Lift
      /\ Ack(c) # Ack("32")
  BY Kinds, CommandsOf
<1>2. ExpectedEvent(h).kind # "command"
  BY <1>1
<1>3. Idle(h) /\ h.rearm # "command" /\ h.rearm # "ack"
  BY <1>1, <1>2, Awaits
<1>4. h.rearm \in {"none", "command", "ack"}
  BY <1>3 DEF Idle, Graphs
<1>5. h.rearm = "none"
  BY <1>3, <1>4
<1>6. h.expected = Ack(c) /\ Place(h, Ack(c)) /\ h.half = FALSE
  BY <1>1, <1>2, <1>5, Awaits
<1>7. Turn(h, c) /\ ~h.held
  BY <1>1, <1>6 DEF Place
<1> QED BY <1>1, <1>3, <1>5, <1>6, <1>7

(* The transition that the turn of a command implies.                       *)
LEMMA TransitionOfTurn ==
  ASSUME NEW h, NEW c, Turn(h, c)
  PROVE  /\ c \in {"34", "36"} => /\ Taken(h) /\ h.pending
                                  /\ (h.transition = "first") = (h.observed = 1)
         /\ c = "36" => h.transition # "none" /\ h.observed # 1
         /\ c = "34" => h.transition # "none"
         /\ c \in {"20", "50", "32"} => h.transition # "none"
         /\ c = "50" => h.observed = 1
         /\ c = "32" => Lifted(h) /\ ((h.transition = "first") = (h.observed = 1))
<1> USE DEF Turn
<1>1. c \in {"34", "36"} => /\ Taken(h) /\ h.pending
                            /\ (h.transition = "first") = (h.observed = 1)
  BY DEF Taken
<1>2. c = "36" => h.transition # "none" /\ h.observed # 1
  BY DEF Taken
<1>3. c = "34" => h.transition # "none"
  BY DEF Taken
<1>4. c \in {"20", "50", "32"} => h.transition # "none"
  <2>1. Taken(h) => h.transition # "none"
    BY DEF Taken
  <2>2. Lifted(h) /\ h.observed # 0 => h.transition # "none"
    BY DEF Lifted
  <2>3. c \in {"20", "50", "32"} => Taken(h) \/ (Lifted(h) /\ h.observed # 0)
    OBVIOUS
  <2> QED BY <2>1, <2>2, <2>3
<1>5. c = "50" => h.observed = 1
  OBVIOUS
<1>6. c = "32" => Lifted(h) /\ ((h.transition = "first") = (h.observed = 1))
  BY DEF Lifted
<1> QED BY <1>1, <1>2, <1>3, <1>4, <1>5, <1>6

(* An ACK that judges nothing follows the script.                           *)
LEMMA AckIsFollowed ==
  ASSUME NEW h, Ready(h), NEW r, Script(h, r), NEW q, HasRead(r, q),
         NEW c \in Commands, ExpectedEvent(h) = Ack(c), c # "32",
         ~Judgement(h, c)
  PROVE  /\ Head(r.due) = Ack(c)
         /\ Script(Settled(Expecting(h, NextOf(h, c))), q)
<1> DEFINE e == NextOf(h, c) m == Expecting(h, e) k == Settled(m)
<1>1. /\ Idle(h) /\ h.half = FALSE /\ h.rearm = "none"
      /\ h.expected = Ack(c) /\ h.expected # Touch /\ ExpectedEvent(h) # Touch
      /\ CommandOf(ExpectedEvent(h)) # "32" /\ Turn(h, c)
      /\ ExpectedEvent(h).kind = "ack" /\ ExpectedEvent(h).of = c
  BY AckIsOrdered
<1>2. e \in Expectations /\ Place(h, e)
  BY <1>1, AckMoves
<1> HIDE DEF e
<1>3. /\ Ready(m) /\ m.expected = e /\ m.rearm = "none" /\ m.half = FALSE
      /\ m.transition = h.transition /\ m.pending = h.pending
      /\ m.observed = h.observed /\ m.strays = h.strays
  BY <1>1, <1>2, Moves
<1> HIDE DEF m
<1>4. /\ k.expected = e /\ k.pending = h.pending /\ k.half = FALSE
      /\ k.observed = h.observed /\ k.rearm = "none" /\ k.failed = FALSE
      /\ k.at = IF CommandIsNext(m) THEN "flying" ELSE "idle"
      /\ ExpectedEvent(k) = ExpectedEvent(m)
  <2>1. m.failed = FALSE
    BY <1>3 DEF Ready, Ordered, Going, Graphs
  <2> QED BY <1>3, <2>1, SettledFields
<1>5. ExpectedEvent(m) = e
  <2>1. m.failed = FALSE
    BY <1>3 DEF Ready, Ordered, Going, Graphs
  <2> QED BY <1>3, <2>1 DEF ExpectedEvent
<1>6. Common(h, r) /\ Owing(h, r, c)
  <2>1. Common(h, r) /\ Position(h, r)
    BY DEF Script
  <2> QED BY <1>1, <2>1, Positions
<1> HIDE DEF k
<1>7. c \in {"20", "22", "34", "36", "50"}
  BY DEF Commands
<1>8. CASE c = "22"
  <2>1. e = Primary /\ e # Touch /\ e.kind = "primary"
    BY <1>8, Kinds DEF e, NextOf
  <2>2. Common(k, q)
    <3>1. ~CommandIsNext(m)
      BY <1>5, <2>1 DEF CommandIsNext
    <3> QED BY <1>1, <1>3, <1>6, <2>1, <3>1, CommonMoves DEF k
  <2>3. /\ Quieted(r) /\ r.releases = 0 /\ r.arms = 0 /\ ~r.zeroed
        /\ r.due \in {<<Ack("22"), Plain("whole")>>,
                      <<Ack("22"), Plain("half"), Plain("half")>>}
    BY <1>6, <1>8, Owings
  <2>4. /\ Head(<<Ack("22"), Plain("whole")>>) = Ack("22")
        /\ Tail(<<Ack("22"), Plain("whole")>>) = <<Plain("whole")>>
    BY TwoFrames
  <2>5. /\ Head(<<Ack("22"), Plain("half"), Plain("half")>>) = Ack("22")
        /\ Tail(<<Ack("22"), Plain("half"), Plain("half")>>)
             = <<Plain("half"), Plain("half")>>
    BY ThreeFrames
  <2>6. /\ Head(r.due) = Ack("22")
        /\ q.due \in {<<Plain("whole")>>, <<Plain("half"), Plain("half")>>}
    BY <2>3, <2>4, <2>5, Zenon DEF HasRead
  <2>7. Quieted(q) /\ q.releases = 0 /\ q.arms = 0 /\ ~q.zeroed
    BY <2>3 DEF HasRead, Quieted
  <2>8. Answering(k, q)
    BY <1>4, <2>1, <2>6, <2>7, Answerings
  <2>9. Position(k, q)
    BY <1>4, <1>5, <2>1, <2>8, Positions
  <2> QED BY <1>8, <2>2, <2>6, <2>9 DEF Script, k, m, e
<1>9. CASE c = "36"
  <2>1. e = Sample /\ e # Touch /\ e.kind = "irq0100"
    BY <1>9, Kinds DEF e, NextOf
  <2>2. Common(k, q)
    <3>1. ~CommandIsNext(m)
      BY <1>5, <2>1 DEF CommandIsNext
    <3> QED BY <1>1, <1>3, <1>6, <2>1, <3>1, CommonMoves DEF k
  <2>3. Scanned(r, <<Ack("36")>>) /\ Ack("36") \in Frames
    BY <1>6, <1>9, Owings, InFrames
  <2>4. Scanned(q, <<>>) /\ Head(r.due) = Ack("36")
    BY <2>3, ScannedBehind
  <2>5. Position(k, q)
    BY <1>4, <1>5, <2>1, <2>4, Answerings, Positions
  <2> QED BY <1>9, <2>2, <2>4, <2>5 DEF Script, k, m, e
<1>10. CASE c = "20"
  <2>1. e = Auxiliary /\ e # Touch /\ e.kind = "auxiliary"
    BY <1>10, Kinds DEF e, NextOf
  <2>2. Common(k, q)
    <3>1. ~CommandIsNext(m)
      BY <1>5, <2>1 DEF CommandIsNext
    <3> QED BY <1>1, <1>3, <1>6, <2>1, <3>1, CommonMoves DEF k
  <2>3. /\ r.due = <<Ack("20"), Plain("whole")>>
        /\ IF h.pending THEN Scanning(r) ELSE Quieted(r) /\ r.arms = 0
    BY <1>6, <1>10, Owings
  <2>4. /\ Head(<<Ack("20"), Plain("whole")>>) = Ack("20")
        /\ Tail(<<Ack("20"), Plain("whole")>>) = <<Plain("whole")>>
    BY TwoFrames
  <2>5. Head(r.due) = Ack("20") /\ q.due = <<Plain("whole")>>
    BY <2>3, <2>4, Zenon DEF HasRead
  <2>6. IF k.pending THEN Scanning(q) ELSE Quieted(q) /\ q.arms = 0
    BY <1>4, <2>3 DEF HasRead, Scanning, Quieted
  <2>7. Answering(k, q)
    BY <1>4, <2>1, <2>5, <2>6, Answerings
  <2>8. Position(k, q)
    BY <1>4, <1>5, <2>1, <2>7, Positions
  <2> QED BY <1>10, <2>2, <2>5, <2>8 DEF Script, k, m, e
<1>11. CASE c = "50"
  <2>1. e = Nav /\ e # Touch /\ e.kind = "nav"
    BY <1>11, Kinds DEF e, NextOf
  <2>2. Common(k, q)
    <3>1. ~CommandIsNext(m)
      BY <1>5, <2>1 DEF CommandIsNext
    <3> QED BY <1>1, <1>3, <1>6, <2>1, <3>1, CommonMoves DEF k
  <2>3. /\ r.due = <<Ack("50"), Nav>> /\ r.armed = "touch"
        /\ ~r.lifting /\ r.arms = 1
    BY <1>6, <1>11, Owings
  <2>4. Head(<<Ack("50"), Nav>>) = Ack("50") /\ Tail(<<Ack("50"), Nav>>) = <<Nav>>
    BY TwoFrames
  <2>5. /\ Head(r.due) = Ack("50") /\ q.due = <<Nav>> /\ q.armed = "touch"
        /\ ~q.lifting /\ q.arms = 1
    BY <2>3, <2>4, Zenon DEF HasRead
  <2>6. Position(k, q)
    BY <1>4, <1>5, <2>1, <2>5, Answerings, Positions
  <2> QED BY <1>11, <2>2, <2>5, <2>6 DEF Script, k, m, e
<1>12. CASE c = "34"
  <2>1. e = Command("36") /\ e # Touch /\ e.kind = "command" /\ e.of = "36"
    BY <1>12, Kinds DEF e, NextOf
  <2>2. h.transition # "first" /\ ~h.afterAux /\ h.observed # 1
        /\ h.transition # "none"
    BY <1>1, <1>12, TransitionOfTurn DEF Judgement
  <2>3. Common(k, q) /\ q.strays = k.strays
    BY <1>1, <1>3, <1>6, <2>1, <2>2, CommonMoves DEF k
  <2>4. Scanning(r) /\ r.due = <<Ack("34")>>
    BY <1>6, <1>12, <2>2, Owings
  <2>5. Head(<<Ack("34")>>) = Ack("34") /\ Tail(<<Ack("34")>>) = <<>>
    BY OneFrame
  <2>6. Head(r.due) = Ack("34") /\ q.due = <<>>
    BY <2>4, <2>5, Zenon DEF HasRead
  <2>7. Scanning(q)
    BY <2>4 DEF Scanning, HasRead
  <2>8. k.at = "flying"
    BY <1>4, <1>5, <2>1 DEF CommandIsNext
  <2>9. Position(k, q)
    BY <1>4, <1>5, <2>1, <2>3, <2>6, <2>7, <2>8, Befores, Positions
  <2> QED BY <1>12, <2>3, <2>6, <2>9 DEF Script, k, m, e
<1> QED BY <1>7, <1>8, <1>9, <1>10, <1>11, <1>12

(* The ACK with which the image is judged.                                  *)
LEMMA JudgementIsFollowed ==
  ASSUME NEW h, Ready(h), NEW r, Script(h, r), NEW q, HasRead(r, q),
         ExpectedEvent(h) = Ack("34"), Judgement(h, "34"),
         NEW m, Ready(m), m.expected = Lift, m.rearm = "none",
         m.transition # "none", m.observed = h.observed, m.strays = h.strays
  PROVE  Head(r.due) = Ack("34") /\ Script(Settled(m), q)
<1> DEFINE k == Settled(m)
<1>1. /\ h.expected # Touch /\ ExpectedEvent(h) # Touch
      /\ CommandOf(ExpectedEvent(h)) # "32" /\ Turn(h, "34")
      /\ ExpectedEvent(h).kind = "ack" /\ ExpectedEvent(h).of = "34"
  BY AckIsOrdered DEF Commands
<1>2. /\ k.expected = Lift /\ k.observed = h.observed /\ k.strays = h.strays
      /\ k.transition # "none" /\ ExpectedEvent(k) = Lift /\ Lift.kind = "irq0200"
  <2>1. m.failed = FALSE
    BY DEF Ready, Ordered, Going, Graphs
  <2>2. ExpectedEvent(m) = Lift
    BY <2>1 DEF ExpectedEvent
  <2> QED BY <2>2, SettledFields, Kinds
<1> HIDE DEF k
<1>3. Common(h, r) /\ Owing(h, r, "34")
  <2>1. Common(h, r) /\ Position(h, r)
    BY DEF Script
  <2> QED BY <1>1, <2>1, Positions
<1>4. /\ h.transition # "none" /\ ((h.transition = "first") = (h.observed = 1))
      /\ h.observed = 1 \/ h.afterAux
  BY <1>1, TransitionOfTurn DEF Judgement
<1>5. Lifting(r, <<Ack("34")>>) /\ (h.observed = 1 => r.arms = 0)
  BY <1>3, <1>4, Owings
<1>6. Lifting(q, <<>>) /\ Head(r.due) = Ack("34")
  BY <1>5, LiftingBehind, InFrames DEF Commands
<1>7. Common(k, q)
  <2>1. CapturesOf(k) = CapturesOf(h)
    BY <1>2, <1>4 DEF CapturesOf
  <2> QED BY <1>1, <1>2, <1>3, <2>1, CommonKeeps
<1>8. Position(k, q)
  BY <1>2, <1>5, <1>6, Answerings, Positions DEF HasRead
<1> QED BY <1>6, <1>7, <1>8 DEF Script, k

(* The late lift is read from among the frames of a wait.                   *)
LEMMA LateTails ==
  ASSUME NEW due, due # <<>>, Head(due) = Lift
  PROVE  /\ due \in Quiet => Tail(due) \in Quiet /\ ~In(Lift, Tail(due))
         /\ due \in Arrived => Tail(due) \in Arrived /\ ~In(Lift, Tail(due))
         /\ due \in Strayed => Tail(due) \in Strayed /\ ~In(Lift, Tail(due))
         /\ due \in QuietAck => Tail(due) \in QuietAck /\ ~In(Lift, Tail(due))
         /\ due \in TouchedAck => Tail(due) \in TouchedAck /\ ~In(Lift, Tail(due))
         /\ due \in StrayedAck => Tail(due) \in StrayedAck /\ ~In(Lift, Tail(due))
<1>1. ASSUME due \in Quiet
      PROVE  Tail(due) \in Quiet /\ ~In(Lift, Tail(due))
  <2>1. Tail(due) = <<>> /\ <<>> \in Quiet
    BY <1>1, WaitTails DEF Quiet
  <2> QED BY <2>1, NoFrame
<1>2. ASSUME due \in Arrived
      PROVE  Tail(due) \in Arrived /\ ~In(Lift, Tail(due))
  <2>1. Tail(due) = <<Touch>> /\ <<Touch>> \in Arrived
    BY <1>2, WaitTails, FramesDiffer DEF Arrived
  <2>2. ~In(Lift, <<Touch>>)
    BY <2>1, WhereLift
  <2> QED BY <2>1, <2>2
<1>3. ASSUME due \in Strayed
      PROVE  Tail(due) \in Strayed /\ ~In(Lift, Tail(due))
  <2>1. Tail(due) = <<Stray>> /\ <<Stray>> \in Strayed
    BY <1>3, WaitTails, FramesDiffer DEF Strayed
  <2>2. ~In(Lift, <<Stray>>)
    BY <2>1, WhereLift
  <2> QED BY <2>1, <2>2
<1>4. ASSUME due \in QuietAck
      PROVE  Tail(due) \in QuietAck /\ ~In(Lift, Tail(due))
  <2>1. Tail(due) = <<A>> /\ <<A>> \in QuietAck
    BY <1>4, AckTails, FramesDiffer DEF QuietAck
  <2>2. ~In(Lift, <<A>>)
    BY <2>1, WhereLift
  <2> QED BY <2>1, <2>2
<1>5. ASSUME due \in TouchedAck
      PROVE  Tail(due) \in TouchedAck /\ ~In(Lift, Tail(due))
  <2>1. Tail(due) = <<A, Touch>> /\ <<A, Touch>> \in TouchedAck
    BY <1>5, AckTails, FramesDiffer DEF TouchedAck
  <2>2. ~In(Lift, <<A, Touch>>)
    BY <2>1, WhereLift
  <2> QED BY <2>1, <2>2
<1>6. ASSUME due \in StrayedAck
      PROVE  Tail(due) \in StrayedAck /\ ~In(Lift, Tail(due))
  <2>1. Tail(due) = <<A, Stray>> /\ <<A, Stray>> \in StrayedAck
    BY <1>6, AckTails, FramesDiffer DEF StrayedAck
  <2>2. ~In(Lift, <<A, Stray>>)
    BY <2>1, WhereLift
  <2> QED BY <2>1, <2>2
<1> QED BY <1>1, <1>2, <1>3, <1>4, <1>5, <1>6

Waits(h) ==
  \/ ExpectedEvent(h) = Touch
  \/ ExpectedEvent(h) = A /\ ~(h.observed = 1 /\ ~h.navSeen)

(* What the reader may have put into a wait, by the frame read first.       *)
LEMMA WaitsFor ==
  ASSUME NEW h, Ready(h), Waits(h), NEW r, Script(h, r)
  PROVE  /\ OneLate(h, r) /\ Common(h, r)
         /\ ExpectedEvent(h) = Touch => Waiting(h, r, Quiet, Arrived, Strayed)
                                        /\ h.expected = Touch
         /\ ExpectedEvent(h) = A => Waiting(h, r, QuietAck, TouchedAck, StrayedAck)
<1>1. Common(h, r) /\ Position(h, r)
  BY DEF Script
<1>2. CASE ExpectedEvent(h) = Touch
  <2>1. ExpectedEvent(h).kind # "command" /\ ExpectedEvent(h).kind # "ack"
        /\ ExpectedEvent(h) # A
    BY <1>2, Kinds, FramesDiffer
  <2>2. h.rearm # "ack" /\ h.rearm # "command"
    BY <2>1, Awaits DEF A
  <2>3. h.rearm = "none"
    BY <2>2 DEF Ready, Graphs
  <2>4. h.expected = Touch
    BY <1>2, <2>1, <2>3, Awaits
  <2>5. Answering(h, r)
    BY <1>1, <2>1, Positions
  <2> QED BY <1>1, <2>1, <2>4, <2>5, Answerings
<1>3. CASE ExpectedEvent(h) = A /\ ~(h.observed = 1 /\ ~h.navSeen)
  <2>1. ExpectedEvent(h).kind = "ack" /\ ExpectedEvent(h).of = "32"
    BY <1>3, Kinds DEF A
  <2>2. Owing(h, r, "32")
    BY <1>1, <2>1, Positions
  <2> QED BY <1>1, <1>3, <2>2, Owings, FramesDiffer
<1> QED BY <1>2, <1>3 DEF Waits

(* A late lift that is let pass follows the script.                         *)
LEMMA LateIsFollowed ==
  ASSUME NEW h, Ready(h), Waits(h), NEW r \in Readers, r.due # <<>>,
         Head(r.due) = Lift, Script(h, r), NEW q, HasRead(r, q)
  PROVE  h.window /\ ~h.late /\ Script(Settled(Late(h)), q)
<1> DEFINE m == Late(h) k == Settled(m)
<1>1. OneLate(h, r) /\ Common(h, r)
  BY WaitsFor
<1>2. In(Lift, r.due)
  <2>1. r.due \in Seq(Frames)
    BY DEF Readers, Frames
  <2> QED BY <2>1, InTail
<1>3. h.window /\ ~h.late
  BY <1>1, <1>2 DEF OneLate
<1>4. ~r.lifting /\ (r.armed = "lift" => ~r.finger)
  BY <1>1, <1>2 DEF OneLate
<1>5. ExpectedEvent(h).kind # "command" /\ ~CommandIsNext(h)
  BY Kinds DEF Waits, A, CommandIsNext
<1>6. /\ Ready(m) /\ ExpectedEvent(m) = ExpectedEvent(h)
      /\ CommandIsNext(m) = FALSE
      /\ m.expected = h.expected /\ m.rearm = h.rearm
      /\ m.observed = h.observed /\ m.transition = h.transition
      /\ m.strays = h.strays /\ m.navSeen = h.navSeen
  BY <1>3, <1>5, LateIsLetPass
<1> HIDE DEF m
<1>7. /\ ExpectedEvent(k) = ExpectedEvent(h) /\ k.at = "idle"
      /\ k.expected = h.expected /\ k.observed = h.observed
      /\ k.transition = h.transition /\ k.strays = h.strays
      /\ k.navSeen = h.navSeen
  BY <1>6, SettledFields
<1> HIDE DEF k
<1>8. Common(k, q)
  <2>1. CapturesOf(k) = CapturesOf(h)
    BY <1>7 DEF CapturesOf, Ready
  <2> QED BY <1>1, <1>7, <2>1 DEF Common, HasRead
<1>9. ~In(Lift, q.due) => OneLate(k, q)
  BY <1>4 DEF OneLate, HasRead
<1>10. CASE ExpectedEvent(h) = Touch
  <2>1. Waiting(h, r, Quiet, Arrived, Strayed) /\ h.expected = Touch
    BY <1>10, WaitsFor
  <2>2. /\ r.due \in Quiet \/ r.due \in Arrived \/ r.due \in Strayed
        /\ r.due \in Quiet => Tail(r.due) \in Quiet /\ ~In(Lift, Tail(r.due))
        /\ r.due \in Arrived => Tail(r.due) \in Arrived /\ ~In(Lift, Tail(r.due))
        /\ r.due \in Strayed => Tail(r.due) \in Strayed /\ ~In(Lift, Tail(r.due))
    BY <2>1, LateTails DEF Waiting
  <2>3. Waiting(k, q, Quiet, Arrived, Strayed) /\ ~In(Lift, q.due)
    BY <1>7, <2>1, <2>2 DEF Waiting, HasRead
  <2>4. ExpectedEvent(k).kind # "ack" /\ ExpectedEvent(k).kind # "command"
    BY <1>7, <1>10, Kinds
  <2>5. Answering(k, q)
    BY <1>7, <1>9, <2>1, <2>3, Answerings
  <2>6. Position(k, q)
    BY <2>4, <2>5, Positions
  <2> QED BY <1>3, <1>8, <2>6 DEF Script, k, m
<1>11. CASE ExpectedEvent(h) = A
  <2>1. Waiting(h, r, QuietAck, TouchedAck, StrayedAck)
    BY <1>11, WaitsFor
  <2>2. /\ r.due \in QuietAck \/ r.due \in TouchedAck \/ r.due \in StrayedAck
        /\ r.due \in QuietAck => Tail(r.due) \in QuietAck /\ ~In(Lift, Tail(r.due))
        /\ r.due \in TouchedAck =>
             Tail(r.due) \in TouchedAck /\ ~In(Lift, Tail(r.due))
        /\ r.due \in StrayedAck =>
             Tail(r.due) \in StrayedAck /\ ~In(Lift, Tail(r.due))
    BY <2>1, LateTails DEF Waiting
  <2>3. Waiting(k, q, QuietAck, TouchedAck, StrayedAck) /\ ~In(Lift, q.due)
    BY <1>7, <2>1, <2>2 DEF Waiting, HasRead
  <2>4. ~(k.observed = 1 /\ ~k.navSeen)
    BY <1>7, <1>11, FramesDiffer DEF Waits
  <2>5. Owing(k, q, "32")
    BY <1>9, <2>3, <2>4, Owings
  <2>6. ExpectedEvent(k).kind = "ack" /\ ExpectedEvent(k).of = "32"
    BY <1>7, <1>11, Kinds DEF A
  <2>7. Position(k, q)
    BY <2>5, <2>6, Positions
  <2> QED BY <1>3, <1>8, <2>7 DEF Script, k, m
<1> QED BY <1>10, <1>11 DEF Waits

(* The other frames of a wait: its ACK, the touch, and a stray.             *)
LEMMA WaitHeads ==
  ASSUME NEW due, due # <<>>, Head(due) # Lift
  PROVE  /\ due \notin Quiet
         /\ due \in Arrived => Head(due) = Touch /\ Tail(due) = <<>>
         /\ due \in Strayed => Head(due) = Stray /\ Tail(due) \in Quiet
         /\ due \in QuietAck => Head(due) = A /\ Tail(due) \in Quiet
         /\ due \in TouchedAck => Head(due) = A /\ Tail(due) \in Arrived
         /\ due \in StrayedAck => Head(due) = A /\ Tail(due) \in Strayed
<1>1. due \notin Quiet
  BY WaitTails
<1>2. due \in Arrived => Head(due) = Touch /\ Tail(due) = <<>>
  BY WaitTails
<1>3. due \in Strayed => Head(due) = Stray /\ Tail(due) \in Quiet
  BY WaitTails
<1>4. due \in QuietAck => Head(due) = A /\ Tail(due) \in Quiet
  BY AckTails
<1>5. due \in TouchedAck => Head(due) = A /\ Tail(due) \in Arrived
  BY AckTails
<1>6. due \in StrayedAck => Head(due) = A /\ Tail(due) \in Strayed
  BY AckTails
<1> QED BY <1>1, <1>2, <1>3, <1>4, <1>5, <1>6

(* A frame that is not the lift does not change where the lift is.          *)
LEMMA LateStays ==
  ASSUME NEW r \in Readers, r.due # <<>>, Head(r.due) # Lift,
         NEW q, HasRead(r, q), NEW h, OneLate(h, r),
         NEW k, k.window = h.window, k.late = h.late
  PROVE  OneLate(k, q)
<1>1. r.due \in Seq(Frames)
  BY DEF Readers, Frames
<1>2. In(Lift, r.due) <=> In(Lift, q.due)
  BY <1>1, InTail DEF HasRead
<1> QED BY <1>2 DEF OneLate, HasRead

(* What is expected after the ACK of a 32.                                  *)
LEMMA AckOfWait ==
  ASSUME NEW h, Ready(h), ExpectedEvent(h) = A
  PROVE  /\ ExpectedEvent(h).kind = "ack" /\ ExpectedEvent(h).of = "32"
         /\ h.expected = Touch \/ h.transition # "none"
         /\ h.rearm = "none" => Turn(h, "32") /\ ~h.held /\ h.expected = A
         /\ h.rearm \in {"none", "ack"} /\ A # Touch /\ h.half = FALSE /\ Idle(h)
<1>1. A.kind = "ack" /\ A.of = "32" /\ CommandOf(A) = "32" /\ A # Primary
      /\ A # Auxiliary /\ A # Touch /\ A # Lift
  BY Kinds, CommandsOf DEF A
<1>2. /\ Idle(h) /\ h.rearm # "command" /\ h.half = FALSE
      /\ h.rearm = "none" => h.expected = A /\ Place(h, A)
      /\ h.rearm = "ack" => h.expected = Touch
  BY <1>1, Awaits
<1>3. h.rearm \in {"none", "ack"}
  BY <1>2 DEF Idle, Graphs
<1>4. h.rearm = "none" => Turn(h, "32") /\ ~h.held
  BY <1>1, <1>2 DEF Place
<1>5. h.rearm = "none" => h.transition # "none"
  BY <1>4, TransitionOfTurn
<1> QED BY <1>1, <1>2, <1>3, <1>4, <1>5

(* The ACK of a 32 follows the script.                                      *)
LEMMA WaitIsFollowed ==
  ASSUME NEW h, Ready(h), ExpectedEvent(h) = A, Waits(h), NEW r \in Readers,
         r.due # <<>>, Head(r.due) # Lift, Script(h, r), NEW q, HasRead(r, q),
         NEW m, Ready(m), m.expected = Touch, m.rearm = "none",
         m.observed = h.observed, m.transition = h.transition,
         m.strays = h.strays, m.window = h.window, m.late = h.late
  PROVE  Head(r.due) = A /\ Script(Settled(m), q)
<1> DEFINE k == Settled(m)
<1>1. /\ OneLate(h, r) /\ Common(h, r)
      /\ Waiting(h, r, QuietAck, TouchedAck, StrayedAck)
  BY WaitsFor
<1>2. m.failed = FALSE /\ Touch.kind = "irq0002"
  BY Kinds DEF Ready, Ordered, Going, Graphs
<1>3. ExpectedEvent(m) = Touch
  BY <1>2 DEF ExpectedEvent
<1>4. /\ k.expected = Touch /\ k.observed = h.observed
      /\ k.transition = h.transition /\ k.strays = h.strays
      /\ k.window = h.window /\ k.late = h.late /\ ExpectedEvent(k) = Touch
      /\ k.at = "idle"
  BY <1>2, <1>3, SettledFields DEF CommandIsNext
<1> HIDE DEF k
<1>5. h.expected = Touch \/ h.transition # "none"
  BY AckOfWait
<1>6. Common(k, q)
  <2>1. CapturesOf(k) = CapturesOf(h)
    BY <1>4, <1>5 DEF CapturesOf
  <2> QED BY <1>1, <1>4, <2>1 DEF Common, HasRead
<1>7. OneLate(k, q)
  BY <1>1, <1>4, LateStays
<1>8. /\ r.due \in QuietAck \/ r.due \in TouchedAck \/ r.due \in StrayedAck
      /\ r.due \in QuietAck => Head(r.due) = A /\ Tail(r.due) \in Quiet
      /\ r.due \in TouchedAck => Head(r.due) = A /\ Tail(r.due) \in Arrived
      /\ r.due \in StrayedAck => Head(r.due) = A /\ Tail(r.due) \in Strayed
  BY <1>1, WaitHeads DEF Waiting
<1>9. Waiting(k, q, Quiet, Arrived, Strayed) /\ Head(r.due) = A
  BY <1>1, <1>4, <1>8 DEF Waiting, HasRead
<1>10. Position(k, q)
  BY <1>2, <1>4, <1>7, <1>9, Answerings, Positions
<1> QED BY <1>6, <1>9, <1>10 DEF Script, k

(* The 32 before the navigation.                                            *)
LEMMA NavigationIsFollowed ==
  ASSUME NEW h, Ready(h), ExpectedEvent(h) = A, h.observed = 1, ~h.navSeen,
         h.rearm = "none", NEW r, Script(h, r), NEW q, HasRead(r, q),
         NEW m, Ready(m), m.expected = Command("50"), m.rearm = "none",
         m.observed = h.observed, m.transition = h.transition,
         m.strays = h.strays
  PROVE  Head(r.due) = A /\ Script(Settled(m), q)
<1> DEFINE k == Settled(m)
<1>1. /\ ExpectedEvent(h).kind = "ack" /\ ExpectedEvent(h).of = "32"
      /\ Turn(h, "32")
  BY AckOfWait
<1>2. h.transition # "none"
  BY <1>1, TransitionOfTurn
<1>3. Common(h, r) /\ Owing(h, r, "32")
  <2>1. Common(h, r) /\ Position(h, r)
    BY DEF Script
  <2> QED BY <1>1, <2>1, Positions
<1>4. /\ r.due = <<A>> /\ ~r.lifting /\ r.armed = "touch"
      /\ r.arms = 1 /\ r.strays = h.strays
  BY <1>3, Owings
<1>5. Head(<<A>>) = A /\ Tail(<<A>>) = <<>>
  BY OneFrame
<1>6. Head(r.due) = A /\ q.due = <<>>
  BY <1>4, <1>5, Zenon DEF HasRead
<1>7. /\ Command("50").kind = "command" /\ Command("50").of = "50"
      /\ Command("50") # Touch /\ A # Touch
  BY Kinds, FramesDiffer
<1>8. ExpectedEvent(m) = Command("50")
  <2>1. m.failed = FALSE
    BY DEF Ready, Ordered, Going, Graphs
  <2> QED BY <2>1 DEF ExpectedEvent
<1>9. /\ k.expected = Command("50") /\ k.observed = h.observed
      /\ k.transition = h.transition /\ k.strays = h.strays
      /\ ExpectedEvent(k) = Command("50") /\ k.at = "flying"
  BY <1>7, <1>8, SettledFields DEF CommandIsNext
<1> HIDE DEF k
<1>10. Common(k, q) /\ q.strays = k.strays
  <2>1. CapturesOf(k) = CapturesOf(h)
    BY <1>2, <1>9 DEF CapturesOf
  <2>2. q.strays = k.strays
    BY <1>4, <1>9 DEF HasRead
  <2>3. h.expected # Touch
    BY <1>7, AckOfWait
  <2> QED BY <1>3, <1>9, <2>1, <2>2, <2>3 DEF Common, HasRead
<1>11. Before(k, q, "50")
  BY <1>4, <1>6, Befores DEF HasRead
<1>12. Position(k, q)
  BY <1>7, <1>9, <1>10, <1>11, Positions
<1> QED BY <1>6, <1>10, <1>12 DEF Script, k

(* A touch that was waited for follows the script.                          *)
LEMMA TouchIsFollowed ==
  ASSUME NEW h, Ready(h), ExpectedEvent(h) = Touch, NEW r \in Readers,
         r.due # <<>>, Head(r.due) # Lift, Script(h, r), NEW q, HasRead(r, q)
  PROVE  \/ Head(r.due) = Touch /\ Script(Settled(TouchSeen(h)), q)
         \/ /\ Head(r.due) = Stray /\ StrayMayPass(h)
            /\ Script(Settled(Strayed1(h)), q)
<1>1. Waits(h)
  BY DEF Waits
<1>2. /\ OneLate(h, r) /\ Common(h, r) /\ h.expected = Touch
      /\ Waiting(h, r, Quiet, Arrived, Strayed)
  BY <1>1, WaitsFor
<1>3. CASE r.due \in Arrived
  <2> DEFINE m == TouchSeen(h) k == Settled(m)
  <2>1. /\ Ready(m) /\ m.expected = Command("22") /\ m.rearm = "none"
        /\ m.transition = "none" /\ m.strays = 0 /\ m.observed = h.observed
    BY TouchTakes
  <2> HIDE DEF m
  <2>2. /\ Command("22").kind = "command" /\ Command("22").of = "22"
        /\ Command("22") # Touch
    BY Kinds
  <2>3. ExpectedEvent(m) = Command("22")
    <3>1. m.failed = FALSE
      BY <2>1 DEF Ready, Ordered, Going, Graphs
    <3> QED BY <2>1, <3>1 DEF ExpectedEvent
  <2>4. /\ k.expected = Command("22") /\ k.observed = h.observed
        /\ k.transition = "none" /\ k.strays = 0
        /\ ExpectedEvent(k) = Command("22") /\ k.at = "flying"
    BY <2>1, <2>2, <2>3, SettledFields DEF CommandIsNext
  <2> HIDE DEF k
  <2>5. Head(r.due) = Touch /\ Tail(r.due) = <<>>
    BY <1>3, WaitHeads
  <2>6. r.armed = "none" /\ ~r.lifting /\ r.strays = 0
    <3>1. r.due \notin Quiet /\ r.due \notin Strayed
      BY <2>5, WaitHeads, FramesDiffer
    <3> QED BY <1>2, <3>1 DEF Waiting
  <2>7. Common(k, q) /\ q.strays = k.strays
    <3>1. CapturesOf(k) = CapturesOf(h)
      BY <1>2, <2>4 DEF CapturesOf
    <3> QED BY <1>2, <2>4, <2>6, <3>1 DEF Common, HasRead
  <2>8. Before(k, q, "22")
    BY <2>5, <2>6, Befores DEF HasRead, Quieted
  <2>9. Position(k, q)
    BY <2>2, <2>4, <2>7, <2>8, Positions
  <2> QED BY <2>5, <2>7, <2>9 DEF Script, k, m
<1>4. CASE r.due \in Strayed
  <2> DEFINE m == Strayed1(h) k == Settled(m)
  <2>1. Head(r.due) = Stray /\ Tail(r.due) \in Quiet
    BY <1>4, WaitHeads
  <2>2. r.armed = "none" /\ r.strays = h.strays + 1
    <3>1. r.due \notin Quiet /\ r.due \notin Arrived
      BY <2>1, WaitHeads, FramesDiffer
    <3> QED BY <1>2, <3>1 DEF Waiting
  <2>3. StrayMayPass(h)
    <3>1. r.strays <= Irq80Limit /\ h.strays \in Nat /\ Irq80Limit \in Nat
      BY <1>2, BoundAssumption DEF Common, Ready, Graphs
    <3>2. h.down = h.current
      <4>1. Place(h, Touch)
        BY <1>2 DEF Ready, Ordered
      <4>2. CommandOf(Touch) = "none" /\ Touch # Lift
        BY CommandsOf, FramesDiffer
      <4>3. Lifted(h)
        BY <4>1, <4>2 DEF Place, Turn
      <4> QED BY <4>3 DEF Lifted, Tables
    <3> QED BY <2>2, <3>1, <3>2 DEF StrayMayPass
  <2>4. /\ Ready(m) /\ m.expected = Touch /\ m.rearm = "command"
        /\ m.observed = h.observed /\ m.transition = h.transition
        /\ m.strays = h.strays + 1 /\ m.navSeen = h.navSeen
        /\ m.window = h.window /\ m.late = h.late
    BY <2>3, StrayRearms
  <2> HIDE DEF m
  <2>5. /\ Command("32").kind = "command" /\ Command("32").of = "32"
        /\ CommandOf(Command("32")) = "32"
    BY Kinds, CommandsOf
  <2>6. ExpectedEvent(m) = Command("32")
    <3>1. m.failed = FALSE
      BY <2>4 DEF Ready, Ordered, Going, Graphs
    <3> QED BY <2>4, <3>1 DEF ExpectedEvent
  <2>7. /\ k.expected = Touch /\ k.observed = h.observed
        /\ k.transition = h.transition /\ k.strays = h.strays + 1
        /\ k.window = h.window /\ k.late = h.late /\ k.rearm = "command"
        /\ ExpectedEvent(k) = Command("32") /\ k.at = "flying"
    BY <2>4, <2>5, <2>6, SettledFields DEF CommandIsNext
  <2> HIDE DEF k
  <2>8. Common(k, q) /\ q.strays = k.strays
    <3>1. CapturesOf(k) = CapturesOf(h)
      BY <1>2, <2>7 DEF CapturesOf
    <3> QED BY <1>2, <2>2, <2>5, <2>7, <3>1 DEF Common, HasRead
  <2>9. OneLate(k, q)
    BY <1>2, <2>7, LateStays
  <2>10. Before(k, q, "32")
    <3>1. q.armed = "none" /\ q.due \in Quiet /\ (k.observed = 1 => q.arms = 2)
      BY <1>2, <2>1, <2>2, <2>7 DEF HasRead, Waiting
    <3> QED BY <2>7, <2>9, <3>1, Befores
  <2>11. Position(k, q)
    BY <2>5, <2>7, <2>8, <2>10, Positions
  <2> QED BY <2>1, <2>3, <2>8, <2>11 DEF Script, k, m
<1>5. r.due \in Arrived \/ r.due \in Strayed
  BY <1>2, WaitHeads DEF Waiting
<1> QED BY <1>3, <1>4, <1>5

-----------------------------------------------------------------------------
(* The script of an image and of an event.                                  *)

(* An event that is expected for a command belongs to the turn of that      *)
(* command.                                                                 *)
LEMMA EventIsOrdered ==
  ASSUME NEW h, Ready(h),
         NEW e \in {Primary, Auxiliary, Sample, Nav, Lift}, ExpectedEvent(h) = e
  PROVE  /\ h.expected = e /\ h.rearm = "none" /\ e # Touch
         /\ e.kind # "ack" /\ e.kind # "command"
         /\ h.expected # Touch /\ ExpectedEvent(h) # Touch
         /\ CommandOf(ExpectedEvent(h)) # "32" /\ h.at = "idle" /\ Place(h, e)
         /\ \A r : Script(h, r) => Common(h, r) /\ Answering(h, r)
<1>1. /\ e.kind # "ack" /\ e.kind # "command" /\ e # Touch
      /\ CommandOf(e) # "32" /\ e # Ack("32")
  BY Kinds, CommandsOf
<1>2. h.rearm # "command" /\ h.rearm # "ack" /\ Idle(h)
  BY <1>1, Awaits
<1>3. h.rearm = "none"
  BY <1>2 DEF Idle, Graphs
<1>4. h.expected = e /\ Place(h, e)
  BY <1>1, <1>3, Awaits
<1>5. \A r : Script(h, r) => Common(h, r) /\ Answering(h, r)
  BY <1>1, Positions DEF Script
<1> QED BY <1>1, <1>2, <1>3, <1>4, <1>5 DEF Idle

(* Where a command is the next, and what is expected of it.                 *)
LEMMA CommandFollows ==
  ASSUME NEW m, Ready(m), NEW c \in Commands, m.expected = Command(c),
         m.rearm = "none", NEW q, Common(Settled(m), q),
         q.strays = Settled(m).strays, Before(Settled(m), q, c)
  PROVE  Script(Settled(m), q)
<1>1. Command(c).kind = "command" /\ Command(c).of = c
  BY Kinds
<1>2. ExpectedEvent(m) = Command(c)
  <2>1. m.failed = FALSE
    BY DEF Ready, Ordered, Going, Graphs
  <2> QED BY <2>1 DEF ExpectedEvent
<1>3. ExpectedEvent(Settled(m)) = Command(c) /\ Settled(m).at = "flying"
  BY <1>1, <1>2, SettledFields DEF CommandIsNext
<1>4. Position(Settled(m), q)
  BY <1>1, <1>3, Positions
<1> QED BY <1>4 DEF Script

(* A command is none of the events.                                         *)
LEMMA CommandDiffers ==
  ASSUME NEW c
  PROVE  Command(c) # Touch
BY Kinds

(* The image of the touch, whole or in halves.                              *)
LEMMA PrimaryIsFollowed ==
  ASSUME NEW h, Ready(h), ExpectedEvent(h) = Primary, NEW r, Script(h, r),
         NEW q, HasRead(r, q)
  PROVE  \/ /\ Whole(h, Head(r.due))
            /\ Script(Settled(PrimaryTaken(Put(h))), q)
         \/ /\ ~h.half /\ Head(r.due) = Plain("half")
            /\ Script(Settled(Halved(h)), q)
<1>1. /\ h.expected = Primary /\ h.rearm = "none" /\ h.expected # Touch
      /\ ExpectedEvent(h) # Touch /\ CommandOf(ExpectedEvent(h)) # "32"
      /\ h.at = "idle" /\ Common(h, r) /\ Answering(h, r)
      /\ Primary.kind # "ack" /\ Primary.kind # "command"
  BY EventIsOrdered
<1>2. /\ Quieted(r) /\ r.releases = 0 /\ r.arms = 0 /\ ~r.zeroed
      /\ r.due \in IF h.half THEN {<<Plain("half")>>}
           ELSE {<<Plain("whole")>>, <<Plain("half"), Plain("half")>>}
  BY <1>1, Answerings
<1>3. Quieted(q) /\ q.releases = 0 /\ q.arms = 0 /\ ~q.zeroed
  BY <1>2 DEF HasRead, Quieted
<1>4. /\ Head(<<Plain("half")>>) = Plain("half") /\ Tail(<<Plain("half")>>) = <<>>
      /\ Head(<<Plain("whole")>>) = Plain("whole")
      /\ Tail(<<Plain("whole")>>) = <<>>
  BY OneFrame
<1>5. /\ Head(<<Plain("half"), Plain("half")>>) = Plain("half")
      /\ Tail(<<Plain("half"), Plain("half")>>) = <<Plain("half")>>
  BY TwoFrames
<1>6. \/ r.due = <<Plain("half")>> /\ h.half
      \/ r.due = <<Plain("whole")>> /\ ~h.half
      \/ r.due = <<Plain("half"), Plain("half")>> /\ ~h.half
  <2>1. CASE h.half
    BY <1>2, <2>1
  <2>2. CASE ~h.half
    <3>1. r.due \in {<<Plain("whole")>>, <<Plain("half"), Plain("half")>>}
      BY <1>2, <2>2
    <3> QED BY <2>2, <3>1, Zenon
  <2> QED BY <2>1, <2>2
<1>7. CASE \/ r.due = <<Plain("half")>> /\ h.half
           \/ r.due = <<Plain("whole")>> /\ ~h.half
  <2> DEFINE m == PrimaryTaken(Put(h)) k == Settled(m)
  <2>1. Whole(h, Head(r.due)) /\ q.due = <<>>
    BY <1>4, <1>7, Zenon DEF Whole, HasRead
  <2>2. /\ Ready(m) /\ m.expected = Command("34") /\ m.rearm = "none"
        /\ m.observed = h.observed + 1 /\ m.transition # "none"
        /\ m.afterAux = FALSE /\ m.strays = h.strays
        /\ h.transition = "none" /\ h.observed \in Nat
    BY PrimaryMoves
  <2> HIDE DEF m
  <2>3. /\ k.strays = h.strays /\ k.observed = h.observed + 1
        /\ k.transition # "none" /\ k.afterAux = FALSE
    BY <2>2, SettledFields
  <2> HIDE DEF k
  <2>4. Common(k, q) /\ q.strays = k.strays
    <3>1. CapturesOf(k) = CapturesOf(h)
      BY <1>1, <2>2, <2>3 DEF CapturesOf
    <3> QED BY <1>1, <2>3, <3>1, CommonKeeps
  <2>5. Before(k, q, "34")
    BY <1>3, <2>1, <2>3, Befores
  <2>6. Script(k, q)
    BY <2>2, <2>4, <2>5, CommandFollows DEF k, Commands
  <2> QED BY <2>1, <2>6 DEF k, m
<1>8. CASE r.due = <<Plain("half"), Plain("half")>> /\ ~h.half
  <2> DEFINE m == Halved(h) k == Settled(m)
  <2>1. Head(r.due) = Plain("half") /\ q.due = <<Plain("half")>>
    BY <1>5, <1>8, Zenon DEF HasRead
  <2>2. /\ Ready(m) /\ ExpectedEvent(m) = Primary /\ CommandIsNext(m) = FALSE
        /\ m.half = TRUE /\ m.expected = Primary
        /\ m.observed = h.observed /\ m.transition = h.transition
        /\ m.strays = h.strays
    BY <1>1, <1>8, HalfIsKept
  <2> HIDE DEF m
  <2>3. /\ k.expected = Primary /\ k.half = TRUE /\ k.observed = h.observed
        /\ k.transition = h.transition /\ k.strays = h.strays /\ k.at = "idle"
        /\ ExpectedEvent(k) = Primary
    BY <2>2, SettledFields
  <2> HIDE DEF k
  <2>4. Common(k, q)
    <3>1. CapturesOf(k) = CapturesOf(h)
      BY <1>1, <2>3 DEF CapturesOf
    <3> QED BY <1>1, <2>3, <3>1, CommonKeeps
  <2>5. Answering(k, q)
    <3>1. q.due \in IF k.half THEN {<<Plain("half")>>}
           ELSE {<<Plain("whole")>>, <<Plain("half"), Plain("half")>>}
      BY <2>1, <2>3
    <3> QED BY <1>3, <2>3, <3>1, Answerings
  <2>6. Position(k, q)
    BY <1>1, <2>3, <2>5, Positions
  <2> QED BY <1>8, <2>1, <2>4, <2>6 DEF Script, k, m
<1> QED BY <1>6, <1>7, <1>8

(* The image of the tail.                                                   *)
LEMMA AuxiliaryIsFollowed ==
  ASSUME NEW h, Ready(h), ExpectedEvent(h) = Auxiliary, NEW r, Script(h, r),
         NEW q, HasRead(r, q)
  PROVE  Whole(h, Head(r.due)) /\ Script(Settled(AuxiliaryTaken(Put(h))), q)
<1> DEFINE m == AuxiliaryTaken(Put(h)) k == Settled(m)
<1>1. /\ h.expected = Auxiliary /\ h.rearm = "none" /\ h.expected # Touch
      /\ ExpectedEvent(h) # Touch /\ CommandOf(ExpectedEvent(h)) # "32"
      /\ Common(h, r) /\ Answering(h, r)
  BY EventIsOrdered
<1>2. /\ r.due = <<Plain("whole")>> /\ ~h.half
      /\ IF h.pending THEN Scanning(r) ELSE Quieted(r) /\ r.arms = 0
  BY <1>1, Answerings
<1>3. Head(<<Plain("whole")>>) = Plain("whole") /\ Tail(<<Plain("whole")>>) = <<>>
  BY OneFrame
<1>4. Whole(h, Head(r.due)) /\ q.due = <<>>
  BY <1>2, <1>3, Zenon DEF Whole, HasRead
<1>5. IF h.pending THEN Scanning(q) ELSE Quieted(q) /\ q.arms = 0
  BY <1>2 DEF HasRead, Scanning, Quieted
<1>6. /\ Ready(m) /\ m.rearm = "none"
      /\ m.expected = IF h.pending THEN Command("34") ELSE Command("32")
      /\ m.afterAux = h.pending /\ m.observed = h.observed
      /\ m.transition = h.transition /\ m.strays = h.strays
      /\ m.navSeen = h.navSeen /\ m.transition # "none"
      /\ ~h.pending => h.observed = 1 /\ ~h.navSeen
  BY AuxiliaryMoves
<1> HIDE DEF m
<1>7. m.expected # Touch
  BY <1>6, CommandDiffers
<1>8. Common(k, q) /\ q.strays = k.strays
  BY <1>1, <1>6, <1>7, CommonMoves
<1>9. /\ k.afterAux = h.pending /\ k.observed = h.observed
      /\ k.navSeen = h.navSeen /\ k.rearm = "none"
  BY <1>6, SettledFields
<1> HIDE DEF k
<1>10. CASE h.pending
  <2>1. Before(k, q, "34")
    BY <1>4, <1>5, <1>9, <1>10, Befores
  <2>2. Script(k, q)
    BY <1>6, <1>8, <1>10, <2>1, CommandFollows DEF k, Commands
  <2> QED BY <1>4, <2>2 DEF k, m
<1>11. CASE ~h.pending
  <2>1. Before(k, q, "32")
    BY <1>4, <1>5, <1>6, <1>9, <1>11, Befores DEF Quieted
  <2>2. Script(k, q)
    BY <1>6, <1>8, <1>11, <2>1, CommandFollows DEF k, Commands
  <2> QED BY <1>4, <2>2 DEF k, m
<1> QED BY <1>10, <1>11

(* The navigation.                                                          *)
LEMMA NavIsFollowed ==
  ASSUME NEW h, Ready(h), ExpectedEvent(h) = Nav, NEW r, Script(h, r),
         NEW q, HasRead(r, q)
  PROVE  /\ Head(r.due) = Nav
         /\ Script(Settled(Expecting([h EXCEPT !.navSeen = TRUE], Command("32"))), q)
<1> DEFINE m == Expecting([h EXCEPT !.navSeen = TRUE], Command("32"))
           k == Settled(m)
<1>1. /\ h.expected = Nav /\ h.rearm = "none" /\ h.expected # Touch
      /\ ExpectedEvent(h) # Touch /\ CommandOf(ExpectedEvent(h)) # "32"
      /\ Common(h, r) /\ Answering(h, r) /\ Place(h, Nav)
  BY EventIsOrdered
<1>2. r.due = <<Nav>> /\ r.armed = "touch" /\ ~r.lifting /\ r.arms = 1
  BY <1>1, Answerings
<1>3. Head(<<Nav>>) = Nav /\ Tail(<<Nav>>) = <<>>
  BY OneFrame
<1>4. /\ Head(r.due) = Nav /\ q.due = <<>> /\ q.armed = "touch" /\ ~q.lifting
      /\ q.arms = 1
  BY <1>2, <1>3, Zenon DEF HasRead
<1>5. h.transition # "none"
  <2>1. CommandOf(Nav) = "50" /\ Nav # Touch /\ Nav # Lift
    BY CommandsOf, Kinds
  <2>2. Turn(h, "50")
    BY <1>1, <2>1 DEF Place
  <2> QED BY <2>2, TransitionOfTurn
<1>6. /\ Ready(m) /\ m.expected = Command("32") /\ m.rearm = "none"
      /\ m.transition = h.transition /\ m.observed = h.observed
      /\ m.strays = h.strays /\ m.navSeen = TRUE /\ h.observed = 1
  BY NavMoves
<1> HIDE DEF m
<1>7. Common(k, q) /\ q.strays = k.strays
  BY <1>1, <1>5, <1>6, CommandDiffers, CommonMoves
<1>8. k.observed = 1 /\ k.navSeen = TRUE /\ k.rearm = "none"
  BY <1>6, SettledFields
<1> HIDE DEF k
<1>9. Before(k, q, "32")
  BY <1>4, <1>8, Befores
<1>10. Script(k, q)
  BY <1>6, <1>7, <1>9, CommandFollows DEF k, Commands
<1> QED BY <1>4, <1>10 DEF k, m

(* The scan, which may find no finger.                                      *)
LEMMA SampleIsRead ==
  ASSUME NEW h, Ready(h), ExpectedEvent(h) = Sample, NEW r, Script(h, r),
         NEW q, HasRead(r, q)
  PROVE  \/ Head(r.due) = Sample /\ Scanning(q) /\ q.due = <<>>
         \/ /\ Head(r.due) = ZeroSample
            /\ \/ q.armed = "lift" /\ q.due = <<>>
               \/ /\ q.armed = "none" /\ ~q.lifting /\ ~q.finger
                  /\ q.due = <<Lift>>
<1>1. Answering(h, r) /\ h.expected = Sample
  BY EventIsOrdered
<1>2. Scanned(r, <<>>)
  BY <1>1, Answerings
<1>3. Sample \in Frames /\ ZeroSample \in Frames /\ Lift \in Frames
  BY InFrames
<1>4. /\ <<>> \o <<Sample>> = <<Sample>> /\ Head(<<Sample>>) = Sample
      /\ Tail(<<Sample>>) = <<>>
  BY <1>3, Joined, OneFrame
<1>5. /\ <<>> \o <<ZeroSample>> = <<ZeroSample>>
      /\ Head(<<ZeroSample>>) = ZeroSample /\ Tail(<<ZeroSample>>) = <<>>
  BY <1>3, Joined, OneFrame
<1>6. <<ZeroSample>> \o <<Lift>> = <<ZeroSample, Lift>>
  BY <1>3, Joined
<1>7. /\ Head(<<ZeroSample, Lift>>) = ZeroSample
      /\ Tail(<<ZeroSample, Lift>>) = <<Lift>>
  BY TwoFrames
<1>8. CASE Scanning(r) /\ r.due = <<>> \o <<Sample>>
  <2>1. Scanning(q)
    BY <1>8 DEF Scanning, HasRead
  <2> QED BY <1>4, <1>8, <2>1, Zenon DEF HasRead
<1>9. CASE r.zeroed /\ Lifting(r, <<>> \o <<ZeroSample>>)
  <2>1. Lifting(r, <<ZeroSample>>)
    BY <1>5, <1>9, Zenon
  <2>2. CASE r.armed = "lift" /\ r.due = <<ZeroSample>>
    BY <1>5, <2>2, Zenon DEF HasRead
  <2>3. CASE /\ r.armed = "none" /\ ~r.lifting /\ ~r.finger
             /\ r.due = <<ZeroSample>> \o <<Lift>>
    BY <1>6, <1>7, <2>3, Zenon DEF HasRead
  <2> QED BY <2>1, <2>2, <2>3 DEF Lifting
<1> QED BY <1>2, <1>8, <1>9 DEF Scanned

(* A scan that found the finger follows the script.                         *)
LEMMA SampleIsFollowed ==
  ASSUME NEW h, Ready(h), ExpectedEvent(h) = Sample, NEW r, Script(h, r),
         NEW q, HasRead(r, q), Head(r.due) = Sample
  PROVE  Script(Settled(Expecting(h, Command("20"))), q)
<1> DEFINE m == Expecting(h, Command("20")) k == Settled(m)
<1>1. /\ h.expected # Touch /\ ExpectedEvent(h) # Touch
      /\ CommandOf(ExpectedEvent(h)) # "32" /\ Common(h, r)
  BY EventIsOrdered
<1>2. Scanning(q) /\ q.due = <<>>
  BY SampleIsRead, Kinds
<1>3. /\ Idle(h) /\ h.half = FALSE /\ h.rearm = "none" /\ Taken(h)
      /\ Place(h, Command("20"))
  BY SampleMoves
<1>4. Command("20") \in Expectations
  BY Expectable DEF Commands
<1>5. /\ Ready(m) /\ m.expected = Command("20") /\ m.rearm = "none"
      /\ m.transition = h.transition /\ m.pending = h.pending
      /\ m.observed = h.observed /\ m.strays = h.strays
  BY <1>3, <1>4, Moves
<1> HIDE DEF m
<1>6. h.transition # "none" /\ h.pending
  BY <1>3 DEF Taken
<1>7. Common(k, q) /\ q.strays = k.strays
  BY <1>1, <1>5, <1>6, CommandDiffers, CommonMoves
<1>8. k.pending
  BY <1>5, <1>6, SettledFields
<1> HIDE DEF k
<1>9. Before(k, q, "20")
  BY <1>2, <1>8, Befores
<1>10. Script(k, q)
  BY <1>5, <1>7, <1>9, CommandFollows DEF k, Commands
<1> QED BY <1>10 DEF k, m

(* A scan that found none follows the script, whether or not the lift was   *)
(* reported.                                                                *)
LEMMA EmptyScanIsFollowed ==
  ASSUME NEW h, Ready(h), ExpectedEvent(h) = Sample, NEW r, Script(h, r),
         NEW q, HasRead(r, q), Head(r.due) = ZeroSample,
         NEW n, Reopens(h, n)
  PROVE  Script(Settled(n), q)
<1> DEFINE k == Settled(n)
<1>1. /\ h.expected # Touch /\ ExpectedEvent(h) # Touch
      /\ CommandOf(ExpectedEvent(h)) # "32" /\ Common(h, r)
  BY EventIsOrdered
<1>2. \/ q.armed = "lift" /\ q.due = <<>>
      \/ q.armed = "none" /\ ~q.lifting /\ ~q.finger /\ q.due = <<Lift>>
  BY SampleIsRead, Kinds
<1>3. /\ Ready(n) /\ n.expected = Command("32") /\ n.rearm = "none"
      /\ n.observed = h.observed /\ n.strays = h.strays
      /\ n.transition = "repeated" /\ n.window = TRUE /\ n.late = FALSE
  BY DEF Reopens
<1>4. h.transition = "repeated" /\ h.observed >= 2 /\ h.observed \in Nat
  BY ZeroMayRecover
<1>5. Common(k, q) /\ q.strays = k.strays
  BY <1>1, <1>3, <1>4, CommandDiffers, CommonMoves
<1>6. /\ k.observed = h.observed /\ k.window = TRUE /\ k.late = FALSE
      /\ k.rearm = "none"
  BY <1>3, SettledFields
<1> HIDE DEF k
<1>7. q.due \in Quiet
  BY <1>2 DEF Quiet
<1>8. OneLate(k, q)
  BY <1>2, <1>6, NoFrame DEF OneLate
<1>9. Before(k, q, "32")
  BY <1>2, <1>4, <1>6, <1>7, <1>8, Befores
<1>10. Script(k, q)
  BY <1>3, <1>5, <1>9, CommandFollows DEF k, Commands
<1> QED BY <1>10 DEF k

(* The lift that is waited for.                                             *)
LEMMA LiftIsRead ==
  ASSUME NEW h, Ready(h), ExpectedEvent(h) = Lift, NEW r, Script(h, r),
         r.due # <<>>, NEW q, HasRead(r, q)
  PROVE  /\ Head(r.due) = Lift /\ ~IsLate(h, Lift)
         /\ Quieted(q) /\ ~q.finger /\ q.due = <<>>
         /\ h.observed = 1 => q.arms = 0
<1>1. Answering(h, r) /\ h.expected = Lift /\ Place(h, Lift)
  BY EventIsOrdered
<1>2. Lifting(r, <<>>) /\ (h.observed = 1 => r.arms = 0)
  BY <1>1, Answerings
<1>3. Lift \in Frames
  BY InFrames
<1>4. /\ <<>> \o <<Lift>> = <<Lift>> /\ Head(<<Lift>>) = Lift
      /\ Tail(<<Lift>>) = <<>>
  BY <1>3, Joined, OneFrame
<1>5. r.armed = "none" /\ ~r.lifting /\ ~r.finger /\ r.due = <<>> \o <<Lift>>
  BY <1>2 DEF Lifting
<1>6. Head(r.due) = Lift /\ q.due = <<>>
  BY <1>4, <1>5, Zenon DEF HasRead
<1>7. ~IsLate(h, Lift)
  <2>1. Judged(h)
    BY LiftIsJudged
  <2> QED BY <2>1 DEF Judged, IsLate
<1> QED BY <1>2, <1>5, <1>6, <1>7 DEF Quieted, HasRead

(* A lift that was waited for follows the script.                           *)
LEMMA LiftIsFollowed ==
  ASSUME NEW h, Ready(h), ExpectedEvent(h) = Lift, ~h.held, NEW r, Script(h, r),
         r.due # <<>>, NEW q, HasRead(r, q), NEW verdict
  PROVE  Script(Settled(LiftSeen(h, verdict)), q)
<1> DEFINE m == LiftSeen(h, verdict) k == Settled(m)
<1>1. /\ h.expected # Touch /\ ExpectedEvent(h) # Touch
      /\ CommandOf(ExpectedEvent(h)) # "32" /\ Common(h, r)
  BY EventIsOrdered
<1>2. /\ Quieted(q) /\ ~q.finger /\ q.due = <<>>
      /\ h.observed = 1 => q.arms = 0
  BY LiftIsRead
<1>3. /\ Ready(m) /\ m.rearm = "none"
      /\ m.expected = IF h.observed = 1 THEN Command("20") ELSE Command("32")
      /\ m.observed = h.observed /\ m.strays = h.strays
      /\ m.transition = h.transition /\ h.transition # "none"
      /\ m.pending = FALSE
  BY LiftMoves
<1> HIDE DEF m
<1>4. m.expected # Touch
  BY <1>3, CommandDiffers
<1>5. Common(k, q) /\ q.strays = k.strays
  BY <1>1, <1>3, <1>4, CommonMoves
<1>6. k.observed = h.observed /\ k.pending = FALSE /\ k.rearm = "none"
  BY <1>3, SettledFields
<1> HIDE DEF k
<1>7. CASE h.observed = 1
  <2>1. Before(k, q, "20")
    BY <1>2, <1>6, <1>7, Befores
  <2>2. Script(k, q)
    BY <1>3, <1>5, <1>7, <2>1, CommandFollows DEF k, Commands
  <2> QED BY <2>2 DEF k, m
<1>8. CASE h.observed # 1
  <2>1. OneLate(k, q)
    BY <1>2, NoFrame DEF OneLate, Quieted
  <2>2. q.due \in Quiet
    BY <1>2 DEF Quiet
  <2>3. Before(k, q, "32")
    BY <1>2, <1>6, <1>8, <2>1, <2>2, Befores DEF Quieted
  <2>4. Script(k, q)
    BY <1>3, <1>5, <1>8, <2>3, CommandFollows DEF k, Commands
  <2> QED BY <2>4 DEF k, m
<1> QED BY <1>7, <1>8

-----------------------------------------------------------------------------
(* The frame that is read is one that the graph can follow.                 *)

Handled(h, f, verdict) ==
  ArmIfNeeded(IF f \in PlainFrames THEN HandlePlaintext(h, f)
              ELSE ContextHandleA0(h, f, verdict))
Follows(k, q) == k.failed = FALSE /\ (k.complete \/ Script(k, q))

(* A graph that settles at its place in the script goes on.                 *)
LEMMA FollowsOn ==
  ASSUME NEW m, Ready(m), NEW q, Script(Settled(m), q)
  PROVE  Follows(Settled(m), q)
<1>1. m.failed = FALSE
  BY DEF Ready, Ordered, Going, Graphs
<1>2. Settled(m).failed = FALSE
  BY <1>1, SettledFields
<1> QED BY <1>2 DEF Follows

(* An event that follows the script does so up to the context.              *)
LEMMA EventFollows ==
  ASSUME NEW h, Ready(h), NEW f, f \notin PlainFrames, NEW verdict, ~IsLate(h, f),
         NEW m, EventsHandleA0(h, f, verdict) = m, Ready(m),
         NEW q, Script(Settled(m), q)
  PROVE  Follows(Handled(h, f, verdict), q)
<1>1. ArmIfNeeded(ContextHandleA0(h, f, verdict)) = Settled(m)
  BY ContextSettles
<1>2. Handled(h, f, verdict) = Settled(m)
  BY <1>1 DEF Handled
<1> QED BY <1>2, FollowsOn

(* A completed enrollment has not failed.                                   *)
LEMMA EndFollows ==
  ASSUME NEW h, Ready(h), NEW f, f \notin PlainFrames, NEW verdict, ~IsLate(h, f),
         Completes(EventsHandleA0(h, f, verdict)), NEW q
  PROVE  Follows(Handled(h, f, verdict), q)
<1>1. Ended(ArmIfNeeded(ContextHandleA0(h, f, verdict)))
  BY ContextEnds
<1>2. Ended(Handled(h, f, verdict))
  BY <1>1 DEF Handled
<1> QED BY <1>2 DEF Ended, Follows

(* The frames of the A0 family are no images.                               *)
LEMMA NotPlain ==
  /\ \A c : Ack(c) \notin PlainFrames
  /\ Touch \notin PlainFrames /\ Sample \notin PlainFrames
  /\ ZeroSample \notin PlainFrames /\ Lift \notin PlainFrames
  /\ Stray \notin PlainFrames /\ Nav \notin PlainFrames
  /\ Plain("whole") \in PlainFrames /\ Plain("half") \in PlainFrames
BY Kinds DEF PlainFrames

(* Judging an image without blame leaves the graph ready.                   *)
LEMMA JudgementMoves ==
  ASSUME NEW h, Ready(h), NEW c \in Commands, ExpectedEvent(h) = Ack(c),
         h.rearm = "none", Judgement(h, c),
         NEW verdict \in Verdicts, verdict = "again" => h.retried < MaxRetries,
         verdict # "broken",
         NEW m, EventsHandleA0(h, Ack(c), verdict) = m
  PROVE  /\ Ready(m) /\ m.expected = Lift /\ m.rearm = "none"
         /\ m.transition # "none" /\ m.observed = h.observed
         /\ m.strays = h.strays
<1>1. Ack(c) = ExpectedEvent(h) /\ m = EventsHandleA0(h, Ack(c), verdict)
  OBVIOUS
<1>2. \/ verdict = "broken"
      \/ /\ Ready(m) /\ m.expected = Lift /\ Kept(h, m)
         /\ m.transition # "none"
  BY <1>1, AckJudges
<1> QED BY <1>2 DEF Kept

(* The handler of an ACK other than that of a wait.                         *)
LEMMA AckFollows ==
  ASSUME NEW h, Ready(h), NEW r, Script(h, r), NEW q, HasRead(r, q),
         NEW c \in Commands, ExpectedEvent(h) = Ack(c), c # "32",
         NEW verdict \in Verdicts, verdict = "again" => h.retried < MaxRetries,
         verdict # "broken"
  PROVE  Follows(Handled(h, Head(r.due), verdict), q)
<1> DEFINE m == EventsHandleA0(h, Ack(c), verdict)
<1>1. h.rearm = "none" /\ Ack(c) = ExpectedEvent(h)
  BY AckIsOrdered
<1>2. Ack(c) \notin PlainFrames /\ ~IsLate(h, Ack(c))
  BY NotPlain, Kinds DEF IsLate
<1>3. m = EventsHandleA0(h, Ack(c), verdict) /\ EventsHandleA0(h, Ack(c), verdict) = m
  OBVIOUS
<1> HIDE DEF m
<1>4. CASE ~Judgement(h, c)
  <2>1. m = Expecting(h, NextOf(h, c)) /\ Ready(m)
    BY <1>1, <1>3, <1>4, AckMoves
  <2>2. Head(r.due) = Ack(c) /\ Script(Settled(Expecting(h, NextOf(h, c))), q)
    BY <1>4, AckIsFollowed
  <2>3. Follows(Handled(h, Ack(c), verdict), q)
    BY <1>2, <1>3, <2>1, <2>2, EventFollows
  <2> QED BY <2>2, <2>3
<1>5. CASE Judgement(h, c)
  <2>1. c = "34"
    BY <1>5 DEF Judgement
  <2>2. /\ Ready(m) /\ m.expected = Lift /\ m.rearm = "none"
        /\ m.transition # "none" /\ m.observed = h.observed
        /\ m.strays = h.strays
    BY <1>1, <1>3, <1>5, JudgementMoves
  <2>3. Head(r.due) = Ack(c) /\ Script(Settled(m), q)
    BY <1>5, <2>1, <2>2, JudgementIsFollowed
  <2>4. Follows(Handled(h, Ack(c), verdict), q)
    BY <1>2, <1>3, <2>2, <2>3, EventFollows
  <2> QED BY <2>3, <2>4
<1> QED BY <1>4, <1>5

(* The handler of a late lift.                                              *)
LEMMA LateFollows ==
  ASSUME NEW h, Ready(h), Waits(h), NEW r \in Readers, r.due # <<>>,
         Head(r.due) = Lift, Script(h, r), NEW q, HasRead(r, q), NEW verdict
  PROVE  Follows(Handled(h, Head(r.due), verdict), q)
<1>1. h.window /\ ~h.late /\ Script(Settled(Late(h)), q)
  BY LateIsFollowed
<1>2. ~CommandIsNext(h)
  BY Kinds DEF Waits, A, CommandIsNext
<1>3. /\ ArmIfNeeded(ContextHandleA0(h, Lift, verdict)) = Settled(Late(h))
      /\ Ready(Late(h))
  BY <1>1, <1>2, LateIsLetPass
<1>4. Handled(h, Lift, verdict) = Settled(Late(h))
  BY <1>3, NotPlain DEF Handled
<1>5. Follows(Settled(Late(h)), q)
  BY <1>1, <1>3, FollowsOn
<1> QED BY <1>4, <1>5

(* The handler of what may come first while the ACK of a 32 is expected.    *)
LEMMA WaitFollows ==
  ASSUME NEW h, Ready(h), ExpectedEvent(h) = A, NEW r \in Readers,
         r.due # <<>>, Script(h, r), NEW q, HasRead(r, q), NEW verdict
  PROVE  Follows(Handled(h, Head(r.due), verdict), q)
<1> DEFINE m == EventsHandleA0(h, A, verdict)
<1>1. /\ A.kind = "ack" /\ A = Ack("32") /\ "32" \in Commands
      /\ A \notin PlainFrames /\ ~IsLate(h, A) /\ A = ExpectedEvent(h)
  BY NotPlain, Kinds DEF IsLate, A, Commands
<1>2. m = EventsHandleA0(h, A, verdict) /\ EventsHandleA0(h, A, verdict) = m
  OBVIOUS
<1> HIDE DEF m
<1>3. /\ h.rearm \in {"none", "ack"} /\ h.half = FALSE /\ Idle(h)
      /\ h.rearm = "none" => Turn(h, "32")
  BY AckOfWait
<1>4. ASSUME Ready(m), Head(r.due) = A, Script(Settled(m), q)
      PROVE  Follows(Handled(h, Head(r.due), verdict), q)
  <2>1. Follows(Handled(h, A, verdict), q)
    BY <1>1, <1>2, <1>4, EventFollows
  <2> QED BY <1>4, <2>1
<1>5. CASE Waits(h) /\ Head(r.due) = Lift
  BY <1>5, LateFollows
<1>6. CASE Waits(h) /\ Head(r.due) # Lift
  <2>1. /\ Ready(m) /\ m.expected = Touch /\ m.rearm = "none"
        /\ m.observed = h.observed /\ m.transition = h.transition
        /\ m.strays = h.strays /\ m.window = h.window /\ m.late = h.late
    <3>1. CASE h.rearm = "ack"
      BY <1>1, <1>2, <3>1, AckRearms
    <3>2. CASE h.rearm = "none"
      <4>1. /\ ~Judgement(h, "32")
            /\ (h.transition = "first") = (h.observed = 1)
        BY <1>3, <3>2, TransitionOfTurn DEF Judgement
      <4>2. ~(h.observed = 1 /\ ~h.navSeen)
        BY <1>1, <1>6, FramesDiffer DEF Waits
      <4>3. NextOf(h, "32") = Touch
        BY <4>1, <4>2 DEF NextOf
      <4>4. /\ m = Expecting(h, NextOf(h, "32"))
            /\ NextOf(h, "32") \in Expectations /\ Place(h, NextOf(h, "32"))
        BY <1>1, <1>2, <3>2, <4>1, AckMoves
      <4>5. m = Expecting(h, Touch) /\ Touch \in Expectations /\ Place(h, Touch)
        BY <4>3, <4>4
      <4> HIDE DEF m
      <4>6. /\ Ready(Expecting(h, Touch)) /\ Expecting(h, Touch).expected = Touch
            /\ Expecting(h, Touch).rearm = "none"
            /\ Expecting(h, Touch).observed = h.observed
            /\ Expecting(h, Touch).transition = h.transition
            /\ Expecting(h, Touch).strays = h.strays
            /\ Expecting(h, Touch).window = h.window
            /\ Expecting(h, Touch).late = h.late
        BY <1>3, <3>2, <4>5, Moves
      <4> QED BY <4>5, <4>6
    <3> QED BY <1>3, <3>1, <3>2
  <2>2. Head(r.due) = A /\ Script(Settled(m), q)
    BY <1>6, <2>1, WaitIsFollowed
  <2> QED BY <1>4, <2>1, <2>2
<1>7. CASE ~Waits(h)
  <2>1. h.observed = 1 /\ ~h.navSeen
    BY <1>1, <1>7 DEF Waits
  <2>2. CASE h.rearm = "none"
    <3>1. ~Judgement(h, "32") /\ h.transition = "first"
      BY <1>3, <2>1, <2>2, TransitionOfTurn DEF Judgement
    <3>2. NextOf(h, "32") = Command("50")
      BY <2>1, <3>1 DEF NextOf
    <3>3. /\ m = Expecting(h, NextOf(h, "32"))
          /\ NextOf(h, "32") \in Expectations /\ Place(h, NextOf(h, "32"))
      BY <1>1, <1>2, <2>2, <3>1, AckMoves
    <3>4. /\ m = Expecting(h, Command("50")) /\ Command("50") \in Expectations
          /\ Place(h, Command("50"))
      BY <3>2, <3>3
    <3>5. LET x == Expecting(h, Command("50"))
          IN /\ Ready(x) /\ x.expected = Command("50") /\ x.rearm = "none"
             /\ x.observed = h.observed /\ x.transition = h.transition
             /\ x.strays = h.strays
      BY <1>3, <2>2, <3>4, Moves
    <3>6. /\ Ready(m) /\ m.expected = Command("50") /\ m.rearm = "none"
          /\ m.observed = h.observed /\ m.transition = h.transition
          /\ m.strays = h.strays
      BY <3>4, <3>5
    <3>7. Head(r.due) = A /\ Script(Settled(m), q)
      BY <2>1, <2>2, <3>6, NavigationIsFollowed
    <3> QED BY <1>4, <3>6, <3>7
  <2>3. CASE h.rearm = "ack"
    <3>1. h.expected = Touch /\ Place(h, Touch)
      BY <1>1, <2>3, Awaits
    <3>2. CommandOf(Touch) = "none" /\ Touch # Lift
      BY CommandsOf, FramesDiffer
    <3>3. h.observed = 1 => h.navSeen
      BY <3>1, <3>2 DEF Place, Turn
    <3> QED BY <2>1, <3>3
  <2> QED BY <1>3, <2>2, <2>3
<1> QED BY <1>5, <1>6, <1>7

(* The handler of what may come first while a touch is expected.            *)
LEMMA TouchFollows ==
  ASSUME NEW h, Ready(h), ExpectedEvent(h) = Touch, NEW r \in Readers,
         r.due # <<>>, Script(h, r), NEW q, HasRead(r, q), NEW verdict
  PROVE  Follows(Handled(h, Head(r.due), verdict), q)
<1>1. Waits(h) /\ ExpectedEvent(h).kind # "command" /\ ExpectedEvent(h) # Primary
      /\ ExpectedEvent(h) # Auxiliary
  BY Kinds DEF Waits
<1>2. CASE Head(r.due) = Lift
  BY <1>1, <1>2, LateFollows
<1>3. CASE Head(r.due) = Touch /\ Script(Settled(TouchSeen(h)), q)
  <2> DEFINE m == TouchSeen(h)
  <2>1. EventsHandleA0(h, Touch, verdict) = m
    BY <1>1, HandlesExpected
  <2>2. Ready(m) /\ Touch \notin PlainFrames /\ ~IsLate(h, Touch)
    BY TouchTakes, NotPlain, FramesDiffer DEF IsLate
  <2>3. Script(Settled(m), q)
    BY <1>3
  <2> HIDE DEF m
  <2>4. Follows(Handled(h, Touch, verdict), q)
    BY <2>1, <2>2, <2>3, EventFollows
  <2> QED BY <1>3, <2>4
<1>4. CASE /\ Head(r.due) = Stray /\ StrayMayPass(h)
           /\ Script(Settled(Strayed1(h)), q)
  <2> DEFINE m == Strayed1(h)
  <2>1. EventsHandleA0(h, Stray, verdict) = m /\ Ready(m)
    BY <1>4, StrayRearms
  <2>2. Stray \notin PlainFrames /\ ~IsLate(h, Stray)
    BY NotPlain, FramesDiffer DEF IsLate
  <2>3. Script(Settled(m), q)
    BY <1>4
  <2> HIDE DEF m
  <2>4. Follows(Handled(h, Stray, verdict), q)
    BY <2>1, <2>2, <2>3, EventFollows
  <2> QED BY <1>4, <2>4
<1>5. Head(r.due) # Lift =>
        \/ Head(r.due) = Touch /\ Script(Settled(TouchSeen(h)), q)
        \/ /\ Head(r.due) = Stray /\ StrayMayPass(h)
           /\ Script(Settled(Strayed1(h)), q)
  BY TouchIsFollowed
<1> QED BY <1>2, <1>3, <1>4, <1>5

(* The handler of an image, whole or in halves.                             *)
LEMMA ImageFollows ==
  ASSUME NEW h, Ready(h), ExpectedEvent(h) = Primary \/ ExpectedEvent(h) = Auxiliary,
         NEW r, Script(h, r), NEW q, HasRead(r, q), NEW verdict
  PROVE  Follows(Handled(h, Head(r.due), verdict), q)
<1>1. Primary # Auxiliary /\ h.half \in BOOLEAN
  BY Kinds DEF Ready, Graphs
<1>2. ASSUME NEW m, Ready(m), Whole(h, Head(r.due)), Script(Settled(m), q),
             (IF ExpectedEvent(h) = Primary THEN PrimaryTaken(Put(h))
              ELSE AuxiliaryTaken(Put(h))) = m
      PROVE  Follows(Handled(h, Head(r.due), verdict), q)
  <2>1. ArmIfNeeded(HandlePlaintext(h, Head(r.due))) = Settled(m)
    BY <1>2, ImageIsTaken
  <2>2. Head(r.due) \in PlainFrames
    BY <1>2, NotPlain DEF Whole
  <2>3. Handled(h, Head(r.due), verdict) = Settled(m)
    BY <2>1, <2>2 DEF Handled
  <2> QED BY <1>2, <2>3, FollowsOn
<1>3. CASE ExpectedEvent(h) = Primary
  <2>1. CASE Whole(h, Head(r.due)) /\ Script(Settled(PrimaryTaken(Put(h))), q)
    <3> DEFINE m == PrimaryTaken(Put(h))
    <3>1. Ready(m)
      BY <1>3, PrimaryMoves
    <3>2. (IF ExpectedEvent(h) = Primary THEN PrimaryTaken(Put(h))
           ELSE AuxiliaryTaken(Put(h))) = m
      BY <1>3
    <3>3. Script(Settled(m), q)
      BY <2>1
    <3> HIDE DEF m
    <3> QED BY <1>2, <2>1, <3>1, <3>2, <3>3
  <2>2. CASE /\ ~h.half /\ Head(r.due) = Plain("half")
             /\ Script(Settled(Halved(h)), q)
    <3>1. /\ ArmIfNeeded(HandlePlaintext(h, Plain("half"))) = Settled(Halved(h))
          /\ Ready(Halved(h))
      BY <2>2, HalfIsKept
    <3>2. Handled(h, Plain("half"), verdict) = Settled(Halved(h))
      BY <3>1, NotPlain DEF Handled
    <3>3. Follows(Settled(Halved(h)), q)
      BY <2>2, <3>1, FollowsOn
    <3> QED BY <2>2, <3>2, <3>3
  <2> QED BY <1>3, <2>1, <2>2, PrimaryIsFollowed
<1>4. CASE ExpectedEvent(h) = Auxiliary
  <2> DEFINE m == AuxiliaryTaken(Put(h))
  <2>1. Whole(h, Head(r.due)) /\ Script(Settled(m), q)
    BY <1>4, AuxiliaryIsFollowed
  <2>2. Ready(m)
    BY <1>4, AuxiliaryMoves
  <2>3. (IF ExpectedEvent(h) = Primary THEN PrimaryTaken(Put(h))
         ELSE AuxiliaryTaken(Put(h))) = m
    BY <1>1, <1>4
  <2> HIDE DEF m
  <2> QED BY <1>2, <2>1, <2>2, <2>3
<1> QED BY <1>3, <1>4

(* The handler of a scan, with a finger or without.                         *)
LEMMA SampleFollows ==
  ASSUME NEW h, Ready(h), ExpectedEvent(h) = Sample,
         NEW r, Script(h, r), NEW q, HasRead(r, q),
         NEW verdict \in Verdicts, verdict = "again" => h.retried < MaxRetries,
         verdict # "broken"
  PROVE  Follows(Handled(h, Head(r.due), verdict), q)
<1>1. /\ ExpectedEvent(h).kind # "command" /\ ExpectedEvent(h) # Primary
      /\ ExpectedEvent(h) # Auxiliary
  BY Kinds
<1>2. /\ ~IsLate(h, Sample) /\ ~IsLate(h, ZeroSample)
      /\ Sample \notin PlainFrames /\ ZeroSample \notin PlainFrames
  BY Kinds, NotPlain DEF IsLate
<1>3. CASE Head(r.due) = Sample
  <2> DEFINE m == Expecting(h, Command("20"))
  <2>1. EventsHandleA0(h, Sample, verdict) = m
    BY <1>1, HandlesExpected
  <2>2. Ready(m)
    BY SampleMoves
  <2>3. Script(Settled(m), q)
    BY <1>3, SampleIsFollowed
  <2> HIDE DEF m
  <2>4. Follows(Handled(h, Sample, verdict), q)
    BY <1>2, <2>1, <2>2, <2>3, EventFollows
  <2> QED BY <1>3, <2>4
<1>4. CASE Head(r.due) = ZeroSample
  <2> DEFINE m == ZeroSeen(h, verdict)
  <2>1. EventsHandleA0(h, ZeroSample, verdict) = m
    <3>1. h.half = FALSE
      BY ZeroMayRecover
    <3> QED BY <3>1, Kinds DEF EventsHandleA0
  <2>2. \/ verdict = "broken"
        \/ /\ m \in Graphs /\ m.awaiting = TRUE /\ m.fw.st = "AWAIT_ON"
           /\ m.expected = Command("32") /\ Reopens(h, Asked(m))
        \/ Completes(m)
    BY ZeroHandled
  <2> HIDE DEF m
  <2>3. CASE /\ m \in Graphs /\ m.awaiting = TRUE /\ m.fw.st = "AWAIT_ON"
             /\ m.expected = Command("32") /\ Reopens(h, Asked(m))
    <3>1. Ready(Asked(m))
      BY <2>3 DEF Reopens
    <3>2. ArmIfNeeded(ContextHandleA0(h, ZeroSample, verdict)) = Settled(Asked(m))
      BY <1>2, <2>1, <2>3, <3>1, ContextReopens
    <3>3. Handled(h, ZeroSample, verdict) = Settled(Asked(m))
      BY <1>2, <3>2 DEF Handled
    <3>4. Script(Settled(Asked(m)), q)
      BY <1>4, <2>3, EmptyScanIsFollowed
    <3>5. Follows(Settled(Asked(m)), q)
      BY <3>1, <3>4, FollowsOn
    <3> QED BY <1>4, <3>3, <3>5
  <2>4. CASE Completes(m)
    <3>1. Completes(EventsHandleA0(h, ZeroSample, verdict))
      BY <2>1, <2>4
    <3>2. Follows(Handled(h, ZeroSample, verdict), q)
      BY <1>2, <3>1, EndFollows
    <3> QED BY <1>4, <3>2
  <2> QED BY <2>2, <2>3, <2>4
<1> QED BY <1>3, <1>4, SampleIsRead

(* The handler of the navigation.                                           *)
LEMMA NavFollows ==
  ASSUME NEW h, Ready(h), ExpectedEvent(h) = Nav,
         NEW r, Script(h, r), NEW q, HasRead(r, q), NEW verdict
  PROVE  Follows(Handled(h, Head(r.due), verdict), q)
<1> DEFINE m == Expecting([h EXCEPT !.navSeen = TRUE], Command("32"))
<1>1. /\ ExpectedEvent(h).kind # "command" /\ ExpectedEvent(h) # Primary
      /\ ExpectedEvent(h) # Auxiliary
  BY Kinds
<1>2. EventsHandleA0(h, Nav, verdict) = m
  BY <1>1, HandlesExpected
<1>3. Ready(m)
  BY NavMoves
<1>4. Head(r.due) = Nav /\ Script(Settled(m), q)
  BY NavIsFollowed
<1> HIDE DEF m
<1>5. ~IsLate(h, Nav) /\ Nav \notin PlainFrames
  BY Kinds, NotPlain DEF IsLate
<1>6. Follows(Handled(h, Nav, verdict), q)
  BY <1>2, <1>3, <1>4, <1>5, EventFollows
<1> QED BY <1>4, <1>6

(* The handler of a lift that is waited for.                                *)
LEMMA LiftFollows ==
  ASSUME NEW h, Ready(h), ExpectedEvent(h) = Lift,
         NEW r, Script(h, r), r.due # <<>>, NEW q, HasRead(r, q), NEW verdict
  PROVE  Follows(Handled(h, Head(r.due), verdict), q)
<1> DEFINE m == LiftSeen(h, verdict)
<1>1. Head(r.due) = Lift /\ ~IsLate(h, Lift) /\ Lift \notin PlainFrames
  BY LiftIsRead, NotPlain
<1>2. EventsHandleA0(h, Lift, verdict) = m
  <2>1. h.half = FALSE
    BY LiftIsJudged
  <2> QED BY <2>1, Kinds DEF EventsHandleA0
<1>3. CASE ~h.held
  <2>1. Ready(m) /\ Script(Settled(m), q)
    BY <1>3, LiftMoves, LiftIsFollowed
  <2> HIDE DEF m
  <2>2. Follows(Handled(h, Lift, verdict), q)
    BY <1>1, <1>2, <2>1, EventFollows
  <2> QED BY <1>1, <2>2
<1>4. CASE h.held
  <2>1. Completes(m)
    BY <1>4, LiftCompletes
  <2>2. Completes(EventsHandleA0(h, Lift, verdict))
    BY <1>2, <2>1
  <2>3. Follows(Handled(h, Lift, verdict), q)
    BY <1>1, <2>2, EndFollows
  <2> QED BY <1>1, <2>3
<1> QED BY <1>3, <1>4

(* Together.                                                                *)
LEMMA FrameFollows ==
  ASSUME NEW h, Ready(h), ~CommandIsNext(h),
         NEW r \in Readers, r.due # <<>>, Script(h, r), NEW q, HasRead(r, q),
         NEW verdict \in Verdicts, verdict = "again" => h.retried < MaxRetries,
         verdict # "broken"
  PROVE  Follows(Handled(h, Head(r.due), verdict), q)
<1>1. ExpectedEvent(h).kind # "command"
  BY DEF CommandIsNext
<1>2. /\ Idle(h) /\ h.rearm # "command"
      /\ h.rearm = "none" => h.expected = ExpectedEvent(h)
                             /\ Place(h, ExpectedEvent(h))
      /\ h.rearm = "ack" => ExpectedEvent(h) = Ack("32")
  BY <1>1, Awaits
<1>3. h.rearm \in {"none", "ack"}
  BY <1>2 DEF Idle, Graphs
<1>4. \/ \E c \in Commands : ExpectedEvent(h) = Ack(c)
      \/ ExpectedEvent(h) \in {Primary, Auxiliary, Touch, Sample, Lift, Nav}
  <2>1. CASE h.rearm = "ack"
    BY <1>2, <2>1 DEF Commands
  <2>2. CASE h.rearm = "none"
    <3>1. h.expected \in Expectations /\ Place(h, h.expected)
      BY <1>2, <2>2 DEF Idle, Graphs
    <3>2. h.expected # Nothing
      <4>1. CommandOf(Nothing) = "none" /\ Nothing # Touch /\ Nothing # Lift
        BY CommandsOf, Kinds
      <4>2. ~Place(h, Nothing)
        BY <4>1 DEF Place, Turn
      <4> QED BY <3>1, <4>2
    <3>3. \A c : h.expected # Command(c)
      BY <1>1, <1>2, <2>2, Kinds
    <3> QED BY <1>2, <2>2, <3>1, <3>2, <3>3, Expected
  <2> QED BY <1>3, <2>1, <2>2
<1>5. CASE \E c \in Commands : ExpectedEvent(h) = Ack(c)
  <2>1. PICK c \in Commands : ExpectedEvent(h) = Ack(c)
    BY <1>5
  <2>2. CASE c = "32"
    BY <2>1, <2>2, WaitFollows DEF A
  <2>3. CASE c # "32"
    BY <2>1, <2>3, AckFollows
  <2> QED BY <2>2, <2>3
<1>6. CASE ExpectedEvent(h) = Primary \/ ExpectedEvent(h) = Auxiliary
  BY <1>6, ImageFollows
<1>7. CASE ExpectedEvent(h) = Touch
  BY <1>7, TouchFollows
<1>8. CASE ExpectedEvent(h) = Sample
  BY <1>8, SampleFollows
<1>9. CASE ExpectedEvent(h) = Lift
  BY <1>9, LiftFollows
<1>10. CASE ExpectedEvent(h) = Nav
  BY <1>10, NavFollows
<1> QED BY <1>4, <1>5, <1>6, <1>7, <1>8, <1>9, <1>10

-----------------------------------------------------------------------------
(* Where a graph that goes on may be in the script.                         *)

(* What a graph that goes on expects.                                       *)
LEMMA Positioned ==
  ASSUME NEW g, Sound(g), ~g.fenced
  PROVE  \/ /\ \E c \in Commands : ExpectedEvent(g) = Command(c)
            /\ g.at \in {"flying", "taken"}
         \/ \E c \in Commands : ExpectedEvent(g) = Ack(c)
         \/ /\ ExpectedEvent(g) = g.expected
            /\ g.expected \in {Primary, Auxiliary, Touch, Sample, Lift, Nav}
<1>1. /\ g \in Graphs /\ Place(g, g.expected) /\ Connected(g) /\ g.failed = FALSE
  BY DEF Sound, Ordered, Going, Graphs
<1>2. g.expected \in Expectations /\ g.rearm \in {"none", "command", "ack"}
      /\ g.at \in {"idle", "flying", "taken"}
  BY <1>1 DEF Graphs
<1>3. g.expected # Nothing
  <2>1. CommandOf(Nothing) = "none" /\ Nothing # Touch /\ Nothing # Lift
    BY CommandsOf, Kinds
  <2>2. ~Place(g, Nothing)
    BY <2>1 DEF Place, Turn
  <2> QED BY <1>1, <2>2
<1>4. ExpectedEvent(g).kind = "command" => g.at \in {"flying", "taken"}
  BY <1>1, <1>2 DEF Connected, CommandIsNext
<1>5. \A c : Command(c).kind = "command"
  BY Kinds
<1>6. CASE g.rearm = "command"
  <2>1. ExpectedEvent(g) = Command("32")
    BY <1>1, <1>6 DEF ExpectedEvent
  <2> QED BY <1>4, <1>5, <2>1 DEF Commands
<1>7. CASE g.rearm = "ack"
  <2>1. ExpectedEvent(g) = Ack("32")
    BY <1>1, <1>7 DEF ExpectedEvent
  <2> QED BY <2>1 DEF Commands
<1>8. CASE g.rearm = "none"
  <2>1. ExpectedEvent(g) = g.expected
    BY <1>1, <1>8 DEF ExpectedEvent
  <2> QED BY <1>2, <1>3, <1>4, <1>5, <2>1, Expected
<1> QED BY <1>2, <1>6, <1>7, <1>8

(* A command or its ACK is expected in its turn, or for a stray.            *)
LEMMA TurnOf ==
  ASSUME NEW g, Sound(g), ~g.fenced, NEW c \in Commands,
         ExpectedEvent(g) = Command(c) \/ ExpectedEvent(g) = Ack(c)
  PROVE  /\ g.rearm = "none" => Turn(g, c) /\ g.expected # Touch
         /\ g.rearm # "none" => /\ c = "32" /\ g.expected = Touch /\ Lifted(g)
                                /\ g.observed = 1 => g.navSeen
<1>1. /\ g \in Graphs /\ Ordered(g) /\ Place(g, g.expected) /\ g.failed = FALSE
  BY DEF Sound, Ordered, Going, Graphs
<1>2. g.rearm \in {"none", "command", "ack"}
  BY <1>1 DEF Graphs
<1>3. ASSUME NEW e, e = Command(c) \/ e = Ack(c)
      PROVE  CommandOf(e) = c /\ e # Touch /\ e # Lift
  BY <1>3, CommandsOf, Kinds
<1>4. CASE g.rearm = "none"
  <2>1. ExpectedEvent(g) = g.expected
    BY <1>1, <1>4 DEF ExpectedEvent
  <2>2. CommandOf(g.expected) = c /\ g.expected # Touch /\ g.expected # Lift
    BY <1>3, <2>1
  <2>3. Turn(g, c)
    BY <1>1, <2>2 DEF Place
  <2> QED BY <1>4, <2>2, <2>3
<1>5. CASE g.rearm # "none"
  <2>1. g.expected = Touch
    BY <1>1, <1>5 DEF Ordered
  <2>2. CommandOf(Touch) = "none" /\ Touch # Lift
    BY CommandsOf, FramesDiffer
  <2>3. Lifted(g) /\ (g.observed = 1 => g.navSeen)
    BY <1>1, <2>1, <2>2 DEF Place, Turn
  <2>4. ExpectedEvent(g) = Command("32") \/ ExpectedEvent(g) = Ack("32")
    BY <1>1, <1>2, <1>5 DEF ExpectedEvent
  <2>5. ExpectedEvent(g).of = "32" /\ ExpectedEvent(g).of = c
    BY <2>4, Kinds
  <2> QED BY <1>5, <2>1, <2>3, <2>5
<1> QED BY <1>4, <1>5

(* The navigation is the only time a touch may not come.                    *)
LEMMA Navigates ==
  ASSUME NEW g, Sound(g), ~g.fenced, NEW r, Common(g, r), g.observed = 1,
         \/ ExpectedEvent(g) = g.expected /\ g.expected = Nav
         \/ \E c \in {"32", "50"} : /\ ExpectedEvent(g) = Command(c)
                                       \/ ExpectedEvent(g) = Ack(c)
                                    /\ g.rearm = "none"
  PROVE  r.captures = 1
<1>1. g.transition # "none"
  <2>1. CASE g.expected = Nav
    <3>1. Place(g, Nav) /\ CommandOf(Nav) = "50" /\ Nav # Touch /\ Nav # Lift
      BY <2>1, CommandsOf, Kinds DEF Sound, Ordered
    <3>2. Turn(g, "50")
      BY <3>1 DEF Place
    <3> QED BY <3>2, TransitionOfTurn
  <2>2. ASSUME NEW c \in {"32", "50"}, g.rearm = "none",
               ExpectedEvent(g) = Command(c) \/ ExpectedEvent(g) = Ack(c)
        PROVE  g.transition # "none"
    <3>1. Turn(g, c)
      <4>1. c \in Commands
        BY <2>2 DEF Commands
      <4> QED BY <2>2, <4>1, TurnOf
    <3> QED BY <2>2, <3>1, TransitionOfTurn
  <2> QED BY <2>1, <2>2
<1>2. CapturesOf(g) = 1
  BY <1>1 DEF CapturesOf
<1> QED BY <1>2 DEF Common, UpToTwo

(* The two places where the reader waits for a touch.                       *)
Reporting(g, r) ==
  /\ OneLate(g, r)
  /\ \/ /\ ExpectedEvent(g) = Touch /\ g.expected = Touch
        /\ Waiting(g, r, Quiet, Arrived, Strayed)
     \/ /\ ExpectedEvent(g) = A \/ (ExpectedEvent(g) = Command("32") /\ g.at = "taken")
        /\ ~(g.observed = 1 /\ ~g.navSeen)
        /\ Waiting(g, r, QuietAck, TouchedAck, StrayedAck)

(* Both are positions of the script.                                        *)
LEMMA ReportingIsAPosition ==
  ASSUME NEW g, NEW r, Reporting(g, r)
  PROVE  Position(g, r)
<1>1. /\ Touch.kind # "ack" /\ Touch.kind # "command"
      /\ A.kind = "ack" /\ A.of = "32"
      /\ Command("32").kind = "command" /\ Command("32").of = "32"
  BY Kinds DEF A
<1>2. CASE /\ ExpectedEvent(g) = Touch /\ g.expected = Touch
           /\ Waiting(g, r, Quiet, Arrived, Strayed)
  <2>1. Answering(g, r)
    BY <1>2, Answerings DEF Reporting
  <2> QED BY <1>1, <1>2, <2>1, Positions
<1>3. CASE /\ \/ ExpectedEvent(g) = A
              \/ ExpectedEvent(g) = Command("32") /\ g.at = "taken"
           /\ ~(g.observed = 1 /\ ~g.navSeen)
           /\ Waiting(g, r, QuietAck, TouchedAck, StrayedAck)
  <2>1. Owing(g, r, "32")
    BY <1>3, Owings DEF Reporting
  <2> QED BY <1>1, <1>3, <2>1, Positions
<1> QED BY <1>2, <1>3 DEF Reporting

(* A reader that is armed for a touch is at one of them, but for the        *)
(* navigation.                                                              *)
LEMMA ArmedForTouch ==
  ASSUME NEW g, Sound(g), ~g.fenced, NEW r, Script(g, r), r.armed = "touch",
         ~(r.captures = 1 /\ r.arms = 1)
  PROVE  Reporting(g, r)
<1>1. Common(g, r) /\ Position(g, r)
  BY DEF Script
<1>2. ~Quieted(r) /\ ~Scanning(r) /\ (\A b : ~Lifting(r, b))
      /\ (\A b : ~Scanned(r, b))
  BY DEF Quieted, Scanning, Lifting, Scanned
<1>3. ASSUME NEW c \in Commands, ExpectedEvent(g) = Command(c), g.at = "flying"
      PROVE  FALSE
  <2>1. Before(g, r, c)
    BY <1>1, <1>3, Kinds, Positions
  <2>2. c = "50" \/ c = "32"
    BY <1>2, <2>1, Befores DEF Commands
  <2>3. CASE c = "50"
    <3>1. r.arms = 1
      BY <2>1, <2>3, Befores
    <3>2. g.rearm = "none" /\ g.observed = 1
      BY <1>3, <2>3, TurnOf, TransitionOfTurn
    <3> QED BY <1>1, <1>3, <2>3, <3>1, <3>2, Navigates
  <2>4. CASE c = "32"
    <3>1. g.observed = 1 /\ g.rearm = "none" /\ r.arms = 1
      BY <2>1, <2>4, Befores
    <3> QED BY <1>1, <1>3, <2>4, <3>1, Navigates
  <2> QED BY <2>2, <2>3, <2>4
<1>4. ASSUME NEW c \in Commands,
             \/ ExpectedEvent(g) = Command(c) /\ g.at = "taken"
             \/ ExpectedEvent(g) = Ack(c)
      PROVE  Reporting(g, r)
  <2>1. Owing(g, r, c)
    <3>1. CASE ExpectedEvent(g) = Command(c) /\ g.at = "taken"
      BY <1>1, <3>1, Kinds, Positions
    <3>2. CASE ExpectedEvent(g) = Ack(c)
      BY <1>1, <3>2, Kinds, Positions
    <3> QED BY <1>4, <3>1, <3>2
  <2>2. c = "50" \/ c = "32"
    <3>1. c # "22" /\ c # "36"
      BY <1>2, <2>1, Owings
    <3>2. c # "34" /\ c # "20"
      BY <1>2, <2>1, Owings
    <3> QED BY <3>1, <3>2 DEF Commands
  <2>3. CASE c = "50"
    <3>1. r.arms = 1
      BY <2>1, <2>3, Owings
    <3>2. g.rearm = "none" /\ g.observed = 1
      BY <1>4, <2>3, TurnOf, TransitionOfTurn
    <3> QED BY <1>1, <1>4, <2>3, <3>1, <3>2, Navigates
  <2>4. CASE c = "32" /\ g.observed = 1 /\ ~g.navSeen
    <3>1. r.arms = 1
      BY <2>1, <2>4, Owings
    <3>2. g.rearm = "none"
      BY <1>4, <2>4, TurnOf
    <3> QED BY <1>1, <1>4, <2>4, <3>1, <3>2, Navigates
  <2>5. CASE c = "32" /\ ~(g.observed = 1 /\ ~g.navSeen)
    <3>1. OneLate(g, r) /\ Waiting(g, r, QuietAck, TouchedAck, StrayedAck)
      BY <2>1, <2>5, Owings
    <3> QED BY <1>4, <2>5, <3>1 DEF Reporting, A
  <2> QED BY <2>2, <2>3, <2>4, <2>5
<1>5. ASSUME ExpectedEvent(g) = g.expected,
             g.expected \in {Primary, Auxiliary, Touch, Sample, Lift, Nav}
      PROVE  Reporting(g, r)
  <2>1. ExpectedEvent(g).kind # "ack" /\ ExpectedEvent(g).kind # "command"
    BY <1>5, Kinds
  <2>2. Answering(g, r)
    BY <1>1, <2>1, Positions
  <2>3. /\ g.expected # Primary /\ g.expected # Auxiliary
        /\ g.expected # Sample /\ g.expected # Lift
    BY <1>2, <2>2, Answerings
  <2>4. CASE g.expected = Nav
    <3>1. r.arms = 1
      BY <2>2, <2>4, Answerings
    <3>2. g.observed = 1
      <4>1. Place(g, Nav) /\ CommandOf(Nav) = "50" /\ Nav # Touch /\ Nav # Lift
        BY <2>4, CommandsOf, Kinds DEF Sound, Ordered
      <4>2. Turn(g, "50")
        BY <4>1 DEF Place
      <4> QED BY <4>2, TransitionOfTurn
    <3> QED BY <1>1, <1>5, <2>4, <3>1, <3>2, Navigates
  <2>5. CASE g.expected = Touch
    BY <1>5, <2>2, <2>5, Answerings DEF Reporting
  <2> QED BY <1>5, <2>3, <2>4, <2>5
<1> QED BY <1>3, <1>4, <1>5, Positioned

-----------------------------------------------------------------------------
(* What the reader and the finger do.                                       *)

(* A frame behind those that are due hides none of them.                    *)
LEMMA InAppended ==
  ASSUME NEW due \in Seq(Frames), NEW f \in Frames, NEW e, e # f
  PROVE  In(e, Append(due, f)) <=> In(e, due)
<1>1. /\ Len(due) \in Nat /\ Len(Append(due, f)) = Len(due) + 1
      /\ Append(due, f)[Len(due) + 1] = f
      /\ \A i \in 1..Len(due) : Append(due, f)[i] = due[i]
  OBVIOUS
<1>2. ASSUME In(e, Append(due, f))
      PROVE  In(e, due)
  <2>1. PICK i \in 1..Len(Append(due, f)) : Append(due, f)[i] = e
    BY <1>2 DEF In
  <2>2. i # Len(due) + 1
    BY <1>1, <2>1
  <2>3. i \in 1..Len(due)
    BY <1>1, <2>1, <2>2
  <2> QED BY <1>1, <2>1, <2>3 DEF In
<1>3. ASSUME In(e, due)
      PROVE  In(e, Append(due, f))
  <2>1. PICK i \in 1..Len(due) : due[i] = e
    BY <1>3 DEF In
  <2>2. i \in 1..Len(Append(due, f)) /\ Append(due, f)[i] = e
    BY <1>1, <2>1
  <2> QED BY <2>2 DEF In
<1> QED BY <1>2, <1>3

(* What is left alone by a report of the reader.                            *)
Spared(r, q) ==
  /\ q.captures = r.captures /\ q.releases = r.releases
  /\ q.arms = r.arms /\ q.zeroed = r.zeroed

(* A touch that the reader reports while it is waited for.                  *)
LEMMA TouchIsReported ==
  ASSUME NEW g, NEW r \in Readers, Common(g, r), Reporting(g, r),
         r.armed = "touch",
         NEW q, Spared(r, q), q.armed = "none", ~q.lifting, q.strays = 0,
         q.due = Append(r.due, Touch)
  PROVE  Script(g, q)
<1>1. r.due \in Seq(Frames) /\ Touch \in Frames /\ Lift # Touch
  BY InFrames, FramesDiffer DEF Readers, Frames
<1>2. In(Lift, q.due) <=> In(Lift, r.due)
  BY <1>1, InAppended
<1>3. OneLate(g, q)
  BY <1>2 DEF OneLate, Reporting
<1>4. r.due \in Quiet => q.due \in Arrived
  BY WaitAppends
<1>5. r.due \in QuietAck => q.due \in TouchedAck
  BY WaitAppends
<1>6. Waiting(g, r, Quiet, Arrived, Strayed) =>
        Waiting(g, q, Quiet, Arrived, Strayed)
  BY <1>4 DEF Waiting, Spared
<1>7. Waiting(g, r, QuietAck, TouchedAck, StrayedAck) =>
        Waiting(g, q, QuietAck, TouchedAck, StrayedAck)
  BY <1>5 DEF Waiting, Spared
<1>8. Reporting(g, q)
  BY <1>3, <1>6, <1>7 DEF Reporting
<1>9. Common(g, q)
  <2>1. Irq80Limit \in Nat
    BY BoundAssumption
  <2>2. ExpectedEvent(g) = Touch \/ CommandOf(ExpectedEvent(g)) = "32"
    BY CommandsOf DEF Reporting, A
  <2> QED BY <2>1, <2>2 DEF Common, Spared
<1> QED BY <1>8, <1>9, ReportingIsAPosition DEF Script

(* A stray that the reader reports while it may.                            *)
LEMMA StrayIsReported ==
  ASSUME NEW g, NEW r \in Readers, Common(g, r), Reporting(g, r),
         r.armed = "touch", r.strays < Irq80Limit,
         NEW q, Spared(r, q), q.armed = "none", q.finger = r.finger,
         q.lifting = r.lifting, q.strays = r.strays + 1,
         q.due = Append(r.due, Stray)
  PROVE  Script(g, q)
<1>1. r.due \in Seq(Frames) /\ Stray \in Frames /\ Lift # Stray
  BY InFrames, FramesDiffer DEF Readers, Frames
<1>2. In(Lift, q.due) <=> In(Lift, r.due)
  BY <1>1, InAppended
<1>3. OneLate(g, q)
  BY <1>2 DEF OneLate, Reporting
<1>4. r.due \in Quiet => q.due \in Strayed
  BY WaitAppends
<1>5. r.due \in QuietAck => q.due \in StrayedAck
  BY WaitAppends
<1>6. Waiting(g, r, Quiet, Arrived, Strayed) =>
        Waiting(g, q, Quiet, Arrived, Strayed)
  BY <1>4 DEF Waiting, Spared
<1>7. Waiting(g, r, QuietAck, TouchedAck, StrayedAck) =>
        Waiting(g, q, QuietAck, TouchedAck, StrayedAck)
  BY <1>5 DEF Waiting, Spared
<1>8. Reporting(g, q)
  BY <1>3, <1>6, <1>7 DEF Reporting
<1>9. Common(g, q)
  <2>1. Irq80Limit \in Nat /\ r.strays \in 0..MaxStrays /\ MaxStrays \in Nat
    BY BoundAssumption DEF Readers
  <2>2. q.strays <= Irq80Limit
    BY <2>1
  <2>3. ExpectedEvent(g) = Touch \/ CommandOf(ExpectedEvent(g)) = "32"
    BY CommandsOf DEF Reporting, A
  <2> QED BY <2>2, <2>3 DEF Common, Spared
<1> QED BY <1>8, <1>9, ReportingIsAPosition DEF Script

(* A step of the lift: the reader's part of each position allows for it.    *)
Lightens(g, r, q) ==
  /\ Spared(r, q) /\ q.strays = r.strays
  /\ \A b \in Seq(Frames) : Lifting(r, b) => Lifting(q, b)
  /\ Quieted(r) => Quieted(q) /\ q.due = r.due
  /\ Scanning(r) => Scanning(q) /\ q.due = r.due
  /\ ~r.lifting /\ r.armed # "lift" =>
       q.armed = r.armed /\ ~q.lifting /\ q.due = r.due
  /\ OneLate(g, r) /\ Waiting(g, r, Quiet, Arrived, Strayed) =>
       OneLate(g, q) /\ Waiting(g, q, Quiet, Arrived, Strayed)
  /\ OneLate(g, r) /\ Waiting(g, r, QuietAck, TouchedAck, StrayedAck) =>
       OneLate(g, q) /\ Waiting(g, q, QuietAck, TouchedAck, StrayedAck)
  /\ OneLate(g, r) /\ r.armed # "touch" /\ r.due \in Quiet =>
       /\ OneLate(g, q) /\ q.armed # "touch" /\ q.due \in Quiet
       /\ r.armed = "none" => q.armed = "none"

(* The step of a lift after a scan.                                         *)
LEMMA ScannedLightens ==
  ASSUME NEW g, NEW r, NEW q, Lightens(g, r, q), NEW b \in Seq(Frames),
         Scanned(r, b)
  PROVE  Scanned(q, b)
<1>1. ZeroSample \in Frames
  BY InFrames
<1>2. b \o <<ZeroSample>> \in Seq(Frames)
  BY <1>1
<1>3. CASE Scanning(r) /\ r.due = b \o <<Sample>>
  BY <1>3 DEF Lightens, Scanned
<1>4. CASE r.zeroed /\ Lifting(r, b \o <<ZeroSample>>)
  BY <1>2, <1>4 DEF Lightens, Scanned, Spared
<1> QED BY <1>3, <1>4 DEF Scanned

(* The step of a lift while a command is under way.                         *)
LEMMA BeforeLightens ==
  ASSUME NEW g, NEW r, NEW q, Lightens(g, r, q), NEW c \in Commands,
         Before(g, r, c)
  PROVE  Before(g, q, c)
<1>1. /\ Spared(r, q)
      /\ Quieted(r) => Quieted(q) /\ q.due = r.due
      /\ Scanning(r) => Scanning(q) /\ q.due = r.due
      /\ ~r.lifting /\ r.armed # "lift" =>
           q.armed = r.armed /\ ~q.lifting /\ q.due = r.due
      /\ OneLate(g, r) /\ r.armed # "touch" /\ r.due \in Quiet =>
           /\ OneLate(g, q) /\ q.armed # "touch" /\ q.due \in Quiet
           /\ r.armed = "none" => q.armed = "none"
  BY DEF Lightens
<1>2. CASE c = "22"
  BY <1>1, <1>2, Befores
<1>3. CASE c = "34"
  BY <1>1, <1>3, Befores DEF Spared
<1>4. CASE c = "36"
  BY <1>1, <1>4, Befores
<1>5. CASE c = "20"
  BY <1>1, <1>5, Befores DEF Spared
<1>6. CASE c = "50"
  BY <1>1, <1>6, Befores DEF Spared
<1>7. CASE c = "32"
  <2>1. CASE g.observed = 1 /\ g.rearm = "none"
    BY <1>1, <1>7, <2>1, Befores DEF Spared
  <2>2. CASE ~(g.observed = 1 /\ g.rearm = "none")
    BY <1>1, <1>7, <2>2, Befores DEF Spared
  <2> QED BY <2>1, <2>2
<1> QED BY <1>2, <1>3, <1>4, <1>5, <1>6, <1>7 DEF Commands

(* The step of a lift while an ACK is due.                                  *)
LEMMA OwingLightens ==
  ASSUME NEW g, NEW r, NEW q, Lightens(g, r, q), NEW c \in Commands,
         Owing(g, r, c)
  PROVE  Owing(g, q, c)
<1>1. /\ Spared(r, q) /\ q.strays = r.strays
      /\ \A b \in Seq(Frames) : Lifting(r, b) => Lifting(q, b)
      /\ Quieted(r) => Quieted(q) /\ q.due = r.due
      /\ Scanning(r) => Scanning(q) /\ q.due = r.due
      /\ ~r.lifting /\ r.armed # "lift" =>
           q.armed = r.armed /\ ~q.lifting /\ q.due = r.due
      /\ OneLate(g, r) /\ Waiting(g, r, QuietAck, TouchedAck, StrayedAck) =>
           OneLate(g, q) /\ Waiting(g, q, QuietAck, TouchedAck, StrayedAck)
  BY DEF Lightens
<1>2. <<Ack("34")>> \in Seq(Frames) /\ <<Ack("36")>> \in Seq(Frames)
  <2>1. Ack("34") \in Frames /\ Ack("36") \in Frames
    BY InFrames DEF Commands
  <2> QED BY <2>1
<1>3. CASE c = "22"
  <2>1. /\ Quieted(r) /\ r.releases = 0 /\ r.arms = 0 /\ ~r.zeroed
        /\ r.due \in {<<Ack("22"), Plain("whole")>>,
                      <<Ack("22"), Plain("half"), Plain("half")>>}
    BY <1>3, Owings
  <2>2. /\ Quieted(q) /\ q.releases = 0 /\ q.arms = 0 /\ ~q.zeroed
        /\ q.due = r.due
    BY <1>1, <2>1 DEF Spared
  <2>3. q.due \in {<<Ack("22"), Plain("whole")>>,
                   <<Ack("22"), Plain("half"), Plain("half")>>}
    BY <2>1, <2>2, Zenon
  <2> QED BY <1>3, <2>2, <2>3, Owings
<1>4. CASE c = "34"
  <2>1. CASE g.observed = 1 \/ g.afterAux
    BY <1>1, <1>2, <1>4, <2>1, Owings DEF Spared
  <2>2. CASE ~(g.observed = 1 \/ g.afterAux)
    BY <1>1, <1>4, <2>2, Owings
  <2> QED BY <2>1, <2>2
<1>5. CASE c = "36"
  BY <1>2, <1>5, Owings, ScannedLightens
<1>6. CASE c = "20"
  BY <1>1, <1>6, Owings DEF Spared
<1>7. CASE c = "50"
  BY <1>1, <1>7, Owings DEF Spared
<1>8. CASE c = "32"
  <2>1. CASE g.observed = 1 /\ ~g.navSeen
    BY <1>1, <1>8, <2>1, Owings DEF Spared
  <2>2. CASE ~(g.observed = 1 /\ ~g.navSeen)
    BY <1>1, <1>8, <2>2, Owings
  <2> QED BY <2>1, <2>2
<1> QED BY <1>3, <1>4, <1>5, <1>6, <1>7, <1>8 DEF Commands

(* The step of a lift while an event is due.                                *)
LEMMA AnsweringLightens ==
  ASSUME NEW g, NEW r, NEW q, Lightens(g, r, q), Answering(g, r),
         g.expected \in {Primary, Auxiliary, Touch, Sample, Lift, Nav}
  PROVE  Answering(g, q)
<1>1. /\ Spared(r, q)
      /\ \A b \in Seq(Frames) : Lifting(r, b) => Lifting(q, b)
      /\ Quieted(r) => Quieted(q) /\ q.due = r.due
      /\ Scanning(r) => Scanning(q) /\ q.due = r.due
      /\ ~r.lifting /\ r.armed # "lift" =>
           q.armed = r.armed /\ ~q.lifting /\ q.due = r.due
      /\ OneLate(g, r) /\ Waiting(g, r, Quiet, Arrived, Strayed) =>
           OneLate(g, q) /\ Waiting(g, q, Quiet, Arrived, Strayed)
  BY DEF Lightens
<1>2. <<>> \in Seq(Frames)
  OBVIOUS
<1>3. CASE g.expected = Primary
  <2>1. /\ Quieted(r) /\ r.releases = 0 /\ r.arms = 0 /\ ~r.zeroed
        /\ r.due \in IF g.half THEN {<<Plain("half")>>}
             ELSE {<<Plain("whole")>>, <<Plain("half"), Plain("half")>>}
    BY <1>3, Answerings
  <2>2. /\ Quieted(q) /\ q.releases = 0 /\ q.arms = 0 /\ ~q.zeroed
        /\ q.due = r.due
    BY <1>1, <2>1 DEF Spared
  <2>3. q.due \in IF g.half THEN {<<Plain("half")>>}
             ELSE {<<Plain("whole")>>, <<Plain("half"), Plain("half")>>}
    BY <2>1, <2>2, Zenon
  <2> QED BY <1>3, <2>2, <2>3, Answerings
<1>4. CASE g.expected = Auxiliary
  BY <1>1, <1>4, Answerings DEF Spared
<1>5. CASE g.expected = Sample
  BY <1>2, <1>5, Answerings, ScannedLightens
<1>6. CASE g.expected = Nav
  BY <1>1, <1>6, Answerings DEF Spared
<1>7. CASE g.expected = Lift
  BY <1>1, <1>2, <1>7, Answerings DEF Spared
<1>8. CASE g.expected = Touch
  BY <1>1, <1>8, Answerings
<1> QED BY <1>3, <1>4, <1>5, <1>6, <1>7, <1>8

(* The step of a lift, wherever the script is.                              *)
LEMMA PositionLightens ==
  ASSUME NEW g, Sound(g), ~g.fenced, NEW r, Position(g, r),
         NEW q, Lightens(g, r, q)
  PROVE  Position(g, q)
<1>1. q.strays = r.strays
  BY DEF Lightens
<1>2. ASSUME NEW c \in Commands, ExpectedEvent(g) = Command(c),
             g.at \in {"flying", "taken"}
      PROVE  Position(g, q)
  <2>1. CASE g.at = "flying"
    <3>1. Before(g, r, c) /\ r.strays = g.strays
      BY <1>2, <2>1, Kinds, Positions
    <3>2. Before(g, q, c)
      BY <3>1, BeforeLightens
    <3> QED BY <1>1, <1>2, <2>1, <3>1, <3>2, Kinds, Positions
  <2>2. CASE g.at = "taken"
    <3>1. Owing(g, r, c)
      BY <1>2, <2>2, Kinds, Positions
    <3>2. Owing(g, q, c)
      BY <3>1, OwingLightens
    <3> QED BY <1>2, <2>2, <3>2, Kinds, Positions
  <2> QED BY <1>2, <2>1, <2>2
<1>3. ASSUME NEW c \in Commands, ExpectedEvent(g) = Ack(c)
      PROVE  Position(g, q)
  <2>1. Owing(g, r, c)
    BY <1>3, Kinds, Positions
  <2>2. Owing(g, q, c)
    BY <2>1, OwingLightens
  <2> QED BY <1>3, <2>2, Kinds, Positions
<1>4. ASSUME ExpectedEvent(g) = g.expected,
             g.expected \in {Primary, Auxiliary, Touch, Sample, Lift, Nav}
      PROVE  Position(g, q)
  <2>1. ExpectedEvent(g).kind # "ack" /\ ExpectedEvent(g).kind # "command"
    BY <1>4, Kinds
  <2>2. Answering(g, q)
    BY <1>4, <2>1, AnsweringLightens, Positions
  <2> QED BY <2>1, <2>2, Positions
<1> QED BY <1>2, <1>3, <1>4, Positioned

(* The finger goes: a step of the lift.                                     *)
LEMMA FingerLeaves ==
  ASSUME NEW g, NEW r, r.finger, NEW q, Spared(r, q), q.strays = r.strays,
         q.due = r.due, q.armed = r.armed, q.finger = FALSE,
         q.lifting <=> r.lifting \/ r.armed = "lift"
  PROVE  Lightens(g, r, q)
<1>1. \A b : Lifting(r, b) => Lifting(q, b)
  BY DEF Lifting
<1>2. /\ Quieted(r) => Quieted(q)
      /\ Scanning(r) => Scanning(q)
  BY DEF Quieted, Scanning, Spared
<1>3. OneLate(g, r) => OneLate(g, q)
  BY DEF OneLate
<1>4. ASSUME NEW quiet, NEW touched, NEW strayed
      PROVE  Waiting(g, r, quiet, touched, strayed) =>
               Waiting(g, q, quiet, touched, strayed)
  BY DEF Waiting, Spared
<1> QED BY <1>1, <1>2, <1>3, <1>4 DEF Lightens

(* Appending is joining.                                                    *)
LEMMA AppendIsJoin ==
  ASSUME NEW b \in Seq(Frames), NEW f \in Frames
  PROVE  Append(b, f) = b \o <<f>>
<1>1. Append(b, f) \in Seq(Frames) /\ b \o <<f>> \in Seq(Frames)
  OBVIOUS
<1>2. /\ Len(Append(b, f)) = Len(b) + 1 /\ Len(b \o <<f>>) = Len(b) + 1
      /\ Len(b) \in Nat
  OBVIOUS
<1>3. \A i \in 1..(Len(b) + 1) : Append(b, f)[i] = (b \o <<f>>)[i]
  OBVIOUS
<1> QED BY <1>1, <1>2, <1>3, SeqEqual

(* The reader reports the lift: a step of the lift.                         *)
LEMMA LiftIsReported ==
  ASSUME NEW g, NEW r \in Readers, r.lifting, ~r.finger,
         ~(r.captures = 2 /\ r.releases = 1 /\ ~r.zeroed),
         NEW q, Spared(r, q), q.strays = r.strays,
         q.due = Append(r.due, Lift), q.finger = FALSE, ~q.lifting,
         IF r.armed = "lift" THEN q.armed = "none" ELSE q.armed = r.armed
  PROVE  Lightens(g, r, q)
<1>1. Lift \in Frames
  BY InFrames
<1>2. ~Quieted(r) /\ ~Scanning(r)
  BY DEF Quieted, Scanning
<1>3. ASSUME NEW b \in Seq(Frames), Lifting(r, b)
      PROVE  Lifting(q, b)
  <2>1. r.armed = "lift" /\ r.due = b
    BY <1>3 DEF Lifting
  <2>2. q.due = b \o <<Lift>>
    BY <1>1, <2>1, AppendIsJoin
  <2> QED BY <2>1, <2>2 DEF Lifting
<1>4. OneLate(g, r) => OneLate(g, q) /\ ~In(Lift, r.due)
  BY DEF OneLate
<1>5. ASSUME ~In(Lift, r.due), Waiting(g, r, Quiet, Arrived, Strayed)
      PROVE  Waiting(g, q, Quiet, Arrived, Strayed)
  <2>1. CASE r.armed = "touch" /\ r.due \in Quiet /\ r.strays = g.strays
    <3>1. r.due = <<>>
      BY <1>5, <2>1, WhereLift
    <3>2. q.due \in Quiet
      BY <3>1, LateAppends
    <3> QED BY <1>5, <2>1, <3>2 DEF Waiting, Spared
  <2>2. CASE r.armed = "none" /\ r.due \in Strayed /\ r.strays = g.strays + 1
    <3>1. r.due = <<Stray>>
      BY <1>5, <2>2, WhereLift
    <3>2. q.due \in Strayed
      BY <3>1, LateAppends
    <3> QED BY <1>5, <2>2, <3>2 DEF Waiting, Spared
  <2> QED BY <1>5, <2>1, <2>2 DEF Waiting
<1>6. ASSUME ~In(Lift, r.due), Waiting(g, r, QuietAck, TouchedAck, StrayedAck)
      PROVE  Waiting(g, q, QuietAck, TouchedAck, StrayedAck)
  <2>1. CASE r.armed = "touch" /\ r.due \in QuietAck /\ r.strays = g.strays
    <3>1. r.due = <<A>>
      BY <1>6, <2>1, WhereLift
    <3>2. q.due \in QuietAck
      BY <3>1, LateAppends
    <3> QED BY <1>6, <2>1, <3>2 DEF Waiting, Spared
  <2>2. CASE r.armed = "none" /\ r.due \in StrayedAck /\ r.strays = g.strays + 1
    <3>1. r.due = <<A, Stray>>
      BY <1>6, <2>2, WhereLift
    <3>2. q.due \in StrayedAck
      BY <3>1, LateAppends
    <3> QED BY <1>6, <2>2, <3>2 DEF Waiting, Spared
  <2> QED BY <1>6, <2>1, <2>2 DEF Waiting
<1>7. ASSUME ~In(Lift, r.due), r.due \in Quiet
      PROVE  q.due \in Quiet
  <2>1. r.due = <<>>
    BY <1>7, WhereLift
  <2> QED BY <2>1, LateAppends
<1> QED BY <1>2, <1>3, <1>4, <1>5, <1>6, <1>7 DEF Lightens

(* The finger that leaves and the lift it causes go on with the script.     *)
LEMMA ReportsFollow ==
  ASSUME NEW g, Sound(g), ~g.fenced, NEW r, Script(g, r),
         NEW q, Lightens(g, r, q), ~q.finger
  PROVE  Script(g, q)
<1>1. Position(g, q)
  BY PositionLightens DEF Script
<1>2. Common(g, q)
  BY DEF Script, Common, Lightens, Spared
<1> QED BY <1>1, <1>2 DEF Script

-----------------------------------------------------------------------------
(* The reader takes a command.                                              *)

(* The graph whose command was taken, or whose OUT is back.                 *)
Turning(g, k) ==
  /\ k.transition = g.transition /\ k.navSeen = g.navSeen
  /\ k.afterAux = g.afterAux /\ k.pending = g.pending
  /\ k.observed = g.observed /\ k.strays = g.strays
  /\ k.window = g.window /\ k.late = g.late

(* The reader that takes a command, field by field.                         *)
LEMMA ReaderAnswers ==
  ASSUME NEW r \in Readers, NEW c \in Commands, NEW reply \in Replies(r, c)
  PROVE  Takes(r, After(r, c, reply), c, reply)
<1>1. reply \in Seq(Frames)
  BY ReplyTyped
<1> QED BY <1>1, AfterFields

(* What is due after a command that was sent with nothing due.              *)
LEMMA FirstIsDue ==
  ASSUME NEW r, NEW q, NEW c \in Commands, NEW reply, Takes(r, q, c, reply),
         r.due = <<>>
  PROVE  q.due = <<Ack(c)>> \o reply
<1>1. Ack(c) \in Frames
  BY InFrames
<1>2. <<>> \o <<Ack(c)>> = <<Ack(c)>>
  BY <1>1, Joined
<1> QED BY <1>2, Zenon DEF Takes

(* The reader takes a 22.                                                   *)
LEMMA CaptureIsOwed ==
  ASSUME NEW k, NEW r, NEW q, NEW reply \in Replies(r, "22"),
         Takes(r, q, "22", reply), Quieted(r), r.due = <<>>
  PROVE  Owing(k, q, "22")
<1>1. "22" \in Commands
  BY DEF Commands
<1>2. Ack("22") \in Frames /\ Plain("whole") \in Frames /\ Plain("half") \in Frames
  BY <1>1, InFrames
<1>3. q.due = <<Ack("22")>> \o reply
  BY <1>1, FirstIsDue
<1>4. reply \in {<<Plain("whole")>>, <<Plain("half"), Plain("half")>>}
  BY Zenon DEF Replies
<1>5. /\ <<Ack("22")>> \o <<Plain("whole")>> = <<Ack("22"), Plain("whole")>>
      /\ <<Ack("22")>> \o <<Plain("half"), Plain("half")>>
           = <<Ack("22"), Plain("half"), Plain("half")>>
  BY <1>2, Joined
<1>6. q.due \in {<<Ack("22"), Plain("whole")>>,
                 <<Ack("22"), Plain("half"), Plain("half")>>}
  BY <1>3, <1>4, <1>5, Zenon
<1>7. Quieted(q) /\ q.releases = 0 /\ q.arms = 0 /\ ~q.zeroed
  BY DEF Takes, Quieted
<1> QED BY <1>6, <1>7, Owings

(* The reader takes a 34.                                                   *)
LEMMA ReleaseIsOwed ==
  ASSUME NEW g, NEW r, Before(g, r, "34"), g.afterAux => g.observed # 1,
         g.observed # 1 => r.captures = 2,
         NEW k, Turning(g, k), NEW q, NEW reply \in Replies(r, "34"),
         Takes(r, q, "34", reply)
  PROVE  Owing(k, q, "34")
<1>1. "34" \in Commands /\ reply = <<>>
  BY ReplyOf32 DEF Commands
<1>2. Ack("34") \in Frames
  BY <1>1, InFrames
<1>3. /\ r.due = <<>>
      /\ IF g.afterAux THEN Scanning(r)
         ELSE Quieted(r) /\ r.releases = 0 /\ r.arms = 0 /\ ~r.zeroed
  BY Befores
<1>4. q.due = <<Ack("34")>>
  <2>1. <<Ack("34")>> \o <<>> = <<Ack("34")>>
    BY <1>2, Joined
  <2>2. q.due = <<Ack("34")>> \o reply
    BY <1>1, <1>3, FirstIsDue
  <2> QED BY <1>1, <2>1, <2>2, Zenon
<1>5. q.armed = "lift" /\ q.arms = r.arms /\ q.captures = r.captures
      /\ q.zeroed = r.zeroed /\ q.releases = UpToTwo(r.releases + 1)
  BY DEF Takes
<1>6. Lifting(q, <<Ack("34")>>)
  BY <1>4, <1>5 DEF Lifting
<1>7. CASE g.observed = 1 \/ g.afterAux
  BY <1>3, <1>5, <1>6, <1>7, Owings DEF Turning
<1>8. CASE ~(g.observed = 1 \/ g.afterAux)
  <2>1. q.releases = 1
    BY <1>3, <1>5, <1>8 DEF UpToTwo
  <2>2. Scanning(q)
    BY <1>3, <1>5, <1>8, <2>1 DEF Scanning
  <2> QED BY <1>4, <1>8, <2>2, Owings DEF Turning
<1> QED BY <1>7, <1>8

(* The reader takes a 36.                                                   *)
LEMMA ScanIsOwed ==
  ASSUME NEW k, NEW r, NEW q, NEW reply \in Replies(r, "36"),
         Takes(r, q, "36", reply), Scanning(r), r.due = <<>>
  PROVE  Owing(k, q, "36")
<1>1. "36" \in Commands
  BY DEF Commands
<1>2. q.due = <<Ack("36")>> \o reply
  BY <1>1, FirstIsDue
<1>3. q.armed = "lift" /\ q.captures = 2 /\ q.releases = 1
      /\ q.zeroed = (reply = <<ZeroSample>>)
  BY DEF Takes, Scanning
<1>4. reply = <<Sample>> \/ reply = <<ZeroSample>>
  BY ReplyOf36
<1>5. CASE reply = <<ZeroSample>>
  <2>1. Lifting(q, <<Ack("36")>> \o <<ZeroSample>>)
    BY <1>2, <1>3, <1>5 DEF Lifting
  <2> QED BY <1>3, <1>5, <2>1, Owings DEF Scanned
<1>6. CASE reply = <<Sample>>
  <2>1. <<Sample>> # <<ZeroSample>>
    <3>1. Sample # ZeroSample
      BY Kinds
    <3> QED BY <3>1
  <2>2. Scanning(q)
    BY <1>3, <1>6, <2>1 DEF Scanning
  <2> QED BY <1>2, <1>6, <2>2, Owings DEF Scanned
<1> QED BY <1>4, <1>5, <1>6

(* The reader takes a 20.                                                   *)
LEMMA TailIsOwed ==
  ASSUME NEW g, NEW r, Before(g, r, "20"), NEW k, Turning(g, k),
         NEW q, NEW reply \in Replies(r, "20"), Takes(r, q, "20", reply)
  PROVE  Owing(k, q, "20")
<1>1. "20" \in Commands /\ reply = <<Plain("whole")>>
  BY ReplyOf20 DEF Commands
<1>2. Ack("20") \in Frames /\ Plain("whole") \in Frames
  BY <1>1, InFrames
<1>3. r.due = <<>> /\ IF g.pending THEN Scanning(r) ELSE Quieted(r) /\ r.arms = 0
  BY Befores
<1>4. q.due = <<Ack("20"), Plain("whole")>>
  <2>1. <<Ack("20")>> \o <<Plain("whole")>> = <<Ack("20"), Plain("whole")>>
    BY <1>2, Joined
  <2>2. q.due = <<Ack("20")>> \o reply
    BY <1>1, <1>3, FirstIsDue
  <2> QED BY <1>1, <2>1, <2>2, Zenon
<1>5. /\ Scanning(r) => Scanning(q)
      /\ Quieted(r) => Quieted(q)
      /\ q.arms = r.arms
  BY DEF Takes, Scanning, Quieted
<1> QED BY <1>3, <1>4, <1>5, Owings DEF Turning

(* The reader takes a 50.                                                   *)
LEMMA NavIsOwed ==
  ASSUME NEW g, NEW r, Before(g, r, "50"),
         NEW k, NEW q, NEW reply \in Replies(r, "50"), Takes(r, q, "50", reply)
  PROVE  Owing(k, q, "50")
<1>1. "50" \in Commands /\ reply = <<Nav>>
  BY ReplyOf50 DEF Commands
<1>2. Ack("50") \in Frames /\ Nav \in Frames
  BY <1>1, InFrames
<1>3. r.due = <<>> /\ r.armed = "touch" /\ ~r.lifting /\ r.arms = 1
  BY Befores
<1>4. q.due = <<Ack("50"), Nav>>
  <2>1. <<Ack("50")>> \o <<Nav>> = <<Ack("50"), Nav>>
    BY <1>2, Joined
  <2>2. q.due = <<Ack("50")>> \o reply
    BY <1>1, <1>3, FirstIsDue
  <2> QED BY <1>1, <2>1, <2>2, Zenon
<1>5. q.armed = "touch" /\ ~q.lifting /\ q.arms = 1
  BY <1>3 DEF Takes
<1> QED BY <1>4, <1>5, Owings

(* The reader takes a 32: the first or second of the navigation, that of    *)
(* the next touch, or that of a stray.                                      *)
LEMMA WaitIsOwed ==
  ASSUME NEW g, NEW r \in Readers, Before(g, r, "32"), r.strays = g.strays,
         g.observed = 1 /\ g.rearm # "none" => g.navSeen,
         NEW k, Turning(g, k), NEW q, NEW reply \in Replies(r, "32"),
         Takes(r, q, "32", reply)
  PROVE  Owing(k, q, "32")
<1>1. "32" \in Commands /\ reply = <<>>
  BY ReplyOf32 DEF Commands
<1>2. r.due \in Seq(Frames) /\ A \in Frames /\ Lift # A
  BY FramesDiffer DEF Readers, Frames
<1>3. q.due = Append(r.due, A)
  <2>1. q.due = (r.due \o <<A>>) \o reply
    BY DEF Takes, A
  <2>2. Append(r.due, A) = r.due \o <<A>>
    BY <1>2, AppendIsJoin
  <2>3. (r.due \o <<A>>) \o <<>> = r.due \o <<A>>
    <3>1. r.due \o <<A>> \in Seq(Frames)
      BY <1>2
    <3> QED BY <3>1
  <2> QED BY <1>1, <2>1, <2>2, <2>3, Zenon
<1>4. /\ q.armed = "touch" /\ q.lifting = r.lifting /\ q.strays = r.strays
      /\ q.arms = UpToTwo(r.arms + 1)
  BY DEF Takes
<1>5. CASE g.observed = 1 /\ g.rearm = "none"
  <2>1. /\ r.due = <<>> /\ ~r.lifting
        /\ IF g.navSeen THEN r.armed = "touch" /\ r.arms = 1
           ELSE r.armed = "none" /\ r.arms = 0
    BY <1>5, Befores
  <2>2. q.due = <<A>> /\ <<A>> \in QuietAck
    BY <1>2, <1>3, <2>1, Appended DEF QuietAck
  <2>3. OneLate(k, q)
    <3>1. ~In(Lift, <<A>>)
      BY <1>2, OneFrame
    <3> QED BY <1>4, <2>1, <2>2, <3>1 DEF OneLate
  <2>4. CASE g.navSeen
    <3>1. q.arms = 2
      BY <1>4, <2>1, <2>4 DEF UpToTwo
    <3>2. Waiting(k, q, QuietAck, TouchedAck, StrayedAck)
      BY <1>4, <2>2, <3>1 DEF Waiting, Turning
    <3> QED BY <2>3, <2>4, <3>2, Owings DEF Turning
  <2>5. CASE ~g.navSeen
    <3>1. q.arms = 1
      BY <1>4, <2>1, <2>5 DEF UpToTwo
    <3> QED BY <1>4, <1>5, <2>1, <2>2, <2>5, <3>1, Owings DEF Turning
  <2> QED BY <2>4, <2>5
<1>6. CASE ~(g.observed = 1 /\ g.rearm = "none")
  <2>1. /\ r.armed # "touch" /\ r.due \in Quiet /\ OneLate(g, r)
        /\ g.observed = 1 => r.arms = 2
    BY <1>6, Befores
  <2>2. q.due \in QuietAck
    <3>1. Append(<<>>, A) = <<A>> /\ Append(<<Lift>>, A) = <<Lift, A>>
      BY <1>2, InFrames, Appended
    <3> QED BY <1>3, <2>1, <3>1, Zenon DEF Quiet, QuietAck
  <2>3. OneLate(k, q)
    <3>1. In(Lift, q.due) <=> In(Lift, r.due)
      BY <1>2, <1>3, InAppended
    <3> QED BY <1>4, <2>1, <3>1 DEF OneLate, Turning
  <2>4. g.observed = 1 => q.arms = 2
    BY <1>4, <2>1 DEF UpToTwo
  <2>5. Waiting(k, q, QuietAck, TouchedAck, StrayedAck)
    BY <1>4, <2>2, <2>4 DEF Waiting, Turning
  <2> QED BY <1>6, <2>3, <2>5, Owings DEF Turning
<1> QED BY <1>5, <1>6

(* How often the reader has captured, as long as the command is not taken.  *)
LEMMA CapturesAtCommand ==
  ASSUME NEW g, Sound(g), ~g.fenced, NEW c \in Commands,
         ExpectedEvent(g) = Command(c) \/ ExpectedEvent(g) = Ack(c)
  PROVE  /\ c # "22" => g.transition # "none" \/ g.expected = Touch
         /\ c = "22" => g.transition = "none" /\ g.expected # Touch
         /\ c = "34" => /\ g.transition # "none"
                        /\ g.afterAux => g.observed # 1
                        /\ g.observed > 0
<1>1. g.observed \in Nat
  BY RequiredAssumption, BoundAssumption DEF Sound, Graphs, Touches
<1>2. g.rearm = "none" => Turn(g, c) /\ g.expected # Touch
  BY TurnOf
<1>3. g.rearm # "none" => c = "32" /\ g.expected = Touch
  BY TurnOf
<1>4. CASE g.rearm # "none"
  BY <1>3, <1>4
<1>5. CASE g.rearm = "none"
  <2>1. c # "22" => g.transition # "none"
    BY <1>2, <1>5, TransitionOfTurn DEF Commands
  <2>2. c = "22" => g.transition = "none"
    BY <1>2, <1>5 DEF Turn, Fresh
  <2>3. c = "34" => (g.afterAux => g.observed # 1)
    BY <1>2, <1>5 DEF Turn
  <2>4. c = "34" => g.observed > 0
    <3>1. ASSUME c = "34"
          PROVE  g.pending
      BY <1>2, <1>5, <3>1, TransitionOfTurn
    <3>2. Counted(g) /\ g.completed \in Nat /\ g.retried \in Nat
      BY RequiredAssumption, BoundAssumption DEF Sound, Graphs, Stages
    <3> QED BY <1>1, <3>1, <3>2 DEF Counted, One
  <2> QED BY <1>2, <1>5, <2>1, <2>2, <2>3, <2>4
<1> QED BY <1>4, <1>5

(* A counter of the reader counts no further than two.                      *)
LEMMA TwoAgain ==
  ASSUME NEW n \in Nat
  PROVE  UpToTwo(UpToTwo(n) + 1) = UpToTwo(n + 1)
BY DEF UpToTwo

(* A command that the reader takes follows the script.                      *)
LEMMA TakenFollows ==
  ASSUME NEW g, Sound(g), ~g.fenced, g.at = "flying",
         NEW c \in Commands, ExpectedEvent(g) = Command(c),
         NEW r \in Readers, Script(g, r),
         NEW k, Turning(g, k), k.at = "taken", k.expected = g.expected,
         ExpectedEvent(k) = ExpectedEvent(g),
         NEW q, NEW reply \in Replies(r, c), Takes(r, q, c, reply)
  PROVE  Script(k, q)
<1>1. Common(g, r) /\ Before(g, r, c) /\ r.strays = g.strays
  BY Kinds, Positions DEF Script
<1>2. g.observed \in Nat
  BY RequiredAssumption, BoundAssumption DEF Sound, Graphs, Touches
<1>3. /\ c # "22" => g.transition # "none" \/ g.expected = Touch
      /\ c = "22" => g.transition = "none" /\ g.expected # Touch
      /\ c = "34" => /\ g.transition # "none"
                     /\ g.afterAux => g.observed # 1
                     /\ g.observed > 0
  BY CapturesAtCommand
<1>4. r.captures = UpToTwo(CapturesOf(g))
  BY <1>1 DEF Common
<1>5. Owing(k, q, c)
  <2>1. CASE c = "22"
    BY <1>1, <2>1, Befores, CaptureIsOwed
  <2>2. CASE c = "34"
    <3>1. g.observed # 1 => r.captures = 2
      BY <1>2, <1>3, <1>4, <2>2 DEF CapturesOf, UpToTwo
    <3> QED BY <1>1, <1>3, <2>2, <3>1, ReleaseIsOwed
  <2>3. CASE c = "36"
    BY <1>1, <2>3, Befores, ScanIsOwed
  <2>4. CASE c = "20"
    BY <1>1, <2>4, TailIsOwed
  <2>5. CASE c = "50"
    BY <1>1, <2>5, NavIsOwed
  <2>6. CASE c = "32"
    <3>1. g.observed = 1 /\ g.rearm # "none" => g.navSeen
      BY TurnOf
    <3> QED BY <1>1, <2>6, <3>1, WaitIsOwed
  <2> QED BY <2>1, <2>2, <2>3, <2>4, <2>5, <2>6 DEF Commands
<1>6. Position(k, q)
  <2>1. ExpectedEvent(k).kind = "command" /\ ExpectedEvent(k).of = c
    BY Kinds
  <2> QED BY <1>5, <2>1, Positions
<1>7. Common(k, q)
  <2>1. q.lifting => ~q.finger
    BY <1>1 DEF Takes, Common
  <2>2. q.captures = UpToTwo(CapturesOf(k))
    <3>1. CASE c = "22"
      <4>1. CapturesOf(g) = g.observed /\ CapturesOf(k) = g.observed + 1
        BY <1>3, <3>1 DEF CapturesOf, Turning
      <4> QED BY <1>2, <1>4, <3>1, <4>1, TwoAgain DEF Takes
    <3>2. CASE c # "22"
      <4>1. CapturesOf(k) = CapturesOf(g)
        BY <1>3, <3>2 DEF CapturesOf, Turning
      <4> QED BY <1>4, <3>2, <4>1 DEF Takes
    <3> QED BY <3>1, <3>2
  <2>3. q.strays = r.strays
    BY DEF Takes
  <2> QED BY <1>1, <2>1, <2>2, <2>3 DEF Common, Turning
<1> QED BY <1>6, <1>7 DEF Script

(* An OUT that is back leaves the reader as it is.                          *)
LEMMA OutFollows ==
  ASSUME NEW g, Sound(g), ~g.fenced, g.at = "taken",
         NEW c \in Commands, ExpectedEvent(g) = Command(c),
         NEW r, Script(g, r), NEW k, Turning(g, k), k.at = "idle",
         (k.expected = Touch) = (g.expected = Touch), ExpectedEvent(k) = Ack(c)
  PROVE  Script(k, r)
<1>1. Common(g, r) /\ Owing(g, r, c)
  BY Kinds, Positions DEF Script
<1>2. OneLate(g, r) => OneLate(k, r)
  BY DEF OneLate, Turning
<1>3. ASSUME NEW quiet, NEW touched, NEW strayed
      PROVE  Waiting(g, r, quiet, touched, strayed) =>
               Waiting(k, r, quiet, touched, strayed)
  BY DEF Waiting, Turning
<1>4. Owing(k, r, c)
  <2>1. CASE c \in {"22", "36", "50"}
    BY <1>1, <2>1, Owings, Zenon
  <2>2. CASE c = "34"
    BY <1>1, <2>2, Owings DEF Turning
  <2>3. CASE c = "20"
    BY <1>1, <2>3, Owings DEF Turning
  <2>4. CASE c = "32"
    BY <1>1, <1>2, <1>3, <2>4, Owings DEF Turning
  <2> QED BY <2>1, <2>2, <2>3, <2>4 DEF Commands
<1>5. Position(k, r)
  <2>1. ExpectedEvent(k).kind = "ack" /\ ExpectedEvent(k).of = c
    BY Kinds
  <2> QED BY <1>4, <2>1, Positions
<1>6. Common(k, r)
  <2>1. CapturesOf(k) = CapturesOf(g)
    BY DEF CapturesOf, Turning
  <2>2. /\ CommandOf(ExpectedEvent(k)) = CommandOf(ExpectedEvent(g))
        /\ ExpectedEvent(g) # Touch
    BY CommandsOf, Kinds
  <2> QED BY <1>1, <2>1, <2>2 DEF Common, Turning
<1> QED BY <1>5, <1>6 DEF Script

-----------------------------------------------------------------------------
(* The steps of the specification, as far as the script is concerned.       *)

(* The receive that has come back changes nothing of the script.            *)
LEMMA HeardFollows ==
  ASSUME NEW g, Sound(g), ~g.fenced, g.listening, NEW r, Script(g, r)
  PROVE  Script(Heard(g), r)
<1> DEFINE h == Heard(g)
<1>1. g \in Graphs /\ CommandIsNext(h) = FALSE /\ ExpectedEvent(h) = ExpectedEvent(g)
  BY HeardIsReady DEF Sound
<1>2. /\ h.expected = g.expected /\ h.at = g.at /\ h.half = g.half
      /\ h.rearm = g.rearm /\ Turning(g, h)
  BY <1>1 DEF Heard, Graphs, Turning
<1> HIDE DEF h
<1>3. ExpectedEvent(g).kind # "command"
  BY <1>1 DEF CommandIsNext
<1>4. OneLate(g, r) => OneLate(h, r)
  BY <1>2 DEF OneLate, Turning
<1>5. ASSUME NEW quiet, NEW touched, NEW strayed
      PROVE  Waiting(g, r, quiet, touched, strayed) =>
               Waiting(h, r, quiet, touched, strayed)
  BY <1>2 DEF Waiting, Turning
<1>6. Common(g, r) /\ Position(g, r)
  BY DEF Script
<1>7. Common(h, r)
  <2>1. CapturesOf(h) = CapturesOf(g)
    BY <1>2 DEF CapturesOf, Turning
  <2> QED BY <1>1, <1>2, <1>6, <2>1 DEF Common, Turning
<1>8. ASSUME NEW c \in Commands, ExpectedEvent(g) = Ack(c)
      PROVE  Position(h, r)
  <2>1. Owing(g, r, c)
    BY <1>6, <1>8, Kinds, Positions
  <2>2. Owing(h, r, c)
    <3>1. CASE c \in {"22", "36", "50"}
      BY <2>1, <3>1, Owings, Zenon
    <3>2. CASE c = "34"
      BY <1>2, <2>1, <3>2, Owings DEF Turning
    <3>3. CASE c = "20"
      BY <1>2, <2>1, <3>3, Owings DEF Turning
    <3>4. CASE c = "32"
      BY <1>2, <1>4, <1>5, <2>1, <3>4, Owings DEF Turning
    <3> QED BY <3>1, <3>2, <3>3, <3>4 DEF Commands
  <2> QED BY <1>1, <1>8, <2>2, Kinds, Positions
<1>9. ASSUME ExpectedEvent(g) = g.expected,
             g.expected \in {Primary, Auxiliary, Touch, Sample, Lift, Nav}
      PROVE  Position(h, r)
  <2>1. ExpectedEvent(g).kind # "ack" /\ ExpectedEvent(g).kind # "command"
    BY <1>9, Kinds
  <2>2. Answering(g, r)
    BY <1>6, <2>1, Positions
  <2>3. Answering(h, r)
    <3>1. CASE g.expected = Primary
      BY <1>2, <2>2, <3>1, Answerings, Zenon
    <3>2. CASE g.expected = Auxiliary
      BY <1>2, <2>2, <3>2, Answerings DEF Turning
    <3>3. CASE g.expected \in {Sample, Nav}
      BY <1>2, <2>2, <3>3, Answerings
    <3>4. CASE g.expected = Lift
      BY <1>2, <2>2, <3>4, Answerings DEF Turning
    <3>5. CASE g.expected = Touch
      BY <1>2, <1>4, <1>5, <2>2, <3>5, Answerings
    <3> QED BY <1>9, <3>1, <3>2, <3>3, <3>4, <3>5
  <2> QED BY <1>1, <2>1, <2>3, Positions
<1>10. Position(h, r)
  BY <1>3, <1>8, <1>9, Kinds, Positioned
<1> QED BY <1>7, <1>10 DEF Script, h

(* The hand-over is at the wait for the first touch.                        *)
LEMMA NewFollows == Follows(NewGraph, FreshReader)
<1> DEFINE g == NewGraph r == FreshReader
<1>1. /\ g.expected = Touch /\ g.transition = "none" /\ g.observed = 0
      /\ g.failed = FALSE /\ g.strays = 0 /\ g.rearm = "none"
  BY DEF NewGraph
<1>2. /\ r.armed = "touch" /\ ~r.finger /\ ~r.lifting /\ r.due = <<>>
      /\ r.captures = 0 /\ r.strays = 0
  BY DEF FreshReader
<1> HIDE DEF g, r
<1>3. ExpectedEvent(g) = Touch
  BY <1>1 DEF ExpectedEvent
<1>4. Waiting(g, r, Quiet, Arrived, Strayed)
  BY <1>1, <1>2 DEF Waiting, Quiet
<1>5. OneLate(g, r)
  BY <1>2, NoFrame DEF OneLate
<1>6. Reporting(g, r)
  BY <1>1, <1>3, <1>4, <1>5 DEF Reporting
<1>7. Common(g, r)
  BY <1>1, <1>2, <1>3, BoundAssumption DEF Common, CapturesOf, UpToTwo
<1>8. Script(g, r)
  BY <1>6, <1>7, ReportingIsAPosition DEF Script
<1> QED BY <1>1, <1>8 DEF Follows, g, r

(* Without blame the graph has not failed, and follows the script.          *)
IInv == Typed /\ (~blame => Follows(graph, reader))

(* A receive follows the script.                                            *)
LEMMA ReceiveFollows ==
  ASSUME Typed, ~graph.fenced, Script(graph, reader), Receive, ~blame'
  PROVE  Follows(graph', reader')
<1> DEFINE h == Heard(graph) f == Head(reader.due)
<1>1. /\ graph.listening /\ reader.due # <<>>
      /\ reader' = [reader EXCEPT !.due = Tail(@)]
  BY DEF Receive, Reads
<1>2. PICK verdict \in IF graph.pending THEN Verdicts ELSE {"good"} :
        /\ verdict = "again" => graph.retried < MaxRetries
        /\ graph' = ArmIfNeeded(IF f \in PlainFrames THEN HandlePlaintext(h, f)
                                ELSE ContextHandleA0(h, f, verdict))
        /\ blame' = (blame \/ verdict = "broken")
  BY DEF Receive, Heard
<1>3. verdict \in Verdicts /\ verdict # "broken"
  BY <1>2 DEF Verdicts
<1>4. Sound(graph) /\ graph \in Graphs /\ reader \in Readers
  BY DEF Typed, Sound
<1>5. Ready(h) /\ ~CommandIsNext(h) /\ Script(h, reader)
  BY <1>1, <1>4, HeardIsReady, HeardFollows
<1>6. h.retried = graph.retried
  BY <1>4 DEF Heard, Graphs
<1>7. HasRead(reader, reader')
  BY <1>1, <1>4, FrameIsRead
<1>8. graph' = Handled(h, f, verdict)
  BY <1>2 DEF Handled
<1> HIDE DEF h
<1> QED BY <1>1, <1>2, <1>3, <1>4, <1>5, <1>6, <1>7, <1>8, FrameFollows

(* An OUT that is back follows the script.                                  *)
LEMMA OutCompletesFollows ==
  ASSUME Typed, ~graph.fenced, ~graph.failed, Script(graph, reader), OutCompletes
  PROVE  Follows(graph', reader')
<1> DEFINE k == BackendOutComplete(graph) c == ExpectedEvent(graph).of
<1>1. Sound(graph) /\ graph.at = "taken" /\ graph' = k /\ reader' = reader
  BY DEF Typed, OutCompletes
<1>2. /\ k.at = "idle" /\ k.failed = FALSE
      /\ k.transition = graph.transition
      /\ k.navSeen = graph.navSeen /\ k.afterAux = graph.afterAux
      /\ k.pending = graph.pending /\ k.observed = graph.observed
      /\ k.strays = graph.strays
      /\ k.window = graph.window /\ k.late = graph.late
  BY <1>1, OutCommits
<1>3. /\ ExpectedEvent(graph) = Command(c) /\ ExpectedEvent(k) = Ack(c)
      /\ c \in Commands
      /\ (k.expected = Touch) = (graph.expected = Touch)
  BY <1>1, OutCommits
<1> HIDE DEF k, c
<1>4. Turning(graph, k)
  BY <1>2 DEF Turning
<1>5. Script(k, reader)
  BY <1>1, <1>2, <1>3, <1>4, OutFollows
<1> QED BY <1>1, <1>2, <1>5 DEF Follows

(* The reader that takes a command follows the script.                      *)
LEMMA ReaderTakesFollows ==
  ASSUME Typed, ~graph.fenced, ~graph.failed, Script(graph, reader), ReaderTakes
  PROVE  Follows(graph', reader')
<1> DEFINE k == [graph EXCEPT !.at = "taken"] c == graph.out
<1>1. /\ Sound(graph) /\ graph \in Graphs /\ reader \in Readers
      /\ graph.at = "flying" /\ graph' = k
  BY DEF Typed, Sound, ReaderTakes
<1>2. PICK reply \in Replies(reader, c) : reader' = After(reader, c, reply)
  BY DEF ReaderTakes
<1>3. c \in Commands /\ ExpectedEvent(graph) = Command(c)
  <2>1. Connected(graph) /\ Ordered(graph)
    BY <1>1 DEF Sound
  <2>2. CommandIsNext(graph) /\ c = ExpectedEvent(graph).of
    BY <1>1, <2>1 DEF Connected
  <2> QED BY <1>1, <2>1, <2>2, CommandNext
<1>4. /\ k.at = "taken" /\ k.expected = graph.expected
      /\ k.transition = graph.transition
      /\ k.navSeen = graph.navSeen /\ k.afterAux = graph.afterAux
      /\ k.pending = graph.pending /\ k.observed = graph.observed
      /\ k.strays = graph.strays /\ k.failed = graph.failed
      /\ k.window = graph.window /\ k.late = graph.late
      /\ ExpectedEvent(k) = ExpectedEvent(graph)
  BY <1>1, TakenFields
<1> HIDE DEF k, c
<1>5. Turning(graph, k)
  BY <1>4 DEF Turning
<1>6. Takes(reader, reader', c, reply)
  BY <1>1, <1>2, <1>3, ReaderAnswers
<1>7. Script(k, reader')
  BY <1>1, <1>3, <1>4, <1>5, <1>6, TakenFollows
<1>8. k.failed = FALSE
  BY <1>1, <1>4 DEF Graphs
<1> QED BY <1>1, <1>7, <1>8 DEF Follows

(* The finger, and what the reader reports of it, follow the script.        *)
LEMMA FingerFollows ==
  ASSUME Typed, ~graph.fenced, Script(graph, reader), ~blame',
         FingerDown \/ FingerUp \/ ReportLift \/ StrayEvent
  PROVE  Script(graph, reader')
<1>1. Sound(graph) /\ reader \in Readers /\ Common(graph, reader)
  BY DEF Typed, Script
<1> DEFINE r == reader q == reader'
<1>2. CASE FingerDown
  <2>1. /\ reader.armed = "touch"
        /\ ~(reader.captures = 1 /\ reader.arms = 1)
        /\ reader' = [reader EXCEPT !.due = Append(@, Touch), !.armed = "none",
                              !.finger = TRUE, !.lifting = FALSE, !.strays = 0]
    BY <1>2 DEF FingerDown, Navigating
  <2>2. /\ Spared(r, q) /\ q.armed = "none" /\ ~q.lifting /\ q.strays = 0
        /\ q.due = Append(r.due, Touch)
    BY <1>1, <2>1 DEF Readers, Spared
  <2>3. Reporting(graph, reader)
    BY <1>1, <2>1, ArmedForTouch
  <2> QED BY <1>1, <2>1, <2>2, <2>3, TouchIsReported
<1>3. CASE FingerUp
  <2>1. /\ reader.finger
        /\ reader' = [reader EXCEPT !.finger = FALSE,
                                    !.lifting = @ \/ reader.armed = "lift"]
    BY <1>3 DEF FingerUp
  <2>2. /\ Spared(r, q) /\ q.strays = r.strays /\ q.due = r.due
        /\ q.armed = r.armed /\ q.finger = FALSE
        /\ q.lifting <=> r.lifting \/ r.armed = "lift"
    BY <1>1, <2>1 DEF Readers, Spared
  <2>3. Lightens(graph, reader, reader')
    BY <2>1, <2>2, FingerLeaves
  <2> QED BY <1>1, <2>2, <2>3, ReportsFollow
<1>4. CASE ReportLift
  <2>1. /\ reader.lifting
        /\ ~(reader.captures = 2 /\ reader.releases = 1 /\ ~reader.zeroed)
        /\ reader' = [reader EXCEPT !.due = Append(@, Lift), !.lifting = FALSE,
                              !.armed = IF @ = "lift" THEN "none" ELSE @]
    BY <1>4 DEF ReportLift
  <2>2. ~reader.finger
    BY <1>1, <2>1 DEF Common
  <2>3. /\ Spared(r, q) /\ q.strays = r.strays /\ q.due = Append(r.due, Lift)
        /\ q.finger = FALSE /\ ~q.lifting
        /\ IF r.armed = "lift" THEN q.armed = "none" ELSE q.armed = r.armed
    BY <1>1, <2>1, <2>2 DEF Readers, Spared
  <2>4. Lightens(graph, reader, reader')
    BY <1>1, <2>1, <2>2, <2>3, LiftIsReported
  <2> QED BY <1>1, <2>3, <2>4, ReportsFollow
<1>5. CASE StrayEvent
  <2>1. /\ reader.armed = "touch" /\ ~(reader.strays >= Irq80Limit)
        /\ ~(reader.captures = 1 /\ reader.arms = 1)
        /\ reader' = [reader EXCEPT !.due = Append(@, Stray), !.armed = "none",
                                    !.strays = @ + 1]
    BY <1>5 DEF StrayEvent, Navigating
  <2>2. reader.strays < Irq80Limit
    BY <1>1, <2>1, BoundAssumption DEF Readers
  <2>3. /\ Spared(r, q) /\ q.armed = "none" /\ q.finger = r.finger
        /\ q.lifting = r.lifting /\ q.strays = r.strays + 1
        /\ q.due = Append(r.due, Stray)
    BY <1>1, <2>1 DEF Readers, Spared
  <2>4. Reporting(graph, reader)
    BY <1>1, <2>1, ArmedForTouch
  <2> QED BY <1>1, <2>1, <2>2, <2>3, <2>4, StrayIsReported
<1> QED BY <1>2, <1>3, <1>4, <1>5

(* IInv is inductive.                                                       *)
LEMMA FollowsStep ==
  ASSUME IInv, [Next]_vars
  PROVE  IInv'
<1>1. Typed' /\ Typed /\ blame \in BOOLEAN
  BY TypedStep DEF IInv, Typed
<1>2. ASSUME ~blame'
      PROVE  Follows(graph', reader')
  <2>1. CASE Renew
    BY <2>1, NewFollows DEF Renew
  <2>2. CASE ~Renew
    <3>1. ~blame /\ ~OutFails /\ ~Fence /\ ~ReaderErrs
      BY <1>1, <1>2, <2>2 DEF Next, vars, Receive, OutCompletes, OutFails, Fence,
                              ReaderTakes, FingerDown, FingerUp, ReportLift,
                              StrayEvent, ReaderErrs
    <3>2. Follows(graph, reader)
      BY <3>1 DEF IInv
    <3>3. CASE graph.complete
      <4>1. graph.fenced /\ graph.at = "idle"
        BY <1>1, <3>3 DEF Typed, Sound
      <4>2. graph' = graph
        BY <2>2, <3>1, <4>1 DEF Next, vars, Receive, Reads, OutCompletes,
                           ReaderTakes, FingerDown, FingerUp, ReportLift, StrayEvent
      <4> QED BY <3>2, <3>3, <4>2 DEF Follows
    <3>4. CASE ~graph.complete
      <4>1. ~graph.failed /\ Script(graph, reader)
        BY <3>2, <3>4 DEF Follows
      <4>2. ~graph.fenced
        BY <1>1, <3>4, <4>1 DEF Typed, Sound
      <4>3. CASE Receive
        BY <1>1, <1>2, <4>1, <4>2, <4>3, ReceiveFollows
      <4>4. CASE OutCompletes
        BY <1>1, <4>1, <4>2, <4>4, OutCompletesFollows
      <4>5. CASE ReaderTakes
        BY <1>1, <4>1, <4>2, <4>5, ReaderTakesFollows
      <4>6. CASE FingerDown \/ FingerUp \/ ReportLift \/ StrayEvent
        <5>1. graph' = graph
          BY <4>6 DEF FingerDown, FingerUp, ReportLift, StrayEvent
        <5>2. Script(graph, reader')
          BY <1>1, <1>2, <4>1, <4>2, <4>6, FingerFollows
        <5> QED BY <3>2, <5>1, <5>2 DEF Follows
      <4>7. CASE UNCHANGED vars
        <5>1. graph' = graph /\ reader' = reader
          BY <4>7 DEF vars
        <5> QED BY <3>2, <5>1
      <4> QED BY <2>2, <3>1, <4>3, <4>4, <4>5, <4>6, <4>7 DEF Next
    <3> QED BY <3>3, <3>4
  <2> QED BY <2>1, <2>2
<1> QED BY <1>1, <1>2 DEF IInv

-----------------------------------------------------------------------------
(* The theorems.                                                            *)

(* The sound graph is an invariant.                                         *)
LEMMA AlwaysTyped == Spec => []Typed
<1>1. Init => Typed
  BY TypedInit
<1>2. Typed /\ [Next]_vars => Typed'
  BY TypedStep
<1> QED BY <1>1, <1>2, PTL DEF Spec

(* The graph of the enrollment, its layers and the reader keep their types. *)
THEOREM AlwaysTypeOK == Spec => []TypeOK
<1>1. Typed => TypeOK
  <2> SUFFICES ASSUME Typed PROVE TypeOK
    OBVIOUS
  <2>1. graph \in Graphs /\ reader \in Readers /\ errors \in 0..MaxErrors
        /\ blame \in BOOLEAN
    BY DEF Typed, Sound
  <2>2. graph \in GraphType
    BY <2>1 DEF Graphs, GraphType, Expectations, Stages
  <2>3. graph.fw.st \in {"IDLE", "AWAIT_ON", "CAPTURE", "AWAIT_OFF", "DEACTIVATING"}
    <3>1. graph.fw \in Devices
      BY <2>1 DEF Graphs
    <3>2. PICK st \in States, finger \in BOOLEAN, stage \in Stages, held \in BOOLEAN :
            graph.fw = Device(st, finger, stage, held)
      BY <3>1 DEF Devices
    <3>3. graph.fw.st = st
      BY <3>2 DEF Device
    <3> QED BY <3>3 DEF States
  <2> QED BY <2>1, <2>2, <2>3 DEF TypeOK, Readers
<1> QED BY <1>1, AlwaysTyped, PTL

(* The model's count, the FDT tables, the framework and the transfers stay  *)
(* in step (goodix_enrollment_model.c and its binding).                     *)
THEOREM AlwaysInStep == Spec => []InStep
<1>1. Typed => InStep
  <2> SUFFICES ASSUME Typed PROVE InStep
    OBVIOUS
  <2>1. /\ graph \in Graphs /\ Counted(graph)
        /\ ~graph.fenced => Ordered(graph) /\ Connected(graph)
    BY DEF Typed, Sound
  <2>2. ~graph.fw.breach /\ graph.fw.stage = graph.completed
    <3> DEFINE d == Device(graph.fw.st, graph.fw.finger, graph.completed, graph.held)
    <3>1. graph.fw = d
      BY <2>1 DEF Counted
    <3>2. d.breach = FALSE /\ d.stage = graph.completed
      BY DEF Device
    <3> HIDE DEF d
    <3> QED BY <3>1, <3>2
  <2>3. graph.observed = graph.completed + graph.retried
                          + IF graph.pending THEN 1 ELSE 0
    BY <2>1 DEF Counted, One
  <2>4. ASSUME ~graph.fenced
        PROVE  graph.listening = (graph.at = "idle")
    BY <2>1, <2>4 DEF Connected
  <2>5. ASSUME ~graph.fenced, graph.expected = Touch
        PROVE  /\ ~graph.pending /\ graph.fw.st = "AWAIT_ON"
               /\ graph.current = graph.observed /\ graph.down = graph.observed
    <3>1. Place(graph, Touch)
      BY <2>1, <2>5 DEF Ordered
    <3>2. Lifted(graph)
      BY <3>1, CommandsOf, Kinds DEF Place, Turn
    <3> QED BY <3>2 DEF Lifted, Tables, Telling
  <2> QED BY <2>2, <2>3, <2>4, <2>5 DEF InStep
<1> QED BY <1>1, AlwaysTyped, PTL

(* What the framework is told is an enrollment: each touch is judged once,  *)
(* before the finger is off, and the enrollment ends with the last of them. *)
LEMMA TellsIsPromised ==
  ASSUME Sound(graph), Sound(graph'),
         Tells(graph, graph') \/ Renews(graph, graph')
  PROVE  [Promised!Next]_(Promised!vars)
<1> USE DEF OutcomeOf, JudgedOf
<1>1. CASE Silent(graph, graph')
  BY <1>1 DEF Silent, Promised!vars
<1>2. CASE Fails(graph, graph')
  BY <1>2 DEF Fails, Promised!Fail, Promised!Next
<1>3. CASE Arrives(graph, graph')
  BY <1>3 DEF Arrives, Promised!Touch, Promised!Next
<1>4. CASE Judges(graph, graph')
  BY <1>4 DEF Judges, Accepts, Promised!Judge, Promised!Judged, Promised!Next
<1>5. CASE Lifts(graph, graph')
  BY <1>5 DEF Lifts, Accepts, Promised!Lift, Promised!Judged, Promised!Next
<1>6. CASE Renews(graph, graph')
  <2>1. NewGraph.fw.st = "AWAIT_ON" /\ NewGraph.fw.finger = FALSE
        /\ NewGraph.fw.stage = 0 /\ NewGraph.fenced = FALSE
    BY NewIsSound DEF Device
  <2> QED BY <1>6, <2>1 DEF Renews, Promised!Again, Promised!Next
<1> QED BY <1>1, <1>2, <1>3, <1>4, <1>5, <1>6 DEF Tells

(* What the framework is told of an enrollment (goodix_device_context.c:    *)
(* context_enrollment_contact() and deliver_stage()) is what Enrollment.tla *)
(* promises: each touch is judged once, and the enrollment is enrolled only *)
(* after the last of the accepted stages was followed by its lift.          *)
THEOREM Implements == Spec => ImplementsEnrollment
<1>1. Init => Promised!Init
  <2>1. NewGraph.fw.st = "AWAIT_ON" /\ NewGraph.fw.finger = FALSE
        /\ NewGraph.fw.stage = 0 /\ NewGraph.fenced = FALSE
    BY NewIsSound DEF Device
  <2> QED BY <2>1 DEF Init, Promised!Init
<1>2. Typed /\ Typed' /\ [Next]_vars => [Promised!Next]_(Promised!vars)
  BY SoundStep, TellsIsPromised DEF Typed
<1> QED BY <1>1, <1>2, AlwaysTyped, PTL DEF Spec, ImplementsEnrollment, Promised!Spec

(* The graph never fails by itself: not for the lift of a touch that was    *)
(* found empty, whenever it comes, nor for strays or for what a touch is    *)
(* followed by (goodix_enrollment_post_tls_events.c, handle_a0()).          *)
THEOREM AlwaysFailsOnlyForCause == Spec => []FailsOnlyForCause
<1>1. Init => IInv
  <2>1. Init => Typed
    BY TypedInit
  <2>2. Init => Follows(graph, reader)
    BY NewFollows DEF Init
  <2> QED BY <2>1, <2>2 DEF IInv
<1>2. IInv /\ [Next]_vars => IInv'
  BY FollowsStep
<1>3. IInv => FailsOnlyForCause
  BY DEF IInv, Typed, Follows, FailsOnlyForCause
<1> QED BY <1>1, <1>2, <1>3, PTL DEF Spec
=============================================================================
