------------------------ MODULE PostTlsLifecycleProofs ------------------------
(* The post-TLS lifecycle fails for a cause only, captures what it was asked*)
(* for and tells the framework what Capture.tla promises, for every limit   *)
(* on strays and contacts, and whatever the reader and its cable do.        *)
(*                                                                          *)
(* The argument: IInv is inductive.  Sound holds of every state: Transport  *)
(* of the OUT endpoint and its owner, Contact of what the framework was told*)
(* and asked for, Counts of what the sensor did.  Script says what is due   *)
(* from the reader as long as nobody misbehaved, so that each frame finds   *)
(* the phase it is meant for; Clean says what else could go wrong, which is *)
(* nothing without blame.                                                   *)
EXTENDS PostTlsLifecycle, SequenceTheorems, TLAPS

(* The phases, by the part of the capture they belong to.                   *)
SamplesBefore ==
  [NOT_STARTED |-> 0, D4 |-> 0, AF |-> 0, FDT36_1 |-> 0, FDT_IRQ100_1 |-> 0,
   FDT_NAV_1 |-> 1, FDT36_2 |-> 1, FDT_IRQ100_2 |-> 1, FDT_82 |-> 2,
   FDT_20 |-> 2, FDT_B0 |-> 2, FDT36_3 |-> 2, FDT_IRQ100_3 |-> 2]
Early ==
  {"NOT_STARTED", "D4", "AF", "FDT36_1", "FDT_IRQ100_1", "FDT_NAV_1",
   "FDT36_2", "FDT_IRQ100_2", "FDT_82", "FDT_20", "FDT_B0", "FDT36_3",
   "FDT_IRQ100_3"}
First == {"FIRST_ARM", "FIRST_IRQ2"}
Taking == {"FIRST_22", "FIRST_B0"}
Lifting == {"RELEASE_34", "RELEASE_IRQ200"}
Reading == {"RELEASE_20", "RELEASE_B0", "RELEASE_50", "RELEASE_NAV"}
Second == {"SECOND_ARM", "SECOND_IRQ2"}
Retaking == {"SECOND_22", "SECOND_B0"}
Over == {"STOP", "TERMINAL"}

(* The command whose OUT may be under way in a phase, and the phases that   *)
(* wait for the first frame after it.                                       *)
CommandOf(p) ==
  CASE p = "D4" -> "d4"
    [] p = "AF" -> "af"
    [] p \in {"FDT36_1", "FDT36_2", "FDT36_3"} -> "36"
    [] p \in {"FDT_IRQ100_1", "FDT_IRQ100_2", "FDT_IRQ100_3"} -> "36"
    [] p = "FDT_NAV_1" -> "50"
    [] p = "FDT_82" -> "82"
    [] p \in {"FDT_20", "FDT_B0", "RELEASE_20", "RELEASE_B0"} -> "20"
    [] p \in First \cup Second -> "32"
    [] p \in Taking \cup Retaking -> "22"
    [] p \in Lifting -> "34"
    [] p \in {"RELEASE_50", "RELEASE_NAV", "REARM_GATE"} -> "50"
    [] OTHER -> "none"
ToAck ==
  {"FDT36_1", "FDT36_2", "FDT36_3", "FDT_20", "FIRST_ARM", "FIRST_22",
   "RELEASE_34", "RELEASE_20", "RELEASE_50", "SECOND_ARM", "SECOND_22"}
ToAckInPlace == {"FDT_NAV_1", "FDT_82"}
Sent == {"D4", "AF"} \cup ToAck \cup ToAckInPlace
After(p) == IF p = "FIRST_ARM" THEN "FIRST_IRQ2" ELSE AfterAck[p]

Flying(l) == l.at = "flying"
One(condition) == IF condition THEN 1 ELSE 0

(* What the fields of a lifecycle are in a phase.                           *)
Transport(l) ==
  /\ l.phase # "TERMINAL" => (l.out <=> l.at # "idle")
  /\ l.fenced => l.phase \in Over
  /\ l.phase \notin Over \cup {"NOT_STARTED"} => l.owned
  /\ l.phase = "STOP" /\ l.use # "enroll" => l.owned
  /\ l.phase = "STOP" /\ l.use = "enroll" => ~l.owned /\ l.at = "idle"
  /\ l.phase = "NOT_STARTED" => l.at = "idle"
  /\ l.phase \notin Over \cup {"NOT_STARTED"} => l.expected = CommandOf(l.phase)
  /\ l.half => l.phase \in {"FDT_B0", "FIRST_B0", "SECOND_B0"}
  /\ l.phase \in {"D4", "AF"} \cup ToAck => ~l.ack
  /\ l.phase = "STOP" /\ l.use = "login" => l.expected = "50"

Contact(l) ==
  /\ l.phase \in Early => /\ l.samples = SamplesBefore[l.phase]
                          /\ l.irq80 = 0 /\ ~l.authorized
  /\ l.phase \notin Over /\ l.rearming => l.phase = "FIRST_ARM"
  /\ l.phase = "FIRST_ARM" => (l.rearming <=> l.irq80 > 0)
  /\ l.phase \in Early \cup First =>
       /\ l.told \in {"nothing", "up"} /\ ~l.await /\ ~l.rearmed
       /\ l.asked = l.downs + One(l.use # "enroll" /\ ~Gated(l))
       /\ l.use = "two" \/ Gated(l) => l.downs = 0
       /\ l.use = "enroll" => l.phase # "FIRST_IRQ2" /\ ~l.rearming
  /\ l.phase \in Taking \cup Lifting \cup Reading =>
       /\ l.told = IF l.phase \in Taking THEN "down" ELSE "image"
       /\ ~l.await /\ ~l.rearmed /\ l.use # "enroll" /\ ~Gated(l)
       /\ l.asked = l.downs /\ (l.use = "two" => l.downs = 1)
  /\ l.phase \in Reading \cup {"REARM_GATE"} => l.down
  /\ l.phase \in {"REARM_GATE"} \cup Second \cup Retaking => l.use = "two"
  /\ l.phase = "REARM_GATE" =>
       l.told = "up" /\ l.downs = 1 /\ l.asked = 1 /\ ~l.await /\ ~l.rearmed
  /\ l.phase \in Second => l.told = "up" /\ l.downs = 1 /\ l.asked = 2
  /\ l.phase \in Retaking => l.told = "down" /\ l.downs = 2 /\ l.asked = 2
  /\ l.phase = "STOP" /\ l.use = "login" =>
       /\ l.told = "up" /\ l.asked = l.downs /\ l.authorized
       /\ ~l.await /\ ~l.rearmed /\ ~l.rearming

(* How often the sensor was armed and read, with the command that flies.    *)
Bounds(l, r) ==
  /\ r.arms + One(Flying(l) /\ l.expected = "32") <= Irq80Limit + 1
  /\ r.captures + One(Flying(l) /\ l.expected = "22") <= l.downs
  /\ l.downs <= l.asked
  /\ Flying(l) => l.expected # "none"

Counts(l, r) ==
  /\ Bounds(l, r)
  /\ l.phase \in Early \cup Lifting \cup Reading \cup {"REARM_GATE"} =>
       r.arms = 0
  /\ l.phase \in First => r.arms + One(Flying(l)) = l.irq80 + 1
  /\ l.phase \in Taking \cup Retaking /\ ~Flying(l) => r.arms = 0
  /\ l.phase \in Second => r.arms + One(Flying(l)) = 1
  /\ l.phase = "STOP" /\ l.use = "login" => r.arms = 0

(* What is due in a phase that waits for no ACK.                            *)
Owed(p, half, armed, due) ==
  CASE p \in {"FDT_IRQ100_1", "FDT_IRQ100_2", "FDT_IRQ100_3"} ->
         \E t \in BOOLEAN, s \in BOOLEAN : due = <<Sample(t, s)>>
    [] p \in {"FDT_NAV_1", "RELEASE_NAV"} -> due = <<Nav>>
    [] p = "FDT_82" -> due = <<Threshold>>
    [] p \in {"FDT_B0", "FIRST_B0", "SECOND_B0"} ->
         IF half THEN due = <<Plain("half")>>
         ELSE due \in {<<Plain("whole")>>, <<Plain("half"), Plain("half")>>}
    [] p = "RELEASE_B0" -> due = <<Plain("whole")>>
    [] p \in {"FIRST_IRQ2", "SECOND_IRQ2"} ->
         \/ armed = "touch" /\ due = <<>>
         \/ armed = "nothing" /\ due \in {<<Touch>>, <<Stray>>}
    [] p = "RELEASE_IRQ200" ->
         \/ armed = "lift" /\ due = <<>>
         \/ armed = "lifted" /\ due = <<Lift>>
    [] OTHER -> FALSE

Script(l, r) ==
  /\ l.phase \in Early \cup Taking \cup Retaking => r.armed = "nothing"
  /\ l.phase \in Reading \cup {"REARM_GATE"} => r.armed = "lifted"
  /\ Flying(l) /\ l.phase \notin Over =>
       /\ l.phase \in Sent /\ ~l.ack /\ r.due = <<>>
       /\ r.armed \notin {"touch", "lift"}
  /\ ~Flying(l) =>
       /\ l.phase \in {"NOT_STARTED", "REARM_GATE"} => r.due = <<>>
       /\ l.phase = "D4" => r.due = <<Ack("d4")>>
       /\ l.phase = "AF" => r.due = <<Controller>>
       /\ l.phase \in ToAck \/ (l.phase \in ToAckInPlace /\ ~l.ack) =>
            \E rest \in Seq(A0Frames \cup PlainFrames) :
              /\ r.due = <<Ack(l.expected)>> \o rest
              /\ Owed(After(l.phase), FALSE, r.armed, rest)
       /\ l.phase \notin {"NOT_STARTED", "REARM_GATE", "D4", "AF"}
                           \cup ToAck \cup ToAckInPlace \cup Over
            \/ (l.phase \in ToAckInPlace /\ l.ack) =>
            Owed(l.phase, l.half, r.armed, r.due)
  /\ l.phase = "STOP" /\ l.use = "login" =>
       ~Flying(l) /\ r.due = <<>> /\ r.armed = "lifted"
  /\ l.phase = "STOP" /\ l.use = "enroll" =>
       Owed("FIRST_IRQ2", FALSE, r.armed, r.due)

(* Without blame, every frame that is due will be accepted.                 *)
In(f, due) == \E i \in 1..Len(due) : due[i] = f

Clean(l, r) ==
  /\ l.phase # "TERMINAL"
  /\ l.samples > 0 /\ l.phase \in Early =>
       \A i \in 1..Len(r.due) :
         r.due[i].kind = "irq0100" => ~r.due[i].of.touched /\ r.due[i].of.steady
  /\ l.phase = "FDT_82" => l.steady
  /\ r.strays <= Irq80Limit
  /\ l.phase \notin First /\ (l.phase = "STOP" => l.use = "login") => r.strays = 0
  /\ l.phase \in First =>
       IF In(Touch, r.due) THEN r.strays = 0
       ELSE r.strays = l.irq80 + One(In(Stray, r.due))
  /\ l.phase \in Second => ~In(Stray, r.due)
  /\ l.phase = "REARM_GATE" => l.at = "idle"

ReaderType(r) ==
  /\ r = [armed |-> r.armed, due |-> r.due, arms |-> r.arms,
          strays |-> r.strays, captures |-> r.captures]
  /\ r.armed \in {"nothing", "touch", "lift", "lifted"}
  /\ r.due \in Seq(A0Frames \cup PlainFrames)
  /\ r.arms \in Nat /\ r.strays \in Nat /\ r.captures \in Nat

(* Together: lifecycle l and reader r, after e errors and with blame b.     *)
Sound(l, r) ==
  l \in LifeType /\ Transport(l) /\ Contact(l) /\ Counts(l, r)

Holds(l, r, e, b) ==
  /\ Sound(l, r)
  /\ e = 0 => Script(l, r)
  /\ ~b => e = 0 /\ Clean(l, r)

IInv ==
  /\ Holds(life, reader, errors, blame) /\ ReaderType(reader)
  /\ blame \in BOOLEAN /\ errors \in 0..MaxErrors

(* What a step of the lifecycle from l to k tells the framework.            *)
Tells(l, k) ==
  \/ /\ k.told = l.told /\ k.downs = l.downs /\ k.asked = l.asked
     /\ l.fenced => k.fenced
  \/ /\ ~l.fenced /\ l.told \in {"nothing", "up"} /\ l.downs < l.asked
     /\ k.told = "down" /\ k.downs = l.downs + 1 /\ k.asked = l.asked
  \/ /\ ~l.fenced /\ l.told = "down" /\ k.told = "image"
     /\ k.downs = l.downs /\ k.asked = l.asked
  \/ /\ ~l.fenced /\ l.told = "image" /\ k.told = "up"
     /\ k.downs = l.downs /\ k.asked \in {l.asked, l.downs + 1}
  \/ /\ ~l.fenced /\ l.asked <= l.downs /\ k.asked = l.downs + 1
     /\ k.told = l.told /\ k.downs = l.downs

-----------------------------------------------------------------------------
(* Phases and sequences.                                                    *)

AllPhases ==
  Early \cup First \cup Taking \cup Lifting \cup Reading \cup {"REARM_GATE"}
    \cup Second \cup Retaking \cup Over

LEMMA AfterAckIs ==
  /\ DOMAIN AfterAck = (ToAck \ {"FIRST_ARM"}) \cup ToAckInPlace
  /\ AfterAck["FDT36_1"] = "FDT_IRQ100_1" /\ AfterAck["FDT36_2"] = "FDT_IRQ100_2"
  /\ AfterAck["FDT36_3"] = "FDT_IRQ100_3" /\ AfterAck["FDT_20"] = "FDT_B0"
  /\ AfterAck["FIRST_22"] = "FIRST_B0" /\ AfterAck["RELEASE_34"] = "RELEASE_IRQ200"
  /\ AfterAck["RELEASE_20"] = "RELEASE_B0" /\ AfterAck["RELEASE_50"] = "RELEASE_NAV"
  /\ AfterAck["SECOND_ARM"] = "SECOND_IRQ2" /\ AfterAck["SECOND_22"] = "SECOND_B0"
  /\ AfterAck["FDT_NAV_1"] = "FDT_NAV_1" /\ AfterAck["FDT_82"] = "FDT_82"
BY DEF AfterAck, ToAck, ToAckInPlace

LEMMA PhasesAre == Phases = AllPhases
BY AfterAckIs DEF Phases, AllPhases, Early, First, Taking, Lifting, Reading,
                  Second, Retaking, Over, ToAck, ToAckInPlace

LEMMA CommandsAre ==
  /\ CommandOf("D4") = "d4" /\ CommandOf("AF") = "af"
  /\ CommandOf("FDT36_1") = "36" /\ CommandOf("FDT36_2") = "36"
  /\ CommandOf("FDT36_3") = "36" /\ CommandOf("FDT_IRQ100_1") = "36"
  /\ CommandOf("FDT_IRQ100_2") = "36" /\ CommandOf("FDT_IRQ100_3") = "36"
  /\ CommandOf("FDT_NAV_1") = "50" /\ CommandOf("FDT_82") = "82"
  /\ CommandOf("FDT_20") = "20" /\ CommandOf("FDT_B0") = "20"
  /\ CommandOf("FIRST_ARM") = "32" /\ CommandOf("FIRST_IRQ2") = "32"
  /\ CommandOf("FIRST_22") = "22" /\ CommandOf("FIRST_B0") = "22"
  /\ CommandOf("RELEASE_34") = "34" /\ CommandOf("RELEASE_IRQ200") = "34"
  /\ CommandOf("RELEASE_20") = "20" /\ CommandOf("RELEASE_B0") = "20"
  /\ CommandOf("RELEASE_50") = "50" /\ CommandOf("RELEASE_NAV") = "50"
  /\ CommandOf("REARM_GATE") = "50" /\ CommandOf("SECOND_ARM") = "32"
  /\ CommandOf("SECOND_IRQ2") = "32" /\ CommandOf("SECOND_22") = "22"
  /\ CommandOf("SECOND_B0") = "22"
BY DEF CommandOf, First, Second, Taking, Retaking, Lifting

LEMMA OneIs ==
  ASSUME NEW x
  PROVE  Head(<<x>>) = x /\ Tail(<<x>>) = <<>> /\ <<x>> # <<>>
OBVIOUS

LEMMA TwoIs ==
  ASSUME NEW x, NEW y
  PROVE  Head(<<x, y>>) = x /\ Tail(<<x, y>>) = <<y>> /\ <<x, y>> # <<>>
OBVIOUS

(* A sequence that begins with x.                                           *)
LEMMA ConsIs ==
  ASSUME NEW S, NEW x \in S, NEW rest \in Seq(S)
  PROVE  /\ <<x>> \o rest \in Seq(S) /\ <<x>> \o rest # <<>>
         /\ Head(<<x>> \o rest) = x /\ Tail(<<x>> \o rest) = rest
         /\ \A y \in S : Append(<<x>> \o rest, y) = <<x>> \o Append(rest, y)
<1>1. <<x>> \in Seq(S) /\ Len(<<x>>) = 1 /\ <<x>>[1] = x
  OBVIOUS
<1> DEFINE s == <<x>> \o rest n == Len(rest)
<1>2. /\ s \in Seq(S) /\ Len(s) = n + 1 /\ s[1] = x /\ n \in Nat
      /\ \A i \in 1..n : s[i + 1] = rest[i]
  <2>1. /\ <<x>> \o rest \in Seq(S) /\ n \in Nat
        /\ Len(<<x>> \o rest) = Len(<<x>>) + n
        /\ \A i \in 1..(Len(<<x>>) + n) : (<<x>> \o rest)[i] =
             IF i <= Len(<<x>>) THEN <<x>>[i] ELSE rest[i - Len(<<x>>)]
    BY <1>1, ConcatProperties, LenProperties
  <2> QED
    BY <1>1, <2>1
<1> HIDE DEF s
<1>3. s # <<>> /\ Head(s) = x
  BY <1>2
<1>4. Tail(s) = rest
  <2>1. /\ Tail(s) \in Seq(S) /\ Len(Tail(s)) = n
        /\ \A i \in 1..Len(Tail(s)) : Tail(s)[i] = s[i + 1]
    BY <1>2, <1>3, HeadTailProperties
  <2> QED
    BY <1>2, <2>1, SeqEqual
<1>5. ASSUME NEW y \in S
      PROVE  Append(s, y) = <<x>> \o Append(rest, y)
  <2> DEFINE t == Append(rest, y) u == Append(s, y) v == <<x>> \o t
  <2>1. /\ t \in Seq(S) /\ Len(t) = n + 1 /\ t[n + 1] = y
        /\ \A i \in 1..n : t[i] = rest[i]
    BY AppendProperties
  <2>2. /\ u \in Seq(S) /\ Len(u) = n + 2 /\ u[n + 2] = y
        /\ \A i \in 1..(n + 1) : u[i] = s[i]
    <3>1. /\ u \in Seq(S) /\ Len(u) = Len(s) + 1 /\ u[Len(s) + 1] = y
          /\ \A i \in 1..Len(s) : u[i] = s[i]
      BY <1>2, AppendProperties
    <3> QED
      BY <1>2, <3>1
  <2> HIDE DEF t, u
  <2>3. /\ v \in Seq(S) /\ Len(v) = n + 2
        /\ \A i \in 1..(n + 2) : v[i] = IF i <= 1 THEN <<x>>[i] ELSE t[i - 1]
    <3>1. /\ <<x>> \o t \in Seq(S)
          /\ Len(<<x>> \o t) = Len(<<x>>) + Len(t)
          /\ \A i \in 1..(Len(<<x>>) + Len(t)) : (<<x>> \o t)[i] =
               IF i <= Len(<<x>>) THEN <<x>>[i] ELSE t[i - Len(<<x>>)]
      BY <1>1, <2>1, ConcatProperties
    <3> QED
      BY <1>1, <1>2, <2>1, <3>1
  <2> HIDE DEF v
  <2>4. \A i \in 1..Len(u) : u[i] = v[i]
    <3> SUFFICES ASSUME NEW i \in 1..(n + 2) PROVE u[i] = v[i]
      BY <1>2, <2>2
    <3>1. CASE i = 1
      BY <1>1, <1>2, <2>2, <2>3, <3>1
    <3>2. CASE i \in 2..(n + 1)
      <4>1. i - 1 \in 1..n /\ i = (i - 1) + 1 /\ i \in 1..(n + 1) /\ ~(i <= 1)
        BY <1>2, <3>2
      <4>2. u[i] = rest[i - 1]
        BY <1>2, <2>2, <4>1
      <4>3. v[i] = t[i - 1]
        BY <2>3, <4>1
      <4> QED
        BY <2>1, <4>1, <4>2, <4>3
    <3>3. CASE i = n + 2
      BY <1>2, <2>1, <2>2, <2>3, <3>3
    <3> QED
      BY <1>2, <3>1, <3>2, <3>3
  <2> QED
    BY <2>2, <2>3, <2>4, SeqEqual DEF t, u, v
<1> QED
  BY <1>2, <1>3, <1>4, <1>5 DEF s

-----------------------------------------------------------------------------
(* lifecycle_fail() and submit_command().                                   *)

LEMMA FailHolds ==
  ASSUME NEW l \in LifeType, NEW r, NEW q, NEW e, NEW c, l.phase # "TERMINAL",
         Bounds(l, r), q.arms = r.arms, q.captures = r.captures, c
  PROVE  /\ Holds(Fail(l), q, e, c) /\ Fail(l).phase = "TERMINAL"
         /\ Fail(l).told = l.told /\ Fail(l).downs = l.downs
         /\ Fail(l).asked = l.asked /\ Fail(l).fenced
<1>1. Fail(l) = [l EXCEPT !.phase = "TERMINAL", !.learned = FALSE,
                          !.down = FALSE, !.half = FALSE, !.fenced = TRUE]
  BY DEF Fail
<1> DEFINE k == Fail(l)
<1>2. "TERMINAL" \in Phases
  BY PhasesAre DEF AllPhases, Over
<1>3. /\ k \in LifeType /\ k.phase = "TERMINAL" /\ k.told = l.told
      /\ k.downs = l.downs /\ k.asked = l.asked /\ k.fenced /\ ~k.half
      /\ k.at = l.at /\ k.expected = l.expected
  <2> HIDE DEF Phases
  <2> QED
    BY <1>1, <1>2 DEF LifeType
<1> HIDE DEF k
<1>4. Transport(k) /\ Contact(k) /\ Script(k, q)
  BY <1>3 DEF Transport, Contact, Script, Early, First, Taking, Lifting,
              Reading, Second, Retaking, Over, ToAck, ToAckInPlace
<1>5. Counts(k, q)
  BY <1>3 DEF Counts, Bounds, Flying, Early, First, Taking, Lifting, Reading,
              Second, Retaking
<1> QED
  BY <1>3, <1>4, <1>5 DEF Holds, Sound, k

(* What a command leaves alone.                                             *)
Same(k, l) ==
  /\ k.use = l.use /\ k.owned = l.owned /\ k.fenced = l.fenced
  /\ k.samples = l.samples /\ k.steady = l.steady /\ k.half = l.half
  /\ k.irq80 = l.irq80 /\ k.rearming = l.rearming /\ k.down = l.down
  /\ k.await = l.await /\ k.rearmed = l.rearmed
  /\ k.authorized = l.authorized /\ k.attempts = l.attempts
  /\ k.told = l.told /\ k.downs = l.downs /\ k.asked = l.asked

LEMMA SubmitIs ==
  ASSUME NEW l \in LifeType, l.phase \notin Over, ~l.out, ~l.fenced, l.owned,
         ~l.half, NEW p \in Sent
  PROVE  LET k == Submit(l, CommandOf(p), p)
         IN /\ k \in LifeType /\ k.phase = p /\ k.expected = CommandOf(p)
            /\ ~k.ack /\ k.at = "flying" /\ Same(k, l)
            /\ Transport(k)
            /\ \A q : /\ q.due = <<>> /\ q.armed \notin {"touch", "lift"}
                      /\ p \in Early \cup Taking \cup Retaking =>
                           q.armed = "nothing"
                      /\ p \in Reading => q.armed = "lifted"
                      => Script(k, q)
<1> DEFINE c == CommandOf(p)
           k == [l EXCEPT !.phase = p, !.expected = c, !.ack = FALSE,
                          !.out = TRUE, !.at = "flying"]
<1>1. /\ p \in Phases /\ c \in Commands /\ p \notin Over
      /\ p # "NOT_STARTED" /\ p # "REARM_GATE"
  BY PhasesAre
     DEF CommandOf, Sent, ToAck, ToAckInPlace, Commands, AllPhases, Early,
         First, Taking, Lifting, Reading, Second, Retaking, Over
<1>2. Submit(l, c, p) = k
  BY DEF Submit, Over
<1> HIDE DEF c
<1>3. /\ k \in LifeType /\ k.phase = p /\ k.expected = c /\ ~k.ack /\ k.out
      /\ k.at = "flying" /\ Same(k, l)
  <2> HIDE DEF Phases, Commands
  <2> QED
    BY <1>1 DEF LifeType, Same
<1> HIDE DEF k
<1>4. Transport(k)
  BY <1>1, <1>3 DEF Transport, Same, Over, c
<1>5. ASSUME NEW q, q.due = <<>>, q.armed \notin {"touch", "lift"},
             p \in Early \cup Taking \cup Retaking => q.armed = "nothing",
             p \in Reading => q.armed = "lifted"
      PROVE  Script(k, q)
  BY <1>1, <1>3, <1>5 DEF Script, Flying, Over
<1> QED
  BY <1>2, <1>3, <1>4, <1>5 DEF c

-----------------------------------------------------------------------------
(* A frame f is handled, by phase.  Reader q is r without the frame, and c  *)
(* the blame after it.                                                      *)

Orderly(l, r, f, answer) ==
  /\ answer \notin {"fence", "refuse"}
  /\ l.at # "idle" =>
       /\ f.kind = "ack" /\ l.phase # "D4"
       /\ l.phase = "FIRST_ARM" => l.use # "enroll" /\ r.arms <= 1
  /\ ~(Gated(l) /\ f \in {Touch, Stray})

Heard(l, r, q, f, answer, e, c) ==
  /\ l \in LifeType /\ Transport(l) /\ Contact(l) /\ Counts(l, r)
  /\ Bounds(l, r) /\ l.phase # "TERMINAL" /\ l.phase # "STOP"
  /\ l.phase # "NOT_STARTED" /\ ~l.fenced /\ l.owned
  /\ l.out <=> l.at # "idle"
  /\ l.expected = CommandOf(l.phase)
  /\ r.due # <<>> /\ f = Head(r.due)
  /\ r.due \in Seq(A0Frames \cup PlainFrames)
  /\ q.due = Tail(r.due) /\ q.armed = r.armed /\ q.arms = r.arms
  /\ q.strays = r.strays /\ q.captures = r.captures
  /\ r.arms \in Nat /\ r.strays \in Nat /\ r.captures \in Nat
  /\ e = 0 => Script(l, r) /\ ~Flying(l)
  /\ ~c => e = 0 /\ Clean(l, r) /\ Orderly(l, r, f, answer)
  /\ answer \in {"ok", "fence", "refuse", "await"}
  /\ answer = "await" => l.phase = "RELEASE_NAV" /\ l.use = "two"

LEMMA HeardIs ==
  ASSUME NEW l, NEW r, NEW q, NEW f, NEW answer, NEW e, NEW b, NEW c,
         Holds(l, r, e, b), ReaderType(r),
         r.due # <<>>, f = Head(r.due), q = [r EXCEPT !.due = Tail(r.due)],
         l.phase \notin Over \cup {"NOT_STARTED"},
         answer \in {"ok", "fence", "refuse", "await"},
         answer = "await" => l.phase = "RELEASE_NAV" /\ l.use = "two",
         ~c => ~b /\ Orderly(l, r, f, answer)
  PROVE  Heard(l, r, q, f, answer, e, c)
<1>1. /\ l \in LifeType /\ Transport(l) /\ Contact(l) /\ Counts(l, r)
      /\ Bounds(l, r) /\ l.phase # "TERMINAL" /\ l.phase # "STOP"
      /\ l.phase # "NOT_STARTED"
  BY DEF Holds, Sound, Counts, Over
<1>2. /\ ~l.fenced /\ l.owned /\ (l.out <=> l.at # "idle")
      /\ l.expected = CommandOf(l.phase)
  BY <1>1 DEF Transport, Over
<1>3. /\ r.due \in Seq(A0Frames \cup PlainFrames)
      /\ q.due = Tail(r.due) /\ q.armed = r.armed /\ q.arms = r.arms
      /\ q.strays = r.strays /\ q.captures = r.captures
      /\ r.arms \in Nat /\ r.strays \in Nat /\ r.captures \in Nat
  BY DEF ReaderType
<1>4. e = 0 => Script(l, r)
  BY DEF Holds
<1>5. e = 0 => ~Flying(l)
  BY <1>1, <1>3, <1>4 DEF Script, Over
<1>6. ~c => e = 0 /\ Clean(l, r) /\ Orderly(l, r, f, answer)
  BY DEF Holds
<1> QED
  BY <1>1, <1>2, <1>3, <1>4, <1>5, <1>6 DEF Heard

(* The frame is refused, which somebody is to blame for.                    *)
LEMMA RefusedHolds ==
  ASSUME NEW l, NEW r, NEW q, NEW f, NEW answer, NEW e, NEW c,
         Heard(l, r, q, f, answer, e, c), c
  PROVE  Holds(Fail(l), q, e, c) /\ Tells(l, Fail(l))
<1>1. Holds(Fail(l), q, e, c) /\ Fail(l).told = l.told
      /\ Fail(l).downs = l.downs /\ Fail(l).asked = l.asked /\ Fail(l).fenced
  BY FailHolds DEF Heard
<1> QED
  BY <1>1 DEF Tells

(* The samples and the baseline: command p is sent from m, which is l with  *)
(* what the frame has taught.                                               *)
LEMMA EarlyHolds ==
  ASSUME NEW l, NEW r, NEW q, NEW f, NEW answer, NEW e, NEW c,
         Heard(l, r, q, f, answer, e, c), l.phase \in Early, ~l.out,
         NEW m \in LifeType, m.phase = l.phase, m.out = l.out,
         m.use = l.use, m.owned = l.owned, m.fenced = l.fenced,
         m.irq80 = l.irq80, m.rearming = l.rearming, m.await = l.await,
         m.rearmed = l.rearmed, m.authorized = l.authorized, m.told = l.told,
         m.downs = l.downs, m.asked = l.asked, ~m.half,
         NEW p \in Sent \cap Early, m.samples = SamplesBefore[p],
         e = 0 => q.due = <<>>,
         ~c /\ p = "FDT_82" => m.steady
  PROVE  /\ Holds(Submit(m, CommandOf(p), p), q, e, c)
         /\ Tells(l, Submit(m, CommandOf(p), p))
<1> DEFINE k == Submit(m, CommandOf(p), p)
<1>1. /\ p \notin First /\ p \notin Taking /\ p \notin Lifting /\ p \notin Second
      /\ p \notin Reading /\ p \notin Retaking /\ p \notin Over
      /\ p # "REARM_GATE" /\ p # "FIRST_ARM" /\ p # "FIRST_IRQ2" /\ p # "STOP"
      /\ CommandOf(p) \notin {"32", "22", "none"}
      /\ l.phase \notin Over /\ l.phase \notin First /\ l.phase # "STOP"
  BY CommandsAre DEF Early, First, Taking, Lifting, Second, Reading, Retaking,
                     Over, Sent, ToAck, ToAckInPlace
<1>2. /\ k \in LifeType /\ k.phase = p /\ k.expected = CommandOf(p) /\ ~k.ack
      /\ k.at = "flying" /\ Same(k, m) /\ Transport(k)
      /\ \A x : /\ x.due = <<>> /\ x.armed \notin {"touch", "lift"}
                /\ p \in Early \cup Taking \cup Retaking => x.armed = "nothing"
                /\ p \in Reading => x.armed = "lifted"
                => Script(k, x)
  <2>1. m.phase \notin Over /\ ~m.out /\ ~m.fenced /\ m.owned /\ p \in Sent
    BY <1>1 DEF Heard
  <2> QED
    BY <2>1, SubmitIs
<1>3. e = 0 => Script(k, q)
  <2>1. e = 0 => q.armed = "nothing"
    BY DEF Heard, Script
  <2> QED
    BY <1>1, <1>2, <2>1
<1> HIDE DEF k
<1>4. Contact(k)
  BY <1>1, <1>2 DEF Contact, Same, Gated, Heard
<1>5. Counts(k, q)
  <2>1. r.arms = 0 /\ r.captures <= l.downs /\ l.downs <= l.asked
    BY DEF Heard, Counts, Bounds, One, Flying
  <2> QED
    BY <1>1, <1>2, <2>1, LimitAssumption
       DEF Counts, Bounds, One, Flying, Same, Heard
<1>6. ASSUME ~c PROVE Clean(k, q)
  <2>1. r.strays = 0 /\ e = 0 /\ q.strays = 0
    BY <1>1, <1>6 DEF Clean, Heard
  <2>2. q.due = <<>> /\ Len(q.due) = 0
    BY <2>1
  <2>3. \A i \in 1..Len(q.due) :
          q.due[i].kind = "irq0100" => ~q.due[i].of.touched /\ q.due[i].of.steady
    BY <2>2
  <2>4. k.phase = "FDT_82" => k.steady
    BY <1>2, <1>6 DEF Same
  <2>5. /\ k.phase \notin First /\ k.phase \notin Second /\ k.phase # "TERMINAL"
        /\ k.phase # "REARM_GATE"
    BY <1>1, <1>2 DEF Over
  <2>6. q.strays <= Irq80Limit
    BY <2>1, LimitAssumption
  <2> QED
    BY <2>1, <2>3, <2>4, <2>5, <2>6 DEF Clean
<1>7. Tells(l, k)
  BY <1>2 DEF Tells, Same, Heard
<1> QED
  BY <1>2, <1>3, <1>4, <1>5, <1>6, <1>7 DEF Holds, Sound, Heard, k

LEMMA D4Holds ==
  ASSUME NEW l, NEW r, NEW q, NEW f, NEW answer, NEW e, NEW c \in BOOLEAN,
         Heard(l, r, q, f, answer, e, c), l.phase = "D4"
  PROVE  Holds(HandleD4(l, f), q, e, c) /\ Tells(l, HandleD4(l, f))
<1>1. e = 0 => r.due = <<Ack("d4")>> /\ q.due = <<>>
  <2>1. e = 0 => r.due = <<Ack("d4")>>
    BY DEF Heard, Script
  <2>2. q.due = Tail(r.due)
    BY DEF Heard
  <2> QED
    BY <2>1, <2>2, OneIs
<1>2. CASE Acknowledges(l, f) /\ ~l.out
  <2>1. HandleD4(l, f) = Submit(l, CommandOf("AF"), "AF")
    BY <1>2, CommandsAre DEF HandleD4
  <2>2. /\ "AF" \in Sent \cap Early /\ l.samples = SamplesBefore["AF"]
        /\ l.phase \in Early /\ ~l.half /\ l \in LifeType
    BY DEF Sent, Early, SamplesBefore, Heard, Contact, Transport
  <2> QED
    BY <1>1, <1>2, <2>1, <2>2, EarlyHolds
<1>3. CASE ~(Acknowledges(l, f) /\ ~l.out)
  <2>1. c
    <3> SUFFICES ASSUME ~c PROVE FALSE
      OBVIOUS
    <3>1. f = Ack("d4") /\ l.expected = "d4" /\ ~l.ack
      BY <1>1, OneIs, CommandsAre DEF Transport, Heard
    <3>2. l.at = "idle"
      BY DEF Orderly, Heard
    <3> QED
      BY <1>3, <3>1, <3>2 DEF Acknowledges, Heard
  <2>2. HandleD4(l, f) = Fail(l)
    BY <1>3 DEF HandleD4, Submit
  <2> QED
    BY <2>1, <2>2, RefusedHolds
<1> QED
  BY <1>2, <1>3

LEMMA ExpectedHolds ==
  ASSUME NEW l, NEW r, NEW q, NEW f, NEW answer, NEW e, NEW c \in BOOLEAN,
         Heard(l, r, q, f, answer, e, c),
         l.phase = "AF" \/ (l.phase = "FDT_NAV_1" /\ l.ack)
  PROVE  Holds(HandleExpected(l, f), q, e, c) /\ Tells(l, HandleExpected(l, f))
<1> DEFINE x == IF l.phase = "AF" THEN Controller ELSE Nav
           p == IF l.phase = "AF" THEN "FDT36_1" ELSE "FDT36_2"
<1>1. /\ Expected[l.phase][1] = x /\ Expected[l.phase][2] = CommandOf(p)
      /\ Expected[l.phase][3] = p
  BY CommandsAre DEF Expected
<1>2. e = 0 => r.due = <<x>> /\ q.due = <<>>
  <2>1. e = 0 => r.due = <<x>>
    BY DEF Heard, Script, Owed, ToAck, ToAckInPlace, Over
  <2>2. q.due = Tail(r.due)
    BY DEF Heard
  <2> QED
    BY <2>1, <2>2, OneIs
<1>3. HandleExpected(l, f) =
        IF f = x THEN Submit(l, CommandOf(p), p) ELSE Fail(l)
  BY <1>1 DEF HandleExpected
<1>4. x.kind # "ack"
  BY DEF Controller, Nav, Event
<1>5. CASE f = x /\ ~l.out
  <2>1. /\ p \in Sent \cap Early /\ l.samples = SamplesBefore[p]
        /\ l.phase \in Early /\ ~l.half /\ l \in LifeType /\ p # "FDT_82"
    BY DEF Sent, Early, SamplesBefore, Heard, Contact, Transport, ToAck
  <2> HIDE DEF p, x
  <2> QED
    BY <1>2, <1>3, <1>5, <2>1, EarlyHolds
<1>6. CASE ~(f = x /\ ~l.out)
  <2> HIDE DEF x, p
  <2>1. c
    <3> SUFFICES ASSUME ~c PROVE FALSE
      OBVIOUS
    <3>1. f = x
      BY <1>2, OneIs DEF Heard
    <3> QED
      BY <1>4, <1>6, <3>1 DEF Orderly, Heard
  <2>2. HandleExpected(l, f) = Fail(l)
    BY <1>3, <1>6 DEF Submit
  <2> QED
    BY <2>1, <2>2, RefusedHolds
<1> QED
  BY <1>5, <1>6

LEMMA ThresholdHolds ==
  ASSUME NEW l, NEW r, NEW q, NEW f, NEW answer, NEW e, NEW c \in BOOLEAN,
         Heard(l, r, q, f, answer, e, c), l.phase = "FDT_82", l.ack
  PROVE  Holds(HandleThreshold(l, f), q, e, c) /\ Tells(l, HandleThreshold(l, f))
<1>1. e = 0 => r.due = <<Threshold>> /\ q.due = <<>>
  <2>1. e = 0 => r.due = <<Threshold>>
    BY DEF Heard, Script, Owed, ToAck, ToAckInPlace, Over
  <2>2. q.due = Tail(r.due)
    BY DEF Heard
  <2> QED
    BY <2>1, <2>2, OneIs
<1>2. CASE f = Threshold /\ l.steady /\ ~l.out
  <2>1. HandleThreshold(l, f) = Submit(l, CommandOf("FDT_20"), "FDT_20")
    BY <1>2, CommandsAre DEF HandleThreshold
  <2>2. /\ "FDT_20" \in Sent \cap Early /\ l.samples = SamplesBefore["FDT_20"]
        /\ l.phase \in Early /\ ~l.half /\ l \in LifeType
    BY DEF Sent, Early, SamplesBefore, Heard, Contact, Transport, ToAck
  <2> QED
    BY <1>1, <1>2, <2>1, <2>2, EarlyHolds
<1>3. CASE ~(f = Threshold /\ l.steady /\ ~l.out)
  <2>1. c
    <3> SUFFICES ASSUME ~c PROVE FALSE
      OBVIOUS
    <3>1. f = Threshold /\ l.steady
      BY <1>1, OneIs DEF Clean, Heard
    <3>2. f.kind # "ack"
      BY <3>1 DEF Threshold, Event
    <3> QED
      BY <1>3, <3>1, <3>2 DEF Orderly, Heard
  <2>2. HandleThreshold(l, f) = Fail(l)
    BY <1>3 DEF HandleThreshold, Submit
  <2> QED
    BY <2>1, <2>2, RefusedHolds
<1> QED
  BY <1>2, <1>3

(* What a frame carries, and what is among the frames that are due.         *)
LEMMA SampleIs ==
  ASSUME NEW f \in A0Frames \cup PlainFrames, f.kind = "irq0100"
  PROVE  \E t \in BOOLEAN, s \in BOOLEAN : f = Sample(t, s)
BY DEF A0Frames, PlainFrames, Ack, Event, Plain, Controller, Nav, Threshold,
       Stray, Touch, Lift, Garbage

LEMMA InIs ==
  /\ \A x : ~In(x, <<>>)
  /\ \A x, y : In(x, <<y>>) <=> x = y
BY DEF In

LEMMA DueIsFrames ==
  ASSUME NEW l, NEW r, NEW q, NEW f, NEW answer, NEW e, NEW c,
         Heard(l, r, q, f, answer, e, c)
  PROVE  /\ f \in A0Frames \cup PlainFrames /\ r.due[1] = f
         /\ 1 \in 1..Len(r.due) /\ q.due \in Seq(A0Frames \cup PlainFrames)
BY HeadTailProperties, LenProperties, EmptySeq DEF Heard

(* The frame is refused after it has changed the lifecycle to m.            *)
LEMMA RefusedAsHolds ==
  ASSUME NEW l, NEW r, NEW q, NEW f, NEW answer, NEW e, NEW c,
         Heard(l, r, q, f, answer, e, c), c,
         NEW m \in LifeType, m.phase # "TERMINAL", m.told = l.told,
         m.downs = l.downs, m.asked = l.asked, m.at = l.at,
         m.expected = l.expected
  PROVE  Holds(Fail(m), q, e, c) /\ Tells(l, Fail(m))
<1>1. Bounds(m, r) /\ q.arms = r.arms /\ q.captures = r.captures
  BY DEF Heard, Bounds, Flying
<1>2. Holds(Fail(m), q, e, c) /\ Fail(m).told = m.told
      /\ Fail(m).downs = m.downs /\ Fail(m).asked = m.asked /\ Fail(m).fenced
  BY <1>1, FailHolds
<1> QED
  BY <1>2 DEF Tells

(* The third sample: the sensor is armed for the first time.                *)
LEMMA ArmHolds ==
  ASSUME NEW l, NEW r, NEW q, NEW f, NEW answer, NEW e, NEW c,
         Heard(l, r, q, f, answer, e, c), l.phase \in Early, ~l.out,
         NEW m \in LifeType, m.phase = l.phase, m.out = l.out,
         m.use = l.use, m.owned = l.owned, m.fenced = l.fenced,
         m.irq80 = l.irq80, m.rearming = l.rearming, m.await = l.await,
         m.rearmed = l.rearmed, m.authorized = l.authorized, m.told = l.told,
         m.downs = l.downs, m.asked = l.asked, ~m.half,
         e = 0 => q.due = <<>>
  PROVE  /\ Holds(Submit(m, "32", "FIRST_ARM"), q, e, c)
         /\ Tells(l, Submit(m, "32", "FIRST_ARM"))
<1> DEFINE p == "FIRST_ARM" k == Submit(m, CommandOf(p), p)
<1>0. k = Submit(m, "32", "FIRST_ARM") /\ CommandOf(p) = "32"
  BY CommandsAre
<1>1. /\ p \in First /\ p \notin Early /\ p \notin Taking /\ p \notin Lifting
      /\ p \notin Second /\ p \notin Reading /\ p \notin Retaking
      /\ p \notin Over /\ p # "REARM_GATE" /\ p \in Sent
      /\ l.phase \notin Over /\ l.phase \notin First /\ l.phase # "STOP"
  BY DEF Early, First, Taking, Lifting, Second, Reading, Retaking, Over, Sent,
         ToAck
<1>2. /\ k \in LifeType /\ k.phase = p /\ k.expected = "32" /\ ~k.ack
      /\ k.at = "flying" /\ Same(k, m) /\ Transport(k)
      /\ \A x : /\ x.due = <<>> /\ x.armed \notin {"touch", "lift"}
                /\ p \in Early \cup Taking \cup Retaking => x.armed = "nothing"
                /\ p \in Reading => x.armed = "lifted"
                => Script(k, x)
  <2>1. m.phase \notin Over /\ ~m.out /\ ~m.fenced /\ m.owned
    BY <1>1 DEF Heard
  <2> QED
    BY <1>0, <1>1, <2>1, SubmitIs
<1>3. e = 0 => Script(k, q)
  <2>1. e = 0 => q.armed = "nothing"
    BY DEF Heard, Script
  <2> QED
    BY <1>1, <1>2, <2>1
<1> HIDE DEF k
<1>4. Contact(k)
  <2>1. k.irq80 = 0 /\ ~k.rearming
    BY <1>1, <1>2 DEF Contact, Same, Heard
  <2> QED
    BY <1>1, <1>2, <2>1 DEF Contact, Same, Gated, Heard
<1>5. Counts(k, q)
  <2>1. r.arms = 0 /\ r.captures <= l.downs /\ l.downs <= l.asked
    <3>1. r.arms = 0
      BY DEF Heard, Counts
    <3>2. r.captures <= l.downs /\ l.downs <= l.asked
      BY DEF Heard, Bounds, One, Flying
    <3> QED
      BY <3>1, <3>2
  <2>2. k.irq80 = 0
    BY <1>2 DEF Heard, Contact, Same
  <2> QED
    BY <1>1, <1>2, <2>1, <2>2, LimitAssumption
       DEF Counts, Bounds, One, Flying, Same, Heard
<1>6. ASSUME ~c PROVE Clean(k, q)
  <2>1. r.strays = 0 /\ e = 0 /\ q.strays = 0
    BY <1>1, <1>6 DEF Clean, Heard
  <2>2. q.due = <<>> /\ k.irq80 = 0
    BY <1>2, <2>1 DEF Contact, Heard, Same
  <2>3. ~In(Touch, q.due) /\ ~In(Stray, q.due)
    BY <2>2, InIs
  <2>4. k.phase \in First /\ k.phase \notin Early /\ k.phase \notin Second
        /\ k.phase # "TERMINAL" /\ k.phase # "FDT_82" /\ k.phase # "REARM_GATE"
    BY <1>1, <1>2 DEF Over
  <2> QED
    BY <2>1, <2>2, <2>3, <2>4, LimitAssumption DEF Clean, One
<1>7. Tells(l, k)
  BY <1>2 DEF Tells, Same, Heard
<1> QED
  BY <1>0, <1>2, <1>3, <1>4, <1>5, <1>6, <1>7 DEF Holds, Sound, Heard

LEMMA SampleHolds ==
  ASSUME NEW l, NEW r, NEW q, NEW f, NEW answer, NEW e, NEW c \in BOOLEAN,
         Heard(l, r, q, f, answer, e, c),
         l.phase \in {"FDT_IRQ100_1", "FDT_IRQ100_2", "FDT_IRQ100_3"}
  PROVE  Holds(HandleSample(l, f), q, e, c) /\ Tells(l, HandleSample(l, f))
<1> DEFINE bad == \/ f.kind # "irq0100"
                  \/ f.of.touched /\ l.phase # "FDT_IRQ100_1"
                  \/ ~f.of.steady /\ l.phase = "FDT_IRQ100_3"
           s == [l EXCEPT !.samples = l.samples + 1, !.steady = f.of.steady]
           a == [s EXCEPT !.learned = TRUE]
<1>1. e = 0 => q.due = <<>> /\ \E t \in BOOLEAN, u \in BOOLEAN : f = Sample(t, u)
  <2>1. e = 0 => \E t \in BOOLEAN, u \in BOOLEAN : r.due = <<Sample(t, u)>>
    BY DEF Heard, Script, Owed, ToAck, ToAckInPlace, Over
  <2>2. q.due = Tail(r.due) /\ f = Head(r.due)
    BY DEF Heard
  <2> QED
    BY <2>1, <2>2, OneIs
<1>2. l.phase \in Early /\ ~l.half /\ l \in LifeType /\ l.phase \notin Over
      /\ l.samples = SamplesBefore[l.phase]
  BY DEF Early, Heard, Transport, Over, Contact
<1>3. CASE bad
  <2>1. HandleSample(l, f) = Fail(l)
    BY <1>3 DEF HandleSample
  <2>2. c
    <3> SUFFICES ASSUME ~c PROVE FALSE
      OBVIOUS
    <3>1. f.kind = "irq0100"
      <4>1. e = 0
        BY DEF Heard
      <4>2. PICK t \in BOOLEAN, u \in BOOLEAN : f = Sample(t, u)
        BY <1>1, <4>1
      <4> QED
        BY <4>2 DEF Sample
    <3>2. l.phase # "FDT_IRQ100_1" => ~f.of.touched /\ f.of.steady
      <4>1. l.phase # "FDT_IRQ100_1" => l.samples > 0
        BY <1>2 DEF SamplesBefore
      <4>2. r.due[1] = f /\ 1 \in 1..Len(r.due)
        BY DueIsFrames
      <4> QED
        BY <1>2, <3>1, <4>1, <4>2 DEF Clean, Heard
    <3> QED
      BY <1>3, <3>1, <3>2
  <2> QED
    BY <2>1, <2>2, RefusedHolds
<1>4. CASE ~bad
  <2>1. f.of.steady \in BOOLEAN
    <3>1. f \in A0Frames \cup PlainFrames
      BY DueIsFrames
    <3> QED
      BY <1>4, <3>1, SampleIs DEF Sample
  <2>2. s.samples = l.samples + 1 /\ a.samples = l.samples + 1
        /\ l.samples + 1 \in 0..3
    BY <1>2 DEF SamplesBefore, LifeType
  <2>3. s \in LifeType /\ a \in LifeType
    <3> HIDE DEF Phases, Commands
    <3> QED
      BY <1>2, <2>1, <2>2 DEF LifeType
  <2>4. /\ s.phase = l.phase /\ s.out = l.out /\ s.use = l.use
        /\ s.owned = l.owned /\ s.fenced = l.fenced /\ s.irq80 = l.irq80
        /\ s.rearming = l.rearming /\ s.await = l.await
        /\ s.rearmed = l.rearmed /\ s.authorized = l.authorized
        /\ s.told = l.told /\ s.downs = l.downs /\ s.asked = l.asked
        /\ ~s.half /\ s.at = l.at /\ s.expected = l.expected
        /\ s.steady = f.of.steady
    BY <1>2 DEF LifeType
  <2>5. /\ a.phase = l.phase /\ a.out = l.out /\ a.use = l.use
        /\ a.owned = l.owned /\ a.fenced = l.fenced /\ a.irq80 = l.irq80
        /\ a.rearming = l.rearming /\ a.await = l.await
        /\ a.rearmed = l.rearmed /\ a.authorized = l.authorized
        /\ a.told = l.told /\ a.downs = l.downs /\ a.asked = l.asked
        /\ ~a.half /\ a.at = l.at /\ a.expected = l.expected
    BY <1>2 DEF LifeType
  <2>6. HandleSample(l, f) =
          CASE l.phase = "FDT_IRQ100_1" -> Submit(s, "50", "FDT_NAV_1")
            [] l.phase = "FDT_IRQ100_2" -> Submit(s, "82", "FDT_82")
            [] l.phase = "FDT_IRQ100_3" -> Submit(a, "32", "FIRST_ARM")
    BY <1>4 DEF HandleSample
  <2>7. f.kind = "irq0100" /\ f.kind # "ack"
    BY <1>4
  <2> HIDE DEF s, a, bad
  <2>8. CASE l.out
    <3>1. c
      BY <2>7, <2>8 DEF Orderly, Heard
    <3>2. HandleSample(l, f) = Fail(s) \/ HandleSample(l, f) = Fail(a)
      BY <2>4, <2>5, <2>6, <2>8 DEF Submit
    <3>3. s.phase # "TERMINAL" /\ a.phase # "TERMINAL"
      BY <2>4, <2>5
    <3>4. Holds(Fail(s), q, e, c) /\ Tells(l, Fail(s))
      BY <2>3, <2>4, <3>1, <3>3, RefusedAsHolds
    <3>5. Holds(Fail(a), q, e, c) /\ Tells(l, Fail(a))
      BY <2>3, <2>5, <3>1, <3>3, RefusedAsHolds
    <3> QED
      BY <3>2, <3>4, <3>5
  <2>9. CASE ~l.out /\ l.phase = "FDT_IRQ100_1"
    <3>1. HandleSample(l, f) = Submit(s, CommandOf("FDT_NAV_1"), "FDT_NAV_1")
      BY <2>6, <2>9, CommandsAre
    <3>2. "FDT_NAV_1" \in Sent \cap Early
          /\ s.samples = SamplesBefore["FDT_NAV_1"]
      BY <1>2, <2>2, <2>9 DEF Sent, Early, ToAckInPlace, SamplesBefore
    <3> QED
      BY <1>1, <1>2, <2>3, <2>4, <2>9, <3>1, <3>2, EarlyHolds
  <2>10. CASE ~l.out /\ l.phase = "FDT_IRQ100_2"
    <3>1. HandleSample(l, f) = Submit(s, CommandOf("FDT_82"), "FDT_82")
      BY <2>6, <2>10, CommandsAre
    <3>2. "FDT_82" \in Sent \cap Early /\ s.samples = SamplesBefore["FDT_82"]
          /\ l.samples > 0
      BY <1>2, <2>2, <2>10 DEF Sent, Early, ToAckInPlace, SamplesBefore
    <3>3. ~c => s.steady
      <4>1. r.due[1] = f /\ 1 \in 1..Len(r.due)
        BY DueIsFrames
      <4> QED
        BY <1>2, <2>4, <2>7, <3>2, <4>1 DEF Clean, Heard
    <3> QED
      BY <1>1, <1>2, <2>3, <2>4, <2>10, <3>1, <3>2, <3>3, EarlyHolds
  <2>11. CASE ~l.out /\ l.phase = "FDT_IRQ100_3"
    <3>1. HandleSample(l, f) = Submit(a, "32", "FIRST_ARM")
      BY <2>6, <2>11
    <3> QED
      BY <1>1, <1>2, <2>3, <2>5, <2>11, <3>1, ArmHolds
  <2> QED
    BY <2>8, <2>9, <2>10, <2>11
<1> QED
  BY <1>3, <1>4

(* An ACK that only moves on stays in the part of the capture.              *)
LEMMA MovesOn ==
  ASSUME NEW p \in DOMAIN AfterAck
  PROVE  LET a == AfterAck[p]
         IN /\ a \in Phases /\ a \notin Over /\ a # "NOT_STARTED" /\ p \notin Over
            /\ a # "REARM_GATE" /\ a # "D4" /\ a # "AF" /\ a # "STOP"
            /\ a # "FIRST_ARM" /\ a # "FIRST_IRQ2" /\ p # "FIRST_ARM"
            /\ p # "REARM_GATE" /\ p # "STOP" /\ p # "RELEASE_NAV"
            /\ p \notin {"FDT_B0", "FIRST_B0", "SECOND_B0"}
            /\ CommandOf(a) = CommandOf(p)
            /\ (p \in Early) = (a \in Early) /\ p \notin First /\ a \notin First
            /\ (p \in Taking) = (a \in Taking)
            /\ (p \in Lifting) = (a \in Lifting)
            /\ (p \in Reading) = (a \in Reading)
            /\ (p \in Second) = (a \in Second)
            /\ (p \in Retaking) = (a \in Retaking)
            /\ a \notin {"D4", "AF"} \cup ToAck
            /\ p \in ToAck \cup ToAckInPlace
            /\ p \in Early => SamplesBefore[a] = SamplesBefore[p]
            /\ a = "FDT_82" => p = "FDT_82"
            /\ a \in ToAckInPlace => a = p
            /\ p \in ToAckInPlace => a = p
            /\ After(p) = a
<1> DEFINE a == AfterAck[p]
<1>1. p \in (ToAck \ {"FIRST_ARM"}) \cup ToAckInPlace
  BY AfterAckIs
<1>2. /\ a \in Phases /\ CommandOf(a) = CommandOf(p)
      /\ p \in Early => SamplesBefore[a] = SamplesBefore[p]
  BY <1>1, AfterAckIs, CommandsAre, PhasesAre
     DEF ToAck, ToAckInPlace, AllPhases, Early, Taking, Lifting, Reading,
         Second, Retaking, SamplesBefore
<1>3. /\ a \notin Over /\ a # "NOT_STARTED" /\ p \notin Over
      /\ a # "REARM_GATE" /\ a # "D4" /\ a # "AF" /\ a # "STOP"
      /\ a # "FIRST_ARM" /\ a # "FIRST_IRQ2" /\ p # "FIRST_ARM"
      /\ p # "REARM_GATE" /\ p # "STOP" /\ p # "RELEASE_NAV"
      /\ p \notin {"FDT_B0", "FIRST_B0", "SECOND_B0"}
      /\ p \notin First /\ a \notin First
  BY <1>1, AfterAckIs DEF ToAck, ToAckInPlace, First, Over
<1>4. /\ (p \in Early) = (a \in Early) /\ (p \in Taking) = (a \in Taking)
      /\ (p \in Lifting) = (a \in Lifting) /\ (p \in Reading) = (a \in Reading)
      /\ (p \in Second) = (a \in Second) /\ (p \in Retaking) = (a \in Retaking)
  BY <1>1, AfterAckIs DEF ToAck, ToAckInPlace, Early, Taking, Lifting, Reading,
                          Second, Retaking
<1>5. /\ a \notin {"D4", "AF"} \cup ToAck /\ p \in ToAck \cup ToAckInPlace
      /\ a = "FDT_82" => p = "FDT_82"
      /\ a \in ToAckInPlace => a = p
      /\ p \in ToAckInPlace => a = p
  BY <1>1, AfterAckIs DEF ToAck, ToAckInPlace
<1>6. After(p) = a
  BY <1>3 DEF After
<1> QED
  BY <1>2, <1>3, <1>4, <1>5, <1>6

(* What is left of the frames was due before.                               *)
LEMMA TailKeeps ==
  ASSUME NEW l, NEW r, NEW q, NEW f, NEW answer, NEW e, NEW c,
         Heard(l, r, q, f, answer, e, c)
  PROVE  /\ \A i \in 1..Len(q.due) :
              i + 1 \in 1..Len(r.due) /\ q.due[i] = r.due[i + 1]
         /\ \A x : In(x, q.due) => In(x, r.due)
         /\ \A x : In(x, r.due) => In(x, q.due) \/ x = f
<1>1. /\ Len(q.due) = Len(r.due) - 1 /\ Len(r.due) \in Nat \ {0}
      /\ \A i \in 1..Len(q.due) : q.due[i] = r.due[i + 1]
      /\ r.due[1] = f
  BY HeadTailProperties, LenProperties, EmptySeq DEF Heard
<1>2. \A i \in 1..Len(q.due) : i + 1 \in 1..Len(r.due)
  BY <1>1
<1>3. \A x : In(x, q.due) => In(x, r.due)
  BY <1>1, <1>2 DEF In
<1>4. ASSUME NEW x, In(x, r.due), x # f PROVE In(x, q.due)
  <2>1. PICK i \in 1..Len(r.due) : r.due[i] = x
    BY <1>4 DEF In
  <2>2. i # 1
    BY <1>1, <1>4, <2>1
  <2>3. i - 1 \in 1..Len(q.due) /\ (i - 1) + 1 = i
    BY <1>1, <2>2
  <2>4. q.due[i - 1] = r.due[(i - 1) + 1]
    BY <1>1, <2>3
  <2>5. q.due[i - 1] = x
    BY <2>1, <2>3, <2>4
  <2> QED
    BY <2>3, <2>5 DEF In
<1> QED
  BY <1>1, <1>2, <1>3, <1>4

LEMMA AckHolds ==
  ASSUME NEW l, NEW r, NEW q, NEW f, NEW answer, NEW e, NEW c \in BOOLEAN,
         Heard(l, r, q, f, answer, e, c), l.phase \in DOMAIN AfterAck,
         l.phase \in ToAckInPlace => ~l.ack
  PROVE  Holds(HandleAck(l, f), q, e, c) /\ Tells(l, HandleAck(l, f))
<1> DEFINE p == l.phase a == AfterAck[p]
           k == [l EXCEPT !.ack = TRUE, !.phase = a]
<1>1. ~l.ack /\ ~l.half /\ l.half = FALSE
  <2>1. l.half \in BOOLEAN
    BY DEF Heard, LifeType
  <2> QED
    BY <2>1, MovesOn DEF Heard, Transport
<1>2. e = 0 => \E rest \in Seq(A0Frames \cup PlainFrames) :
                 /\ r.due = <<Ack(l.expected)>> \o rest
                 /\ Owed(a, FALSE, r.armed, rest)
  <2> SUFFICES ASSUME e = 0
               PROVE  \E rest \in Seq(A0Frames \cup PlainFrames) :
                        /\ r.due = <<Ack(l.expected)>> \o rest
                        /\ Owed(a, FALSE, r.armed, rest)
    OBVIOUS
  <2>1. Script(l, r) /\ ~Flying(l)
    BY DEF Heard
  <2>2. \E rest \in Seq(A0Frames \cup PlainFrames) :
          /\ r.due = <<Ack(l.expected)>> \o rest
          /\ Owed(After(p), FALSE, r.armed, rest)
    <3>1. p \in ToAck \/ (p \in ToAckInPlace /\ ~l.ack)
      BY <1>1, MovesOn
    <3> HIDE DEF p
    <3> QED
      BY <2>1, <3>1 DEF Script, p
  <2>3. After(p) = a
    BY MovesOn
  <2> HIDE DEF a
  <2> QED
    BY <2>2, <2>3
<1>3. e = 0 => f = Ack(l.expected) /\ Owed(a, FALSE, r.armed, q.due)
  <2> SUFFICES ASSUME e = 0
               PROVE  f = Ack(l.expected) /\ Owed(a, FALSE, r.armed, q.due)
    OBVIOUS
  <2>1. PICK rest \in Seq(A0Frames \cup PlainFrames) :
          r.due = <<Ack(l.expected)>> \o rest /\ Owed(a, FALSE, r.armed, rest)
    BY <1>2
  <2>2. Ack(l.expected) \in A0Frames \cup PlainFrames
    <3>1. CommandOf(p) \in Commands
      BY AfterAckIs, CommandsAre DEF ToAck, ToAckInPlace, Commands
    <3> QED
      BY <3>1 DEF A0Frames, Heard
  <2>3. Head(r.due) = Ack(l.expected) /\ Tail(r.due) = rest
    BY <2>1, <2>2, ConsIs
  <2> QED
    BY <2>1, <2>3 DEF Heard
<1>4. CASE Acknowledges(l, f)
  <2>1. HandleAck(l, f) = k
    BY <1>4 DEF HandleAck
  <2>2. /\ k \in LifeType /\ k.phase = a /\ k.ack /\ k.out = l.out
        /\ k.at = l.at /\ k.expected = l.expected /\ Same(k, l)
    <3>1. a \in Phases
      BY MovesOn
    <3> HIDE DEF Phases, Commands, a
    <3> QED
      BY <3>1 DEF LifeType, Same, Heard
  <2> HIDE DEF k
  <2>3. Transport(k)
    BY <1>1, <2>2, MovesOn DEF Transport, Same, Heard
  <2>4. Contact(k)
    <3>1. /\ k.phase \in Early => /\ k.samples = SamplesBefore[k.phase]
                                  /\ k.irq80 = 0 /\ ~k.authorized
          /\ ~k.rearming
      BY <2>2, MovesOn DEF Contact, Same, Heard
    <3> QED
      BY <2>2, <3>1, MovesOn DEF Contact, Same, Heard, Gated
  <2>5. Counts(k, q)
    BY <2>2, MovesOn DEF Counts, Bounds, Flying, Same, Heard
  <2>6. e = 0 => Script(k, q)
    <3> SUFFICES ASSUME e = 0 PROVE Script(k, q)
      OBVIOUS
    <3>1. /\ k.phase \in Early \cup Taking \cup Retaking => q.armed = "nothing"
          /\ k.phase \in Reading \cup {"REARM_GATE"} => q.armed = "lifted"
          /\ ~Flying(k)
      BY <2>2, MovesOn DEF Heard, Script, Flying
    <3>2. Owed(k.phase, k.half, q.armed, q.due)
      <4>1. k.half = FALSE /\ q.armed = r.armed /\ k.phase = a
        BY <1>1, <2>2 DEF Same, Heard
      <4>2. Owed(a, FALSE, r.armed, q.due)
        BY <1>3
      <4> HIDE DEF a
      <4> QED
        BY <4>1, <4>2
    <3>3. /\ k.phase \notin {"NOT_STARTED", "REARM_GATE", "D4", "AF", "STOP"}
          /\ k.phase \notin ToAck /\ k.ack
      BY <2>2, MovesOn
    <3> QED
      BY <3>1, <3>2, <3>3 DEF Script
  <2>7. ASSUME ~c PROVE Clean(k, q)
    <3>1. Clean(l, r) /\ q.strays = r.strays
      BY <2>7 DEF Heard
    <3>2. k.samples > 0 /\ k.phase \in Early =>
            \A i \in 1..Len(q.due) :
              q.due[i].kind = "irq0100" =>
                ~q.due[i].of.touched /\ q.due[i].of.steady
      BY <2>2, <3>1, MovesOn, TailKeeps DEF Clean, Same
    <3>3. k.phase \in Second => ~In(Stray, q.due)
      BY <2>2, <3>1, MovesOn, TailKeeps DEF Clean
    <3>4. k.phase = "FDT_82" => k.steady
      BY <2>2, <3>1, MovesOn DEF Clean, Same
    <3>5. k.phase \notin First /\ k.phase # "TERMINAL" /\ q.strays = 0
          /\ q.strays <= Irq80Limit /\ k.phase # "REARM_GATE"
      BY <2>2, <3>1, MovesOn DEF Clean, Over
    <3> QED
      BY <3>2, <3>3, <3>4, <3>5 DEF Clean
  <2>8. Tells(l, k)
    BY <2>2 DEF Tells, Same, Heard
  <2> QED
    BY <2>1, <2>2, <2>3, <2>4, <2>5, <2>6, <2>7, <2>8 DEF Holds, Sound, Heard
<1>5. CASE ~Acknowledges(l, f)
  <2>1. c
    BY <1>1, <1>3, <1>5 DEF Acknowledges, Heard
  <2>2. HandleAck(l, f) = Fail(l)
    BY <1>5 DEF HandleAck
  <2> QED
    BY <2>1, <2>2, RefusedHolds
<1> QED
  BY <1>4, <1>5

LEMMA FirstArmHolds ==
  ASSUME NEW l, NEW r, NEW q, NEW f, NEW answer, NEW e, NEW c \in BOOLEAN,
         Heard(l, r, q, f, answer, e, c), l.phase = "FIRST_ARM"
  PROVE  /\ Holds(HandleFirstArm(l, f, answer), q, e, c)
         /\ Tells(l, HandleFirstArm(l, f, answer))
<1> DEFINE quiet == ~l.out /\ l.at = "idle"
           m == [l EXCEPT !.ack = TRUE, !.rearming = FALSE,
                          !.phase = "FIRST_IRQ2"]
           g == [m EXCEPT !.owned = FALSE, !.phase = "STOP"]
<1>1. /\ l.phase \in First /\ l.phase \notin Early /\ l.phase \in ToAck
      /\ l.phase \notin Over /\ ~l.ack /\ l.half = FALSE /\ l.expected = "32"
      /\ l.at # "idle" <=> l.out
  <2>1. l.phase \in First /\ l.phase \notin Early /\ l.phase \in ToAck
        /\ l.phase \notin Over
    BY DEF First, Early, ToAck, Over
  <2>2. l.half \in BOOLEAN
    BY DEF Heard, LifeType
  <2> QED
    BY <2>1, <2>2, CommandsAre DEF Heard, Transport
<1>2. e = 0 => f = Ack("32") /\ Owed("FIRST_IRQ2", FALSE, q.armed, q.due)
  <2> SUFFICES ASSUME e = 0
               PROVE  f = Ack("32") /\ Owed("FIRST_IRQ2", FALSE, q.armed, q.due)
    OBVIOUS
  <2>1. Script(l, r) /\ ~Flying(l)
    BY DEF Heard
  <2>2. PICK rest \in Seq(A0Frames \cup PlainFrames) :
          /\ r.due = <<Ack("32")>> \o rest
          /\ Owed(After("FIRST_ARM"), FALSE, r.armed, rest)
    BY <1>1, <2>1 DEF Script
  <2>3. Ack("32") \in A0Frames \cup PlainFrames
    BY DEF A0Frames, Commands
  <2>4. Head(r.due) = Ack("32") /\ Tail(r.due) = rest
    BY <2>2, <2>3, ConsIs
  <2>5. After("FIRST_ARM") = "FIRST_IRQ2"
    BY DEF After
  <2>6. f = Ack("32") /\ q.due = rest /\ q.armed = r.armed
    BY <2>4 DEF Heard
  <2> QED
    BY <2>2, <2>5, <2>6
<1>3. e = 0 => Acknowledges(l, f)
  BY <1>1, <1>2 DEF Acknowledges
<1>4. /\ m \in LifeType /\ m.phase = "FIRST_IRQ2" /\ m.ack /\ ~m.rearming
      /\ m.use = l.use /\ m.owned = l.owned /\ m.fenced = l.fenced
      /\ m.samples = l.samples /\ m.steady = l.steady /\ m.half = l.half
      /\ m.irq80 = l.irq80 /\ m.down = l.down /\ m.await = l.await
      /\ m.rearmed = l.rearmed /\ m.authorized = l.authorized
      /\ m.told = l.told /\ m.downs = l.downs /\ m.asked = l.asked
      /\ m.out = l.out /\ m.at = l.at /\ m.expected = l.expected
  <2>1. "FIRST_IRQ2" \in Phases
    BY PhasesAre DEF AllPhases, First
  <2> HIDE DEF Phases, Commands
  <2> QED
    BY <2>1 DEF LifeType, Heard
<1>5. /\ g \in LifeType /\ g.phase = "STOP" /\ ~g.owned
      /\ g.use = l.use /\ g.fenced = l.fenced /\ g.half = l.half
      /\ g.told = l.told /\ g.downs = l.downs /\ g.asked = l.asked
      /\ g.out = l.out /\ g.at = l.at /\ g.expected = l.expected
  <2>1. "STOP" \in Phases
    BY PhasesAre DEF AllPhases, Over
  <2> HIDE DEF Phases, Commands, m
  <2> QED
    BY <1>4, <2>1 DEF LifeType, Heard
<1>6. HandleFirstArm(l, f, answer) =
        IF (l.rearming /\ ~quiet) \/ ~Acknowledges(l, f) THEN Fail(l)
        ELSE IF l.rearming \/ l.use # "enroll" THEN m
        ELSE IF ~quiet \/ ~l.owned THEN Fail(l)
        ELSE IF answer = "ok" THEN g ELSE Fail(g)
  BY DEF HandleFirstArm
<1> HIDE DEF m, g
<1>7. ASSUME ~c
      PROVE  /\ Acknowledges(l, f) /\ (quiet \/ ~l.rearming)
             /\ l.use = "enroll" => quiet
  <2>1. e = 0 /\ ~Flying(l) /\ Orderly(l, r, f, answer)
    BY <1>7 DEF Heard
  <2>2. l.rearming => r.arms > 1
    <3>1. (l.rearming <=> l.irq80 > 0) /\ r.arms + One(Flying(l)) = l.irq80 + 1
      BY <1>1 DEF Contact, Counts, Heard
    <3> QED
      BY <2>1, <3>1 DEF One, Heard, LifeType
  <2>3. ~quiet => l.use # "enroll" /\ r.arms <= 1
    BY <1>1, <2>1 DEF Orderly
  <2>4. r.arms \in Nat
    BY DEF Heard
  <2> QED
    BY <1>3, <2>1, <2>2, <2>3, <2>4
<1>8. CASE (l.rearming /\ ~quiet) \/ ~Acknowledges(l, f)
  <2>1. c
    BY <1>7, <1>8
  <2> QED
    BY <1>6, <1>8, <2>1, RefusedHolds
<1>9. CASE /\ ~((l.rearming /\ ~quiet) \/ ~Acknowledges(l, f))
           /\ l.rearming \/ l.use # "enroll"
  <2>1. HandleFirstArm(l, f, answer) = m
    BY <1>6, <1>9
  <2>2. l.use # "enroll"
    BY <1>1, <1>9 DEF Contact, Heard
  <2>3. /\ m.phase \in First /\ m.phase \notin Over /\ m.phase \notin Early
        /\ m.phase \notin Taking /\ m.phase \notin Lifting /\ m.phase \notin ToAck
        /\ m.phase \notin Reading /\ m.phase \notin Second
        /\ m.phase \notin Retaking /\ m.phase \notin ToAckInPlace
        /\ CommandOf(m.phase) = "32"
    BY <1>4, CommandsAre DEF First, Over, Early, Taking, Lifting, ToAck,
       Reading, Second, Retaking, ToAckInPlace
  <2>4. Transport(m)
    BY <1>1, <1>4, <2>2, <2>3 DEF Transport, Heard, Over
  <2>5. Contact(m)
    BY <1>1, <1>4, <2>2, <2>3 DEF Contact, Heard, Gated
  <2>6. Counts(m, q)
    BY <1>1, <1>4, <2>3 DEF Counts, Bounds, Flying, Heard
  <2>7. ASSUME e = 0 PROVE Script(m, q)
    <3>1. ~Flying(m)
      BY <1>4, <2>7 DEF Flying, Heard
    <3>2. Owed(m.phase, m.half, q.armed, q.due)
      <4>1. m.half = FALSE /\ m.phase = "FIRST_IRQ2"
        BY <1>1, <1>4
      <4> QED
        BY <1>2, <2>7, <4>1
    <3> QED
      BY <1>4, <2>3, <3>1, <3>2 DEF Script
  <2>8. ASSUME ~c PROVE Clean(m, q)
    <3>1. Clean(l, r) /\ q.strays = r.strays /\ e = 0
      BY <2>8 DEF Heard
    <3>2. f # Touch /\ f # Stray
      BY <1>2, <3>1 DEF Ack, Touch, Stray, Event
    <3>3. (In(Touch, q.due) <=> In(Touch, r.due))
          /\ (In(Stray, q.due) <=> In(Stray, r.due))
      BY <3>2, TailKeeps
    <3>4. IF In(Touch, q.due) THEN q.strays = 0
          ELSE q.strays = m.irq80 + One(In(Stray, q.due))
      BY <1>1, <1>4, <3>1, <3>3 DEF Clean, One
    <3>5. q.strays <= Irq80Limit
      BY <3>1 DEF Clean
    <3> QED
      BY <1>4, <2>3, <3>4, <3>5 DEF Clean
  <2>9. Tells(l, m)
    BY <1>4 DEF Tells
  <2> QED
    BY <1>4, <2>1, <2>4, <2>5, <2>6, <2>7, <2>8, <2>9 DEF Holds, Sound, Heard
<1>10. CASE /\ ~((l.rearming /\ ~quiet) \/ ~Acknowledges(l, f))
            /\ ~(l.rearming \/ l.use # "enroll")
            /\ ~quiet \/ ~l.owned
  <2>1. c
    BY <1>7, <1>10 DEF Heard
  <2> QED
    BY <1>6, <1>10, <2>1, RefusedHolds
<1>11. CASE /\ ~((l.rearming /\ ~quiet) \/ ~Acknowledges(l, f))
            /\ ~(l.rearming \/ l.use # "enroll")
            /\ ~(~quiet \/ ~l.owned) /\ answer # "ok"
  <2>1. HandleFirstArm(l, f, answer) = Fail(g)
    BY <1>6, <1>11
  <2>2. c
    BY <1>11 DEF Orderly, Heard
  <2> QED
    BY <1>5, <2>1, <2>2, RefusedAsHolds
<1>12. CASE /\ ~((l.rearming /\ ~quiet) \/ ~Acknowledges(l, f))
            /\ ~(l.rearming \/ l.use # "enroll")
            /\ ~(~quiet \/ ~l.owned) /\ answer = "ok"
  <2>1. HandleFirstArm(l, f, answer) = g /\ l.use = "enroll" /\ l.at = "idle"
    BY <1>6, <1>12
  <2>2. /\ g.phase \in Over /\ g.phase \notin First /\ g.phase \notin Early
        /\ g.phase \notin Taking /\ g.phase \notin Lifting /\ g.phase \notin ToAck
        /\ g.phase \notin Reading /\ g.phase \notin Second
        /\ g.phase \notin Retaking /\ g.phase \notin ToAckInPlace
    BY <1>5 DEF First, Over, Early, Taking, Lifting, ToAck,
       Reading, Second, Retaking, ToAckInPlace
  <2>3. Transport(g)
    BY <1>1, <1>5, <2>1, <2>2 DEF Transport, Heard
  <2>4. Contact(g)
    BY <1>5, <2>1, <2>2 DEF Contact, Over
  <2>5. Counts(g, q)
    BY <1>1, <1>5, <2>1, <2>2 DEF Counts, Bounds, Flying, Heard
  <2>6. ASSUME e = 0 PROVE Script(g, q)
    <3>1. ~Flying(g)
      BY <1>5, <2>1 DEF Flying
    <3>2. Owed("FIRST_IRQ2", FALSE, q.armed, q.due)
      BY <1>2, <2>6
    <3> QED
      BY <1>5, <2>1, <2>2, <3>1, <3>2 DEF Script
  <2>7. ASSUME ~c PROVE Clean(g, q)
    <3>1. q.strays <= Irq80Limit
      BY <2>7 DEF Heard, Clean
    <3> QED
      BY <1>5, <2>1, <2>2, <3>1 DEF Clean
  <2>8. Tells(l, g)
    BY <1>5 DEF Tells
  <2> QED
    BY <1>5, <2>1, <2>3, <2>4, <2>5, <2>6, <2>7, <2>8 DEF Holds, Sound, Heard
<1> QED
  BY <1>8, <1>9, <1>10, <1>11, <1>12

(* A stray: the sensor is armed again, as long as the limit allows.         *)
LEMMA StrayHolds ==
  ASSUME NEW l, NEW r, NEW q, NEW f, NEW answer, NEW e, NEW c \in BOOLEAN,
         Heard(l, r, q, f, answer, e, c), l.phase = "FIRST_IRQ2", f = Stray,
         ~Gated(l)
  PROVE  Holds(HandleStray(l), q, e, c) /\ Tells(l, HandleStray(l))
<1> DEFINE p == "FIRST_ARM"
           m == [l EXCEPT !.irq80 = l.irq80 + 1, !.rearming = TRUE]
           k == Submit(m, CommandOf(p), p)
<1>1. /\ p \in First /\ p \notin Early /\ p \notin Taking /\ p \notin Lifting
      /\ p \notin Second /\ p \notin Reading /\ p \notin Retaking
      /\ p \notin Over /\ p # "REARM_GATE" /\ p \in Sent /\ CommandOf(p) = "32"
      /\ l.phase \notin Over /\ l.phase \in First /\ l.phase # "STOP"
      /\ l.phase \notin Early /\ l.phase \notin {"D4", "AF"} \cup ToAck \cup ToAckInPlace
  BY CommandsAre DEF Early, First, Taking, Lifting, Second, Reading, Retaking,
                     Over, Sent, ToAck, ToAckInPlace
<1>2. e = 0 => q.due = <<>> /\ r.due = <<Stray>> /\ r.armed = "nothing"
  <2> SUFFICES ASSUME e = 0
               PROVE  q.due = <<>> /\ r.due = <<Stray>> /\ r.armed = "nothing"
    OBVIOUS
  <2>1. Script(l, r) /\ ~Flying(l)
    BY DEF Heard
  <2>2. Owed("FIRST_IRQ2", l.half, r.armed, r.due)
    BY <1>1, <2>1 DEF Script
  <2>3. r.armed = "nothing" /\ r.due \in {<<Touch>>, <<Stray>>}
    BY <2>2 DEF Owed, Heard
  <2>4. Touch # Stray
    BY DEF Touch, Stray, Event
  <2>5. r.due = <<Stray>>
    BY <2>3, <2>4, OneIs DEF Heard
  <2> QED
    BY <2>3, <2>5, OneIs DEF Heard
<1>3. CASE l.irq80 >= Irq80Limit \/ l.out
  <2>1. c
    <3> SUFFICES ASSUME ~c PROVE FALSE
      OBVIOUS
    <3>1. e = 0 /\ Clean(l, r) /\ Orderly(l, r, f, answer)
      BY DEF Heard
    <3>2. ~l.out
      <4>1. f.kind # "ack"
        BY DEF Stray, Event
      <4> QED
        BY <3>1, <4>1 DEF Orderly, Heard
    <3>3. ~In(Touch, r.due) /\ In(Stray, r.due)
      <4>1. Touch # Stray
        BY DEF Touch, Stray, Event
      <4>2. r.due = <<Stray>>
        BY <1>2, <3>1
      <4> QED
        BY <4>1, <4>2, InIs
    <3>4. r.strays = l.irq80 + 1 /\ r.strays <= Irq80Limit
      BY <1>1, <3>1, <3>3 DEF Clean, One
    <3> QED
      BY <1>3, <3>2, <3>4, LimitAssumption DEF Heard, LifeType
  <2>2. HandleStray(l) = Fail(l)
    BY <1>3 DEF HandleStray
  <2> QED
    BY <2>1, <2>2, RefusedHolds
<1>4. CASE ~(l.irq80 >= Irq80Limit \/ l.out)
  <2>1. HandleStray(l) = k
    BY <1>1, <1>4 DEF HandleStray
  <2>2. /\ m \in LifeType /\ m.phase = l.phase /\ m.out = l.out
        /\ m.use = l.use /\ m.owned = l.owned /\ m.fenced = l.fenced
        /\ m.irq80 = l.irq80 + 1 /\ m.rearming /\ m.await = l.await
        /\ m.rearmed = l.rearmed /\ m.authorized = l.authorized
        /\ m.told = l.told /\ m.downs = l.downs /\ m.asked = l.asked
        /\ m.half = l.half
    <3>1. l.irq80 + 1 \in 0..Irq80Limit
      BY <1>4, LimitAssumption DEF Heard, LifeType
    <3> HIDE DEF Phases, Commands
    <3> QED
      BY <3>1 DEF LifeType, Heard
  <2> HIDE DEF m
  <2>3. /\ k \in LifeType /\ k.phase = p /\ k.expected = "32" /\ ~k.ack
        /\ k.at = "flying" /\ Same(k, m) /\ Transport(k)
        /\ \A x : /\ x.due = <<>> /\ x.armed \notin {"touch", "lift"}
                  /\ p \in Early \cup Taking \cup Retaking => x.armed = "nothing"
                  /\ p \in Reading => x.armed = "lifted"
                  => Script(k, x)
    <3>1. /\ m.phase \notin Over /\ ~m.out /\ ~m.fenced /\ m.owned /\ ~m.half
      BY <1>1, <1>4, <2>2 DEF Heard, Transport
    <3> QED
      BY <1>1, <2>2, <3>1, SubmitIs
  <2> HIDE DEF k
  <2>4. e = 0 => Script(k, q)
    <3>1. e = 0 => q.armed = "nothing"
      BY <1>2 DEF Heard
    <3> QED
      BY <1>1, <1>2, <2>3, <3>1
  <2>5. Contact(k)
    <3>1. k.rearming /\ k.irq80 > 0
      BY <2>2, <2>3 DEF Same, Heard, LifeType
    <3>2. l.use # "enroll" /\ k.use = l.use
      BY <1>1, <2>2, <2>3 DEF Contact, Same, Heard
    <3> QED
      BY <1>1, <2>2, <2>3, <3>1, <3>2 DEF Contact, Same, Gated, Heard
  <2>6. Counts(k, q)
    <3>1. r.arms = l.irq80 + 1 /\ r.captures <= l.downs /\ l.downs <= l.asked
      BY <1>1, <1>4 DEF Heard, Counts, Bounds, One, Flying, LifeType
    <3>2. k.irq80 = l.irq80 + 1 /\ l.irq80 + 1 <= Irq80Limit /\ l.irq80 \in Nat
      BY <1>4, <2>2, <2>3, LimitAssumption DEF Same, Heard, LifeType
    <3> QED
      BY <1>1, <2>2, <2>3, <3>1, <3>2, LimitAssumption
         DEF Counts, Bounds, One, Flying, Same, Heard
  <2>7. ASSUME ~c PROVE Clean(k, q)
    <3>1. e = 0 /\ Clean(l, r) /\ q.strays = r.strays
      BY <2>7 DEF Heard
    <3>2. ~In(Touch, r.due) /\ In(Stray, r.due)
      <4>1. Touch # Stray
        BY DEF Touch, Stray, Event
      <4>2. r.due = <<Stray>>
        BY <1>2, <3>1
      <4> QED
        BY <4>1, <4>2, InIs
    <3>3. r.strays = l.irq80 + 1 /\ r.strays <= Irq80Limit
      BY <1>1, <3>1, <3>2 DEF Clean, One
    <3>4. ~In(Touch, q.due) /\ ~In(Stray, q.due)
      BY <1>2, <3>1, InIs
    <3>5. k.irq80 = l.irq80 + 1 /\ l.irq80 \in Nat
      BY <2>2, <2>3 DEF Same, Heard, LifeType
    <3> QED
      BY <1>1, <2>3, <3>1, <3>3, <3>4, <3>5 DEF Clean, One, Over
  <2>8. Tells(l, k)
    BY <2>2, <2>3 DEF Tells, Same, Heard
  <2> QED
    BY <2>1, <2>3, <2>4, <2>5, <2>6, <2>7, <2>8 DEF Holds, Sound, Heard
<1> QED
  BY <1>3, <1>4

(* A touch: the framework is told, which may end the capture, and the       *)
(* sensor is read.                                                          *)
LEMMA TouchHolds ==
  ASSUME NEW l, NEW r, NEW q, NEW f, NEW answer, NEW e, NEW c \in BOOLEAN,
         Heard(l, r, q, f, answer, e, c),
         l.phase \in {"FIRST_IRQ2", "SECOND_IRQ2"}, f = Touch, ~Gated(l)
  PROVE  Holds(HandleTouch(l, answer), q, e, c) /\ Tells(l, HandleTouch(l, answer))
<1> DEFINE p == IF l.phase = "FIRST_IRQ2" THEN "FIRST_22" ELSE "SECOND_22"
           m == [l EXCEPT !.downs = l.downs + 1,
                          !.irq80 = IF l.phase = "FIRST_IRQ2" THEN 0 ELSE l.irq80]
           s == [m EXCEPT !.told = "down"]
           k == Submit(s, CommandOf(p), p)
<1>1. /\ p \in Taking \cup Retaking /\ (p \in Taking <=> l.phase = "FIRST_IRQ2")
      /\ (p \in Retaking <=> l.phase = "SECOND_IRQ2")
      /\ p \notin Early /\ p \notin First /\ p \notin Lifting
      /\ p \notin Second /\ p \notin Reading /\ p \notin Over
      /\ p # "REARM_GATE" /\ p \in Sent /\ CommandOf(p) = "22" /\ p # "FIRST_ARM"
      /\ l.phase \notin Over /\ l.phase # "STOP"
      /\ (l.phase \in First <=> l.phase = "FIRST_IRQ2")
      /\ (l.phase \in Second <=> l.phase = "SECOND_IRQ2")
      /\ l.phase \notin Early /\ l.phase \notin {"D4", "AF"} \cup ToAck \cup ToAckInPlace
      /\ l.phase # "FIRST_ARM" /\ ~l.rearming /\ l.phase # "REARM_GATE"
      /\ l.phase # "NOT_STARTED" /\ p # "STOP"
  <2>1. l.phase \notin Over /\ l.phase # "FIRST_ARM"
    BY DEF Over
  <2>2. ~l.rearming
    BY <2>1 DEF Heard, Contact
  <2> QED
    BY <2>2, CommandsAre DEF Early, First, Taking, Lifting, Second, Reading, Retaking,
                     Over, Sent, ToAck, ToAckInPlace
<1>2. e = 0 => q.due = <<>> /\ r.due = <<Touch>> /\ r.armed = "nothing"
  <2> SUFFICES ASSUME e = 0
               PROVE  q.due = <<>> /\ r.due = <<Touch>> /\ r.armed = "nothing"
    OBVIOUS
  <2>1. Script(l, r) /\ ~Flying(l)
    BY DEF Heard
  <2>2. Owed(l.phase, l.half, r.armed, r.due)
    BY <1>1, <2>1 DEF Script
  <2>3. r.armed = "nothing" /\ r.due \in {<<Touch>>, <<Stray>>}
    BY <2>2 DEF Owed, Heard
  <2>4. Touch # Stray
    BY DEF Touch, Stray, Event
  <2>5. r.due = <<Touch>>
    BY <2>3, <2>4, OneIs DEF Heard
  <2> QED
    BY <2>3, <2>5, OneIs DEF Heard
<1>3. /\ l.told \in {"nothing", "up"} /\ l.downs + 1 <= l.asked
      /\ l.phase = "FIRST_IRQ2" =>
           /\ l.asked = l.downs + 1 /\ l.use # "enroll" /\ ~l.await /\ ~l.rearmed
           /\ l.use = "two" => l.downs = 0
      /\ l.phase = "SECOND_IRQ2" => l.use = "two" /\ l.downs = 1 /\ l.asked = 2
  BY <1>1 DEF Contact, Heard, LifeType, One, Gated
<1>4. /\ s \in LifeType /\ s.phase = l.phase /\ s.out = l.out
      /\ s.use = l.use /\ s.owned = l.owned /\ s.fenced = l.fenced
      /\ s.rearming = l.rearming /\ s.await = l.await /\ s.at = l.at
      /\ s.expected = l.expected /\ s.rearmed = l.rearmed
      /\ s.authorized = l.authorized /\ s.told = "down"
      /\ s.downs = l.downs + 1 /\ s.asked = l.asked /\ s.half = l.half
  <2>1. l.downs + 1 \in Nat /\ 0 \in 0..Irq80Limit
    BY LimitAssumption DEF LifeType, Heard
  <2> HIDE DEF Phases, Commands
  <2> QED
    BY <2>1 DEF LifeType, Heard
<1>5. HandleTouch(l, answer) = Submit(Tell(m, "down", answer), "22", p)
  BY DEF HandleTouch
<1>6. Tell(m, "down", answer) = IF answer = "fence" THEN Fail(s) ELSE s
  BY <1>1, <1>4 DEF Tell, SetFence
<1> HIDE DEF m, s, p
<1>7. ASSUME c PROVE Holds(Fail(s), q, e, c) /\ Tells(l, Fail(s))
                     /\ Fail(s).phase = "TERMINAL"
  <2>1. Bounds(s, r) /\ q.arms = r.arms /\ q.captures = r.captures
    <3>1. /\ r.arms + One(Flying(l) /\ l.expected = "32") <= Irq80Limit + 1
          /\ r.captures + One(Flying(l) /\ l.expected = "22") <= l.downs
      BY DEF Bounds, Heard
    <3> QED
      BY <1>3, <1>4, <3>1 DEF Bounds, Flying, Heard, LifeType, One
  <2>2. s.phase # "TERMINAL"
    BY <1>1, <1>4 DEF Over
  <2>3. /\ Holds(Fail(s), q, e, c) /\ Fail(s).told = s.told
        /\ Fail(s).downs = s.downs /\ Fail(s).asked = s.asked
        /\ Fail(s).phase = "TERMINAL"
    BY <1>4, <1>7, <2>1, <2>2, FailHolds
  <2>4. ~l.fenced /\ l.downs < l.asked
    BY <1>3 DEF Heard, LifeType
  <2> QED
    BY <1>3, <1>4, <2>3, <2>4 DEF Tells
<1>8. CASE answer = "fence"
  <2>1. c
    BY <1>8 DEF Orderly, Heard
  <2>2. Fail(s).phase = "TERMINAL"
    BY <1>7, <2>1
  <2>3. HandleTouch(l, answer) = Fail(s)
    BY <1>5, <1>6, <1>8, <2>2 DEF Submit, Fail
  <2> QED
    BY <1>7, <2>1, <2>3
<1>9. CASE answer # "fence" /\ l.out
  <2>1. c
    <3>1. f.kind # "ack"
      BY DEF Touch, Event
    <3> QED
      BY <1>9, <3>1 DEF Orderly, Heard
  <2>2. HandleTouch(l, answer) = Fail(s)
    BY <1>4, <1>5, <1>6, <1>9 DEF Submit
  <2> QED
    BY <1>7, <2>1, <2>2
<1>10. CASE answer # "fence" /\ ~l.out
  <2>1. HandleTouch(l, answer) = k
    BY <1>1, <1>5, <1>6, <1>10
  <2>2. /\ k \in LifeType /\ k.phase = p /\ k.expected = "22" /\ ~k.ack
        /\ k.at = "flying" /\ Same(k, s) /\ Transport(k)
        /\ \A x : /\ x.due = <<>> /\ x.armed \notin {"touch", "lift"}
                  /\ p \in Early \cup Taking \cup Retaking => x.armed = "nothing"
                  /\ p \in Reading => x.armed = "lifted"
                  => Script(k, x)
    <3>1. s.phase \notin Over /\ ~s.out /\ ~s.fenced /\ s.owned /\ ~s.half
      BY <1>1, <1>4, <1>10 DEF Heard, Transport
    <3> QED
      BY <1>1, <1>4, <3>1, SubmitIs
  <2> HIDE DEF k
  <2>3. e = 0 => Script(k, q)
    <3>1. e = 0 => q.armed = "nothing"
      BY <1>2 DEF Heard
    <3> QED
      BY <1>1, <1>2, <2>2, <3>1
  <2>4. Contact(k)
    <3>1. /\ k.use = l.use /\ k.told = "down" /\ k.downs = l.downs + 1
          /\ k.asked = l.asked /\ ~k.rearming /\ ~Gated(k)
          /\ k.await = l.await /\ k.rearmed = l.rearmed
      BY <1>1, <1>4, <2>2 DEF Same, Gated
    <3> QED
      BY <1>1, <1>3, <2>2, <3>1 DEF Contact, LifeType, Heard
  <2>5. Counts(k, q)
    <3>1. /\ r.arms <= Irq80Limit + 1 /\ r.captures <= l.downs
          /\ k.downs = l.downs + 1 /\ k.asked = l.asked
      BY <1>4, <1>10, <2>2 DEF Heard, Counts, Bounds, One, Flying, Same
    <3> QED
      BY <1>1, <1>3, <2>2, <3>1, LimitAssumption
         DEF Counts, Bounds, One, Flying, Heard, LifeType
  <2>6. ASSUME ~c PROVE Clean(k, q)
    <3>1. e = 0 /\ Clean(l, r) /\ q.strays = r.strays
      BY <2>6 DEF Heard
    <3>2. In(Touch, r.due)
      <4>1. r.due = <<Touch>>
        BY <1>2, <3>1
      <4> QED
        BY <4>1, InIs
    <3>3. r.strays = 0
      BY <1>1, <3>1, <3>2 DEF Clean
    <3>4. k.phase # "TERMINAL" /\ k.phase # "FDT_82"
      BY <1>1, <2>2 DEF Over, Early
    <3> QED
      BY <1>1, <2>2, <3>1, <3>3, <3>4, LimitAssumption DEF Clean
  <2>7. Tells(l, k)
    <3>1. /\ k.told = "down" /\ k.downs = l.downs + 1 /\ k.asked = l.asked
      BY <1>4, <2>2 DEF Same
    <3> QED
      BY <1>3, <3>1 DEF Tells, Heard, LifeType
  <2> QED
    BY <2>1, <2>2, <2>3, <2>4, <2>5, <2>6, <2>7 DEF Holds, Sound, Heard
<1> QED
  BY <1>8, <1>9, <1>10

LEMMA ContactHolds ==
  ASSUME NEW l, NEW r, NEW q, NEW f, NEW answer, NEW e, NEW c \in BOOLEAN,
         Heard(l, r, q, f, answer, e, c),
         l.phase \in {"FIRST_IRQ2", "SECOND_IRQ2"}
  PROVE  /\ Holds(HandleContact(l, f, answer), q, e, c)
         /\ Tells(l, HandleContact(l, f, answer))
<1>0. Touch # Stray
  BY DEF Touch, Stray, Event
<1>1. CASE f = Stray /\ l.phase = "FIRST_IRQ2" /\ ~Gated(l)
  <2>1. HandleContact(l, f, answer) = HandleStray(l)
    BY <1>0, <1>1 DEF HandleContact
  <2> QED
    BY <1>1, <2>1, StrayHolds
<1>2. CASE f = Touch /\ ~Gated(l)
  <2>1. HandleContact(l, f, answer) = HandleTouch(l, answer)
    BY <1>0, <1>2 DEF HandleContact
  <2> QED
    BY <1>2, <2>1, TouchHolds
<1>3. CASE /\ ~(f = Stray /\ l.phase = "FIRST_IRQ2" /\ ~Gated(l))
           /\ ~(f = Touch /\ ~Gated(l))
  <2>1. HandleContact(l, f, answer) = Fail(l)
    BY <1>3 DEF HandleContact
  <2>2. c
    <3> SUFFICES ASSUME ~c PROVE FALSE
      OBVIOUS
    <3>1. e = 0 /\ Clean(l, r) /\ Orderly(l, r, f, answer) /\ Script(l, r)
          /\ ~Flying(l)
      BY DEF Heard
    <3>2. l.phase \notin {"NOT_STARTED", "REARM_GATE", "D4", "AF"}
                            \cup ToAck \cup ToAckInPlace \cup Over
      BY DEF ToAck, ToAckInPlace, Over
    <3>3. Owed(l.phase, l.half, r.armed, r.due)
      BY <3>1, <3>2 DEF Script
    <3>4. r.due \in {<<Touch>>, <<Stray>>}
      BY <3>3 DEF Owed, Heard
    <3>5. f \in {Touch, Stray} /\ r.due = <<f>>
      BY <3>4, OneIs DEF Heard
    <3>6. ~Gated(l)
      BY <3>1, <3>5 DEF Orderly
    <3>7. f = Stray /\ l.phase = "SECOND_IRQ2"
      BY <1>3, <3>5, <3>6
    <3>8. In(Stray, r.due)
      BY <3>5, <3>7, InIs
    <3> QED
      BY <3>1, <3>7, <3>8 DEF Clean, Second
  <2> QED
    BY <2>1, <2>2, RefusedHolds
<1> QED
  BY <1>1, <1>2, <1>3

(* After an image was taken: command p is sent from m, which is l with what *)
(* the framework has heard.                                                 *)
LEMMA CapturedHolds ==
  ASSUME NEW l, NEW r, NEW q, NEW f, NEW answer, NEW e, NEW c \in BOOLEAN,
         Heard(l, r, q, f, answer, e, c),
         l.phase \in Taking \cup Lifting \cup Reading, ~l.out,
         NEW m \in LifeType, m.phase = l.phase, m.out = l.out,
         m.use = l.use, m.owned = l.owned, m.fenced = l.fenced,
         m.rearming = l.rearming, m.await = l.await,
         m.rearmed = l.rearmed, m.authorized = l.authorized, m.told = "image",
         m.downs = l.downs, m.asked = l.asked, ~m.half,
         NEW p \in Sent \cap (Lifting \cup Reading), p \in Reading => m.down,
         e = 0 => /\ q.due = <<>> /\ q.armed \notin {"touch", "lift"}
                  /\ p \in Reading => q.armed = "lifted"
  PROVE  /\ Holds(Submit(m, CommandOf(p), p), q, e, c)
         /\ Tells(l, Submit(m, CommandOf(p), p))
<1> DEFINE k == Submit(m, CommandOf(p), p)
<1>1. /\ p \notin First /\ p \notin Taking /\ p \notin Early /\ p \notin Second
      /\ p \notin Retaking /\ p \notin Over /\ p # "FDT_82" /\ p # "TERMINAL"
      /\ p # "REARM_GATE" /\ p # "FIRST_ARM" /\ p # "FIRST_IRQ2" /\ p # "STOP"
      /\ CommandOf(p) \notin {"32", "22", "none"}
      /\ l.phase \notin Over /\ l.phase \notin First /\ l.phase # "STOP"
      /\ l.phase # "FIRST_ARM"
  BY CommandsAre DEF Early, First, Taking, Lifting, Second, Reading, Retaking,
                     Over, Sent, ToAck, ToAckInPlace
<1>2. /\ k \in LifeType /\ k.phase = p /\ k.expected = CommandOf(p) /\ ~k.ack
      /\ k.at = "flying" /\ Same(k, m) /\ Transport(k)
      /\ \A x : /\ x.due = <<>> /\ x.armed \notin {"touch", "lift"}
                /\ p \in Early \cup Taking \cup Retaking => x.armed = "nothing"
                /\ p \in Reading => x.armed = "lifted"
                => Script(k, x)
  <2>1. m.phase \notin Over /\ ~m.out /\ ~m.fenced /\ m.owned /\ p \in Sent
    BY <1>1 DEF Heard
  <2> QED
    BY <2>1, SubmitIs
<1>3. e = 0 => Script(k, q)
  BY <1>1, <1>2
<1> HIDE DEF k
<1>4. Contact(k)
  BY <1>1, <1>2 DEF Contact, Same, Gated, Heard
<1>5. Counts(k, q)
  <2>1. r.arms = 0 /\ r.captures <= l.downs /\ l.downs <= l.asked
    <3>1. ~Flying(l)
      BY DEF Heard, Flying
    <3>2. r.arms = 0
      BY <3>1 DEF Heard, Counts
    <3>3. r.captures + 0 <= l.downs /\ l.downs <= l.asked
      BY <3>1 DEF Heard, Bounds, One
    <3> QED
      BY <3>2, <3>3 DEF Heard
  <2> QED
    BY <1>1, <1>2, <2>1, LimitAssumption
       DEF Counts, Bounds, One, Flying, Same, Heard
<1>6. ASSUME ~c PROVE Clean(k, q)
  <2>1. q.strays = 0 /\ q.strays <= Irq80Limit
    BY <1>1, <1>6 DEF Clean, Heard
  <2> QED
    BY <1>1, <1>2, <2>1 DEF Clean
<1>7. Tells(l, k)
  <2>1. l.told = "down" \/ l.told = "image"
    BY DEF Contact, Heard
  <2> QED
    BY <1>2, <2>1 DEF Tells, Same, Heard
<1> QED
  BY <1>2, <1>3, <1>4, <1>5, <1>6, <1>7 DEF Holds, Sound, Heard, k

LEMMA LiftHolds ==
  ASSUME NEW l, NEW r, NEW q, NEW f, NEW answer, NEW e, NEW c \in BOOLEAN,
         Heard(l, r, q, f, answer, e, c), l.phase = "RELEASE_IRQ200"
  PROVE  Holds(HandleLift(l, f), q, e, c) /\ Tells(l, HandleLift(l, f))
<1> DEFINE m == [l EXCEPT !.down = TRUE]
<1>1. l.phase \in Lifting /\ l.phase \notin {"NOT_STARTED", "REARM_GATE", "D4", "AF"}
                            \cup ToAck \cup ToAckInPlace \cup Over
  BY DEF Lifting, ToAck, ToAckInPlace, Over
<1>2. e = 0 => f = Lift /\ q.due = <<>> /\ q.armed = "lifted"
  <2> SUFFICES ASSUME e = 0
               PROVE  f = Lift /\ q.due = <<>> /\ q.armed = "lifted"
    OBVIOUS
  <2>1. Owed("RELEASE_IRQ200", l.half, r.armed, r.due)
    BY <1>1 DEF Heard, Script
  <2>2. r.due = <<Lift>> /\ r.armed = "lifted"
    BY <2>1 DEF Owed, Heard
  <2> QED
    BY <2>2, OneIs DEF Heard
<1>3. /\ m \in LifeType /\ m.phase = l.phase /\ m.out = l.out /\ m.use = l.use
      /\ m.owned = l.owned /\ m.fenced = l.fenced /\ m.rearming = l.rearming
      /\ m.await = l.await /\ m.rearmed = l.rearmed
      /\ m.authorized = l.authorized /\ m.told = l.told /\ m.downs = l.downs
      /\ m.asked = l.asked /\ ~m.half /\ m.down /\ m.at = l.at
      /\ m.expected = l.expected /\ m.phase # "TERMINAL"
  <2>1. l.half = FALSE
    <3>1. l.half \in BOOLEAN
      BY DEF Heard, LifeType
    <3> QED
      BY <3>1 DEF Heard, Transport
  <2> HIDE DEF Phases, Commands
  <2> QED
    BY <2>1 DEF LifeType, Heard
<1> HIDE DEF m
<1>4. CASE f = Lift /\ ~l.out
  <2>1. HandleLift(l, f) = Submit(m, CommandOf("RELEASE_20"), "RELEASE_20")
    BY <1>4, CommandsAre DEF HandleLift, m
  <2>2. "RELEASE_20" \in Sent \cap (Lifting \cup Reading)
    BY DEF Sent, ToAck, Reading
  <2>3. m.told = "image"
    BY <1>1, <1>3 DEF Contact, Heard, Lifting, Taking
  <2>4. e = 0 => q.armed \notin {"touch", "lift"}
    BY <1>2
  <2> QED
    BY <1>1, <1>2, <1>3, <1>4, <2>1, <2>2, <2>3, <2>4, CapturedHolds
<1>5. CASE f # Lift
  <2>1. c
    BY <1>2, <1>5 DEF Heard
  <2>2. HandleLift(l, f) = Fail(l)
    BY <1>5 DEF HandleLift
  <2> QED
    BY <2>1, <2>2, RefusedHolds
<1>6. CASE f = Lift /\ l.out
  <2>1. c
    <3>1. f.kind # "ack"
      BY <1>6 DEF Lift, Event
    <3> QED
      BY <1>6, <3>1 DEF Orderly, Heard
  <2>2. HandleLift(l, f) = Fail(m)
    BY <1>3, <1>6 DEF HandleLift, Submit, m
  <2> QED
    BY <1>3, <2>1, <2>2, RefusedAsHolds
<1> QED
  BY <1>4, <1>5, <1>6

(* The second contact is awaited: the sensor is armed again.                *)
LEMMA AwaitHolds ==
  ASSUME NEW m \in LifeType, m.phase = "REARM_GATE", m.use = "two",
         m.told = "up", m.downs = 1, m.asked = 1, ~m.await, ~m.rearmed, m.down,
         ~m.half, ~m.rearming, m.owned, ~m.fenced, m.expected = "50",
         NEW q, NEW e, NEW c \in BOOLEAN,
         q.arms = 0, q.captures <= 1, q.captures \in Nat,
         e = 0 => q.due = <<>> /\ q.armed = "lifted",
         ~c => e = 0 /\ ~m.out /\ q.strays = 0
  PROVE  LET k == SetFrameworkAwait(m)
         IN /\ Holds(k, q, e, c) /\ k.told = "up" /\ k.downs = 1 /\ k.asked = 2
            /\ k.phase \in {"SECOND_ARM", "TERMINAL"}
<1> DEFINE s == [m EXCEPT !.await = TRUE, !.asked = 2]
           a == [s EXCEPT !.rearmed = TRUE]
           p == "SECOND_ARM"
           k == Submit(a, CommandOf(p), p)
<1>1. /\ p \in Second /\ p \notin Early /\ p \notin Taking /\ p \notin Lifting
      /\ p \notin First /\ p \notin Reading /\ p \notin Retaking
      /\ p \notin Over /\ p # "REARM_GATE" /\ p \in Sent /\ CommandOf(p) = "32"
      /\ p # "FIRST_ARM" /\ p # "STOP" /\ m.phase \notin Over
  BY CommandsAre DEF Early, First, Taking, Lifting, Second, Reading, Retaking,
                     Over, Sent, ToAck, ToAckInPlace
<1>2. /\ a \in LifeType /\ a.phase = m.phase /\ a.out = m.out
      /\ a.use = m.use /\ a.owned = m.owned /\ a.fenced = m.fenced
      /\ a.rearming = m.rearming /\ a.at = m.at /\ a.expected = m.expected
      /\ a.half = m.half /\ a.told = m.told /\ a.downs = m.downs /\ a.asked = 2
  <2> HIDE DEF Phases, Commands
  <2> QED
    BY DEF LifeType
<1>3. SetFrameworkAwait(m) = k
  <2>1. s.phase = "REARM_GATE" /\ s.await /\ s.down /\ ~s.rearmed
    BY DEF LifeType
  <2> HIDE DEF s
  <2>2. MaybeSubmitRearm(s) = Submit(a, "32", "SECOND_ARM")
    BY <2>1 DEF MaybeSubmitRearm
  <2>3. SetFrameworkAwait(m) = MaybeSubmitRearm(s)
    BY <1>1 DEF SetFrameworkAwait, Over, s
  <2> QED
    BY <1>1, <2>2, <2>3
<1> HIDE DEF a, s
<1>4. CASE m.out
  <2>1. k = Fail(a) /\ a.phase # "TERMINAL"
    BY <1>2, <1>4 DEF Submit
  <2>2. Bounds(a, q)
    BY <1>2, LimitAssumption DEF Bounds, One, Flying
  <2> QED
    BY <1>2, <1>3, <1>4, <2>1, <2>2, FailHolds
<1>5. CASE ~m.out
  <2>1. /\ k \in LifeType /\ k.phase = p /\ k.expected = "32" /\ ~k.ack
        /\ k.at = "flying" /\ Same(k, a) /\ Transport(k)
        /\ \A x : /\ x.due = <<>> /\ x.armed \notin {"touch", "lift"}
                  /\ p \in Early \cup Taking \cup Retaking => x.armed = "nothing"
                  /\ p \in Reading => x.armed = "lifted"
                  => Script(k, x)
    <3>1. a.phase \notin Over /\ ~a.out /\ ~a.fenced /\ a.owned /\ ~a.half
      BY <1>1, <1>2, <1>5
    <3> QED
      BY <1>1, <1>2, <3>1, SubmitIs
  <2> HIDE DEF k
  <2>2. e = 0 => Script(k, q)
    <3>1. e = 0 => q.armed \notin {"touch", "lift"}
      OBVIOUS
    <3> QED
      BY <1>1, <2>1, <3>1
  <2>3. Contact(k)
    BY <1>1, <1>2, <2>1 DEF Contact, Same, Gated
  <2>4. Counts(k, q)
    BY <1>1, <1>2, <2>1, LimitAssumption DEF Counts, Bounds, One, Flying, Same
  <2>5. ASSUME ~c PROVE Clean(k, q)
    <3>1. ~In(Stray, q.due)
      BY <2>5, InIs
    <3>2. k.phase # "TERMINAL" /\ k.phase # "FDT_82"
      BY <2>1
    <3> QED
      BY <1>1, <2>1, <2>5, <3>1, <3>2, LimitAssumption DEF Clean
  <2> QED
    BY <1>2, <1>3, <2>1, <2>2, <2>3, <2>4, <2>5 DEF Holds, Sound, Same
<1> QED
  BY <1>4, <1>5

(* The tail is complete: the framework is told of the lift, and may await   *)
(* the next finger from inside the callback.                                *)
LEMMA ReleaseNavHolds ==
  ASSUME NEW l, NEW r, NEW q, NEW f, NEW answer, NEW e, NEW c \in BOOLEAN,
         Heard(l, r, q, f, answer, e, c), l.phase = "RELEASE_NAV"
  PROVE  /\ Holds(HandleReleaseNav(l, f, answer), q, e, c)
         /\ Tells(l, HandleReleaseNav(l, f, answer))
<1> DEFINE o == [l EXCEPT !.phase = AfterRelease(l)]
           s == [o EXCEPT !.told = "up"]
           g == [s EXCEPT !.fenced = TRUE]
           k == HandleReleaseNav(l, f, answer)
<1>1. l.phase \in Reading /\ l.phase \notin {"NOT_STARTED", "REARM_GATE", "D4", "AF"}
                            \cup ToAck \cup ToAckInPlace \cup Over
      /\ l.half = FALSE /\ CommandOf(l.phase) = "50"
  <2>1. l.half \in BOOLEAN
    BY DEF Heard, LifeType
  <2> QED
    BY <2>1, CommandsAre DEF Reading, ToAck, ToAckInPlace, Over, Heard, Transport
<1>2. e = 0 => f = Nav /\ q.due = <<>> /\ q.armed = "lifted"
  <2> SUFFICES ASSUME e = 0
               PROVE  f = Nav /\ q.due = <<>> /\ q.armed = "lifted"
    OBVIOUS
  <2>1. Owed("RELEASE_NAV", l.half, r.armed, r.due) /\ r.armed = "lifted"
    BY <1>1 DEF Heard, Script
  <2>2. r.due = <<Nav>>
    BY <2>1 DEF Owed
  <2> QED
    BY <2>1, <2>2, OneIs DEF Heard
<1>3. /\ l.told = "image" /\ ~l.await /\ ~l.rearmed /\ l.use # "enroll"
      /\ ~Gated(l) /\ l.asked = l.downs /\ (l.use = "two" => l.downs = 1)
      /\ l.down /\ ~l.rearming /\ r.arms = 0 /\ r.captures <= l.downs
  <2>1. r.captures + One(Flying(l) /\ l.expected = "22") <= l.downs
    BY DEF Heard, Bounds
  <2>2. r.captures <= l.downs
    BY <1>1, <2>1 DEF Heard, One
  <2> QED
    BY <1>1, <2>2 DEF Contact, Counts, Heard, Taking, Reading
<1>4. ~c => /\ e = 0 /\ ~l.out /\ l.at = "idle" /\ r.strays = 0 /\ f = Nav
            /\ answer \notin {"fence", "refuse"}
  <2> SUFFICES ASSUME ~c
               PROVE /\ e = 0 /\ ~l.out /\ l.at = "idle" /\ r.strays = 0
                     /\ f = Nav /\ answer \notin {"fence", "refuse"}
    OBVIOUS
  <2>1. e = 0 /\ Clean(l, r) /\ Orderly(l, r, f, answer)
    BY DEF Heard
  <2>2. f = Nav /\ f.kind # "ack"
    BY <1>2, <2>1 DEF Nav, Event
  <2>3. r.strays = 0
    BY <2>1 DEF Clean, First
  <2> QED
    BY <2>1, <2>2, <2>3 DEF Orderly, Heard
<1>5. /\ s \in LifeType /\ s.phase = AfterRelease(l) /\ s.told = "up"
      /\ s.use = l.use /\ s.expected = l.expected /\ s.ack = l.ack
      /\ s.out = l.out /\ s.at = l.at /\ s.owned = l.owned
      /\ s.fenced = l.fenced /\ s.samples = l.samples /\ s.half = l.half
      /\ s.rearming = l.rearming /\ s.down = l.down /\ s.await = l.await
      /\ s.rearmed = l.rearmed /\ s.authorized = l.authorized
      /\ s.downs = l.downs /\ s.asked = l.asked
  <2>1. AfterRelease(l) \in Phases
    BY PhasesAre DEF AfterRelease, AllPhases, Over
  <2> HIDE DEF Phases, Commands
  <2> QED
    BY <2>1 DEF LifeType, Heard
<1>6. /\ g \in LifeType /\ g.phase = AfterRelease(l) /\ g.told = "up"
      /\ g.use = l.use /\ g.expected = l.expected /\ g.fenced
      /\ g.out = l.out /\ g.at = l.at /\ g.owned = l.owned
      /\ g.half = l.half /\ g.await = l.await /\ g.rearming = l.rearming
      /\ g.rearmed = l.rearmed /\ g.authorized = l.authorized
      /\ g.downs = l.downs /\ g.asked = l.asked
  <2> HIDE DEF Phases, Commands, s
  <2> QED
    BY <1>5 DEF LifeType
<1>7. /\ AfterRelease(l) \notin
              Early \cup First \cup Taking \cup Lifting \cup Reading \cup Second
                \cup Retaking \cup ToAck \cup ToAckInPlace
      /\ AfterRelease(l) \notin {"NOT_STARTED", "D4", "AF", "TERMINAL", "FDT_82",
                                 "FIRST_ARM", "FDT_B0", "FIRST_B0", "SECOND_B0"}
      /\ l.use = "two" => AfterRelease(l) = "REARM_GATE"
      /\ l.use # "two" => AfterRelease(l) = "STOP"
      /\ (l.use = "two" => AfterRelease(l) \notin Over)
      /\ l.use \in Uses
  <2>1. l.use \in Uses
    BY DEF Heard, LifeType
  <2> QED
    BY <1>3, <2>1 DEF AfterRelease, Uses, Early, First, Taking, Lifting, Reading,
        Second, Retaking, ToAck, ToAckInPlace, Over
<1>8. CASE f # Nav
  <2>1. c
    BY <1>4, <1>8
  <2>2. k = Fail(l)
    BY <1>8 DEF HandleReleaseNav
  <2> QED
    BY <2>1, <2>2, RefusedHolds
<1>9. f = Nav => k = MaybeSubmitRearm(Answered(Tell(o, "up", answer), answer))
  BY DEF HandleReleaseNav
<1>10. Tell(o, "up", answer) = IF answer = "fence" THEN SetFence(s) ELSE s
  BY DEF Tell
<1> HIDE DEF s, o, k
<1>11. CASE f = Nav /\ l.use # "two"
  <2> DEFINE x == IF answer = "fence" THEN g ELSE s
  <2>1. k = x
    <3>1. Tell(o, "up", answer) = x
      BY <1>5, <1>7, <1>10, <1>11 DEF SetFence
    <3>2. answer # "await" /\ x.phase # "REARM_GATE"
      BY <1>5, <1>6, <1>7, <1>11 DEF Heard
    <3> HIDE DEF x
    <3> QED
      BY <1>9, <1>11, <3>1, <3>2 DEF Answered, MaybeSubmitRearm
  <2>2. /\ x \in LifeType /\ x.phase = "STOP" /\ x.told = "up" /\ x.use = l.use
        /\ x.expected = "50" /\ x.out = l.out /\ x.at = l.at /\ x.owned
        /\ ~x.half /\ x.await = l.await /\ x.rearmed = l.rearmed
        /\ x.authorized = l.authorized /\ x.downs = l.downs /\ x.asked = l.asked
        /\ x.rearming = l.rearming
    BY <1>1, <1>5, <1>6, <1>7, <1>11 DEF Heard
  <2> HIDE DEF x
  <2>3. Transport(x)
    <3>1. /\ x.phase \notin {"D4", "AF"} \cup ToAck /\ x.phase \in Over
          /\ x.out <=> x.at # "idle"
      BY <2>2 DEF ToAck, Over, Heard
    <3> QED
      BY <1>3, <2>2, <3>1 DEF Transport
  <2>4. Contact(x)
    BY <1>3, <1>7, <1>11, <2>2 DEF Contact, Over, Gated
  <2>5. Counts(x, q)
    BY <1>3, <1>7, <1>11, <2>2, LimitAssumption
       DEF Counts, Bounds, One, Flying, Heard
  <2>6. ASSUME e = 0 PROVE Script(x, q)
    <3>1. q.due = <<>> /\ q.armed = "lifted" /\ ~Flying(x)
      BY <1>2, <2>2, <2>6 DEF Heard, Flying
    <3>2. x.phase \in Over /\ x.use # "enroll"
      BY <1>3, <2>2 DEF Over
    <3> QED
      BY <1>7, <1>11, <2>2, <3>1, <3>2 DEF Script
  <2>7. ASSUME ~c PROVE Clean(x, q)
    <3>1. q.strays = 0
      BY <1>4, <2>7 DEF Heard
    <3> QED
      BY <1>7, <1>11, <2>2, <3>1, LimitAssumption DEF Clean
  <2>8. Tells(l, x)
    BY <1>3, <2>2 DEF Tells, Heard
  <2> QED
    BY <1>4, <2>1, <2>2, <2>3, <2>4, <2>5, <2>6, <2>7, <2>8 DEF Holds, Sound, k
<1>12. CASE f = Nav /\ l.use = "two" /\ answer = "fence"
  <2>1. k = Fail(s)
    <3>1. Tell(o, "up", answer) = Fail(s)
      BY <1>5, <1>7, <1>10, <1>12 DEF SetFence
    <3>2. Fail(s).phase = "TERMINAL"
      BY <1>5, <1>7 DEF Fail, LifeType
    <3> QED
      BY <1>9, <1>12, <3>1, <3>2 DEF Answered, MaybeSubmitRearm
  <2>2. c /\ s.phase # "TERMINAL"
    BY <1>4, <1>5, <1>7, <1>12
  <2>3. Bounds(s, r) /\ q.arms = r.arms /\ q.captures = r.captures
    BY <1>5 DEF Bounds, Flying, Heard
  <2>4. /\ Holds(Fail(s), q, e, c) /\ Fail(s).told = "up"
        /\ Fail(s).downs = l.downs /\ Fail(s).asked = l.asked
    BY <1>5, <2>2, <2>3, FailHolds
  <2>5. Tells(l, Fail(s))
    BY <1>3, <2>4 DEF Tells, Heard
  <2> QED
    BY <2>1, <2>4, <2>5 DEF k
<1>13. CASE f = Nav /\ l.use = "two" /\ answer = "await"
  <2>1. k = SetFrameworkAwait(s)
        /\ /\ Holds(SetFrameworkAwait(s), q, e, c)
           /\ SetFrameworkAwait(s).told = "up"
           /\ SetFrameworkAwait(s).downs = 1 /\ SetFrameworkAwait(s).asked = 2
    <3>1. /\ Holds(SetFrameworkAwait(s), q, e, c)
          /\ SetFrameworkAwait(s).told = "up"
          /\ SetFrameworkAwait(s).downs = 1 /\ SetFrameworkAwait(s).asked = 2
          /\ SetFrameworkAwait(s).phase \in {"SECOND_ARM", "TERMINAL"}
      <4>1. /\ s \in LifeType /\ s.phase = "REARM_GATE" /\ s.use = "two"
            /\ s.told = "up" /\ s.downs = 1 /\ s.asked = 1 /\ ~s.await
            /\ ~s.rearmed /\ s.down /\ ~s.half /\ ~s.rearming /\ s.owned
            /\ ~s.fenced /\ s.expected = "50" /\ s.out = l.out
        BY <1>1, <1>3, <1>5, <1>7, <1>13 DEF Heard
      <4>2. /\ q.arms = 0 /\ q.captures <= 1 /\ q.captures \in Nat
            /\ ~c => e = 0 /\ ~s.out /\ q.strays = 0
        BY <1>3, <1>4, <1>13, <4>1 DEF Heard
      <4> QED
        BY <1>2, <4>1, <4>2, AwaitHolds
    <3>2. Answered(Tell(o, "up", answer), answer) = SetFrameworkAwait(s)
      BY <1>10, <1>13 DEF Answered
    <3> QED
      BY <1>9, <1>13, <3>1, <3>2 DEF MaybeSubmitRearm
  <2>2. Tells(l, k)
    BY <1>3, <1>13, <2>1 DEF Tells, Heard
  <2> QED
    BY <2>1, <2>2 DEF k
<1>14. CASE f = Nav /\ l.use = "two" /\ answer \notin {"fence", "await"}
  <2>1. k = s
    <3>1. Answered(Tell(o, "up", answer), answer) = s
      BY <1>10, <1>14 DEF Answered
    <3> QED
      BY <1>3, <1>5, <1>9, <1>14, <3>1 DEF MaybeSubmitRearm
  <2>2. Transport(s)
    <3>1. CommandOf("REARM_GATE") = "50"
      BY CommandsAre
    <3> QED
      BY <1>1, <1>5, <1>7, <1>14, <3>1 DEF Transport, Heard
  <2>3. Contact(s)
    BY <1>3, <1>5, <1>7, <1>14 DEF Contact, Heard, Gated
  <2>4. Counts(s, q)
    BY <1>1, <1>3, <1>5, <1>7, <1>14, LimitAssumption
       DEF Counts, Bounds, One, Flying, Heard
  <2>5. ASSUME e = 0 PROVE Script(s, q)
    <3>1. q.due = <<>> /\ q.armed = "lifted" /\ ~Flying(s)
      BY <1>2, <1>5, <2>5 DEF Heard, Flying
    <3> QED
      BY <1>5, <1>7, <1>14, <3>1 DEF Script
  <2>6. ASSUME ~c PROVE Clean(s, q)
    <3>1. q.strays = 0 /\ s.at = "idle"
      BY <1>4, <1>5, <2>6 DEF Heard
    <3> QED
      BY <1>5, <1>7, <1>14, <3>1, LimitAssumption DEF Clean
  <2>7. Tells(l, s)
    BY <1>3, <1>5 DEF Tells, Heard
  <2> QED
    BY <1>4, <1>5, <2>1, <2>2, <2>3, <2>4, <2>5, <2>6, <2>7
       DEF Holds, Sound, k
<1> QED
  BY <1>8, <1>11, <1>12, <1>13, <1>14 DEF k

-----------------------------------------------------------------------------
(* goodix_post_tls_lifecycle_handle_plaintext().                            *)

Imaging == {"FDT_B0", "FIRST_B0", "SECOND_B0"}

LEMMA ImageDue ==
  ASSUME NEW l, NEW r, NEW q, NEW f, NEW answer, NEW e, NEW c \in BOOLEAN,
         Heard(l, r, q, f, answer, e, c), l.phase \in Imaging, e = 0
  PROVE  /\ q.armed = "nothing"
         /\ l.half => f = Plain("half") /\ q.due = <<>>
         /\ ~l.half => \/ f = Plain("whole") /\ q.due = <<>>
                       \/ f = Plain("half") /\ q.due = <<Plain("half")>>
         /\ Plain("half") # Plain("whole")
<1>1. l.phase \in Early \cup Taking \cup Retaking
      /\ l.phase \notin {"NOT_STARTED", "REARM_GATE", "D4", "AF"}
                          \cup ToAck \cup ToAckInPlace \cup Over
  BY DEF Imaging, Early, Taking, Retaking, ToAck, ToAckInPlace, Over
<1>2. r.armed = "nothing" /\ Owed(l.phase, l.half, r.armed, r.due)
  BY <1>1 DEF Heard, Script
<1>3. IF l.half THEN r.due = <<Plain("half")>>
      ELSE r.due \in {<<Plain("whole")>>, <<Plain("half"), Plain("half")>>}
  BY <1>2 DEF Owed, Imaging
<1>4. Plain("half") # Plain("whole")
  BY DEF Plain
<1>5. q.armed = r.armed /\ q.due = Tail(r.due) /\ f = Head(r.due)
  BY DEF Heard
<1>6. CASE l.half
  BY <1>2, <1>3, <1>4, <1>5, <1>6, OneIs
<1>7. CASE ~l.half /\ r.due = <<Plain("whole")>>
  BY <1>2, <1>4, <1>5, <1>7, OneIs
<1>8. CASE ~l.half /\ r.due = <<Plain("half"), Plain("half")>>
  BY <1>2, <1>4, <1>5, <1>8, TwoIs
<1> QED
  BY <1>3, <1>6, <1>7, <1>8

(* The first half of an image.                                              *)
LEMMA HalfHolds ==
  ASSUME NEW l, NEW r, NEW q, NEW f, NEW answer, NEW e, NEW c \in BOOLEAN,
         Heard(l, r, q, f, answer, e, c), l.phase \in Imaging,
         f = Plain("half"), ~l.half
  PROVE  Holds([l EXCEPT !.half = TRUE], q, e, c)
         /\ Tells(l, [l EXCEPT !.half = TRUE])
<1> DEFINE k == [l EXCEPT !.half = TRUE]
<1>1. /\ k \in LifeType /\ k.phase = l.phase /\ k.expected = l.expected
      /\ k.ack = l.ack /\ k.out = l.out /\ k.at = l.at /\ k.half = TRUE
      /\ k.use = l.use /\ k.owned = l.owned /\ k.fenced = l.fenced
      /\ k.samples = l.samples /\ k.steady = l.steady /\ k.irq80 = l.irq80
      /\ k.rearming = l.rearming /\ k.down = l.down /\ k.await = l.await
      /\ k.rearmed = l.rearmed /\ k.authorized = l.authorized
      /\ k.told = l.told /\ k.downs = l.downs /\ k.asked = l.asked
  <2> HIDE DEF Phases, Commands
  <2> QED
    BY DEF LifeType, Heard
<1> HIDE DEF k
<1>2. l.phase \in Early \cup Taking \cup Retaking
      /\ l.phase \notin {"NOT_STARTED", "REARM_GATE", "D4", "AF", "STOP", "FDT_82"}
                          \cup ToAck \cup ToAckInPlace \cup Over
      /\ l.phase \notin Reading \cup First \cup Second \cup Lifting
  BY DEF Imaging, Early, Taking, Retaking, ToAck, ToAckInPlace, Over, Reading,
         First, Second, Lifting
<1>3. Transport(k)
  BY <1>1, <1>2 DEF Transport, Heard, Imaging
<1>4. Contact(k)
  BY <1>1, <1>2 DEF Contact, Heard, Gated
<1>5. Counts(k, q)
  BY <1>1, <1>2 DEF Counts, Heard, Bounds, Flying
<1>6. ASSUME e = 0 PROVE Script(k, q)
  <2>1. q.armed = "nothing" /\ q.due = <<Plain("half")>>
    BY <1>6, ImageDue
  <2>2. ~Flying(k)
    BY <1>1, <1>6 DEF Flying, Heard
  <2>3. Owed(k.phase, k.half, q.armed, q.due)
    BY <1>1, <2>1 DEF Owed, Imaging
  <2> QED
    BY <1>1, <1>2, <2>1, <2>2, <2>3 DEF Script
<1>7. ASSUME ~c PROVE Clean(k, q)
  <2>1. Clean(l, r) /\ q.strays = r.strays
    BY <1>7 DEF Heard
  <2>2. k.samples > 0 /\ k.phase \in Early =>
          \A i \in 1..Len(q.due) :
            q.due[i].kind = "irq0100" =>
              ~q.due[i].of.touched /\ q.due[i].of.steady
    BY <1>1, <2>1, TailKeeps DEF Clean
  <2>3. q.strays = 0 /\ q.strays <= Irq80Limit /\ k.phase # "TERMINAL"
    BY <1>1, <1>2, <2>1 DEF Clean
  <2> QED
    BY <1>1, <1>2, <2>2, <2>3 DEF Clean
<1>8. Tells(l, k)
  BY <1>1 DEF Tells, Heard
<1> QED
  BY <1>1, <1>3, <1>4, <1>5, <1>6, <1>7, <1>8 DEF Holds, Sound, Heard, k

(* A whole image: the baseline, or one for the framework, which may refuse  *)
(* it or end the capture.                                                   *)
LEMMA ImageHolds ==
  ASSUME NEW l, NEW r, NEW q, NEW f, NEW answer, NEW e, NEW c \in BOOLEAN,
         Heard(l, r, q, f, answer, e, c), l.phase \in Imaging,
         f \in PlainFrames, e = 0 => q.due = <<>>
  PROVE  LET k == HandleImage([l EXCEPT !.half = FALSE], answer)
         IN Holds(k, q, e, c) /\ Tells(l, k)
<1> DEFINE m == [l EXCEPT !.half = FALSE]
           b == [m EXCEPT !.baseline = TRUE]
           s == [m EXCEPT !.told = "image"]
           k == HandleImage(m, answer)
           given == Tell(m, "image", answer)
<1>1. /\ m \in LifeType /\ m.phase = l.phase /\ m.out = l.out
      /\ m.told = l.told /\ m.downs = l.downs /\ m.asked = l.asked
      /\ m.at = l.at /\ m.expected = l.expected
  <2> HIDE DEF Phases, Commands
  <2> QED
    BY DEF LifeType, Heard
<1>2. /\ b \in LifeType /\ b.phase = l.phase /\ b.out = l.out
      /\ b.use = l.use /\ b.owned = l.owned /\ b.fenced = l.fenced
      /\ b.irq80 = l.irq80 /\ b.rearming = l.rearming /\ b.await = l.await
      /\ b.rearmed = l.rearmed /\ b.authorized = l.authorized
      /\ b.told = l.told /\ b.downs = l.downs /\ b.asked = l.asked
      /\ b.at = l.at /\ b.expected = l.expected /\ ~b.half
      /\ b.samples = l.samples
  <2> HIDE DEF Phases, Commands
  <2> QED
    BY DEF LifeType, Heard
<1>3. /\ s \in LifeType /\ s.phase = l.phase /\ s.out = l.out
      /\ s.use = l.use /\ s.owned = l.owned /\ s.fenced = l.fenced
      /\ s.rearming = l.rearming /\ s.await = l.await
      /\ s.rearmed = l.rearmed /\ s.authorized = l.authorized
      /\ s.told = "image" /\ s.downs = l.downs /\ s.asked = l.asked
      /\ s.at = l.at /\ s.expected = l.expected /\ ~s.half
  <2> HIDE DEF Phases, Commands
  <2> QED
    BY DEF LifeType, Heard
<1>4. given = IF answer = "fence" THEN SetFence(s) ELSE s
  BY DEF Tell
<1>5. k = CASE l.phase = "FDT_B0" -> Submit(b, "36", "FDT36_3")
            [] l.phase # "FDT_B0" /\ answer = "refuse" -> Fail(m)
            [] l.phase = "FIRST_B0" /\ answer # "refuse" ->
                 Submit(given, "34", "RELEASE_34")
            [] l.phase = "SECOND_B0" /\ answer # "refuse" ->
                 IF given.phase = "TERMINAL" THEN given
                 ELSE [given EXCEPT !.phase = "STOP"]
  BY <1>1 DEF HandleImage
<1> HIDE DEF m, b, s, k, given
<1>6. l.out => c
  <2>1. f.kind # "ack"
    BY DEF PlainFrames, Plain
  <2> QED
    BY <2>1 DEF Orderly, Heard
<1>7. l.phase # "TERMINAL" /\ m.phase # "TERMINAL" /\ b.phase # "TERMINAL"
      /\ s.phase # "TERMINAL" /\ s.phase # "STOP"
  BY <1>1, <1>2, <1>3 DEF Heard
<1>8. e = 0 => q.armed = "nothing"
  BY ImageDue
<1>9. ASSUME c, l.phase # "FDT_B0"
      PROVE  Holds(Fail(s), q, e, c) /\ Tells(l, Fail(s))
             /\ Fail(s).phase = "TERMINAL"
  <2>1. Bounds(s, r) /\ q.arms = r.arms /\ q.captures = r.captures
    BY <1>3 DEF Bounds, Flying, Heard
  <2>2. /\ Holds(Fail(s), q, e, c) /\ Fail(s).phase = "TERMINAL"
        /\ Fail(s).told = "image" /\ Fail(s).downs = l.downs
        /\ Fail(s).asked = l.asked
    BY <1>3, <1>7, <1>9, <2>1, FailHolds
  <2>3. l.told = "down" /\ ~l.fenced
    BY <1>9 DEF Contact, Heard, Imaging, Taking, Retaking
  <2> QED
    BY <2>2, <2>3 DEF Tells
<1>10. CASE l.phase = "FDT_B0" /\ l.out
  <2>1. k = Fail(b)
    BY <1>2, <1>5, <1>10 DEF Submit
  <2> QED
    <3>1. c /\ b.phase # "TERMINAL"
      BY <1>6, <1>7, <1>10
    <3>2. Holds(Fail(b), q, e, c) /\ Tells(l, Fail(b))
      BY <1>2, <3>1, RefusedAsHolds
    <3> QED
      BY <2>1, <3>2 DEF k, m
<1>11. CASE l.phase = "FDT_B0" /\ ~l.out
  <2>1. k = Submit(b, CommandOf("FDT36_3"), "FDT36_3")
    BY <1>5, <1>11, CommandsAre
  <2>2. /\ "FDT36_3" \in Sent \cap Early /\ b.samples = SamplesBefore["FDT36_3"]
        /\ l.phase \in Early
    BY <1>2, <1>11 DEF Sent, ToAck, Early, SamplesBefore, Contact, Heard
  <2> QED
    <3>1. Holds(k, q, e, c) /\ Tells(l, k)
      BY <1>2, <1>11, <2>1, <2>2, EarlyHolds
    <3> QED
      BY <3>1 DEF k, m
<1>12. CASE l.phase # "FDT_B0" /\ answer = "refuse"
  <2>1. k = Fail(m) /\ c
    BY <1>5, <1>12 DEF Orderly, Heard
  <2> QED
    <3>1. Holds(Fail(m), q, e, c) /\ Tells(l, Fail(m))
      BY <1>1, <1>7, <2>1, RefusedAsHolds
    <3> QED
      BY <2>1, <3>1 DEF k, m
<1>13. CASE l.phase # "FDT_B0" /\ answer = "fence"
  <2>1. c
    BY <1>13 DEF Orderly, Heard
  <2>2. given = Fail(s) /\ given.phase = "TERMINAL"
    BY <1>4, <1>7, <1>9, <1>13, <2>1 DEF SetFence
  <2>3. k = given
    BY <1>5, <1>13, <2>2 DEF Submit, Fail, Imaging
  <2> QED
    BY <1>9, <1>13, <2>1, <2>2, <2>3 DEF k, m
<1>14. CASE l.phase = "FIRST_B0" /\ answer \notin {"fence", "refuse"} /\ l.out
  <2>1. k = Fail(s)
    BY <1>3, <1>4, <1>5, <1>14 DEF Submit
  <2> QED
    BY <1>6, <1>9, <1>14, <2>1 DEF k, m
<1>15. CASE l.phase = "FIRST_B0" /\ answer \notin {"fence", "refuse"} /\ ~l.out
  <2>1. k = Submit(s, CommandOf("RELEASE_34"), "RELEASE_34")
    BY <1>4, <1>5, <1>15, CommandsAre
  <2>2. /\ "RELEASE_34" \in Sent \cap (Lifting \cup Reading)
        /\ "RELEASE_34" \notin Reading /\ l.phase \in Taking
    BY <1>15 DEF Sent, ToAck, Lifting, Reading, Taking
  <2>3. e = 0 => q.armed \notin {"touch", "lift"}
    BY <1>8
  <2> QED
    <3>1. Holds(k, q, e, c) /\ Tells(l, k)
      BY <1>3, <1>15, <2>1, <2>2, <2>3, CapturedHolds
    <3> QED
      BY <3>1 DEF k, m
<1>16. CASE l.phase = "SECOND_B0" /\ answer \notin {"fence", "refuse"}
  <2> DEFINE g == [s EXCEPT !.phase = "STOP"]
  <2>1. k = g
    BY <1>4, <1>5, <1>7, <1>16
  <2>2. /\ g \in LifeType /\ g.phase = "STOP" /\ g.out = l.out
        /\ g.use = l.use /\ g.owned = l.owned /\ g.fenced = l.fenced
        /\ g.told = "image" /\ g.downs = l.downs /\ g.asked = l.asked
        /\ g.at = l.at /\ g.expected = l.expected /\ ~g.half
    <3>1. "STOP" \in Phases
      BY PhasesAre DEF AllPhases, Over
    <3> HIDE DEF Phases, Commands
    <3> QED
      BY <1>3, <3>1 DEF LifeType
  <2> HIDE DEF g
  <2>3. l.use = "two" /\ l.told = "down" /\ ~l.fenced /\ l.owned
    BY <1>16 DEF Contact, Heard, Retaking
  <2>4. "STOP" \notin Early \cup First \cup Taking \cup Lifting \cup Reading
                        \cup Second \cup Retaking \cup ToAck \cup ToAckInPlace
        /\ "STOP" \in Over
    BY DEF Early, First, Taking, Lifting, Reading, Second, Retaking, Over,
           ToAck, ToAckInPlace
  <2>5. Transport(g)
    BY <2>2, <2>3, <2>4 DEF Transport, Heard
  <2>6. Contact(g)
    BY <2>2, <2>3, <2>4 DEF Contact
  <2>7. Counts(g, q)
    BY <2>2, <2>3, <2>4 DEF Counts, Bounds, Flying, Heard
  <2>8. Script(g, q)
    BY <2>2, <2>3, <2>4 DEF Script
  <2>9. ASSUME ~c PROVE Clean(g, q)
    <3>1. q.strays <= Irq80Limit
      BY <2>9 DEF Heard, Clean
    <3> QED
      BY <2>2, <2>3, <2>4, <3>1 DEF Clean
  <2>10. Tells(l, g)
    BY <2>2, <2>3 DEF Tells
  <2> QED
    BY <2>1, <2>2, <2>5, <2>6, <2>7, <2>8, <2>9, <2>10
       DEF Holds, Sound, Heard, k, m
<1> QED
  BY <1>10, <1>11, <1>12, <1>13, <1>14, <1>15, <1>16 DEF Imaging

(* The image of the tail is not looked at.                                  *)
LEMMA TailImageHolds ==
  ASSUME NEW l, NEW r, NEW q, NEW f, NEW answer, NEW e, NEW c \in BOOLEAN,
         Heard(l, r, q, f, answer, e, c), l.phase = "RELEASE_B0",
         f \in PlainFrames
  PROVE  LET k == Submit(l, "50", "RELEASE_50")
         IN Holds(k, q, e, c) /\ Tells(l, k)
<1>1. l.phase \in Reading /\ l.phase \notin {"NOT_STARTED", "REARM_GATE", "D4", "AF"}
                            \cup ToAck \cup ToAckInPlace \cup Over
      /\ l.phase \notin Taking
  BY DEF Reading, ToAck, ToAckInPlace, Over, Taking
<1>2. e = 0 => q.due = <<>> /\ q.armed = "lifted"
  <2> SUFFICES ASSUME e = 0 PROVE q.due = <<>> /\ q.armed = "lifted"
    OBVIOUS
  <2>1. Owed("RELEASE_B0", l.half, r.armed, r.due) /\ r.armed = "lifted"
    BY <1>1 DEF Heard, Script
  <2>2. r.due = <<Plain("whole")>>
    BY <2>1 DEF Owed
  <2> QED
    BY <2>1, <2>2, OneIs DEF Heard
<1>3. CASE l.out
  <2>1. c
    <3>1. f.kind # "ack"
      BY DEF PlainFrames, Plain
    <3> QED
      BY <1>3, <3>1 DEF Orderly, Heard
  <2>2. Submit(l, "50", "RELEASE_50") = Fail(l)
    BY <1>3 DEF Submit
  <2> QED
    BY <2>1, <2>2, RefusedHolds
<1>4. CASE ~l.out
  <2>1. Submit(l, "50", "RELEASE_50") = Submit(l, CommandOf("RELEASE_50"), "RELEASE_50")
    BY CommandsAre
  <2>2. "RELEASE_50" \in Sent \cap (Lifting \cup Reading)
    BY DEF Sent, ToAck, Reading
  <2>3. l.told = "image" /\ l.down /\ ~l.half /\ l \in LifeType
    BY <1>1 DEF Contact, Heard, Transport, Reading
  <2>4. e = 0 => q.armed \notin {"touch", "lift"}
    BY <1>2
  <2> QED
    BY <1>1, <1>2, <1>4, <2>1, <2>2, <2>3, <2>4, CapturedHolds
<1> QED
  BY <1>3, <1>4

-----------------------------------------------------------------------------
(* Every frame.  As long as nobody misbehaved, an image is due in a phase   *)
(* that waits for one, and only there.                                      *)

LEMMA HeadIs ==
  ASSUME NEW l, NEW r, NEW q, NEW f, NEW answer, NEW e, NEW c \in BOOLEAN,
         Heard(l, r, q, f, answer, e, c), e = 0
  PROVE  /\ f \in PlainFrames => l.phase \in Imaging \cup {"RELEASE_B0"}
         /\ l.phase \in Imaging \cup {"RELEASE_B0"} => f \in PlainFrames
         /\ l.phase # "REARM_GATE"
<1> DEFINE p == l.phase
<1>1. Script(l, r) /\ ~Flying(l) /\ f = Head(r.due) /\ r.due # <<>>
      /\ q.due = Tail(r.due)
  BY DEF Heard
<1>2. p # "REARM_GATE"
  BY <1>1 DEF Script
<1>3. p \in AllPhases /\ p \notin Over /\ p # "NOT_STARTED"
  BY PhasesAre DEF Heard, LifeType, Over
<1>4. /\ \A x : Ack(x) \notin PlainFrames
      /\ Controller \notin PlainFrames
  BY DEF Ack, Controller, Event, PlainFrames, Plain
<1>5. CASE p \in {"D4", "AF"}
  <2>1. f \in {Ack("d4"), Controller}
    BY <1>1, <1>5, OneIs DEF Script
  <2>2. f \notin PlainFrames
    BY <1>4, <2>1
  <2> QED
    BY <1>2, <1>5, <2>2 DEF Imaging
<1>6. CASE p \in ToAck \/ (p \in ToAckInPlace /\ ~l.ack)
  <2>1. PICK rest \in Seq(A0Frames \cup PlainFrames) :
          r.due = <<Ack(l.expected)>> \o rest
    BY <1>1, <1>6 DEF Script
  <2>2. Ack(l.expected) \in A0Frames \cup PlainFrames
    <3>1. CommandOf(p) \in Commands
      BY <1>6, CommandsAre DEF ToAck, ToAckInPlace, Commands
    <3> QED
      BY <3>1 DEF A0Frames, Heard
  <2>3. f = Ack(l.expected)
    BY <1>1, <2>1, <2>2, ConsIs
  <2> QED
    BY <1>2, <1>4, <1>6, <2>3 DEF Imaging, ToAck, ToAckInPlace
<1>7. CASE /\ p \notin {"D4", "AF"} \cup ToAck
           /\ ~(p \in ToAckInPlace /\ ~l.ack)
  <2>1. Owed(p, l.half, r.armed, r.due)
    BY <1>1, <1>2, <1>3, <1>7 DEF Script
  <2>2. CASE p \in {"FDT_IRQ100_1", "FDT_IRQ100_2", "FDT_IRQ100_3"}
    <3>1. \E t \in BOOLEAN, u \in BOOLEAN : r.due = <<Sample(t, u)>>
      BY <2>1, <2>2 DEF Owed
    <3>2. \E t \in BOOLEAN, u \in BOOLEAN : f = Sample(t, u)
      BY <1>1, <3>1, OneIs
    <3>3. f \notin PlainFrames
      BY <3>2 DEF Sample, PlainFrames, Plain
    <3> QED
      BY <1>2, <2>2, <3>3 DEF Imaging
  <2>3. CASE p \in Imaging
    <3>1. f \in PlainFrames
      BY <2>3, ImageDue DEF PlainFrames
    <3> QED
      BY <1>2, <2>3, <3>1
  <2>4. CASE p = "RELEASE_B0"
    <3>1. r.due = <<Plain("whole")>>
      BY <2>1, <2>4 DEF Owed
    <3>2. f \in PlainFrames
      BY <1>1, <3>1, OneIs DEF PlainFrames
    <3> QED
      BY <1>2, <2>4, <3>2
  <2>5. CASE p \in {"FDT_NAV_1", "RELEASE_NAV", "FDT_82", "FIRST_IRQ2",
                    "SECOND_IRQ2", "RELEASE_IRQ200"}
    <3>1. r.due \in {<<Nav>>, <<Threshold>>, <<Touch>>, <<Stray>>, <<Lift>>}
      BY <1>1, <2>1, <2>5 DEF Owed
    <3>2. f \in {Nav, Threshold, Touch, Stray, Lift}
      BY <1>1, <3>1, OneIs
    <3>3. f \notin PlainFrames
      BY <3>2 DEF Nav, Threshold, Touch, Stray, Lift, Event, PlainFrames, Plain
    <3> QED
      BY <1>2, <2>5, <3>3 DEF Imaging
  <2> QED
    BY <1>2, <1>3, <1>7, <2>2, <2>3, <2>4, <2>5
       DEF AllPhases, Early, First, Taking, Lifting, Reading, Second, Retaking,
           Over, ToAck, ToAckInPlace, Imaging
<1> QED
  BY <1>5, <1>6, <1>7

LEMMA A0Holds ==
  ASSUME NEW l, NEW r, NEW q, NEW f, NEW answer, NEW e, NEW c \in BOOLEAN,
         Heard(l, r, q, f, answer, e, c), f \notin PlainFrames
  PROVE  Holds(HandleA0(l, f, answer), q, e, c) /\ Tells(l, HandleA0(l, f, answer))
<1> DEFINE p == l.phase k == HandleA0(l, f, answer)
           acks == p \in DOMAIN AfterAck /\ (p \notin ToAckInPlace \/ ~l.ack)
<1>1. /\ p \in AllPhases /\ p \notin Over /\ p # "NOT_STARTED"
      /\ DOMAIN AfterAck = (ToAck \ {"FIRST_ARM"}) \cup ToAckInPlace
  BY PhasesAre, AfterAckIs DEF Heard, LifeType, Over
<1>2. CASE p = "D4"
  <2>1. ~acks
    BY <1>1, <1>2 DEF ToAck, ToAckInPlace
  <2>2. k = HandleD4(l, f)
    BY <1>2, <2>1 DEF HandleA0, ToAckInPlace
  <2> QED
    BY <1>2, <2>2, D4Holds
<1>3. CASE acks
  <2>1. /\ p \notin {"STOP", "TERMINAL", "D4", "AF", "FDT_IRQ100_1",
                     "FDT_IRQ100_2", "FDT_IRQ100_3", "FIRST_ARM", "FIRST_IRQ2",
                     "SECOND_IRQ2", "RELEASE_IRQ200", "RELEASE_NAV"}
        /\ p \in {"FDT_NAV_1", "FDT_82"} => ~l.ack
    BY <1>1, <1>3 DEF ToAck, ToAckInPlace
  <2>2. k = HandleAck(l, f)
    BY <1>3, <2>1 DEF HandleA0, ToAckInPlace
  <2> QED
    BY <1>3, <2>2, AckHolds
<1>4. CASE p = "AF" \/ (p = "FDT_NAV_1" /\ l.ack)
  <2>1. ~acks /\ p \notin {"STOP", "TERMINAL", "D4"}
    BY <1>1, <1>4 DEF ToAck, ToAckInPlace
  <2>2. k = HandleExpected(l, f)
    BY <1>4, <2>1 DEF HandleA0, ToAckInPlace
  <2> QED
    BY <1>4, <2>2, ExpectedHolds
<1>5. CASE p = "FDT_82" /\ l.ack
  <2>1. ~acks /\ p \notin {"STOP", "TERMINAL", "D4", "AF", "FDT_NAV_1"}
    BY <1>1, <1>5 DEF ToAck, ToAckInPlace
  <2>2. k = HandleThreshold(l, f)
    BY <1>5, <2>1 DEF HandleA0, ToAckInPlace
  <2> QED
    BY <1>5, <2>2, ThresholdHolds
<1>6. CASE p \in {"FDT_IRQ100_1", "FDT_IRQ100_2", "FDT_IRQ100_3"}
  <2>1. ~acks
    BY <1>1, <1>6 DEF ToAck, ToAckInPlace
  <2>2. k = HandleSample(l, f)
    BY <1>6, <2>1 DEF HandleA0, ToAckInPlace
  <2> QED
    BY <1>6, <2>2, SampleHolds
<1>7. CASE p = "FIRST_ARM"
  <2>1. ~acks
    BY <1>1, <1>7 DEF ToAckInPlace
  <2>2. k = HandleFirstArm(l, f, answer)
    BY <1>7, <2>1 DEF HandleA0, ToAckInPlace
  <2> QED
    BY <1>7, <2>2, FirstArmHolds
<1>8. CASE p \in {"FIRST_IRQ2", "SECOND_IRQ2"}
  <2>1. ~acks
    BY <1>1, <1>8 DEF ToAck, ToAckInPlace
  <2>2. k = HandleContact(l, f, answer)
    BY <1>8, <2>1 DEF HandleA0, ToAckInPlace
  <2> QED
    BY <1>8, <2>2, ContactHolds
<1>9. CASE p = "RELEASE_IRQ200"
  <2>1. ~acks
    BY <1>1, <1>9 DEF ToAck, ToAckInPlace
  <2>2. k = HandleLift(l, f)
    BY <1>9, <2>1 DEF HandleA0, ToAckInPlace
  <2> QED
    BY <1>9, <2>2, LiftHolds
<1>10. CASE p = "RELEASE_NAV"
  <2>1. ~acks
    BY <1>1, <1>10 DEF ToAck, ToAckInPlace
  <2>2. k = HandleReleaseNav(l, f, answer)
    BY <1>10, <2>1 DEF HandleA0, ToAckInPlace
  <2> QED
    BY <1>10, <2>2, ReleaseNavHolds
<1>11. CASE p \in Imaging \cup {"RELEASE_B0", "REARM_GATE"}
  <2>1. ~acks
    BY <1>1, <1>11 DEF ToAck, ToAckInPlace, Imaging
  <2>2. k = Fail(l)
    BY <1>11, <2>1 DEF HandleA0, ToAckInPlace, Imaging
  <2>3. c
    <3>1. e # 0
      BY <1>11, HeadIs
    <3> QED
      BY <3>1 DEF Heard
  <2> QED
    BY <2>2, <2>3, RefusedHolds
<1>12. \/ p \in {"D4", "AF", "FIRST_ARM", "FIRST_IRQ2", "SECOND_IRQ2",
                 "RELEASE_IRQ200", "RELEASE_NAV", "RELEASE_B0", "REARM_GATE",
                 "FDT_IRQ100_1", "FDT_IRQ100_2", "FDT_IRQ100_3"} \cup Imaging
       \/ acks \/ (p \in ToAckInPlace /\ l.ack)
  BY <1>1 DEF AllPhases, Early, First, Taking, Lifting, Reading, Second,
              Retaking, Over, ToAck, ToAckInPlace, Imaging
<1> QED
  BY <1>2, <1>3, <1>4, <1>5, <1>6, <1>7, <1>8, <1>9, <1>10, <1>11, <1>12
     DEF ToAckInPlace

LEMMA PlainHolds ==
  ASSUME NEW l, NEW r, NEW q, NEW f, NEW answer, NEW e, NEW c \in BOOLEAN,
         Heard(l, r, q, f, answer, e, c), f \in PlainFrames
  PROVE  /\ Holds(HandlePlaintext(l, f, answer), q, e, c)
         /\ Tells(l, HandlePlaintext(l, f, answer))
<1> DEFINE k == HandlePlaintext(l, f, answer)
<1>1. l.phase \notin {"STOP", "TERMINAL"} /\ l.half \in BOOLEAN
  BY DEF Heard, LifeType
<1>2. Plain("half") # Plain("whole")
  BY DEF Plain
<1>3. CASE l.phase = "RELEASE_B0"
  <2>1. k = Submit(l, "50", "RELEASE_50")
    BY <1>3 DEF HandlePlaintext
  <2> QED
    BY <1>3, <2>1, TailImageHolds
<1>4. CASE l.phase \in Imaging
  <2>1. k = IF f = Plain("half") /\ ~l.half THEN [l EXCEPT !.half = TRUE]
            ELSE IF f = Plain(IF l.half THEN "half" ELSE "whole")
                 THEN HandleImage([l EXCEPT !.half = FALSE], answer)
            ELSE Fail(l)
    BY <1>4 DEF HandlePlaintext, Imaging
  <2>2. CASE f = Plain("half") /\ ~l.half
    BY <1>4, <2>1, <2>2, HalfHolds
  <2>3. CASE /\ ~(f = Plain("half") /\ ~l.half)
             /\ f = Plain(IF l.half THEN "half" ELSE "whole")
    <3>1. e = 0 => q.due = <<>>
      BY <1>2, <1>4, <2>3, ImageDue
    <3>2. k = HandleImage([l EXCEPT !.half = FALSE], answer)
      BY <2>1, <2>3
    <3> QED
      BY <1>4, <3>1, <3>2, ImageHolds
  <2>4. CASE /\ ~(f = Plain("half") /\ ~l.half)
             /\ f # Plain(IF l.half THEN "half" ELSE "whole")
    <3>1. e # 0
      BY <1>1, <1>2, <1>4, <2>4, ImageDue
    <3>2. c
      BY <3>1 DEF Heard
    <3>3. k = Fail(l)
      BY <2>1, <2>4
    <3> QED
      BY <3>2, <3>3, RefusedHolds
  <2> QED
    BY <2>2, <2>3, <2>4
<1>5. CASE l.phase \notin Imaging \cup {"RELEASE_B0"}
  <2>1. k = Fail(l)
    BY <1>1, <1>5 DEF HandlePlaintext, Imaging
  <2>2. c
    <3>1. e # 0
      BY <1>5, HeadIs
    <3> QED
      BY <3>1 DEF Heard
  <2> QED
    BY <2>1, <2>2, RefusedHolds
<1> QED
  BY <1>3, <1>4, <1>5

-----------------------------------------------------------------------------
(* The steps of the main loop and of the context.                           *)

(* A lifecycle that was just made, with a reader that was just drained.     *)
LEMMA FreshHolds ==
  ASSUME NEW use \in Uses
  PROVE  Holds(NewLifecycle(use), FreshReader, 0, FALSE) /\ ReaderType(FreshReader)
<1> DEFINE l == NewLifecycle(use) r == FreshReader
<1>1. /\ l.use = use /\ l.phase = "NOT_STARTED" /\ l.expected = "none"
      /\ ~l.ack /\ ~l.out /\ l.at = "idle" /\ ~l.owned /\ ~l.fenced
      /\ l.samples = 0 /\ ~l.steady /\ ~l.half /\ l.irq80 = 0 /\ ~l.rearming
      /\ ~l.await /\ ~l.rearmed /\ ~l.authorized /\ l.attempts = 0
      /\ l.told = "nothing" /\ l.downs = 0
      /\ l.asked = IF use \in {"login", "enroll"} THEN 0 ELSE 1
  BY DEF NewLifecycle
<1>2. l \in LifeType
  <2>1. "NOT_STARTED" \in Phases
    BY PhasesAre DEF AllPhases, Early
  <2>2. 0 \in 0..Irq80Limit /\ 0 \in 0..AttemptLimit
    BY LimitAssumption
  <2> HIDE DEF Phases, Commands, Uses
  <2> QED
    BY <2>1, <2>2 DEF LifeType, NewLifecycle
<1>3. r.armed = "nothing" /\ r.due = <<>> /\ r.arms = 0 /\ r.strays = 0
      /\ r.captures = 0
  BY DEF FreshReader
<1> HIDE DEF l, r
<1>4. /\ l.phase \in Early /\ l.phase \notin First /\ l.phase \notin Taking
      /\ l.phase \notin Lifting /\ l.phase \notin Reading
      /\ l.phase \notin Second /\ l.phase \notin Retaking
      /\ l.phase \notin Over /\ l.phase \notin ToAck
      /\ l.phase \notin ToAckInPlace /\ SamplesBefore[l.phase] = 0
  BY <1>1 DEF Early, First, Taking, Lifting, Reading, Second, Retaking, Over,
              ToAck, ToAckInPlace, SamplesBefore
<1>5. Transport(l)
  BY <1>1, <1>4 DEF Transport
<1>6. Contact(l)
  BY <1>1, <1>4 DEF Contact, Gated, One, Uses
<1>7. Counts(l, r)
  BY <1>1, <1>3, <1>4, LimitAssumption DEF Counts, Bounds, One, Flying
<1>8. Script(l, r)
  BY <1>1, <1>3, <1>4 DEF Script, Flying
<1>9. Clean(l, r)
  BY <1>1, <1>3, <1>4, LimitAssumption DEF Clean
<1>10. ReaderType(r)
  BY <1>3 DEF ReaderType, FreshReader, r
<1> QED
  BY <1>2, <1>5, <1>6, <1>7, <1>8, <1>9, <1>10 DEF Holds, Sound, l, r

LEMMA InitInv == Init => IInv
<1> SUFFICES ASSUME Init PROVE IInv
  OBVIOUS
<1>1. PICK use \in Uses : life = NewLifecycle(use)
  BY DEF Init
<1>2. Holds(life, reader, 0, FALSE) /\ ReaderType(reader)
  BY <1>1, FreshHolds DEF Init
<1>3. errors = 0 /\ blame = FALSE
  BY DEF Init
<1>4. Holds(life, reader, errors, blame)
  BY <1>2, <1>3
<1>5. errors \in 0..MaxErrors
  BY <1>3, BoundAssumption
<1>6. blame \in BOOLEAN
  BY <1>3, Zenon
<1> QED
  BY <1>2, <1>4, <1>5, <1>6 DEF IInv

LEMMA RenewInv == IInv /\ Renew => IInv'
<1> SUFFICES ASSUME Renew PROVE IInv'
  OBVIOUS
<1>1. PICK use \in Uses : life' = NewLifecycle(use)
  BY DEF Renew
<1>2. Holds(life', reader', 0, FALSE) /\ ReaderType(reader')
  BY <1>1, FreshHolds DEF Renew
<1>3. errors' = 0 /\ blame' = FALSE
  BY DEF Renew
<1>4. Holds(life', reader', errors', blame')
  BY <1>2, <1>3
<1>5. errors' \in 0..MaxErrors
  BY <1>3, BoundAssumption
<1>6. blame' \in BOOLEAN
  BY <1>3, Zenon
<1> QED
  BY <1>2, <1>4, <1>5, <1>6 DEF IInv

(* goodix_post_tls_lifecycle_start().                                       *)
LEMMA StartHolds ==
  ASSUME NEW l, NEW r, NEW e, NEW b \in BOOLEAN, Holds(l, r, e, b),
         l.phase = "NOT_STARTED", ~l.fenced, r.captures \in Nat, r.arms \in Nat
  PROVE  LET k == Submit([l EXCEPT !.owned = TRUE], "d4", "D4")
         IN Holds(k, r, e, b) /\ Tells(l, k)
<1> DEFINE m == [l EXCEPT !.owned = TRUE] p == "D4"
           k == Submit(m, CommandOf(p), p)
<1>0. k = Submit([l EXCEPT !.owned = TRUE], "d4", "D4")
  BY CommandsAre
<1>1. /\ l \in LifeType /\ Transport(l) /\ Contact(l) /\ Counts(l, r)
      /\ Bounds(l, r) /\ (e = 0 => Script(l, r))
      /\ (~b => e = 0 /\ Clean(l, r))
  BY DEF Holds, Sound, Counts
<1>2. /\ p \in Early /\ p \notin First /\ p \notin Taking /\ p \notin Lifting
      /\ p \notin Second /\ p \notin Reading /\ p \notin Retaking
      /\ p \notin Over /\ p # "REARM_GATE" /\ p \in Sent
      /\ CommandOf(p) = "d4" /\ p # "FDT_82" /\ p # "FIRST_ARM"
      /\ SamplesBefore[p] = 0 /\ SamplesBefore[l.phase] = 0
      /\ l.phase \in Early /\ l.phase \notin Over /\ l.phase \notin First
      /\ l.phase # "STOP" /\ p # "STOP" /\ p # "TERMINAL" /\ p # "FIRST_IRQ2"
  BY CommandsAre DEF Early, First, Taking, Lifting, Second, Reading, Retaking,
                     Over, Sent, SamplesBefore
<1>3. l.at = "idle" /\ ~l.out /\ ~l.half /\ ~l.rearming /\ ~Flying(l)
  BY <1>1, <1>2 DEF Transport, Contact, Flying
<1>4. /\ m \in LifeType /\ m.phase = l.phase /\ m.out = l.out
      /\ m.use = l.use /\ m.owned /\ m.fenced = l.fenced
      /\ m.samples = l.samples /\ m.irq80 = l.irq80
      /\ m.rearming = l.rearming /\ m.await = l.await
      /\ m.rearmed = l.rearmed /\ m.authorized = l.authorized
      /\ m.told = l.told /\ m.downs = l.downs /\ m.asked = l.asked
      /\ m.half = l.half
  <2> HIDE DEF Phases, Commands
  <2> QED
    BY <1>1 DEF LifeType
<1> HIDE DEF m
<1>5. /\ k \in LifeType /\ k.phase = p /\ k.expected = "d4" /\ ~k.ack
      /\ k.at = "flying" /\ Same(k, m) /\ Transport(k)
      /\ \A x : /\ x.due = <<>> /\ x.armed \notin {"touch", "lift"}
                /\ p \in Early \cup Taking \cup Retaking => x.armed = "nothing"
                /\ p \in Reading => x.armed = "lifted"
                => Script(k, x)
  <2>1. m.phase \notin Over /\ ~m.out /\ ~m.fenced /\ ~m.half
    BY <1>2, <1>3, <1>4
  <2> QED
    BY <1>2, <1>4, <2>1, SubmitIs
<1> HIDE DEF k
<1>6. e = 0 => r.due = <<>> /\ r.armed = "nothing"
  BY <1>1, <1>2, <1>3 DEF Script
<1>7. e = 0 => Script(k, r)
  <2>1. e = 0 => r.armed \notin {"touch", "lift"}
    BY <1>6
  <2> QED
    BY <1>2, <1>5, <1>6, <2>1
<1>8. Contact(k)
  BY <1>1, <1>2, <1>4, <1>5 DEF Contact, Same, Gated
<1>9. Counts(k, r)
  <2>1. r.arms = 0 /\ r.captures <= l.downs /\ l.downs <= l.asked
    <3>1. r.arms = 0
      BY <1>1, <1>2 DEF Counts
    <3>2. r.captures <= l.downs /\ l.downs <= l.asked
      BY <1>1, <1>3 DEF Bounds, One
    <3> QED
      BY <3>1, <3>2
  <2> QED
    BY <1>2, <1>4, <1>5, <2>1, LimitAssumption
       DEF Counts, Bounds, One, Flying, Same
<1>10. ASSUME ~b PROVE Clean(k, r)
  <2>1. r.strays = 0 /\ r.strays <= Irq80Limit
    BY <1>1, <1>2, <1>10 DEF Clean
  <2>2. k.samples = 0
    BY <1>1, <1>2, <1>4, <1>5 DEF Contact, Same
  <2> QED
    BY <1>2, <1>5, <2>1, <2>2 DEF Clean
<1>11. Tells(l, k)
  BY <1>4, <1>5 DEF Tells, Same
<1> QED
  BY <1>0, <1>1, <1>5, <1>7, <1>8, <1>9, <1>10, <1>11 DEF Holds, Sound

(* Who has a command under way owns the backend.                            *)
LEMMA OutIsOwned ==
  ASSUME NEW l, Transport(l), l.at # "idle", l.phase # "TERMINAL"
  PROVE  l.out /\ l.owned
BY DEF Transport, Over

(* goodix_post_tls_lifecycle_backend_out_complete().                        *)
LEMMA CompleteHolds ==
  ASSUME NEW l, NEW r, NEW e, NEW b \in BOOLEAN, Holds(l, r, e, b),
         l.at = "taken"
  PROVE  Holds(BackendOutComplete(l), r, e, b) /\ Tells(l, BackendOutComplete(l))
<1> DEFINE k == BackendOutComplete(l)
<1>1. /\ l \in LifeType /\ Transport(l) /\ Contact(l) /\ Counts(l, r)
      /\ (e = 0 => Script(l, r)) /\ (~b => e = 0 /\ Clean(l, r))
  BY DEF Holds, Sound
<1>2. /\ k \in LifeType /\ k.at = "idle" /\ k.phase = l.phase
      /\ k.expected = l.expected /\ k.ack = l.ack /\ Same(k, l)
      /\ k.out = (l.out /\ (~l.owned \/ l.phase = "TERMINAL"))
  <2>1. l.out \in BOOLEAN /\ l.owned \in BOOLEAN
    BY <1>1 DEF LifeType
  <2> DEFINE x == l.out /\ (~l.owned \/ l.phase = "TERMINAL")
  <2>2. x \in BOOLEAN
    BY <2>1
  <2>3. k = [l EXCEPT !.at = "idle", !.out = x]
    BY DEF BackendOutComplete
  <2> HIDE DEF Phases, Commands, x, k
  <2>4. /\ k \in LifeType /\ k.at = "idle" /\ k.phase = l.phase
        /\ k.expected = l.expected /\ k.ack = l.ack /\ Same(k, l) /\ k.out = x
    BY <1>1, <2>2, <2>3 DEF LifeType, Same
  <2> QED
    BY <2>4 DEF x
<1> HIDE DEF k
<1>3. ~Flying(l) /\ ~Flying(k)
  BY <1>2 DEF Flying
<1>4. k.phase # "TERMINAL" => ~k.out
  BY <1>1, <1>2, OutIsOwned
<1>5. Transport(k)
  BY <1>1, <1>2, <1>4 DEF Transport, Same
<1>6. Contact(k)
  BY <1>1, <1>2 DEF Contact, Same, Gated
<1>7. Counts(k, r)
  <2>1. Bounds(k, r)
    BY <1>1, <1>2, <1>3 DEF Counts, Bounds, Same, One
  <2> QED
    BY <1>1, <1>2, <1>3, <2>1 DEF Counts, Same, One
<1>8. e = 0 => Script(k, r)
  BY <1>1, <1>2, <1>3 DEF Script, Same
<1>9. ~b => Clean(k, r)
  BY <1>1, <1>2 DEF Clean, Same
<1>10. Tells(l, k)
  BY <1>2 DEF Tells, Same
<1> QED
  BY <1>1, <1>2, <1>5, <1>6, <1>7, <1>8, <1>9, <1>10 DEF Holds, Sound, k

(* goodix_post_tls_lifecycle_backend_failed() for an OUT.                   *)
LEMMA OutFailedHolds ==
  ASSUME NEW l, NEW r, NEW e, NEW b, NEW n, Holds(l, r, e, b), l.at # "idle",
         r.arms \in Nat, r.captures \in Nat
  PROVE  Holds(BackendOutFailed(l), r, n, TRUE) /\ Tells(l, BackendOutFailed(l))
<1> DEFINE k == BackendOutFailed(l)
           i == [l EXCEPT !.at = "idle"]
           m == [l EXCEPT !.at = "idle", !.out = FALSE]
<1>1. l \in LifeType /\ Transport(l) /\ Bounds(l, r)
  BY DEF Holds, Sound, Counts
<1>2. /\ i \in LifeType /\ i.at = "idle" /\ i.phase = l.phase
      /\ i.told = l.told /\ i.downs = l.downs /\ i.asked = l.asked
      /\ i.fenced = l.fenced /\ i.half = l.half
      /\ m \in LifeType /\ m.at = "idle" /\ m.phase = l.phase
      /\ m.told = l.told /\ m.downs = l.downs /\ m.asked = l.asked
  <2> HIDE DEF Phases, Commands
  <2> QED
    BY <1>1 DEF LifeType
<1>3. Bounds(m, r) /\ Bounds(i, r)
  <2>1. /\ r.arms + One(Flying(l) /\ l.expected = "32") <= Irq80Limit + 1
        /\ r.captures + One(Flying(l) /\ l.expected = "22") <= l.downs
        /\ l.downs <= l.asked
    BY <1>1 DEF Bounds
  <2>2. r.arms <= Irq80Limit + 1 /\ r.captures <= l.downs
    BY <1>1, <2>1, LimitAssumption DEF One, LifeType
  <2> QED
    BY <1>2, <2>1, <2>2 DEF Bounds, One, Flying
<1>4. CASE l.phase = "TERMINAL"
  <2>1. k = i
    BY <1>4 DEF BackendOutFailed
  <2> HIDE DEF k, i
  <2>2. Transport(i) /\ Contact(i) /\ Script(i, r)
    BY <1>1, <1>2, <1>4 DEF Transport, Contact, Script, Early, First, Taking,
       Lifting, Reading, Second, Retaking, Over, ToAck, ToAckInPlace, Flying
  <2>3. Counts(i, r)
    BY <1>2, <1>3, <1>4 DEF Counts, Early, First, Taking, Lifting, Reading,
       Second, Retaking
  <2>4. Tells(l, i)
    BY <1>2 DEF Tells
  <2> QED
    BY <1>2, <2>1, <2>2, <2>3, <2>4 DEF Holds, Sound, k
<1>5. CASE l.phase # "TERMINAL"
  <2>1. k = Fail(m)
    BY <1>1, <1>5, OutIsOwned DEF BackendOutFailed
  <2> HIDE DEF k, m
  <2>2. /\ Holds(Fail(m), r, n, TRUE) /\ Fail(m).told = l.told
        /\ Fail(m).downs = l.downs /\ Fail(m).asked = l.asked /\ Fail(m).fenced
    BY <1>2, <1>3, <1>5, FailHolds
  <2>3. Tells(l, Fail(m))
    BY <2>2 DEF Tells
  <2> QED
    BY <2>1, <2>2, <2>3 DEF k
<1> QED
  BY <1>4, <1>5

(* goodix_post_tls_lifecycle_authorize_login(): the first Verify of a        *)
(* login.                                                                   *)
LEMMA AuthorizeHolds ==
  ASSUME NEW l, NEW r, NEW e, NEW b \in BOOLEAN, Holds(l, r, e, b),
         Gated(l), l.phase = "FIRST_IRQ2", ~l.fenced
  PROVE  Holds(Authorize(l), r, e, b) /\ Tells(l, Authorize(l))
<1> DEFINE k == [l EXCEPT !.authorized = TRUE, !.attempts = 1, !.asked = 1]
<1>0. Authorize(l) = k
  BY DEF Authorize
<1>1. /\ l \in LifeType /\ Transport(l) /\ Contact(l) /\ Counts(l, r)
      /\ (e = 0 => Script(l, r)) /\ (~b => e = 0 /\ Clean(l, r))
  BY DEF Holds, Sound
<1>2. /\ k \in LifeType /\ k.phase = l.phase /\ k.expected = l.expected
      /\ k.ack = l.ack /\ k.out = l.out /\ k.at = l.at /\ k.half = l.half
      /\ k.use = l.use /\ k.owned = l.owned /\ k.fenced = l.fenced
      /\ k.samples = l.samples /\ k.steady = l.steady /\ k.irq80 = l.irq80
      /\ k.rearming = l.rearming /\ k.down = l.down /\ k.await = l.await
      /\ k.rearmed = l.rearmed /\ k.authorized = TRUE
      /\ k.told = l.told /\ k.downs = l.downs /\ k.asked = 1
  <2>1. 1 \in 0..AttemptLimit /\ 1 \in Nat
    BY LimitAssumption
  <2> HIDE DEF Phases, Commands
  <2> QED
    BY <1>1, <2>1 DEF LifeType
<1> HIDE DEF k
<1>3. /\ l.phase \in First /\ l.phase \notin Early /\ l.phase \notin Taking
      /\ l.phase \notin Lifting /\ l.phase \notin Reading
      /\ l.phase \notin Second /\ l.phase \notin Retaking /\ l.phase \notin Over
  BY DEF Early, First, Taking, Lifting, Reading, Second, Retaking, Over
<1>4. l.downs = 0 /\ l.asked = 0 /\ l.use = "login"
  BY <1>1, <1>3 DEF Contact, Gated, One
<1>5. Transport(k)
  BY <1>1, <1>2 DEF Transport
<1>6. Contact(k)
  BY <1>1, <1>2, <1>3, <1>4 DEF Contact, Gated, One
<1>7. Counts(k, r)
  <2>1. Bounds(k, r)
    BY <1>1, <1>2, <1>4 DEF Counts, Bounds, Flying
  <2> QED
    BY <1>1, <1>2, <1>3, <2>1 DEF Counts, Flying
<1>8. e = 0 => Script(k, r)
  BY <1>1, <1>2 DEF Script, Flying
<1>9. ~b => Clean(k, r)
  BY <1>1, <1>2 DEF Clean
<1>10. Tells(l, k)
  BY <1>2, <1>4 DEF Tells
<1> QED
  BY <1>0, <1>1, <1>2, <1>5, <1>6, <1>7, <1>8, <1>9, <1>10 DEF Holds, Sound

(* The later contacts of a login.                                           *)
LEMMA NextLoginHolds ==
  ASSUME NEW l, NEW r, NEW e, NEW b \in BOOLEAN, Holds(l, r, e, b),
         MayGoOn(l), ~l.fenced, r.captures \in Nat, r.arms \in Nat
  PROVE  Holds(NextLogin(l), r, e, b) /\ Tells(l, NextLogin(l))
<1> DEFINE m == [l EXCEPT !.attempts = l.attempts + 1, !.irq80 = 0,
                          !.down = FALSE, !.phase = "REARM_GATE",
                          !.asked = l.asked + 1]
           p == "FIRST_ARM"
           k == Submit(m, CommandOf(p), p)
<1>0. NextLogin(l) = k
  BY CommandsAre DEF NextLogin
<1>1. /\ l \in LifeType /\ Transport(l) /\ Contact(l) /\ Counts(l, r)
      /\ Bounds(l, r) /\ (e = 0 => Script(l, r))
      /\ (~b => e = 0 /\ Clean(l, r))
  BY DEF Holds, Sound, Counts
<1>2. /\ p \in First /\ p \notin Early /\ p \notin Taking /\ p \notin Lifting
      /\ p \notin Second /\ p \notin Reading /\ p \notin Retaking
      /\ p \notin Over /\ p # "REARM_GATE" /\ p \in Sent /\ CommandOf(p) = "32"
      /\ l.phase \in Over /\ l.phase \notin First
  BY CommandsAre DEF Early, First, Taking, Lifting, Second, Reading, Retaking,
                     Over, Sent, ToAck, MayGoOn
<1>3. /\ l.use = "login" /\ l.authorized /\ l.phase = "STOP" /\ l.at = "idle"
      /\ ~l.out /\ l.owned /\ ~l.half /\ l.told = "up" /\ l.asked = l.downs
      /\ ~l.await /\ ~l.rearmed /\ ~l.rearming /\ ~Flying(l)
      /\ l.attempts < AttemptLimit /\ r.arms = 0
  BY <1>1, <1>2 DEF MayGoOn, Transport, Contact, Flying, Counts
<1>4. /\ m \in LifeType /\ m.phase = "REARM_GATE" /\ m.out = l.out
      /\ m.use = l.use /\ m.owned = l.owned /\ m.fenced = l.fenced
      /\ m.irq80 = 0 /\ m.rearming = l.rearming /\ m.await = l.await
      /\ m.rearmed = l.rearmed /\ m.authorized = l.authorized
      /\ m.told = l.told /\ m.downs = l.downs /\ m.asked = l.asked + 1
      /\ m.half = l.half
  <2>1. "REARM_GATE" \in Phases
    BY PhasesAre DEF AllPhases
  <2>2. /\ l.attempts + 1 \in 0..AttemptLimit /\ 0 \in 0..Irq80Limit
        /\ l.asked + 1 \in Nat
    BY <1>1, <1>3, LimitAssumption DEF LifeType
  <2> HIDE DEF Phases, Commands
  <2> QED
    BY <1>1, <2>1, <2>2 DEF LifeType
<1> HIDE DEF m
<1>5. /\ k \in LifeType /\ k.phase = p /\ k.expected = "32" /\ ~k.ack
      /\ k.at = "flying" /\ Same(k, m) /\ Transport(k)
      /\ \A x : /\ x.due = <<>> /\ x.armed \notin {"touch", "lift"}
                /\ p \in Early \cup Taking \cup Retaking => x.armed = "nothing"
                /\ p \in Reading => x.armed = "lifted"
                => Script(k, x)
  <2>1. m.phase \notin Over /\ ~m.out /\ ~m.fenced /\ m.owned /\ ~m.half
    BY <1>3, <1>4 DEF Over
  <2> QED
    BY <1>2, <1>4, <2>1, SubmitIs
<1> HIDE DEF k
<1>6. e = 0 => r.due = <<>> /\ r.armed = "lifted"
  BY <1>1, <1>3 DEF Script
<1>7. e = 0 => Script(k, r)
  <2>1. e = 0 => r.armed \notin {"touch", "lift"}
    BY <1>6
  <2> QED
    BY <1>2, <1>5, <1>6, <2>1
<1>8. Contact(k)
  <2>1. /\ k.use = "login" /\ k.told = "up" /\ ~k.await /\ ~k.rearmed
        /\ ~k.rearming /\ k.irq80 = 0 /\ k.asked = k.downs + 1 /\ ~Gated(k)
    BY <1>3, <1>4, <1>5 DEF Same, Gated
  <2> QED
    BY <1>2, <1>5, <2>1 DEF Contact, One
<1>9. Counts(k, r)
  <2>1. r.captures <= l.downs /\ l.downs <= l.asked
    BY <1>1, <1>3 DEF Bounds, One
  <2>2. k.downs = l.downs /\ k.asked = l.asked + 1 /\ k.irq80 = 0
    BY <1>4, <1>5 DEF Same
  <2> QED
    BY <1>1, <1>2, <1>3, <1>5, <2>1, <2>2, LimitAssumption
       DEF Counts, Bounds, One, Flying, LifeType
<1>10. ASSUME ~b PROVE Clean(k, r)
  <2>1. r.strays = 0 /\ r.strays <= Irq80Limit /\ e = 0
    BY <1>1, <1>2, <1>3, <1>10 DEF Clean
  <2>2. ~In(Touch, r.due) /\ ~In(Stray, r.due)
    BY <1>6, <2>1, InIs
  <2>3. k.irq80 = 0 /\ k.phase # "TERMINAL" /\ k.phase # "FDT_82"
    BY <1>4, <1>5 DEF Same
  <2> QED
    BY <1>2, <1>5, <2>1, <2>2, <2>3 DEF Clean, One
<1>11. Tells(l, k)
  <2>1. k.told = l.told /\ k.downs = l.downs /\ k.asked = l.downs + 1
    BY <1>3, <1>4, <1>5 DEF Same
  <2> QED
    BY <1>1, <1>3, <2>1 DEF Tells, LifeType
<1> QED
  BY <1>0, <1>1, <1>5, <1>7, <1>8, <1>9, <1>10, <1>11 DEF Holds, Sound

(* The terminal fence, and a timeout.                                       *)
LEMMA FencedHolds ==
  ASSUME NEW l, NEW r, NEW e, NEW b, Holds(l, r, e, b), ~l.fenced
  PROVE  Holds(SetFence(l), r, e, TRUE) /\ Tells(l, SetFence(l))
<1>1. /\ l \in LifeType /\ Transport(l) /\ Contact(l) /\ Counts(l, r)
      /\ Bounds(l, r) /\ (e = 0 => Script(l, r))
  BY DEF Holds, Sound, Counts
<1>2. CASE l.phase = "STOP"
  <2> DEFINE k == [l EXCEPT !.fenced = TRUE]
  <2>1. SetFence(l) = k
    BY <1>2 DEF SetFence
  <2>2. /\ k \in LifeType /\ k.phase = "STOP" /\ k.expected = l.expected
        /\ k.out = l.out /\ k.at = l.at /\ k.half = l.half /\ k.use = l.use
        /\ k.owned = l.owned /\ k.authorized = l.authorized
        /\ k.await = l.await /\ k.rearmed = l.rearmed
        /\ k.rearming = l.rearming /\ k.told = l.told /\ k.downs = l.downs
        /\ k.asked = l.asked /\ k.fenced
    <3> HIDE DEF Phases, Commands
    <3> QED
      BY <1>1, <1>2 DEF LifeType
  <2> HIDE DEF k
  <2>3. "STOP" \notin Early \cup First \cup Taking \cup Lifting \cup Reading
                        \cup Second \cup Retaking \cup ToAck \cup ToAckInPlace
        /\ "STOP" \in Over
    BY DEF Early, First, Taking, Lifting, Reading, Second, Retaking, Over,
           ToAck, ToAckInPlace
  <2>4. Transport(k)
    BY <1>1, <1>2, <2>2, <2>3 DEF Transport
  <2>5. Contact(k)
    BY <1>1, <1>2, <2>2, <2>3 DEF Contact
  <2>6. Counts(k, r)
    BY <1>1, <1>2, <2>2, <2>3 DEF Counts, Bounds, Flying
  <2>7. e = 0 => Script(k, r)
    BY <1>1, <1>2, <2>2, <2>3 DEF Script, Flying
  <2>8. Tells(l, k)
    BY <2>2 DEF Tells
  <2> QED
    BY <2>1, <2>2, <2>4, <2>5, <2>6, <2>7, <2>8 DEF Holds, Sound
<1>3. CASE l.phase = "TERMINAL"
  <2>1. SetFence(l) = l
    BY <1>3 DEF SetFence, Fail
  <2>2. Tells(l, l)
    BY DEF Tells
  <2> QED
    BY <1>1, <2>1, <2>2 DEF Holds, Sound
<1>4. CASE l.phase # "STOP" /\ l.phase # "TERMINAL"
  <2>1. SetFence(l) = Fail(l)
    BY <1>4 DEF SetFence
  <2>2. /\ Holds(Fail(l), r, e, TRUE) /\ Fail(l).told = l.told
        /\ Fail(l).downs = l.downs /\ Fail(l).asked = l.asked /\ Fail(l).fenced
    BY <1>1, <1>4, FailHolds
  <2> QED
    BY <2>1, <2>2 DEF Tells
<1> QED
  BY <1>2, <1>3, <1>4

-----------------------------------------------------------------------------
(* The steps of the reader.                                                 *)

Frames == A0Frames \cup PlainFrames

LEMMA InAppend ==
  ASSUME NEW S, NEW s \in Seq(S), NEW y \in S
  PROVE  /\ \A x : In(x, Append(s, y)) <=> In(x, s) \/ x = y
         /\ Append(s, y) \in Seq(S)
<1> DEFINE u == Append(s, y) n == Len(s)
<1>1. /\ u \in Seq(S) /\ Len(u) = n + 1 /\ u[n + 1] = y /\ n \in Nat
      /\ \A i \in 1..n : u[i] = s[i]
  BY AppendProperties, LenProperties
<1> HIDE DEF u
<1>2. ASSUME NEW x, In(x, u) PROVE In(x, s) \/ x = y
  <2>1. PICK i \in 1..(n + 1) : u[i] = x
    BY <1>1, <1>2 DEF In
  <2>2. i = n + 1 \/ i \in 1..n
    BY <1>1
  <2> QED
    BY <1>1, <2>1, <2>2 DEF In
<1>3. ASSUME NEW x, In(x, s) \/ x = y PROVE In(x, u)
  <2>1. CASE In(x, s)
    <3>1. PICK i \in 1..n : s[i] = x
      BY <2>1 DEF In
    <3>2. i \in 1..(n + 1) /\ u[i] = x
      BY <1>1, <3>1
    <3> QED
      BY <1>1, <3>2 DEF In
  <2>2. CASE x = y
    <3>1. n + 1 \in 1..Len(u) /\ u[n + 1] = x
      BY <1>1, <2>2
    <3> QED
      BY <3>1 DEF In
  <2> QED
    BY <1>3, <2>1, <2>2
<1> QED
  BY <1>1, <1>2, <1>3 DEF u

(* While the sensor waits for a touch, only the ACK of the arm can be due.  *)
LEMMA TouchArmed ==
  ASSUME NEW l \in LifeType, NEW r, ReaderType(r), Transport(l), Script(l, r),
         r.armed = "touch"
  PROVE  /\ l.phase \in {"FIRST_ARM", "SECOND_ARM", "FIRST_IRQ2", "SECOND_IRQ2"}
                          \cup Over
         /\ l.phase \notin Over => ~Flying(l)
         /\ l.phase \in {"FIRST_ARM", "SECOND_ARM"} => r.due = <<Ack("32")>>
         /\ l.phase \in {"FIRST_IRQ2", "SECOND_IRQ2"}
              \/ (l.phase = "STOP" /\ l.use = "enroll") => r.due = <<>>
         /\ ~(l.phase = "STOP" /\ l.use = "login")
<1>1. l.phase \in AllPhases
  BY PhasesAre DEF LifeType
<1>2. /\ l.phase \notin Early \cup Taking \cup Retaking \cup Reading \cup {"REARM_GATE"}
      /\ l.phase \notin Over => ~Flying(l)
      /\ ~(l.phase = "STOP" /\ l.use = "login")
  BY DEF Script
<1>3. ASSUME l.phase \in ToAck
      PROVE  \E rest \in Seq(Frames) :
               /\ r.due = <<Ack(l.expected)>> \o rest
               /\ Owed(After(l.phase), FALSE, r.armed, rest)
  <2>1. ~Flying(l)
    BY <1>2, <1>3 DEF ToAck, Over
  <2> QED
    BY <1>3, <2>1 DEF Script, Frames
<1>4. ASSUME l.phase \in {"FIRST_IRQ2", "SECOND_IRQ2", "RELEASE_IRQ200"}
      PROVE  Owed(l.phase, l.half, r.armed, r.due)
  <2>1. ~Flying(l)
    BY <1>2, <1>4 DEF Over
  <2> QED
    BY <1>4, <2>1 DEF Script, Over, ToAck, ToAckInPlace
<1>5. l.phase # "RELEASE_IRQ200"
  BY <1>4 DEF Owed
<1>6. l.phase # "RELEASE_34"
  <2> SUFFICES ASSUME l.phase = "RELEASE_34" PROVE FALSE
    OBVIOUS
  <2>1. PICK rest \in Seq(Frames) : Owed(After(l.phase), FALSE, r.armed, rest)
    BY <1>3 DEF ToAck
  <2>2. After(l.phase) = "RELEASE_IRQ200"
    BY AfterAckIs DEF After
  <2> QED
    BY <2>1, <2>2 DEF Owed
<1>7. ASSUME l.phase \in {"FIRST_ARM", "SECOND_ARM"}
      PROVE  r.due = <<Ack("32")>>
  <2>1. PICK rest \in Seq(Frames) :
               /\ r.due = <<Ack(l.expected)>> \o rest
               /\ Owed(After(l.phase), FALSE, r.armed, rest)
    BY <1>3, <1>7 DEF ToAck
  <2>2. After(l.phase) \in {"FIRST_IRQ2", "SECOND_IRQ2"}
    BY <1>7, AfterAckIs DEF After
  <2>3. rest = <<>>
    BY <2>1, <2>2 DEF Owed
  <2>4. l.expected = "32"
    BY <1>7, CommandsAre DEF Transport, Over
  <2> QED
    BY <2>1, <2>3, <2>4
<1>8. l.phase \in {"FIRST_IRQ2", "SECOND_IRQ2"} => r.due = <<>>
  BY <1>4 DEF Owed
<1>9. l.phase = "STOP" /\ l.use = "enroll" => r.due = <<>>
  BY DEF Script, Owed
<1>10. l.phase \in {"FIRST_ARM", "SECOND_ARM", "FIRST_IRQ2", "SECOND_IRQ2"} \cup Over
  BY <1>1, <1>2, <1>5, <1>6 DEF AllPhases, First, Second, Lifting
<1> QED
  BY <1>2, <1>7, <1>8, <1>9, <1>10

(* A touch or a stray is reported.                                          *)
LEMMA ReportScript ==
  ASSUME NEW l \in LifeType, NEW r, NEW q, ReaderType(r), Transport(l),
         Script(l, r), r.armed = "touch", NEW event \in {Touch, Stray},
         q.due = Append(r.due, event), q.armed = "nothing"
  PROVE  /\ Script(l, q)
         /\ l.phase \in {"FIRST_ARM", "SECOND_ARM", "FIRST_IRQ2", "SECOND_IRQ2"}
              => \A x \in {Touch, Stray} : In(x, q.due) <=> x = event
<1>1. event \in Frames /\ Ack("32") \in Frames /\ Touch # Stray
      /\ \A x \in {Touch, Stray} : x # Ack("32")
  BY DEF Frames, A0Frames, Commands, Touch, Stray, Ack, Event
<1>2. <<event>> \in Seq(Frames) /\ Append(<<>>, event) = <<event>>
      /\ <<>> \in Seq(Frames)
  BY <1>1
<1>3. CASE l.phase \in {"FIRST_ARM", "SECOND_ARM"}
  <2>1. r.due = <<Ack("32")>> /\ ~Flying(l)
    BY <1>3, TouchArmed DEF Over
  <2>2. <<Ack("32")>> \o <<>> = <<Ack("32")>>
    BY <1>1
  <2>3. q.due = <<Ack("32")>> \o <<event>>
    BY <1>1, <1>2, <2>1, <2>2, ConsIs
  <2>4. l.expected = "32"
    BY <1>3, CommandsAre DEF Transport, Over
  <2>5. After(l.phase) \in {"FIRST_IRQ2", "SECOND_IRQ2"}
    BY <1>3, AfterAckIs DEF After
  <2>6. Owed(After(l.phase), FALSE, q.armed, <<event>>)
    BY <2>5 DEF Owed
  <2>7. \E rest \in Seq(A0Frames \cup PlainFrames) :
              /\ q.due = <<Ack(l.expected)>> \o rest
              /\ Owed(After(l.phase), FALSE, q.armed, rest)
    <3>1. <<event>> \in Seq(A0Frames \cup PlainFrames)
      BY <1>2 DEF Frames
    <3> QED
      BY <2>3, <2>4, <2>6, <3>1
  <2>8. Script(l, q)
    <3>1. /\ l.phase \notin Early \cup Taking \cup Retaking \cup Reading \cup Over
          /\ l.phase \notin {"NOT_STARTED", "REARM_GATE", "D4", "AF", "STOP"}
          /\ l.phase \in ToAck /\ l.phase \notin ToAckInPlace
      BY <1>3 DEF Early, Taking, Retaking, Reading, Over, ToAck, ToAckInPlace
    <3> QED
      BY <2>1, <2>7, <3>1 DEF Script
  <2>9. \A x \in {Touch, Stray} : In(x, q.due) <=> x = event
    <3>1. <<Ack("32")>> \in Seq(Frames)
      BY <1>1
    <3>2. \A x : In(x, Append(<<Ack("32")>>, event)) <=>
                   In(x, <<Ack("32")>>) \/ x = event
      BY <1>1, <3>1, InAppend
    <3>3. q.due = Append(<<Ack("32")>>, event)
      BY <2>1
    <3> QED
      BY <1>1, <3>2, <3>3, InIs
  <2> QED
    BY <2>8, <2>9
<1>4. CASE l.phase \in {"FIRST_IRQ2", "SECOND_IRQ2"}
  <2>1. q.due = <<event>> /\ ~Flying(l)
    BY <1>2, <1>4, TouchArmed DEF Over
  <2>2. Owed(l.phase, l.half, q.armed, q.due)
    BY <1>4, <2>1 DEF Owed
  <2>3. Script(l, q)
    <3>1. /\ l.phase \notin Early \cup Taking \cup Retaking \cup Reading \cup Over
          /\ l.phase \notin {"NOT_STARTED", "REARM_GATE", "D4", "AF", "STOP"}
          /\ l.phase \notin ToAck /\ l.phase \notin ToAckInPlace
      BY <1>4 DEF Early, Taking, Retaking, Reading, Over, ToAck, ToAckInPlace
    <3> QED
      BY <2>1, <2>2, <3>1 DEF Script
  <2>4. \A x \in {Touch, Stray} : In(x, q.due) <=> x = event
    BY <2>1, InIs
  <2> QED
    BY <2>3, <2>4
<1>5. CASE l.phase \in Over
  <2>1. ~(l.phase = "STOP" /\ l.use = "login")
    BY TouchArmed
  <2>2. l.phase = "STOP" /\ l.use = "enroll" =>
          Owed("FIRST_IRQ2", FALSE, q.armed, q.due)
    <3>1. l.phase = "STOP" /\ l.use = "enroll" => q.due = <<event>>
      BY <1>2, TouchArmed
    <3> QED
      BY <3>1 DEF Owed
  <2>3. /\ l.phase \notin Early \cup Taking \cup Retaking \cup Reading
        /\ l.phase \notin {"NOT_STARTED", "REARM_GATE", "D4", "AF"}
        /\ l.phase \notin ToAck /\ l.phase \notin ToAckInPlace
    BY <1>5 DEF Early, Taking, Retaking, Reading, Over, ToAck, ToAckInPlace
  <2>4. Script(l, q)
    BY <1>5, <2>1, <2>2, <2>3 DEF Script
  <2> QED
    BY <1>5, <2>4 DEF Over
<1> QED
  BY <1>3, <1>4, <1>5, TouchArmed

LEMMA SoundReport ==
  ASSUME NEW l, NEW r, NEW q, Sound(l, r), q.arms = r.arms,
         q.captures = r.captures
  PROVE  Sound(l, q)
BY DEF Sound, Counts, Bounds

LEMMA TouchReported ==
  ASSUME NEW l, NEW r, NEW q, NEW e, NEW b \in BOOLEAN, Holds(l, r, e, b),
         ReaderType(r), r.armed = "touch",
         q.due = Append(r.due, Touch), q.armed = "nothing", q.strays = 0,
         q.arms = r.arms, q.captures = r.captures
  PROVE  Holds(l, q, e, b)
<1>1. l \in LifeType /\ Transport(l) /\ Sound(l, q)
  BY SoundReport DEF Holds, Sound
<1>2. e = 0 => Script(l, q)
  BY <1>1, ReportScript DEF Holds
<1>3. ASSUME ~b PROVE Clean(l, q)
  <2>1. e = 0 /\ Clean(l, r) /\ Script(l, r)
    BY <1>3 DEF Holds
  <2>2. /\ l.phase \in {"FIRST_ARM", "SECOND_ARM", "FIRST_IRQ2", "SECOND_IRQ2",
                        "STOP"}
        /\ ~(l.phase = "STOP" /\ l.use = "login")
    BY <1>1, <2>1, TouchArmed DEF Over, Clean
  <2>3. l.phase # "STOP" => In(Touch, q.due) /\ ~In(Stray, q.due)
    <3>1. Touch # Stray
      BY DEF Touch, Stray, Event
    <3> QED
      BY <1>1, <2>1, <2>2, <3>1, ReportScript
  <2> QED
    BY <2>1, <2>2, <2>3, LimitAssumption DEF Clean, Early, First, Second
<1> QED
  BY <1>1, <1>2, <1>3 DEF Holds

LEMMA StrayReported ==
  ASSUME NEW l, NEW r, NEW q, NEW e, NEW b \in BOOLEAN, Holds(l, r, e, b),
         ReaderType(r), r.armed = "touch",
         q.due = Append(r.due, Stray), q.armed = "nothing",
         q.strays = r.strays + 1, q.arms = r.arms, q.captures = r.captures,
         NEW c \in BOOLEAN,
         ~c => ~b /\ r.strays < Irq80Limit /\ ~(l.use = "two" /\ l.downs = 1)
  PROVE  Holds(l, q, e, c)
<1>1. l \in LifeType /\ Transport(l) /\ Contact(l) /\ Sound(l, q)
  BY SoundReport DEF Holds, Sound
<1>2. e = 0 => Script(l, q)
  BY <1>1, ReportScript DEF Holds
<1>3. ASSUME ~c PROVE e = 0 /\ Clean(l, q)
  <2>1. e = 0 /\ Clean(l, r) /\ Script(l, r)
    BY <1>3 DEF Holds
  <2>2. /\ l.phase \in {"FIRST_ARM", "SECOND_ARM", "FIRST_IRQ2", "SECOND_IRQ2",
                        "STOP"}
        /\ ~(l.phase = "STOP" /\ l.use = "login")
    BY <1>1, <2>1, TouchArmed DEF Over, Clean
  <2>3. l.phase \notin Second
    BY <1>1, <1>3, <2>2 DEF Contact, Second
  <2>4. q.strays <= Irq80Limit
    BY <1>3, LimitAssumption DEF ReaderType
  <2>5. CASE l.phase = "STOP"
    BY <2>1, <2>2, <2>4, <2>5 DEF Clean, Early, First, Second
  <2>6. CASE l.phase \in First
    <3>1. Touch # Stray /\ Touch # Ack("32") /\ Stray # Ack("32")
      BY DEF Touch, Stray, Event, Ack
    <3>2. ~In(Touch, r.due) /\ ~In(Stray, r.due)
      <4>1. r.due \in {<<>>, <<Ack("32")>>}
        BY <1>1, <2>1, <2>6, TouchArmed DEF First
      <4> QED
        BY <3>1, <4>1, InIs
    <3>3. ~In(Touch, q.due) /\ In(Stray, q.due)
      BY <1>1, <2>1, <2>6, <3>1, ReportScript DEF First
    <3>4. r.strays = l.irq80 + 0
      BY <2>1, <2>6, <3>2 DEF Clean, One
    <3>5. q.strays = l.irq80 + 1
      BY <1>1, <3>4 DEF LifeType
    <3> QED
      BY <2>1, <2>3, <2>4, <2>6, <3>3, <3>5 DEF Clean, Early, First, One
  <2> QED
    BY <2>2, <2>3, <2>5, <2>6 DEF First, Second
<1> QED
  BY <1>1, <1>2, <1>3 DEF Holds

LEMMA LiftReported ==
  ASSUME NEW l, NEW r, NEW q, NEW e, NEW b \in BOOLEAN, Holds(l, r, e, b),
         ReaderType(r), r.armed = "lift",
         q.due = Append(r.due, Lift), q.armed = "lifted", q.strays = r.strays,
         q.arms = r.arms, q.captures = r.captures
  PROVE  Holds(l, q, e, b)
<1>1. l \in LifeType /\ Transport(l) /\ Sound(l, q)
  BY SoundReport DEF Holds, Sound
<1>2. ASSUME e = 0
      PROVE  /\ l.phase \in Lifting \cup Over /\ Script(l, q)
             /\ ~(l.phase = "STOP" /\ l.use \in {"login", "enroll"})
  <2>1. Script(l, r) /\ l.phase \in AllPhases
    BY <1>1, <1>2, PhasesAre DEF Holds, LifeType
  <2>2. /\ l.phase \notin Early \cup Taking \cup Retaking \cup Reading
                            \cup {"REARM_GATE"}
        /\ l.phase \notin Over => ~Flying(l)
        /\ ~(l.phase = "STOP" /\ l.use = "login")
    BY <2>1 DEF Script
  <2>3. ASSUME l.phase \in {"FIRST_ARM", "SECOND_ARM", "RELEASE_34"}
        PROVE  \E rest \in Seq(Frames) :
                 /\ r.due = <<Ack(l.expected)>> \o rest
                 /\ Owed(After(l.phase), FALSE, r.armed, rest)
    <3>1. ~Flying(l) /\ l.phase \in ToAck
      BY <2>2, <2>3 DEF ToAck, Over
    <3> QED
      BY <2>1, <3>1 DEF Script, Frames
  <2>4. ASSUME l.phase \in {"FIRST_IRQ2", "SECOND_IRQ2", "RELEASE_IRQ200"}
        PROVE  Owed(l.phase, l.half, r.armed, r.due)
    <3>1. ~Flying(l)
      BY <2>2, <2>4 DEF Over
    <3> QED
      BY <2>1, <2>4, <3>1 DEF Script, Over, ToAck, ToAckInPlace
  <2>5. l.phase \notin {"FIRST_IRQ2", "SECOND_IRQ2"}
    BY <2>4 DEF Owed
  <2>6. l.phase \notin {"FIRST_ARM", "SECOND_ARM"}
    <3> SUFFICES ASSUME l.phase \in {"FIRST_ARM", "SECOND_ARM"} PROVE FALSE
      OBVIOUS
    <3>1. PICK rest \in Seq(Frames) : Owed(After(l.phase), FALSE, r.armed, rest)
      BY <2>3
    <3>2. After(l.phase) \in {"FIRST_IRQ2", "SECOND_IRQ2"}
      BY AfterAckIs DEF After
    <3> QED
      BY <3>1, <3>2 DEF Owed
  <2>7. ~(l.phase = "STOP" /\ l.use = "enroll")
    BY <2>1 DEF Script, Owed
  <2>8. l.phase \in Lifting \cup Over
    BY <2>1, <2>2, <2>5, <2>6 DEF AllPhases, First, Second
  <2>9. <<Lift>> \in Seq(Frames) /\ Append(<<>>, Lift) = <<Lift>>
        /\ Lift \in Frames /\ <<>> \in Seq(Frames)
    BY DEF Frames, A0Frames
  <2>10. CASE l.phase = "RELEASE_34"
    <3>1. PICK rest \in Seq(Frames) :
                 /\ r.due = <<Ack(l.expected)>> \o rest
                 /\ Owed(After(l.phase), FALSE, r.armed, rest)
      BY <2>3, <2>10
    <3>2. After(l.phase) = "RELEASE_IRQ200"
      BY <2>10, AfterAckIs DEF After
    <3>3. rest = <<>>
      BY <3>1, <3>2 DEF Owed
    <3>4. Ack(l.expected) \in Frames
      <4>1. l.expected = "34"
        BY <1>1, <2>10, CommandsAre DEF Transport, Over
      <4> QED
        BY <4>1 DEF Frames, A0Frames, Commands
    <3>5. q.due = <<Ack(l.expected)>> \o <<Lift>>
      BY <2>9, <3>1, <3>3, <3>4, ConsIs
    <3>6. Owed(After(l.phase), FALSE, q.armed, <<Lift>>)
      BY <3>2 DEF Owed
    <3>7. \E x \in Seq(A0Frames \cup PlainFrames) :
              /\ q.due = <<Ack(l.expected)>> \o x
              /\ Owed(After(l.phase), FALSE, q.armed, x)
      BY <2>9, <3>5, <3>6 DEF Frames
    <3>8. /\ l.phase \notin Early \cup Taking \cup Retaking \cup Reading \cup Over
          /\ l.phase \notin {"NOT_STARTED", "REARM_GATE", "D4", "AF", "STOP"}
          /\ l.phase \in ToAck /\ l.phase \notin ToAckInPlace
      BY <2>10 DEF Early, Taking, Retaking, Reading, Over, ToAck, ToAckInPlace
    <3>9. Script(l, q)
      BY <2>2, <3>7, <3>8 DEF Script
    <3> QED
      BY <2>7, <2>8, <2>2, <3>9
  <2>11. CASE l.phase = "RELEASE_IRQ200"
    <3>1. q.due = <<Lift>>
      BY <2>4, <2>9, <2>11 DEF Owed
    <3>2. Owed(l.phase, l.half, q.armed, q.due)
      BY <2>11, <3>1 DEF Owed
    <3>3. /\ l.phase \notin Early \cup Taking \cup Retaking \cup Reading \cup Over
          /\ l.phase \notin {"NOT_STARTED", "REARM_GATE", "D4", "AF", "STOP"}
          /\ l.phase \notin ToAck /\ l.phase \notin ToAckInPlace
      BY <2>11 DEF Early, Taking, Retaking, Reading, Over, ToAck, ToAckInPlace
    <3>4. Script(l, q)
      BY <2>2, <3>2, <3>3 DEF Script
    <3> QED
      BY <2>7, <2>8, <2>2, <3>4
  <2>12. CASE l.phase \in Over
    <3>1. /\ l.phase \notin Early \cup Taking \cup Retaking \cup Reading
          /\ l.phase \notin {"NOT_STARTED", "REARM_GATE", "D4", "AF"}
          /\ l.phase \notin ToAck /\ l.phase \notin ToAckInPlace
      BY <2>12 DEF Early, Taking, Retaking, Reading, Over, ToAck, ToAckInPlace
    <3>2. Script(l, q)
      BY <2>2, <2>7, <2>12, <3>1 DEF Script
    <3> QED
      BY <2>7, <2>8, <2>2, <3>2
  <2> QED
    BY <2>8, <2>10, <2>11, <2>12 DEF Lifting
<1>3. ASSUME ~b PROVE e = 0 /\ Clean(l, q)
  <2>1. e = 0 /\ Clean(l, r)
    BY <1>3 DEF Holds
  <2>2. /\ l.phase \notin Early \cup First \cup Second
        /\ l.phase # "FDT_82" /\ l.phase # "REARM_GATE"
    BY <1>2, <2>1 DEF Lifting, Over, Early, First, Second
  <2> QED
    BY <2>1, <2>2 DEF Clean
<1> QED
  BY <1>1, <1>2, <1>3 DEF Holds

(* A frame comes from nowhere, or one is lost.                              *)
LEMMA ErrorHolds ==
  ASSUME NEW l, NEW r, NEW q, NEW e, NEW b, NEW n, Holds(l, r, e, b),
         q.arms = r.arms, q.captures = r.captures, n # 0
  PROVE  Holds(l, q, n, TRUE)
BY SoundReport DEF Holds

LEMMA TuplesAre ==
  ASSUME NEW S, NEW x \in S, NEW y \in S, NEW z \in S
  PROVE  <<x>> \in Seq(S) /\ <<x, y>> \in Seq(S) /\ <<x, y, z>> \in Seq(S)
OBVIOUS

LEMMA JoinIs ==
  ASSUME NEW S, NEW x \in S, NEW y \in S, NEW z \in S
  PROVE  /\ <<x>> \o <<>> = <<x>> /\ <<x>> \o <<y>> = <<x, y>>
         /\ <<x>> \o <<y, z>> = <<x, y, z>>
         /\ \A s \in Seq(S) : <<>> \o s = s
<1>1. <<x>> \in Seq(S) /\ <<y>> \in Seq(S) /\ <<y, z>> \in Seq(S)
  BY TuplesAre
<1>2. <<x>> \o <<>> = <<x>> /\ \A s \in Seq(S) : <<>> \o s = s
  BY <1>1, ConcatEmptySeq
<1>3. <<x>> \o <<y>> = <<x, y>>
  <2> DEFINE u == <<x>> \o <<y>> v == <<x, y>>
  <2>1. /\ <<x>> \o <<y>> \in Seq(S)
        /\ Len(<<x>> \o <<y>>) = Len(<<x>>) + Len(<<y>>)
        /\ \A i \in 1..(Len(<<x>>) + Len(<<y>>)) : (<<x>> \o <<y>>)[i] =
             IF i <= Len(<<x>>) THEN <<x>>[i] ELSE <<y>>[i - Len(<<x>>)]
    BY <1>1, ConcatProperties
  <2>2. u \in Seq(S) /\ Len(u) = 2 /\ u[1] = x /\ u[2] = y
    BY <2>1
  <2>3. v \in Seq(S) /\ Len(v) = 2 /\ v[1] = x /\ v[2] = y
    BY TuplesAre
  <2> HIDE DEF u, v
  <2>4. \A i \in 1..Len(u) : u[i] = v[i]
    BY <2>2, <2>3
  <2>5. u = v
    BY <2>2, <2>3, <2>4, SeqEqual
  <2> QED
    BY <2>5 DEF u, v
<1>4. <<x>> \o <<y, z>> = <<x, y, z>>
  <2> DEFINE u == <<x>> \o <<y, z>> v == <<x, y, z>>
  <2>1. /\ <<x>> \o <<y, z>> \in Seq(S)
        /\ Len(<<x>> \o <<y, z>>) = Len(<<x>>) + Len(<<y, z>>)
        /\ \A i \in 1..(Len(<<x>>) + Len(<<y, z>>)) : (<<x>> \o <<y, z>>)[i] =
             IF i <= Len(<<x>>) THEN <<x>>[i] ELSE <<y, z>>[i - Len(<<x>>)]
    BY <1>1, ConcatProperties
  <2>2. u \in Seq(S) /\ Len(u) = 3 /\ u[1] = x /\ u[2] = y /\ u[3] = z
    BY <2>1
  <2>3. v \in Seq(S) /\ Len(v) = 3 /\ v[1] = x /\ v[2] = y /\ v[3] = z
    BY TuplesAre
  <2> HIDE DEF u, v
  <2>4. \A i \in 1..Len(u) : u[i] = v[i]
    BY <2>2, <2>3
  <2>5. u = v
    BY <2>2, <2>3, <2>4, SeqEqual
  <2> QED
    BY <2>5 DEF u, v
<1> QED
  BY <1>2, <1>3, <1>4

(* What the reader answers to each command.                                 *)
LEMMA RepliesAre ==
  /\ Replies("d4") = {<<Ack("d4")>>} /\ Replies("32") = {<<Ack("32")>>}
  /\ Replies("34") = {<<Ack("34")>>} /\ Replies("af") = {<<Controller>>}
  /\ Replies("36") = {<<Ack("36"), Sample(t, s)>> : t \in BOOLEAN, s \in BOOLEAN}
  /\ Replies("50") = {<<Ack("50"), Nav>>}
  /\ Replies("82") = {<<Ack("82"), Threshold>>}
  /\ reader.armed = "lifted" => Replies("20") = {<<Ack("20"), Plain("whole")>>}
  /\ reader.armed # "lifted" =>
       Replies("20") = {<<Ack("20"), Plain("whole")>>,
                        <<Ack("20"), Plain("half"), Plain("half")>>}
  /\ Replies("22") = {<<Ack("22"), Plain("whole")>>,
                      <<Ack("22"), Plain("half"), Plain("half")>>}
<1>1. Replies("d4") = {<<Ack("d4")>>} /\ Replies("32") = {<<Ack("32")>>}
      /\ Replies("34") = {<<Ack("34")>>} /\ Replies("af") = {<<Controller>>}
  BY DEF Replies
<1>2. Replies("36") = {<<Ack("36"), Sample(t, s)>> : t \in BOOLEAN, s \in BOOLEAN}
  BY DEF Replies
<1>3. Replies("50") = {<<Ack("50"), Nav>>} /\ Replies("82") = {<<Ack("82"), Threshold>>}
  BY DEF Replies
<1>4. /\ reader.armed = "lifted" => Replies("20") = {<<Ack("20"), Plain("whole")>>}
      /\ reader.armed # "lifted" =>
           Replies("20") = {<<Ack("20"), Plain("whole")>>,
                            <<Ack("20"), Plain("half"), Plain("half")>>}
  BY DEF Replies
<1>5. Replies("22") = {<<Ack("22"), Plain("whole")>>,
                       <<Ack("22"), Plain("half"), Plain("half")>>}
  BY DEF Replies
<1> QED
  BY <1>1, <1>2, <1>3, <1>4, <1>5

LEMMA FramesAre ==
  /\ \A c \in Commands : Ack(c) \in Frames
  /\ \A t \in BOOLEAN, s \in BOOLEAN : Sample(t, s) \in Frames
  /\ Controller \in Frames /\ Nav \in Frames /\ Threshold \in Frames
  /\ Plain("whole") \in Frames /\ Plain("half") \in Frames
  /\ Touch \in Frames /\ Stray \in Frames /\ Lift \in Frames
BY DEF Frames, A0Frames, PlainFrames

LEMMA RepliesAreFrames ==
  ASSUME NEW command \in Commands, NEW reply \in Replies(command)
  PROVE  reply \in Seq(Frames)
<1> DEFINE a == Ack(command)
<1>1. /\ a \in Frames /\ Controller \in Frames /\ Nav \in Frames
      /\ Threshold \in Frames
      /\ Plain("whole") \in Frames /\ Plain("half") \in Frames
  BY FramesAre
<1>2. CASE command \in {"d4", "32", "34", "af"}
  <2>1. reply = <<a>> \/ reply = <<Controller>>
    BY <1>2, RepliesAre
  <2> HIDE DEF a
  <2> QED
    BY <1>1, <2>1, TuplesAre
<1>3. CASE command = "36"
  <2>1. PICK t \in BOOLEAN, s \in BOOLEAN : reply = <<a, Sample(t, s)>>
    BY <1>3, RepliesAre
  <2>2. Sample(t, s) \in Frames
    BY FramesAre
  <2> HIDE DEF a
  <2> QED
    BY <1>1, <2>1, <2>2, TuplesAre
<1>4. CASE command \in {"50", "82"}
  <2>1. reply = <<a, Nav>> \/ reply = <<a, Threshold>>
    BY <1>4, RepliesAre
  <2> HIDE DEF a
  <2> QED
    BY <1>1, <2>1, TuplesAre
<1>5. CASE command \in {"20", "22"}
  <2>1. \/ reply = <<a, Plain("whole")>>
        \/ reply = <<a, Plain("half"), Plain("half")>>
    BY <1>5, RepliesAre
  <2> HIDE DEF a
  <2> QED
    BY <1>1, <2>1, TuplesAre
<1> QED
  BY <1>2, <1>3, <1>4, <1>5 DEF Commands

(* The reply to the command of phase p is what p, and then the phase after  *)
(* its ACK, wait for.                                                       *)
LEMMA RepliesFit ==
  ASSUME NEW p \in Sent, NEW reply \in Replies(CommandOf(p)),
         p \in Early \cup Taking \cup Retaking => reader.armed = "nothing",
         p \in Reading => reader.armed = "lifted"
  PROVE  /\ p = "D4" => reply = <<Ack("d4")>>
         /\ p = "AF" => reply = <<Controller>>
         /\ p \in ToAck \cup ToAckInPlace =>
              \E rest \in Seq(Frames) :
                /\ reply = <<Ack(CommandOf(p))>> \o rest
                /\ Owed(After(p), FALSE, ArmedBy(CommandOf(p)), rest)
<1>0. /\ Ack("36") \in Frames /\ Ack("50") \in Frames /\ Ack("82") \in Frames
      /\ Ack("20") \in Frames /\ Ack("22") \in Frames /\ Ack("32") \in Frames
      /\ Ack("34") \in Frames
  BY FramesAre DEF Commands
<1>1. CASE p \in {"D4", "AF"}
  BY <1>1, CommandsAre, RepliesAre DEF ToAck, ToAckInPlace
<1>2. CASE p \in {"FDT36_1", "FDT36_2", "FDT36_3"}
  <2>1. CommandOf(p) = "36"
        /\ After(p) \in {"FDT_IRQ100_1", "FDT_IRQ100_2", "FDT_IRQ100_3"}
    BY <1>2, CommandsAre, AfterAckIs DEF After
  <2>2. PICK t \in BOOLEAN, s \in BOOLEAN : reply = <<Ack("36"), Sample(t, s)>>
    BY <2>1, RepliesAre
  <2>3. reply = <<Ack("36")>> \o <<Sample(t, s)>>
        /\ <<Sample(t, s)>> \in Seq(Frames)
    BY <1>0, <2>2, FramesAre, JoinIs
  <2>4. Owed(After(p), FALSE, ArmedBy("36"), <<Sample(t, s)>>)
    BY <2>1 DEF Owed
  <2> QED
    BY <1>2, <2>1, <2>3, <2>4
<1>3. CASE p \in {"FDT_NAV_1", "RELEASE_50"}
  <2>1. CommandOf(p) = "50" /\ After(p) \in {"FDT_NAV_1", "RELEASE_NAV"}
    BY <1>3, CommandsAre, AfterAckIs DEF After
  <2>2. reply = <<Ack("50")>> \o <<Nav>> /\ <<Nav>> \in Seq(Frames)
    BY <1>0, <2>1, RepliesAre, FramesAre, JoinIs
  <2>3. Owed(After(p), FALSE, ArmedBy("50"), <<Nav>>)
    BY <2>1 DEF Owed
  <2> QED
    BY <1>3, <2>1, <2>2, <2>3
<1>4. CASE p = "FDT_82"
  <2>1. CommandOf(p) = "82" /\ After(p) = "FDT_82"
    BY <1>4, CommandsAre, AfterAckIs DEF After
  <2>2. reply = <<Ack("82")>> \o <<Threshold>> /\ <<Threshold>> \in Seq(Frames)
    BY <1>0, <2>1, RepliesAre, FramesAre, JoinIs
  <2>3. Owed(After(p), FALSE, ArmedBy("82"), <<Threshold>>)
    BY <2>1 DEF Owed
  <2> QED
    BY <1>4, <2>1, <2>2, <2>3
<1>5. CASE p = "RELEASE_20"
  <2>1. CommandOf(p) = "20" /\ After(p) = "RELEASE_B0" /\ reader.armed = "lifted"
    BY <1>5, CommandsAre, AfterAckIs DEF After, Reading
  <2>2. reply = <<Ack("20")>> \o <<Plain("whole")>>
        /\ <<Plain("whole")>> \in Seq(Frames)
    BY <1>0, <2>1, RepliesAre, FramesAre, JoinIs
  <2>3. Owed(After(p), FALSE, ArmedBy("20"), <<Plain("whole")>>)
    BY <2>1 DEF Owed
  <2> QED
    BY <1>5, <2>1, <2>2, <2>3
<1>6. CASE p \in {"FDT_20", "FIRST_22", "SECOND_22"}
  <2>1. /\ CommandOf(p) \in {"20", "22"} /\ Ack(CommandOf(p)) \in Frames
        /\ After(p) \in {"FDT_B0", "FIRST_B0", "SECOND_B0"}
        /\ reader.armed = "nothing"
    BY <1>0, <1>6, CommandsAre, AfterAckIs DEF After, Early, Taking, Retaking
  <2> DEFINE c == CommandOf(p)
             one == <<Plain("whole")>> two == <<Plain("half"), Plain("half")>>
  <2>2. reply \in {<<Ack(c), Plain("whole")>>,
                   <<Ack(c), Plain("half"), Plain("half")>>}
    BY <2>1, RepliesAre
  <2>3. one \in Seq(Frames) /\ two \in Seq(Frames)
    BY FramesAre
  <2>4. Owed(After(p), FALSE, ArmedBy(c), one)
        /\ Owed(After(p), FALSE, ArmedBy(c), two)
    BY <2>1 DEF Owed
  <2>5. reply = <<Ack(c)>> \o one \/ reply = <<Ack(c)>> \o two
    BY <2>1, <2>2, FramesAre, JoinIs
  <2> HIDE DEF c, one, two
  <2>6. \E rest \in Seq(Frames) :
          reply = <<Ack(c)>> \o rest /\ Owed(After(p), FALSE, ArmedBy(c), rest)
    BY <2>3, <2>4, <2>5
  <2> QED
    BY <1>6, <2>6 DEF c
<1>7. CASE p \in {"FIRST_ARM", "SECOND_ARM"}
  <2>1. CommandOf(p) = "32" /\ After(p) \in {"FIRST_IRQ2", "SECOND_IRQ2"}
        /\ ArmedBy("32") = "touch"
    BY <1>7, CommandsAre, AfterAckIs DEF After, ArmedBy
  <2>2. reply = <<Ack("32")>> \o <<>> /\ <<>> \in Seq(Frames)
    BY <1>0, <2>1, RepliesAre, JoinIs
  <2>3. Owed(After(p), FALSE, ArmedBy("32"), <<>>)
    BY <2>1 DEF Owed
  <2> QED
    BY <1>7, <2>1, <2>2, <2>3
<1>8. CASE p = "RELEASE_34"
  <2>1. CommandOf(p) = "34" /\ After(p) = "RELEASE_IRQ200"
        /\ ArmedBy("34") = "lift"
    BY <1>8, CommandsAre, AfterAckIs DEF After, ArmedBy
  <2>2. reply = <<Ack("34")>> \o <<>> /\ <<>> \in Seq(Frames)
    BY <1>0, <2>1, RepliesAre, JoinIs
  <2>3. Owed(After(p), FALSE, ArmedBy("34"), <<>>)
    BY <2>1 DEF Owed
  <2> QED
    BY <1>8, <2>1, <2>2, <2>3
<1> QED
  BY <1>1, <1>2, <1>3, <1>4, <1>5, <1>6, <1>7, <1>8
     DEF Sent, ToAck, ToAckInPlace

-----------------------------------------------------------------------------
(* The reader takes a command: it is armed, reads or answers, and what was  *)
(* due before is over.                                                      *)

Taken(reply, q) ==
  /\ q.due = reader.due \o reply /\ q.armed = ArmedBy(life.expected)
  /\ q.arms = CASE life.expected = "32" -> reader.arms + 1
                [] life.expected = "22" -> 0
                [] OTHER -> reader.arms
  /\ q.captures = reader.captures + IF life.expected = "22" THEN 1 ELSE 0
  /\ q.strays = reader.strays

LEMMA FlyingIs ==
  ASSUME IInv, life.at = "flying"
  PROVE  /\ life \in LifeType /\ Transport(life) /\ Contact(life)
         /\ Counts(life, reader) /\ Bounds(life, reader) /\ Flying(life)
         /\ life.expected \in Commands
         /\ life.phase # "NOT_STARTED"
         /\ life.phase \notin Over => life.expected = CommandOf(life.phase)
         /\ life.phase = "STOP" => life.use # "enroll"
<1>1. Sound(life, reader) /\ Flying(life)
  BY DEF IInv, Holds, Flying
<1>2. /\ life \in LifeType /\ Transport(life) /\ Contact(life)
      /\ Counts(life, reader) /\ Bounds(life, reader)
  BY <1>1 DEF Sound, Counts
<1>3. life.expected \in Commands
  <2>1. life.expected \in Commands \cup {"none"}
    BY <1>2 DEF LifeType
  <2> QED
    BY <1>1, <1>2, <2>1 DEF Bounds
<1> QED
  BY <1>1, <1>2, <1>3 DEF Transport

LEMMA TakesCounts ==
  ASSUME IInv, life.at = "flying", NEW reply, NEW q, Taken(reply, q),
         reader.arms \in Nat, reader.captures \in Nat
  PROVE  Counts([life EXCEPT !.at = "taken"], q)
<1> DEFINE k == [life EXCEPT !.at = "taken"] p == life.phase
           x == life.expected
<1>1. /\ life \in LifeType /\ Counts(life, reader) /\ Bounds(life, reader)
      /\ Flying(life) /\ x \in Commands /\ p # "NOT_STARTED"
      /\ p \notin Over => x = CommandOf(p)
      /\ p = "STOP" /\ life.use = "login" => x = "50"
  BY FlyingIs DEF Transport
<1>2. /\ k.phase = p /\ k.use = life.use /\ k.expected = x
      /\ k.downs = life.downs /\ k.asked = life.asked /\ k.irq80 = life.irq80
      /\ k.at = "taken"
  BY <1>1 DEF LifeType
<1>3. /\ x = "32" => q.arms = reader.arms + 1
      /\ x = "22" => q.arms = 0
      /\ x \notin {"32", "22"} => q.arms = reader.arms
      /\ x = "22" => q.captures = reader.captures + 1
      /\ x # "22" => q.captures = reader.captures
  BY DEF Taken
<1>4. ~Flying(k) /\ life.downs \in Nat /\ life.asked \in Nat /\ life.irq80 \in Nat
  BY <1>1, <1>2 DEF Flying, LifeType
<1> HIDE DEF k
<1>5. Bounds(k, q)
  BY <1>1, <1>2, <1>3, <1>4, LimitAssumption DEF Bounds, One
<1>6. p \in Early \cup Lifting \cup Reading \cup {"REARM_GATE"} =>
        x \notin {"32", "22"}
  BY <1>1, CommandsAre DEF Early, Lifting, Reading, Over
<1>7. /\ p \in First \cup Second => x = "32"
      /\ p \in Taking \cup Retaking => x = "22"
  BY <1>1, CommandsAre DEF First, Second, Taking, Retaking, Over
<1>8. p \in Early \cup Lifting \cup Reading \cup {"REARM_GATE"} => q.arms = 0
  BY <1>1, <1>3, <1>6 DEF Counts
<1>9. p \in First => q.arms = life.irq80 + 1
  BY <1>1, <1>3, <1>4, <1>7 DEF Counts, One
<1>10. p \in Second => q.arms = 1
  BY <1>1, <1>3, <1>4, <1>7 DEF Counts, One
<1>11. p \in Taking \cup Retaking => q.arms = 0
  BY <1>3, <1>7
<1>12. p = "STOP" /\ life.use = "login" => q.arms = 0
  BY <1>1, <1>3 DEF Counts
<1>13. One(Flying(k)) = 0
  BY <1>4 DEF One
<1>14. life.irq80 + 1 \in Nat /\ (p \in First \cup Second => q.arms \in Nat)
  BY <1>4, <1>9, <1>10
<1>15. Counts(k, q)
  BY <1>2, <1>4, <1>5, <1>8, <1>9, <1>10, <1>11, <1>12, <1>13, <1>14 DEF Counts
<1> QED
  BY <1>15 DEF k

LEMMA TakesScript ==
  ASSUME IInv, life.at = "flying", NEW reply \in Replies(life.expected), NEW q,
         Taken(reply, q), errors = 0
  PROVE  /\ Script([life EXCEPT !.at = "taken"], q)
         /\ life.phase \notin Over =>
              q.due = reply /\ reader.due = <<>> /\ life.phase \in Sent
<1> DEFINE k == [life EXCEPT !.at = "taken"] p == life.phase
           x == life.expected
<1>1. /\ life \in LifeType /\ Flying(life) /\ x \in Commands /\ p # "NOT_STARTED"
      /\ p \notin Over => x = CommandOf(p)
      /\ p = "STOP" => life.use # "enroll"
  BY FlyingIs
<1>2. /\ k.phase = p /\ k.use = life.use /\ k.expected = x /\ k.ack = life.ack
      /\ k.half = life.half /\ k.at = "taken"
  BY <1>1 DEF LifeType
<1>3. Script(life, reader) /\ ~Flying(k)
  BY <1>2 DEF IInv, Holds, Flying
<1>4. p = "STOP" => life.use # "login"
  BY <1>1, <1>3 DEF Script
<1>5. reply \in Seq(Frames)
  BY <1>1, RepliesAreFrames
<1>6. CASE p \in Over
  <2>1. /\ p \notin Early \cup Taking \cup Retaking \cup Reading
        /\ p \notin {"NOT_STARTED", "REARM_GATE", "D4", "AF"}
        /\ p \notin ToAck /\ p \notin ToAckInPlace
    BY <1>6 DEF Early, Taking, Retaking, Reading, Over, ToAck, ToAckInPlace
  <2> HIDE DEF k
  <2>2. Script(k, q)
    BY <1>1, <1>2, <1>3, <1>4, <1>6, <2>1 DEF Script
  <2> QED
    BY <1>6, <2>2 DEF k
<1>7. CASE p \notin Over
  <2>1. /\ p \in Sent /\ ~life.ack /\ reader.due = <<>>
        /\ p \in Early \cup Taking \cup Retaking => reader.armed = "nothing"
        /\ p \in Reading \cup {"REARM_GATE"} => reader.armed = "lifted"
    BY <1>1, <1>3, <1>7 DEF Script
  <2>2. q.due = reply
    <3>1. <<>> \o reply = reply
      BY <1>5, ConcatEmptySeq
    <3> QED
      BY <2>1, <3>1 DEF Taken
  <2>3. q.armed = ArmedBy(x) /\ x = CommandOf(p)
    BY <1>1, <1>7 DEF Taken
  <2>4. /\ p \in Early \cup Taking \cup Retaking => q.armed = "nothing"
        /\ p \in Reading \cup {"REARM_GATE"} => q.armed = "lifted"
    <3>1. p \in Early \cup Taking \cup Retaking \cup Reading \cup {"REARM_GATE"} =>
            x \notin {"32", "34"}
      BY <1>1, <1>7, CommandsAre
         DEF Early, Taking, Retaking, Reading
    <3> QED
      BY <2>1, <2>3, <3>1 DEF ArmedBy
  <2>5. /\ p = "D4" => reply = <<Ack("d4")>>
        /\ p = "AF" => reply = <<Controller>>
        /\ p \in ToAck \cup ToAckInPlace =>
             \E rest \in Seq(Frames) :
               /\ reply = <<Ack(x)>> \o rest
               /\ Owed(After(p), FALSE, ArmedBy(x), rest)
    BY <2>1, <2>3, RepliesFit
  <2>6. /\ p \notin {"NOT_STARTED", "REARM_GATE"}
        /\ p \in {"D4", "AF"} \cup ToAck \cup ToAckInPlace
        /\ p \in ToAckInPlace => ~k.ack
    BY <1>2, <2>1 DEF Sent, ToAck, ToAckInPlace
  <2>7. p \notin Over /\ p # "STOP"
    BY <1>7 DEF Over
  <2> HIDE DEF k
  <2>8. Script(k, q)
    BY <1>2, <1>3, <2>2, <2>3, <2>4, <2>5, <2>6, <2>7 DEF Script, Frames
  <2> QED
    BY <2>1, <2>2, <2>8 DEF k
<1> QED
  BY <1>6, <1>7

LEMMA TakesClean ==
  ASSUME IInv, life.at = "flying", NEW reply \in Replies(life.expected), NEW q,
         Taken(reply, q), ~blame, \A i \in 1..Len(reply) : ~Unusable(reply[i])
  PROVE  Clean([life EXCEPT !.at = "taken"], q)
<1> DEFINE k == [life EXCEPT !.at = "taken"] p == life.phase
<1>1. /\ life \in LifeType /\ p # "NOT_STARTED"
      /\ p \notin Over => life.expected = CommandOf(p)
  BY FlyingIs
<1>2. /\ k.phase = p /\ k.use = life.use /\ k.samples = life.samples
      /\ k.steady = life.steady /\ k.irq80 = life.irq80
      /\ life.samples \in Nat /\ life.irq80 \in Nat
  BY <1>1 DEF LifeType
<1>3. Clean(life, reader) /\ errors = 0
  BY DEF IInv, Holds
<1>4. p \notin Over => q.due = reply /\ reader.due = <<>>
  BY <1>3, TakesScript
<1>5. q.strays = reader.strays
  BY DEF Taken
<1> HIDE DEF k
<1>6. ASSUME life.samples > 0, p \in Early, NEW i \in 1..Len(q.due),
             q.due[i].kind = "irq0100"
      PROVE  ~q.due[i].of.touched /\ q.due[i].of.steady
  <2>1. q.due = reply
    BY <1>4, <1>6 DEF Early, Over
  <2> QED
    BY <1>6, <2>1 DEF Unusable
<1>7. ASSUME p \in First \cup Second
      PROVE  ~In(Touch, q.due) /\ ~In(Stray, q.due)
             /\ ~In(Touch, reader.due) /\ ~In(Stray, reader.due)
  <2>1. p \notin Over /\ life.expected = "32"
    BY <1>1, <1>7, CommandsAre DEF First, Second, Over
  <2>2. q.due = <<Ack("32")>> /\ reader.due = <<>>
    BY <1>4, <2>1, RepliesAre
  <2>3. Touch # Ack("32") /\ Stray # Ack("32")
    BY DEF Touch, Stray, Event, Ack
  <2> QED
    BY <2>2, <2>3, InIs
<1>8. p # "REARM_GATE"
  BY <1>3 DEF Clean
<1>9. p \in First => IF In(Touch, q.due) THEN q.strays = 0
                    ELSE q.strays = life.irq80 + One(In(Stray, q.due))
  <2> SUFFICES ASSUME p \in First
               PROVE  q.strays = life.irq80 + One(In(Stray, q.due))
    BY <1>7
  <2>1. reader.strays = life.irq80 + One(In(Stray, reader.due))
    BY <1>3, <1>7 DEF Clean
  <2>2. One(In(Stray, reader.due)) = 0 /\ One(In(Stray, q.due)) = 0
    BY <1>7 DEF One
  <2> QED
    BY <1>5, <2>1, <2>2
<1>10. /\ p # "TERMINAL" /\ (p = "FDT_82" => life.steady)
       /\ q.strays <= Irq80Limit
       /\ p \notin First /\ (p = "STOP" => life.use = "login") => q.strays = 0
  BY <1>3, <1>5 DEF Clean
<1>11. p \in Second => ~In(Stray, q.due)
  BY <1>7
<1>12. life.samples > 0 /\ p \in Early =>
         \A i \in 1..Len(q.due) :
           q.due[i].kind = "irq0100" => ~q.due[i].of.touched /\ q.due[i].of.steady
  BY <1>6
<1>13. Clean(k, q)
  BY <1>2, <1>8, <1>9, <1>10, <1>11, <1>12 DEF Clean
<1> QED
  BY <1>13 DEF k

LEMMA TakesInv == IInv /\ ReaderTakes => IInv' /\ Tells(life, life')
<1> SUFFICES ASSUME IInv, ReaderTakes PROVE IInv' /\ Tells(life, life')
  OBVIOUS
<1> DEFINE x == life.expected
<1>1. PICK reply \in Replies(x) :
        /\ life.at = "flying" /\ life' = [life EXCEPT !.at = "taken"]
        /\ reader' = [reader EXCEPT
                        !.due = @ \o reply,
                        !.armed = ArmedBy(x),
                        !.arms = CASE x = "32" -> reader.arms + 1
                                   [] x = "22" -> 0
                                   [] OTHER -> @,
                        !.captures = @ + IF x = "22" THEN 1 ELSE 0]
        /\ blame' = (blame \/ \E i \in 1..Len(reply) : Unusable(reply[i]))
        /\ errors' = errors
  BY DEF ReaderTakes
<1>2. ReaderType(reader) /\ blame \in BOOLEAN /\ errors \in 0..MaxErrors
  BY DEF IInv
<1>3. Taken(reply, reader')
  BY <1>1, <1>2 DEF Taken, ReaderType
<1>4. /\ reader' = [armed |-> reader'.armed, due |-> reader'.due,
                    arms |-> reader'.arms, strays |-> reader'.strays,
                    captures |-> reader'.captures]
  BY <1>1, <1>2 DEF ReaderType
<1>5. x \in Commands /\ life \in LifeType
  BY <1>1, FlyingIs
<1>6. ReaderType(reader')
  <2>1. reader'.due \in Seq(Frames)
    <3>1. reply \in Seq(Frames) /\ reader.due \in Seq(Frames)
      BY <1>2, <1>5, RepliesAreFrames DEF ReaderType, Frames
    <3>2. reader.due \o reply \in Seq(Frames)
      BY <3>1, ConcatProperties
    <3> QED
      BY <1>3, <3>2 DEF Taken
  <2>2. reader'.armed \in {"nothing", "touch", "lift", "lifted"}
    <3>1. ArmedBy(x) \in {"touch", "lift", reader.armed}
      BY DEF ArmedBy
    <3> QED
      BY <1>2, <1>3, <3>1 DEF Taken, ReaderType
  <2>3. reader'.arms \in Nat /\ reader'.strays \in Nat /\ reader'.captures \in Nat
    <3>1. reader.arms \in Nat /\ reader.strays \in Nat /\ reader.captures \in Nat
      BY <1>2 DEF ReaderType
    <3>2. reader'.arms \in {reader.arms + 1, 0, reader.arms}
      BY <1>3 DEF Taken
    <3>3. reader'.captures \in {reader.captures + 1, reader.captures + 0}
      BY <1>3 DEF Taken
    <3>4. reader'.strays = reader.strays
      BY <1>3 DEF Taken
    <3> QED
      BY <3>1, <3>2, <3>3, <3>4
  <2> QED
    BY <1>4, <2>1, <2>2, <2>3 DEF ReaderType, Frames
<1>7. blame' \in BOOLEAN
  BY <1>1
<1>8. Sound(life', reader')
  <2>1. Counts(life', reader')
    BY <1>1, <1>2, <1>3, TakesCounts DEF ReaderType
  <2>2. life' \in LifeType
    BY <1>1, <1>5 DEF LifeType
  <2>3. /\ Transport(life) /\ life.phase # "NOT_STARTED"
        /\ life.phase = "STOP" => life.use # "enroll"
    BY <1>1, FlyingIs
  <2>4. Transport(life')
    BY <1>1, <1>5, <2>3 DEF Transport, LifeType
  <2>5. Contact(life')
    <3>1. Contact(life)
      BY <1>1, FlyingIs
    <3>2. /\ life'.phase = life.phase /\ life'.samples = life.samples
          /\ life'.irq80 = life.irq80 /\ life'.authorized = life.authorized
          /\ life'.rearming = life.rearming /\ life'.told = life.told
          /\ life'.await = life.await /\ life'.rearmed = life.rearmed
          /\ life'.asked = life.asked /\ life'.downs = life.downs
          /\ life'.use = life.use /\ life'.down = life.down
      BY <1>1, <1>5 DEF LifeType
    <3>3. Gated(life') <=> Gated(life)
      BY <3>2 DEF Gated
    <3> QED
      BY <3>1, <3>2, <3>3 DEF Contact
  <2> QED
    BY <2>1, <2>2, <2>4, <2>5 DEF Sound
<1>9. errors' = 0 => Script(life', reader')
  BY <1>1, <1>3, TakesScript
<1>10. ~blame' => errors' = 0 /\ Clean(life', reader')
  <2> SUFFICES ASSUME ~blame' PROVE errors' = 0 /\ Clean(life', reader')
    OBVIOUS
  <2>1. ~blame /\ \A i \in 1..Len(reply) : ~Unusable(reply[i])
    BY <1>1
  <2>2. errors = 0
    BY <2>1 DEF IInv, Holds
  <2> QED
    BY <1>1, <1>3, <2>1, <2>2, TakesClean
<1>11. IInv'
  BY <1>1, <1>2, <1>6, <1>7, <1>8, <1>9, <1>10 DEF IInv, Holds
<1>12. Tells(life, life')
  BY <1>1, <1>5 DEF Tells, LifeType
<1> QED
  BY <1>11, <1>12

-----------------------------------------------------------------------------
(* One step of the main loop, of the context, of the reader or of the       *)
(* finger.                                                                  *)

LEMMA StaysTyped ==
  ASSUME NEW r, NEW q, ReaderType(r),
         q = [r EXCEPT !.due = q.due, !.armed = q.armed, !.strays = q.strays],
         q.due \in Seq(Frames), q.strays \in Nat,
         q.armed \in {"nothing", "touch", "lift", "lifted"}
  PROVE  ReaderType(q)
BY DEF ReaderType, Frames

LEMMA LoopInv ==
  IInv /\ (Start \/ OutCompletes \/ AuthorizeLogin \/ VerifyAgain)
    => IInv' /\ Tells(life, life')
<1> SUFFICES ASSUME IInv, Start \/ OutCompletes \/ AuthorizeLogin \/ VerifyAgain
             PROVE  IInv' /\ Tells(life, life')
  OBVIOUS
<1>1. /\ Holds(life, reader, errors, blame) /\ ReaderType(reader)
      /\ blame \in BOOLEAN /\ errors \in 0..MaxErrors
      /\ reader.arms \in Nat /\ reader.captures \in Nat
  BY DEF IInv, ReaderType
<1>2. reader' = reader /\ blame' = blame /\ errors' = errors
  BY DEF Start, OutCompletes, AuthorizeLogin, VerifyAgain
<1>3. Holds(life', reader, errors, blame) /\ Tells(life, life')
  <2>1. CASE Start
    BY <1>1, <2>1, StartHolds DEF Start
  <2>2. CASE OutCompletes
    BY <1>1, <2>2, CompleteHolds DEF OutCompletes
  <2>3. CASE AuthorizeLogin
    BY <1>1, <2>3, AuthorizeHolds DEF AuthorizeLogin
  <2>4. CASE VerifyAgain
    BY <1>1, <2>4, NextLoginHolds DEF VerifyAgain
  <2> QED
    BY <2>1, <2>2, <2>3, <2>4
<1> QED
  BY <1>1, <1>2, <1>3 DEF IInv

LEMMA FailingInv ==
  IInv /\ (OutFails \/ Fence \/ Timeout) => IInv' /\ Tells(life, life')
<1> SUFFICES ASSUME IInv, OutFails \/ Fence \/ Timeout
             PROVE  IInv' /\ Tells(life, life')
  OBVIOUS
<1>1. /\ Holds(life, reader, errors, blame) /\ ReaderType(reader)
      /\ errors \in 0..MaxErrors
      /\ reader.arms \in Nat /\ reader.captures \in Nat
  BY DEF IInv, ReaderType
<1>2. life \in LifeType /\ Bounds(life, reader)
  BY <1>1 DEF Holds, Sound, Counts
<1>3. reader' = reader /\ blame' = TRUE
  BY DEF OutFails, Fence, Timeout
<1>4. errors' \in 0..MaxErrors
  BY <1>1, BoundAssumption DEF OutFails, Fence, Timeout
<1>5. Holds(life', reader, errors', TRUE) /\ Tells(life, life')
  <2>1. CASE OutFails
    BY <1>1, <2>1, OutFailedHolds DEF OutFails
  <2>2. CASE Fence
    BY <1>1, <2>2, FencedHolds DEF Fence
  <2>3. CASE Timeout
    <3>1. life.phase # "TERMINAL" /\ life' = Fail(life) /\ errors' = errors
      BY <2>3 DEF Timeout
    <3>2. /\ Holds(Fail(life), reader, errors, TRUE)
          /\ Fail(life).told = life.told /\ Fail(life).downs = life.downs
          /\ Fail(life).asked = life.asked /\ Fail(life).fenced
      BY <1>2, <3>1, FailHolds
    <3> QED
      BY <3>1, <3>2 DEF Tells
  <2> QED
    BY <2>1, <2>2, <2>3
<1> QED
  BY <1>1, <1>3, <1>4, <1>5 DEF IInv

LEMMA AwaitInv == IInv /\ AwaitFinger => IInv' /\ Tells(life, life')
<1> SUFFICES ASSUME IInv, AwaitFinger PROVE IInv' /\ Tells(life, life')
  OBVIOUS
<1>1. /\ Holds(life, reader, errors, blame) /\ ReaderType(reader)
      /\ blame \in BOOLEAN /\ errors \in 0..MaxErrors
      /\ reader.captures \in Nat
  BY DEF IInv, ReaderType
<1>2. /\ life.phase = "REARM_GATE" /\ ~life.await /\ ~life.fenced
      /\ life' = SetFrameworkAwait(life)
      /\ reader' = reader /\ blame' = blame /\ errors' = errors
  BY DEF AwaitFinger
<1>3. /\ life \in LifeType /\ Transport(life) /\ Contact(life)
      /\ Counts(life, reader) /\ Bounds(life, reader)
  BY <1>1 DEF Holds, Sound, Counts
<1>4. /\ life.use = "two" /\ life.told = "up" /\ life.downs = 1
      /\ life.asked = 1 /\ ~life.rearmed /\ life.down
  BY <1>2, <1>3 DEF Contact
<1>5. ~life.half /\ life.owned /\ life.expected = "50"
      /\ (life.out <=> life.at # "idle")
  BY <1>2, <1>3, CommandsAre DEF Transport, Over
<1>6. ~life.rearming
  BY <1>2, <1>3 DEF Contact, Over
<1>7. reader.arms = 0
  BY <1>2, <1>3 DEF Counts
<1>8. reader.captures <= 1
  <2>1. reader.captures + One(Flying(life) /\ life.expected = "22") <= 1
    BY <1>3, <1>4 DEF Bounds
  <2>2. One(Flying(life) /\ life.expected = "22") = 0
    BY <1>5 DEF One
  <2> QED
    BY <1>1, <2>1, <2>2
<1>9. errors = 0 => reader.due = <<>> /\ reader.armed = "lifted"
  <2> SUFFICES ASSUME errors = 0
               PROVE  reader.due = <<>> /\ reader.armed = "lifted"
    OBVIOUS
  <2>1. Script(life, reader)
    BY <1>1 DEF Holds
  <2>2. ~Flying(life)
    BY <1>2, <2>1 DEF Script, Sent, ToAck, ToAckInPlace, Over
  <2> QED
    BY <1>2, <2>1, <2>2 DEF Script
<1>10. ~blame => errors = 0 /\ ~life.out /\ reader.strays = 0
  BY <1>1, <1>2, <1>5 DEF Holds, Clean, First
<1>11. /\ Holds(SetFrameworkAwait(life), reader, errors, blame)
       /\ SetFrameworkAwait(life).told = "up"
       /\ SetFrameworkAwait(life).downs = 1
       /\ SetFrameworkAwait(life).asked = 2
  BY <1>1, <1>2, <1>3, <1>4, <1>5, <1>6, <1>7, <1>8, <1>9, <1>10, AwaitHolds
<1>12. IInv'
  BY <1>1, <1>2, <1>11 DEF IInv
<1>13. Tells(life, life')
  BY <1>2, <1>4, <1>11 DEF Tells
<1> QED
  BY <1>12, <1>13

LEMMA ReceiveInv == IInv /\ Receive => IInv' /\ Tells(life, life')
<1> SUFFICES ASSUME IInv, Receive PROVE IInv' /\ Tells(life, life')
  OBVIOUS
<1> DEFINE f == Head(reader.due)
<1>1. /\ Holds(life, reader, errors, blame) /\ ReaderType(reader)
      /\ blame \in BOOLEAN /\ errors \in 0..MaxErrors
  BY DEF IInv
<1>2. PICK answer \in {"ok", "fence", "refuse", "await"} :
        /\ life' = IF f \in PlainFrames THEN HandlePlaintext(life, f, answer)
                   ELSE HandleA0(life, f, answer)
        /\ answer = "await" => life.phase = "RELEASE_NAV" /\ life.use = "two"
        /\ blame' = \/ blame
                    \/ answer \in {"fence", "refuse"}
                    \/ life.at # "idle" /\ ~MayOvertake(f)
                    \/ Gated(life) /\ f \in {Touch, Stray}
  BY DEF Receive
<1>3. /\ life.phase \notin Over \cup {"NOT_STARTED"} /\ reader.due # <<>>
      /\ reader' = [reader EXCEPT !.due = Tail(reader.due)]
      /\ errors' = errors
  BY DEF Receive, NeedsReceive, Over
<1>4. blame' \in BOOLEAN
  BY <1>1, <1>2, Zenon
<1>5. ~blame' => ~blame /\ Orderly(life, reader, f, answer)
  <2> SUFFICES ASSUME ~blame' PROVE ~blame /\ Orderly(life, reader, f, answer)
    OBVIOUS
  <2>1. /\ ~blame /\ answer \notin {"fence", "refuse"}
        /\ life.at # "idle" => MayOvertake(f)
        /\ ~(Gated(life) /\ f \in {Touch, Stray})
    BY <1>2
  <2> QED
    BY <2>1 DEF Orderly, MayOvertake
<1>6. Heard(life, reader, reader', f, answer, errors, blame')
  BY <1>1, <1>2, <1>3, <1>5, HeardIs
<1>7. Holds(life', reader', errors, blame') /\ Tells(life, life')
  <2>1. CASE f \in PlainFrames
    BY <1>2, <1>4, <1>6, <2>1, PlainHolds
  <2>2. CASE f \notin PlainFrames
    BY <1>2, <1>4, <1>6, <2>2, A0Holds
  <2> QED
    BY <2>1, <2>2
<1>8. ReaderType(reader')
  <2>1. reader.due \in Seq(Frames)
    BY <1>1 DEF ReaderType, Frames
  <2>2. Tail(reader.due) \in Seq(Frames)
    BY <1>3, <2>1, HeadTailProperties
  <2> QED
    BY <1>1, <1>3, <2>2 DEF ReaderType, Frames
<1> QED
  BY <1>1, <1>3, <1>4, <1>7, <1>8 DEF IInv

LEMMA ReportInv ==
  IInv /\ (FingerDown \/ FingerUp \/ StrayEvent) => IInv' /\ Tells(life, life')
<1> SUFFICES ASSUME IInv, FingerDown \/ FingerUp \/ StrayEvent
             PROVE  IInv' /\ Tells(life, life')
  OBVIOUS
<1>1. /\ Holds(life, reader, errors, blame) /\ ReaderType(reader)
      /\ blame \in BOOLEAN /\ errors \in 0..MaxErrors
  BY DEF IInv
<1>2. life' = life /\ errors' = errors
  BY DEF FingerDown, FingerUp, StrayEvent, ReaderReports
<1>3. Tells(life, life')
  BY <1>2 DEF Tells
<1>4. Touch # Lift /\ Stray # Lift /\ Touch # Stray
  BY DEF Touch, Lift, Stray, Event
<1>5. reader.due \in Seq(Frames) /\ reader.strays \in Nat
  BY <1>1 DEF ReaderType, Frames
<1>6. \A event \in Frames : Append(reader.due, event) \in Seq(Frames)
  BY <1>5, AppendProperties
<1>7. CASE FingerDown
  <2>1. /\ reader.armed = "touch" /\ blame' = blame
        /\ reader'.due = Append(reader.due, Touch)
        /\ reader'.armed = "nothing" /\ reader'.strays = 0
        /\ reader'.arms = reader.arms /\ reader'.captures = reader.captures
    BY <1>1, <1>4, <1>7 DEF FingerDown, ReaderReports, ReaderType
  <2>2. Holds(life, reader', errors, blame)
    BY <1>1, <2>1, TouchReported
  <2>3. ReaderType(reader')
    <3>1. reader' = [reader EXCEPT !.due = reader'.due,
                       !.armed = reader'.armed, !.strays = reader'.strays]
      BY <1>1, <1>7 DEF FingerDown, ReaderReports, ReaderType
    <3>2. reader'.due \in Seq(Frames) /\ reader'.strays \in Nat
          /\ reader'.armed \in {"nothing", "touch", "lift", "lifted"}
      BY <1>5, <1>6, <2>1, FramesAre
    <3> QED
      BY <1>1, <3>1, <3>2, StaysTyped
  <2> QED
    BY <1>1, <1>2, <1>3, <2>1, <2>2, <2>3 DEF IInv
<1>8. CASE FingerUp
  <2>1. /\ reader.armed = "lift" /\ blame' = blame
        /\ reader'.due = Append(reader.due, Lift)
        /\ reader'.armed = "lifted" /\ reader'.strays = reader.strays
        /\ reader'.arms = reader.arms /\ reader'.captures = reader.captures
    BY <1>1, <1>4, <1>8 DEF FingerUp, ReaderReports, ReaderType
  <2>2. Holds(life, reader', errors, blame)
    BY <1>1, <2>1, LiftReported
  <2>3. ReaderType(reader')
    <3>1. reader' = [reader EXCEPT !.due = reader'.due,
                       !.armed = reader'.armed, !.strays = reader'.strays]
      BY <1>1, <1>8 DEF FingerUp, ReaderReports, ReaderType
    <3>2. reader'.due \in Seq(Frames) /\ reader'.strays \in Nat
          /\ reader'.armed \in {"nothing", "touch", "lift", "lifted"}
      BY <1>5, <1>6, <2>1, FramesAre
    <3> QED
      BY <1>1, <3>1, <3>2, StaysTyped
  <2> QED
    BY <1>1, <1>2, <1>3, <2>1, <2>2, <2>3 DEF IInv
<1>9. CASE StrayEvent
  <2>1. /\ reader.armed = "touch"
        /\ reader'.due = Append(reader.due, Stray)
        /\ reader'.armed = "nothing" /\ reader'.strays = reader.strays + 1
        /\ reader'.arms = reader.arms /\ reader'.captures = reader.captures
    BY <1>1, <1>4, <1>9 DEF StrayEvent, ReaderReports, ReaderType
  <2>2. blame' = \/ blame
                 \/ reader.strays >= Irq80Limit
                 \/ life.use = "two" /\ life.downs = 1
    BY <1>9 DEF StrayEvent
  <2>3. blame' \in BOOLEAN
    BY <1>1, <2>2, Zenon
  <2>4. ~blame' => /\ ~blame /\ reader.strays < Irq80Limit
                   /\ ~(life.use = "two" /\ life.downs = 1)
    BY <1>5, <2>2, LimitAssumption
  <2>5. Holds(life, reader', errors, blame')
    BY <1>1, <2>1, <2>3, <2>4, StrayReported
  <2>6. ReaderType(reader')
    <3>1. reader' = [reader EXCEPT !.due = reader'.due,
                       !.armed = reader'.armed, !.strays = reader'.strays]
      BY <1>1, <1>9 DEF StrayEvent, ReaderReports, ReaderType
    <3>2. reader'.due \in Seq(Frames) /\ reader'.strays \in Nat
          /\ reader'.armed \in {"nothing", "touch", "lift", "lifted"}
      BY <1>5, <1>6, <2>1, FramesAre
    <3> QED
      BY <1>1, <3>1, <3>2, StaysTyped
  <2> QED
    BY <1>1, <1>2, <1>3, <2>3, <2>5, <2>6 DEF IInv
<1> QED
  BY <1>7, <1>8, <1>9

LEMMA ReaderErrsInv == IInv /\ ReaderErrs => IInv' /\ Tells(life, life')
<1> SUFFICES ASSUME IInv, ReaderErrs PROVE IInv' /\ Tells(life, life')
  OBVIOUS
<1>1. /\ Holds(life, reader, errors, blame) /\ ReaderType(reader)
      /\ errors \in 0..MaxErrors
  BY DEF IInv
<1>2. /\ life' = life /\ errors < MaxErrors /\ errors' = errors + 1
      /\ blame' = TRUE
      /\ \/ \E f \in Frames : reader' = [reader EXCEPT !.due = <<f>> \o @]
         \/ /\ reader.due # <<>>
            /\ reader' = [reader EXCEPT !.due = Tail(@)]
  BY DEF ReaderErrs, Frames
<1>3. errors' \in 0..MaxErrors /\ errors' # 0
  BY <1>1, <1>2, BoundAssumption
<1>4. reader.due \in Seq(Frames)
  BY <1>1 DEF ReaderType, Frames
<1>5. \E due \in Seq(Frames) : reader' = [reader EXCEPT !.due = due]
  <2>1. CASE \E f \in Frames : reader' = [reader EXCEPT !.due = <<f>> \o @]
    <3>1. PICK f \in Frames : reader' = [reader EXCEPT !.due = <<f>> \o @]
      BY <2>1
    <3>2. <<f>> \o reader.due \in Seq(Frames)
      BY <1>4, ConsIs
    <3> QED
      BY <3>1, <3>2
  <2>2. CASE reader.due # <<>> /\ reader' = [reader EXCEPT !.due = Tail(@)]
    <3>1. Tail(reader.due) \in Seq(Frames)
      BY <1>4, <2>2, HeadTailProperties
    <3> QED
      BY <2>2, <3>1
  <2> QED
    BY <1>2, <2>1, <2>2
<1>6. /\ ReaderType(reader') /\ reader'.arms = reader.arms
      /\ reader'.captures = reader.captures
  BY <1>1, <1>5 DEF ReaderType, Frames
<1>7. Holds(life', reader', errors', TRUE)
  BY <1>1, <1>2, <1>3, <1>6, ErrorHolds
<1>8. Tells(life, life')
  BY <1>2 DEF Tells
<1> QED
  BY <1>2, <1>3, <1>6, <1>7, <1>8 DEF IInv

LEMMA StepInv ==
  IInv /\ [Next]_vars => IInv' /\ (Tells(life, life') \/ Renew)
<1> SUFFICES ASSUME IInv, [Next]_vars
             PROVE  IInv' /\ (Tells(life, life') \/ Renew)
  OBVIOUS
<1>1. CASE Start \/ OutCompletes \/ AuthorizeLogin \/ VerifyAgain
  BY <1>1, LoopInv
<1>2. CASE OutFails \/ Fence \/ Timeout
  BY <1>2, FailingInv
<1>3. CASE AwaitFinger
  BY <1>3, AwaitInv
<1>4. CASE Receive
  BY <1>4, ReceiveInv
<1>5. CASE Renew
  BY <1>5, RenewInv
<1>6. CASE ReaderTakes
  BY <1>6, TakesInv
<1>7. CASE FingerDown \/ FingerUp \/ StrayEvent
  BY <1>7, ReportInv
<1>8. CASE ReaderErrs
  BY <1>8, ReaderErrsInv
<1>9. CASE UNCHANGED vars
  <2>1. /\ life' = life /\ reader' = reader /\ blame' = blame
        /\ errors' = errors
    BY <1>9 DEF vars
  <2>2. IInv' /\ Tells(life, life')
    BY <2>1 DEF IInv, Tells
  <2> QED
    BY <2>2
<1> QED
  BY <1>1, <1>2, <1>3, <1>4, <1>5, <1>6, <1>7, <1>8, <1>9 DEF Next

LEMMA SpecInv == Spec => []IInv
<1>1. IInv /\ [Next]_vars => IInv'
  BY StepInv
<1> QED
  BY InitInv, <1>1, PTL DEF Spec

-----------------------------------------------------------------------------
(* Results.                                                                 *)

(* The lifecycle and the reader hold what their declarations say; the       *)
(* counters of submit_command()'s callers stay within their limits.         *)
THEOREM AlwaysTypeOK == Spec => []TypeOK
<1>1. IInv => TypeOK
  BY DEF IInv, Holds, Sound, ReaderType, TypeOK
<1> QED
  BY <1>1, SpecInv, PTL

(* lifecycle_fail() is never reached by the lifecycle's own doing: for any  *)
(* limits, and in whatever order frames, OUT completions, the finger and    *)
(* the framework's calls come, a failed lifecycle was given a reason.       *)
THEOREM AlwaysFailsOnlyForCause == Spec => []FailsOnlyForCause
<1>1. IInv => FailsOnlyForCause
  BY DEF IInv, Holds, Clean, FailsOnlyForCause
<1> QED
  BY <1>1, SpecInv, PTL

(* The sensor is armed at most Irq80Limit + 1 times for a contact and       *)
(* captures no contact the framework did not ask for, whatever is lost,     *)
(* repeated, made up by the reader or cancelled by the context.             *)
THEOREM AlwaysSensorIsAsked == Spec => []SensorIsAsked
<1>1. IInv => SensorIsAsked
  <2> SUFFICES ASSUME IInv PROVE SensorIsAsked
    OBVIOUS
  <2>1. Bounds(life, reader) /\ life \in LifeType
    BY DEF IInv, Holds, Sound, Counts
  <2>2. life.downs \in Nat /\ life.asked \in Nat
    BY <2>1 DEF LifeType
  <2>3. reader.arms \in Nat /\ reader.captures \in Nat
    BY DEF IInv, ReaderType
  <2>4. /\ One(Flying(life) /\ life.expected = "32") \in Nat
        /\ One(Flying(life) /\ life.expected = "22") \in Nat
    BY DEF One
  <2> QED
    BY <2>1, <2>2, <2>3, <2>4, LimitAssumption DEF Bounds, SensorIsAsked
<1> QED
  BY <1>1, SpecInv, PTL

(* The take-over of an enrollment, in the ACK of the first arm, happens     *)
(* with nothing under way and the sensor armed or its event unread.         *)
THEOREM AlwaysHandsOverArmed == Spec => []HandsOverArmed
<1>1. IInv => HandsOverArmed
  <2> SUFFICES ASSUME IInv, life.use = "enroll", life.phase = "STOP"
               PROVE  /\ life.at = "idle" /\ ~life.out /\ ~life.owned
                      /\ \/ reader.armed = "touch" \/ errors > 0
                         \/ \E i \in 1..Len(reader.due) :
                              reader.due[i] \in {Touch, Stray}
    BY DEF HandsOverArmed
  <2>1. life.at = "idle" /\ ~life.out /\ ~life.owned
    BY DEF IInv, Holds, Sound, Transport
  <2>2. CASE errors > 0
    BY <2>1, <2>2
  <2>3. CASE errors = 0
    <3>1. Owed("FIRST_IRQ2", FALSE, reader.armed, reader.due)
      BY <2>3 DEF IInv, Holds, Script
    <3>2. reader.armed = "touch" \/ reader.due \in {<<Touch>>, <<Stray>>}
      BY <3>1 DEF Owed
    <3>3. ASSUME NEW x, reader.due = <<x>>, x \in {Touch, Stray}
          PROVE  \E i \in 1..Len(reader.due) :
                   reader.due[i] \in {Touch, Stray}
      BY <3>3
    <3> QED
      BY <2>1, <3>2, <3>3
  <2> QED
    BY <2>2, <2>3, BoundAssumption DEF IInv
<1> QED
  BY <1>1, SpecInv, PTL

(* Every step of the lifecycle is one of Capture.tla or tells the framework *)
(* nothing: a contact is told as down, image, up, once for each that was    *)
(* asked for, and nothing after the fence.                                  *)
THEOREM CaptureIsKept == Spec => ImplementsCapture
<1>1. Init => Promised!Init
  BY DEF Init, NewLifecycle, Promised!Init
<1>2. IInv /\ IInv' /\ [Next]_vars => [Promised!Next]_Promised!vars
  <2> SUFFICES ASSUME IInv, IInv', [Next]_vars
               PROVE  [Promised!Next]_Promised!vars
    OBVIOUS
  <2>1. Tells(life, life') \/ Renew
    BY StepInv
  <2>2. life.fenced \in BOOLEAN /\ life'.fenced \in BOOLEAN
    BY DEF IInv, Holds, Sound, LifeType
  <2>3. CASE Renew
    BY <2>3 DEF Renew, NewLifecycle, Promised!Next, Promised!Again
  <2>4. CASE Tells(life, life')
    <3>1. CASE /\ life'.told = life.told /\ life'.downs = life.downs
               /\ life'.asked = life.asked
               /\ life.fenced => life'.fenced
      <4>1. CASE life'.fenced = life.fenced
        BY <3>1, <4>1 DEF Promised!vars
      <4>2. CASE life'.fenced # life.fenced
        BY <2>2, <3>1, <4>2 DEF Promised!Next, Promised!End
      <4> QED
        BY <4>1, <4>2
    <3> QED
      BY <2>2, <2>4, <3>1 DEF Tells, Promised!Next, Promised!Down,
         Promised!Image, Promised!Up, Promised!Ask, Promised!MayEnd
  <2> QED
    BY <2>1, <2>3, <2>4
<1> QED
  BY <1>1, <1>2, SpecInv, PTL DEF Spec, ImplementsCapture, Promised!Spec

=============================================================================
