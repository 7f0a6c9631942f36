------------------------- MODULE SecureSessionProofs -------------------------
(* The secure session never stalls and sends everything in order, for every *)
(* list of commands, every division of the handshake into records and of    *)
(* the records into chunks, and whatever the reader and its cable do.       *)
EXTENDS SecureSession, SequenceTheorems, TLAPS

(* The records after the a-th, up to the b-th.                              *)
Rest(a, b) == [i \in 1..(b - a) |-> a + i]

(* The last chunk the reader has got, and the one before the first.         *)
Origin == Transfer("b0", 0, 0)
Last(got) == IF got = <<>> THEN Origin ELSE got[Len(got)]

(* The transfer t may reach a reader that took n commands and then "last".  *)
Fits(t, n, last) ==
  \/ t.kind = "a0" /\ t.number = n + 1 /\ t.number \in 1..D1
  \/ t.kind = "b0" /\ t.number \in 1..Total /\ FollowsChunk(last, t)

(* Where a session s stands, when its reader took n commands and then       *)
(* "last".  It has not begun,                                               *)
Unstarted(s, n, last) ==
  /\ \E promotes \in BOOLEAN : s = NewSession(promotes)
  /\ n = 0 /\ last = Origin

(* or it is at a command, that was sent once; what a handshake that begins  *)
(* early puts out waits in the queue,                                       *)
AtCommand(s, n, last) ==
  /\ s.started /\ s.submitted /\ s.owned /\ ~s.fenced
  /\ s.record = 0 /\ s.count = 0 /\ ~s.pace
  /\ \/ s.out = "none" /\ s.at = "idle"
     \/ /\ s.out = "a0" /\ s.at # "idle"
        /\ s.transfer = Transfer("a0", s.phase, 0)
  /\ s.phase \in 1..D1
  /\ s.phase < D1 => s.heard = 0
  /\ s.phase = D1 => (s.done <=> s.flight)
  /\ s.flight <=> s.heard >= HelloInputs
  /\ s.queue = Rest(0, Emitted(s.heard))
  /\ n = IF s.at = "flying" THEN s.phase - 1 ELSE s.phase
  /\ last = Origin

Commanding(s, n, last) ==
  AtCommand(s, n, last) /\ (s.done => s.out = "a0")

(* or it sends the records of the server, "count" of which are through,     *)
Begun(s) == IF s.record = 0 THEN s.count ELSE s.count + 1

AtRecord(s, n, last) ==
  /\ s.phase = TLS /\ s.started /\ s.owned /\ ~s.fenced
  /\ s.heard \in HelloInputs..Inputs
  /\ \/ /\ s.record = 0 /\ s.out = "none" /\ s.at = "idle"
        /\ last = Transfer("b0", s.count, 0)
     \/ /\ s.record = s.count + 1 /\ s.out = "b0" /\ ~s.pace
        /\ s.transfer = Transfer("b0", s.record, s.left)
        /\ \/ s.at = "flying" /\ FollowsChunk(last, s.transfer)
           \/ s.at = "taken" /\ last = s.transfer
  /\ Begun(s) <= Emitted(s.heard)
  /\ s.queue = Rest(Begun(s), Emitted(s.heard))
  /\ s.pace => s.count # 0 /\ s.queue # <<>>
  /\ n = D1

Sending(s, n, last) ==
  /\ AtRecord(s, n, last)
  /\ s.out = "none" /\ ~s.pace => s.queue = <<>> /\ ~Established(s)

(* or it has stopped with everything sent, or failed.                       *)
Stopped(s, n, last) ==
  /\ s.phase = STOP /\ s.started /\ s.heard = Inputs
  /\ s.out = "none" /\ s.at = "idle" /\ s.record = 0 /\ s.queue = <<>>
  /\ ~s.pace /\ (s.promotes => ~s.owned)
  /\ n = D1 /\ last = Transfer("b0", Total, 0)

Failed(s, n, last) ==
  /\ s.phase = TERMINAL /\ s.fenced
  /\ s.record = 0 /\ s.queue = <<>> /\ ~s.pace
  /\ s.at = "flying" => Fits(s.transfer, n, last)

Sound(s, n, last) ==
  /\ s \in SessionType
  /\ \/ Unstarted(s, n, last) \/ Commanding(s, n, last)
     \/ Sending(s, n, last) \/ Stopped(s, n, last) \/ Failed(s, n, last)

(* The reader got commands and chunks in order.                             *)
ReaderInv ==
  /\ reader = [commands |-> reader.commands, got |-> reader.got,
               due |-> reader.due]
  /\ reader.commands \in Seq(1..D1)
  /\ reader.got \in Seq(TransferType)
  /\ reader.due \in Seq(A0Frames \cup B0Frames)
  /\ \A i \in 1..Len(reader.commands) : reader.commands[i] = i
  /\ \A i \in 1..Len(reader.got) :
       FollowsChunk(IF i = 1 THEN Origin ELSE reader.got[i - 1], reader.got[i])

IInv ==
  /\ Sound(session, Len(reader.commands), Last(reader.got))
  /\ ReaderInv
  /\ errors \in 0..MaxErrors

-----------------------------------------------------------------------------
(* The constants.                                                           *)

LEMMA PhaseOrder ==
  /\ LastCommand \in Nat \ {0} /\ D1 \in Nat /\ TLS \in Nat /\ STOP \in Nat
  /\ TERMINAL \in Nat /\ D1 = LastCommand + 1 /\ TLS = D1 + 1 /\ STOP = TLS + 1
  /\ TERMINAL = STOP + 1 /\ AckOnly \subseteq 1..LastCommand
BY CommandAssumption DEF LastCommand, D1, TLS, STOP, TERMINAL

LEMMA EmittedMeans ==
  ASSUME NEW i \in 0..Inputs
  PROVE  /\ Emitted(i) \in 0..Total
         /\ i < HelloInputs => Emitted(i) = 0
         /\ i >= HelloInputs => Emitted(i) > 0
         /\ i < Inputs => Emitted(i) <= Emitted(i + 1)
         /\ i < Inputs /\ i + 1 = Inputs => Emitted(i) < Emitted(i + 1)
         /\ i = Inputs => Emitted(i) = Total
BY HandshakeAssumption DEF Emitted

LEMMA RestIs ==
  ASSUME NEW a \in Nat, NEW b \in 0..Total, a <= b
  PROVE  /\ Rest(a, b) \in Seq(1..Total) /\ Len(Rest(a, b)) = b - a
         /\ \A i \in 1..(b - a) : Rest(a, b)[i] = a + i
         /\ Rest(a, b) = <<>> <=> a = b
<1>0. Total \in Nat /\ b - a \in Nat
  BY HandshakeAssumption
<1>1. Rest(a, b) \in [1..(b - a) -> 1..Total]
  BY <1>0 DEF Rest
<1>2. Rest(a, b) \in Seq(1..Total)
  BY <1>0, <1>1, SeqDef
<1>3. Len(Rest(a, b)) = b - a
  <2>1. DOMAIN Rest(a, b) = 1..Len(Rest(a, b)) /\ Len(Rest(a, b)) \in Nat
    BY <1>2, LenProperties
  <2> QED
    BY <1>0, <1>1, <2>1
<1>4. Rest(a, b) = <<>> <=> a = b
  BY <1>2, <1>3, EmptySeq, LenProperties
<1>5. \A i \in 1..(b - a) : Rest(a, b)[i] = a + i
  BY DEF Rest
<1> QED
  BY <1>2, <1>3, <1>4, <1>5

LEMMA RestEmpty ==
  ASSUME NEW a \in Nat, NEW b \in 0..Total, a <= b, Rest(a, b) = <<>>
  PROVE  a = b
BY RestIs

LEMMA RestTail ==
  ASSUME NEW a \in Nat, NEW b \in 0..Total, a < b
  PROVE  Head(Rest(a, b)) = a + 1 /\ Tail(Rest(a, b)) = Rest(a + 1, b)
<1> DEFINE s == Rest(a, b) t == Rest(a + 1, b)
<1>0. Total \in Nat /\ a + 1 \in Nat /\ b \in Nat /\ a + 1 <= b
  BY HandshakeAssumption
<1>1. /\ s \in Seq(1..Total) /\ Len(s) = b - a /\ s # <<>>
      /\ \A i \in 1..(b - a) : s[i] = a + i
  BY <1>0, RestIs
<1>2. /\ t \in Seq(1..Total) /\ Len(t) = b - (a + 1)
      /\ \A i \in 1..(b - (a + 1)) : t[i] = a + 1 + i
  BY <1>0, RestIs
<1> HIDE DEF s, t
<1>3. /\ Tail(s) \in Seq(1..Total) /\ Len(Tail(s)) = b - (a + 1)
      /\ \A i \in 1..Len(Tail(s)) : Tail(s)[i] = s[i + 1]
  BY <1>0, <1>1, HeadTailProperties
<1>4. \A i \in 1..Len(Tail(s)) : Tail(s)[i] = t[i]
  BY <1>0, <1>1, <1>2, <1>3
<1>5. Tail(s) = t
  BY <1>2, <1>3, <1>4, SeqEqual
<1>6. Head(s) = a + 1
  BY <1>0, <1>1
<1> QED
  BY <1>5, <1>6 DEF s, t

LEMMA RestConcat ==
  ASSUME NEW a \in Nat, NEW b \in 0..Total, NEW c \in 0..Total, a <= b, b <= c
  PROVE  Rest(a, b) \o Rest(b, c) = Rest(a, c)
<1> DEFINE s == Rest(a, b) t == Rest(b, c) u == Rest(a, c)
<1>0. Total \in Nat /\ b \in Nat /\ c \in Nat /\ a <= c
  BY HandshakeAssumption
<1>1. /\ s \in Seq(1..Total) /\ Len(s) = b - a
      /\ \A i \in 1..(b - a) : s[i] = a + i
  BY RestIs
<1>2. /\ t \in Seq(1..Total) /\ Len(t) = c - b
      /\ \A i \in 1..(c - b) : t[i] = b + i
  BY <1>0, RestIs
<1>3. /\ u \in Seq(1..Total) /\ Len(u) = c - a
      /\ \A i \in 1..(c - a) : u[i] = a + i
  BY <1>0, RestIs
<1> HIDE DEF s, t, u
<1>4. /\ s \o t \in Seq(1..Total) /\ Len(s \o t) = Len(s) + Len(t)
      /\ \A i \in 1..(Len(s) + Len(t)) : (s \o t)[i] =
           IF i <= Len(s) THEN s[i] ELSE t[i - Len(s)]
  BY <1>1, <1>2, ConcatProperties
<1>5. Len(s \o t) = c - a
  BY <1>0, <1>1, <1>2, <1>4
<1>6. \A i \in 1..Len(s \o t) : (s \o t)[i] = u[i]
  <2> SUFFICES ASSUME NEW i \in 1..(c - a)
               PROVE  (s \o t)[i] = a + i
    BY <1>3, <1>5
  <2>1. (s \o t)[i] = IF i <= b - a THEN s[i] ELSE t[i - (b - a)]
    BY <1>0, <1>1, <1>2, <1>4
  <2>2. CASE i <= b - a
    BY <1>0, <1>1, <2>1, <2>2
  <2>3. CASE ~(i <= b - a)
    <3>1. i - (b - a) \in 1..(c - b)
      BY <1>0, <2>3
    <3>2. t[i - (b - a)] = b + (i - (b - a))
      BY <1>2, <3>1
    <3> QED
      BY <1>0, <2>1, <2>3, <3>2
  <2> QED
    BY <2>2, <2>3
<1> QED
  BY <1>3, <1>4, <1>5, <1>6, SeqEqual DEF s, t, u

-----------------------------------------------------------------------------
(* The session fails, or passes on what it has to send.                     *)

LEMMA FlyingFits ==
  ASSUME NEW s, NEW n \in Nat, NEW last, Sound(s, n, last), s.at = "flying"
  PROVE  Fits(s.transfer, n, last)
<1>1. s \in SessionType
  BY DEF Sound
<1>2. CASE Commanding(s, n, last)
  BY <1>2, PhaseOrder DEF Commanding, AtCommand, Fits, Transfer
<1>3. CASE Sending(s, n, last)
  <2>1. s.transfer = Transfer("b0", s.record, s.left) /\ FollowsChunk(last, s.transfer)
        /\ s.record # 0 /\ s.record \in 0..Total
    BY <1>1, <1>3 DEF Sending, AtRecord, SessionType
  <2> QED
    BY <2>1, HandshakeAssumption DEF Fits, Transfer
<1> QED
  BY <1>1, <1>2, <1>3
     DEF Sound, Unstarted, NewSession, Stopped, Failed

LEMMA FailSound ==
  ASSUME NEW s \in SessionType, NEW n, NEW last,
         s.phase # TERMINAL,
         s.at = "flying" => Fits(s.transfer, n, last)
  PROVE  Sound(Fail(s), n, last)
<1>1. Fail(s) = [s EXCEPT !.phase = TERMINAL, !.pace = FALSE, !.queue = <<>>,
                          !.record = 0, !.left = 0, !.fenced = TRUE]
  BY DEF Fail
<1>2. TERMINAL \in 1..TERMINAL /\ <<>> \in Seq(1..Total) /\ 0 \in 0..Total
  BY PhaseOrder, HandshakeAssumption
<1>3. Fail(s) \in SessionType
  <2> DEFINE phase == TERMINAL queue == <<>> record == 0 left == 0
  <2>1. /\ phase \in 1..TERMINAL /\ queue \in Seq(1..Total)
        /\ record \in 0..Total /\ left \in Nat
    BY <1>2
  <2>2. Fail(s) = [s EXCEPT !.phase = phase, !.pace = FALSE, !.queue = queue,
                            !.record = record, !.left = left, !.fenced = TRUE]
    BY <1>1
  <2> HIDE DEF phase, queue, record, left
  <2> QED
    BY <2>1, <2>2 DEF SessionType
<1>4. Failed(Fail(s), n, last)
  BY <1>1 DEF Failed, SessionType
<1> QED
  BY <1>3, <1>4 DEF Sound

(* The next record is begun: its first chunk follows what the reader got.   *)
LEMMA StartSound ==
  ASSUME NEW s \in SessionType, NEW n, NEW last,
         AtRecord(s, n, last), s.record = 0, ~s.pace,
         s.queue # <<>>
  PROVE  /\ Sound(StartNextRecordNow(s), n, last)
         /\ StartNextRecordNow(s).phase = TLS
         /\ StartNextRecordNow(s).out # "none"
<1>1. /\ s.out = "none" /\ s.at = "idle" /\ s.phase = TLS /\ s.count \in Nat
      /\ last = Transfer("b0", s.count, 0) /\ s.heard \in 0..Inputs
  BY HandshakeAssumption DEF AtRecord, SessionType
<1> DEFINE E == Emitted(s.heard) c == s.count
<1>2. E \in 0..Total /\ c <= E /\ s.queue = Rest(c, E)
  BY <1>1, EmittedMeans DEF AtRecord, Begun
<1> HIDE DEF E, c
<1>3. c \in Nat /\ c < E /\ c + 1 <= E /\ c + 1 \in 1..Total /\ Total \in Nat
  <2>1. c \in Nat /\ c # E /\ Total \in Nat
    BY <1>1, <1>2, RestIs, HandshakeAssumption DEF c
  <2> QED
    BY <1>2, <2>1
<1>4. Head(s.queue) = c + 1 /\ Tail(s.queue) = Rest(c + 1, E)
      /\ Rest(c + 1, E) \in Seq(1..Total)
  <2>1. Head(Rest(c, E)) = c + 1 /\ Tail(Rest(c, E)) = Rest(c + 1, E)
    BY <1>2, <1>3, RestTail
  <2>2. c + 1 \in Nat
    BY <1>3
  <2>3. Rest(c + 1, E) \in Seq(1..Total)
    BY <1>2, <1>3, <2>2, RestIs
  <2> QED
    BY <1>2, <2>1, <2>3
<1>5. Chunks[c + 1] \in Nat \ {0} /\ Chunks[c + 1] - 1 \in Nat
  BY <1>3, HandshakeAssumption
<1> DEFINE r == c + 1 rest == Rest(c + 1, E) left == Chunks[c + 1]
           t == Transfer("b0", r, left - 1)
           u == [s EXCEPT !.record = r, !.left = left, !.queue = rest]
           v == [s EXCEPT !.record = r, !.left = left - 1, !.queue = rest,
                          !.out = "b0", !.at = "flying", !.transfer = t]
<1>6. StartNextRecordNow(s) = SubmitB0Chunk(u)
  <2>1. MayStartRecord(s)
    BY <1>1, PhaseOrder DEF MayStartRecord
  <2> QED
    BY <1>4, <2>1 DEF StartNextRecordNow
<1>7. r \in Nat /\ r # 0 /\ r \in 0..Total /\ left - 1 \in Nat /\ left \in Nat
  BY <1>3, <1>5
<1>8. t \in TransferType /\ t.kind = "b0" /\ t.number = r /\ t.rest = left - 1
  BY <1>7 DEF Transfer, TransferType
<1> HIDE DEF r, rest, left
<1>9. u \in SessionType /\ u.record = r /\ u.left = left /\ u.out = "none"
  BY <1>1, <1>4, <1>7 DEF SessionType, rest
<1>10. SubmitB0Chunk(u) = v
  <2>1. SubmitB0Chunk(u) = [SubmitOut(u, t) EXCEPT !.left = left - 1]
    BY <1>7, <1>9 DEF SubmitB0Chunk
  <2> HIDE DEF t
  <2> QED
    BY <1>8, <2>1 DEF SubmitOut, SessionType
<1> HIDE DEF t
<1>11. /\ v \in SessionType /\ v.phase = s.phase /\ v.started = s.started
       /\ v.owned = s.owned /\ v.fenced = s.fenced /\ v.heard = s.heard
       /\ v.record = r /\ v.count = s.count /\ v.out = "b0" /\ v.pace = s.pace
       /\ v.transfer = t /\ v.left = left - 1 /\ v.at = "flying"
       /\ v.queue = rest
  BY <1>4, <1>7, <1>8 DEF SessionType, rest
<1> HIDE DEF u, v
<1>12. FollowsChunk(last, t)
  BY <1>1, <1>7 DEF FollowsChunk, Transfer, t, r, left, c
<1>13. AtRecord(v, n, last)
  BY <1>3, <1>7, <1>11, <1>12 DEF AtRecord, Begun, r, rest, t, c, E
<1>14. Sending(v, n, last)
  BY <1>11, <1>13 DEF Sending
<1> QED
  BY <1>1, <1>6, <1>10, <1>11, <1>14 DEF Sound

(* With nothing left to send, an established session stops and hands over.  *)
LEMMA FinishSound ==
  ASSUME NEW s \in SessionType, NEW n, NEW last, AtRecord(s, n, last),
         s.out = "none" /\ ~s.pace => s.queue = <<>>
  PROVE  Sound(MaybeFinishTls(s), n, last)
<1> DEFINE over == /\ s.phase = TLS /\ Established(s) /\ s.out = "none"
                   /\ s.record = 0 /\ s.queue = <<>> /\ ~s.pace
<1>1. CASE ~over
  <2>1. MaybeFinishTls(s) = s
    BY <1>1 DEF MaybeFinishTls
  <2>2. s.phase = TLS /\ (s.out = "none" => s.record = 0)
    BY DEF AtRecord
  <2>3. Sending(s, n, last)
    BY <1>1, <2>2 DEF Sending
  <2> QED
    BY <2>1, <2>3 DEF Sound
<1>2. CASE over
  <2>1. /\ s.at = "idle" /\ s.owned /\ s.started /\ n = D1
        /\ last = Transfer("b0", s.count, 0) /\ s.heard = Inputs
    BY <1>2 DEF AtRecord, Established
  <2>2. s.count = Total
    <3>1. s.count \in Nat /\ s.heard \in 0..Inputs
      BY DEF SessionType
    <3>2. Emitted(s.heard) = Total /\ Total \in 0..Total
      BY <2>1, <3>1, EmittedMeans, HandshakeAssumption
    <3>3. s.queue = Rest(s.count, Total) /\ s.count <= Total
      BY <1>2, <3>2 DEF AtRecord, Begun
    <3> QED
      BY <1>2, <3>1, <3>2, <3>3, RestEmpty
  <2> DEFINE phase == STOP u == [s EXCEPT !.phase = phase]
  <2>3. phase \in 1..TERMINAL
    BY PhaseOrder
  <2>4. MaybeFinishTls(s) = ContextSecurePhase(u)
    BY <1>2 DEF MaybeFinishTls
  <2>5. u.phase = STOP
    BY DEF SessionType
  <2> HIDE DEF phase
  <2>6. /\ u \in SessionType /\ u.out = s.out /\ u.at = s.at
        /\ u.record = s.record /\ u.queue = s.queue /\ u.pace = s.pace
        /\ u.owned = s.owned /\ u.heard = s.heard /\ u.started = s.started
        /\ u.promotes = s.promotes
    BY <2>3 DEF SessionType
  <2> HIDE DEF u
  <2>7. MayHandOff(u)
    BY <1>2, <2>1, <2>5, <2>6 DEF MayHandOff
  <2> DEFINE v == ContextSecurePhase(u)
  <2>8. /\ v \in SessionType /\ v.phase = u.phase /\ v.out = u.out /\ v.at = u.at
        /\ v.record = u.record /\ v.queue = u.queue /\ v.pace = u.pace
        /\ v.heard = u.heard /\ v.started = u.started
        /\ v.promotes = u.promotes /\ (v.promotes => ~v.owned)
    BY <2>6, <2>7 DEF ContextSecurePhase, SessionType
  <2> HIDE DEF v
  <2>9. Stopped(v, n, last)
    BY <1>2, <2>1, <2>2, <2>5, <2>6, <2>8 DEF Stopped
  <2> QED
    BY <2>4, <2>8, <2>9 DEF Sound, v
<1> QED
  BY <1>1, <1>2

(* The next chunk of a record, or, when it was the last, the next record.   *)
LEMMA ChunkSound ==
  ASSUME NEW s \in SessionType, NEW n, NEW last,
         AtRecord(s, n, last), s.at = "taken", NEW u \in SessionType,
         u = [Returned(s) EXCEPT !.out = "none"]
  PROVE  Sound(IF s.left > 0 THEN SubmitB0Chunk(u) ELSE RecordSent(u), n, last)
<1>1. /\ s.record = s.count + 1 /\ s.out = "b0" /\ ~s.pace /\ s.phase = TLS
      /\ s.transfer = Transfer("b0", s.record, s.left)
      /\ last = s.transfer /\ s.record # 0 /\ s.record \in 0..Total
      /\ s.count \in Nat /\ s.left \in Nat /\ s.heard \in 0..Inputs
  BY DEF AtRecord, SessionType
<1>2. /\ u.phase = s.phase /\ u.started = s.started
      /\ u.owned = s.owned /\ u.fenced = s.fenced /\ u.heard = s.heard
      /\ u.record = s.record /\ u.count = s.count /\ u.out = "none"
      /\ u.pace = s.pace /\ u.left = s.left /\ u.at = "idle"
      /\ u.queue = s.queue
  BY DEF Returned, SessionType
<1>3. CASE s.left > 0
  <2> DEFINE left == s.left - 1 t == Transfer("b0", s.record, left)
             v == [u EXCEPT !.left = left, !.out = "b0", !.at = "flying",
                            !.transfer = t]
  <2>1. left \in Nat /\ t \in TransferType /\ t.kind = "b0"
    BY <1>1, <1>3 DEF Transfer, TransferType
  <2>2. FollowsChunk(last, t)
    BY <1>1, <1>3 DEF FollowsChunk, Transfer
  <2>3. t = Transfer("b0", s.record, left)
    OBVIOUS
  <2>4. SubmitB0Chunk(u) = [SubmitOut(u, t) EXCEPT !.left = left]
    BY <1>1, <1>2 DEF SubmitB0Chunk
  <2> HIDE DEF t, left
  <2>5. SubmitB0Chunk(u) = v
    BY <2>1, <2>4 DEF SubmitOut, SessionType
  <2>6. /\ v \in SessionType /\ v.phase = u.phase /\ v.started = u.started
        /\ v.owned = u.owned /\ v.fenced = u.fenced /\ v.heard = u.heard
        /\ v.record = u.record /\ v.count = u.count /\ v.out = "b0"
        /\ v.pace = u.pace /\ v.transfer = t /\ v.left = left
        /\ v.at = "flying" /\ v.queue = u.queue
    BY <2>1 DEF SessionType
  <2> HIDE DEF v
  <2>7. Sending(v, n, last)
    BY <1>1, <1>2, <2>2, <2>3, <2>6 DEF Sending, AtRecord, Begun
  <2> QED
    BY <1>3, <2>5, <2>6, <2>7 DEF Sound
<1>4. CASE s.left = 0
  <2> DEFINE record == 0 count == u.count + 1
             v == [u EXCEPT !.record = record, !.count = count]
             w == IF v.queue # <<>> THEN ScheduleNextRecord(v) ELSE v
  <2>1. RecordSent(u) = MaybeFinishTls(w)
    BY DEF RecordSent
  <2>2. record \in 0..Total /\ count \in Nat /\ count = s.record /\ count # 0
    BY <1>1, <1>2, HandshakeAssumption
  <2> HIDE DEF record, count
  <2>3. /\ v \in SessionType /\ v.phase = u.phase /\ v.started = u.started
        /\ v.owned = u.owned /\ v.fenced = u.fenced /\ v.heard = u.heard
        /\ v.record = record /\ v.count = count /\ v.out = u.out
        /\ v.pace = u.pace /\ v.at = u.at /\ v.queue = u.queue
    BY <2>2 DEF SessionType
  <2> HIDE DEF v
  <2>4. /\ w \in SessionType /\ w.phase = v.phase /\ w.started = v.started
        /\ w.owned = v.owned /\ w.fenced = v.fenced /\ w.heard = v.heard
        /\ w.record = v.record /\ w.count = v.count /\ w.out = v.out
        /\ w.at = v.at /\ w.queue = v.queue
        /\ w.pace => w.queue # <<>>
        /\ ~w.pace => w.queue = <<>>
    <3>1. v.phase # TERMINAL /\ ~v.pace
      BY <1>1, <1>2, <2>3, PhaseOrder
    <3>2. CASE v.queue # <<>>
      <4>1. w = [v EXCEPT !.pace = TRUE]
        BY <3>1, <3>2 DEF ScheduleNextRecord
      <4> HIDE DEF w
      <4> QED
        BY <2>3, <3>2, <4>1 DEF SessionType
    <3>3. CASE v.queue = <<>>
      BY <2>3, <3>1, <3>3
    <3> QED
      BY <3>2, <3>3
  <2> HIDE DEF w
  <2>5. /\ s.started /\ s.owned /\ ~s.fenced /\ s.heard \in HelloInputs..Inputs
        /\ Begun(s) = s.record /\ s.record <= Emitted(s.heard)
        /\ s.queue = Rest(s.record, Emitted(s.heard)) /\ n = D1
        /\ last = Transfer("b0", s.record, 0)
    BY <1>1, <1>4 DEF AtRecord, Begun
  <2>6. w.record = 0
    BY <2>3, <2>4 DEF record
  <2>7. AtRecord(w, n, last)
    BY <1>1, <1>2, <2>2, <2>3, <2>4, <2>5, <2>6 DEF AtRecord, Begun
  <2>8. Sound(MaybeFinishTls(w), n, last)
    BY <2>4, <2>7, FinishSound
  <2> QED
    BY <1>4, <2>1, <2>8
<1> QED
  BY <1>1, <1>3, <1>4

(* A phase is left when it is done and its OUT is back.                     *)
LEMMA AdvanceSound ==
  ASSUME NEW s \in SessionType, NEW n, NEW last, AtCommand(s, n, last)
  PROVE  /\ Sound(AdvancePhase(s), n, last)
         /\ AdvancePhase(s).phase < TLS \/ AdvancePhase(s).out # "none"
<1>0. /\ D1 \in Nat /\ D1 >= 1 /\ TLS = D1 + 1 /\ TLS \in 1..TERMINAL
      /\ s.phase \in 1..D1 /\ TLS < TERMINAL /\ s.heard \in 0..Inputs
  BY PhaseOrder DEF AtCommand, SessionType
<1> DEFINE u == NextPhase(s) p == s.phase + 1
<1>1. CASE ~s.done \/ s.out # "none"
  <2>1. AdvancePhase(s) = s
    BY <1>1 DEF AdvancePhase
  <2>2. Commanding(s, n, last)
    BY <1>1 DEF Commanding, AtCommand
  <2> QED
    BY <1>0, <2>1, <2>2 DEF Sound
<1>2. /\ u.phase = p /\ ~u.ack /\ ~u.done /\ ~u.submitted /\ u.started = s.started
      /\ u.owned = s.owned /\ u.fenced = s.fenced /\ u.heard = s.heard
      /\ u.record = s.record /\ u.count = s.count /\ u.out = s.out
      /\ u.pace = s.pace /\ u.at = s.at /\ u.queue = s.queue
      /\ u.flight = s.flight
  BY DEF NextPhase, SessionType
<1>3. p \in 1..TERMINAL /\ p \in Nat
  BY <1>0, PhaseOrder
<1>4. u \in SessionType
  <2> HIDE DEF p
  <2>1. u = [s EXCEPT !.phase = p, !.ack = FALSE, !.done = FALSE,
                      !.submitted = FALSE]
    BY DEF NextPhase, p
  <2> HIDE DEF u
  <2> QED
    BY <1>3, <2>1 DEF SessionType
<1> HIDE DEF u
<1>5. CASE s.done /\ s.out = "none" /\ s.phase < D1
  <2> DEFINE t == Transfer("a0", p, 0)
             v == [u EXCEPT !.out = "a0", !.at = "flying", !.transfer = t,
                            !.submitted = TRUE]
  <2>1. AdvancePhase(s) = TrySubmitPhase(u)
    BY <1>0, <1>5 DEF AdvancePhase, u
  <2>2. p \in 1..D1 /\ p < TLS /\ (p = D1 \/ p < D1)
    BY <1>0, <1>5
  <2>3. t \in TransferType /\ t.kind = "a0"
    BY <1>3 DEF Transfer, TransferType
  <2>4. TrySubmitPhase(u) = [SubmitOut(u, t) EXCEPT !.submitted = TRUE]
    BY <1>0, <1>2, <1>5, <2>2 DEF TrySubmitPhase
  <2>5. t = Transfer("a0", p, 0)
    OBVIOUS
  <2> HIDE DEF t
  <2>6. TrySubmitPhase(u) = v
    BY <1>4, <2>3, <2>4 DEF SubmitOut, SessionType
  <2>7. /\ v \in SessionType /\ v.phase = u.phase /\ v.submitted /\ ~v.done
        /\ v.started = u.started /\ v.owned = u.owned /\ v.fenced = u.fenced
        /\ v.heard = u.heard /\ v.record = u.record /\ v.count = u.count
        /\ v.out = "a0" /\ v.at = "flying" /\ v.transfer = t
        /\ v.pace = u.pace /\ v.queue = u.queue /\ v.flight = u.flight
    <3>1. v \in SessionType
      BY <1>4, <2>3 DEF SessionType
    <3>2. ~v.done
      BY <1>2, <1>4 DEF SessionType
    <3> QED
      BY <1>4, <3>1, <3>2 DEF SessionType
  <2> HIDE DEF v
  <2>8. /\ s.started /\ s.owned /\ ~s.fenced /\ s.record = 0 /\ s.count = 0
        /\ ~s.pace /\ s.heard = 0 /\ ~s.flight /\ s.at = "idle"
        /\ s.queue = Rest(0, Emitted(s.heard)) /\ n = s.phase /\ last = Origin
    BY <1>0, <1>5, HandshakeAssumption DEF AtCommand
  <2>9. n = p - 1
    BY <1>0, <2>8
  <2> HIDE DEF p
  <2>10. ~v.flight /\ ~(v.heard >= HelloInputs)
    BY <1>2, <2>7, <2>8, HandshakeAssumption
  <2>11. (v.done <=> v.flight) /\ (v.flight <=> v.heard >= HelloInputs)
    BY <2>7, <2>10 DEF SessionType
  <2>12. AtCommand(v, n, last)
    BY <1>2, <1>3, <2>2, <2>5, <2>7, <2>8, <2>9, <2>11 DEF AtCommand
  <2> QED
    BY <1>2, <2>1, <2>2, <2>6, <2>7, <2>12 DEF Sound, Commanding
<1>6. CASE s.done /\ s.out = "none" /\ s.phase = D1
  <2>1. /\ s.started /\ s.owned /\ ~s.fenced /\ s.record = 0 /\ s.count = 0
        /\ ~s.pace /\ s.heard >= HelloInputs /\ s.at = "idle"
        /\ s.queue = Rest(0, Emitted(s.heard)) /\ n = D1 /\ last = Origin
    BY <1>0, <1>6 DEF AtCommand
  <2>2. Emitted(s.heard) \in 0..Total /\ Emitted(s.heard) > 0 /\ Total \in Nat
    BY <1>0, <2>1, EmittedMeans, HandshakeAssumption
  <2>3. s.queue # <<>>
    BY <2>1, <2>2, RestIs
  <2>4. s.heard \in HelloInputs..Inputs
    BY <1>0, <2>1, HandshakeAssumption
  <2>5. AtRecord(u, n, last)
    BY <1>0, <1>2, <1>6, <2>1, <2>2, <2>4 DEF AtRecord, Begun, Origin
  <2>6. MaybeStartB0(u) = StartNextRecordNow(u)
    BY <1>0, <1>2, <1>6, <2>1, <2>3 DEF MaybeStartB0
  <2> DEFINE v == StartNextRecordNow(u)
  <2>7. Sound(v, n, last) /\ v.out # "none"
    BY <1>2, <1>4, <2>1, <2>3, <2>5, StartSound
  <2>8. AdvancePhase(s) = MaybeFinishTls(MaybeStartB0(u))
    BY <1>0, <1>6 DEF AdvancePhase, u
  <2> HIDE DEF v
  <2>9. MaybeFinishTls(v) = v
    BY <2>7 DEF MaybeFinishTls
  <2> QED
    BY <2>6, <2>7, <2>8, <2>9 DEF v
<1> QED
  BY <1>0, <1>1, <1>5, <1>6 DEF SessionType

-----------------------------------------------------------------------------
(* The callbacks, each on a session that is sound.                          *)

LEMMA NewSound ==
  ASSUME NEW promotes \in BOOLEAN
  PROVE  /\ NewSession(promotes) \in SessionType
         /\ Sound(NewSession(promotes), 0, Origin)
<1> DEFINE one == 1 zero == 0 empty == <<>>
<1>1. /\ one \in 1..TERMINAL /\ empty \in Seq(1..Total) /\ zero \in 0..Total
      /\ zero \in Nat /\ zero \in 0..Inputs /\ NoTransfer \in TransferType
  BY PhaseOrder, HandshakeAssumption DEF NoTransfer, Transfer, TransferType
<1>2. NewSession(promotes) =
        [phase |-> one, started |-> FALSE, ack |-> FALSE, done |-> FALSE,
         submitted |-> FALSE, out |-> "none", at |-> "idle",
         transfer |-> NoTransfer, queue |-> empty, record |-> zero,
         left |-> zero, count |-> zero, pace |-> FALSE, flight |-> FALSE,
         heard |-> zero, owned |-> TRUE, fenced |-> FALSE,
         promotes |-> promotes]
  BY DEF NewSession
<1> HIDE DEF one, zero, empty
<1>3. NewSession(promotes) \in SessionType
  BY <1>1, <1>2 DEF SessionType
<1> QED
  BY <1>3 DEF Sound, Unstarted

LEMMA StartsSound ==
  ASSUME NEW s, NEW n, NEW last, Sound(s, n, last), ~s.started, ~s.fenced
  PROVE  Sound(TrySubmitPhase([s EXCEPT !.started = TRUE]), n, last)
<1>0. s \in SessionType
  BY DEF Sound
<1>1. Unstarted(s, n, last)
  BY DEF Sound, Commanding, AtCommand, Sending, AtRecord, Stopped, Failed
<1>2. PICK promotes \in BOOLEAN : s = NewSession(promotes)
  BY <1>1 DEF Unstarted
<1>3. /\ s.phase = 1 /\ ~s.done /\ ~s.submitted /\ s.out = "none" /\ s.owned
      /\ ~s.fenced /\ s.record = 0 /\ s.count = 0 /\ ~s.pace /\ ~s.flight
      /\ s.heard = 0 /\ s.queue = <<>> /\ n = 0 /\ last = Origin
  BY <1>1, <1>2 DEF NewSession, Unstarted
<1> DEFINE t == Transfer("a0", s.phase, 0)
           u == [s EXCEPT !.started = TRUE]
           v == [s EXCEPT !.started = TRUE, !.submitted = TRUE, !.out = "a0",
                          !.at = "flying", !.transfer = t]
<1>4. /\ u \in SessionType /\ u.phase = s.phase /\ ~u.submitted
      /\ u.out = "none"
  BY <1>0, <1>3 DEF SessionType
<1>5. t \in TransferType /\ t.kind = "a0" /\ t = Transfer("a0", s.phase, 0)
  BY <1>3 DEF Transfer, TransferType
<1> HIDE DEF u
<1>6. TrySubmitPhase(u) = [SubmitOut(u, t) EXCEPT !.submitted = TRUE]
  <2>1. ~(u.phase >= TLS)
    BY <1>3, <1>4, PhaseOrder
  <2> QED
    BY <1>4, <2>1 DEF TrySubmitPhase
<1> HIDE DEF t
<1>7. TrySubmitPhase(u) = v
  BY <1>0, <1>5, <1>6 DEF SubmitOut, SessionType, u
<1>8. /\ v \in SessionType /\ v.phase = s.phase /\ v.started /\ v.submitted
      /\ v.done = s.done /\ v.out = "a0" /\ v.at = "flying" /\ v.transfer = t
      /\ v.owned = s.owned /\ v.fenced = s.fenced /\ v.record = s.record
      /\ v.count = s.count /\ v.pace = s.pace /\ v.flight = s.flight
      /\ v.heard = s.heard /\ v.queue = s.queue
  BY <1>0, <1>5 DEF SessionType
<1> HIDE DEF v
<1>9. Emitted(0) = 0 /\ Rest(0, Emitted(0)) = <<>> /\ ~(0 >= HelloInputs)
  <2>1. Emitted(0) = 0 /\ ~(0 >= HelloInputs) /\ 0 \in 0..Total
    BY HandshakeAssumption, EmittedMeans
  <2> QED
    BY <2>1, RestIs
<1>10. AtCommand(v, n, last)
  <2>1. /\ v.phase \in 1..D1 /\ n = v.phase - 1
        /\ v.transfer = Transfer("a0", v.phase, 0)
    BY <1>3, <1>5, <1>8, PhaseOrder
  <2>2. v.queue = Rest(0, Emitted(v.heard)) /\ v.heard = 0
    BY <1>3, <1>8, <1>9
  <2>3. v.flight <=> v.heard >= HelloInputs
    BY <1>3, <1>8, <1>9, <2>2
  <2> QED
    BY <1>3, <1>8, <2>1, <2>2, <2>3 DEF AtCommand
<1> QED
  BY <1>3, <1>7, <1>8, <1>10 DEF Sound, Commanding, u

LEMMA CompleteSound ==
  ASSUME NEW s, NEW n, NEW last, Sound(s, n, last), s.at = "taken"
  PROVE  Sound(BackendOutComplete(s), n, last)
<1>0. s \in SessionType /\ NoTransfer \in TransferType
  BY DEF Sound, NoTransfer, Transfer, TransferType
<1> DEFINE b == Returned(s) u == [Returned(s) EXCEPT !.out = "none"]
<1>1. /\ b \in SessionType /\ b.at = "idle" /\ b.phase = s.phase
      /\ b.fenced = s.fenced /\ b.record = s.record /\ b.queue = s.queue
      /\ b.pace = s.pace
  BY <1>0 DEF Returned, SessionType
<1>2. /\ u \in SessionType /\ u.at = "idle" /\ u.out = "none"
      /\ u.phase = s.phase /\ u.started = s.started
      /\ u.submitted = s.submitted /\ u.done = s.done /\ u.owned = s.owned
      /\ u.fenced = s.fenced /\ u.record = s.record /\ u.count = s.count
      /\ u.pace = s.pace /\ u.flight = s.flight /\ u.heard = s.heard
      /\ u.queue = s.queue /\ u.left = s.left
  BY <1>0 DEF Returned, SessionType
<1> HIDE DEF b
<1>3. CASE Failed(s, n, last)
  <2>1. BackendOutComplete(s) = b
    BY <1>3 DEF BackendOutComplete, Failed, b
  <2> QED
    BY <1>1, <1>3, <2>1 DEF Sound, Failed
<1>4. CASE Commanding(s, n, last)
  <2>1. s.out = "a0" /\ s.phase # TERMINAL
    BY <1>4, PhaseOrder DEF Commanding, AtCommand
  <2>2. BackendOutComplete(s) = MaybeStartB0(AdvancePhase(u))
    BY <2>1 DEF BackendOutComplete
  <2> HIDE DEF u
  <2>3. AtCommand(u, n, last)
    BY <1>2, <1>4 DEF Commanding, AtCommand
  <2>4. /\ Sound(AdvancePhase(u), n, last)
        /\ AdvancePhase(u).phase < TLS \/ AdvancePhase(u).out # "none"
    BY <1>2, <2>3, AdvanceSound
  <2>5. MaybeStartB0(AdvancePhase(u)) = AdvancePhase(u)
    BY <2>4 DEF MaybeStartB0
  <2> QED
    BY <2>2, <2>4, <2>5
<1>5. CASE Sending(s, n, last)
  <2>1. s.out = "b0" /\ s.phase # TERMINAL /\ AtRecord(s, n, last)
    BY <1>5, PhaseOrder DEF Sending, AtRecord
  <2>2. BackendOutComplete(s) =
          IF s.left > 0 THEN SubmitB0Chunk(u) ELSE RecordSent(u)
    BY <2>1 DEF BackendOutComplete
  <2> QED
    BY <1>0, <1>2, <2>1, <2>2, ChunkSound
<1> QED
  BY <1>3, <1>4, <1>5 DEF Sound, Unstarted, NewSession, Stopped

LEMMA OutFailureSound ==
  ASSUME NEW s, NEW n, NEW last, Sound(s, n, last), s.at # "idle"
  PROVE  Sound(BackendOutFailed(s), n, last)
<1>0. s \in SessionType /\ NoTransfer \in TransferType
  BY DEF Sound, NoTransfer, Transfer, TransferType
<1> DEFINE b == Returned(s) u == [Returned(s) EXCEPT !.out = "none"]
<1>1. /\ b \in SessionType /\ b.at = "idle" /\ b.phase = s.phase
      /\ b.fenced = s.fenced /\ b.record = s.record /\ b.queue = s.queue
      /\ b.pace = s.pace
  BY <1>0 DEF Returned, SessionType
<1>2. u \in SessionType /\ u.at = "idle" /\ u.phase = s.phase
  BY <1>0 DEF Returned, SessionType
<1> HIDE DEF b
<1>3. CASE Failed(s, n, last)
  <2>1. BackendOutFailed(s) = b
    BY <1>3 DEF BackendOutFailed, Failed, b
  <2> QED
    BY <1>1, <1>3, <2>1 DEF Sound, Failed
<1>4. CASE Commanding(s, n, last) \/ Sending(s, n, last)
  <2>1. s.out # "none" /\ s.phase # TERMINAL
    BY <1>4, PhaseOrder DEF Commanding, AtCommand, Sending, AtRecord
  <2>2. BackendOutFailed(s) = Fail(u)
    BY <2>1 DEF BackendOutFailed
  <2> HIDE DEF u
  <2> QED
    BY <1>2, <2>1, <2>2, FailSound
<1> QED
  BY <1>3, <1>4 DEF Sound, Unstarted, NewSession, Stopped

LEMMA A0Sound ==
  ASSUME NEW s, NEW n \in Nat, NEW last, Sound(s, n, last), NEW f,
         s.started, ~s.fenced
  PROVE  Sound(HandleA0(s, f), n, last)
<1>0. s \in SessionType
  BY DEF Sound
<1>1. s.phase # TERMINAL
  BY PhaseOrder DEF Sound, Unstarted, NewSession, Commanding, AtCommand,
                    Sending, AtRecord, Stopped, Failed
<1>2. Sound(Fail(s), n, last)
  BY <1>0, <1>1, FlyingFits, FailSound
<1>3. CASE s.phase >= D1 \/ s.done
  BY <1>1, <1>2, <1>3 DEF HandleA0
<1>4. CASE ~(s.phase >= D1 \/ s.done)
  <2>1. s.phase < D1 /\ Commanding(s, n, last)
    BY <1>0, <1>4, PhaseOrder
       DEF Sound, Unstarted, NewSession, Sending, AtRecord, Stopped, Failed,
           SessionType
  <2> DEFINE u == [s EXCEPT !.ack = TRUE]
             v == [s EXCEPT !.ack = TRUE, !.done = TRUE]
  <2>2. /\ u \in SessionType /\ u.done = s.done /\ u.phase = s.phase
        /\ u.started = s.started /\ u.submitted = s.submitted /\ u.at = s.at
        /\ u.owned = s.owned /\ u.fenced = s.fenced /\ u.record = s.record
        /\ u.count = s.count /\ u.pace = s.pace /\ u.flight = s.flight
        /\ u.heard = s.heard /\ u.queue = s.queue /\ u.out = s.out
        /\ u.transfer = s.transfer
    BY <1>0 DEF SessionType
  <2>3. /\ v \in SessionType /\ v.phase = s.phase
        /\ v.started = s.started /\ v.submitted = s.submitted /\ v.at = s.at
        /\ v.owned = s.owned /\ v.fenced = s.fenced /\ v.record = s.record
        /\ v.count = s.count /\ v.pace = s.pace /\ v.flight = s.flight
        /\ v.heard = s.heard /\ v.queue = s.queue /\ v.out = s.out
        /\ v.transfer = s.transfer
    BY <1>0 DEF SessionType
  <2>4. HandleA0(s, f) \in {u, AdvancePhase(v), Fail(s)}
    BY <1>1, <1>4 DEF HandleA0
  <2> HIDE DEF u, v
  <2>5. Sound(u, n, last)
    <3>1. AtCommand(u, n, last)
      BY <2>1, <2>2 DEF Commanding, AtCommand
    <3> QED
      BY <1>4, <2>2, <3>1 DEF Sound, Commanding
  <2>6. Sound(AdvancePhase(v), n, last)
    <3>1. AtCommand(v, n, last)
      BY <1>4, <2>1, <2>3 DEF Commanding, AtCommand
    <3> QED
      BY <2>3, <3>1, AdvanceSound
  <2> QED
    BY <1>2, <2>4, <2>5, <2>6
<1> QED
  BY <1>3, <1>4

(* What the TLS server puts out for one more record.                        *)
LEMMA OutputIs ==
  ASSUME NEW i \in 0..Inputs, i < Inputs, NEW a \in Nat, a <= Emitted(i)
  PROVE  /\ i \in Nat /\ i + 1 \in 0..Inputs
         /\ Emitted(i) \in 0..Total /\ Emitted(i + 1) \in 0..Total
         /\ Emitted(i) <= Emitted(i + 1) /\ a <= Emitted(i + 1)
         /\ Rest(a, Emitted(i)) \o Rest(Emitted(i), Emitted(i + 1)) =
              Rest(a, Emitted(i + 1))
         /\ Rest(a, Emitted(i + 1)) \in Seq(1..Total)
         /\ Rest(a, Emitted(i + 1)) = <<>> <=> a = Emitted(i + 1)
         /\ Rest(Emitted(i), Emitted(i + 1)) = <<>> <=>
              Emitted(i) = Emitted(i + 1)
<1>1. i \in Nat /\ i + 1 \in 0..Inputs /\ Total \in Nat
  BY HandshakeAssumption
<1>2. /\ Emitted(i) \in 0..Total /\ Emitted(i + 1) \in 0..Total
      /\ Emitted(i) <= Emitted(i + 1)
  BY <1>1, EmittedMeans
<1> DEFINE b == Emitted(i) c == Emitted(i + 1)
<1> HIDE DEF b, c
<1>3. a <= b /\ b \in 0..Total /\ c \in 0..Total /\ b <= c
  BY <1>2 DEF b, c
<1>4. a <= c /\ b \in Nat
  BY <1>1, <1>3
<1>5. Rest(a, b) \o Rest(b, c) = Rest(a, c)
  BY <1>3, RestConcat
<1>6. Rest(a, c) \in Seq(1..Total) /\ (Rest(a, c) = <<>> <=> a = c)
  BY <1>3, <1>4, RestIs
<1>7. Rest(b, c) = <<>> <=> b = c
  BY <1>3, <1>4, RestIs
<1> QED
  BY <1>1, <1>2, <1>4, <1>5, <1>6, <1>7 DEF b, c

(* At D1 the flight of the server ends the phase.                           *)
LEMMA FlightSound ==
  ASSUME NEW s, NEW n, NEW last, Commanding(s, n, last), s \in SessionType,
         s.phase = D1, s.heard < Inputs
  PROVE  Sound(MaybeFinishTls(MaybeStartB0(FlightOpens(TlsPush(s)))), n, last)
<1>0. s.heard \in 0..Inputs /\ HelloInputs \in Nat /\ AtCommand(s, n, last)
      /\ D1 < TLS /\ s.phase \in Nat
  BY PhaseOrder, HandshakeAssumption DEF Commanding, SessionType
<1> DEFINE h == s.heard + 1
           a == Emitted(s.heard) b == Emitted(s.heard + 1)
           q == Rest(0, b)
           fl == s.flight \/ Rest(a, b) # <<>>
           w == [s EXCEPT !.queue = q, !.flight = fl, !.heard = h]
<1>1. 0 <= a
  BY <1>0, EmittedMeans
<1>2. /\ s.heard \in Nat /\ h \in 0..Inputs /\ a \in 0..Total /\ b \in 0..Total
      /\ Rest(0, a) \o Rest(a, b) = q /\ q \in Seq(1..Total)
      /\ (Rest(a, b) = <<>> <=> a = b)
  BY <1>0, <1>1, OutputIs
<1>3. fl <=> h >= HelloInputs
  <2>1. /\ s.heard < HelloInputs => a = 0
        /\ h < HelloInputs => b = 0 /\ s.heard < HelloInputs
        /\ h >= HelloInputs => b > 0
    BY <1>0, <1>2, EmittedMeans
  <2>2. s.flight <=> s.heard >= HelloInputs
    BY <1>0 DEF AtCommand
  <2> HIDE DEF a, b
  <2>3. CASE h < HelloInputs
    BY <1>0, <1>2, <2>1, <2>2, <2>3
  <2>4. CASE h >= HelloInputs
    BY <1>0, <1>2, <2>1, <2>2, <2>4
  <2> QED
    BY <1>0, <1>2, <2>3, <2>4
<1>4. s.queue = Rest(0, a)
  BY <1>0 DEF AtCommand
<1>5. TlsPush(s) = w
  <2>1. TlsOutput(s) = [s EXCEPT !.queue = s.queue \o Rest(a, b),
          !.flight = s.flight \/ (s.phase = D1 /\ Rest(a, b) # <<>>)]
    BY DEF TlsOutput, Rest
  <2> HIDE DEF a, b
  <2>2. TlsOutput(s) = [s EXCEPT !.queue = q, !.flight = fl]
    BY <1>2, <1>4, <2>1
  <2> HIDE DEF q, fl
  <2> QED
    BY <2>2 DEF TlsPush, SessionType
<1>6. fl \in BOOLEAN /\ q = Rest(0, Emitted(h))
  OBVIOUS
<1> HIDE DEF q, fl, h, a, b
<1>7. /\ w \in SessionType /\ w.phase = s.phase /\ w.heard = h /\ w.queue = q
      /\ w.flight = fl /\ w.started = s.started /\ w.submitted = s.submitted
      /\ w.at = s.at /\ w.owned = s.owned /\ w.fenced = s.fenced
      /\ w.record = s.record /\ w.count = s.count /\ w.pace = s.pace
      /\ w.out = s.out /\ w.transfer = s.transfer /\ w.done = s.done
  BY <1>2, <1>6 DEF SessionType
<1> HIDE DEF w
<1>8. CASE w.flight
  <2> DEFINE v == [w EXCEPT !.done = TRUE] y == AdvancePhase(v)
  <2>1. /\ v \in SessionType /\ v.phase = w.phase /\ v.heard = w.heard
        /\ v.queue = w.queue /\ v.flight = w.flight /\ v.started = w.started
        /\ v.submitted = w.submitted /\ v.at = w.at /\ v.owned = w.owned
        /\ v.fenced = w.fenced /\ v.record = w.record /\ v.count = w.count
        /\ v.pace = w.pace /\ v.out = w.out /\ v.transfer = w.transfer
        /\ v.done
    BY <1>7 DEF SessionType
  <2>2. FlightOpens(w) = AdvancePhase(v)
    BY <1>7, <1>8 DEF FlightOpens
  <2> HIDE DEF v
  <2>3. AtCommand(v, n, last)
    BY <1>0, <1>3, <1>6, <1>7, <1>8, <2>1 DEF AtCommand
  <2>4. Sound(y, n, last) /\ (y.phase < TLS \/ y.out # "none")
    BY <2>1, <2>3, AdvanceSound
  <2> HIDE DEF y
  <2>5. MaybeStartB0(y) = y
    BY <2>4 DEF MaybeStartB0
  <2>6. MaybeFinishTls(y) = y
    BY <2>4, PhaseOrder DEF MaybeFinishTls
  <2> QED
    BY <1>5, <2>2, <2>4, <2>5, <2>6 DEF y
<1>9. CASE ~w.flight
  <2>1. FlightOpens(w) = w
    BY <1>9 DEF FlightOpens
  <2>2. MaybeStartB0(w) = w /\ MaybeFinishTls(w) = w
    BY <1>0, <1>7, PhaseOrder DEF MaybeStartB0, MaybeFinishTls
  <2>3. ~w.done
    BY <1>0, <1>7, <1>9 DEF AtCommand, fl
  <2>4. AtCommand(w, n, last)
    BY <1>0, <1>3, <1>6, <1>7, <1>9, <2>3 DEF AtCommand
  <2> QED
    BY <1>5, <1>7, <2>1, <2>2, <2>3, <2>4 DEF Sound, Commanding
<1> QED
  BY <1>8, <1>9

(* Queued records wait for the timer, unless an OUT brings them back.       *)
LEMMA QueueSound ==
  ASSUME NEW s \in SessionType, NEW n, NEW last, AtRecord(s, n, last),
         s.out = "none" => s.count # 0
  PROVE  Sound(MaybeFinishTls(MaybeStartB0(s)), n, last)
<1> DEFINE v == MaybeStartB0(s) w == [s EXCEPT !.pace = TRUE]
<1>0. ~(s.phase < TLS) /\ s.phase # TERMINAL
  BY PhaseOrder DEF AtRecord
<1>1. CASE s.out # "none" \/ s.queue = <<>>
  <2>1. v = s
    BY <1>1 DEF MaybeStartB0
  <2> QED
    BY <1>1, <2>1, FinishSound
<1>2. CASE s.out = "none" /\ s.queue # <<>>
  <2>1. s.record = 0
    BY <1>2 DEF AtRecord
  <2>2. v = w
    BY <1>0, <1>2, <2>1 DEF MaybeStartB0, ScheduleNextRecord
  <2>3. /\ w \in SessionType /\ w.phase = s.phase /\ w.started = s.started
        /\ w.owned = s.owned /\ w.fenced = s.fenced /\ w.heard = s.heard
        /\ w.record = s.record /\ w.out = s.out /\ w.at = s.at
        /\ w.count = s.count /\ w.transfer = s.transfer /\ w.left = s.left
        /\ w.queue = s.queue /\ w.pace
    BY DEF SessionType
  <2> HIDE DEF w
  <2>4. AtRecord(w, n, last)
    BY <1>2, <2>1, <2>3 DEF AtRecord, Begun
  <2> QED
    BY <2>2, <2>3, <2>4, FinishSound
<1> QED
  BY <1>1, <1>2

(* In TLS what the server puts out joins the queue.                         *)
LEMMA PushSound ==
  ASSUME NEW s, NEW n, NEW last, Sending(s, n, last), s \in SessionType,
         s.heard < Inputs
  PROVE  Sound(MaybeFinishTls(MaybeStartB0(FlightOpens(TlsPush(s)))), n, last)
<1>0. /\ s.heard \in 0..Inputs /\ AtRecord(s, n, last) /\ s.phase = TLS
      /\ s.phase # D1 /\ ~(s.phase < TLS) /\ s.phase # TERMINAL
      /\ s.count \in Nat /\ s.record \in 0..Total /\ Total \in Nat
  BY PhaseOrder, HandshakeAssumption DEF Sending, AtRecord, SessionType
<1> DEFINE h == s.heard + 1 g == Begun(s)
           a == Emitted(s.heard) b == Emitted(s.heard + 1)
           q == Rest(g, b)
<1>1. g \in Nat /\ g <= a /\ s.queue = Rest(g, a)
  BY <1>0 DEF Begun, AtRecord
<1>2. /\ h \in 0..Inputs /\ s.heard \in Nat /\ a \in 0..Total /\ b \in 0..Total
      /\ a <= b /\ g <= b /\ Rest(g, a) \o Rest(a, b) = q
      /\ q \in Seq(1..Total) /\ (q = <<>> <=> g = b)
      /\ (Rest(a, b) = <<>> <=> a = b)
  <2> HIDE DEF g
  <2> QED
    BY <1>0, <1>1, OutputIs
<1>3. s.out = "none" => s.record = 0 /\ s.count # 0
  <2>1. a > 0
    BY <1>0, EmittedMeans DEF AtRecord
  <2>2. s.out = "none" /\ ~s.pace => s.queue = <<>>
    BY DEF Sending
  <2>3. s.out = "none" => s.record = 0
    BY <1>0 DEF AtRecord
  <2>4. s.out = "none" /\ ~s.pace => g = a
    <3> HIDE DEF g, a
    <3> QED
      BY <1>1, <1>2, <2>2, RestEmpty
  <2>5. s.pace => s.count # 0
    BY <1>0 DEF AtRecord
  <2> HIDE DEF a
  <2> QED
    BY <1>0, <2>1, <2>3, <2>4, <2>5 DEF Begun
<1> DEFINE fl == s.flight
           u == [s EXCEPT !.queue = q, !.flight = fl, !.heard = h]
           p == [s EXCEPT !.queue = q, !.flight = fl, !.heard = h,
                          !.pace = TRUE]
           k == [s EXCEPT !.queue = q, !.flight = fl]
<1>4. q = Rest(g, Emitted(h)) /\ fl = s.flight /\ fl \in BOOLEAN
  BY DEF SessionType
<1>5. TlsPush(s) = u \/ (TlsPush(s) = p /\ s.out = "none" /\ q # <<>>)
  <2>1. /\ s.queue \o Rest(a, b) = q
        /\ (s.flight \/ (s.phase = D1 /\ Rest(a, b) # <<>>)) = fl
    BY <1>0, <1>1, <1>2, <1>4
  <2>2. TlsOutput(s) = IF Rest(a, b) = <<>> THEN k ELSE MaybeStartB0(k)
    <3> DEFINE new == Rest(a, b)
               queued == [s EXCEPT !.queue = s.queue \o new,
                            !.flight = s.flight \/ (s.phase = D1 /\ new # <<>>)]
    <3>1. TlsOutput(s) =
            IF s.phase = D1 \/ new = <<>> THEN queued ELSE MaybeStartB0(queued)
      BY DEF TlsOutput, Rest
    <3> HIDE DEF new
    <3>2. queued = k
      BY <2>1 DEF new
    <3> HIDE DEF queued, k
    <3> QED
      BY <1>0, <3>1, <3>2 DEF new
  <2>3. Rest(a, b) # <<>> => q # <<>>
    <3> HIDE DEF g, a, b, q
    <3> QED
      BY <1>0, <1>1, <1>2
  <2> HIDE DEF q, fl
  <2>4. /\ k.phase = s.phase /\ k.out = s.out /\ k.record = s.record
        /\ k.queue = q /\ k.count = s.count
    BY DEF SessionType
  <2> DEFINE m == [k EXCEPT !.pace = TRUE]
  <2>5. [k EXCEPT !.heard = h] = u /\ [m EXCEPT !.heard = h] = p
    BY DEF SessionType
  <2> HIDE DEF k
  <2>6. MaybeStartB0(k) = k \/ (MaybeStartB0(k) = m /\ s.out = "none" /\ q # <<>>)
    BY <1>0, <1>3, <2>4 DEF MaybeStartB0, ScheduleNextRecord
  <2> HIDE DEF m, u, p
  <2> QED
    BY <2>2, <2>5, <2>6 DEF TlsPush
<1> HIDE DEF q, fl, h, a, b, g
<1> DEFINE w == TlsPush(s)
<1>6. /\ w \in SessionType /\ w.phase = s.phase /\ w.heard = h /\ w.queue = q
      /\ w.started = s.started /\ w.at = s.at /\ w.owned = s.owned
      /\ w.fenced = s.fenced /\ w.record = s.record /\ w.count = s.count
      /\ w.out = s.out /\ w.transfer = s.transfer /\ w.left = s.left
      /\ w.pace => s.pace \/ (s.out = "none" /\ q # <<>>)
  <2>1. CASE w = u
    <3> HIDE DEF w
    <3> QED
      BY <1>2, <1>4, <2>1 DEF SessionType
  <2>2. CASE w = p /\ s.out = "none" /\ q # <<>>
    <3> HIDE DEF w
    <3> QED
      BY <1>2, <1>4, <2>2 DEF SessionType
  <2> QED
    BY <1>5, <2>1, <2>2
<1> HIDE DEF w
<1>7. AtRecord(w, n, last)
  <2>1. Begun(w) = g /\ Begun(w) <= Emitted(w.heard)
        /\ w.queue = Rest(Begun(w), Emitted(w.heard))
    BY <1>2, <1>4, <1>6 DEF Begun, g, b, h
  <2>2. w.heard \in HelloInputs..Inputs
    BY <1>0, <1>2, <1>6, HandshakeAssumption DEF AtRecord, h
  <2>3. w.pace => w.count # 0 /\ w.queue # <<>>
    <3>1. s.pace => s.out = "none" /\ s.queue # <<>> /\ s.count # 0
      BY <1>0 DEF AtRecord
    <3>2. s.pace => q # <<>>
      <4>1. s.pace => g # a
        BY <1>0, <1>1, <1>2, <3>1, RestIs
      <4> QED
        BY <1>0, <1>1, <1>2, <4>1
    <3> QED
      BY <1>3, <1>6, <3>1, <3>2
  <2>4. w.pace => w.out = "none"
    BY <1>0, <1>6 DEF AtRecord
  <2> QED
    BY <1>0, <1>6, <2>1, <2>2, <2>3, <2>4 DEF AtRecord
<1>8. FlightOpens(w) = w
  BY <1>0, <1>6 DEF FlightOpens
<1>9. Sound(MaybeFinishTls(MaybeStartB0(w)), n, last)
  BY <1>3, <1>6, <1>7, QueueSound
<1> QED
  BY <1>8, <1>9 DEF w

LEMMA B0Sound ==
  ASSUME NEW s, NEW n \in Nat, NEW last, Sound(s, n, last), NEW f \in B0Frames,
         s.started, ~s.fenced
  PROVE  Sound(HandleB0(s, f), n, last)
<1>0. s \in SessionType /\ s.heard \in 0..Inputs
  BY DEF Sound, SessionType
<1>1. s.phase # TERMINAL
  BY PhaseOrder DEF Sound, Unstarted, NewSession, Commanding, AtCommand,
                    Sending, AtRecord, Stopped, Failed
<1>2. Sound(Fail(s), n, last)
  BY <1>0, <1>1, FlyingFits, FailSound
<1>3. CASE s.phase < D1 \/ f # TlsRecord(s.heard + 1)
  BY <1>1, <1>2, <1>3 DEF HandleB0
<1>4. CASE ~(s.phase < D1 \/ f # TlsRecord(s.heard + 1))
  <2>1. HandleB0(s, f) =
          MaybeFinishTls(MaybeStartB0(FlightOpens(TlsPush(s))))
    BY <1>1, <1>4 DEF HandleB0
  <2>2. s.heard < Inputs
    BY <1>0, <1>4, HandshakeAssumption
       DEF B0Frames, TlsRecord, Garbage
  <2>3. Commanding(s, n, last) \/ Sending(s, n, last)
    BY <1>0, <1>1, <2>2, HandshakeAssumption
       DEF Sound, Unstarted, NewSession, Stopped, Failed
  <2>4. CASE Commanding(s, n, last)
    <3>1. s.phase = D1
      BY <1>4, <2>4, PhaseOrder DEF Commanding, AtCommand
    <3> QED
      BY <1>0, <2>1, <2>2, <2>4, <3>1, FlightSound
  <2>5. CASE Sending(s, n, last)
    BY <1>0, <2>1, <2>2, <2>5, PushSound
  <2> QED
    BY <2>3, <2>4, <2>5
<1> QED
  BY <1>3, <1>4

LEMMA PaceSound ==
  ASSUME NEW s, NEW n, NEW last, Sound(s, n, last), s.pace
  PROVE  Sound(MaybeFinishTls(StartNextRecordNow([s EXCEPT !.pace = FALSE])),
               n, last)
<1>0. s \in SessionType
  BY DEF Sound
<1>1. AtRecord(s, n, last)
  BY DEF Sound, Unstarted, NewSession, Commanding, AtCommand, Sending, Stopped,
         Failed
<1>2. s.record = 0 /\ s.queue # <<>>
  BY <1>1 DEF AtRecord
<1> DEFINE u == [s EXCEPT !.pace = FALSE] v == StartNextRecordNow(u)
<1>3. /\ u \in SessionType /\ u.phase = s.phase /\ u.started = s.started
      /\ u.owned = s.owned /\ u.fenced = s.fenced /\ u.heard = s.heard
      /\ u.record = s.record /\ u.out = s.out /\ u.at = s.at
      /\ u.count = s.count /\ u.queue = s.queue /\ ~u.pace
  BY <1>0 DEF SessionType
<1> HIDE DEF u
<1>4. AtRecord(u, n, last)
  BY <1>1, <1>2, <1>3 DEF AtRecord, Begun
<1>5. Sound(v, n, last) /\ v.out # "none"
  BY <1>2, <1>3, <1>4, StartSound
<1> HIDE DEF v
<1>6. MaybeFinishTls(v) = v
  BY <1>5 DEF MaybeFinishTls
<1> QED
  BY <1>5, <1>6 DEF u, v

LEMMA FenceSound ==
  ASSUME NEW s, NEW n \in Nat, NEW last, Sound(s, n, last), ~s.fenced
  PROVE  Sound(IF s.phase = STOP THEN [s EXCEPT !.fenced = TRUE] ELSE Fail(s),
               n, last)
<1>0. s \in SessionType
  BY DEF Sound
<1>1. s.phase # TERMINAL
  BY PhaseOrder DEF Sound, Unstarted, NewSession, Commanding, AtCommand,
                    Sending, AtRecord, Stopped, Failed
<1>2. CASE s.phase # STOP
  BY <1>0, <1>1, <1>2, FlyingFits, FailSound
<1>3. CASE s.phase = STOP
  <2> DEFINE u == [s EXCEPT !.fenced = TRUE]
  <2>1. Stopped(s, n, last)
    BY <1>1, <1>3, PhaseOrder
       DEF Sound, Unstarted, NewSession, Commanding, AtCommand, Sending,
           AtRecord, Failed
  <2>2. /\ u \in SessionType /\ u.phase = s.phase /\ u.started = s.started
        /\ u.heard = s.heard /\ u.out = s.out /\ u.at = s.at
        /\ u.record = s.record /\ u.queue = s.queue /\ u.pace = s.pace
        /\ u.promotes = s.promotes /\ u.owned = s.owned
    BY <1>0 DEF SessionType
  <2> HIDE DEF u
  <2>3. Stopped(u, n, last)
    BY <2>1, <2>2 DEF Stopped
  <2> QED
    BY <1>3, <2>2, <2>3 DEF Sound, u
<1> QED
  BY <1>2, <1>3

LEMMA TakeSound ==
  ASSUME NEW s, NEW n \in Nat, NEW last, Sound(s, n, last), s.at = "flying"
  PROVE  Sound([s EXCEPT !.at = "taken"],
               IF s.transfer.kind = "a0" THEN n + 1 ELSE n,
               IF s.transfer.kind = "b0" THEN s.transfer ELSE last)
<1>0. s \in SessionType
  BY DEF Sound
<1> DEFINE u == [s EXCEPT !.at = "taken"]
<1>1. /\ u \in SessionType /\ u.at = "taken" /\ u.phase = s.phase
      /\ u.started = s.started /\ u.submitted = s.submitted
      /\ u.done = s.done /\ u.owned = s.owned /\ u.fenced = s.fenced
      /\ u.record = s.record /\ u.count = s.count /\ u.pace = s.pace
      /\ u.flight = s.flight /\ u.heard = s.heard /\ u.queue = s.queue
      /\ u.left = s.left /\ u.out = s.out /\ u.transfer = s.transfer
  BY <1>0 DEF SessionType
<1> HIDE DEF u
<1>2. CASE Commanding(s, n, last)
  <2>1. s.transfer.kind = "a0"
    BY <1>2 DEF Commanding, AtCommand, Transfer
  <2>2. n = s.phase - 1 /\ s.phase \in 1..D1 /\ D1 \in Nat
    BY <1>2, PhaseOrder DEF Commanding, AtCommand
  <2>3. n + 1 = s.phase
    BY <2>2
  <2>4. Commanding(u, n + 1, last)
    BY <1>1, <1>2, <2>3 DEF Commanding, AtCommand
  <2> QED
    BY <1>1, <2>1, <2>4 DEF Sound, u
<1>3. CASE Sending(s, n, last)
  <2>1. s.transfer.kind = "b0"
    BY <1>3 DEF Sending, AtRecord, Transfer
  <2>2. Sending(u, n, s.transfer)
    BY <1>1, <1>3 DEF Sending, AtRecord, Begun
  <2> QED
    BY <1>1, <2>1, <2>2 DEF Sound, u
<1>4. CASE Failed(s, n, last)
  <2> DEFINE m == IF s.transfer.kind = "a0" THEN n + 1 ELSE n
             t == IF s.transfer.kind = "b0" THEN s.transfer ELSE last
  <2> HIDE DEF m, t
  <2>1. Failed(u, m, t)
    BY <1>1, <1>4 DEF Failed
  <2> QED
    BY <1>1, <2>1 DEF Sound, u, m, t
<1>5. Commanding(s, n, last) \/ Sending(s, n, last) \/ Failed(s, n, last)
  BY DEF Sound, Unstarted, NewSession, Stopped
<1> QED
  BY <1>2, <1>3, <1>4, <1>5

-----------------------------------------------------------------------------
(* The reader.                                                              *)

LEMMA ReplyType ==
  ASSUME NEW t \in TransferType
  PROVE  Reply(t) \in Seq(A0Frames \cup B0Frames)
<1> DEFINE F == A0Frames \cup B0Frames
<1>1. CASE t.kind = "a0" /\ t.number \in 1..LastCommand
  <2>1. Ack(Control[t.number]) \in F /\ Typed(Control[t.number]) \in F
    BY <1>1 DEF A0Frames, Controls
  <2>2. Reply(t) = IF t.number \in AckOnly THEN <<Ack(Control[t.number])>>
                   ELSE <<Ack(Control[t.number]), Typed(Control[t.number])>>
    BY <1>1, PhaseOrder DEF Reply
  <2> DEFINE x == Ack(Control[t.number]) y == Typed(Control[t.number])
  <2> HIDE DEF F, x, y
  <2>3. <<x>> \in Seq(F) /\ <<x, y>> \in Seq(F)
    BY <2>1 DEF x, y
  <2>4. Reply(t) = <<x>> \/ Reply(t) = <<x, y>>
    BY <2>2 DEF x, y
  <2> QED
    BY <2>3, <2>4 DEF F
<1>2. CASE t.kind = "a0" /\ t.number = D1
  <2>1. Reply(t) = [i \in 1..HelloInputs |-> TlsRecord(i)]
    BY <1>2, PhaseOrder DEF Reply
  <2>2. \A i \in 1..HelloInputs : TlsRecord(i) \in F
    BY HandshakeAssumption DEF B0Frames
  <2> HIDE DEF F
  <2>3. Reply(t) \in [1..HelloInputs -> F] /\ HelloInputs \in Nat
    BY <2>1, <2>2, HandshakeAssumption
  <2> QED
    BY <2>3, SeqDef DEF F
<1>3. CASE t.kind = "b0" /\ t.number = Hello /\ t.rest = 0
  <2>1. Reply(t) =
          [i \in 1..(Inputs - HelloInputs) |-> TlsRecord(HelloInputs + i)]
    BY <1>3 DEF Reply
  <2>2. \A i \in 1..(Inputs - HelloInputs) : TlsRecord(HelloInputs + i) \in F
    BY HandshakeAssumption DEF B0Frames
  <2> DEFINE k == Inputs - HelloInputs
  <2>4. k \in Nat
    BY HandshakeAssumption
  <2> HIDE DEF F, k
  <2>3. Reply(t) \in [1..k -> F]
    BY <2>1, <2>2 DEF k
  <2> QED
    BY <2>3, <2>4, SeqDef DEF F
<1>4. CASE Reply(t) = <<>>
  <2> HIDE DEF F
  <2> QED
    BY <1>4 DEF F
<1> QED
  BY <1>1, <1>2, <1>3, <1>4, PhaseOrder DEF Reply

(* What the reader takes follows what it got.                               *)
LEMMA TakesInOrder ==
  ASSUME IInv, ReaderTakes
  PROVE  IInv'
<1> DEFINE t == session.transfer n == Len(reader.commands)
           last == Last(reader.got)
           isA == t.kind = "a0" isB == t.kind = "b0"
           commands == IF isA THEN Append(reader.commands, t.number)
                       ELSE reader.commands
           got == IF isB THEN Append(reader.got, t) ELSE reader.got
           due == reader.due \o Reply(t)
<1>1. /\ reader.commands \in Seq(1..D1) /\ reader.got \in Seq(TransferType)
      /\ reader.due \in Seq(A0Frames \cup B0Frames)
      /\ \A i \in 1..Len(reader.commands) : reader.commands[i] = i
      /\ \A i \in 1..Len(reader.got) :
           FollowsChunk(IF i = 1 THEN Origin ELSE reader.got[i - 1],
                        reader.got[i])
      /\ Sound(session, n, last) /\ session.at = "flying"
  BY DEF IInv, ReaderInv, ReaderTakes
<1>2. n \in Nat /\ t \in TransferType /\ Len(reader.got) \in Nat
  BY <1>1, LenProperties DEF Sound, SessionType
<1>3. Fits(t, n, last)
  BY <1>1, <1>2, FlyingFits
<1>4. /\ session' = [session EXCEPT !.at = "taken"]
      /\ reader' = [commands |-> commands, got |-> got, due |-> due]
      /\ errors' = errors
  BY DEF ReaderTakes
<1>5. due \in Seq(A0Frames \cup B0Frames)
  BY <1>1, <1>2, ReplyType
<1>6. /\ commands \in Seq(1..D1)
      /\ \A i \in 1..Len(commands) : commands[i] = i
      /\ Len(commands) = IF isA THEN n + 1 ELSE n
  <2>1. CASE isA
    <3> DEFINE k == t.number
    <3>1. k \in 1..D1 /\ k = n + 1
      BY <1>3, <2>1 DEF Fits
    <3> HIDE DEF k, t
    <3>2. /\ Append(reader.commands, k) \in Seq(1..D1)
          /\ Len(Append(reader.commands, k)) = n + 1
          /\ \A i \in 1..n : Append(reader.commands, k)[i] = reader.commands[i]
          /\ Append(reader.commands, k)[n + 1] = k
      BY <1>1, <3>1, AppendProperties
    <3>3. commands = Append(reader.commands, k)
      BY <2>1 DEF k
    <3> QED
      BY <1>1, <1>2, <2>1, <3>1, <3>2, <3>3
  <2>2. CASE ~isA
    BY <1>1, <2>2
  <2> QED
    BY <2>1, <2>2
<1>7. /\ got \in Seq(TransferType)
      /\ \A i \in 1..Len(got) :
           FollowsChunk(IF i = 1 THEN Origin ELSE got[i - 1], got[i])
      /\ Last(got) = IF isB THEN t ELSE last
  <2>1. CASE isB
    <3> DEFINE m == Len(reader.got) g == Append(reader.got, t)
    <3>1. FollowsChunk(last, t)
      BY <1>3, <2>1 DEF Fits
    <3>2. last = IF m = 0 THEN Origin ELSE reader.got[m]
      BY <1>1, EmptySeq DEF Last
    <3>3. got = g
      BY <2>1
    <3> HIDE DEF t, last, g, got
    <3>4. /\ g \in Seq(TransferType) /\ Len(g) = m + 1 /\ g[m + 1] = t
          /\ \A i \in 1..m : g[i] = reader.got[i]
      BY <1>1, <1>2, AppendProperties DEF g
    <3>5. \A i \in 1..(m + 1) :
            FollowsChunk(IF i = 1 THEN Origin ELSE g[i - 1], g[i])
      <4> SUFFICES ASSUME NEW i \in 1..(m + 1)
                   PROVE  FollowsChunk(IF i = 1 THEN Origin ELSE g[i - 1], g[i])
        OBVIOUS
      <4>1. CASE i = m + 1
        <5>1. (IF i = 1 THEN Origin ELSE g[i - 1]) = last
          BY <1>2, <3>2, <3>4, <4>1
        <5> QED
          BY <3>1, <3>4, <4>1, <5>1
      <4>2. CASE i # m + 1
        <5>1. i \in 1..m /\ (i # 1 => i - 1 \in 1..m)
          BY <1>2, <4>2
        <5>2. (IF i = 1 THEN Origin ELSE g[i - 1]) =
                IF i = 1 THEN Origin ELSE reader.got[i - 1]
          BY <3>4, <5>1
        <5> QED
          BY <1>1, <3>4, <5>1, <5>2
      <4> QED
        BY <4>1, <4>2
    <3>6. Last(g) = t
      <4>1. g # <<>>
        BY <1>2, <3>4
      <4> QED
        BY <3>4, <4>1 DEF Last
    <3> QED
      BY <2>1, <3>3, <3>4, <3>5, <3>6
  <2>2. CASE ~isB
    BY <1>1, <2>2
  <2> QED
    BY <2>1, <2>2
<1>8. Sound(session', Len(commands), Last(got))
  BY <1>1, <1>2, <1>4, <1>6, <1>7, TakeSound
<1> HIDE DEF commands, got, due
<1>9. /\ reader'.commands = commands /\ reader'.got = got /\ reader'.due = due
      /\ reader' = [commands |-> reader'.commands, got |-> reader'.got,
                    due |-> reader'.due]
  BY <1>4
<1> QED
  BY <1>4, <1>5, <1>6, <1>7, <1>8, <1>9 DEF IInv, ReaderInv

-----------------------------------------------------------------------------
(* The invariant.                                                           *)

LEMMA FreshInv ==
  ASSUME NEW promotes \in BOOLEAN, NEW r, r = FreshReader
  PROVE  /\ Sound(NewSession(promotes), Len(r.commands), Last(r.got))
         /\ r = [commands |-> r.commands, got |-> r.got, due |-> r.due]
         /\ r.commands \in Seq(1..D1) /\ r.got \in Seq(TransferType)
         /\ r.due \in Seq(A0Frames \cup B0Frames)
         /\ Len(r.commands) = 0 /\ Len(r.got) = 0 /\ 0 \in 0..MaxErrors
<1>1. r.commands = <<>> /\ r.got = <<>> /\ r.due = <<>>
  BY DEF FreshReader
<1>2. Len(r.commands) = 0 /\ Len(r.got) = 0 /\ Last(r.got) = Origin
  BY <1>1 DEF Last
<1>3. Sound(NewSession(promotes), Len(r.commands), Last(r.got))
  BY <1>2, NewSound
<1>4. r = [commands |-> r.commands, got |-> r.got, due |-> r.due]
  BY <1>1 DEF FreshReader
<1>5. /\ r.commands \in Seq(1..D1) /\ r.got \in Seq(TransferType)
      /\ r.due \in Seq(A0Frames \cup B0Frames)
  BY <1>1
<1>6. 0 \in 0..MaxErrors
  BY BoundAssumption
<1> QED
  BY <1>2, <1>3, <1>4, <1>5, <1>6

(* A step of the host alone keeps the reader's side.                        *)
LEMMA HostStep ==
  ASSUME IInv, UNCHANGED reader,
         Sound(session', Len(reader.commands), Last(reader.got)),
         errors' \in 0..MaxErrors
  PROVE  IInv'
BY DEF IInv, ReaderInv

LEMMA FrameStep ==
  ASSUME IInv, reader.due # <<>>, reader' = [reader EXCEPT !.due = Tail(@)],
         Sound(session', Len(reader.commands), Last(reader.got)),
         errors' \in 0..MaxErrors
  PROVE  IInv'
<1>1. Tail(reader.due) \in Seq(A0Frames \cup B0Frames)
  BY HeadTailProperties DEF IInv, ReaderInv
<1>2. /\ reader'.commands = reader.commands /\ reader'.got = reader.got
      /\ reader'.due = Tail(reader.due)
      /\ reader' = [commands |-> reader'.commands, got |-> reader'.got,
                    due |-> reader'.due]
  BY DEF IInv, ReaderInv
<1> QED
  BY <1>1, <1>2 DEF IInv, ReaderInv

LEMMA ErrStep ==
  ASSUME IInv, ReaderErrs
  PROVE  IInv'
<1>1. /\ session' = session /\ errors' = errors + 1 /\ errors < MaxErrors
      /\ reader.due \in Seq(A0Frames \cup B0Frames) /\ errors \in 0..MaxErrors
  BY DEF ReaderErrs, IInv, ReaderInv
<1>2. errors' \in 0..MaxErrors
  BY <1>1, BoundAssumption
<1>3. PICK due \in Seq(A0Frames \cup B0Frames) :
        reader' = [reader EXCEPT !.due = due]
  <2>1. CASE \E f \in A0Frames \cup B0Frames :
               \/ reader' = [reader EXCEPT !.due = <<f>> \o @]
               \/ reader' = [reader EXCEPT !.due = Append(@, f)]
    <3>1. PICK f \in A0Frames \cup B0Frames :
               \/ reader' = [reader EXCEPT !.due = <<f>> \o @]
               \/ reader' = [reader EXCEPT !.due = Append(@, f)]
      BY <2>1
    <3>2. /\ <<f>> \o reader.due \in Seq(A0Frames \cup B0Frames)
          /\ Append(reader.due, f) \in Seq(A0Frames \cup B0Frames)
      <4> DEFINE F == A0Frames \cup B0Frames
      <4> HIDE DEF F
      <4>1. f \in F /\ reader.due \in Seq(F)
        BY <1>1 DEF F
      <4>2. <<f>> \o reader.due \in Seq(F) /\ Append(reader.due, f) \in Seq(F)
        BY <4>1, ConcatProperties, AppendProperties
      <4> QED
        BY <4>2 DEF F
    <3> QED
      BY <3>1, <3>2
  <2>2. CASE reader.due # <<>> /\ reader' = [reader EXCEPT !.due = Tail(@)]
    BY <1>1, <2>2, HeadTailProperties
  <2> QED
    BY <2>1, <2>2 DEF ReaderErrs
<1>4. /\ reader'.commands = reader.commands /\ reader'.got = reader.got
      /\ reader'.due = due
      /\ reader' = [commands |-> reader'.commands, got |-> reader'.got,
                    due |-> reader'.due]
  BY <1>3 DEF IInv, ReaderInv
<1> QED
  BY <1>1, <1>2, <1>4 DEF IInv, ReaderInv

LEMMA InitInv == Init => IInv
<1> SUFFICES ASSUME Init PROVE IInv
  OBVIOUS
<1>1. PICK promotes \in BOOLEAN : session = NewSession(promotes)
  BY DEF Init
<1>2. reader = FreshReader /\ errors = 0
  BY DEF Init
<1> QED
  BY <1>1, <1>2, FreshInv DEF IInv, ReaderInv

LEMMA StepInv == IInv /\ [Next]_vars => IInv'
<1> SUFFICES ASSUME IInv, [Next]_vars PROVE IInv'
  OBVIOUS
<1> DEFINE n == Len(reader.commands) last == Last(reader.got)
<1>0. /\ Sound(session, n, last) /\ n \in Nat /\ errors \in 0..MaxErrors
      /\ reader.due \in Seq(A0Frames \cup B0Frames)
  BY LenProperties DEF IInv, ReaderInv
<1> HIDE DEF n, last
<1>1. CASE Start
  <2>1. Sound(session', n, last)
    BY <1>0, <1>1, StartsSound DEF Start
  <2> QED
    BY <1>0, <1>1, <2>1, HostStep DEF Start, n, last
<1>2. CASE OutCompletes
  <2>1. Sound(session', n, last)
    BY <1>0, <1>2, CompleteSound DEF OutCompletes
  <2> QED
    BY <1>0, <1>2, <2>1, HostStep DEF OutCompletes, n, last
<1>3. CASE OutFails
  <2>1. Sound(session', n, last)
    BY <1>0, <1>3, OutFailureSound DEF OutFails
  <2>2. errors' \in 0..MaxErrors
    BY <1>0, <1>3, BoundAssumption DEF OutFails
  <2> QED
    BY <1>3, <2>1, <2>2, HostStep DEF OutFails, n, last
<1>4. CASE ReceiveA0
  <2>1. Sound(session', n, last)
    BY <1>0, <1>4, A0Sound DEF ReceiveA0
  <2> QED
    BY <1>0, <1>4, <2>1, FrameStep DEF ReceiveA0, n, last
<1>5. CASE ReceiveB0
  <2>1. Sound(session', n, last)
    BY <1>0, <1>5, B0Sound DEF ReceiveB0
  <2> QED
    BY <1>0, <1>5, <2>1, FrameStep DEF ReceiveB0, n, last
<1>6. CASE PacingReady
  <2>1. Sound(session', n, last)
    BY <1>0, <1>6, PaceSound DEF PacingReady
  <2> QED
    BY <1>0, <1>6, <2>1, HostStep DEF PacingReady, n, last
<1>7. CASE Fence
  <2>1. Sound(session', n, last)
    BY <1>0, <1>7, FenceSound DEF Fence
  <2> QED
    BY <1>0, <1>7, <2>1, HostStep DEF Fence, n, last
<1>8. CASE Renew
  <2>1. PICK promotes \in BOOLEAN : session' = NewSession(promotes)
    BY <1>8 DEF Renew
  <2>2. reader' = FreshReader /\ errors' = 0
    BY <1>8 DEF Renew
  <2>3. /\ Sound(session', Len(reader'.commands), Last(reader'.got))
        /\ reader' = [commands |-> reader'.commands, got |-> reader'.got,
                      due |-> reader'.due]
        /\ reader'.commands \in Seq(1..D1) /\ reader'.got \in Seq(TransferType)
        /\ reader'.due \in Seq(A0Frames \cup B0Frames)
        /\ Len(reader'.commands) = 0 /\ Len(reader'.got) = 0
        /\ errors' \in 0..MaxErrors
    BY <2>1, <2>2, FreshInv
  <2> QED
    BY <2>3 DEF IInv, ReaderInv
<1>9. CASE ReaderTakes
  BY <1>9, TakesInOrder
<1>10. CASE ReaderErrs
  BY <1>10, ErrStep
<1>11. CASE UNCHANGED vars
  BY <1>11 DEF IInv, ReaderInv, vars
<1> QED
  BY <1>1, <1>2, <1>3, <1>4, <1>5, <1>6, <1>7, <1>8, <1>9, <1>10, <1>11
     DEF Next

LEMMA SpecInv == Spec => []IInv
BY InitInv, StepInv, PTL DEF Spec

-----------------------------------------------------------------------------
(* Results.                                                                 *)

(* The session and the reader are always what their declarations say:       *)
(* advance_phase() and maybe_start_b0() never leave the list of commands,   *)
(* and no record is begun that the TLS server has not put out.              *)
THEOREM AlwaysTypeOK == Spec => []TypeOK
<1>1. IInv => TypeOK
  BY DEF IInv, ReaderInv, Sound, TypeOK
<1> QED
  BY <1>1, SpecInv, PTL

(* Whatever is left to do in a session, something is under way that will do *)
(* it, however frames, OUT completions, the pacing timer and the fence      *)
(* interleave: no return of advance_phase(), maybe_start_b0() and           *)
(* maybe_finish_tls() waits for a callback that will not come, and the      *)
(* timer runs only over a queue that nothing else drains.                   *)
THEOREM AlwaysNeverStalled == Spec => []NeverStalled
<1>1. IInv => NeverStalled
  <2> SUFFICES ASSUME IInv PROVE NeverStalled
    OBVIOUS
  <2> DEFINE n == Len(reader.commands) last == Last(reader.got)
  <2>0. Sound(session, n, last)
    BY DEF IInv
  <2> HIDE DEF n, last
  <2>1. CASE Unstarted(session, n, last)
    BY <2>1 DEF Unstarted, NewSession, NeverStalled
  <2>2. CASE Commanding(session, n, last)
    BY <2>2, PhaseOrder DEF Commanding, AtCommand, NeverStalled
  <2>3. CASE Sending(session, n, last)
    <3>1. session.record # 0 => session.out = "b0"
      BY <2>3 DEF Sending, AtRecord
    <3>2. /\ session.queue # <<>> => session.out # "none" \/ session.pace
          /\ Established(session) => session.out # "none" \/ session.pace
      BY <2>3 DEF Sending
    <3>3. session.out # "none" => session.at # "idle"
      BY <2>3 DEF Sending, AtRecord
    <3>4. session.pace => /\ session.phase = TLS /\ ~session.fenced
                          /\ session.out = "none" /\ session.record = 0
                          /\ session.queue # <<>>
      BY <2>3 DEF Sending, AtRecord
    <3>5. session.phase = TLS /\ session.phase # STOP /\ session.phase \notin 1..D1
      BY <2>3, PhaseOrder DEF Sending, AtRecord
    <3> QED
      BY <3>1, <3>2, <3>3, <3>4, <3>5 DEF NeverStalled
  <2>4. CASE Stopped(session, n, last)
    BY <2>4, PhaseOrder DEF Stopped, NeverStalled
  <2>5. CASE Failed(session, n, last)
    BY <2>5, PhaseOrder DEF Failed, NeverStalled
  <2> QED
    BY <2>0, <2>1, <2>2, <2>3, <2>4, <2>5 DEF Sound
<1> QED
  BY <1>1, SpecInv, PTL

(* The reader gets a beginning of the TLS server's stream, chunk by chunk   *)
(* and all of it before the session stops, and each command once and in     *)
(* turn, however the handshake is divided into records and chunks and       *)
(* whatever frames the reader sends, repeats or loses.                      *)
THEOREM AlwaysInOrder == Spec => []InOrder
<1>1. IInv => InOrder
  <2> SUFFICES ASSUME IInv PROVE InOrder
    OBVIOUS
  <2> DEFINE n == Len(reader.commands) last == Last(reader.got)
  <2>0. /\ Sound(session, n, last) /\ n \in Nat
        /\ \A i \in 1..Len(reader.commands) : reader.commands[i] = i
        /\ \A i \in 1..Len(reader.got) :
             FollowsChunk(IF i = 1 THEN Origin ELSE reader.got[i - 1],
                          reader.got[i])
    BY LenProperties DEF IInv, ReaderInv
  <2>1. session.phase = STOP => last = Transfer("b0", Total, 0)
    BY <2>0, PhaseOrder
       DEF Sound, Unstarted, NewSession, Commanding, AtCommand, Sending,
           AtRecord, Stopped, Failed
  <2>2. session.phase = STOP =>
          /\ reader.got # <<>>
          /\ reader.got[Len(reader.got)] = Transfer("b0", Total, 0)
    <3>1. Origin # Transfer("b0", Total, 0)
      BY HandshakeAssumption DEF Origin, Transfer
    <3> QED
      BY <2>1, <3>1 DEF Last
  <2>3. ASSUME NEW c \in 1..D1, session.phase \in (c + 1)..STOP
        PROVE  n >= c
    <3> HIDE DEF n, last
    <3>1. CASE Unstarted(session, n, last)
      BY <2>3, <3>1, PhaseOrder DEF Unstarted, NewSession
    <3>2. CASE Commanding(session, n, last)
      BY <2>0, <2>3, <3>2, PhaseOrder DEF Commanding, AtCommand
    <3>3. CASE n = D1
      BY <2>3, <3>3, PhaseOrder
    <3>4. CASE Failed(session, n, last)
      BY <2>3, <3>4, PhaseOrder DEF Failed
    <3> QED
      BY <2>0, <3>1, <3>2, <3>3, <3>4 DEF Sound, Sending, AtRecord, Stopped
  <2> QED
    BY <2>0, <2>2, <2>3 DEF InOrder, Origin
<1> QED
  BY <1>1, SpecInv, PTL

==============================================================================
