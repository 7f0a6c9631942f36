---------------------------- MODULE SecureSession ----------------------------
(****************************************************************************)
(* The secure session, libfprint-driver/goodix_secure_session.c, with the   *)
(* TLS server it drives (goodix_tls_server.c) and the reader it talks to.   *)
(*                                                                          *)
(* The session sends a fixed list of commands, one at a time; a command is  *)
(* over when it was answered AND its OUT transfer returned, in either       *)
(* order.  The last one, D1, makes the reader open a TLS handshake.  The    *)
(* records of the TLS server are queued, cut into chunks of 64 bytes, and   *)
(* paced: every record but the first waits for a timer.  Frames, the return *)
(* of the OUT transfer, the timer and a cancellation come in any order.     *)
(*                                                                          *)
(* An operator named for a C function maps the session to the session after *)
(* that function returned.  goodix_fpi_usb_backend_submit_out() fails only  *)
(* while an OUT is under way or after a fence; the session checks the       *)
(* former and is never active under the latter, so submissions succeed.     *)
(****************************************************************************)
EXTENDS Naturals, Sequences

CONSTANTS
  Control,      \* Control[c] is the control byte of the c-th command
  AckOnly,      \* the commands that are answered by an ACK alone
  HelloInputs,  \* the TLS records from the reader up to its whole ClientHello,
  Inputs,       \* and in all
  Hello,        \* the TLS records the server answers the ClientHello with,
  Total,        \* and in all
  Chunks,       \* Chunks[r] is the number of OUT transfers record r takes
  MaxErrors     \* bound on misbehaviour of the reader and of its cable

LastCommand == Len(Control)
D1 == LastCommand + 1
TLS == LastCommand + 2
STOP == LastCommand + 3
TERMINAL == LastCommand + 4

ASSUME CommandAssumption ==
  Len(Control) \in Nat \ {0} /\ AckOnly \subseteq 1..LastCommand
ASSUME HandshakeAssumption ==
  /\ HelloInputs \in Nat \ {0} /\ Inputs \in Nat /\ HelloInputs < Inputs
  /\ Hello \in Nat \ {0} /\ Total \in Nat /\ Hello < Total
  /\ Chunks \in [1..Total -> Nat \ {0}]
ASSUME BoundAssumption == MaxErrors \in Nat

VARIABLES
  session,  \* GoodixSecureSession with its OUT endpoint and its context's fence
  reader,   \* what the reader executed and received, and its frames under way
  errors    \* how often reader or cable misbehaved in this session

vars == <<session, reader, errors>>

-----------------------------------------------------------------------------
(* Frames from the reader, and transfers to it.                             *)

Ack(c) == [kind |-> "ack", of |-> c]
Typed(c) == [kind |-> "typed", of |-> c]
TlsRecord(i) == [kind |-> "tls", of |-> i]
Garbage(kind) == [kind |-> kind, of |-> 0]  \* fails a check of its handler

Controls == {Control[c] : c \in 1..LastCommand}
A0Frames == {Ack(c) : c \in Controls} \cup {Typed(c) : c \in Controls}
            \cup {Garbage("a0")}
B0Frames == {TlsRecord(i) : i \in 1..Inputs} \cup {Garbage("b0")}

(* A command, or a chunk of a record that leaves "rest" more to send.       *)
Transfer(kind, number, rest) ==
  [kind |-> kind, number |-> number, rest |-> rest]
NoTransfer == Transfer("none", 0, 0)

(* The records the TLS server has put out once it heard i inputs.           *)
Emitted(i) ==
  CASE i < HelloInputs -> 0
    [] i \in HelloInputs..(Inputs - 1) -> Hello
    [] i = Inputs -> Total

Established(s) == s.heard = Inputs

-----------------------------------------------------------------------------
(* The session.  "at" is where its OUT transfer is: none, under way, or     *)
(* received by the reader and not yet returned to the host.                 *)

NewSession(promotes) ==
  [phase |-> 1, started |-> FALSE, ack |-> FALSE, done |-> FALSE,
   submitted |-> FALSE, out |-> "none", at |-> "idle",
   transfer |-> NoTransfer, queue |-> <<>>, record |-> 0, left |-> 0,
   count |-> 0, pace |-> FALSE, flight |-> FALSE, heard |-> 0,
   owned |-> TRUE, fenced |-> FALSE, promotes |-> promotes]

(* The terminal callback fences the context.  The OUT stays pending.        *)
Fail(s) ==
  IF s.phase = TERMINAL THEN s
  ELSE [s EXCEPT !.phase = TERMINAL, !.pace = FALSE, !.queue = <<>>,
                 !.record = 0, !.left = 0, !.fenced = TRUE]

SubmitOut(s, transfer) ==
  [s EXCEPT !.out = transfer.kind, !.at = "flying", !.transfer = transfer]

TrySubmitPhase(s) ==
  IF s.phase >= TLS \/ s.submitted \/ s.out # "none" THEN s
  ELSE [SubmitOut(s, Transfer("a0", s.phase, 0)) EXCEPT !.submitted = TRUE]

SubmitB0Chunk(s) ==
  IF s.record = 0 \/ s.out # "none" THEN s
  ELSE [SubmitOut(s, Transfer("b0", s.record, s.left - 1))
          EXCEPT !.left = s.left - 1]

ScheduleNextRecord(s) ==
  IF s.phase = TERMINAL THEN s ELSE [s EXCEPT !.pace = TRUE]

MayStartRecord(s) ==
  /\ s.record = 0 /\ s.out = "none" /\ s.queue # <<>>
  /\ ~s.pace /\ s.phase # TERMINAL

StartNextRecordNow(s) ==
  IF MayStartRecord(s)
  THEN SubmitB0Chunk([s EXCEPT !.record = Head(s.queue),
                               !.left = Chunks[Head(s.queue)],
                               !.queue = Tail(s.queue)])
  ELSE s

MaybeStartB0(s) ==
  IF s.phase < TLS \/ s.out # "none" \/ s.record # 0 \/ s.queue = <<>> THEN s
  ELSE IF s.count # 0 THEN ScheduleNextRecord(s)
  ELSE StartNextRecordNow(s)

(* goodix_secure_session_handoff_backend(): nothing may be left to send.    *)
MayHandOff(s) ==
  /\ s.phase = STOP /\ s.out = "none" /\ s.record = 0 /\ s.queue = <<>>
  /\ ~s.pace /\ s.owned /\ s.at = "idle"

(* context_secure_phase() at STOP: the pairing is promoted, and the backend *)
(* passes to the post-TLS lifecycle.  If either fails, the context sets its *)
(* fence, which leaves a session at STOP alone.                             *)
ContextSecurePhase(s) ==
  IF s.promotes /\ MayHandOff(s) THEN [s EXCEPT !.owned = FALSE]
  ELSE [s EXCEPT !.fenced = TRUE]

(* Mutant of MaybeFinishTls: the queue is not looked at.                    *)
FinishWithRecordsLeft(s) ==
  IF s.phase = TLS /\ Established(s) /\ s.out = "none" /\ s.record = 0
  THEN ContextSecurePhase([s EXCEPT !.phase = STOP])
  ELSE s

MaybeFinishTls(s) ==
  IF /\ s.phase = TLS /\ Established(s) /\ s.out = "none"
     /\ s.record = 0 /\ s.queue = <<>> /\ ~s.pace
  THEN ContextSecurePhase([s EXCEPT !.phase = STOP])
  ELSE s

NextPhase(s) ==
  [s EXCEPT !.phase = s.phase + 1, !.ack = FALSE, !.done = FALSE,
            !.submitted = FALSE]

AdvancePhase(s) ==
  IF ~s.done \/ s.out # "none" \/ s.phase > D1 THEN s
  ELSE IF s.phase < D1 THEN TrySubmitPhase(NextPhase(s))
  ELSE MaybeFinishTls(MaybeStartB0(NextPhase(s)))

-----------------------------------------------------------------------------
(* Callbacks of the OUT endpoint.                                           *)

Returned(s) == [s EXCEPT !.at = "idle", !.transfer = NoTransfer]

(* Mutant of RecordSent: the next record is left in the queue.              *)
RecordSentForgets(s) ==
  MaybeFinishTls([s EXCEPT !.record = 0, !.count = s.count + 1])

RecordSent(s) ==
  LET sent == [s EXCEPT !.record = 0, !.count = s.count + 1]
  IN MaybeFinishTls(IF s.queue # <<>> THEN ScheduleNextRecord(sent) ELSE sent)

(* Mutant of BackendOutComplete: off by one at the end of a record.         *)
CompletePastTheEnd(s) ==
  LET r == [Returned(s) EXCEPT !.out = "none"]
  IN IF s.phase = TERMINAL \/ s.out = "none" THEN Returned(s)
     ELSE IF s.out = "a0" THEN MaybeStartB0(AdvancePhase(r))
     ELSE IF s.left >= 0 THEN SubmitB0Chunk(r)
     ELSE RecordSent(r)

BackendOutComplete(s) ==
  LET r == [Returned(s) EXCEPT !.out = "none"]
  IN IF s.phase = TERMINAL \/ s.out = "none" THEN Returned(s)
     ELSE IF s.out = "a0" THEN MaybeStartB0(AdvancePhase(r))
     ELSE IF s.left > 0 THEN SubmitB0Chunk(r)
     ELSE RecordSent(r)

BackendOutFailed(s) ==
  IF s.phase = TERMINAL \/ s.out = "none" THEN Returned(s)
  ELSE Fail([Returned(s) EXCEPT !.out = "none"])

-----------------------------------------------------------------------------
(* Frames.                                                                  *)

Acknowledges(s, f) == ~s.ack /\ f = Ack(Control[s.phase])

Answers(s, f) ==
  s.ack /\ s.phase \notin AckOnly /\ f = Typed(Control[s.phase])

HandleA0(s, f) ==
  IF s.phase = TERMINAL THEN s
  ELSE IF s.phase >= D1 \/ s.done THEN Fail(s)
  ELSE IF Acknowledges(s, f) /\ s.phase \notin AckOnly
       THEN [s EXCEPT !.ack = TRUE]
  ELSE IF Acknowledges(s, f) \/ Answers(s, f)
       THEN AdvancePhase([s EXCEPT !.ack = TRUE, !.done = TRUE])
  ELSE Fail(s)

(* tls_output() for the records the TLS server now puts out: all are queued *)
(* before the first can be started again, so starting once is enough.       *)
TlsOutput(s) ==
  LET old == Emitted(s.heard)
      new == [i \in 1..(Emitted(s.heard + 1) - old) |-> old + i]
      queued == [s EXCEPT !.queue = s.queue \o new,
                          !.flight = s.flight \/ (s.phase = D1 /\ new # <<>>)]
  IN IF s.phase = D1 \/ new = <<>> THEN queued ELSE MaybeStartB0(queued)

(* goodix_tls_server_push(): the server accepts the next record of the      *)
(* handshake and nothing else, and application data during TLS fails, too.  *)
(* The alert of a failing handshake is queued and discarded: in TLS either  *)
(* an OUT is under way or a record has gone before.                         *)
TlsPush(s) == [TlsOutput(s) EXCEPT !.heard = s.heard + 1]

(* Mutant of FlightOpens: it relies on the OUT of D1 to come back.          *)
FlightOnlyMarks(s) ==
  IF s.phase = D1 /\ s.flight THEN [s EXCEPT !.done = TRUE] ELSE s

FlightOpens(s) ==
  IF s.phase = D1 /\ s.flight THEN AdvancePhase([s EXCEPT !.done = TRUE])
  ELSE s

HandleB0(s, f) ==
  IF s.phase = TERMINAL THEN s
  ELSE IF s.phase < D1 \/ f # TlsRecord(s.heard + 1) THEN Fail(s)
  ELSE MaybeFinishTls(MaybeStartB0(FlightOpens(TlsPush(s))))

-----------------------------------------------------------------------------
(* The reader, as the session uses it: it answers each command, opens the   *)
(* handshake on D1, and closes it once it has the server's whole flight.    *)

FreshReader == [commands |-> <<>>, got |-> <<>>, due |-> <<>>]

Reply(t) ==
  CASE t.kind = "a0" /\ t.number \in AckOnly -> <<Ack(Control[t.number])>>
    [] t.kind = "a0" /\ t.number \in (1..LastCommand) \ AckOnly ->
         <<Ack(Control[t.number]), Typed(Control[t.number])>>
    [] t.kind = "a0" /\ t.number = D1 ->
         [i \in 1..HelloInputs |-> TlsRecord(i)]
    [] t.kind = "b0" /\ t.number = Hello /\ t.rest = 0 ->
         [i \in 1..(Inputs - HelloInputs) |-> TlsRecord(HelloInputs + i)]
    [] OTHER -> <<>>

ReaderTakes ==
  /\ session.at = "flying"
  /\ session' = [session EXCEPT !.at = "taken"]
  /\ LET t == session.transfer
     IN reader' = [commands |-> IF t.kind = "a0"
                                THEN Append(reader.commands, t.number)
                                ELSE reader.commands,
                   got |-> IF t.kind = "b0" THEN Append(reader.got, t)
                           ELSE reader.got,
                   due |-> reader.due \o Reply(t)]
  /\ UNCHANGED errors

(* A frame is sent out of turn (a late or repeated one included), or lost.  *)
ReaderErrs ==
  /\ session.started /\ ~session.fenced /\ errors < MaxErrors
  /\ errors' = errors + 1
  /\ \/ \E f \in A0Frames \cup B0Frames :
          \/ reader' = [reader EXCEPT !.due = <<f>> \o @]
          \/ reader' = [reader EXCEPT !.due = Append(@, f)]
     \/ /\ reader.due # <<>>
        /\ reader' = [reader EXCEPT !.due = Tail(@)]
  /\ UNCHANGED session

-----------------------------------------------------------------------------
(* The main loop.  The context arms the receive right after Start, passes a *)
(* frame on until it is fenced, and A0 frames to the lifecycle as soon as   *)
(* that has the backend.                                                    *)

Start ==
  /\ ~session.started /\ ~session.fenced
  /\ session' = TrySubmitPhase([session EXCEPT !.started = TRUE])
  /\ UNCHANGED <<reader, errors>>

OutCompletes ==
  /\ session.at = "taken"
  /\ session' = BackendOutComplete(session)
  /\ UNCHANGED <<reader, errors>>

(* An OUT fails, or it was cancelled by the fence, taken or not.            *)
OutFails ==
  /\ session.at # "idle"
  /\ session.fenced \/ errors < MaxErrors
  /\ session' = BackendOutFailed(session)
  /\ errors' = IF session.fenced THEN errors ELSE errors + 1
  /\ UNCHANGED reader

ReceiveA0 ==
  /\ session.started /\ ~session.fenced /\ session.phase # STOP
  /\ reader.due # <<>> /\ Head(reader.due) \in A0Frames
  /\ session' = HandleA0(session, Head(reader.due))
  /\ reader' = [reader EXCEPT !.due = Tail(@)]
  /\ UNCHANGED errors

ReceiveB0 ==
  /\ session.started /\ ~session.fenced
  /\ reader.due # <<>> /\ Head(reader.due) \in B0Frames
  /\ session' = HandleB0(session, Head(reader.due))
  /\ reader' = [reader EXCEPT !.due = Tail(@)]
  /\ UNCHANGED errors

PacingReady ==
  /\ session.pace
  /\ session' = MaybeFinishTls(StartNextRecordNow([session EXCEPT !.pace = FALSE]))
  /\ UNCHANGED <<reader, errors>>

(* goodix_device_context_set_terminal_fence(), at any callback.             *)
Fence ==
  /\ ~session.fenced
  /\ session' = IF session.phase = STOP THEN [session EXCEPT !.fenced = TRUE]
                ELSE Fail(session)
  /\ UNCHANGED <<reader, errors>>

(* The session is freed once the backend is drained; a later epoch makes a  *)
(* new one, after the pre-session drain has discarded what was under way.   *)
Renew ==
  /\ session.fenced /\ session.at = "idle"
  /\ \E promotes \in BOOLEAN : session' = NewSession(promotes)
  /\ reader' = FreshReader
  /\ errors' = 0

-----------------------------------------------------------------------------
Init ==
  /\ \E promotes \in BOOLEAN : session = NewSession(promotes)
  /\ reader = FreshReader
  /\ errors = 0

Next ==
  \/ Start \/ OutCompletes \/ OutFails \/ ReceiveA0 \/ ReceiveB0
  \/ PacingReady \/ Fence \/ Renew \/ ReaderTakes \/ ReaderErrs

Spec == Init /\ [][Next]_vars

(* Completions, frames and the timer are dispatched by the main loop, and   *)
(* the reader takes what is sent to it.                                     *)
LiveSpec ==
  /\ Spec
  /\ WF_vars(OutCompletes) /\ WF_vars(ReceiveA0) /\ WF_vars(ReceiveB0)
  /\ WF_vars(PacingReady) /\ WF_vars(ReaderTakes)

-----------------------------------------------------------------------------
(* Properties.                                                              *)

TransferType ==
  [kind : {"none", "a0", "b0"}, number : Nat, rest : Nat]
SessionType ==
  [phase : 1..TERMINAL, started : BOOLEAN, ack : BOOLEAN, done : BOOLEAN,
   submitted : BOOLEAN, out : {"none", "a0", "b0"},
   at : {"idle", "flying", "taken"}, transfer : TransferType,
   queue : Seq(1..Total), record : 0..Total, left : Nat, count : Nat,
   pace : BOOLEAN, flight : BOOLEAN, heard : 0..Inputs, owned : BOOLEAN,
   fenced : BOOLEAN, promotes : BOOLEAN]

(* The session and the reader are what their declarations say.              *)
TypeOK ==
  /\ session \in SessionType
  /\ reader.commands \in Seq(1..D1)
  /\ reader.got \in Seq(TransferType)
  /\ reader.due \in Seq(A0Frames \cup B0Frames)
  /\ errors \in 0..MaxErrors

(* Whatever is left to do, something is under way that will do it: an       *)
(* unanswered command was sent, an answered one waits for its OUT, queued   *)
(* records wait for an OUT or for the timer, a record that was begun has a  *)
(* chunk under way.  (advance_phase(), maybe_start_b0() and                 *)
(* maybe_finish_tls() each return when it is not their turn and rely on     *)
(* another callback to come back to them.)  And the hand-over at STOP is    *)
(* never refused: a session whose pairing is promoted gives up its OUT      *)
(* callback.  The pacing timer in its turn runs only while there is a record*)
(* that nothing but the timer keeps back: never over a pending OUT, into a  *)
(* record that is half sent, or into a session that was cancelled or has    *)
(* handed over.                                                             *)
NeverStalled ==
  /\ session.started =>
       /\ session.phase = STOP /\ session.promotes => ~session.owned
       /\ session.phase \in 1..D1 => session.submitted
       /\ session.phase \in 1..D1 /\ session.done => session.out = "a0"
       /\ session.phase # TERMINAL /\ session.out # "none" =>
            session.at # "idle"
       /\ session.record # 0 => session.out = "b0"
       /\ session.phase = TLS /\ session.queue # <<>> =>
            session.out # "none" \/ session.pace
       /\ session.phase = TLS /\ Established(session) =>
            session.out # "none" \/ session.pace
  /\ session.pace =>
       /\ session.phase = TLS /\ ~session.fenced
       /\ session.out = "none" /\ session.record = 0 /\ session.queue # <<>>

(* Transfer u may be sent right after transfer t.                           *)
FollowsChunk(t, u) ==
  IF t.rest > 0 THEN u = Transfer("b0", t.number, t.rest - 1)
  ELSE u = Transfer("b0", t.number + 1, Chunks[t.number + 1] - 1)

(* Whatever fails or is cancelled, the reader has got a beginning of the    *)
(* server's stream, no chunk out of order, twice or left out, all of it when*)
(* the session stopped; and a phase was left only after the reader took its *)
(* command, once and in turn, even if a late or repeated answer of an       *)
(* earlier command is accepted for it (the four DAC share one control byte).*)
InOrder ==
  /\ \A i \in 1..Len(reader.got) :
       FollowsChunk(IF i = 1 THEN Transfer("b0", 0, 0) ELSE reader.got[i - 1],
                    reader.got[i])
  /\ session.phase = STOP =>
       /\ reader.got # <<>>
       /\ reader.got[Len(reader.got)] = Transfer("b0", Total, 0)
  /\ \A i \in 1..Len(reader.commands) : reader.commands[i] = i
  /\ \A c \in 1..D1 :
       session.phase \in (c + 1)..STOP => Len(reader.commands) >= c

(* With a reader that answers, a session that was started stops or fails.   *)
SessionEnds ==
  session.started ~> (session.phase \in {STOP, TERMINAL} \/ errors > 0)

=============================================================================
