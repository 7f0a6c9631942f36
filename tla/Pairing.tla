------------------------------- MODULE Pairing -------------------------------
(****************************************************************************)
(* Pairing the reader with the host, across crashes, lost replies and the   *)
(* other operating system.                                                  *)
(*                                                                          *)
(* A session opens the reader, reads its validator and BB010002 (live       *)
(* preflight), reconciles them with the pairing store (runtime coordinator, *)
(* pairing activation), perhaps installs a PSK with the one persistent      *)
(* command E0 (pairing provision), proves the PSK with a TLS handshake and  *)
(* promotes the PREPARED record to ACTIVE:                                  *)
(*                                                                          *)
(*   closed -> preflight -> (preparing -> e0 -> read_bb -> read_validator)  *)
(*          -> tls -> (promoting) -> ready                                  *)
(*                                                                          *)
(* The store is the register PairingRegister, which SelfState implements.   *)
(* A validator is derived from its PSK and is modelled by that PSK.         *)
(****************************************************************************)
EXTENDS Naturals, Sequences

CONSTANTS
  Reader,        \* readers that may be plugged in: what a binding names
  HostPsk,       \* PSKs this host may draw at random, or holds as legacy
  ForeignPsk,    \* PSKs the factory and the other system install
  Bb,            \* contents of BB010002
  MaxGeneration, \* the last generation; the code's is 2^64 - 1
  MaxTrouble,    \* bound on crashes, failures and foreign changes together
  Absent,        \* an empty store; also "no record", "no PSK"
  Partial        \* a store with artifacts and no valid record

Psk == HostPsk \cup ForeignPsk
Generation == 1..MaxGeneration

(* A record of the store.  Every record activation writes has e0_attempted, *)
(* prior_validator_present and bb010002_sha256_present set, and psk stands  *)
(* for expected_validator too.                                              *)
Record == [generation : Generation, binding : Reader, psk : Psk,
           phase : {"PREPARED", "ACTIVE"}, prior : Psk, bb : Bb]

Legacy == [psk : HostPsk, binding : Reader]

ASSUME PairingAssumption ==
  /\ MaxGeneration \in Nat \ {0} /\ MaxTrouble \in Nat
  /\ HostPsk \cap ForeignPsk = {}
  /\ {Absent, Partial} \cap (Psk \cup Record \cup Legacy \cup Bb) = {}
  /\ Absent # Partial

VARIABLES
  visible, possible, pending, acked, \* the store: see PairingRegister
  host,     \* the session, Closed when there is none
  legacy,   \* the legacy material directory: [psk, binding] or Absent
  wire,     \* the command on its way to the reader, or Absent
  replies,  \* the reader's frames on their way to the host
  plugged,  \* the reader that is plugged in
  paired,   \* the PSK each reader holds
  bb,       \* the BB010002 of each reader
  trouble,  \* crashes, failures and foreign changes so far
  drawn,    \* PSKs this host has drawn (history)
  reserved, \* generations whose E0 was submitted (history)
  proven    \* <<reader, PSK>> whose TLS handshake succeeded (history)

storeVars == <<visible, possible, pending, acked>>
wireVars == <<wire, replies>>
readerVars == <<plugged, paired, bb>>
historyVars == <<drawn, reserved, proven>>
vars == <<storeVars, host, legacy, wireVars, readerVars, trouble, historyVars>>

Store == INSTANCE PairingRegister

NoRequest == [sent |-> FALSE, outPending |-> FALSE, ackSeen |-> FALSE,
              done |-> FALSE]
Closed == [phase |-> "closed", validator |-> Absent, bb |-> Absent,
           disposition |-> "none", psk |-> Absent, prepared |-> Absent,
           request |-> NoRequest, readBb |-> Absent, readValidator |-> Absent]

In(phase) == host.phase = phase
Go(phase) == host' = [host EXCEPT !.phase = phase]

Init ==
  /\ Store!RegisterInit
  /\ host = Closed
  /\ legacy \in Legacy \cup {Absent}
  /\ wire = Absent /\ replies = <<>>
  /\ plugged \in Reader
  /\ paired \in [Reader -> Psk]
  /\ \A r \in Reader : \/ paired[r] \in ForeignPsk
                       \/ legacy = [psk |-> paired[r], binding |-> r]
  /\ bb \in [Reader -> Bb]
  /\ trouble = 0
  /\ drawn = {} /\ reserved = {} /\ proven = {}

------------------------------------------------------------------------------
(* Opening.  The pre-session receive sync discards whatever an earlier      *)
(* session left on the wire; the reader serves its commands in order.       *)

Open ==
  /\ In("closed") /\ wire = Absent
  /\ Go("preflight")
  /\ replies' = <<>>
  /\ UNCHANGED <<storeVars, legacy, wire, readerVars, trouble, historyVars>>

(* goodix_self_state_load() for the binding of the live evidence.           *)
LoadValid(b) == visible \in Record /\ visible.binding = b

(* Mutant: every PREPARED record asks for explicit recovery.                *)
ReconcileGivesUp(r, validator, liveBb) ==
  IF r.phase = "PREPARED" THEN "recovery_required"
  ELSE IF r.psk # validator THEN "external_replacement"
  ELSE IF r.bb # liveBb THEN "fail_closed" ELSE "active_match"

(* goodix_self_state_reconcile(), before TLS, with the BB010002 comparison  *)
(* both of its callers add.                                                 *)
Reconcile(r, validator, liveBb) ==
  IF r.psk = validator
  THEN IF r.bb # liveBb THEN "fail_closed"
       ELSE IF r.phase = "ACTIVE" THEN "active_match" ELSE "retry_tls"
  ELSE IF r.phase = "ACTIVE" THEN "external_replacement"
       ELSE IF r.prior = validator THEN "use_prior" ELSE "recovery_required"

(* What a session does once it has the live evidence: the legacy material   *)
(* while the reader still holds its PSK, else what the store calls for.     *)
Decision ==
  LET live == paired[plugged]
  IN CASE legacy # Absent /\ legacy.binding # plugged -> "fail_closed"
       [] legacy # Absent /\ legacy.binding = plugged /\ legacy.psk = live ->
            "legacy"
       [] OTHER ->
            IF visible = Absent THEN "new_psk"
            ELSE IF LoadValid(plugged) THEN Reconcile(visible, live, bb[plugged])
            ELSE "fail_closed"

Evidence(h) ==
  [h EXCEPT !.validator = paired[plugged], !.bb = bb[plugged]]

(* TLS with what is at hand: ACTIVE_MATCH, RETRY_TLS, or the legacy PSK.    *)
UseMaterial ==
  /\ In("preflight")
  /\ Decision \in {"legacy", "active_match", "retry_tls"}
  /\ host' = [Evidence(host) EXCEPT
                !.phase = "tls", !.disposition = Decision,
                !.psk = IF Decision = "legacy" THEN legacy.psk ELSE visible.psk,
                !.prepared = IF Decision = "retry_tls" THEN visible ELSE Absent]
  /\ UNCHANGED <<storeVars, legacy, wireVars, readerVars, trouble, historyVars>>

(* RAND_priv_bytes(): a PSK nobody holds.  (Only the bound HostPsk makes    *)
(* this fail for ever; the code's generator may fail at any one time.)      *)
Fresh == {p \in HostPsk \ drawn : legacy # Absent => p # legacy.psk}

(* Anything else fails closed: the session ends, and nothing is written.    *)
FailClosed ==
  /\ In("preflight")
  /\ \/ Decision \in {"fail_closed", "use_prior", "recovery_required"}
     \/ Decision = "external_replacement" /\ visible.generation = MaxGeneration
     \/ Decision = "new_psk" /\ Fresh = {}
  /\ host' = Closed
  /\ UNCHANGED <<storeVars, legacy, wireVars, readerVars, trouble, historyVars>>

(* Mutant: the reservation is journaled as ACTIVE at once.                  *)
ReservationActive(generation, psk) ==
  [generation |-> generation, binding |-> plugged, psk |-> psk,
   phase |-> "ACTIVE", prior |-> paired[plugged], bb |-> bb[plugged]]

(* The PREPARED record activation_new_internal() reserves E0 with.          *)
Reservation(generation, psk) ==
  [generation |-> generation, binding |-> plugged, psk |-> psk,
   phase |-> "PREPARED", prior |-> paired[plugged], bb |-> bb[plugged]]

Prepare(disposition, r) ==
  /\ Store!Accept(r)
  /\ host' = [Evidence(host) EXCEPT
                !.phase = "preparing", !.disposition = disposition,
                !.psk = r.psk, !.prepared = r]
  /\ UNCHANGED <<legacy, wireVars, readerVars, trouble, reserved, proven>>

(* An empty store: a PSK nobody has drawn before, generation 1.             *)
PrepareNewPsk ==
  /\ In("preflight") /\ Decision = "new_psk"
  /\ \E p \in Fresh :
       /\ Prepare("new_psk", Reservation(1, p))
       /\ drawn' = drawn \cup {p}

(* Mutant: a replaced pairing is answered with a fresh PSK.                 *)
PrepareFreshRestore ==
  /\ In("preflight") /\ Decision = "external_replacement"
  /\ visible.generation < MaxGeneration
  /\ \E p \in Fresh :
       /\ Prepare("restore", Reservation(visible.generation + 1, p))
       /\ drawn' = drawn \cup {p}

(* The other system paired over an ACTIVE record: restore the same PSK.     *)
PrepareRestore ==
  /\ In("preflight") /\ Decision = "external_replacement"
  /\ visible.generation < MaxGeneration
  /\ Prepare("restore", Reservation(visible.generation + 1, visible.psk))
  /\ UNCHANGED drawn

------------------------------------------------------------------------------
(* write_state(), as its caller sees it.                                    *)

Writing == In("preparing") \/ In("promoting")

StoreStep ==
  /\ Writing
  /\ Store!Disturb \/ Store!Harden \/ Store!Publish
  /\ UNCHANGED <<host, legacy, wireVars, readerVars, trouble, historyVars>>

(* Mutant: the write counts as done when the record can be loaded, before   *)
(* the last directory sync.                                                 *)
WriteShown ==
  /\ Writing
  /\ visible = pending
  /\ pending' = Absent
  /\ acked' = pending
  /\ Go(IF In("preparing") THEN "e0" ELSE "ready")
  /\ UNCHANGED <<visible, possible, legacy, wireVars, readerVars, trouble,
                 historyVars>>

(* write_state() returned TRUE: activation reloads the reservation and goes *)
(* on to E0; a promotion completes the session.                             *)
WriteDone ==
  /\ Writing
  /\ Store!Acknowledge
  /\ Go(IF In("preparing") THEN "e0" ELSE "ready")
  /\ UNCHANGED <<legacy, wireVars, readerVars, trouble, historyVars>>

------------------------------------------------------------------------------
(* The E0 transaction: one request at a time, its OUT completion and the    *)
(* reader's frames in either order.                                         *)

Exchanging == In("e0") \/ In("read_bb") \/ In("read_validator")
Request == host.request

(* Mutant: E0 may be sent again when its acknowledgment is late.            *)
MayResubmit == Exchanging /\ ~Request.done /\ wire = Absent

(* next_request(): a phase submits its command once.                        *)
MaySubmit == Exchanging /\ ~Request.sent

Submit ==
  /\ MaySubmit
  /\ wire' = [command |-> host.phase, psk |-> host.psk]
  /\ host' = [host EXCEPT !.request = [NoRequest EXCEPT !.sent = TRUE,
                                                        !.outPending = TRUE]]
  /\ reserved' = IF In("e0")
                 THEN reserved \cup {host.prepared.generation} ELSE reserved
  /\ UNCHANGED <<storeVars, legacy, replies, readerVars, trouble,
                 drawn, proven>>

(* maybe_advance(): the phase ends when both the OUT transfer and the       *)
(* logical answer are complete; the two readbacks are judged at the end.    *)
Advance(h) ==
  IF ~h.request.done \/ h.request.outPending THEN h
  ELSE CASE h.phase = "e0" ->
              [h EXCEPT !.phase = "read_bb", !.request = NoRequest]
         [] h.phase = "read_bb" ->
              [h EXCEPT !.phase = "read_validator", !.request = NoRequest]
         [] h.phase = "read_validator" ->
              IF h.readBb = h.bb /\ h.readValidator = h.psk
              THEN [h EXCEPT !.phase = "tls", !.request = NoRequest]
              ELSE Closed

OutComplete ==
  /\ Exchanging /\ Request.outPending
  /\ host' = Advance([host EXCEPT !.request.outPending = FALSE])
  /\ UNCHANGED <<storeVars, legacy, wireVars, readerVars, trouble, historyVars>>

(* The reader executes a command and answers an ACK and a result.  An E0 it *)
(* accepts need not have changed the pairing: that is what the readback is  *)
(* for.                                                                     *)
Answers(value) == <<[kind |-> "ack"], [kind |-> "result", value |-> value]>>

ReaderExecutes ==
  /\ wire # Absent
  /\ wire' = Absent
  /\ replies' = IF In("closed") THEN <<>>
                ELSE replies \o Answers(CASE wire.command = "e0" -> "accepted"
                                          [] wire.command = "read_bb" -> bb[plugged]
                                          [] OTHER -> paired[plugged])
  /\ \/ UNCHANGED paired
     \/ /\ wire.command = "e0"
        /\ paired' = [paired EXCEPT ![plugged] = wire.psk]
  /\ UNCHANGED <<storeVars, host, legacy, plugged, bb, trouble, historyVars>>

(* handle_a0(): the ACK first, then the typed result.                       *)
Receive(frame) ==
  CASE frame.kind = "ack" ->
         IF Request.ackSeen THEN Closed
         ELSE [host EXCEPT !.request.ackSeen = TRUE]
    [] frame.kind = "result" ->
         IF ~Request.ackSeen THEN Closed
         ELSE Advance([host EXCEPT
                !.request.done = TRUE,
                !.readBb = IF In("read_bb") THEN frame.value ELSE @,
                !.readValidator = IF In("read_validator") THEN frame.value
                                  ELSE @])

HandleReply ==
  /\ Exchanging /\ replies # <<>>
  /\ replies' = Tail(replies)
  /\ host' = IF Request.sent THEN Receive(Head(replies)) ELSE Closed
  /\ UNCHANGED <<storeVars, legacy, wire, readerVars, trouble, historyVars>>

------------------------------------------------------------------------------
(* TLS, and the promotion it proves.                                        *)

NeedsPromotion == host.disposition \in {"new_psk", "restore", "retry_tls"}

(* Mutant: the generation of a promotion is not checked against the last.   *)
PromoteUnbounded ==
  /\ In("tls") /\ paired[plugged] = host.psk
  /\ proven' = proven \cup {<<plugged, host.psk>>}
  /\ IF ~NeedsPromotion THEN Go("ready") /\ UNCHANGED storeVars
     ELSE /\ Store!Accept([host.prepared EXCEPT
                             !.generation = host.prepared.generation + 1,
                             !.phase = "ACTIVE"])
          /\ Go("promoting")
  /\ UNCHANGED <<legacy, wireVars, readerVars, trouble, drawn, reserved>>

TlsSucceeds ==
  /\ In("tls") /\ paired[plugged] = host.psk
  /\ proven' = proven \cup {<<plugged, host.psk>>}
  /\ IF ~NeedsPromotion THEN Go("ready") /\ UNCHANGED storeVars
     ELSE /\ host.prepared.generation < MaxGeneration
          /\ Store!Accept([host.prepared EXCEPT
                             !.generation = host.prepared.generation + 1,
                             !.phase = "ACTIVE"])
          /\ Go("promoting")
  /\ UNCHANGED <<legacy, wireVars, readerVars, trouble, drawn, reserved>>

TlsFails ==
  /\ In("tls")
  /\ \/ paired[plugged] # host.psk
     \/ NeedsPromotion /\ host.prepared.generation = MaxGeneration
  /\ host' = Closed
  /\ UNCHANGED <<storeVars, legacy, wireVars, readerVars, trouble, historyVars>>

CloseReady ==
  /\ In("ready")
  /\ host' = Closed
  /\ UNCHANGED <<storeVars, legacy, wireVars, readerVars, trouble, historyVars>>

------------------------------------------------------------------------------
(* Trouble.                                                                 *)

Trouble ==
  /\ trouble < MaxTrouble
  /\ trouble' = trouble + 1

(* Any failure, time-out, cancellation or death of the host process.  The   *)
(* command on the wire may still be executed.                               *)
SessionDies ==
  /\ Trouble /\ ~In("closed")
  /\ host' = Closed
  /\ replies' = <<>>
  /\ IF pending # Absent THEN Store!Abandon ELSE UNCHANGED storeVars
  /\ UNCHANGED <<legacy, wire, readerVars, historyVars>>

PowerLoss ==
  /\ Trouble
  /\ Store!LosePower
  /\ host' = Closed
  /\ replies' = <<>>
  /\ UNCHANGED <<legacy, wire, readerVars, historyVars>>

(* A command that never reached the reader.                                 *)
WireLoses ==
  /\ In("closed") /\ wire # Absent
  /\ wire' = Absent
  /\ UNCHANGED <<storeVars, host, legacy, replies, readerVars, trouble,
                 historyVars>>

(* The other operating system pairs the reader with a PSK of its own.       *)
ForeignPairing ==
  /\ Trouble /\ In("closed") /\ wire = Absent
  /\ \E p \in ForeignPsk : paired' = [paired EXCEPT ![plugged] = p]
  /\ UNCHANGED <<storeVars, host, legacy, wireVars, plugged, bb, historyVars>>

(* Its update tool rewrites BB010002.                                       *)
ForeignBb ==
  /\ Trouble /\ In("closed") /\ wire = Absent
  /\ \E b \in Bb : bb' = [bb EXCEPT ![plugged] = b]
  /\ UNCHANGED <<storeVars, host, legacy, wireVars, plugged, paired, historyVars>>

(* Another reader is plugged in.                                            *)
SwapReader ==
  /\ Trouble /\ In("closed") /\ wire = Absent
  /\ plugged' \in Reader
  /\ UNCHANGED <<storeVars, host, legacy, wireVars, paired, bb, historyVars>>

------------------------------------------------------------------------------
HostStep ==
  \/ Open \/ UseMaterial \/ FailClosed \/ PrepareNewPsk \/ PrepareRestore
  \/ WriteDone \/ Submit \/ OutComplete \/ HandleReply
  \/ TlsSucceeds \/ TlsFails

Next ==
  \/ HostStep \/ StoreStep \/ ReaderExecutes \/ CloseReady
  \/ SessionDies \/ PowerLoss \/ WireLoses
  \/ ForeignPairing \/ ForeignBb \/ SwapReader

(* The host, the store, the reader and the wire do not stall, and the user  *)
(* tries again after a failed session.                                      *)
Fairness ==
  /\ WF_vars(HostStep) /\ WF_vars(StoreStep)
  /\ WF_vars(ReaderExecutes) /\ WF_vars(CloseReady) /\ WF_vars(WireLoses)

Spec == Init /\ [][Next]_vars
FairSpec == Spec /\ Fairness

------------------------------------------------------------------------------
Value == {"accepted"} \cup Psk \cup Bb
Frame == [kind : {"ack"}]
         \cup [kind : {"result"}, value : Value]
Command == [command : {"e0", "read_bb", "read_validator"}, psk : Psk]

Requests == [sent : BOOLEAN, outPending : BOOLEAN, ackSeen : BOOLEAN,
             done : BOOLEAN]
Sessions ==
  [phase : {"closed", "preflight", "preparing", "e0", "read_bb",
            "read_validator", "tls", "promoting", "ready"},
   validator : Psk \cup {Absent}, bb : Bb \cup {Absent},
   disposition : {"none", "new_psk", "restore", "retry_tls", "active_match",
                  "legacy"},
   psk : Psk \cup {Absent}, prepared : Record \cup {Absent},
   request : Requests, readBb : Value \cup {Absent},
   readValidator : Value \cup {Absent}]

(* Types of the store, the session, the wire and the readers.               *)
TypeOK ==
  /\ Store!RegisterTypeOK
  /\ host \in Sessions
  /\ legacy \in Legacy \cup {Absent}
  /\ wire \in Command \cup {Absent}
  /\ replies \in Seq(Frame)
  /\ plugged \in Reader /\ paired \in [Reader -> Psk] /\ bb \in [Reader -> Bb]
  /\ trouble \in 0..MaxTrouble
  /\ drawn \subseteq HostPsk /\ reserved \subseteq Generation
  /\ proven \subseteq Reader \X Psk

(* No orphaned pairing: while a reader holds a PSK this host has drawn, or  *)
(* an E0 is about to give it one, every state the store can be in after a   *)
(* power loss loads a record with that PSK for that reader.                 *)
Holds(v, r, p) == v \in Record /\ v.binding = r /\ v.psk = p

NoOrphan ==
  /\ \A r \in Reader : paired[r] \in drawn =>
       \A v \in possible : Holds(v, r, paired[r])
  /\ wire # Absent /\ wire.command = "e0" =>
       \A v \in possible : Holds(v, plugged, wire.psk)

(* ACTIVE is proven: no record, durable or not, says ACTIVE unless a TLS    *)
(* handshake with its PSK has succeeded on its reader.                      *)
ActiveIsProven ==
  \A v \in possible \cup {pending} :
    v \in Record /\ v.phase = "ACTIVE" => <<v.binding, v.psk>> \in proven

(* One reservation, one E0: no E0 is submitted for a generation that had    *)
(* one, in this session or in any session before it.                        *)
OneE0PerReservation ==
  [][wire' # Absent /\ wire' # wire /\ wire'.command = "e0"
       => host.prepared.generation \notin reserved]_vars

(* What the store holds is never given up: a PREPARED record is followed    *)
(* only by its own promotion, or taken back by a power loss, so that there  *)
(* is no second speculative pairing; and once a record is ACTIVE its PSK    *)
(* never changes, power losses and pairings by the other system included.   *)
RecordSticks ==
  [][/\ \/ visible \notin Record \/ visible' = visible \/ visible' \in possible
        \/ visible.phase = "PREPARED" =>
             visible' = [visible EXCEPT !.phase = "ACTIVE",
                                        !.generation = visible.generation + 1]
     /\ \/ visible \notin Record
        \/ visible.phase = "ACTIVE" =>
             visible' \in Record /\ visible'.psk = visible.psk]_vars

(* What only explicit recovery, or the return of the right reader, resolves. *)
Blocked ==
  LET live == paired[plugged]
      onLegacy == legacy # Absent /\ legacy.psk = live
      settled == visible.phase = "ACTIVE" /\ visible.psk = live
  IN \/ legacy # Absent /\ legacy.binding # plugged
     \/ /\ ~onLegacy
        /\ \/ visible = Partial
           \/ visible = Absent /\ Fresh = {}
           \/ /\ visible \in Record
              /\ \/ visible.binding # plugged
                 \/ visible.psk = live /\ visible.bb # bb[plugged]
                 \/ visible.phase = "PREPARED" /\ visible.psk # live
                 \/ visible.generation = MaxGeneration /\ ~settled

(* When trouble ends, sessions succeed again, unless the store or the       *)
(* reader is left in one of the states that are documented to need explicit *)
(* recovery.                                                                *)
Recovers == <>[]Blocked \/ []<>In("ready")

==============================================================================
