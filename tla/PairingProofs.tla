----------------------------- MODULE PairingProofs -----------------------------
(* Pairing never orphans a reader, for every set of readers, keys and        *)
(* generations, and however often sessions and power fail.                   *)
EXTENDS Pairing, SequenceTheorems, TLAPS

(* All records the store has, may get or is about to get name one reader and *)
(* one key, which this host has drawn; only a store that never had a record  *)
(* acknowledged shows none; and what is ACTIVE cannot be lost.               *)
StoreInv ==
  /\ visible \in possible
  /\ visible = Absent => possible = {Absent}
  /\ visible = Partial => possible \subseteq {Absent, Partial}
  /\ visible \in Record /\ visible.phase = "ACTIVE" => possible \subseteq Record
  /\ \A v \in possible \cup {pending} : v \in Record => v.psk \in drawn
  /\ \A v \in possible \cup {pending}, w \in possible \cup {pending} :
       v \in Record /\ w \in Record => v.psk = w.psk /\ v.binding = w.binding

(* Where the keys of the readers come from.                                  *)
KeyInv ==
  \A r \in Reader :
    \/ paired[r] \in ForeignPsk \cup drawn
    \/ legacy # Absent /\ paired[r] = legacy.psk

IsReservation(r) ==
  /\ r \in Record /\ r.phase = "PREPARED"
  /\ r.psk = host.psk /\ r.binding = plugged

Promoted(r) ==
  [r EXCEPT !.generation = r.generation + 1, !.phase = "ACTIVE"]

(* The session agrees with the store.                                        *)
SessionInv ==
  /\ In("closed") => host = Closed
  /\ pending # Absent <=> Writing
  /\ In("preparing") =>
       /\ pending = host.prepared /\ IsReservation(host.prepared)
       /\ \/ visible = pending \/ visible \notin Record
          \/ visible.phase = "ACTIVE"
  /\ Exchanging =>
       possible = {host.prepared} /\ IsReservation(host.prepared)
  /\ In("tls") /\ NeedsPromotion =>
       visible = host.prepared /\ IsReservation(host.prepared)
  /\ In("promoting") =>
       /\ IsReservation(host.prepared) /\ pending = Promoted(host.prepared)
       /\ visible \in {host.prepared, pending} /\ possible \subseteq Record
       /\ <<plugged, host.psk>> \in proven

(* One command at a time, and no answer left over for the next.              *)
WireInv ==
  /\ ~Exchanging =>
       host.request = NoRequest /\ (In("closed") \/ wire = Absent)
  /\ In("preflight") \/ In("preparing") \/ (Exchanging /\ ~Request.sent)
       => replies = <<>>
  /\ Exchanging /\ ~Request.sent => host.request = NoRequest /\ wire = Absent
  /\ Exchanging /\ Request.sent =>
       /\ wire # Absent => replies = <<>> /\ ~Request.ackSeen /\ ~Request.done
       /\ Request.done => replies = <<>>
       /\ Request.ackSeen => Len(replies) <= 1
       /\ Len(replies) <= 2

(* Every generation that had its E0 is behind the one that is to come, and   *)
(* no power loss brings it back into the future.                             *)
ReservedInv ==
  \A g \in reserved :
    /\ \A v \in possible : v \in Record /\ v.generation >= g
    /\ pending # Absent => pending.generation > g
    /\ In("e0") /\ ~Request.sent => host.prepared.generation > g

IInv ==
  /\ TypeOK /\ StoreInv /\ KeyInv /\ SessionInv /\ WireInv /\ ReservedInv
  /\ NoOrphan /\ ActiveIsProven

-----------------------------------------------------------------------------
LEMMA TwoMore ==
  ASSUME NEW S, NEW s \in Seq(S), NEW t \in Seq(S), Len(t) = 2
  PROVE  s \o t \in Seq(S) /\ (s = <<>> => Len(s \o t) = 2)
<1>1. s \o t \in Seq(S) /\ Len(s \o t) = Len(s) + Len(t)
  BY ConcatProperties
<1>2. s = <<>> => Len(s) = 0
  OBVIOUS
<1> QED
  BY <1>1, <1>2

LEMMA PromotedMeans ==
  ASSUME NEW r \in Record, r.generation < MaxGeneration
  PROVE  /\ Promoted(r) \in Record /\ Promoted(r).phase = "ACTIVE"
         /\ Promoted(r).psk = r.psk /\ Promoted(r).binding = r.binding
         /\ Promoted(r).generation = r.generation + 1
         /\ Promoted(r).generation > r.generation
<1> DEFINE next == r.generation + 1
<1>1. next \in Generation /\ next > r.generation
  BY PairingAssumption DEF Record, Generation
<1>2. Promoted(r) = [r EXCEPT !.generation = next, !.phase = "ACTIVE"]
  BY DEF Promoted
<1> HIDE DEF next
<1>3. /\ Promoted(r) \in Record /\ Promoted(r).phase = "ACTIVE"
      /\ Promoted(r).psk = r.psk /\ Promoted(r).binding = r.binding
      /\ Promoted(r).generation = next
  BY <1>1, <1>2 DEF Record
<1> QED
  BY <1>1, <1>3 DEF next

LEMMA InitInv == Init => IInv
<1> SUFFICES ASSUME Init PROVE IInv
  OBVIOUS
<1> USE PairingAssumption DEF Init, Store!RegisterInit
<1>1. TypeOK
  BY DEF TypeOK, Store!RegisterTypeOK, Closed, NoRequest, Sessions, Requests
<1>2. StoreInv /\ KeyInv /\ SessionInv /\ WireInv /\ ReservedInv
  BY DEF StoreInv, KeyInv, SessionInv, WireInv, ReservedInv, Legacy, Psk,
         Closed, Writing, Exchanging, In, NeedsPromotion, Request
<1>3. NoOrphan /\ ActiveIsProven
  BY DEF NoOrphan, ActiveIsProven, Psk
<1> QED
  BY <1>1, <1>2, <1>3 DEF IInv

(* Open *)
LEMMA OpenStep == IInv /\ Open => IInv'
<1> SUFFICES ASSUME IInv, Open PROVE IInv'
  OBVIOUS
<1> USE PairingAssumption DEF IInv, Open, storeVars, readerVars, historyVars, In, Go
<1>0. host' = [Closed EXCEPT !.phase = "preflight"] /\ host = Closed
  BY DEF SessionInv
<1>1. TypeOK'
  <2>1. host' \in Sessions
    BY DEF TypeOK, Sessions
  <2>2. replies' \in Seq(Frame)
    OBVIOUS
  <2> QED
    BY <2>1, <2>2 DEF TypeOK, Store!RegisterTypeOK
<1>2. StoreInv' /\ KeyInv' /\ SessionInv' /\ WireInv' /\ ReservedInv'
  BY <1>0 DEF StoreInv, KeyInv, SessionInv, WireInv, ReservedInv,
         Closed, Writing, Exchanging, NeedsPromotion, Request
<1>3. NoOrphan' /\ ActiveIsProven'
  BY DEF NoOrphan, ActiveIsProven
<1> QED
  BY <1>1, <1>2, <1>3 DEF IInv

(* A session that ends, with or without a power loss, leaves no write.      *)
LEMMA Closes ==
  ASSUME IInv, host' = Closed, pending' = Absent,
         \/ UNCHANGED <<visible, possible>>
         \/ visible' \in possible /\ possible' = {visible'},
         UNCHANGED <<acked, legacy, wire, readerVars, historyVars>>,
         replies' \in Seq(Frame), trouble' \in 0..MaxTrouble
  PROVE  IInv'
<1> USE PairingAssumption DEF IInv, readerVars, historyVars, In
<1>1. TypeOK'
  <2>1. host' \in Sessions
    BY DEF Closed, NoRequest, Sessions, Requests
  <2> QED
    BY <2>1 DEF TypeOK, Store!RegisterTypeOK
<1>2. visible' \in possible' /\ possible' \subseteq possible
  BY DEF StoreInv
<1>3. StoreInv'
  BY <1>2 DEF StoreInv
<1>4. KeyInv' /\ SessionInv' /\ WireInv' /\ ReservedInv'
  BY <1>2 DEF KeyInv, SessionInv, WireInv, ReservedInv,
         Closed, Writing, Exchanging, NeedsPromotion, Request
<1>5. NoOrphan' /\ ActiveIsProven'
  BY <1>2 DEF NoOrphan, ActiveIsProven
<1> QED
  BY <1>1, <1>3, <1>4, <1>5 DEF IInv

(* The store takes one step of a write.                                     *)
LEMMA StoreStepStep == IInv /\ StoreStep => IInv'
<1> SUFFICES ASSUME IInv, StoreStep PROVE IInv'
  OBVIOUS
<1> USE PairingAssumption
      DEF IInv, StoreStep, readerVars, wireVars, historyVars, In
<1>1. TypeOK'
  BY DEF TypeOK, Store!RegisterTypeOK, Store!Disturb, Store!Harden,
         Store!Publish
<1>2. CASE Store!Disturb
  <2>1. visible \notin Record /\ visible' = Partial
    BY <1>2 DEF Store!Disturb
  <2>2. possible' = possible \cup {Partial} /\ pending' = pending /\ possible \subseteq {Absent, Partial}
    BY <1>2 DEF Store!Disturb, StoreInv
  <2>3. StoreInv'
    BY <2>1, <2>2 DEF StoreInv
  <2>4. KeyInv' /\ WireInv'
    BY DEF KeyInv, WireInv, Exchanging, Request
  <2> In("preparing")
    BY <2>1 DEF SessionInv, IsReservation, Writing, TypeOK,
                Store!RegisterTypeOK
  <2>5. SessionInv'
    BY <2>1, <2>2 DEF SessionInv, Writing, Exchanging, NeedsPromotion,
                      IsReservation
  <2>6. reserved = {} /\ ReservedInv'
    BY <2>1, <2>2 DEF ReservedInv, StoreInv
  <2>7. NoOrphan' /\ ActiveIsProven'
    BY <2>1, <2>2 DEF NoOrphan, ActiveIsProven, StoreInv, Holds
  <2> QED
    BY <1>1, <2>3, <2>4, <2>5, <2>6, <2>7
<1>3. CASE Store!Harden
  <2>1. possible' = {visible} /\ visible' = visible /\ pending' = pending
        /\ visible \in possible
    BY <1>3 DEF Store!Harden, StoreInv
  <2>2. StoreInv'
    BY <2>1 DEF StoreInv
  <2>3. KeyInv' /\ WireInv'
    BY DEF KeyInv, WireInv, Exchanging, Request
  <2>4. SessionInv'
    BY <2>1 DEF SessionInv, Writing, Exchanging, NeedsPromotion, IsReservation
  <2>5. ReservedInv'
    BY <2>1 DEF ReservedInv, Request
  <2>6. NoOrphan' /\ ActiveIsProven'
    BY <2>1 DEF NoOrphan, ActiveIsProven
  <2> QED
    BY <1>1, <2>2, <2>3, <2>4, <2>5, <2>6
<1>4. CASE Store!Publish
  <2>1. pending \in Record /\ visible' = pending /\ pending' = pending
        /\ possible' = possible \cup {pending}
    BY <1>4 DEF Store!Publish, TypeOK, Store!RegisterTypeOK
  <2>2. pending.phase = "ACTIVE" => In("promoting")
    BY DEF SessionInv, Writing, IsReservation
  <2>3. StoreInv'
    BY <2>1, <2>2 DEF StoreInv, SessionInv
  <2>4. KeyInv' /\ WireInv'
    BY DEF KeyInv, WireInv, Exchanging, Request
  <2>5. SessionInv'
    BY <2>1 DEF SessionInv, Writing, Exchanging, NeedsPromotion, IsReservation
  <2>6. ReservedInv'
    BY <2>1 DEF ReservedInv, Request, TypeOK, Generation, Record
  <2>7. ASSUME NEW r \in Reader, paired[r] \in drawn
        PROVE  Holds(pending, r, paired[r])
    BY <2>1, <2>7 DEF NoOrphan, StoreInv, Holds
  <2>8. NoOrphan'
    BY <2>1, <2>7 DEF NoOrphan, WireInv, Exchanging, Writing
  <2>9. ActiveIsProven'
    BY <2>1 DEF ActiveIsProven
  <2> QED
    BY <1>1, <2>3, <2>4, <2>5, <2>6, <2>8, <2>9
<1> QED
  BY <1>2, <1>3, <1>4

(* What was written is acknowledged, and the session goes on.               *)
LEMMA WriteDoneStep == IInv /\ WriteDone => IInv'
<1> SUFFICES ASSUME IInv, WriteDone PROVE IInv'
  OBVIOUS
<1> USE PairingAssumption
      DEF IInv, WriteDone, readerVars, wireVars, historyVars, In, Go
<1>1. /\ pending \in Record /\ visible = pending /\ visible' = pending
      /\ possible' = {pending} /\ pending' = Absent /\ acked' = pending
      /\ visible \in possible
  BY DEF Store!Acknowledge, TypeOK, Store!RegisterTypeOK, StoreInv
<1>2. /\ host \in Sessions /\ host' \in Sessions
      /\ host' = [host EXCEPT !.phase = IF In("preparing") THEN "e0" ELSE "ready"]
  BY DEF TypeOK, Sessions
<1>3. /\ host'.phase = IF In("preparing") THEN "e0" ELSE "ready"
      /\ host'.prepared = host.prepared /\ host'.psk = host.psk
      /\ host'.request = host.request
  BY <1>2 DEF Sessions
<1>4. TypeOK'
  BY <1>1, <1>2 DEF TypeOK, Store!RegisterTypeOK
<1>5. StoreInv' /\ KeyInv'
  BY <1>1 DEF StoreInv, KeyInv
<1>6. SessionInv'
  BY <1>1, <1>3 DEF SessionInv, Writing, Exchanging, NeedsPromotion,
                    IsReservation
<1>7. WireInv'
  BY <1>3 DEF WireInv, Writing, Exchanging, Request, NoRequest
<1>8. ReservedInv'
  BY <1>1, <1>3 DEF ReservedInv, SessionInv
<1>9. NoOrphan' /\ ActiveIsProven'
  BY <1>1 DEF NoOrphan, ActiveIsProven
<1> QED
  BY <1>4, <1>5, <1>6, <1>7, <1>8, <1>9

(* What a decision says of the store and of the legacy material.            *)
LEMMA DecisionMeans ==
  /\ Decision = "legacy" => legacy # Absent /\ legacy.psk = paired[plugged]
  /\ Decision = "new_psk" => visible = Absent
  /\ Decision \in {"active_match", "retry_tls", "external_replacement"} =>
       /\ visible \in Record /\ visible.binding = plugged
       /\ visible.phase = IF Decision = "retry_tls" THEN "PREPARED"
                          ELSE "ACTIVE"
       /\ visible.psk = paired[plugged] <=> Decision # "external_replacement"
BY DEF Decision, LoadValid, Reconcile, Record

(* The session takes what it has to TLS: the legacy PSK, or a record's.     *)
LEMMA UseMaterialStep == IInv /\ UseMaterial => IInv'
<1> SUFFICES ASSUME IInv, UseMaterial PROVE IInv'
  OBVIOUS
<1> USE PairingAssumption
      DEF IInv, UseMaterial, storeVars, readerVars, wireVars, historyVars, In
<1>1. /\ host \in Sessions /\ plugged \in Reader
      /\ paired[plugged] \in Psk /\ bb[plugged] \in Bb
  BY DEF TypeOK
<1>2. Decision \in {"active_match", "retry_tls"} =>
        /\ visible \in Record /\ visible.binding = plugged
        /\ visible.phase = IF Decision = "retry_tls" THEN "PREPARED"
                           ELSE "ACTIVE"
  BY DecisionMeans
<1>3. Decision = "legacy" => legacy.psk \in Psk
  BY <1>1, DecisionMeans
<1> DEFINE psk == IF Decision = "legacy" THEN legacy.psk ELSE visible.psk
           prepared == IF Decision = "retry_tls" THEN visible ELSE Absent
<1>4. psk \in Psk /\ prepared \in Record \cup {Absent}
  BY <1>2, <1>3 DEF Record
<1>5. host' = [host EXCEPT !.validator = paired[plugged], !.bb = bb[plugged],
                           !.phase = "tls", !.disposition = Decision,
                           !.psk = psk, !.prepared = prepared]
  BY DEF Evidence
<1> HIDE DEF psk, prepared
<1>6. /\ host' \in Sessions /\ host'.phase = "tls"
      /\ host'.disposition = Decision /\ host'.psk = psk
      /\ host'.prepared = prepared /\ host'.request = host.request
  BY <1>1, <1>4, <1>5 DEF Sessions
<1>7. TypeOK'
  BY <1>6 DEF TypeOK, Store!RegisterTypeOK
<1>8. StoreInv' /\ KeyInv'
  BY DEF StoreInv, KeyInv
<1>9. SessionInv'
  BY <1>2, <1>6 DEF SessionInv, Writing, Exchanging, NeedsPromotion,
                    IsReservation, psk, prepared
<1>10. WireInv' /\ ReservedInv'
  BY <1>6 DEF WireInv, ReservedInv, Exchanging, Request
<1>11. NoOrphan' /\ ActiveIsProven'
  BY DEF NoOrphan, ActiveIsProven
<1> QED
  BY <1>7, <1>8, <1>9, <1>10, <1>11

(* The session reserves E0: the store holds no record, or an ACTIVE one with*)
(* the same key for the same reader, and no reader holds a drawn key.       *)
LEMMA PrepareStep ==
  ASSUME IInv, In("preflight"), NEW disposition \in {"new_psk", "restore"},
         NEW psk \in HostPsk, NEW generation \in Generation,
         Prepare(disposition, Reservation(generation, psk)),
         UNCHANGED <<plugged, paired, bb>>, drawn' = drawn \cup {psk},
         \A r \in Reader : paired[r] \notin drawn',
         \/ visible = Absent
         \/ /\ visible \in Record /\ visible.phase = "ACTIVE"
            /\ visible.psk = psk /\ visible.binding = plugged
  PROVE  IInv'
<1> USE PairingAssumption
      DEF IInv, Prepare, storeVars, readerVars, wireVars, historyVars, In
<1> DEFINE r == Reservation(generation, psk)
<1>1. /\ host \in Sessions /\ plugged \in Reader
      /\ paired[plugged] \in Psk /\ bb[plugged] \in Bb
  BY DEF TypeOK
<1>2. /\ r \in Record /\ r.generation = generation /\ r.binding = plugged
      /\ r.psk = psk /\ r.phase = "PREPARED"
  BY <1>1 DEF Reservation, Record, Psk
<1> HIDE DEF r
<1>3. /\ UNCHANGED <<visible, possible, acked>> /\ pending' = r
      /\ pending = Absent /\ (visible \in Record => generation > visible.generation)
  BY <1>2 DEF Store!Accept, Store!Follows, r
<1>4. host' = [host EXCEPT !.validator = paired[plugged], !.bb = bb[plugged],
                           !.phase = "preparing", !.disposition = disposition,
                           !.psk = psk, !.prepared = r]
  BY <1>2 DEF Evidence, r
<1>5. /\ host' \in Sessions /\ host'.phase = "preparing"
      /\ host'.disposition = disposition /\ host'.psk = psk
      /\ host'.prepared = r /\ host'.request = host.request
  BY <1>1, <1>2, <1>4 DEF Sessions, Psk
<1>6. TypeOK'
  BY <1>2, <1>3, <1>5 DEF TypeOK, Store!RegisterTypeOK
<1>7. StoreInv'
  BY <1>2, <1>3 DEF StoreInv
<1>8. KeyInv'
  BY DEF KeyInv
<1>9. SessionInv'
  BY <1>2, <1>3, <1>5 DEF SessionInv, Writing, Exchanging, NeedsPromotion,
                          IsReservation
<1>10. WireInv'
  BY <1>5 DEF WireInv, Exchanging, Request
<1>11. ReservedInv'
  <2> SUFFICES ASSUME NEW g \in reserved
               PROVE  generation > g
    BY <1>2, <1>3, <1>5 DEF ReservedInv
  <2>1. visible \in Record /\ visible.generation >= g
    BY DEF ReservedInv, StoreInv
  <2> QED
    BY <1>3, <2>1 DEF TypeOK, Generation, Record
<1>12. NoOrphan'
  BY <1>3 DEF NoOrphan, WireInv, Exchanging
<1>13. ActiveIsProven'
  BY <1>2, <1>3 DEF ActiveIsProven
<1> QED
  BY <1>6, <1>7, <1>8, <1>9, <1>10, <1>11, <1>12, <1>13

LEMMA PrepareNewPskStep == IInv /\ PrepareNewPsk => IInv'
<1> SUFFICES ASSUME IInv, PrepareNewPsk PROVE IInv'
  OBVIOUS
<1> USE PairingAssumption DEF PrepareNewPsk
<1>1. PICK p \in Fresh :
        Prepare("new_psk", Reservation(1, p)) /\ drawn' = drawn \cup {p}
  OBVIOUS
<1>2. visible = Absent /\ possible = {Absent} /\ Absent \notin Record
  BY DecisionMeans DEF IInv, StoreInv
<1>3. ASSUME NEW r \in Reader
      PROVE  paired[r] \notin drawn'
  <2>1. paired[r] \notin drawn
    BY <1>2 DEF IInv, NoOrphan, Holds
  <2>2. paired[r] # p
    BY <2>1 DEF IInv, KeyInv, Fresh
  <2> QED
    BY <1>1, <2>1, <2>2
<1>4. p \in HostPsk /\ 1 \in Generation
  BY DEF Fresh, Generation
<1> QED
  BY <1>1, <1>2, <1>3, <1>4, PrepareStep DEF Prepare, readerVars

LEMMA PrepareRestoreStep == IInv /\ PrepareRestore => IInv'
<1> SUFFICES ASSUME IInv, PrepareRestore PROVE IInv'
  OBVIOUS
<1> USE PairingAssumption DEF PrepareRestore, IInv
<1> DEFINE generation == visible.generation + 1
<1>1. /\ visible \in Record /\ visible.binding = plugged
      /\ visible.phase = "ACTIVE" /\ visible.psk # paired[plugged]
      /\ visible \in possible
  BY DecisionMeans DEF StoreInv
<1>2. visible.psk \in drawn /\ drawn' = drawn \cup {visible.psk}
  BY <1>1 DEF StoreInv
<1>3. ASSUME NEW r \in Reader
      PROVE  paired[r] \notin drawn'
  BY <1>1, <1>2 DEF NoOrphan, Holds
<1>4. visible.psk \in HostPsk /\ generation \in Generation
  BY <1>1, <1>2 DEF TypeOK, Record, Generation
<1>5. Prepare("restore", Reservation(generation, visible.psk))
      /\ UNCHANGED <<plugged, paired, bb>>
  BY DEF Prepare, readerVars
<1> HIDE DEF generation
<1> QED
  BY <1>1, <1>2, <1>3, <1>4, <1>5, PrepareStep

(* A command is sent: E0 only with the key of the record that is durable.   *)
LEMMA SubmitStep == IInv /\ Submit => IInv'
<1> SUFFICES ASSUME IInv, Submit PROVE IInv'
  OBVIOUS
<1> USE PairingAssumption
      DEF IInv, Submit, MaySubmit, storeVars, readerVars, In, Exchanging
<1>1. /\ host \in Sessions /\ possible = {host.prepared}
      /\ IsReservation(host.prepared) /\ visible \in possible
      /\ host.request = NoRequest /\ replies = <<>>
  BY DEF TypeOK, SessionInv, WireInv, StoreInv
<1>2. host.psk \in Psk /\ host.prepared.generation \in Generation
  BY <1>1 DEF IsReservation, Record
<1> DEFINE request == [NoRequest EXCEPT !.sent = TRUE, !.outPending = TRUE]
<1>3. /\ request \in Requests /\ request.sent /\ ~request.ackSeen
      /\ ~request.done
  BY DEF NoRequest, Requests
<1>4. host' = [host EXCEPT !.request = request]
  OBVIOUS
<1> HIDE DEF request
<1>5. /\ host' \in Sessions /\ host'.phase = host.phase
      /\ host'.disposition = host.disposition /\ host'.psk = host.psk
      /\ host'.prepared = host.prepared /\ host'.request = request
  BY <1>1, <1>3, <1>4 DEF Sessions
<1>6. wire' \in Command
  BY <1>2 DEF Command
<1>7. /\ TypeOK'
  BY <1>2, <1>5, <1>6 DEF TypeOK, Store!RegisterTypeOK
<1>8. StoreInv' /\ KeyInv'
  BY DEF StoreInv, KeyInv, historyVars
<1>9. SessionInv'
  BY <1>5 DEF SessionInv, Writing, NeedsPromotion, IsReservation, historyVars
<1>10. WireInv'
  BY <1>1, <1>3, <1>5 DEF WireInv, Request
<1>11. ReservedInv'
  <2>1. \A g \in reserved : host.prepared.generation >= g
    BY <1>1 DEF ReservedInv
  <2>2. host.prepared.generation >= host.prepared.generation
    BY <1>2 DEF Generation
  <2>3. \A g \in reserved' : host.prepared.generation >= g
    BY <2>1, <2>2
  <2>4. pending' = Absent
    BY DEF SessionInv, Writing
  <2> QED
    BY <1>1, <1>3, <1>5, <2>3, <2>4 DEF ReservedInv, Request, IsReservation
<1>12. NoOrphan'
  <2>1. wire'.psk = host.psk
    OBVIOUS
  <2> QED
    BY <1>1, <2>1 DEF NoOrphan, Holds, IsReservation
<1>13. ActiveIsProven'
  BY DEF ActiveIsProven
<1> QED
  BY <1>7, <1>8, <1>9, <1>10, <1>11, <1>12, <1>13

(* maybe_advance() stays, goes on to the next command, or decides.          *)
LEMMA AdvanceMeans ==
  ASSUME NEW h \in Sessions, h.phase \in {"e0", "read_bb", "read_validator"}
  PROVE  \/ Advance(h) = h /\ (~h.request.done \/ h.request.outPending)
         \/ Advance(h) = Closed
         \/ \E phase \in {"read_bb", "read_validator", "tls"} :
              /\ h.request.done /\ h.request.outPending = FALSE
              /\ Advance(h) = [h EXCEPT !.phase = phase, !.request = NoRequest]
BY DEF Advance

(* What an OUT completion and an answer make of a session that exchanges    *)
(* commands: it has less to wait for, and the same reservation.             *)
LEMMA ExchangeStep ==
  ASSUME IInv, Exchanging, Request.sent,
         NEW h \in Sessions, host' = Advance(h),
         h.phase = host.phase, h.psk = host.psk, h.prepared = host.prepared,
         h.disposition = host.disposition, h.request.sent,
         wire # Absent => ~h.request.ackSeen /\ ~h.request.done /\ replies' = <<>>,
         h.request.done => replies' = <<>> /\ wire = Absent,
         h.request.ackSeen => Len(replies') <= 1, Len(replies') <= 2,
         replies' \in Seq(Frame),
         UNCHANGED <<storeVars, legacy, wire, readerVars, trouble, historyVars>>
  PROVE  IInv'
<1> USE PairingAssumption
      DEF IInv, storeVars, readerVars, historyVars, In, Exchanging
<1>1. pending = Absent
  BY DEF SessionInv, Writing
<1>2. CASE host' = Closed
  BY <1>1, <1>2, Closes DEF TypeOK
<1>3. CASE host' = h /\ (~h.request.done \/ h.request.outPending)
  <2>1. TypeOK'
    BY <1>3 DEF TypeOK, Store!RegisterTypeOK
  <2>2. StoreInv' /\ KeyInv' /\ NoOrphan' /\ ActiveIsProven'
    BY DEF StoreInv, KeyInv, NoOrphan, ActiveIsProven
  <2>3. SessionInv'
    BY <1>3 DEF SessionInv, Writing, NeedsPromotion, IsReservation
  <2>4. WireInv' /\ ReservedInv'
    BY <1>3 DEF WireInv, ReservedInv, Request
  <2> QED
    BY <2>1, <2>2, <2>3, <2>4
<1>4. ASSUME NEW phase \in {"read_bb", "read_validator", "tls"},
             h.request.done,
             host' = [h EXCEPT !.phase = phase, !.request = NoRequest]
      PROVE  IInv'
  <2>1. NoRequest \in Requests /\ ~NoRequest.sent
    BY DEF NoRequest, Requests
  <2>2. /\ host' \in Sessions /\ host'.phase = phase
        /\ host'.disposition = h.disposition /\ host'.psk = h.psk
        /\ host'.prepared = h.prepared /\ host'.request = NoRequest
    BY <1>4, <2>1 DEF Sessions
  <2>3. TypeOK'
    BY <2>2 DEF TypeOK, Store!RegisterTypeOK
  <2>4. StoreInv' /\ KeyInv' /\ NoOrphan' /\ ActiveIsProven'
    BY DEF StoreInv, KeyInv, NoOrphan, ActiveIsProven
  <2>5. SessionInv'
    BY <2>2 DEF SessionInv, StoreInv, Writing, NeedsPromotion, IsReservation
  <2>6. WireInv' /\ ReservedInv'
    BY <1>4, <2>1, <2>2 DEF WireInv, ReservedInv, Request
  <2> QED
    BY <2>3, <2>4, <2>5, <2>6
<1> QED
  BY <1>2, <1>3, <1>4, AdvanceMeans

LEMMA OutCompleteStep == IInv /\ OutComplete => IInv'
<1> SUFFICES ASSUME IInv, OutComplete PROVE IInv'
  OBVIOUS
<1> USE DEF IInv, OutComplete, In, Exchanging, wireVars
<1> DEFINE h == [host EXCEPT !.request.outPending = FALSE]
<1>1. host \in Sessions /\ replies \in Seq(Frame)
  BY DEF TypeOK
<1>2. Request.sent
  BY DEF WireInv, Request, NoRequest
<1>3. /\ h \in Sessions /\ h.phase = host.phase /\ h.psk = host.psk
      /\ h.prepared = host.prepared /\ h.disposition = host.disposition
      /\ h.request.sent = host.request.sent
      /\ h.request.ackSeen = host.request.ackSeen
      /\ h.request.done = host.request.done
  BY <1>1 DEF Sessions, Requests
<1>4. host' = Advance(h)
  OBVIOUS
<1> HIDE DEF h
<1>5. Len(replies) <= 2 /\ replies' = replies
  BY <1>2 DEF WireInv
<1> QED
  BY <1>1, <1>2, <1>3, <1>4, <1>5, ExchangeStep DEF WireInv, Request

(* The ACK first, then the result; any other order ends the session.        *)
LEMMA HandleReplyStep == IInv /\ HandleReply => IInv'
<1> SUFFICES ASSUME IInv, HandleReply PROVE IInv'
  OBVIOUS
<1> USE DEF IInv, HandleReply, In, Exchanging
<1> DEFINE frame == Head(replies)
<1>1. /\ host \in Sessions /\ replies \in Seq(Frame) /\ replies # <<>>
      /\ frame \in Frame /\ replies' \in Seq(Frame)
      /\ Len(replies') = Len(replies) - 1 /\ Len(replies) \in Nat
  BY DEF TypeOK
<1>2. pending = Absent
  BY DEF SessionInv, Writing
<1>3. CASE host' = Closed
  BY <1>1, <1>2, <1>3, Closes DEF TypeOK, storeVars
<1>4. CASE Request.sent /\ host' # Closed
  <2>1. wire = Absent /\ Len(replies) <= 2
        /\ (Request.ackSeen => Len(replies) <= 1) /\ ~Request.done
    BY <1>1, <1>4 DEF WireInv
  <2>2. CASE frame.kind = "ack" /\ ~Request.ackSeen
    <3> DEFINE h == [host EXCEPT !.request.ackSeen = TRUE]
    <3>1. /\ h \in Sessions /\ h.phase = host.phase /\ h.psk = host.psk
          /\ h.prepared = host.prepared /\ h.disposition = host.disposition
          /\ h.request.sent = host.request.sent
          /\ h.request.done = host.request.done
      BY <1>1 DEF Sessions, Requests
    <3>2. host' = h
      BY <1>4, <2>2 DEF Receive
    <3>3. Advance(h) = h
      BY <2>1, <3>1 DEF Advance, Request
    <3>4. Len(replies') <= 1
      BY <1>1, <2>1
    <3> HIDE DEF h
    <3>5. h.request.sent /\ ~h.request.done
      BY <1>4, <2>1, <3>1 DEF Request
    <3>6. host' = Advance(h)
      BY <3>2, <3>3
    <3>7. Len(replies') <= 2
      BY <1>1, <3>4
    <3> QED
      BY <1>1, <1>4, <2>1, <3>1, <3>4, <3>5, <3>6, <3>7, ExchangeStep
  <2>3. CASE frame.kind = "result" /\ Request.ackSeen
    <3> DEFINE readBb == IF In("read_bb") THEN frame.value ELSE host.readBb
               readValidator == IF In("read_validator") THEN frame.value
                                ELSE host.readValidator
               h == [host EXCEPT !.request.done = TRUE, !.readBb = readBb,
                                 !.readValidator = readValidator]
    <3>1. frame.value \in Value
      BY <1>1, <2>3 DEF Frame
    <3>2. host' = Advance(h)
      BY <1>4, <2>3 DEF Receive
    <3>3. readBb \in Value \cup {Absent} /\ readValidator \in Value \cup {Absent}
      BY <1>1, <3>1 DEF Sessions
    <3> HIDE DEF readBb, readValidator
    <3>4. /\ h \in Sessions /\ h.phase = host.phase /\ h.psk = host.psk
          /\ h.prepared = host.prepared /\ h.disposition = host.disposition
          /\ h.request.sent = host.request.sent
      BY <1>1, <3>3 DEF Sessions, Requests
    <3> HIDE DEF h
    <3>5. replies' = <<>> /\ Len(replies') <= 2 /\ Len(replies') <= 1
      BY <1>1, <2>1, <2>3
    <3>6. h.request.sent
      BY <1>4, <3>4 DEF Request
    <3> QED
      BY <1>1, <1>4, <2>1, <3>2, <3>4, <3>5, <3>6, ExchangeStep
  <2> QED
    BY <1>1, <1>4, <2>2, <2>3 DEF Receive, Frame
<1> QED
  BY <1>3, <1>4

(* The reader executes an E0 only with a key the store holds for it.        *)
LEMMA ReaderExecutesStep == IInv /\ ReaderExecutes => IInv'
<1> SUFFICES ASSUME IInv, ReaderExecutes PROVE IInv'
  OBVIOUS
<1> USE PairingAssumption
      DEF IInv, ReaderExecutes, storeVars, historyVars, In, Exchanging
<1>1. /\ wire \in Command /\ replies \in Seq(Frame)
      /\ plugged \in Reader /\ paired \in [Reader -> Psk] /\ bb[plugged] \in Bb
  BY DEF TypeOK
<1>2. wire.psk \in Psk
  BY <1>1 DEF Command
<1>3. paired' \in [Reader -> Psk]
  BY <1>1, <1>2
<1> DEFINE value == CASE wire.command = "e0" -> "accepted"
                      [] wire.command = "read_bb" -> bb[plugged]
                      [] OTHER -> paired[plugged]
<1>4. value \in Value
  BY <1>1 DEF Value
<1>5. replies' = IF In("closed") THEN <<>> ELSE replies \o Answers(value)
  OBVIOUS
<1> HIDE DEF value
<1>6. Answers(value) \in Seq(Frame) /\ Len(Answers(value)) = 2
  <2>1. [kind |-> "ack"] \in Frame /\ [kind |-> "result", value |-> value] \in Frame
    BY <1>4 DEF Frame
  <2> QED
    BY <2>1 DEF Answers
<1>7. /\ replies' \in Seq(Frame)
      /\ ~In("closed") /\ replies = <<>> => Len(replies') = 2
  <2> HIDE DEF ReaderExecutes, In
  <2>1. replies \o Answers(value) \in Seq(Frame)
        /\ (replies = <<>> => Len(replies \o Answers(value)) = 2)
    BY <1>1, <1>6, TwoMore
  <2> QED
    BY <1>5, <2>1
<1>8. TypeOK'
  BY <1>3, <1>7 DEF TypeOK, Store!RegisterTypeOK
<1>9. ASSUME paired' # paired
      PROVE  /\ \A v \in possible : Holds(v, plugged, wire.psk)
             /\ wire.psk \in drawn
             /\ paired' = [paired EXCEPT ![plugged] = wire.psk]
  <2>1. wire.command = "e0" /\ paired' = [paired EXCEPT ![plugged] = wire.psk]
    BY <1>9
  <2>2. \A v \in possible : Holds(v, plugged, wire.psk)
    BY <2>1 DEF NoOrphan
  <2> QED
    BY <2>1, <2>2 DEF StoreInv, Holds
<1>10. KeyInv'
  BY <1>1, <1>9 DEF KeyInv
<1>11. NoOrphan'
  BY <1>1, <1>9 DEF NoOrphan
<1>12. StoreInv' /\ ActiveIsProven'
  BY DEF StoreInv, ActiveIsProven
<1>13. SessionInv'
  BY DEF SessionInv, Writing, NeedsPromotion, IsReservation
<1>14. WireInv'
  BY <1>7 DEF WireInv, Request
<1>15. ReservedInv'
  BY DEF ReservedInv, Request
<1> QED
  BY <1>8, <1>10, <1>11, <1>12, <1>13, <1>14, <1>15

(* TLS proves the key.  A reservation that is promoted is for the key the   *)
(* reader holds, so no power loss can bring back a store without it.        *)
LEMMA TlsSucceedsStep == IInv /\ TlsSucceeds => IInv'
<1> SUFFICES ASSUME IInv, TlsSucceeds PROVE IInv'
  OBVIOUS
<1> USE PairingAssumption
      DEF IInv, TlsSucceeds, readerVars, wireVars, In, Go
<1>1. /\ host \in Sessions /\ plugged \in Reader /\ paired[plugged] \in Psk
      /\ visible \in possible /\ pending = Absent
  BY DEF TypeOK, StoreInv, SessionInv, Writing
<1>2. proven' = proven \cup {<<plugged, host.psk>>}
      /\ proven' \subseteq Reader \X Psk
  BY <1>1 DEF TypeOK
<1>3. KeyInv'
  BY DEF KeyInv
<1>4. CASE ~NeedsPromotion
  <2>1. host' = [host EXCEPT !.phase = "ready"] /\ UNCHANGED storeVars
    BY <1>4
  <2>2. /\ host' \in Sessions /\ host'.phase = "ready"
        /\ host'.request = host.request
    BY <1>1, <2>1 DEF Sessions
  <2>3. TypeOK'
    BY <1>2, <2>1, <2>2 DEF TypeOK, Store!RegisterTypeOK, storeVars
  <2>4. StoreInv' /\ NoOrphan' /\ ActiveIsProven'
    BY <1>2, <2>1 DEF StoreInv, NoOrphan, ActiveIsProven, storeVars
  <2>5. SessionInv' /\ ReservedInv'
    BY <1>1, <2>1, <2>2
       DEF SessionInv, ReservedInv, Writing, Exchanging, NeedsPromotion, storeVars
  <2>6. WireInv'
    BY <2>2 DEF WireInv, Exchanging, Request
  <2> QED
    BY <1>3, <2>3, <2>4, <2>5, <2>6
<1>5. CASE NeedsPromotion
  <2> DEFINE r == Promoted(host.prepared)
  <2>1. /\ host' = [host EXCEPT !.phase = "promoting"]
        /\ host.prepared.generation < MaxGeneration /\ Store!Accept(r)
    BY <1>5 DEF Promoted
  <2>2. visible = host.prepared /\ IsReservation(visible)
    BY <1>5 DEF SessionInv
  <2>3. /\ r \in Record /\ r.psk = visible.psk /\ r.binding = visible.binding
        /\ r.generation > visible.generation /\ r.phase = "ACTIVE"
    BY <2>1, <2>2, PromotedMeans DEF IsReservation
  <2>4. UNCHANGED <<visible, possible, acked>> /\ pending' = r
    BY <2>1 DEF Store!Accept
  <2>5. /\ host' \in Sessions /\ host'.phase = "promoting"
        /\ host'.psk = host.psk /\ host'.prepared = host.prepared
        /\ host'.request = host.request
    BY <1>1, <2>1 DEF Sessions
  <2>6. TypeOK'
    BY <1>2, <2>3, <2>4, <2>5 DEF TypeOK, Store!RegisterTypeOK
  <2>7. StoreInv'
    BY <1>1, <2>2, <2>3, <2>4 DEF StoreInv, IsReservation
  <2>8. possible \subseteq Record
    <3>1. host.psk \in drawn /\ paired[plugged] = host.psk
      BY <1>1, <2>2 DEF StoreInv, IsReservation
    <3> QED
      BY <1>1, <3>1 DEF NoOrphan, Holds
  <2>9. SessionInv'
    <3>1. IsReservation(host.prepared)'
      BY <2>2, <2>5 DEF IsReservation
    <3>2. pending' # Absent
      BY <2>3, <2>4
    <3>3. pending' = Promoted(host'.prepared)
      BY <2>4, <2>5
    <3> HIDE DEF r
    <3> QED
      BY <1>2, <2>2, <2>4, <2>5, <2>8, <3>1, <3>2, <3>3
         DEF SessionInv, Writing, Exchanging
  <2> HIDE DEF r
  <2>10. WireInv'
    BY <2>5 DEF WireInv, Exchanging, Request
  <2>11. ReservedInv'
    <3> SUFFICES ASSUME NEW g \in reserved
                 PROVE  r.generation > g
      BY <2>4, <2>5 DEF ReservedInv
    <3>1. visible.generation >= g
      BY <1>1 DEF ReservedInv
    <3> QED
      BY <2>2, <2>3, <3>1 DEF TypeOK, IsReservation, Record, Generation
  <2>12. NoOrphan' /\ ActiveIsProven'
    BY <1>2, <2>2, <2>3, <2>4 DEF NoOrphan, ActiveIsProven, IsReservation
  <2> QED
    BY <1>3, <2>6, <2>7, <2>9, <2>10, <2>11, <2>12
<1> QED
  BY <1>4, <1>5

(* What happens to the readers and the wire outside of a session.           *)
LEMMA OutsideStep ==
  ASSUME IInv, In("closed"), UNCHANGED <<storeVars, host, legacy, historyVars>>,
         \/ UNCHANGED <<wire, paired>>
         \/ UNCHANGED paired /\ wire' = Absent
         \/ /\ UNCHANGED wire /\ wire = Absent
            /\ \E p \in ForeignPsk : paired' = [paired EXCEPT ![plugged] = p],
         UNCHANGED plugged \/ (wire' = Absent /\ plugged' \in Reader),
         bb' \in [Reader -> Bb], replies' \in Seq(Frame),
         trouble' \in 0..MaxTrouble
  PROVE  IInv'
<1> USE PairingAssumption DEF IInv, storeVars, historyVars, In
<1>1. plugged \in Reader /\ paired \in [Reader -> Psk] /\ drawn \subseteq HostPsk
  BY DEF TypeOK
<1>2. paired' \in [Reader -> Psk] /\ plugged' \in Reader
  BY <1>1 DEF Psk
<1>3. TypeOK'
  BY <1>2 DEF TypeOK, Store!RegisterTypeOK
<1>4. StoreInv' /\ ActiveIsProven'
  BY DEF StoreInv, ActiveIsProven
<1>5. KeyInv'
  BY <1>1 DEF KeyInv
<1>6. SessionInv' /\ ReservedInv' /\ WireInv'
  BY DEF SessionInv, ReservedInv, WireInv, Writing, Exchanging, NeedsPromotion,
         Request
<1>7. NoOrphan'
  BY <1>1 DEF NoOrphan
<1> QED
  BY <1>3, <1>4, <1>5, <1>6, <1>7

(* Every step keeps the invariant.                                          *)
LEMMA NextInv == IInv /\ [Next]_vars => IInv'
<1> SUFFICES ASSUME IInv, [Next]_vars PROVE IInv'
  OBVIOUS
<1>1. /\ trouble \in 0..MaxTrouble /\ trouble + 1 \in Nat /\ replies \in Seq(Frame)
      /\ bb \in [Reader -> Bb] /\ plugged \in Reader
  BY PairingAssumption DEF IInv, TypeOK
<1>2. Trouble => trouble' \in 0..MaxTrouble
  BY <1>1, PairingAssumption DEF Trouble
<1>3. ~Writing => pending = Absent
  BY DEF IInv, SessionInv
<1>4. CASE FailClosed \/ TlsFails \/ CloseReady
  BY <1>1, <1>3, <1>4, Closes
     DEF FailClosed, TlsFails, CloseReady, In, Writing, storeVars, wireVars
<1>5. CASE SessionDies
  <2>1. pending' = Absent /\ UNCHANGED <<visible, possible, acked>>
    BY <1>5 DEF SessionDies, Store!Abandon, storeVars
  <2> QED
    BY <1>2, <1>5, <2>1, Closes DEF SessionDies
<1>6. CASE PowerLoss
  BY <1>2, <1>6, Closes DEF PowerLoss, Store!LosePower
<1>7. CASE WireLoses
  BY <1>1, <1>7, OutsideStep DEF WireLoses, readerVars
<1>8. CASE ForeignPairing
  BY <1>1, <1>2, <1>8, OutsideStep DEF ForeignPairing, wireVars
<1>9. CASE ForeignBb
  BY <1>1, <1>2, <1>9, OutsideStep DEF ForeignBb, wireVars
<1>10. CASE SwapReader
  BY <1>1, <1>2, <1>10, OutsideStep DEF SwapReader, wireVars
<1>11. CASE UNCHANGED vars
  <2> USE <1>11 DEF vars, storeVars, wireVars, readerVars, historyVars, IInv
  <2>1. TypeOK'
    BY DEF TypeOK, Store!RegisterTypeOK
  <2>2. StoreInv' /\ KeyInv' /\ NoOrphan' /\ ActiveIsProven'
    BY DEF StoreInv, KeyInv, NoOrphan, ActiveIsProven
  <2>3. SessionInv' /\ WireInv' /\ ReservedInv'
    BY DEF SessionInv, WireInv, ReservedInv, Writing, Exchanging, In, Request,
           NeedsPromotion, IsReservation
  <2> QED
    BY <2>1, <2>2, <2>3
<1> QED
  BY <1>4, <1>5, <1>6, <1>7, <1>8, <1>9, <1>10, <1>11,
     OpenStep, UseMaterialStep, PrepareNewPskStep, PrepareRestoreStep,
     WriteDoneStep, SubmitStep, OutCompleteStep, HandleReplyStep,
     TlsSucceedsStep, StoreStepStep, ReaderExecutesStep
     DEF Next, HostStep

LEMMA SpecInv == Spec => []IInv
BY InitInv, NextInv, PTL DEF Spec

-----------------------------------------------------------------------------
(* The register, the session, the wire and the readers hold what their      *)
(* declarations say, for any keys, readers and generations.                 *)
THEOREM AlwaysTypeOK == Spec => []TypeOK
<1>1. IInv => TypeOK
  BY DEF IInv
<1> QED
  BY <1>1, SpecInv, PTL

(* While a reader holds a key this host has drawn, or an E0 is about to give*)
(* it one, every power loss leaves a record with that key for that reader:  *)
(* write_state() before E0, the readback and the promotion orphan no reader.*)
THEOREM AlwaysNoOrphan == Spec => []NoOrphan
<1>1. IInv => NoOrphan
  BY DEF IInv
<1> QED
  BY <1>1, SpecInv, PTL

(* No record says ACTIVE before a handshake with its key has succeeded on   *)
(* its reader.                                                              *)
THEOREM AlwaysActiveIsProven == Spec => []ActiveIsProven
<1>1. IInv => ActiveIsProven
  BY DEF IInv
<1> QED
  BY <1>1, SpecInv, PTL

(* An E0 is submitted once for a reservation, in this session or in any     *)
(* later one: a generation that had its E0 is never reserved again.         *)
THEOREM AtMostOneE0 == Spec => OneE0PerReservation
<1> DEFINE Once == /\ wire' # Absent /\ wire' # wire /\ wire'.command = "e0"
                   => host.prepared.generation \notin reserved
<1>1. IInv /\ [Next]_vars => [Once]_vars
  <2> SUFFICES ASSUME IInv, [Next]_vars, wire' # Absent, wire' # wire,
                      wire'.command = "e0"
               PROVE  host.prepared.generation \notin reserved
    OBVIOUS
  <2>1. Submit
    BY DEF Next, HostStep, vars, wireVars, Open, UseMaterial, FailClosed,
           PrepareNewPsk, PrepareRestore, Prepare, WriteDone, OutComplete,
           HandleReply, TlsSucceeds, TlsFails, StoreStep, ReaderExecutes,
           CloseReady, SessionDies, PowerLoss, WireLoses, ForeignPairing,
           ForeignBb, SwapReader
  <2>2. In("e0") /\ ~Request.sent
    BY <2>1 DEF Submit, MaySubmit, In
  <2>3. IsReservation(host.prepared)
    BY <2>2 DEF IInv, SessionInv, Exchanging
  <2>4. \A g \in reserved : host.prepared.generation > g
    BY <2>2 DEF IInv, ReservedInv
  <2> QED
    BY <2>3, <2>4 DEF IsReservation, Record, Generation
<1> QED
  BY <1>1, SpecInv, PTL DEF Spec, OneE0PerReservation

(* A PREPARED record is followed by its own promotion only, and an ACTIVE   *)
(* one never loses its key, whatever the sessions and the power do.         *)
THEOREM RecordsStick == Spec => RecordSticks
<1> DEFINE
      Follows ==
        \/ visible \notin Record \/ visible' = visible \/ visible' \in possible
        \/ visible.phase = "PREPARED" =>
             visible' = [visible EXCEPT !.phase = "ACTIVE",
                                        !.generation = visible.generation + 1]
      Keeps ==
        \/ visible \notin Record
        \/ visible.phase = "ACTIVE" =>
             visible' \in Record /\ visible'.psk = visible.psk
<1>1. IInv /\ [Next]_vars => [Follows /\ Keeps]_vars
  <2> SUFFICES ASSUME IInv, [Next]_vars, visible \in Record,
                      visible' # visible
               PROVE  Follows /\ Keeps
    OBVIOUS
  <2>1. visible \in possible
        /\ (visible.phase = "ACTIVE" => possible \subseteq Record)
        /\ \A v \in possible \cup {pending} : v \in Record => v.psk = visible.psk
    BY DEF IInv, StoreInv
  <2>2. PowerLoss \/ StoreStep
    BY DEF Next, HostStep, vars, storeVars, Open, UseMaterial, FailClosed,
           PrepareNewPsk, PrepareRestore, Prepare, WriteDone, Submit,
           OutComplete, HandleReply, TlsSucceeds, TlsFails, ReaderExecutes,
           CloseReady, SessionDies, WireLoses, ForeignPairing, ForeignBb,
           SwapReader, Store!Accept, Store!Acknowledge, Store!Abandon
  <2>3. CASE PowerLoss
    BY <2>1, <2>3 DEF PowerLoss, Store!LosePower
  <2>4. CASE StoreStep
    <3>1. Store!Publish
      BY <2>4, PairingAssumption DEF StoreStep, Store!Disturb, Store!Harden
    <3>2. visible' = pending /\ pending \in Record
      BY <3>1 DEF Store!Publish, IInv, TypeOK, Store!RegisterTypeOK
    <3>3. ASSUME visible.phase = "PREPARED"
          PROVE  visible = host.prepared /\ pending = Promoted(visible)
      BY <2>4, <3>2, <3>3 DEF StoreStep, Writing, IInv, SessionInv
    <3> QED
      BY <2>1, <3>2, <3>3 DEF Promoted
  <2> QED
    BY <2>2, <2>3, <2>4
<1> QED
  BY <1>1, SpecInv, PTL DEF Spec, RecordSticks

(* The sessions use the store as the register it is specified to be: they   *)
(* write records only, one after the other, each after the visible one.  So *)
(* what SelfState implements is all that pairing asks of it.                *)
THEOREM SessionsUseRegister == Spec => Store!RegisterSpec
<1>1. Init => Store!RegisterInit
  BY DEF Init
<1>2. IInv /\ IInv' /\ [Next]_vars => [Store!RegisterNext]_(Store!registerVars)
  <2> SUFFICES ASSUME IInv, IInv', [Next]_vars, ~UNCHANGED storeVars
               PROVE  Store!RegisterNext
    BY DEF Store!registerVars, storeVars
  <2>1. ASSUME NEW r, Store!Accept(r)
        PROVE  Store!RegisterNext
    <3>1. r \in Record \/ r = Absent
      BY <2>1 DEF Store!Accept, IInv, TypeOK, Store!RegisterTypeOK
    <3>2. r # Absent
      BY <2>1 DEF Store!Accept, storeVars
    <3> QED
      BY <2>1, <3>1, <3>2 DEF Store!RegisterNext
  <2>2. \/ PrepareNewPsk \/ PrepareRestore \/ TlsSucceeds \/ StoreStep \/ WriteDone
        \/ SessionDies \/ PowerLoss
    BY DEF Next, HostStep, vars, storeVars, Open, UseMaterial, FailClosed,
           Submit, OutComplete, HandleReply, TlsFails, ReaderExecutes,
           CloseReady, WireLoses, ForeignPairing, ForeignBb, SwapReader
  <2> QED
    BY <2>1, <2>2 DEF PrepareNewPsk, PrepareRestore, Prepare, TlsSucceeds,
                      StoreStep, WriteDone, SessionDies, PowerLoss,
                      Store!RegisterNext, storeVars
<1> QED
  BY <1>1, <1>2, SpecInv, PTL DEF Spec, Store!RegisterSpec

------------------------------------------------------------------------------
(* What the register promises its callers.                                  *)

StoreKeeps == Store!RegisterTypeOK /\ Store!KeepsAcknowledged

(* An empty register has acknowledged nothing.                              *)
LEMMA RegisterInitKeeps == Store!RegisterInit => StoreKeeps
BY DEF Store!RegisterInit, StoreKeeps, Store!RegisterTypeOK, Store!KeepsAcknowledged

(* Each step keeps what was acknowledged: a write may only publish a record *)
(* that follows the visible one, and a power loss only takes a possible one.*)
LEMMA RegisterStepKeeps ==
  ASSUME StoreKeeps, [Store!RegisterNext]_(Store!registerVars)
  PROVE  StoreKeeps'
<1>0. /\ \A r \in Record : r.generation \in Nat
      /\ {Absent, Partial} \cap Record = {}
  BY PairingAssumption DEF Record, Generation
<1> USE DEF StoreKeeps, Store!RegisterTypeOK
<1>1. ASSUME NEW r \in Record, Store!Accept(r) PROVE StoreKeeps'
  BY <1>1 DEF Store!Accept, Store!KeepsAcknowledged
<1>2. CASE Store!Disturb
  BY <1>0, <1>2 DEF Store!Disturb, Store!KeepsAcknowledged
<1>3. CASE Store!Publish
  <2>1. acked # Absent =>
          /\ pending.generation >= acked.generation
          /\ pending.binding = acked.binding
    BY <1>0, <1>3 DEF Store!Publish, Store!KeepsAcknowledged, Store!Follows
  <2> QED
    BY <1>3, <2>1 DEF Store!Publish, Store!KeepsAcknowledged
<1>4. CASE Store!Harden
  BY <1>4 DEF Store!Harden, Store!KeepsAcknowledged
<1>5. CASE Store!Acknowledge
  BY <1>0, <1>5 DEF Store!Acknowledge, Store!KeepsAcknowledged
<1>6. CASE Store!Abandon
  BY <1>6 DEF Store!Abandon, Store!KeepsAcknowledged
<1>7. CASE Store!LosePower
  BY <1>7 DEF Store!LosePower, Store!KeepsAcknowledged
<1>8. CASE UNCHANGED Store!registerVars
  BY <1>8 DEF Store!registerVars, Store!KeepsAcknowledged
<1> QED
  BY <1>1, <1>2, <1>3, <1>4, <1>5, <1>6, <1>7, <1>8 DEF Store!RegisterNext

(* What was acknowledged to a session is never taken back, by any power     *)
(* loss in any later write of any session: the promise E0 is sent on.       *)
THEOREM AcknowledgedIsKept == Spec => []Store!KeepsAcknowledged
<1>1. StoreKeeps => Store!KeepsAcknowledged
  BY DEF StoreKeeps
<1>2. StoreKeeps /\ [Store!RegisterNext]_(Store!registerVars) => StoreKeeps'
  BY RegisterStepKeeps
<1>3. Store!RegisterSpec => []StoreKeeps
  BY <1>2, RegisterInitKeeps, PTL DEF Store!RegisterSpec
<1> QED
  BY <1>1, <1>3, SessionsUseRegister, PTL

==============================================================================
