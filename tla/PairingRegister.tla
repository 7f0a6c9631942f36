--------------------------- MODULE PairingRegister ---------------------------
(****************************************************************************)
(* What the host pairing store promises, whatever its files look like: a    *)
(* register that shows one record, grows in generation, and survives a      *)
(* power loss at least as new as the last record acknowledged.              *)
(*                                                                          *)
(* A write passes through three moments that a caller can tell apart: it is *)
(* pending, it is published (a load shows it), it is acknowledged (a load   *)
(* shows it after any power loss).  A power loss may take back what was     *)
(* published and not acknowledged, and nothing else.  SelfState implements  *)
(* this register with two slots of two files; Pairing is built on it.       *)
(****************************************************************************)
EXTENDS Naturals

CONSTANTS
  Record,   \* the records: each has a natural generation and a binding
  Absent,   \* what a load reports of an empty store
  Partial   \* what a load reports of a store that holds no valid record

VARIABLES
  visible,   \* what a load shows now
  possible,  \* what a load may show after a power loss now
  pending,   \* the record of the write in progress, or Absent
  acked      \* the last record acknowledged to a writer, or Absent

registerVars == <<visible, possible, pending, acked>>

RegisterTypeOK ==
  /\ visible \in Record \cup {Absent, Partial}
  /\ possible \subseteq Record \cup {Absent, Partial}
  /\ pending \in Record \cup {Absent}
  /\ acked \in Record \cup {Absent}

RegisterInit ==
  /\ visible = Absent
  /\ possible = {Absent}
  /\ pending = Absent
  /\ acked = Absent

(* A record may follow what is visible when it names the same target and a  *)
(* higher generation.                                                       *)
Follows(r, v) ==
  v \in Record => r.generation > v.generation /\ r.binding = v.binding

Accept(r) ==
  /\ pending = Absent
  /\ Follows(r, visible)
  /\ pending' = r
  /\ UNCHANGED <<visible, possible, acked>>

(* The first files of a first write: there is something, and no record yet. *)
Disturb ==
  /\ pending # Absent
  /\ visible \in {Absent, Partial}
  /\ visible' = Partial
  /\ possible' = possible \cup {Partial}
  /\ UNCHANGED <<pending, acked>>

Publish ==
  /\ pending # Absent
  /\ Follows(pending, visible)
  /\ visible' = pending
  /\ possible' = possible \cup {pending}
  /\ UNCHANGED <<pending, acked>>

(* What is visible becomes durable.                                         *)
Harden ==
  /\ pending # Absent
  /\ possible' = {visible}
  /\ UNCHANGED <<visible, pending, acked>>

Acknowledge ==
  /\ pending # Absent
  /\ visible = pending
  /\ possible' = {visible}
  /\ acked' = pending
  /\ pending' = Absent
  /\ UNCHANGED visible

(* The write fails, or its process dies, and says nothing to its caller.    *)
Abandon ==
  /\ pending # Absent
  /\ pending' = Absent
  /\ UNCHANGED <<visible, possible, acked>>

LosePower ==
  /\ visible' \in possible
  /\ possible' = {visible'}
  /\ pending' = Absent
  /\ UNCHANGED acked

RegisterNext ==
  \/ \E r \in Record : Accept(r)
  \/ Disturb \/ Publish \/ Harden \/ Acknowledge \/ Abandon
  \/ LosePower

RegisterSpec == RegisterInit /\ [][RegisterNext]_registerVars

------------------------------------------------------------------------------
(* Every record a power loss may leave is at least as new as the last one   *)
(* whose write was acknowledged, and names the same target: a TRUE returned *)
(* by write_state() is never taken back.                                    *)
KeepsAcknowledged ==
  acked # Absent =>
    \A v \in possible \cup {visible} :
      /\ v \in Record
      /\ v.generation >= acked.generation
      /\ v.binding = acked.binding

==============================================================================
