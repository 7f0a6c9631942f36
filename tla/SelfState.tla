------------------------------ MODULE SelfState ------------------------------
(****************************************************************************)
(* The host pairing store, libfprint-driver/goodix_self_state.c.            *)
(*                                                                          *)
(* The store is a directory with two slots, a and b.  A slot holds a secret *)
(* file (the generation and the PSK) and a receipt file (the record, under  *)
(* an HMAC keyed by that PSK), and each of the two is replaced through a    *)
(* temporary name.  write_state() overwrites one slot, one file at a time:  *)
(*                                                                          *)
(*     unlink stale temporary -> create and write -> fsync file             *)
(*            -> rename over the final name -> fsync directory              *)
(*                                                                          *)
(* and any of these may fail, be cut by the death of the process, or by a   *)
(* power loss.  Directory operations reach the disk in the order they were  *)
(* issued (a journaling file system); a power loss keeps some prefix of     *)
(* those not yet synchronised, and may spoil the data of a file that was    *)
(* renamed before its fsync.  One process writes at a time (fprintd is the  *)
(* only caller), so there is one write_state() in progress at most.         *)
(****************************************************************************)
EXTENDS Naturals

CONSTANTS
  Psk,           \* the PSKs that are ever generated
  Binding,       \* the targets (application, chip, OTP, CONFIG90) of a record
  Payload,       \* the rest of a record: phase, validators, FDT table, flags
  MaxGeneration, \* bound on the generations written (the code's is 2^64 - 1)
  None,          \* there is no such file, or no such record
  Spoiled,       \* a file that does not hold what was written to it
  Partial        \* what a load reports when artifacts are all there is

Generation == 1..MaxGeneration
Slot == {0, 1}

(* What a caller asks write_state() to store, and what it loads back.       *)
Record == [generation : Generation, psk : Psk, binding : Binding,
           payload : Payload]

(* secret-x.bin is the generation and the PSK; receipt-x.bin is everything  *)
(* but the PSK, and verifies only under the PSK that keyed its HMAC.        *)
SecretFile == [generation : Generation, psk : Psk]
ReceiptFile == [generation : Generation, hmacKey : Psk, binding : Binding,
                payload : Payload]

ASSUME GenerationAssumption == MaxGeneration \in Nat
ASSUME MarkAssumption ==
  /\ {None, Spoiled} \cap (SecretFile \cup ReceiptFile) = {}
  /\ {None, Partial} \cap Record = {}
  /\ None # Spoiled /\ None # Partial

Component == {"secret", "receipt"}

(* One state of the directory: the four names of each slot.  Nothing reads  *)
(* a temporary, so only its existence is kept.                              *)
SlotFiles == [secret : SecretFile \cup {None, Spoiled},
              receipt : ReceiptFile \cup {None, Spoiled},
              temp : [Component -> BOOLEAN]]
Directory == [Slot -> SlotFiles]

SecretOf(r) == [generation |-> r.generation, psk |-> r.psk]
ReceiptOf(r) == [generation |-> r.generation, hmacKey |-> r.psk,
                 binding |-> r.binding, payload |-> r.payload]
Contents(r, c) == IF c = "secret" THEN SecretOf(r) ELSE ReceiptOf(r)

------------------------------------------------------------------------------
(* load_slot(): what the reader of the directory makes of a slot.           *)

Artifact(d, s) ==
  \/ d[s].secret # None
  \/ d[s].receipt # None
  \/ \E c \in Component : d[s].temp[c]

Valid(d, s) ==
  /\ d[s].secret \in SecretFile
  /\ d[s].receipt \in ReceiptFile
  /\ d[s].receipt.hmacKey = d[s].secret.psk
  /\ d[s].receipt.generation = d[s].secret.generation

RecordIn(d, s) ==
  [generation |-> d[s].receipt.generation, psk |-> d[s].secret.psk,
   binding |-> d[s].receipt.binding, payload |-> d[s].receipt.payload]

SlotGeneration(d, s) == d[s].receipt.generation
AnyValid(d) == \E s \in Slot : Valid(d, s)
AnyArtifact(d) == \E s \in Slot : Artifact(d, s)

(* The slot goodix_self_state_load() selects: the valid one of the highest  *)
(* generation, slot a on a tie.                                             *)
Selected(d) ==
  IF Valid(d, 0) /\ (Valid(d, 1) => SlotGeneration(d, 0) >= SlotGeneration(d, 1))
  THEN 0 ELSE 1

(* A valid slot names another target than the caller's: goodix_self_state_  *)
(* load() reports BINDING_MISMATCH and write_state() refuses.               *)
Mismatch(d, b) == \E s \in Slot : Valid(d, s) /\ d[s].receipt.binding # b

(* What goodix_self_state_load() finds for the target of the store: VALID   *)
(* and the record, INCOMPLETE (Partial) or ABSENT (None).                   *)
Load(d) ==
  IF AnyValid(d) THEN RecordIn(d, Selected(d))
  ELSE IF AnyArtifact(d) THEN Partial ELSE None

------------------------------------------------------------------------------
VARIABLES
  dir,        \* the directory as the running kernel shows it
  survivors,  \* the directories a power loss now may leave behind
  writer,     \* the write_state() call in progress, or Idle
  acked       \* the last record whose write_state() returned TRUE (history)

vars == <<dir, survivors, writer, acked>>

Idle == [step |-> "idle"]
Step == {"unlink", "create", "fsync", "rename", "syncdir"}
Writing == [step : Step, component : Component, target : Slot,
            record : Record, synced : BOOLEAN]

Empty == [s \in Slot |-> [secret |-> None, receipt |-> None,
                          temp |-> [c \in Component |-> FALSE]]]

Init ==
  /\ dir = Empty
  /\ survivors = {Empty}
  /\ writer = Idle
  /\ acked = None

(* Mutant: the slot after the newest one, without wrapping round.           *)
TargetOffByOne(d) ==
  CASE Valid(d, 0) /\ Valid(d, 1) ->
         IF SlotGeneration(d, 0) <= SlotGeneration(d, 1) THEN 2 ELSE 1
    [] Valid(d, 0) /\ ~Valid(d, 1) -> 1
    [] ~Valid(d, 0) /\ Valid(d, 1) -> 2
    [] OTHER -> IF Artifact(d, 0) THEN 1 ELSE 0

(* Mutant: the comparison of the two generations is the wrong way round.    *)
TargetNewest(d) ==
  CASE Valid(d, 0) /\ Valid(d, 1) ->
         IF SlotGeneration(d, 0) <= SlotGeneration(d, 1) THEN 1 ELSE 0
    [] Valid(d, 0) /\ ~Valid(d, 1) -> 1
    [] ~Valid(d, 0) /\ Valid(d, 1) -> 0
    [] OTHER -> IF Artifact(d, 0) THEN 1 ELSE 0

(* The slot write_state() overwrites: never the newest valid one.           *)
Target(d) ==
  CASE Valid(d, 0) /\ Valid(d, 1) ->
         IF SlotGeneration(d, 0) <= SlotGeneration(d, 1) THEN 0 ELSE 1
    [] Valid(d, 0) /\ ~Valid(d, 1) -> 1
    [] ~Valid(d, 0) /\ Valid(d, 1) -> 0
    [] OTHER -> IF Artifact(d, 0) THEN 1 ELSE 0

(* Mutant: nothing compares the generation with those present.              *)
WriteAllowedAnyGeneration(d, r) ==
  /\ ~Mismatch(d, r.binding)
  /\ AnyValid(d) \/ ~(Artifact(d, 0) /\ Artifact(d, 1))

(* Mutant: artifacts in both slots refuse the write, valid or not.          *)
WriteAllowedClean(d, r) ==
  /\ ~Mismatch(d, r.binding)
  /\ \A s \in Slot : Artifact(d, s) => Valid(d, s)
  /\ \A s \in Slot : Valid(d, s) => r.generation > SlotGeneration(d, s)

(* The early returns of write_state(): another target's record is present,  *)
(* no slot is unambiguously free, or the generation does not increase.      *)
WriteAllowed(d, r) ==
  /\ ~Mismatch(d, r.binding)
  /\ AnyValid(d) \/ ~(Artifact(d, 0) /\ Artifact(d, 1))
  /\ \A s \in Slot : Valid(d, s) => r.generation > SlotGeneration(d, s)

(* A call of write_state(), up to the first file operation.                 *)
BeginWrite(r) ==
  /\ writer = Idle
  /\ WriteAllowed(dir, r)
  /\ writer' = [step |-> "unlink", component |-> "secret",
                target |-> Target(dir), record |-> r, synced |-> FALSE]
  /\ UNCHANGED <<dir, survivors, acked>>

------------------------------------------------------------------------------
(* write_component(), one file operation per action.                        *)

At(step) == writer # Idle /\ writer.step = step
Advance(step) == writer' = [writer EXCEPT !.step = step]

SetTemp(d, present) ==
  [d EXCEPT ![writer.target].temp[writer.component] = present]

SetFinal(d, file) ==
  IF writer.component = "secret"
  THEN [d EXCEPT ![writer.target].secret = file]
  ELSE [d EXCEPT ![writer.target].receipt = file]

(* A directory operation shows at once and is durable only after a sync.    *)
Apply(d) ==
  /\ dir' = d
  /\ survivors' = survivors \cup {d}

Unlink ==
  /\ At("unlink")
  /\ Advance("create")
  /\ Apply(SetTemp(dir, FALSE))
  /\ UNCHANGED acked

Create ==
  /\ At("create")
  /\ Advance("fsync")
  /\ Apply(SetTemp(dir, TRUE))
  /\ UNCHANGED acked

(* Mutant: the file is closed and renamed without its fsync.                *)
CloseOnly ==
  /\ At("fsync")
  /\ Advance("rename")
  /\ UNCHANGED <<dir, survivors, acked>>

FsyncFile ==
  /\ At("fsync")
  /\ writer' = [writer EXCEPT !.step = "rename", !.synced = TRUE]
  /\ UNCHANGED <<dir, survivors, acked>>

(* Were a file renamed without its fsync, a power loss could keep the new   *)
(* name and lose the data, synchronised directory or not.                   *)
DataAtRisk(d) == IF writer.synced THEN {} ELSE {SetFinal(d, Spoiled)}

Rename ==
  LET renamed == SetFinal(SetTemp(dir, FALSE),
                          Contents(writer.record, writer.component))
  IN /\ At("rename")
     /\ Advance("syncdir")
     /\ dir' = renamed
     /\ survivors' = survivors \cup {renamed} \cup DataAtRisk(renamed)
     /\ UNCHANGED acked

(* What follows a component: the receipt follows the secret, and after the  *)
(* receipt write_state() returns TRUE.                                      *)
Return ==
  IF writer.component = "secret"
  THEN /\ writer' = [writer EXCEPT !.step = "unlink",
                                   !.component = "receipt",
                                   !.synced = FALSE]
       /\ UNCHANGED acked
  ELSE /\ writer' = Idle
       /\ acked' = writer.record

SyncDirectory ==
  /\ At("syncdir")
  /\ survivors' = {dir} \cup DataAtRisk(dir)
  /\ Return
  /\ UNCHANGED dir

(* An operation fails, or the process dies: write_state() ends where it is  *)
(* and the kernel keeps what was done so far.                               *)
Interrupt ==
  /\ writer # Idle
  /\ writer' = Idle
  /\ UNCHANGED <<dir, survivors, acked>>

(* Power loss: the machine comes up with one of the possible directories.   *)
PowerLoss ==
  /\ \E d \in survivors : dir' = d /\ survivors' = {d}
  /\ writer' = Idle
  /\ UNCHANGED acked

Next ==
  \/ \E r \in Record : BeginWrite(r)
  \/ Unlink \/ Create \/ FsyncFile \/ Rename \/ SyncDirectory
  \/ Interrupt \/ PowerLoss

Spec == Init /\ [][Next]_vars

------------------------------------------------------------------------------
(* Types: the store is a directory of two slots, the writer a position in   *)
(* write_component().                                                       *)
TypeOK ==
  /\ dir \in Directory
  /\ survivors \subseteq Directory
  /\ dir \in survivors
  /\ writer \in {Idle} \cup Writing
  /\ acked \in Record \cup {None}

(* A record whose write_state() returned TRUE is never lost: whatever a     *)
(* power loss leaves, at any step of any number of later writes, failed and *)
(* interrupted ones included, holds a valid slot for the same target that   *)
(* is at least as new.                                                      *)
AckedDurable ==
  acked # None =>
    \A d \in survivors :
      \E s \in Slot : /\ Valid(d, s)
                      /\ SlotGeneration(d, s) >= acked.generation
                      /\ d[s].receipt.binding = acked.binding

(* The newest valid slot is unambiguous wherever a crash may stop: two valid *)
(* slots differ in generation and name the same target, so load() has one    *)
(* answer and never reports BINDING_MISMATCH to the target that wrote them.  *)
OneAnswer ==
  \A d \in survivors :
    Valid(d, 0) /\ Valid(d, 1) =>
      /\ SlotGeneration(d, 0) # SlotGeneration(d, 1)
      /\ d[0].receipt.binding = d[1].receipt.binding

(* Once a write was acknowledged the store can always be written again: the *)
(* next generation for the same target is refused in no survivor, so no     *)
(* crash in a later write wedges the driver.  (A crash in the first write   *)
(* does: load() reports INCOMPLETE, and the driver then writes no more.)    *)
NeverWedged ==
  acked # None =>
    \A d \in survivors :
      /\ AnyValid(d)
      /\ \A r \in Record :
           r.binding = acked.binding /\ r.generation > Load(d).generation
             => WriteAllowed(d, r)

------------------------------------------------------------------------------
(* The inductive invariant behind these properties (SelfStateProofs).       *)

(* Every directory a crash may leave: no spoiled file; no receipt newer     *)
(* than the newest valid slot; two valid slots of different generations and *)
(* the same target; and a valid slot at least as new as the acknowledged.   *)
NotOlder(d, s, g) == Valid(d, s) /\ SlotGeneration(d, s) >= g

Sound(d) ==
  /\ \A s \in Slot : d[s].secret # Spoiled /\ d[s].receipt # Spoiled
  /\ \A s \in Slot : d[s].receipt # None =>
       \E t \in Slot : NotOlder(d, t, d[s].receipt.generation)
  /\ Valid(d, 0) /\ Valid(d, 1) =>
       /\ SlotGeneration(d, 0) # SlotGeneration(d, 1)
       /\ d[0].receipt.binding = d[1].receipt.binding
  /\ acked # None =>
       \E s \in Slot : /\ NotOlder(d, s, acked.generation)
                       /\ d[s].receipt.binding = acked.binding

(* The write in progress.  Until the receipt is in place the target slot is *)
(* not the one a load selects, and the other slot is left alone; from then  *)
(* on the target slot is the newest.                                        *)
Other == 1 - writer.target
Published == writer.component = "receipt" /\ writer.step = "syncdir"

WriterSound ==
  writer # Idle =>
    /\ writer.step \in {"rename", "syncdir"} => writer.synced
    /\ Valid(dir, Other) =>
         /\ SlotGeneration(dir, Other) < writer.record.generation
         /\ dir[Other].receipt.binding = writer.record.binding
    /\ writer.component = "receipt" \/ writer.step = "syncdir" =>
         dir[writer.target].secret = SecretOf(writer.record)
    /\ Published => dir[writer.target].receipt = ReceiptOf(writer.record)
    /\ ~Published /\ Valid(dir, writer.target) =>
         NotOlder(dir, Other, SlotGeneration(dir, writer.target) + 1)

(* In a store without a valid slot, a write begins in a slot without files. *)
TargetClean ==
  (/\ writer # Idle
   /\ writer.component = "secret" /\ writer.step = "unlink"
   /\ ~AnyValid(dir)) => ~Artifact(dir, writer.target)

IInv ==
  /\ TypeOK
  /\ \A d \in survivors : Sound(d)
  /\ WriterSound
  /\ TargetClean

------------------------------------------------------------------------------
(* The two-slot store implements the register its callers rely on.          *)
Register ==
  INSTANCE PairingRegister WITH
    Absent <- None,
    visible <- Load(dir),
    possible <- {Load(d) : d \in survivors},
    pending <- IF writer = Idle THEN None ELSE writer.record

ImplementsRegister == Register!RegisterSpec

==============================================================================
