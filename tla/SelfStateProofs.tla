--------------------------- MODULE SelfStateProofs ---------------------------
(****************************************************************************)
(* Proofs about the pairing store, for every set of PSKs, targets and       *)
(* payloads and every bound on the generations.                             *)
(*                                                                          *)
(* The argument: IInv is inductive.  Each file operation touches the target *)
(* slot only, the target slot is never the one a load selects, and until    *)
(* the receipt is renamed the other slot, if anything is valid, carries the *)
(* newest record; so every directory a crash may leave is Sound.            *)
(*                                                                          *)
(* From IInv it follows that the two-slot store implements the register its *)
(* callers rely on.  Until the receipt of a write is renamed, a load shows  *)
(* what the other slot holds, and the write does not touch it               *)
(* (BeforePublish); after that rename a load shows the record written       *)
(* (AfterPublish).  So the rename of the receipt is the register's Publish, *)
(* the directory sync that follows is its Acknowledge, and all the other    *)
(* file operations are invisible, except in a first write, where they are   *)
(* its Disturb.                                                             *)
(****************************************************************************)
EXTENDS SelfState, TLAPS

(* The two files of each slot, which is all that a load looks at.           *)
SameFiles(d, e) ==
  \A s \in Slot : d[s].secret = e[s].secret /\ d[s].receipt = e[s].receipt

(* The two files made of a record are files, and not a mark.                *)
LEMMA RecordFiles ==
  ASSUME NEW r \in Record
  PROVE  /\ SecretOf(r) \in SecretFile /\ ReceiptOf(r) \in ReceiptFile
         /\ SecretOf(r) \notin {None, Spoiled}
         /\ ReceiptOf(r) \notin {None, Spoiled}
         /\ r.generation \in Nat
BY MarkAssumption, GenerationAssumption
   DEF Record, SecretOf, ReceiptOf, SecretFile, ReceiptFile, Generation

(* A temporary comes or goes, and the two files of each slot stay.          *)
LEMMA TempLeavesFiles ==
  ASSUME NEW d \in Directory, writer \in Writing, NEW b \in BOOLEAN
  PROVE  SetTemp(d, b) \in Directory /\ SameFiles(SetTemp(d, b), d)
BY DEF Directory, SlotFiles, Writing, SetTemp, SameFiles, Slot, Component

(* What a rename does to the target slot, and not to the other.             *)
LEMMA FinalReplacesFile ==
  ASSUME NEW d \in Directory, writer \in Writing,
         NEW file, file \in IF writer.component = "secret"
                            THEN SecretFile \cup {Spoiled}
                            ELSE ReceiptFile \cup {Spoiled}
  PROVE  LET e == SetFinal(d, file)
             t == writer.target
         IN /\ e \in Directory
            /\ e[1 - t] = d[1 - t]
            /\ writer.component = "secret" =>
                 e[t].secret = file /\ e[t].receipt = d[t].receipt
            /\ writer.component = "receipt" =>
                 e[t].receipt = file /\ e[t].secret = d[t].secret
<1>1. CASE writer.component = "secret"
  BY <1>1 DEF Directory, SlotFiles, Writing, SetFinal, Slot
<1>2. CASE writer.component = "receipt"
  BY <1>2 DEF Directory, SlotFiles, Writing, SetFinal, Slot
<1>3. QED
  BY <1>1, <1>2 DEF Writing, Component

(* Validity, and with it Sound, depends on the two files only.              *)
LEMMA SameFilesSound ==
  ASSUME NEW d, NEW e, SameFiles(d, e)
  PROVE  /\ \A s \in Slot : /\ Valid(d, s) <=> Valid(e, s)
                            /\ SlotGeneration(d, s) = SlotGeneration(e, s)
                            /\ d[s].receipt = e[s].receipt
                            /\ d[s].secret = e[s].secret
         /\ Sound(d) <=> Sound(e)
<1>1. \A s \in Slot : /\ Valid(d, s) <=> Valid(e, s)
                      /\ SlotGeneration(d, s) = SlotGeneration(e, s)
                      /\ d[s].receipt = e[s].receipt
                      /\ d[s].secret = e[s].secret
  BY DEF SameFiles, Valid, SlotGeneration
<1>2. \A s \in Slot : \A g : NotOlder(d, s, g) <=> NotOlder(e, s, g)
  BY <1>1 DEF NotOlder
<1>3. Sound(d) <=> Sound(e)
  BY <1>1, <1>2 DEF Sound, Slot
<1>4. QED
  BY <1>1, <1>3

------------------------------------------------------------------------------
(* The store starts with the invariant.                                     *)
LEMMA InitIInv == Init => IInv
<1> SUFFICES ASSUME Init PROVE IInv
  OBVIOUS
<1>1. Empty \in Directory
  BY DEF Empty, Directory, SlotFiles, Slot
<1>2. TypeOK
  BY <1>1 DEF Init, TypeOK
<1>3. \A s \in Slot : Empty[s].secret = None /\ Empty[s].receipt = None
  BY DEF Empty
<1>4. \A s \in Slot : ~Valid(Empty, s)
  BY <1>3, MarkAssumption DEF Valid
<1>5. Sound(Empty)
  BY <1>3, <1>4, MarkAssumption DEF Sound, Init, Slot
<1>6. WriterSound /\ TargetClean
  BY DEF Init, WriterSound, TargetClean
<1>7. QED
  BY <1>2, <1>5, <1>6 DEF IInv, Init

------------------------------------------------------------------------------
(* Steps that leave the two files of every slot as they are.                *)

(* The target write_state() picks is one that no load selects.              *)
LEMMA BeginWriteIInv ==
  ASSUME IInv, NEW r \in Record, BeginWrite(r)
  PROVE  IInv'
<1> USE DEF BeginWrite
<1>1. Target(dir) \in Slot
  BY DEF Target, Slot
<1>2. writer' \in Writing
  BY <1>1 DEF Writing, Step, Component
<1>3. TypeOK'
  BY <1>2 DEF IInv, TypeOK
<1>4. \A d \in survivors' : Sound(d)'
  BY DEF IInv, Sound, Valid, SlotGeneration, NotOlder
<1>5. WriterSound'
  <2> DEFINE o == 1 - Target(dir)
  <2>1. /\ Valid(dir, o) => /\ SlotGeneration(dir, o) < r.generation
                            /\ dir[o].receipt.binding = r.binding
        /\ o \in Slot
    <3>1. o \in Slot
      BY <1>1 DEF Slot
    <3>2. \A s \in Slot : Valid(dir, s) => SlotGeneration(dir, s) \in Nat
      BY GenerationAssumption
         DEF Valid, SlotGeneration, ReceiptFile, Generation
    <3>3. r.generation \in Nat
      BY RecordFiles
    <3>4. QED
      BY <3>1, <3>2, <3>3 DEF WriteAllowed, Mismatch
  <2>2. Valid(dir, Target(dir)) =>
          NotOlder(dir, o, SlotGeneration(dir, Target(dir)) + 1)
    <3>1. \A s \in Slot : Valid(dir, s) => SlotGeneration(dir, s) \in Nat
      BY GenerationAssumption
         DEF Valid, SlotGeneration, ReceiptFile, Generation
    <3>2. Sound(dir)
      BY DEF IInv, TypeOK
    <3>3. QED
      BY <3>1, <3>2 DEF Sound, Target, NotOlder, Slot
  <2>3. QED
    BY <2>1, <2>2
       DEF WriterSound, Other, Published, Valid, SlotGeneration, NotOlder, Idle
<1>6. TargetClean'
  BY DEF TargetClean, WriteAllowed, AnyValid, Target, Slot, Artifact, Valid
<1>7. QED
  BY <1>3, <1>4, <1>5, <1>6 DEF IInv

(* A write that ends early leaves a state the writer was allowed to be in.  *)
LEMMA InterruptIInv ==
  ASSUME IInv, Interrupt
  PROVE  IInv'
BY DEF IInv, Interrupt, TypeOK, WriterSound, TargetClean, Sound, Valid,
       SlotGeneration, NotOlder

(* A power loss leaves one of the directories that are Sound.               *)
LEMMA PowerLossIInv ==
  ASSUME IInv, PowerLoss
  PROVE  IInv'
<1>1. TypeOK'
  BY DEF IInv, PowerLoss, TypeOK
<1>2. \A d \in survivors' : Sound(d)'
  BY DEF IInv, PowerLoss, Sound, Valid, SlotGeneration, NotOlder
<1>3. WriterSound' /\ TargetClean'
  BY DEF PowerLoss, WriterSound, TargetClean
<1>4. QED
  BY <1>1, <1>2, <1>3 DEF IInv

(* Unlinking or creating a temporary.                                       *)
LEMMA TempStepIInv ==
  ASSUME IInv, writer # Idle, NEW b \in BOOLEAN,
         Apply(SetTemp(dir, b)), UNCHANGED acked,
         NEW before \in Step, NEW after \in Step, At(before), Advance(after),
         before \in {"unlink", "create"}, after \in {"create", "fsync"}
  PROVE  IInv'
<1>1. writer \in Writing /\ dir \in Directory /\ dir \in survivors
  BY DEF IInv, TypeOK
<1> DEFINE e == SetTemp(dir, b)
<1>2. e \in Directory /\ SameFiles(e, dir)
  BY <1>1, TempLeavesFiles
<1>3. /\ writer' \in Writing
      /\ writer' = [writer EXCEPT !.step = after]
      /\ writer.step = before
  BY <1>1 DEF Advance, Writing, At
<1>4. dir' = e /\ survivors' = survivors \cup {e}
  BY DEF Apply
<1>5. TypeOK'
  BY <1>2, <1>3, <1>4 DEF IInv, TypeOK
<1>6. \A d \in survivors' : Sound(d)
  BY <1>1, <1>2, <1>4, SameFilesSound DEF IInv
<1>7. \A d \in survivors' : Sound(d)'
  BY <1>6 DEF Sound, Valid, SlotGeneration, NotOlder
<1>8. WriterSound'
  <2>1. WriterSound
    BY DEF IInv
  <2>2. writer.target \in Slot /\ Other \in Slot
    BY <1>1 DEF Writing, Slot, Other
  <2>3. /\ Other' = Other /\ writer'.target = writer.target
        /\ writer'.record = writer.record
        /\ writer'.component = writer.component
        /\ ~Published' /\ ~Published
        /\ writer'.step \notin {"rename", "syncdir"}
    BY <1>1, <1>3 DEF Other, Published, Writing
  <2>4. \A s \in Slot : /\ Valid(dir, s)' <=> Valid(dir, s)
                        /\ SlotGeneration(dir, s)' = SlotGeneration(dir, s)
                        /\ dir'[s].receipt = dir[s].receipt
                        /\ dir'[s].secret = dir[s].secret
    BY <1>2, <1>4, SameFilesSound DEF Valid, SlotGeneration, SameFiles
  <2>5. QED
    BY <2>1, <2>2, <2>3, <2>4 DEF WriterSound, NotOlder
<1>9. TargetClean'
  BY <1>1, <1>3 DEF TargetClean, Writing
<1>10. QED
  BY <1>5, <1>7, <1>8, <1>9 DEF IInv

(* The fsync changes no directory.                                          *)
LEMMA FsyncFileIInv ==
  ASSUME IInv, FsyncFile
  PROVE  IInv'
<1>1. writer \in Writing
  BY DEF IInv, TypeOK, FsyncFile, At
<1>2. writer' \in Writing
  BY <1>1 DEF FsyncFile, Writing, Step
<1>3. TypeOK'
  BY <1>2 DEF IInv, TypeOK, FsyncFile
<1>4. \A d \in survivors' : Sound(d)'
  BY DEF IInv, FsyncFile, Sound, Valid, SlotGeneration, NotOlder
<1>5. WriterSound'
  <2>1. /\ Other' = Other /\ writer'.target = writer.target
        /\ writer'.record = writer.record
        /\ writer'.component = writer.component
        /\ ~Published' /\ ~Published
        /\ writer'.synced
    BY <1>1 DEF FsyncFile, Other, Published, Writing, At
  <2>2. QED
    BY <2>1 DEF IInv, FsyncFile, WriterSound, NotOlder, Valid,
                SlotGeneration, At
<1>6. TargetClean'
  BY <1>1 DEF FsyncFile, TargetClean, Writing
<1>7. QED
  BY <1>3, <1>4, <1>5, <1>6 DEF IInv

------------------------------------------------------------------------------
(* Renaming.                                                                *)

(* Until the receipt is in place, whatever the store holds that is worth    *)
(* keeping is in the slot the writer leaves alone.                          *)
LEMMA OtherCarries ==
  ASSUME IInv, writer # Idle, ~Published
  PROVE  /\ \A s \in Slot : dir[s].receipt # None =>
              NotOlder(dir, Other, dir[s].receipt.generation)
         /\ acked # None => /\ NotOlder(dir, Other, acked.generation)
                            /\ dir[Other].receipt.binding = acked.binding
<1>1. /\ writer \in Writing /\ dir \in Directory /\ Sound(dir)
      /\ WriterSound /\ acked \in Record \cup {None}
  BY DEF IInv, TypeOK
<1>2. writer.target \in Slot /\ Other \in Slot
      /\ \A s \in Slot : s = writer.target \/ s = Other
  BY <1>1 DEF Writing, Slot, Other
<1>3. \A s \in Slot : Valid(dir, s) => SlotGeneration(dir, s) \in Nat
  BY GenerationAssumption DEF Valid, SlotGeneration, ReceiptFile, Generation
<1>4. \A g \in Nat : (\E s \in Slot : NotOlder(dir, s, g)) =>
                         NotOlder(dir, Other, g)
  BY <1>1, <1>2, <1>3 DEF WriterSound, NotOlder
<1>5. \A s \in Slot : dir[s].receipt # None =>
                         dir[s].receipt.generation \in Nat
  BY <1>1, GenerationAssumption
     DEF Sound, Directory, SlotFiles, ReceiptFile, Generation
<1>6. acked # None => acked.generation \in Nat
  BY <1>1, RecordFiles
<1>7. \A s \in Slot : dir[s].receipt # None =>
                         NotOlder(dir, Other, dir[s].receipt.generation)
  BY <1>1, <1>4, <1>5 DEF Sound
<1>8. ASSUME acked # None
      PROVE  /\ NotOlder(dir, Other, acked.generation)
             /\ dir[Other].receipt.binding = acked.binding
  <2>1. PICK s \in Slot : /\ NotOlder(dir, s, acked.generation)
                         /\ dir[s].receipt.binding = acked.binding
    BY <1>1, <1>8 DEF Sound
  <2>2. NotOlder(dir, Other, acked.generation)
    BY <1>4, <1>6, <1>8, <2>1
  <2>3. dir[Other].receipt.binding = dir[s].receipt.binding
    BY <1>1, <1>2, <2>1, <2>2 DEF Sound, NotOlder, Slot
  <2>4. QED
    BY <2>1, <2>2, <2>3
<1>9. QED
  BY <1>7, <1>8

(* Renaming the secret spoils the target slot at most, never the other.     *)
LEMMA RenameSecretIInv ==
  ASSUME IInv, Rename, writer.component = "secret"
  PROVE  IInv'
<1> DEFINE r == writer.record
           t == writer.target
           e == SetFinal(SetTemp(dir, FALSE), SecretOf(r))
<1>1. /\ writer \in Writing /\ dir \in Directory /\ Sound(dir) /\ WriterSound
      /\ writer # Idle /\ writer.step = "rename" /\ ~Published
      /\ acked \in Record \cup {None}
  BY DEF IInv, TypeOK, Rename, At, Published
<1>2. /\ t \in Slot /\ Other \in Slot /\ r \in Record
      /\ \A s \in Slot : s = t \/ s = Other
      /\ t # Other
  BY <1>1 DEF Writing, Slot, Other
<1>3. /\ e \in Directory /\ e[t].secret = SecretOf(r)
      /\ e[t].receipt = dir[t].receipt
      /\ e[Other].secret = dir[Other].secret
      /\ e[Other].receipt = dir[Other].receipt
  <2>1. SetTemp(dir, FALSE) \in Directory /\ SameFiles(SetTemp(dir, FALSE), dir)
    BY <1>1, TempLeavesFiles
  <2>2. SecretOf(r) \in SecretFile
    BY <1>2, RecordFiles
  <2> DEFINE d == SetTemp(dir, FALSE)
             file == SecretOf(r)
  <2>3. d \in Directory /\ SameFiles(d, dir)
        /\ file \in IF writer.component = "secret"
                     THEN SecretFile \cup {Spoiled}
                     ELSE ReceiptFile \cup {Spoiled}
    BY <2>1, <2>2
  <2> HIDE DEF d, file
  <2>4. /\ SetFinal(d, file) \in Directory
        /\ SetFinal(d, file)[Other] = d[Other]
        /\ SetFinal(d, file)[t].secret = file
        /\ SetFinal(d, file)[t].receipt = d[t].receipt
    BY <1>1, <2>3, FinalReplacesFile DEF Other
  <2>5. QED
    BY <1>2, <2>3, <2>4 DEF SameFiles, d, file
<1>4. dir' = e /\ survivors' = survivors \cup {e}
  BY <1>1 DEF Rename, Contents, DataAtRisk, WriterSound
<1> HIDE DEF e
<1>5. /\ writer' = [writer EXCEPT !.step = "syncdir"] /\ writer' \in Writing
      /\ writer'.step = "syncdir" /\ writer'.component = "secret"
      /\ writer'.target = t /\ writer'.record = r
      /\ writer'.synced = writer.synced
  BY <1>1 DEF Rename, Advance, Writing, Step
<1>6. ~Valid(e, t)
  <2>1. SUFFICES ASSUME Valid(e, t) PROVE FALSE
    OBVIOUS
  <2>2. dir[t].receipt # None /\ dir[t].receipt.generation = r.generation
    BY <1>3, <2>1, MarkAssumption DEF Valid, SecretOf
  <2>3. NotOlder(dir, Other, r.generation)
    BY <1>1, <1>2, <2>2, OtherCarries
  <2>4. SlotGeneration(dir, Other) < r.generation
    BY <1>1, <2>3 DEF WriterSound, NotOlder
  <2>5. SlotGeneration(dir, Other) \in Nat /\ r.generation \in Nat
    BY <1>2, <2>3, RecordFiles, GenerationAssumption
       DEF NotOlder, Valid, SlotGeneration, ReceiptFile, Generation
  <2>6. QED
    BY <2>3, <2>4, <2>5 DEF NotOlder
<1>7. /\ Valid(e, Other) <=> Valid(dir, Other)
      /\ SlotGeneration(e, Other) = SlotGeneration(dir, Other)
      /\ \A g : NotOlder(e, Other, g) <=> NotOlder(dir, Other, g)
  BY <1>3 DEF Valid, SlotGeneration, NotOlder
<1>8. Sound(e)
  <2>1. \A s \in Slot : e[s].secret # Spoiled /\ e[s].receipt # Spoiled
    BY <1>1, <1>2, <1>3, RecordFiles DEF Sound
  <2>2. \A s \in Slot : e[s].receipt = dir[s].receipt
    BY <1>2, <1>3
  <2>3. \A s \in Slot : e[s].receipt # None =>
          NotOlder(e, Other, e[s].receipt.generation)
    BY <1>1, <1>7, <2>2, OtherCarries
  <2>4. acked # None => /\ NotOlder(e, Other, acked.generation)
                        /\ e[Other].receipt.binding = acked.binding
    BY <1>1, <1>3, <1>7, OtherCarries
  <2>5. ~(Valid(e, 0) /\ Valid(e, 1))
    BY <1>2, <1>6 DEF Slot
  <2>6. QED
    BY <1>2, <2>1, <2>3, <2>4, <2>5 DEF Sound
<1>9. \A d \in survivors' : Sound(d)'
  <2>1. \A d \in survivors' : Sound(d)
    BY <1>4, <1>8 DEF IInv
  <2>2. QED
    BY <2>1 DEF Rename, Sound, Valid, SlotGeneration, NotOlder
<1>10. TypeOK'
  BY <1>3, <1>4, <1>5 DEF IInv, TypeOK, Rename
<1>11. WriterSound'
  <2>1. /\ Other' = Other /\ ~Published' /\ writer'.synced
    BY <1>1, <1>5 DEF Other, Published, WriterSound
  <2>2. /\ \A s \in Slot : Valid(dir, s)' <=> Valid(e, s)
        /\ \A s \in Slot : SlotGeneration(dir, s)' = SlotGeneration(e, s)
    BY <1>4 DEF Valid, SlotGeneration
  <2>3. Valid(dir, Other)' =>
          /\ SlotGeneration(dir, Other)' < r.generation
          /\ dir'[Other].receipt.binding = r.binding
    BY <1>1, <1>2, <1>3, <1>4, <1>7, <2>1, <2>2 DEF WriterSound
  <2>4. ~Valid(dir, writer.target)'
    BY <1>2, <1>5, <1>6, <2>2
  <2>5. dir'[t].secret = SecretOf(r)
    BY <1>3, <1>4
  <2>6. QED
    BY <1>5, <2>1, <2>3, <2>4, <2>5 DEF WriterSound, Valid, SlotGeneration
<1>12. TargetClean'
  BY <1>5 DEF TargetClean
<1>13. QED
  BY <1>9, <1>10, <1>11, <1>12 DEF IInv

(* Renaming the receipt makes the target slot valid and the newest.         *)
LEMMA RenameReceiptIInv ==
  ASSUME IInv, Rename, writer.component = "receipt"
  PROVE  IInv'
<1> DEFINE r == writer.record
           t == writer.target
           e == SetFinal(SetTemp(dir, FALSE), ReceiptOf(r))
<1>1. /\ writer \in Writing /\ dir \in Directory /\ Sound(dir) /\ WriterSound
      /\ writer # Idle /\ writer.step = "rename" /\ ~Published
      /\ acked \in Record \cup {None}
  BY DEF IInv, TypeOK, Rename, At, Published
<1>2. /\ t \in Slot /\ Other \in Slot /\ r \in Record
      /\ \A s \in Slot : s = t \/ s = Other
      /\ t # Other
  BY <1>1 DEF Writing, Slot, Other
<1>3. /\ e \in Directory /\ e[t].receipt = ReceiptOf(r)
      /\ e[t].secret = SecretOf(r)
      /\ e[Other].secret = dir[Other].secret
      /\ e[Other].receipt = dir[Other].receipt
  <2>1. SetTemp(dir, FALSE) \in Directory /\ SameFiles(SetTemp(dir, FALSE), dir)
    BY <1>1, TempLeavesFiles
  <2>2. ReceiptOf(r) \in ReceiptFile
    BY <1>2, RecordFiles
  <2> DEFINE d == SetTemp(dir, FALSE)
             file == ReceiptOf(r)
  <2>3. d \in Directory /\ SameFiles(d, dir)
        /\ file \in IF writer.component = "secret"
                     THEN SecretFile \cup {Spoiled}
                     ELSE ReceiptFile \cup {Spoiled}
    BY <2>1, <2>2
  <2> HIDE DEF d, file
  <2>4. /\ SetFinal(d, file) \in Directory
        /\ SetFinal(d, file)[Other] = d[Other]
        /\ SetFinal(d, file)[t].receipt = file
        /\ SetFinal(d, file)[t].secret = d[t].secret
    BY <1>1, <2>3, FinalReplacesFile DEF Other
  <2>5. dir[t].secret = SecretOf(r)
    BY <1>1 DEF WriterSound
  <2>6. QED
    BY <1>2, <2>3, <2>4, <2>5 DEF SameFiles, d, file
<1>4. dir' = e /\ survivors' = survivors \cup {e}
  BY <1>1 DEF Rename, Contents, DataAtRisk, WriterSound
<1> HIDE DEF e
<1>5. /\ writer' = [writer EXCEPT !.step = "syncdir"] /\ writer' \in Writing
      /\ writer'.step = "syncdir" /\ writer'.component = "receipt"
      /\ writer'.target = t /\ writer'.record = r
      /\ writer'.synced = writer.synced
  BY <1>1 DEF Rename, Advance, Writing, Step
<1>6. /\ Valid(e, t) /\ SlotGeneration(e, t) = r.generation
      /\ e[t].receipt.binding = r.binding
      /\ r.generation \in Nat
  BY <1>2, <1>3, RecordFiles DEF Valid, SlotGeneration, SecretOf, ReceiptOf
<1>7. /\ Valid(e, Other) <=> Valid(dir, Other)
      /\ SlotGeneration(e, Other) = SlotGeneration(dir, Other)
      /\ \A g : NotOlder(e, Other, g) <=> NotOlder(dir, Other, g)
  BY <1>3 DEF Valid, SlotGeneration, NotOlder
<1>8. Valid(e, Other) => /\ SlotGeneration(e, Other) < r.generation
                         /\ SlotGeneration(e, Other) \in Nat
                         /\ e[Other].receipt.binding = r.binding
  BY <1>1, <1>3, <1>7, GenerationAssumption
     DEF WriterSound, Valid, SlotGeneration, ReceiptFile, Generation
<1>9. Sound(e)
  <2>1. \A s \in Slot : e[s].secret # Spoiled /\ e[s].receipt # Spoiled
    BY <1>1, <1>2, <1>3, RecordFiles DEF Sound
  <2>2. NotOlder(e, t, e[t].receipt.generation)
    BY <1>6 DEF NotOlder, SlotGeneration
  <2>3. e[Other].receipt # None =>
          NotOlder(e, Other, e[Other].receipt.generation)
    BY <1>1, <1>2, <1>3, <1>7, OtherCarries
  <2>4. acked # None => /\ NotOlder(e, Other, acked.generation)
                        /\ e[Other].receipt.binding = acked.binding
    BY <1>1, <1>3, <1>7, OtherCarries
  <2>5. Valid(e, 0) /\ Valid(e, 1) =>
          /\ SlotGeneration(e, 0) # SlotGeneration(e, 1)
          /\ e[0].receipt.binding = e[1].receipt.binding
    BY <1>2, <1>6, <1>8 DEF Slot
  <2>6. QED
    BY <1>2, <2>1, <2>2, <2>3, <2>4, <2>5 DEF Sound
<1>10. \A d \in survivors' : Sound(d)'
  <2>1. \A d \in survivors' : Sound(d)
    BY <1>4, <1>9 DEF IInv
  <2>2. QED
    BY <2>1 DEF Rename, Sound, Valid, SlotGeneration, NotOlder
<1>11. TypeOK'
  BY <1>3, <1>4, <1>5 DEF IInv, TypeOK, Rename
<1>12. WriterSound'
  <2>1. /\ Other' = Other /\ Published' /\ writer'.synced
    BY <1>1, <1>5 DEF Other, Published, WriterSound
  <2>2. Valid(dir, Other)' =>
          /\ SlotGeneration(dir, Other)' < r.generation
          /\ dir'[Other].receipt.binding = r.binding
    BY <1>4, <1>8, <2>1 DEF Valid, SlotGeneration
  <2>3. /\ dir'[t].secret = SecretOf(r)
        /\ dir'[t].receipt = ReceiptOf(r)
    BY <1>3, <1>4
  <2>4. QED
    BY <1>5, <2>1, <2>2, <2>3 DEF WriterSound, Valid, SlotGeneration
<1>13. TargetClean'
  BY <1>5 DEF TargetClean
<1>14. QED
  BY <1>10, <1>11, <1>12, <1>13 DEF IInv

------------------------------------------------------------------------------
(* The directory sync: after the secret, and after the receipt, when the    *)
(* write is acknowledged.                                                   *)

(* The sync that follows the secret leaves one directory, a Sound one.      *)
LEMMA SyncSecretIInv ==
  ASSUME IInv, SyncDirectory, writer.component = "secret"
  PROVE  IInv'
<1>1. /\ writer \in Writing /\ dir \in Directory /\ Sound(dir) /\ WriterSound
      /\ writer # Idle /\ writer.step = "syncdir" /\ ~Published
  BY DEF IInv, TypeOK, SyncDirectory, At, Published
<1>2. dir' = dir /\ survivors' = {dir} /\ acked' = acked
  BY <1>1 DEF SyncDirectory, Return, DataAtRisk, WriterSound
<1>3. /\ writer' = [writer EXCEPT !.step = "unlink", !.component = "receipt",
                                  !.synced = FALSE]
      /\ writer' \in Writing
      /\ writer'.step = "unlink" /\ writer'.component = "receipt"
      /\ writer'.target = writer.target /\ writer'.record = writer.record
  BY <1>1 DEF SyncDirectory, Return, Writing, Step, Component
<1>4. dir[writer.target].secret = SecretOf(writer.record)
  BY <1>1 DEF WriterSound
<1>5. TypeOK'
  BY <1>1, <1>2, <1>3 DEF IInv, TypeOK
<1>6. \A d \in survivors' : Sound(d)'
  BY <1>1, <1>2 DEF Sound, Valid, SlotGeneration, NotOlder
<1>7. WriterSound'
  <2>1. Other' = Other /\ ~Published'
    BY <1>3 DEF Other, Published
  <2>2. QED
    BY <1>1, <1>2, <1>3, <1>4, <2>1
       DEF WriterSound, NotOlder, Valid, SlotGeneration
<1>8. TargetClean'
  BY <1>3 DEF TargetClean
<1>9. QED
  BY <1>5, <1>6, <1>7, <1>8 DEF IInv

(* The sync that follows the receipt leaves the acknowledged record.        *)
LEMMA SyncReceiptIInv ==
  ASSUME IInv, SyncDirectory, writer.component = "receipt"
  PROVE  IInv'
<1> DEFINE r == writer.record
           t == writer.target
<1>1. /\ writer \in Writing /\ dir \in Directory /\ Sound(dir) /\ WriterSound
      /\ writer # Idle /\ writer.step = "syncdir" /\ Published
  BY DEF IInv, TypeOK, SyncDirectory, At, Published
<1>2. /\ dir' = dir /\ survivors' = {dir} /\ acked' = r /\ writer' = Idle
      /\ r \in Record /\ t \in Slot
  BY <1>1 DEF SyncDirectory, Return, DataAtRisk, WriterSound, Writing
<1>3. /\ Valid(dir, t) /\ SlotGeneration(dir, t) = r.generation
      /\ dir[t].receipt.binding = r.binding
      /\ r.generation \in Nat
  BY <1>1, <1>2, RecordFiles
     DEF WriterSound, Valid, SlotGeneration, SecretOf, ReceiptOf
<1>4. TypeOK'
  BY <1>1, <1>2 DEF IInv, TypeOK
<1>5. Sound(dir)'
  <2>1. NotOlder(dir, t, r.generation)
    BY <1>3 DEF NotOlder
  <2>2. QED
    BY <1>1, <1>2, <1>3, <2>1 DEF Sound, Valid, SlotGeneration, NotOlder
<1>6. \A d \in survivors' : Sound(d)'
  BY <1>2, <1>5 DEF Sound, Valid, SlotGeneration, NotOlder
<1>7. WriterSound' /\ TargetClean'
  BY <1>2 DEF WriterSound, TargetClean
<1>8. QED
  BY <1>4, <1>6, <1>7 DEF IInv

------------------------------------------------------------------------------
(* Every step of the store keeps the invariant.                             *)
LEMMA NextIInv == IInv /\ [Next]_vars => IInv'
<1> SUFFICES ASSUME IInv, [Next]_vars PROVE IInv'
  OBVIOUS
<1>1. CASE \E r \in Record : BeginWrite(r)
  BY <1>1, BeginWriteIInv
<1>2. CASE Unlink
  BY <1>2, TempStepIInv DEF Unlink, At, Step
<1>3. CASE Create
  BY <1>3, TempStepIInv DEF Create, At, Step
<1>4. CASE FsyncFile
  BY <1>4, FsyncFileIInv
<1>5. CASE Rename
  <2>1. writer.component = "secret" \/ writer.component = "receipt"
    BY <1>5 DEF IInv, TypeOK, Rename, At, Writing, Component
  <2>2. QED
    BY <1>5, <2>1, RenameSecretIInv, RenameReceiptIInv
<1>6. CASE SyncDirectory
  <2>1. writer.component = "secret" \/ writer.component = "receipt"
    BY <1>6 DEF IInv, TypeOK, SyncDirectory, At, Writing, Component
  <2>2. QED
    BY <1>6, <2>1, SyncSecretIInv, SyncReceiptIInv
<1>7. CASE Interrupt
  BY <1>7, InterruptIInv
<1>8. CASE PowerLoss
  BY <1>8, PowerLossIInv
<1>9. CASE UNCHANGED vars
  BY <1>9 DEF vars, IInv, TypeOK, WriterSound, TargetClean, Other, Published,
              Sound, Valid, SlotGeneration, NotOlder, AnyValid, Artifact
<1>10. QED
  BY <1>1, <1>2, <1>3, <1>4, <1>5, <1>6, <1>7, <1>8, <1>9 DEF Next

(* IInv holds always: the invariant the theorems below follow from.         *)
THEOREM Inductive == Spec => []IInv
BY InitIInv, NextIInv, PTL DEF Spec

(* The types of the store, whatever is written to it.                       *)
THEOREM TypeCorrect == Spec => []TypeOK
<1>1. IInv => TypeOK
  BY DEF IInv
<1>2. QED
  BY <1>1, Inductive, PTL

(* A write_state() that returned TRUE is never lost: whatever a power loss  *)
(* leaves loads a record for its target that is at least as new.            *)
THEOREM AcknowledgedSurvives == Spec => []AckedDurable
<1>1. IInv => AckedDurable
  BY DEF IInv, AckedDurable, Sound, NotOlder
<1>2. QED
  BY <1>1, Inductive, PTL

(* Two valid slots always differ in generation and name one target.         *)
THEOREM LoadIsUnambiguous == Spec => []OneAnswer
<1>1. IInv => OneAnswer
  BY DEF IInv, OneAnswer, Sound
<1>2. QED
  BY <1>1, Inductive, PTL

(* Once a write was acknowledged, every state a power loss may leave takes  *)
(* the next generation for the same target.                                 *)
THEOREM WriteNeverRefused == Spec => []NeverWedged
<1>1. ASSUME IInv, acked # None, NEW d \in survivors
      PROVE  /\ AnyValid(d)
             /\ \A r \in Record :
                  r.binding = acked.binding /\ r.generation > Load(d).generation
                    => WriteAllowed(d, r)
  <2>1. Sound(d) /\ acked \in Record
    BY <1>1 DEF IInv, TypeOK
  <2>2. /\ AnyValid(d)
        /\ \A s \in Slot : Valid(d, s) => d[s].receipt.binding = acked.binding
    BY <1>1, <2>1 DEF Sound, NotOlder, AnyValid, Slot
  <2>3. \A s \in Slot : Valid(d, s) => SlotGeneration(d, s) \in Nat
    BY GenerationAssumption
       DEF Valid, SlotGeneration, ReceiptFile, Generation
  <2>4. Load(d).generation = SlotGeneration(d, Selected(d))
    BY <2>2 DEF Load, RecordIn, SlotGeneration
  <2>5. /\ Selected(d) \in Slot
        /\ \A s \in Slot : Valid(d, s) =>
              SlotGeneration(d, s) <= SlotGeneration(d, Selected(d))
    BY <2>3 DEF Selected, Slot
  <2>6. ASSUME NEW r \in Record, r.binding = acked.binding,
               r.generation > Load(d).generation
        PROVE  WriteAllowed(d, r)
    <3>1. r.generation \in Nat /\ SlotGeneration(d, Selected(d)) \in Nat
      BY <2>2, <2>3, RecordFiles DEF AnyValid, Selected, Slot
    <3>2. \A s \in Slot : Valid(d, s) => r.generation > SlotGeneration(d, s)
      BY <2>3, <2>4, <2>5, <2>6, <3>1
    <3>3. QED
      BY <2>2, <2>6, <3>2 DEF WriteAllowed, Mismatch
  <2>7. QED
    BY <2>2, <2>6
<1>2. IInv => NeverWedged
  BY <1>1 DEF NeverWedged
<1>3. QED
  BY <1>2, Inductive, PTL

(* The refinement of PairingRegister.                                       *)

(* A load of a slot that nothing beats shows the record of that slot.       *)
LEMMA LoadPicks ==
  ASSUME NEW d, NEW s \in Slot, Valid(d, s),
         Valid(d, 1 - s) => SlotGeneration(d, 1 - s) < SlotGeneration(d, s)
  PROVE  Load(d) = RecordIn(d, s) /\ RecordIn(d, s) \in Record
<1>1. /\ \A t \in Slot : Valid(d, t) => SlotGeneration(d, t) \in Nat
      /\ RecordIn(d, s) \in Record
  BY GenerationAssumption
     DEF Valid, SlotGeneration, ReceiptFile, SecretFile, Generation, Record,
         RecordIn
<1>2. Selected(d) = s
  BY <1>1 DEF Selected, Slot
<1>3. QED
  BY <1>1, <1>2 DEF Load, AnyValid

(* A load without a valid slot shows no record.                             *)
LEMMA LoadNothing ==
  ASSUME NEW d, ~AnyValid(d)
  PROVE  /\ Load(d) = IF AnyArtifact(d) THEN Partial ELSE None
         /\ Load(d) \notin Record
BY MarkAssumption DEF Load

(* What a load shows, by the progress of the write.                         *)
ShownBeforePublish ==
  /\ Valid(dir, Other) =>
       /\ Load(dir) = RecordIn(dir, Other)
       /\ Load(dir).generation < writer.record.generation
       /\ Load(dir).binding = writer.record.binding
  /\ ~Valid(dir, Other) =>
       /\ ~AnyValid(dir)
       /\ Load(dir) = IF AnyArtifact(dir) THEN Partial ELSE None
       /\ Load(dir) \notin Record

Shown ==
  writer # Idle =>
    /\ ~Published => ShownBeforePublish
    /\ Published => Load(dir) = writer.record

(* Until the receipt is renamed a load shows what the other slot holds.     *)
LEMMA BeforePublish ==
  ASSUME IInv, writer # Idle, ~Published
  PROVE  ShownBeforePublish
<1>1. /\ writer \in Writing /\ WriterSound
      /\ \A s \in Slot : Valid(dir, s) => SlotGeneration(dir, s) \in Nat
  BY GenerationAssumption
     DEF IInv, TypeOK, Valid, SlotGeneration, ReceiptFile, Generation
<1>2. /\ writer.target \in Slot /\ Other \in Slot
      /\ 1 - Other = writer.target
      /\ \A s \in Slot : s = writer.target \/ s = Other
  BY <1>1 DEF Writing, Slot, Other
<1>3. Valid(dir, writer.target) =>
        /\ Valid(dir, Other)
        /\ SlotGeneration(dir, writer.target) < SlotGeneration(dir, Other)
  BY <1>1, <1>2 DEF WriterSound, NotOlder
<1>4. CASE Valid(dir, Other)
  <2>1. Load(dir) = RecordIn(dir, Other)
    BY <1>2, <1>3, <1>4, LoadPicks
  <2>2. QED
    BY <1>1, <1>4, <2>1
       DEF ShownBeforePublish, WriterSound, RecordIn, SlotGeneration
<1>5. CASE ~Valid(dir, Other)
  <2>1. ~AnyValid(dir)
    BY <1>2, <1>3, <1>5 DEF AnyValid
  <2>2. QED
    BY <1>5, <2>1, LoadNothing DEF ShownBeforePublish
<1>6. QED
  BY <1>4, <1>5

(* Once the receipt is renamed a load shows the record of the write.        *)
LEMMA AfterPublish ==
  ASSUME IInv, writer # Idle, Published
  PROVE  Load(dir) = writer.record
<1> DEFINE t == writer.target
           r == writer.record
<1>1. /\ writer \in Writing /\ WriterSound
      /\ r \in Record /\ t \in Slot /\ 1 - t = Other
  BY DEF IInv, TypeOK, Writing, Other
<1>2. dir[t].secret = SecretOf(r) /\ dir[t].receipt = ReceiptOf(r)
  BY <1>1 DEF WriterSound, Published
<1>3. Valid(dir, t) /\ SlotGeneration(dir, t) = r.generation
  BY <1>1, <1>2, RecordFiles DEF Valid, SlotGeneration, SecretOf, ReceiptOf
<1>4. RecordIn(dir, t) = r
  BY <1>1, <1>2 DEF RecordIn, SecretOf, ReceiptOf, Record
<1>5. Valid(dir, Other) => SlotGeneration(dir, Other) < SlotGeneration(dir, t)
  BY <1>1, <1>3 DEF WriterSound
<1>6. QED
  BY <1>1, <1>3, <1>4, <1>5, LoadPicks

(* Both, from the invariant.                                                *)
LEMMA InvShown == IInv => Shown
BY BeforePublish, AfterPublish DEF Shown

(* The same of the state after a step.                                      *)
LEMMA InvShownAfter == IInv' => Shown'
BY InvShown, PTL

------------------------------------------------------------------------------
(* The steps, one after the other.                                          *)

(* The empty directory is the empty register.                               *)
LEMMA InitRegister == Init => Register!RegisterInit
<1> SUFFICES ASSUME Init PROVE Register!RegisterInit
  OBVIOUS
<1>1. \A s \in Slot : ~Valid(Empty, s) /\ ~Artifact(Empty, s)
  BY MarkAssumption DEF Empty, Valid, Artifact, Slot, Component
<1>2. Load(Empty) = None
  BY <1>1 DEF Load, AnyValid, AnyArtifact
<1>3. QED
  BY <1>2 DEF Init, Register!RegisterInit, Idle

(* A record that write_state() does not refuse follows what a load shows.   *)
LEMMA BeginWriteRegister ==
  ASSUME IInv, NEW r \in Record, BeginWrite(r)
  PROVE  Register!Accept(r)
<1>1. Load(dir) \in Record =>
        r.generation > Load(dir).generation /\ r.binding = Load(dir).binding
  <2>1. CASE ~AnyValid(dir)
    BY <2>1, LoadNothing
  <2>2. CASE AnyValid(dir)
    <3>1. Selected(dir) \in Slot /\ Valid(dir, Selected(dir))
      BY <2>2 DEF AnyValid, Selected, Slot
    <3>2. Load(dir) = RecordIn(dir, Selected(dir))
      BY <2>2 DEF Load
    <3>3. QED
      BY <3>1, <3>2
         DEF BeginWrite, WriteAllowed, Mismatch, RecordIn, SlotGeneration
  <2>3. QED
    BY <2>1, <2>2
<1>2. writer = Idle /\ writer' # Idle /\ writer'.record = r
  BY DEF BeginWrite, Idle
<1>3. UNCHANGED <<dir, survivors, acked>>
  BY DEF BeginWrite
<1>4. Load(dir)' = Load(dir)
      /\ {Load(d) : d \in survivors}' = {Load(d) : d \in survivors}
  BY <1>3
<1>5. QED
  BY <1>1, <1>2, <1>3, <1>4 DEF Register!Accept, Register!Follows

(* A load looks at the files of the slots, and at the temporaries only when *)
(* there is nothing else.                                                   *)
LEMMA LoadSame ==
  ASSUME NEW d, NEW e, SameFiles(d, e),
         AnyValid(d) \/ (AnyArtifact(d) <=> AnyArtifact(e))
  PROVE  Load(e) = Load(d)
<1>1. \A s \in Slot : /\ Valid(d, s) <=> Valid(e, s)
                      /\ SlotGeneration(d, s) = SlotGeneration(e, s)
                      /\ RecordIn(d, s) = RecordIn(e, s)
  BY DEF SameFiles, Valid, SlotGeneration, RecordIn
<1>2. Selected(d) = Selected(e) /\ Selected(d) \in Slot
  BY <1>1 DEF Selected, Slot
<1>3. AnyValid(d) <=> AnyValid(e)
  BY <1>1 DEF AnyValid
<1>4. QED
  BY <1>1, <1>2, <1>3 DEF Load

(* A step that changes no file in place, and shows in a load at most that   *)
(* something is there, is invisible or a Disturb.                           *)
LEMMA InvisibleStep ==
  ASSUME writer # Idle, writer' # Idle, writer'.record = writer.record,
         dir \in survivors, survivors' = survivors \cup {dir'},
         UNCHANGED acked, writer.record \in Record,
         \/ Load(dir') = Load(dir)
         \/ Load(dir) \in {None, Partial} /\ Load(dir') = Partial
  PROVE  Register!Disturb \/ UNCHANGED Register!registerVars
<1>1. {Load(d) : d \in survivors}' = {Load(d) : d \in survivors} \cup {Load(dir')}
  OBVIOUS
<1>2. CASE Load(dir') = Load(dir)
  BY <1>1, <1>2 DEF Register!registerVars
<1>3. CASE Load(dir) \in {None, Partial} /\ Load(dir') = Partial
  BY <1>1, <1>3, MarkAssumption DEF Register!Disturb
<1>4. QED
  BY <1>2, <1>3

(* Unlinking or creating a temporary.                                       *)
LEMMA TempStepRegister ==
  ASSUME IInv, writer # Idle, NEW b \in BOOLEAN,
         Apply(SetTemp(dir, b)), UNCHANGED acked,
         NEW before \in Step, NEW after \in Step, At(before), Advance(after),
         \/ before = "unlink" /\ ~b
         \/ before = "create" /\ b
  PROVE  Register!Disturb \/ UNCHANGED Register!registerVars
<1> DEFINE e == SetTemp(dir, b)
           t == writer.target
           c == writer.component
<1>1. /\ writer \in Writing /\ dir \in Directory /\ dir \in survivors
      /\ WriterSound /\ TargetClean
      /\ t \in Slot /\ c \in Component /\ writer.record \in Record
  BY DEF IInv, TypeOK, Writing
<1>2. e \in Directory /\ SameFiles(e, dir) /\ SameFiles(dir, e)
  BY <1>1, TempLeavesFiles DEF SameFiles
<1>3. writer' # Idle /\ writer'.record = writer.record /\ writer.step = before
  BY <1>1 DEF Advance, Writing, At, Idle, Step
<1>4. dir' = e /\ survivors' = survivors \cup {dir'}
  BY DEF Apply
<1>5. CASE AnyValid(dir)
  BY <1>1, <1>2, <1>3, <1>4, <1>5, LoadSame, InvisibleStep
<1>6. CASE ~AnyValid(dir) /\ b
  <2>1. e[t].temp[c]
    BY <1>1, <1>6 DEF SetTemp, Directory, SlotFiles
  <2>2. AnyArtifact(e)
    BY <1>1, <2>1 DEF AnyArtifact, Artifact
  <2>3. ~AnyValid(e)
    BY <1>2, <1>6, SameFilesSound DEF AnyValid
  <2>4. Load(e) = Partial /\ Load(dir) \in {None, Partial}
    BY <1>6, <2>2, <2>3 DEF Load
  <2>5. QED
    BY <1>1, <1>3, <1>4, <2>4, InvisibleStep
<1>7. CASE ~AnyValid(dir) /\ ~b
  <2>1. CASE c = "secret"
    <3>1. ~Artifact(dir, t)
      BY <1>1, <1>3, <1>7, <2>1 DEF TargetClean
    <3>2. ~dir[t].temp[c]
      BY <1>1, <3>1 DEF Artifact
    <3>3. \A s \in Slot, k \in Component : e[s].temp[k] = dir[s].temp[k]
      BY <1>1, <1>7, <3>2 DEF SetTemp, Directory, SlotFiles
    <3>4. AnyArtifact(dir) <=> AnyArtifact(e)
      BY <1>2, <3>3 DEF AnyArtifact, Artifact, SameFiles
    <3>5. QED
      BY <1>1, <1>2, <1>3, <1>4, <3>4, LoadSame, InvisibleStep
  <2>2. CASE c = "receipt"
    <3>1. dir[t].secret # None
      BY <1>1, <2>2, RecordFiles DEF WriterSound
    <3>2. AnyArtifact(dir) /\ AnyArtifact(e)
      BY <1>1, <1>2, <3>1 DEF AnyArtifact, Artifact, SameFiles
    <3>3. QED
      BY <1>1, <1>2, <1>3, <1>4, <3>2, LoadSame, InvisibleStep
  <2>3. QED
    BY <1>1, <2>1, <2>2 DEF Component
<1>8. QED
  BY <1>5, <1>6, <1>7

(* The secret replaces that of a slot no load selects.                      *)
LEMMA RenameSecretRegister ==
  ASSUME IInv, IInv', Rename, writer.component = "secret"
  PROVE  Register!Disturb \/ UNCHANGED Register!registerVars
<1> DEFINE r == writer.record
           t == writer.target
           d == SetTemp(dir, FALSE)
           file == SecretOf(r)
           e == SetFinal(d, file)
<1>1. /\ writer \in Writing /\ dir \in Directory /\ dir \in survivors
      /\ WriterSound /\ writer # Idle /\ writer.step = "rename" /\ ~Published
      /\ t \in Slot /\ Other \in Slot /\ r \in Record
  BY DEF IInv, TypeOK, Rename, At, Published, Writing, Other, Slot
<1>2. /\ writer' # Idle /\ writer'.record = r /\ Other' = Other
      /\ ~Published'
  BY <1>1 DEF Rename, Advance, Writing, Idle, Other, Published
<1>3. dir' = e /\ survivors' = survivors \cup {dir'} /\ UNCHANGED acked
  BY <1>1 DEF Rename, Contents, DataAtRisk, WriterSound
<1>4. e[Other].secret = dir[Other].secret /\ e[Other].receipt = dir[Other].receipt
      /\ e[t].secret = file
  <2>1. /\ d \in Directory /\ SameFiles(d, dir)
        /\ file \in IF writer.component = "secret"
                    THEN SecretFile \cup {Spoiled}
                    ELSE ReceiptFile \cup {Spoiled}
    BY <1>1, TempLeavesFiles, RecordFiles
  <2> HIDE DEF d, file
  <2>2. SetFinal(d, file)[Other] = d[Other] /\ SetFinal(d, file)[t].secret = file
    BY <1>1, <2>1, FinalReplacesFile DEF Other
  <2>3. QED
    BY <1>1, <2>1, <2>2 DEF SameFiles
<1> HIDE DEF e
<1>5. /\ Valid(e, Other) <=> Valid(dir, Other)
      /\ RecordIn(e, Other) = RecordIn(dir, Other)
  BY <1>4 DEF Valid, RecordIn
<1>6. ShownBeforePublish
  BY <1>1, InvShown DEF Shown
<1>7. /\ Valid(e, Other) => Load(e) = RecordIn(e, Other)
      /\ ~Valid(e, Other) => Load(e) = IF AnyArtifact(e) THEN Partial ELSE None
  BY <1>2, <1>3, InvShownAfter DEF Shown, ShownBeforePublish
<1>8. CASE Valid(dir, Other)
  <2>1. Load(dir') = Load(dir)
    BY <1>3, <1>5, <1>6, <1>7, <1>8 DEF ShownBeforePublish
  <2>2. QED
    BY <1>1, <1>2, <1>3, <2>1, InvisibleStep
<1>9. CASE ~Valid(dir, Other)
  <2>1. AnyArtifact(e)
    BY <1>1, <1>4, RecordFiles DEF AnyArtifact, Artifact
  <2>2. Load(dir') = Partial /\ Load(dir) \in {None, Partial}
    BY <1>3, <1>5, <1>6, <1>7, <1>9, <2>1 DEF ShownBeforePublish
  <2>3. QED
    BY <1>1, <1>2, <1>3, <2>2, InvisibleStep
<1>10. QED
  BY <1>8, <1>9

(* The receipt in place makes the slot the one that is loaded.              *)
LEMMA RenameReceiptRegister ==
  ASSUME IInv, IInv', Rename, writer.component = "receipt"
  PROVE  Register!Publish
<1>1. /\ writer \in Writing /\ writer # Idle /\ ~Published
      /\ WriterSound /\ dir \in survivors
      /\ writer.step = "rename" /\ writer.record \in Record
  BY DEF IInv, TypeOK, Rename, At, Published, Writing
<1>2. /\ writer' # Idle /\ writer'.record = writer.record /\ Published'
      /\ survivors' = survivors \cup {dir'} /\ UNCHANGED acked
  BY <1>1 DEF Rename, Advance, Writing, Idle, Published, DataAtRisk, WriterSound
<1>3. Load(dir') = writer.record
  BY <1>2, InvShownAfter DEF Shown
<1>4. ShownBeforePublish
  BY <1>1, InvShown DEF Shown
<1>5. {Load(d) : d \in survivors}'
        = {Load(d) : d \in survivors} \cup {writer.record}
  BY <1>2, <1>3
<1>6. QED
  BY <1>1, <1>2, <1>3, <1>4, <1>5, MarkAssumption
     DEF Register!Publish, Register!Follows, ShownBeforePublish

(* A directory sync.                                                        *)
LEMMA SyncRegister ==
  ASSUME IInv, SyncDirectory
  PROVE  Register!Harden \/ Register!Acknowledge
<1>1. /\ writer \in Writing /\ writer # Idle /\ writer.synced
      /\ writer.step = "syncdir" /\ writer.record \in Record
      /\ writer.component \in Component
  BY DEF IInv, TypeOK, SyncDirectory, At, Writing, WriterSound
<1>2. dir' = dir /\ survivors' = {dir}
  BY <1>1 DEF SyncDirectory, DataAtRisk
<1>3. {Load(d) : d \in survivors}' = {Load(dir)} /\ Load(dir') = Load(dir)
  BY <1>2
<1>4. CASE writer.component = "secret"
  <2>1. writer' # Idle /\ writer'.record = writer.record /\ UNCHANGED acked
    BY <1>1, <1>4 DEF SyncDirectory, Return, Writing, Idle
  <2>2. QED
    BY <1>1, <1>3, <2>1, MarkAssumption DEF Register!Harden
<1>5. CASE writer.component = "receipt"
  <2>1. writer' = Idle /\ acked' = writer.record
    BY <1>1, <1>5 DEF SyncDirectory, Return
  <2>2. Load(dir) = writer.record
    BY <1>1, <1>5, InvShown DEF Shown, Published
  <2>3. QED
    BY <1>1, <1>3, <2>1, <2>2, MarkAssumption DEF Register!Acknowledge
<1>6. QED
  BY <1>1, <1>4, <1>5 DEF Component

(* The fsync shows in no load.                                              *)
LEMMA FsyncRegister ==
  ASSUME IInv, FsyncFile
  PROVE  UNCHANGED Register!registerVars
<1>1. writer # Idle /\ writer' # Idle /\ writer'.record = writer.record
  BY DEF IInv, TypeOK, FsyncFile, At, Writing, Idle
<1>2. UNCHANGED <<dir, survivors, acked>>
  BY DEF FsyncFile
<1>3. QED
  BY <1>1, <1>2 DEF Register!registerVars

(* A write that ends early is abandoned.                                    *)
LEMMA InterruptRegister ==
  ASSUME IInv, Interrupt
  PROVE  Register!Abandon
<1>1. writer \in Writing /\ writer # Idle /\ writer.record \in Record
  BY DEF IInv, TypeOK, Interrupt, Writing
<1>2. writer' = Idle /\ UNCHANGED <<dir, survivors, acked>>
  BY DEF Interrupt
<1>3. QED
  BY <1>1, <1>2, MarkAssumption DEF Register!Abandon

(* A power loss of the directory is one of the register.                    *)
LEMMA PowerLossRegister ==
  ASSUME PowerLoss
  PROVE  Register!LosePower
<1>1. dir' \in survivors /\ survivors' = {dir'} /\ writer' = Idle
      /\ UNCHANGED acked
  BY DEF PowerLoss
<1>2. Load(dir') \in {Load(d) : d \in survivors}
      /\ {Load(d) : d \in survivors}' = {Load(dir')}
  BY <1>1
<1>3. QED
  BY <1>1, <1>2 DEF Register!LosePower

(* Every step of the store is a step of the register, or is invisible.      *)
LEMMA StepRegister ==
  IInv /\ [Next]_vars => [Register!RegisterNext]_Register!registerVars
<1> SUFFICES ASSUME IInv, [Next]_vars
             PROVE  [Register!RegisterNext]_Register!registerVars
  OBVIOUS
<1> USE DEF Register!RegisterNext
<1>1. IInv'
  BY NextIInv
<1>2. ASSUME NEW r \in Record, BeginWrite(r)
      PROVE  Register!RegisterNext
  BY <1>2, BeginWriteRegister
<1>3. CASE Unlink
  BY <1>3, TempStepRegister DEF Unlink, At, Step
<1>4. CASE Create
  BY <1>4, TempStepRegister DEF Create, At, Step
<1>5. CASE FsyncFile
  BY <1>5, FsyncRegister
<1>6. CASE Rename
  <2>1. writer.component = "secret" \/ writer.component = "receipt"
    BY <1>6 DEF IInv, TypeOK, Rename, At, Writing, Component
  <2>2. QED
    BY <1>1, <1>6, <2>1, RenameSecretRegister, RenameReceiptRegister
<1>7. CASE SyncDirectory
  BY <1>7, SyncRegister
<1>8. CASE Interrupt
  BY <1>8, InterruptRegister
<1>9. CASE PowerLoss
  BY <1>9, PowerLossRegister
<1>10. CASE UNCHANGED vars
  BY <1>10 DEF vars, Register!registerVars
<1>11. QED
  BY <1>2, <1>3, <1>4, <1>5, <1>6, <1>7, <1>8, <1>9, <1>10 DEF Next

(* Every behaviour of the two slots, whatever fails and whenever power is   *)
(* lost, is a behaviour of the register.                                    *)
THEOREM StoreImplementsRegister == Spec => ImplementsRegister
BY Inductive, InitRegister, StepRegister, PTL
   DEF Spec, ImplementsRegister, Register!RegisterSpec
=============================================================================
