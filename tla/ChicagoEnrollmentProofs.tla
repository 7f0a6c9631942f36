----------------------- MODULE ChicagoEnrollmentProofs -----------------------
(* What the engine keeps of an enrollment is right for every number of      *)
(* stages and tips that fits into the store.                                *)
EXTENDS ChicagoEnrollment, SequenceTheorems, TLAPS

(* Dropping the last and inserting at the end keep match_order the identity.*)
InOrder(t) ==
  \A k \in 1..Capacity : t.order[k] = IF k <= Count(t) THEN k ELSE Unset

Sound(t) ==
  /\ t \in Templates
  /\ Count(t) <= Capacity
  /\ RowsFit(t) /\ InOrder(t) /\ GroupFits(t)

(* A pending probe was a tip, so no touch is deferred while another is.     *)
IInv ==
  /\ TypeOK /\ NothingLost /\ Sound(template)
  /\ deferred <= policy.touched
  /\ policy.pending => policy.tipped >= 1
  /\ outcome = "open" => policy.used < Required

-----------------------------------------------------------------------------
LEMMA FunctionIsSeq ==
  ASSUME NEW S, NEW n \in Nat, NEW f \in [1..n -> S]
  PROVE  f \in Seq(S) /\ Len(f) = n
<1>1. f \in Seq(S)
  BY SeqDef
<1>2. Len(f) \in Nat /\ DOMAIN f = 1..Len(f)
  BY <1>1, LenProperties
<1> QED
  BY <1>1, <1>2

LEMMA CountOf ==
  ASSUME NEW t \in Templates
  PROVE  /\ Count(t) \in Nat
         /\ \A i \in 1..Count(t) : t.subs[i] \in Subtemplates
<1>1. t.subs \in Seq(Subtemplates)
  BY DEF Templates
<1> QED
  BY <1>1, LenProperties, ElementOfSeq DEF Count

Founds(t, c) == c # None /\ ~HasGroup(t)

(* u has the subtemplates of t, and behind them p with a row of its own.    *)
Inserted(t, u, p, c) ==
  /\ Count(u) = Count(t) + 1
  /\ u.relations = t.relations + RowLength(Count(t) + 1)
  /\ u.order = [t.order EXCEPT ![Count(t) + 1] = Count(t) + 1]
  /\ u.anchor = IF Founds(t, c) THEN c ELSE t.anchor
  /\ u.subs[Count(t) + 1].probe = p
  /\ u.subs[Count(t) + 1].base = t.relations
  /\ u.subs[Count(t) + 1].group = IF c = None THEN 0 ELSE 1
  /\ \A i \in 1..Count(t) :
       /\ u.subs[i].probe = t.subs[i].probe
       /\ u.subs[i].base = t.subs[i].base
       /\ u.subs[i].group = IF Founds(t, c) THEN 1 ELSE t.subs[i].group

(* That is what goodix_chicago_enrollment_insert_next() makes of t.         *)
LEMMA InsertFields ==
  ASSUME NEW t, Sound(t), Count(t) < Capacity,
         NEW p \in 1..MaxTouches, NEW c \in Candidates(t)
  PROVE  Insert(t, p, c) \in Templates /\ Inserted(t, Insert(t, p, c), p, c)
<1> DEFINE u == Insert(t, p, c)
           n == Count(t)
           founds == Founds(t, c)
<1>1. t \in Templates /\ n \in Nat /\ \A i \in 1..n : t.subs[i] \in Subtemplates
  BY CountOf DEF Sound
<1>2. Capacity \in Nat
  BY ConstantsAssumption
<1>3. c \in 0..n
  BY <1>1 DEF Candidates, None
<1>4. RowLength(n + 1) \in Nat
  BY <1>1 DEF RowLength
<1>5. u.subs[n + 1] = [probe |-> p, base |-> t.relations,
                       group |-> IF c = None THEN 0 ELSE 1]
  BY <1>1 DEF Insert, Founds
<1>6. u.subs = [i \in 1..(n + 1) |-> u.subs[i]]
  BY DEF Insert
<1>7. \A i \in 1..n :
        /\ u.subs[i] \in Subtemplates
        /\ u.subs[i].probe = t.subs[i].probe
        /\ u.subs[i].base = t.subs[i].base
        /\ u.subs[i].group = IF founds THEN 1 ELSE t.subs[i].group
  <2> TAKE i \in 1..n
  <2> DEFINE group == IF founds THEN 1 ELSE t.subs[i].group
  <2>1. t.subs[i].probe \in 1..MaxTouches /\ t.subs[i].base \in Nat /\ group \in {0, 1}
    BY <1>1 DEF Subtemplates
  <2>2. u.subs[i] = [probe |-> t.subs[i].probe, base |-> t.subs[i].base,
                     group |-> group]
    BY <1>1 DEF Insert, Founds
  <2> HIDE DEF u, n, group
  <2>3. u.subs[i] \in Subtemplates
    BY <2>1, <2>2 DEF Subtemplates
  <2>4. u.subs[i].probe = t.subs[i].probe /\ u.subs[i].base = t.subs[i].base
        /\ u.subs[i].group = group
    BY <2>2
  <2> QED
    BY <2>3, <2>4 DEF group
<1>8. u.subs[n + 1] \in Subtemplates
  <2> HIDE DEF u, n
  <2>1. t.relations \in Nat
    BY <1>1 DEF Templates
  <2> QED
    BY <1>5, <2>1 DEF Subtemplates
<1>9. u.subs \in [1..(n + 1) -> Subtemplates]
  <2> HIDE DEF u, n
  <2>1. \A i \in 1..(n + 1) : i = n + 1 \/ i \in 1..n
    BY <1>1
  <2>2. \A i \in 1..(n + 1) : u.subs[i] \in Subtemplates
    BY <1>7, <1>8, <2>1
  <2> QED
    BY <1>6, <2>2
<1>10. u.subs \in Seq(Subtemplates) /\ Len(u.subs) = n + 1
  BY <1>1, <1>9, FunctionIsSeq
<1>11. u \in Templates
  BY <1>1, <1>2, <1>3, <1>4, <1>10 DEF Insert, Founds, Templates
<1>12. /\ u.relations = t.relations + RowLength(n + 1)
       /\ u.order = [t.order EXCEPT ![n + 1] = n + 1]
       /\ u.anchor = IF founds THEN c ELSE t.anchor
  BY DEF Insert, Founds
<1>13. /\ u.subs[n + 1].probe = p /\ u.subs[n + 1].base = t.relations
       /\ u.subs[n + 1].group = IF c = None THEN 0 ELSE 1
  BY <1>5
<1>14. Count(u) = n + 1
  BY <1>10 DEF Count
<1> HIDE DEF u, founds
<1>15. Inserted(t, u, p, c)
  BY <1>7, <1>12, <1>13, <1>14 DEF Inserted, founds
<1> QED
  BY <1>11, <1>15 DEF u

(* Inserting keeps the store sound and adds one probe to it.                *)
LEMMA InsertSound ==
  ASSUME NEW t, Sound(t), Count(t) < Capacity,
         NEW p \in 1..MaxTouches, NEW c \in Candidates(t)
  PROVE  /\ Sound(Insert(t, p, c))
         /\ Count(Insert(t, p, c)) = Count(t) + 1
         /\ Probes(Insert(t, p, c)) = Probes(t) \cup {p}
<1> DEFINE u == Insert(t, p, c)
           n == Count(t)
<1>1. t \in Templates /\ n \in Nat /\ Capacity \in Nat
  BY CountOf, ConstantsAssumption DEF Sound
<1>2. /\ u \in Templates
      /\ Count(u) = n + 1
      /\ u.relations = t.relations + RowLength(n + 1)
      /\ u.order = [t.order EXCEPT ![n + 1] = n + 1]
      /\ u.anchor = IF c # None /\ ~HasGroup(t) THEN c ELSE t.anchor
      /\ u.subs[n + 1].probe = p /\ u.subs[n + 1].base = t.relations
      /\ u.subs[n + 1].group = IF c = None THEN 0 ELSE 1
      /\ \A i \in 1..n :
           /\ u.subs[i].probe = t.subs[i].probe
           /\ u.subs[i].base = t.subs[i].base
           /\ u.subs[i].group = IF c # None /\ ~HasGroup(t) THEN 1
                                ELSE t.subs[i].group
  <2>1. u \in Templates /\ Inserted(t, u, p, c)
    BY InsertFields
  <2> HIDE DEF u
  <2> QED
    BY <2>1 DEF Inserted, Founds
<1> HIDE DEF u, n
<1>3. RowsFit(u)
  <2>1. t.relations = IF n = 0 THEN 0 ELSE t.subs[n].base + RowLength(n)
    BY DEF Sound, RowsFit, n
  <2>2. ASSUME NEW i \in 1..(n + 1)
        PROVE  u.subs[i].base = IF i = 1 THEN 0
                                ELSE u.subs[i - 1].base + RowLength(i - 1)
    <3>1. CASE i = n + 1
      BY <3>1, <2>1, <1>1, <1>2
    <3>2. CASE i \in 1..n
      <4>1. t.subs[i].base = IF i = 1 THEN 0
                             ELSE t.subs[i - 1].base + RowLength(i - 1)
        BY <3>2 DEF Sound, RowsFit, n
      <4> QED
        BY <4>1, <3>2, <1>1, <1>2
    <3> QED
      BY <3>1, <3>2, <1>1
  <2> QED
    BY <2>2, <1>1, <1>2 DEF RowsFit
<1>4. InOrder(u)
  <2>1. t.order \in [1..Capacity -> 0..Capacity]
    BY <1>1 DEF Templates
  <2>2. \A k \in 1..Capacity : t.order[k] = IF k <= n THEN k ELSE Unset
    BY DEF Sound, InOrder, n
  <2> QED
    BY <2>1, <2>2, <1>1, <1>2 DEF InOrder
<1>5. GroupFits(u)
  <2> SUFFICES ASSUME HasGroup(u)
               PROVE  u.anchor \in 1..(n + 1) /\ u.subs[u.anchor].group = 1
    BY <1>2 DEF GroupFits
  <2>1. CASE HasGroup(t)
    <3>1. t.anchor \in 1..n /\ t.subs[t.anchor].group = 1
      BY <2>1 DEF Sound, GroupFits, n
    <3> QED
      BY <3>1, <2>1, <1>1, <1>2
  <2>2. CASE ~HasGroup(t) /\ c # None
    <3>1. c \in 1..n
      BY <2>2 DEF Candidates, n
    <3> QED
      BY <3>1, <2>2, <1>1, <1>2
  <2>3. CASE ~HasGroup(t) /\ c = None
    <3>1. \A i \in 1..n : t.subs[i].group # 1
      BY <2>3 DEF HasGroup, n
    <3>2. \A i \in 1..(n + 1) : u.subs[i].group # 1
      BY <3>1, <2>3, <1>1, <1>2
    <3> QED
      BY <3>2, <1>2 DEF HasGroup
  <2> QED
    BY <2>1, <2>2, <2>3
<1>6. Probes(u) = Probes(t) \cup {p}
  BY <1>1, <1>2 DEF Probes, n
<1> QED
  BY <1>1, <1>2, <1>3, <1>4, <1>5, <1>6 DEF Sound, u, n

(* Dropping what was just inserted gives back the subtemplates, the rows and*)
(* the order; only the group may be new, and its anchor is not the dropped. *)
LEMMA InsertThenDrop ==
  ASSUME NEW t, Sound(t), Count(t) < Capacity,
         NEW p \in 1..MaxTouches, NEW c \in Candidates(t)
  PROVE  LET d == DropLast(Insert(t, p, c))
         IN Sound(d) /\ Count(d) = Count(t) /\ Probes(d) = Probes(t)
<1> DEFINE u == Insert(t, p, c)
           n == Count(t)
           d == DropLast(u)
<1>1. t \in Templates /\ n \in Nat /\ Capacity \in Nat
  BY CountOf, ConstantsAssumption DEF Sound
<1>2. Sound(u) /\ Count(u) = n + 1
  BY InsertSound
<1>3. /\ u.subs[n + 1].base = t.relations
      /\ u.anchor = IF c # None /\ ~HasGroup(t) THEN c ELSE t.anchor
      /\ \A i \in 1..n :
           /\ u.subs[i].probe = t.subs[i].probe
           /\ u.subs[i].base = t.subs[i].base
           /\ u.subs[i].group = IF c # None /\ ~HasGroup(t) THEN 1
                                ELSE t.subs[i].group
  <2>1. Inserted(t, u, p, c)
    BY InsertFields
  <2> HIDE DEF u
  <2> QED
    BY <2>1 DEF Inserted, Founds
<1>4. u \in Templates /\ \A i \in 1..(n + 1) : u.subs[i] \in Subtemplates
  BY <1>2, CountOf DEF Sound
<1>5. \A k \in 1..Capacity : u.order[k] = IF k <= n + 1 THEN k ELSE Unset
  BY <1>2 DEF Sound, InOrder
<1>6. /\ d.subs = [i \in 1..n |-> u.subs[i]]
      /\ d.relations = t.relations
      /\ d.anchor = IF n = 0 THEN None ELSE u.anchor
  <2>1. n + 1 - 1 = n /\ (n + 1 = 1 <=> n = 0)
    BY <1>1
  <2> HIDE DEF u, n
  <2>2. /\ d.subs = [i \in 1..Count(u) - 1 |-> u.subs[i]]
        /\ d.relations = u.subs[Count(u)].base
        /\ d.anchor = IF Count(u) = 1 THEN None ELSE u.anchor
    BY DEF DropLast
  <2> HIDE DEF d
  <2>3. d.subs = [i \in 1..n |-> u.subs[i]]
    <3>1. Count(u) - 1 = n
      BY <1>1, <1>2
    <3> QED
      BY <2>2, <3>1, Zenon
  <2>4. d.relations = t.relations
    BY <1>2, <1>3, <2>2
  <2>5. d.anchor = IF n = 0 THEN None ELSE u.anchor
    BY <1>2, <2>1, <2>2
  <2> QED
    BY <2>3, <2>4, <2>5
<1>7. d.order = [k \in 1..Capacity |-> IF k <= n THEN k ELSE Unset]
  <2> HIDE DEF u, n
  <2>1. d.order = [k \in 1..Capacity |->
                     IF k = n + 1 THEN Unset
                     ELSE IF k < n + 1 /\ \E q \in 1..k : u.order[q] = n + 1
                     THEN u.order[k + 1] ELSE u.order[k]]
    BY <1>2 DEF DropLast
  <2>2. ASSUME NEW k \in 1..Capacity
        PROVE  (IF k = n + 1 THEN Unset
                ELSE IF k < n + 1 /\ \E q \in 1..k : u.order[q] = n + 1
                THEN u.order[k + 1] ELSE u.order[k])
                 = IF k <= n THEN k ELSE Unset
    <3>1. k < n + 1 => \A q \in 1..k : u.order[q] # n + 1
      BY <1>1, <1>5
    <3> QED
      BY <3>1, <1>1, <1>5
  <2> QED
    BY <2>1, <2>2
<1>8. d \in Templates /\ Count(d) = n
  <2> HIDE DEF u, n
  <2>1. d.subs \in [1..n -> Subtemplates]
    BY <1>1, <1>4, <1>6
  <2>2. d.subs \in Seq(Subtemplates) /\ Len(d.subs) = n
    BY <1>1, <2>1, FunctionIsSeq
  <2>3. d.relations \in Nat /\ d.anchor \in 0..Capacity
    BY <1>1, <1>4, <1>6 DEF Templates, None
  <2>4. d.order \in [1..Capacity -> 0..Capacity]
    BY <1>1, <1>7 DEF Unset
  <2>5. d = [subs |-> d.subs, relations |-> d.relations, order |-> d.order,
             anchor |-> d.anchor]
    BY DEF DropLast
  <2> HIDE DEF d
  <2> QED
    BY <2>2, <2>3, <2>4, <2>5 DEF Templates, Count
<1> HIDE DEF u, n, d
<1>9. \A i \in 1..n :
        /\ d.subs[i].probe = t.subs[i].probe
        /\ d.subs[i].base = t.subs[i].base
        /\ d.subs[i].group = IF c # None /\ ~HasGroup(t) THEN 1
                             ELSE t.subs[i].group
  BY <1>3, <1>6
<1>10. RowsFit(d)
  <2>1. /\ t.relations = IF n = 0 THEN 0 ELSE t.subs[n].base + RowLength(n)
        /\ \A i \in 1..n :
             t.subs[i].base = IF i = 1 THEN 0
                              ELSE t.subs[i - 1].base + RowLength(i - 1)
    BY DEF Sound, RowsFit, n
  <2>2. ASSUME NEW i \in 1..n
        PROVE  d.subs[i].base = IF i = 1 THEN 0
                                ELSE d.subs[i - 1].base + RowLength(i - 1)
    <3>1. i = 1 \/ i - 1 \in 1..n
      BY <1>1
    <3> QED
      BY <3>1, <2>1, <1>9
  <2>3. d.relations = IF n = 0 THEN 0 ELSE d.subs[n].base + RowLength(n)
    BY <2>1, <1>1, <1>6, <1>9
  <2> QED
    BY <2>2, <2>3, <1>8 DEF RowsFit
<1>11. InOrder(d)
  BY <1>7, <1>8 DEF InOrder
<1>12. GroupFits(d)
  <2> SUFFICES ASSUME HasGroup(d)
               PROVE  d.anchor \in 1..n /\ d.subs[d.anchor].group = 1
    BY <1>8 DEF GroupFits
  <2>1. PICK i \in 1..n : d.subs[i].group = 1
    BY <1>8 DEF HasGroup
  <2>2. n # 0
    BY <1>1
  <2>3. CASE HasGroup(t)
    <3>1. t.anchor \in 1..n /\ t.subs[t.anchor].group = 1
      BY <2>3 DEF Sound, GroupFits, n
    <3> QED
      BY <3>1, <2>2, <2>3, <1>3, <1>6, <1>9
  <2>4. CASE ~HasGroup(t) /\ c # None
    <3>1. c \in 1..n
      BY <2>4 DEF Candidates, n
    <3> QED
      BY <3>1, <2>2, <2>4, <1>3, <1>6, <1>9
  <2>5. ~(~HasGroup(t) /\ c = None)
    BY <2>1, <1>9 DEF HasGroup, n
  <2> QED
    BY <2>3, <2>4, <2>5
<1>13. Probes(d) = Probes(t)
  BY <1>8, <1>9 DEF Probes, n
<1>14. n <= Capacity
  BY <1>1 DEF n
<1> QED
  BY <1>8, <1>10, <1>11, <1>12, <1>13, <1>14 DEF Sound, d, u, n

(* What goodix_chicago_engine_enrollment_policy_accept() leaves: a tip, the *)
(* first of which is deferred, or an accepted touch.                        *)
Accepted(p, q) ==
  /\ q.touched = p.touched + 1
  /\ q.restore = p.pending
  /\ \/ /\ q.accepted = FALSE /\ q.used = p.used /\ q.tipped = p.tipped + 1
        /\ q.defer = (p.tipped = 0) /\ q.pending = (p.tipped = 0)
     \/ /\ q.accepted = TRUE /\ q.used = p.used + 1 /\ q.tipped = p.tipped
        /\ q.defer = FALSE /\ q.pending = FALSE

LEMMA AcceptFields ==
  ASSUME NEW p \in Policies, NEW off \in BOOLEAN,
         p.used < Required, p.touched = p.used + p.tipped
  PROVE  Accept(p, off) \in Policies /\ Accepted(p, Accept(p, off))
<1>1. {Required, MaxTips, MaxRun} \subseteq Nat
  BY ConstantsAssumption
<1>2. CASE off /\ MayTip(p)
  <2>1. Accept(p, off) = 
          [touched |-> p.touched + 1, used |-> p.used, tipped |-> p.tipped + 1,
           run |-> p.run + 1, pending |-> p.tipped = 0, defer |-> p.tipped = 0,
           restore |-> p.pending, accepted |-> FALSE]
    BY <1>2 DEF Accept, Policies
  <2>2. p.tipped < MaxTips /\ p.run < MaxRun
    BY <1>2 DEF MayTip
  <2> QED
    BY <1>1, <2>1, <2>2 DEF Policies, Accepted, MaxTouches
<1>3. CASE ~(off /\ MayTip(p))
  <2>1. Accept(p, off) = 
          [touched |-> p.touched + 1, used |-> p.used + 1, tipped |-> p.tipped,
           run |-> 0, pending |-> FALSE, defer |-> FALSE,
           restore |-> p.pending, accepted |-> TRUE]
    BY <1>3 DEF Accept, Policies
  <2> QED
    BY <1>1, <2>1 DEF Policies, Accepted, MaxTouches
<1> QED
  BY <1>2, <1>3

-----------------------------------------------------------------------------
LEMMA NewTemplateSound ==
  Sound(NewTemplate) /\ Count(NewTemplate) = 0 /\ Probes(NewTemplate) = {}
<1>1. Capacity \in Nat
  BY ConstantsAssumption
<1>2. NewTemplate.subs = <<>> /\ NewTemplate.relations = 0 /\ NewTemplate.anchor = 0
      /\ NewTemplate.order = [k \in 1..Capacity |-> 0]
  BY DEF NewTemplate, None, Unset
<1>3. NewTemplate \in Templates
  BY <1>1 DEF NewTemplate, Templates, None, Unset
<1>4. Count(NewTemplate) = 0
  BY <1>2, EmptySeq DEF Count
<1> QED
  BY <1>1, <1>2, <1>3, <1>4
  DEF Sound, RowsFit, InOrder, GroupFits, HasGroup, Probes, Unset

LEMMA NewPolicyTyped == NewPolicy \in Policies
  BY ConstantsAssumption DEF NewPolicy, Policies, MaxTouches

LEMMA InitIsSound == Init => IInv
<1> SUFFICES ASSUME Init PROVE IInv
  OBVIOUS
<1>1. {Required, MaxTips} \subseteq Nat
  BY ConstantsAssumption
<1> QED
  BY <1>1, NewTemplateSound, NewPolicyTyped
  DEF Init, IInv, TypeOK, NothingLost, Sound, NewPolicy, None, MaxTouches

(* A touch, whatever the others were: the template keeps its shape, and the *)
(* new probe is in it or is the one deferred.                               *)
LEMMA AdmitKeepsIInv ==
  ASSUME IInv, Admit
  PROVE  IInv'
<1>1. /\ Required \in Nat /\ MaxTips \in Nat /\ Capacity \in Nat
      /\ Required + MaxTips <= Capacity
  BY ConstantsAssumption
<1>2. /\ template \in Templates /\ policy \in Policies
      /\ deferred \in 0..MaxTouches /\ stage = policy.used
      /\ outcome = "open" /\ policy.used < Required
      /\ policy.touched = policy.used + policy.tipped
      /\ policy.pending <=> deferred # None
      /\ policy.pending => policy.tipped >= 1
      /\ deferred <= policy.touched
      /\ Count(template) = policy.touched - (IF deferred = None THEN 0 ELSE 1)
      /\ Probes(template) = (1..policy.touched) \ {deferred}
      /\ Sound(template)
  BY DEF IInv, TypeOK, NothingLost, Admit
<1>3. /\ policy.touched \in Nat /\ policy.used \in Nat /\ policy.pending \in BOOLEAN
      /\ policy.tipped \in 0..MaxTips
  BY <1>1, <1>2 DEF Policies, MaxTouches
<1>4. policy' \in Policies /\ Accepted(policy, policy')
  BY <1>2, AcceptFields DEF Admit
<1> DEFINE probe == policy'.touched
           held == IF policy'.defer THEN probe ELSE deferred
           told == policy'.used = stage + 1 /\ policy'.used <= Required
<1>5. PICK first \in Candidates(template) :
        LET inserted == Insert(template, probe, first)
            left == IF policy'.defer THEN DropLast(inserted) ELSE inserted
            sound == /\ ~Complete(policy) /\ Fits(template)
                     /\ policy'.defer => deferred = None
                     /\ policy'.restore => held # None /\ Fits(left)
                     /\ Complete(policy') => policy'.restore \/ held = None
        IN /\ deferred' = IF policy'.restore THEN None ELSE held
           /\ \E second \in Candidates(left) :
                template' = IF policy'.restore THEN Insert(left, held, second)
                            ELSE left
           /\ stage' = IF policy'.accepted THEN policy'.used ELSE stage
           /\ outcome' = IF ~(sound /\ (policy'.accepted => told)) THEN "failed"
                         ELSE IF Complete(policy') THEN "enrolled" ELSE "open"
  BY DEF Admit
<1> DEFINE inserted == Insert(template, probe, first)
           left == IF policy'.defer THEN DropLast(inserted) ELSE inserted
           sound == /\ ~Complete(policy) /\ Fits(template)
                    /\ policy'.defer => deferred = None
                    /\ policy'.restore => held # None /\ Fits(left)
                    /\ Complete(policy') => policy'.restore \/ held = None
<1>6. PICK second \in Candidates(left) :
        template' = IF policy'.restore THEN Insert(left, held, second) ELSE left
  BY <1>5
<1>7. /\ deferred' = IF policy'.restore THEN None ELSE held
      /\ stage' = IF policy'.accepted THEN policy'.used ELSE stage
      /\ outcome' = IF ~(sound /\ (policy'.accepted => told)) THEN "failed"
                    ELSE IF Complete(policy') THEN "enrolled" ELSE "open"
  BY <1>5
<1>8. probe \in 1..MaxTouches /\ probe = policy.touched + 1
  BY <1>1, <1>3, <1>4 DEF Accepted, Policies, MaxTouches
<1>9. Count(template) < Capacity /\ policy.touched < Capacity
  BY <1>1, <1>2, <1>3
<1>10. /\ Sound(inserted) /\ Count(inserted) = Count(template) + 1
       /\ Probes(inserted) = Probes(template) \cup {probe}
  BY <1>2, <1>8, <1>9, InsertSound
<1>11. /\ Sound(DropLast(inserted)) /\ Count(DropLast(inserted)) = Count(template)
       /\ Probes(DropLast(inserted)) = Probes(template)
  BY <1>2, <1>8, <1>9, InsertThenDrop
<1>12. /\ policy'.restore = policy.pending /\ policy'.touched = policy.touched + 1
       /\ policy'.touched = policy'.used + policy'.tipped
       /\ policy'.accepted => policy'.used = policy.used + 1
       /\ ~policy'.accepted => policy'.used = policy.used
       /\ policy'.accepted \in BOOLEAN
       /\ policy'.pending = policy'.defer
       /\ policy'.defer = (~policy'.accepted /\ policy.tipped = 0)
       /\ policy'.pending => policy'.tipped >= 1
       /\ policy'.used \in Nat /\ policy'.used <= Required
  BY <1>1, <1>2, <1>3, <1>4 DEF Accepted, Policies
<1> HIDE DEF inserted
<1> DEFINE Kept ==
             /\ Sound(template')
             /\ Count(template') = policy'.touched - (IF deferred' = None THEN 0 ELSE 1)
             /\ Probes(template') = (1..policy'.touched) \ {deferred'}
             /\ policy'.pending <=> deferred' # None
             /\ deferred' \in 0..MaxTouches /\ deferred' <= policy'.touched
             /\ Complete(policy') => deferred' = None
             /\ sound /\ (policy'.accepted => told)
<1>13. ASSUME policy'.defer
       PROVE  Kept
  <2>1. policy.tipped = 0 /\ ~policy'.accepted /\ policy'.pending
    BY <1>12, <1>13, Zenon
  <2>2. ~policy.pending /\ deferred = None
    BY <1>2, <1>3, <2>1
  <2>3. ~policy'.restore
    BY <1>12, <2>2, Zenon
  <2>4. template' = DropLast(inserted) /\ deferred' = probe
    BY <1>6, <1>7, <1>13, <2>3
  <2>5. sound /\ ~Complete(policy')
    BY <1>1, <1>2, <1>3, <1>9, <1>12, <1>13, <2>1, <2>2, <2>3 DEF Complete, Fits
  <2>6. Probes(template) = 1..policy.touched /\ Count(template) = policy.touched
    BY <1>2, <1>3, <2>2 DEF None
  <2>7. 1..policy.touched = (1..probe) \ {probe}
    BY <1>3, <1>8
  <2>8. probe # None /\ probe \in 0..MaxTouches /\ Count(template) = probe - 1
    BY <1>3, <1>8, <2>6 DEF None, MaxTouches
  <2> HIDE DEF probe, sound, told
  <2>9. probe = policy'.touched
    BY DEF probe
  <2> QED
    BY <1>11, <2>1, <2>4, <2>5, <2>6, <2>7, <2>8, <2>9
<1>14. ASSUME ~policy'.defer, ~policy.pending
       PROVE  Kept
  <2>1. deferred = None /\ ~policy'.restore
    BY <1>2, <1>12, <1>14
  <2>2. template' = inserted /\ deferred' = None
    BY <1>6, <1>7, <1>14, <2>1
  <2>3. sound /\ (policy'.accepted => told)
    BY <1>1, <1>2, <1>3, <1>9, <1>12, <1>14, <2>1 DEF Complete, Fits
  <2>4. Probes(template') = (1..probe) \ {None} /\ Count(template') = probe
    BY <1>2, <1>3, <1>8, <1>10, <2>1, <2>2 DEF None
  <2> QED
    BY <1>1, <1>2, <1>10, <1>12, <1>14, <2>2, <2>3, <2>4 DEF None, MaxTouches
<1>15. ASSUME ~policy'.defer, policy.pending
       PROVE  Kept
  <2>1. deferred \in 1..MaxTouches /\ policy'.restore /\ held = deferred
    BY <1>1, <1>2, <1>12, <1>15 DEF None, MaxTouches
  <2>2. left = inserted /\ Count(inserted) = policy.touched
    BY <1>2, <1>3, <1>10, <1>15, <2>1 DEF None
  <2>3. template' = Insert(inserted, deferred, second)
        /\ second \in Candidates(inserted) /\ deferred' = None
    BY <1>6, <1>7, <1>15, <2>1, <2>2
  <2>4. /\ Sound(template') /\ Count(template') = policy'.touched
        /\ Probes(template') = Probes(template) \cup {probe, deferred}
    BY <1>9, <1>10, <1>12, <2>1, <2>2, <2>3, InsertSound
  <2>5. sound /\ (policy'.accepted => told)
    BY <1>1, <1>2, <1>3, <1>9, <1>12, <1>15, <2>1, <2>2 DEF Complete, Fits, None
  <2>6. deferred \in 1..policy.touched
    BY <1>2, <1>3, <2>1
  <2>7. Probes(template') = (1..probe) \ {None}
    BY <1>2, <1>3, <1>8, <2>4, <2>6 DEF None
  <2> QED
    BY <1>1, <1>2, <1>12, <1>15, <2>3, <2>4, <2>5, <2>7 DEF None, MaxTouches
<1>16. Kept
  BY <1>13, <1>14, <1>15, <1>3, <1>12
<1> HIDE DEF sound, told, left, held, probe
<1>17. /\ outcome' = IF Complete(policy') THEN "enrolled" ELSE "open"
       /\ stage' = policy'.used
  BY <1>2, <1>7, <1>12, <1>16
<1>18. TypeOK'
  BY <1>4, <1>12, <1>16, <1>17 DEF TypeOK, Sound
<1>19. NothingLost'
  <2>1. outcome' = "enrolled" => policy'.used = Required /\ deferred' = None
    <3>1. outcome' = "enrolled" => Complete(policy')
      BY <1>17
    <3>2. Complete(policy') => policy'.used = Required
      BY <1>1, <1>12 DEF Complete
    <3> QED
      BY <1>16, <3>1, <3>2
  <2>2. outcome' # "failed"
    BY <1>17
  <2> QED
    BY <1>12, <1>16, <1>17, <2>1, <2>2 DEF NothingLost
<1>20. policy'.pending => policy'.tipped >= 1
  BY <1>12
<1>21. outcome' = "open" => policy'.used < Required
  BY <1>1, <1>12, <1>17 DEF Complete
<1> QED
  BY <1>16, <1>18, <1>19, <1>20, <1>21 DEF IInv

LEMMA StepKeepsIInv == IInv /\ [Next]_vars => IInv'
<1> SUFFICES ASSUME IInv, [Next]_vars PROVE IInv'
  OBVIOUS
<1>1. CASE Start
  BY <1>1, InitIsSound, NewTemplateSound, NewPolicyTyped, ConstantsAssumption
  DEF Start, IInv, TypeOK, NothingLost, Sound, NewPolicy, None, MaxTouches
<1>2. CASE Admit
  BY <1>2, AdmitKeepsIInv
<1>3. CASE Deactivate
  BY <1>3, NewTemplateSound, NewPolicyTyped, ConstantsAssumption
  DEF Deactivate, IInv, TypeOK, NothingLost, Sound, NewPolicy, None, MaxTouches
<1>4. CASE UNCHANGED vars
  BY <1>4 DEF vars, IInv, TypeOK, NothingLost, Sound, Templates, Policies
<1> QED
  BY <1>1, <1>2, <1>3, <1>4 DEF Next

LEMMA AlwaysIInv == Spec => []IInv
<1> QED
  BY InitIsSound, StepKeepsIInv, PTL DEF Spec

-----------------------------------------------------------------------------
(* The store and the policy have the types of their structures at any time, *)
(* whatever the touches of the user are.                                    *)
THEOREM AlwaysTypeOK == Spec => []TypeOK
<1>1. IInv => TypeOK
  BY DEF IInv
<1> QED
  BY AlwaysIInv, <1>1, PTL

(* goodix_chicago_enroll() never fails for the order of the touches, and it *)
(* loses none of them.                                                      *)
THEOREM AlwaysNothingLost == Spec => []NothingLost
<1>1. IInv => NothingLost
  BY DEF IInv
<1> QED
  BY AlwaysIInv, <1>1, PTL

(* What goodix_chicago_enrollment_pack() would write at any time is what    *)
(* goodix_chicago_enrollment_unpack() takes.                                *)
THEOREM AlwaysUnpackable == Spec => []Unpackable
<1>1. ASSUME NEW t, Sound(t)
      PROVE  OrderFits(t)
  <2>1. Count(t) \in Nat /\ Count(t) <= Capacity /\ Capacity \in Nat
    BY <1>1, CountOf, ConstantsAssumption DEF Sound
  <2>2. \A k \in 1..Capacity : t.order[k] = IF k <= Count(t) THEN k ELSE Unset
    BY <1>1 DEF Sound, InOrder
  <2> QED
    BY <2>1, <2>2 DEF OrderFits
<1>2. IInv => Unpackable
  BY <1>1 DEF IInv, Sound, Unpackable
<1> QED
  BY AlwaysIInv, <1>2, PTL

=============================================================================
