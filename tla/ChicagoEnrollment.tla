-------------------------- MODULE ChicagoEnrollment --------------------------
(****************************************************************************)
(* What the ChicagoHS engine keeps of the touches of an enrollment:         *)
(* goodix_chicago_enroll() with the policy and the store of subtemplates of *)
(* goodix-chicago-enrollment.c, and the framework that counts the stages.   *)
(*                                                                          *)
(* Every touch that passes preprocessing becomes a subtemplate.  A touch too*)
(* far off the others is a "tip": it is kept, but the user has to touch     *)
(* again.  The first tip of an enrollment is dropped and inserted again     *)
(* after the next touch.                                                    *)
(*                                                                          *)
(* Left out: the hint in which direction to move, which the driver ignores; *)
(* group_edges, which nothing reads; touches that preprocessing refuses,    *)
(* which leave all of this as it was.                                       *)
(****************************************************************************)
EXTENDS Integers, Sequences

CONSTANTS
  Required,  \* GOODIX_CHICAGO_ENGINE_REQUIRED_SAMPLES
  FirstTip,  \* the first stage at which a touch can be a tip: 5
  MaxTips,   \* tips in an enrollment: 8
  MaxRun,    \* tips in a row: 2
  Capacity   \* GOODIX_CHICAGO_ENROLLMENT_CAPACITY

ASSUME ConstantsAssumption ==
  /\ {Required, FirstTip, MaxTips, MaxRun} \subseteq Nat \ {0}
  /\ Capacity \in Nat
  /\ Required + MaxTips <= Capacity

VARIABLES
  template,  \* the GoodixChicagoEnrollment
  policy,    \* the GoodixChicagoEngineEnrollmentPolicy
  deferred,  \* the probe that was dropped and waits to be inserted again
  stage,     \* enroll_stage of the framework
  outcome    \* of the enrollment, and idle between two of them

vars == <<template, policy, deferred, stage, outcome>>

-----------------------------------------------------------------------------
(* The policy.  A probe is named by the number of its touch.                *)

None == 0

NewPolicy ==
  [touched |-> 0, used |-> 0, tipped |-> 0, run |-> 0, pending |-> FALSE,
   defer |-> FALSE, restore |-> FALSE, accepted |-> FALSE]

(* Mutant of MayTip: any number of tips, if not in a row.                   *)
MayAlwaysTip(p) == p.used + 1 \in FirstTip..Required /\ p.run < MaxRun

MayTip(p) ==
  /\ p.used + 1 \in FirstTip..Required
  /\ p.tipped < MaxTips /\ p.run < MaxRun

(* Mutant of Accept: every tip is deferred.                                 *)
AcceptDefersAll(p, off) ==
  LET next == [p EXCEPT !.touched = @ + 1, !.restore = p.pending]
  IN IF off /\ MayTip(p)
     THEN [next EXCEPT !.accepted = FALSE, !.tipped = @ + 1, !.run = @ + 1,
                       !.defer = TRUE, !.pending = TRUE]
     ELSE [next EXCEPT !.accepted = TRUE, !.used = @ + 1, !.run = 0,
                       !.defer = FALSE, !.pending = FALSE]

(* "off" is that the position is beyond the limits for one.                 *)
Accept(p, off) ==
  LET next == [p EXCEPT !.touched = @ + 1, !.defer = FALSE,
                        !.restore = p.pending, !.pending = FALSE]
  IN IF off /\ MayTip(p)
     THEN [next EXCEPT !.accepted = FALSE, !.tipped = @ + 1, !.run = @ + 1,
                       !.defer = p.tipped = 0, !.pending = p.tipped = 0]
     ELSE [next EXCEPT !.accepted = TRUE, !.used = @ + 1, !.run = 0]

Complete(p) == p.used >= Required

-----------------------------------------------------------------------------
(* The store.  Subtemplates are counted from 1.  The relations of one to    *)
(* all before it are a row of an array; "base" is where the row begins.     *)
(* "order" is match_order, the order in which a match tries them.           *)

Unset == 0

NewTemplate ==
  [subs |-> <<>>, relations |-> 0, order |-> [k \in 1..Capacity |-> Unset],
   anchor |-> None]

Count(t) == Len(t.subs)

(* The first has one relation, which stands for none.                       *)
RowLength(i) == IF i = 1 THEN 1 ELSE i - 1

HasGroup(t) == \E i \in 1..Count(t) : t.subs[i].group = 1

(* The one that a new subtemplate overlaps best, if it overlaps any; once   *)
(* there is a group, only its members are asked.                            *)
Candidates(t) ==
  {None} \cup {i \in 1..Count(t) : HasGroup(t) => t.subs[i].group = 1}

Fits(t) == Count(t) < Capacity

(* The first to overlap another makes all there are into a group.           *)
Insert(t, probe, candidate) ==
  LET n == Count(t) + 1
      founds == candidate # None /\ ~HasGroup(t)
  IN [subs |-> [i \in 1..n |->
                  IF i = n THEN [probe |-> probe, base |-> t.relations,
                                 group |-> IF candidate = None THEN 0 ELSE 1]
                  ELSE [probe |-> t.subs[i].probe, base |-> t.subs[i].base,
                        group |-> IF founds THEN 1 ELSE t.subs[i].group]],
      relations |-> t.relations + RowLength(n),
      order |-> [t.order EXCEPT ![n] = n],
      anchor |-> IF founds THEN candidate ELSE t.anchor]

(* Mutant of DropLast: the relations are not cut back.                      *)
DropImage(t) ==
  LET n == Count(t)
  IN [subs |-> [i \in 1..n - 1 |-> t.subs[i]],
      relations |-> t.relations,
      order |-> [k \in 1..Capacity |-> IF k = n THEN Unset ELSE t.order[k]],
      anchor |-> IF n = 1 THEN None ELSE t.anchor]

(* The dropped one leaves match_order and those behind it move up.  A group *)
(* that it founded stays.                                                   *)
DropLast(t) ==
  LET n == Count(t)
  IN [subs |-> [i \in 1..n - 1 |-> t.subs[i]],
      relations |-> t.subs[n].base,
      order |-> [k \in 1..Capacity |->
                   IF k = n THEN Unset
                   ELSE IF k < n /\ \E p \in 1..k : t.order[p] = n
                   THEN t.order[k + 1] ELSE t.order[k]],
      anchor |-> IF n = 1 THEN None ELSE t.anchor]

-----------------------------------------------------------------------------
(* goodix_chicago_enroll_start(), when the action is activated.             *)
Start ==
  /\ outcome = "idle"
  /\ template' = NewTemplate /\ policy' = NewPolicy /\ deferred' = None
  /\ stage' = 0 /\ outcome' = "open"

(* goodix_chicago_enroll() and what context_chicago_image() makes of it.    *)
Admit ==
  /\ outcome = "open"
  /\ \E off \in BOOLEAN : policy' = Accept(policy, off)
  /\ \E first \in Candidates(template) :
       LET probe == policy'.touched
           inserted == Insert(template, probe, first)
           left == IF policy'.defer THEN DropLast(inserted) ELSE inserted
           held == IF policy'.defer THEN probe ELSE deferred
           sound == /\ ~Complete(policy) /\ Fits(template)
                    /\ policy'.defer => deferred = None
                    /\ policy'.restore => held # None /\ Fits(left)
                    /\ Complete(policy') => policy'.restore \/ held = None
           told == policy'.used = stage + 1 /\ policy'.used <= Required
       IN /\ deferred' = IF policy'.restore THEN None ELSE held
          /\ \E second \in Candidates(left) :
               template' = IF policy'.restore THEN Insert(left, held, second)
                           ELSE left
          /\ stage' = IF policy'.accepted THEN policy'.used ELSE stage
          /\ outcome' = IF ~(sound /\ (policy'.accepted => told)) THEN "failed"
                        ELSE IF Complete(policy') THEN "enrolled" ELSE "open"

(* goodix_chicago_enroll_clear(), when an enrollment ends or is cancelled.  *)
Deactivate ==
  /\ outcome # "idle" /\ outcome' = "idle"
  /\ template' = NewTemplate /\ policy' = NewPolicy /\ deferred' = None
  /\ UNCHANGED stage

-----------------------------------------------------------------------------
Init ==
  /\ template = NewTemplate /\ policy = NewPolicy /\ deferred = None
  /\ stage = 0 /\ outcome = "idle"

Next == Start \/ Admit \/ Deactivate

Spec == Init /\ [][Next]_vars

-----------------------------------------------------------------------------
(* Properties.                                                              *)

MaxTouches == Required + MaxTips

Subtemplates == [probe : 1..MaxTouches, base : Nat, group : {0, 1}]

Templates ==
  [subs : Seq(Subtemplates), relations : Nat,
   order : [1..Capacity -> 0..Capacity], anchor : 0..Capacity]

Policies ==
  [touched : 0..MaxTouches, used : 0..Required, tipped : 0..MaxTips,
   run : 0..MaxRun, pending : BOOLEAN, defer : BOOLEAN, restore : BOOLEAN,
   accepted : BOOLEAN]

(* All is what its declaration says; the counters and with them the store   *)
(* stay below the limits of goodix_chicago_engine_enrollment_policy_accept. *)
TypeOK ==
  /\ template \in Templates
  /\ policy \in Policies
  /\ deferred \in 0..MaxTouches
  /\ stage \in 0..Required
  /\ outcome \in {"idle", "open", "enrolled", "failed"}

Probes(t) == {t.subs[i].probe : i \in 1..Count(t)}

(* No legal sequence of touches, tips, cancellations and new enrollments    *)
(* makes goodix_chicago_enroll() fail, and none loses a touch: each is in   *)
(* the template once or is the one deferred, the framework has counted the  *)
(* accepted, and a template is finished with all of them in it.             *)
NothingLost ==
  /\ outcome # "failed"
  /\ Count(template) = policy.touched - (IF deferred = None THEN 0 ELSE 1)
  /\ Probes(template) = (1..policy.touched) \ {deferred}
  /\ policy.pending <=> deferred # None
  /\ policy.touched = policy.used + policy.tipped
  /\ outcome # "idle" => stage = policy.used
  /\ outcome = "enrolled" => policy.used = Required /\ deferred = None

(* The rows follow one another without a gap to the end of the array.       *)
RowsFit(t) ==
  /\ t.relations = IF Count(t) = 0 THEN 0
                   ELSE t.subs[Count(t)].base + RowLength(Count(t))
  /\ \A i \in 1..Count(t) :
       t.subs[i].base = IF i = 1 THEN 0
                        ELSE t.subs[i - 1].base + RowLength(i - 1)

(* The match order has every subtemplate once, and nothing after them.      *)
OrderFits(t) ==
  /\ \A k \in 1..Capacity :
       IF k <= Count(t) THEN t.order[k] \in 1..Count(t) ELSE t.order[k] = Unset
  /\ \A k, l \in 1..Count(t) : t.order[k] = t.order[l] => k = l

(* A group has an anchor, and it is a member.                               *)
GroupFits(t) ==
  HasGroup(t) => t.anchor \in 1..Count(t) /\ t.subs[t.anchor].group = 1

(* What goodix_chicago_enrollment_pack() writes is what                     *)
(* goodix_chicago_enrollment_unpack() and the match take, at any time.      *)
Unpackable ==
  /\ Count(template) <= Capacity
  /\ RowsFit(template) /\ OrderFits(template) /\ GroupFits(template)

=============================================================================
