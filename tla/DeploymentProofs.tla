-------------------------- MODULE DeploymentProofs --------------------------
(****************************************************************************)
(* Proofs about installing, updating, rolling back and removing the driver, *)
(* for every set of releases and any number of failures, interruptions,     *)
(* kills and power losses.                                                  *)
(*                                                                          *)
(* The argument.  An operation is a program that may stop at any step, so   *)
(* what it leaves is decided by how far it came.  IInv ties the two: an     *)
(* operation is at the k-th step of one of its programs, and the steps that *)
(* are behind it are on the host or among its errors.  Entering is apply()  *)
(* before lifecycle(), Erasing a removal (of its own, or in an update, with *)
(* a last step that checks it), Building an installation, Undoing a         *)
(* rollback, Departing the release of the mask.  Over is an operation that  *)
(* ended: Holds says what its verdict means.  Proper is what holds of every   *)
(* operation: a receipt that claims a mapping does not claim an             *)
(* administrator's.                                                         *)
(*                                                                          *)
(* Three facts make it inductive.  A service that was stopped is masked     *)
(* (Quiet), and the mask is ours or was there before (MaskIsOurs), so that  *)
(* it stays stopped until the mask is released.  A removal drops            *)
(* goodix-force-remove last and only without an error, so the command is    *)
(* whole as long as something is left.  A rollback copies nothing back over *)
(* what it could not remove.                                                *)
(*                                                                          *)
(* The proof follows the model: a lemma for what each kind of step does to  *)
(* the host, one for what it does to the facts of each program (...Erases,  *)
(* ...Builds, ...Undoes), one for each end of a program, and one for each   *)
(* action.  A step that fails is the step of an operation already Troubled: *)
(* noting the trouble first or last is the same.  SafeSteps follows from    *)
(* where in its program a step is: an entry goes before what it refers to,  *)
(* and comes after it.                                                      *)
(****************************************************************************)
EXTENDS Deployment, SequenceTheorems, TLAPS

(* The steps of the programs.                                               *)
Verbs ==
  {"inhibit", "stop", "snapshot", "release", "policy", "label", "removed",
   "import", "map", "preflight", "remap", "repolicy"}
Steps ==
  ({"drop", "make", "put", "copy"} \X Items) \cup {Do(verb) : verb \in Verbs}

(* What is left of a program from its k-th step on, and what is behind it.  *)
Rest(program, k) == SubSeq(program, k, Len(program))
Behind(program, k) == {program[i] : i \in 1..(k - 1)}

Contents == Release \cup {Absent, Part}
Befores ==
  [disk : [Items -> Contents], owns : BOOLEAN, rule : {"none", "admin", "ours"},
   policy : BOOLEAN, mask : {"none", "ours", "other"}]
Verdicts ==
  {"none", "failed", "interrupted", "killed", "installed", "restored",
   "broken", "removed", "incomplete"}
Ops ==
  [kind : {"install", "normal", "force"},
   phase : {"enter", "body", "rollback", "leave", "ended"},
   todo : Seq(Steps), errors : SUBSET Steps, rel : Release \cup {Absent},
   import : BOOLEAN, added : BOOLEAN, owned : BOOLEAN, troubled : BOOLEAN,
   verdict : Verdicts, before : Befores]

(* The service is stopped and nobody can start it.                          *)
Quiet(h) == h.mask # "none" /\ h.loaded = "masked" /\ ~h.running

(* All that an installation or a removal may change for good.               *)
AsBefore(h, b) ==
  h.disk = b.disk /\ h.owns = b.owns /\ h.rule = b.rule /\ h.policy = b.policy

(* What holds of every operation: a mapping that a receipt claims is not an *)
(* administrator's, and an administrator's comes and goes only by force.    *)
Proper(h, o) ==
  /\ h \in Hosts /\ o \in Ops
  /\ h.owns => Whole(h, "RUNTIME") /\ h.rule # "admin"
  /\ o.before.owns => o.before.disk["RUNTIME"] \in Release /\ o.before.rule # "admin"
  /\ o.before.mask # "ours"
  /\ o.kind # "force" => (o.before.rule = "admin" <=> h.rule = "admin")
  /\ o.kind = "install" => o.rel \in Release

(* A mask that was made without trouble is ours.                            *)
MaskIsOurs(h, o) == o.troubled \/ h.mask \in {"ours", o.before.mask}
MaskIsGone(h, o) == o.troubled \/ h.mask \in {"none", o.before.mask}

(* What is found by an installation: nothing, or what passes its checks.    *)
Found(b) == Present(b, Items) => Preflight(b)

Entered(h, o, past) ==
  /\ o.kind = "install" /\ o.errors = {} /\ ~o.added
  /\ o.owned = o.before.owns
  /\ AsBefore(h, o.before) /\ Found(o.before) /\ MaskIsOurs(h, o)
  /\ Do("inhibit") \in past => h.mask # "none"
  /\ Do("stop") \in past => Quiet(h)

(* A removal, of its own or inside an update.                               *)
Erased(h, o, past) ==
  /\ o.errors \subseteq past /\ (o.errors # {} => o.troubled)
  /\ o.owned = (o.kind = "force" \/ o.before.owns) /\ ~o.added
  /\ \A item \in {"CONFIG", "DROPIN"} :
       Drop(item) \in past \ o.errors => h.disk[item] = Absent
  /\ o.errors = {} =>
       /\ \A item \in Items : Drop(item) \in past => h.disk[item] = Absent
       /\ Do("policy") \in past => ~h.policy
       /\ Do("label") \in past /\ o.owned => h.rule = "none"
  /\ ~o.owned => h.rule = o.before.rule
  /\ Drop("FORCE") \notin past \/ o.errors # {} => Whole(h, "FORCE")
  /\ IF o.kind = "install" THEN Quiet(h) /\ MaskIsOurs(h, o)
     ELSE IF Do("release") \in past THEN MaskIsGone(h, o)
     ELSE /\ MaskIsOurs(h, o)
          /\ Do("inhibit") \in past \ o.errors => h.mask # "none"
          /\ Do("stop") \in past \ o.errors => Quiet(h)

(* An installation, of the driver's files on a host without them.           *)
Built(h, o, past) ==
  /\ o.kind = "install" /\ o.errors = {} /\ Quiet(h) /\ MaskIsOurs(h, o)
  /\ \A item \in Items :
       IF Put(item) \in past THEN h.disk[item] = o.rel
       ELSE h.disk[item] \in IF Make(item) \in past THEN {Absent, Part}
                             ELSE {Absent}
  /\ Do("policy") \in past => ~h.policy
  /\ IF Do("map") \in past THEN h.material => h.rule # "none"
     ELSE ~o.added
  /\ o.added \/ h.owns => h.rule = "ours"

(* A rollback.                                                              *)
Undone(h, o, past) ==
  /\ o.kind = "install" /\ o.errors \subseteq past /\ o.troubled /\ Quiet(h)
  /\ o.errors = {} =>
       /\ \A item \in Items :
            /\ Copy(item) \in past => h.disk[item] = o.before.disk[item]
            /\ Drop(item) \in past /\ Copy(item) \notin past
                 => h.disk[item] = Absent
       /\ Copy("RUNTIME") \in past => h.owns = o.before.owns
       /\ Do("remap") \in past => h.rule = o.before.rule
       /\ Do("repolicy") \in past => h.policy = o.before.policy

(* The programs at their k-th step.                                         *)
BuildSteps == InstallSteps(FALSE)

Entering(h, o, k) ==
  /\ o.phase = "enter" /\ o.todo = Rest(EnterSteps, k)
  /\ Entered(h, o, Behind(EnterSteps, k))
Erasing(h, o, k) ==
  /\ o.phase = "body"
  /\ o.todo = IF o.kind = "install" THEN Rest(InstallSteps(TRUE), k)
              ELSE Rest(RemoveSteps, k)
  /\ Erased(h, o, Behind(RemoveSteps, k))
Building(h, o, k) ==
  /\ o.phase = "body" /\ o.todo = Rest(BuildSteps, k)
  /\ Built(h, o, Behind(BuildSteps, k))
Undoing(h, o, k) ==
  /\ o.phase = "rollback" /\ o.todo = Rest(RollbackSteps, k)
  /\ Undone(h, o, Behind(RollbackSteps, k))

(* What the verdict says of the machine, the mask aside.                    *)
Holds(h, o) ==
  /\ o.verdict \notin {"none", "installed", "removed"} => o.troubled
  /\ o.verdict = "installed" =>
       /\ \A item \in Items : h.disk[item] = o.rel
       /\ ~h.policy /\ (h.material => h.rule # "none")
       /\ h.owns => h.rule = "ours"
  /\ o.verdict \in {"failed", "restored"} => AsBefore(h, o.before)
  /\ o.verdict = "removed" =>
       /\ ~Present(h, Items) /\ ~h.policy
       /\ h.rule = IF o.kind = "force" \/ o.before.owns THEN "none"
                   ELSE o.before.rule
  /\ o.verdict = "incomplete" => Whole(h, "FORCE")
  /\ o.kind # "install" /\ o.verdict \in {"interrupted", "killed"} =>
       Whole(h, "FORCE") \/ ~Present(h, Items)

Departs(h, o) ==
  Holds(h, o) /\ (o.kind # "install" => o.verdict = "interrupted")
Departing(h, o) ==
  /\ o.phase = "leave" /\ o.todo = LeaveSteps
  /\ MaskIsOurs(h, o) /\ Departs(h, o)

Over(h, o) == o.phase = "ended" /\ MaskIsGone(h, o) /\ Holds(h, o)

Going(h, o) ==
  \/ \E k \in 1..3 : Entering(h, o, k)
  \/ \E k \in 1..12 : Erasing(h, o, k)
  \/ o.kind = "install" /\ Erasing(h, o, 13)
  \/ \E k \in 1..15 : Building(h, o, k)
  \/ \E k \in 1..17 : Undoing(h, o, k)
  \/ Departing(h, o)
  \/ Over(h, o)

IInv ==
  /\ Proper(host, op) /\ Going(host, op)
  /\ host.mask = "ours" => Working
  /\ trouble \in 0..MaxTrouble

-----------------------------------------------------------------------------
(* Facts about the programs.                                                *)

(* What is left of a program, one step later.                               *)
LEMMA RestStep ==
  ASSUME NEW S, NEW p \in Seq(S), NEW k \in 1..Len(p)
  PROVE  /\ Rest(p, k) \in Seq(S) /\ Rest(p, k) # <<>>
         /\ Head(Rest(p, k)) = p[k]
         /\ Tail(Rest(p, k)) = Rest(p, k + 1) /\ Rest(p, k + 1) \in Seq(S)
         /\ Behind(p, k + 1) = Behind(p, k) \cup {p[k]}
<1>1. Len(p) \in Nat /\ k \in Int /\ k + 1 \in Int
  OBVIOUS
<1>2. \A i \in 1..Len(p) : p[i] \in S
  OBVIOUS
<1>3. SubSeq(p, k, Len(p)) \in Seq(S) /\ Len(SubSeq(p, k, Len(p))) # 0
  BY <1>1, <1>2, SubSeqProperties
<1>3a. SubSeq(p, k, Len(p)) # <<>>
  <2> DEFINE s == SubSeq(p, k, Len(p))
  <2> SUFFICES s # <<>>
    OBVIOUS
  <2>1. s \in Seq(S) /\ Len(s) # 0
    BY <1>3
  <2> HIDE DEF s
  <2> QED BY <2>1
<1>4. SubSeq(p, k + 1, Len(p)) \in Seq(S)
  BY <1>1, <1>2, SubSeqProperties
<1>5. Head(SubSeq(p, k, Len(p))) = p[k]
      /\ Tail(SubSeq(p, k, Len(p))) = SubSeq(p, k + 1, Len(p))
  BY <1>1, HeadTailOfSubSeq
<1>6. Behind(p, k + 1) = Behind(p, k) \cup {p[k]}
  BY <1>1 DEF Behind
<1> QED BY <1>3, <1>3a, <1>4, <1>5, <1>6 DEF Rest

(* At its end nothing is left of a program, at its start all of it.         *)
LEMMA RestEnd ==
  ASSUME NEW S, NEW p \in Seq(S)
  PROVE  Rest(p, Len(p) + 1) = <<>> /\ Rest(p, 1) = p /\ Behind(p, 1) = {}
<1>1. Rest(p, Len(p) + 1) = <<>>
  BY SubSeqEmpty DEF Rest
<1>2. SubSeq(p, 1, Len(p)) \in Seq(S) /\ Len(SubSeq(p, 1, Len(p))) = Len(p)
      /\ \A i \in 1..Len(p) : SubSeq(p, 1, Len(p))[i] = p[i]
  BY SubSeqProperties
<1>3. Rest(p, 1) = p
  BY <1>2, SeqEqual DEF Rest
<1> QED BY <1>1, <1>3 DEF Behind

(* The parts of a program of two parts.                                     *)
Joins(u, s, t) ==
  /\ Len(u) = Len(s) + Len(t)
  /\ \A i \in 1..Len(s) : u[i] = s[i]
  /\ \A i \in 1..Len(t) : u[i + Len(s)] = t[i]

(* The places of two programs, one after the other.                         *)
LEMMA Joined ==
  ASSUME NEW S, NEW s \in Seq(S), NEW t \in Seq(S)
  PROVE  s \o t \in Seq(S) /\ Joins(s \o t, s, t)
<1> DEFINE u == s \o t
<1>1. /\ u \in Seq(S) /\ Len(u) = Len(s) + Len(t)
      /\ \A i \in 1..Len(s) + Len(t) :
           u[i] = IF i <= Len(s) THEN s[i] ELSE t[i - Len(s)]
  BY ConcatProperties, Zenon
<1> HIDE DEF u
<1>0. Len(s) \in Nat /\ Len(t) \in Nat
  OBVIOUS
<1>2. \A i \in 1..Len(s) : u[i] = s[i]
  BY <1>0, <1>1
<1>3. \A i \in 1..Len(t) : u[i + Len(s)] = t[i]
  <2> TAKE i \in 1..Len(t)
  <2>1. i + Len(s) \in 1..Len(s) + Len(t) /\ ~(i + Len(s) <= Len(s))
        /\ i + Len(s) - Len(s) = i
    BY <1>0
  <2> QED BY <2>1, <1>1
<1>4. u \in Seq(S) /\ Joins(u, s, t)
  BY <1>1, <1>2, <1>3 DEF Joins
<1> QED BY <1>4 DEF u

(* The steps of a file or directory.                                        *)
LEMMA StepsOfItems == \A item \in Items : Drop(item) \in Steps /\ Make(item) \in Steps
                  /\ Put(item) \in Steps /\ Copy(item) \in Steps
BY DEF Steps, Drop, Make, Put, Copy

(* The programs, step by step.                                              *)
LEMMA EnterProgram ==
  /\ EnterSteps \in Seq(Steps) /\ Len(EnterSteps) = 3
  /\ EnterSteps[1] = Do("inhibit") /\ EnterSteps[2] = Do("stop")
  /\ EnterSteps[3] = Do("snapshot")
<1>1. {Do("inhibit"), Do("stop"), Do("snapshot")} \subseteq Steps
  BY DEF Steps, Verbs
<1> QED BY <1>1 DEF EnterSteps

(* The end of apply(): the mask is released.                                *)
LEMMA LeaveProgram ==
  /\ LeaveSteps \in Seq(Steps) /\ LeaveSteps # <<>>
  /\ Head(LeaveSteps) = Do("release") /\ Tail(LeaveSteps) = <<>>
<1>1. Do("release") \in Steps
  BY DEF Steps, Verbs
<1> QED BY <1>1 DEF LeaveSteps

(* The steps of remove(), place by place.                                   *)
LEMMA RemoveProgram ==
  /\ RemoveSteps \in Seq(Steps) /\ Len(RemoveSteps) = 12
  /\ RemoveSteps[1] = Drop("CONFIG") /\ RemoveSteps[2] = Drop("DROPIN")
  /\ RemoveSteps[3] = Do("inhibit") /\ RemoveSteps[4] = Do("stop")
  /\ RemoveSteps[5] = Do("policy") /\ RemoveSteps[6] = Drop("SUPPORT")
  /\ RemoveSteps[7] = Do("label") /\ RemoveSteps[8] = Drop("RUNTIME")
  /\ RemoveSteps[9] = Do("release") /\ RemoveSteps[10] = Drop("RECOVERY")
  /\ RemoveSteps[11] = Drop("NORMAL") /\ RemoveSteps[12] = Drop("FORCE")
<1>1. {Do("inhibit"), Do("stop"), Do("policy"), Do("label"), Do("release")} \subseteq Steps
  BY DEF Steps, Verbs
<1>2. \A item \in Items : Drop(item) \in Steps
  BY StepsOfItems
<1>3. {"CONFIG", "DROPIN", "SUPPORT", "RUNTIME", "RECOVERY", "NORMAL", "FORCE"} \subseteq Items
  BY DEF Items, Software, Tools
<1> HIDE DEF Drop, Do, Items, Steps
<1> QED BY <1>1, <1>2, <1>3 DEF RemoveSteps

(* The steps of lifecycle(), as one sequence.                               *)
LEMMA BuildIs ==
  LET b == <<Make("RECOVERY"), Put("NORMAL"), Put("FORCE"), Put("RECOVERY"),
    Do("policy"), Do("import"), Do("map"),
    Make("RUNTIME"), Put("RUNTIME"), Put("DROPIN"),
    Make("SUPPORT"), Put("SUPPORT"), Put("CONFIG"),
    Do("preflight"), Do("stop")>>
  IN b \in Seq(Steps) /\ BuildSteps = b
<1> DEFINE b == <<Make("RECOVERY"), Put("NORMAL"), Put("FORCE"), Put("RECOVERY"),
    Do("policy"), Do("import"), Do("map"),
    Make("RUNTIME"), Put("RUNTIME"), Put("DROPIN"),
    Make("SUPPORT"), Put("SUPPORT"), Put("CONFIG"),
    Do("preflight"), Do("stop")>>
<1>1. {Do("policy"), Do("import"), Do("map"), Do("preflight"), Do("stop")} \subseteq Steps
  BY DEF Steps, Verbs
<1>2. \A item \in Items : Put(item) \in Steps /\ Make(item) \in Steps
  BY StepsOfItems
<1>3. {"CONFIG", "DROPIN", "SUPPORT", "RUNTIME", "RECOVERY", "NORMAL", "FORCE"} \subseteq Items
  BY DEF Items, Software, Tools
<1> HIDE DEF Put, Make, Do, Items, Steps
<1>4. b \in Seq(Steps)
  BY <1>1, <1>2, <1>3
<1>5. BuildSteps = b
  <2>1. BuildSteps = <<>> \o b
    BY DEF BuildSteps, InstallSteps
  <2> QED BY <2>1, <1>4, ConcatEmptySeq
<1> QED BY <1>4, <1>5

(* The steps of lifecycle(), place by place.                                *)
LEMMA BuildProgram ==
  /\ BuildSteps \in Seq(Steps) /\ Len(BuildSteps) = 15
  /\ BuildSteps[1] = Make("RECOVERY") /\ BuildSteps[2] = Put("NORMAL")
  /\ BuildSteps[3] = Put("FORCE") /\ BuildSteps[4] = Put("RECOVERY")
  /\ BuildSteps[5] = Do("policy") /\ BuildSteps[6] = Do("import")
  /\ BuildSteps[7] = Do("map") /\ BuildSteps[8] = Make("RUNTIME")
  /\ BuildSteps[9] = Put("RUNTIME") /\ BuildSteps[10] = Put("DROPIN")
  /\ BuildSteps[11] = Make("SUPPORT") /\ BuildSteps[12] = Put("SUPPORT")
  /\ BuildSteps[13] = Put("CONFIG") /\ BuildSteps[14] = Do("preflight")
  /\ BuildSteps[15] = Do("stop")
<1> HIDE DEF Put, Make, Do
<1> QED BY BuildIs

(* An update is a removal, the check of it, and an installation.            *)
LEMMA InstallProgram ==
  LET p == InstallSteps(TRUE)
  IN /\ p \in Seq(Steps) /\ Len(p) = 28
     /\ \A i \in 1..12 : p[i] = RemoveSteps[i]
     /\ p[13] = Do("removed") /\ Rest(p, 14) = BuildSteps
     /\ \A i \in 1..15 : p[i + 13] = BuildSteps[i]
<1> DEFINE b == <<Make("RECOVERY"), Put("NORMAL"), Put("FORCE"), Put("RECOVERY"),
    Do("policy"), Do("import"), Do("map"),
    Make("RUNTIME"), Put("RUNTIME"), Put("DROPIN"),
    Make("SUPPORT"), Put("SUPPORT"), Put("CONFIG"),
    Do("preflight"), Do("stop")>>
           r == RemoveSteps \o <<Do("removed")>>
           p == r \o BuildSteps
<1>1. <<Do("removed")>> \in Seq(Steps)
  BY DEF Steps, Verbs
<1>2. BuildSteps \in Seq(Steps) /\ Len(BuildSteps) = 15
      /\ RemoveSteps \in Seq(Steps) /\ Len(RemoveSteps) = 12
  BY BuildProgram, RemoveProgram
<1>3. InstallSteps(TRUE) = p
  <2>1. BuildSteps = <<>> \o b /\ InstallSteps(TRUE) = r \o b
    BY DEF BuildSteps, InstallSteps
  <2>2. b \in Seq({b[i] : i \in 1..15})
    <3> HIDE DEF Drop, Make, Put, Do
    <3> QED OBVIOUS
  <2> HIDE DEF b
  <2>3. <<>> \o b = b
    BY <2>2, ConcatEmptySeq
  <2> QED BY <2>1, <2>3
<1>4. /\ r \in Seq(Steps) /\ Len(r) = 13
      /\ \A i \in 1..12 : r[i] = RemoveSteps[i]
      /\ r[13] = Do("removed")
  <2> DEFINE q == <<Do("removed")>>
  <2>1. q \in Seq(Steps) /\ Len(q) = 1 /\ q[1] = Do("removed")
    BY <1>1
  <2>2. r = RemoveSteps \o q
    OBVIOUS
  <2> HIDE DEF q, r
  <2>3. r \in Seq(Steps) /\ Joins(r, RemoveSteps, q)
    BY <1>2, <2>1, <2>2, Joined, Zenon
  <2>4. /\ Len(r) = 12 + 1 /\ \A i \in 1..12 : r[i] = RemoveSteps[i]
        /\ \A i \in 1..1 : r[i + 12] = q[i]
    BY <1>2, <2>1, <2>3, Zenon DEF Joins
  <2>5. Len(r) = 13 /\ r[13] = q[1]
    <3>1. r[1 + 12] = q[1] /\ 1 + 12 = 13
      BY <2>4
    <3> QED BY <2>4, <3>1
  <2> QED BY <2>1, <2>3, <2>4, <2>5
<1>5. /\ p \in Seq(Steps) /\ Len(p) = 28
      /\ \A i \in 1..13 : p[i] = r[i]
      /\ \A i \in 1..15 : p[i + 13] = BuildSteps[i]
  <2>1. p = r \o BuildSteps
    OBVIOUS
  <2> HIDE DEF r, p
  <2>2. p \in Seq(Steps) /\ Joins(p, r, BuildSteps)
    BY <1>2, <1>4, <2>1, Joined, Zenon
  <2>3. /\ Len(p) = 13 + 15 /\ \A i \in 1..13 : p[i] = r[i]
        /\ \A i \in 1..15 : p[i + 13] = BuildSteps[i]
    BY <1>2, <1>4, <2>2, Zenon DEF Joins
  <2>4. Len(p) = 28
    BY <2>3
  <2> QED BY <2>2, <2>3, <2>4, Zenon
<1> HIDE DEF r, p
<1>6. /\ \A i \in 1..12 : p[i] = RemoveSteps[i]
      /\ p[13] = Do("removed")
  BY <1>4, <1>5
<1>7. Rest(p, 14) = BuildSteps
  <2>1. \A i \in 14..28 : p[i] \in Steps
    <3> TAKE i \in 14..28
    <3>1. p \in Seq(Steps) /\ Len(p) = 28
      BY <1>5
    <3>2. i \in 1..Len(p)
      BY <3>1
    <3> QED BY <3>1, <3>2, ElementOfSeq, Zenon
  <2> DEFINE q == SubSeq(p, 14, 28)
  <2>2. /\ q \in Seq(Steps) /\ Len(q) = 15
        /\ \A i \in 1..15 : q[i] = p[14 + i - 1]
    BY <2>1, SubSeqProperties
  <2>3. Rest(p, 14) = q
    BY <1>5 DEF Rest
  <2> HIDE DEF q
  <2>4. \A i \in 1..15 : q[i] = BuildSteps[i]
    <3> TAKE i \in 1..15
    <3>1. 14 + i - 1 = i + 13
      OBVIOUS
    <3> QED BY <3>1, <2>2, <1>5
  <2>5. q = BuildSteps
    BY <1>2, <2>2, <2>4, SeqEqual, Zenon
  <2> QED BY <2>3, <2>5
<1> QED BY <1>3, <1>5, <1>6, <1>7

(* The steps of rollback(), place by place.                                 *)
LEMMA RollbackProgram ==
  /\ RollbackSteps \in Seq(Steps) /\ Len(RollbackSteps) = 17
  /\ RollbackSteps[1] = Do("stop")
  /\ RollbackSteps[2] = Drop("CONFIG") /\ RollbackSteps[3] = Drop("DROPIN")
  /\ RollbackSteps[4] = Drop("SUPPORT") /\ RollbackSteps[5] = Drop("RUNTIME")
  /\ RollbackSteps[6] = Copy("CONFIG") /\ RollbackSteps[7] = Copy("DROPIN")
  /\ RollbackSteps[8] = Copy("SUPPORT") /\ RollbackSteps[9] = Copy("RUNTIME")
  /\ RollbackSteps[10] = Do("remap") /\ RollbackSteps[11] = Do("repolicy")
  /\ RollbackSteps[12] = Drop("NORMAL") /\ RollbackSteps[13] = Copy("NORMAL")
  /\ RollbackSteps[14] = Drop("FORCE") /\ RollbackSteps[15] = Copy("FORCE")
  /\ RollbackSteps[16] = Drop("RECOVERY") /\ RollbackSteps[17] = Copy("RECOVERY")
<1>1. {Do("stop"), Do("remap"), Do("repolicy")} \subseteq Steps
  BY DEF Steps, Verbs
<1>2. \A item \in Items : Drop(item) \in Steps /\ Copy(item) \in Steps
  BY StepsOfItems
<1>3. {"CONFIG", "DROPIN", "SUPPORT", "RUNTIME", "RECOVERY", "NORMAL", "FORCE"} \subseteq Items
  BY DEF Items, Software, Tools
<1> HIDE DEF Drop, Copy, Do, Items, Steps
<1> QED BY <1>1, <1>2, <1>3 DEF RollbackSteps

(* In a program that does nothing twice, the steps behind are the earlier   *)
(* ones.                                                                    *)
Distinct(p) == \A i, j \in 1..Len(p) : p[i] = p[j] => i = j

(* Where no step comes twice, what is behind comes earlier.                 *)
LEMMA EarlierIsBehind ==
  ASSUME NEW p, NEW n \in Nat, Len(p) = n, Distinct(p), NEW k \in 1..(n + 1)
  PROVE  \A j \in 1..n : p[j] \in Behind(p, k) <=> j < k
<1> TAKE j \in 1..n
<1>1. ASSUME j < k PROVE p[j] \in Behind(p, k)
  <2>1. j \in 1..(k - 1)
    BY <1>1
  <2> QED BY <2>1 DEF Behind
<1>2. ASSUME p[j] \in Behind(p, k) PROVE j < k
  <2>1. PICK i \in 1..(k - 1) : p[i] = p[j]
    BY <1>2 DEF Behind
  <2>2. i \in 1..n
    OBVIOUS
  <2>3. i = j
    BY <2>1, <2>2 DEF Distinct
  <2> QED BY <2>3
<1> QED BY <1>1, <1>2

(* Steps are told apart by verb and item.                                   *)
LEMMA Codes ==
  /\ \A verb : Do(verb)[1] = verb /\ Do(verb)[2] = ""
  /\ \A item : /\ Drop(item)[1] = "drop" /\ Drop(item)[2] = item
               /\ Make(item)[1] = "make" /\ Make(item)[2] = item
               /\ Put(item)[1] = "put" /\ Put(item)[2] = item
               /\ Copy(item)[1] = "copy" /\ Copy(item)[2] = item
BY DEF Drop, Make, Put, Copy, Do

(* No step of apply() before lifecycle() comes twice.                       *)
LEMMA EnterOnce == Distinct(EnterSteps)
<1> DEFINE p == EnterSteps
<1>1. /\ Len(p) = 3
      /\ p[1][1] = "inhibit"
      /\ p[2][1] = "stop"
      /\ p[3][1] = "snapshot"
  BY EnterProgram, Codes
<1> HIDE DEF p
<1>2. \A i, j \in 1..3 : p[i] = p[j] => i = j
  BY <1>1
<1>3. Distinct(p)
  BY <1>1, <1>2 DEF Distinct
<1> QED BY <1>3 DEF p

(* No step of remove() comes twice.                                         *)
LEMMA RemoveOnce == Distinct(RemoveSteps)
<1> DEFINE p == RemoveSteps
<1>1. /\ Len(p) = 12
      /\ p[1][1] = "drop" /\ p[1][2] = "CONFIG"
      /\ p[2][1] = "drop" /\ p[2][2] = "DROPIN"
      /\ p[3][1] = "inhibit"
      /\ p[4][1] = "stop"
      /\ p[5][1] = "policy"
      /\ p[6][1] = "drop" /\ p[6][2] = "SUPPORT"
      /\ p[7][1] = "label"
      /\ p[8][1] = "drop" /\ p[8][2] = "RUNTIME"
      /\ p[9][1] = "release"
      /\ p[10][1] = "drop" /\ p[10][2] = "RECOVERY"
      /\ p[11][1] = "drop" /\ p[11][2] = "NORMAL"
      /\ p[12][1] = "drop" /\ p[12][2] = "FORCE"
  BY DEF RemoveSteps, Drop, Copy, Do
<1> HIDE DEF p
<1>2. \A i, j \in 1..12 : p[i] = p[j] => i = j
  BY <1>1
<1>3. Distinct(p)
  BY <1>1, <1>2 DEF Distinct
<1> QED BY <1>3 DEF p

(* No step of lifecycle() comes twice.                                      *)
LEMMA BuildOnce == Distinct(BuildSteps)
<1> DEFINE p == BuildSteps
<1>1. /\ Len(p) = 15
      /\ p[1][1] = "make" /\ p[1][2] = "RECOVERY"
      /\ p[2][1] = "put" /\ p[2][2] = "NORMAL"
      /\ p[3][1] = "put" /\ p[3][2] = "FORCE"
      /\ p[4][1] = "put" /\ p[4][2] = "RECOVERY"
      /\ p[5][1] = "policy"
      /\ p[6][1] = "import"
      /\ p[7][1] = "map"
      /\ p[8][1] = "make" /\ p[8][2] = "RUNTIME"
      /\ p[9][1] = "put" /\ p[9][2] = "RUNTIME"
      /\ p[10][1] = "put" /\ p[10][2] = "DROPIN"
      /\ p[11][1] = "make" /\ p[11][2] = "SUPPORT"
      /\ p[12][1] = "put" /\ p[12][2] = "SUPPORT"
      /\ p[13][1] = "put" /\ p[13][2] = "CONFIG"
      /\ p[14][1] = "preflight"
      /\ p[15][1] = "stop"
  BY BuildIs DEF Make, Put, Do
<1> HIDE DEF p
<1>2. \A i, j \in 1..15 : p[i] = p[j] => i = j
  BY <1>1
<1>3. Distinct(p)
  BY <1>1, <1>2 DEF Distinct
<1> QED BY <1>3 DEF p

(* No step of rollback() comes twice.                                       *)
LEMMA RollbackOnce == Distinct(RollbackSteps)
<1> DEFINE p == RollbackSteps
<1>1. /\ Len(p) = 17
      /\ p[1][1] = "stop"
      /\ p[2][1] = "drop" /\ p[2][2] = "CONFIG"
      /\ p[3][1] = "drop" /\ p[3][2] = "DROPIN"
      /\ p[4][1] = "drop" /\ p[4][2] = "SUPPORT"
      /\ p[5][1] = "drop" /\ p[5][2] = "RUNTIME"
      /\ p[6][1] = "copy" /\ p[6][2] = "CONFIG"
      /\ p[7][1] = "copy" /\ p[7][2] = "DROPIN"
      /\ p[8][1] = "copy" /\ p[8][2] = "SUPPORT"
      /\ p[9][1] = "copy" /\ p[9][2] = "RUNTIME"
      /\ p[10][1] = "remap"
      /\ p[11][1] = "repolicy"
      /\ p[12][1] = "drop" /\ p[12][2] = "NORMAL"
      /\ p[13][1] = "copy" /\ p[13][2] = "NORMAL"
      /\ p[14][1] = "drop" /\ p[14][2] = "FORCE"
      /\ p[15][1] = "copy" /\ p[15][2] = "FORCE"
      /\ p[16][1] = "drop" /\ p[16][2] = "RECOVERY"
      /\ p[17][1] = "copy" /\ p[17][2] = "RECOVERY"
  BY DEF RollbackSteps, Drop, Copy, Do
<1> HIDE DEF p
<1>2. \A i, j \in 1..17 : p[i] = p[j] => i = j
  BY <1>1
<1>3. Distinct(p)
  BY <1>1, <1>2 DEF Distinct
<1> QED BY <1>3 DEF p


-----------------------------------------------------------------------------
(* What a step does to the machine.                                         *)

SameDisk(h, g) == g.disk = h.disk /\ g.owns = h.owns
SameRest(h, g) ==
  /\ g.rule = h.rule /\ g.policy = h.policy /\ g.material = h.material
  /\ g.mask = h.mask /\ g.loaded = h.loaded /\ g.running = h.running
Placed(h, g, item, content, owned) ==
  /\ g \in Hosts /\ SameRest(h, g)
  /\ \A i \in Items : g.disk[i] = IF i = item THEN content ELSE h.disk[i]
  /\ g.owns = IF item = "RUNTIME" THEN content \in Release /\ owned ELSE h.owns
Sets(h, g, rule, policy, material) ==
  /\ g \in Hosts /\ SameDisk(h, g)
  /\ g.rule = rule /\ g.policy = policy /\ g.material = material
  /\ g.mask = h.mask /\ g.loaded = h.loaded /\ g.running = h.running
Masks(h, g, mask, loaded, running) ==
  /\ g \in Hosts /\ SameDisk(h, g)
  /\ g.rule = h.rule /\ g.policy = h.policy /\ g.material = h.material
  /\ g.mask = mask /\ g.loaded = loaded /\ g.running = running

(* With() changes one place, and the receipt if the place holds it.         *)
LEMMA WithPlaces ==
  ASSUME NEW h \in Hosts, NEW item \in Items, NEW content \in Contents,
         NEW owned \in BOOLEAN
  PROVE  Placed(h, With(h, item, content, owned), item, content, owned)
<1> DEFINE g == With(h, item, content, owned)
<1>1. g \in Hosts
  BY DEF With, Hosts, Contents
<1>2. SameRest(h, g)
  BY DEF With, Hosts, SameRest
<1>3. \A i \in Items : g.disk[i] = IF i = item THEN content ELSE h.disk[i]
  BY DEF With, Hosts
<1>4. g.owns = IF item = "RUNTIME" THEN content \in Release /\ owned ELSE h.owns
  BY DEF With, Hosts
<1> HIDE DEF g
<1>5. Placed(h, g, item, content, owned)
  BY <1>1, <1>2, <1>3, <1>4 DEF Placed
<1> QED BY <1>5 DEF g

(* A step that passes.                                                      *)
LEMMA DonePlaces ==
  ASSUME NEW h \in Hosts, NEW o \in Ops, NEW item \in Items
  PROVE  /\ Placed(h, Done(Drop(item), o, h), item, Absent, FALSE)
         /\ Placed(h, Done(Make(item), o, h), item, Part, FALSE)
         /\ Placed(h, Done(Put(item), o, h), item, o.rel, o.added)
         /\ Placed(h, Done(Copy(item), o, h), item, o.before.disk[item],
                   o.before.owns)
<1>1. /\ Done(Drop(item), o, h) = With(h, item, Absent, FALSE)
      /\ Done(Make(item), o, h) = With(h, item, Part, FALSE)
      /\ Done(Put(item), o, h) = With(h, item, o.rel, o.added)
      /\ Done(Copy(item), o, h) = With(h, item, o.before.disk[item], o.before.owns)
  BY Codes DEF Done
<1>2. /\ {Absent, Part, o.rel, o.before.disk[item]} \subseteq Contents
      /\ {FALSE, o.added, o.before.owns} \subseteq BOOLEAN
  BY DEF Ops, Befores, Contents
<1> QED BY <1>1, <1>2, WithPlaces, Zenon

(* The steps that change the label, the policy module or the bundle.        *)
LEMMA DoneSets ==
  ASSUME NEW h \in Hosts, NEW o \in Ops
  PROVE  /\ Sets(h, Done(Do("policy"), o, h), h.rule, FALSE, h.material)
         /\ Sets(h, Done(Do("repolicy"), o, h), h.rule, o.before.policy, h.material)
         /\ Sets(h, Done(Do("label"), o, h), "none", h.policy, h.material)
         /\ Sets(h, Done(Do("import"), o, h), h.rule, h.policy, h.material \/ o.import)
         /\ Sets(h, Done(Do("map"), o, h),
                 IF h.material /\ h.rule = "none" THEN "ours" ELSE h.rule,
                 h.policy, h.material)
         /\ Sets(h, Done(Do("remap"), o, h),
                 IF o.before.rule = "none" \/ h.rule = "none"
                 THEN o.before.rule ELSE h.rule, h.policy, h.material)
<1>1. Sets(h, Done(Do("policy"), o, h), h.rule, FALSE, h.material)
  <2>1. Done(Do("policy"), o, h) = [h EXCEPT !.policy = FALSE]
    BY DEF Done, Do
  <2> QED BY <2>1 DEF Sets, SameDisk, Hosts
<1>2. Sets(h, Done(Do("repolicy"), o, h), h.rule, o.before.policy, h.material)
  <2>1. Done(Do("repolicy"), o, h) = [h EXCEPT !.policy = o.before.policy]
    BY DEF Done, Do
  <2>2. o.before.policy \in BOOLEAN
    BY DEF Ops, Befores
  <2> QED BY <2>1, <2>2 DEF Sets, SameDisk, Hosts
<1>3. Sets(h, Done(Do("label"), o, h), "none", h.policy, h.material)
  <2>1. Done(Do("label"), o, h) = [h EXCEPT !.rule = "none"]
    BY DEF Done, Do
  <2> QED BY <2>1 DEF Sets, SameDisk, Hosts
<1>4. Sets(h, Done(Do("import"), o, h), h.rule, h.policy, h.material \/ o.import)
  <2>1. Done(Do("import"), o, h) = [h EXCEPT !.material = @ \/ o.import]
    BY DEF Done, Do
  <2> QED BY <2>1 DEF Sets, SameDisk, Hosts
<1>5. Sets(h, Done(Do("map"), o, h),
           IF h.material /\ h.rule = "none" THEN "ours" ELSE h.rule,
           h.policy, h.material)
  <2>1. Done(Do("map"), o, h) =
          [h EXCEPT !.rule = IF h.material /\ @ = "none" THEN "ours" ELSE @]
    BY DEF Done, Do
  <2> QED BY <2>1 DEF Sets, SameDisk, Hosts
<1>6. Sets(h, Done(Do("remap"), o, h),
           IF o.before.rule = "none" \/ h.rule = "none"
           THEN o.before.rule ELSE h.rule, h.policy, h.material)
  <2>1. Done(Do("remap"), o, h) =
          [h EXCEPT !.rule = IF o.before.rule = "none" \/ @ = "none"
                             THEN o.before.rule ELSE @]
    BY DEF Done, Do
  <2>2. o.before.rule \in {"none", "admin", "ours"}
    BY DEF Ops, Befores
  <2> QED BY <2>1, <2>2 DEF Sets, SameDisk, Hosts
<1> QED BY <1>1, <1>2, <1>3, <1>4, <1>5, <1>6

(* The steps that change the mask, and those that change nothing.           *)
LEMMA DoneMasks ==
  ASSUME NEW h \in Hosts, NEW o
  PROVE  /\ Masks(h, Done(Do("inhibit"), o, h),
                  IF h.mask = "none" THEN "ours" ELSE h.mask, h.loaded, h.running)
         /\ Masks(h, Done(Do("stop"), o, h), h.mask,
                  IF h.mask = "none" THEN "open" ELSE "masked", FALSE)
         /\ Masks(h, Done(Do("release"), o, h), "none", "open", h.running)
         /\ Done(Do("snapshot"), o, h) = h /\ Done(Do("removed"), o, h) = h
         /\ Done(Do("preflight"), o, h) = h
<1>1. Masks(h, Done(Do("inhibit"), o, h),
            IF h.mask = "none" THEN "ours" ELSE h.mask, h.loaded, h.running)
  <2>1. Done(Do("inhibit"), o, h) =
          [h EXCEPT !.mask = IF @ = "none" THEN "ours" ELSE @]
    BY DEF Done, Do
  <2> QED BY <2>1 DEF Masks, SameDisk, Hosts
<1>2. Masks(h, Done(Do("stop"), o, h), h.mask,
            IF h.mask = "none" THEN "open" ELSE "masked", FALSE)
  <2>1. Done(Do("stop"), o, h) =
          [h EXCEPT !.loaded = IF h.mask = "none" THEN "open" ELSE "masked",
                    !.running = FALSE]
    BY DEF Done, Do
  <2> QED BY <2>1 DEF Masks, SameDisk, Hosts
<1>3. Masks(h, Done(Do("release"), o, h), "none", "open", h.running)
  <2>1. Done(Do("release"), o, h) = [h EXCEPT !.mask = "none", !.loaded = "open"]
    BY DEF Done, Do
  <2> QED BY <2>1 DEF Masks, SameDisk, Hosts
<1>4. /\ Done(Do("snapshot"), o, h) = h /\ Done(Do("removed"), o, h) = h
      /\ Done(Do("preflight"), o, h) = h
  BY DEF Done, Do
<1> QED BY <1>1, <1>2, <1>3, <1>4

(* A step that does not: what it leaves behind.                             *)
LEMMA PartlyPlaces ==
  ASSUME NEW h \in Hosts, NEW o \in Ops, NEW item \in Items, NEW g
  PROVE  /\ g \in Partly(Drop(item), o, h) =>
              g = h \/ (item \in Directories /\ Placed(h, g, item, Part, FALSE))
         /\ g \in Partly(Make(item), o, h) => g = h
         /\ g \in Partly(Put(item), o, h) =>
              g = h \/ Placed(h, g, item, o.rel, o.added)
         /\ g \in Partly(Copy(item), o, h) =>
              \/ g = h \/ Placed(h, g, item, Part, FALSE)
              \/ Placed(h, g, item, o.before.disk[item], o.before.owns)
<1> DEFINE half == With(h, item, Part, FALSE)
<1>1. /\ Placed(h, half, item, Part, FALSE)
      /\ Placed(h, Done(Put(item), o, h), item, o.rel, o.added)
      /\ Placed(h, Done(Copy(item), o, h), item, o.before.disk[item], o.before.owns)
  BY WithPlaces, DonePlaces DEF Contents
<1>2. /\ Partly(Drop(item), o, h) = IF item \in Directories THEN {h, half} ELSE {h}
      /\ Partly(Make(item), o, h) = {h}
      /\ Partly(Put(item), o, h) = {h, Done(Put(item), o, h)}
      /\ Partly(Copy(item), o, h) = {h, half, Done(Copy(item), o, h)}
  BY Codes DEF Partly
<1> HIDE DEF half
<1> QED BY <1>1, <1>2

(* What a step that changes the mask leaves when it raised.                 *)
LEMMA PartlyMasks ==
  ASSUME NEW h \in Hosts, NEW o, NEW g
  PROVE  /\ g \in Partly(Do("inhibit"), o, h) =>
              \/ g = h
              \/ Masks(h, g, IF h.mask = "none" THEN "other" ELSE h.mask,
                       h.loaded, h.running)
         /\ g \in Partly(Do("stop"), o, h) =>
              \/ g = h
              \/ \E running \in {FALSE, h.running} :
                   Masks(h, g, h.mask, IF h.mask = "none" THEN "open" ELSE "masked",
                         running)
         /\ g \in Partly(Do("release"), o, h) =>
              g = h \/ Masks(h, g, "none", h.loaded, h.running)
<1>1. ASSUME g \in Partly(Do("inhibit"), o, h)
      PROVE  \/ g = h
             \/ Masks(h, g, IF h.mask = "none" THEN "other" ELSE h.mask,
                      h.loaded, h.running)
  <2>1. g = h \/ g = [h EXCEPT !.mask = IF @ = "none" THEN "other" ELSE @]
    BY <1>1 DEF Partly, Do
  <2> QED BY <2>1 DEF Masks, SameDisk, Hosts
<1>2. ASSUME g \in Partly(Do("stop"), o, h)
      PROVE  \/ g = h
             \/ \E running \in {FALSE, h.running} :
                  Masks(h, g, h.mask, IF h.mask = "none" THEN "open" ELSE "masked",
                        running)
  <2> DEFINE done == Done(Do("stop"), o, h)
  <2>1. g = h \/ g = [h EXCEPT !.loaded = done.loaded] \/ g = done
    BY <1>2 DEF Partly, Do
  <2>2. Masks(h, done, h.mask, IF h.mask = "none" THEN "open" ELSE "masked", FALSE)
    BY DoneMasks
  <2> HIDE DEF done
  <2>3. CASE g = [h EXCEPT !.loaded = done.loaded]
    <3>1. done.loaded = IF h.mask = "none" THEN "open" ELSE "masked"
      BY <2>2 DEF Masks
    <3>2. Masks(h, g, h.mask, IF h.mask = "none" THEN "open" ELSE "masked", h.running)
      BY <2>3, <3>1 DEF Masks, SameDisk, Hosts
    <3> QED BY <3>2
  <2> QED BY <2>1, <2>2, <2>3
<1>3. ASSUME g \in Partly(Do("release"), o, h)
      PROVE  g = h \/ Masks(h, g, "none", h.loaded, h.running)
  <2>1. g = h \/ g = [h EXCEPT !.mask = "none"]
    BY <1>3 DEF Partly, Do
  <2> QED BY <2>1 DEF Masks, SameDisk, Hosts
<1> QED BY <1>1, <1>2, <1>3

(* All other settings are changed or they are not.                          *)
LEMMA PartlyRest ==
  ASSUME NEW h, NEW o, NEW g, NEW verb \in Verbs \ {"inhibit", "stop", "release"}
  PROVE  g \in Partly(Do(verb), o, h) => g = h \/ g = Done(Do(verb), o, h)
<1>1. Partly(Do(verb), o, h) = {h, Done(Do(verb), o, h)}
  BY DEF Partly, Do, Verbs
<1> QED BY <1>1

-----------------------------------------------------------------------------
(* How an operation moves on.                                               *)

SameOp(o, x) ==
  /\ x \in Ops /\ x.kind = o.kind /\ x.rel = o.rel /\ x.before = o.before
Moves(o, x, errors, added) ==
  /\ SameOp(o, x) /\ x.phase = o.phase /\ x.todo = Tail(o.todo)
  /\ x.errors = errors /\ x.added = added /\ x.import = o.import
  /\ x.owned = o.owned /\ x.troubled = o.troubled /\ x.verdict = o.verdict

(* A step that was passed.                                                  *)
LEMMA PassedMoves ==
  ASSUME NEW o \in Ops, o.todo # <<>>
  PROVE  Moves(o, Passed(o), o.errors, o.added)
<1>1. Tail(o.todo) \in Seq(Steps)
  BY HeadTailProperties DEF Ops
<1>2. Passed(o) \in Ops
  BY <1>1 DEF Passed, Ops
<1> QED BY <1>2 DEF Passed, Ops, Moves, SameOp

(* A step that may have added the mapping.                                  *)
LEMMA AddedMoves ==
  ASSUME NEW o \in Ops, o.todo # <<>>, NEW b \in BOOLEAN
  PROVE  Moves(o, [Passed(o) EXCEPT !.added = @ \/ b], o.errors, o.added \/ b)
<1> DEFINE p == Passed(o)
<1>1. Moves(o, p, o.errors, o.added)
  BY PassedMoves
<1> HIDE DEF p
<1>2. p \in Ops /\ p.added \in BOOLEAN /\ o.added \in BOOLEAN
  BY <1>1 DEF Moves, SameOp, Ops
<1>3. [p EXCEPT !.added = @ \/ b] \in Ops
  BY <1>2 DEF Ops
<1>4. Moves(o, [p EXCEPT !.added = @ \/ b], o.errors, o.added \/ b)
  BY <1>1, <1>2, <1>3 DEF Moves, SameOp, Ops
<1> QED BY <1>4 DEF p

(* A step that attempt() caught.                                            *)
LEMMA ErrorMoves ==
  ASSUME NEW o \in Ops, o.todo # <<>>
  PROVE  Moves(o, [Passed(o) EXCEPT !.errors = @ \cup {Head(o.todo)}],
               o.errors \cup {Head(o.todo)}, o.added)
<1> DEFINE p == Passed(o)
<1>0. Head(o.todo) \in Steps
  BY HeadTailProperties DEF Ops
<1>1. Moves(o, p, o.errors, o.added)
  BY PassedMoves
<1> HIDE DEF p
<1>2. p \in Ops /\ p.errors \in SUBSET Steps /\ p.errors = o.errors
  BY <1>1 DEF Moves, SameOp, Ops
<1>3. [p EXCEPT !.errors = @ \cup {Head(o.todo)}] \in Ops
  BY <1>0, <1>2 DEF Ops
<1>4. Moves(o, [p EXCEPT !.errors = @ \cup {Head(o.todo)}],
            o.errors \cup {Head(o.todo)}, o.added)
  BY <1>1, <1>2, <1>3 DEF Moves, SameOp, Ops
<1> QED BY <1>4 DEF p

(* What every step keeps, by its kind.                                      *)
LEMMA ProperPlaced ==
  ASSUME NEW h, NEW o, Proper(h, o), NEW x, SameOp(o, x), NEW g,
         NEW item \in Items, NEW content, NEW owned,
         Placed(h, g, item, content, owned),
         item = "RUNTIME" /\ content \in Release /\ owned => h.rule # "admin"
  PROVE  Proper(g, x)
<1>1. "RUNTIME" \in Items
  BY DEF Items, Software
<1>2. g.owns => g.disk["RUNTIME"] \in Release /\ g.rule # "admin"
  BY <1>1 DEF Proper, Placed, SameRest, Whole
<1>3. g \in Hosts /\ g.rule = h.rule
  BY DEF Placed, SameRest
<1> QED BY <1>2, <1>3 DEF Proper, SameOp, Whole

(* The mask, and what systemd knows of it, say nothing of files.            *)
LEMMA ProperMasks ==
  ASSUME NEW h, NEW o, Proper(h, o), NEW x, SameOp(o, x), NEW g,
         NEW mask, NEW loaded, NEW running, Masks(h, g, mask, loaded, running)
  PROVE  Proper(g, x)
BY DEF Proper, SameOp, Masks, SameDisk, Whole

(* A change of settings, if no administrator's mapping comes or goes.       *)
LEMMA ProperSets ==
  ASSUME NEW h, NEW o, Proper(h, o), NEW x, SameOp(o, x), NEW g,
         NEW rule, NEW policy, NEW material, Sets(h, g, rule, policy, material),
         h.owns => rule # "admin",
         o.kind # "force" => (o.before.rule = "admin" <=> rule = "admin")
  PROVE  Proper(g, x)
BY DEF Proper, SameOp, Sets, SameDisk, Whole

(* A step that changed nothing.                                             *)
LEMMA ProperSame ==
  ASSUME NEW h, NEW o, Proper(h, o), NEW x, SameOp(o, x)
  PROVE  Proper(h, x)
BY DEF Proper, SameOp

(* Steps that differ in verb or item differ.                                *)
LEMMA StepsDiffer ==
  /\ \A a, b : /\ Drop(a) = Drop(b) => a = b
               /\ Make(a) = Make(b) => a = b
               /\ Put(a) = Put(b) => a = b
               /\ Copy(a) = Copy(b) => a = b
               /\ Do(a) = Do(b) => a = b
               /\ Drop(a) # Make(b) /\ Drop(a) # Put(b) /\ Drop(a) # Copy(b)
               /\ Make(a) # Put(b) /\ Make(a) # Copy(b) /\ Put(a) # Copy(b)
  /\ \A a, v : v \in Verbs => /\ Do(v) # Drop(a) /\ Do(v) # Make(a)
                              /\ Do(v) # Put(a) /\ Do(v) # Copy(a)
<1>1. \A v \in Verbs : v # "drop" /\ v # "make" /\ v # "put" /\ v # "copy"
  BY DEF Verbs
<1>2. ASSUME NEW a, NEW b
      PROVE  /\ Drop(a) = Drop(b) => a = b
             /\ Make(a) = Make(b) => a = b
             /\ Put(a) = Put(b) => a = b
             /\ Copy(a) = Copy(b) => a = b
             /\ Do(a) = Do(b) => a = b
             /\ Drop(a) # Make(b) /\ Drop(a) # Put(b) /\ Drop(a) # Copy(b)
             /\ Make(a) # Put(b) /\ Make(a) # Copy(b) /\ Put(a) # Copy(b)
  BY DEF Drop, Make, Put, Copy, Do
<1>3. ASSUME NEW a, NEW v, v \in Verbs
      PROVE  Do(v) # Drop(a) /\ Do(v) # Make(a) /\ Do(v) # Put(a) /\ Do(v) # Copy(a)
  BY <1>1, <1>3 DEF Drop, Make, Put, Copy, Do
<1> QED BY <1>2, <1>3

-----------------------------------------------------------------------------
(* The steps of a removal.                                                  *)

(* Something was removed.                                                   *)
LEMMA DropErases ==
  ASSUME NEW h, NEW o, NEW past, Proper(h, o), Erased(h, o, past),
         NEW item \in Items, NEW g, Placed(h, g, item, Absent, FALSE),
         item = "FORCE" => o.errors = {},
         NEW x, Moves(o, x, o.errors, o.added)
  PROVE  Proper(g, x) /\ Erased(g, x, past \cup {Drop(item)})
<1>1. Proper(g, x)
  BY ProperPlaced DEF Moves
<1>2. /\ \A i \in Items : g.disk[i] = IF i = item THEN Absent ELSE h.disk[i]
      /\ SameRest(h, g) /\ {"CONFIG", "DROPIN", "FORCE"} \subseteq Items
  BY DEF Placed, Items, Software, Tools
<1>3. \A verb \in {"policy", "label", "release", "inhibit", "stop"} :
         Do(verb) # Drop(item)
  BY StepsDiffer DEF Verbs
<1>4. \A i : Drop(i) = Drop(item) => i = item
  BY StepsDiffer
<1>5. \A i \in {"CONFIG", "DROPIN"} :
         Drop(i) \in (past \cup {Drop(item)}) \ x.errors => g.disk[i] = Absent
  BY <1>2, <1>4 DEF Erased, Moves
<1>6. x.errors = {} =>
       /\ \A i \in Items : Drop(i) \in past \cup {Drop(item)} => g.disk[i] = Absent
       /\ Do("policy") \in past \cup {Drop(item)} => ~g.policy
       /\ Do("label") \in past \cup {Drop(item)} /\ x.owned => g.rule = "none"
  BY <1>2, <1>3, <1>4 DEF Erased, Moves, SameRest
<1>7. Drop("FORCE") \notin past \cup {Drop(item)} \/ x.errors # {}
         => Whole(g, "FORCE")
  BY <1>2, <1>4 DEF Erased, Moves, Whole
<1>8. IF x.kind = "install" THEN Quiet(g) /\ MaskIsOurs(g, x)
      ELSE IF Do("release") \in past \cup {Drop(item)} THEN MaskIsGone(g, x)
      ELSE /\ MaskIsOurs(g, x)
           /\ Do("inhibit") \in (past \cup {Drop(item)}) \ x.errors => g.mask # "none"
           /\ Do("stop") \in (past \cup {Drop(item)}) \ x.errors => Quiet(g)
  BY <1>2, <1>3 DEF Erased, Moves, SameOp, SameRest, Quiet, MaskIsOurs, MaskIsGone
<1>9. /\ x.errors \subseteq past \cup {Drop(item)} /\ (x.errors # {} => x.troubled)
      /\ x.owned = (x.kind = "force" \/ x.before.owns) /\ ~x.added
      /\ ~x.owned => g.rule = x.before.rule
  BY <1>2 DEF Erased, Moves, SameOp, SameRest
<1> QED BY <1>1, <1>5, <1>6, <1>7, <1>8, <1>9 DEF Erased

(* A removal was skipped, because there was nothing to remove, or because   *)
(* of what failed before.                                                   *)
LEMMA SkippedDropErases ==
  ASSUME NEW h, NEW o, NEW past, Proper(h, o), Erased(h, o, past),
         NEW item \in Items,
         h.disk[item] = Absent \/ (o.errors # {} /\ item \notin {"CONFIG", "DROPIN"}),
         NEW x, Moves(o, x, o.errors, o.added)
  PROVE  Proper(h, x) /\ Erased(h, x, past \cup {Drop(item)})
<1>1. Proper(h, x)
  BY ProperSame DEF Moves
<1>3. \A verb \in {"policy", "label", "release", "inhibit", "stop"} :
         Do(verb) # Drop(item)
  BY StepsDiffer DEF Verbs
<1>4. \A i : Drop(i) = Drop(item) => i = item
  BY StepsDiffer
<1>5. \A i \in {"CONFIG", "DROPIN"} :
         Drop(i) \in (past \cup {Drop(item)}) \ x.errors => h.disk[i] = Absent
  BY <1>4 DEF Erased, Moves
<1>6. x.errors = {} =>
       /\ \A i \in Items : Drop(i) \in past \cup {Drop(item)} => h.disk[i] = Absent
       /\ Do("policy") \in past \cup {Drop(item)} => ~h.policy
       /\ Do("label") \in past \cup {Drop(item)} /\ x.owned => h.rule = "none"
  BY <1>3, <1>4 DEF Erased, Moves
<1>7. Drop("FORCE") \notin past \cup {Drop(item)} \/ x.errors # {}
         => Whole(h, "FORCE")
  BY <1>4 DEF Erased, Moves, Whole
<1>8. IF x.kind = "install" THEN Quiet(h) /\ MaskIsOurs(h, x)
      ELSE IF Do("release") \in past \cup {Drop(item)} THEN MaskIsGone(h, x)
      ELSE /\ MaskIsOurs(h, x)
           /\ Do("inhibit") \in (past \cup {Drop(item)}) \ x.errors => h.mask # "none"
           /\ Do("stop") \in (past \cup {Drop(item)}) \ x.errors => Quiet(h)
  BY <1>3 DEF Erased, Moves, SameOp, MaskIsOurs, MaskIsGone
<1>9. /\ x.errors \subseteq past \cup {Drop(item)} /\ (x.errors # {} => x.troubled)
      /\ x.owned = (x.kind = "force" \/ x.before.owns) /\ ~x.added
      /\ ~x.owned => h.rule = x.before.rule
  BY DEF Erased, Moves, SameOp
<1> QED BY <1>1, <1>5, <1>6, <1>7, <1>8, <1>9 DEF Erased

(* A removal failed.                                                        *)
LEMMA FailedDropErases ==
  ASSUME NEW h, NEW o, NEW past, Proper(h, o), Erased(h, o, past), o.troubled,
         NEW item \in Items, Drop("FORCE") \notin past,
         NEW g, g \in Partly(Drop(item), o, h),
         NEW x, Moves(o, x, o.errors \cup {Drop(item)}, o.added)
  PROVE  Proper(g, x) /\ Erased(g, x, past \cup {Drop(item)})
<1>0. h \in Hosts /\ o \in Ops
  BY DEF Proper
<1>1. g = h \/ (item \in Directories /\ Placed(h, g, item, Part, FALSE))
  BY <1>0, PartlyPlaces
<1>2. Proper(g, x)
  BY <1>1, ProperPlaced, ProperSame DEF Moves
<1>3. /\ SameRest(h, g) /\ {"CONFIG", "DROPIN", "FORCE"} \subseteq Items
      /\ \A i \in {"CONFIG", "DROPIN", "FORCE"} : g.disk[i] = h.disk[i]
  BY <1>1 DEF SameRest, Placed, Directories, Items, Software, Tools
<1>4. \A verb \in {"policy", "label", "release", "inhibit", "stop"} :
         Do(verb) # Drop(item)
  BY StepsDiffer DEF Verbs
<1>5. \A i \in {"CONFIG", "DROPIN"} :
         Drop(i) \in (past \cup {Drop(item)}) \ x.errors => g.disk[i] = Absent
  BY <1>3 DEF Erased, Moves
<1>6. Whole(g, "FORCE") /\ x.errors # {}
  BY <1>3 DEF Erased, Moves, Whole
<1>7. IF x.kind = "install" THEN Quiet(g) /\ MaskIsOurs(g, x)
      ELSE IF Do("release") \in past \cup {Drop(item)} THEN MaskIsGone(g, x)
      ELSE /\ MaskIsOurs(g, x)
           /\ Do("inhibit") \in (past \cup {Drop(item)}) \ x.errors => g.mask # "none"
           /\ Do("stop") \in (past \cup {Drop(item)}) \ x.errors => Quiet(g)
  BY <1>3, <1>4 DEF Erased, Moves, SameOp, SameRest, Quiet, MaskIsOurs, MaskIsGone
<1>8. /\ x.errors \subseteq past \cup {Drop(item)} /\ x.troubled
      /\ x.owned = (x.kind = "force" \/ x.before.owns) /\ ~x.added
      /\ ~x.owned => g.rule = x.before.rule
  BY <1>3 DEF Erased, Moves, SameOp, SameRest
<1> QED BY <1>2, <1>5, <1>6, <1>7, <1>8 DEF Erased

(* A setting could not be changed, or was changed and the step failed all   *)
(* the same.                                                                *)
LEMMA FailedSettingErases ==
  ASSUME NEW h, NEW o, NEW past, Proper(h, o), Erased(h, o, past), o.troubled,
         NEW verb \in Verbs, Drop("FORCE") \notin past, Do("release") \notin past,
         NEW g, SameDisk(h, g), ~o.owned => g.rule = h.rule,
         o.kind = "install" => Quiet(g),
         verb # "release" => /\ h.mask # "none" => g.mask # "none"
                             /\ Quiet(h) => Quiet(g),
         NEW x, Moves(o, x, o.errors \cup {Do(verb)}, o.added)
  PROVE  Erased(g, x, past \cup {Do(verb)})
<1>1. \A i : Drop(i) # Do(verb)
  BY StepsDiffer
<1>2. \A i \in {"CONFIG", "DROPIN"} :
         Drop(i) \in (past \cup {Do(verb)}) \ x.errors => g.disk[i] = Absent
  BY <1>1 DEF Erased, Moves, SameDisk
<1>3. Whole(g, "FORCE") /\ x.errors # {}
  BY DEF Erased, Moves, Whole, SameDisk
<1>4. x.troubled /\ MaskIsOurs(g, x) /\ MaskIsGone(g, x)
  BY DEF Moves, MaskIsOurs, MaskIsGone
<1>5. ASSUME x.kind # "install", Do("release") \notin past \cup {Do(verb)}
      PROVE  /\ Do("inhibit") \in (past \cup {Do(verb)}) \ x.errors => g.mask # "none"
             /\ Do("stop") \in (past \cup {Do(verb)}) \ x.errors => Quiet(g)
  BY <1>5 DEF Erased, Moves, SameOp
<1>6. /\ x.errors \subseteq past \cup {Do(verb)}
      /\ x.owned = (x.kind = "force" \/ x.before.owns) /\ ~x.added
      /\ ~x.owned => g.rule = x.before.rule
      /\ x.kind = "install" => Quiet(g)
  BY DEF Erased, Moves, SameOp
<1> QED BY <1>2, <1>3, <1>4, <1>5, <1>6 DEF Erased

(* The mask was made or found.                                              *)
LEMMA InhibitErases ==
  ASSUME NEW h, NEW o, NEW past, Proper(h, o), Erased(h, o, past),
         Do("release") \notin past, NEW g,
         Masks(h, g, IF h.mask = "none" THEN "ours" ELSE h.mask, h.loaded, h.running),
         NEW x, Moves(o, x, o.errors, o.added)
  PROVE  Proper(g, x) /\ Erased(g, x, past \cup {Do("inhibit")})
<1>1. Proper(g, x)
  BY ProperMasks DEF Moves
<1>2. /\ \A i : Drop(i) # Do("inhibit")
      /\ \A v \in {"policy", "label", "release", "stop"} : Do(v) # Do("inhibit")
  BY StepsDiffer DEF Verbs
<1>3. /\ g.disk = h.disk /\ g.policy = h.policy /\ g.rule = h.rule
      /\ g.mask # "none" /\ (MaskIsOurs(h, o) => MaskIsOurs(g, x))
      /\ Quiet(h) => Quiet(g)
  BY DEF Masks, SameDisk, MaskIsOurs, Quiet, Moves, SameOp
<1> QED BY <1>1, <1>2, <1>3 DEF Erased, Moves, SameOp, Whole

(* The service was stopped under the mask.                                  *)
LEMMA StopErases ==
  ASSUME NEW h, NEW o, NEW past, Proper(h, o), Erased(h, o, past),
         Do("release") \notin past, h.mask # "none",
         NEW g, Masks(h, g, h.mask, "masked", FALSE),
         NEW x, Moves(o, x, o.errors, o.added)
  PROVE  Proper(g, x) /\ Erased(g, x, past \cup {Do("stop")})
<1>1. Proper(g, x)
  BY ProperMasks DEF Moves
<1>2. /\ \A i : Drop(i) # Do("stop")
      /\ \A v \in {"policy", "label", "release", "inhibit"} : Do(v) # Do("stop")
  BY StepsDiffer DEF Verbs
<1>3. /\ g.disk = h.disk /\ g.policy = h.policy /\ g.rule = h.rule
      /\ g.mask # "none" /\ (MaskIsOurs(h, o) => MaskIsOurs(g, x)) /\ Quiet(g)
  BY DEF Masks, SameDisk, MaskIsOurs, Quiet, Moves, SameOp
<1> QED BY <1>1, <1>2, <1>3 DEF Erased, Moves, SameOp, Whole

(* The policy module was removed.                                           *)
LEMMA PolicyErases ==
  ASSUME NEW h, NEW o, NEW past, Proper(h, o), Erased(h, o, past),
         NEW g, Sets(h, g, h.rule, FALSE, h.material),
         NEW x, Moves(o, x, o.errors, o.added)
  PROVE  Proper(g, x) /\ Erased(g, x, past \cup {Do("policy")})
<1>1. Proper(g, x)
  <2>1. /\ h.owns => h.rule # "admin"
        /\ o.kind # "force" => (o.before.rule = "admin" <=> h.rule = "admin")
    BY DEF Proper
  <2> QED BY <2>1, ProperSets DEF Moves
<1>2. /\ \A i : Drop(i) # Do("policy")
      /\ \A v \in {"stop", "label", "release", "inhibit"} : Do(v) # Do("policy")
  BY StepsDiffer DEF Verbs
<1>3. /\ g.disk = h.disk /\ ~g.policy /\ g.rule = h.rule /\ g.mask = h.mask
      /\ Quiet(h) => Quiet(g)
  BY DEF Sets, SameDisk, Quiet
<1> QED BY <1>1, <1>2, <1>3 DEF Erased, Moves, SameOp, Whole, MaskIsOurs, MaskIsGone

(* The mapping of labels was removed, or is another's.                      *)
LEMMA LabelErases ==
  ASSUME NEW h, NEW o, NEW past, Proper(h, o), Erased(h, o, past), o.owned,
         NEW g, Sets(h, g, "none", h.policy, h.material),
         NEW x, Moves(o, x, o.errors, o.added)
  PROVE  Proper(g, x) /\ Erased(g, x, past \cup {Do("label")})
<1>1. Proper(g, x)
  <2>1. o.kind # "force" => o.before.rule # "admin"
    BY DEF Proper, Erased
  <2> QED BY <2>1, ProperSets DEF Moves
<1>2. /\ \A i : Drop(i) # Do("label")
      /\ \A v \in {"stop", "policy", "release", "inhibit"} : Do(v) # Do("label")
  BY StepsDiffer DEF Verbs
<1>3. /\ g.disk = h.disk /\ g.policy = h.policy /\ g.rule = "none"
      /\ g.mask = h.mask /\ (Quiet(h) => Quiet(g))
  BY DEF Sets, SameDisk, Quiet
<1>4. /\ MaskIsOurs(h, o) => MaskIsOurs(g, x)
      /\ MaskIsGone(h, o) => MaskIsGone(g, x)
  BY <1>3 DEF MaskIsOurs, MaskIsGone, Moves, SameOp
<1> QED BY <1>1, <1>2, <1>3, <1>4 DEF Erased, Moves, SameOp, Whole

(* A removal leaves a mapping that is not its own.                          *)
LEMMA SkippedLabelErases ==
  ASSUME NEW h, NEW o, NEW past, Proper(h, o), Erased(h, o, past),
         ~o.owned \/ o.errors # {},
         NEW x, Moves(o, x, o.errors, o.added)
  PROVE  Proper(h, x) /\ Erased(h, x, past \cup {Do("label")})
<1>1. Proper(h, x)
  BY ProperSame DEF Moves
<1>2. /\ \A i : Drop(i) # Do("label")
      /\ \A v \in {"stop", "policy", "release", "inhibit"} : Do(v) # Do("label")
  BY StepsDiffer DEF Verbs
<1> QED BY <1>1, <1>2 DEF Erased, Moves, SameOp, Whole, MaskIsOurs, MaskIsGone

(* The mask was taken away, if it was ours and this is not an update.       *)
LEMMA ReleaseErases ==
  ASSUME NEW h, NEW o, NEW past, Proper(h, o), Erased(h, o, past),
         o.kind # "install", NEW g, Masks(h, g, "none", "open", h.running),
         NEW x, Moves(o, x, o.errors, o.added)
  PROVE  Proper(g, x) /\ Erased(g, x, past \cup {Do("release")})
<1>1. Proper(g, x)
  BY ProperMasks DEF Moves
<1>2. /\ \A i : Drop(i) # Do("release")
      /\ \A v \in {"stop", "policy", "label", "inhibit"} : Do(v) # Do("release")
  BY StepsDiffer DEF Verbs
<1>3. /\ g.disk = h.disk /\ g.policy = h.policy /\ g.rule = h.rule
      /\ MaskIsGone(g, x)
  BY DEF Masks, SameDisk, MaskIsGone
<1> QED BY <1>1, <1>2, <1>3 DEF Erased, Moves, SameOp, Whole

(* A removal leaves a mask that is not its own.                             *)
LEMMA SkippedReleaseErases ==
  ASSUME NEW h, NEW o, NEW past, Proper(h, o), Erased(h, o, past),
         Do("release") \notin past, o.kind = "install" \/ h.mask # "ours",
         NEW x, Moves(o, x, o.errors, o.added)
  PROVE  Proper(h, x) /\ Erased(h, x, past \cup {Do("release")})
<1>1. Proper(h, x)
  BY ProperSame DEF Moves
<1>2. /\ \A i : Drop(i) # Do("release")
      /\ \A v \in {"stop", "policy", "label", "inhibit"} : Do(v) # Do("release")
  BY StepsDiffer DEF Verbs
<1>3. /\ MaskIsOurs(h, o) => MaskIsOurs(h, x)
      /\ MaskIsOurs(h, o) /\ h.mask # "ours" => MaskIsGone(h, x)
  BY DEF MaskIsOurs, MaskIsGone, Moves, SameOp
<1> QED BY <1>1, <1>2, <1>3 DEF Erased, Moves, SameOp, Whole

-----------------------------------------------------------------------------
(* The steps of an installation.                                            *)

(* The mask, the stop and the snapshot before it.                           *)
LEMMA MaskEnters ==
  ASSUME NEW h, NEW o, NEW past, Proper(h, o), Entered(h, o, past),
         NEW verb \in {"inhibit", "stop", "snapshot"}, NEW g,
         NEW mask, NEW loaded, NEW running, Masks(h, g, mask, loaded, running),
         MaskIsOurs(g, o), h.mask # "none" \/ verb = "inhibit" => mask # "none",
         Quiet(h) \/ verb = "stop" => mask # "none" /\ loaded = "masked" /\ ~running,
         NEW x, Moves(o, x, o.errors, o.added)
  PROVE  Proper(g, x) /\ Entered(g, x, past \cup {Do(verb)})
<1>1. Proper(g, x)
  BY ProperMasks DEF Moves
<1>2. /\ Do("inhibit") = Do(verb) => verb = "inhibit"
      /\ Do("stop") = Do(verb) => verb = "stop"
  BY StepsDiffer
<1>3. g.mask = mask /\ AsBefore(g, o.before) /\ MaskIsOurs(g, x)
      /\ (Quiet(h) \/ verb = "stop" => Quiet(g))
  BY DEF Masks, SameDisk, AsBefore, MaskIsOurs, Quiet, Moves, SameOp, Entered
<1> QED BY <1>1, <1>2, <1>3 DEF Entered, Moves, SameOp

(* What a step leaves of the content before it.                             *)
LEMMA MakeBuilds ==
  ASSUME NEW h, NEW o, NEW past, Proper(h, o), Built(h, o, past),
         NEW item \in Items, Put(item) \notin past,
         NEW g, Placed(h, g, item, Part, FALSE),
         NEW x, Moves(o, x, o.errors, o.added)
  PROVE  Proper(g, x) /\ Built(g, x, past \cup {Make(item)})
<1>1. Proper(g, x)
  BY ProperPlaced DEF Moves
<1>2. /\ \A i \in Items : g.disk[i] = IF i = item THEN Part ELSE h.disk[i]
      /\ SameRest(h, g) /\ (g.owns => h.owns)
  BY DEF Placed
<1>3. /\ \A v \in {"policy", "map"} : Do(v) # Make(item)
      /\ \A i : Make(i) = Make(item) => i = item
      /\ \A i : Put(i) # Make(item)
  BY StepsDiffer DEF Verbs
<1>4. \A i \in Items :
         IF Put(i) \in past \cup {Make(item)} THEN g.disk[i] = x.rel
         ELSE g.disk[i] \in IF Make(i) \in past \cup {Make(item)}
                            THEN {Absent, Part} ELSE {Absent}
  BY <1>2, <1>3 DEF Built, Moves, SameOp
<1>5. Quiet(g) /\ MaskIsOurs(g, x)
  BY <1>2 DEF Built, SameRest, Quiet, MaskIsOurs, Moves, SameOp
<1> QED BY <1>1, <1>2, <1>3, <1>4, <1>5 DEF Built, Moves, SameOp, SameRest

(* publish(): an item is put in its place.                                  *)
LEMMA PutBuilds ==
  ASSUME NEW h, NEW o, NEW past, Proper(h, o), Built(h, o, past),
         NEW item \in Items, NEW g, Placed(h, g, item, o.rel, o.added),
         NEW x, Moves(o, x, o.errors, o.added)
  PROVE  Proper(g, x) /\ Built(g, x, past \cup {Put(item)})
<1>1. Proper(g, x)
  BY ProperPlaced DEF Moves, Built
<1>2. /\ \A i \in Items : g.disk[i] = IF i = item THEN o.rel ELSE h.disk[i]
      /\ SameRest(h, g) /\ (g.owns => h.owns \/ o.added)
  BY DEF Placed
<1>3. /\ \A v \in {"policy", "map"} : Do(v) # Put(item)
      /\ \A i : Put(i) = Put(item) => i = item
      /\ \A i : Make(i) # Put(item)
  BY StepsDiffer DEF Verbs
<1>4. \A i \in Items :
         IF Put(i) \in past \cup {Put(item)} THEN g.disk[i] = x.rel
         ELSE g.disk[i] \in IF Make(i) \in past \cup {Put(item)}
                            THEN {Absent, Part} ELSE {Absent}
  BY <1>2, <1>3 DEF Built, Moves, SameOp
<1>5. Quiet(g) /\ MaskIsOurs(g, x)
  BY <1>2 DEF Built, SameRest, Quiet, MaskIsOurs, Moves, SameOp
<1> QED BY <1>1, <1>2, <1>3, <1>4, <1>5 DEF Built, Moves, SameOp, SameRest

(* A setting was made, and the mapping is ours if this step made it.        *)
LEMMA SettingBuilds ==
  ASSUME NEW h, NEW o, NEW past, Proper(h, o), Built(h, o, past),
         NEW verb \in {"policy", "import", "map"},
         Do("map") \notin past, NEW g, NEW rule, NEW policy, NEW material,
         Sets(h, g, rule, policy, material),
         rule = h.rule \/ (h.rule = "none" /\ rule = "ours"),
         IF verb = "policy" THEN ~policy ELSE policy = h.policy,
         NEW added, verb # "map" => ~added,
         verb = "map" => (material => rule # "none"), added => rule = "ours",
         NEW x, Moves(o, x, o.errors, added)
  PROVE  Proper(g, x) /\ Built(g, x, past \cup {Do(verb)})
<1>1. Proper(g, x)
  <2>1. /\ h.owns => rule # "admin"
        /\ o.kind # "force" => (o.before.rule = "admin" <=> rule = "admin")
    BY DEF Proper
  <2> QED BY <2>1, ProperSets DEF Moves
<1>2. /\ \A i : Put(i) # Do(verb) /\ Make(i) # Do(verb)
      /\ Do("policy") = Do(verb) => verb = "policy"
      /\ Do("map") = Do(verb) => verb = "map"
  BY StepsDiffer DEF Verbs
<1>3. /\ g.disk = h.disk /\ g.owns = h.owns /\ g.rule = rule
      /\ g.policy = policy /\ g.material = material
      /\ (Quiet(h) => Quiet(g)) /\ (MaskIsOurs(h, o) => MaskIsOurs(g, x))
  BY DEF Sets, SameDisk, Quiet, MaskIsOurs, Moves, SameOp
<1>4. Do("policy") \in past \cup {Do(verb)} => ~g.policy
  BY <1>2, <1>3 DEF Built
<1>5. IF Do("map") \in past \cup {Do(verb)} THEN g.material => g.rule # "none"
      ELSE ~x.added
  BY <1>2, <1>3 DEF Moves
<1>6. x.added \/ g.owns => g.rule = "ours"
  BY <1>3 DEF Built, Moves
<1> QED BY <1>1, <1>2, <1>3, <1>4, <1>5, <1>6 DEF Built, Moves, SameOp

(* The check and the stop at the end.                                       *)
LEMMA CheckBuilds ==
  ASSUME NEW h, NEW o, NEW past, Proper(h, o), Built(h, o, past),
         NEW verb \in {"preflight", "stop"}, NEW g,
         g = h \/ Masks(h, g, h.mask, "masked", FALSE),
         NEW x, Moves(o, x, o.errors, o.added)
  PROVE  Proper(g, x) /\ Built(g, x, past \cup {Do(verb)})
<1>1. Proper(g, x)
  BY ProperMasks, ProperSame DEF Moves
<1>2. /\ \A i : Put(i) # Do(verb) /\ Make(i) # Do(verb)
      /\ Do("policy") # Do(verb) /\ Do("map") # Do(verb)
  BY StepsDiffer DEF Verbs
<1>3. /\ g.disk = h.disk /\ g.owns = h.owns /\ g.rule = h.rule
      /\ g.policy = h.policy /\ g.material = h.material
      /\ (Quiet(h) => Quiet(g)) /\ (MaskIsOurs(h, o) => MaskIsOurs(g, x))
  BY DEF Masks, SameDisk, Quiet, MaskIsOurs, Moves, SameOp
<1> QED BY <1>1, <1>2, <1>3 DEF Built, Moves, SameOp

-----------------------------------------------------------------------------
(* The steps of a rollback.                                                 *)

(* With an error, nothing is promised but that the service stays stopped.   *)
LEMMA FailedUndoes ==
  ASSUME NEW h, NEW o, NEW past, Undone(h, o, past), NEW step, NEW errors,
         errors \subseteq o.errors \cup {step}, errors # {},
         NEW g, Quiet(g), NEW x, Moves(o, x, errors, o.added)
  PROVE  Undone(g, x, past \cup {step})
BY DEF Undone, Moves, SameOp

(* A rollback removes an item that is there.                                *)
LEMMA DropUndoes ==
  ASSUME NEW h, NEW o, NEW past, Proper(h, o), Undone(h, o, past), o.errors = {},
         NEW item \in Items, Copy(item) \notin past,
         NEW g, Placed(h, g, item, Absent, FALSE) \/ (g = h /\ h.disk[item] = Absent),
         NEW x, Moves(o, x, o.errors, o.added)
  PROVE  Proper(g, x) /\ Undone(g, x, past \cup {Drop(item)})
<1>1. Proper(g, x)
  BY ProperPlaced, ProperSame DEF Moves
<1>2. /\ \A i \in Items : g.disk[i] = IF i = item THEN Absent ELSE h.disk[i]
      /\ SameRest(h, g) /\ (item # "RUNTIME" => g.owns = h.owns)
  BY DEF Placed, SameRest
<1>3. /\ \A v \in {"remap", "repolicy"} : Do(v) # Drop(item)
      /\ \A i : Drop(i) = Drop(item) => i = item
      /\ \A i : Copy(i) # Drop(item)
  BY StepsDiffer DEF Verbs
<1>4. \A i \in Items :
         /\ Copy(i) \in past \cup {Drop(item)} => g.disk[i] = x.before.disk[i]
         /\ Drop(i) \in past \cup {Drop(item)} /\ Copy(i) \notin past \cup {Drop(item)}
              => g.disk[i] = Absent
  BY <1>2, <1>3 DEF Undone, Moves, SameOp
<1>5. /\ Copy("RUNTIME") \in past \cup {Drop(item)} => g.owns = x.before.owns
      /\ Do("remap") \in past \cup {Drop(item)} => g.rule = x.before.rule
      /\ Do("repolicy") \in past \cup {Drop(item)} => g.policy = x.before.policy
  BY <1>2, <1>3 DEF Undone, Moves, SameOp, SameRest
<1>6. /\ x.kind = "install" /\ x.errors \subseteq past \cup {Drop(item)}
      /\ x.troubled /\ Quiet(g)
  BY <1>2 DEF Undone, Moves, SameOp, SameRest, Quiet
<1> QED BY <1>1, <1>4, <1>5, <1>6 DEF Undone

(* A rollback copies back what was there before.                            *)
LEMMA CopyUndoes ==
  ASSUME NEW h, NEW o, NEW past, Proper(h, o), Undone(h, o, past), o.errors = {},
         NEW item \in Items, Copy(item) \notin past, Drop(item) \in past, NEW g,
         \/ Placed(h, g, item, o.before.disk[item], o.before.owns)
         \/ g = h /\ o.before.disk[item] = Absent,
         NEW x, Moves(o, x, o.errors, o.added)
  PROVE  Proper(g, x) /\ Undone(g, x, past \cup {Copy(item)})
<1>0. h.disk[item] = Absent
  BY DEF Undone
<1>1. Proper(g, x)
  <2>1. o.before.owns => h.rule # "admin"
    BY DEF Proper, Undone
  <2> QED BY <2>1, ProperPlaced, ProperSame DEF Moves
<1>2. /\ \A i \in Items : g.disk[i] = IF i = item THEN o.before.disk[item] ELSE h.disk[i]
      /\ SameRest(h, g) /\ (item # "RUNTIME" => g.owns = h.owns)
  BY <1>0 DEF Placed, SameRest
<1>3. item = "RUNTIME" => g.owns = o.before.owns
  <2>1. Absent \notin Release
    BY DeploymentAssumption
  <2>2. /\ o.before.owns => o.before.disk["RUNTIME"] \in Release
        /\ h.owns => h.disk["RUNTIME"] \in Release
        /\ {h.owns, o.before.owns} \subseteq BOOLEAN
    BY DEF Proper, Whole, Hosts, Ops, Befores
  <2>3. CASE Placed(h, g, item, o.before.disk[item], o.before.owns)
    BY <2>2, <2>3 DEF Placed
  <2>4. CASE g = h /\ o.before.disk[item] = Absent
    BY <1>0, <2>1, <2>2, <2>4
  <2> QED BY <2>3, <2>4
<1>4. /\ \A v \in {"remap", "repolicy"} : Do(v) # Copy(item)
      /\ \A i : Copy(i) = Copy(item) => i = item
      /\ \A i : Drop(i) # Copy(item)
  BY StepsDiffer DEF Verbs
<1>5. \A i \in Items :
         /\ Copy(i) \in past \cup {Copy(item)} => g.disk[i] = x.before.disk[i]
         /\ Drop(i) \in past \cup {Copy(item)} /\ Copy(i) \notin past \cup {Copy(item)}
              => g.disk[i] = Absent
  BY <1>2, <1>4 DEF Undone, Moves, SameOp
<1>6. /\ Copy("RUNTIME") \in past \cup {Copy(item)} => g.owns = x.before.owns
      /\ Do("remap") \in past \cup {Copy(item)} => g.rule = x.before.rule
      /\ Do("repolicy") \in past \cup {Copy(item)} => g.policy = x.before.policy
  BY <1>2, <1>3, <1>4 DEF Undone, Moves, SameOp, SameRest
<1>7. /\ x.kind = "install" /\ x.errors \subseteq past \cup {Copy(item)}
      /\ x.troubled /\ Quiet(g)
  BY <1>2 DEF Undone, Moves, SameOp, SameRest, Quiet
<1> QED BY <1>1, <1>5, <1>6, <1>7 DEF Undone

(* A rollback gives back the mapping or the policy module.                  *)
LEMMA SettingUndoes ==
  ASSUME NEW h, NEW o, NEW past, Proper(h, o), Undone(h, o, past), o.errors = {},
         NEW verb \in {"remap", "repolicy"}, NEW g, NEW rule, NEW policy,
         Sets(h, g, rule, policy, h.material),
         rule = IF verb = "remap" THEN o.before.rule ELSE h.rule,
         policy = IF verb = "repolicy" THEN o.before.policy ELSE h.policy,
         NEW x, Moves(o, x, o.errors, o.added)
  PROVE  Proper(g, x) /\ Undone(g, x, past \cup {Do(verb)})
<1>1. Proper(g, x)
  <2>1. /\ h.owns => rule # "admin"
        /\ o.kind # "force" => (o.before.rule = "admin" <=> rule = "admin")
    BY DEF Proper, Undone
  <2> QED BY <2>1, ProperSets DEF Moves
<1>2. /\ \A i : Drop(i) # Do(verb) /\ Copy(i) # Do(verb)
      /\ Do("remap") = Do(verb) => verb = "remap"
      /\ Do("repolicy") = Do(verb) => verb = "repolicy"
  BY StepsDiffer DEF Verbs
<1>3. /\ g.disk = h.disk /\ g.owns = h.owns /\ g.rule = rule /\ g.policy = policy
      /\ Quiet(h) => Quiet(g)
  BY DEF Sets, SameDisk, Quiet
<1> QED BY <1>1, <1>2, <1>3 DEF Undone, Moves, SameOp

(* A rollback stops the service.                                            *)
LEMMA StopUndoes ==
  ASSUME NEW h, NEW o, NEW past, Proper(h, o), Undone(h, o, past), o.errors = {},
         NEW g, Masks(h, g, h.mask, "masked", FALSE),
         NEW x, Moves(o, x, o.errors, o.added)
  PROVE  Proper(g, x) /\ Undone(g, x, past \cup {Do("stop")})
<1>1. Proper(g, x)
  BY ProperMasks DEF Moves
<1>2. /\ \A i : Drop(i) # Do("stop") /\ Copy(i) # Do("stop")
      /\ Do("remap") # Do("stop") /\ Do("repolicy") # Do("stop")
  BY StepsDiffer DEF Verbs
<1>3. /\ g.disk = h.disk /\ g.owns = h.owns /\ g.rule = h.rule
      /\ g.policy = h.policy /\ (Quiet(h) => Quiet(g))
  BY DEF Masks, SameDisk, Quiet
<1> QED BY <1>1, <1>2, <1>3 DEF Undone, Moves, SameOp

-----------------------------------------------------------------------------
(* The removal, step by step.                                               *)

(* What remove() skips for what failed before.                              *)
LEMMA RemovalSkipsWhat ==
  ASSUME NEW o
  PROVE  /\ ~RemovalSkips(Drop("CONFIG"), o) /\ ~RemovalSkips(Drop("DROPIN"), o)
         /\ RemovalSkips(Drop("SUPPORT"), o) <=> Drop("CONFIG") \in o.errors
         /\ RemovalSkips(Drop("RUNTIME"), o) <=>
              o.errors \cap {Drop("DROPIN"), Do("inhibit"), Do("stop"), Do("label")} # {}
         /\ \A item \in Tools : RemovalSkips(Drop(item), o) <=> o.errors # {}
         /\ RemovalSkips(Do("label"), o) <=>
              ~o.owned \/ o.errors \cap {Do("inhibit"), Do("stop")} # {}
         /\ \A verb \in {"inhibit", "stop", "policy", "release"} :
              ~RemovalSkips(Do(verb), o)
<1> DEFINE Since(step) ==
             CASE step = Drop("SUPPORT") -> {Drop("CONFIG")}
               [] step = Do("label") -> {Do("inhibit"), Do("stop")}
               [] step = Drop("RUNTIME") ->
                    {Drop("DROPIN"), Do("inhibit"), Do("stop"), Do("label")}
               [] step[2] \in Tools -> o.errors
               [] OTHER -> {}
<1>1. \A step : RemovalSkips(step, o) <=>
        (step = Do("label") /\ ~o.owned) \/ o.errors \cap Since(step) # {}
  BY DEF RemovalSkips
<1>2. /\ \A item : Drop(item) # Do("label")
      /\ \A a, b : Drop(a) = Drop(b) => a = b
  BY StepsDiffer DEF Verbs
<1>3. /\ \A item : Drop(item)[2] = item /\ \A verb : Do(verb)[2] = "" /\ "" \notin Tools
      /\ {"CONFIG", "DROPIN", "SUPPORT", "RUNTIME"} \cap Tools = {}
  BY Codes DEF Tools
<1>4. \A verb \in {"inhibit", "stop", "policy", "release"} :
        /\ Do(verb) # Do("label") /\ Do(verb) # Drop("SUPPORT")
        /\ Do(verb) # Drop("RUNTIME")
  BY StepsDiffer DEF Verbs
<1>5. /\ Since(Drop("SUPPORT")) = {Drop("CONFIG")}
      /\ Since(Do("label")) = {Do("inhibit"), Do("stop")}
      /\ Since(Drop("RUNTIME")) =
           {Drop("DROPIN"), Do("inhibit"), Do("stop"), Do("label")}
      /\ Since(Drop("CONFIG")) = {} /\ Since(Drop("DROPIN")) = {}
  BY <1>2, <1>3
<1>6. \A item \in Tools : Since(Drop(item)) = o.errors
  BY <1>2, <1>3
<1>7. \A verb \in {"inhibit", "stop", "policy", "release"} : Since(Do(verb)) = {}
  BY <1>3, <1>4
<1> HIDE DEF Since
<1> QED BY <1>1, <1>2, <1>4, <1>5, <1>6, <1>7

(* Where a removal is.                                                      *)
ErasesAt(h, o, k) ==
  /\ o.todo # <<>> /\ Head(o.todo) = RemoveSteps[k] /\ o.phase = "body"
  /\ o.kind = "install" => Nested(o)
  /\ Attempted(o) /\ Erased(h, o, Behind(RemoveSteps, k))
  /\ \A g, x : /\ SameOp(o, x) /\ x.phase = o.phase /\ x.todo = Tail(o.todo)
               /\ Erased(g, x, Behind(RemoveSteps, k) \cup {RemoveSteps[k]})
               => Erasing(g, x, k + 1)

(* The step of a removal that is next.                                      *)
LEMMA ErasingAt ==
  ASSUME NEW h, NEW o, NEW k \in 1..12, Erasing(h, o, k)
  PROVE  ErasesAt(h, o, k)
<1> DEFINE p == IF o.kind = "install" THEN InstallSteps(TRUE) ELSE RemoveSteps
<1>0. /\ RemoveSteps \in Seq(Steps) /\ Len(RemoveSteps) = 12
      /\ InstallSteps(TRUE) \in Seq(Steps) /\ Len(InstallSteps(TRUE)) = 28
      /\ InstallSteps(TRUE)[13] = Do("removed")
      /\ InstallSteps(TRUE)[k] = RemoveSteps[k]
      /\ k \in 1..Len(RemoveSteps) /\ k \in 1..Len(InstallSteps(TRUE))
  <2>1. Len(RemoveSteps) = 12 /\ Len(InstallSteps(TRUE)) = 28
    BY RemoveProgram, InstallProgram, Zenon
  <2>2. k \in 1..12 /\ k \in 1..28
    OBVIOUS
  <2> QED BY <2>1, <2>2, RemoveProgram, InstallProgram, Zenon
<1>1. p \in Seq(Steps) /\ k \in 1..Len(p) /\ p[k] = RemoveSteps[k]
  BY <1>0, Zenon
<1>2. o.todo = Rest(p, k) /\ o.phase = "body" /\ Erased(h, o, Behind(RemoveSteps, k))
  BY DEF Erasing
<1>2a. o.kind = "install" => p = InstallSteps(TRUE)
  OBVIOUS
<1>2b. \A x : /\ x.kind = o.kind /\ x.phase = "body" /\ x.todo = Rest(p, k + 1)
              => x.phase = "body" /\ x.todo = IF x.kind = "install"
                                              THEN Rest(InstallSteps(TRUE), k + 1)
                                              ELSE Rest(RemoveSteps, k + 1)
  OBVIOUS
<1> HIDE DEF p
<1>3. /\ Rest(p, k) # <<>> /\ Head(Rest(p, k)) = p[k]
      /\ Tail(Rest(p, k)) = Rest(p, k + 1)
  BY <1>1, RestStep, Zenon
<1>4. Behind(RemoveSteps, k + 1) = Behind(RemoveSteps, k) \cup {RemoveSteps[k]}
  BY <1>0, RestStep, Zenon
<1>5. ASSUME o.kind = "install" PROVE Nested(o)
  <2>1. p \in Seq(Steps) /\ Len(p) = 28 /\ p[13] = Do("removed") /\ Tail(o.todo) = SubSeq(p, k + 1, 28)
    BY <1>2, <1>2a, <1>3, <1>5, InstallProgram DEF Rest
  <2>2. \A i \in (k + 1)..28 : p[i] \in Steps
    <3> TAKE i \in (k + 1)..28
    <3>1. i \in 1..Len(p)
      BY <2>1
    <3> QED BY <3>1, <2>1, ElementOfSeq, Zenon
  <2>3. /\ Len(SubSeq(p, k + 1, 28)) = 28 - (k + 1) + 1
        /\ \A i \in 1..(28 - (k + 1) + 1) : SubSeq(p, k + 1, 28)[i] = p[(k + 1) + i - 1]
    BY <2>2, SubSeqProperties
  <2>4. 13 - k \in 1..Len(Tail(o.todo)) /\ Tail(o.todo)[13 - k] = Do("removed")
    <3>1. 13 - k \in 1..(28 - (k + 1) + 1) /\ (k + 1) + (13 - k) - 1 = 13
      OBVIOUS
    <3> QED BY <3>1, <2>1, <2>3
  <2>5. In(Do("removed"), Tail(o.todo))
    BY <2>4 DEF In
  <2> QED BY <1>2, <1>5, <2>5 DEF Nested
<1>6. Attempted(o)
  BY <1>5 DEF Attempted
<1>7. ASSUME NEW g, NEW x, SameOp(o, x), x.phase = o.phase, x.todo = Tail(o.todo),
             Erased(g, x, Behind(RemoveSteps, k) \cup {RemoveSteps[k]})
      PROVE  Erasing(g, x, k + 1)
  <2>1. x.kind = o.kind /\ x.phase = "body" /\ x.todo = Rest(p, k + 1)
    BY <1>2, <1>3, <1>7 DEF SameOp
  <2>2. x.phase = "body" /\ x.todo = IF x.kind = "install"
                                     THEN Rest(InstallSteps(TRUE), k + 1)
                                     ELSE Rest(RemoveSteps, k + 1)
    BY <2>1, <1>2b
  <2>3. Erased(g, x, Behind(RemoveSteps, k + 1))
    BY <1>4, <1>7
  <2> QED BY <2>2, <2>3, Zenon DEF Erasing
<1> QED BY <1>1, <1>2, <1>3, <1>5, <1>6, <1>7, Zenon DEF ErasesAt

(* The steps of a removal are passed in their order.                        *)
LEMMA EraseOrder ==
  ASSUME NEW k \in 1..13
  PROVE  \A j \in 1..12 : RemoveSteps[j] \in Behind(RemoveSteps, k) <=> j < k
<1>1. Len(RemoveSteps) = 12 /\ Distinct(RemoveSteps)
  BY RemoveProgram, RemoveOnce
<1>2. 12 \in Nat /\ k \in 1..(12 + 1)
  OBVIOUS
<1> QED BY <1>1, <1>2, EarlierIsBehind, Zenon

(* What a removal skips.                                                    *)
LEMMA ErasingSkips ==
  ASSUME NEW h, NEW o, NEW k, ErasesAt(h, o, k)
  PROVE  /\ \A item : Skips(Drop(item), o, h) <=>
                        h.disk[item] = Absent \/ RemovalSkips(Drop(item), o)
         /\ \A verb \in {"inhibit", "stop", "policy"} : ~Skips(Do(verb), o, h)
         /\ Skips(Do("label"), o, h) <=> RemovalSkips(Do("label"), o)
         /\ Skips(Do("release"), o, h) <=> h.mask # "ours" \/ o.kind = "install"
<1>1. \A step : Skips(step, o, h) <=>
        \/ step[1] = "drop" /\ h.disk[step[2]] = Absent
        \/ step[1] = "copy" /\ o.before.disk[step[2]] = Absent
        \/ step[1] = "release" /\ (h.mask # "ours" \/ o.kind = "install")
        \/ RemovalSkips(step, o)
  BY Zenon DEF Skips, ErasesAt, Nested
<1>2. \A verb \in {"inhibit", "stop", "policy", "release"} : ~RemovalSkips(Do(verb), o)
  BY RemovalSkipsWhat
<1>3. /\ "drop" # "copy" /\ "drop" # "release"
      /\ \A verb \in {"inhibit", "stop", "policy", "label"} :
           verb # "drop" /\ verb # "copy" /\ verb # "release"
      /\ "release" # "drop" /\ "release" # "copy"
  OBVIOUS
<1>4. ASSUME NEW item
      PROVE  Skips(Drop(item), o, h) <=>
               h.disk[item] = Absent \/ RemovalSkips(Drop(item), o)
  <2>1. Drop(item)[1] = "drop" /\ Drop(item)[2] = item
    BY Codes
  <2> QED BY <1>1, <1>3, <2>1, Zenon
<1>5. ASSUME NEW verb \in {"inhibit", "stop", "policy", "label"}
      PROVE  Skips(Do(verb), o, h) <=> RemovalSkips(Do(verb), o)
  <2>1. Do(verb)[1] = verb
    BY Codes
  <2> QED BY <1>1, <1>3, <2>1, Zenon
<1>6. Skips(Do("release"), o, h) <=> h.mask # "ours" \/ o.kind = "install"
  <2>1. Do("release")[1] = "release"
    BY Codes
  <2> QED BY <1>1, <1>2, <1>3, <2>1, Zenon
<1> QED BY <1>2, <1>4, <1>5, <1>6, Zenon

(* A step of a removal is skipped.                                          *)
LEMMA EraseSkips ==
  ASSUME NEW h, NEW o, Proper(h, o), NEW k \in 1..12, Erasing(h, o, k),
         Skips(RemoveSteps[k], o, h), NEW x, Moves(o, x, o.errors, o.added)
  PROVE  Proper(h, x) /\ Erasing(h, x, k + 1)
<1> DEFINE past == Behind(RemoveSteps, k)
<1>1. ErasesAt(h, o, k)
  BY ErasingAt
<1>2. Erased(h, o, past)
  BY <1>1 DEF ErasesAt
<1>3. /\ Proper(h, x)
      /\ SameOp(o, x) /\ x.phase = o.phase /\ x.todo = Tail(o.todo)
  BY ProperSame DEF Moves
<1>4. SUFFICES Erased(h, x, past \cup {RemoveSteps[k]})
  BY <1>1, <1>3, Zenon DEF ErasesAt
<1>5. \A j \in 1..12 : RemoveSteps[j] \in past <=> j < k
  BY EraseOrder
<1> HIDE DEF past
<1>6. ASSUME NEW item \in Items, RemoveSteps[k] = Drop(item)
      PROVE  Erased(h, x, past \cup {RemoveSteps[k]})
  <2>1. h.disk[item] = Absent \/ RemovalSkips(Drop(item), o)
    BY <1>1, <1>6, ErasingSkips
  <2>2. RemovalSkips(Drop(item), o) => o.errors # {} /\ item \notin {"CONFIG", "DROPIN"}
    BY RemovalSkipsWhat DEF Items, Software
  <2> QED BY <1>2, <1>6, <2>1, <2>2, SkippedDropErases
<1>7. CASE k = 7
  <2>1. ~o.owned \/ o.errors # {}
    BY <1>1, <1>7, RemoveProgram, ErasingSkips, RemovalSkipsWhat
  <2> QED BY <1>2, <1>7, <2>1, RemoveProgram, SkippedLabelErases
<1>8. CASE k = 9
  <2>1. o.kind = "install" \/ h.mask # "ours"
    BY <1>1, <1>8, RemoveProgram, ErasingSkips
  <2>2. Do("release") \notin past
    BY <1>5, <1>8, RemoveProgram
  <2> QED BY <1>2, <1>8, <2>1, <2>2, RemoveProgram, SkippedReleaseErases
<1>9. CASE k \in {3, 4, 5}
  BY <1>1, <1>9, RemoveProgram, ErasingSkips
<1>10. CASE k \in {1, 2, 6, 8, 10, 11, 12}
  <2>1. \E item \in Items : RemoveSteps[k] = Drop(item)
    BY <1>10, RemoveProgram DEF Items, Software, Tools
  <2> QED BY <1>6, <2>1
<1> QED BY <1>7, <1>8, <1>9, <1>10

(* A step of a removal passes.                                              *)
LEMMA ErasePasses ==
  ASSUME NEW h, NEW o, Proper(h, o), NEW k \in 1..12, Erasing(h, o, k),
         ~Skips(RemoveSteps[k], o, h), Can(RemoveSteps[k], o, h),
         NEW x, Moves(o, x, o.errors, o.added)
  PROVE  /\ Proper(Done(RemoveSteps[k], o, h), x)
         /\ Erasing(Done(RemoveSteps[k], o, h), x, k + 1)
<1> DEFINE past == Behind(RemoveSteps, k)
           g == Done(RemoveSteps[k], o, h)
<1>0. h \in Hosts /\ o \in Ops
  BY DEF Proper
<1>1. ErasesAt(h, o, k)
  BY ErasingAt
<1>2. Erased(h, o, past)
  BY <1>1 DEF ErasesAt
<1>3. SameOp(o, x) /\ x.phase = o.phase /\ x.todo = Tail(o.todo)
  BY DEF Moves
<1>4. SUFFICES Proper(g, x) /\ Erased(g, x, past \cup {RemoveSteps[k]})
  BY <1>1, <1>3, Zenon DEF ErasesAt
<1>5. \A j \in 1..12 : RemoveSteps[j] \in past <=> j < k
  BY EraseOrder
<1>5a. g = Done(RemoveSteps[k], o, h)
  OBVIOUS
<1> HIDE DEF past, g
<1>6. ASSUME NEW item \in Items, RemoveSteps[k] = Drop(item)
      PROVE  Proper(g, x) /\ Erased(g, x, past \cup {RemoveSteps[k]})
  <2>1. item = "FORCE" => o.errors = {}
    BY <1>1, <1>6, ErasingSkips, RemovalSkipsWhat DEF Tools
  <2>2. Placed(h, g, item, Absent, FALSE)
    BY <1>0, <1>5a, <1>6, DonePlaces
  <2> QED BY <1>2, <1>6, <2>1, <2>2, DropErases
<1>7. CASE k \in {1, 2, 6, 8, 10, 11, 12}
  <2>1. \E item \in Items : RemoveSteps[k] = Drop(item)
    BY <1>7, RemoveProgram DEF Items, Software, Tools
  <2> QED BY <1>6, <2>1
<1>8. CASE k \in {3, 4}
  <2>1. Do("release") \notin past
    BY <1>5, <1>8, RemoveProgram
  <2>2. CASE k = 3
    <3>1. Masks(h, g, IF h.mask = "none" THEN "ours" ELSE h.mask, h.loaded, h.running)
      BY <1>0, <1>5a, <2>2, RemoveProgram, DoneMasks
    <3> QED BY <1>2, <2>1, <2>2, <3>1, RemoveProgram, InhibitErases
  <2>3. CASE k = 4
    <3>1. h.mask # "none"
      BY <2>3, RemoveProgram DEF Can
    <3>2. Masks(h, g, h.mask, "masked", FALSE)
      BY <1>0, <1>5a, <2>3, <3>1, RemoveProgram, DoneMasks
    <3> QED BY <1>2, <2>1, <2>3, <3>1, <3>2, RemoveProgram, StopErases
  <2> QED BY <1>8, <2>2, <2>3
<1>9. CASE k = 5
  <2>1. Sets(h, g, h.rule, FALSE, h.material)
    BY <1>0, <1>5a, <1>9, RemoveProgram, DoneSets
  <2> QED BY <1>2, <1>9, <2>1, RemoveProgram, PolicyErases
<1>10. CASE k = 7
  <2>1. Sets(h, g, "none", h.policy, h.material)
    BY <1>0, <1>5a, <1>10, RemoveProgram, DoneSets
  <2>2. o.owned
    BY <1>1, <1>10, RemoveProgram, ErasingSkips, RemovalSkipsWhat
  <2> QED BY <1>2, <1>10, <2>1, <2>2, RemoveProgram, LabelErases
<1>11. CASE k = 9
  <2>1. Masks(h, g, "none", "open", h.running)
    BY <1>0, <1>5a, <1>11, RemoveProgram, DoneMasks
  <2>2. o.kind # "install"
    BY <1>1, <1>11, RemoveProgram, ErasingSkips
  <2> QED BY <1>2, <1>11, <2>1, <2>2, RemoveProgram, ReleaseErases
<1> QED BY <1>7, <1>8, <1>9, <1>10, <1>11

(* A step of a removal fails, or a check in it does.                        *)
LEMMA EraseFails ==
  ASSUME NEW h, NEW o, Proper(h, o), NEW k \in 1..12, Erasing(h, o, k), o.troubled,
         ~Skips(RemoveSteps[k], o, h), NEW g,
         \/ g \in Partly(RemoveSteps[k], o, h)
         \/ g = Done(RemoveSteps[k], o, h) /\ ~Can(RemoveSteps[k], o, h),
         NEW x, Moves(o, x, o.errors \cup {RemoveSteps[k]}, o.added)
  PROVE  Proper(g, x) /\ Erasing(g, x, k + 1)
<1> DEFINE past == Behind(RemoveSteps, k)
<1>0. h \in Hosts /\ o \in Ops
  BY DEF Proper
<1>1. ErasesAt(h, o, k)
  BY ErasingAt
<1>2. Erased(h, o, past)
  BY <1>1 DEF ErasesAt
<1>3. SameOp(o, x) /\ x.phase = o.phase /\ x.todo = Tail(o.todo)
  BY DEF Moves
<1>4. SUFFICES Proper(g, x) /\ Erased(g, x, past \cup {RemoveSteps[k]})
  BY <1>1, <1>3, Zenon DEF ErasesAt
<1>5. \A j \in 1..12 : RemoveSteps[j] \in past <=> j < k
  BY EraseOrder
<1>6. Drop("FORCE") \notin past
  BY <1>5, RemoveProgram
<1> HIDE DEF past
<1>7. ASSUME NEW item \in Items, RemoveSteps[k] = Drop(item)
      PROVE  Proper(g, x) /\ Erased(g, x, past \cup {RemoveSteps[k]})
  <2>1. \A verb \in {"stop", "removed", "preflight"} : Drop(item) # Do(verb)
    BY StepsDiffer DEF Verbs
  <2>2. g \in Partly(Drop(item), o, h)
    BY <1>7, <2>1 DEF Can
  <2> QED BY <1>2, <1>6, <1>7, <2>2, FailedDropErases
<1>8. CASE k \in {1, 2, 6, 8, 10, 11, 12}
  <2>1. \E item \in Items : RemoveSteps[k] = Drop(item)
    BY <1>8, RemoveProgram DEF Items, Software, Tools
  <2> QED BY <1>7, <2>1
<1>9. ASSUME NEW verb \in Verbs, RemoveSteps[k] = Do(verb), k \in {3, 4, 5, 7, 9},
             Proper(g, x), SameDisk(h, g), ~o.owned => g.rule = h.rule,
             o.kind = "install" => Quiet(g),
             verb # "release" => /\ h.mask # "none" => g.mask # "none"
                                 /\ Quiet(h) => Quiet(g)
      PROVE  Proper(g, x) /\ Erased(g, x, past \cup {RemoveSteps[k]})
  <2>1. Do("release") \notin past
    BY <1>5, <1>9, RemoveProgram
  <2>2. Moves(o, x, o.errors \cup {Do(verb)}, o.added)
    BY <1>9
  <2>3. Erased(g, x, past \cup {Do(verb)})
    BY <1>2, <1>6, <1>9, <2>1, <2>2, FailedSettingErases
  <2> QED BY <1>9, <2>3
<1>10. o.kind = "install" => Quiet(h)
  BY <1>2 DEF Erased
<1>11. ASSUME g = h, NEW verb \in Verbs, RemoveSteps[k] = Do(verb), k \in {3, 4, 5, 7, 9}
       PROVE  Proper(g, x) /\ Erased(g, x, past \cup {RemoveSteps[k]})
  <2>1. Proper(g, x) /\ SameDisk(h, g)
    BY <1>3, <1>11, ProperSame DEF SameDisk
  <2> QED BY <1>9, <1>10, <1>11, <2>1
<1>12. CASE k = 3
  <2>1. RemoveSteps[k] = Do("inhibit") /\ "inhibit" \in Verbs
    BY <1>12, RemoveProgram DEF Verbs
  <2>2. Do("inhibit") # Do("stop") /\ Do("inhibit") # Do("removed")
        /\ Do("inhibit") # Do("preflight")
    BY StepsDiffer DEF Verbs
  <2>3. g \in Partly(Do("inhibit"), o, h)
    BY <2>1, <2>2 DEF Can
  <2>4. CASE Masks(h, g, IF h.mask = "none" THEN "other" ELSE h.mask,
                   h.loaded, h.running)
    <3>1. Proper(g, x)
      BY <1>3, <2>4, ProperMasks
    <3>2. /\ SameDisk(h, g) /\ g.rule = h.rule
          /\ (h.mask # "none" => g.mask # "none") /\ (Quiet(h) => Quiet(g))
      BY <2>4 DEF Masks, Quiet
    <3> QED BY <1>9, <1>10, <1>12, <2>1, <3>1, <3>2
  <2> QED BY <1>0, <1>11, <1>12, <2>1, <2>3, <2>4, PartlyMasks
<1>13. CASE k = 4
  <2>1. RemoveSteps[k] = Do("stop") /\ "stop" \in Verbs
    BY <1>13, RemoveProgram DEF Verbs
  <2>2. CASE g \in Partly(Do("stop"), o, h) /\ g # h
    <3>1. PICK running \in {FALSE, h.running} :
            Masks(h, g, h.mask, IF h.mask = "none" THEN "open" ELSE "masked", running)
      BY <1>0, <2>2, PartlyMasks
    <3>2. Proper(g, x)
      BY <1>3, <3>1, ProperMasks
    <3>3. /\ SameDisk(h, g) /\ g.rule = h.rule
          /\ (h.mask # "none" => g.mask # "none") /\ (Quiet(h) => Quiet(g))
      BY <3>1 DEF Masks, Quiet
    <3> QED BY <1>9, <1>10, <1>13, <2>1, <3>2, <3>3
  <2>3. CASE g = Done(Do("stop"), o, h)
    <3>1. Masks(h, g, h.mask, IF h.mask = "none" THEN "open" ELSE "masked", FALSE)
      BY <1>0, <2>3, DoneMasks
    <3>2. Proper(g, x)
      BY <1>3, <3>1, ProperMasks
    <3>3. /\ SameDisk(h, g) /\ g.rule = h.rule
          /\ (h.mask # "none" => g.mask # "none") /\ (Quiet(h) => Quiet(g))
      BY <3>1 DEF Masks, Quiet
    <3> QED BY <1>9, <1>10, <1>13, <2>1, <3>2, <3>3
  <2> QED BY <1>11, <1>13, <2>1, <2>2, <2>3
<1>14. CASE k \in {5, 7}
  <2>1. PICK verb \in {"policy", "label"} : RemoveSteps[k] = Do(verb)
    BY <1>14, RemoveProgram
  <2>2. /\ verb \in Verbs /\ verb \in Verbs \ {"inhibit", "stop", "release"}
        /\ Do(verb) # Do("stop") /\ Do(verb) # Do("removed")
        /\ Do(verb) # Do("preflight")
    BY StepsDiffer DEF Verbs
  <2>3. g \in Partly(Do(verb), o, h)
    BY <2>1, <2>2 DEF Can
  <2>4. g = h \/ g = Done(Do(verb), o, h)
    BY <2>2, <2>3, PartlyRest
  <2>5. verb = "label" => o.owned
    BY <1>1, <2>1, ErasingSkips, RemovalSkipsWhat
  <2>6. CASE g = Done(Do(verb), o, h)
    <3>1. PICK rule, policy : /\ Sets(h, g, rule, policy, h.material)
                              /\ rule = h.rule \/ (verb = "label" /\ rule = "none")
      <4>1. CASE verb = "policy"
        BY <1>0, <2>6, <4>1, DoneSets
      <4>2. CASE verb = "label"
        BY <1>0, <2>6, <4>2, DoneSets
      <4> QED BY <4>1, <4>2
    <3>2. /\ h.owns => rule # "admin"
          /\ o.kind # "force" => (o.before.rule = "admin" <=> rule = "admin")
      BY <1>2, <2>5, <3>1 DEF Proper, Erased
    <3>3. Proper(g, x)
      BY <1>3, <3>1, <3>2, ProperSets
    <3>4. /\ SameDisk(h, g) /\ (~o.owned => g.rule = h.rule)
          /\ (h.mask # "none" => g.mask # "none") /\ (Quiet(h) => Quiet(g))
      BY <2>5, <3>1 DEF Sets, Quiet
    <3> QED BY <1>9, <1>10, <1>14, <2>1, <2>2, <3>3, <3>4
  <2> QED BY <1>11, <1>14, <2>1, <2>2, <2>4, <2>6
<1>15. CASE k = 9
  <2>1. RemoveSteps[k] = Do("release") /\ "release" \in Verbs
    BY <1>15, RemoveProgram DEF Verbs
  <2>2. Do("release") # Do("stop") /\ Do("release") # Do("removed")
        /\ Do("release") # Do("preflight")
    BY StepsDiffer DEF Verbs
  <2>3. g \in Partly(Do("release"), o, h)
    BY <2>1, <2>2 DEF Can
  <2>4. o.kind # "install"
    BY <1>1, <2>1, ErasingSkips
  <2>5. CASE Masks(h, g, "none", h.loaded, h.running)
    <3>1. Proper(g, x)
      BY <1>3, <2>5, ProperMasks
    <3>2. SameDisk(h, g) /\ g.rule = h.rule
      BY <2>5 DEF Masks
    <3> QED BY <1>9, <1>15, <2>1, <2>4, <3>1, <3>2
  <2> QED BY <1>0, <1>11, <1>15, <2>1, <2>3, <2>5, PartlyMasks
<1> QED BY <1>8, <1>12, <1>13, <1>14, <1>15

-----------------------------------------------------------------------------
(* The way into an installation, step by step.                              *)

(* Before the end of its program, an operation is at one of its steps.      *)
LEMMA AtStep ==
  ASSUME NEW p \in Seq(Steps), NEW n \in Nat, Len(p) = n, NEW k \in 1..n
  PROVE  /\ Rest(p, k) # <<>> /\ Head(Rest(p, k)) = p[k]
         /\ Tail(Rest(p, k)) = Rest(p, k + 1)
         /\ Behind(p, k + 1) = Behind(p, k) \cup {p[k]}
<1>1. k \in 1..Len(p)
  OBVIOUS
<1> QED BY <1>1, RestStep, Zenon

EntersAt(h, o, k) ==
  /\ o.todo # <<>> /\ Head(o.todo) = EnterSteps[k] /\ o.phase = "enter"
  /\ Entered(h, o, Behind(EnterSteps, k))
  /\ \A g, x : /\ x.phase = o.phase /\ x.todo = Tail(o.todo)
               /\ Entered(g, x, Behind(EnterSteps, k) \cup {EnterSteps[k]})
               => Entering(g, x, k + 1)

(* The step that is next before lifecycle().                                *)
LEMMA EnteringAt ==
  ASSUME NEW h, NEW o, NEW k \in 1..3, Entering(h, o, k)
  PROVE  EntersAt(h, o, k)
<1>1. o.todo = Rest(EnterSteps, k) /\ EnterSteps \in Seq(Steps)
      /\ Len(EnterSteps) = 3 /\ 3 \in Nat
  BY EnterProgram DEF Entering
<1>2. /\ Rest(EnterSteps, k) # <<>> /\ Head(Rest(EnterSteps, k)) = EnterSteps[k]
      /\ Tail(Rest(EnterSteps, k)) = Rest(EnterSteps, k + 1)
      /\ Behind(EnterSteps, k + 1) = Behind(EnterSteps, k) \cup {EnterSteps[k]}
  BY <1>1, AtStep, Zenon
<1> QED BY <1>1, <1>2, Zenon DEF EntersAt, Entering

(* Outside of a removal and a rollback nothing is skipped but what is not   *)
(* there, and the release of another's mask.                                *)
LEMMA NothingSkipped ==
  ASSUME NEW h, NEW o, ~Nested(o), o.kind = "install", o.phase \in {"enter", "body"}
  PROVE  /\ \A item : ~Skips(Make(item), o, h) /\ ~Skips(Put(item), o, h)
         /\ \A verb \in Verbs \ {"release"} : ~Skips(Do(verb), o, h)
<1>1. \A step : Skips(step, o, h) =>
                  step[1] = "drop" \/ step[1] = "copy" \/ step[1] = "release"
  BY Zenon DEF Skips
<1>2. /\ "make" # "drop" /\ "make" # "copy" /\ "make" # "release"
      /\ "put" # "drop" /\ "put" # "copy" /\ "put" # "release"
      /\ \A verb \in Verbs \ {"release"} :
           verb # "drop" /\ verb # "copy" /\ verb # "release"
  BY DEF Verbs
<1>3. \A item : Make(item)[1] = "make" /\ Put(item)[1] = "put"
  BY Codes
<1>4. \A verb : Do(verb)[1] = verb
  BY Codes
<1> QED BY <1>1, <1>2, <1>3, <1>4, Zenon

(* Those steps are passed in their order.                                   *)
LEMMA EnterOrder ==
  ASSUME NEW k \in 1..4
  PROVE  \A j \in 1..3 : EnterSteps[j] \in Behind(EnterSteps, k) <=> j < k
<1>1. Len(EnterSteps) = 3 /\ Distinct(EnterSteps)
  BY EnterProgram, EnterOnce
<1>2. 3 \in Nat /\ k \in 1..(3 + 1)
  OBVIOUS
<1> QED BY <1>1, <1>2, EarlierIsBehind, Zenon

(* A step of it passes, and a check in it does not fail.                    *)
LEMMA EnterPasses ==
  ASSUME NEW h, NEW o, Proper(h, o), NEW k \in 1..3, Entering(h, o, k)
  PROVE  /\ ~Skips(EnterSteps[k], o, h) /\ Can(EnterSteps[k], o, h)
         /\ \A x : Moves(o, x, o.errors, o.added) =>
              /\ Proper(Done(EnterSteps[k], o, h), x)
              /\ Entering(Done(EnterSteps[k], o, h), x, k + 1)
<1> DEFINE past == Behind(EnterSteps, k)
<1>0. h \in Hosts /\ o \in Ops
  BY DEF Proper
<1>1. EntersAt(h, o, k)
  BY EnteringAt
<1>2. Entered(h, o, past) /\ o.phase = "enter" /\ o.kind = "install"
  BY <1>1 DEF EntersAt, Entered
<1>3. PICK verb \in {"inhibit", "stop", "snapshot"} : EnterSteps[k] = Do(verb)
  BY EnterProgram
<1>4. ~Nested(o)
  BY <1>2 DEF Nested
<1>5. ~Skips(EnterSteps[k], o, h)
  <2>1. verb \in Verbs \ {"release"}
    BY DEF Verbs
  <2> QED BY <1>2, <1>3, <1>4, <2>1, NothingSkipped, Zenon
<1>6. \A j \in 1..3 : EnterSteps[j] \in past <=> j < k
  BY EnterOrder
<1> HIDE DEF past
<1>7. verb = "stop" => h.mask # "none"
  <2> SUFFICES ASSUME verb = "stop" PROVE h.mask # "none"
    OBVIOUS
  <2>1. k = 2
    <3>1. Do("inhibit") # Do("stop") /\ Do("snapshot") # Do("stop")
      BY StepsDiffer
    <3> QED BY <3>1, <1>3, EnterProgram
  <2>2. Do("inhibit") \in past
    BY <2>1, <1>6, EnterProgram
  <2> QED BY <2>2, <1>2 DEF Entered
<1>8. Can(EnterSteps[k], o, h)
  <2>1. /\ EnterSteps[k] = Do("stop") => verb = "stop"
        /\ EnterSteps[k] # Do("removed") /\ EnterSteps[k] # Do("preflight")
    BY <1>3, StepsDiffer
  <2> QED BY <1>7, <2>1 DEF Can
<1>9. ASSUME NEW x, Moves(o, x, o.errors, o.added)
      PROVE  /\ Proper(Done(EnterSteps[k], o, h), x)
             /\ Entering(Done(EnterSteps[k], o, h), x, k + 1)
  <2> DEFINE g == Done(EnterSteps[k], o, h)
  <2>0. g = Done(Do(verb), o, h)
    BY <1>3
  <2> HIDE DEF g
  <2>1. PICK mask, loaded, running :
          /\ Masks(h, g, mask, loaded, running) /\ MaskIsOurs(g, o)
          /\ h.mask # "none" \/ verb = "inhibit" => mask # "none"
          /\ Quiet(h) \/ verb = "stop" => mask # "none" /\ loaded = "masked" /\ ~running
    <3>1. MaskIsOurs(h, o)
      BY <1>2 DEF Entered
    <3>2. CASE verb = "inhibit"
      <4>1. Masks(h, g, IF h.mask = "none" THEN "ours" ELSE h.mask,
                  h.loaded, h.running)
        BY <1>0, <2>0, <3>2, DoneMasks
      <4>2. MaskIsOurs(g, o)
        BY <3>1, <4>1 DEF MaskIsOurs, Masks
      <4> QED BY <3>2, <4>1, <4>2 DEF Quiet
    <3>3. CASE verb = "stop"
      <4>1. Masks(h, g, h.mask, "masked", FALSE)
        BY <1>0, <1>7, <2>0, <3>3, DoneMasks
      <4>2. MaskIsOurs(g, o)
        BY <3>1, <4>1 DEF MaskIsOurs, Masks
      <4> QED BY <1>7, <3>3, <4>1, <4>2
    <3>4. CASE verb = "snapshot"
      <4>1. g = h
        BY <1>0, <2>0, <3>4, DoneMasks
      <4>2. Masks(h, g, h.mask, h.loaded, h.running)
        BY <1>0, <4>1 DEF Masks, SameDisk
      <4> QED BY <3>1, <3>4, <4>1, <4>2 DEF Quiet
    <3> QED BY <3>2, <3>3, <3>4
  <2>2. Proper(g, x) /\ Entered(g, x, past \cup {Do(verb)})
    BY <1>2, <1>9, <2>1, MaskEnters
  <2>3. x.phase = o.phase /\ x.todo = Tail(o.todo)
    BY <1>9 DEF Moves
  <2>4. Entering(g, x, k + 1)
    BY <1>1, <1>3, <2>2, <2>3, Zenon DEF EntersAt, past
  <2> QED BY <2>2, <2>4 DEF g
<1> QED BY <1>5, <1>8, <1>9

(* What a step of it leaves when it fails or is interrupted.                *)
LEMMA EnterLeaves ==
  ASSUME NEW h, NEW o, Proper(h, o), NEW k \in 1..3, Entering(h, o, k),
         NEW g, g = h \/ g \in Partly(EnterSteps[k], o, h)
  PROVE  Proper(g, o) /\ AsBefore(g, o.before)
<1>0. h \in Hosts /\ o \in Ops
  BY DEF Proper
<1>1. AsBefore(h, o.before)
  BY DEF Entering, Entered
<1>2. g = h \/ \E mask, loaded, running : Masks(h, g, mask, loaded, running)
  <2>1. PICK verb \in {"inhibit", "stop", "snapshot"} : EnterSteps[k] = Do(verb)
    BY EnterProgram
  <2>2. CASE g \in Partly(Do("inhibit"), o, h)
    BY <1>0, <2>2, PartlyMasks
  <2>3. CASE g \in Partly(Do("stop"), o, h)
    BY <1>0, <2>3, PartlyMasks
  <2>4. CASE g \in Partly(Do("snapshot"), o, h)
    <3>1. g = h \/ g = Done(Do("snapshot"), o, h)
      BY <2>4, PartlyRest DEF Verbs
    <3> QED BY <1>0, <3>1, DoneMasks
  <2> QED BY <2>1, <2>2, <2>3, <2>4
<1>3. SameOp(o, o)
  BY <1>0 DEF SameOp
<1>4. CASE g = h
  BY <1>1, <1>4
<1>5. CASE \E mask, loaded, running : Masks(h, g, mask, loaded, running)
  <2>1. PICK mask, loaded, running : Masks(h, g, mask, loaded, running)
    BY <1>5
  <2>2. Proper(g, o)
    BY <1>3, <2>1, ProperMasks
  <2>3. AsBefore(g, o.before)
    BY <1>1, <2>1 DEF AsBefore, Masks, SameDisk
  <2> QED BY <2>2, <2>3
<1> QED BY <1>2, <1>4, <1>5

-----------------------------------------------------------------------------
(* The installation, step by step.                                          *)

(* The steps of an installation are passed in their order.                  *)
LEMMA BuildOrder ==
  ASSUME NEW k \in 1..16
  PROVE  \A j \in 1..15 : BuildSteps[j] \in Behind(BuildSteps, k) <=> j < k
<1>1. Len(BuildSteps) = 15 /\ Distinct(BuildSteps)
  BY BuildProgram, BuildOnce
<1>2. 15 \in Nat /\ k \in 1..(15 + 1)
  OBVIOUS
<1> QED BY <1>1, <1>2, EarlierIsBehind, Zenon

(* What is left of an installation has no check of a removal in it.         *)
LEMMA BuildIsNoRemoval ==
  ASSUME NEW k \in 1..16
  PROVE  ~In(Do("removed"), Rest(BuildSteps, k))
<1> DEFINE p == BuildSteps
<1>1. p \in Seq(Steps) /\ Len(p) = 15
  BY BuildProgram
<1>2. \A i \in 1..15 : p[i] # Do("removed")
  <2>1. \A i \in 1..15 : \/ \E item : p[i] = Make(item) \/ p[i] = Put(item)
                         \/ \E verb \in {"policy", "import", "map", "preflight", "stop"} :
                              p[i] = Do(verb)
    BY BuildProgram
  <2>2. \A item : Make(item) # Do("removed") /\ Put(item) # Do("removed")
    BY StepsDiffer DEF Verbs
  <2>3. \A verb \in {"policy", "import", "map", "preflight", "stop"} :
          Do(verb) # Do("removed")
    BY StepsDiffer
  <2> QED BY <2>1, <2>2, <2>3, Zenon
<1> HIDE DEF p
<1>3. \A i \in k..15 : p[i] \in Steps
  <2> TAKE i \in k..15
  <2>1. i \in 1..Len(p)
    BY <1>1
  <2> QED BY <2>1, <1>1, ElementOfSeq, Zenon
<1>4. /\ Len(SubSeq(p, k, 15)) = IF k <= 15 THEN 15 - k + 1 ELSE 0
      /\ \A i \in 1..(15 - k + 1) : SubSeq(p, k, 15)[i] = p[k + i - 1]
  BY <1>3, SubSeqProperties
<1>5. ASSUME NEW i \in 1..Len(SubSeq(p, k, 15))
      PROVE  SubSeq(p, k, 15)[i] # Do("removed")
  <2>1. i \in 1..(15 - k + 1) /\ k + i - 1 \in 1..15
    BY <1>4
  <2>2. SubSeq(p, k, 15)[i] = p[k + i - 1]
    BY <1>4, <2>1
  <2> QED BY <1>2, <2>1, <2>2
<1>6. Rest(p, k) = SubSeq(p, k, 15)
  BY <1>1 DEF Rest
<1> QED BY <1>5, <1>6, Zenon DEF In, p

BuildsAt(h, o, k) ==
  /\ o.todo # <<>> /\ Head(o.todo) = BuildSteps[k] /\ o.phase = "body"
  /\ o.kind = "install" /\ ~Nested(o)
  /\ Built(h, o, Behind(BuildSteps, k))
  /\ \A g, x : /\ x.phase = o.phase /\ x.todo = Tail(o.todo)
               /\ Built(g, x, Behind(BuildSteps, k) \cup {BuildSteps[k]})
               => Building(g, x, k + 1)

(* The step of an installation that is next.                                *)
LEMMA BuildingAt ==
  ASSUME NEW h, NEW o, NEW k \in 1..15, Building(h, o, k)
  PROVE  BuildsAt(h, o, k)
<1>1. o.todo = Rest(BuildSteps, k) /\ BuildSteps \in Seq(Steps)
      /\ Len(BuildSteps) = 15 /\ 15 \in Nat
  BY BuildProgram DEF Building
<1>2. /\ Rest(BuildSteps, k) # <<>> /\ Head(Rest(BuildSteps, k)) = BuildSteps[k]
      /\ Tail(Rest(BuildSteps, k)) = Rest(BuildSteps, k + 1)
      /\ Behind(BuildSteps, k + 1) = Behind(BuildSteps, k) \cup {BuildSteps[k]}
  BY <1>1, AtStep, Zenon
<1>3. ~In(Do("removed"), Rest(BuildSteps, k + 1))
  <2>1. k + 1 \in 1..16
    OBVIOUS
  <2> QED BY <2>1, BuildIsNoRemoval, Zenon
<1>4. ~Nested(o)
  BY <1>1, <1>2, <1>3, Zenon DEF Nested
<1>5. o.phase = "body" /\ Built(h, o, Behind(BuildSteps, k)) /\ o.kind = "install"
  BY Zenon DEF Building, Built
<1> QED BY <1>1, <1>2, <1>4, <1>5, Zenon DEF BuildsAt, Building

(* The check that the removal succeeded, and the empty host it finds.       *)
LEMMA RemovedAt ==
  ASSUME NEW h, NEW o, Proper(h, o), o.kind = "install", Erasing(h, o, 13)
  PROVE  /\ o.todo # <<>> /\ Head(o.todo) = Do("removed") /\ o.phase = "body"
         /\ ~Nested(o) /\ ~Skips(Do("removed"), o, h)
         /\ Can(Do("removed"), o, h) <=> o.errors = {}
         /\ Done(Do("removed"), o, h) = h
         /\ Erased(h, o, Behind(RemoveSteps, 13))
         /\ \A x : Moves(o, x, o.errors, o.added) /\ o.errors = {} =>
              Proper(h, x) /\ Building(h, x, 1)
<1>0. h \in Hosts /\ o \in Ops
  BY DEF Proper
<1>1. o.todo = Rest(InstallSteps(TRUE), 13) /\ InstallSteps(TRUE) \in Seq(Steps)
      /\ Len(InstallSteps(TRUE)) = 28 /\ InstallSteps(TRUE)[13] = Do("removed")
      /\ Rest(InstallSteps(TRUE), 14) = BuildSteps
      /\ o.phase = "body" /\ Erased(h, o, Behind(RemoveSteps, 13))
  BY InstallProgram, Zenon DEF Erasing
<1>2. 28 \in Nat /\ 13 \in 1..28 /\ 13 + 1 = 14 /\ 1 \in 1..16 /\ 13 \in 1..13
  OBVIOUS
<1>3. /\ o.todo # <<>> /\ Head(o.todo) = Do("removed") /\ Tail(o.todo) = BuildSteps
  <2>1. /\ Rest(InstallSteps(TRUE), 13) # <<>>
        /\ Head(Rest(InstallSteps(TRUE), 13)) = InstallSteps(TRUE)[13]
        /\ Tail(Rest(InstallSteps(TRUE), 13)) = Rest(InstallSteps(TRUE), 13 + 1)
    BY <1>1, <1>2, AtStep, Zenon
  <2>2. Tail(Rest(InstallSteps(TRUE), 13)) = BuildSteps
    BY <1>1, <1>2, <2>1, Zenon
  <2> QED BY <1>1, <2>1, <2>2, Zenon
<1>4. Rest(BuildSteps, 1) = BuildSteps /\ Behind(BuildSteps, 1) = {}
  BY BuildProgram, RestEnd, Zenon
<1>5. ~Nested(o)
  BY <1>2, <1>3, <1>4, BuildIsNoRemoval, Zenon DEF Nested
<1>6. ~Skips(Do("removed"), o, h)
  <2>1. "removed" \in Verbs \ {"release"} /\ o.phase \in {"enter", "body"}
    BY <1>1 DEF Verbs
  <2> QED BY <1>5, <2>1, NothingSkipped, Zenon
<1>7. Can(Do("removed"), o, h) <=> o.errors = {}
  <2>1. Do("removed") # Do("stop") /\ Do("removed") # Do("preflight")
    BY StepsDiffer
  <2> QED BY <2>1, Zenon DEF Can
<1>8. Done(Do("removed"), o, h) = h
  BY <1>0, DoneMasks
<1>9. ASSUME NEW x, Moves(o, x, o.errors, o.added), o.errors = {}
      PROVE  Proper(h, x) /\ Building(h, x, 1)
  <2>1. Proper(h, x)
    BY <1>9, ProperSame DEF Moves
  <2>2. \A item \in Items : h.disk[item] = Absent
    <3>1. \A j \in 1..12 : RemoveSteps[j] \in Behind(RemoveSteps, 13)
      BY EraseOrder
    <3>2. \A item \in Items : Drop(item) \in Behind(RemoveSteps, 13)
      BY <3>1, RemoveProgram DEF Items, Software, Tools
    <3> QED BY <1>1, <1>9, <3>2 DEF Erased
  <2>3. "RUNTIME" \in Items /\ Absent \notin Release
    BY DeploymentAssumption DEF Items, Software
  <2>4. ~h.owns
    BY <2>2, <2>3 DEF Proper, Whole
  <2>5. /\ x.kind = "install" /\ x.errors = {} /\ Quiet(h) /\ MaskIsOurs(h, x) /\ ~x.added
    BY <1>1, <1>9 DEF Erased, Moves, SameOp, MaskIsOurs
  <2>6. Built(h, x, {})
    BY <2>2, <2>4, <2>5 DEF Built
  <2>7. x.phase = "body" /\ x.todo = BuildSteps
    BY <1>1, <1>3, <1>9 DEF Moves
  <2> QED BY <1>4, <2>1, <2>6, <2>7, Zenon DEF Building
<1> QED BY <1>1, <1>3, <1>5, <1>6, <1>7, <1>8, <1>9

(* A step of it passes, and no check fails.                                 *)
LEMMA BuildPasses ==
  ASSUME NEW h, NEW o, Proper(h, o), NEW k \in 1..15, Building(h, o, k)
  PROVE  /\ ~Skips(BuildSteps[k], o, h) /\ Can(BuildSteps[k], o, h)
         /\ \A x : Moves(o, x, o.errors,
                         o.added \/ (BuildSteps[k] = Do("map") /\ h.material
                                     /\ h.rule = "none")) =>
              /\ Proper(Done(BuildSteps[k], o, h), x)
              /\ Building(Done(BuildSteps[k], o, h), x, k + 1)
<1> DEFINE past == Behind(BuildSteps, k)
<1>0. h \in Hosts /\ o \in Ops
  BY DEF Proper
<1>1. BuildsAt(h, o, k)
  BY BuildingAt
<1>2. Built(h, o, past) /\ o.phase \in {"enter", "body"} /\ o.kind = "install" /\ ~Nested(o)
  BY <1>1 DEF BuildsAt
<1>3. \A j \in 1..15 : BuildSteps[j] \in past <=> j < k
  BY BuildOrder
<1> HIDE DEF past
<1>4. k \in {1, 2, 3, 4, 5, 6, 7, 8, 9, 10, 11, 12, 13, 14, 15}
  OBVIOUS
<1>5. \/ \E item \in Items : BuildSteps[k] = Make(item) \/ BuildSteps[k] = Put(item)
      \/ k \in {5, 6, 7, 14, 15}
  BY <1>4, BuildProgram DEF Items, Software, Tools
<1>6. ~Skips(BuildSteps[k], o, h)
  <2>1. k \in {5, 6, 7, 14, 15} => \E verb \in Verbs \ {"release"} : BuildSteps[k] = Do(verb)
    BY BuildProgram DEF Verbs
  <2> QED BY <1>2, <1>5, <2>1, NothingSkipped, Zenon
<1>7. k = 14 => Preflight(h)
  <2> SUFFICES ASSUME k = 14 PROVE Preflight(h)
    OBVIOUS
  <2>1. \A item \in Items : h.disk[item] = o.rel
    <3>1. \A item \in Items : Put(item) \in past
      BY <1>3, BuildProgram DEF Items, Software, Tools
    <3> QED BY <1>2, <3>1 DEF Built
  <2>2. /\ {"CONFIG", "DROPIN", "SUPPORT", "RUNTIME", "RECOVERY", "NORMAL", "FORCE"}
             \subseteq Items
        /\ Tools \subseteq Items /\ o.rel \in Release
    BY <1>2 DEF Items, Software, Tools, Proper
  <2>3. o.rel # Absent
    BY <2>2, DeploymentAssumption
  <2> QED BY <2>1, <2>2, <2>3 DEF Preflight, Present, Whole
<1>8. Can(BuildSteps[k], o, h)
  <2>1. h.mask # "none"
    BY <1>2 DEF Built, Quiet
  <2>2. BuildSteps[k] # Do("removed")
    <3>1. \A item : Make(item) # Do("removed") /\ Put(item) # Do("removed")
      BY StepsDiffer DEF Verbs
    <3>2. \A verb \in {"policy", "import", "map", "preflight", "stop"} :
            Do(verb) # Do("removed")
      BY StepsDiffer
    <3>3. k \in {5, 6, 7, 14, 15} =>
            \E verb \in {"policy", "import", "map", "preflight", "stop"} :
              BuildSteps[k] = Do(verb)
      BY BuildProgram
    <3> QED BY <1>5, <3>1, <3>2, <3>3, Zenon
  <2>3. BuildSteps[k] = Do("preflight") => k = 14
    <3>1. 14 \in 1..Len(BuildSteps) /\ k \in 1..Len(BuildSteps)
      BY BuildProgram
    <3> QED BY <3>1, BuildProgram, BuildOnce, Zenon DEF Distinct
  <2> QED BY <1>7, <2>1, <2>2, <2>3, Zenon DEF Can
<1>9. ASSUME NEW x, Moves(o, x, o.errors,
                          o.added \/ (BuildSteps[k] = Do("map") /\ h.material
                                      /\ h.rule = "none"))
      PROVE  /\ Proper(Done(BuildSteps[k], o, h), x)
             /\ Building(Done(BuildSteps[k], o, h), x, k + 1)
  <2> DEFINE g == Done(BuildSteps[k], o, h)
             added == o.added \/ (BuildSteps[k] = Do("map") /\ h.material
                                  /\ h.rule = "none")
  <2>1. /\ Do("policy") # Do("map") /\ Do("import") # Do("map")
        /\ Do("preflight") # Do("map") /\ Do("stop") # Do("map")
        /\ \A item : Make(item) # Do("map") /\ Put(item) # Do("map")
    BY StepsDiffer DEF Verbs
  <2>2. /\ g = Done(BuildSteps[k], o, h)
        /\ Moves(o, x, o.errors, added) /\ o.added \in BOOLEAN
        /\ BuildSteps[k] # Do("map") => added = o.added
    BY <1>0, <1>9 DEF Ops
  <2>2a. BuildSteps[k] = Do("map") => (added <=> o.added \/ (h.material /\ h.rule = "none"))
    OBVIOUS
  <2> HIDE DEF g, added
  <2>3. x.phase = o.phase /\ x.todo = Tail(o.todo)
    BY <2>2 DEF Moves
  <2>4. SUFFICES Proper(g, x) /\ Built(g, x, past \cup {BuildSteps[k]})
    BY <1>1, <2>3, Zenon DEF BuildsAt, past, g
  <2>5. ASSUME NEW item \in Items, BuildSteps[k] = Make(item), Put(item) \notin past
        PROVE  Proper(g, x) /\ Built(g, x, past \cup {BuildSteps[k]})
    <3>1. Placed(h, g, item, Part, FALSE)
      BY <1>0, <2>2, <2>5, DonePlaces
    <3>2. Moves(o, x, o.errors, o.added)
      BY <2>1, <2>2, <2>5
    <3> QED BY <1>2, <2>5, <3>1, <3>2, MakeBuilds
  <2>6. ASSUME NEW item \in Items, BuildSteps[k] = Put(item)
        PROVE  Proper(g, x) /\ Built(g, x, past \cup {BuildSteps[k]})
    <3>1. Placed(h, g, item, o.rel, o.added)
      BY <1>0, <2>2, <2>6, DonePlaces
    <3>2. Moves(o, x, o.errors, o.added)
      BY <2>1, <2>2, <2>6
    <3> QED BY <1>2, <2>6, <3>1, <3>2, PutBuilds
  <2>7. CASE k \in {1, 8, 11}
    <3>1. \E item \in Items : BuildSteps[k] = Make(item) /\ Put(item) \notin past
      <4>1. {"RECOVERY", "RUNTIME", "SUPPORT"} \subseteq Items
        BY DEF Items, Software, Tools
      <4> QED BY <1>3, <2>7, <4>1, BuildProgram
    <3> QED BY <2>5, <3>1
  <2>8. CASE k \in {2, 3, 4, 9, 10, 12, 13}
    <3>1. \E item \in Items : BuildSteps[k] = Put(item)
      BY <2>8, BuildProgram DEF Items, Software, Tools
    <3> QED BY <2>6, <3>1
  <2>9. CASE k \in {5, 6, 7}
    <3>1. Do("map") \notin past
      BY <1>3, <2>9, BuildProgram
    <3>2. ~o.added
      BY <1>2, <3>1 DEF Built
    <3>3. CASE k = 5
      <4>1. Sets(h, g, h.rule, FALSE, h.material)
        BY <1>0, <2>2, <3>3, BuildProgram, DoneSets
      <4>2. ~added
        BY <2>1, <2>2, <3>2, <3>3, BuildProgram
      <4>3. Proper(g, x) /\ Built(g, x, past \cup {Do("policy")})
        BY <1>2, <2>2, <3>1, <4>1, <4>2, SettingBuilds
      <4> QED BY <3>3, <4>3, BuildProgram
    <3>4. CASE k = 6
      <4>1. Sets(h, g, h.rule, h.policy, h.material \/ o.import)
        BY <1>0, <2>2, <3>4, BuildProgram, DoneSets
      <4>2. ~added
        BY <2>1, <2>2, <3>2, <3>4, BuildProgram
      <4>3. Proper(g, x) /\ Built(g, x, past \cup {Do("import")})
        BY <1>2, <2>2, <3>1, <4>1, <4>2, SettingBuilds
      <4> QED BY <3>4, <4>3, BuildProgram
    <3>5. CASE k = 7
      <4> DEFINE rule == IF h.material /\ h.rule = "none" THEN "ours" ELSE h.rule
      <4>0. BuildSteps[k] = Do("map")
        BY <3>5, BuildProgram
      <4>1. Sets(h, g, rule, h.policy, h.material)
        BY <1>0, <2>2, <4>0, DoneSets
      <4>2. added <=> h.material /\ h.rule = "none"
        BY <2>2a, <3>2, <4>0
      <4>3. /\ rule = h.rule \/ (h.rule = "none" /\ rule = "ours")
            /\ h.material => rule # "none"
            /\ added => rule = "ours"
        BY <4>2
      <4> HIDE DEF rule
      <4>4. Proper(g, x) /\ Built(g, x, past \cup {Do("map")})
        BY <1>2, <2>2, <3>1, <4>1, <4>3, SettingBuilds
      <4> QED BY <4>0, <4>4
    <3> QED BY <2>9, <3>3, <3>4, <3>5
  <2>10. CASE k = 14
    <3>1. g = h
      BY <1>0, <2>2, <2>10, BuildProgram, DoneMasks
    <3>2. Moves(o, x, o.errors, o.added)
      BY <2>1, <2>2, <2>10, BuildProgram
    <3>3. Proper(g, x) /\ Built(g, x, past \cup {Do("preflight")})
      BY <1>2, <3>1, <3>2, CheckBuilds
    <3> QED BY <2>10, <3>3, BuildProgram
  <2>11. CASE k = 15
    <3>1. Masks(h, g, h.mask, "masked", FALSE)
      <4>1. h.mask # "none"
        BY <1>2 DEF Built, Quiet
      <4> QED BY <1>0, <2>2, <2>11, <4>1, BuildProgram, DoneMasks
    <3>2. Moves(o, x, o.errors, o.added)
      BY <2>1, <2>2, <2>11, BuildProgram
    <3>3. Proper(g, x) /\ Built(g, x, past \cup {Do("stop")})
      BY <1>2, <3>1, <3>2, CheckBuilds
    <3> QED BY <2>11, <3>3, BuildProgram
  <2> QED BY <1>4, <2>7, <2>8, <2>9, <2>10, <2>11
<1> QED BY <1>6, <1>8, <1>9

(* What a step of an installation leaves when it fails or is interrupted.   *)
LEMMA BuildLeaves ==
  ASSUME NEW h, NEW o, Proper(h, o), NEW k \in 1..15, Building(h, o, k),
         NEW g, g = h \/ g \in Partly(BuildSteps[k], o, h), NEW x, SameOp(o, x)
  PROVE  Proper(g, x) /\ Quiet(g)
<1>0. h \in Hosts /\ o \in Ops
  BY DEF Proper
<1>1. Built(h, o, Behind(BuildSteps, k)) /\ Quiet(h)
  BY DEF Building, Built
<1>2. CASE g = h
  BY <1>1, <1>2, ProperSame
<1>3. ASSUME NEW item \in Items,
             BuildSteps[k] = Make(item) \/ BuildSteps[k] = Put(item), g # h
      PROVE  Proper(g, x) /\ Quiet(g)
  <2>1. BuildSteps[k] = Put(item) /\ Placed(h, g, item, o.rel, o.added)
    BY <1>0, <1>3, PartlyPlaces
  <2>2. o.added => h.rule # "admin"
    BY <1>1 DEF Built
  <2>3. Proper(g, x)
    BY <2>1, <2>2, ProperPlaced
  <2>4. Quiet(g)
    BY <1>1, <2>1 DEF Placed, SameRest, Quiet
  <2> QED BY <2>3, <2>4
<1>4. ASSUME NEW verb \in {"policy", "import", "map"}, BuildSteps[k] = Do(verb), g # h
      PROVE  Proper(g, x) /\ Quiet(g)
  <2>1. verb \in Verbs \ {"inhibit", "stop", "release"}
    BY DEF Verbs
  <2>2. g = Done(Do(verb), o, h)
    BY <1>4, <2>1, PartlyRest
  <2>3. PICK rule, policy, material :
          /\ Sets(h, g, rule, policy, material)
          /\ rule = h.rule \/ (h.rule = "none" /\ rule = "ours")
    <3>1. CASE verb = "policy"
      BY <1>0, <2>2, <3>1, DoneSets
    <3>2. CASE verb = "import"
      BY <1>0, <2>2, <3>2, DoneSets
    <3>3. CASE verb = "map"
      <4> DEFINE rule == IF h.material /\ h.rule = "none" THEN "ours" ELSE h.rule
      <4>1. Sets(h, g, rule, h.policy, h.material)
        BY <1>0, <2>2, <3>3, DoneSets
      <4>2. rule = h.rule \/ (h.rule = "none" /\ rule = "ours")
        OBVIOUS
      <4> HIDE DEF rule
      <4> QED BY <4>1, <4>2
    <3> QED BY <3>1, <3>2, <3>3
  <2>4. Proper(g, x)
    <3>1. /\ h.owns => rule # "admin"
          /\ o.kind # "force" => (o.before.rule = "admin" <=> rule = "admin")
      BY <2>3 DEF Proper
    <3> QED BY <2>3, <3>1, ProperSets
  <2>5. Quiet(g)
    BY <1>1, <2>3 DEF Sets, Quiet
  <2> QED BY <2>4, <2>5
<1>5. CASE k = 14
  <2>1. g = h \/ g = Done(Do("preflight"), o, h)
    BY <1>5, BuildProgram, PartlyRest DEF Verbs
  <2> QED BY <1>0, <1>2, <2>1, DoneMasks
<1>6. CASE k = 15 /\ g # h
  <2>1. PICK running \in {FALSE, h.running} :
          Masks(h, g, h.mask, IF h.mask = "none" THEN "open" ELSE "masked", running)
    BY <1>0, <1>6, BuildProgram, PartlyMasks
  <2>2. Proper(g, x)
    BY <2>1, ProperMasks
  <2>3. Quiet(g)
    BY <1>1, <2>1 DEF Masks, Quiet
  <2> QED BY <2>2, <2>3
<1>7. CASE k \in {5, 6, 7} /\ g # h
  <2>1. \E verb \in {"policy", "import", "map"} : BuildSteps[k] = Do(verb)
    BY <1>7, BuildProgram
  <2> QED BY <1>4, <1>7, <2>1
<1>8. CASE k \in {1, 2, 3, 4, 8, 9, 10, 11, 12, 13} /\ g # h
  <2>1. \E item \in Items : BuildSteps[k] = Make(item) \/ BuildSteps[k] = Put(item)
    BY <1>8, BuildProgram DEF Items, Software, Tools
  <2> QED BY <1>3, <1>8, <2>1
<1> QED BY <1>2, <1>5, <1>6, <1>7, <1>8

-----------------------------------------------------------------------------
(* The rollback, step by step.                                              *)

(* The steps of a rollback are passed in their order.                       *)
LEMMA UndoOrder ==
  ASSUME NEW k \in 1..18
  PROVE  \A j \in 1..17 : RollbackSteps[j] \in Behind(RollbackSteps, k) <=> j < k
<1>1. Len(RollbackSteps) = 17 /\ Distinct(RollbackSteps)
  BY RollbackProgram, RollbackOnce
<1>2. 17 \in Nat /\ k \in 1..(17 + 1)
  OBVIOUS
<1> QED BY <1>1, <1>2, EarlierIsBehind, Zenon

UndoesAt(h, o, k) ==
  /\ o.todo # <<>> /\ Head(o.todo) = RollbackSteps[k] /\ o.phase = "rollback"
  /\ Undone(h, o, Behind(RollbackSteps, k))
  /\ \A g, x : /\ x.phase = o.phase /\ x.todo = Tail(o.todo)
               /\ Undone(g, x, Behind(RollbackSteps, k) \cup {RollbackSteps[k]})
               => Undoing(g, x, k + 1)

(* The step of a rollback that is next.                                     *)
LEMMA UndoingAt ==
  ASSUME NEW h, NEW o, NEW k \in 1..17, Undoing(h, o, k)
  PROVE  UndoesAt(h, o, k)
<1>1. o.todo = Rest(RollbackSteps, k) /\ RollbackSteps \in Seq(Steps)
      /\ Len(RollbackSteps) = 17 /\ 17 \in Nat
  BY RollbackProgram DEF Undoing
<1>2. /\ Rest(RollbackSteps, k) # <<>>
      /\ Head(Rest(RollbackSteps, k)) = RollbackSteps[k]
      /\ Tail(Rest(RollbackSteps, k)) = Rest(RollbackSteps, k + 1)
      /\ Behind(RollbackSteps, k + 1) = Behind(RollbackSteps, k) \cup {RollbackSteps[k]}
  BY <1>1, AtStep, Zenon
<1> QED BY <1>1, <1>2, Zenon DEF UndoesAt, Undoing

(* The steps of a rollback by what they are about.                          *)
LEMMA UndoKinds ==
  ASSUME NEW k \in 1..17
  PROVE  LET past == Behind(RollbackSteps, k)
         IN \/ k = 1 /\ RollbackSteps[k] = Do("stop")
            \/ \E item \in Items : RollbackSteps[k] = Drop(item) /\ Copy(item) \notin past
            \/ \E item \in Items : /\ RollbackSteps[k] = Copy(item)
                                   /\ Copy(item) \notin past /\ Drop(item) \in past
            \/ \E verb \in {"remap", "repolicy"} : RollbackSteps[k] = Do(verb)
<1> DEFINE past == Behind(RollbackSteps, k)
<1>1. \A j \in 1..17 : RollbackSteps[j] \in past <=> j < k
  BY UndoOrder
<1> HIDE DEF past
<1>2. k \in {2, 3, 4, 5, 12, 14, 16} =>
        \E item \in Items : RollbackSteps[k] = Drop(item) /\ Copy(item) \notin past
  <2>1. {"CONFIG", "DROPIN", "SUPPORT", "RUNTIME", "RECOVERY", "NORMAL", "FORCE"}
          \subseteq Items
    BY DEF Items, Software, Tools
  <2> QED BY <1>1, <2>1, RollbackProgram
<1>3. k \in {6, 7, 8, 9, 13, 15, 17} =>
        \E item \in Items : /\ RollbackSteps[k] = Copy(item)
                            /\ Copy(item) \notin past /\ Drop(item) \in past
  <2>1. {"CONFIG", "DROPIN", "SUPPORT", "RUNTIME", "RECOVERY", "NORMAL", "FORCE"}
          \subseteq Items
    BY DEF Items, Software, Tools
  <2> QED BY <1>1, <2>1, RollbackProgram
<1>4. k \in {10, 11} => \E verb \in {"remap", "repolicy"} : RollbackSteps[k] = Do(verb)
  BY RollbackProgram
<1>5. k = 1 => RollbackSteps[k] = Do("stop")
  BY RollbackProgram
<1> QED BY <1>2, <1>3, <1>4, <1>5 DEF past

(* The rule that is put back.                                               *)
LEMMA RemapRestores ==
  ASSUME NEW h, NEW o, Proper(h, o), o.kind = "install"
  PROVE  (IF o.before.rule = "none" \/ h.rule = "none" THEN o.before.rule ELSE h.rule)
           = o.before.rule
<1>1. /\ h.rule \in {"none", "admin", "ours"} /\ o.before.rule \in {"none", "admin", "ours"}
      /\ (o.before.rule = "admin" <=> h.rule = "admin")
  BY DEF Proper, Hosts, Ops, Befores
<1> QED BY <1>1

(* Whatever a step of a rollback does, the service stays stopped.           *)
LEMMA UndoLeaves ==
  ASSUME NEW h, NEW o, Proper(h, o), NEW k \in 1..17, Undoing(h, o, k), NEW g,
         \/ g = h \/ g \in Partly(RollbackSteps[k], o, h)
         \/ g = Done(RollbackSteps[k], o, h),
         NEW x, SameOp(o, x)
  PROVE  Proper(g, x) /\ Quiet(g)
<1>0. h \in Hosts /\ o \in Ops
  BY DEF Proper
<1>1. Quiet(h) /\ o.kind = "install"
  BY DEF Undoing, Undone
<1>2. CASE g = h
  BY <1>1, <1>2, ProperSame
<1>3. ASSUME NEW item \in Items,
             RollbackSteps[k] = Drop(item) \/ RollbackSteps[k] = Copy(item), g # h
      PROVE  Proper(g, x) /\ Quiet(g)
  <2>1. PICK content, owned :
          /\ Placed(h, g, item, content, owned)
          /\ owned => o.before.owns
    <3>1. \/ Placed(h, g, item, Part, FALSE) \/ Placed(h, g, item, Absent, FALSE)
          \/ Placed(h, g, item, o.before.disk[item], o.before.owns)
      BY <1>0, <1>3, PartlyPlaces, DonePlaces
    <3>2. CASE Placed(h, g, item, Part, FALSE)
      BY <3>2
    <3>3. CASE Placed(h, g, item, Absent, FALSE)
      BY <3>3
    <3>4. CASE Placed(h, g, item, o.before.disk[item], o.before.owns)
      BY <3>4
    <3> QED BY <3>1, <3>2, <3>3, <3>4
  <2>2. owned => h.rule # "admin"
    BY <1>1, <2>1 DEF Proper
  <2>3. Proper(g, x)
    BY <2>1, <2>2, ProperPlaced
  <2>4. Quiet(g)
    BY <1>1, <2>1 DEF Placed, SameRest, Quiet
  <2> QED BY <2>3, <2>4
<1>4. CASE RollbackSteps[k] = Do("stop") /\ g # h
  <2>1. PICK running \in {FALSE, h.running} :
          Masks(h, g, h.mask, IF h.mask = "none" THEN "open" ELSE "masked", running)
    <3>1. CASE g \in Partly(Do("stop"), o, h)
      BY <1>0, <1>4, <3>1, PartlyMasks
    <3>2. CASE g = Done(Do("stop"), o, h)
      <4>1. Masks(h, g, h.mask, IF h.mask = "none" THEN "open" ELSE "masked", FALSE)
        BY <1>0, <3>2, DoneMasks
      <4> QED BY <4>1
    <3> QED BY <1>4, <3>1, <3>2
  <2>2. Proper(g, x)
    BY <2>1, ProperMasks
  <2>3. Quiet(g)
    BY <1>1, <2>1 DEF Masks, Quiet
  <2> QED BY <2>2, <2>3
<1>5. ASSUME NEW verb \in {"remap", "repolicy"}, RollbackSteps[k] = Do(verb), g # h
      PROVE  Proper(g, x) /\ Quiet(g)
  <2>1. verb \in Verbs \ {"inhibit", "stop", "release"}
    BY DEF Verbs
  <2>2. g = Done(Do(verb), o, h)
    BY <1>5, <2>1, PartlyRest
  <2>3. PICK rule, policy : /\ Sets(h, g, rule, policy, h.material)
                            /\ rule = h.rule \/ rule = o.before.rule
    <3>1. CASE verb = "repolicy"
      BY <1>0, <2>2, <3>1, DoneSets
    <3>2. CASE verb = "remap"
      <4>1. Sets(h, g, IF o.before.rule = "none" \/ h.rule = "none"
                       THEN o.before.rule ELSE h.rule, h.policy, h.material)
        BY <1>0, <2>2, <3>2, DoneSets
      <4>2. Sets(h, g, o.before.rule, h.policy, h.material)
        BY <1>1, <4>1, RemapRestores
      <4> QED BY <4>2
    <3> QED BY <3>1, <3>2
  <2>4. Proper(g, x)
    <3>1. /\ h.owns => rule # "admin"
          /\ o.kind # "force" => (o.before.rule = "admin" <=> rule = "admin")
      BY <1>1, <2>3 DEF Proper
    <3> QED BY <2>3, <3>1, ProperSets
  <2>5. Quiet(g)
    BY <1>1, <2>3 DEF Sets, Quiet
  <2> QED BY <2>4, <2>5
<1> QED BY <1>2, <1>3, <1>4, <1>5, UndoKinds

(* Without an error, a rollback skips what there is not.                    *)
LEMMA UndoingSkips ==
  ASSUME NEW h, NEW o, o.phase = "rollback", o.errors = {}
  PROVE  /\ \A item : Skips(Drop(item), o, h) => h.disk[item] = Absent
         /\ \A item : Skips(Copy(item), o, h) => o.before.disk[item] = Absent
         /\ \A verb \in {"stop", "remap", "repolicy"} : ~Skips(Do(verb), o, h)
<1>1. \A step : ~RollbackSkips(step, o)
  BY DEF RollbackSkips
<1>2. \A step : Skips(step, o, h) =>
        \/ step[1] = "drop" /\ h.disk[step[2]] = Absent
        \/ step[1] = "copy" /\ o.before.disk[step[2]] = Absent
        \/ step[1] = "release"
  BY <1>1, Zenon DEF Skips
<1>3. /\ "drop" # "copy" /\ "drop" # "release" /\ "copy" # "drop" /\ "copy" # "release"
      /\ \A verb \in {"stop", "remap", "repolicy"} :
           verb # "drop" /\ verb # "copy" /\ verb # "release"
  OBVIOUS
<1>4. ASSUME NEW item, Skips(Drop(item), o, h) PROVE h.disk[item] = Absent
  <2>1. Drop(item)[1] = "drop" /\ Drop(item)[2] = item
    BY Codes
  <2> QED BY <1>2, <1>3, <1>4, <2>1, Zenon
<1>5. ASSUME NEW item, Skips(Copy(item), o, h) PROVE o.before.disk[item] = Absent
  <2>1. Copy(item)[1] = "copy" /\ Copy(item)[2] = item
    BY Codes
  <2> QED BY <1>2, <1>3, <1>5, <2>1, Zenon
<1>6. ASSUME NEW verb \in {"stop", "remap", "repolicy"} PROVE ~Skips(Do(verb), o, h)
  <2>1. Do(verb)[1] = verb
    BY Codes
  <2> QED BY <1>2, <1>3, <2>1, Zenon
<1> QED BY <1>4, <1>5, <1>6

(* A step of a rollback is skipped, or passes, or fails; a check does not.  *)
LEMMA UndoMoves ==
  ASSUME NEW h, NEW o, Proper(h, o), NEW k \in 1..17, Undoing(h, o, k)
  PROVE  /\ Can(RollbackSteps[k], o, h)
         /\ \A g, x :
              /\ \/ /\ Moves(o, x, o.errors, o.added)
                    /\ IF Skips(RollbackSteps[k], o, h) THEN g = h
                       ELSE g = Done(RollbackSteps[k], o, h)
                 \/ /\ Moves(o, x, o.errors \cup {RollbackSteps[k]}, o.added)
                    /\ g \in Partly(RollbackSteps[k], o, h)
              => Proper(g, x) /\ Undoing(g, x, k + 1)
<1> DEFINE past == Behind(RollbackSteps, k)
<1>0. h \in Hosts /\ o \in Ops
  BY DEF Proper
<1>1. UndoesAt(h, o, k)
  BY UndoingAt
<1>2. Undone(h, o, past) /\ Quiet(h) /\ o.kind = "install" /\ o.phase = "rollback"
  BY <1>1 DEF UndoesAt, Undone
<1>3. /\ RollbackSteps[k] # Do("removed") /\ RollbackSteps[k] # Do("preflight")
      /\ h.mask # "none"
  <2>1. \A item : /\ Drop(item) # Do("removed") /\ Copy(item) # Do("removed")
                  /\ Drop(item) # Do("preflight") /\ Copy(item) # Do("preflight")
    BY StepsDiffer DEF Verbs
  <2>2. \A verb \in {"stop", "remap", "repolicy"} :
          Do(verb) # Do("removed") /\ Do(verb) # Do("preflight")
    BY StepsDiffer
  <2>3. h.mask # "none"
    BY <1>2 DEF Quiet
  <2> QED BY <2>1, <2>2, <2>3, UndoKinds
<1>4. Can(RollbackSteps[k], o, h)
  BY <1>3 DEF Can
<1>5. ASSUME NEW g, NEW x, Moves(o, x, o.errors, o.added),
             IF Skips(RollbackSteps[k], o, h) THEN g = h
             ELSE g = Done(RollbackSteps[k], o, h)
      PROVE  Proper(g, x) /\ Undoing(g, x, k + 1)
  <2>1. SameOp(o, x) /\ x.phase = o.phase /\ x.todo = Tail(o.todo)
    BY <1>5 DEF Moves
  <2>2. g = h \/ g = Done(RollbackSteps[k], o, h)
    BY <1>5, Zenon
  <2>3. Proper(g, x) /\ Quiet(g)
    BY <2>1, <2>2, UndoLeaves
  <2>4. SUFFICES Undone(g, x, past \cup {RollbackSteps[k]})
    BY <1>1, <2>1, <2>3, Zenon DEF UndoesAt
  <2> HIDE DEF past
  <2>5. CASE o.errors # {}
    <3>1. o.errors \subseteq o.errors \cup {RollbackSteps[k]}
      OBVIOUS
    <3> QED BY <1>2, <1>5, <2>3, <2>5, <3>1, FailedUndoes, Zenon
  <2>6. CASE o.errors = {}
    <3>1. /\ \A item : Skips(Drop(item), o, h) => h.disk[item] = Absent
          /\ \A item : Skips(Copy(item), o, h) => o.before.disk[item] = Absent
          /\ \A verb \in {"stop", "remap", "repolicy"} : ~Skips(Do(verb), o, h)
      BY <1>2, <2>6, UndoingSkips
    <3>2. CASE RollbackSteps[k] = Do("stop")
      <4>1. g = Done(Do("stop"), o, h)
        BY <1>5, <3>1, <3>2, Zenon
      <4>2. Masks(h, g, h.mask, "masked", FALSE)
        BY <1>0, <1>3, <4>1, DoneMasks
      <4>3. Undone(g, x, past \cup {Do("stop")})
        BY <1>2, <1>5, <2>6, <4>2, StopUndoes, Zenon
      <4> QED BY <3>2, <4>3
    <3>3. ASSUME NEW item \in Items, RollbackSteps[k] = Drop(item), Copy(item) \notin past
          PROVE  Undone(g, x, past \cup {RollbackSteps[k]})
      <4>1. Placed(h, g, item, Absent, FALSE) \/ (g = h /\ h.disk[item] = Absent)
        <5>1. Placed(h, Done(Drop(item), o, h), item, Absent, FALSE)
          BY <1>0, DonePlaces, Zenon
        <5> QED BY <1>5, <3>1, <3>3, <5>1, Zenon
      <4>2. Undone(g, x, past \cup {Drop(item)})
        BY <1>2, <1>5, <2>6, <3>3, <4>1, DropUndoes, Zenon
      <4> QED BY <3>3, <4>2
    <3>4. ASSUME NEW item \in Items, RollbackSteps[k] = Copy(item),
                 Copy(item) \notin past, Drop(item) \in past
          PROVE  Undone(g, x, past \cup {RollbackSteps[k]})
      <4>1. \/ Placed(h, g, item, o.before.disk[item], o.before.owns)
            \/ g = h /\ o.before.disk[item] = Absent
        <5>1. Placed(h, Done(Copy(item), o, h), item, o.before.disk[item], o.before.owns)
          BY <1>0, DonePlaces, Zenon
        <5> QED BY <1>5, <3>1, <3>4, <5>1, Zenon
      <4>2. Undone(g, x, past \cup {Copy(item)})
        BY <1>2, <1>5, <2>6, <3>4, <4>1, CopyUndoes, Zenon
      <4> QED BY <3>4, <4>2
    <3>5. ASSUME NEW verb \in {"remap", "repolicy"}, RollbackSteps[k] = Do(verb)
          PROVE  Undone(g, x, past \cup {RollbackSteps[k]})
      <4>1. g = Done(Do(verb), o, h)
        BY <1>5, <3>1, <3>5, Zenon
      <4>2. PICK rule, policy :
              /\ Sets(h, g, rule, policy, h.material)
              /\ rule = IF verb = "remap" THEN o.before.rule ELSE h.rule
              /\ policy = IF verb = "repolicy" THEN o.before.policy ELSE h.policy
        <5>1. CASE verb = "repolicy"
          <6>1. Sets(h, g, h.rule, o.before.policy, h.material)
            BY <1>0, <4>1, <5>1, DoneSets
          <6> QED BY <5>1, <6>1
        <5>2. CASE verb = "remap"
          <6>1. Sets(h, g, IF o.before.rule = "none" \/ h.rule = "none"
                           THEN o.before.rule ELSE h.rule, h.policy, h.material)
            BY <1>0, <4>1, <5>2, DoneSets
          <6>2. Sets(h, g, o.before.rule, h.policy, h.material)
            BY <1>2, <6>1, RemapRestores
          <6> QED BY <5>2, <6>2
        <5> QED BY <5>1, <5>2
      <4>3. Undone(g, x, past \cup {Do(verb)})
        BY <1>2, <1>5, <2>6, <4>2, SettingUndoes
      <4> QED BY <3>5, <4>3
    <3> QED BY <3>2, <3>3, <3>4, <3>5, UndoKinds, Zenon DEF past
  <2> QED BY <2>5, <2>6
<1>6. ASSUME NEW g, NEW x, Moves(o, x, o.errors \cup {RollbackSteps[k]}, o.added),
             g \in Partly(RollbackSteps[k], o, h)
      PROVE  Proper(g, x) /\ Undoing(g, x, k + 1)
  <2>1. SameOp(o, x) /\ x.phase = o.phase /\ x.todo = Tail(o.todo)
    BY <1>6 DEF Moves
  <2>2. Proper(g, x) /\ Quiet(g)
    BY <1>6, <2>1, UndoLeaves
  <2> DEFINE errors == o.errors \cup {RollbackSteps[k]}
  <2>3. errors \subseteq o.errors \cup {RollbackSteps[k]} /\ errors # {}
        /\ Moves(o, x, errors, o.added)
    BY <1>6
  <2> HIDE DEF errors
  <2>4. Undone(g, x, past \cup {RollbackSteps[k]})
    BY <1>2, <2>2, <2>3, FailedUndoes, Zenon
  <2> QED BY <1>1, <2>1, <2>2, <2>4, Zenon DEF UndoesAt
<1> QED BY <1>4, <1>5, <1>6, Zenon

-----------------------------------------------------------------------------
(* The end of a program, and what comes next.                               *)

(* What Ended(), Leaving(), RollingBack() and the entry keep and set.       *)
LEMMA EndedIs ==
  ASSUME NEW o \in Ops, NEW verdict \in Verdicts
  PROVE  LET x == Ended(o, verdict)
         IN SameOp(o, x) /\ x.phase = "ended" /\ x.verdict = verdict
            /\ x.troubled = o.troubled
<1> DEFINE x == Ended(o, verdict)
<1>1. x = [o EXCEPT !.phase = "ended", !.todo = <<>>, !.errors = {}, !.owned = FALSE,
                    !.added = FALSE, !.import = FALSE, !.verdict = verdict]
  BY DEF Ended
<1>2. <<>> \in Seq(Steps)
  OBVIOUS
<1>3. x \in Ops
  BY <1>1, <1>2 DEF Ops
<1>4. /\ x.kind = o.kind /\ x.rel = o.rel /\ x.before = o.before
      /\ x.phase = "ended" /\ x.verdict = verdict /\ x.troubled = o.troubled
  BY <1>1 DEF Ops
<1> QED BY <1>3, <1>4 DEF SameOp

(* What Leaving() changes of an operation.                                  *)
LEMMA LeavingIs ==
  ASSUME NEW o \in Ops, NEW verdict \in Verdicts
  PROVE  LET x == Leaving(o, verdict)
         IN SameOp(o, x) /\ x.phase = "leave" /\ x.todo = LeaveSteps
            /\ x.verdict = verdict /\ x.troubled = o.troubled
<1> DEFINE x == Leaving(o, verdict)
<1>1. x = [o EXCEPT !.phase = "leave", !.todo = LeaveSteps, !.verdict = verdict]
  BY DEF Leaving
<1>2. LeaveSteps \in Seq(Steps)
  BY LeaveProgram
<1>3. x \in Ops
  BY <1>1, <1>2 DEF Ops
<1>4. /\ x.kind = o.kind /\ x.rel = o.rel /\ x.before = o.before
      /\ x.phase = "leave" /\ x.todo = LeaveSteps /\ x.verdict = verdict
      /\ x.troubled = o.troubled
  BY <1>1 DEF Ops
<1> QED BY <1>3, <1>4 DEF SameOp

(* What RollingBack() changes of an operation.                              *)
LEMMA RollingBackIs ==
  ASSUME NEW o \in Ops
  PROVE  LET x == RollingBack(o)
         IN SameOp(o, x) /\ x.phase = "rollback" /\ x.todo = RollbackSteps
            /\ x.errors = {} /\ x.troubled = o.troubled
<1> DEFINE x == RollingBack(o)
<1>1. x = [o EXCEPT !.phase = "rollback", !.todo = RollbackSteps, !.errors = {}]
  BY DEF RollingBack
<1>2. RollbackSteps \in Seq(Steps)
  BY RollbackProgram
<1>3. x \in Ops
  BY <1>1, <1>2 DEF Ops
<1>4. /\ x.kind = o.kind /\ x.rel = o.rel /\ x.before = o.before
      /\ x.phase = "rollback" /\ x.todo = RollbackSteps /\ x.errors = {}
      /\ x.troubled = o.troubled
  BY <1>1 DEF Ops
<1> QED BY <1>3, <1>4 DEF SameOp

(* What Onward() changes of an operation that enters lifecycle().           *)
LEMMA WorkingIs ==
  ASSUME NEW o \in Ops, NEW todo \in Seq(Steps)
  PROVE  LET x == [o EXCEPT !.phase = "body", !.todo = todo]
         IN SameOp(o, x) /\ x.phase = "body" /\ x.todo = todo /\ x.errors = o.errors
            /\ x.added = o.added /\ x.owned = o.owned /\ x.troubled = o.troubled
            /\ x.verdict = o.verdict
<1> DEFINE x == [o EXCEPT !.phase = "body", !.todo = todo]
<1>1. x \in Ops
  BY DEF Ops
<1>2. /\ x.kind = o.kind /\ x.rel = o.rel /\ x.before = o.before
      /\ x.phase = "body" /\ x.todo = todo /\ x.errors = o.errors
      /\ x.added = o.added /\ x.owned = o.owned /\ x.troubled = o.troubled
      /\ x.verdict = o.verdict
  BY DEF Ops
<1> QED BY <1>1, <1>2 DEF SameOp

(* Where an operation is right after a step, before what comes next.        *)
Left(h, o) ==
  o.phase = "leave" /\ o.todo = <<>> /\ MaskIsGone(h, o) /\ Departs(h, o)

Near(h, o) ==
  \/ \E k \in 1..4 : Entering(h, o, k)
  \/ \E k \in 1..13 : Erasing(h, o, k)
  \/ \E k \in 1..16 : Building(h, o, k)
  \/ \E k \in 1..18 : Undoing(h, o, k)
  \/ Left(h, o)

(* An installation that starts finds what it needs to remove, or nothing.   *)
LEMMA EnteredGoes ==
  ASSUME NEW h, NEW o, Proper(h, o), Entering(h, o, 4)
  PROVE  Proper(h, Onward(o)) /\ Going(h, Onward(o))
<1> DEFINE there == Present(o.before, Items)
           x == [o EXCEPT !.phase = "body", !.todo = InstallSteps(there)]
<1>0. h \in Hosts /\ o \in Ops
  BY DEF Proper
<1>1. /\ o.todo = <<>> /\ o.phase = "enter"
      /\ Entered(h, o, Behind(EnterSteps, 4))
  <2>1. Rest(EnterSteps, Len(EnterSteps) + 1) = <<>>
    BY EnterProgram, RestEnd, Zenon
  <2>2. Len(EnterSteps) + 1 = 4
    BY EnterProgram
  <2> QED BY <2>1, <2>2 DEF Entering
<1>2. Onward(o) = x
  BY <1>1 DEF Onward
<1>3. Quiet(h)
  <2>1. Do("stop") \in Behind(EnterSteps, 4)
    BY EnterOrder, EnterProgram
  <2> QED BY <1>1, <2>1 DEF Entered
<1>4. there \in BOOLEAN
  BY DEF Present
<1>5. /\ InstallSteps(TRUE) \in Seq(Steps) /\ BuildSteps \in Seq(Steps)
      /\ Rest(InstallSteps(TRUE), 1) = InstallSteps(TRUE)
      /\ Rest(BuildSteps, 1) = BuildSteps
      /\ Behind(RemoveSteps, 1) = {} /\ Behind(BuildSteps, 1) = {}
  BY InstallProgram, BuildProgram, RemoveProgram, RestEnd, Zenon
<1>6. CASE there
  <2>1. x = [o EXCEPT !.phase = "body", !.todo = InstallSteps(TRUE)]
    <3>1. there = TRUE
      BY <1>4, <1>6
    <3> QED BY <3>1
  <2> HIDE DEF x
  <2>2. SameOp(o, x) /\ x.phase = "body" /\ x.todo = InstallSteps(TRUE)
        /\ x.errors = o.errors /\ x.added = o.added /\ x.owned = o.owned
        /\ x.troubled = o.troubled
    BY <1>0, <1>5, <2>1, WorkingIs, Zenon
  <2>3. Whole(h, "FORCE")
    <3>1. Preflight(o.before) /\ h.disk = o.before.disk
      BY <1>1, <1>6 DEF Entered, Found, AsBefore
    <3> QED BY <3>1 DEF Preflight, Whole, Tools
  <2>4. Erased(h, x, {})
    <3>1. x.owned = (x.kind = "force" \/ x.before.owns)
      <4>1. o.before.owns \in BOOLEAN /\ x.owned = o.before.owns
        BY <1>0, <1>1, <2>2 DEF Ops, Befores, Entered
      <4>2. x.before = o.before /\ x.kind = "install"
        BY <1>1, <2>2 DEF Entered, SameOp
      <4> QED BY <4>1, <4>2
    <3>2. x.kind = "install" /\ x.errors = {} /\ ~x.added /\ MaskIsOurs(h, x)
      BY <1>1, <2>2 DEF Entered, SameOp, MaskIsOurs
    <3>3. h.rule = x.before.rule
      BY <1>1, <2>2 DEF Entered, SameOp, AsBefore
    <3> QED BY <1>3, <2>3, <3>1, <3>2, <3>3 DEF Erased
  <2>5. x.kind = "install"
    BY <1>1, <2>2 DEF Entered, SameOp
  <2>6. Erasing(h, x, 1)
    BY <1>5, <2>2, <2>4, <2>5, Zenon DEF Erasing
  <2>7. Proper(h, x)
    BY <2>2, ProperSame
  <2>8. 1 \in 1..12
    OBVIOUS
  <2> QED BY <1>2, <2>6, <2>7, <2>8, Zenon DEF Going
<1>7. CASE ~there
  <2>1. x = [o EXCEPT !.phase = "body", !.todo = BuildSteps]
    <3>1. there = FALSE
      BY <1>4, <1>7
    <3> QED BY <3>1 DEF BuildSteps
  <2>2. \A item \in Items : h.disk[item] = Absent
    BY <1>1, <1>7 DEF Present, Entered, AsBefore
  <2> HIDE DEF x
  <2>3. SameOp(o, x) /\ x.phase = "body" /\ x.todo = BuildSteps
        /\ x.errors = o.errors /\ x.added = o.added /\ x.owned = o.owned
        /\ x.troubled = o.troubled
    BY <1>0, <1>5, <2>1, WorkingIs, Zenon
  <2>4. ~h.owns
    <3>1. "RUNTIME" \in Items /\ Absent \notin Release
      BY DeploymentAssumption DEF Items, Software
    <3> QED BY <2>2, <3>1 DEF Proper, Whole
  <2>5. Built(h, x, {})
    BY <1>1, <1>3, <2>2, <2>3, <2>4 DEF Entered, Built, SameOp, MaskIsOurs
  <2>6. Building(h, x, 1)
    BY <1>5, <2>3, <2>5, Zenon DEF Building
  <2>7. Proper(h, x)
    BY <2>3, ProperSame
  <2>8. 1 \in 1..15
    OBVIOUS
  <2> QED BY <1>2, <2>6, <2>7, <2>8, Zenon DEF Going
<1> QED BY <1>6, <1>7

(* A removal on its own has removed everything, or something is left and    *)
(* the forced removal with it.                                              *)
LEMMA ErasedGoes ==
  ASSUME NEW h, NEW o, Proper(h, o), o.kind # "install", Erasing(h, o, 13)
  PROVE  Proper(h, Onward(o)) /\ Going(h, Onward(o))
<1> DEFINE verdict == IF o.errors = {} THEN "removed" ELSE "incomplete"
           x == Ended(o, verdict)
           past == Behind(RemoveSteps, 13)
<1>0. h \in Hosts /\ o \in Ops /\ verdict \in Verdicts
  BY DEF Proper, Verdicts
<1>1. o.todo = <<>> /\ o.phase = "body" /\ Erased(h, o, past)
  <2>1. Rest(RemoveSteps, Len(RemoveSteps) + 1) = <<>>
    BY RemoveProgram, RestEnd, Zenon
  <2>2. Len(RemoveSteps) + 1 = 13
    BY RemoveProgram
  <2> QED BY <2>1, <2>2 DEF Erasing
<1>2. Onward(o) = x
  BY <1>1 DEF Onward
<1>3. SameOp(o, x) /\ x.phase = "ended" /\ x.verdict = verdict
      /\ x.troubled = o.troubled
  BY <1>0, EndedIs, Zenon
<1> HIDE DEF x
<1>4. \A j \in 1..12 : RemoveSteps[j] \in past
  BY EraseOrder
<1>5. /\ Do("release") \in past /\ Do("policy") \in past /\ Do("label") \in past
      /\ \A item \in Items : Drop(item) \in past
  BY <1>4, RemoveProgram DEF Items, Software, Tools
<1> HIDE DEF past
<1>6. MaskIsGone(h, x)
  BY <1>1, <1>3, <1>5 DEF Erased, MaskIsGone, SameOp
<1>7. Holds(h, x)
  <2>1. CASE o.errors = {}
    <3>1. /\ \A item \in Items : h.disk[item] = Absent
          /\ ~h.policy /\ (o.owned => h.rule = "none")
          /\ (~o.owned => h.rule = o.before.rule)
          /\ o.owned = (o.kind = "force" \/ o.before.owns)
      BY <1>1, <1>5, <2>1 DEF Erased
    <3>2. x.verdict = "removed"
      BY <1>3, <2>1
    <3> QED BY <1>3, <3>1, <3>2 DEF Holds, SameOp, Present
  <2>2. CASE o.errors # {}
    <3>1. Whole(h, "FORCE") /\ o.troubled /\ x.verdict = "incomplete"
      BY <1>1, <1>3, <2>2 DEF Erased
    <3> QED BY <1>3, <3>1 DEF Holds
  <2> QED BY <2>1, <2>2
<1>8. Proper(h, x)
  BY <1>3, ProperSame
<1> QED BY <1>2, <1>3, <1>6, <1>7, <1>8 DEF Going, Over

(* An installation that went to its end has installed the driver.           *)
LEMMA BuiltGoes ==
  ASSUME NEW h, NEW o, Proper(h, o), Building(h, o, 16)
  PROVE  Proper(h, Onward(o)) /\ Going(h, Onward(o))
<1> DEFINE x == Leaving(o, "installed")
           past == Behind(BuildSteps, 16)
<1>0. h \in Hosts /\ o \in Ops /\ "installed" \in Verdicts
  BY DEF Proper, Verdicts
<1>1. o.todo = <<>> /\ o.phase = "body" /\ Built(h, o, past) /\ o.kind = "install"
  <2>1. Rest(BuildSteps, Len(BuildSteps) + 1) = <<>>
    BY BuildProgram, RestEnd, Zenon
  <2>2. Len(BuildSteps) + 1 = 16
    BY BuildProgram
  <2> QED BY <2>1, <2>2 DEF Building, Built
<1>2. Onward(o) = x
  BY <1>1 DEF Onward
<1>3. SameOp(o, x) /\ x.phase = "leave" /\ x.todo = LeaveSteps
      /\ x.verdict = "installed" /\ x.troubled = o.troubled
  BY <1>0, LeavingIs, Zenon
<1> HIDE DEF x
<1>4. \A j \in 1..15 : BuildSteps[j] \in past
  BY BuildOrder
<1>5. /\ Do("policy") \in past /\ Do("map") \in past
      /\ \A item \in Items : Put(item) \in past
  BY <1>4, BuildProgram DEF Items, Software, Tools
<1> HIDE DEF past
<1>6. MaskIsOurs(h, x)
  BY <1>1, <1>3 DEF Built, MaskIsOurs, SameOp
<1>7. Holds(h, x)
  <2>1. /\ \A item \in Items : h.disk[item] = o.rel
        /\ ~h.policy /\ (h.material => h.rule # "none") /\ (h.owns => h.rule = "ours")
    BY <1>1, <1>5 DEF Built
  <2> QED BY <1>3, <2>1 DEF Holds, SameOp
<1>8. Proper(h, x)
  BY <1>3, ProperSame
<1>9. x.kind = "install"
  BY <1>1, <1>3 DEF SameOp
<1> QED BY <1>2, <1>3, <1>6, <1>7, <1>8, <1>9 DEF Going, Departing, Departs

(* A rollback that went to its end without an error has restored all.       *)
LEMMA UndoneGoes ==
  ASSUME NEW h, NEW o, Proper(h, o), Undoing(h, o, 18)
  PROVE  Proper(h, Onward(o)) /\ Going(h, Onward(o))
<1> DEFINE verdict == IF o.errors = {} THEN "restored" ELSE "broken"
           x == Leaving(o, verdict)
           past == Behind(RollbackSteps, 18)
<1>0. h \in Hosts /\ o \in Ops /\ verdict \in Verdicts
  BY DEF Proper, Verdicts
<1>1. o.todo = <<>> /\ o.phase = "rollback" /\ Undone(h, o, past)
  <2>1. Rest(RollbackSteps, Len(RollbackSteps) + 1) = <<>>
    BY RollbackProgram, RestEnd, Zenon
  <2>2. Len(RollbackSteps) + 1 = 18
    BY RollbackProgram
  <2> QED BY <2>1, <2>2 DEF Undoing
<1>2. Onward(o) = x
  BY <1>1 DEF Onward
<1>3. SameOp(o, x) /\ x.phase = "leave" /\ x.todo = LeaveSteps
      /\ x.verdict = verdict /\ x.troubled = o.troubled
  BY <1>0, LeavingIs, Zenon
<1> HIDE DEF x
<1>4. \A j \in 1..17 : RollbackSteps[j] \in past
  BY UndoOrder
<1>5. /\ Do("remap") \in past /\ Do("repolicy") \in past
      /\ \A item \in Items : Copy(item) \in past
  BY <1>4, RollbackProgram DEF Items, Software, Tools
<1> HIDE DEF past
<1>6. o.troubled /\ o.kind = "install" /\ MaskIsOurs(h, x)
  BY <1>1, <1>3 DEF Undone, MaskIsOurs
<1>7. Holds(h, x)
  <2>1. CASE o.errors = {}
    <3>1. /\ \A item \in Items : h.disk[item] = o.before.disk[item]
          /\ h.owns = o.before.owns /\ h.rule = o.before.rule
          /\ h.policy = o.before.policy
      BY <1>1, <1>5, <2>1 DEF Undone, Items, Software
    <3>2. h.disk = o.before.disk
      <4>1. h.disk \in [Items -> Contents] /\ o.before.disk \in [Items -> Contents]
        BY <1>0 DEF Hosts, Ops, Befores, Contents
      <4> QED BY <3>1, <4>1
    <3>3. AsBefore(h, x.before)
      BY <1>3, <3>1, <3>2 DEF AsBefore, SameOp
    <3>4. x.verdict = "restored"
      BY <1>3, <2>1
    <3> QED BY <1>3, <1>6, <3>3, <3>4 DEF Holds
  <2>2. CASE o.errors # {}
    <3>1. x.verdict = "broken"
      BY <1>3, <2>2
    <3> QED BY <1>3, <1>6, <3>1 DEF Holds
  <2> QED BY <2>1, <2>2
<1>8. Proper(h, x)
  BY <1>3, ProperSame
<1>9. x.kind = "install"
  BY <1>3, <1>6 DEF SameOp
<1> QED BY <1>2, <1>3, <1>6, <1>7, <1>8, <1>9 DEF Going, Departing, Departs

(* A program that has ended is followed by one at its first step.           *)
LEMMA LeftGoes ==
  ASSUME NEW h, NEW o, Proper(h, o), Left(h, o)
  PROVE  Proper(h, Onward(o)) /\ Going(h, Onward(o))
<1> DEFINE x == Ended(o, o.verdict)
<1>0. o \in Ops /\ o.verdict \in Verdicts
  BY DEF Proper, Ops
<1>1. Onward(o) = x
  BY DEF Onward, Left
<1>2. SameOp(o, x) /\ x.phase = "ended" /\ x.verdict = o.verdict
      /\ x.troubled = o.troubled
  BY <1>0, EndedIs, Zenon
<1> HIDE DEF x
<1>3. MaskIsGone(h, x) /\ Holds(h, x)
  BY <1>2 DEF Left, Departs, MaskIsGone, Holds, SameOp
<1>4. Proper(h, x)
  BY <1>2, ProperSame
<1> QED BY <1>1, <1>2, <1>3, <1>4 DEF Going, Over

(* After a step, an operation goes on or ends as it should.                 *)
LEMMA OnwardGoes ==
  ASSUME NEW h, NEW o, Proper(h, o), Near(h, o)
  PROVE  Proper(h, Onward(o)) /\ Going(h, Onward(o))
<1>1. ASSUME o.todo # <<>>, Going(h, o) PROVE Proper(h, Onward(o)) /\ Going(h, Onward(o))
  <2>1. Onward(o) = o
    BY <1>1 DEF Onward
  <2> QED BY <1>1, <2>1
<1>2. ASSUME NEW k \in 1..4, Entering(h, o, k)
      PROVE  Proper(h, Onward(o)) /\ Going(h, Onward(o))
  <2>1. CASE k = 4
    BY <1>2, <2>1, EnteredGoes
  <2>2. CASE k # 4
    <3>1. k \in 1..3
      BY <2>2
    <3>2. o.todo # <<>>
      BY <1>2, <3>1, EnteringAt, Zenon DEF EntersAt
    <3>3. Going(h, o)
      BY <1>2, <3>1, Zenon DEF Going
    <3> QED BY <1>1, <3>2, <3>3
  <2> QED BY <2>1, <2>2
<1>3. ASSUME NEW k \in 1..13, Erasing(h, o, k)
      PROVE  Proper(h, Onward(o)) /\ Going(h, Onward(o))
  <2>1. CASE k = 13 /\ o.kind # "install"
    BY <1>3, <2>1, ErasedGoes
  <2>2. CASE k = 13 /\ o.kind = "install"
    <3>1. Erasing(h, o, 13) /\ o.kind = "install"
      BY <1>3, <2>2
    <3>2. o.todo # <<>>
      BY <3>1, RemovedAt
    <3>3. Going(h, o)
      BY <3>1, Zenon DEF Going
    <3> QED BY <1>1, <3>2, <3>3
  <2>3. CASE k # 13
    <3>1. k \in 1..12
      BY <2>3
    <3>2. o.todo # <<>>
      BY <1>3, <3>1, ErasingAt, Zenon DEF ErasesAt
    <3>3. Going(h, o)
      BY <1>3, <3>1, Zenon DEF Going
    <3> QED BY <1>1, <3>2, <3>3
  <2> QED BY <2>1, <2>2, <2>3
<1>4. ASSUME NEW k \in 1..16, Building(h, o, k)
      PROVE  Proper(h, Onward(o)) /\ Going(h, Onward(o))
  <2>1. CASE k = 16
    BY <1>4, <2>1, BuiltGoes
  <2>2. CASE k # 16
    <3>1. k \in 1..15
      BY <2>2
    <3>2. o.todo # <<>>
      BY <1>4, <3>1, BuildingAt, Zenon DEF BuildsAt
    <3>3. Going(h, o)
      BY <1>4, <3>1, Zenon DEF Going
    <3> QED BY <1>1, <3>2, <3>3
  <2> QED BY <2>1, <2>2
<1>5. ASSUME NEW k \in 1..18, Undoing(h, o, k)
      PROVE  Proper(h, Onward(o)) /\ Going(h, Onward(o))
  <2>1. CASE k = 18
    BY <1>5, <2>1, UndoneGoes
  <2>2. CASE k # 18
    <3>1. k \in 1..17
      BY <2>2
    <3>2. o.todo # <<>>
      BY <1>5, <3>1, UndoingAt, Zenon DEF UndoesAt
    <3>3. Going(h, o)
      BY <1>5, <3>1, Zenon DEF Going
    <3> QED BY <1>1, <3>2, <3>3
  <2> QED BY <2>1, <2>2
<1> QED BY <1>2, <1>3, <1>4, <1>5, LeftGoes, Zenon DEF Near

-----------------------------------------------------------------------------
(* What a step does to an operation, whatever it is at.                     *)

(* An operation that has not ended is at a step of one program.             *)
LEMMA AtWork ==
  ASSUME NEW h, NEW o, Going(h, o), o.phase # "ended"
  PROVE  \/ \E k \in 1..3 : Entering(h, o, k)
         \/ \E k \in 1..12 : Erasing(h, o, k)
         \/ o.kind = "install" /\ Erasing(h, o, 13)
         \/ \E k \in 1..15 : Building(h, o, k)
         \/ \E k \in 1..17 : Undoing(h, o, k)
         \/ Departing(h, o)
BY Zenon DEF Going, Over

(* The release of the mask on the way out.                                  *)
LEMMA DepartingAt ==
  ASSUME NEW h, NEW o, Proper(h, o), Departing(h, o)
  PROVE  /\ o.todo # <<>> /\ Head(o.todo) = Do("release") /\ Tail(o.todo) = <<>>
         /\ o.phase = "leave" /\ Can(Do("release"), o, h)
         /\ Skips(Do("release"), o, h) <=> h.mask # "ours"
         /\ Skips(Do("release"), o, h) => MaskIsGone(h, o)
<1>1. o.phase = "leave" /\ o.todo = LeaveSteps
  BY DEF Departing
<1>2. ~Nested(o)
  BY <1>1 DEF Nested
<1>3. Do("release")[1] = "release" /\ "release" # "drop" /\ "release" # "copy"
      /\ "leave" # "rollback" /\ "leave" # "body"
  BY Codes
<1>4. Skips(Do("release"), o, h) <=> h.mask # "ours"
  BY <1>1, <1>2, <1>3, Zenon DEF Skips
<1>5. h.mask # "ours" => MaskIsGone(h, o)
  BY DEF Departing, MaskIsOurs, MaskIsGone
<1>6. Can(Do("release"), o, h)
  <2>1. Do("release") # Do("stop") /\ Do("release") # Do("removed")
        /\ Do("release") # Do("preflight")
    BY StepsDiffer
  <2> QED BY <2>1 DEF Can
<1>7. LeaveSteps # <<>> /\ Head(LeaveSteps) = Do("release") /\ Tail(LeaveSteps) = <<>>
  BY LeaveProgram
<1> QED BY <1>1, <1>4, <1>5, <1>6, <1>7, Zenon

(* What it leaves, of an operation that stays as it is otherwise.           *)
LEMMA DepartsStill ==
  ASSUME NEW h, NEW o, Departs(h, o), NEW g,
         SameDisk(h, g), g.rule = h.rule, g.policy = h.policy, g.material = h.material,
         NEW x, SameOp(o, x), x.verdict = o.verdict, x.troubled = o.troubled
  PROVE  Departs(g, x)
<1>1. Holds(g, x)
  BY DEF Departs, Holds, SameDisk, SameOp, AsBefore, Whole, Present
<1> QED BY <1>1 DEF Departs, SameOp

(* No step but one of an installation makes the mapping.                    *)
LEMMA MapIsBuilt ==
  /\ \A k \in 1..3 : EnterSteps[k] # Do("map")
  /\ \A k \in 1..12 : RemoveSteps[k] # Do("map")
  /\ \A k \in 1..17 : RollbackSteps[k] # Do("map")
  /\ Do("release") # Do("map") /\ Do("removed") # Do("map")
<1>1. /\ \A item : Drop(item) # Do("map") /\ Copy(item) # Do("map")
      /\ \A verb \in Verbs \ {"map"} : Do(verb) # Do("map")
  BY StepsDiffer DEF Verbs
<1>2. \A verb \in {"inhibit", "stop", "snapshot", "policy", "label", "release",
                   "remap", "repolicy", "removed"} : Do(verb) # Do("map")
  BY <1>1 DEF Verbs
<1>3. \A k \in 1..3 : EnterSteps[k] # Do("map")
  BY <1>2, EnterProgram
<1>4. \A k \in 1..12 : RemoveSteps[k] # Do("map")
  BY <1>1, <1>2, RemoveProgram
<1>5. \A k \in 1..17 : RollbackSteps[k] # Do("map")
  <2> TAKE k \in 1..17
  <2>1. \/ RollbackSteps[k] = Do("stop")
        \/ \E item \in Items : RollbackSteps[k] = Drop(item) \/ RollbackSteps[k] = Copy(item)
        \/ \E verb \in {"remap", "repolicy"} : RollbackSteps[k] = Do(verb)
    BY UndoKinds
  <2> QED BY <1>1, <1>2, <2>1
<1> QED BY <1>2, <1>3, <1>4, <1>5

(* A step that is skipped.                                                  *)
LEMMA SkipNear ==
  ASSUME NEW h, NEW o, Proper(h, o), Going(h, o), o.phase # "ended",
         Skips(Head(o.todo), o, h)
  PROVE  Proper(h, Passed(o)) /\ Near(h, Passed(o))
<1> DEFINE x == Passed(o)
<1>0. o \in Ops
  BY DEF Proper
<1>1. o.todo # <<>> => Moves(o, x, o.errors, o.added)
  BY <1>0, PassedMoves
<1> HIDE DEF x
<1>2. CASE \E k \in 1..3 : Entering(h, o, k)
  <2>1. PICK k \in 1..3 : Entering(h, o, k)
    BY <1>2
  <2>2. Head(o.todo) = EnterSteps[k]
    BY <2>1, EnteringAt DEF EntersAt
  <2>3. ~Skips(EnterSteps[k], o, h)
    BY <2>1, EnterPasses, Zenon
  <2> QED BY <2>2, <2>3
<1>3. CASE \E k \in 1..12 : Erasing(h, o, k)
  <2>1. PICK k \in 1..12 : Erasing(h, o, k)
    BY <1>3
  <2>2. o.todo # <<>> /\ Head(o.todo) = RemoveSteps[k]
    BY <2>1, ErasingAt, Zenon DEF ErasesAt
  <2>3. Skips(RemoveSteps[k], o, h)
    BY <2>2
  <2>4. Proper(h, x) /\ Erasing(h, x, k + 1)
    BY <1>1, <2>1, <2>2, <2>3, EraseSkips, Zenon
  <2>5. k + 1 \in 1..13
    OBVIOUS
  <2> QED BY <2>4, <2>5, Zenon DEF Near, x
<1>4. CASE o.kind = "install" /\ Erasing(h, o, 13)
  BY <1>4, RemovedAt
<1>5. CASE \E k \in 1..15 : Building(h, o, k)
  <2>1. PICK k \in 1..15 : Building(h, o, k)
    BY <1>5
  <2>2. Head(o.todo) = BuildSteps[k]
    BY <2>1, BuildingAt DEF BuildsAt
  <2>3. ~Skips(BuildSteps[k], o, h)
    BY <2>1, BuildPasses, Zenon
  <2> QED BY <2>2, <2>3
<1>6. CASE \E k \in 1..17 : Undoing(h, o, k)
  <2>1. PICK k \in 1..17 : Undoing(h, o, k)
    BY <1>6
  <2>2. o.todo # <<>> /\ Head(o.todo) = RollbackSteps[k]
    BY <2>1, UndoingAt, Zenon DEF UndoesAt
  <2>3. Skips(RollbackSteps[k], o, h)
    BY <2>2
  <2>4. IF Skips(RollbackSteps[k], o, h) THEN h = h ELSE h = Done(RollbackSteps[k], o, h)
    BY <2>3, Zenon
  <2>5. Proper(h, x) /\ Undoing(h, x, k + 1)
    BY <1>1, <2>1, <2>2, <2>4, UndoMoves, Zenon
  <2>6. k + 1 \in 1..18
    OBVIOUS
  <2> QED BY <2>5, <2>6, Zenon DEF Near, x
<1>7. CASE Departing(h, o)
  <2>1. /\ o.todo # <<>> /\ Tail(o.todo) = <<>> /\ o.phase = "leave" /\ MaskIsGone(h, o)
        /\ Departs(h, o)
    <3>1. Head(o.todo) = Do("release")
      BY <1>7, DepartingAt
    <3>2. Skips(Do("release"), o, h)
      BY <3>1
    <3> QED BY <1>7, <3>2, DepartingAt, Zenon DEF Departing
  <2>2. /\ SameOp(o, x) /\ x.phase = "leave" /\ x.todo = <<>>
        /\ x.verdict = o.verdict /\ x.troubled = o.troubled
    BY <1>1, <2>1 DEF Moves
  <2>3. Departs(h, x) /\ MaskIsGone(h, x) /\ Proper(h, x)
    BY <2>1, <2>2, DepartsStill, ProperSame DEF SameDisk, MaskIsGone, SameOp
  <2> QED BY <2>2, <2>3, Zenon DEF Near, Left, x
<1> QED BY <1>2, <1>3, <1>4, <1>5, <1>6, <1>7, AtWork

(* A step that passes.                                                      *)
Advanced(h, o) ==
  [Passed(o) EXCEPT
     !.added = @ \/ (Head(o.todo) = Do("map") /\ h.material /\ h.rule = "none")]

(* A step that succeeds leads to the next, or to the end of its program.    *)
LEMMA SucceedNear ==
  ASSUME NEW h, NEW o, Proper(h, o), Going(h, o), o.phase # "ended",
         ~Skips(Head(o.todo), o, h), Can(Head(o.todo), o, h)
  PROVE  /\ Proper(Done(Head(o.todo), o, h), Advanced(h, o))
         /\ Near(Done(Head(o.todo), o, h), Advanced(h, o))
<1> DEFINE x == Advanced(h, o)
           b == Head(o.todo) = Do("map") /\ h.material /\ h.rule = "none"
           g == Done(Head(o.todo), o, h)
<1>0. h \in Hosts /\ o \in Ops /\ o.added \in BOOLEAN
  BY DEF Proper, Ops
<1>1. o.todo # <<>> => Moves(o, x, o.errors, o.added \/ b)
  <2>1. b \in BOOLEAN
    BY <1>0 DEF Hosts
  <2>2. x = [Passed(o) EXCEPT !.added = @ \/ b]
    BY DEF Advanced
  <2> HIDE DEF b, x
  <2> QED BY <1>0, <2>1, <2>2, AddedMoves, Zenon
<1>2. Head(o.todo) # Do("map") => (o.added \/ b) = o.added
  BY <1>0
<1>3. \A step : Head(o.todo) = step => (b <=> step = Do("map") /\ h.material /\ h.rule = "none")
  OBVIOUS
<1>4. g = Done(Head(o.todo), o, h) /\ x = Advanced(h, o)
  OBVIOUS
<1> HIDE DEF x, b, g
<1>5. SUFFICES Proper(g, x) /\ Near(g, x)
  BY <1>4
<1>6. CASE \E k \in 1..3 : Entering(h, o, k)
  <2>1. PICK k \in 1..3 : Entering(h, o, k)
    BY <1>6
  <2>2. o.todo # <<>> /\ Head(o.todo) = EnterSteps[k]
    BY <2>1, EnteringAt, Zenon DEF EntersAt
  <2>3. Moves(o, x, o.errors, o.added)
    <3>1. Head(o.todo) # Do("map")
      BY <2>2, MapIsBuilt, Zenon
    <3> QED BY <1>1, <1>2, <2>2, <3>1
  <2>4. Proper(g, x) /\ Entering(g, x, k + 1)
    BY <1>4, <2>1, <2>2, <2>3, EnterPasses, Zenon
  <2>5. k + 1 \in 1..4
    OBVIOUS
  <2> QED BY <2>4, <2>5, Zenon DEF Near
<1>7. CASE \E k \in 1..12 : Erasing(h, o, k)
  <2>1. PICK k \in 1..12 : Erasing(h, o, k)
    BY <1>7
  <2>2. o.todo # <<>> /\ Head(o.todo) = RemoveSteps[k]
    BY <2>1, ErasingAt, Zenon DEF ErasesAt
  <2>3. Moves(o, x, o.errors, o.added)
    <3>1. Head(o.todo) # Do("map")
      BY <2>2, MapIsBuilt, Zenon
    <3> QED BY <1>1, <1>2, <2>2, <3>1
  <2>4. ~Skips(RemoveSteps[k], o, h) /\ Can(RemoveSteps[k], o, h)
    BY <2>2
  <2>5. Proper(g, x) /\ Erasing(g, x, k + 1)
    BY <1>4, <2>1, <2>2, <2>3, <2>4, ErasePasses, Zenon
  <2>6. k + 1 \in 1..13
    OBVIOUS
  <2> QED BY <2>5, <2>6, Zenon DEF Near
<1>8. CASE o.kind = "install" /\ Erasing(h, o, 13)
  <2>1. o.todo # <<>> /\ Head(o.todo) = Do("removed") /\ g = h /\ o.errors = {}
    BY <1>4, <1>8, RemovedAt
  <2>2. Moves(o, x, o.errors, o.added)
    <3>1. Head(o.todo) # Do("map")
      BY <2>1, MapIsBuilt, Zenon
    <3> QED BY <1>1, <1>2, <2>1, <3>1
  <2>3. Proper(h, x) /\ Building(h, x, 1)
    BY <1>8, <2>1, <2>2, RemovedAt, Zenon
  <2>4. 1 \in 1..16
    OBVIOUS
  <2> QED BY <2>1, <2>3, <2>4, Zenon DEF Near
<1>9. CASE \E k \in 1..15 : Building(h, o, k)
  <2>1. PICK k \in 1..15 : Building(h, o, k)
    BY <1>9
  <2>2. o.todo # <<>> /\ Head(o.todo) = BuildSteps[k]
    BY <2>1, BuildingAt, Zenon DEF BuildsAt
  <2>3. Moves(o, x, o.errors,
              o.added \/ (BuildSteps[k] = Do("map") /\ h.material /\ h.rule = "none"))
    BY <1>1, <2>2, Zenon DEF b
  <2>4. Proper(g, x) /\ Building(g, x, k + 1)
    BY <1>4, <2>1, <2>2, <2>3, BuildPasses, Zenon
  <2>5. k + 1 \in 1..16
    OBVIOUS
  <2> QED BY <2>4, <2>5, Zenon DEF Near
<1>10. CASE \E k \in 1..17 : Undoing(h, o, k)
  <2>1. PICK k \in 1..17 : Undoing(h, o, k)
    BY <1>10
  <2>2. o.todo # <<>> /\ Head(o.todo) = RollbackSteps[k]
    BY <2>1, UndoingAt, Zenon DEF UndoesAt
  <2>3. Moves(o, x, o.errors, o.added)
    <3>1. Head(o.todo) # Do("map")
      BY <2>2, MapIsBuilt, Zenon
    <3> QED BY <1>1, <1>2, <2>2, <3>1
  <2>4. IF Skips(RollbackSteps[k], o, h) THEN g = h ELSE g = Done(RollbackSteps[k], o, h)
    BY <1>4, <2>2, Zenon
  <2>5. Proper(g, x) /\ Undoing(g, x, k + 1)
    BY <2>1, <2>3, <2>4, UndoMoves, Zenon
  <2>6. k + 1 \in 1..18
    OBVIOUS
  <2> QED BY <2>5, <2>6, Zenon DEF Near
<1>11. CASE Departing(h, o)
  <2>1. /\ o.todo # <<>> /\ Head(o.todo) = Do("release") /\ Tail(o.todo) = <<>>
        /\ o.phase = "leave" /\ Departs(h, o)
    BY <1>11, DepartingAt DEF Departing
  <2>2. Moves(o, x, o.errors, o.added)
    <3>1. Head(o.todo) # Do("map")
      BY <2>1, MapIsBuilt, Zenon
    <3> QED BY <1>1, <1>2, <2>1, <3>1
  <2>3. Masks(h, g, "none", "open", h.running)
    BY <1>0, <1>4, <2>1, DoneMasks
  <2>4. /\ SameOp(o, x) /\ x.phase = "leave" /\ x.todo = <<>>
        /\ x.verdict = o.verdict /\ x.troubled = o.troubled
    BY <2>1, <2>2 DEF Moves
  <2>5. SameDisk(h, g) /\ g.rule = h.rule /\ g.policy = h.policy /\ g.material = h.material
        /\ g.mask = "none"
    BY <2>3 DEF Masks
  <2>6. Departs(g, x) /\ MaskIsGone(g, x)
    BY <2>1, <2>4, <2>5, DepartsStill DEF MaskIsGone
  <2>7. Proper(g, x)
    BY <2>3, <2>4, ProperMasks
  <2> QED BY <2>4, <2>6, <2>7, Zenon DEF Near, Left
<1> QED BY <1>6, <1>7, <1>8, <1>9, <1>10, <1>11, AtWork

(* A check fails only after something else did.                             *)
LEMMA RefusedForCause ==
  ASSUME NEW h, NEW o, Proper(h, o), Going(h, o), o.phase # "ended",
         ~Skips(Head(o.todo), o, h), ~Can(Head(o.todo), o, h)
  PROVE  o.troubled
<1>1. CASE \E k \in 1..3 : Entering(h, o, k)
  <2>1. PICK k \in 1..3 : Entering(h, o, k)
    BY <1>1
  <2>2. Head(o.todo) = EnterSteps[k]
    BY <2>1, EnteringAt DEF EntersAt
  <2>3. Can(EnterSteps[k], o, h)
    BY <2>1, EnterPasses, Zenon
  <2> QED BY <2>2, <2>3
<1>2. CASE \E k \in 1..12 : Erasing(h, o, k)
  <2>1. PICK k \in 1..12 : Erasing(h, o, k)
    BY <1>2
  <2>2. /\ Head(o.todo) = RemoveSteps[k]
        /\ Erased(h, o, Behind(RemoveSteps, k))
    BY <2>1, ErasingAt DEF ErasesAt
  <2>3. CASE k = 4
    <3>1. h.mask = "none"
      <4>1. /\ Do("stop") # Do("removed") /\ Do("stop") # Do("preflight")
            /\ RemoveSteps[k] = Do("stop")
        BY <2>3, RemoveProgram, StepsDiffer
      <4> QED BY <2>2, <4>1 DEF Can
    <3>2. Do("inhibit") \in Behind(RemoveSteps, k)
          /\ Do("release") \notin Behind(RemoveSteps, k)
      <4>1. k \in 1..13 /\ 3 < k /\ ~(9 < k)
        BY <2>3
      <4> QED BY <4>1, EraseOrder, RemoveProgram
    <3>3. o.kind # "install"
      BY <2>2, <3>1 DEF Erased, Quiet
    <3>4. Do("inhibit") \in o.errors
      BY <2>2, <3>1, <3>2, <3>3 DEF Erased
    <3> QED BY <2>2, <3>4 DEF Erased
  <2>4. CASE k # 4
    <3>1. RemoveSteps[k] # Do("stop")
      <4>1. k \in 1..Len(RemoveSteps) /\ 4 \in 1..Len(RemoveSteps)
        BY RemoveProgram
      <4> QED BY <2>4, <4>1, RemoveProgram, RemoveOnce, Zenon DEF Distinct
    <3>2. RemoveSteps[k] # Do("removed") /\ RemoveSteps[k] # Do("preflight")
      <4>1. /\ \A item : Drop(item) # Do("removed") /\ Drop(item) # Do("preflight")
            /\ \A verb \in {"inhibit", "stop", "policy", "label", "release"} :
                 Do(verb) # Do("removed") /\ Do(verb) # Do("preflight")
        BY StepsDiffer DEF Verbs
      <4> QED BY <4>1, RemoveProgram
    <3> QED BY <2>2, <3>1, <3>2 DEF Can
  <2> QED BY <2>3, <2>4
<1>3. CASE o.kind = "install" /\ Erasing(h, o, 13)
  <2>1. Erased(h, o, Behind(RemoveSteps, 13)) /\ o.errors # {}
    BY <1>3, RemovedAt
  <2> QED BY <2>1 DEF Erased
<1>4. CASE \E k \in 1..15 : Building(h, o, k)
  <2>1. PICK k \in 1..15 : Building(h, o, k)
    BY <1>4
  <2>2. Head(o.todo) = BuildSteps[k]
    BY <2>1, BuildingAt DEF BuildsAt
  <2>3. Can(BuildSteps[k], o, h)
    BY <2>1, BuildPasses, Zenon
  <2> QED BY <2>2, <2>3
<1>5. CASE \E k \in 1..17 : Undoing(h, o, k)
  BY <1>5 DEF Undoing, Undone
<1>6. CASE Departing(h, o)
  BY <1>6, DepartingAt
<1> QED BY <1>1, <1>2, <1>3, <1>4, <1>5, <1>6, AtWork

-----------------------------------------------------------------------------
(* Failures, interruptions and the end of the process.                      *)

(* A rollback may begin whenever the service is quiet.                      *)
LEMMA RollingBackGoes ==
  ASSUME NEW g, NEW o, Proper(g, o), o.kind = "install", o.troubled, Quiet(g)
  PROVE  Proper(g, RollingBack(o)) /\ Going(g, RollingBack(o))
<1> DEFINE x == RollingBack(o)
<1>0. o \in Ops
  BY DEF Proper
<1>1. SameOp(o, x) /\ x.phase = "rollback" /\ x.todo = RollbackSteps
      /\ x.errors = {} /\ x.troubled = o.troubled
  BY <1>0, RollingBackIs, Zenon
<1> HIDE DEF x
<1>2. Rest(RollbackSteps, 1) = RollbackSteps /\ Behind(RollbackSteps, 1) = {}
  BY RollbackProgram, RestEnd, Zenon
<1>3. Undone(g, x, {})
  BY <1>1 DEF Undone, SameOp
<1>4. Undoing(g, x, 1)
  BY <1>1, <1>2, <1>3, Zenon DEF Undoing
<1>5. 1 \in 1..17 /\ Proper(g, x)
  BY <1>1, ProperSame
<1> QED BY <1>4, <1>5, Zenon DEF Going, x

(* An operation that was cut short may leave.                               *)
LEMMA LeavingGoes ==
  ASSUME NEW g, NEW o, Proper(g, o), o.troubled, NEW verdict \in Verdicts,
         verdict \notin {"installed", "removed", "incomplete"},
         verdict \in {"failed", "restored"} => AsBefore(g, o.before),
         o.kind # "install" =>
           verdict = "interrupted" /\ (Whole(g, "FORCE") \/ ~Present(g, Items))
  PROVE  Proper(g, Leaving(o, verdict)) /\ Going(g, Leaving(o, verdict))
<1> DEFINE x == Leaving(o, verdict)
<1>0. o \in Ops
  BY DEF Proper
<1>1. SameOp(o, x) /\ x.phase = "leave" /\ x.todo = LeaveSteps
      /\ x.verdict = verdict /\ x.troubled = o.troubled
  BY <1>0, LeavingIs, Zenon
<1> HIDE DEF x
<1>2. MaskIsOurs(g, x)
  BY <1>1 DEF MaskIsOurs
<1>3. Holds(g, x)
  BY <1>1 DEF Holds, SameOp
<1>4. Departs(g, x) /\ Proper(g, x)
  BY <1>1, <1>3, ProperSame DEF Departs, SameOp
<1> QED BY <1>1, <1>2, <1>4, Zenon DEF Going, Departing, x

(* An operation that was cut short may end.                                 *)
LEMMA EndedGoes ==
  ASSUME NEW g, NEW o, Proper(g, o), o.troubled, NEW verdict \in Verdicts,
         \/ Holds(g, o) /\ verdict = o.verdict
         \/ /\ verdict \in {"interrupted", "killed"}
            /\ o.kind # "install" => Whole(g, "FORCE") \/ ~Present(g, Items)
  PROVE  Proper(g, Ended(o, verdict)) /\ Going(g, Ended(o, verdict))
<1> DEFINE x == Ended(o, verdict)
<1>0. o \in Ops
  BY DEF Proper
<1>1. SameOp(o, x) /\ x.phase = "ended" /\ x.verdict = verdict
      /\ x.troubled = o.troubled
  BY <1>0, EndedIs, Zenon
<1> HIDE DEF x
<1>2. MaskIsGone(g, x)
  BY <1>1 DEF MaskIsGone
<1>3. Holds(g, x)
  BY <1>1 DEF Holds, SameOp
<1>4. Proper(g, x)
  BY <1>1, ProperSame
<1> QED BY <1>1, <1>2, <1>3, <1>4, Zenon DEF Going, Over, x

(* What is there after a step of a removal that failed or was interrupted.  *)
Erred(o) == [Passed(o) EXCEPT !.errors = @ \cup {Head(o.todo)}]

(* A removal that is cut short leaves the command that repeats it.          *)
LEMMA EraseLeaves ==
  ASSUME NEW h, NEW o, Proper(h, o), NEW k \in 1..12, Erasing(h, o, k), o.troubled,
         NEW g,
         \/ g = h
         \/ /\ ~Skips(RemoveSteps[k], o, h)
            /\ \/ g \in Partly(RemoveSteps[k], o, h)
               \/ g = Done(RemoveSteps[k], o, h) /\ ~Can(RemoveSteps[k], o, h)
  PROVE  /\ Proper(g, o) /\ Whole(g, "FORCE") /\ (o.kind = "install" => Quiet(g))
         /\ (/\ ~Skips(RemoveSteps[k], o, h)
             /\ \/ g \in Partly(RemoveSteps[k], o, h)
                \/ g = Done(RemoveSteps[k], o, h) /\ ~Can(RemoveSteps[k], o, h))
            => Proper(g, Erred(o)) /\ Near(g, Erred(o))
<1> DEFINE x == Erred(o)
           failed == /\ ~Skips(RemoveSteps[k], o, h)
                     /\ \/ g \in Partly(RemoveSteps[k], o, h)
                        \/ g = Done(RemoveSteps[k], o, h) /\ ~Can(RemoveSteps[k], o, h)
<1>0. o \in Ops
  BY DEF Proper
<1>1. /\ o.todo # <<>> /\ Head(o.todo) = RemoveSteps[k]
      /\ Erased(h, o, Behind(RemoveSteps, k))
  BY ErasingAt DEF ErasesAt
<1>2. Moves(o, x, o.errors \cup {RemoveSteps[k]}, o.added)
  <2>1. Moves(o, x, o.errors \cup {Head(o.todo)}, o.added)
    BY <1>0, <1>1, ErrorMoves, Zenon DEF Erred
  <2> QED BY <1>1, <2>1
<1> HIDE DEF x
<1>3. ASSUME g = h PROVE Proper(g, o) /\ Whole(g, "FORCE") /\ (o.kind = "install" => Quiet(g))
  <2>1. Drop("FORCE") \notin Behind(RemoveSteps, k)
    <3>1. k \in 1..13 /\ ~(12 < k)
      OBVIOUS
    <3> QED BY <3>1, EraseOrder, RemoveProgram
  <2>2. Whole(h, "FORCE") /\ (o.kind = "install" => Quiet(h))
    BY <1>1, <2>1 DEF Erased
  <2> QED BY <1>3, <2>2
<1>4. ASSUME failed
      PROVE  /\ Proper(g, o) /\ Whole(g, "FORCE") /\ (o.kind = "install" => Quiet(g))
             /\ Proper(g, Erred(o)) /\ Near(g, Erred(o))
  <2>1. Proper(g, x) /\ Erasing(g, x, k + 1)
    BY <1>2, <1>4, EraseFails, Zenon
  <2>2. Erased(g, x, Behind(RemoveSteps, k + 1))
    BY <2>1, Zenon DEF Erasing
  <2>3. x.errors # {} /\ x.kind = o.kind /\ SameOp(x, o)
    BY <1>0, <1>2 DEF Moves, SameOp
  <2>4. Whole(g, "FORCE") /\ (o.kind = "install" => Quiet(g))
    BY <2>2, <2>3 DEF Erased
  <2>5. Proper(g, o)
    BY <2>1, <2>3, ProperSame
  <2>6. k + 1 \in 1..13
    OBVIOUS
  <2>7. Near(g, x)
    BY <2>1, <2>6, Zenon DEF Near
  <2> QED BY <2>1, <2>4, <2>5, <2>7 DEF x
<1> QED BY <1>3, <1>4

(* The same where the way out fails or is interrupted.                      *)
LEMMA DepartLeaves ==
  ASSUME NEW h, NEW o, Proper(h, o), Departing(h, o),
         NEW g, g = h \/ g \in Partly(Do("release"), o, h)
  PROVE  /\ Departs(g, o) /\ o.verdict \in Verdicts
         /\ \A x : SameOp(o, x) => Proper(g, x)
<1>0. h \in Hosts /\ o \in Ops
  BY DEF Proper
<1>1. g = h \/ Masks(h, g, "none", h.loaded, h.running)
  BY <1>0, PartlyMasks
<1>2. /\ SameDisk(h, g) /\ g.rule = h.rule /\ g.policy = h.policy
      /\ g.material = h.material
  BY <1>1 DEF Masks, SameDisk
<1>3. SameOp(o, o) /\ o.verdict \in Verdicts
  BY <1>0 DEF SameOp, Ops
<1>4. Departs(g, o)
  BY <1>2, <1>3, DepartsStill DEF Departing
<1>5. ASSUME NEW x, SameOp(o, x) PROVE Proper(g, x)
  BY <1>1, <1>5, ProperMasks, ProperSame
<1> QED BY <1>3, <1>4, <1>5

(* A step fails, or a check in it.                                          *)
LEMMA RaisedGoes ==
  ASSUME NEW h, NEW o, Proper(h, o), Going(h, o), o.phase # "ended", o.troubled,
         ~Skips(Head(o.todo), o, h), NEW g,
         \/ g \in Partly(Head(o.todo), o, h)
         \/ g = Done(Head(o.todo), o, h) /\ ~Can(Head(o.todo), o, h)
  PROVE  Proper(g, Raised(o)) /\ Going(g, Raised(o))
<1>0. o \in Ops
  BY DEF Proper
<1>1. ASSUME Attempted(o), Proper(g, Erred(o)), Near(g, Erred(o))
      PROVE  Proper(g, Raised(o)) /\ Going(g, Raised(o))
  <2>1. Raised(o) = Onward(Erred(o))
    BY <1>1 DEF Raised, Erred
  <2> QED BY <1>1, <2>1, OnwardGoes
<1>2. ASSUME o.kind = "install", o.phase = "body", ~Nested(o), Proper(g, o), Quiet(g)
      PROVE  Proper(g, Raised(o)) /\ Going(g, Raised(o))
  <2>1. ~Attempted(o)
    BY <1>2 DEF Attempted
  <2>2. Raised(o) = RollingBack(o)
    BY <1>2, <2>1 DEF Raised
  <2> QED BY <1>2, <2>2, RollingBackGoes
<1>3. CASE \E k \in 1..3 : Entering(h, o, k)
  <2>1. PICK k \in 1..3 : Entering(h, o, k)
    BY <1>3
  <2>2. Head(o.todo) = EnterSteps[k] /\ o.phase = "enter" /\ o.kind = "install"
    BY <2>1, EnteringAt DEF EntersAt, Entered
  <2>3. Can(EnterSteps[k], o, h)
    BY <2>1, EnterPasses, Zenon
  <2>4. Proper(g, o) /\ AsBefore(g, o.before)
    BY <2>1, <2>2, <2>3, EnterLeaves
  <2>5. ~Attempted(o)
    BY <2>2 DEF Attempted, Nested
  <2>6. Raised(o) = Leaving(o, "failed")
    BY <2>2, <2>5 DEF Raised
  <2>7. "failed" \in Verdicts
    BY DEF Verdicts
  <2> QED BY <2>2, <2>4, <2>6, <2>7, LeavingGoes
<1>4. CASE \E k \in 1..12 : Erasing(h, o, k)
  <2>1. PICK k \in 1..12 : Erasing(h, o, k)
    BY <1>4
  <2>2. Head(o.todo) = RemoveSteps[k] /\ Attempted(o)
    BY <2>1, ErasingAt DEF ErasesAt
  <2>3. ~Skips(RemoveSteps[k], o, h)
    BY <2>2
  <2>4. \/ g \in Partly(RemoveSteps[k], o, h)
        \/ g = Done(RemoveSteps[k], o, h) /\ ~Can(RemoveSteps[k], o, h)
    BY <2>2
  <2>5. Proper(g, Erred(o)) /\ Near(g, Erred(o))
    BY <2>1, <2>3, <2>4, EraseLeaves, Zenon
  <2> QED BY <1>1, <2>2, <2>5
<1>5. CASE o.kind = "install" /\ Erasing(h, o, 13)
  <2>1. /\ Head(o.todo) = Do("removed") /\ o.phase = "body" /\ ~Nested(o)
        /\ Done(Do("removed"), o, h) = h
        /\ Erased(h, o, Behind(RemoveSteps, 13))
    BY <1>5, RemovedAt
  <2>2. g = h
    <3>1. "removed" \in Verbs \ {"inhibit", "stop", "release"}
      BY DEF Verbs
    <3> QED BY <2>1, <3>1, PartlyRest
  <2>3. Quiet(g)
    BY <1>5, <2>1, <2>2 DEF Erased
  <2> QED BY <1>2, <1>5, <2>1, <2>2, <2>3
<1>6. CASE \E k \in 1..15 : Building(h, o, k)
  <2>1. PICK k \in 1..15 : Building(h, o, k)
    BY <1>6
  <2>2. /\ Head(o.todo) = BuildSteps[k] /\ o.kind = "install" /\ o.phase = "body"
        /\ ~Nested(o)
    BY <2>1, BuildingAt DEF BuildsAt
  <2>3. Can(BuildSteps[k], o, h)
    BY <2>1, BuildPasses, Zenon
  <2>4. SameOp(o, o) /\ g \in Partly(BuildSteps[k], o, h)
    BY <1>0, <2>2, <2>3 DEF SameOp
  <2>5. Proper(g, o) /\ Quiet(g)
    BY <2>1, <2>4, BuildLeaves, Zenon
  <2> QED BY <1>2, <2>2, <2>5
<1>7. CASE \E k \in 1..17 : Undoing(h, o, k)
  <2>1. PICK k \in 1..17 : Undoing(h, o, k)
    BY <1>7
  <2>2. o.todo # <<>> /\ Head(o.todo) = RollbackSteps[k] /\ o.phase = "rollback"
    BY <2>1, UndoingAt, Zenon DEF UndoesAt
  <2>3. g \in Partly(RollbackSteps[k], o, h)
    <3>1. Can(RollbackSteps[k], o, h)
      BY <2>1, UndoMoves, Zenon
    <3> QED BY <2>2, <3>1
  <2>4. Moves(o, Erred(o), o.errors \cup {RollbackSteps[k]}, o.added)
    <3>1. Moves(o, Erred(o), o.errors \cup {Head(o.todo)}, o.added)
      BY <1>0, <2>2, ErrorMoves, Zenon DEF Erred
    <3> QED BY <2>2, <3>1
  <2>5. Proper(g, Erred(o)) /\ Undoing(g, Erred(o), k + 1)
    BY <2>1, <2>3, <2>4, UndoMoves, Zenon
  <2>6. k + 1 \in 1..18
    OBVIOUS
  <2>7. Near(g, Erred(o))
    BY <2>5, <2>6, Zenon DEF Near
  <2>8. Attempted(o)
    BY <2>2 DEF Attempted
  <2> QED BY <1>1, <2>5, <2>7, <2>8
<1>8. CASE Departing(h, o)
  <2>1. /\ o.todo # <<>> /\ Head(o.todo) = Do("release") /\ Tail(o.todo) = <<>>
        /\ o.phase = "leave" /\ Can(Do("release"), o, h)
    BY <1>8, DepartingAt
  <2>2. g \in Partly(Do("release"), o, h)
    BY <2>1
  <2>3. /\ Departs(g, o) /\ o.verdict \in Verdicts
        /\ \A x : SameOp(o, x) => Proper(g, x)
    BY <1>8, <2>2, DepartLeaves
  <2>4. CASE Attempted(o)
    <3> DEFINE x == Erred(o)
    <3>1. Moves(o, x, o.errors \cup {Head(o.todo)}, o.added)
      BY <1>0, <2>1, ErrorMoves, Zenon DEF Erred
    <3> HIDE DEF x
    <3>2. /\ SameOp(o, x) /\ x.phase = "leave" /\ x.todo = <<>>
          /\ x.verdict = o.verdict /\ x.troubled = o.troubled
      BY <2>1, <3>1 DEF Moves
    <3>3. Departs(g, x) /\ MaskIsGone(g, x)
      BY <2>3, <3>2, DepartsStill DEF SameDisk, MaskIsGone
    <3>4. Proper(g, x) /\ Near(g, x)
      BY <2>3, <3>2, <3>3, Zenon DEF Near, Left
    <3> QED BY <1>1, <2>4, <3>4 DEF x
  <2>5. CASE ~Attempted(o)
    <3>1. Raised(o) = Ended(o, o.verdict)
      BY <2>1, <2>5 DEF Raised
    <3>2. SameOp(o, o)
      BY <1>0 DEF SameOp
    <3> QED BY <2>3, <3>1, <3>2, EndedGoes DEF Departs
  <2> QED BY <2>4, <2>5
<1> QED BY <1>3, <1>4, <1>5, <1>6, <1>7, <1>8, AtWork

(* What is there when the step at hand is cut short.                        *)
CutShort(h, o, g) ==
  g = h \/ (~Skips(Head(o.todo), o, h) /\ g \in Partly(Head(o.todo), o, h))

(* What an operation leaves when its step is not completed.                 *)
LEMMA CutShortLeaves ==
  ASSUME NEW h, NEW o, Proper(h, o), Going(h, o), o.phase # "ended", o.troubled,
         NEW g, CutShort(h, o, g)
  PROVE  /\ Proper(g, o) /\ o.phase \in {"enter", "body", "rollback", "leave"}
         /\ IF o.phase = "leave" THEN Departs(g, o) /\ o.verdict \in Verdicts
            ELSE IF o.kind = "install" THEN o.phase = "body" => Quiet(g)
            ELSE o.phase = "body" /\ Whole(g, "FORCE")
<1>0. o \in Ops /\ SameOp(o, o)
  BY DEF Proper, SameOp
<1>1. CASE \E k \in 1..3 : Entering(h, o, k)
  <2>1. PICK k \in 1..3 : Entering(h, o, k)
    BY <1>1
  <2>2. Head(o.todo) = EnterSteps[k] /\ o.phase = "enter" /\ o.kind = "install"
    BY <2>1, EnteringAt DEF EntersAt, Entered
  <2>3. Proper(g, o)
    BY <2>1, <2>2, EnterLeaves DEF CutShort
  <2> QED BY <2>2, <2>3
<1>2. CASE \E k \in 1..12 : Erasing(h, o, k)
  <2>1. PICK k \in 1..12 : Erasing(h, o, k)
    BY <1>2
  <2>2. Head(o.todo) = RemoveSteps[k] /\ o.phase = "body"
    BY <2>1, ErasingAt DEF ErasesAt
  <2>3. g = h \/ (/\ ~Skips(RemoveSteps[k], o, h)
                  /\ \/ g \in Partly(RemoveSteps[k], o, h)
                     \/ g = Done(RemoveSteps[k], o, h) /\ ~Can(RemoveSteps[k], o, h))
    BY <2>2 DEF CutShort
  <2>4. Proper(g, o) /\ Whole(g, "FORCE") /\ (o.kind = "install" => Quiet(g))
    BY <2>1, <2>3, EraseLeaves, Zenon
  <2> QED BY <2>2, <2>4
<1>3. CASE o.kind = "install" /\ Erasing(h, o, 13)
  <2>1. /\ Head(o.todo) = Do("removed") /\ o.phase = "body"
        /\ Done(Do("removed"), o, h) = h
        /\ Erased(h, o, Behind(RemoveSteps, 13))
    BY <1>3, RemovedAt
  <2>2. g = h
    <3>1. "removed" \in Verbs \ {"inhibit", "stop", "release"}
      BY DEF Verbs
    <3> QED BY <2>1, <3>1, PartlyRest DEF CutShort
  <2>3. Quiet(g)
    BY <1>3, <2>1, <2>2 DEF Erased
  <2> QED BY <1>3, <2>1, <2>2, <2>3
<1>4. CASE \E k \in 1..15 : Building(h, o, k)
  <2>1. PICK k \in 1..15 : Building(h, o, k)
    BY <1>4
  <2>2. Head(o.todo) = BuildSteps[k] /\ o.kind = "install" /\ o.phase = "body"
    BY <2>1, BuildingAt DEF BuildsAt
  <2>3. g = h \/ g \in Partly(BuildSteps[k], o, h)
    BY <2>2 DEF CutShort
  <2>4. Proper(g, o) /\ Quiet(g)
    BY <1>0, <2>1, <2>3, BuildLeaves, Zenon
  <2> QED BY <2>2, <2>4
<1>5. CASE \E k \in 1..17 : Undoing(h, o, k)
  <2>1. PICK k \in 1..17 : Undoing(h, o, k)
    BY <1>5
  <2>2. Head(o.todo) = RollbackSteps[k] /\ o.kind = "install" /\ o.phase = "rollback"
    BY <2>1, UndoingAt DEF UndoesAt, Undone
  <2>3. g = h \/ g \in Partly(RollbackSteps[k], o, h) \/ g = Done(RollbackSteps[k], o, h)
    BY <2>2 DEF CutShort
  <2>4. Proper(g, o)
    BY <1>0, <2>1, <2>3, UndoLeaves, Zenon
  <2> QED BY <2>2, <2>4
<1>6. CASE Departing(h, o)
  <2>1. Head(o.todo) = Do("release") /\ o.phase = "leave"
    BY <1>6, DepartingAt
  <2>2. g = h \/ g \in Partly(Do("release"), o, h)
    BY <2>1 DEF CutShort
  <2>3. /\ Departs(g, o) /\ o.verdict \in Verdicts
        /\ \A x : SameOp(o, x) => Proper(g, x)
    BY <1>6, <2>2, DepartLeaves
  <2> QED BY <1>0, <2>1, <2>3
<1> QED BY <1>1, <1>2, <1>3, <1>4, <1>5, <1>6, AtWork

(* KeyboardInterrupt.                                                       *)
LEMMA InterruptedGoes ==
  ASSUME NEW h, NEW o, Proper(h, o), Going(h, o), o.phase # "ended", o.troubled,
         NEW g, CutShort(h, o, g)
  PROVE  Proper(g, Interrupted(o)) /\ Going(g, Interrupted(o))
<1>1. /\ Proper(g, o) /\ o.phase \in {"enter", "body", "rollback", "leave"}
      /\ IF o.phase = "leave" THEN Departs(g, o) /\ o.verdict \in Verdicts
         ELSE IF o.kind = "install" THEN o.phase = "body" => Quiet(g)
         ELSE o.phase = "body" /\ Whole(g, "FORCE")
  BY CutShortLeaves
<1>2. "interrupted" \in Verdicts
  BY DEF Verdicts
<1>3. CASE o.phase = "leave"
  <2>1. Interrupted(o) = Ended(o, o.verdict)
    BY <1>3 DEF Interrupted
  <2> QED BY <1>1, <1>3, <2>1, EndedGoes DEF Departs
<1>4. CASE o.phase \in {"enter", "rollback"}
  <2>1. Interrupted(o) = Leaving(o, "interrupted")
    BY <1>4 DEF Interrupted
  <2> QED BY <1>1, <1>2, <1>4, <2>1, LeavingGoes
<1>5. CASE o.phase = "body" /\ o.kind = "install"
  <2>1. Interrupted(o) = RollingBack(o)
    BY <1>5 DEF Interrupted
  <2> QED BY <1>1, <1>5, <2>1, RollingBackGoes
<1>6. CASE o.phase = "body" /\ o.kind # "install"
  <2>1. \/ Interrupted(o) = Leaving(o, "interrupted")
        \/ Interrupted(o) = Ended(o, "interrupted")
    BY <1>6 DEF Interrupted
  <2>2. Proper(g, Leaving(o, "interrupted")) /\ Going(g, Leaving(o, "interrupted"))
    BY <1>1, <1>2, <1>6, LeavingGoes
  <2>3. Proper(g, Ended(o, "interrupted")) /\ Going(g, Ended(o, "interrupted"))
    BY <1>1, <1>2, <1>6, EndedGoes
  <2> QED BY <2>1, <2>2, <2>3
<1> QED BY <1>1, <1>3, <1>4, <1>5, <1>6

(* SIGKILL.                                                                 *)
LEMMA KilledGoes ==
  ASSUME NEW h, NEW o, Proper(h, o), Going(h, o), o.phase # "ended", o.troubled,
         NEW g, CutShort(h, o, g)
  PROVE  Proper(g, Ended(o, "killed")) /\ Going(g, Ended(o, "killed"))
<1>1. /\ Proper(g, o)
      /\ IF o.phase = "leave" THEN Departs(g, o) /\ o.verdict \in Verdicts
         ELSE IF o.kind = "install" THEN o.phase = "body" => Quiet(g)
         ELSE o.phase = "body" /\ Whole(g, "FORCE")
  BY CutShortLeaves
<1>2. "killed" \in Verdicts
  BY DEF Verdicts
<1>3. o.kind # "install" => Whole(g, "FORCE") \/ ~Present(g, Items)
  BY <1>1 DEF Departs, Holds
<1> QED BY <1>1, <1>2, <1>3, EndedGoes

-----------------------------------------------------------------------------
(* Trouble is noted where it happens; noting it first comes to the same.    *)

(* What Troubled() changes of an operation.                                 *)
LEMMA TroubledIs ==
  ASSUME NEW o \in Ops
  PROVE  LET x == Troubled(o)
         IN /\ SameOp(o, x) /\ x.troubled
            /\ x.phase = o.phase /\ x.todo = o.todo /\ x.errors = o.errors
            /\ x.import = o.import /\ x.added = o.added /\ x.owned = o.owned
            /\ x.verdict = o.verdict
<1> DEFINE x == Troubled(o)
<1>1. x = [o EXCEPT !.troubled = TRUE]
  BY DEF Troubled
<1>2. x \in Ops
  BY <1>1 DEF Ops
<1>3. /\ x.kind = o.kind /\ x.rel = o.rel /\ x.before = o.before /\ x.troubled
      /\ x.phase = o.phase /\ x.todo = o.todo /\ x.errors = o.errors
      /\ x.import = o.import /\ x.added = o.added /\ x.owned = o.owned
      /\ x.verdict = o.verdict
  BY <1>1 DEF Ops
<1> QED BY <1>2, <1>3 DEF SameOp

(* Trouble may be noted before the end or after it.                         *)
LEMMA TroubledEnded ==
  ASSUME NEW o \in Ops, NEW verdict
  PROVE  /\ Ended(Troubled(o), verdict) = Troubled(Ended(o, verdict))
         /\ Leaving(Troubled(o), verdict) = Troubled(Leaving(o, verdict))
         /\ RollingBack(Troubled(o)) = Troubled(RollingBack(o))
<1>1. Ended(Troubled(o), verdict) = Troubled(Ended(o, verdict))
  BY DEF Ended, Troubled, Ops
<1>2. Leaving(Troubled(o), verdict) = Troubled(Leaving(o, verdict))
  BY DEF Leaving, Troubled, Ops
<1>3. RollingBack(Troubled(o)) = Troubled(RollingBack(o))
  BY DEF RollingBack, Troubled, Ops
<1> QED BY <1>1, <1>2, <1>3

(* Nothing the steps look at.                                               *)
LEMMA TroubledNested ==
  ASSUME NEW o \in Ops
  PROVE  /\ Nested(Troubled(o)) <=> Nested(o)
         /\ Attempted(Troubled(o)) <=> Attempted(o)
<1>1. /\ Troubled(o).kind = o.kind /\ Troubled(o).phase = o.phase
      /\ Troubled(o).todo = o.todo
  BY TroubledIs DEF SameOp
<1>2. Nested(Troubled(o)) <=> Nested(o)
  BY <1>1 DEF Nested
<1> QED BY <1>1, <1>2 DEF Attempted

(* Trouble changes no step.                                                 *)
LEMMA TroubledSteps ==
  ASSUME NEW h, NEW o \in Ops, NEW step
  PROVE  LET x == Troubled(o)
         IN /\ Skips(step, x, h) <=> Skips(step, o, h)
            /\ Can(step, x, h) <=> Can(step, o, h)
            /\ Done(step, x, h) = Done(step, o, h)
            /\ Partly(step, x, h) = Partly(step, o, h)
<1> DEFINE x == Troubled(o)
<1>1. /\ x.kind = o.kind /\ x.phase = o.phase /\ x.todo = o.todo
      /\ x.errors = o.errors /\ x.owned = o.owned /\ x.before = o.before
      /\ x.rel = o.rel /\ x.import = o.import /\ x.added = o.added
  BY TroubledIs DEF SameOp
<1>2. Nested(x) <=> Nested(o)
  BY TroubledNested
<1> HIDE DEF x
<1>3. RemovalSkips(step, x) <=> RemovalSkips(step, o)
  BY <1>1 DEF RemovalSkips
<1>4. RollbackSkips(step, x) <=> RollbackSkips(step, o)
  BY <1>1 DEF RollbackSkips
<1>5. Skips(step, x, h) <=> Skips(step, o, h)
  BY <1>1, <1>2, <1>3, <1>4 DEF Skips
<1>6. Can(step, x, h) <=> Can(step, o, h)
  BY <1>1 DEF Can
<1>7. Done(step, x, h) = Done(step, o, h)
  BY <1>1 DEF Done
<1>8. Partly(step, x, h) = Partly(step, o, h)
  BY <1>7 DEF Partly
<1> QED BY <1>5, <1>6, <1>7, <1>8 DEF x

(* Trouble changes no order.                                                *)
LEMMA TroubledOnward ==
  ASSUME NEW o \in Ops
  PROVE  Onward(Troubled(o)) = Troubled(Onward(o))
<1> DEFINE x == Troubled(o)
<1>1. /\ x.kind = o.kind /\ x.phase = o.phase /\ x.todo = o.todo
      /\ x.errors = o.errors /\ x.before = o.before /\ x.verdict = o.verdict
  BY TroubledIs DEF SameOp
<1>2. \A todo : [x EXCEPT !.phase = "body", !.todo = todo]
                = Troubled([o EXCEPT !.phase = "body", !.todo = todo])
  BY DEF Troubled, Ops
<1>3. \A verdict : /\ Ended(x, verdict) = Troubled(Ended(o, verdict))
                   /\ Leaving(x, verdict) = Troubled(Leaving(o, verdict))
  BY TroubledEnded
<1> HIDE DEF x
<1>4. CASE o.todo # <<>>
  BY <1>1, <1>4 DEF Onward, x
<1>5. CASE o.todo = <<>> /\ o.phase = "enter"
  <2>1. Onward(o) = [o EXCEPT !.phase = "body",
                              !.todo = InstallSteps(Present(o.before, Items))]
    BY <1>5 DEF Onward
  <2>2. Onward(x) = [x EXCEPT !.phase = "body",
                              !.todo = InstallSteps(Present(x.before, Items))]
    BY <1>1, <1>5 DEF Onward
  <2> QED BY <1>1, <1>2, <2>1, <2>2 DEF x
<1>6. CASE o.todo = <<>> /\ o.phase = "leave"
  BY <1>1, <1>3, <1>6 DEF Onward, x
<1>7. CASE o.todo = <<>> /\ o.phase = "rollback"
  BY <1>1, <1>3, <1>7 DEF Onward, x
<1>8. CASE o.todo = <<>> /\ o.phase = "body" /\ o.kind = "install"
  BY <1>1, <1>3, <1>8 DEF Onward, x
<1>9. CASE o.todo = <<>> /\ o.phase \in {"body", "ended"}
           /\ ~(o.phase = "body" /\ o.kind = "install")
  BY <1>1, <1>3, <1>9 DEF Onward, x
<1> QED BY <1>4, <1>5, <1>6, <1>7, <1>8, <1>9 DEF Ops

(* Trouble comes after or before the step that raised.                      *)
LEMMA TroubledRaised ==
  ASSUME NEW o \in Ops, o.todo # <<>>
  PROVE  /\ Raised(Troubled(o)) = Troubled(Raised(o))
         /\ Interrupted(Troubled(o)) = Troubled(Interrupted(o))
<1> DEFINE x == Troubled(o)
<1>1. /\ x.kind = o.kind /\ x.phase = o.phase /\ x.todo = o.todo
      /\ x.errors = o.errors /\ x.verdict = o.verdict
  BY TroubledIs DEF SameOp
<1>2. \A verdict : /\ Ended(x, verdict) = Troubled(Ended(o, verdict))
                   /\ Leaving(x, verdict) = Troubled(Leaving(o, verdict))
  BY TroubledEnded
<1>3. RollingBack(x) = Troubled(RollingBack(o))
  BY TroubledEnded
<1>4. Attempted(x) <=> Attempted(o)
  BY TroubledNested
<1>5. Erred(x) = Troubled(Erred(o)) /\ Erred(o) \in Ops
  <2>1. Moves(o, Erred(o), o.errors \cup {Head(o.todo)}, o.added)
    BY ErrorMoves, Zenon DEF Erred
  <2>2. Erred(o) \in Ops
    BY <2>1 DEF Moves, SameOp
  <2>3. Erred(x) = Troubled(Erred(o))
    BY DEF Erred, Passed, Troubled, Ops
  <2> QED BY <2>2, <2>3
<1>6. Onward(Troubled(Erred(o))) = Troubled(Onward(Erred(o)))
  BY <1>5, TroubledOnward
<1> HIDE DEF x
<1>7. Raised(x) = Troubled(Raised(o))
  <2>1. CASE Attempted(o)
    BY <1>4, <1>5, <1>6, <2>1 DEF Raised, Erred
  <2>2. CASE ~Attempted(o) /\ o.phase = "body"
    BY <1>1, <1>3, <1>4, <2>2 DEF Raised
  <2>3. CASE ~Attempted(o) /\ o.phase = "enter"
    BY <1>1, <1>2, <1>4, <2>3 DEF Raised
  <2>4. CASE ~Attempted(o) /\ o.phase \notin {"body", "enter"}
    BY <1>1, <1>2, <1>4, <2>4 DEF Raised
  <2> QED BY <2>1, <2>2, <2>3, <2>4
<1>8. Interrupted(x) = Troubled(Interrupted(o))
  <2>1. CASE o.phase = "leave"
    BY <1>1, <1>2, <2>1 DEF Interrupted
  <2>2. CASE o.phase \in {"enter", "rollback"}
    BY <1>1, <1>2, <2>2 DEF Interrupted
  <2>3. CASE o.phase = "body" /\ o.kind = "install"
    BY <1>1, <1>3, <2>3 DEF Interrupted
  <2>4. CASE o.phase \in {"body", "ended"} /\ ~(o.phase = "body" /\ o.kind = "install")
    <3> DEFINE late == In(Do("release"), Tail(o.todo)) /\ ~In(Drop("DROPIN"), o.todo)
    <3>1. Interrupted(o) = IF late THEN Leaving(o, "interrupted")
                           ELSE Ended(o, "interrupted")
      BY <2>4 DEF Interrupted
    <3>2. Interrupted(x) = IF late THEN Leaving(x, "interrupted")
                           ELSE Ended(x, "interrupted")
      BY <1>1, <2>4 DEF Interrupted
    <3> QED BY <1>2, <3>1, <3>2
  <2> QED BY <2>1, <2>2, <2>3, <2>4 DEF Ops
<1> QED BY <1>7, <1>8 DEF x

(* It stays where it was.                                                   *)
LEMMA TroubledGoes ==
  ASSUME NEW h, NEW o, Proper(h, o), Going(h, o)
  PROVE  Proper(h, Troubled(o)) /\ Going(h, Troubled(o))
<1> DEFINE x == Troubled(o)
<1>0. o \in Ops
  BY DEF Proper
<1>1. /\ SameOp(o, x) /\ x.troubled
      /\ x.phase = o.phase /\ x.todo = o.todo /\ x.errors = o.errors
      /\ x.added = o.added /\ x.owned = o.owned /\ x.verdict = o.verdict
  BY <1>0, TroubledIs
<1> HIDE DEF x
<1>2. /\ x.kind = o.kind /\ x.before = o.before /\ x.rel = o.rel
      /\ MaskIsOurs(h, x) /\ MaskIsGone(h, x)
  BY <1>1 DEF SameOp, MaskIsOurs, MaskIsGone
<1>3. \A past : Entered(h, o, past) => Entered(h, x, past)
  BY <1>1, <1>2 DEF Entered
<1>4. \A past : Erased(h, o, past) => Erased(h, x, past)
  BY <1>1, <1>2 DEF Erased
<1>5. \A past : Built(h, o, past) => Built(h, x, past)
  BY <1>1, <1>2 DEF Built
<1>6. \A past : Undone(h, o, past) => Undone(h, x, past)
  BY <1>1, <1>2 DEF Undone
<1>7. Holds(h, o) => Holds(h, x)
  BY <1>1, <1>2 DEF Holds
<1>8. /\ \A k : Entering(h, o, k) => Entering(h, x, k)
      /\ \A k : Erasing(h, o, k) => Erasing(h, x, k)
      /\ \A k : Building(h, o, k) => Building(h, x, k)
      /\ \A k : Undoing(h, o, k) => Undoing(h, x, k)
      /\ Departing(h, o) => Departing(h, x)
      /\ Over(h, o) => Over(h, x)
  BY <1>1, <1>2, <1>3, <1>4, <1>5, <1>6, <1>7
     DEF Entering, Erasing, Building, Undoing, Departing, Departs, Over
<1>9. Going(h, x)
  BY <1>2, <1>8, Zenon DEF Going
<1> QED BY <1>1, <1>9, ProperSame DEF x

(* A process at work has a step to do.                                      *)
LEMMA HasStep ==
  ASSUME NEW h, NEW o, Proper(h, o), Going(h, o), o.phase # "ended"
  PROVE  o \in Ops /\ o.todo # <<>>
<1>0. SUFFICES o.todo # <<>>
  BY DEF Proper
<1>1. CASE \E k \in 1..3 : Entering(h, o, k)
  BY <1>1, EnteringAt, Zenon DEF EntersAt
<1>2. CASE \E k \in 1..12 : Erasing(h, o, k)
  BY <1>2, ErasingAt, Zenon DEF ErasesAt
<1>3. CASE o.kind = "install" /\ Erasing(h, o, 13)
  BY <1>3, RemovedAt
<1>4. CASE \E k \in 1..15 : Building(h, o, k)
  BY <1>4, BuildingAt, Zenon DEF BuildsAt
<1>5. CASE \E k \in 1..17 : Undoing(h, o, k)
  BY <1>5, UndoingAt, Zenon DEF UndoesAt
<1>6. CASE Departing(h, o)
  BY <1>6, DepartingAt
<1> QED BY <1>1, <1>2, <1>3, <1>4, <1>5, <1>6, AtWork, Zenon

-----------------------------------------------------------------------------
(* The host and the operation after a step of the process.                  *)

(* The mask of a process that has gone is nobody's.                         *)
LEMMA BecomesGoes ==
  ASSUME NEW g, NEW x, Proper(g, x), Going(g, x), Becomes(g, x),
         trouble' \in 0..MaxTrouble
  PROVE  IInv'
<1>1. op' = x /\ host' = IF x.phase = "ended" /\ g.mask = "ours"
                         THEN [g EXCEPT !.mask = "other"] ELSE g
  BY DEF Becomes
<1>2. CASE x.phase = "ended" /\ g.mask = "ours"
  <2> DEFINE h == [g EXCEPT !.mask = "other"]
  <2>0. g \in Hosts
    BY DEF Proper
  <2>1. Over(g, x)
    BY <1>2, Zenon DEF Going, Entering, Erasing, Building, Undoing, Departing
  <2>2. x.troubled
    BY <1>2, <2>1 DEF Over, MaskIsGone, Proper
  <2>3. Masks(g, h, "other", g.loaded, g.running)
    BY <2>0 DEF Masks, SameDisk, Hosts
  <2> HIDE DEF h
  <2>4. Proper(h, x)
    BY <2>3, ProperMasks DEF Proper, SameOp
  <2>5. Holds(h, x)
    BY <2>1, <2>3 DEF Over, Holds, Masks, SameDisk, AsBefore, Whole, Present
  <2>6. Over(h, x) /\ h.mask # "ours"
    BY <1>2, <2>2, <2>3, <2>5 DEF Over, MaskIsGone, Masks
  <2>7. Going(h, x)
    BY <2>6, Zenon DEF Going
  <2>8. host' = h
    BY <1>1, <1>2 DEF h
  <2> QED BY <1>1, <2>4, <2>6, <2>7, <2>8 DEF IInv, Working
<1>3. CASE ~(x.phase = "ended" /\ g.mask = "ours")
  <2>1. host' = g
    BY <1>1, <1>3
  <2> QED BY <1>1, <1>3, <2>1 DEF IInv, Working
<1> QED BY <1>2, <1>3

-----------------------------------------------------------------------------
(* The service and systemd, which act at any time.                          *)

(* Whatever systemd does to a service that is not masked, or is quiet.      *)
LEMMA ServiceGoes ==
  ASSUME NEW h, NEW o, Proper(h, o), Going(h, o), NEW g, NEW loaded, NEW running,
         Masks(h, g, h.mask, loaded, running), Quiet(h) => Quiet(g)
  PROVE  Proper(g, o) /\ Going(g, o)
<1>1. Proper(g, o)
  BY ProperMasks DEF Proper, SameOp
<1>2. /\ g.disk = h.disk /\ g.owns = h.owns /\ g.rule = h.rule
      /\ g.policy = h.policy /\ g.material = h.material /\ g.mask = h.mask
  BY DEF Masks, SameDisk
<1>3. \A item : Whole(g, item) <=> Whole(h, item)
  BY <1>2 DEF Whole
<1>4. Present(g, Items) <=> Present(h, Items)
  BY <1>2 DEF Present
<1>5. /\ AsBefore(h, o.before) => AsBefore(g, o.before)
      /\ MaskIsOurs(h, o) => MaskIsOurs(g, o)
      /\ MaskIsGone(h, o) => MaskIsGone(g, o)
  BY <1>2 DEF AsBefore, MaskIsOurs, MaskIsGone
<1>6. \A past : Entered(h, o, past) => Entered(g, o, past)
  BY <1>2, <1>5 DEF Entered
<1>7. \A past : Erased(h, o, past) => Erased(g, o, past)
  BY <1>2, <1>3, <1>5 DEF Erased
<1>8. \A past : Built(h, o, past) => Built(g, o, past)
  BY <1>2, <1>5 DEF Built
<1>9. \A past : Undone(h, o, past) => Undone(g, o, past)
  BY <1>2 DEF Undone
<1>10. Holds(h, o) => Holds(g, o)
  BY <1>2, <1>3, <1>4, <1>5 DEF Holds
<1>11. /\ \A k : Entering(h, o, k) => Entering(g, o, k)
       /\ \A k : Erasing(h, o, k) => Erasing(g, o, k)
       /\ \A k : Building(h, o, k) => Building(g, o, k)
       /\ \A k : Undoing(h, o, k) => Undoing(g, o, k)
       /\ Departing(h, o) => Departing(g, o)
       /\ Over(h, o) => Over(g, o)
  BY <1>5, <1>6, <1>7, <1>8, <1>9, <1>10
     DEF Entering, Erasing, Building, Undoing, Departing, Departs, Over
<1>12. Going(g, o)
  BY <1>11, Zenon DEF Going
<1> QED BY <1>1, <1>12

(* Between operations.                                                      *)
LEMMA IdleIsOver ==
  ASSUME IInv, ~Working
  PROVE  /\ host \in Hosts /\ Over(host, op) /\ host.mask # "ours"
         /\ host.owns => Whole(host, "RUNTIME") /\ host.rule # "admin"
<1>1. op.phase = "ended"
  BY DEF Working
<1>2. Over(host, op)
  BY <1>1, Zenon DEF IInv, Going, Entering, Erasing, Building, Undoing, Departing
<1> QED BY <1>2 DEF IInv, Proper

-----------------------------------------------------------------------------
(* The start of an operation.                                               *)

(* How an operation starts.                                                 *)
Begins(h, kind, x) ==
  /\ x \in Ops /\ x.kind = kind /\ x.errors = {} /\ ~x.added
  /\ x.phase = IF kind = "install" THEN "enter" ELSE "body"
  /\ x.todo = IF kind = "install" THEN EnterSteps ELSE RemoveSteps
  /\ x.owned = (kind = "force" \/ h.owns) /\ x.before.owns = h.owns
  /\ x.before.mask = h.mask /\ x.before.disk = h.disk
  /\ x.before.rule = h.rule /\ AsBefore(h, x.before)

(* An operation that begins.                                                *)
LEMMA NewOpIs ==
  ASSUME NEW h \in Hosts, NEW kind \in {"install", "normal", "force"}
  PROVE  Begins(h, kind, NewOp(kind, h))
<1> DEFINE before == [disk |-> h.disk, owns |-> h.owns, rule |-> h.rule,
                      policy |-> h.policy, mask |-> h.mask]
           y == NewOp(kind, h)
<1>1. before \in Befores
  BY DEF Befores, Hosts, Contents
<1>2. EnterSteps \in Seq(Steps) /\ RemoveSteps \in Seq(Steps)
  BY EnterProgram, RemoveProgram
<1>3. /\ before.disk = h.disk /\ before.owns = h.owns /\ before.rule = h.rule
      /\ before.policy = h.policy /\ before.mask = h.mask
  OBVIOUS
<1>4. y = [kind |-> kind, phase |-> IF kind = "install" THEN "enter" ELSE "body",
           todo |-> IF kind = "install" THEN EnterSteps ELSE RemoveSteps,
           errors |-> {}, rel |-> Absent, import |-> FALSE, added |-> FALSE,
           owned |-> kind = "force" \/ h.owns, troubled |-> FALSE,
           verdict |-> "none", before |-> before]
  BY DEF NewOp
<1> HIDE DEF before, y
<1>5. y \in Ops
  BY <1>1, <1>2, <1>4 DEF Ops, Verdicts
<1>6. /\ y.kind = kind /\ y.errors = {} /\ ~y.added
      /\ y.phase = IF kind = "install" THEN "enter" ELSE "body"
      /\ y.todo = IF kind = "install" THEN EnterSteps ELSE RemoveSteps
      /\ y.owned = (kind = "force" \/ h.owns) /\ y.before = before
  BY <1>4
<1>7. Begins(h, kind, y)
  BY <1>3, <1>5, <1>6 DEF Begins, AsBefore
<1> QED BY <1>7 DEF y

(* An operation begins with the host that the last one left.                *)
LEMMA BeginsProper ==
  ASSUME NEW h \in Hosts, h.owns => Whole(h, "RUNTIME") /\ h.rule # "admin",
         h.mask # "ours", NEW kind, NEW x, Begins(h, kind, x),
         kind = "install" => x.rel \in Release
  PROVE  Proper(h, x)
BY DEF Begins, Proper, Whole

(* apply() up to its first change.                                          *)
LEMMA BeginInstallGoes ==
  ASSUME IInv, BeginInstall
  PROVE  IInv'
<1> DEFINE y == NewOp("install", host)
<1>1. PICK rel \in Release, import \in BOOLEAN :
        op' = [y EXCEPT !.rel = rel, !.import = import]
  BY DEF BeginInstall
<1>2. /\ host \in Hosts /\ host.mask # "ours"
      /\ host.owns => Whole(host, "RUNTIME") /\ host.rule # "admin"
  BY IdleIsOver DEF BeginInstall
<1>3. /\ host' = host /\ trouble' = trouble
      /\ Present(host, Items) => Preflight(host)
  BY DEF BeginInstall
<1> DEFINE x == [y EXCEPT !.rel = rel, !.import = import]
<1>4. Begins(host, "install", y)
  BY <1>2, NewOpIs
<1> HIDE DEF y
<1>5. y \in Ops
  BY <1>4 DEF Begins
<1>6. x \in Ops
  BY <1>5 DEF Ops
<1>7. /\ x.kind = y.kind /\ x.errors = y.errors /\ x.added = y.added
      /\ x.phase = y.phase /\ x.todo = y.todo /\ x.owned = y.owned
      /\ x.before = y.before /\ x.rel = rel
  BY <1>5 DEF Ops
<1> HIDE DEF x
<1>8. Begins(host, "install", x)
  BY <1>4, <1>6, <1>7 DEF Begins
<1>9. Proper(host, x)
  BY <1>2, <1>7, <1>8, BeginsProper
<1>10. Found(x.before)
  BY <1>3, <1>8 DEF Begins, Found, Present, Preflight, Whole
<1>11. Entered(host, x, {}) /\ x.phase = "enter" /\ x.todo = EnterSteps
  <2>1. host.owns \in BOOLEAN /\ x.owned = (FALSE \/ host.owns)
    BY <1>2, <1>8 DEF Begins, Hosts
  <2>2. x.owned = x.before.owns
    <3>1. CASE host.owns
      BY <1>8, <2>1, <3>1 DEF Begins
    <3>2. CASE ~host.owns
      BY <1>8, <2>1, <3>2 DEF Begins
    <3> QED BY <3>1, <3>2
  <2>3. /\ x.kind = "install" /\ x.errors = {} /\ ~x.added
        /\ x.phase = "enter" /\ x.todo = EnterSteps
        /\ AsBefore(host, x.before) /\ x.before.mask = host.mask
    BY <1>8 DEF Begins
  <2> QED BY <1>10, <2>2, <2>3 DEF Entered, MaskIsOurs
<1>12. Rest(EnterSteps, 1) = EnterSteps /\ Behind(EnterSteps, 1) = {}
  BY EnterProgram, RestEnd, Zenon
<1>13. Entering(host, x, 1)
  BY <1>11, <1>12, Zenon DEF Entering
<1>14. 1 \in 1..3
  OBVIOUS
<1>15. Going(host, x)
  BY <1>13, <1>14, Zenon DEF Going
<1>16. op' = x
  BY <1>1 DEF x
<1> QED BY <1>2, <1>3, <1>9, <1>15, <1>16 DEF IInv

(* remove() up to its first change, by either command.                      *)
LEMMA BeginRemovalGoes ==
  ASSUME IInv, NEW kind \in {"normal", "force"}, BeginRemoval(kind)
  PROVE  IInv'
<1>1. /\ host \in Hosts /\ host.mask # "ours"
      /\ host.owns => Whole(host, "RUNTIME") /\ host.rule # "admin"
  BY IdleIsOver DEF BeginRemoval
<1> DEFINE x == NewOp(kind, host)
<1>2. /\ host' = host /\ trouble' = trouble /\ op' = x
  BY DEF BeginRemoval
<1>3. Whole(host, "FORCE")
  BY DEF BeginRemoval, Preflight, Whole, Tools
<1>4. Begins(host, kind, x)
  BY <1>1, NewOpIs
<1> HIDE DEF x
<1>5. Proper(host, x)
  BY <1>1, <1>4, BeginsProper
<1>6. Erased(host, x, {}) /\ x.phase = "body" /\ x.todo = RemoveSteps /\ x.kind # "install"
  BY <1>3, <1>4 DEF Begins, Erased, MaskIsOurs
<1>7. Rest(RemoveSteps, 1) = RemoveSteps /\ Behind(RemoveSteps, 1) = {}
  BY RemoveProgram, RestEnd, Zenon
<1>8. Erasing(host, x, 1)
  BY <1>6, <1>7, Zenon DEF Erasing
<1>9. 1 \in 1..12
  OBVIOUS
<1>10. Going(host, x)
  BY <1>8, <1>9, Zenon DEF Going
<1> QED BY <1>1, <1>2, <1>5, <1>10 DEF IInv

-----------------------------------------------------------------------------
(* Every step keeps it.                                                     *)

(* A step for which there is no cause.                                      *)
LEMMA SkipGoes ==
  ASSUME IInv, Skip
  PROVE  IInv'
<1> DEFINE x == Passed(op)
<1>1. /\ op.phase # "ended" /\ Skips(Head(op.todo), op, host)
      /\ Becomes(host, Onward(x)) /\ trouble' = trouble
  BY DEF Skip, Working
<1>2. Proper(host, op) /\ Going(host, op) /\ trouble' \in 0..MaxTrouble
  BY <1>1 DEF IInv
<1>3. Proper(host, x) /\ Near(host, x)
  BY <1>1, <1>2, SkipNear, Zenon
<1>4. Proper(host, Onward(x)) /\ Going(host, Onward(x))
  BY <1>3, OnwardGoes, Zenon
<1> QED BY <1>1, <1>2, <1>4, BecomesGoes, Zenon

(* A step that succeeds.                                                    *)
LEMMA SucceedGoes ==
  ASSUME IInv, Succeed
  PROVE  IInv'
<1> DEFINE x == Advanced(host, op)
           g == Done(Head(op.todo), op, host)
<1>1. /\ op.phase # "ended" /\ ~Skips(Head(op.todo), op, host)
      /\ Can(Head(op.todo), op, host) /\ trouble' = trouble
      /\ Becomes(g, Onward(x))
  BY DEF Succeed, Working, Advanced
<1>2. Proper(host, op) /\ Going(host, op) /\ trouble' \in 0..MaxTrouble
  BY <1>1 DEF IInv
<1>3. Proper(g, x) /\ Near(g, x)
  BY <1>1, <1>2, SucceedNear, Zenon
<1>4. Proper(g, Onward(x)) /\ Going(g, Onward(x))
  BY <1>3, OnwardGoes, Zenon
<1> QED BY <1>1, <1>2, <1>4, BecomesGoes, Zenon

(* A check that fails for what it finds.                                    *)
LEMMA RefuseGoes ==
  ASSUME IInv, Refuse
  PROVE  IInv'
<1> DEFINE g == Done(Head(op.todo), op, host)
<1>1. /\ op.phase # "ended" /\ ~Skips(Head(op.todo), op, host)
      /\ ~Can(Head(op.todo), op, host) /\ trouble' = trouble
      /\ Becomes(g, Raised(op))
  BY DEF Refuse, Working
<1>2. Proper(host, op) /\ Going(host, op) /\ trouble' \in 0..MaxTrouble
  BY <1>1 DEF IInv
<1>3. op.troubled
  BY <1>1, <1>2, RefusedForCause, Zenon
<1>4. Proper(g, Raised(op)) /\ Going(g, Raised(op))
  BY <1>1, <1>2, <1>3, RaisedGoes, Zenon
<1> QED BY <1>1, <1>2, <1>4, BecomesGoes, Zenon

(* What goes wrong is noted, and goes wrong where the operation is.         *)
LEMMA WrongIs ==
  ASSUME IInv, op.phase # "ended", GoesWrong
  PROVE  LET x == Troubled(op)
         IN /\ Proper(host, x) /\ Going(host, x) /\ x.phase # "ended" /\ x.troubled
            /\ Raised(x) = Troubled(Raised(op))
            /\ Interrupted(x) = Troubled(Interrupted(op))
            /\ Ended(x, "killed") = Troubled(Ended(op, "killed"))
            /\ Skips(Head(x.todo), x, host) <=> Skips(Head(op.todo), op, host)
            /\ Partly(Head(x.todo), x, host) = Partly(Head(op.todo), op, host)
            /\ trouble' \in 0..MaxTrouble
<1> DEFINE x == Troubled(op)
<1>1. Proper(host, op) /\ Going(host, op)
  BY DEF IInv
<1>2. op \in Ops /\ op.todo # <<>>
  BY <1>1, HasStep
<1>3. Proper(host, x) /\ Going(host, x)
  BY <1>1, TroubledGoes
<1>4. x.troubled /\ x.phase = op.phase /\ x.todo = op.todo
  BY <1>2, TroubledIs
<1>5. Raised(x) = Troubled(Raised(op)) /\ Interrupted(x) = Troubled(Interrupted(op))
  BY <1>2, TroubledRaised
<1>6. Ended(x, "killed") = Troubled(Ended(op, "killed"))
  BY <1>2, TroubledEnded
<1>7. /\ Skips(Head(op.todo), x, host) <=> Skips(Head(op.todo), op, host)
      /\ Partly(Head(op.todo), x, host) = Partly(Head(op.todo), op, host)
  BY <1>2, TroubledSteps
<1>8. trouble' \in 0..MaxTrouble
  BY DeploymentAssumption DEF IInv, GoesWrong
<1> HIDE DEF x
<1>9. Head(x.todo) = Head(op.todo)
  BY <1>4
<1> QED BY <1>3, <1>4, <1>5, <1>6, <1>7, <1>8, <1>9, Zenon DEF x

(* A step that raises, having done all, some or none of it.                 *)
LEMMA FailGoes ==
  ASSUME IInv, Fail
  PROVE  IInv'
<1> DEFINE x == Troubled(op)
<1>1. /\ op.phase # "ended" /\ ~Skips(Head(op.todo), op, host) /\ GoesWrong
      /\ \E g \in Partly(Head(op.todo), op, host) : Becomes(g, Troubled(Raised(op)))
  BY DEF Fail, Working
<1>2. /\ Proper(host, x) /\ Going(host, x) /\ x.phase # "ended" /\ x.troubled
      /\ Raised(x) = Troubled(Raised(op))
      /\ Skips(Head(x.todo), x, host) <=> Skips(Head(op.todo), op, host)
      /\ Partly(Head(x.todo), x, host) = Partly(Head(op.todo), op, host)
      /\ trouble' \in 0..MaxTrouble
  BY <1>1, WrongIs, Zenon
<1> HIDE DEF x
<1>3. PICK g \in Partly(Head(x.todo), x, host) : Becomes(g, Raised(x))
  BY <1>1, <1>2
<1>4. ~Skips(Head(x.todo), x, host)
  BY <1>1, <1>2, Zenon
<1>5. Proper(g, Raised(x)) /\ Going(g, Raised(x))
  BY <1>2, <1>3, <1>4, RaisedGoes, Zenon
<1> QED BY <1>2, <1>3, <1>5, BecomesGoes, Zenon

(* SIGTERM in a step.                                                       *)
LEMMA InterruptGoes ==
  ASSUME IInv, Interrupt
  PROVE  IInv'
<1> DEFINE x == Troubled(op)
<1>1. /\ op.phase # "ended" /\ GoesWrong
      /\ \E g \in {host} \cup (IF Skips(Head(op.todo), op, host) THEN {}
                               ELSE Partly(Head(op.todo), op, host)) :
           Becomes(g, Troubled(Interrupted(op)))
  BY DEF Interrupt, Working
<1>2. /\ Proper(host, x) /\ Going(host, x) /\ x.phase # "ended" /\ x.troubled
      /\ Interrupted(x) = Troubled(Interrupted(op))
      /\ Skips(Head(x.todo), x, host) <=> Skips(Head(op.todo), op, host)
      /\ Partly(Head(x.todo), x, host) = Partly(Head(op.todo), op, host)
      /\ trouble' \in 0..MaxTrouble
  BY <1>1, WrongIs, Zenon
<1> HIDE DEF x
<1>3. PICK g : Becomes(g, Interrupted(x)) /\ CutShort(host, x, g)
  BY <1>1, <1>2 DEF CutShort
<1>4. Proper(g, Interrupted(x)) /\ Going(g, Interrupted(x))
  BY <1>2, <1>3, InterruptedGoes, Zenon
<1> QED BY <1>2, <1>3, <1>4, BecomesGoes, Zenon

(* SIGKILL in a step or between two.                                        *)
LEMMA KillGoes ==
  ASSUME IInv, Kill
  PROVE  IInv'
<1> DEFINE x == Troubled(op)
<1>1. /\ op.phase # "ended" /\ GoesWrong
      /\ \E g \in {host} \cup (IF Skips(Head(op.todo), op, host) THEN {}
                               ELSE Partly(Head(op.todo), op, host)) :
           Becomes(g, Troubled(Ended(op, "killed")))
  BY DEF Kill, Working
<1>2. /\ Proper(host, x) /\ Going(host, x) /\ x.phase # "ended" /\ x.troubled
      /\ Ended(x, "killed") = Troubled(Ended(op, "killed"))
      /\ Skips(Head(x.todo), x, host) <=> Skips(Head(op.todo), op, host)
      /\ Partly(Head(x.todo), x, host) = Partly(Head(op.todo), op, host)
      /\ trouble' \in 0..MaxTrouble
  BY <1>1, WrongIs, Zenon
<1> HIDE DEF x
<1>3. PICK g : Becomes(g, Ended(x, "killed")) /\ CutShort(host, x, g)
  BY <1>1, <1>2 DEF CutShort
<1>4. Proper(g, Ended(x, "killed")) /\ Going(g, Ended(x, "killed"))
  BY <1>2, <1>3, KilledGoes, Zenon
<1> QED BY <1>2, <1>3, <1>4, BecomesGoes, Zenon

(* A start of the machine forgets the mask.                                 *)
LEMMA StartedOver ==
  ASSUME NEW h, NEW x, Proper(h, x), Over(h, x)
  PROVE  /\ Proper(Started(h), x) /\ Over(Started(h), x) /\ Going(Started(h), x)
         /\ Started(h).mask = "none"
<1> DEFINE g == Started(h)
<1>0. h \in Hosts
  BY DEF Proper
<1>1. Masks(h, g, "none", "open", FALSE)
  BY <1>0 DEF Started, Masks, SameDisk, Hosts
<1> HIDE DEF g
<1>2. Proper(g, x)
  BY <1>1, ProperMasks DEF Proper, SameOp
<1>3. Over(g, x)
  BY <1>1 DEF Over, MaskIsGone, Holds, Masks, SameDisk, AsBefore, Whole, Present
<1>4. Going(g, x)
  BY <1>3, Zenon DEF Going
<1> QED BY <1>1, <1>2, <1>3, <1>4 DEF Masks, g

(* A power loss at any step.                                                *)
LEMMA PowerLossGoes ==
  ASSUME IInv, PowerLoss
  PROVE  IInv'
<1> DEFINE x == Troubled(op)
           e == Ended(x, "killed")
<1>1. /\ op.phase # "ended" /\ GoesWrong
      /\ Becomes(Started(host), Troubled(Ended(op, "killed")))
  BY DEF PowerLoss, Working
<1>2. /\ Proper(host, x) /\ Going(host, x) /\ x.phase # "ended" /\ x.troubled
      /\ e = Troubled(Ended(op, "killed")) /\ trouble' \in 0..MaxTrouble
  BY <1>1, WrongIs, Zenon
<1> HIDE DEF x
<1>3. CutShort(host, x, host)
  BY DEF CutShort
<1>4. Proper(host, e) /\ Going(host, e)
  BY <1>2, <1>3, KilledGoes, Zenon
<1>5. e.phase = "ended"
  BY <1>2, EndedIs DEF Proper, Verdicts
<1> HIDE DEF e
<1>6. Over(host, e)
  BY <1>4, <1>5, Zenon DEF Going, Entering, Erasing, Building, Undoing, Departing
<1>7. Proper(Started(host), e) /\ Going(Started(host), e)
  BY <1>4, <1>6, StartedOver
<1> QED BY <1>1, <1>2, <1>7, BecomesGoes, Zenon

(* A restart of the machine while nothing is at work.                       *)
LEMMA RestartGoes ==
  ASSUME IInv, Restart
  PROVE  IInv'
<1>1. host' = Started(host) /\ op' = op /\ trouble' = trouble
  BY DEF Restart
<1>2. Proper(host, op) /\ Over(host, op)
  BY IdleIsOver DEF IInv, Restart
<1>3. /\ Proper(Started(host), op) /\ Going(Started(host), op)
      /\ Started(host).mask = "none"
  BY <1>2, StartedOver
<1> QED BY <1>1, <1>3 DEF IInv

(* A client, an idle fprintd, or anyone who reloads systemd.                *)
LEMMA ServicesGo ==
  ASSUME IInv, ServiceStarts \/ ServiceStops \/ Reload
  PROVE  IInv'
<1>0. host \in Hosts
  BY DEF IInv, Proper
<1>1. op' = op /\ trouble' = trouble
  BY DEF ServiceStarts, ServiceStops, Reload
<1>2. \E loaded, running :
        /\ Masks(host, host', host.mask, loaded, running)
        /\ Quiet(host) => Quiet(host')
  <2>1. CASE ServiceStarts
    <3>1. Masks(host, host', host.mask, host.loaded, TRUE) /\ ~Quiet(host)
      BY <1>0, <2>1 DEF ServiceStarts, Masks, SameDisk, Hosts, Quiet
    <3> QED BY <3>1
  <2>2. CASE ServiceStops
    <3>1. Masks(host, host', host.mask, host.loaded, FALSE)
      BY <1>0, <2>2 DEF ServiceStops, Masks, SameDisk, Hosts
    <3>2. Quiet(host) => Quiet(host')
      BY <3>1 DEF Masks, Quiet
    <3> QED BY <3>1, <3>2
  <2>3. CASE Reload
    <3> DEFINE loaded == IF host.mask = "none" THEN "open" ELSE "masked"
    <3>1. Masks(host, host', host.mask, loaded, host.running)
      BY <1>0, <2>3 DEF Reload, Masks, SameDisk, Hosts
    <3>2. Quiet(host) => Quiet(host')
      BY <3>1 DEF Masks, Quiet
    <3> QED BY <3>1, <3>2
  <2> QED BY <2>1, <2>2, <2>3
<1>3. PICK loaded, running :
        /\ Masks(host, host', host.mask, loaded, running)
        /\ Quiet(host) => Quiet(host')
  BY <1>2
<1>4. Proper(host', op) /\ Going(host', op)
  BY <1>3, ServiceGoes DEF IInv
<1>5. host'.mask = host.mask
  BY <1>3 DEF Masks
<1> QED BY <1>1, <1>4, <1>5 DEF IInv, Working

-----------------------------------------------------------------------------
(* The invariant, and what follows from it.                                 *)

(* A host without the driver.                                               *)
LEMMA InitGoes ==
  ASSUME Init
  PROVE  IInv
<1> DEFINE y == NewOp("force", host)
           x == Ended(y, "none")
<1>1. PICK rule \in {"none", "admin"}, material \in BOOLEAN, policy \in BOOLEAN :
        host = [disk |-> [item \in Items |-> Absent], owns |-> FALSE,
                rule |-> rule, policy |-> policy, material |-> material,
                mask |-> "none", loaded |-> "open", running |-> FALSE]
  BY DEF Init
<1>2. host \in Hosts /\ ~host.owns /\ host.mask = "none"
  BY <1>1 DEF Hosts
<1>3. Begins(host, "force", y)
  BY <1>2, NewOpIs
<1>4. op = x /\ trouble = 0
  BY DEF Init
<1> HIDE DEF y
<1>5. Proper(host, y)
  BY <1>2, <1>3, BeginsProper
<1>6. SameOp(y, x) /\ x.phase = "ended" /\ x.verdict = "none"
  BY <1>3, EndedIs DEF Begins, Verdicts
<1> HIDE DEF x
<1>7. Proper(host, x)
  BY <1>5, <1>6, ProperSame
<1>8. Over(host, x)
  BY <1>2, <1>6 DEF Over, MaskIsGone, Holds
<1>9. Going(host, x)
  BY <1>8, Zenon DEF Going
<1>10. trouble \in 0..MaxTrouble
  BY <1>4, DeploymentAssumption
<1> QED BY <1>2, <1>4, <1>7, <1>9, <1>10 DEF IInv

(* IInv is inductive.                                                       *)
LEMMA NextGoes ==
  ASSUME IInv, [Next]_vars
  PROVE  IInv'
<1>1. CASE BeginInstall
  BY <1>1, BeginInstallGoes
<1>2. CASE \E kind \in {"normal", "force"} : BeginRemoval(kind)
  BY <1>2, BeginRemovalGoes
<1>3. CASE Skip
  BY <1>3, SkipGoes
<1>4. CASE Succeed
  BY <1>4, SucceedGoes
<1>5. CASE Refuse
  BY <1>5, RefuseGoes
<1>6. CASE Fail
  BY <1>6, FailGoes
<1>7. CASE Interrupt
  BY <1>7, InterruptGoes
<1>8. CASE Kill
  BY <1>8, KillGoes
<1>9. CASE PowerLoss
  BY <1>9, PowerLossGoes
<1>10. CASE Restart
  BY <1>10, RestartGoes
<1>11. CASE ServiceStarts \/ ServiceStops \/ Reload
  BY <1>11, ServicesGo
<1>12. CASE UNCHANGED vars
  BY <1>12 DEF vars, IInv, Working
<1> QED
  BY <1>1, <1>2, <1>3, <1>4, <1>5, <1>6, <1>7, <1>8, <1>9, <1>10, <1>11, <1>12
     DEF Next

(* Whatever fails, is interrupted, killed or loses power: an installer or  *)
(* remover is at a step of one of its programs, what is behind it has been *)
(* done or noted as an error, and an ended one has left what it says.      *)
THEOREM Inductive == Spec => []IInv
BY InitGoes, NextGoes, PTL DEF Spec

(* Types, and only a receipt that is there says who owns the mapping, for   *)
(* every set of releases and any number of failures.                        *)
THEOREM AlwaysTypeOK == Spec => []TypeOK
<1>1. IInv => TypeOK
  BY DEF IInv, Proper, Ops, TypeOK
<1> QED BY <1>1, Inductive, PTL

(* How an installation or a removal ended is how things are.                *)
THEOREM AlwaysOutcome == Spec => []Outcome
<1>1. IInv => Outcome
  <2> SUFFICES ASSUME IInv, ~Working PROVE Outcome
    BY DEF Outcome
  <2>1. Over(host, op) /\ Proper(host, op)
    BY IdleIsOver DEF IInv
  <2>2. Holds(host, op)
    BY <2>1 DEF Over
  <2>3. ~op.troubled => host.mask \in {"none", op.before.mask}
    BY <2>1 DEF Over, MaskIsGone
  <2>4. op.kind # "force" /\ op.before.rule = "admin" => host.rule = "admin"
    BY <2>1 DEF Proper
  <2>5. op.verdict \in {"failed", "restored"} =>
          [disk |-> host.disk, owns |-> host.owns, rule |-> host.rule,
           policy |-> host.policy] =
          [disk |-> op.before.disk, owns |-> op.before.owns,
           rule |-> op.before.rule, policy |-> op.before.policy]
    BY <2>2 DEF Holds, AsBefore
  <2>6. /\ op.verdict \notin {"none", "installed", "removed"} => op.troubled
        /\ op.verdict = "installed" =>
             /\ \A item \in Items : host.disk[item] = op.rel
             /\ ~host.policy /\ (host.material => host.rule # "none")
             /\ host.owns => host.rule = "ours"
        /\ op.verdict = "removed" =>
             /\ ~Present(host, Items) /\ ~host.policy
             /\ host.rule = IF op.kind = "force" \/ op.before.owns
                            THEN "none" ELSE op.before.rule
        /\ op.verdict = "incomplete" => Whole(host, "FORCE")
        /\ op.kind # "install" /\ op.verdict \in {"interrupted", "killed"} =>
             Whole(host, "FORCE") \/ ~Present(host, Items)
    BY <2>2 DEF Holds
  <2> QED BY <2>3, <2>4, <2>5, <2>6 DEF Outcome
<1> QED BY <1>1, Inductive, PTL

-----------------------------------------------------------------------------
(* No step is unsafe.                                                       *)

Safe(h, g, o) ==
  /\ o.phase # "rollback" =>
       /\ EntriesHold(h) => EntriesHold(g)
       /\ Removable(h) => Removable(g)
  /\ h.disk["RUNTIME"] # g.disk["RUNTIME"] => ~h.running

(* A step that changes no file is safe.                                     *)
LEMMA SameDiskSafe ==
  ASSUME NEW h, NEW g, NEW o, SameDisk(h, g)
  PROVE  Safe(h, g, o)
BY DEF SameDisk, Safe, EntriesHold, Removable, Present, Whole

(* A step leaves what it is about as it was, or with some content.          *)
Touches(h, g, item, contents) ==
  \E content \in contents :
    \A i \in Items : g.disk[i] = IF i = item THEN content ELSE h.disk[i]

Halves(item) == IF item \in Directories THEN {Absent, Part} ELSE {Absent}

(* A step of the programs changes one place, if any.                        *)
LEMMA StepTouches ==
  ASSUME NEW h \in Hosts, NEW o \in Ops, NEW step, NEW g,
         g \in Partly(step, o, h) \/ g = Done(step, o, h)
  PROVE  /\ \A verb \in Verbs : step = Do(verb) => SameDisk(h, g)
         /\ \A item \in Items :
              /\ step = Drop(item) =>
                   SameDisk(h, g) \/ Touches(h, g, item, Halves(item))
              /\ step = Make(item) => SameDisk(h, g) \/ Touches(h, g, item, {Part})
              /\ step = Put(item) => SameDisk(h, g) \/ Touches(h, g, item, {o.rel})
<1>0. SameDisk(h, h)
  BY DEF SameDisk
<1>1. ASSUME NEW verb \in Verbs, step = Do(verb) PROVE SameDisk(h, g)
  <2>0. /\ \A x, mask, loaded, running : Masks(h, x, mask, loaded, running) => SameDisk(h, x)
        /\ \A x, rule, policy, material : Sets(h, x, rule, policy, material) => SameDisk(h, x)
    BY DEF Masks, Sets
  <2>1. SameDisk(h, Done(Do(verb), o, h))
    <3>1. CASE verb \in {"inhibit", "stop", "release"}
      BY <2>0, <3>1, DoneMasks, Zenon
    <3>2. CASE verb \in {"snapshot", "removed", "preflight"}
      BY <1>0, <3>2, DoneMasks, Zenon
    <3>3. CASE verb \in {"policy", "label", "import", "map", "remap", "repolicy"}
      BY <2>0, <3>3, DoneSets, Zenon
    <3> QED BY <3>1, <3>2, <3>3 DEF Verbs
  <2>2. ASSUME g \in Partly(Do(verb), o, h) PROVE SameDisk(h, g)
    <3>1. CASE verb = "inhibit"
      BY <1>0, <2>0, <2>2, <3>1, PartlyMasks, Zenon
    <3>2. CASE verb = "stop"
      BY <1>0, <2>0, <2>2, <3>2, PartlyMasks, Zenon
    <3>3. CASE verb = "release"
      BY <1>0, <2>0, <2>2, <3>3, PartlyMasks, Zenon
    <3>4. CASE verb \in Verbs \ {"inhibit", "stop", "release"}
      BY <1>0, <2>1, <2>2, <3>4, PartlyRest, Zenon
    <3> QED BY <3>1, <3>2, <3>3, <3>4
  <2> QED BY <1>1, <2>1, <2>2, Zenon
<1>2. \A item, content, owned :
        Placed(h, g, item, content, owned) => Touches(h, g, item, {content})
  BY DEF Placed, Touches
<1>3. ASSUME NEW item \in Items, step = Drop(item)
      PROVE  SameDisk(h, g) \/ Touches(h, g, item, Halves(item))
  <2>1. \/ g = h \/ (item \in Directories /\ Placed(h, g, item, Part, FALSE))
        \/ Placed(h, g, item, Absent, FALSE)
    BY <1>3, DonePlaces, PartlyPlaces
  <2> QED BY <1>0, <2>1 DEF Placed, Touches, Halves
<1>4. ASSUME NEW item \in Items, step = Make(item)
      PROVE  SameDisk(h, g) \/ Touches(h, g, item, {Part})
  <2>1. g = h \/ Placed(h, g, item, Part, FALSE)
    BY <1>4, DonePlaces, PartlyPlaces
  <2> QED BY <1>0, <1>2, <2>1
<1>5. ASSUME NEW item \in Items, step = Put(item)
      PROVE  SameDisk(h, g) \/ Touches(h, g, item, {o.rel})
  <2>1. g = h \/ Placed(h, g, item, o.rel, o.added)
    BY <1>5, DonePlaces, PartlyPlaces
  <2> QED BY <1>0, <1>2, <2>1
<1> QED BY <1>1, <1>3, <1>4, <1>5

(* A removal takes an entry before what it refers to, the libraries of a    *)
(* service that is stopped, and the forced removal last.                    *)
LEMMA EraseSafe ==
  ASSUME NEW h, NEW o, Proper(h, o), NEW k \in 1..12, Erasing(h, o, k),
         ~Skips(RemoveSteps[k], o, h), NEW g,
         g \in Partly(RemoveSteps[k], o, h) \/ g = Done(RemoveSteps[k], o, h)
  PROVE  Safe(h, g, o)
<1> DEFINE past == Behind(RemoveSteps, k)
<1>0. h \in Hosts /\ o \in Ops
  BY DEF Proper
<1>1. ErasesAt(h, o, k)
  BY ErasingAt
<1>2. Erased(h, o, past)
  BY <1>1 DEF ErasesAt
<1>3. \A j \in 1..12 : RemoveSteps[j] \in past <=> j < k
  BY EraseOrder
<1> HIDE DEF past
<1>4. CASE k \in {3, 4, 5, 7, 9}
  <2>1. \E verb \in Verbs : RemoveSteps[k] = Do(verb)
    BY <1>4, RemoveProgram DEF Verbs
  <2> QED BY <1>0, <2>1, StepTouches, SameDiskSafe
<1>5. ASSUME NEW item \in Items, RemoveSteps[k] = Drop(item),
             item = "SUPPORT" => h.disk["CONFIG"] = Absent,
             item = "RUNTIME" => h.disk["DROPIN"] = Absent /\ ~h.running,
             item = "FORCE" => \A i \in Software : h.disk[i] = Absent
      PROVE  Safe(h, g, o)
  <2>1. CASE SameDisk(h, g)
    BY <2>1, SameDiskSafe
  <2>2. CASE Touches(h, g, item, Halves(item))
    <3>1. PICK content \in Halves(item) :
            \A i \in Items : g.disk[i] = IF i = item THEN content ELSE h.disk[i]
      BY <2>2 DEF Touches
    <3>2. h.disk[item] # Absent
      BY <1>1, <1>5, ErasingSkips
    <3>3. Software \subseteq Items /\ "FORCE" \in Items /\ "FORCE" \notin Software
          /\ Software = {"CONFIG", "DROPIN", "SUPPORT", "RUNTIME"}
      BY DEF Items, Software, Tools
    <3>4. item \in {"CONFIG", "DROPIN", "FORCE", "NORMAL"} => content = Absent
      BY <3>1 DEF Halves, Directories
    <3>5. EntriesHold(h) => EntriesHold(g)
      <4>1. Present(g, {"CONFIG"}) =>
              Present(h, {"CONFIG"}) /\ item # "SUPPORT"
        BY <1>5, <3>1, <3>3, <3>4 DEF Present
      <4>2. Present(g, {"DROPIN"}) =>
              Present(h, {"DROPIN"}) /\ item # "RUNTIME"
        BY <1>5, <3>1, <3>3, <3>4 DEF Present
      <4> QED BY <3>1, <3>3, <4>1, <4>2 DEF EntriesHold, Whole
    <3>6. Removable(h) => Removable(g)
      <4>1. Present(g, Software) => Present(h, Software) /\ item # "FORCE"
        BY <1>5, <3>1, <3>2, <3>3 DEF Present
      <4> QED BY <3>1, <3>3, <4>1 DEF Removable, Whole
    <3>7. h.disk["RUNTIME"] # g.disk["RUNTIME"] => ~h.running
      BY <1>5, <3>1, <3>3
    <3> QED BY <3>5, <3>6, <3>7 DEF Safe
  <2> QED BY <1>0, <1>5, <2>1, <2>2, StepTouches
<1>6. /\ \A a, b : Drop(a) = Drop(b) => a = b
      /\ \A item \in Items : Skips(Drop(item), o, h) <=>
           h.disk[item] = Absent \/ RemovalSkips(Drop(item), o)
  BY <1>1, ErasingSkips, StepsDiffer
<1>7. CASE k \in {1, 2, 10, 11}
  <2>1. \E item \in {"CONFIG", "DROPIN", "RECOVERY", "NORMAL"} : RemoveSteps[k] = Drop(item)
    BY <1>7, RemoveProgram
  <2>2. {"CONFIG", "DROPIN", "RECOVERY", "NORMAL"} \subseteq Items
    BY DEF Items, Software, Tools
  <2> QED BY <1>5, <2>1, <2>2
<1>8. CASE k = 6
  <2>1. RemoveSteps[k] = Drop("SUPPORT") /\ "SUPPORT" \in Items
    BY <1>8, RemoveProgram DEF Items, Software
  <2>2. Drop("CONFIG") \notin o.errors
    BY <1>6, <2>1, RemovalSkipsWhat
  <2>3. Drop("CONFIG") \in past
    BY <1>3, <1>8, RemoveProgram
  <2>4. h.disk["CONFIG"] = Absent
    BY <1>2, <2>2, <2>3 DEF Erased
  <2> QED BY <1>5, <2>1, <2>4
<1>9. CASE k = 8
  <2>1. RemoveSteps[k] = Drop("RUNTIME") /\ "RUNTIME" \in Items
    BY <1>9, RemoveProgram DEF Items, Software
  <2>2. o.errors \cap {Drop("DROPIN"), Do("inhibit"), Do("stop"), Do("label")} = {}
    BY <1>6, <2>1, RemovalSkipsWhat
  <2>3. {Drop("DROPIN"), Do("stop")} \subseteq past /\ Do("release") \notin past
    BY <1>3, <1>9, RemoveProgram
  <2>4. h.disk["DROPIN"] = Absent
    BY <1>2, <2>2, <2>3 DEF Erased
  <2>5. Quiet(h)
    BY <1>2, <2>2, <2>3 DEF Erased
  <2> QED BY <1>5, <2>1, <2>4, <2>5 DEF Quiet
<1>10. CASE k = 12
  <2>1. RemoveSteps[k] = Drop("FORCE") /\ "FORCE" \in Items /\ "FORCE" \in Tools
    BY <1>10, RemoveProgram DEF Items, Tools
  <2>2. o.errors = {}
    BY <1>6, <2>1, RemovalSkipsWhat
  <2>3. \A i \in Software : Drop(i) \in past /\ i \in Items
    BY <1>3, <1>10, RemoveProgram DEF Software, Items
  <2>4. \A i \in Software : h.disk[i] = Absent
    BY <1>2, <2>2, <2>3 DEF Erased
  <2> QED BY <1>5, <2>1, <2>4
<1> QED BY <1>4, <1>7, <1>8, <1>9, <1>10

(* An installation publishes an entry after what it refers to, and all of   *)
(* the software after the forced removal.                                   *)
LEMMA BuildSafe ==
  ASSUME NEW h, NEW o, Proper(h, o), NEW k \in 1..15, Building(h, o, k), NEW g,
         g \in Partly(BuildSteps[k], o, h) \/ g = Done(BuildSteps[k], o, h)
  PROVE  Safe(h, g, o)
<1> DEFINE past == Behind(BuildSteps, k)
<1>0. h \in Hosts /\ o \in Ops
  BY DEF Proper
<1>1. BuildsAt(h, o, k)
  BY BuildingAt
<1>2. Built(h, o, past) /\ o.kind = "install" /\ o.rel \in Release
  BY <1>1 DEF BuildsAt, Proper
<1>3. \A j \in 1..15 : BuildSteps[j] \in past <=> j < k
  BY BuildOrder
<1> HIDE DEF past
<1>4. ~h.running
  BY <1>2 DEF Built, Quiet
<1>5. \A item \in Items : IF Put(item) \in past THEN h.disk[item] = o.rel
                          ELSE h.disk[item] \notin Release
  BY <1>2, DeploymentAssumption DEF Built
<1>6. CASE k \in {5, 6, 7, 14, 15}
  <2>1. \E verb \in Verbs : BuildSteps[k] = Do(verb)
    BY <1>6, BuildProgram DEF Verbs
  <2> QED BY <1>0, <2>1, StepTouches, SameDiskSafe
<1>7. ASSUME NEW item \in Items, NEW content,
             \A i \in Items : g.disk[i] = IF i = item THEN content ELSE h.disk[i],
             item \in Software => Whole(h, "FORCE"),
             item = "FORCE" => content \in Release,
             item = "CONFIG" => Whole(h, "SUPPORT"),
             item = "DROPIN" => Whole(h, "RUNTIME"),
             item \in {"SUPPORT", "RUNTIME"} => content \in Release \/ ~Whole(h, item)
      PROVE  Safe(h, g, o)
  <2>1. Software = {"CONFIG", "DROPIN", "SUPPORT", "RUNTIME"}
        /\ Software \subseteq Items /\ "FORCE" \in Items /\ "FORCE" \notin Software
    BY DEF Software, Items, Tools
  <2>2. EntriesHold(h) => EntriesHold(g)
    BY <1>7, <2>1 DEF EntriesHold, Present, Whole
  <2>3. Removable(h) => Removable(g)
    <3>1. CASE item \in Software
      BY <1>7, <2>1, <3>1 DEF Removable, Whole
    <3>2. CASE item = "FORCE"
      BY <1>7, <2>1, <3>2 DEF Removable, Whole
    <3>3. CASE item \notin Software /\ item # "FORCE"
      BY <1>7, <2>1, <3>3 DEF Removable, Whole, Present
    <3> QED BY <3>1, <3>2, <3>3
  <2> QED BY <1>4, <2>2, <2>3 DEF Safe
<1>8. ASSUME NEW item \in Items,
             \/ BuildSteps[k] = Make(item) /\ item # "FORCE" /\ Put(item) \notin past
             \/ BuildSteps[k] = Put(item),
             item \in Software => Put("FORCE") \in past,
             item = "CONFIG" => Put("SUPPORT") \in past,
             item = "DROPIN" => Put("RUNTIME") \in past,
             BuildSteps[k] = Make(item) => item \notin {"CONFIG", "DROPIN"}
      PROVE  Safe(h, g, o)
  <2>1. CASE SameDisk(h, g)
    BY <2>1, SameDiskSafe
  <2>2. {"FORCE", "SUPPORT", "RUNTIME"} \subseteq Items
    BY DEF Items, Software, Tools
  <2>3. /\ item \in Software => Whole(h, "FORCE")
        /\ item = "CONFIG" => Whole(h, "SUPPORT")
        /\ item = "DROPIN" => Whole(h, "RUNTIME")
        /\ Put(item) \notin past => ~Whole(h, item)
    BY <1>2, <1>5, <1>8, <2>2 DEF Whole
  <2>4. CASE BuildSteps[k] = Make(item) /\ item # "FORCE" /\ Put(item) \notin past
             /\ Touches(h, g, item, {Part})
    BY <1>7, <2>3, <2>4 DEF Touches
  <2>5. CASE BuildSteps[k] = Put(item) /\ Touches(h, g, item, {o.rel})
    BY <1>2, <1>7, <2>3, <2>5 DEF Touches
  <2> QED BY <1>0, <1>8, <2>1, <2>4, <2>5, StepTouches
<1>9. {"RECOVERY", "NORMAL", "FORCE", "RUNTIME", "DROPIN", "SUPPORT", "CONFIG"} \subseteq Items
      /\ {"RECOVERY", "NORMAL", "FORCE"} \cap Software = {}
  BY DEF Items, Software, Tools
<1>10. /\ k > 3 => Put("FORCE") \in past
       /\ k < 9 => Put("RUNTIME") \notin past
       /\ k > 9 => Put("RUNTIME") \in past
       /\ k < 12 => Put("SUPPORT") \notin past
       /\ k > 12 => Put("SUPPORT") \in past
       /\ k < 4 => Put("RECOVERY") \notin past
  BY <1>3, BuildProgram
<1>11. CASE k = 1
  BY <1>8, <1>9, <1>10, <1>11, BuildProgram
<1>12. CASE k \in {2, 3, 4}
  <2>1. \E item \in {"NORMAL", "FORCE", "RECOVERY"} : BuildSteps[k] = Put(item)
    BY <1>12, BuildProgram
  <2>2. \A a, b : Make(a) # Put(b)
    BY StepsDiffer
  <2> QED BY <1>8, <1>9, <2>1, <2>2
<1>13. CASE k \in {8, 11}
  <2>1. \E item \in {"RUNTIME", "SUPPORT"} :
          BuildSteps[k] = Make(item) /\ Put(item) \notin past
    BY <1>10, <1>13, BuildProgram
  <2>2. Put("FORCE") \in past
    BY <1>10, <1>13
  <2> QED BY <1>8, <1>9, <2>1, <2>2
<1>14. CASE k \in {9, 10, 12, 13}
  <2>1. \E item \in {"RUNTIME", "DROPIN", "SUPPORT", "CONFIG"} :
          /\ BuildSteps[k] = Put(item)
          /\ item = "CONFIG" => Put("SUPPORT") \in past
          /\ item = "DROPIN" => Put("RUNTIME") \in past
    BY <1>10, <1>14, BuildProgram
  <2>2. Put("FORCE") \in past /\ \A a, b : Make(a) # Put(b)
    BY <1>10, <1>14, StepsDiffer
  <2> QED BY <1>8, <1>9, <2>1, <2>2
<1>15. k \in {1, 2, 3, 4, 5, 6, 7, 8, 9, 10, 11, 12, 13, 14, 15}
  OBVIOUS
<1> QED BY <1>6, <1>11, <1>12, <1>13, <1>14, <1>15

(* Every step of the programs is safe, completed or not.                    *)
LEMMA WorkIsSafe ==
  ASSUME NEW h, NEW o, Proper(h, o), Going(h, o), o.phase # "ended",
         ~Skips(Head(o.todo), o, h), NEW g,
         g \in Partly(Head(o.todo), o, h) \/ g = Done(Head(o.todo), o, h)
  PROVE  Safe(h, g, o)
<1>0. h \in Hosts /\ o \in Ops
  BY DEF Proper
<1>1. ASSUME NEW verb \in Verbs, Head(o.todo) = Do(verb) PROVE Safe(h, g, o)
  BY <1>0, <1>1, StepTouches, SameDiskSafe
<1>2. CASE \E k \in 1..3 : Entering(h, o, k)
  <2>1. PICK k \in 1..3 : Entering(h, o, k)
    BY <1>2
  <2>2. Head(o.todo) = EnterSteps[k]
    BY <2>1, EnteringAt, Zenon DEF EntersAt
  <2>3. \E verb \in Verbs : EnterSteps[k] = Do(verb)
    BY EnterProgram DEF Verbs
  <2> QED BY <1>1, <2>2, <2>3
<1>3. CASE \E k \in 1..12 : Erasing(h, o, k)
  <2>1. PICK k \in 1..12 : Erasing(h, o, k)
    BY <1>3
  <2>2. Head(o.todo) = RemoveSteps[k]
    BY <2>1, ErasingAt, Zenon DEF ErasesAt
  <2>3. /\ ~Skips(RemoveSteps[k], o, h)
        /\ g \in Partly(RemoveSteps[k], o, h) \/ g = Done(RemoveSteps[k], o, h)
    BY <2>2
  <2> QED BY <2>1, <2>3, EraseSafe, Zenon
<1>4. CASE o.kind = "install" /\ Erasing(h, o, 13)
  <2>1. Head(o.todo) = Do("removed") /\ "removed" \in Verbs
    BY <1>4, RemovedAt DEF Verbs
  <2> QED BY <1>1, <2>1
<1>5. CASE \E k \in 1..15 : Building(h, o, k)
  <2>1. PICK k \in 1..15 : Building(h, o, k)
    BY <1>5
  <2>2. Head(o.todo) = BuildSteps[k]
    BY <2>1, BuildingAt, Zenon DEF BuildsAt
  <2>3. g \in Partly(BuildSteps[k], o, h) \/ g = Done(BuildSteps[k], o, h)
    BY <2>2
  <2> QED BY <2>1, <2>3, BuildSafe, Zenon
<1>6. CASE \E k \in 1..17 : Undoing(h, o, k)
  <2>1. o.phase = "rollback" /\ ~h.running
    BY <1>6 DEF Undoing, Undone, Quiet
  <2> QED BY <2>1 DEF Safe
<1>7. CASE Departing(h, o)
  <2>1. Head(o.todo) = Do("release") /\ "release" \in Verbs
    BY <1>7, DepartingAt DEF Verbs
  <2> QED BY <1>1, <2>1
<1> QED BY <1>2, <1>3, <1>4, <1>5, <1>6, <1>7, AtWork

(* The end of a process changes no file.                                    *)
LEMMA BecomesSafe ==
  ASSUME host \in Hosts, NEW g, NEW x, Becomes(g, x), Safe(host, g, op), g \in Hosts
  PROVE  Safe(host, host', op)
<1>1. host'.disk = g.disk
  BY DEF Becomes, Hosts
<1> QED BY <1>1 DEF Safe, EntriesHold, Removable, Present, Whole

(* What a step of the process leaves is a host.                             *)
LEMMA WorkIsHost ==
  ASSUME NEW h, NEW o, Proper(h, o), Going(h, o), o.phase # "ended",
         ~Skips(Head(o.todo), o, h), NEW g,
         g \in Partly(Head(o.todo), o, h) \/ g = Done(Head(o.todo), o, h)
  PROVE  g \in Hosts
<1> DEFINE x == Troubled(o)
           step == Head(o.todo)
<1>1. o \in Ops /\ o.todo # <<>>
  BY HasStep
<1>2. Proper(h, x) /\ Going(h, x) /\ x.phase # "ended" /\ x.troubled /\ x.todo = o.todo
  BY <1>1, TroubledGoes, TroubledIs
<1>3. /\ Skips(step, x, h) <=> Skips(step, o, h)
      /\ Can(step, x, h) <=> Can(step, o, h)
      /\ Done(step, x, h) = Done(step, o, h)
      /\ Partly(step, x, h) = Partly(step, o, h)
  BY <1>1, TroubledSteps
<1> HIDE DEF x
<1>4. Head(x.todo) = step
  BY <1>2
<1>5. ASSUME Can(step, o, h) PROVE Done(step, o, h) \in Hosts
  <2>1. Proper(Done(step, o, h), Advanced(h, o))
    BY <1>5, SucceedNear, Zenon
  <2> QED BY <2>1 DEF Proper
<1>6. ASSUME g \in Partly(step, o, h) \/ (g = Done(step, o, h) /\ ~Can(step, o, h))
      PROVE  g \in Hosts
  <2>1. /\ ~Skips(Head(x.todo), x, h)
        /\ \/ g \in Partly(Head(x.todo), x, h)
           \/ g = Done(Head(x.todo), x, h) /\ ~Can(Head(x.todo), x, h)
    BY <1>3, <1>4, <1>6, Zenon
  <2>2. Proper(g, Raised(x))
    BY <1>2, <2>1, RaisedGoes, Zenon
  <2> QED BY <2>2 DEF Proper
<1> QED BY <1>5, <1>6, Zenon

(* Every step of the system is safe.                                        *)
LEMMA NextIsSafe ==
  ASSUME IInv, Next
  PROVE  Safe(host, host', op)
<1>0. Proper(host, op) /\ Going(host, op) /\ host \in Hosts
  BY DEF IInv, Proper
<1>1. ASSUME NEW x, NEW g, Becomes(g, x), Working,
             \/ g = host
             \/ /\ ~Skips(Head(op.todo), op, host)
                /\ \/ g \in Partly(Head(op.todo), op, host)
                   \/ g = Done(Head(op.todo), op, host)
      PROVE  Safe(host, host', op)
  <2>1. op.phase # "ended"
    BY <1>1 DEF Working
  <2>2. CASE g = host
    <3>1. Safe(host, g, op)
      BY <2>2, SameDiskSafe DEF SameDisk
    <3> QED BY <1>0, <1>1, <2>2, <3>1, BecomesSafe
  <2>3. CASE /\ ~Skips(Head(op.todo), op, host)
             /\ \/ g \in Partly(Head(op.todo), op, host)
                \/ g = Done(Head(op.todo), op, host)
    <3>1. Safe(host, g, op) /\ g \in Hosts
      BY <1>0, <2>1, <2>3, WorkIsSafe, WorkIsHost, Zenon
    <3> QED BY <1>0, <1>1, <3>1, BecomesSafe
  <2> QED BY <1>1, <2>2, <2>3
<1>2. ASSUME SameDisk(host, host') PROVE Safe(host, host', op)
  BY <1>2, SameDiskSafe
<1>3. CASE BeginInstall \/ \E kind \in {"normal", "force"} : BeginRemoval(kind)
  BY <1>2, <1>3 DEF BeginInstall, BeginRemoval, SameDisk
<1>4. CASE Skip
  BY <1>1, <1>4 DEF Skip
<1>5. CASE Succeed
  <2>1. /\ Working /\ ~Skips(Head(op.todo), op, host)
        /\ \E x : Becomes(Done(Head(op.todo), op, host), x)
    BY <1>5 DEF Succeed
  <2> QED BY <1>1, <2>1
<1>6. CASE Refuse
  <2>1. /\ Working /\ ~Skips(Head(op.todo), op, host)
        /\ \E x : Becomes(Done(Head(op.todo), op, host), x)
    BY <1>6 DEF Refuse
  <2> QED BY <1>1, <2>1
<1>7. CASE Fail
  <2>1. /\ Working /\ ~Skips(Head(op.todo), op, host)
        /\ \E x : \E g \in Partly(Head(op.todo), op, host) : Becomes(g, x)
    BY <1>7 DEF Fail
  <2> QED BY <1>1, <2>1
<1>8. CASE Interrupt
  <2>1. /\ Working
        /\ \E x : \E g \in {host} \cup
                    (IF Skips(Head(op.todo), op, host) THEN {}
                     ELSE Partly(Head(op.todo), op, host)) : Becomes(g, x)
    BY <1>8 DEF Interrupt
  <2> QED BY <1>1, <2>1
<1>9. CASE Kill
  <2>1. /\ Working
        /\ \E x : \E g \in {host} \cup
                    (IF Skips(Head(op.todo), op, host) THEN {}
                     ELSE Partly(Head(op.todo), op, host)) : Becomes(g, x)
    BY <1>9 DEF Kill
  <2> QED BY <1>1, <2>1
<1>10. CASE PowerLoss
  <2>1. PICK x : Becomes(Started(host), x)
    BY <1>10 DEF PowerLoss
  <2>2. SameDisk(host, Started(host)) /\ Started(host) \in Hosts
    BY <1>0 DEF Started, SameDisk, Hosts
  <2>3. Safe(host, Started(host), op)
    BY <2>2, SameDiskSafe
  <2> QED BY <1>0, <2>1, <2>2, <2>3, BecomesSafe
<1>11. CASE Restart \/ ServiceStarts \/ ServiceStops \/ Reload
  <2>1. SameDisk(host, host')
    BY <1>0, <1>11
       DEF Restart, Started, ServiceStarts, ServiceStops, Reload, SameDisk, Hosts
  <2> QED BY <1>2, <2>1
<1> QED BY <1>3, <1>4, <1>5, <1>6, <1>7, <1>8, <1>9, <1>10, <1>11 DEF Next

(* Whatever fails, is interrupted or loses power: outside of a rollback the *)
(* login and the service are not left configured for what is not there, nor *)
(* is software left without the command that removes it; and the libraries  *)
(* of a running service do not change.                                      *)
THEOREM OnlySafeSteps == Spec => SafeSteps
<1>1. IInv /\ [Next]_vars =>
        [/\ op.phase # "rollback" =>
              /\ EntriesHold(host) => EntriesHold(host)'
              /\ Removable(host) => Removable(host)'
         /\ host.disk["RUNTIME"] # host'.disk["RUNTIME"] => ~host.running]_vars
  <2> SUFFICES ASSUME IInv, Next
               PROVE  /\ op.phase # "rollback" =>
                           /\ EntriesHold(host) => EntriesHold(host')
                           /\ Removable(host) => Removable(host')
                      /\ host.disk["RUNTIME"] # host'.disk["RUNTIME"] => ~host.running
    BY DEF EntriesHold, Removable, Present, Whole
  <2> QED BY NextIsSafe DEF Safe
<1> QED BY <1>1, Inductive, PTL DEF Spec, SafeSteps
=============================================================================
