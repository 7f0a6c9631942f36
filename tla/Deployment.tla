------------------------------ MODULE Deployment ------------------------------
(****************************************************************************)
(* Installing, updating and removing the driver on a host: apply() with its *)
(* lifecycle() and rollback() of deployment/install.py, and remove() of     *)
(* deployment/recovery/remove.py, on its own (goodix-uninstall,             *)
(* goodix-force-remove) and inside an update.                               *)
(*                                                                          *)
(* A lock lets one of them work at a time.                                  *)
(*                                                                          *)
(* Each is a program of steps, a step the change of one file, directory or  *)
(* setting.  A step may fail, having done all, some or none of it; SIGTERM  *)
(* raises KeyboardInterrupt in it; the process may be killed or the machine *)
(* lose power after it.  What the process does then is the point.           *)
(*                                                                          *)
(* A file or directory is absent, in part, or whole and of some release;    *)
(* receipts, hashes and the staging of the payload are left out, and so is  *)
(* foreign content in the project's places, which every check refuses.      *)
(* Assumed: what was done before a power loss is on the disk.               *)
(****************************************************************************)
EXTENDS Naturals, Sequences

CONSTANTS
  Release,     \* the releases that may be installed
  MaxTrouble,  \* failures, interruptions, kills and power losses, in all
  Absent, Part

ASSUME DeploymentAssumption ==
  MaxTrouble \in Nat /\ Absent # Part /\ {Absent, Part} \cap Release = {}

VARIABLES
  host,    \* the machine
  op,      \* the installer or remover at work, or the last one
  trouble  \* how often something went wrong

vars == <<host, op, trouble>>

-----------------------------------------------------------------------------
(* The machine.                                                             *)

Software == {"CONFIG", "DROPIN", "SUPPORT", "RUNTIME"}
Tools == {"NORMAL", "FORCE", "RECOVERY"}
Items == Software \cup Tools
Directories == {"SUPPORT", "RUNTIME", "RECOVERY"}

(* "owns" is what the receipt in RUNTIME says of the mapping of labels.  The*)
(* mask is ours while the process that made it knows its inode; "loaded" is *)
(* what systemd read last.  "material" is the legacy bundle.                *)
Hosts ==
  [disk : [Items -> Release \cup {Absent, Part}], owns : BOOLEAN,
   rule : {"none", "admin", "ours"}, policy : BOOLEAN, material : BOOLEAN,
   mask : {"none", "ours", "other"}, loaded : {"open", "masked"},
   running : BOOLEAN]

Whole(h, item) == h.disk[item] \in Release
Present(h, items) == \E item \in items : h.disk[item] # Absent

(* Mutant of With: a receipt outlives the directory it is in.               *)
WithStaleReceipt(h, item, content, owned) ==
  [h EXCEPT !.disk[item] = content,
            !.owns = IF item = "RUNTIME" /\ content \in Release
                     THEN owned ELSE @]

With(h, item, content, owned) ==
  [h EXCEPT !.disk[item] = content,
            !.owns = IF item = "RUNTIME"
                     THEN content \in Release /\ owned ELSE @]

(* normal_preflight(): the receipts of login support and recovery name the  *)
(* content of the PAM entry and of the two commands.                        *)
Preflight(h) ==
  /\ IF Present(h, {"SUPPORT"})
     THEN Whole(h, "SUPPORT") /\ h.disk["CONFIG"] = h.disk["SUPPORT"]
     ELSE ~Present(h, {"CONFIG"})
  /\ IF Present(h, {"RUNTIME"})
     THEN Whole(h, "RUNTIME") /\ Whole(h, "DROPIN")
     ELSE ~Present(h, {"DROPIN"})
  /\ Whole(h, "RECOVERY")
  /\ \A tool \in Tools : h.disk[tool] = h.disk["RECOVERY"]

-----------------------------------------------------------------------------
(* The programs.                                                            *)

Drop(item) == <<"drop", item>>
Make(item) == <<"make", item>>
Put(item) == <<"put", item>>
Copy(item) == <<"copy", item>>
Do(verb) == <<verb, "">>

In(step, steps) == \E i \in 1..Len(steps) : steps[i] = step

EnterSteps == <<Do("inhibit"), Do("stop"), Do("snapshot")>>
LeaveSteps == <<Do("release")>>

RemoveSteps ==
  <<Drop("CONFIG"), Drop("DROPIN"), Do("inhibit"), Do("stop"), Do("policy"),
    Drop("SUPPORT"), Do("label"), Drop("RUNTIME"), Do("release"),
    Drop("RECOVERY"), Drop("NORMAL"), Drop("FORCE")>>

(* An update ends its removal with the check that it succeeded.             *)
InstallSteps(update) ==
  (IF update THEN RemoveSteps \o <<Do("removed")>> ELSE <<>>) \o
  <<Make("RECOVERY"), Put("NORMAL"), Put("FORCE"), Put("RECOVERY"),
    Do("policy"), Do("import"), Do("map"),
    Make("RUNTIME"), Put("RUNTIME"), Put("DROPIN"),
    Make("SUPPORT"), Put("SUPPORT"), Put("CONFIG"),
    Do("preflight"), Do("stop")>>

RollbackSteps ==
  <<Do("stop"),
    Drop("CONFIG"), Drop("DROPIN"), Drop("SUPPORT"), Drop("RUNTIME"),
    Copy("CONFIG"), Copy("DROPIN"), Copy("SUPPORT"), Copy("RUNTIME"),
    Do("remap"), Do("repolicy"),
    Drop("NORMAL"), Copy("NORMAL"), Drop("FORCE"), Copy("FORCE"),
    Drop("RECOVERY"), Copy("RECOVERY")>>

(* "owned": remove the mapping; "added": this installation made it;         *)
(* "import": it brings a bundle; "before": what it found.                   *)
NewOp(kind, h) ==
  [kind |-> kind, phase |-> IF kind = "install" THEN "enter" ELSE "body",
   todo |-> IF kind = "install" THEN EnterSteps ELSE RemoveSteps,
   errors |-> {}, rel |-> Absent, import |-> FALSE, added |-> FALSE,
   owned |-> kind = "force" \/ h.owns, troubled |-> FALSE, verdict |-> "none",
   before |-> [disk |-> h.disk, owns |-> h.owns, rule |-> h.rule,
               policy |-> h.policy, mask |-> h.mask]]

(* remove() inside an update; the steps that attempt() or a handler wraps.  *)
Nested(o) ==
  o.kind = "install" /\ o.phase = "body" /\ In(Do("removed"), Tail(o.todo))
Attempted(o) == o.kind # "install" \/ o.phase = "rollback" \/ Nested(o)

(* Mutant of RemovalSkips: login support goes even if its entry did not.    *)
RemovalSkipsLess(step, o) ==
  \/ step = Do("label") /\ ~o.owned
  \/ o.errors \cap
       (CASE step = Do("label") -> {Do("inhibit"), Do("stop")}
          [] step = Drop("RUNTIME") ->
               {Drop("DROPIN"), Do("inhibit"), Do("stop"), Do("label")}
          [] step[2] \in Tools -> o.errors
          [] OTHER -> {}) # {}

(* What remove() leaves alone, for what failed before.                      *)
RemovalSkips(step, o) ==
  \/ step = Do("label") /\ ~o.owned
  \/ o.errors \cap
       (CASE step = Drop("SUPPORT") -> {Drop("CONFIG")}
          [] step = Do("label") -> {Do("inhibit"), Do("stop")}
          [] step = Drop("RUNTIME") ->
               {Drop("DROPIN"), Do("inhibit"), Do("stop"), Do("label")}
          [] step[2] \in Tools -> o.errors
          [] OTHER -> {}) # {}

(* Mutant of RollbackSkips: a command that is still there is not exchanged. *)
RollbackKeepsTools(step, o) ==
  \/ Do("stop") \in o.errors /\ step # Do("repolicy")
  \/ /\ step[1] = "copy" /\ step[2] \in Software
     /\ o.errors \cap {Drop(item) : item \in Software} # {}
  \/ step[2] \in Tools /\ o.before.disk[step[2]] # Absent

(* Without the service stopped, only the policy module is restored; without *)
(* all of the software gone, none of it; with any error, no command.        *)
RollbackSkips(step, o) ==
  \/ Do("stop") \in o.errors /\ step # Do("repolicy")
  \/ /\ step[1] = "copy" /\ step[2] \in Software
     /\ o.errors \cap {Drop(item) : item \in Software} # {}
  \/ /\ step[2] \in Tools
     /\ \/ \E error \in o.errors : error[2] \notin Tools
        \/ step[1] = "copy" /\ Drop(step[2]) \in o.errors

Skips(step, o, h) ==
  \/ step[1] = "drop" /\ h.disk[step[2]] = Absent
  \/ step[1] = "copy" /\ o.before.disk[step[2]] = Absent
  \/ step[1] = "release" /\ (h.mask # "ours" \/ Nested(o))
  \/ o.phase = "rollback" /\ RollbackSkips(step, o)
  \/ o.phase = "body" /\ (o.kind # "install" \/ Nested(o))
     /\ RemovalSkips(step, o)

(* Without the mask the service counts as not quiesced.                     *)
Can(step, o, h) ==
  /\ step = Do("stop") => h.mask # "none"
  /\ step = Do("removed") => o.errors = {}
  /\ step = Do("preflight") => Preflight(h)

(* The machine after a step.                                                *)
Done(step, o, h) ==
  LET item == step[2]
  IN CASE step[1] = "drop" -> With(h, item, Absent, FALSE)
       [] step[1] = "make" -> With(h, item, Part, FALSE)
       [] step[1] = "put" -> With(h, item, o.rel, o.added)
       [] step[1] = "copy" ->
            With(h, item, o.before.disk[item], o.before.owns)
       [] step[1] = "inhibit" ->
            [h EXCEPT !.mask = IF @ = "none" THEN "ours" ELSE @]
       [] step[1] = "stop" ->
            [h EXCEPT !.loaded = IF h.mask = "none" THEN "open" ELSE "masked",
                      !.running = FALSE]
       [] step[1] = "release" ->
            [h EXCEPT !.mask = "none", !.loaded = "open"]
       [] step[1] = "policy" -> [h EXCEPT !.policy = FALSE]
       [] step[1] = "repolicy" -> [h EXCEPT !.policy = o.before.policy]
       [] step[1] = "label" -> [h EXCEPT !.rule = "none"]
       [] step[1] = "import" -> [h EXCEPT !.material = @ \/ o.import]
       [] step[1] = "map" ->
            [h EXCEPT !.rule = IF h.material /\ @ = "none" THEN "ours" ELSE @]
       [] step[1] = "remap" ->
            [h EXCEPT !.rule = IF o.before.rule = "none" \/ @ = "none"
                               THEN o.before.rule ELSE @]
       [] OTHER -> h

(* The machine after a step that raised.  rmtree() and copies may stop      *)
(* halfway; a single file is published or removed in one operation, but the *)
(* label that follows a publication may fail; a mask whose inode was not    *)
(* seen is nobody's.                                                        *)
Partly(step, o, h) ==
  LET item == step[2]  done == Done(step, o, h)
      half == With(h, item, Part, FALSE)
  IN CASE step[1] = "drop" ->
            IF item \in Directories THEN {h, half} ELSE {h}
       [] step[1] = "make" -> {h}
       [] step[1] = "copy" -> {h, half, done}
       [] step[1] = "inhibit" ->
            {h, [h EXCEPT !.mask = IF @ = "none" THEN "other" ELSE @]}
       [] step[1] = "stop" -> {h, [h EXCEPT !.loaded = done.loaded], done}
       [] step[1] = "release" -> {h, [h EXCEPT !.mask = "none"]}
       [] OTHER -> {h, done}

Ended(o, verdict) ==
  [o EXCEPT !.phase = "ended", !.todo = <<>>, !.errors = {}, !.owned = FALSE,
            !.added = FALSE, !.import = FALSE, !.verdict = verdict]

Leaving(o, verdict) ==
  [o EXCEPT !.phase = "leave", !.todo = LeaveSteps, !.verdict = verdict]

RollingBack(o) ==
  [o EXCEPT !.phase = "rollback", !.todo = RollbackSteps, !.errors = {}]

(* The end of a program, and what comes next.                               *)
Onward(o) ==
  IF o.todo # <<>> THEN o
  ELSE CASE o.phase = "enter" ->
              [o EXCEPT !.phase = "body",
                        !.todo = InstallSteps(Present(o.before, Items))]
         [] o.phase = "leave" -> Ended(o, o.verdict)
         [] o.phase = "rollback" ->
              Leaving(o, IF o.errors = {} THEN "restored" ELSE "broken")
         [] o.phase = "body" /\ o.kind = "install" -> Leaving(o, "installed")
         [] OTHER -> Ended(o, IF o.errors = {} THEN "removed" ELSE "incomplete")

Passed(o) == [o EXCEPT !.todo = Tail(@)]

(* An exception in the step at the head of todo.                            *)
Raised(o) ==
  IF Attempted(o)
  THEN Onward([Passed(o) EXCEPT !.errors = @ \cup {Head(o.todo)}])
  ELSE CASE o.phase = "body" -> RollingBack(o)
         [] o.phase = "enter" -> Leaving(o, "failed")
         [] OTHER -> Ended(o, o.verdict)

(* KeyboardInterrupt, which no attempt() catches: remove() still releases   *)
(* the mask when it had begun to take it, an installation rolls back, and a *)
(* rollback ends.                                                           *)
Interrupted(o) ==
  CASE o.phase = "leave" -> Ended(o, o.verdict)
    [] o.phase \in {"enter", "rollback"} -> Leaving(o, "interrupted")
    [] o.phase = "body" /\ o.kind = "install" -> RollingBack(o)
    [] OTHER -> IF In(Do("release"), Tail(o.todo)) /\ ~In(Drop("DROPIN"), o.todo)
                THEN Leaving(o, "interrupted") ELSE Ended(o, "interrupted")

-----------------------------------------------------------------------------
(* Steps.  A mask is nobody's once the process that made it has gone.       *)

Becomes(h, o) ==
  /\ op' = o
  /\ host' = IF o.phase = "ended" /\ h.mask = "ours"
             THEN [h EXCEPT !.mask = "other"] ELSE h

Working == op.phase # "ended"

(* apply(): a partial installation is refused before anything is changed.   *)
BeginInstall ==
  /\ ~Working
  /\ Present(host, Items) => Preflight(host)
  /\ \E rel \in Release, import \in BOOLEAN :
       /\ import => ~host.material /\ ~Present(host, Items)
       /\ op' = [NewOp("install", host) EXCEPT !.rel = rel, !.import = import]
  /\ UNCHANGED <<host, trouble>>

(* Either command is a whole copy of remove.py.                             *)
BeginRemoval(kind) ==
  /\ ~Working
  /\ IF kind = "force" THEN Whole(host, "FORCE")
     ELSE Whole(host, "NORMAL") /\ Preflight(host)
  /\ op' = NewOp(kind, host)
  /\ UNCHANGED <<host, trouble>>

Skip ==
  /\ Working /\ Skips(Head(op.todo), op, host)
  /\ Becomes(host, Onward(Passed(op)))
  /\ UNCHANGED trouble

Succeed ==
  LET step == Head(op.todo)
  IN /\ Working /\ ~Skips(step, op, host) /\ Can(step, op, host)
     /\ Becomes(Done(step, op, host),
                Onward([Passed(op) EXCEPT
                  !.added = @ \/ (step = Do("map") /\ host.material
                                  /\ host.rule = "none")]))
     /\ UNCHANGED trouble

(* A check fails for what it finds.                                         *)
Refuse ==
  LET step == Head(op.todo)
  IN /\ Working /\ ~Skips(step, op, host) /\ ~Can(step, op, host)
     /\ Becomes(Done(step, op, host), Raised(op))
     /\ UNCHANGED trouble

GoesWrong == trouble < MaxTrouble /\ trouble' = trouble + 1
Troubled(o) == [o EXCEPT !.troubled = TRUE]

(* The file system, semanage, semodule or systemctl fails.                  *)
Fail ==
  LET step == Head(op.todo)
  IN /\ Working /\ ~Skips(step, op, host)
     /\ \E h \in Partly(step, op, host) : Becomes(h, Troubled(Raised(op)))
     /\ GoesWrong

Interrupt ==
  /\ Working
  /\ \E h \in {host} \cup
              (IF Skips(Head(op.todo), op, host) THEN {}
               ELSE Partly(Head(op.todo), op, host)) :
       Becomes(h, Troubled(Interrupted(op)))
  /\ GoesWrong

Kill ==
  /\ Working
  /\ \E h \in {host} \cup
              (IF Skips(Head(op.todo), op, host) THEN {}
               ELSE Partly(Head(op.todo), op, host)) :
       Becomes(h, Troubled(Ended(op, "killed")))
  /\ GoesWrong

(* /run is empty after a start.                                             *)
Started(h) == [h EXCEPT !.mask = "none", !.loaded = "open", !.running = FALSE]

PowerLoss ==
  /\ Working
  /\ Becomes(Started(host), Troubled(Ended(op, "killed")))
  /\ GoesWrong

Restart ==
  /\ ~Working /\ host' = Started(host)
  /\ UNCHANGED <<op, trouble>>

(* systemd: a client activates fprintd, it exits when idle, anyone reloads. *)
ServiceStarts ==
  /\ host.loaded = "open" /\ ~host.running
  /\ host' = [host EXCEPT !.running = TRUE]
  /\ UNCHANGED <<op, trouble>>

ServiceStops ==
  /\ host.running /\ host' = [host EXCEPT !.running = FALSE]
  /\ UNCHANGED <<op, trouble>>

Reload ==
  /\ host' = [host EXCEPT !.loaded =
                IF host.mask = "none" THEN "open" ELSE "masked"]
  /\ UNCHANGED <<op, trouble>>

-----------------------------------------------------------------------------
(* A host without the driver, with or without an administrator's mapping, a *)
(* bundle and a legacy policy; what is installed comes from an installation.*)
Init ==
  /\ \E rule \in {"none", "admin"}, material, policy \in BOOLEAN :
       host = [disk |-> [item \in Items |-> Absent], owns |-> FALSE,
               rule |-> rule, policy |-> policy, material |-> material,
               mask |-> "none", loaded |-> "open", running |-> FALSE]
  /\ op = Ended(NewOp("force", host), "none")
  /\ trouble = 0

Next ==
  \/ BeginInstall
  \/ \E kind \in {"normal", "force"} : BeginRemoval(kind)
  \/ Skip \/ Succeed \/ Refuse \/ Fail \/ Interrupt \/ Kill \/ PowerLoss
  \/ Restart \/ ServiceStarts \/ ServiceStops \/ Reload

Spec == Init /\ [][Next]_vars

-----------------------------------------------------------------------------
(* Properties.                                                              *)

(* Types; and only a receipt that is there says who owns the mapping.       *)
TypeOK ==
  /\ host \in Hosts
  /\ host.owns => Whole(host, "RUNTIME")
  /\ host.mask = "ours" => Working
  /\ op.kind \in {"install", "normal", "force"}
  /\ op.phase \in {"enter", "body", "rollback", "leave", "ended"}
  /\ trouble \in 0..MaxTrouble

(* An entry that PAM or systemd reads refers to something whole.            *)
EntriesHold(h) ==
  /\ Present(h, {"CONFIG"}) => Whole(h, "SUPPORT")
  /\ Present(h, {"DROPIN"}) => Whole(h, "RUNTIME")

(* What is installed can be removed.                                        *)
Removable(h) == Present(h, Software) => Whole(h, "FORCE")

(* Whatever fails, is interrupted or loses power: outside of a rollback no  *)
(* step leaves the login or the service configured for what is not there,   *)
(* nor software without the command that removes it; and no step at all,    *)
(* of a rollback either, changes the libraries under a running service.     *)
SafeSteps ==
  [][/\ op.phase # "rollback" =>
          /\ EntriesHold(host) => EntriesHold(host)'
          /\ Removable(host) => Removable(host)'
     /\ host.disk["RUNTIME"] # host'.disk["RUNTIME"] => ~host.running]_vars

(* How it ended is how things are.  Only trouble ends an operation without  *)
(* success; a rollback that passed has undone everything, a removal that    *)
(* did not pass can be tried again; the service is not left masked without  *)
(* cause; an administrator's mapping survives all but a forced removal.     *)
Outcome ==
  ~Working =>
    /\ op.verdict \notin {"none", "installed", "removed"} => op.troubled
    /\ ~op.troubled => host.mask \in {"none", op.before.mask}
    /\ op.kind # "force" /\ op.before.rule = "admin" => host.rule = "admin"
    /\ op.verdict = "installed" =>
         /\ \A item \in Items : host.disk[item] = op.rel
         /\ ~host.policy /\ (host.material => host.rule # "none")
         /\ host.owns => host.rule = "ours"
    /\ op.verdict \in {"failed", "restored"} =>
         [disk |-> host.disk, owns |-> host.owns, rule |-> host.rule,
          policy |-> host.policy] =
         [disk |-> op.before.disk, owns |-> op.before.owns,
          rule |-> op.before.rule, policy |-> op.before.policy]
    /\ op.verdict = "removed" =>
         /\ ~Present(host, Items) /\ ~host.policy
         /\ host.rule = IF op.kind = "force" \/ op.before.owns
                        THEN "none" ELSE op.before.rule
    /\ op.verdict = "incomplete" => Whole(host, "FORCE")
    /\ op.kind # "install" /\ op.verdict \in {"interrupted", "killed"} =>
         Whole(host, "FORCE") \/ ~Present(host, Items)

(* docs/UNINSTALL.md: "An installation error that reports incomplete        *)
(* rollback can be cleaned up with this same command", goodix-force-remove. *)
(* The code: the rollback may fail where the command is gone.               *)
BrokenIsRemovable ==
  ~Working /\ op.verdict = "broken" => Removable(host)
=============================================================================
