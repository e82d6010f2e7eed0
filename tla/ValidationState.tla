-------------------------- MODULE ValidationState --------------------------
(***************************************************************************)
(* The production validator on a server: runs of validate-production-vm.sh *)
(* in the modes --prepare-reboot and --post-reboot, under the report of    *)
(* secure-validation-io.py, which also keeps the boot id across the reboot *)
(* and executes the operator's hook.  Runs overlap; the server loses power *)
(* or reboots; an administrator removes or restores the state file, moves  *)
(* the state directory, rotates reports and installs hooks meanwhile.      *)
(*                                                                         *)
(* Simplifications.  A file is a number that is never used again, its      *)
(* content one boot id or Torn; owner, mode, size and link count, which    *)
(* the helper checks at every open, are right for every file but a hook    *)
(* outside GoodHooks.  Nobody edits a file in place.  What fsync has not   *)
(* forced to the disk reaches it at any time (WriteBack) or never; the     *)
(* name of a new directory is there once the directory is, as journaling   *)
(* file systems have it.  REPORT_DIR is inside STATE_DIR, as by default,   *)
(* or elsewhere; reports that a moved directory took with it do not come   *)
(* back.  One hook stands for the three, and the names of temporary files, *)
(* random and never read, are left out.                                    *)
(***************************************************************************)
EXTENDS Naturals, Sequences

CONSTANTS
  Procs,      \* runs of the validator
  Dirs,       \* directories that are, or were, /var/lib/hostpanel-validation
  GoodHooks,  \* hooks with safe metadata
  MaxFiles,   \* bound: state files ever made, by the helper or by hand
  MaxHooks,   \* bound: different hooks
  MaxBoots,   \* bound: boots
  MaxRuns,    \* bound: runs
  MaxAdmin,   \* bound: steps of the administrator
  MaxKills    \* bound: SIGKILLs

None == 0  \* no file
Torn == 0  \* content that was not written to the end: no boot id

ASSUME DirsAssumption == None \notin Dirs
ASSUME HooksAssumption == GoodHooks \subseteq 1..MaxHooks
ASSUME BoundsAssumption ==
  \A n \in {MaxFiles, MaxHooks, MaxBoots, MaxRuns, MaxAdmin, MaxKills} :
     n \in Nat

VARIABLES
  (* the server *)
  path,     \* the directory at STATE_DIR, None if there is none
  entry,    \* entry[d]: the file that d names pre-reboot.boot-id
  safe,     \* safe[d]: the same on the disk
  content,  \* content[i]: what file i holds
  flushed,  \* the files whose content is on the disk
  boot,     \* /proc/sys/kernel/random/boot_id
  hook,     \* the hook at the operator's path
  report,   \* report[p]: the report of p's run: "none" at its path, "partial",
            \* or "kept": whole, and on the disk with its name
  (* the validator's runs *)
  op,       \* op[p].floor: acked when p looked at the name it had read
  (* what was promised *)
  acked,    \* the boot id of the newest record that was reported, None if
            \* it was removed or restored by hand since
  passed,   \* the runs that ended with status 0 and have their report
  ran,      \* the hooks that were executed
  bounds    \* how often the bounded steps have happened

state == <<path, entry, safe, content, flushed>>
vars  == <<state, boot, hook, report, op, acked, passed, ran, bounds>>

Idle == [pc |-> "idle", mode |-> "none", failed |-> FALSE, dir |-> None,
         old |-> None, new |-> None, seen |-> None, floor |-> None,
         hook |-> None]

Made  == DOMAIN content

Init ==
  /\ path = None
  /\ entry = [d \in Dirs |-> None] /\ safe = entry
  /\ content = << >> /\ flushed = {}
  /\ boot = 1 /\ hook \in GoodHooks \union {None}
  /\ report = [p \in Procs |-> "none"]
  /\ op = [p \in Procs |-> Idle]
  /\ acked = None /\ passed = {} /\ ran = {}
  /\ bounds = [runs |-> 0, admin |-> 0, kills |-> 0]

At(p, pc) == op[p].pc = pc
Writing(p) ==
  op[p].pc \in {"create", "fill", "recheck", "replace", "sync", "confirm"}
Reading(p) == op[p].pc \in {"opened", "named", "compare"}
Goto(p, pc) == op' = [op EXCEPT ![p] = [@ EXCEPT !.pc = pc]]

(* p has done with the files it had open, and the run goes on or fails.    *)
Pass(p, pc) ==
  op' = [op EXCEPT ![p] = [Idle EXCEPT !.pc = pc, !.mode = op[p].mode,
                                       !.failed = op[p].failed]]
Fail(p, pc) ==
  op' = [op EXCEPT ![p] = [Idle EXCEPT !.pc = pc, !.mode = op[p].mode,
                                       !.failed = TRUE]]
Count(n) == bounds' = [bounds EXCEPT ![n] = @ + 1]

NewFile == Len(content) + 1  \* the next file that is made

(* _verify_path_matches_directory                                          *)
SamePath(p) == path = op[p].dir

(* _validate_regular_file                                                  *)
SafeHook == hook \in GoodHooks
-----------------------------------------------------------------------------
(* ensure_directory: open_trusted_directory makes the one that is missing. *)
EnsureDirectory ==
  \/ path # None /\ UNCHANGED path
  \/ path = None /\ \E d \in Dirs : entry[d] = None /\ path' = d

(* _create_report: a new name.                                             *)
CreateReport(p) == report' = [report EXCEPT ![p] = "partial"]

(* The directories, and run_with_report starts the validator proper.       *)
Start(p) ==
  /\ At(p, "idle") /\ bounds.runs < MaxRuns
  /\ EnsureDirectory /\ CreateReport(p)
  /\ \E mode \in {"prepare", "post"} :
       op' = [op EXCEPT ![p] = [@ EXCEPT
              !.mode = mode,
              !.pc = IF mode = "post" THEN "read" ELSE "checks"]]
  /\ passed' = passed \ {p}
  /\ Count("runs")
  /\ UNCHANGED <<entry, safe, content, flushed, boot, hook, acked, ran>>

(* Mutant of ReadOpen: a directory without the file is not noticed.        *)
ReadAbsent(p) ==
  /\ At(p, "read")
  /\ IF path # None
       THEN op' = [op EXCEPT ![p] = [@ EXCEPT
                   !.pc = "opened", !.dir = path, !.seen = entry[path]]]
       ELSE Fail(p, "checks")
  /\ UNCHANGED <<state, boot, hook, report, acked, passed, ran, bounds>>

(* check_reboot: read_state opens the file, and fails without one.         *)
ReadOpen(p) ==
  /\ At(p, "read")
  /\ IF path # None /\ entry[path] # None
       THEN op' = [op EXCEPT ![p] = [@ EXCEPT
                   !.pc = "opened", !.dir = path, !.seen = entry[path]]]
       ELSE Fail(p, "checks")
  /\ UNCHANGED <<state, boot, hook, report, acked, passed, ran, bounds>>

(* Mutant of ReadName: what was read counts whatever the name leads to.    *)
ReadUnchecked(p) ==
  /\ At(p, "opened")
  /\ op' = [op EXCEPT ![p] = [@ EXCEPT !.pc = "named", !.floor = acked]]
  /\ UNCHANGED <<state, boot, hook, report, acked, passed, ran, bounds>>

(* The file has been read: the name must still lead to it.                 *)
ReadName(p) ==
  /\ At(p, "opened")
  /\ IF entry[op[p].dir] = op[p].seen
       THEN op' = [op EXCEPT ![p] = [@ EXCEPT
                   !.pc = "named", !.floor = acked]]
       ELSE Fail(p, "checks")
  /\ UNCHANGED <<state, boot, hook, report, acked, passed, ran, bounds>>

(* The path must still lead to the directory; the data is handed over.     *)
ReadPath(p) ==
  /\ At(p, "named")
  /\ IF SamePath(p) THEN Goto(p, "compare") ELSE Fail(p, "checks")
  /\ UNCHANGED <<state, boot, hook, report, acked, passed, ran, bounds>>

(* The boot id that was read, if there is one, against this boot's.        *)
Compare(p) ==
  /\ At(p, "compare")
  /\ IF content[op[p].seen] \notin {Torn, boot}
       THEN Goto(p, "verified") ELSE Fail(p, "checks")
  /\ UNCHANGED <<state, boot, hook, report, acked, passed, ran, bounds>>

(* "[PASS] boot ID changed; reboot was verified", and on with the checks.  *)
Verified(p) ==
  /\ At(p, "verified") /\ Pass(p, "checks")
  /\ UNCHANGED <<state, boot, hook, report, acked, passed, ran, bounds>>
-----------------------------------------------------------------------------
(* run_checks: everything but the hook passes or does not.                 *)
Checks(p) ==
  /\ At(p, "checks")
  /\ \E failed \in {op[p].failed, TRUE} :
       op' = [op EXCEPT ![p] = [@ EXCEPT !.pc = "hook", !.failed = failed]]
  /\ UNCHANGED <<state, boot, hook, report, acked, passed, ran, bounds>>

AfterHook(p) ==
  IF op[p].mode = "prepare" /\ ~ op[p].failed THEN "record" ELSE "finish"

HookAbsent(p) ==
  /\ At(p, "hook") /\ Goto(p, AfterHook(p))
  /\ UNCHANGED <<state, boot, hook, report, acked, passed, ran, bounds>>

OpenHook(p) ==
  /\ At(p, "hook")
  /\ IF SafeHook
       THEN op' = [op EXCEPT ![p] = [@ EXCEPT !.pc = "exec", !.hook = hook]]
       ELSE Fail(p, "finish")
  /\ UNCHANGED <<state, boot, hook, report, acked, passed, ran, bounds>>

(* The path is looked at once more.                                        *)
RecheckHook(p) ==
  /\ At(p, "exec")
  /\ IF hook = op[p].hook THEN Goto(p, "run") ELSE Fail(p, "finish")
  /\ UNCHANGED <<state, boot, hook, report, acked, passed, ran, bounds>>

(* Mutant of Executed: execve of the path.                                 *)
AtPath(p) == hook

(* execve of the descriptor that was opened.                               *)
Executed(p) == op[p].hook

(* The hook runs, and returns 0 or fails.                                  *)
ExecuteHook(p) ==
  /\ At(p, "run")
  /\ ran' = ran \union {Executed(p)}
  /\ Pass(p, AfterHook(p)) \/ Fail(p, "finish")
  /\ UNCHANGED <<state, boot, hook, report, acked, passed, bounds>>
-----------------------------------------------------------------------------
(* write_state                                                             *)
WriteStat(p) ==
  /\ At(p, "record")
  /\ IF path # None
       THEN op' = [op EXCEPT ![p] = [@ EXCEPT
                   !.pc = "create", !.dir = path, !.old = entry[path]]]
       ELSE Fail(p, "finish")
  /\ UNCHANGED <<state, boot, hook, report, acked, passed, ran, bounds>>

Create(p) ==
  /\ At(p, "create") /\ Len(content) < MaxFiles
  /\ content' = Append(content, Torn)
  /\ op' = [op EXCEPT ![p] = [@ EXCEPT !.pc = "fill", !.new = NewFile]]
  /\ UNCHANGED <<path, entry, safe, flushed, boot, hook, report, acked, passed,
                 ran, bounds>>

(* Mutant of Fill: no fsync of the temporary file.                         *)
FillOnly(p) ==
  /\ At(p, "fill")
  /\ content' = [content EXCEPT ![op[p].new] = boot]
  /\ Goto(p, "recheck")
  /\ UNCHANGED <<path, entry, safe, flushed, boot, hook, report, acked,
                 passed, ran, bounds>>

Fill(p) ==
  /\ At(p, "fill")
  /\ content' = [content EXCEPT ![op[p].new] = boot]
  /\ flushed' = flushed \union {op[p].new}
  /\ Goto(p, "recheck")
  /\ UNCHANGED <<path, entry, safe, boot, hook, report, acked, passed,
                 ran, bounds>>

Recheck(p) ==
  /\ At(p, "recheck")
  /\ entry[op[p].dir] = op[p].old /\ SamePath(p)
  /\ Goto(p, "replace")
  /\ UNCHANGED <<state, boot, hook, report, acked, passed, ran, bounds>>

Replace(p) ==
  /\ At(p, "replace")
  /\ entry' = [entry EXCEPT ![op[p].dir] = op[p].new]
  /\ Goto(p, "sync")
  /\ UNCHANGED <<path, safe, content, flushed, boot, hook, report, acked,
                 passed, ran, bounds>>

(* Mutant of SyncDirectory: no fsync of the directory.                     *)
NoSync(p) ==
  /\ At(p, "sync") /\ Goto(p, "confirm")
  /\ UNCHANGED <<state, boot, hook, report, acked, passed, ran, bounds>>

SyncDirectory(p) ==
  /\ At(p, "sync")
  /\ safe' = [safe EXCEPT ![op[p].dir] = entry[op[p].dir]]
  /\ Goto(p, "confirm")
  /\ UNCHANGED <<path, entry, content, flushed, boot, hook, report,
                 acked, passed, ran, bounds>>

Confirm(p) ==
  /\ At(p, "confirm")
  /\ entry[op[p].dir] = op[p].new /\ SamePath(p)
  /\ acked' = boot /\ Pass(p, "finish")
  /\ UNCHANGED <<state, boot, hook, report, passed, ran, bounds>>

(* A check or a system call fails, and the temporary file is removed.      *)
WriteFails(p) ==
  /\ Writing(p)
  /\ Fail(p, "finish")
  /\ UNCHANGED <<path, entry, safe, content, flushed, boot, hook, report,
                 acked, passed, ran, bounds>>
-----------------------------------------------------------------------------
(* Mutant of Finish: the status is returned before the report is forced to *)
(* the disk.                                                               *)
FinishEarly(p) ==
  /\ At(p, "finish")
  /\ op' = [op EXCEPT ![p] = Idle]
  /\ passed' = IF op[p].failed \/ report[p] = "none"
                 THEN passed ELSE passed \union {p}
  /\ UNCHANGED <<state, boot, hook, report, acked, ran, bounds>>

(* The child has ended: its output is complete, forced to the disk, and    *)
(* must still have its name, which is forced to the disk in turn.          *)
Finish(p) ==
  /\ At(p, "finish")
  /\ op' = [op EXCEPT ![p] = Idle]
  /\ IF report[p] = "none" THEN UNCHANGED report
                           ELSE report' = [report EXCEPT ![p] = "kept"]
  /\ passed' = IF op[p].failed \/ report[p] = "none"
                 THEN passed ELSE passed \union {p}
  /\ UNCHANGED <<state, boot, hook, acked, ran, bounds>>

(* A fault of the disk or the terminal ends the run with a traceback.      *)
FinishFails(p) ==
  /\ At(p, "finish")
  /\ op' = [op EXCEPT ![p] = Idle]
  /\ UNCHANGED <<state, boot, hook, report, acked, passed, ran, bounds>>

Kill(p) ==
  /\ ~ At(p, "idle") /\ bounds.kills < MaxKills
  /\ op' = [op EXCEPT ![p] = Idle]
  /\ Count("kills")
  /\ UNCHANGED <<state, boot, hook, report, acked, passed, ran>>
-----------------------------------------------------------------------------
(* The kernel writes a directory back.                                     *)
WriteBack(d) ==
  /\ safe[d] # entry[d]
  /\ safe' = [safe EXCEPT ![d] = entry[d]]
  /\ UNCHANGED <<path, entry, content, flushed, boot, hook, report, op,
                 acked, passed, ran, bounds>>

(* Power loss or reboot: what the disk has remains.                        *)
Reboot ==
  /\ boot < MaxBoots
  /\ boot' = boot + 1
  /\ entry' = safe
  /\ content' = [i \in Made |-> IF i \in flushed THEN content[i] ELSE Torn]
  /\ report' = [p \in Procs |->
                  IF report[p] = "kept" THEN "kept" ELSE "none"]
  /\ op' = [p \in Procs |-> Idle]
  /\ UNCHANGED <<path, safe, flushed, hook, acked, passed, ran, bounds>>

(* The administrator removes the state file, or puts a copy of an earlier  *)
(* one there.                                                              *)
ChangeState ==
  /\ bounds.admin < MaxAdmin /\ path # None
  /\ \/ /\ entry' = [entry EXCEPT ![path] = None]
        /\ safe' = [safe EXCEPT ![path] = None]
        /\ UNCHANGED <<content, flushed>>
     \/ \E v \in 1..boot :
          /\ Len(content) < MaxFiles
          /\ content' = Append(content, v)
          /\ flushed' = flushed \union {NewFile}
          /\ entry' = [entry EXCEPT ![path] = NewFile]
          /\ safe' = [safe EXCEPT ![path] = NewFile]
  /\ acked' = None
  /\ Count("admin")
  /\ UNCHANGED <<path, boot, hook, report, op, passed, ran>>

(* The directory is moved away, or another one is put in its place, with   *)
(* the reports if they are in it; what was recorded no longer counts.      *)
MoveDirectory ==
  /\ bounds.admin < MaxAdmin
  /\ path' \in (Dirs \union {None}) \ {path}
  /\ \/ UNCHANGED <<report, passed>>
     \/ report' = [p \in Procs |-> "none"] /\ passed' = {}
  /\ acked' = None
  /\ op' = [p \in Procs |-> [op[p] EXCEPT !.floor = None]]
  /\ Count("admin")
  /\ UNCHANGED <<entry, safe, content, flushed, boot, hook, ran>>

InstallHook ==
  /\ bounds.admin < MaxAdmin
  /\ hook' \in 1..MaxHooks \ {hook}
  /\ Count("admin")
  /\ UNCHANGED <<state, boot, report, op, acked, passed, ran>>

RotateReport(p) ==
  /\ bounds.admin < MaxAdmin /\ report[p] # "none"
  /\ report' = [report EXCEPT ![p] = "none"]
  /\ passed' = passed \ {p}
  /\ Count("admin")
  /\ UNCHANGED <<state, boot, hook, op, acked, ran>>
-----------------------------------------------------------------------------
Next ==
  \/ \E p \in Procs :
       \/ Start(p) \/ ReadOpen(p) \/ ReadName(p) \/ ReadPath(p)
       \/ Compare(p) \/ Verified(p) \/ Checks(p)
       \/ HookAbsent(p) \/ OpenHook(p) \/ RecheckHook(p) \/ ExecuteHook(p)
       \/ WriteStat(p) \/ Create(p) \/ Fill(p) \/ Recheck(p) \/ Replace(p)
       \/ SyncDirectory(p) \/ Confirm(p) \/ WriteFails(p)
       \/ Finish(p) \/ FinishFails(p) \/ Kill(p) \/ RotateReport(p)
  \/ \E d \in Dirs : WriteBack(d)
  \/ Reboot \/ ChangeState \/ MoveDirectory \/ InstallHook

Spec == Init /\ [][Next]_vars
-----------------------------------------------------------------------------
Modes == {"none", "prepare", "post"}
PCs == {"idle", "read", "opened", "named", "compare", "verified", "checks",
        "hook", "exec", "run", "record", "create", "fill", "recheck", "replace",
        "sync", "confirm", "finish"}

(* TYPE: the values of the variables; a name leads to a file that exists,  *)
(* and a run has opened what its step needs.                               *)
Op == [pc: PCs, mode: Modes, failed: BOOLEAN, dir: Dirs \union {None},
       old: Nat, new: Nat, seen: Nat, floor: Nat, hook: Nat]

StoreType ==
  /\ path \in Dirs \union {None}
  /\ entry \in [Dirs -> Made \union {None}]
  /\ safe \in [Dirs -> Made \union {None}]
  /\ content \in Seq(Nat)
  /\ flushed \subseteq Made
  /\ boot \in Nat \ {0}

OpenType(p) ==
  /\ Reading(p) => op[p].dir \in Dirs /\ op[p].seen \in Made
  /\ Writing(p) => op[p].dir \in Dirs
  /\ Writing(p) /\ ~ At(p, "create") => op[p].new \in Made

TypeOK ==
  /\ StoreType
  /\ op \in [Procs -> Op] /\ \A p \in Procs : OpenType(p)
  /\ hook \in Nat /\ report \in [Procs -> {"none", "partial", "kept"}]
  /\ acked \in Nat /\ passed \subseteq Procs /\ ran \subseteq Nat
  /\ bounds \in [runs: Nat, admin: Nat, kills: Nat]

(* "[PASS] boot ID changed; reboot was verified" is true                   *)
(* (validate-production-vm.sh:264): the server has rebooted since the      *)
(* newest record that any --prepare-reboot had reported when this run,     *)
(* having read the file, looked at its name (secure-validation-io.py:302), *)
(* also when it was reported after the file had been opened.  A record     *)
(* reported between that look and the [PASS] is not noticed by the code,   *)
(* and not covered.                                                        *)
RebootVerified ==
  \A p \in Procs : At(p, "verified") => op[p].floor < boot

(* A boot id that was reported as recorded is on the disk and at its path  *)
(* until the administrator changes it (secure-validation-io.py:320-392):   *)
(* no power loss, and no other run, brings back an older one.              *)
RecordSurvives ==
  acked # None =>
    /\ path # None
    /\ \A i \in {entry[path], safe[path]} :
         i # None /\ i \in flushed /\ content[i] >= acked

(* The state file is never seen half written, by a reader or after a power *)
(* loss (secure-validation-io.py:347-370).                                 *)
NeverTorn ==
  \A d \in Dirs : \A i \in {entry[d], safe[d]} :
    i # None => content[i] # Torn

(* A hook that runs is one whose owner, mode and links were checked, even  *)
(* if another is installed at its path between the checks, or between the  *)
(* last of them and execve (secure-validation-io.py:395-470).              *)
HookChecked == ran \subseteq GoodHooks

(* A run that ends with status 0 leaves its whole report at its path, and  *)
(* a power loss does not take it away (secure-validation-io.py:558-575).   *)
ReportKept == \A p \in passed : report[p] = "kept"
=============================================================================
