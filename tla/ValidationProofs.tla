-------------------------- MODULE ValidationProofs --------------------------
(***************************************************************************)
(* What the validator's record of the boot id, its hooks and its reports   *)
(* promise for every number of runs, directories, files, reboots and       *)
(* kills.                                                                  *)
(***************************************************************************)
EXTENDS ValidationState, TLAPS

(* The steps of a run that neither touch its files nor create one.         *)
Quiet(p) ==
  \/ ReadOpen(p) \/ ReadName(p) \/ ReadPath(p) \/ Compare(p)
  \/ Verified(p) \/ Checks(p)
  \/ HookAbsent(p) \/ OpenHook(p) \/ RecheckHook(p) \/ ExecuteHook(p)
  \/ WriteStat(p) \/ WriteFails(p) \/ Finish(p) \/ FinishFails(p) \/ Kill(p)

HasFile(p) == Writing(p) /\ ~ At(p, "create")
-----------------------------------------------------------------------------
(* What the three ways of going on do to the runs.                         *)
LEMMA PassType ==
  ASSUME op \in [Procs -> Op], NEW p \in Procs, NEW pc \in PCs, Pass(p, pc)
  PROVE  /\ op' \in [Procs -> Op] /\ op'[p].pc = pc
         /\ \A q \in Procs \ {p} : op'[q] = op[q]
PROOF BY DEF Op, Idle, PCs, Modes, None, Pass

LEMMA FailType ==
  ASSUME op \in [Procs -> Op], NEW p \in Procs, NEW pc \in PCs, Fail(p, pc)
  PROVE  /\ op' \in [Procs -> Op] /\ op'[p].pc = pc
         /\ \A q \in Procs \ {p} : op'[q] = op[q]
PROOF BY DEF Op, Idle, PCs, Modes, None, Fail

LEMMA GotoType ==
  ASSUME op \in [Procs -> Op], NEW p \in Procs, NEW pc \in PCs, Goto(p, pc)
  PROVE  /\ op' \in [Procs -> Op]
         /\ op'[p].pc = pc /\ op'[p].dir = op[p].dir /\ op'[p].new = op[p].new
         /\ op'[p].seen = op[p].seen /\ op'[p].floor = op[p].floor
         /\ \A q \in Procs \ {p} : op'[q] = op[q]
PROOF BY DEF Op, PCs, Modes, None, Goto

(* A quiet step leaves the files alone; afterwards its run has no file of  *)
(* its own to put in place.                                                *)
LEMMA QuietStep ==
  ASSUME TypeOK, NEW p \in Procs, Quiet(p)
  PROVE  /\ UNCHANGED <<state, boot, acked>>
         /\ op' \in [Procs -> Op] /\ OpenType(p)' /\ ~ HasFile(p)'
         /\ \A q \in Procs \ {p} : op'[q] = op[q]
PROOF
<1> DEFINE Kept == UNCHANGED <<state, boot, acked>>
           Moved(pc) == /\ op' \in [Procs -> Op] /\ op'[p].pc = pc
                        /\ \A q \in Procs \ {p} : op'[q] = op[q]
           Goal == /\ op' \in [Procs -> Op] /\ OpenType(p)' /\ ~ HasFile(p)'
                   /\ \A q \in Procs \ {p} : op'[q] = op[q]
<1>a. op \in [Procs -> Op] /\ op[p] \in Op
  BY DEF TypeOK
<1>b. ASSUME NEW pc \in {"idle", "verified", "checks", "hook", "exec",
                         "run", "record", "finish"}, Moved(pc)
      PROVE  Goal
  BY <1>b DEF OpenType, HasFile, Reading, Writing, At
<1>c. Kept
  BY DEF Quiet, ReadOpen, ReadName, ReadPath, Compare, Verified, Checks,
         HookAbsent, OpenHook, RecheckHook, ExecuteHook, WriteStat, WriteFails,
         Finish, FinishFails, Kill, state
<1> SUFFICES Goal
  BY <1>c
<1>1. CASE ReadOpen(p)
  <2>1. CASE path # None /\ entry[path] # None
    <3>1. entry[path] \in Nat /\ path \in Dirs /\ entry[path] \in Made
      BY <2>1 DEF None, TypeOK, StoreType, Made
    <3>2. op' = [op EXCEPT ![p] = [@ EXCEPT
                   !.pc = "opened", !.dir = path, !.seen = entry[path]]]
      BY <1>1, <2>1 DEF ReadOpen
    <3>3. Moved("opened") /\ op'[p].dir = path /\ op'[p].seen = entry[path]
      BY <1>a, <3>1, <3>2 DEF Op, PCs
    <3> QED BY <1>c, <3>1, <3>3 DEF OpenType, HasFile, Reading, Writing, At,
                                    Made, state
  <2>2. CASE ~ (path # None /\ entry[path] # None)
    BY <1>1, <2>2, <1>a, <1>b, FailType DEF ReadOpen, PCs
  <2> QED BY <2>1, <2>2
<1>2. CASE ReadName(p) \/ ReadPath(p) \/ Compare(p)
  <2>1. CASE Fail(p, "checks")
    BY <2>1, <1>a, <1>b, FailType DEF PCs
  <2>2. CASE Goto(p, "verified")
    BY <2>2, <1>a, <1>b, GotoType DEF PCs
  <2>3. CASE /\ ReadName(p)
             /\ op' = [op EXCEPT ![p] = [@ EXCEPT
                         !.pc = "named", !.floor = acked]]
    <3>1. acked \in Nat
      BY DEF TypeOK
    <3>2. /\ Moved("named")
          /\ op'[p].dir = op[p].dir /\ op'[p].seen = op[p].seen
      BY <1>a, <2>3, <3>1 DEF Op, PCs
    <3>3. op[p].dir \in Dirs /\ op[p].seen \in Made
      BY <2>3 DEF ReadName, TypeOK, OpenType, Reading, At
    <3> QED BY <1>c, <3>2, <3>3
            DEF OpenType, HasFile, Reading, Writing, At, Made, state
  <2>4. CASE ReadPath(p) /\ Goto(p, "compare")
    <3>1. Moved("compare") /\ op'[p].dir = op[p].dir
          /\ op'[p].seen = op[p].seen
      BY <1>a, <2>4, GotoType DEF PCs
    <3>2. op[p].dir \in Dirs /\ op[p].seen \in Made
      BY <2>4 DEF ReadPath, TypeOK, OpenType, Reading, At
    <3> QED BY <1>c, <3>1, <3>2
            DEF OpenType, HasFile, Reading, Writing, At, Made, state
  <2> QED BY <1>2, <2>1, <2>2, <2>3, <2>4 DEF ReadName, ReadPath, Compare
<1>3. CASE Verified(p)
  BY <1>3, <1>a, <1>b, PassType DEF Verified, PCs
<1>4. CASE Checks(p)
  <2>1. PICK failed \in {op[p].failed, TRUE} :
          op' = [op EXCEPT ![p] = [@ EXCEPT !.pc = "hook", !.failed = failed]]
    BY <1>4 DEF Checks
  <2>2. failed \in BOOLEAN
    BY <1>a DEF Op
  <2>3. Moved("hook")
    BY <1>a, <2>1, <2>2 DEF Op, PCs
  <2> QED BY <1>b, <2>3
<1>5. CASE HookAbsent(p)
  <2>1. AfterHook(p) \in {"record", "finish"}
    BY DEF AfterHook
  <2> QED BY <1>5, <1>a, <1>b, <2>1, GotoType DEF HookAbsent, PCs
<1>6. CASE OpenHook(p)
  <2>1. CASE Fail(p, "finish")
    BY <2>1, <1>a, <1>b, FailType DEF PCs
  <2>2. CASE op' = [op EXCEPT ![p] = [@ EXCEPT !.pc = "exec", !.hook = hook]]
    <3>1. hook \in Nat
      BY DEF TypeOK
    <3>2. Moved("exec")
      BY <1>a, <2>2, <3>1 DEF Op, PCs
    <3> QED BY <1>b, <3>2
  <2> QED BY <1>6, <2>1, <2>2 DEF OpenHook
<1>7. CASE ExecuteHook(p)
  <2>1. AfterHook(p) \in {"record", "finish"}
    BY DEF AfterHook
  <2>2. Fail(p, "finish") \/ Pass(p, AfterHook(p))
    BY <1>7 DEF ExecuteHook
  <2> QED BY <1>a, <1>b, <2>1, <2>2, FailType, PassType DEF PCs
<1>8. CASE RecheckHook(p)
  BY <1>8, <1>a, <1>b, FailType, GotoType DEF RecheckHook, PCs
<1>9. CASE WriteStat(p)
  <2>1. CASE path # None
    <3>1. entry[path] \in Nat /\ path \in Dirs
      BY <2>1 DEF None, TypeOK, StoreType, Made
    <3>2. op' = [op EXCEPT ![p] = [@ EXCEPT
                   !.pc = "create", !.dir = path, !.old = entry[path]]]
      BY <1>9, <2>1 DEF WriteStat
    <3>3. Moved("create") /\ op'[p].dir = path
      BY <1>a, <3>1, <3>2 DEF Op, PCs
    <3> QED BY <3>1, <3>3 DEF OpenType, HasFile, Reading, Writing, At
  <2>2. CASE path = None
    BY <1>9, <2>2, <1>a, <1>b, FailType DEF WriteStat, PCs
  <2> QED BY <2>1, <2>2
<1>10. CASE WriteFails(p)
  BY <1>10, <1>a, <1>b, FailType DEF WriteFails, PCs
<1>11. CASE op' = [op EXCEPT ![p] = Idle]
  <2>1. Idle \in Op /\ Idle.pc = "idle"
    BY DEF Op, Idle, None, Modes, PCs
  <2>2. Moved("idle")
    BY <1>a, <1>11, <2>1
  <2> QED BY <1>b, <2>2
<1> QED
  BY <1>1, <1>2, <1>3, <1>4, <1>5, <1>6, <1>7, <1>8, <1>9, <1>10, <1>11
     DEF Quiet, Finish, FinishFails, Kill
-----------------------------------------------------------------------------
LEMMA StartType == Init => TypeOK
PROOF
<1> SUFFICES ASSUME Init PROVE TypeOK
  OBVIOUS
<1>1. StoreType
  BY DEF Init, StoreType, Made, None
<1>2. Idle \in Op /\ Idle.pc = "idle"
  BY DEF Op, Idle, None, Modes, PCs
<1>3. op \in [Procs -> Op] /\ \A p \in Procs : OpenType(p)
  BY <1>2 DEF Init, OpenType, At, Reading, Writing
<1> QED
  BY <1>1, <1>3, HooksAssumption DEF Init, TypeOK, None

(* A step that changes neither the runs' files nor the names keeps which   *)
(* files they have open.                                                   *)
LEMMA OpenKept ==
  ASSUME NEW p \in Procs, OpenType(p), op'[p] = op[p], Made \subseteq Made'
  PROVE  OpenType(p)'
PROOF BY DEF OpenType, At, Reading, Writing

LEMMA FilesType == TypeOK /\ [Next]_vars =>
  /\ StoreType' /\ op' \in [Procs -> Op] /\ \A p \in Procs : OpenType(p)'
PROOF
<1> DEFINE Goal == /\ StoreType' /\ op' \in [Procs -> Op]
                   /\ \A p \in Procs : OpenType(p)'
<1> SUFFICES ASSUME TypeOK, [Next]_vars PROVE Goal
  OBVIOUS
<1>a. StoreType /\ op \in [Procs -> Op] /\ \A p \in Procs : OpenType(p)
  BY DEF TypeOK
<1>b. Idle \in Op /\ Idle.pc = "idle"
  BY DEF Op, Idle, None, Modes, PCs
<1>c. ASSUME UNCHANGED <<state, boot, op>> PROVE Goal
  BY <1>a, <1>c DEF StoreType, OpenType, state, Made, At, Reading, Writing
<1>1. ASSUME NEW p \in Procs, Quiet(p) PROVE Goal
  <2>1. UNCHANGED <<path, entry, safe, content, flushed, boot>>
    BY <1>1, QuietStep DEF state
  <2>2. \A q \in Procs \ {p} : OpenType(q)'
    BY <1>a, <1>1, <2>1, QuietStep, OpenKept DEF Made
  <2> QED BY <1>a, <1>1, <2>1, <2>2, QuietStep DEF StoreType, Made
<1>2. ASSUME NEW p \in Procs, Start(p) PROVE Goal
  <2>1. PICK mode \in {"prepare", "post"}, pc \in {"read", "checks"} :
          op' = [op EXCEPT ![p] = [@ EXCEPT !.mode = mode, !.pc = pc]]
    BY <1>2 DEF Start
  <2>2. op' \in [Procs -> Op] /\ op'[p].pc \in {"read", "checks"}
        /\ \A q \in Procs \ {p} : op'[q] = op[q]
    <3>1. mode \in Modes /\ pc \in PCs
      BY DEF Modes, PCs
    <3>2. [op[p] EXCEPT !.mode = mode, !.pc = pc] \in Op
      BY <1>a, <3>1 DEF Op
    <3>3. op'[p].pc = pc
      BY <1>a, <2>1 DEF Op
    <3> QED BY <1>a, <2>1, <3>2, <3>3
  <2>3. StoreType' /\ Made' = Made
    BY <1>a, <1>2 DEF Start, EnsureDirectory, StoreType, Made
  <2>4. OpenType(p)'
    BY <2>2 DEF OpenType, At, Reading, Writing
  <2> QED BY <1>a, <2>2, <2>3, <2>4, OpenKept
<1>3. ASSUME NEW p \in Procs, Create(p) PROVE Goal
  <2>1. NewFile \in Nat /\ content' = Append(content, Torn)
    BY <1>a, <1>3 DEF Create, NewFile, StoreType
  <2>2. /\ content' \in Seq(Nat) /\ Made \subseteq Made'
        /\ NewFile \in Made'
    BY <1>a, <2>1 DEF NewFile, Made, StoreType, Torn
  <2>3. /\ op' \in [Procs -> Op] /\ op'[p].pc = "fill"
        /\ op'[p].new = NewFile /\ op'[p].dir = op[p].dir
        /\ \A q \in Procs \ {p} : op'[q] = op[q]
    BY <1>a, <1>3, <2>1 DEF Create, Op, PCs
  <2>4. op[p].dir \in Dirs
    BY <1>a, <1>3 DEF Create, OpenType, Reading, Writing, At
  <2>5. OpenType(p)'
    BY <2>2, <2>3, <2>4 DEF OpenType, At, Reading, Writing
  <2>6. StoreType'
    BY <1>a, <1>3, <2>2 DEF Create, StoreType
  <2> QED BY <1>a, <2>2, <2>3, <2>5, <2>6, OpenKept
<1>4. ASSUME NEW p \in Procs,
             Fill(p) \/ Recheck(p) \/ Replace(p) \/ SyncDirectory(p)
      PROVE  Goal
  <2>1. PICK pc \in {"recheck", "replace", "sync", "confirm"} : Goto(p, pc)
    BY <1>4 DEF Fill, Recheck, Replace, SyncDirectory
  <2>2. op[p].dir \in Dirs /\ op[p].new \in Made
    BY <1>a, <1>4
       DEF Fill, Recheck, Replace, SyncDirectory, OpenType, Reading, Writing, At
  <2>3. content' \in Seq(Nat) /\ Made' = Made
    BY <1>a, <1>4 DEF Fill, Recheck, Replace, SyncDirectory, StoreType, Made,
                      state
  <2>4. StoreType'
    BY <1>a, <1>4, <2>2, <2>3
       DEF Fill, Recheck, Replace, SyncDirectory, StoreType, state
  <2>5. /\ op' \in [Procs -> Op] /\ op'[p].pc = pc
        /\ op'[p].dir = op[p].dir /\ op'[p].new = op[p].new
        /\ \A q \in Procs \ {p} : op'[q] = op[q]
    BY <1>a, <2>1, GotoType DEF PCs
  <2>6. OpenType(p)'
    BY <2>2, <2>3, <2>5 DEF OpenType, Reading, Writing, At
  <2> QED BY <1>a, <2>3, <2>4, <2>5, <2>6, OpenKept
<1>5. ASSUME NEW p \in Procs, Confirm(p) PROVE Goal
  <2>1. /\ op' \in [Procs -> Op] /\ op'[p].pc = "finish"
        /\ \A q \in Procs \ {p} : op'[q] = op[q]
    BY <1>a, <1>5, PassType DEF Confirm, PCs
  <2>2. OpenType(p)'
    BY <2>1 DEF OpenType, Reading, Writing, At
  <2> QED BY <1>a, <1>5, <2>1, <2>2, OpenKept
          DEF Confirm, StoreType, state, Made
<1>6. ASSUME NEW p \in Procs, RotateReport(p) PROVE Goal
  BY <1>6, <1>c DEF RotateReport
<1>7. ASSUME NEW d \in Dirs, WriteBack(d) PROVE Goal
  BY <1>a, <1>7 DEF WriteBack, StoreType, OpenType, At, Reading, Writing, Made
<1>8. CASE Reboot
  <2>1. content' \in Seq(Nat) /\ Made' = Made
    <3>1. PICK n \in Nat : Made = 1..n
      BY <1>a DEF StoreType, Made
    <3>2. \A i \in 1..n : content[i] \in Nat
      BY <1>a, <3>1 DEF StoreType, Made
    <3>3. content' = [i \in 1..n |->
                        IF i \in flushed THEN content[i] ELSE Torn]
      BY <1>8, <3>1 DEF Reboot
    <3> QED BY <3>1, <3>2, <3>3 DEF Made, Torn
  <2> QED BY <1>a, <1>b, <1>8, <2>1
          DEF Reboot, StoreType, OpenType, At, Reading, Writing
<1>9. CASE ChangeState
  <2>1. content' \in Seq(Nat) /\ Made \subseteq Made'
    <3>1. CASE content' = content
      BY <1>a, <3>1 DEF StoreType, Made
    <3>2. ASSUME NEW v \in 1..boot, content' = Append(content, v)
          PROVE  content' \in Seq(Nat) /\ Made \subseteq Made'
      BY <1>a, <3>2 DEF StoreType, Made
    <3> QED BY <1>9, <3>1, <3>2 DEF ChangeState
  <2>2. StoreType'
    <3>1. CASE /\ entry' = [entry EXCEPT ![path] = None]
               /\ safe' = [safe EXCEPT ![path] = None]
               /\ UNCHANGED <<content, flushed>>
      BY <1>a, <1>9, <3>1 DEF ChangeState, StoreType, Made
    <3>2. ASSUME NEW v \in 1..boot, content' = Append(content, v),
                 flushed' = flushed \union {NewFile},
                 entry' = [entry EXCEPT ![path] = NewFile],
                 safe' = [safe EXCEPT ![path] = NewFile]
          PROVE  StoreType'
      <4>1. NewFile \in Made'
        BY <1>a, <3>2 DEF NewFile, Made, StoreType
      <4> QED BY <1>a, <1>9, <2>1, <3>2, <4>1 DEF ChangeState, StoreType
    <3> QED BY <1>9, <3>1, <3>2 DEF ChangeState
  <2> QED BY <1>a, <1>9, <2>1, <2>2, OpenKept DEF ChangeState
<1>10. CASE MoveDirectory
  <2>1. op' \in [Procs -> Op]
    BY <1>a, <1>10 DEF MoveDirectory, Op, None
  <2>2. \A q \in Procs :
          /\ op'[q].pc = op[q].pc /\ op'[q].dir = op[q].dir
          /\ op'[q].new = op[q].new /\ op'[q].seen = op[q].seen
    BY <1>a, <1>10 DEF MoveDirectory, Op
  <2>3. StoreType' /\ Made' = Made
    BY <1>a, <1>10 DEF MoveDirectory, StoreType, Made
  <2> QED BY <1>a, <2>1, <2>2, <2>3 DEF OpenType, At, Reading, Writing
<1>11. CASE InstallHook
  BY <1>11, <1>c DEF InstallHook
<1>12. CASE UNCHANGED vars
  BY <1>12, <1>c DEF vars
<1> QED
  BY <1>1, <1>2, <1>3, <1>4, <1>5, <1>6, <1>7, <1>8, <1>9, <1>10, <1>11,
     <1>12 DEF Next, Quiet

LEMMA TypeStep == TypeOK /\ [Next]_vars => TypeOK'
PROOF
<1> SUFFICES ASSUME TypeOK, [Next]_vars PROVE TypeOK'
  OBVIOUS
<1>1. hook' \in Nat /\ acked' \in Nat
  <2>1. hook' = hook \/ hook' \in 1..MaxHooks
    BY DEF Next, vars, Start, ReadOpen, ReadName, ReadPath, Compare, Verified,
           Checks, HookAbsent, OpenHook, RecheckHook, ExecuteHook, WriteStat,
           Create, Fill, Recheck, Replace, SyncDirectory, Confirm, WriteFails,
           Finish, FinishFails, Kill, RotateReport, WriteBack, Reboot,
           ChangeState, MoveDirectory, InstallHook
  <2>2. acked' \in {acked, boot, None}
    BY DEF Next, vars, Start, ReadOpen, ReadName, ReadPath, Compare, Verified,
           Checks, HookAbsent, OpenHook, RecheckHook, ExecuteHook, WriteStat,
           Create, Fill, Recheck, Replace, SyncDirectory, Confirm, WriteFails,
           Finish, FinishFails, Kill, RotateReport, WriteBack, Reboot,
           ChangeState, MoveDirectory, InstallHook
  <2> QED BY <2>1, <2>2, BoundsAssumption DEF TypeOK, StoreType, None
<1>2. report' \in [Procs -> {"none", "partial", "kept"}]
      /\ passed' \subseteq Procs
  BY DEF TypeOK, Next, vars, Start, CreateReport, ReadOpen, ReadName, ReadPath,
         Compare, Verified, Checks, HookAbsent, OpenHook, RecheckHook,
         ExecuteHook, WriteStat, Create, Fill, Recheck, Replace, SyncDirectory,
         Confirm, WriteFails, Finish, FinishFails, Kill, RotateReport,
         WriteBack, Reboot, ChangeState, MoveDirectory, InstallHook
<1>3. ran' \subseteq Nat
  <2>1. ran' = ran \/ \E p \in Procs : ran' = ran \union {op[p].hook}
    BY DEF Next, vars, Start, ReadOpen, ReadName, ReadPath, Compare, Verified,
           Checks, HookAbsent, OpenHook, RecheckHook, ExecuteHook, Executed,
           WriteStat, Create, Fill, Recheck, Replace, SyncDirectory, Confirm,
           WriteFails, Finish, FinishFails, Kill, RotateReport, WriteBack,
           Reboot, ChangeState, MoveDirectory, InstallHook
  <2>2. \A p \in Procs : op[p].hook \in Nat
    BY DEF TypeOK, Op
  <2> QED BY <2>1, <2>2 DEF TypeOK
<1>4. bounds' \in [runs: Nat, admin: Nat, kills: Nat]
  <2>1. bounds' = bounds \/ \E n \in {"runs", "admin", "kills"} : Count(n)
    BY DEF Next, vars, Start, ReadOpen, ReadName, ReadPath, Compare, Verified,
           Checks, HookAbsent, OpenHook, RecheckHook, ExecuteHook, WriteStat,
           Create, Fill, Recheck, Replace, SyncDirectory, Confirm, WriteFails,
           Finish, FinishFails, Kill, RotateReport, WriteBack, Reboot,
           ChangeState, MoveDirectory, InstallHook
  <2>2. ASSUME NEW n \in {"runs", "admin", "kills"}, Count(n)
        PROVE  bounds' \in [runs: Nat, admin: Nat, kills: Nat]
    BY <2>2 DEF Count, TypeOK
  <2> QED BY <2>1, <2>2 DEF TypeOK
<1> QED
  BY <1>1, <1>2, <1>3, <1>4, FilesType DEF TypeOK

(* TypeOK holds of every number of runs and directories.                   *)
THEOREM TypeCorrect == Spec => []TypeOK
PROOF
<1>1. Init => TypeOK
  BY StartType
<1>2. TypeOK /\ [Next]_vars => TypeOK'
  BY TypeStep
<1> QED
  BY <1>1, <1>2, PTL DEF Spec
-----------------------------------------------------------------------------
(* A file that a state directory names, now or on the disk, was forced to  *)
(* the disk and holds the id of a boot that has happened.                  *)
Stored(i) == i # None => i \in flushed /\ content[i] \in 1..boot

NamesStored == \A d \in Dirs : Stored(entry[d]) /\ Stored(safe[d])

(* A run that is about to put its file in place has filled it in this      *)
(* boot, no other run has that file, and once it has synced the directory  *)
(* its file is named on the disk if it is named at all.                    *)
Filled(p) == op[p].pc \in {"recheck", "replace", "sync", "confirm"}

Ready(p) ==
  /\ Filled(p) => op[p].new \in flushed /\ content[op[p].new] = boot
  /\ At(p, "confirm") /\ entry[op[p].dir] = op[p].new
       => safe[op[p].dir] = op[p].new

Apart(p, q) ==
  HasFile(p) /\ HasFile(q) /\ op[p].new = op[q].new => p = q

FilesInv ==
  /\ NamesStored
  /\ \A p \in Procs : Ready(p)
  /\ \A p, q \in Procs : Apart(p, q)
  /\ RecordSurvives

(* Files that keep their names and their content, and runs that keep their *)
(* files, keep the invariant.                                              *)
LEMMA FilesKept ==
  ASSUME TypeOK, TypeOK', FilesInv, UNCHANGED <<state, boot, acked>>,
         NEW p \in Procs, ~ HasFile(p)',
         \A q \in Procs \ {p} : op'[q] = op[q]
  PROVE  FilesInv'
PROOF
<1>1. NamesStored' /\ RecordSurvives'
  BY DEF FilesInv, NamesStored, Stored, RecordSurvives, state
<1>2. ASSUME NEW q \in Procs PROVE Ready(q)'
  <2>1. CASE q = p
    BY <2>1 DEF HasFile, Writing, At, Ready, Filled
  <2>2. CASE q # p
    BY <2>2 DEF FilesInv, Ready, Filled, At, state
  <2> QED BY <2>1, <2>2
<1>3. ASSUME NEW q \in Procs, NEW r \in Procs PROVE Apart(q, r)'
  BY DEF FilesInv, Apart, HasFile, Writing, At
<1> QED BY <1>1, <1>2, <1>3 DEF FilesInv

(* A writer's step: p keeps its file, and the other runs are as they were. *)
LEMMA WriterStep ==
  ASSUME TypeOK, NEW p \in Procs, NEW pc \in PCs, Goto(p, pc),
         \A q, r \in Procs : Apart(q, r), HasFile(p)
  PROVE  /\ \A q, r \in Procs : Apart(q, r)'
         /\ op'[p].pc = pc /\ op'[p].dir = op[p].dir
         /\ op'[p].new = op[p].new
         /\ \A q \in Procs \ {p} : op'[q] = op[q]
PROOF
<1>1. /\ op'[p].pc = pc /\ op'[p].dir = op[p].dir /\ op'[p].new = op[p].new
      /\ \A q \in Procs \ {p} : op'[q] = op[q]
  BY GotoType DEF TypeOK
<1>2. ASSUME NEW q \in Procs, NEW r \in Procs PROVE Apart(q, r)'
  BY <1>1 DEF Apart, HasFile, Writing, At
<1> QED BY <1>1, <1>2

LEMMA FilesStep == TypeOK /\ TypeOK' /\ FilesInv /\ [Next]_vars => FilesInv'
PROOF
<1> SUFFICES ASSUME TypeOK, TypeOK', FilesInv, [Next]_vars PROVE FilesInv'
  OBVIOUS
<1>a. StoreType /\ StoreType' /\ op \in [Procs -> Op]
  BY DEF TypeOK
<1>b. NamesStored /\ RecordSurvives
  BY DEF FilesInv
<1>c. \A q, r \in Procs : Apart(q, r)
  BY DEF FilesInv
<1>d. \A q \in Procs : Ready(q)
  BY DEF FilesInv
<1>e. acked <= boot
  BY <1>a, <1>b DEF NamesStored, RecordSurvives, Stored, StoreType, TypeOK,
                    None
<1>f. ASSUME UNCHANGED <<state, boot, acked, op>> PROVE FilesInv'
  BY <1>f DEF FilesInv, NamesStored, Stored, RecordSurvives, Ready, Filled,
              Apart, HasFile, Writing, At, state
<1>1. ASSUME NEW p \in Procs, Quiet(p) PROVE FilesInv'
  BY <1>1, QuietStep, FilesKept
<1>2. ASSUME NEW p \in Procs, Start(p) PROVE FilesInv'
  <2>1. op'[p].pc \in {"read", "checks"}
        /\ \A q \in Procs \ {p} : op'[q] = op[q]
    BY <1>a, <1>2 DEF Start, Op
  <2>2. UNCHANGED <<entry, safe, content, flushed, boot, acked>>
    BY <1>2 DEF Start
  <2>3. NamesStored' /\ RecordSurvives'
    BY <1>2, <1>b, <2>2 DEF NamesStored, Stored, RecordSurvives, Start,
          EnsureDirectory
  <2>4. ASSUME NEW q \in Procs PROVE Ready(q)'
    BY <1>d, <2>1, <2>2 DEF Ready, Filled, At
  <2>5. ASSUME NEW q \in Procs, NEW r \in Procs PROVE Apart(q, r)'
    BY <1>c, <2>1 DEF Apart, HasFile, Writing, At
  <2> QED BY <2>3, <2>4, <2>5 DEF FilesInv
<1>3. ASSUME NEW p \in Procs, Create(p) PROVE FilesInv'
  <2>1. /\ content' = Append(content, Torn) /\ NewFile \notin Made
        /\ UNCHANGED <<path, entry, safe, flushed, boot, acked>>
    BY <1>a, <1>3 DEF Create, NewFile, Made, StoreType
  <2>2. \A i \in Made : content'[i] = content[i]
    BY <1>a, <2>1 DEF Made, StoreType, Torn
  <2>3. /\ op'[p].pc = "fill" /\ op'[p].new = NewFile
        /\ \A q \in Procs \ {p} : op'[q] = op[q]
    BY <1>a, <1>3 DEF Create, Op
  <2>4. NamesStored' /\ RecordSurvives'
    BY <1>a, <1>b, <2>1, <2>2
       DEF NamesStored, Stored, RecordSurvives, StoreType
  <2>5. \A q \in Procs : HasFile(q) => op[q].new \in Made
    BY DEF HasFile, TypeOK, OpenType
  <2>6. ASSUME NEW q \in Procs PROVE Ready(q)'
    <3>1. CASE q = p
      BY <3>1, <2>3 DEF Ready, Filled, At
    <3>2. CASE q # p
      <4>1. Ready(q) /\ flushed \subseteq Made /\ op'[q] = op[q]
        BY <1>a, <1>d, <2>3, <3>2 DEF StoreType
      <4> QED BY <4>1, <2>1, <2>2 DEF Ready, Filled, At
    <3> QED BY <3>1, <3>2
  <2>7. ASSUME NEW q \in Procs, NEW r \in Procs PROVE Apart(q, r)'
    BY <1>c, <2>1, <2>3, <2>5 DEF Apart, HasFile, Writing, At
  <2> QED BY <2>4, <2>6, <2>7 DEF FilesInv
<1>4. ASSUME NEW p \in Procs, Fill(p) PROVE FilesInv'
  <2>1. HasFile(p) /\ Goto(p, "recheck") /\ op[p].new \in Made
    BY <1>4 DEF Fill, HasFile, Writing, At, TypeOK, OpenType
  <2>2. /\ \A q, r \in Procs : Apart(q, r)'
        /\ op'[p].pc = "recheck" /\ op'[p].new = op[p].new
        /\ \A q \in Procs \ {p} : op'[q] = op[q]
    BY <2>1, <1>c, WriterStep DEF PCs
  <2>3. /\ content' = [content EXCEPT ![op[p].new] = boot]
        /\ flushed' = flushed \union {op[p].new}
        /\ UNCHANGED <<path, entry, safe, boot, acked>>
    BY <1>4 DEF Fill
  <2>4. /\ content'[op[p].new] = boot
        /\ \A i \in Made : content'[i] \in {content[i], boot}
    BY <1>a, <2>1, <2>3 DEF Made, StoreType
  <2>5. NamesStored'
    BY <1>a, <1>b, <2>3, <2>4 DEF NamesStored, Stored, StoreType
  <2>6. RecordSurvives'
    BY <1>a, <1>b, <1>e, <2>3, <2>4
       DEF RecordSurvives, StoreType, TypeOK
  <2>7. ASSUME NEW q \in Procs PROVE Ready(q)'
    BY <1>a, <1>d, <2>2, <2>3, <2>4 DEF Ready, Filled, At, StoreType
  <2> QED BY <2>2, <2>5, <2>6, <2>7 DEF FilesInv
<1>5. ASSUME NEW p \in Procs, Recheck(p) PROVE FilesInv'
  <2>1. HasFile(p) /\ Goto(p, "replace")
    BY <1>5 DEF Recheck, HasFile, Writing, At
  <2>2. /\ \A q, r \in Procs : Apart(q, r)'
        /\ op'[p].pc = "replace" /\ op'[p].new = op[p].new
        /\ \A q \in Procs \ {p} : op'[q] = op[q]
    BY <2>1, <1>c, WriterStep DEF PCs
  <2>3. UNCHANGED <<path, entry, safe, content, flushed, boot, acked>>
    BY <1>5 DEF Recheck, state
  <2>4. NamesStored' /\ RecordSurvives'
    BY <1>b, <2>3 DEF NamesStored, Stored, RecordSurvives
  <2>5. ASSUME NEW q \in Procs PROVE Ready(q)'
    BY <1>5, <1>d, <2>2, <2>3 DEF Recheck, Ready, Filled, At
  <2> QED BY <2>2, <2>4, <2>5 DEF FilesInv
<1>6. ASSUME NEW p \in Procs, Replace(p) PROVE FilesInv'
  <2>1. HasFile(p) /\ Goto(p, "sync") /\ At(p, "replace")
    BY <1>6 DEF Replace, HasFile, Writing, At
  <2>2. /\ \A q, r \in Procs : Apart(q, r)'
        /\ op'[p].pc = "sync" /\ op'[p].new = op[p].new
        /\ \A q \in Procs \ {p} : op'[q] = op[q]
    BY <2>1, <1>c, WriterStep DEF PCs
  <2>3. /\ entry' = [entry EXCEPT ![op[p].dir] = op[p].new]
        /\ UNCHANGED <<path, safe, content, flushed, boot, acked>>
    BY <1>6 DEF Replace
  <2>4. op[p].new \in flushed /\ content[op[p].new] = boot
    BY <1>d, <2>1 DEF Ready, Filled, At
  <2>5. /\ op[p].new \in Made /\ op[p].new # None /\ op[p].dir \in Dirs
    BY <1>a, <2>1 DEF HasFile, TypeOK, OpenType, StoreType, Made, None
  <2>6. NamesStored'
    BY <1>a, <1>b, <2>3, <2>4, <2>5 DEF NamesStored, Stored, StoreType
  <2>7. RecordSurvives'
    BY <1>a, <1>b, <1>e, <2>3, <2>4, <2>5
       DEF RecordSurvives, StoreType, TypeOK
  <2>8. ASSUME NEW q \in Procs PROVE Ready(q)'
    <3>1. CASE q = p
      BY <3>1, <2>2, <2>3, <2>4 DEF Ready, Filled, At
    <3>2. CASE q # p
      <4>1. At(q, "confirm") => op[q].new # op[p].new
        BY <1>c, <2>1, <3>2 DEF Apart, HasFile, Writing, At
      <4> QED BY <1>a, <1>d, <3>2, <4>1, <2>2, <2>3, <2>5
              DEF Ready, Filled, At, StoreType
    <3> QED BY <3>1, <3>2
  <2> QED BY <2>2, <2>6, <2>7, <2>8 DEF FilesInv
<1>7. ASSUME NEW p \in Procs, SyncDirectory(p) PROVE FilesInv'
  <2>1. HasFile(p) /\ Goto(p, "confirm") /\ At(p, "sync")
    BY <1>7 DEF SyncDirectory, HasFile, Writing, At
  <2>2. /\ \A q, r \in Procs : Apart(q, r)'
        /\ op'[p].pc = "confirm" /\ op'[p].new = op[p].new
        /\ op'[p].dir = op[p].dir
        /\ \A q \in Procs \ {p} : op'[q] = op[q]
    BY <2>1, <1>c, WriterStep DEF PCs
  <2>3. /\ safe' = [safe EXCEPT ![op[p].dir] = entry[op[p].dir]]
        /\ UNCHANGED <<path, entry, content, flushed, boot, acked>>
    BY <1>7 DEF SyncDirectory
  <2>4. op[p].dir \in Dirs
    BY <2>1 DEF HasFile, TypeOK, OpenType
  <2>5. NamesStored'
    BY <1>a, <1>b, <2>3, <2>4 DEF NamesStored, Stored, StoreType
  <2>6. RecordSurvives'
    BY <1>a, <1>b, <2>3, <2>4 DEF RecordSurvives, StoreType
  <2>7. ASSUME NEW q \in Procs PROVE Ready(q)'
    BY <1>a, <1>d, <2>1, <2>2, <2>3, <2>4 DEF Ready, Filled, At, StoreType
  <2> QED BY <2>2, <2>5, <2>6, <2>7 DEF FilesInv
<1>8. ASSUME NEW p \in Procs, Confirm(p) PROVE FilesInv'
  <2>1. /\ op'[p].pc = "finish" /\ \A q \in Procs \ {p} : op'[q] = op[q]
    BY <1>a, <1>8, PassType DEF Confirm, PCs
  <2>2. /\ UNCHANGED <<path, entry, safe, content, flushed, boot>>
        /\ acked' = boot
    BY <1>8 DEF Confirm, state
  <2>3. /\ entry[op[p].dir] = op[p].new /\ path = op[p].dir
        /\ safe[op[p].dir] = op[p].new
        /\ op[p].new \in flushed /\ content[op[p].new] = boot
    BY <1>8, <1>d DEF Confirm, SamePath, Ready, Filled, At
  <2>4. /\ op[p].new \in Made /\ op[p].new # None
        /\ op[p].dir \in Dirs /\ op[p].dir # None
    BY <1>a, <1>8, DirsAssumption
       DEF Confirm, At, Writing, TypeOK, OpenType, StoreType, Made, None
  <2>5. RecordSurvives'
    BY <1>a, <2>2, <2>3, <2>4 DEF RecordSurvives, StoreType
  <2>6. NamesStored'
    BY <1>b, <2>2 DEF NamesStored, Stored
  <2>7. ASSUME NEW q \in Procs PROVE Ready(q)'
    BY <1>d, <2>1, <2>2 DEF Ready, Filled, At
  <2>8. ASSUME NEW q \in Procs, NEW r \in Procs PROVE Apart(q, r)'
    BY <1>c, <2>1 DEF Apart, HasFile, Writing, At
  <2> QED BY <2>5, <2>6, <2>7, <2>8 DEF FilesInv
<1>9. ASSUME NEW d \in Dirs, WriteBack(d) PROVE FilesInv'
  <2>1. /\ safe' = [safe EXCEPT ![d] = entry[d]]
        /\ UNCHANGED <<path, entry, content, flushed, boot, acked, op>>
    BY <1>9 DEF WriteBack
  <2>2. NamesStored' /\ RecordSurvives'
    BY <1>a, <1>b, <2>1 DEF NamesStored, Stored, RecordSurvives, StoreType
  <2>3. ASSUME NEW q \in Procs PROVE Ready(q)'
    <3>1. At(q, "confirm") => op[q].dir \in Dirs
      BY DEF At, TypeOK, OpenType, Writing
    <3> QED BY <1>a, <1>d, <2>1, <3>1 DEF Ready, Filled, At, StoreType
  <2>4. ASSUME NEW q \in Procs, NEW r \in Procs PROVE Apart(q, r)'
    BY <1>c, <2>1 DEF Apart, HasFile, Writing, At
  <2> QED BY <2>2, <2>3, <2>4 DEF FilesInv
<1>10. CASE Reboot
  <2>1. /\ \A i \in flushed : content'[i] = content[i]
        /\ entry' = safe /\ boot' = boot + 1
        /\ UNCHANGED <<path, safe, flushed, acked>>
    BY <1>a, <1>10 DEF Reboot, StoreType
  <2>2. \A q \in Procs : op'[q].pc = "idle"
    BY <1>10 DEF Reboot, Idle
  <2>3. NamesStored'
    BY <1>a, <1>b, <2>1 DEF NamesStored, Stored, StoreType
  <2>4. RecordSurvives'
    BY <1>a, <1>b, <2>1 DEF RecordSurvives, StoreType
  <2>5. ASSUME NEW q \in Procs PROVE Ready(q)'
    BY <2>2 DEF Ready, Filled, At
  <2>6. ASSUME NEW q \in Procs, NEW r \in Procs PROVE Apart(q, r)'
    BY <2>2 DEF Apart, HasFile, Writing, At
  <2> QED BY <2>3, <2>4, <2>5, <2>6 DEF FilesInv
<1>11. CASE ChangeState
  <2>1. UNCHANGED <<path, boot, op>> /\ acked' = None /\ path \in Dirs
    BY <1>a, <1>11 DEF ChangeState, StoreType
  <2>2. RecordSurvives'
    BY <2>1 DEF RecordSurvives
  <2>3. ASSUME NEW q \in Procs, NEW r \in Procs PROVE Apart(q, r)'
    BY <1>c, <2>1 DEF Apart, HasFile, Writing, At
  <2>4. \A q \in Procs : Filled(q) =>
          op[q].new \in Made /\ op[q].new # None /\ op[q].dir \in Dirs
    BY <1>a DEF Filled, TypeOK, OpenType, Reading, Writing, At, Made,
                StoreType, None
  <2>5. CASE /\ entry' = [entry EXCEPT ![path] = None]
             /\ safe' = [safe EXCEPT ![path] = None]
             /\ UNCHANGED <<content, flushed>>
    <3>1. NamesStored'
      BY <1>a, <1>b, <2>1, <2>5 DEF NamesStored, Stored, StoreType
    <3>2. ASSUME NEW q \in Procs PROVE Ready(q)'
      BY <1>a, <1>d, <2>1, <2>4, <2>5 DEF Ready, Filled, At, StoreType
    <3> QED BY <2>2, <2>3, <3>1, <3>2 DEF FilesInv
  <2>6. ASSUME NEW v \in 1..boot, content' = Append(content, v),
               flushed' = flushed \union {NewFile},
               entry' = [entry EXCEPT ![path] = NewFile],
               safe' = [safe EXCEPT ![path] = NewFile]
        PROVE  FilesInv'
    <3>1. /\ NewFile \notin Made /\ content'[NewFile] = v
          /\ \A i \in Made : content'[i] = content[i]
      BY <1>a, <2>6 DEF NewFile, Made, StoreType
    <3>2. NamesStored'
      BY <1>a, <1>b, <2>1, <2>6, <3>1 DEF NamesStored, Stored, StoreType
    <3>3. ASSUME NEW q \in Procs PROVE Ready(q)'
      BY <1>a, <1>d, <2>1, <2>4, <2>6, <3>1
         DEF Ready, Filled, At, StoreType
    <3> QED BY <2>2, <2>3, <3>2, <3>3 DEF FilesInv
  <2> QED BY <1>11, <2>5, <2>6 DEF ChangeState
<1>12. CASE MoveDirectory
  <2>1. UNCHANGED <<entry, safe, content, flushed, boot>> /\ acked' = None
    BY <1>12 DEF MoveDirectory
  <2>2. \A q \in Procs :
          /\ op'[q].pc = op[q].pc /\ op'[q].dir = op[q].dir
          /\ op'[q].new = op[q].new
    BY <1>a, <1>12 DEF MoveDirectory, Op
  <2> QED BY <2>1, <2>2 DEF FilesInv, NamesStored, Stored, RecordSurvives,
                            Ready, Filled, Apart, HasFile, Writing, At
<1>13. CASE InstallHook
  BY <1>13, <1>f DEF InstallHook
<1>14. ASSUME NEW p \in Procs, RotateReport(p) PROVE FilesInv'
  BY <1>14, <1>f DEF RotateReport
<1>15. CASE UNCHANGED vars
  BY <1>15, <1>f DEF vars
<1> QED
  BY <1>1, <1>2, <1>3, <1>4, <1>5, <1>6, <1>7, <1>8, <1>9, <1>10, <1>11,
     <1>12, <1>13, <1>14, <1>15 DEF Next, Quiet

LEMMA StartFiles == Init => FilesInv
PROOF
<1> SUFFICES ASSUME Init PROVE FilesInv
  OBVIOUS
<1>1. \A q \in Procs : op[q].pc = "idle"
  BY DEF Init, Idle
<1> QED
  BY <1>1 DEF Init, FilesInv, NamesStored, Stored, RecordSurvives, Ready,
              Filled, Apart, HasFile, Writing, At

LEMMA FilesAlways == Spec => [](TypeOK /\ FilesInv)
PROOF
<1>1. Init => TypeOK /\ FilesInv
  BY StartType, StartFiles
<1>2. TypeOK /\ FilesInv /\ [Next]_vars => (TypeOK /\ FilesInv)'
  BY TypeStep, FilesStep
<1> QED
  BY <1>1, <1>2, PTL DEF Spec

(* No power loss and no other run takes back a boot id that was reported   *)
(* as recorded, however many directories, runs and reboots there are.      *)
THEOREM RecordKept == Spec => []RecordSurvives
PROOF
<1>1. TypeOK /\ FilesInv => RecordSurvives
  BY DEF FilesInv
<1> QED
  BY <1>1, FilesAlways, PTL

(* The state file is whole for every reader and after every power loss.    *)
THEOREM StateWhole == Spec => []NeverTorn
PROOF
<1>1. TypeOK /\ FilesInv => NeverTorn
  BY DEF FilesInv, NamesStored, Stored, NeverTorn, Torn, TypeOK, StoreType
<1> QED
  BY <1>1, FilesAlways, PTL
-----------------------------------------------------------------------------
(* A run that is reading or about to execute a hook came there by the step *)
(* before; no other step lets it stay there through a reboot, and only     *)
(* MoveDirectory takes the path away from it.                              *)
Stays(q) == boot' = boot /\ op'[q] = op[q] /\ (path # None => path' = path)

LEMMA MovesTo ==
  ASSUME TypeOK, [Next]_vars, NEW q \in Procs,
         op'[q].pc \in {"opened", "named", "compare", "verified", "exec",
                        "run"}
  PROVE  \/ Stays(q)
         \/ MoveDirectory
         \/ ReadOpen(q) /\ op'[q].pc = "opened"
         \/ ReadName(q) /\ op'[q].pc = "named"
         \/ ReadPath(q) /\ op'[q].pc = "compare"
         \/ Compare(q) /\ op'[q].pc = "verified"
         \/ OpenHook(q) /\ op'[q].pc = "exec"
         \/ RecheckHook(q) /\ op'[q].pc = "run"
PROOF
<1>a. op \in [Procs -> Op]
  BY DEF TypeOK
<1>1. ASSUME NEW p \in Procs, Quiet(p), p # q
      PROVE  Stays(q)
  BY <1>1, QuietStep DEF Stays, state
<1>2. CASE Quiet(q)
  <2>1. CASE ReadOpen(q)
    <3>1. CASE op' = [op EXCEPT ![q] = [@ EXCEPT
                        !.pc = "opened", !.dir = path, !.seen = entry[path]]]
      BY <2>1, <3>1, <1>a DEF Op
    <3> QED BY <2>1, <3>1, <1>a, FailType DEF ReadOpen, PCs
  <2>2. CASE Checks(q)
    BY <2>2, <1>a DEF Checks, Op
  <2>3. CASE HookAbsent(q)
    BY <2>3, <1>a, GotoType DEF HookAbsent, AfterHook, PCs
  <2>4. CASE OpenHook(q)
    BY <2>4, <1>a, FailType DEF OpenHook, Op, PCs
  <2>5. CASE ExecuteHook(q)
    BY <2>5, <1>a, FailType, PassType DEF ExecuteHook, AfterHook, PCs
  <2>6. CASE WriteStat(q)
    <3>1. CASE op' = [op EXCEPT ![q] = [@ EXCEPT
                        !.pc = "create", !.dir = path, !.old = entry[path]]]
      BY <3>1, <1>a DEF Op
    <3> QED BY <2>6, <3>1, <1>a, FailType DEF WriteStat, PCs
  <2>7. CASE Verified(q) \/ WriteFails(q)
    BY <2>7, <1>a, FailType, PassType DEF Verified, WriteFails, PCs
  <2>8. CASE Finish(q) \/ FinishFails(q) \/ Kill(q)
    BY <2>8, <1>a DEF Finish, FinishFails, Kill, Idle
  <2>9. CASE ReadName(q)
    BY <2>9, <1>a, FailType DEF ReadName, Op, PCs
  <2>10. CASE ReadPath(q)
    BY <2>10, <1>a, FailType, GotoType DEF ReadPath, PCs
  <2>11. CASE Compare(q)
    BY <2>11, <1>a, FailType, GotoType DEF Compare, PCs
  <2>12. CASE RecheckHook(q)
    BY <2>12, <1>a, FailType, GotoType DEF RecheckHook, PCs
  <2> QED
    BY <1>2, <2>1, <2>2, <2>3, <2>4, <2>5, <2>6, <2>7, <2>8, <2>9, <2>10,
       <2>11, <2>12 DEF Quiet
<1>3. ASSUME NEW p \in Procs,
             Fill(p) \/ Recheck(p) \/ Replace(p) \/ SyncDirectory(p)
      PROVE  Stays(q)
  <2>1. PICK pc \in {"recheck", "replace", "sync", "confirm"} : Goto(p, pc)
    BY <1>3 DEF Fill, Recheck, Replace, SyncDirectory
  <2>2. boot' = boot /\ path' = path
    BY <1>3 DEF Fill, Recheck, Replace, SyncDirectory, state
  <2> QED BY <1>a, <2>1, <2>2, GotoType DEF PCs, Stays
<1>4. ASSUME NEW p \in Procs, Start(p)
      PROVE  Stays(q)
  <2>1. PICK mode \in {"prepare", "post"}, pc \in {"read", "checks"} :
          op' = [op EXCEPT ![p] = [@ EXCEPT !.mode = mode, !.pc = pc]]
    BY <1>4 DEF Start
  <2> QED BY <1>4, <1>a, <2>1 DEF Start, EnsureDirectory, Op, Stays
<1>5. ASSUME NEW p \in Procs, Create(p) PROVE Stays(q)
  BY <1>5, <1>a DEF Create, Op, Stays
<1>6. ASSUME NEW p \in Procs, Confirm(p) PROVE Stays(q)
  BY <1>6, <1>a, PassType DEF Confirm, PCs, Stays, state
<1>7. CASE Reboot
  BY <1>7 DEF Reboot, Idle
<1>8. CASE \/ ChangeState \/ InstallHook
           \/ \E d \in Dirs : WriteBack(d)
           \/ \E p \in Procs : RotateReport(p)
           \/ UNCHANGED vars
  BY <1>8 DEF ChangeState, InstallHook, WriteBack, RotateReport, vars, state,
              Stays
<1> QED
  BY <1>1, <1>2, <1>3, <1>4, <1>5, <1>6, <1>7, <1>8 DEF Next, Quiet

(* What is on the disk keeps its content until the next boot, but for a    *)
(* file that is filled once more.                                          *)
LEMMA ContentKept ==
  ASSUME TypeOK, [Next]_vars, boot' = boot, NEW i \in flushed
  PROVE  i \in flushed' /\ content'[i] \in {content[i], boot}
PROOF
<1>a. StoreType /\ i \in Made /\ Made = 1..Len(content)
  BY DEF TypeOK, StoreType, Made
<1>1. CASE UNCHANGED <<content, flushed>>
  BY <1>1
<1>2. ASSUME NEW p \in Procs, Create(p)
      PROVE  i \in flushed' /\ content'[i] = content[i]
  BY <1>a, <1>2 DEF Create, StoreType, Torn
<1>3. ASSUME NEW p \in Procs, Fill(p)
      PROVE  i \in flushed' /\ content'[i] \in {content[i], boot}
  BY <1>a, <1>3 DEF Fill, StoreType, Made
<1>4. CASE ChangeState
  <2>1. ASSUME NEW v \in 1..boot, content' = Append(content, v),
               flushed' = flushed \union {NewFile}
        PROVE  i \in flushed' /\ content'[i] = content[i]
    BY <1>a, <2>1 DEF StoreType
  <2> QED BY <1>1, <1>4, <2>1 DEF ChangeState
<1>5. ~ Reboot
  BY <1>a DEF Reboot, StoreType
<1> QED
  BY <1>1, <1>2, <1>3, <1>4, <1>5
     DEF Next, vars, Start, ReadOpen, ReadName, ReadPath, Compare, Verified,
         Checks, HookAbsent, OpenHook, RecheckHook, ExecuteHook, WriteStat,
         Recheck, Replace, SyncDirectory, Confirm, WriteFails, Finish,
         FinishFails, Kill, RotateReport, WriteBack, MoveDirectory,
         InstallHook, state

(* What a run has read holds a boot id that is no older than the newest    *)
(* record reported when the run looked at the name, unless the directory   *)
(* it is in is not the one at the path, which the run is to find out.      *)
NoOlder(p) == content[op[p].seen] >= op[p].floor

ReadInv(p) ==
  /\ Reading(p) =>
       op[p].seen \in flushed /\ content[op[p].seen] \in 1..boot
  /\ At(p, "named") /\ op[p].floor # None =>
       path # None /\ (path = op[p].dir => NoOlder(p))
  /\ At(p, "compare") => NoOlder(p)
  /\ At(p, "verified") => op[p].floor < boot

VerifiedInv == \A p \in Procs : ReadInv(p)

LEMMA VerifiedStep ==
  TypeOK /\ FilesInv /\ VerifiedInv /\ [Next]_vars => VerifiedInv'
PROOF
<1> SUFFICES ASSUME TypeOK, FilesInv, VerifiedInv, [Next]_vars,
                    NEW q \in Procs,
                    op'[q].pc \in {"opened", "named", "compare", "verified"}
             PROVE  ReadInv(q)'
  BY DEF VerifiedInv, ReadInv, Reading, At
<1>a. /\ op \in [Procs -> Op] /\ StoreType /\ acked \in Nat
      /\ op[q].floor \in Nat /\ boot \in Nat \ {0}
  BY DEF TypeOK, StoreType, Op
<1>b. ReadInv(q) /\ NamesStored /\ RecordSurvives
  BY DEF VerifiedInv, FilesInv
<1>c. ASSUME boot' = boot, NEW i \in flushed, content[i] \in 1..boot
      PROVE  /\ i \in flushed' /\ content'[i] \in 1..boot
             /\ content'[i] >= content[i]
  BY <1>a, <1>c, ContentKept
<1>1. CASE Stays(q)
  <2>1. op'[q] = op[q] /\ boot' = boot /\ (path # None => path' = path)
    BY <1>1 DEF Stays
  <2>2. CASE Reading(q)
    <3>1. op[q].seen \in flushed /\ content[op[q].seen] \in 1..boot
      BY <1>b, <2>2 DEF ReadInv
    <3>2. /\ op[q].seen \in flushed' /\ content'[op[q].seen] \in 1..boot
          /\ content'[op[q].seen] >= content[op[q].seen]
      BY <1>c, <2>1, <3>1
    <3>3. NoOlder(q) => NoOlder(q)'
      BY <1>a, <2>1, <3>1, <3>2 DEF NoOlder
    <3> QED BY <1>b, <2>1, <3>2, <3>3 DEF ReadInv, Reading, At
  <2>3. CASE At(q, "verified")
    BY <1>b, <2>1, <2>3 DEF ReadInv, Reading, At
  <2> QED BY <2>1, <2>2, <2>3 DEF Reading, At
<1>2. CASE MoveDirectory
  <2>1. /\ op'[q].pc = op[q].pc /\ op'[q].dir = op[q].dir
        /\ op'[q].seen = op[q].seen /\ op'[q].floor = None
        /\ UNCHANGED <<content, flushed, boot>>
    BY <1>2, <1>a DEF MoveDirectory, Op
  <2> QED BY <1>a, <1>b, <2>1 DEF ReadInv, NoOlder, Reading, At, None
<1>3. CASE ReadOpen(q) /\ op'[q].pc = "opened"
  <2>1. ~ Fail(q, "checks")
    BY <1>a, <1>3, FailType DEF PCs
  <2>2. /\ path # None /\ entry[path] # None
        /\ op' = [op EXCEPT ![q] = [@ EXCEPT
                    !.pc = "opened", !.dir = path, !.seen = entry[path]]]
        /\ UNCHANGED <<state, boot>>
    BY <1>3, <2>1 DEF ReadOpen
  <2>3. op'[q].seen = entry[path]
    BY <1>a, <2>2 DEF Op
  <2>4. entry[path] \in flushed /\ content[entry[path]] \in 1..boot
    BY <1>a, <1>b, <2>2 DEF NamesStored, Stored, StoreType
  <2> QED BY <1>3, <2>2, <2>3, <2>4 DEF ReadInv, Reading, At, state
<1>4. CASE ReadName(q) /\ op'[q].pc = "named"
  <2>1. ~ Fail(q, "checks")
    BY <1>a, <1>4, FailType DEF PCs
  <2>2. /\ At(q, "opened") /\ entry[op[q].dir] = op[q].seen
        /\ op' = [op EXCEPT ![q] = [@ EXCEPT !.pc = "named", !.floor = acked]]
        /\ UNCHANGED <<state, boot>>
    BY <1>4, <2>1 DEF ReadName
  <2>3. /\ op'[q].seen = op[q].seen /\ op'[q].dir = op[q].dir
        /\ op'[q].floor = acked
    BY <1>a, <2>2 DEF Op
  <2>4. op[q].seen \in flushed /\ content[op[q].seen] \in 1..boot
    BY <1>b, <2>2 DEF ReadInv, Reading, At
  <2>5. acked # None =>
          /\ path # None
          /\ path = op[q].dir => content[op[q].seen] >= acked
    BY <1>b, <2>2 DEF RecordSurvives
  <2> QED
    BY <1>4, <2>2, <2>3, <2>4, <2>5 DEF ReadInv, NoOlder, Reading, At, state
<1>5. CASE ReadPath(q) /\ op'[q].pc = "compare"
  <2>1. ~ Fail(q, "checks")
    BY <1>a, <1>5, FailType DEF PCs
  <2>2. /\ At(q, "named") /\ path = op[q].dir /\ Goto(q, "compare")
        /\ UNCHANGED <<state, boot>>
    BY <1>5, <2>1 DEF ReadPath, SamePath
  <2>3. op'[q].seen = op[q].seen /\ op'[q].floor = op[q].floor
    BY <1>a, <2>2, GotoType DEF PCs
  <2>4. op[q].seen \in flushed /\ content[op[q].seen] \in 1..boot
    BY <1>b, <2>2 DEF ReadInv, Reading, At
  <2>5. NoOlder(q)
    BY <1>a, <1>b, <2>2, <2>4 DEF ReadInv, NoOlder, At, None
  <2> QED
    BY <1>5, <2>2, <2>3, <2>4, <2>5 DEF ReadInv, NoOlder, Reading, At, state
<1>6. CASE Compare(q) /\ op'[q].pc = "verified"
  <2>1. ~ Fail(q, "checks")
    BY <1>a, <1>6, FailType DEF PCs
  <2>2. /\ At(q, "compare") /\ content[op[q].seen] # boot
        /\ Goto(q, "verified") /\ boot' = boot
    BY <1>6, <2>1 DEF Compare
  <2>3. op'[q].floor = op[q].floor
    BY <1>a, <2>2, GotoType DEF PCs
  <2>4. content[op[q].seen] \in 1..boot /\ NoOlder(q)
    BY <1>b, <2>2 DEF ReadInv, Reading, At
  <2>5. op[q].floor < boot
    BY <1>a, <2>2, <2>4 DEF NoOlder
  <2> QED BY <1>6, <2>2, <2>3, <2>5 DEF ReadInv, Reading, At
<1> QED
  BY <1>1, <1>2, <1>3, <1>4, <1>5, <1>6, MovesTo

(* "Reboot was verified" is only ever said of a reboot since the newest    *)
(* record that had been reported when the run looked at the name of what   *)
(* it had read: for every number of runs, files, boots and moves of the    *)
(* directory.                                                              *)
THEOREM VerifiedTrue == Spec => []RebootVerified
PROOF
<1>1. Init => VerifiedInv
  <2> SUFFICES ASSUME Init, NEW q \in Procs PROVE ReadInv(q)
    BY DEF VerifiedInv
  <2>1. op[q].pc = "idle"
    BY DEF Init, Idle
  <2> QED BY <2>1 DEF ReadInv, Reading, At
<1>2. VerifiedInv => RebootVerified
  BY DEF VerifiedInv, ReadInv, RebootVerified
<1> QED
  BY <1>1, <1>2, FilesAlways, VerifiedStep, PTL DEF Spec

(* What a run is about to execute was checked, and so was what has run.    *)
HooksInv ==
  /\ HookChecked
  /\ \A p \in Procs : op[p].pc \in {"exec", "run"} => op[p].hook \in GoodHooks

LEMMA HookStep == TypeOK /\ HooksInv /\ [Next]_vars => HooksInv'
PROOF
<1> SUFFICES ASSUME TypeOK, HooksInv, [Next]_vars PROVE HooksInv'
  OBVIOUS
<1>1. HookChecked'
  <2>1. CASE ran' = ran
    BY <2>1 DEF HooksInv, HookChecked
  <2>2. ASSUME NEW p \in Procs, ExecuteHook(p) PROVE HookChecked'
    BY <2>2 DEF ExecuteHook, Executed, At, HooksInv, HookChecked
  <2> QED
    BY <2>1, <2>2
       DEF Next, vars, Start, ReadOpen, ReadName, ReadPath, Compare, Verified,
           Checks, HookAbsent, OpenHook, RecheckHook, WriteStat, Create, Fill,
           Recheck, Replace, SyncDirectory, Confirm, WriteFails, Finish,
           FinishFails, Kill, RotateReport, WriteBack, Reboot, ChangeState,
           MoveDirectory, InstallHook
<1>2. ASSUME NEW q \in Procs, op'[q].pc \in {"exec", "run"}
      PROVE  op'[q].hook \in GoodHooks
  <2>1. CASE Stays(q)
    BY <1>2, <2>1 DEF HooksInv, At, Stays
  <2>2. CASE OpenHook(q)
    <3>1. op \in [Procs -> Op]
      BY DEF TypeOK
    <3>2. ~ Fail(q, "finish")
      BY <1>2, <3>1, FailType DEF At, PCs
    <3>3. /\ op' = [op EXCEPT ![q] = [@ EXCEPT !.pc = "exec", !.hook = hook]]
          /\ hook \in GoodHooks
      BY <2>2, <3>2 DEF OpenHook, SafeHook
    <3> QED BY <3>1, <3>3 DEF Op
  <2>3. CASE MoveDirectory
    <3>1. op'[q].hook = op[q].hook /\ op'[q].pc = op[q].pc
      BY <2>3 DEF MoveDirectory, TypeOK, Op
    <3> QED BY <1>2, <3>1 DEF HooksInv, At
  <2>4. CASE RecheckHook(q)
    <3>1. op \in [Procs -> Op] /\ op[q].pc = "exec"
      BY <2>4 DEF TypeOK, RecheckHook, At
    <3>2. ~ Fail(q, "finish")
      BY <1>2, <3>1, FailType DEF PCs
    <3>3. op'[q].hook = op[q].hook
      BY <2>4, <3>1, <3>2 DEF RecheckHook, Goto, Op
    <3> QED BY <3>1, <3>3 DEF HooksInv
  <2> QED BY <1>2, <2>1, <2>2, <2>3, <2>4, MovesTo
<1> QED BY <1>1, <1>2 DEF HooksInv, At

(* No hook is executed that was not checked, whenever another one is       *)
(* installed at its path.                                                  *)
THEOREM HooksChecked == Spec => []HookChecked
PROOF
<1>1. Init => HooksInv
  BY DEF Init, HooksInv, HookChecked, At, Idle
<1>2. HooksInv => HookChecked
  BY DEF HooksInv
<1> QED
  BY <1>1, <1>2, HookStep, TypeCorrect, PTL DEF Spec

LEMMA ReportStep == TypeOK /\ ReportKept /\ [Next]_vars => ReportKept'
PROOF
<1> SUFFICES ASSUME TypeOK, ReportKept, [Next]_vars PROVE ReportKept'
  OBVIOUS
<1>a. report \in [Procs -> {"none", "partial", "kept"}]
    /\ passed \subseteq Procs
  BY DEF TypeOK
<1>1. ASSUME NEW p \in Procs, Start(p) \/ RotateReport(p) PROVE ReportKept'
  BY <1>1, <1>a DEF Start, CreateReport, RotateReport, ReportKept
<1>2. ASSUME NEW p \in Procs, Finish(p) PROVE ReportKept'
  BY <1>2, <1>a DEF Finish, ReportKept
<1>3. CASE Reboot \/ MoveDirectory
  BY <1>3, <1>a DEF Reboot, MoveDirectory, ReportKept, TypeOK
<1>4. CASE UNCHANGED <<report, passed>>
  BY <1>4 DEF ReportKept
<1> QED
  BY <1>1, <1>2, <1>3, <1>4
     DEF Next, vars, ReadOpen, ReadName, ReadPath, Compare, Verified, Checks,
         HookAbsent, OpenHook, RecheckHook, ExecuteHook, WriteStat, Create,
         Fill, Recheck, Replace, SyncDirectory, Confirm, WriteFails,
         FinishFails, Kill, WriteBack, ChangeState, InstallHook

(* A run that ended with status 0 has its report, whatever the power does. *)
THEOREM ReportsKept == Spec => []ReportKept
PROOF
<1>1. Init => ReportKept
  BY DEF Init, ReportKept
<1> QED
  BY <1>1, TypeCorrect, ReportStep, PTL DEF Spec
=============================================================================
