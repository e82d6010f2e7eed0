--------------------------- MODULE InstallProofs ---------------------------
(***************************************************************************)
(* What holds of the installer's transaction for every set of releases,    *)
(* every number of trees and every number of runs, kills, power losses and *)
(* panel crashes: what complete says, what the rollback restores, and that *)
(* the transaction implements AtomicRelease.                               *)
(***************************************************************************)
EXTENDS InstallRefinement, TLAPS

(* A group of variables a step leaves alone keeps its type. *)
LEMMA TypeFrame ==
  ASSUME TypeOK
  PROVE  /\ UNCHANGED disk => DiskType'
         /\ UNCHANGED scratch => ScratchType'
         /\ UNCHANGED service => ServiceType'
         /\ UNCHANGED shell => ShellType'
         /\ UNCHANGED history => HistoryType'
         /\ UNCHANGED bounds => BoundsType'
PROOF BY DEF TypeOK, DiskType, ScratchType, ServiceType, ShellType,
             HistoryType, BoundsType, disk, scratch, service, shell, history,
             bounds

(* The end of a run leaves shell variables and scratch directories typed. *)
LEMMA EndRunType ==
  ASSUME TypeOK, EndRun
  PROVE  ShellType' /\ ScratchType' /\ pc' = "idle"
PROOF
<1>1. NoFiles \in [Trees -> Contents]
  BY DEF NoFiles, Contents
<1>2. ScratchType'
  BY <1>1 DEF EndRun, ScratchType
<1>3. 1 \in 1..(TreeCount + 1)
  BY TreesAssumption
<1>4. ShellType'
  BY <1>3 DEF EndRun, ShellType, TypeOK, Optional
<1>5. QED
  BY <1>2, <1>4 DEF EndRun

(* Every step keeps every variable in its type. *)
LEMMA TypeStep == TypeOK /\ RunPoint /\ [Next]_vars => TypeOK'
PROOF
<1> SUFFICES ASSUME TypeOK, RunPoint, [Next]_vars PROVE TypeOK'
  OBVIOUS
<1> DEFINE AppLoads == tree[App] \in Contents
<1>a. AppLoads
  BY TreesAssumption DEF App, Trees, TypeOK, DiskType
<1>b. pc # "idle" => target \in Releases
  BY DEF RunPoint
<1>c. pc \in {"sync", "place", "record"} => at \in Trees
  BY DEF RunPoint
<1>1. CASE UNCHANGED vars
  BY <1>1, TypeFrame DEF vars, TypeOK
<1>2. ASSUME NEW r \in Releases, NEW again \in BOOLEAN, Begin(r, again)
      PROVE  TypeOK'
  <2>1. ShellType'
    BY <1>2 DEF Begin, TypeOK, ShellType, Optional
  <2>a. failedAt' \in {"none"} \cup Forward
    BY <1>2 DEF Begin
  <2>b. snap' \in [tree: [Trees -> Contents], version: Optional,
                   config: BOOLEAN, unit: BOOLEAN, db: Nat]
    BY <1>2 DEF Begin, TypeOK, DiskType
  <2>c. runtimeBefore' = [link |-> link, built |-> link \in venvs]
    BY <1>2 DEF Begin
  <2>d. link \in Optional
    BY DEF TypeOK, DiskType
  <2>e. runtimeBefore' \in [link: Optional, built: BOOLEAN]
    BY <2>c, <2>d
  <2>2. HistoryType'
    BY <2>a, <2>b, <2>e DEF HistoryType
  <2>3. BoundsType'
    BY <1>2 DEF Begin, TypeOK, BoundsType
  <2>4. QED
    BY <1>2, <2>1, <2>2, <2>3, TypeFrame DEF Begin, TypeOK, Forward
<1>3. CASE StopPanel
  <2>1. ServiceType'
    BY <1>3 DEF StopPanel, Goto, TypeOK, ServiceType, Contents, Optional, Trees
  <2>2. ShellType'
    BY <1>3 DEF StopPanel, Goto, TypeOK, ShellType, Contents, Optional, Trees
  <2>3. QED
    BY <1>3, <2>1, <2>2, TypeFrame
       DEF StopPanel, Goto, TypeOK, Forward, Undo
<1>4. CASE MoveAside
  <2>1. DiskType'
    BY <1>4 DEF MoveAside, TypeOK, DiskType, Contents
  <2>2. ScratchType'
    BY <1>4, <1>c DEF MoveAside, TypeOK, ScratchType, DiskType, Contents
  <2>3. at' \in 1..(TreeCount + 1)
    BY <1>4, <1>c, TreesAssumption
       DEF MoveAside, TypeOK, ShellType, Trees
  <2>4. ShellType'
    BY <1>4, <2>3 DEF MoveAside, TypeOK, ShellType
  <2>5. pc' \in Forward
    BY <1>4 DEF MoveAside, AfterTree, Forward
  <2>6. QED
    BY <1>4, <2>1, <2>2, <2>4, <2>5, TypeFrame DEF MoveAside, TypeOK
<1>5. CASE PlaceTree
  <2>1. DiskType'
    BY <1>5, <1>b DEF PlaceTree, Goto, TypeOK, DiskType, Contents, Optional,
       Trees
  <2>2. QED
    BY <1>5, <2>1, TypeFrame
       DEF PlaceTree, Goto, TypeOK, Forward, Undo
<1>6. CASE RecordTree
  <2>1. at' \in 1..(TreeCount + 1) /\ recorded' \in SUBSET Trees
    BY <1>6, <1>c, TreesAssumption DEF RecordTree, TypeOK, ShellType, Trees
  <2>2. ShellType'
    BY <1>6, <2>1 DEF RecordTree, TypeOK, ShellType
  <2>3. pc' \in Forward
    BY <1>6 DEF RecordTree, AfterTree, Forward
  <2>4. QED
    BY <1>6, <2>2, <2>3, TypeFrame DEF RecordTree, TypeOK
<1>7. CASE WriteVersion
  <2>1. DiskType'
    BY <1>7, <1>b DEF WriteVersion, Goto, TypeOK, DiskType, Contents, Optional,
       Trees
  <2>2. QED
    BY <1>7, <2>1, TypeFrame
       DEF WriteVersion, Goto, TypeOK, Forward, Undo
<1>8. CASE BuildRuntime
  <2>1. DiskType'
    BY <1>8 DEF BuildRuntime, Goto, TypeOK, DiskType, Contents, Optional, Trees
  <2>2. ScratchType'
    BY <1>8 DEF BuildRuntime, Goto, TypeOK, ScratchType, Contents, Optional,
       Trees
  <2>3. ShellType'
    BY <1>8 DEF BuildRuntime, Goto, TypeOK, ShellType, DiskType, Contents,
       Optional, Trees
  <2>4. QED
    BY <1>8, <2>1, <2>2, <2>3, TypeFrame
       DEF BuildRuntime, Goto, TypeOK, Forward, Undo
<1>9. CASE PlaceRuntime
  <2>1. DiskType'
    BY <1>9, <1>b DEF PlaceRuntime, Goto, TypeOK, DiskType, Contents, Optional,
       Trees
  <2>2. QED
    BY <1>9, <2>1, TypeFrame
       DEF PlaceRuntime, Goto, TypeOK, Forward, Undo
<1>10. CASE MarkRuntime
  <2>1. ShellType'
    BY <1>10 DEF MarkRuntime, Goto, TypeOK, ShellType, Contents, Optional, Trees
  <2>2. QED
    BY <1>10, <2>1, TypeFrame
       DEF MarkRuntime, Goto, TypeOK, Forward, Undo
<1>11. CASE LinkRuntime
  <2>1. DiskType'
    BY <1>11, <1>b DEF LinkRuntime, Goto, TypeOK, DiskType, Contents, Optional,
       Trees
  <2>2. QED
    BY <1>11, <2>1, TypeFrame
       DEF LinkRuntime, Goto, TypeOK, Forward, Undo
<1>12. CASE WriteConfig
  <2>1. DiskType'
    BY <1>12 DEF WriteConfig, Goto, TypeOK, DiskType, Contents, Optional, Trees
  <2>2. QED
    BY <1>12, <2>1, TypeFrame
       DEF WriteConfig, Goto, TypeOK, Forward, Undo
<1>13. CASE RegisterPanel
  <2>1. DiskType'
    BY <1>13 DEF RegisterPanel, Goto, TypeOK, DiskType, Contents, Optional,
       Trees
  <2>2. QED
    BY <1>13, <2>1, TypeFrame
       DEF RegisterPanel, Goto, TypeOK, Forward, Undo
<1>14. CASE StartPanel
  <2>1. ServiceType'
    BY <1>14, <1>a DEF StartPanel, Goto, TypeOK, ServiceType, Contents,
       Optional, Trees
  <2>2. QED
    BY <1>14, <2>1, TypeFrame
       DEF StartPanel, Goto, TypeOK, Forward, Undo
<1>15. CASE StartFails
  <2>1. ServiceType'
    BY <1>15 DEF StartFails, Goto, TypeOK, ServiceType, Contents, Optional,
       Trees
  <2>2. HistoryType'
    BY <1>15 DEF StartFails, Goto, TypeOK, HistoryType, Forward
  <2>3. QED
    BY <1>15, <2>1, <2>2, TypeFrame
       DEF StartFails, Goto, TypeOK, Forward, Undo
<1>16. CASE Verify
  <2>1. QED
    BY <1>16, TypeFrame
       DEF Verify, Goto, TypeOK, Forward, Undo
<1>17. CASE InstallAgent
  <2>1. QED
    BY <1>17, TypeFrame
       DEF InstallAgent, Goto, TypeOK, Forward, Undo
<1>18. CASE DropTree
  <2>1. ScratchType'
    BY <1>18 DEF DropTree, TypeOK, ScratchType, Contents
  <2>2. QED
    BY <1>18, <2>1, TypeFrame DEF DropTree, TypeOK
<1>19. CASE DropRuntime
  <2>1. ScratchType'
    BY <1>19 DEF DropRuntime, TypeOK, ScratchType
  <2>2. QED
    BY <1>19, <2>1, TypeFrame
       DEF DropRuntime, Goto, TypeOK, Forward, Undo
<1>20. CASE ClearTrees \/ ClearRuntime
  <2>1. ShellType'
    BY <1>20 DEF ClearTrees, ClearRuntime, TypeOK, ShellType
  <2>2. QED
    BY <1>20, <2>1, TypeFrame
       DEF ClearTrees, ClearRuntime, Goto, TypeOK, Forward, Undo
<1>21. CASE Commit
  BY <1>21, TypeFrame DEF Commit, Goto, TypeOK, Forward
<1>22. CASE Finish
  BY <1>22, TypeFrame, EndRunType DEF Finish, TypeOK
<1>23. CASE Abort
  <2>1. HistoryType'
    BY <1>23 DEF Abort, TypeOK, HistoryType
  <2>2. QED
    BY <1>23, <2>1, TypeFrame DEF Abort, TypeOK, Undo
<1>24. CASE RestoreEtc
  <2>1. DiskType'
    BY <1>24 DEF RestoreEtc, TypeOK, DiskType, HistoryType
  <2>2. QED
    BY <1>24, <2>1, TypeFrame DEF RestoreEtc, Goto, TypeOK, Undo
<1>25. CASE UndoRuntime
  <2>1. DiskType'
    BY <1>25 DEF UndoRuntime, Goto, TypeOK, DiskType, ShellType, Contents,
       Optional, Trees
  <2>2. ScratchType'
    BY <1>25 DEF UndoRuntime, Goto, TypeOK, ScratchType, Contents, Optional,
       Trees
  <2>3. QED
    BY <1>25, <2>1, <2>2, TypeFrame
       DEF UndoRuntime, Goto, TypeOK, Forward, Undo
<1>26. CASE UndoTrees
  <2>1. DiskType'
    BY <1>26 DEF UndoTrees, Goto, TypeOK, DiskType, ScratchType, Contents,
       Optional, Trees
  <2>2. ScratchType'
    BY <1>26 DEF UndoTrees, Goto, TypeOK, ScratchType, Contents, Optional, Trees
  <2>3. QED
    BY <1>26, <2>1, <2>2, TypeFrame
       DEF UndoTrees, Goto, TypeOK, Forward, Undo
<1>27. CASE RestoreSnapshot
  <2>1. DiskType'
    BY <1>27 DEF RestoreSnapshot, Goto, TypeOK, DiskType, HistoryType,
       Contents, Optional, Trees
  <2>2. QED
    BY <1>27, <2>1, TypeFrame
       DEF RestoreSnapshot, Goto, TypeOK, Forward, Undo
<1>28. CASE MarkFailed
  <2>1. QED
    BY <1>28, TypeFrame
       DEF MarkFailed, Goto, TypeOK, Forward, Undo
<1>29. CASE RestartPanel
  <2>1. ServiceType'
    BY <1>29, <1>a DEF RestartPanel, TypeOK, ServiceType, Contents, Optional,
       Trees
  <2>2. QED
    BY <1>29, <2>1, TypeFrame, EndRunType
       DEF RestartPanel, TypeOK, Forward, Undo
<1>30. CASE Kill
  <2>1. BoundsType'
    BY <1>30 DEF Kill, TypeOK, BoundsType, Contents, Optional, Trees
  <2>2. QED
    BY <1>30, <2>1, TypeFrame, EndRunType
       DEF Kill, TypeOK, Forward, Undo
<1>31. CASE PowerLoss
  <2>1. ServiceType'
    BY <1>31 DEF PowerLoss, TypeOK, ServiceType, Contents, Optional, Trees
  <2>2. BoundsType'
    BY <1>31 DEF PowerLoss, TypeOK, BoundsType, Contents, Optional, Trees
  <2>3. QED
    BY <1>31, <2>1, <2>2, TypeFrame, EndRunType
       DEF PowerLoss, TypeOK, Forward, Undo
<1>32. CASE AutoRestart
  <2>1. ServiceType'
    BY <1>32, <1>a DEF AutoRestart, TypeOK, ServiceType, Contents, Optional,
       Trees
  <2>2. QED
    BY <1>32, <2>1, TypeFrame
       DEF AutoRestart, TypeOK, Forward, Undo
<1>33. CASE PanelCrash
  <2>1. ServiceType'
    BY <1>33 DEF PanelCrash, TypeOK, ServiceType, Contents, Optional, Trees
  <2>2. BoundsType'
    BY <1>33 DEF PanelCrash, TypeOK, BoundsType, Contents, Optional, Trees
  <2>3. QED
    BY <1>33, <2>1, <2>2, TypeFrame
       DEF PanelCrash, TypeOK, Forward, Undo
<1>34. CASE PanelWrite
  <2>1. DiskType'
    BY <1>34 DEF PanelWrite, TypeOK, DiskType, Contents, Optional, Trees
  <2>2. QED
    BY <1>34, <2>1, TypeFrame
       DEF PanelWrite, TypeOK, Forward, Undo
<1>35. QED
  BY <1>1, <1>2, <1>3, <1>4, <1>5, <1>6, <1>7, <1>8, <1>9, <1>10, <1>11,
     <1>12, <1>13, <1>14, <1>15, <1>16, <1>17, <1>18, <1>19, <1>20, <1>21,
     <1>22, <1>23, <1>24, <1>25, <1>26, <1>27, <1>28, <1>29, <1>30, <1>31,
     <1>32, <1>33, <1>34
     DEF Next, RunStep

(* Every step keeps the trees, VERSION, runtime, link, configuration and   *)
(* unit a forward run has replaced, and a complete server whole.           *)
LEMMA CompleteStep == TypeOK /\ CompleteInv /\ [Next]_vars => CompleteInv'
PROOF
<1> SUFFICES ASSUME TypeOK, CompleteInv, [Next]_vars PROVE CompleteInv'
  OBVIOUS
<1> USE DEF history, Forward
<1> DEFINE files == <<tree, version, venvs, link, config, unit>>
<1>1. ASSUME UNCHANGED files, UNCHANGED <<pc, target, at, status, failedAt>>
      PROVE  CompleteInv'
  BY <1>1 DEF CompleteInv, RunPoint, Replaced, CompleteIsWhole
<1>2. ASSUME pc # "idle", pc' \in Undo, target' = target,
             status' \in {status, "in-progress", "failed"},
             \/ pc \in Forward /\ failedAt' = pc
             \/ pc \in Undo /\ failedAt' = failedAt
      PROVE  CompleteInv'
  <2>1. RunPoint' /\ Replaced'
    BY <1>2 DEF CompleteInv, RunPoint, Replaced, Forward, Undo, TreesDone,
                VersionDone, RuntimeDone, LinkDone, ConfigDone, UnitDone
  <2>2. CompleteIsWhole'
    BY <1>2 DEF CompleteInv, CompleteIsWhole, Replaced, Forward, Undo
  <2>3. QED
    BY <2>1, <2>2 DEF CompleteInv
<1>3. ASSUME EndRun, UNCHANGED files, UNCHANGED <<status, failedAt>>
      PROVE  CompleteInv'
  <2>1. RunPoint' /\ Replaced'
    BY <1>3 DEF EndRun, RunPoint, Replaced, Forward, TreesDone, VersionDone,
                RuntimeDone, LinkDone, ConfigDone, UnitDone
  <2>2. CompleteIsWhole'
    BY <1>3 DEF CompleteInv, CompleteIsWhole
  <2>3. QED
    BY <2>1, <2>2 DEF CompleteInv
<1>4. ASSUME NEW r \in Releases, NEW again \in BOOLEAN, Begin(r, again)
      PROVE  CompleteInv'
  <2>1. /\ pc' = "stop" /\ at' = at /\ pc = "idle"
        /\ target' \in Releases /\ status' = "in-progress"
        /\ failedAt' = "none"
    BY <1>4 DEF Begin
  <2>2. at' = 1 /\ Ships[target'] \subseteq Trees
    BY <2>1, ShipsAssumption DEF CompleteInv, RunPoint
  <2>3. QED
    BY <2>1, <2>2 DEF CompleteInv, RunPoint, Replaced, CompleteIsWhole, Trees,
                      Forward, TreesDone, VersionDone, RuntimeDone, LinkDone,
                      ConfigDone, UnitDone
<1>5. CASE StopPanel
  <2>1. RunPoint'
    BY <1>5, TreesAssumption
       DEF StopPanel, Goto, disk, CompleteInv, RunPoint, Forward, Trees
  <2>2. Replaced'
    BY <1>5 DEF StopPanel, Goto, disk, CompleteInv, RunPoint, Replaced, Forward,
       TreesDone, VersionDone, RuntimeDone, LinkDone, ConfigDone, UnitDone
  <2>3. QED
    BY <1>5, <2>1, <2>2 DEF StopPanel, Goto, CompleteInv, CompleteIsWhole,
       Replaced
<1>6. CASE MoveAside
  <2>1. at \in Trees /\ target' = target /\ target \in Releases
    BY <1>6 DEF MoveAside, CompleteInv, RunPoint
  <2>2. \/ pc' \in {"place", "record"} /\ at' = at
        \/ pc' = AfterTree(at) /\ at' = at + 1 /\ tree' = tree
    BY <1>6 DEF MoveAside
  <2>3. \A t \in Trees : t # at => tree'[t] = tree[t]
    BY <1>6 DEF MoveAside, TypeOK, DiskType
  <2>4. at \in Ships[target] => at' = at /\ pc' = "place"
    BY <1>6 DEF MoveAside
  <2>5. RunPoint'
    BY <2>1, <2>2, TreesAssumption DEF AfterTree, RunPoint, Trees, Forward
  <2>6. \A t \in Ships[target] : t < at' => tree'[t] = {target}
    <3> SUFFICES ASSUME NEW t \in Ships[target], t < at'
                 PROVE  tree'[t] = {target}
      OBVIOUS
    <3>1. t \in Trees
      BY <2>1, ShipsAssumption
    <3>2. t \in Nat /\ at \in Nat /\ at' \in {at, at + 1}
      BY <2>1, <2>2, <3>1, TreesAssumption DEF Trees
    <3>3. t # at /\ t < at
      BY <2>4, <3>2
    <3>4. QED
      BY <1>6, <3>1, <3>3, <2>3 DEF MoveAside, CompleteInv, Replaced, Forward
  <2>7. Replaced'
    BY <1>6, <2>1, <2>2, <2>4, <2>6
       DEF MoveAside, AfterTree, CompleteInv, Replaced, Forward, TreesDone,
           VersionDone, RuntimeDone, LinkDone, ConfigDone, UnitDone
  <2>8. QED
    BY <1>6, <2>5, <2>7 DEF MoveAside, CompleteInv, CompleteIsWhole, Replaced
<1>7. CASE PlaceTree
  <2>1. RunPoint'
    BY <1>7 DEF PlaceTree, Goto, shell, CompleteInv, RunPoint, Forward
  <2>2. at \in Trees /\ target \in Releases
    BY <1>7 DEF PlaceTree, Goto, CompleteInv, RunPoint
  <2>3. tree'[at] = {target} /\ \A t \in Trees : t # at => tree'[t] = tree[t]
    BY <1>7, <2>2 DEF PlaceTree, TypeOK, DiskType
  <2>4. \A t \in Ships[target] : t < at => tree'[t] = {target}
    BY <1>7, <2>2, <2>3, ShipsAssumption
       DEF PlaceTree, Goto, CompleteInv, Replaced, Forward, Trees
  <2>5. Replaced'
    BY <1>7, <2>3, <2>4
       DEF PlaceTree, Goto, shell, CompleteInv, Replaced, Forward, TreesDone,
           VersionDone, RuntimeDone, LinkDone, ConfigDone, UnitDone
  <2>6. QED
    BY <1>7, <2>1, <2>5 DEF PlaceTree, Goto, CompleteInv, CompleteIsWhole,
       Replaced
<1>8. CASE RecordTree
  <2>1. at \in Trees /\ target \in Releases /\ pc = "record"
    BY <1>8 DEF RecordTree, CompleteInv, RunPoint
  <2>2. RunPoint'
    BY <1>8, <2>1, TreesAssumption
       DEF RecordTree, AfterTree, RunPoint, Trees, Forward
  <2>3. \A t \in Ships[target] : t < at + 1 => tree[t] = {target}
    BY <2>1, ShipsAssumption, TreesAssumption
       DEF CompleteInv, Replaced, Forward, Trees
  <2>4. Replaced'
    BY <1>8, <2>1, <2>3
       DEF RecordTree, AfterTree, disk, CompleteInv, Replaced, Forward,
           TreesDone, VersionDone, RuntimeDone, LinkDone, ConfigDone, UnitDone
  <2>5. QED
    BY <1>8, <2>2, <2>4 DEF RecordTree, CompleteInv, CompleteIsWhole, Replaced
<1>9. CASE WriteVersion
  <2>1. RunPoint'
    BY <1>9 DEF WriteVersion, Goto, shell, CompleteInv, RunPoint, Forward
  <2>2. Replaced'
    BY <1>9 DEF WriteVersion, Goto, shell, CompleteInv, RunPoint, Replaced,
       Forward,
       TreesDone, VersionDone, RuntimeDone, LinkDone, ConfigDone, UnitDone
  <2>3. QED
    BY <1>9, <2>1, <2>2 DEF WriteVersion, Goto, CompleteInv, CompleteIsWhole,
       Replaced
<1>10. CASE BuildRuntime
  <2>1. RunPoint'
    BY <1>10 DEF BuildRuntime, Goto, CompleteInv, RunPoint, Forward
  <2>2. Replaced'
    BY <1>10 DEF BuildRuntime, Goto, CompleteInv, RunPoint, Replaced, Forward,
       TreesDone, VersionDone, RuntimeDone, LinkDone, ConfigDone, UnitDone
  <2>3. QED
    BY <1>10, <2>1, <2>2 DEF BuildRuntime, Goto, CompleteInv, CompleteIsWhole,
       Replaced
<1>11. CASE PlaceRuntime
  <2>1. RunPoint'
    BY <1>11 DEF PlaceRuntime, Goto, shell, CompleteInv, RunPoint, Forward
  <2>2. Replaced'
    BY <1>11 DEF PlaceRuntime, Goto, shell, CompleteInv, RunPoint, Replaced,
       Forward,
       TreesDone, VersionDone, RuntimeDone, LinkDone, ConfigDone, UnitDone
  <2>3. QED
    BY <1>11, <2>1, <2>2 DEF PlaceRuntime, Goto, CompleteInv, CompleteIsWhole,
       Replaced
<1>12. CASE MarkRuntime
  <2>1. RunPoint'
    BY <1>12 DEF MarkRuntime, Goto, disk, CompleteInv, RunPoint, Forward
  <2>2. Replaced'
    BY <1>12 DEF MarkRuntime, Goto, disk, CompleteInv, RunPoint, Replaced,
       Forward,
       TreesDone, VersionDone, RuntimeDone, LinkDone, ConfigDone, UnitDone
  <2>3. QED
    BY <1>12, <2>1, <2>2 DEF MarkRuntime, Goto, CompleteInv, CompleteIsWhole,
       Replaced
<1>13. CASE LinkRuntime
  <2>1. RunPoint'
    BY <1>13 DEF LinkRuntime, Goto, shell, CompleteInv, RunPoint, Forward
  <2>2. Replaced'
    BY <1>13 DEF LinkRuntime, Goto, shell, CompleteInv, RunPoint, Replaced,
       Forward,
       TreesDone, VersionDone, RuntimeDone, LinkDone, ConfigDone, UnitDone
  <2>3. QED
    BY <1>13, <2>1, <2>2 DEF LinkRuntime, Goto, CompleteInv, CompleteIsWhole,
       Replaced
<1>14. CASE WriteConfig
  <2>1. RunPoint'
    BY <1>14 DEF WriteConfig, Goto, shell, CompleteInv, RunPoint, Forward
  <2>2. Replaced'
    BY <1>14 DEF WriteConfig, Goto, shell, CompleteInv, RunPoint, Replaced,
       Forward,
       TreesDone, VersionDone, RuntimeDone, LinkDone, ConfigDone, UnitDone
  <2>3. QED
    BY <1>14, <2>1, <2>2 DEF WriteConfig, Goto, CompleteInv, CompleteIsWhole,
       Replaced
<1>15. CASE RegisterPanel
  <2>1. RunPoint'
    BY <1>15 DEF RegisterPanel, Goto, shell, CompleteInv, RunPoint, Forward
  <2>2. Replaced'
    BY <1>15 DEF RegisterPanel, Goto, shell, CompleteInv, RunPoint, Replaced,
       Forward,
       TreesDone, VersionDone, RuntimeDone, LinkDone, ConfigDone, UnitDone
  <2>3. QED
    BY <1>15, <2>1, <2>2 DEF RegisterPanel, Goto, CompleteInv, CompleteIsWhole,
       Replaced
<1>16. CASE StartPanel
  <2>1. RunPoint'
    BY <1>16 DEF StartPanel, Goto, disk, shell, CompleteInv, RunPoint, Forward
  <2>2. Replaced'
    BY <1>16 DEF StartPanel, Goto, disk, shell, CompleteInv,
       RunPoint,
       Replaced, Forward,
       TreesDone, VersionDone, RuntimeDone, LinkDone, ConfigDone, UnitDone
  <2>3. QED
    BY <1>16, <2>1, <2>2 DEF StartPanel, Goto, CompleteInv, CompleteIsWhole,
       Replaced
<1>17. CASE Verify
  <2>1. RunPoint'
    BY <1>17 DEF Verify, Goto, disk, shell, CompleteInv, RunPoint, Forward
  <2>2. Replaced'
    BY <1>17 DEF Verify, Goto, disk, shell, CompleteInv, RunPoint, Replaced,
       Forward,
       TreesDone, VersionDone, RuntimeDone, LinkDone, ConfigDone, UnitDone
  <2>3. QED
    BY <1>17, <2>1, <2>2 DEF Verify, Goto, CompleteInv, CompleteIsWhole,
       Replaced
<1>18. CASE InstallAgent
  <2>1. RunPoint'
    BY <1>18 DEF InstallAgent, Goto, disk, shell, CompleteInv, RunPoint, Forward
  <2>2. Replaced'
    BY <1>18 DEF InstallAgent, Goto, disk, shell, CompleteInv,
       RunPoint,
       Replaced, Forward,
       TreesDone, VersionDone, RuntimeDone, LinkDone, ConfigDone, UnitDone
  <2>3. QED
    BY <1>18, <2>1, <2>2 DEF InstallAgent, Goto, CompleteInv, CompleteIsWhole,
       Replaced
<1>19. CASE DropTree \/ DropRuntime
  <2>1. RunPoint'
    BY <1>19 DEF DropTree, DropRuntime, Goto, disk, shell, CompleteInv,
       RunPoint,
       Forward
  <2>2. Replaced'
    BY <1>19 DEF DropTree, DropRuntime, Goto, disk, shell, CompleteInv,
       RunPoint,
       Replaced, Forward,
       TreesDone, VersionDone, RuntimeDone, LinkDone, ConfigDone, UnitDone
  <2>3. QED
    BY <1>19, <2>1, <2>2 DEF DropTree, DropRuntime,
       Goto, disk, shell, CompleteInv,
       CompleteIsWhole, Replaced, Forward
<1>20. CASE ClearTrees \/ ClearRuntime
  <2>1. RunPoint'
    BY <1>20 DEF ClearTrees, ClearRuntime, Goto, disk, CompleteInv, RunPoint,
       Forward
  <2>2. Replaced'
    BY <1>20 DEF ClearTrees, ClearRuntime, Goto, disk, CompleteInv, RunPoint,
       Replaced, Forward,
       TreesDone, VersionDone, RuntimeDone, LinkDone, ConfigDone, UnitDone
  <2>3. QED
    BY <1>20, <2>1, <2>2 DEF ClearTrees, ClearRuntime, Goto, disk, CompleteInv,
       CompleteIsWhole, Replaced, Forward
<1>21. CASE Commit
  <2>1. pc' = "banner" /\ UNCHANGED files /\ UNCHANGED <<target, at, failedAt>>
        /\ pc = "commit" /\ status' = "complete"
    BY <1>21 DEF Commit, Goto, disk, shell, history
  <2>2. version = target /\ target \in Releases /\ at = TreeCount + 1
    BY <2>1 DEF CompleteInv, RunPoint, Replaced, VersionDone, TreesDone, Forward
  <2>3. \A t \in Ships[version] : tree[t] = {version}
    BY <2>1, <2>2, TreesAssumption, ShipsAssumption
       DEF CompleteInv, Replaced, Trees, Forward
  <2>4. link = version /\ version \in venvs /\ config /\ unit
    BY <2>1, <2>2
       DEF CompleteInv, Replaced, TreesDone, VersionDone, RuntimeDone, LinkDone,
           ConfigDone, UnitDone, Forward
  <2>5. CompleteIsWhole'
    BY <2>1, <2>2, <2>3, <2>4 DEF CompleteIsWhole
  <2>6. RunPoint'
    BY <2>1, <2>2 DEF RunPoint, Forward
  <2>7. Replaced'
    BY <2>1, <2>2, <2>3, <2>4
       DEF CompleteInv, Replaced, Forward, TreesDone,
           VersionDone, RuntimeDone, LinkDone, ConfigDone, UnitDone
  <2>8. QED
    BY <2>5, <2>6, <2>7 DEF CompleteInv
<1>22. CASE StartFails \/ Abort
  BY <1>2, <1>22 DEF StartFails, Abort, Goto, Undo, Forward, shell
<1>23. CASE UndoRuntime \/ UndoTrees \/ RestoreSnapshot \/ RestoreEtc
            \/ MarkFailed
  BY <1>2, <1>23
     DEF UndoRuntime, UndoTrees, RestoreSnapshot, RestoreEtc, MarkFailed,
         Goto, Undo, shell, history
<1>24. CASE RestartPanel \/ Kill \/ PowerLoss
  BY <1>3, <1>24 DEF RestartPanel, Kill, PowerLoss, disk, history
<1>25. CASE Finish
  BY <1>3, <1>25 DEF Finish, disk, history, CompleteInv, Replaced
<1>26. CASE AutoRestart \/ PanelCrash \/ PanelWrite \/ UNCHANGED vars
  BY <1>1, <1>26 DEF AutoRestart, PanelCrash, PanelWrite, vars, disk, shell,
     history
<1>27. QED
  BY <1>4, <1>5, <1>6, <1>7, <1>8, <1>9, <1>10, <1>11, <1>12, <1>13,
     <1>14, <1>15, <1>16, <1>17, <1>18, <1>19, <1>20, <1>21, <1>22, <1>23,
     <1>24, <1>25, <1>26
     DEF Next, RunStep

(* TypeOK and the strengthening of CompleteIsWhole hold of every run.      *)
LEMMA Invariant == Spec => [](TypeOK /\ CompleteInv)
PROOF
<1>1. Init => TypeOK /\ CompleteInv
  <2> SUFFICES ASSUME Init PROVE TypeOK /\ CompleteInv
    OBVIOUS
  <2>1. NoFiles \in [Trees -> Contents]
    BY DEF NoFiles, Contents
  <2>2. 1 \in 1..(TreeCount + 1)
    BY TreesAssumption
  <2>3. TypeOK
    BY <2>1, <2>2
       DEF Init, TypeOK, DiskType, ScratchType, ServiceType, ShellType,
           HistoryType, BoundsType, Optional, Contents
  <2>4. CompleteInv
    BY DEF Init, CompleteInv, RunPoint, Replaced, CompleteIsWhole, Forward,
           TreesDone, VersionDone, RuntimeDone, LinkDone, ConfigDone, UnitDone
  <2>5. QED
    BY <2>3, <2>4
<1>2. (TypeOK /\ CompleteInv) /\ [Next]_vars => (TypeOK /\ CompleteInv)'
  BY TypeStep, CompleteStep DEF CompleteInv
<1>3. QED
  BY <1>1, <1>2, PTL DEF Spec

(* Every variable keeps its type in every state of every run.              *)
THEOREM TypeCorrect == Spec => []TypeOK
PROOF BY Invariant, PTL

(* install-state never says "complete" over a mixture of releases, a       *)
(* missing runtime or a missing unit: not after a failing command or a     *)
(* signal at any stage, a rollback, a SIGKILL or a power loss.  The one    *)
(* exception is in the statement: a run whose banner fails after it has    *)
(* said complete (install.base.sh:2720-2760).                              *)
THEOREM CompleteAlwaysWhole == Spec => []CompleteIsWhole
PROOF
<1>1. TypeOK /\ CompleteInv => CompleteIsWhole
  BY DEF CompleteInv
<1>2. QED
  BY Invariant, <1>1, PTL

-----------------------------------------------------------------------------
(* What a failed run of the installer leaves, for every set of releases,   *)
(* every number of trees and any number of runs, kills and power losses,   *)
(* and the refinement of AtomicRelease.                                    *)

(* What install-state says while a run goes on, and what a run that is     *)
(* over has in memory.                                                     *)
ShellInv ==
  /\ pc = "idle" =>
       aside = NoFiles /\ recorded = {} /\ ~replaced /\ ~oldRuntime
  /\ pc \in Forward => failedAt = "none"
  /\ pc \in (Forward \ {"banner"}) \cup {"mark"} => status = "in-progress"
  /\ pc \in Undo \ {"restart"} =>
       status = "in-progress" \/ (status = "complete" /\ failedAt = "banner")
  /\ pc = "banner" => status = "complete"
  /\ pc = "restart" => status = "failed"

LEMMA ShellStep == TypeOK /\ ShellInv /\ [Next]_vars => ShellInv'
PROOF
<1> SUFFICES ASSUME TypeOK, ShellInv, [Next]_vars PROVE ShellInv'
  OBVIOUS
<1> USE DEF Forward, Undo
<1>1. ASSUME NEW r \in Releases, NEW again \in BOOLEAN, Begin(r, again)
      PROVE  ShellInv'
  BY <1>1 DEF Begin, ShellInv
<1>2. CASE \/ StopPanel \/ MoveAside \/ PlaceTree \/ RecordTree
           \/ WriteVersion \/ BuildRuntime \/ PlaceRuntime \/ MarkRuntime
  BY <1>2 DEF StopPanel, MoveAside, PlaceTree, RecordTree, AfterTree,
     WriteVersion, BuildRuntime, PlaceRuntime, MarkRuntime, Goto, history,
     ShellInv
<1>3. CASE \/ LinkRuntime \/ WriteConfig \/ RegisterPanel \/ StartPanel
           \/ Verify \/ InstallAgent \/ DropTree \/ DropRuntime \/ ClearTrees
           \/ ClearRuntime \/ Commit
  BY <1>3 DEF LinkRuntime, WriteConfig, RegisterPanel, StartPanel, Verify,
     InstallAgent, DropTree, DropRuntime, ClearTrees, ClearRuntime, Commit,
     Goto, history, ShellInv
<1>4. CASE Finish \/ RestartPanel \/ Kill \/ PowerLoss
  BY <1>4 DEF Finish, RestartPanel, Kill, PowerLoss, EndRun, history, ShellInv
<1>5. CASE StartFails \/ Abort
  BY <1>5 DEF StartFails, Abort, Goto, ShellInv
<1>6. CASE \/ UndoRuntime \/ UndoTrees \/ RestoreSnapshot \/ RestoreEtc
           \/ MarkFailed
  BY <1>6 DEF UndoRuntime, UndoTrees, RestoreSnapshot, RestoreEtc, MarkFailed,
     Goto, history, ShellInv
<1>7. CASE AutoRestart \/ PanelCrash \/ PanelWrite \/ UNCHANGED vars
  BY <1>7 DEF AutoRestart, PanelCrash, PanelWrite, vars, scratch, shell,
     history, ShellInv
<1> QED
  BY <1>1, <1>2, <1>3, <1>4, <1>5, <1>6, <1>7 DEF Next, RunStep

-----------------------------------------------------------------------------
(* The trees.  Until the backups go, a tree the run knows of is aside, and *)
(* any other is in place; between the two moves of a tree, and until the   *)
(* run has noted them, the tree is aside and the run does not know it.     *)
Saved(t) == IF t \in recorded THEN aside[t] = snap.tree[t]
            ELSE tree[t] = snap.tree[t]

Pending(t) == aside[t] = snap.tree[t] /\ t \notin recorded

Settled(t) ==
  /\ Saved(t)
  /\ t \notin recorded => aside[t] = {}
  /\ t >= at => t \notin recorded

(* What is left of a tree is all of it or nothing: the archive makes it    *)
(* whole.                                                                  *)
Restorable(t) == IF t \in recorded THEN aside[t] \in {{}, snap.tree[t]}
                 ELSE tree[t] \in {{}, snap.tree[t]}

BackupsGo == {"drop", "clearTrees", "clearRuntime", "commit", "banner"}

Progress ==
  /\ pc \in Forward \ BackupsGo =>
       \A t \in Trees :
         IF t = at /\ pc \in {"place", "record"}
         THEN Pending(t) /\ (pc = "place" => tree[t] = {})
         ELSE Settled(t)
  /\ pc \in {"drop", "clearTrees"} => \A t \in Trees : Restorable(t)

Exact == failedAt \notin LooseAt

Failed == pc \in {"mark", "restart"} \/ (pc = "idle" /\ status = "failed")

TreesRestored ==
  /\ pc \in {"undoRuntime", "undoTrees"} /\ Exact =>
       \A t \in Trees : Restorable(t)
  /\ pc = "restore" /\ Exact =>
       \A t \in Trees : tree[t] \in {{}, snap.tree[t]}
  /\ pc = "restoreEtc" \/ Failed =>
       /\ \A t \in Trees : /\ snap.tree[t] \subseteq tree[t]
                           /\ Exact => tree[t] = snap.tree[t]
       /\ version = snap.version /\ config = snap.config
  /\ Failed => unit = snap.unit

TreesInv == Progress /\ TreesRestored

LEMMA TreesStep ==
  TypeOK /\ RunPoint /\ ShellInv /\ TreesInv /\ [Next]_vars => TreesInv'
PROOF
<1> SUFFICES ASSUME TypeOK, RunPoint, ShellInv, TreesInv, [Next]_vars
             PROVE  TreesInv'
  OBVIOUS
<1> DEFINE files == <<tree, aside, recorded, snap, failedAt>>
           Quiet == Forward \ ({"place", "record"} \cup BackupsGo)
<1> USE DEF Forward, Undo, BackupsGo, Exact, LooseAt
<1>a. tree \in [Trees -> Contents] /\ aside \in [Trees -> Contents]
      /\ snap.tree \in [Trees -> Contents] /\ recorded \subseteq Trees
      /\ (pc \in {"sync", "place", "record"} => at \in Trees)
  BY DEF TypeOK, DiskType, ScratchType, ShellType, HistoryType, RunPoint
<1>b. Trees \subseteq Nat
  BY DEF Trees
<1>c. ASSUME UNCHANGED files
      PROVE  \A t \in Trees : /\ Saved(t) <=> Saved(t)'
                              /\ Restorable(t) <=> Restorable(t)'
  BY <1>c DEF Saved, Restorable
<1>d. \A t \in Trees : Settled(t) => Restorable(t)
  BY DEF Settled, Saved, Restorable
<1>1. ASSUME UNCHANGED <<files, at>>, pc \in Quiet, pc' \in Quiet
      PROVE  TreesInv'
  BY <1>1, <1>c DEF TreesInv, Progress, Settled, Pending, TreesRestored, Failed
<1>2. ASSUME NEW r \in Releases, NEW again \in BOOLEAN, Begin(r, again)
      PROVE  TreesInv'
  BY <1>a, <1>2 DEF Begin, disk, scratch, ShellInv, NoFiles, TreesInv,
     Progress, Settled, Saved, TreesRestored, Failed
<1>3. CASE \/ StopPanel \/ WriteVersion \/ BuildRuntime \/ PlaceRuntime
           \/ MarkRuntime \/ LinkRuntime \/ WriteConfig \/ RegisterPanel
           \/ StartPanel \/ Verify
  BY <1>1, <1>3 DEF StopPanel, WriteVersion, BuildRuntime, PlaceRuntime,
     MarkRuntime, LinkRuntime, WriteConfig, RegisterPanel, StartPanel, Verify,
     Goto, disk, scratch, shell, history
<1>4. CASE InstallAgent
  <2>1. UNCHANGED files /\ pc = "agent" /\ pc' = "drop"
    BY <1>4 DEF InstallAgent, Goto, disk, scratch, shell, history
  <2>2. \A t \in Trees : Restorable(t)
    BY <1>d, <2>1 DEF TreesInv, Progress
  <2> QED
    BY <1>c, <2>1, <2>2 DEF TreesInv, Progress, TreesRestored, Failed
<1>5. CASE MoveAside
  <2>a. at \in Trees /\ pc = "sync"
    BY <1>5, <1>a DEF MoveAside
  <2> PICK k \in Trees : k = at
    BY <2>a
  <2>1. Settled(k) /\ k \notin recorded /\ k \in Nat
    BY <1>b, <2>a DEF TreesInv, Progress, Settled
  <2>b. /\ UNCHANGED <<recorded, snap, failedAt>>
        /\ pc' \in {"sync", "place", "record", "version"}
    BY <1>5 DEF MoveAside, AfterTree, history
  <2>2. ASSUME NEW t \in Trees, t # k
        PROVE  /\ Settled(t)
               /\ tree'[t] = tree[t] /\ aside'[t] = aside[t]
               /\ t >= at' => t >= at
    <3>1. Settled(t) /\ t \in Nat
      BY <1>b, <2>a, <2>2 DEF TreesInv, Progress
    <3>2. at' = at \/ at' = at + 1
      BY <1>5 DEF MoveAside
    <3>3. t >= at' => t >= at
      BY <2>1, <3>1, <3>2
    <3>4. /\ tree' = tree \/ tree' = [tree EXCEPT ![at] = {}]
          /\ aside' = aside \/ aside' = [aside EXCEPT ![at] = tree[at]]
      BY <1>5 DEF MoveAside
    <3> QED BY <1>a, <2>2, <3>1, <3>3, <3>4
  <2>3. ASSUME NEW t \in Trees, t # k PROVE Settled(t)'
    BY <2>b, <2>2, <2>3 DEF Settled, Saved
  <2>4. ASSUME at' = k PROVE Progress'
    <3>1. pc' \in {"place", "record"}
      BY <1>5, <2>1, <2>4 DEF MoveAside
    <3>2. tree[k] = snap.tree[k] /\ aside[k] = {}
      BY <2>1 DEF Settled, Saved
    <3>3. /\ tree'[k] = {}
          /\ aside'[k] = tree[k] \/ (tree[k] = {} /\ aside' = aside)
      BY <1>5, <1>a, <2>1, <2>4 DEF MoveAside
    <3> QED
      BY <2>1, <2>b, <2>3, <2>4, <3>1, <3>2, <3>3 DEF Progress, Pending
  <2>5. ASSUME at' # k PROVE Progress'
    <3>1. /\ tree' = tree /\ aside' = aside /\ at' = k + 1
          /\ pc' \in {"sync", "version"}
      BY <1>5, <2>5 DEF MoveAside, AfterTree
    <3>2. Settled(k)'
      BY <2>1, <2>b, <3>1 DEF Settled, Saved
    <3> QED BY <2>3, <3>1, <3>2 DEF Progress
  <2> QED BY <2>b, <2>4, <2>5 DEF TreesInv, TreesRestored, Failed
<1>6. CASE PlaceTree
  <2>1. /\ at \in Trees /\ Pending(at) /\ pc' = "record"
        /\ UNCHANGED <<at, aside, recorded, snap>>
    BY <1>6, <1>a DEF PlaceTree, Goto, scratch, shell, history, TreesInv,
       Progress
  <2>2. ASSUME NEW t \in Trees, t # at PROVE Settled(t)'
    BY <1>6, <1>a, <2>2 DEF PlaceTree, Goto, scratch, shell, history, TreesInv,
       Progress, Settled, Saved
  <2>3. Progress'
    BY <2>1, <2>2 DEF Progress, Pending
  <2> QED BY <2>1, <2>3 DEF TreesInv, TreesRestored, Failed
<1>7. CASE RecordTree
  <2>a. at \in Trees /\ pc = "record"
    BY <1>7, <1>a DEF RecordTree
  <2> PICK k \in Trees : k = at
    BY <2>a
  <2>1. /\ k \in Nat /\ Pending(k) /\ UNCHANGED <<aside, tree, snap>>
        /\ at' = k + 1 /\ recorded' = recorded \cup {k}
        /\ pc' \in {"sync", "version"}
    BY <1>7, <1>b, <2>a DEF RecordTree, AfterTree, disk, scratch, history,
       TreesInv, Progress
  <2>2. ASSUME NEW t \in Trees, t # k PROVE Settled(t)'
    <3>1. Settled(t) /\ t \in Nat
      BY <1>b, <2>a, <2>2 DEF TreesInv, Progress
    <3> QED BY <2>1, <2>2, <3>1 DEF Settled, Saved
  <2>3. Settled(k)'
    BY <2>1 DEF Pending, Settled, Saved
  <2>4. Progress'
    BY <2>1, <2>2, <2>3 DEF Progress
  <2> QED BY <2>1, <2>4 DEF TreesInv, TreesRestored, Failed
<1>8. CASE DropTree
  <2>1. /\ UNCHANGED <<tree, recorded, snap, failedAt>> /\ pc = "drop"
        /\ pc' = "drop"
    BY <1>8 DEF DropTree, disk, shell, history
  <2>2. ASSUME NEW t \in Trees PROVE aside'[t] \in {{}, aside[t]}
    BY <1>8, <1>a DEF DropTree
  <2>3. \A t \in Trees : Restorable(t)'
    BY <2>1, <2>2 DEF TreesInv, Progress, Restorable
  <2> QED BY <2>1, <2>3 DEF TreesInv, Progress, TreesRestored, Failed
<1>9. CASE DropRuntime
  <2>1. UNCHANGED files /\ pc = "drop" /\ pc' = "clearTrees"
    BY <1>9 DEF DropRuntime, Goto, disk, shell, history
  <2> QED BY <1>c, <2>1 DEF TreesInv, Progress, TreesRestored, Failed
<1>10. CASE ClearTrees \/ ClearRuntime \/ Commit \/ Finish
  BY <1>10 DEF ClearTrees, ClearRuntime, Commit, Finish, EndRun, Goto,
     TreesInv, Progress, TreesRestored, Failed
<1>11. CASE StartFails \/ Abort
  <2>1. /\ UNCHANGED <<tree, aside, recorded, snap>> /\ pc' = "undoRuntime"
        /\ pc \in Forward /\ failedAt' = pc
    BY <1>11 DEF StartFails, Abort, Goto, disk, scratch, shell
  <2>2. ASSUME pc \notin LooseAt, NEW t \in Trees PROVE Restorable(t)
    BY <1>d, <2>1, <2>2 DEF TreesInv, Progress, Pending, Restorable
  <2>3. Exact' => \A t \in Trees : Restorable(t)'
    BY <2>1, <2>2 DEF Restorable
  <2> QED BY <2>1, <2>3 DEF TreesInv, Progress, TreesRestored, Failed
<1>12. CASE UndoRuntime
  BY <1>12, <1>c DEF UndoRuntime, Goto, shell, history, TreesInv, Progress,
     TreesRestored, Failed
<1>13. CASE UndoTrees
  BY <1>13, <1>a DEF UndoTrees, Goto, history, TreesInv, Progress,
     TreesRestored, Failed, Restorable
<1>14. CASE RestoreSnapshot
  <2>1. /\ pc = "restore" /\ pc' = "restoreEtc" /\ UNCHANGED <<snap, failedAt>>
        /\ version' = snap.version /\ config' = snap.config
    BY <1>14 DEF RestoreSnapshot, Goto, history
  <2>2. ASSUME NEW t \in Trees
        PROVE  tree'[t] = IF snap.tree[t] = {} THEN {}
                          ELSE tree[t] \cup snap.tree[t]
    BY <1>14 DEF RestoreSnapshot
  <2>3. ASSUME NEW t \in Trees
        PROVE  /\ snap.tree[t] \subseteq tree'[t]
               /\ Exact => tree'[t] = snap.tree[t]
    BY <2>1, <2>2 DEF TreesInv, TreesRestored
  <2> QED BY <2>1, <2>3 DEF TreesInv, Progress, TreesRestored, Failed
<1>15. CASE RestoreEtc
  BY <1>15 DEF RestoreEtc, Goto, history, TreesInv, Progress, TreesRestored,
     Failed
<1>16. CASE MarkFailed
  BY <1>16 DEF MarkFailed, Goto, disk, history, TreesInv, Progress,
     TreesRestored, Failed
<1>17. CASE RestartPanel \/ Kill \/ PowerLoss
  <2>1. /\ pc' = "idle" /\ UNCHANGED <<disk, history, status>>
        /\ status = "failed" => Failed
    BY <1>17 DEF RestartPanel, Kill, PowerLoss, EndRun, TypeOK, ShellInv, Failed
  <2> QED
    BY <2>1 DEF disk, history, TreesInv, Progress, TreesRestored, Failed
<1>18. CASE AutoRestart \/ PanelCrash \/ PanelWrite \/ UNCHANGED vars
  BY <1>18 DEF AutoRestart, PanelCrash, PanelWrite, vars, disk, scratch, shell,
     history, TreesInv, Progress, Settled, Pending, Saved, Restorable,
     TreesRestored, Failed
<1> QED
  BY <1>2, <1>3, <1>4, <1>5, <1>6, <1>7, <1>8, <1>9, <1>10, <1>11, <1>12,
     <1>13, <1>14, <1>15, <1>16, <1>17, <1>18 DEF Next, RunStep

-----------------------------------------------------------------------------
(* The runtime.  Up to its replacement the link is what the run found; then *)
(* the run remembers that link, and a runtime of its own release that was  *)
(* there before is aside, until it is dropped and the run is past undoing. *)
Found == runtimeBefore.link
Built == runtimeBefore.built

Early == {"stop", "sync", "place", "record", "version", "runtime"}
Late  == {"markRuntime", "link", "config", "register", "start", "verify",
          "agent", "drop"}
Past  == {"clearTrees", "clearRuntime", "commit", "banner"}

RuntimeInv ==
  /\ pc \in Early =>
       ~replaced /\ ~oldRuntime /\ link = Found /\ (Built => Found \in venvs)
  /\ pc = "placeRuntime" =>
       /\ ~replaced /\ link = Found
       /\ previousLink = Found /\ target \notin venvs
       /\ Built => Found \in venvs \/ (Found = target /\ oldRuntime)
  /\ pc \in Late =>
       /\ target \in venvs /\ previousLink = Found
       /\ Built => Found \in venvs /\ (Found = target => oldRuntime)
       /\ pc = "markRuntime" => ~replaced /\ link = Found
       /\ pc # "markRuntime" => replaced
  /\ pc \in Past => link = target /\ target \in venvs
  /\ pc \in {"commit", "banner"} => ~replaced
  /\ pc = "undoRuntime" /\ failedAt \notin NoRuntimeAt =>
       /\ Built /\ ~replaced => link \in venvs
       /\ replaced =>
            /\ target \in venvs
            /\ Built /\ ~oldRuntime => previousLink \in venvs \ {target}
  /\ pc \in {"undoTrees", "restore", "restoreEtc"} \/ Failed =>
       (failedAt \notin NoRuntimeAt /\ Built => link \in venvs)

LEMMA RuntimeStep ==
  TypeOK /\ CompleteInv /\ ShellInv /\ RuntimeInv /\ [Next]_vars => RuntimeInv'
PROOF
<1> SUFFICES ASSUME TypeOK, CompleteInv, ShellInv, RuntimeInv, [Next]_vars
             PROVE  RuntimeInv'
  OBVIOUS
<1> USE DEF Found, Built, Early, Late, Past, Failed, NoRuntimeAt
<1>1. ASSUME UNCHANGED <<venvs, link, target, previousLink, replaced,
                         oldRuntime, history, status>>,
             \/ pc \in Early /\ pc' \in Early
             \/ pc \in Late \ {"markRuntime"} /\ pc' \in Late \ {"markRuntime"}
             \/ pc' = pc
             \/ pc = "undoTrees" /\ pc' = "restore"
             \/ pc = "restore" /\ pc' = "restoreEtc"
             \/ pc = "commit" /\ pc' = "banner"
      PROVE  RuntimeInv'
  BY <1>1 DEF RuntimeInv, history
<1>2. ASSUME NEW r \in Releases, NEW again \in BOOLEAN, Begin(r, again)
      PROVE  RuntimeInv'
  BY <1>2 DEF Begin, disk, scratch, ShellInv, RuntimeInv
<1>3. CASE StopPanel \/ MoveAside \/ PlaceTree \/ RecordTree \/ WriteVersion
  BY <1>1, <1>3 DEF StopPanel, MoveAside, PlaceTree, RecordTree, WriteVersion,
     AfterTree, Goto, disk, scratch, shell, Forward
<1>4. CASE BuildRuntime
  BY <1>4 DEF BuildRuntime, Goto, history, RuntimeInv
<1>5. CASE PlaceRuntime
  BY <1>5 DEF PlaceRuntime, Goto, disk, scratch, shell, history, RuntimeInv
<1>6. CASE MarkRuntime
  BY <1>6 DEF MarkRuntime, Goto, disk, scratch, shell, history, RuntimeInv
<1>7. CASE LinkRuntime
  BY <1>7 DEF LinkRuntime, Goto, scratch, shell, history, RuntimeInv
<1>8. CASE \/ WriteConfig \/ RegisterPanel \/ StartPanel \/ Verify
           \/ InstallAgent \/ DropTree
  BY <1>1, <1>8 DEF WriteConfig, RegisterPanel, StartPanel, Verify,
     InstallAgent, DropTree, Goto, disk, scratch, shell
<1>9. CASE DropRuntime
  <2>1. link = target /\ target \in venvs
    BY <1>9 DEF DropRuntime, Goto, CompleteInv, Replaced, LinkDone, RuntimeDone,
       VersionDone, TreesDone, Forward
  <2> QED
    BY <1>9, <2>1 DEF DropRuntime, Goto, disk, shell, history, RuntimeInv
<1>10. CASE ClearTrees \/ ClearRuntime
  BY <1>10 DEF ClearTrees, ClearRuntime, Goto, disk, history, RuntimeInv
<1>11. CASE Commit
  BY <1>11 DEF Commit, Goto, disk, shell, history, RuntimeInv
<1>12. CASE Finish
  BY <1>12 DEF Finish, EndRun, RuntimeInv
<1>13. CASE StartFails \/ Abort
  <2>1. /\ UNCHANGED <<venvs, link, target, previousLink, replaced, oldRuntime,
                       runtimeBefore>>
        /\ pc \in Forward /\ pc' = "undoRuntime" /\ failedAt' = pc
    BY <1>13 DEF StartFails, Abort, Goto, Forward, disk, scratch, shell
  <2> QED BY <2>1 DEF RuntimeInv, Forward
<1>14. CASE UndoRuntime
  BY <1>14 DEF UndoRuntime, Goto, shell, history, RuntimeInv
<1>15. CASE UndoTrees \/ RestoreSnapshot
  BY <1>1, <1>15 DEF UndoTrees, RestoreSnapshot, Goto, scratch, shell
<1>16. CASE RestoreEtc \/ MarkFailed
  BY <1>16 DEF RestoreEtc, MarkFailed, Goto, disk, history, RuntimeInv
<1>17. CASE RestartPanel \/ Kill \/ PowerLoss
  <2>1. /\ pc' = "idle" /\ UNCHANGED <<disk, history, status>>
        /\ status = "failed" => Failed
    BY <1>17 DEF RestartPanel, Kill, PowerLoss, EndRun, TypeOK, ShellInv,
       Forward, Undo
  <2> QED
    BY <2>1 DEF disk, history, RuntimeInv
<1>18. CASE AutoRestart \/ PanelCrash \/ PanelWrite \/ UNCHANGED vars
  BY <1>1, <1>18 DEF AutoRestart, PanelCrash, PanelWrite, vars, disk, scratch,
     shell
<1> QED
  BY <1>2, <1>3, <1>4, <1>5, <1>6, <1>7, <1>8, <1>9, <1>10, <1>11, <1>12,
     <1>13, <1>14, <1>15, <1>16, <1>17, <1>18 DEF Next, RunStep

-----------------------------------------------------------------------------
RollbackInv == ShellInv /\ TreesInv /\ RuntimeInv

LEMMA RollbackInvariant ==
  Spec => [](TypeOK /\ CompleteInv /\ RollbackInv)
PROOF
<1>1. Init => RollbackInv
  BY DEF Init, RollbackInv, ShellInv, TreesInv, Progress, TreesRestored, Failed,
     RuntimeInv, Early, Late, Past, Forward, Undo, BackupsGo
<1>2. TypeOK /\ CompleteInv /\ RollbackInv /\ [Next]_vars => RollbackInv'
  BY ShellStep, TreesStep, RuntimeStep DEF RollbackInv, CompleteInv
<1> QED BY <1>1, <1>2, Invariant, PTL DEF Spec

(* Until the backups are dropped, every file of the previous release is in *)
(* its place or moved aside by this run (install.base.sh:1283-1340).       *)
THEOREM TreesAreKept == Spec => []PreviousTreeKept
PROOF
<1>1. TypeOK /\ RollbackInv => PreviousTreeKept
  BY DEF RollbackInv, TreesInv, Progress, Pending, Settled, Saved, BackupsGo,
     PreviousTreeKept
<1> QED BY <1>1, RollbackInvariant, PTL

(* A run that failed at any stage has lost no file of the previous release *)
(* (installer_exit, install.base.sh:132).                                  *)
THEOREM NothingIsLost == Spec => []FailedLosesNothing
PROOF
<1>1. TypeOK /\ RollbackInv => FailedLosesNothing
  BY DEF RollbackInv, TreesInv, TreesRestored, Failed, FailedLosesNothing,
     Between
<1> QED BY <1>1, RollbackInvariant, PTL

(* A run that failed at any stage has restored VERSION, the configuration  *)
(* and the unit it found; outside LooseAt the very trees, and outside      *)
(* NoRuntimeAt a link to a runtime, if there was one.                      *)
THEOREM FilesAreRestored == Spec => []FailedRestoresFiles
PROOF
<1>1. TypeOK /\ RollbackInv => FailedRestoresFiles
  <2> SUFFICES ASSUME TypeOK, RollbackInv, status = "failed", Between
               PROVE  /\ version = snap.version
                      /\ config = snap.config /\ unit = snap.unit
                      /\ Exact => tree = snap.tree
                      /\ failedAt \notin NoRuntimeAt /\ runtimeBefore.built
                           => link \in venvs
    BY DEF FailedRestoresFiles, Exact
  <2>1. Failed
    BY DEF Failed, Between
  <2>2. /\ version = snap.version /\ config = snap.config /\ unit = snap.unit
        /\ Exact => \A t \in Trees : tree[t] = snap.tree[t]
    BY <2>1 DEF RollbackInv, TreesInv, TreesRestored
  <2>3. Exact => tree = snap.tree
    BY <2>2 DEF TypeOK, DiskType, HistoryType
  <2>4. failedAt \notin NoRuntimeAt /\ runtimeBefore.built => link \in venvs
    BY <2>1 DEF RollbackInv, RuntimeInv, Built
  <2> QED BY <2>2, <2>3, <2>4
<1> QED BY <1>1, RollbackInvariant, PTL

-----------------------------------------------------------------------------
(* Seen from outside, a run that commits installs one whole release.       *)
LEMMA WholeIsRelease ==
  ASSUME NEW v \in Releases, NEW f, \A t \in Ships[v] : f[t] = {v}
  PROVE  ReleaseOf(f, v) = v
PROOF BY NoneAssumption DEF ReleaseOf

LEMMA ReleaseType == \A f, v : ReleaseOf(f, v) \in Releases \cup {None, Torn}
PROOF BY DEF ReleaseOf

Installed == IF Said THEN ReleaseOf(tree, version)
             ELSE ReleaseOf(snap.tree, snap.version)

Loose == failedAt \in LooseAt

(* Each step of a run, seen from outside.                                  *)
LEMMA AtomicStep ==
  ASSUME TypeOK, CompleteInv, RollbackInv, CompleteInv', [Next]_vars
  PROVE  \/ status' = "in-progress" /\ ~Loose' /\ Installed' = Installed
         \/ /\ status = "in-progress" /\ ~Loose /\ status' = "complete"
            /\ Installed' \in Releases /\ Loose' = Loose
         \/ /\ status = "in-progress" /\ ~Loose /\ status' = "failed"
            /\ Installed' = Installed /\ Loose' = Loose
         \/ /\ status = "in-progress"
            /\ Installed' \in Releases \cup {None, Torn}
            /\ status' = status /\ Loose' = Loose
         \/ /\ status \in {"in-progress", "complete"} /\ ~Loose /\ Loose'
            /\ Installed' = Installed /\ status' = status
         \/ /\ Loose /\ status' \in {status, "in-progress", "failed"}
            /\ Installed' \in Releases \cup {None, Torn} /\ Loose' = Loose
         \/ status' = status /\ Installed' = Installed /\ Loose' = Loose
PROOF
<1> USE DEF Forward, Undo, LooseAt, Between, Said, Loose
<1>a. /\ pc \in Forward => failedAt = "none"
      /\ pc \in (Forward \ {"banner"}) \cup {"mark"} => status = "in-progress"
      /\ pc \in Undo \ {"restart"} =>
           \/ status = "in-progress"
           \/ status = "complete" /\ failedAt = "banner"
      /\ pc = "banner" => status = "complete"
      /\ pc \in {"idle"} \cup Forward \cup Undo
  BY DEF RollbackInv, ShellInv, TypeOK
<1>b. Installed' \in Releases \cup {None, Torn}
  BY ReleaseType DEF Installed
<1>c. Loose \in BOOLEAN /\ Loose' \in BOOLEAN
  OBVIOUS
<1>1. ASSUME UNCHANGED <<tree, version, snap>>, Said' = Said
      PROVE  Installed' = Installed
  BY <1>1 DEF Installed
<1>2. ASSUME UNCHANGED snap, ~Said, ~Said'
      PROVE  Installed' = Installed
  BY <1>2 DEF Installed
<1>3. ASSUME NEW r \in Releases, NEW again \in BOOLEAN, Begin(r, again)
      PROVE  status' = "in-progress" /\ ~Loose' /\ Installed' = Installed
  BY <1>3 DEF Begin, Installed
<1>4. CASE \/ StopPanel \/ MoveAside \/ PlaceTree \/ RecordTree
           \/ WriteVersion \/ BuildRuntime \/ PlaceRuntime \/ MarkRuntime
  <2>1. /\ UNCHANGED <<snap, failedAt, status>> /\ pc \in Forward \ {"banner"}
        /\ pc' \in Forward \ {"banner"}
    BY <1>4 DEF StopPanel, MoveAside, PlaceTree, RecordTree, AfterTree,
       WriteVersion, BuildRuntime, PlaceRuntime, MarkRuntime, Goto, history
  <2> QED BY <1>a, <1>2, <2>1
<1>5. CASE \/ LinkRuntime \/ WriteConfig \/ RegisterPanel \/ StartPanel
           \/ Verify \/ InstallAgent \/ DropTree \/ DropRuntime \/ ClearTrees
           \/ ClearRuntime
  <2>1. /\ UNCHANGED <<snap, failedAt, status>> /\ pc \in Forward \ {"banner"}
        /\ pc' \in Forward \ {"banner"}
    BY <1>5 DEF LinkRuntime, WriteConfig, RegisterPanel, StartPanel, Verify,
       InstallAgent, DropTree, DropRuntime, ClearTrees, ClearRuntime, Goto,
       history
  <2> QED BY <1>a, <1>2, <2>1
<1>6. CASE StartFails \/ Abort
  <2>1. /\ UNCHANGED <<tree, version, snap, status>> /\ pc \in Forward
        /\ pc' = "undoRuntime" /\ failedAt' = pc
    BY <1>6 DEF StartFails, Abort, Goto, disk
  <2>2. Said' = Said /\ ~Loose
    BY <1>a, <2>1
  <2>3. Installed' = Installed
    BY <1>1, <2>1, <2>2
  <2>4. CASE Loose'
    BY <1>a, <2>1, <2>2, <2>3, <2>4
  <2>5. CASE ~Loose'
    BY <2>1, <2>2, <2>3, <2>5
  <2> QED BY <2>4, <2>5
<1>7. CASE Commit
  <2>1. /\ pc = "commit" /\ pc' = "banner" /\ status' = "complete"
        /\ UNCHANGED failedAt
    BY <1>7 DEF Commit, Goto, history
  <2>2. status = "in-progress" /\ failedAt = "none"
    BY <1>a, <2>1
  <2>3. /\ version' \in Releases
        /\ \A t \in Ships[version'] : tree'[t] = {version'}
    BY <2>1, <2>2 DEF CompleteInv, CompleteIsWhole
  <2>4. ReleaseOf(tree', version') \in Releases
    BY <2>3, WholeIsRelease
  <2> QED BY <2>1, <2>2, <2>4 DEF Installed
<1>8. CASE Finish
  <2>1. /\ pc = "banner" /\ pc' = "idle" /\ status' = "complete"
        /\ UNCHANGED <<tree, version, snap, failedAt>>
    BY <1>8 DEF Finish, EndRun, disk, history
  <2> QED BY <1>a, <1>1, <2>1
<1>9. CASE UndoRuntime \/ UndoTrees \/ RestoreSnapshot
  <2>1. /\ UNCHANGED <<snap, failedAt, status>> /\ pc \in Undo \ {"restart"}
        /\ pc' \in Undo \ {"restart"}
    BY <1>9 DEF UndoRuntime, UndoTrees, RestoreSnapshot, Goto, history
  <2>2. CASE failedAt = "banner"
    BY <1>b, <2>1, <2>2
  <2>3. CASE failedAt # "banner"
    BY <1>2, <2>1, <2>3
  <2> QED BY <2>2, <2>3
<1>10. CASE RestoreEtc
  <2>1. /\ UNCHANGED <<tree, version, snap, failedAt>> /\ pc = "restoreEtc"
        /\ pc' = "mark" /\ status' = "in-progress"
    BY <1>10 DEF RestoreEtc, Goto, history
  <2>2. CASE failedAt = "banner"
    BY <1>b, <2>1, <2>2
  <2>3. CASE failedAt # "banner"
    BY <1>a, <1>2, <2>1, <2>3
  <2> QED BY <2>2, <2>3
<1>11. CASE MarkFailed
  <2>1. /\ pc = "mark" /\ pc' = "restart" /\ status' = "failed"
        /\ UNCHANGED <<tree, version, snap, failedAt>>
    BY <1>11 DEF MarkFailed, Goto, disk, history
  <2>2. CASE Loose
    BY <1>b, <2>1, <2>2
  <2>3. CASE ~Loose
    <3>1. Exact /\ Failed
      BY <2>1, <2>3 DEF Exact, Failed
    <3>2. version = snap.version /\ \A t \in Trees : tree[t] = snap.tree[t]
      BY <3>1 DEF RollbackInv, TreesInv, TreesRestored
    <3>3. tree = snap.tree
      BY <3>2 DEF TypeOK, DiskType, HistoryType
    <3>4. Installed' = Installed
      BY <2>1, <3>2, <3>3 DEF Installed
    <3> QED BY <1>a, <2>1, <2>3, <3>4
  <2> QED BY <2>2, <2>3
<1>12. CASE RestartPanel
  <2>1. /\ pc = "restart" /\ pc' = "idle"
        /\ UNCHANGED <<tree, version, snap, status, failedAt>>
    BY <1>12 DEF RestartPanel, EndRun, disk, history
  <2> QED BY <1>1, <2>1
<1>13. CASE Kill \/ PowerLoss
  <2>1. /\ pc' = "idle"
        /\ UNCHANGED <<tree, version, snap, status, failedAt>>
    BY <1>13 DEF Kill, PowerLoss, EndRun, disk, history
  <2>2. CASE Said
    BY <1>1, <2>1, <2>2
  <2>3. CASE ~Said
    BY <1>a, <1>b, <2>1, <2>3
  <2> QED BY <2>2, <2>3
<1>14. CASE AutoRestart \/ PanelCrash \/ PanelWrite \/ UNCHANGED vars
  <2>1. UNCHANGED <<tree, version, snap, status, failedAt, pc>>
    BY <1>14 DEF AutoRestart, PanelCrash, PanelWrite, vars, disk, history
  <2> QED BY <1>1, <2>1
<1> QED
  BY <1>3, <1>4, <1>5, <1>6, <1>7, <1>8, <1>9, <1>10, <1>11, <1>12, <1>13,
     <1>14 DEF Next, RunStep

(* Every run is atomic to a reader who looks between two runs: complete    *)
(* over the new release, failed over the old one, or in progress after a   *)
(* kill, whatever release ships which trees and wherever a command fails   *)
(* or a signal arrives.  A run that breaks off at LooseAt is the one       *)
(* exception, and the abstract specification names it.                     *)
THEOREM Refinement == Spec => ImplementsAtomicRelease
PROOF
<1>1. Init => Atomic!Init
  BY DEF Init, Atomic!Init, Said, Between, ReleaseOf, LooseAt
<1>2. /\ TypeOK /\ CompleteInv /\ RollbackInv
      /\ (TypeOK /\ CompleteInv /\ RollbackInv)' /\ [Next]_vars
      => [Atomic!Next]_<<IF Said THEN ReleaseOf(tree, version)
                         ELSE ReleaseOf(snap.tree, snap.version), status,
                         failedAt \in LooseAt>>
  <2> SUFFICES ASSUME TypeOK, CompleteInv, RollbackInv,
                      TypeOK', CompleteInv', RollbackInv', [Next]_vars
               PROVE  [Atomic!Next]_<<Installed, status, Loose>>
    BY DEF Installed, Loose
  <2> QED
    BY AtomicStep DEF Installed, Loose, Atomic!Next, Atomic!Begin,
       Atomic!Commit, Atomic!Abort, Atomic!Crash, Atomic!BreakOff,
       Atomic!LooseRollback
<1> QED
  BY <1>1, <1>2, RollbackInvariant, PTL
     DEF Spec, ImplementsAtomicRelease, Atomic!Spec
=============================================================================
