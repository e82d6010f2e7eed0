------------------------- MODULE InstallTransaction -------------------------
(***************************************************************************)
(* The installer's transaction over one server: the derived installer that *)
(* install.sh runs from install.base.sh after tools/harden_install*.py have *)
(* rewritten its snapshot and rollback helpers.                            *)
(*                                                                         *)
(* A run takes the installer lock, snapshots the managed paths, stops the  *)
(* panel, replaces the release trees one by one, writes VERSION, builds    *)
(* and links a versioned runtime, writes config.env and the unit, starts   *)
(* the panel, checks it, and only then drops the backups, says complete    *)
(* and prints its banner.  The script runs under set -e: a command that    *)
(* fails or a signal anywhere before its last line enters installer_exit,  *)
(* which undoes the runtime, the trees and the managed paths in that       *)
(* order.                                                                  *)
(*                                                                         *)
(* Simplifications.  A tree or a file holds the set of releases whose      *)
(* files can be found in it, so an archive extracted over a tree is a      *)
(* union.  A backup whose removal has begun counts as gone.                *)
(* requirements.lock travels with VERSION.  Packages, services other than  *)
(* hostpanel.service and the firewall are not in this module               *)
(* (FirewallRollback has the last one).  The panel's own program is not in *)
(* the repository: it is a service that runs, crashes and writes its       *)
(* SQLite database.                                                        *)
(***************************************************************************)
EXTENDS Naturals

CONSTANTS
  Releases,         \* the releases an operator or the updater may install
  None,             \* no release, no file
  TreeCount,        \* the release trees, in the order they are replaced
  Ships,            \* Ships[r]: the trees release r contains
  MaxRuns,          \* bound: installer runs
  MaxKills,         \* bound: SIGKILLs of the installer
  MaxReboots,       \* bound: power losses
  MaxPanelCrashes,  \* bound: crashes of the panel process
  MaxWrites         \* bound: writes of the panel to its database

Trees == 1..TreeCount
App   == 1          \* $PANEL_DIR/app is replaced first

ASSUME NoneAssumption == None \notin Releases
ASSUME TreesAssumption == TreeCount \in Nat \ {0}
ASSUME ShipsAssumption ==
  /\ Ships \in [Releases -> SUBSET Trees]
  /\ \A r \in Releases : App \in Ships[r]

VARIABLES
  (* the disk *)
  tree,          \* tree[t]: releases with files in tree t, {} when absent
  version,       \* $PANEL_DIR/VERSION
  venvs,         \* releases whose runtime directory venvs/<release> exists
  link,          \* the release the symbolic link $PANEL_DIR/venv points to
  config,        \* does $PANEL_DIR/config.env exist?
  unit,          \* does hostpanel.service exist?
  db,            \* panel writes in hostpanel.db
  status,        \* status= of /etc/hostpanel/install-state
  snap,          \* the last safety snapshot with its absence manifest
  aside,         \* aside[t]: <tree>.previous.$$ of this run
  oldRuntime,    \* does venvs/.<release>.previous.$$ of this run exist?
  (* the service *)
  panel,         \* hostpanel.service
  loaded,        \* the releases the running panel was started from
  enabled,       \* is the service started at boot?
  (* the shell variables of the run *)
  pc, reinstall, target, at,
  recorded,      \* TREE_ROLLBACK_DESTS
  wasActive,     \* SERVICE_WAS_ACTIVE
  previousLink,  \* PREVIOUS_VENV_TARGET
  replaced,      \* RUNTIME_REPLACED
  (* history: the runtime when the last run began, and the stage at which *)
  (* that run was broken off by a failing command or a signal             *)
  runtimeBefore, failedAt,
  (* bounds *)
  runs, kills, reboots, panelCrashes

disk    == <<tree, version, venvs, link, config, unit, db>>
scratch == <<aside, oldRuntime>>
service == <<panel, loaded, enabled>>
shell   == <<reinstall, target, at, recorded, wasActive, previousLink,
             replaced>>
history == <<snap, runtimeBefore, failedAt>>
bounds  == <<runs, kills, reboots, panelCrashes>>
vars    == <<disk, scratch, service, shell, history, bounds, status, pc>>

Forward == {"stop", "sync", "place", "record", "version", "runtime",
            "placeRuntime", "markRuntime", "link", "config", "register",
            "start", "verify", "agent", "drop", "clearTrees",
            "clearRuntime", "commit", "banner"}
Undo    == {"undoRuntime", "undoTrees", "restore", "restoreEtc", "mark",
            "restart"}

Contents == SUBSET Releases
Optional == Releases \cup {None}

DiskType ==
  /\ tree \in [Trees -> Contents]
  /\ version \in Optional /\ link \in Optional /\ venvs \in Contents
  /\ config \in BOOLEAN /\ unit \in BOOLEAN /\ db \in Nat

ScratchType == aside \in [Trees -> Contents] /\ oldRuntime \in BOOLEAN

ServiceType ==
  /\ panel \in {"stopped", "restarting", "active"}
  /\ loaded \in Contents /\ enabled \in BOOLEAN

ShellType ==
  /\ reinstall \in BOOLEAN /\ target \in Optional
  /\ at \in 1..(TreeCount + 1) /\ recorded \in SUBSET Trees
  /\ wasActive \in BOOLEAN /\ previousLink \in Optional
  /\ replaced \in BOOLEAN

HistoryType ==
  /\ snap \in [tree: [Trees -> Contents], version: Optional,
               config: BOOLEAN, unit: BOOLEAN, db: Nat]
  /\ runtimeBefore \in [link: Optional, built: BOOLEAN]
  /\ failedAt \in {"none"} \cup Forward

BoundsType ==
  /\ runs \in Nat /\ kills \in Nat /\ reboots \in Nat
  /\ panelCrashes \in Nat

TypeOK ==
  /\ DiskType /\ ScratchType /\ ServiceType /\ ShellType
  /\ HistoryType /\ BoundsType
  /\ status \in {"none", "in-progress", "failed", "complete"}
  /\ pc \in {"idle"} \cup Forward \cup Undo

NoFiles == [t \in Trees |-> {}]

Init ==
  /\ tree = NoFiles /\ aside = NoFiles
  /\ version = None /\ link = None /\ previousLink = None
  /\ venvs = {} /\ loaded = {} /\ recorded = {}
  /\ config = FALSE /\ unit = FALSE /\ oldRuntime = FALSE /\ enabled = FALSE
  /\ reinstall = FALSE /\ wasActive = FALSE /\ replaced = FALSE
  /\ db = 0
  /\ status = "none"
  /\ snap = [tree |-> NoFiles, version |-> None, config |-> FALSE,
             unit |-> FALSE, db |-> 0]
  /\ runtimeBefore = [link |-> None, built |-> FALSE]
  /\ failedAt = "none"
  /\ panel = "stopped"
  /\ pc = "idle" /\ target = None /\ at = 1
  /\ runs = 0 /\ kills = 0 /\ reboots = 0 /\ panelCrashes = 0

-----------------------------------------------------------------------------
(* The run *)

Goto(from, to) == pc = from /\ pc' = to

(* Can systemd start what is on disk?  The unit runs                       *)
(* $PANEL_DIR/venv/bin/python on $PANEL_DIR/app.                           *)
Startable == unit /\ tree[App] # {} /\ link \in venvs

(* The process and its shell variables are gone; directories named after   *)
(* its pid are never looked at again.                                      *)
EndRun ==
  /\ pc' = "idle" /\ at' = 1
  /\ recorded' = {} /\ replaced' = FALSE
  /\ wasActive' = FALSE /\ previousLink' = None
  /\ aside' = NoFiles /\ oldRuntime' = FALSE
  /\ UNCHANGED <<reinstall, target>>

(* Of the checks before the first change: an existing config.env refuses a *)
(* run without --reinstall.                                                *)
Preflight(again) == again \/ ~config

(* The lock is held, install-state says in-progress, and the snapshot has  *)
(* archived the managed paths and listed the absent ones.                  *)
Begin(r, again) ==
  /\ pc = "idle" /\ runs < MaxRuns
  /\ Preflight(again)
  /\ pc' = "stop"
  /\ target' = r /\ reinstall' = again
  /\ status' = "in-progress"
  /\ snap' = [tree |-> tree, version |-> version, config |-> config,
              unit |-> unit, db |-> db]
  /\ runtimeBefore' = [link |-> link, built |-> link \in venvs]
  /\ failedAt' = "none"
  /\ runs' = runs + 1
  /\ UNCHANGED <<disk, scratch, service, at, recorded, wasActive,
                 previousLink, replaced, kills, reboots, panelCrashes>>

(* A reinstall stops the panel, but only one that systemd calls active. *)
StopPanel ==
  /\ Goto("stop", "sync")
  /\ wasActive' = (reinstall /\ panel = "active")
  /\ panel' = IF wasActive' THEN "stopped" ELSE panel
  /\ loaded' = IF wasActive' THEN {} ELSE loaded
  /\ UNCHANGED <<disk, scratch, enabled, reinstall, target, at, recorded,
                 previousLink, replaced, history, bounds, status>>

AfterTree(t) == IF t = TreeCount THEN "version" ELSE "sync"

(* Mutant: the old tree is deleted instead of moved aside. *)
DeleteOldTree ==
  /\ pc = "sync" /\ at \in Ships[target] /\ pc' = "place"
  /\ tree' = [tree EXCEPT ![at] = {}]
  /\ UNCHANGED <<version, venvs, link, config, unit, db, scratch, service,
                 shell, history, bounds, status>>

(* sync_release_tree: the new tree is staged; a present one moves aside.   *)
(* sync_optional_tree: a tree the release no longer ships moves aside too, *)
(* when the run is a reinstall.                                            *)
MoveAside ==
  /\ pc = "sync"
  /\ LET ships   == at \in Ships[target]
         present == tree[at] # {}
     IN  IF present /\ (ships \/ reinstall)
         THEN /\ aside' = [aside EXCEPT ![at] = tree[at]]
              /\ tree' = [tree EXCEPT ![at] = {}]
              /\ pc' = IF ships THEN "place" ELSE "record"
              /\ UNCHANGED at
         ELSE /\ pc' = IF ships THEN "place" ELSE AfterTree(at)
              /\ at' = IF ships THEN at ELSE at + 1
              /\ UNCHANGED <<tree, aside>>
  /\ UNCHANGED <<version, venvs, link, config, unit, db, oldRuntime, service,
                 reinstall, target, recorded, wasActive, previousLink,
                 replaced, history, bounds, status>>

PlaceTree ==
  /\ Goto("place", "record")
  /\ tree' = [tree EXCEPT ![at] = {target}]
  /\ UNCHANGED <<version, venvs, link, config, unit, db, scratch, service,
                 shell, history, bounds, status>>

(* Mutant: the rollback array is filled after the index has moved on. *)
RecordNextTree ==
  /\ pc = "record" /\ pc' = AfterTree(at)
  /\ at' = at + 1
  /\ recorded' = recorded \cup {at'}
  /\ UNCHANGED <<disk, scratch, service, reinstall, target, wasActive,
                 previousLink, replaced, history, bounds, status>>

(* TREE_ROLLBACK_DESTS and TREE_ROLLBACK_BACKUPS learn of the tree only    *)
(* after both moves.                                                       *)
RecordTree ==
  /\ pc = "record" /\ pc' = AfterTree(at)
  /\ recorded' = recorded \cup {at}
  /\ at' = at + 1
  /\ UNCHANGED <<disk, scratch, service, reinstall, target, wasActive,
                 previousLink, replaced, history, bounds, status>>

WriteVersion ==
  /\ Goto("version", "runtime")
  /\ version' = target
  /\ UNCHANGED <<tree, venvs, link, config, unit, db, scratch, service,
                 shell, history, bounds, status>>

(* The runtime is built beside its place; one that already exists for the  *)
(* same release moves aside first.                                         *)
BuildRuntime ==
  /\ Goto("runtime", "placeRuntime")
  /\ previousLink' = link
  /\ oldRuntime' = (target \in venvs)
  /\ venvs' = venvs \ {target}
  /\ UNCHANGED <<tree, version, link, config, unit, db, aside, service,
                 reinstall, target, at, recorded, wasActive, replaced,
                 history, bounds, status>>

PlaceRuntime ==
  /\ Goto("placeRuntime", "markRuntime")
  /\ venvs' = venvs \cup {target}
  /\ UNCHANGED <<tree, version, link, config, unit, db, scratch, service,
                 shell, history, bounds, status>>

MarkRuntime ==
  /\ Goto("markRuntime", "link")
  /\ replaced' = TRUE
  /\ UNCHANGED <<disk, scratch, service, reinstall, target, at, recorded,
                 wasActive, previousLink, history, bounds, status>>

LinkRuntime ==
  /\ Goto("link", "config")
  /\ link' = target
  /\ UNCHANGED <<tree, version, venvs, config, unit, db, scratch, service,
                 shell, history, bounds, status>>

(* config.env, the recovery database, and the configuration of every role. *)
WriteConfig ==
  /\ Goto("config", "register")
  /\ config' = TRUE
  /\ UNCHANGED <<tree, version, venvs, link, unit, db, scratch, service,
                 shell, history, bounds, status>>

RegisterPanel ==
  /\ Goto("register", "start")
  /\ unit' = TRUE
  /\ UNCHANGED <<tree, version, venvs, link, config, db, scratch, service,
                 shell, history, bounds, status>>

(* systemctl enable --now: nothing to do for a panel that already runs. *)
StartPanel ==
  /\ Goto("start", "verify")
  /\ Startable
  /\ enabled' = TRUE
  /\ panel' = "active"
  /\ loaded' = IF panel = "active" THEN loaded ELSE tree[App]
  /\ UNCHANGED <<disk, scratch, shell, history, bounds, status>>

(* The panel dies at once; Restart=always keeps trying. *)
StartFails ==
  /\ Goto("start", "undoRuntime")
  /\ enabled' = TRUE
  /\ panel # "active"
  /\ panel' = "restarting"
  /\ failedAt' = pc
  /\ UNCHANGED <<disk, scratch, loaded, shell, snap, runtimeBefore, bounds,
                 status>>

(* The readiness probe, the first backup and hostpanel-doctor accept the   *)
(* running panel.                                                          *)
Verify ==
  /\ Goto("verify", "agent")
  /\ panel = "active"
  /\ UNCHANGED <<disk, scratch, service, shell, history, bounds, status>>

InstallAgent ==
  /\ Goto("agent", "drop")
  /\ UNCHANGED <<disk, scratch, service, shell, history, bounds, status>>

(* The backups go in the order of TREE_ROLLBACK_BACKUPS, *)
DropTree ==
  /\ pc = "drop"
  /\ \E t \in recorded :
       /\ aside[t] # {}
       /\ \A s \in recorded : s < t => aside[s] = {}
       /\ aside' = [aside EXCEPT ![t] = {}]
  /\ UNCHANGED <<disk, oldRuntime, service, shell, history, bounds, status,
                 pc>>

(* and then the runtime that stood in the way. *)
DropRuntime ==
  /\ Goto("drop", "clearTrees")
  /\ \A t \in recorded : aside[t] = {}
  /\ oldRuntime' = FALSE
  /\ UNCHANGED <<disk, aside, service, shell, history, bounds, status>>

ClearTrees ==
  /\ Goto("clearTrees", "clearRuntime")
  /\ recorded' = {}
  /\ UNCHANGED <<disk, scratch, service, reinstall, target, at, wasActive,
                 previousLink, replaced, history, bounds, status>>

ClearRuntime ==
  /\ Goto("clearRuntime", "commit")
  /\ replaced' = FALSE
  /\ UNCHANGED <<disk, scratch, service, reinstall, target, at, recorded,
                 wasActive, previousLink, history, bounds, status>>

(* INSTALL_COMPLETED=yes and install-state; the trap is still armed. *)
Commit ==
  /\ Goto("commit", "banner")
  /\ status' = "complete"
  /\ UNCHANGED <<disk, scratch, service, shell, history, bounds>>

(* The banner is printed and the script ends with status 0: installer_exit *)
(* says complete once more.                                                *)
Finish ==
  /\ pc = "banner"
  /\ status' = "complete"
  /\ EndRun
  /\ UNCHANGED <<disk, service, history, bounds>>

-----------------------------------------------------------------------------
(* installer_exit *)

(* Mutant: the trap believes exit status 0, which bash also gives it for a *)
(* TERM, and does not look at INSTALL_COMPLETED.                           *)
TrustExitStatus ==
  /\ pc \in Forward
  /\ status' = "complete" /\ failedAt' = pc
  /\ EndRun
  /\ UNCHANGED <<disk, service, snap, runtimeBefore, bounds>>

(* Mutant: install-state says failed before anything is rolled back. *)
FailedFirst ==
  /\ pc \in Forward
  /\ pc' = "undoRuntime" /\ status' = "failed"
  /\ failedAt' = pc
  /\ UNCHANGED <<disk, scratch, service, shell, snap, runtimeBefore, bounds>>

(* die, a command that fails under set -e, or a signal, at any stage: the  *)
(* trap finds an exit status other than 0, or INSTALL_COMPLETED still no.  *)
Abort ==
  /\ pc \in Forward
  /\ pc' = "undoRuntime"
  /\ failedAt' = pc
  /\ UNCHANGED <<disk, scratch, service, shell, snap, runtimeBefore, bounds,
                 status>>

UndoRuntime ==
  /\ Goto("undoRuntime", "undoTrees")
  /\ venvs' = IF replaced /\ ~oldRuntime THEN venvs \ {target} ELSE venvs
  /\ link' = CASE ~replaced -> link
               [] replaced /\ oldRuntime -> target
               [] OTHER -> previousLink
  /\ oldRuntime' = (oldRuntime /\ ~replaced)
  /\ UNCHANGED <<tree, version, config, unit, db, aside, service, shell,
                 history, bounds, status>>

(* Mutant: the archive alone restores the trees. *)
SkipUndoTrees ==
  /\ Goto("undoTrees", "restore")
  /\ UNCHANGED <<disk, scratch, service, shell, history, bounds, status>>

UndoTrees ==
  /\ Goto("undoTrees", "restore")
  /\ tree' = [t \in Trees |-> IF t \in recorded THEN aside[t] ELSE tree[t]]
  /\ aside' = [t \in Trees |-> IF t \in recorded THEN {} ELSE aside[t]]
  /\ UNCHANGED <<version, venvs, link, config, unit, db, oldRuntime, service,
                 shell, history, bounds, status>>

(* Mutant: as install.base.sh has it, only a reinstall restores. *)
RestoreReinstallOnly ==
  /\ Goto("restore", "restoreEtc")
  /\ IF reinstall
     THEN /\ tree' = [t \in Trees |-> IF snap.tree[t] = {} THEN {}
                                      ELSE tree[t] \cup snap.tree[t]]
          /\ version' = snap.version /\ config' = snap.config
          /\ db' = snap.db
     ELSE UNCHANGED <<tree, version, config, db>>
  /\ UNCHANGED <<venvs, link, unit, scratch, service, shell, history, bounds,
                 status>>

(* Paths absent before the run are removed, then the archive is extracted  *)
(* over what is there: first what is under /opt/hostpanel,                 *)
RestoreSnapshot ==
  /\ Goto("restore", "restoreEtc")
  /\ tree' = [t \in Trees |-> IF snap.tree[t] = {} THEN {}
                              ELSE tree[t] \cup snap.tree[t]]
  /\ version' = snap.version
  /\ config' = snap.config
  /\ db' = snap.db
  /\ UNCHANGED <<venvs, link, unit, scratch, service, shell, history, bounds,
                 status>>

(* then /etc/hostpanel, with the install-state the snapshot found there,   *)
(* and the unit.                                                           *)
RestoreEtc ==
  /\ Goto("restoreEtc", "mark")
  /\ status' = "in-progress"
  /\ unit' = snap.unit
  /\ UNCHANGED <<tree, version, venvs, link, config, db, scratch, service,
                 shell, history, bounds>>

MarkFailed ==
  /\ Goto("mark", "restart")
  /\ status' = "failed"
  /\ UNCHANGED <<disk, scratch, service, shell, history, bounds>>

(* Mutant: a failed run leaves the panel stopped. *)
LeavePanelStopped ==
  /\ pc = "restart"
  /\ EndRun
  /\ UNCHANGED <<disk, service, history, bounds, status>>

(* The panel is started again when this run stopped it and it is not       *)
(* active now; a panel this run started keeps running.                     *)
RestartPanel ==
  /\ pc = "restart"
  /\ LET starts == reinstall /\ wasActive /\ panel # "active"
     IN  /\ panel' = IF ~starts THEN panel
                     ELSE IF Startable THEN "active"
                     ELSE IF unit THEN "restarting" ELSE "stopped"
         /\ loaded' = IF starts /\ Startable THEN tree[App] ELSE loaded
  /\ EndRun
  /\ UNCHANGED <<disk, enabled, history, bounds, status>>

-----------------------------------------------------------------------------
(* What the run does not control *)

(* SIGKILL; or, while installer_exit runs, a signal or a command of it     *)
(* that fails under set -e: its trap is no longer there.                   *)
Kill ==
  /\ pc # "idle" /\ kills < MaxKills
  /\ kills' = kills + 1
  /\ EndRun
  /\ UNCHANGED <<disk, service, history, runs, reboots, panelCrashes, status>>

PowerLoss ==
  /\ reboots < MaxReboots
  /\ reboots' = reboots + 1
  /\ EndRun
  /\ panel' = IF enabled /\ unit THEN "restarting" ELSE "stopped"
  /\ loaded' = {}
  /\ UNCHANGED <<disk, enabled, history, runs, kills, panelCrashes, status>>

(* Restart=always, RestartSec=3 *)
AutoRestart ==
  /\ panel = "restarting" /\ Startable
  /\ panel' = "active" /\ loaded' = tree[App]
  /\ UNCHANGED <<disk, scratch, enabled, shell, history, bounds, status, pc>>

PanelCrash ==
  /\ panel = "active" /\ panelCrashes < MaxPanelCrashes
  /\ panelCrashes' = panelCrashes + 1
  /\ panel' = "restarting" /\ loaded' = {}
  /\ UNCHANGED <<disk, scratch, enabled, shell, history, runs, kills, reboots,
                 status, pc>>

PanelWrite ==
  /\ panel = "active" /\ db < MaxWrites
  /\ db' = db + 1
  /\ UNCHANGED <<tree, version, venvs, link, config, unit, scratch, service,
                 shell, history, bounds, status, pc>>

RunStep ==
  \/ StopPanel \/ MoveAside \/ PlaceTree \/ RecordTree \/ WriteVersion
  \/ BuildRuntime \/ PlaceRuntime \/ MarkRuntime \/ LinkRuntime
  \/ WriteConfig \/ RegisterPanel \/ StartPanel \/ StartFails
  \/ Verify \/ InstallAgent \/ DropTree \/ DropRuntime \/ ClearTrees
  \/ ClearRuntime \/ Commit \/ Finish
  \/ Abort \/ UndoRuntime \/ UndoTrees \/ RestoreSnapshot \/ RestoreEtc
  \/ MarkFailed \/ RestartPanel

Next ==
  \/ \E r \in Releases, again \in BOOLEAN : Begin(r, again)
  \/ RunStep
  \/ Kill \/ PowerLoss \/ AutoRestart \/ PanelCrash \/ PanelWrite

Spec == Init /\ [][Next]_vars

(* The installer is one sequential script whose commands end, and systemd  *)
(* restarts the panel: both keep going.  Nothing makes a run begin.        *)
FairSpec == Spec /\ WF_vars(RunStep) /\ WF_vars(AutoRestart)
=============================================================================
