------------------------- MODULE InstallRefinement -------------------------
(***************************************************************************)
(* The properties of InstallTransaction, and the abstract specification    *)
(* AtomicRelease it implements.                                            *)
(***************************************************************************)
EXTENDS InstallTransaction

CONSTANT Torn   \* a mixture of releases

ASSUME TornAssumption == Torn \notin Releases \cup {None}

Between == pc = "idle" \/ pc = "restart"

(* Where a run is: it has a release to install, the trees below "at" are   *)
(* done, and past the trees all of them are.                               *)
RunPoint ==
  /\ pc # "idle" => target \in Releases
  /\ pc \in {"idle", "stop"} => at = 1
  /\ pc \in {"sync", "place", "record"} => at \in Trees
  /\ pc \in Forward \ {"stop", "sync", "place", "record"} => at = TreeCount + 1

(* Where a run that breaks off leaves a mixture of trees: between the move *)
(* of a tree and its note in the rollback arrays, and after those arrays   *)
(* are empty, where the archive alone is extracted over the new trees.     *)
LooseAt == {"record", "clearRuntime", "commit", "banner"}

(* Where it may leave no runtime behind the link: the old runtime is aside *)
(* and not noted, or noted and already removed.                            *)
NoRuntimeAt == {"placeRuntime", "clearTrees", "clearRuntime"}

(* Install-state "complete" is only ever seen over one whole release: its  *)
(* trees, VERSION, runtime, runtime link, configuration and unit, whatever *)
(* failed, was killed, interrupted or rolled back before, with one         *)
(* exception: a run whose banner fails or is interrupted after it has said *)
(* complete (install.base.sh:2720-2760) is rolled back under that word     *)
(* until the archive brings the old install-state back, and a kill there   *)
(* leaves it.                                                              *)
CompleteIsWhole ==
  status = "complete" /\ failedAt # "banner" =>
    /\ version \in Releases
    /\ \A t \in Ships[version] : tree[t] = {version}
    /\ link = version /\ version \in venvs
    /\ config /\ unit

(* What a run that goes forward has replaced so far.  With RunPoint this   *)
(* is the inductive strengthening of CompleteIsWhole.                      *)
TreesDone   == Forward \ {"stop", "sync", "place", "record"}
VersionDone == TreesDone \ {"version"}
RuntimeDone == VersionDone \ {"runtime", "placeRuntime"}
LinkDone    == RuntimeDone \ {"markRuntime", "link"}
ConfigDone  == LinkDone \ {"config"}
UnitDone    == ConfigDone \ {"register"}

Replaced ==
  /\ pc \in Forward => \A t \in Ships[target] : t < at => tree[t] = {target}
  /\ pc = "record" /\ at \in Ships[target] => tree[at] = {target}
  /\ pc \in VersionDone => version = target
  /\ pc \in RuntimeDone => target \in venvs
  /\ pc \in LinkDone => link = target
  /\ pc \in ConfigDone => config
  /\ pc \in UnitDone => unit
  /\ status = "complete" =>
       pc \in {"idle", "banner"} \/ failedAt = "banner"
  /\ pc \in Forward => failedAt = "none"
  /\ pc = "banner" => status = "complete"

CompleteInv == RunPoint /\ Replaced /\ CompleteIsWhole

(* A run that failed, at a command or by a signal, restores every managed  *)
(* path exactly: the trees, VERSION, config.env and the unit are those of  *)
(* the safety snapshot, and the runtime link resolves if it did before, so *)
(* the panel can be started again (installer_exit,                         *)
(* install.base.sh:132-166).  The exceptions are the stages LooseAt for    *)
(* the trees and NoRuntimeAt for the runtime, and no other.                *)
FailedRestoresFiles ==
  status = "failed" /\ Between =>
    /\ version = snap.version /\ config = snap.config /\ unit = snap.unit
    /\ failedAt \notin LooseAt => tree = snap.tree
    /\ failedAt \notin NoRuntimeAt /\ runtimeBefore.built => link \in venvs

(* A run that failed at any stage, LooseAt included, has lost no file of   *)
(* the previous release: the archive brings back what the rollback arrays  *)
(* do not know of yet, or no longer.                                       *)
FailedLosesNothing ==
  status = "failed" /\ Between =>
    /\ \A t \in Trees : snap.tree[t] \subseteq tree[t]
    /\ version = snap.version /\ config = snap.config /\ unit = snap.unit

(* Until the backups are dropped, the files a run replaced are still on    *)
(* disk outside the archive: in place or moved aside by this run.          *)
PreviousTreeKept ==
  pc \in Forward \ {"drop", "clearTrees", "clearRuntime", "commit",
                    "banner"} =>
    \A t \in Trees : snap.tree[t] \subseteq tree[t] \cup aside[t]

(* A panel the run stopped is running again in the end, whether the run    *)
(* completes, fails at a command or is interrupted, if the disk it was     *)
(* stopped on could start it (installer_exit, install.base.sh:161).  Two   *)
(* things leave it stopped: a SIGKILL or a power loss inside a run, and a  *)
(* run broken off at NoRuntimeAt, where a HUP, INT or TERM between the two *)
(* moves of a runtime of the same release (install.base.sh:1234-1237) is   *)
(* enough.                                                                 *)
PanelComesBack ==
  (wasActive /\ snap.unit /\ snap.tree[App] # {} /\ runtimeBefore.built)
    ~> (panel = "active" \/ kills + reboots > 0 \/ failedAt \in NoRuntimeAt)

-----------------------------------------------------------------------------
(* The refinement: between two runs, and once a run has said complete, the *)
(* installed release is what the disk holds; during a run it is still what *)
(* the run found.  Trees VERSION does not speak of are not looked at.      *)

ReleaseOf(trees, v) ==
  IF v = None /\ trees = NoFiles THEN None
  ELSE IF v \in Releases /\ \A t \in Ships[v] : trees[t] = {v} THEN v
  ELSE Torn

Said == Between \/ pc = "banner" \/ failedAt = "banner"

Atomic == INSTANCE AtomicRelease WITH
  installed <- IF Said THEN ReleaseOf(tree, version)
               ELSE ReleaseOf(snap.tree, snap.version),
  status    <- status,
  loose     <- failedAt \in LooseAt

(* Every run is atomic to a reader who looks between two runs, unless it   *)
(* broke off at LooseAt; a run killed before the trap has ended says so.   *)
ImplementsAtomicRelease == Atomic!Spec
=============================================================================
