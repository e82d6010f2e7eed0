---------------------------- MODULE UpdateAgent ----------------------------
(***************************************************************************)
(* tools/hostpanel-update.py on one server, with what it works on: the     *)
(* GitHub releases of the repository, the signing keys and their windows,  *)
(* the timer that starts it, an operator who may start it or the installer *)
(* by hand, and the installer run that replaces the updater itself.        *)
(*                                                                         *)
(* Simplifications.  A version is a natural number (SemVer has the order). *)
(* A document GitHub serves is the one of some release, or a corrupt one;  *)
(* what a signature shows is whose release a document is.  The installer   *)
(* is the transaction of InstallTransaction, reduced to the stages that    *)
(* replace what the updater reads; a failed run restores all of it in one  *)
(* step, which is what FailedRestoresFiles shows there.                    *)
(***************************************************************************)
EXTENDS Naturals, FiniteSets

CONSTANTS
  Last,       \* releases 1..Last may be published, in this order
  Release,    \* Release[v]: its signing key, its keyring, is it a prerelease
  Corrupt,    \* an unsigned or damaged document
  Channels,   \* what HP_UPDATE_CHANNEL may say
  AutoUpdate, \* HP_AUTO_UPDATE
  MaxFaults,  \* bound: wrong documents served
  MaxFails,   \* bound: failed installer runs
  MaxKills,   \* bound: SIGKILLs and power losses
  MaxManual,  \* bound: updaters the operator starts by hand
  MaxInstalls \* bound: installers the operator starts by hand

Versions == 1..Last
Keys     == UNION {{Release[v].key} \cup {w.key : w \in Release[v].ring} :
                     v \in Versions}
Windows  == [key: Keys, from: Nat, until: Nat]

ASSUME LastAssumption == Last \in Nat \ {0}
ASSUME ReleaseAssumption ==
  Release \in [Versions -> [key: Keys, ring: SUBSET Windows, pre: BOOLEAN]]
ASSUME ConfigAssumption ==
  /\ Channels \subseteq {"stable", "beta"} /\ AutoUpdate \in BOOLEAN
  /\ Corrupt \notin Versions

VARIABLES
  (* GitHub *)
  published,   \* the newest published release
  (* the server's disk *)
  version,     \* /opt/hostpanel/VERSION
  pub,         \* /etc/hostpanel/update.pub
  ring,        \* /etc/hostpanel/update-keyring.json
  agent,       \* does /opt/hostpanel/tools/hostpanel-update exist?
  channel,     \* HP_UPDATE_CHANNEL
  token,       \* a GitHub token is there, or none is required
  status,      \* /var/lib/hostpanel/update-status.json
  (* the updater; it holds the update lock unless it is idle *)
  upc, mode,
  seen,        \* the installed version it read
  trust,       \* the keyring it read
  pick,        \* the manifest it resolved
  result,      \* exit status of the installer it started
  (* the installer; it holds the install lock unless it is idle *)
  ipc, target,
  starter,     \* "updater" while one waits for it
  kept,        \* the safety snapshot
  (* bounds *)
  faults, fails, kills, manual, installs

disk      == <<version, pub, ring, agent>>
updater   == <<upc, mode, seen, trust, pick>>
installer == <<ipc, target, starter, kept>>
bounds    == <<faults, fails, kills, manual, installs>>
host      == <<channel, token>>
vars      == <<published, disk, host, status, updater, result, installer,
               bounds>>

Modes  == {"auto", "apply", "check", "dry-run"}
Stages == {"tools", "version", "pub", "updater", "ring", "commit"}
Trusted == SUBSET Windows
Kept == [version: Versions, pub: Keys, ring: Trusted, agent: BOOLEAN]

TypeOK ==
  /\ published \in Versions
  /\ version \in Versions /\ pub \in Keys /\ ring \in Trusted
  /\ agent \in BOOLEAN /\ channel \in Channels /\ token \in BOOLEAN
  /\ status \in [state: {"waiting", "current", "available", "updated", "error"},
                 installed: {0} \cup Versions]
  /\ upc \in {"idle", "read", "resolve", "download", "apply", "wait"}
  /\ mode \in Modes /\ seen \in Versions /\ trust \in Trusted
  /\ pick \in Versions /\ result \in {"none", "zero", "nonzero"}
  /\ ipc \in {"idle"} \cup Stages /\ target \in Versions
  /\ starter \in {"updater", "operator"} /\ kept \in Kept
  /\ faults \in Nat /\ fails \in Nat /\ kills \in Nat
  /\ manual \in Nat /\ installs \in Nat

Disk == [version |-> version, pub |-> pub, ring |-> ring, agent |-> agent]

Init ==
  /\ published = 1 /\ version = 1
  /\ pub = Release[1].key /\ ring = Release[1].ring
  /\ agent = TRUE /\ channel \in Channels /\ token \in BOOLEAN
  /\ status = [state |-> "current", installed |-> 1]
  /\ upc = "idle" /\ mode = "auto" /\ seen = 1 /\ trust = ring /\ pick = 1
  /\ result = "none"
  /\ ipc = "idle" /\ target = 1 /\ starter = "operator" /\ kept = Disk
  /\ faults = 0 /\ fails = 0 /\ kills = 0 /\ manual = 0
  /\ installs = 0

-----------------------------------------------------------------------------
(* Keys and releases *)

(* TrustedKey.accepts *)
Accepts(w, v) == w.from <= v /\ v <= w.until

(* verify_with_keyring: a key that is active for v signed the manifest. *)
Verifies(keys, v) == \E w \in keys : w.key = Release[v].key /\ Accepts(w, v)

(* What the publisher keeps to in a rotation (UPDATES.md:75-83): a release *)
(* has its own key in its keyring; while the signing key stays, no key     *)
(* that an installed keyring relies on is retired; and a key, once         *)
(* announced, stays in the keyrings until it signs.                        *)
Orderly ==
  \A v \in Versions :
    /\ \E w \in Release[v].ring : w.key = Release[v].key
    /\ \A x \in 1..(v - 1) :
         IF Release[v].key = Release[v - 1].key
         THEN x = v - 1 \/ Verifies(Release[x].ring, v - 1)
                => Verifies(Release[x].ring, v)
         ELSE \A y \in 1..x :
                Verifies(Release[y].ring, v) => Verifies(Release[x].ring, v)

ASSUME RotationAssumption == Orderly

(* Stable asks for the latest final release, beta for the prereleases. *)
Candidates ==
  LET finals == {v \in 1..published : ~Release[v].pre}
  IN  IF channel = "stable"
      THEN {v \in finals : \A w \in finals : w <= v}
      ELSE {v \in 1..published : Release[v].pre}

OnChannel(v) == Release[v].pre = (channel = "beta")

(* ReleaseManifest.from_bytes: shape, names, and a channel that fits the   *)
(* version.                                                                *)
WellFormed(doc) == doc # Corrupt

(* Mutant: whatever tag the manifest names. *)
AnyTag(v, doc) == WellFormed(doc) /\ OnChannel(doc) /\ Verifies(trust, doc)

(* The manifest that came for the release tagged v is accepted. *)
Resolves(v, doc) ==
  /\ WellFormed(doc)
  /\ OnChannel(doc)
  /\ Verifies(trust, doc)
  /\ doc = v

-----------------------------------------------------------------------------
(* The updater *)

Finish(state, installed) ==
  /\ upc' = "idle"
  /\ status' = [state |-> state, installed |-> installed]

(* Mutant: a state the status file does not have. *)
RecordFailed == Finish("failed", 0)

UpdateError == Finish("error", 0)

(* The lock is taken; the unit's conditions hold, or the operator has a    *)
(* program to run.                                                         *)
Start(m) ==
  /\ upc = "idle" /\ agent
  /\ upc' = "read" /\ mode' = m
  /\ UNCHANGED <<published, disk, host, status, seen, trust, pick, result,
                 installer>>

(* hostpanel-update.service: --apply --auto *)
TimerFires == Start("auto") /\ UNCHANGED bounds

RunByHand ==
  /\ manual < MaxManual /\ manual' = manual + 1
  /\ \E m \in Modes \ {"auto"} : Start(m)
  /\ UNCHANGED <<faults, fails, kills, installs>>

(* load_keyring, and update.pub is one of its keys. *)
KeyringUsable == \E w \in ring : w.key = pub

ReadHost ==
  /\ upc = "read"
  /\ IF ~token
     THEN Finish("waiting", version) /\ UNCHANGED <<seen, trust>>
     ELSE /\ seen' = version /\ trust' = ring
          /\ IF KeyringUsable
             THEN upc' = "resolve" /\ UNCHANGED status
             ELSE UpdateError
  /\ UNCHANGED <<published, disk, host, mode, pick, result, installer, bounds>>

(* What came for each candidate: its own manifest, or one wrong document.  *)
Documents ==
  {d \in [Candidates -> Versions \cup {Corrupt}] :
     Cardinality({v \in Candidates : d[v] # v}) <= 1}

(* Mutant: the head of the sorted list. *)
Oldest(s) == CHOOSE v \in s : \A w \in s : v <= w

Newest(s) == CHOOSE v \in s : \A w \in s : w <= v

Declines(m) == m = "check" \/ (m = "auto" /\ ~AutoUpdate)

(* Mutant: the same release again. *)
NotOlder(v) == seen <= v

Newer(v) == seen < v

Resolve ==
  /\ upc = "resolve"
  /\ \E d \in Documents :
       LET wrong == {v \in Candidates : d[v] # v}
           valid == {d[v] : v \in {c \in Candidates : Resolves(c, d[c])}}
       IN  /\ faults + Cardinality(wrong) <= MaxFaults
           /\ faults' = faults + Cardinality(wrong)
           /\ IF valid = {}
              THEN UpdateError /\ UNCHANGED pick
              ELSE /\ pick' = Newest(valid)
                   /\ IF ~Newer(pick') THEN Finish("current", seen)
                      ELSE
                        /\ status' = [state |-> "available", installed |-> seen]
                        /\ upc' = IF Declines(mode) THEN "idle" ELSE "download"
  /\ UNCHANGED <<published, disk, host, mode, seen, trust, result, installer,
                 fails, kills, manual, installs>>

(* The archive has the SHA-256, the signature, the members and the VERSION *)
(* the manifest calls for.                                                 *)
Intact(archive) == archive = pick

Download ==
  /\ upc = "download"
  /\ \E archive \in Versions \cup {Corrupt} :
       /\ ~Intact(archive) => faults < MaxFaults
       /\ faults' = IF Intact(archive) THEN faults ELSE faults + 1
       /\ IF ~Intact(archive) THEN UpdateError
          ELSE /\ upc' = IF mode = "dry-run" THEN "idle" ELSE "apply"
               /\ UNCHANGED status
  /\ UNCHANGED <<published, disk, host, mode, seen, trust, pick, result,
                 installer, fails, kills, manual, installs>>

(* The installer's beginning, whoever starts it: its lock is free. *)
BeginInstall(v, who) ==
  /\ ipc = "idle" /\ ipc' = "tools"
  /\ target' = v /\ starter' = who
  /\ kept' = Disk

(* bash install.sh --reinstall, in the extracted archive; another run's    *)
(* lock makes it fail.                                                     *)
Apply ==
  /\ upc = "apply" /\ upc' = "wait"
  /\ IF ipc = "idle"
     THEN BeginInstall(pick, "updater") /\ result' = "none"
     ELSE result' = "nonzero" /\ UNCHANGED installer
  /\ UNCHANGED <<published, disk, host, status, mode,
                 seen, trust, pick, bounds>>

Recheck ==
  /\ upc = "wait" /\ result # "none"
  /\ IF result = "zero" /\ version = pick THEN Finish("updated", pick)
     ELSE UpdateError
  /\ UNCHANGED <<published, disk, host, mode, seen, trust, pick, result,
                 installer, bounds>>

-----------------------------------------------------------------------------
(* The installer run *)

OperatorInstalls(v) ==
  /\ installs < MaxInstalls /\ installs' = installs + 1
  /\ v <= published
  /\ BeginInstall(v, "operator")
  /\ UNCHANGED <<published, disk, host, status, updater,
                 result, faults, fails, kills, manual>>

Stage(from, to) == ipc = from /\ ipc' = to

(* sync_release_tree of the tools: the tree of an archive has no           *)
(* hostpanel-update in it.                                                 *)
ReplaceTools ==
  /\ Stage("tools", "version") /\ agent' = FALSE
  /\ UNCHANGED <<published, version, pub, ring, host, status,
                 updater, result, target, starter, kept, bounds>>

WriteVersion ==
  /\ Stage("version", "pub") /\ version' = target
  /\ UNCHANGED <<published, pub, ring, agent, host, status,
                 updater, result, target, starter, kept, bounds>>

(* The release's own key, releases/update.pub. *)
InstallPub ==
  /\ Stage("pub", "updater") /\ pub' = Release[target].key
  /\ UNCHANGED <<published, version, ring, agent, host, status,
                 updater, result, target, starter, kept, bounds>>

(* install-update-agent.sh: first the program, at the end the keyring. *)
InstallUpdater ==
  /\ Stage("updater", "ring") /\ agent' = TRUE
  /\ UNCHANGED <<published, version, pub, ring, host, status,
                 updater, result, target, starter, kept, bounds>>

(* Mutant: an existing keyring stays, like an existing configuration. *)
KeepKeyring ==
  /\ Stage("ring", "commit")
  /\ UNCHANGED <<published, disk, host, status, updater, result, target,
                 starter, kept, bounds>>

InstallKeyring ==
  /\ Stage("ring", "commit") /\ ring' = Release[target].ring
  /\ UNCHANGED <<published, version, pub, agent, host, status,
                 updater, result, target, starter, kept, bounds>>

(* The parent of a run sees its exit status. *)
Report(code) == result' = IF starter = "updater" THEN code ELSE result

CommitInstall ==
  /\ Stage("commit", "idle")
  /\ Report("zero")
  /\ UNCHANGED <<published, disk, host, status, updater,
                 target, starter, kept, bounds>>

(* Mutant: the snapshot without the keyring. *)
KeepNewKeyring ==
  /\ ipc' = "idle"
  /\ version' = kept.version /\ pub' = kept.pub /\ agent' = kept.agent
  /\ UNCHANGED ring

(* installer_exit brings the snapshot back, the trusted keyring with it. *)
UndoInstall ==
  /\ ipc' = "idle"
  /\ version' = kept.version /\ pub' = kept.pub
  /\ ring' = kept.ring /\ agent' = kept.agent

FailInstall ==
  /\ ipc # "idle" /\ fails < MaxFails /\ fails' = fails + 1
  /\ UndoInstall
  /\ Report("nonzero")
  /\ UNCHANGED <<published, host, status, updater, target, starter, kept,
                 faults, kills, manual, installs>>

-----------------------------------------------------------------------------
(* The world *)

(* What the publisher knows of the server is its update status.  A new     *)
(* signing key is used when the keyring that admits it is installed.       *)
Publish ==
  /\ published < Last
  /\ LET v == published + 1
     IN  Release[v].key # Release[published].key =>
           /\ status.state \in {"current", "updated"}
           /\ Verifies(Release[status.installed].ring, v)
  /\ published' = published + 1
  /\ UNCHANGED <<disk, host, status, updater, result, installer, bounds>>

ConfigureToken ==
  /\ ~token /\ token' = TRUE
  /\ UNCHANGED <<channel, published, disk, status, updater, result, installer,
                 bounds>>

KillStep ==
  /\ kills < MaxKills /\ kills' = kills + 1
  /\ UNCHANGED <<published, host, status, mode, seen, trust, pick, target, kept,
                 faults, fails, manual, installs>>

(* SIGKILL of the installer alone: the updater sees a non-zero status. *)
KillInstall ==
  /\ KillStep
  /\ ipc # "idle" /\ ipc' = "idle"
  /\ Report("nonzero")
  /\ UNCHANGED <<disk, upc, starter>>

(* The updater dies, at TimeoutStartSec at the latest.  Its unit takes the *)
(* installer with it, by SIGTERM first; one started by hand leaves it      *)
(* running.                                                                *)
KillUpdater ==
  /\ KillStep
  /\ upc # "idle" /\ upc' = "idle"
  /\ starter' = "operator"
  /\ IF mode = "auto" /\ starter = "updater" /\ ipc # "idle"
     THEN \/ UndoInstall
          \/ ipc' = "idle" /\ UNCHANGED disk
     ELSE UNCHANGED <<ipc, disk>>
  /\ UNCHANGED result

PowerLoss ==
  /\ KillStep
  /\ upc' = "idle" /\ ipc' = "idle" /\ starter' = "operator"
  /\ UNCHANGED <<disk, result>>

UpdaterStep == ReadHost \/ Resolve \/ Download \/ Apply \/ Recheck

InstallerStep ==
  \/ ReplaceTools \/ WriteVersion \/ InstallPub \/ InstallUpdater
  \/ InstallKeyring \/ CommitInstall

Next ==
  \/ TimerFires \/ RunByHand \/ UpdaterStep
  \/ \E v \in Versions : OperatorInstalls(v)
  \/ InstallerStep \/ FailInstall
  \/ Publish \/ ConfigureToken \/ KillInstall \/ KillUpdater \/ PowerLoss

Spec == Init /\ [][Next]_vars

(* The timer keeps firing, the two programs keep running. *)
FairSpec ==
  Spec /\ WF_vars(TimerFires) /\ WF_vars(UpdaterStep) /\ WF_vars(InstallerStep)

-----------------------------------------------------------------------------
(* What an updater has installed is a release of the configured channel,   *)
(* newer than what the server had, signed by a key that was active for it  *)
(* in the server's keyring when the installer began: what it resolved and  *)
(* read minutes before is still true of the disk it then replaces, unless  *)
(* another installer than its own ran (hostpanel-update.py:890-910).       *)
InstallsTrusted ==
  ipc # "idle" /\ starter = "updater" /\ installs = 0 /\ kills = 0 =>
    OnChannel(target) /\ Verifies(kept.ring, target) /\ kept.version < target

(* "apply a newer signed release" (hostpanel-update.py:1039): an updater   *)
(* does not install what is older than what is there, whatever document    *)
(* was replayed, killed or lost on the way.  It does not look again after  *)
(* another installer, an operator's or that of an updater that was killed  *)
(* (behind which a prerelease older than the newest may be chosen): such   *)
(* races are left out.                                                     *)
UpdaterUpgrades ==
  /\ ipc # "idle" /\ starter = "updater"
  /\ installs = 0 /\ (channel = "stable" \/ kills = 0)
  => kept.version <= target

(* A server on which no installer runs has all of one release: VERSION,    *)
(* the updater, its public key and "the complete bounded keyring           *)
(* atomically with the updater" (UPDATES.md:85), while nothing was killed: *)
(* also after every run that failed, by whoever it was started, while the  *)
(* other one was between any two steps (installer_exit,                    *)
(* install.base.sh:132).                                                   *)
FailedKeepsWhole ==
  kills = 0 /\ ipc = "idle" =>
    agent /\ pub = Release[version].key /\ ring = Release[version].ring

(* Between runs the server can always verify what the publisher has        *)
(* released, through every rotation of the signing key (UPDATES.md:73-83), *)
(* and its own public key is in its keyring, so that the updater starts.   *)
NeverStranded ==
  ipc = "idle" =>
    /\ KeyringUsable
    /\ \A v \in Candidates : version < v => Verifies(ring, v)

(* With automatic updates and a token the server ends up on the newest     *)
(* release of its channel, through wrong documents and failed runs.        *)
UpToDate == \A v \in Candidates : v <= version

Converges == <>[]token => <>[]UpToDate
=============================================================================
