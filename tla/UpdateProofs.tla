---------------------------- MODULE UpdateProofs ----------------------------
(***************************************************************************)
(* What holds of the updater and the installer it starts for any releases, *)
(* keys, windows and rotations, and any number of wrong documents, failed  *)
(* runs, kills and programs started by hand.                               *)
(***************************************************************************)
EXTENDS UpdateAgent, FiniteSetTheorems, WellFoundedInduction, TLAPS

(* The newest of some releases is one of them: a set of numbers up to Last *)
(* has a last element, the one whose distance to Last is the least.        *)
LEMMA NewestIn ==
  ASSUME NEW s \in SUBSET Versions, s # {}
  PROVE  Newest(s) \in s
PROOF
<1> DEFINE far == {Last - v : v \in s}
<1>1. far \subseteq Nat /\ far # {}
  <2>1. \A v \in s : Last - v \in Nat
    BY LastAssumption DEF Versions
  <2> QED BY <2>1
<1> HIDE DEF far
<1> DEFINE less == OpToRel(<, Nat)
<1>a. IsWellFoundedOn(less, Nat)
  BY NatLessThanWellFounded, Zenon
<1>b. \A x, y \in Nat : x < y => <<x, y>> \in less
  BY Zenon DEF OpToRel
<1> HIDE DEF less
<1>2. PICK m \in far : \A k \in far : ~ (<<k, m>> \in less)
  BY <1>1, <1>a, WFMin
<1>3. \A k \in far : m <= k
  <2> TAKE k \in far
  <2>1. ~ (k < m)
    BY <1>1, <1>2, <1>b
  <2> QED BY <1>1, <2>1
<1>4. PICK v \in s : m = Last - v
  BY DEF far
<1>5. \A w \in s : w <= v
  <2> TAKE w \in s
  <2>1. m <= Last - w
    BY <1>3 DEF far
  <2> QED BY <1>4, <2>1, LastAssumption DEF Versions
<1> QED BY <1>5 DEF Newest

(* A list of candidates is a set of releases, and so finite.               *)
LEMMA CandidatesIn ==
  ASSUME TypeOK
  PROVE  Candidates \subseteq 1..published /\ 1..published \subseteq Versions
PROOF BY LastAssumption DEF Candidates, TypeOK, Versions

LEMMA CountType ==
  ASSUME TypeOK, NEW d \in Documents
  PROVE  Cardinality({v \in Candidates : d[v] # v}) \in Nat
PROOF
<1>1. IsFiniteSet(1..published)
  BY FS_Interval DEF TypeOK, Versions
<1>2. {v \in Candidates : d[v] # v} \in SUBSET (1..published)
  BY CandidatesIn
<1> QED BY <1>1, <1>2, FS_Subset, FS_CardinalityType

LEMMA StartType == Init => TypeOK
PROOF
<1> SUFFICES ASSUME Init PROVE TypeOK
  OBVIOUS
<1>1. 1 \in Versions
  BY LastAssumption DEF Versions
<1>2. Release[1].key \in Keys /\ Release[1].ring \in Trusted
  BY <1>1, ReleaseAssumption DEF Trusted
<1> QED
  BY <1>1, <1>2 DEF Init, TypeOK, Disk, Kept, Modes

(* What a resolution leaves: nothing but its status, or a pick that was    *)
(* verified.                                                               *)
LEMMA Resolved ==
  ASSUME TypeOK, Resolve
  PROVE  /\ pick' \in Versions /\ faults' \in Nat
         /\ upc' \in {"idle", "download"}
         /\ status' \in [state: {"current", "available", "error"},
                         installed: {0} \cup Versions]
         /\ upc' = "download" =>
              /\ pick' \in Candidates /\ seen < pick'
              /\ OnChannel(pick') /\ Verifies(trust, pick')
PROOF
<1>1. PICK d \in Documents :
        LET wrong == {v \in Candidates : d[v] # v}
            valid == {d[v] : v \in {c \in Candidates : Resolves(c, d[c])}}
        IN  /\ faults + Cardinality(wrong) <= MaxFaults
            /\ faults' = faults + Cardinality(wrong)
            /\ IF valid = {}
               THEN UpdateError /\ UNCHANGED pick
               ELSE /\ pick' = Newest(valid)
                    /\ IF ~Newer(pick') THEN Finish("current", seen)
                       ELSE
                         /\ status' = [state |-> "available",
                                       installed |-> seen]
                         /\ upc' = IF Declines(mode) THEN "idle"
                                   ELSE "download"
  BY DEF Resolve
<1> DEFINE valid == {d[v] : v \in {c \in Candidates : Resolves(c, d[c])}}
<1>2. faults' \in Nat
  BY <1>1, CountType DEF TypeOK
<1>3. /\ valid \subseteq Candidates
      /\ \A v \in valid : OnChannel(v) /\ Verifies(trust, v)
  BY DEF Resolves
<1>4. valid \in SUBSET Versions
  BY <1>3, CandidatesIn
<1>5. CASE valid = {}
  BY <1>1, <1>2, <1>5 DEF UpdateError, Finish, TypeOK
<1>6. CASE valid # {}
  <2>1. pick' = Newest(valid) /\ Newest(valid) \in valid
    BY <1>1, <1>4, <1>6, NewestIn
  <2>2. pick' \in Versions /\ pick' \in Candidates
    BY <1>3, <1>4, <2>1
  <2>3. OnChannel(pick') /\ Verifies(trust, pick')
    BY <1>3, <2>1
  <2> HIDE DEF valid
  <2>4. IF ~Newer(pick') THEN Finish("current", seen)
        ELSE /\ status' = [state |-> "available", installed |-> seen]
             /\ upc' = IF Declines(mode) THEN "idle" ELSE "download"
    BY <1>1, <1>6 DEF valid
  <2> QED
    BY <1>2, <2>2, <2>3, <2>4 DEF Finish, Newer, TypeOK
<1> QED BY <1>5, <1>6

LEMMA TypeStep == TypeOK /\ [Next]_vars => TypeOK'
PROOF
<1> SUFFICES ASSUME TypeOK, [Next]_vars PROVE TypeOK'
  OBVIOUS
<1> USE DEF TypeOK
<1>1. \A v \in Versions : Release[v].key \in Keys /\ Release[v].ring \in Trusted
  BY ReleaseAssumption DEF Trusted
<1>2. Disk \in Kept
  BY DEF Disk, Kept
<1>3. CASE TimerFires \/ RunByHand
  BY <1>3 DEF TimerFires, RunByHand, Start, Modes, disk, host, installer,
     bounds
<1>4. CASE ReadHost
  BY <1>4 DEF ReadHost, Finish, UpdateError, disk, host, installer, bounds
<1>5. CASE Resolve
  BY <1>5, Resolved DEF Resolve, disk, host, installer
<1>6. CASE Download
  BY <1>6 DEF Download, Finish, UpdateError, disk, host, installer
<1>7. CASE Apply
  BY <1>2, <1>7 DEF Apply, BeginInstall, Stages, disk, host, installer, bounds
<1>8. CASE Recheck
  BY <1>8 DEF Recheck, Finish, UpdateError, disk, host, installer, bounds
<1>9. ASSUME NEW v \in Versions, OperatorInstalls(v) PROVE TypeOK'
  BY <1>2, <1>9 DEF OperatorInstalls, BeginInstall, Stages, disk, host, updater
<1>10. CASE ReplaceTools \/ WriteVersion \/ InstallPub \/ InstallUpdater
            \/ InstallKeyring \/ CommitInstall
  BY <1>1, <1>10 DEF ReplaceTools, WriteVersion, InstallPub, InstallUpdater,
     InstallKeyring, CommitInstall, Stage, Stages, Report, disk, host, updater,
     bounds
<1>11. CASE FailInstall
  BY <1>11 DEF FailInstall, UndoInstall, Report, Kept, host, updater
<1>12. CASE Publish
  <2>1. published' \in Versions
    BY <1>12, LastAssumption DEF Publish, Versions
  <2> QED BY <1>12, <2>1 DEF Publish, disk, host, updater, installer, bounds
<1>13. CASE ConfigureToken
  BY <1>13 DEF ConfigureToken, disk, updater, installer, bounds
<1>14. CASE KillInstall \/ KillUpdater \/ PowerLoss
  BY <1>14 DEF KillInstall, KillUpdater, PowerLoss, KillStep, UndoInstall,
     Report, Kept, disk, host
<1>15. CASE UNCHANGED vars
  BY <1>15 DEF vars, disk, host, updater, installer, bounds
<1> QED
  BY <1>3, <1>4, <1>5, <1>6, <1>7, <1>8, <1>9, <1>10, <1>11, <1>12, <1>13,
     <1>14, <1>15
     DEF Next, UpdaterStep, InstallerStep

(* TYPE: every variable keeps its type (UpdateAgent).                      *)
THEOREM TypeCorrect == Spec => []TypeOK
PROOF BY StartType, TypeStep, PTL DEF Spec

-----------------------------------------------------------------------------
(* While nothing is killed: the disk between installations has all of one  *)
(* release, and so has the snapshot of the one that runs; what has been    *)
(* replaced so far is its target's.                                        *)
WholeDisk(d) ==
  d.agent /\ d.pub = Release[d.version].key /\ d.ring = Release[d.version].ring

StagesDone ==
  /\ ipc \in {"pub", "updater", "ring", "commit"} => version = target
  /\ ipc \in {"updater", "ring", "commit"} => pub = Release[target].key
  /\ ipc \in {"ring", "commit"} => agent
  /\ ipc = "commit" => ring = Release[target].ring

WholeInv ==
  kills = 0 => /\ ipc = "idle" => WholeDisk(Disk)
               /\ ipc # "idle" => WholeDisk(kept) /\ StagesDone

LEMMA WholeStep == TypeOK /\ WholeInv /\ [Next]_vars => WholeInv'
PROOF
<1> SUFFICES ASSUME TypeOK, WholeInv, [Next]_vars, kills' = 0
             PROVE  /\ ipc' = "idle" => WholeDisk(Disk')
                    /\ ipc' # "idle" => WholeDisk(kept') /\ StagesDone'
  BY DEF WholeInv, WholeDisk
<1> USE DEF WholeDisk, Disk, StagesDone
<1>1. CASE UNCHANGED <<disk, installer, kills>>
  BY <1>1 DEF WholeInv, disk, installer
<1>2. CASE \/ TimerFires \/ RunByHand \/ ReadHost \/ Resolve \/ Download
           \/ Recheck \/ Publish \/ ConfigureToken
  BY <1>1, <1>2 DEF TimerFires, RunByHand, Start, ReadHost, Resolve, Download,
     Recheck, Publish, ConfigureToken, bounds
<1>3. ASSUME UNCHANGED <<disk, kills>>, NEW v, NEW who, BeginInstall(v, who)
      PROVE  WholeDisk(kept') /\ StagesDone' /\ ipc' # "idle"
  BY <1>3 DEF BeginInstall, WholeInv, disk
<1>4. CASE Apply
  BY <1>1, <1>3, <1>4 DEF Apply, bounds
<1>5. ASSUME NEW v \in Versions, OperatorInstalls(v)
      PROVE  WholeDisk(kept') /\ StagesDone' /\ ipc' # "idle"
  BY <1>3, <1>5 DEF OperatorInstalls
<1>6. CASE ReplaceTools \/ WriteVersion \/ InstallPub
  BY <1>6 DEF ReplaceTools, WriteVersion, InstallPub, Stage, WholeInv, bounds
<1>7. CASE InstallUpdater \/ InstallKeyring
  BY <1>7 DEF InstallUpdater, InstallKeyring, Stage, WholeInv, bounds
<1>8. CASE CommitInstall
  BY <1>8 DEF CommitInstall, Stage, WholeInv, disk, bounds
<1>9. CASE FailInstall
  BY <1>9 DEF FailInstall, UndoInstall, WholeInv
<1>10. CASE KillInstall \/ KillUpdater \/ PowerLoss
  BY <1>10 DEF KillInstall, KillUpdater, PowerLoss, KillStep, TypeOK
<1>11. CASE UNCHANGED vars
  BY <1>1, <1>11 DEF vars, bounds
<1> QED
  BY <1>2, <1>4, <1>5, <1>6, <1>7, <1>8, <1>9, <1>10, <1>11
     DEF Next, UpdaterStep, InstallerStep

(* A server on which no installer runs and nothing was killed has all of   *)
(* one release, whatever runs have failed (installer_exit,                 *)
(* install.base.sh:132; UPDATES.md:85).                                    *)
THEOREM ServerWhole == Spec => []FailedKeepsWhole
PROOF
<1>1. Init => WholeInv
  BY DEF Init, WholeInv, WholeDisk, Disk
<1>2. WholeInv => FailedKeepsWhole
  BY DEF WholeInv, WholeDisk, Disk, FailedKeepsWhole
<1> QED BY <1>1, <1>2, TypeCorrect, WholeStep, PTL DEF Spec

-----------------------------------------------------------------------------
(* While no other installer than the updater's own runs: what the updater  *)
(* has read and resolved is true of the disk until its installer begins,   *)
(* and the snapshot has what it was then.                                  *)
OwnInstall ==
  /\ starter = "updater" /\ upc = "wait" /\ result = "none"
  /\ target = pick /\ kept.version = seen /\ kept.ring = trust

Alone ==
  kills = 0 /\ installs = 0 =>
    /\ ipc # "idle" => OwnInstall
    /\ upc \in {"resolve", "download", "apply"} =>
         version = seen /\ ring = trust
    /\ upc \in {"download", "apply", "wait"} =>
         OnChannel(pick) /\ Verifies(trust, pick) /\ seen < pick

LEMMA AloneStep == TypeOK /\ Alone /\ [Next]_vars => Alone'
PROOF
<1> SUFFICES ASSUME TypeOK, Alone, [Next]_vars, kills' = 0, installs' = 0
             PROVE  Alone'
  BY DEF Alone
<1> USE DEF OwnInstall, OnChannel, Verifies, Accepts
<1>0. kills \in Nat /\ installs \in Nat
  BY DEF TypeOK
<1>1. CASE UNCHANGED <<disk, host, updater, installer, result, kills, installs>>
  BY <1>1 DEF Alone, disk, host, updater, installer
<1>2. CASE TimerFires \/ RunByHand
  BY <1>2 DEF TimerFires, RunByHand, Start, Alone, disk, host, installer,
     bounds
<1>3. CASE ReadHost
  BY <1>3 DEF ReadHost, Finish, UpdateError, Alone, disk, host, installer,
     bounds
<1>4. CASE Resolve
  <2>1. /\ upc' \in {"idle", "download"}
        /\ upc' = "download" =>
             seen < pick' /\ OnChannel(pick') /\ Verifies(trust, pick')
    BY <1>4, Resolved
  <2> QED BY <1>4, <2>1 DEF Resolve, Alone, disk, host, installer
<1>5. CASE Download
  BY <1>5 DEF Download, Finish, UpdateError, Alone, disk, host, installer
<1>6. CASE Apply
  BY <1>6 DEF Apply, BeginInstall, Disk, Alone, disk, host, bounds
<1>7. CASE Recheck
  BY <1>7 DEF Recheck, Finish, UpdateError, Alone, disk, host, installer,
     bounds
<1>8. ASSUME NEW v \in Versions, OperatorInstalls(v) PROVE FALSE
  BY <1>0, <1>8 DEF OperatorInstalls
<1>9. CASE InstallerStep
  BY <1>9 DEF InstallerStep, ReplaceTools, WriteVersion, InstallPub,
     InstallUpdater, InstallKeyring, CommitInstall, Stage, Alone, disk, host,
     updater, bounds
<1>10. CASE FailInstall
  BY <1>10 DEF FailInstall, UndoInstall, Alone, host, updater
<1>11. CASE Publish \/ ConfigureToken
  BY <1>1, <1>11 DEF Publish, ConfigureToken, Alone, disk, host, updater,
     installer, bounds
<1>12. CASE KillInstall \/ KillUpdater \/ PowerLoss
  BY <1>0, <1>12 DEF KillInstall, KillUpdater, PowerLoss, KillStep
<1>13. CASE UNCHANGED vars
  BY <1>1, <1>13 DEF vars, bounds
<1> QED
  BY <1>2, <1>3, <1>4, <1>5, <1>6, <1>7, <1>8, <1>9, <1>10, <1>11, <1>12,
     <1>13 DEF Next, UpdaterStep

(* What an updater installs is a release of the configured channel, newer  *)
(* than what the server has and signed by a key its keyring admits for it, *)
(* while no other installer runs (hostpanel-update.py:890-910).            *)
THEOREM OnlyTrustedInstalled == Spec => []InstallsTrusted
PROOF
<1>1. Init => Alone
  BY DEF Init, Alone
<1>2. Alone => InstallsTrusted
  BY DEF Alone, OwnInstall, InstallsTrusted
<1> QED BY <1>1, <1>2, TypeCorrect, AloneStep, PTL DEF Spec

-----------------------------------------------------------------------------
(* On the stable channel, with any kills: releases only get newer.  What   *)
(* is on the disk, in a snapshot or about to be installed is not ahead of  *)
(* the newest candidate, and an updater past its resolution has picked     *)
(* that one: nothing newer can arrive behind it, not even from an          *)
(* installer whose updater was killed.                                     *)
Reached == {x \in Versions : x <= published /\ \A c \in Candidates : x <= c}

Ahead ==
  channel = "stable" /\ installs = 0 =>
    /\ version \in Reached
    /\ ipc # "idle" => target \in Reached /\ kept.version \in Reached
    /\ upc \in {"download", "apply"} =>
         /\ pick \in Reached /\ version <= pick
         /\ ipc # "idle" => target <= pick /\ kept.version <= pick
    /\ ipc # "idle" /\ starter = "updater" => kept.version <= target

LEMMA ReachedStays ==
  ASSUME TypeOK, channel = "stable", [Next]_vars
  PROVE  Reached \subseteq Reached' /\ channel' = "stable"
PROOF
<1>1. channel' = channel /\ (published' = published \/ Publish)
  BY DEF Next, UpdaterStep, InstallerStep, TimerFires, RunByHand, Start,
     ReadHost, Resolve, Download, Apply, Recheck, OperatorInstalls,
     ReplaceTools, WriteVersion, InstallPub, InstallUpdater, InstallKeyring,
     CommitInstall, FailInstall, Publish, ConfigureToken, KillInstall,
     KillUpdater, PowerLoss, KillStep, vars, host
<1>2. CASE published' = published
  BY <1>1, <1>2 DEF Reached, Candidates
<1>3. CASE Publish
  <2>1. published \in Nat /\ published' = published + 1
    BY <1>3 DEF Publish, TypeOK, Versions
  <2> SUFFICES ASSUME NEW x \in Reached
               PROVE  x <= published' /\ \A c \in Candidates' : x <= c
    BY <1>1 DEF Reached
  <2>2. x \in Nat /\ x <= published
    BY DEF Reached, Versions
  <2>a. x <= published'
    BY <2>1, <2>2
  <2> SUFFICES ASSUME NEW c \in Candidates' PROVE x <= c
    BY <2>a
  <2>3. /\ c \in 1..published + 1 /\ ~Release[c].pre
        /\ \A w \in 1..published : ~Release[w].pre => w <= c
    BY <1>1, <2>1 DEF Candidates
  <2>4. CASE c = published + 1
    BY <2>1, <2>2, <2>4
  <2>5. CASE c # published + 1
    <3>1. c \in Candidates
      BY <2>1, <2>3, <2>5 DEF Candidates
    <3> QED BY <2>1, <2>2, <3>1 DEF Reached
  <2> QED BY <2>4, <2>5
<1> QED BY <1>1, <1>2, <1>3

LEMMA PickReached ==
  ASSUME TypeOK, channel = "stable", Resolve, upc' = "download"
  PROVE  pick' \in Reached /\ \A x \in Reached : x <= pick'
PROOF
<1>1. pick' \in Versions /\ pick' \in Candidates
  BY Resolved
<1>2. pick' <= published
  BY <1>1, CandidatesIn DEF TypeOK, Versions
<1>3. \A c \in Candidates : pick' <= c
  BY <1>1 DEF Candidates
<1> QED BY <1>1, <1>2, <1>3 DEF Reached

LEMMA AheadStep == TypeOK /\ Ahead /\ [Next]_vars => Ahead'
PROOF
<1> SUFFICES ASSUME TypeOK, Ahead, [Next]_vars,
                    channel' = "stable", installs' = 0
             PROVE  Ahead'
  BY DEF Ahead
<1>a. channel = "stable"
  BY DEF Next, UpdaterStep, InstallerStep, TimerFires, RunByHand, Start,
     ReadHost, Resolve, Download, Apply, Recheck, OperatorInstalls,
     ReplaceTools, WriteVersion, InstallPub, InstallUpdater, InstallKeyring,
     CommitInstall, FailInstall, Publish, ConfigureToken, KillInstall,
     KillUpdater, PowerLoss, KillStep, vars, host
<1>b. Reached \subseteq Reached'
  BY <1>a, ReachedStays
<1>c. Reached \subseteq Nat
  BY DEF Reached, Versions
<1>0. installs \in Nat /\ version \in Nat /\ pick \in Nat /\ target \in Nat
      /\ kept.version \in Nat
  BY DEF TypeOK, Kept, Versions
<1>1. CASE UNCHANGED <<disk, updater, installer, installs>>
  BY <1>1, <1>a, <1>b DEF Ahead, disk, updater, installer
<1>2. CASE TimerFires \/ RunByHand
  BY <1>2, <1>a, <1>b DEF TimerFires, RunByHand, Start, Ahead, disk, installer,
     bounds
<1>3. CASE ReadHost
  BY <1>3, <1>a, <1>b DEF ReadHost, Finish, UpdateError, Ahead, disk,
     installer, bounds
<1>4. CASE Resolve
  <2>1. /\ upc' \in {"idle", "download"}
        /\ upc' = "download" =>
             pick' \in Reached /\ \A x \in Reached : x <= pick'
    BY <1>4, <1>a, Resolved, PickReached
  <2> QED
    BY <1>4, <1>a, <1>b, <2>1 DEF Resolve, Ahead, disk, installer
<1>5. CASE Download
  BY <1>5, <1>a, <1>b DEF Download, Finish, UpdateError, Ahead, disk, installer
<1>6. CASE Apply
  BY <1>6, <1>a, <1>b DEF Apply, BeginInstall, Disk, Ahead, disk,
     installer, bounds
<1>7. CASE Recheck
  BY <1>7, <1>a, <1>b DEF Recheck, Finish, UpdateError, Ahead, disk,
     installer, bounds
<1>8. ASSUME NEW v \in Versions, OperatorInstalls(v) PROVE FALSE
  BY <1>0, <1>8 DEF OperatorInstalls
<1>9. CASE InstallerStep
  BY <1>9, <1>a, <1>b DEF InstallerStep, ReplaceTools, WriteVersion,
     InstallPub, InstallUpdater, InstallKeyring, CommitInstall, Stage, Ahead,
     disk, updater, bounds
<1>10. CASE FailInstall
  BY <1>10, <1>a, <1>b DEF FailInstall, UndoInstall, Ahead, updater
<1>11. CASE Publish \/ ConfigureToken
  BY <1>1, <1>11 DEF Publish, ConfigureToken, bounds
<1>12. CASE KillInstall \/ PowerLoss
  BY <1>12, <1>a, <1>b DEF KillInstall, PowerLoss, KillStep, Ahead, disk
<1>13. CASE KillUpdater
  BY <1>13, <1>a, <1>b DEF KillUpdater, KillStep, UndoInstall, Ahead, disk
<1>14. CASE UNCHANGED vars
  BY <1>1, <1>14 DEF vars, bounds
<1> QED
  BY <1>2, <1>3, <1>4, <1>5, <1>6, <1>7, <1>8, <1>9, <1>10, <1>11, <1>12,
     <1>13, <1>14 DEF Next, UpdaterStep

(* An updater never installs what is older than what is there, on the      *)
(* stable channel through any kills, on the beta channel while there are   *)
(* none (hostpanel-update.py:1039).                                        *)
THEOREM OnlyUpgrades == Spec => []UpdaterUpgrades
PROOF
<1>1. Init => TypeOK /\ Alone /\ Ahead
  <2>1. Init => TypeOK
    BY StartType
  <2>2. Init => Alone
    BY DEF Init, Alone
  <2>3. TypeOK /\ Init => 1 \in Reached
    BY CandidatesIn DEF Init, Reached, TypeOK, Versions
  <2>4. TypeOK /\ Init => Ahead
    BY <2>3 DEF Init, Ahead
  <2> QED BY <2>1, <2>2, <2>4
<1>2. TypeOK /\ Alone /\ Ahead => UpdaterUpgrades
  <2> SUFFICES ASSUME TypeOK, Alone, Ahead, ipc # "idle",
                      starter = "updater", installs = 0,
                      channel = "stable" \/ kills = 0
               PROVE  kept.version <= target
    BY DEF UpdaterUpgrades
  <2>1. CASE channel = "stable"
    BY <2>1 DEF Ahead
  <2>2. CASE kills = 0
    <3>1. kept.version = seen /\ target = pick /\ seen < pick
      BY <2>2 DEF Alone, OwnInstall
    <3> QED BY <3>1 DEF TypeOK, Versions
  <2> QED BY <2>1, <2>2
<1>3. TypeOK /\ [Next]_vars => TypeOK'
  BY TypeStep
<1> QED BY <1>1, <1>2, <1>3, AloneStep, AheadStep, PTL DEF Spec

-----------------------------------------------------------------------------
(* While nothing is killed or installed by hand: the status never names a  *)
(* newer release than the one a failing run falls back to, and that one    *)
(* and every later one verify all that has been published since.           *)
Floor == IF ipc = "idle" THEN version ELSE kept.version

Carried ==
  /\ status.state \in {"current", "updated"} =>
       1 <= status.installed /\ status.installed <= Floor
  /\ \A x \in Versions : Floor <= x =>
       \A v \in 1..published : x < v => Verifies(Release[x].ring, v)

(* A release that the publisher signs with the key of the one before, or   *)
(* with one that the server is known to have, is verified by all of them.  *)
LEMMA PublishCarried ==
  ASSUME TypeOK, Carried, Publish, NEW x \in Versions, Floor <= x,
         NEW v \in 1..(published + 1), x < v
  PROVE  Verifies(Release[x].ring, v)
PROOF
<1>1. published \in Nat /\ published + 1 \in Versions /\ x \in Nat /\ x >= 1
  BY LastAssumption DEF Publish, TypeOK, Versions
<1>2. CASE v \in 1..published
  BY <1>2 DEF Carried
<1>3. CASE v = published + 1
  <2>1. v \in Versions /\ x \in 1..(v - 1) /\ v - 1 = published
    BY <1>1, <1>3
  <2>2. CASE Release[v].key = Release[v - 1].key
    <3>1. x = v - 1 \/ Verifies(Release[x].ring, v - 1)
      BY <1>1, <2>1 DEF Carried
    <3> QED BY <2>1, <2>2, <3>1, RotationAssumption DEF Orderly
  <2>3. CASE Release[v].key # Release[v - 1].key
    <3> DEFINE y == status.installed
    <3>1. Verifies(Release[y].ring, v) /\ 1 <= y /\ y <= Floor
      BY <1>3, <2>1, <2>3 DEF Publish, Carried
    <3>2. y \in Nat /\ Floor \in Nat
      BY DEF TypeOK, Versions, Floor, Kept
    <3>3. y \in 1..x
      BY <1>1, <3>1, <3>2
    <3> QED BY <2>1, <2>3, <3>1, <3>3, RotationAssumption DEF Orderly
  <2> QED BY <2>2, <2>3
<1> QED BY <1>1, <1>2, <1>3

LEMMA CarriedStep ==
  ASSUME TypeOK, WholeInv, Alone, kills = 0 /\ installs = 0 => Carried,
         [Next]_vars, kills' = 0, installs' = 0
  PROVE  Carried'
PROOF
<1>b. kills \in Nat /\ installs \in Nat
  BY DEF TypeOK
<1>c. /\ kills' = kills \/ kills' = kills + 1
      /\ installs' = installs \/ installs' = installs + 1
  BY DEF Next, UpdaterStep, InstallerStep, TimerFires, RunByHand, Start,
     ReadHost, Resolve, Download, Apply, Recheck, OperatorInstalls,
     ReplaceTools, WriteVersion, InstallPub, InstallUpdater, InstallKeyring,
     CommitInstall, FailInstall, Publish, ConfigureToken, KillInstall,
     KillUpdater, PowerLoss, KillStep, vars, bounds
<1>d. kills = 0 /\ installs = 0 /\ Carried
  BY <1>b, <1>c
<1> USE <1>d DEF Verifies, Accepts
<1>0. version \in Nat /\ kept.version \in Nat /\ target \in Nat /\ seen \in Nat
  BY DEF TypeOK, Kept, Versions
<1>a. ipc # "idle" => OwnInstall /\ kept.version < target
  BY DEF Alone, OwnInstall
<1>1. CASE UNCHANGED <<published, status, disk, installer, kills, installs>>
  BY <1>1 DEF Carried, Floor, disk, installer
<1>2. CASE TimerFires \/ RunByHand \/ ConfigureToken
  BY <1>1, <1>2 DEF TimerFires, RunByHand, Start, ConfigureToken, bounds
<1>3. CASE ReadHost
  BY <1>3 DEF ReadHost, Finish, UpdateError, Carried, Floor, disk, installer,
     bounds
<1>4. CASE Resolve
  <2>1. ipc = "idle" /\ version = seen /\ seen >= 1
    BY <1>4, <1>a DEF Resolve, Alone, OwnInstall, TypeOK, Versions
  <2>2. status' = [state |-> "current", installed |-> seen]
        \/ status'.state \in {"available", "error"}
    BY <1>4 DEF Resolve, Finish, UpdateError
  <2> QED
    BY <1>0, <1>4, <2>1, <2>2 DEF Resolve, Carried, Floor, disk, installer
<1>5. CASE Download
  BY <1>5 DEF Download, Finish, UpdateError, Carried, Floor, disk, installer
<1>6. CASE Apply
  BY <1>6 DEF Apply, BeginInstall, Disk, Carried, Floor, disk, installer,
     bounds
<1>7. CASE Recheck
  <2>1. ipc = "idle" /\ version >= 1
    BY <1>7, <1>a DEF Recheck, OwnInstall, TypeOK, Versions
  <2> QED
    BY <1>0, <1>7, <2>1 DEF Recheck, Finish, UpdateError, Carried, Floor, disk,
       installer, bounds
<1>8. ASSUME NEW v \in Versions, OperatorInstalls(v) PROVE FALSE
  BY <1>8 DEF OperatorInstalls
<1>9. CASE ReplaceTools \/ WriteVersion \/ InstallPub \/ InstallUpdater
           \/ InstallKeyring
  BY <1>9 DEF ReplaceTools, WriteVersion, InstallPub, InstallUpdater,
     InstallKeyring, Stage, Carried, Floor, bounds
<1>10. CASE CommitInstall
  <2>1. Floor' = target /\ Floor = kept.version
    BY <1>10 DEF CommitInstall, Stage, WholeInv, StagesDone, Floor, disk
  <2>2. Floor < Floor' /\ Floor \in Nat /\ Floor' \in Nat
    BY <1>0, <1>10, <1>a, <2>1 DEF CommitInstall, Stage
  <2>3. \A x \in Versions : x \in Nat
    BY DEF Versions
  <2>4. status.state \in {"current", "updated"} => status.installed \in Nat
    BY DEF TypeOK, Versions
  <2> QED
    BY <1>10, <2>2, <2>3, <2>4 DEF CommitInstall, Carried, bounds
<1>11. CASE FailInstall
  BY <1>11 DEF FailInstall, UndoInstall, Carried, Floor
<1>12. CASE Publish
  <2>1. published' = published + 1 /\ UNCHANGED <<status, Floor>>
    BY <1>12 DEF Publish, Floor, disk, installer
  <2>2. \A x \in Versions : Floor <= x =>
          \A v \in 1..(published + 1) : x < v => Verifies(Release[x].ring, v)
    BY <1>12, PublishCarried
  <2> QED BY <1>12, <2>1, <2>2 DEF Publish, Carried, bounds
<1>13. CASE KillInstall \/ KillUpdater \/ PowerLoss
  BY <1>13 DEF KillInstall, KillUpdater, PowerLoss, KillStep
<1>14. CASE UNCHANGED vars
  BY <1>1, <1>14 DEF vars, bounds
<1> QED
  BY <1>2, <1>3, <1>4, <1>5, <1>6, <1>7, <1>8, <1>9, <1>10, <1>11, <1>12,
     <1>13, <1>14 DEF Next, UpdaterStep, InstallerStep

(* Through any number of rotations that keep to UPDATES.md:75-83, and any  *)
(* failed run, a server can verify every release it has yet to install,    *)
(* until something is killed on it or somebody installs by hand.           *)
THEOREM NobodyStranded ==
  Spec => [](kills = 0 /\ installs = 0 => NeverStranded)
PROOF
<1> DEFINE IInv == /\ TypeOK /\ WholeInv /\ Alone
                   /\ kills = 0 /\ installs = 0 => Carried
<1>1. Init => IInv
  <2> SUFFICES ASSUME Init PROVE IInv
    OBVIOUS
  <2>1. WholeInv /\ Alone
    BY DEF Init, WholeInv, WholeDisk, Disk, Alone
  <2>2. Carried
    BY DEF Init, Carried, Floor, Versions
  <2> QED BY <2>1, <2>2, StartType DEF Init
<1>2. IInv /\ [Next]_vars => IInv'
  BY TypeStep, WholeStep, AloneStep, CarriedStep
<1>3. IInv => (kills = 0 /\ installs = 0 => NeverStranded)
  <2> SUFFICES ASSUME IInv, kills = 0, installs = 0, ipc = "idle"
               PROVE  /\ KeyringUsable
                      /\ \A v \in Candidates : version < v => Verifies(ring, v)
    BY DEF NeverStranded
  <2>1. pub = Release[version].key /\ ring = Release[version].ring
        /\ version \in Versions /\ version <= version
    BY DEF WholeInv, WholeDisk, Disk, TypeOK, Versions
  <2>2. KeyringUsable
    BY <2>1, RotationAssumption DEF Orderly, KeyringUsable
  <2>3. \A v \in 1..published : version < v => Verifies(ring, v)
    BY <2>1 DEF Carried, Floor
  <2> QED BY <2>2, <2>3, CandidatesIn
<1> QED BY <1>1, <1>2, <1>3, PTL DEF Spec

-----------------------------------------------------------------------------
(* The refinement: a server has the release it would fall back to.         *)
Vouches == {p \in Versions \X Versions : Verifies(Release[p[1]].ring, p[2])}

Chain == INSTANCE TrustChain WITH First <- 1, installed <- Floor

Quiet == kills = 0 /\ installs = 0

(* The release a server falls back to changes when an installer commits    *)
(* and in no other step: it is then the one the updater has verified with  *)
(* the keyring of the release before.                                      *)
LEMMA ChainStep ==
  ASSUME TypeOK, WholeInv, Alone, Quiet, Quiet', [Next]_vars
  PROVE  [Chain!Upgrade]_Floor
PROOF
<1>0. version \in Versions /\ kept.version \in Versions /\ target \in Versions
      /\ kills \in Nat /\ installs \in Nat
  BY DEF TypeOK, Kept
<1>1. CASE UNCHANGED <<disk, installer>>
  BY <1>1 DEF Floor, disk, installer
<1>2. CASE \/ TimerFires \/ RunByHand \/ ReadHost \/ Resolve \/ Download
           \/ Recheck \/ Publish \/ ConfigureToken \/ UNCHANGED vars
  BY <1>1, <1>2 DEF TimerFires, RunByHand, Start, ReadHost, Resolve, Download,
     Recheck, Publish, ConfigureToken, vars
<1>3. CASE Apply
  BY <1>3 DEF Apply, BeginInstall, Disk, Floor, disk, installer
<1>4. ASSUME NEW v \in Versions, OperatorInstalls(v) PROVE FALSE
  BY <1>0, <1>4 DEF OperatorInstalls, Quiet
<1>5. CASE ReplaceTools \/ WriteVersion \/ InstallPub \/ InstallUpdater
           \/ InstallKeyring
  BY <1>5 DEF ReplaceTools, WriteVersion, InstallPub, InstallUpdater,
     InstallKeyring, Stage, Floor
<1>6. CASE CommitInstall
  <2>1. Floor = kept.version /\ Floor' = target
    BY <1>6 DEF CommitInstall, Stage, WholeInv, StagesDone, Quiet, Floor, disk
  <2>2. Verifies(trust, target) /\ kept.ring = trust /\ kept.version < target
    BY <1>6 DEF CommitInstall, Stage, Alone, OwnInstall, Quiet
  <2>3. kept.ring = Release[kept.version].ring
    BY <1>6 DEF CommitInstall, Stage, WholeInv, WholeDisk, Quiet
  <2>4. <<kept.version, target>> \in Vouches
    BY <1>0, <2>2, <2>3 DEF Vouches
  <2> QED BY <1>0, <2>1, <2>2, <2>4 DEF Chain!Upgrade
<1>7. CASE FailInstall
  BY <1>7 DEF FailInstall, UndoInstall, Floor
<1>8. CASE KillInstall \/ KillUpdater \/ PowerLoss
  BY <1>0, <1>8 DEF KillInstall, KillUpdater, PowerLoss, KillStep, Quiet
<1> QED
  BY <1>2, <1>3, <1>4, <1>5, <1>6, <1>7, <1>8
     DEF Next, UpdaterStep, InstallerStep

(* The updater, the keyrings and the installer together implement the      *)
(* chain of trust (UPDATES.md:73-85), while nothing is killed and nobody   *)
(* installs by hand: every release a server comes to is a later one that   *)
(* the keyring of the whole release before it verifies.                    *)
THEOREM TrustedUpgrades == Spec => ([]Quiet => Chain!Spec)
PROOF
<1>1. Init => TypeOK /\ WholeInv /\ Alone /\ Chain!Init
  <2>1. Init => WholeInv /\ Alone
    BY DEF Init, WholeInv, WholeDisk, Disk, Alone
  <2>2. Init => Chain!Init
    BY DEF Init, Chain!Init, Floor
  <2> QED BY <2>1, <2>2, StartType
<1>2. TypeOK /\ WholeInv /\ Alone /\ [Next]_vars
        => (TypeOK /\ WholeInv /\ Alone)'
  BY TypeStep, WholeStep, AloneStep
<1>3. /\ TypeOK /\ WholeInv /\ Alone /\ Quiet /\ Quiet' /\ [Next]_vars
      => [Chain!Upgrade]_Floor
  BY ChainStep
<1> QED BY <1>1, <1>2, <1>3, PTL DEF Spec, Chain!Spec
=============================================================================
