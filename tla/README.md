# HostPanel: models and proofs

HostPanel is a hosting control panel. What this repository holds of it is
everything around the panel: the installer with its rollback, the firewall
stage, the signed update agent, the tool that rebuilds and converts the hosted
stack (`hostpanel-build`), the workflow that publishes releases, and the tools
that validate a server and hand over the evidence. The panel program itself is
inside a binary release archive, so it appears here only as a service that runs,
crashes, writes its database and creates domains.

This directory holds TLA+ models of the parts whose correctness depends on the
order of steps: several programs, timers and operators work on one disk and one
set of systemd units, each of their steps may fail, and the machine may stop
between any two. Paths below are relative to the repository; `map` in
PROJECT.json gives the source lines of each definition.

## 1. Inventory

| Component | Sources | State it keeps | Operations | Model |
| --- | --- | --- | --- | --- |
| Installer transaction | install.sh, install.base.sh, tools/harden_install*.py, install-hardened.sh | release trees under /opt/hostpanel, VERSION, venvs and the `venv` link, config.env, hostpanel.service, hostpanel.db, /etc/hostpanel/install-state, the safety snapshot, `*.previous.$$` | install, `--reinstall`, die, signals, `installer_exit` | InstallTransaction (partly: role configuration and packages are single steps) |
| Firewall stage | install.base.sh (`fw_*`), tools/harden_install_runtime.py, FIREWALL.md | ufw or firewalld configuration, boot flag, live rules, transient rollback timers | prepare, default deny, allow, commit, timed rollback, cancellation, restoration after a failed run | FirewallRollback |
| Signed update agent | tools/hostpanel-update.py, install-update-agent.sh, packaging/systemd, UPDATES.md | keyring, update.pub, update.env, token, update-status.json, the update lock | check, dry run, apply, automatic apply, keyring rotation | UpdateAgent, SemVer (partly: TLS, URL rules, size limits, extraction are documents that are wrong) |
| CustomBuild | tools/hostpanel-build.py, hostpanel_build_{cli,config,operations,packages,web}.py, install-hostpanel-build.sh, patch_custombuild_runtime.py, patch_cli_runtime_env.py, CUSTOMBUILD.md | build.conf, webserver-mode, mode of each domain, services, the lsws mask, the lock, snapshots | set, build, web conversion, rollback, doctor | CustomBuild (partly: web builds and `set webserver`) |
| Release builder and publication | .github/workflows/publish-release.yml, tools/build-update-release.py, build_update_release_impl.py, release_legal.py, verify-existing-release.py | main, the gate issues, tags, drafts and releases, the run that waits and the one in progress | push, close a gate, verify, approve, re-check, tag, draft, upload, publish, re-run | ReleasePublication |
| Validation state and reports | tools/secure-validation-io.py, validate-production-vm.sh | the state directory, the recorded boot id, the operator's hooks, reports; what of them is on the disk and what only in memory | `--prepare-reboot`, `--post-reboot`, hook, report | ValidationState |
| Evidence tools | tools/prepare-, sanitize- and seal-qemu-evidence.py and the provider wrappers, run-qemu.sh | the evidence directory, the archive | prepare, sanitize, seal, upload | EvidencePipeline |
| Managed TLS profiles | tools/hostpanel_build_ssl.py | none of its own (certbot's lineages) | issue, renew | not modelled |
| Release state report | tools/inspect-release-state.py | none | print | not modelled |
| One-line and automatic installers | bootstrap-install.sh, quick-install.sh, auto-install.sh, install-one-line.sh | a status file that nothing reads back, a bootstrap lock, a flock | download, verify, hand over | not modelled |
| Patchers, localization overlay, panel UI | tools/patch_*, localization-overlay, app | text of files | sequential text programs | not modelled |
| Harnesses, CI, tests | run-*.sh, .buildkite, .github, tests | logs and reports | test drivers | not modelled; what a harness writes is the environment of EvidencePipeline |
| BIND repair | repair-bind-hostpanel.sh | named configuration, one backup | one shot | not modelled |

How they interact:

- The **update agent** extracts an archive and runs its `install.sh
  --reinstall`; the **installer** near its end runs `install-update-agent.sh`,
  which replaces the updater that is waiting for it, its public key and its
  keyring. Two locks (the updater's, the installer's) are held by different
  programs at once. VERSION, written by the installer, is what the updater takes
  for the installed version.
- The **publication** is where the updater's releases come from: its archive,
  manifest and signatures are the documents the updater resolves.
- The **firewall stage** is part of an installer run, but its rollback is a
  systemd timer of its own that outlives the run and touches files which the
  run's own rollback also restores.
- **hostpanel-build** converts domains through the panel's `webserver.set_mode`,
  and the panel, unaware of the build lock, reads the recorded default mode for
  each domain it creates.
- `install-hostpanel-build.sh` (re-)writes webserver-mode from build.conf
  whenever an installer or administrator runs it.
- The **validator** runs on a server before and after a reboot and leaves its
  record and report for the operator; the **evidence tools** run after a harness
  that may have left processes behind which still write.

What makes these parts hard, and what makes them correct:

- *Installer.* Every replacement is two moves and a note about them. A command
  fails (the trap runs), a signal arrives between the moves and the note (the
  trap runs with incomplete notes), SIGKILL or power loss strikes (no trap), and
  the next run starts from that disk. Correct: "complete" is said only over one
  whole release; a failed run restores what it found and loses no file; a
  stopped panel comes back.
- *Firewall.* A five-minute timer races a run that installs packages for longer
  than that, and old timers race the retry. Correct: the operator is never
  locked out, no foreign rule is lost, a complete run keeps its firewall, a dead
  run's firewall is taken back.
- *Update agent.* It acts on VERSION and a keyring it read before a download, it
  replaces itself and the keyring it trusts, and a key rotation spans several
  releases and installations that may fail. Correct: only releases that the
  keyring on disk accepts and that are newer get installed; the server is never
  unable to verify what is published; it converges to the newest release.
- *CustomBuild.* A dozen steps over services, domains and two recorded options,
  each of which may fail or be interrupted, with administrators and the panel
  changing the inputs meanwhile. Correct: hosted domains keep a running backend
  and follow the recorded mode; OpenLiteSpeed never runs with its stock
  listeners.
- *Publication.* A reviewer approves days after the checks; pushes and closed
  gates replace each other in the queue; a job breaks off between the tag, the
  draft and its assets and is run again with its old outputs. Correct: a
  published release is whole, of one commit and never replaced; what counts was
  checked after the approval; the last releasable commit is released.
- *Validator.* Two runs write the same record, the directory is moved under
  them, and the power loss they are there to prove takes what was not forced to
  the disk. Correct: a verified reboot has happened, what was reported as
  recorded or kept is on the disk, only a checked hook runs.
- *Evidence.* Files change, move and go away while three programs read them one
  after the other. Correct: no secret is uploaded, no member is a mixture, and
  nothing is missing when the harness had ended.

The list of hazards, each at its line with the properties that would catch it,
is `hazards` in PROJECT.json.

## 2. Modules

| Module | What it is |
| --- | --- |
| AtomicRelease | what an installer run promises to a reader between two runs (abstract) |
| InstallTransaction | the run, `installer_exit`, the panel service, kills and power losses |
| InstallRefinement | its properties, and the refinement mapping to AtomicRelease |
| FirewallRollback | the firewall stage with its timers, and its properties |
| UpdateAgent | updater, installer stages it depends on, publisher, and properties |
| TrustChain | what the update channel promises to a server (abstract) |
| ReleaseChannel | what the publication promises to who reads releases (abstract) |
| SemVer | `Version.parse` and `Version.__lt__` against SemVer 2.0.0 |
| CustomBuild | set, build, conversion, panel and tool installer, and properties |
| ReleasePublication | the publication workflow with the builder, and properties |
| ValidationState | validators, administrator and power on one server, and properties |
| EvidencePipeline | prepare, sanitize and seal against a harness, and properties |
| InstallProofs | theorems about InstallTransaction and InstallRefinement |
| FirewallProofs, UpdateProofs, SemVerProofs, CustomBuildProofs, ReleaseProofs, ValidationProofs, EvidenceProofs | theorems about the module of that name |
| MC* | the small instance of each |

A definition under a comment that begins "Mutant" is a variant of the one after
it with a plausible bug; the specification never uses it, and `mutants` in
PROJECT.json names the property that finds the bug.

### InstallTransaction

The program is not install.base.sh as it stands: install.sh pipes it through
tools/harden_install.py, harden_install_impl.py and harden_install_runtime.py,
which replace the snapshot and rollback helpers. The model is of the result.

`pc` is the place of the script. `Begin` is the successful preflight with the
lock, the in-progress state and the archive of the managed paths; then each
action is one step that leaves something different on disk: `MoveAside`,
`PlaceTree` and `RecordTree` are the three parts of `sync_release_tree` and
`sync_optional_tree`, repeated for each tree (`at`), `BuildRuntime` to
`LinkRuntime` those of the versioned runtime, `WriteConfig` the configuration of
all roles, `RegisterPanel` to `Verify` the unit, its start and the readiness
checks, `DropTree`, `DropRuntime`, `ClearTrees` and `ClearRuntime` the removal
of the backups and of the notes about them, `Commit` the word complete and
`Finish` the banner behind it. `Abort` enters the exit trap from every one of
these stages: a command that fails under `set -e` and a HUP, INT or TERM do the
same there. The trap's steps are `UndoRuntime`, `UndoTrees`, `RestoreSnapshot`,
`RestoreEtc`, `MarkFailed` and `RestartPanel`. `Kill` and `PowerLoss` forget the
shell's variables and leave the disk; `Kill` also stands for what ends the trap
itself, which has no trap of its own. A tree is the *set of releases whose files
are in it*: an archive that is extracted over a tree adds to it, which is
exactly how a rollback can produce a mixture. `failedAt` remembers at which
stage a run broke off. Two sets of stages are named where the rollback is not
exact, `LooseAt` for the trees and `NoRuntimeAt` for the runtime
(InstallRefinement, section 4); every property that excepts stages excepts these
and no other.

### FirewallRollback

`firewall` is the configuration on disk, the boot flag, whether the firewall is
up and which ports are really reachable (`live`); the four may disagree and the
bugs are in how they do. `ScheduleRollback` arms a timer that carries its own
snapshot, `StartRollback` and `FinishRollback` are the two halves of its script
(files, then reload or switch off), between which the run goes on.
`DeleteBroadRule` is the `ufw --force delete allow` before the panel is opened
to one source. ufw and firewalld are external; they are modelled by what the
installer's helpers rely on (stated at the top of the module). There is no
clock: a timer may fire at any moment after it was armed, beside the run that
armed it, beside a later one or between two. `disturbed` remembers the last run
beside which a rollback ran.

### UpdateAgent and SemVer

The updater's actions are `Start`, `ReadHost`, `Resolve`, `Download`, `Apply`
and `Recheck`; between each two of them anybody else may move. The installer is
reduced to the stages that replace what the updater reads (`ReplaceTools`,
`WriteVersion`, `InstallPub`, `InstallUpdater`, `InstallKeyring`), and a failed
run restores all of them in one step, which FailedRestoresFiles of
InstallTransaction justifies. Releases are numbers in the order of publication,
each with the key that signs it and the keyring it ships; `Resolve` chooses, for
each candidate, the document that GitHub serves, at most one of them wrong at a
time. `Publish` changes the signing key only after the server reports an
installed keyring that accepts it, and the releases themselves keep to the
rotation rules of UPDATES.md (`Orderly`, an assumption on the constant). SemVer
justifies the numbers: it compares the program's order of versions with the
standard's, for TLC on every list of identifiers up to the bounds, and
`VersionsAreNumbers` proves that any finite set of versions can be numbered so
that the program's order is that of the numbers.

### CustomBuild

`pc` is the place of the process that holds the build lock. `ReadOptions` comes
before `TakeLock`, as in the code. `Preflight` masks lsws when OpenLiteSpeed is
asked for, `BuildComponent` reinstalls one component after another,
`HelperStart` to `SwitchFailed` are hostpanel-build-web with its rollback per
domain, `PersistMode`, the `Reconcile` actions, `Check` and `Doctor` follow, and
`Cleanup` is the `finally` clause. `RewriteListeners`, `Unmask` and `StartLsws`
are the parts of `prepare_openlitespeed` that change something.
`ComponentFails`, `PrepareFails`, `ConvertFails`, `RollbackFails`,
`PersistFails`, `ReconcileFails`, `DoctorFails` and `CleanupFails` are the
failures of single commands; `Interrupt` is Ctrl-C, `Kill` SIGKILL, `Reboot` a
reboot, which takes the runtime mask away and may start any installed service
(which units are enabled is not modelled). The panel's three steps for a new
domain interleave with all of it. `trouble` remembers what no program can make
good: a rollback that failed, a service that did not come back, an interruption
or a kill, and what exposes stock listeners. `unrecorded` is the mode of a
conversion that `persist_web_mode` then failed to record. Properties are stated
over these two.

Simplified: nginx always runs; php is a component that can only fail; there is
one option, `webserver`; a set of domains is converted in any order; `systemctl
disable` of a backend, whose failure the code ignores, succeeds; after SIGKILL
of the tool its helper is gone too, where really it could go on alone for a
moment.

### ReleasePublication

A commit is its place on `main`; `pending` is the run that waits in the
workflow's concurrency group and `pc` the place of the one in progress. `Push`
and `CloseGate` replace the waiting run, `StartRun` takes it up. The verify job
is `VerifyHead` to `Test`, the publish job, which the environment's reviewer
lets start (`Approve`), is `Revalidate` to `Publish`. `RerunPublish` starts a
failed publish job with the outputs its verify job left, among them whether the
tag is to be created, `RerunAll` starts over. `Look` may lose answers: a query
that fails reads as "there is none". `Repair` is a maintainer who deletes a
draft or a tag without a published release. `shut` and `fresh` are history: what
has been true since the approval. The builder is `Legal`, `Deployable`, `Builds`
and `Built`.

### ValidationState

`op[p]` is one run of the validator: the mode, the place, and the directory and
files it has open. The two halves of the model are what a reader sees (`entry`)
and what a power loss leaves (`safe`, `flushed`); `WriteBack` lets the kernel
write a directory back at any moment. `ReadOpen`, `ReadName` and `ReadPath` are
`read_state`, a process of its own that looks at the name of the file
(secure-validation-io.py:302) and then at that of the directory (305); `Compare`
is bash's comparison of what it printed (validate-production-vm.sh:264).
`WriteStat` to `Confirm` are `write_state`; `OpenHook`, `RecheckHook` and
`ExecuteHook` the hook, which is executed by its descriptor (`Executed`);
`Finish` the end of `run_with_report`. `acked` remembers what was reported as
recorded, `op[p].floor` what that was when a run looked at the name. The report
directory may be inside the state directory, as it is by default, and move with
it, or elsewhere.

### EvidencePipeline

The three programs of run-qemu.sh share the read loop (`Open`, `Read` block by
block and twice, `Stable`): `phase` says whose turn it is. The provider programs
are the same under other names. The harness creates, writes, empties, moves and
removes files at any step of that, with or without a changed time stamp.
`window` holds everything the file that is being read has held since it was
opened, against which `Seal` notes whether the member is one of them. `evidence`
is what was there when the first program began, if the harness had ended. A
program that fails removes the archive, or leaves it when the removal fails too,
an error it swallows.

## 3. Runs

All runs except SemVer's bound a few counters; nothing else is cut, and no state
constraint is used. Deadlock is off everywhere: an installer, an updater or a
build that has nothing to do, and whose budget of runs and faults is spent,
rests.

| Run | Question | Result |
| --- | --- | --- |
| install_safe | Two runs that fail or get a signal at any stage, one kill, one power loss, one panel crash, a release that drops a tree: is "complete" whole, does a failed run restore, is a run atomic to a reader between runs (refinement of AtomicRelease), does a stopped panel come back? | holds, but for the stages the properties name |
| fw_safe | Two runs on every kind of server, a kill, a reboot, timers at any moment: operator locked out, foreign rule lost? Where no rollback runs beside a run: does complete keep the firewall, does failure or a kill give the old one back? | holds |
| fw_late | Does a complete run keep its firewall also when its timer fired before its end? | **violated**: section 4 |
| fw_ssh | Is the SSH port permitted before the policy denies it, on every server? | **violated**: section 4 |
| update_rotate | A key rotation over six releases on both channels with wrong documents and failed runs: trusted, never stranded, converges? | holds |
| update_faults | With kills and operators who start things by hand, two prereleases and two finals at a time: no downgrade, and no half-installed release while nothing is killed? | holds |
| semver_order | Is the updater's order SemVer's? | holds |
| cb_safe | Two builds, two options, a fault, a kill, a reboot, a re-run of the tool's installer, a new domain: hosted domains served and consistent, lsws on loopback? | holds, but for the events the properties name |
| cb_race | Is a domain the panel creates meanwhile served too? | **violated**: section 4 |
| validation_safe | Two validators, three runs over three boots with power loss, a SIGKILL and an administrator's changes: has a verified reboot happened, is what was reported kept, are only checked hooks run? | holds |
| evidence_safe | Files that change, move and go away under the three programs: no secret uploaded, no mixture, nothing missing? | holds |
| release_safe | Three pushes of good and bad commits, gates that open and close, a fault, a deleted draft or tag, re-runs: releases whole and never replaced, checks fresh, the last releasable commit released in the end? | holds |

### Bounds and why they are enough

- *Installer.* Two releases: an old and a new one already give every mixture;
  the second does not ship the second tree. Two trees: one before and one after
  the current index. Two runs: an installation, and a second over the disk it
  left, whole or not, of the same release or the other. One kill and one power
  loss, so that a crash can follow a crash, and one panel crash; the panel may
  write once, before or after the snapshot.
- *Firewall.* One SSH port, the port of the panel, one of the FTP role, one
  foreign port: one for each way a rule comes and goes. Two runs let an old
  timer fire in the retry. The initial states are ufw off with any policy and
  rules, ufw on with any rules that let the operator in, and firewalld on or
  off, with the standard SSH port open or, off, with a custom one that its zone
  does not have.
- *Update.* Six releases are what the procedure of UPDATES.md needs on two
  channels: announce (2, 3), sign with the new key and retire the old (4),
  remove (5, 6). Two wrong documents and two failed runs let a failure happen on
  each side of the rotation. update_faults has kills and operators, no liveness,
  both channels, and five releases (final, two prereleases, two finals) of which
  a server may find two candidates at once, with a keyring that grows; the
  second key is announced and signs none of them.
- *SemVer.* Identifiers of up to three characters from `-`, `0`, `1`, `2`, `a`,
  alone, and lists of up to four from one number and one word: each comparison
  in `__lt__` looks at the kind, the length, and the first difference.
- *CustomBuild.* Two hosted domains (one converted, one not yet), one new, two
  processes, two builds and two options chosen (there and back), one fault. The
  two hosted domains and the two builders are symmetric and no property of the
  run is temporal. Targets are `web`, `apache` and `openlitespeed`: those of
  nginx and php change no backend. One reboot in cb_safe; cb_race needs none.
- *Publication.* Three commits: the one that is released, one that arrives
  behind it, one more behind that while a run waits. Two gates, one read before
  the other. Each of the six kinds of commit is a release, its successor, or a
  release with one thing wrong. One fault, one reopened gate and one repair.
- *Validation.* Two runs at a time and three in all, over three boots: a record,
  its reader and an overlapping writer, with a reboot between each two. Two
  directories (the one moved away and the other), three files (two records and a
  copy that the administrator puts back), a good hook and a bad one. Runs are
  symmetric and no property is temporal.
- *Evidence.* Two files and one with a bad name, four changes of the harness,
  files of two blocks and a total of three, so that both limits are met: a
  mixture of two passes needs two blocks, and hiding it needs a write between
  the passes and one after. The two good names are symmetric.

### Fairness

Only where a liveness property needs it, and only weak:

- `WF(RunStep)` in InstallTransaction and FirewallRollback: the installer is a
  sequential script whose commands end. Nothing makes a run begin.
- `WF(AutoRestart)`: hostpanel.service has `Restart=always`.
- `WF(Rollback)`: systemd starts a transient timer that is due and its script
  ends.
- `WF(TimerFires)`, `WF(UpdaterStep)`, `WF(InstallerStep)`: the update timer is
  periodic, and each program ends or is stopped by its timeout. Nothing is
  assumed of GitHub except that only finitely many documents are wrong
  (`MaxFaults`), and nothing of the publisher: it may stop at any release.
- `WF(Verify)`, `WF(PublishJob)`: the jobs have time limits, a queued run starts
  when the one before has ended, and the reviewer answers. Nothing makes anybody
  push, close a gate or run a job again, so `Converges` of ReleasePublication is
  stated for histories without a fault or a repair.

CustomBuild, the validator and the evidence tools have no liveness property:
they retry nothing.

## 4. Findings

**cb_race.** CUSTOMBUILD.md:62, an applied web build "changes every managed
domain" before it disables unused backends. The panel reads the default mode of
a new domain and applies it without the build's lock: a domain that is given the
old mode after the helper has listed the domains stays on the backend that the
build then disables. The final check notices, and can only fail the build.

**fw_late.** FIREWALL.md:29, "A successful installation cancels the rollback."
The timer is armed at the firewall stage (harden_install_runtime.py:439) and
cancelled before the backups are dropped (716); the packages of all roles are
installed in between. A run of more than five minutes is rolled back under its
feet, goes on, cancels a timer that has already fired, and completes over a
firewall that is off or without its ports. CompleteKeepsFirewall is the same
property for the runs beside which no rollback ran.

**fw_ssh.** FIREWALL.md:23, the actual SSH ports "are allowed before the
default-deny policy is enabled". On ufw that is so. On firewalld `fw_prepare`
(install.base.sh:733) starts the service, whose default zone denies what it does
not list, before `fw_allow` permits the ports: on a server whose firewalld is
off and whose SSH port is not the standard one, the port is closed until
`fw_commit` reloads the rules.

Seen while modelling, without a run of their own.

Installer and firewall:

- The backups are dropped before complete is written (install.base.sh:2712), and
  the banner is printed after it (2721-2760) with the trap still armed. While
  the rollback arrays still name the trees, a removal that fails half-way is
  harmless: the trees are cleared and come back whole from the archive. Once the
  arrays are empty (2716-2717), a command that fails (the write of
  install-state, `cat`), or a signal, rolls back from the archive alone, which
  is extracted over the new trees: install-state says failed over a mixture of
  the two releases, in which no file of the old one is missing. Between a tree's
  move and its note (1147) a signal has the same effect. These stages are
  `LooseAt`; the runs that break off there are excepted from the exact half of
  FailedRestoresFiles and from the atomicity of AtomicRelease, and
  FailedLosesNothing covers them.
- A run whose banner fails or is interrupted has already said complete. Its
  rollback puts in-progress and then failed in its place, but a kill before that
  leaves complete over a half-restored release. CompleteIsWhole excepts this one
  stage.
- Between the two moves of a runtime of the *same* release and the note about
  them (install.base.sh:1234-1237), a HUP, INT or TERM is rolled back without
  bringing the old runtime back: the `venv` link dangles and the panel the run
  stopped does not start again. So it is when a removed runtime is not yet
  forgotten (2715-2718). These stages are `NoRuntimeAt`, excepted from
  FailedRestoresFiles (for the link alone) and PanelComesBack; a SIGKILL or a
  power loss inside a run leaves the panel stopped, too.
- After a failed run that had replaced the runtime of the same release, the link
  points to that release even if it pointed to another before
  (install.base.sh:143); FailedRestoresFiles only claims that it resolves.
- A tree that a release no longer ships is kept by a run without `--reinstall`
  (install.base.sh:1155), which happens when config.env was lost.
- A panel that crashed and waits for `Restart=always` is not "active", so a
  reinstall does not stop it (install.base.sh:343), and it may start over
  half-replaced trees and keep running old code after "complete".
- A failed reinstall extracts the snapshot's hostpanel.db over one that a
  running panel has written to since (harden_install_runtime.py:254).
- The rollback removes no file: a firewalld zone that got its first file of its
  own in the run keeps it (harden_install_runtime.py:425).
- A run's own timer that fires before the FTP role commits again lets that
  commit enable ufw on restored rules (harden_install_runtime.py:532), which may
  lock out an operator whose port had no rule before the run. SshReachable
  therefore covers ufw as long as no rollback ran beside a run, and beside
  rollbacks the servers whose rules have the port.
- The timer of an earlier failed run stays armed beside the retry
  (harden_install_runtime.py:173) and undoes its firewall. FIREWALL.md:29-31
  advises against rerunning, and only when the connection is lost.
- A reboot within the five minutes loses the timer, a transient unit, and the
  firewall of the dead run stays (harden_install_runtime.py:439).
  RollbackRestores ends its claim at a reboot.

Update agent:

- UPDATES.md:85, the keyring is deployed "atomically with the updater". VERSION,
  update.pub, the updater and the keyring are four writes. A run that is killed
  between them leaves the new VERSION with the old keyring, and the next check
  reports "current" and never repairs it. FailedKeepsWhole is stated without
  kills.
- An updater that waits for a download while an operator installs something
  newer by hand then installs the older release (hostpanel-update.py:890). On
  the beta channel the same happens behind the installer of an updater that was
  killed. UpdaterUpgrades is stated for histories without these.

CustomBuild:

- After a switch to nginx or openlitespeed in which nothing failed, the doctor
  warns of the Apache that the switch disabled (exit status 1, which
  validate-production-vm.sh:153 takes for a pass with warnings), after a switch
  away from openlitespeed it fails because of the lsws that the switch disabled,
  and `run_doctor` treats every status but 0 as a failure: the build says
  "hostpanel-build failed" although all of it was done.
- CUSTOMBUILD.md:62, a web build "records the mode for future domains", and
  :218, a failure rolls domains back. If `persist_web_mode` fails
  (hostpanel_build_operations.py:228), the helper is over, so the domains keep
  the new mode, the mode file has the old one and nothing is rolled back.
  DefaultFollows then says that all hosted domains have the mode of that build,
  until a later build records one.
- If `systemctl enable --now lsws` or the check behind it fails
  (hostpanel_build_web.py:260-261), the stock listeners are put back, while lsws
  has been unmasked and may run: nothing stops or masks it again. And the mask
  of the preflight is a runtime one: a reboot between the package and the
  rewriting of the listeners loses it. LoopbackOnly excepts these two events
  (`"exposed"`). Served claims nothing after a reboot.
- install-hostpanel-build.sh copies an option that was never applied into
  webserver-mode; DefaultFollows is stated without it.
- If `systemctl mask --now` sets the mask and then fails to stop lsws, nothing
  lifts the mask (hostpanel_build_operations.py:281).
- `set` writes back the whole file it read without a lock; two at a time lose
  one of two different options (hostpanel_build_cli.py:172). The model has one
  option.

Publication, validation, evidence, automatic installation:

- The concurrency group keeps one waiting run. The close of an issue that is no
  gate starts a run whose jobs are all skipped, and that run may take the place
  of the one that waits (publish-release.yml:28). `CloseOther` counts as a
  fault.
- A push that touches no watched path makes an approved run stale and starts no
  new one: the release waits for the next event (publish-release.yml:3).
- A boot id that another run reports as recorded after `read_state` has looked
  at the file's name (secure-validation-io.py:302) and before bash compares is
  not noticed: "[PASS] boot ID changed" then holds of the record that was read,
  and not of the newest one. RebootVerified is stated from that look on.
- A report that is removed between the look at its name and the exit of
  `run_with_report` (secure-validation-io.py:560-575) is not noticed either.
  `Finish` is one step, so ReportKept does not speak of it.
- What a process appends to a file at the moment the sanitizer replaces it goes
  to the old inode and is lost (sanitize-qemu-evidence.py:256). UploadComplete
  is stated for harnesses that have ended and cannot find a writer that is
  alive.
- A sealer that fails and cannot remove its archive either leaves it
  (seal-qemu-evidence.py:121). run-qemu.sh uploads nothing after that, and the
  archive has no secret: `Clean` of EvidenceProofs covers every archive there
  ever is.
- auto-install.sh:217: between `mkdir` of the bootstrap lock and the write of
  its pid file, or when two processes find the same stale holder, the second
  takes the directory for stale and moves it away, and both go on. It covers
  only the packages auto-install.sh needs itself; a flock follows for the rest.

## 5. Proofs

TLAPS proves, for all values of the constants (any number of releases, trees,
ports, domains, commits, files, runs, kills, reboots and faults) and from the
named assumptions only, every safety property of the passing runs. Each
paragraph names the strengthening and why it is needed. Exceptions are part of a
property's own statement. One theorem has a condition on the behaviour:
TrustedUpgrades, `Spec => ([]Quiet => Chain!Spec)`.

- **InstallProofs** (TypeCorrect, CompleteAlwaysWhole). CompleteIsWhole is not
  inductive: that `Commit` finds a whole release on disk depends on everything
  the run did before. The invariant is `TypeOK /\ CompleteInv`, where `RunPoint`
  says which tree the run is at and that all trees are done after the loop, and
  `Replaced`, for each place of the script, what has been replaced by the target
  so far, and that complete is only said at the banner, between two runs, or in
  the rollback of a banner. The type of `at` needs `RunPoint`, hence one joint
  induction (`Invariant`).

  The rollback (TreesAreKept, NothingIsLost, FilesAreRestored) needs more.
  `ShellInv` is what the shell remembers at each place, `TreesInv` says of each
  tree whether it is in place, aside and noted, or between the two moves of it
  and not yet noted, and of each stage of the rollback what is restored already,
  exactly (`Exact`) or as a superset; `RuntimeInv` is the same of the runtime
  and its link. The rollback restores from the notes, and the archive from where
  they are incomplete or gone. None of the theorems has a condition on signals.

  *Refinement* shows that the transaction implements AtomicRelease: what a
  reader between two runs finds is whole and what install-state says, over any
  releases, with signals and failures at every stage. `BreakOff` and
  `LooseRollback` are the abstract steps of a run that broke off at `LooseAt`,
  and no other step produces a mixture under another word than in-progress.
- **FirewallProofs**. ForeignAlwaysKept comes from two invariants, for any set P
  of ports. `AllPermit(P)`: the configuration, the run's snapshot *and the
  snapshot in every timer* permit P; this is what makes old timers harmless, and
  `PermitStep` proves it inductive. `Open(P)`: P gets through.
  SshAlwaysReachable uses them with P the SSH port for the servers whose rules
  have it; for ufw as such, off or on, `Admitted` says that whatever is up, or
  may be switched on by a reload, a commit or a reboot, lets the port in,
  because `Allow` comes before `CommitFirewall` and every snapshot that starts
  at boot was taken from a firewall that let the operator in.
  CompleteAlwaysDisarms: no timer carries the number of a complete run
  (`Owned`).

  The others are about runs beside which no rollback ran. That is a state of the
  history (`disturbed`) and not an invariant of the code: a run of more than
  five minutes, or a retry within five minutes of a failure, is disturbed, and
  then they are false (section 4). `Steady` says that what such a run and its
  timer believe of the firewall is true. CompletesWithFirewall holds for every
  such run, over any number of runs, kills and reboots (`Opened`: which ports
  are open at each place), FailureRestoresFirewall for every one that fails over
  a firewall with its rules in files (`Kept`: the snapshots of the run and of
  its timer are the firewall it found).
- **UpdateProofs**. ServerWhole: `WholeInv` relates the disk, the snapshot and
  the stage of the installer. OnlyTrustedInstalled: `Alone` says that while
  nobody else installs, what the updater read minutes ago is still what the disk
  has. OnlyUpgrades: on the stable channel `Ahead` bounds whatever is on the
  disk, in a snapshot or about to be installed by the newest candidate.
  NobodyStranded: `Carried` says that `Floor`, the oldest release the server may
  fall back to, and all later ones verify everything published since; it uses
  the publisher's rules (`RotationAssumption`, which UPDATES.md:75-83 asks for)
  and holds until the first kill or the first installation by hand.

  *TrustedUpgrades* shows that the updater, the keyrings and the installer
  implement TrustChain in every behaviour without these two: `Floor` only ever
  moves to a later release, and one that the keyring of the release it leaves
  verifies, so that what a server runs is linked to what it was set up with. The
  step is at `CommitInstall` (`ChainStep`); a run that fails moves nothing. It
  rests on WholeInv (VERSION and the keyring are of one release) and Alone. It
  is proved and has no run: `update_rotate` checks the two halves of it,
  InstallsTrusted and NeverStranded. With one kill it is false, for VERSION and
  the keyring are written one after the other.
- **SemVerProofs**. SameOrder: `__lt__` is the precedence of SemVer 2.0.0 on all
  versions that parse, of any characters, lengths and lists, where the run has
  bounds; AlwaysAgrees follows. The hard case is two numbers, which the code
  compares by length and then as text and the standard by value: a number
  without a leading zero that has more digits is greater, and of two with
  equally many the first digit that differs decides. Both are inductions over
  the digits of `Values`. StrictTotalOrder shows that the sort of the candidates
  has one answer, VersionsAreNumbers that UpdateAgent may use numbers: a
  version's number is how many of the set are below it.
- **CustomBuildProofs**. AlwaysLoopback: from the preflight to the rewriting of
  the listeners lsws is masked, and from then on to the end of the preparation
  its listeners are rewritten (`LoopbackInv`). AlwaysServed: the only backend a
  hosted domain may lack is lsws, and only under a build that stopped it and
  knows that it ran (`ServedInv`, over `HelperInv`, what the helper knows of the
  domains' modes). DefaultAlwaysFollows: domains the conversion has not reached
  have the standing mode, and it remembers that of the others (`DefaultInv`); a
  conversion that cannot be recorded makes its own mode the standing one.
- **ReleaseProofs**. ChecksAreFresh: `Approved`. ReleasesWhole and
  SuccessMeansReleased: `Kept` is `TagsTrue` (a tag is at a commit of its
  version that builds), `ReleasesTrue` (a release has its tag, and that commit's
  assets), `RunTrue` (only its own job writes a draft, so the tag under it is
  its commit's) and SuccessIsReleased. PublishedStays is the action property.

  *PublishesAtomically* shows that the workflow implements ReleaseChannel, with
  no condition: through tags, drafts, uploads one by one, faults, re-runs and
  repairs, who reads releases sees a version appear in one step, whole, never to
  change, made from one commit that was the head of main when the approved job
  looked (`Vetted`, from Revalidate to the end of the job). Drafts are invisible
  (`DraftsUnseen`), and `PublishRelease` needs Kept: what Upload left in the
  draft is all of the commit's assets and nothing of another run's. This is what
  UpdateAgent takes for granted when its publisher makes a release in one step.
  It is proved and has no run; TLC's runs check NeverReplaced and ReleaseWhole.
- **ValidationProofs**. `NamesStored`: a file that a directory names, now or on
  the disk, was forced to the disk and holds a boot that has happened;
  `FilesInv`: a writer's file is its own until it is named, and once the
  directory is synced it is named on the disk if it is named at all. StateWhole
  and RecordKept follow. VerifiedTrue: from the look at the name on, what was
  read is no older than the record that was the newest then, and `Compare` lets
  only a boot before this one pass (`VerifiedInv`). HooksChecked (`HooksInv`,
  which follows the descriptor) and ReportsKept have inductions of their own.
- **EvidenceProofs**. SecretsStay: `Clean`, over what is uploaded and every
  archive there is. ArchiveHolds: two equal passes hold something the file held
  in between, because blocks never come back (`Bound`) and what the second pass
  sees is not older than what the file held between the passes (`Passes`).
  UploadsAll: from the end of prepare on `Left` says what the files hold,
  redacted, is what was promised, `Packs` what of it the archive has, `Reads`
  that the open file is the one its name leads to, and `Order` in which program
  that is.

Assumed about the world, and part of the models: a new directory's name is on
the disk once the directory is; no block of evidence is overwritten with the
bytes it holds; a failed run of the workflow is run again only while no run
waits; ufw, firewalld, systemd, certbot and the packages do what the head of
each module says.

Inductions over data (the value of a number, the first difference of two lists,
the newest of a set of releases) are proved for a *set* of numbers in place of a
predicate, from WFMin, that a well-founded relation has minimal elements; the
induction theorems of the library take an operator as a parameter, which the
installed provers cannot instantiate. `Values` is a recursive function and its
defining equation is a proved lemma.

Only model-checked: liveness (PanelComesBack, RollbackRestores and the two
properties named Converges: fairness and ENABLED are beyond the prover), and the
violations fw_late, fw_ssh and cb_race, which are counterexamples.

## 6. Not modelled

- *Installer.* Role configuration, packages, prompts and the validation of
  input. The many commands of a role are one step that may fail.
- *Composition of updater and installer.* UpdateAgent carries a reduced
  installer whose rollback is one step; FilesAreRestored justifies it, no
  refinement between the two modules does.
- *CustomBuild.* Builds of database, mail, dns and redis (a snapshot, packages,
  a check, a restart; they touch no domain), `update_versions`, `update_panel`,
  `validate`, a second option, and the helper that goes on for a moment after
  SIGKILL of the tool.
- *Managed TLS.* Issue and renew are one sequential pass under the build lock
  that keeps no state and undoes nothing.
- *Automatic and one-line installers.* They download, verify and hand over; what
  fails is undone by the installer.
- *Release state report, patchers, localization overlay, panel UI, BIND repair,
  test drivers and CI agents.* Sequential programs over text, or drivers of
  other programs; TLS, descriptor and path hygiene have no states a model could
  tell apart. The panel itself is not in the repository.
