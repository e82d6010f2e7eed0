-------------------------- MODULE FirewallRollback --------------------------
(***************************************************************************)
(* The installer's firewall stage and its timed rollback.                  *)
(*                                                                         *)
(* Before it touches the firewall a run leaves a script and a transient    *)
(* systemd timer behind: in five minutes, put the saved configuration back *)
(* and reload it, or switch the firewall off if it was off.  The timer is  *)
(* cancelled shortly before the run is complete.                           *)
(*                                                                         *)
(* Simplifications.  Configuration is the set of permitted ports, the      *)
(* default policy, and for firewalld whether the zone has a file of its    *)
(* own under /etc/firewalld.  There is no clock: a timer that is due may   *)
(* fire at any moment.  ufw and firewalld are programs outside the         *)
(* repository, modelled by what the installer's helpers rely on: ufw       *)
(* keeps one flag for "enabled" and "started at boot", adds a rule to an   *)
(* enabled firewall at once and does not reload a disabled one; firewalld  *)
(* runs the permanent rules it last loaded, and its boot flag is a unit    *)
(* link outside the snapshot.                                              *)
(***************************************************************************)
EXTENDS Naturals

CONSTANTS
  Ssh,           \* the port the operator is connected to
  Panel,         \* the panel's port, open to all or to one source
  StagePorts,    \* FIREWALL_PORTS and the panel's port
  FtpPorts,      \* the ports of the FTP role, {} without it
  Foreign,       \* ports the installer never mentions
  Servers,       \* what a server may be before the first run: its tool,
                 \* its rules, does it deny the rest, is its firewall up,
                 \* are its rules in files
  MaxRuns, MaxKills, MaxReboots   \* bounds

Ports == StagePorts \cup FtpPorts \cup Foreign
Tools == {"ufw", "firewalld"}

(* The operator has come in through Ssh: a firewall that is on permits it. *)
ASSUME SshAssumption == Ssh \in StagePorts /\ Ssh # Panel
ASSUME PanelAssumption == Panel \in StagePorts \ Foreign
ASSUME ServersAssumption ==
  /\ Servers \subseteq [tool: Tools, rules: SUBSET Ports, deny: BOOLEAN,
                        up: BOOLEAN, file: BOOLEAN]
  /\ \A s \in Servers : /\ s.tool = "ufw" => s.file
                        /\ s.up /\ s.deny => Ssh \in s.rules

VARIABLES
  tool,       \* FW_TOOL: the one the server has
  config,     \* what is under /etc/ufw, /etc/default/ufw or /etc/firewalld
  boot,       \* is the firewall started at boot?
  up,         \* does it filter now?
  live,       \* the ports a packet from outside reaches now
  timers,     \* transient timers and the script each will run
  pc, todo,   \* the run: its place, ports still to allow
  wasActive,  \* FW_WAS_ACTIVE
  snap,       \* the run's safety snapshot
  outcome,    \* how the last run ended
  before,     \* history: the firewall when the last run began
  first,      \* history: the rules before the first run
  disturbed,  \* history: the last run beside which a rollback ran, 0 if none
  runs, kills, reboots

firewall == <<config, boot, up, live>>
history  == <<tool, before, first, disturbed>>
bounds   == <<runs, kills, reboots>>
vars     == <<firewall, timers, pc, todo, wasActive, snap, outcome, history,
              bounds>>

Configs == [rules: SUBSET Ports, deny: BOOLEAN, file: BOOLEAN]

Running == {"check", "schedule", "prepare", "deny", "allow", "roles", "ftp",
            "finish", "agent", "banner", "restore", "reload"}

TypeOK ==
  /\ tool \in Tools
  /\ config \in Configs /\ boot \in BOOLEAN
  /\ up \in BOOLEAN /\ live \in SUBSET Ports
  /\ timers \subseteq [run: Nat, snap: [config: Configs, boot: BOOLEAN],
                       wasActive: BOOLEAN, phase: {"armed", "extracted"}]
  /\ pc \in {"idle"} \cup Running
  /\ todo \in SUBSET Ports /\ wasActive \in BOOLEAN
  /\ snap \in [config: Configs, boot: BOOLEAN]
  /\ outcome \in {"none", "running", "complete", "failed", "killed"}
  /\ before \in [rules: SUBSET Ports, up: BOOLEAN, live: SUBSET Ports]
  /\ first \in SUBSET Ports /\ disturbed \in Nat
  /\ runs \in Nat /\ kills \in Nat /\ reboots \in Nat

(* The ports open under a configuration that is loaded. *)
Reach(c) == IF c.deny THEN c.rules ELSE Ports

Init ==
  /\ \E s \in Servers :
       /\ tool = s.tool
       /\ config = [rules |-> s.rules, deny |-> s.deny, file |-> s.file]
       /\ boot = s.up /\ up = s.up
       /\ live = IF s.up THEN Reach(config) ELSE Ports
       /\ first = s.rules
  /\ disturbed = 0
  /\ timers = {}
  /\ pc = "idle" /\ todo = {} /\ wasActive = FALSE
  /\ snap = [config |-> config, boot |-> boot]
  /\ outcome = "none"
  /\ before = [rules |-> config.rules, up |-> up, live |-> live]
  /\ runs = 0 /\ kills = 0 /\ reboots = 0

-----------------------------------------------------------------------------
(* The run *)

(* create_reinstall_snapshot, then a few thousand lines of other work. *)
Begin ==
  /\ pc = "idle" /\ runs < MaxRuns
  /\ pc' = "check" /\ runs' = runs + 1 /\ outcome' = "running"
  /\ snap' = [config |-> config, boot |-> boot]
  /\ before' = [rules |-> config.rules, up |-> up, live |-> live]
  /\ UNCHANGED <<firewall, timers, todo, wasActive, tool, first, disturbed,
                 kills, reboots>>

CheckActive ==
  /\ pc = "check" /\ pc' = "schedule"
  /\ wasActive' = up
  /\ UNCHANGED <<firewall, timers, todo, snap, outcome, history, bounds>>

(* Mutant: the script saves the configuration alone, not the boot flag. *)
SaveConfigOnly ==
  /\ pc = "schedule" /\ pc' = "prepare"
  /\ timers' = timers \cup {[run |-> runs, snap |-> snap.config,
                             wasActive |-> up, phase |-> "armed"]}
  /\ UNCHANGED <<firewall, todo, wasActive, snap, outcome, history,
                 bounds>>

(* Mutant: the script is written for a firewall that was on. *)
AssumeActive ==
  /\ pc = "schedule" /\ pc' = "prepare"
  /\ timers' = timers \cup {[run |-> runs, snap |-> snap, wasActive |-> TRUE,
                             phase |-> "armed"]}
  /\ UNCHANGED <<firewall, todo, wasActive, snap, outcome, history,
                 bounds>>

(* The script carries the paths and the answer of fw_is_active as text. *)
ScheduleRollback ==
  /\ pc = "schedule" /\ pc' = "prepare"
  /\ timers' = timers \cup {[run |-> runs, snap |-> snap, wasActive |-> up,
                             phase |-> "armed"]}
  /\ UNCHANGED <<firewall, todo, wasActive, snap, outcome, history,
                 bounds>>

(* systemctl enable --now firewalld *)
Prepare ==
  /\ pc = "prepare" /\ pc' = "deny"
  /\ IF tool = "firewalld"
     THEN /\ boot' = TRUE /\ up' = TRUE
          /\ live' = IF up THEN live ELSE Reach(config)
     ELSE UNCHANGED <<boot, up, live>>
  /\ UNCHANGED <<config, timers, todo, wasActive, snap, outcome, history,
                 bounds>>

(* Mutant: ufw --force reset, and rules from scratch. *)
ResetFirewall ==
  /\ pc = "deny" /\ pc' = "allow"
  /\ todo' = StagePorts
  /\ config' = [config EXCEPT !.rules = {}]
  /\ live' = IF tool = "ufw" /\ boot /\ up THEN {} ELSE live
  /\ UNCHANGED <<boot, up, timers, wasActive, snap, outcome, history,
                 bounds>>

(* Mutant: the policy is enforced before the first port is allowed. *)
DenyAndEnable ==
  /\ pc = "deny" /\ pc' = "allow"
  /\ todo' = StagePorts
  /\ IF tool = "ufw" /\ ~wasActive
     THEN /\ config' = [config EXCEPT !.deny = TRUE]
          /\ boot' = TRUE /\ up' = TRUE /\ live' = Reach(config')
     ELSE UNCHANGED firewall
  /\ UNCHANGED <<timers, wasActive, snap, outcome, history, bounds>>

DefaultDeny ==
  /\ pc = "deny" /\ pc' = "allow"
  /\ todo' = StagePorts
  /\ IF tool = "ufw" /\ ~wasActive
     THEN /\ config' = [config EXCEPT !.deny = TRUE]
          /\ live' = IF boot /\ up THEN Reach(config') ELSE live
     ELSE UNCHANGED <<config, live>>
  /\ UNCHANGED <<boot, up, timers, wasActive, snap, outcome, history,
                 bounds>>

(* Before the panel is opened to one source, ufw deletes the rule that     *)
(* opened it to all, if there is one.                                      *)
DeleteBroadRule ==
  /\ pc = "allow" /\ todo = {Panel} /\ tool = "ufw"
  /\ config' = [config EXCEPT !.rules = @ \ {Panel}]
  /\ live' = IF boot /\ up /\ config.deny THEN live \ {Panel} ELSE live
  /\ UNCHANGED <<boot, up, timers, pc, todo, wasActive, snap, outcome, history,
                 bounds>>

(* fw_allow, and fw_allow_from for the panel: the SSH port first, the      *)
(* panel's last.  firewall-cmd talks to a running firewalld only.          *)
Allow(p) ==
  /\ pc \in {"allow", "ftp"} /\ p \in todo
  /\ Ssh \in todo => p = Ssh
  /\ p = Panel => todo = {Panel}
  /\ tool = "firewalld" => up
  /\ config' = [config EXCEPT !.rules = @ \cup {p}, !.file = TRUE]
  /\ live' = IF tool = "ufw" /\ boot /\ up THEN live \cup {p} ELSE live
  /\ todo' = todo \ {p}
  /\ UNCHANGED <<boot, up, timers, pc, wasActive, snap, outcome, history,
                 bounds>>

(* fw_commit *)
CommitFirewall ==
  /\ pc \in {"allow", "ftp"} /\ todo = {}
  /\ tool = "firewalld" => up
  /\ pc' = IF pc = "allow" THEN "roles" ELSE "finish"
  /\ live' = Reach(config)
  /\ up' = TRUE
  /\ boot' = (tool = "ufw" \/ boot)
  /\ UNCHANGED <<config, timers, todo, wasActive, snap, outcome, history,
                 bounds>>

(* The packages and services of the roles; the FTP role opens its ports. *)
InstallRoles ==
  /\ pc = "roles"
  /\ pc' = IF FtpPorts = {} THEN "finish" ELSE "ftp"
  /\ todo' = FtpPorts
  /\ UNCHANGED <<firewall, timers, wasActive, snap, outcome, history,
                 bounds>>

(* Mutant: the rollback is left to fire. *)
LeaveArmed ==
  /\ pc = "finish" /\ pc' = "agent"
  /\ UNCHANGED <<firewall, timers, todo, wasActive, snap, outcome, history,
                 bounds>>

(* cancel_firewall_rollback: stops this run's timer, and its service when  *)
(* the script has begun.                                                   *)
CancelRollback ==
  /\ pc = "finish" /\ pc' = "agent"
  /\ timers' = {t \in timers : t.run # runs}
  /\ UNCHANGED <<firewall, todo, wasActive, snap, outcome, history,
                 bounds>>

(* install-update-agent.sh, and the state_write of complete. *)
Complete ==
  /\ pc = "agent" /\ pc' = "banner"
  /\ outcome' = "complete"
  /\ UNCHANGED <<firewall, timers, todo, wasActive, snap, history, bounds>>

(* The banner is printed; the exit trap has nothing to undo. *)
Finish ==
  /\ pc = "banner" /\ pc' = "idle"
  /\ UNCHANGED <<firewall, timers, todo, wasActive, snap, outcome, history,
                 bounds>>

(* A command that fails, the banner's included, or a signal. *)
Fail ==
  /\ pc \in Running \ {"restore", "reload"}
  /\ pc' = "restore" /\ todo' = {} /\ outcome' = "running"
  /\ UNCHANGED <<firewall, timers, wasActive, snap, history, bounds>>

(* A tar archive puts its files back and removes none. *)
Extracted(s) ==
  [rules |-> IF s.config.file THEN s.config.rules ELSE config.rules,
   deny  |-> s.config.deny,
   file  |-> s.config.file \/ config.file]

BootAfter(s) == IF tool = "ufw" THEN s.boot ELSE boot

(* The snapshot comes back over the managed paths. *)
RestoreFirewall ==
  /\ pc = "restore" /\ pc' = "reload"
  /\ config' = Extracted(snap)
  /\ boot' = BootAfter(snap)
  /\ UNCHANGED <<up, live, timers, todo, wasActive, snap, outcome, history,
                 bounds>>

(* Mutant: files without a reload. *)
RestoreOnly ==
  /\ pc = "reload" /\ pc' = "idle"
  /\ outcome' = "failed"
  /\ UNCHANGED <<firewall, timers, todo, wasActive, snap, history, bounds>>

(* ufw reload, or firewall-cmd --reload.  The timer stays armed. *)
ReloadFirewall ==
  /\ pc = "reload" /\ pc' = "idle"
  /\ LET reloads == IF tool = "ufw" THEN boot ELSE up
     IN  /\ up' = (up \/ reloads)
         /\ live' = IF reloads THEN Reach(config) ELSE live
  /\ outcome' = "failed"
  /\ UNCHANGED <<config, boot, timers, todo, wasActive, snap, history, bounds>>

-----------------------------------------------------------------------------
(* The timers *)

(* A run may last longer than five minutes, and a timer of an earlier run  *)
(* may still be there when the next one has begun.                         *)
Disturbs(t) == disturbed' = IF pc # "idle" \/ t.run # runs THEN runs
                            ELSE disturbed

StartRollback(t) ==
  /\ t.phase = "armed"
  /\ config' = Extracted(t.snap)
  /\ boot' = BootAfter(t.snap)
  /\ timers' = (timers \ {t}) \cup {[t EXCEPT !.phase = "extracted"]}
  /\ Disturbs(t)
  /\ UNCHANGED <<up, live, pc, todo, wasActive, snap, outcome, tool, before,
                 first, bounds>>

FinishRollback(t) ==
  /\ t.phase = "extracted"
  /\ LET on == IF tool = "ufw" THEN boot ELSE up
     IN  IF t.wasActive
         THEN /\ up' = (up \/ on)
              /\ live' = IF on THEN Reach(config) ELSE live
              /\ UNCHANGED boot
         ELSE /\ up' = FALSE /\ live' = Ports /\ boot' = FALSE
  /\ timers' = timers \ {t}
  /\ Disturbs(t)
  /\ UNCHANGED <<config, pc, todo, wasActive, snap, outcome, tool, before,
                 first, bounds>>

-----------------------------------------------------------------------------
(* SIGKILL of the run, or its terminal's session. *)
Kill ==
  /\ pc # "idle" /\ kills < MaxKills
  /\ kills' = kills + 1
  /\ pc' = "idle" /\ todo' = {} /\ outcome' = "killed"
  /\ UNCHANGED <<firewall, timers, wasActive, snap, history, runs, reboots>>

(* Transient units do not survive a reboot. *)
PowerLoss ==
  /\ reboots < MaxReboots
  /\ reboots' = reboots + 1
  /\ timers' = {} /\ todo' = {}
  /\ pc' = "idle"
  /\ outcome' = IF pc = "idle" THEN outcome ELSE "killed"
  /\ up' = boot
  /\ live' = IF boot THEN Reach(config) ELSE Ports
  /\ UNCHANGED <<config, boot, wasActive, snap, history, runs, kills>>

RunStep ==
  \/ CheckActive \/ ScheduleRollback \/ Prepare \/ DefaultDeny
  \/ DeleteBroadRule \/ \E p \in Ports : Allow(p)
  \/ CommitFirewall \/ InstallRoles \/ CancelRollback \/ Complete \/ Finish
  \/ Fail \/ RestoreFirewall \/ ReloadFirewall

Rollback == \E t \in timers : StartRollback(t) \/ FinishRollback(t)

Next == Begin \/ RunStep \/ Rollback \/ Kill \/ PowerLoss

Spec == Init /\ [][Next]_vars

(* systemd fires a timer that is due and runs its script to the end. *)
FairSpec == Spec /\ WF_vars(RunStep) /\ WF_vars(Rollback)

-----------------------------------------------------------------------------
(* The firewall never filters without the operator's SSH port, at any      *)
(* moment of any run, timer, kill and reboot.  On ufw, off or on, with or  *)
(* without a rule for it, that is because the port is allowed before the   *)
(* policy denies and the firewall is on ("Those ports are allowed before   *)
(* the default-deny policy is enabled", FIREWALL.md:23), as long as no     *)
(* rollback runs beside a later step of a run.  A server whose rules had   *)
(* the port before the first run is safe from the rollbacks too.           *)
SshReachable ==
  up /\ (Ssh \in first \/ (tool = "ufw" /\ disturbed = 0)) => Ssh \in live

(* A rule the server had before is never lost: "a control-panel installer  *)
(* must not erase VPN, monitoring, cluster or provider-management rules"   *)
(* (install.base.sh:1020), not by its own rollbacks either.                *)
ForeignRulesKept ==
  /\ first \cap Foreign \subseteq config.rules
  /\ first \cap Foreign \subseteq live

(* A run that says complete, and beside which no rollback ran, leaves the  *)
(* firewall it committed: on, with the ports of its roles open, and        *)
(* denying the rest where the run switched ufw on.  A timer that is left   *)
(* armed would break it at any later moment.  A run longer than its five   *)
(* minutes is not covered: what FIREWALL.md:29 says of it is               *)
(* CancelledInTime.                                                        *)
CompleteKeepsFirewall ==
  outcome = "complete" /\ disturbed # runs =>
    /\ up /\ StagePorts \cup FtpPorts \subseteq live
    /\ tool = "ufw" /\ ~before.up => config.deny

(* The same of every run that says complete, whenever its timer fires: "A  *)
(* successful installation cancels the rollback" (FIREWALL.md:29).         *)
CancelledInTime ==
  outcome = "complete" => up /\ StagePorts \cup FtpPorts \subseteq live

(* No run denies the operator's SSH port on any server: "Those ports are   *)
(* allowed before the default-deny policy is enabled" (FIREWALL.md:23).    *)
SshAllowedFirst == pc \in {"deny", "allow"} => (up => Ssh \in live)

(* A complete run leaves no rollback of its own, not even one half done.   *)
CompleteDisarms ==
  outcome = "complete" => \A t \in timers : t.run # runs

(* The last run found a firewall whose rules are in files and which had    *)
(* loaded them.                                                            *)
Loaded == /\ snap.config.file /\ snap.boot = before.up
          /\ before.live = IF before.up THEN Reach(snap.config) ELSE Ports

(* A server whose firewall was on has exactly its rules back when a run    *)
(* has failed anywhere, its banner included, and keeps them when the run's *)
(* own timer fires afterwards; unless a rollback ran beside the run.       *)
FailedRestoresFirewall ==
  outcome = "failed" /\ before.up /\ Loaded /\ disturbed # runs =>
    /\ config.rules = before.rules
    /\ up /\ live = before.live

(* A run that is over and left its timer behind, and no earlier run's with *)
(* it, gets the firewall of before back, on or off ("a systemd rollback    *)
(* that restores the saved firewall configuration after five minutes",     *)
(* FIREWALL.md:28), unless the next run begins or the power goes before    *)
(* the timer fires: a transient unit does not survive a reboot.            *)
Restored == config.rules = before.rules /\ up = before.up /\ live = before.live

Left(n, k) ==
  /\ pc = "idle" /\ runs = n /\ reboots = k /\ Loaded /\ disturbed # runs
  /\ timers # {} /\ \A t \in timers : t.run = runs

RollbackRestores ==
  \A n \in 0..MaxRuns, k \in 0..MaxReboots :
    Left(n, k) ~> (Restored \/ runs > n \/ reboots > k)
=============================================================================
