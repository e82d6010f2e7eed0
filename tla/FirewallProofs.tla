--------------------------- MODULE FirewallProofs ---------------------------
(***************************************************************************)
(* What holds of the firewall and its rollbacks for both tools, every set  *)
(* of ports and servers, and any number of runs, kills and reboots.        *)
(***************************************************************************)
EXTENDS FirewallRollback, TLAPS

(* The configuration a snapshot leaves behind is a configuration, and a    *)
(* loaded configuration opens ports that exist.                            *)
LEMMA ExtractedType ==
  ASSUME config \in Configs, NEW s \in [config: Configs, boot: BOOLEAN]
  PROVE  Extracted(s) \in Configs
PROOF BY DEF Extracted, Configs

LEMMA ReachType == \A c \in Configs : Reach(c) \in SUBSET Ports
PROOF BY DEF Reach, Configs

LEMMA ReachPermits ==
  \A c \in Configs : \A p \in SUBSET Ports :
    p \subseteq c.rules => p \subseteq Reach(c)
PROOF BY DEF Reach, Configs

LEMMA StartType == Init => TypeOK
PROOF
<1> SUFFICES ASSUME Init PROVE TypeOK
  OBVIOUS
<1>1. PICK s \in Servers :
        /\ tool = s.tool
        /\ config = [rules |-> s.rules, deny |-> s.deny, file |-> s.file]
        /\ boot = s.up /\ up = s.up
        /\ live = IF s.up THEN Reach(config) ELSE Ports
        /\ first = s.rules
  BY DEF Init
<1>2. s \in [tool: Tools, rules: SUBSET Ports, deny: BOOLEAN, up: BOOLEAN,
             file: BOOLEAN]
  BY ServersAssumption
<1>3. config \in Configs /\ boot \in BOOLEAN /\ up \in BOOLEAN
  BY <1>1, <1>2 DEF Configs
<1>4. live \in SUBSET Ports /\ first \in SUBSET Ports
  BY <1>1, <1>2, <1>3, ReachType
<1>5. config.rules \in SUBSET Ports
  BY <1>3 DEF Configs
<1>6. tool \in Tools
  BY <1>1, <1>2
<1>7. QED
  BY <1>3, <1>4, <1>5, <1>6 DEF Init, TypeOK

(* Every step keeps every variable in its type. *)
LEMMA TypeStep ==
  ASSUME TypeOK, [Next]_vars
  PROVE  TypeOK'
PROOF
<1> USE SshAssumption, ReachType, ExtractedType DEF TypeOK, Running
<1>1. CASE UNCHANGED vars
  BY <1>1 DEF vars, firewall, history, bounds
<1>2. CASE Begin
  BY <1>2 DEF Begin, firewall, Configs
<1>3. CASE CheckActive
  BY <1>3 DEF CheckActive, firewall, history, bounds
<1>4. CASE ScheduleRollback
  BY <1>4 DEF ScheduleRollback, firewall, history, bounds
<1>5. CASE Prepare
  BY <1>5 DEF Prepare, history, bounds
<1>6. CASE DefaultDeny
  <2>1. config' \in Configs
    BY <1>6 DEF DefaultDeny, Configs
  <2>2. Reach(config') \in SUBSET Ports
    BY <2>1
  <2>3. live' \in SUBSET Ports /\ StagePorts \subseteq Ports
    BY <1>6, <2>2 DEF DefaultDeny, Ports
  <2>4. QED
    BY <1>6, <2>1, <2>3 DEF DefaultDeny, history, bounds
<1>7. CASE DeleteBroadRule
  BY <1>7 DEF DeleteBroadRule, history, bounds, Configs
<1>8. ASSUME NEW q \in Ports, Allow(q) PROVE TypeOK'
  BY <1>8 DEF Allow, history, bounds, Configs
<1>9. CASE CommitFirewall
  BY <1>9 DEF CommitFirewall, history, bounds
<1>10. CASE InstallRoles
  BY <1>10 DEF InstallRoles, firewall, history, bounds, Ports
<1>11. CASE CancelRollback
  BY <1>11 DEF CancelRollback, firewall, history, bounds
<1>12. CASE Complete
  BY <1>12 DEF Complete, firewall, history, bounds
<1>13. CASE Finish
  BY <1>13 DEF Finish, firewall, history, bounds
<1>14. CASE Fail
  BY <1>14 DEF Fail, firewall, history, bounds, Running
<1>15. CASE RestoreFirewall
  BY <1>15 DEF RestoreFirewall, history, bounds, BootAfter
<1>16. CASE ReloadFirewall
  BY <1>16 DEF ReloadFirewall, history, bounds
<1>17. ASSUME NEW t \in timers, StartRollback(t) PROVE TypeOK'
  BY <1>17 DEF StartRollback, Disturbs, bounds, BootAfter
<1>18. ASSUME NEW t \in timers, FinishRollback(t) PROVE TypeOK'
  BY <1>18 DEF FinishRollback, Disturbs, bounds
<1>19. CASE Kill
  BY <1>19 DEF Kill, firewall, history
<1>20. CASE PowerLoss
  BY <1>20 DEF PowerLoss, history
<1>21. QED
  BY <1>1, <1>2, <1>3, <1>4, <1>5, <1>6, <1>7, <1>8, <1>9, <1>10, <1>11,
     <1>12, <1>13, <1>14, <1>15, <1>16, <1>17, <1>18, <1>19, <1>20
  DEF Next, RunStep, Rollback

(* The variables keep their types whatever the timers interleave with.     *)
THEOREM TypeCorrect == Spec => []TypeOK
PROOF
<1>1. QED
  BY StartType, TypeStep, PTL DEF Spec

-----------------------------------------------------------------------------
(* Every configuration a run, a rollback or a reboot could load permits    *)
(* the ports of p: the one on disk, the one the run saved, and the ones    *)
(* the timers hold.                                                        *)
AllPermit(p) ==
  /\ p \subseteq config.rules
  /\ p \subseteq snap.config.rules
  /\ \A t \in timers : p \subseteq t.snap.config.rules

LEMMA PermitStep ==
  ASSUME TypeOK, [Next]_vars, NEW p, Panel \notin p, AllPermit(p)
  PROVE  AllPermit(p)'
PROOF
<1> USE DEF AllPermit, TypeOK
<1>1. CASE UNCHANGED vars
  BY <1>1 DEF vars, firewall, history, bounds
<1>2. CASE Begin
  BY <1>2 DEF Begin, firewall
<1>3. CASE CheckActive
  BY <1>3 DEF CheckActive, firewall, history, bounds
<1>4. CASE ScheduleRollback
  BY <1>4 DEF ScheduleRollback, firewall, history, bounds
<1>5. CASE Prepare
  BY <1>5 DEF Prepare, history, bounds
<1>6. CASE DefaultDeny
  BY <1>6 DEF DefaultDeny, history, bounds, Configs
<1>7. CASE DeleteBroadRule
  BY <1>7 DEF DeleteBroadRule, history, bounds, Configs
<1>8. ASSUME NEW q \in Ports, Allow(q) PROVE AllPermit(p)'
  BY <1>8 DEF Allow, history, bounds, Configs
<1>9. CASE CommitFirewall
  BY <1>9 DEF CommitFirewall, history, bounds
<1>10. CASE InstallRoles
  BY <1>10 DEF InstallRoles, firewall, history, bounds
<1>11. CASE CancelRollback
  BY <1>11 DEF CancelRollback, firewall, history, bounds
<1>12. CASE Complete
  BY <1>12 DEF Complete, firewall, history, bounds
<1>13. CASE Finish
  BY <1>13 DEF Finish, firewall, history, bounds
<1>14. CASE Fail
  BY <1>14 DEF Fail, firewall, history, bounds, Running
<1>15. CASE RestoreFirewall
  BY <1>15 DEF RestoreFirewall, history, bounds, Extracted, Configs
<1>16. CASE ReloadFirewall
  BY <1>16 DEF ReloadFirewall, history, bounds
<1>17. ASSUME NEW t \in timers, StartRollback(t) PROVE AllPermit(p)'
  BY <1>17 DEF StartRollback, Disturbs, bounds, Extracted, Configs
<1>18. ASSUME NEW t \in timers, FinishRollback(t) PROVE AllPermit(p)'
  BY <1>18 DEF FinishRollback, Disturbs, bounds
<1>19. CASE Kill
  BY <1>19 DEF Kill, firewall, history
<1>20. CASE PowerLoss
  BY <1>20 DEF PowerLoss, history
<1>21. QED
  BY <1>1, <1>2, <1>3, <1>4, <1>5, <1>6, <1>7, <1>8, <1>9, <1>10, <1>11,
     <1>12, <1>13, <1>14, <1>15, <1>16, <1>17, <1>18, <1>19, <1>20
  DEF Next, RunStep, Rollback

(* Ports every configuration permits stay reachable while a firewall       *)
(* filters, and everything is when none does.                              *)
Open(p) == p \subseteq Ports /\ p \subseteq live

LEMMA OpenStep ==
  ASSUME TypeOK, [Next]_vars, NEW p, Panel \notin p, AllPermit(p), Open(p)
  PROVE  Open(p)'
PROOF
<1> USE ReachPermits DEF AllPermit, Open, TypeOK
<1>1. CASE UNCHANGED vars
  BY <1>1 DEF vars, firewall, history, bounds
<1>2. CASE Begin
  BY <1>2 DEF Begin, firewall
<1>3. CASE CheckActive
  BY <1>3 DEF CheckActive, firewall, history, bounds
<1>4. CASE ScheduleRollback
  BY <1>4 DEF ScheduleRollback, firewall, history, bounds
<1>5. CASE Prepare
  BY <1>5 DEF Prepare, history, bounds
<1>6. CASE DefaultDeny
  <2>1. config' \in Configs /\ p \subseteq config'.rules
    BY <1>6 DEF DefaultDeny, Configs
  <2>2. p \subseteq Reach(config')
    BY <2>1
  <2>3. QED
    BY <1>6, <2>2 DEF DefaultDeny
<1>7. CASE DeleteBroadRule
  BY <1>7 DEF DeleteBroadRule, history, bounds, Configs
<1>8. ASSUME NEW q \in Ports, Allow(q) PROVE Open(p)'
  BY <1>8 DEF Allow, history, bounds, Configs
<1>9. CASE CommitFirewall
  BY <1>9 DEF CommitFirewall, history, bounds
<1>10. CASE InstallRoles
  BY <1>10 DEF InstallRoles, firewall, history, bounds
<1>11. CASE CancelRollback
  BY <1>11 DEF CancelRollback, firewall, history, bounds
<1>12. CASE Complete
  BY <1>12 DEF Complete, firewall, history, bounds
<1>13. CASE Finish
  BY <1>13 DEF Finish, firewall, history, bounds
<1>14. CASE Fail
  BY <1>14 DEF Fail, firewall, history, bounds, Running
<1>15. CASE RestoreFirewall
  BY <1>15 DEF RestoreFirewall, history, bounds
<1>16. CASE ReloadFirewall
  BY <1>16 DEF ReloadFirewall, history, bounds
<1>17. ASSUME NEW t \in timers, StartRollback(t) PROVE Open(p)'
  BY <1>17 DEF StartRollback, Disturbs, bounds
<1>18. ASSUME NEW t \in timers, FinishRollback(t) PROVE Open(p)'
  BY <1>18 DEF FinishRollback, Disturbs, bounds
<1>19. CASE Kill
  BY <1>19 DEF Kill, firewall, history
<1>20. CASE PowerLoss
  BY <1>20 DEF PowerLoss, history
<1>21. QED
  BY <1>1, <1>2, <1>3, <1>4, <1>5, <1>6, <1>7, <1>8, <1>9, <1>10, <1>11,
     <1>12, <1>13, <1>14, <1>15, <1>16, <1>17, <1>18, <1>19, <1>20
  DEF Next, RunStep, Rollback

LEMMA FirstFixed == [Next]_vars => first' = first
PROOF
<1>1. QED
  BY DEF Next, vars, RunStep, Rollback, Begin, CheckActive, ScheduleRollback,
         Prepare, DefaultDeny, DeleteBroadRule, Allow, CommitFirewall,
         InstallRoles, CancelRollback, Complete, Finish, Fail,
         RestoreFirewall, ReloadFirewall, StartRollback, FinishRollback,
         Kill, PowerLoss, history

(* From every server, with either tool, the rules of somebody else stay    *)
(* permitted and reachable through runs, rollbacks, kills and reboots.     *)
THEOREM ForeignAlwaysKept == Spec => []ForeignRulesKept
PROOF
<1> DEFINE theirs == first \cap Foreign
           IInv == TypeOK /\ AllPermit(theirs) /\ Open(theirs)
<1>1. Init => IInv
  <2> SUFFICES ASSUME Init PROVE IInv
    OBVIOUS
  <2>1. TypeOK
    BY StartType
  <2>2. PICK s \in Servers : config.rules = s.rules /\ first = s.rules
    BY DEF Init
  <2>3. first = config.rules /\ snap.config = config /\ timers = {}
    BY <2>2 DEF Init
  <2>4. live = Reach(config) \/ live = Ports
    BY DEF Init
  <2>5. first \in SUBSET Ports /\ first \subseteq live
    BY <2>1, <2>3, <2>4, ReachPermits DEF TypeOK
  <2>6. QED
    BY <2>1, <2>3, <2>5 DEF AllPermit, Open
<1>2. IInv /\ [Next]_vars => IInv'
  <2> SUFFICES ASSUME IInv, [Next]_vars PROVE IInv'
    OBVIOUS
  <2>1. theirs' = theirs /\ Panel \notin theirs
    BY FirstFixed, PanelAssumption
  <2>2. TypeOK'
    BY TypeStep
  <2>3. AllPermit(theirs)' /\ Open(theirs)'
    BY <2>1, PermitStep, OpenStep DEF AllPermit, Open
  <2>4. QED
    BY <2>2, <2>3
<1>3. IInv => ForeignRulesKept
  BY DEF AllPermit, Open, ForeignRulesKept
<1>4. QED
  BY <1>1, <1>2, <1>3, PTL DEF Spec

-----------------------------------------------------------------------------
(* What ties the timers and the snapshot to the run: a timer belongs to a  *)
(* run that has begun, the timer of the last run holds its snapshot and is *)
(* gone from its cancellation on.                                          *)
Owned ==
  /\ disturbed <= runs
  /\ runs = 0 => pc = "idle" /\ timers = {} /\ outcome = "none"
  /\ \A t \in timers : t.run <= runs /\ (t.run = runs => t.snap = snap)
  /\ outcome = "failed" => pc = "idle"
  /\ outcome = "complete" => pc \in {"banner", "idle"}
  /\ outcome = "complete" \/ pc \in {"agent", "banner"} =>
       \A t \in timers : t.run # runs
  /\ snap.config.rules = before.rules

LEMMA OwnedStep ==
  ASSUME TypeOK, [Next]_vars, Owned
  PROVE  Owned'
PROOF
<1> USE DEF TypeOK, Owned
<1>1. CASE UNCHANGED vars
  BY <1>1 DEF vars, firewall, history, bounds
<1>2. CASE Begin
  BY <1>2 DEF Begin, firewall
<1>3. CASE CheckActive
  BY <1>3 DEF CheckActive, firewall, history, bounds
<1>4. CASE ScheduleRollback
  BY <1>4 DEF ScheduleRollback, firewall, history, bounds
<1>5. CASE Prepare
  BY <1>5 DEF Prepare, history, bounds
<1>6. CASE DefaultDeny
  BY <1>6 DEF DefaultDeny, history, bounds, Configs
<1>7. CASE DeleteBroadRule
  BY <1>7 DEF DeleteBroadRule, history, bounds, Configs
<1>8. ASSUME NEW q \in Ports, Allow(q) PROVE Owned'
  BY <1>8 DEF Allow, history, bounds, Configs
<1>9. CASE CommitFirewall
  BY <1>9 DEF CommitFirewall, history, bounds
<1>10. CASE InstallRoles
  BY <1>10 DEF InstallRoles, firewall, history, bounds
<1>11. CASE CancelRollback
  BY <1>11 DEF CancelRollback, firewall, history, bounds
<1>12. CASE Complete
  BY <1>12 DEF Complete, firewall, history, bounds
<1>13. CASE Finish
  BY <1>13 DEF Finish, firewall, history, bounds
<1>14. CASE Fail
  BY <1>14 DEF Fail, firewall, history, bounds, Running
<1>15. CASE RestoreFirewall
  BY <1>15 DEF RestoreFirewall, history, bounds
<1>16. CASE ReloadFirewall
  BY <1>16 DEF ReloadFirewall, history, bounds
<1>17. ASSUME NEW t \in timers, StartRollback(t) PROVE Owned'
  BY <1>17 DEF StartRollback, Disturbs, bounds
<1>18. ASSUME NEW t \in timers, FinishRollback(t) PROVE Owned'
  BY <1>18 DEF FinishRollback, Disturbs, bounds
<1>19. CASE Kill
  BY <1>19 DEF Kill, firewall, history
<1>20. CASE PowerLoss
  BY <1>20 DEF PowerLoss, history
<1>21. QED
  BY <1>1, <1>2, <1>3, <1>4, <1>5, <1>6, <1>7, <1>8, <1>9, <1>10, <1>11,
     <1>12, <1>13, <1>14, <1>15, <1>16, <1>17, <1>18, <1>19, <1>20
  DEF Next, RunStep, Rollback

LEMMA OwnedStart == Init => Owned
PROOF BY DEF Init, Owned

(* A run that is complete has left no rollback of its own.                 *)
THEOREM CompleteAlwaysDisarms == Spec => []CompleteDisarms
PROOF
<1>1. Init => TypeOK /\ Owned
  BY StartType, OwnedStart
<1>2. TypeOK /\ Owned /\ [Next]_vars => (TypeOK /\ Owned)'
  BY TypeStep, OwnedStep
<1>3. Owned => CompleteDisarms
  BY DEF Owned, CompleteDisarms
<1>4. QED
  BY <1>1, <1>2, <1>3, PTL DEF Spec

-----------------------------------------------------------------------------
(* What a run and its timer believe of the firewall is true while no       *)
(* rollback has run beside it.                                             *)
Steady ==
  disturbed # runs =>
    /\ pc \in {"check", "schedule"} => up = before.up
    /\ pc \in {"schedule", "prepare", "deny"} =>
         wasActive = before.up /\ (tool = "ufw" => up = before.up)
    /\ \A t \in timers : t.run = runs => t.wasActive = before.up

LEMMA SteadyStep ==
  ASSUME TypeOK, [Next]_vars, Owned, Steady
  PROVE  Steady'
PROOF
<1> USE DEF TypeOK, Owned, Steady
<1>1. CASE UNCHANGED vars
  BY <1>1 DEF vars, firewall, history, bounds
<1>2. CASE Begin
  BY <1>2 DEF Begin, firewall
<1>3. CASE CheckActive
  BY <1>3 DEF CheckActive, firewall, history, bounds
<1>4. CASE ScheduleRollback
  BY <1>4 DEF ScheduleRollback, firewall, history, bounds
<1>5. CASE Prepare
  BY <1>5 DEF Prepare, history, bounds
<1>6. CASE DefaultDeny
  BY <1>6 DEF DefaultDeny, history, bounds, Configs
<1>7. CASE DeleteBroadRule
  BY <1>7 DEF DeleteBroadRule, history, bounds, Configs
<1>8. ASSUME NEW q \in Ports, Allow(q) PROVE Steady'
  BY <1>8 DEF Allow, history, bounds, Configs
<1>9. CASE CommitFirewall
  BY <1>9 DEF CommitFirewall, history, bounds
<1>10. CASE InstallRoles
  BY <1>10 DEF InstallRoles, firewall, history, bounds
<1>11. CASE CancelRollback
  BY <1>11 DEF CancelRollback, firewall, history, bounds
<1>12. CASE Complete
  BY <1>12 DEF Complete, firewall, history, bounds
<1>13. CASE Finish
  BY <1>13 DEF Finish, firewall, history, bounds
<1>14. CASE Fail
  BY <1>14 DEF Fail, firewall, history, bounds, Running
<1>15. CASE RestoreFirewall
  BY <1>15 DEF RestoreFirewall, history, bounds
<1>16. CASE ReloadFirewall
  BY <1>16 DEF ReloadFirewall, history, bounds
<1>17. ASSUME NEW t \in timers, StartRollback(t) PROVE Steady'
  BY <1>17 DEF StartRollback, Disturbs, bounds
<1>18. ASSUME NEW t \in timers, FinishRollback(t) PROVE Steady'
  BY <1>18 DEF FinishRollback, Disturbs, bounds
<1>19. CASE Kill
  BY <1>19 DEF Kill, firewall, history
<1>20. CASE PowerLoss
  BY <1>20 DEF PowerLoss, history
<1>21. QED
  BY <1>1, <1>2, <1>3, <1>4, <1>5, <1>6, <1>7, <1>8, <1>9, <1>10, <1>11,
     <1>12, <1>13, <1>14, <1>15, <1>16, <1>17, <1>18, <1>19, <1>20
  DEF Next, RunStep, Rollback

(* How far the run has opened the ports of its roles, and that a reboot    *)
(* opens them again.                                                       *)
Committed ==
  pc \in {"roles", "ftp", "finish", "agent", "banner"} \/ outcome = "complete"

Opened ==
  disturbed # runs =>
    /\ pc \in {"deny", "allow"} /\ tool = "firewalld" => boot
    /\ pc = "allow" => StagePorts \subseteq config.rules \cup todo
    /\ Committed => up /\ boot /\ StagePorts \subseteq config.rules \cap live
    /\ pc = "ftp" => FtpPorts \subseteq config.rules \cup todo
    /\ pc \in {"finish", "agent", "banner"} \/ outcome = "complete" =>
         FtpPorts \subseteq config.rules \cap live
    /\ tool = "ufw" /\ ~before.up /\ (pc = "allow" \/ Committed) =>
         config.deny

(* Each port stays open from the command that allows it.                   *)
LEMMA OpenedStep ==
  ASSUME TypeOK, [Next]_vars, Owned, Owned', Steady, Opened
  PROVE  Opened'
PROOF
<1> USE ReachPermits DEF TypeOK, Owned, Steady, Opened, Committed
<1>1. CASE UNCHANGED vars
  BY <1>1 DEF vars, firewall, history, bounds
<1>2. CASE Begin
  BY <1>2 DEF Begin, firewall
<1>3. CASE CheckActive
  BY <1>3 DEF CheckActive, firewall, history, bounds
<1>4. CASE ScheduleRollback
  BY <1>4 DEF ScheduleRollback, firewall, history, bounds
<1>5. CASE Prepare
  BY <1>5 DEF Prepare, history, bounds
<1>6. CASE DefaultDeny
  BY <1>6 DEF DefaultDeny, history, bounds, Configs
<1>7. CASE DeleteBroadRule
  BY <1>7 DEF DeleteBroadRule, history, bounds, Configs
<1>8. ASSUME NEW q \in Ports, Allow(q) PROVE Opened'
  BY <1>8 DEF Allow, history, bounds, Configs
<1>9. CASE CommitFirewall
  <2>1. StagePorts \subseteq Ports /\ FtpPorts \subseteq Ports
    BY DEF Ports
  <2>2. ASSUME NEW p \in SUBSET Ports, p \subseteq config.rules
        PROVE  p \subseteq Reach(config)
    BY <2>2
  <2>3. disturbed # runs => StagePorts \subseteq config.rules
    BY <1>9 DEF CommitFirewall
  <2>4. disturbed # runs /\ pc = "ftp" => FtpPorts \subseteq config.rules
    BY <1>9 DEF CommitFirewall
  <2>5. disturbed # runs => StagePorts \subseteq Reach(config)
    BY <2>1, <2>2, <2>3
  <2>6. disturbed # runs /\ pc = "ftp" => FtpPorts \subseteq Reach(config)
    BY <2>1, <2>2, <2>4
  <2>7. QED
    BY <1>9, <2>3, <2>4, <2>5, <2>6 DEF CommitFirewall, history, bounds, Tools
<1>10. CASE InstallRoles
  BY <1>10 DEF InstallRoles, firewall, history, bounds
<1>11. CASE CancelRollback
  BY <1>11 DEF CancelRollback, firewall, history, bounds
<1>12. CASE Complete
  BY <1>12 DEF Complete, firewall, history, bounds
<1>13. CASE Finish
  BY <1>13 DEF Finish, firewall, history, bounds
<1>14. CASE Fail
  BY <1>14 DEF Fail, firewall, history, bounds, Running
<1>15. CASE RestoreFirewall
  BY <1>15 DEF RestoreFirewall, history, bounds
<1>16. CASE ReloadFirewall
  BY <1>16 DEF ReloadFirewall, history, bounds
<1>17. ASSUME NEW t \in timers, StartRollback(t) PROVE Opened'
  BY <1>17 DEF StartRollback, Disturbs, bounds
<1>18. ASSUME NEW t \in timers, FinishRollback(t) PROVE Opened'
  BY <1>18 DEF FinishRollback, Disturbs, bounds
<1>19. CASE Kill
  BY <1>19 DEF Kill, firewall, history
<1>20. CASE PowerLoss
  BY <1>20 DEF PowerLoss, history
<1>21. QED
  BY <1>1, <1>2, <1>3, <1>4, <1>5, <1>6, <1>7, <1>8, <1>9, <1>10, <1>11,
     <1>12, <1>13, <1>14, <1>15, <1>16, <1>17, <1>18, <1>19, <1>20
  DEF Next, RunStep, Rollback

(* Every run that completes, and beside which no rollback ran, leaves the  *)
(* firewall it committed on, with the ports of its roles open, after its   *)
(* banner and reboots too, until the next run begins or an earlier timer   *)
(* fires: on every server, over any number of runs, kills and reboots.     *)
THEOREM CompletesWithFirewall == Spec => []CompleteKeepsFirewall
PROOF
<1> DEFINE IInv == TypeOK /\ Owned /\ Steady /\ Opened
<1>1. Init => IInv
  <2>1. Init => Steady /\ Opened
    BY DEF Init, Steady, Opened
  <2>2. QED
    BY <2>1, StartType, OwnedStart
<1>2. IInv /\ [Next]_vars => IInv'
  <2> SUFFICES ASSUME IInv, [Next]_vars PROVE IInv'
    OBVIOUS
  <2>1. TypeOK' /\ Owned' /\ Steady'
    BY TypeStep, OwnedStep, SteadyStep
  <2>2. Opened'
    BY <2>1, OpenedStep
  <2>3. QED
    BY <2>1, <2>2
<1>3. IInv => CompleteKeepsFirewall
  BY DEF Opened, Committed, CompleteKeepsFirewall
<1>4. QED
  BY <1>1, <1>2, <1>3, PTL DEF Spec

-----------------------------------------------------------------------------
(* A run that found a firewall that was on and loaded from files keeps it  *)
(* on, and whatever restores it restores the one the run found.            *)
Back == config.rules = before.rules /\ config.deny = snap.config.deny

Kept ==
  disturbed # runs /\ before.up /\ Loaded =>
    /\ pc # "idle" \/ outcome = "failed" => up /\ boot
    /\ pc = "reload" \/ outcome = "failed" => Back
    /\ outcome = "failed" => live = before.live

LEMMA KeptStep ==
  ASSUME TypeOK, [Next]_vars, Owned, Steady, Kept
  PROVE  Kept'
PROOF
<1> USE DEF TypeOK, Owned, Steady, Kept, Loaded, Back, Reach
<1>1. CASE UNCHANGED vars
  BY <1>1 DEF vars, firewall, history, bounds
<1>2. CASE Begin
  BY <1>2 DEF Begin, firewall
<1>3. CASE CheckActive
  BY <1>3 DEF CheckActive, firewall, history, bounds
<1>4. CASE ScheduleRollback
  BY <1>4 DEF ScheduleRollback, firewall, history, bounds
<1>5. CASE Prepare
  BY <1>5 DEF Prepare, history, bounds
<1>6. CASE DefaultDeny
  BY <1>6 DEF DefaultDeny, history, bounds, Configs
<1>7. CASE DeleteBroadRule
  BY <1>7 DEF DeleteBroadRule, history, bounds, Configs
<1>8. ASSUME NEW q \in Ports, Allow(q) PROVE Kept'
  BY <1>8 DEF Allow, history, bounds, Configs
<1>9. CASE CommitFirewall
  BY <1>9 DEF CommitFirewall, history, bounds
<1>10. CASE InstallRoles
  BY <1>10 DEF InstallRoles, firewall, history, bounds
<1>11. CASE CancelRollback
  BY <1>11 DEF CancelRollback, firewall, history, bounds
<1>12. CASE Complete
  BY <1>12 DEF Complete, firewall, history, bounds
<1>13. CASE Finish
  BY <1>13 DEF Finish, firewall, history, bounds
<1>14. CASE Fail
  BY <1>14 DEF Fail, firewall, history, bounds, Running
<1>15. CASE RestoreFirewall
  BY <1>15 DEF RestoreFirewall, history, bounds, Extracted, BootAfter
<1>16. CASE ReloadFirewall
  BY <1>16 DEF ReloadFirewall, history, bounds
<1>17. ASSUME NEW t \in timers, StartRollback(t) PROVE Kept'
  BY <1>17 DEF StartRollback, Disturbs, bounds, Extracted, BootAfter
<1>18. ASSUME NEW t \in timers, FinishRollback(t) PROVE Kept'
  BY <1>18 DEF FinishRollback, Disturbs, bounds
<1>19. CASE Kill
  BY <1>19 DEF Kill, firewall, history
<1>20. CASE PowerLoss
  BY <1>20 DEF PowerLoss, history
<1>21. QED
  BY <1>1, <1>2, <1>3, <1>4, <1>5, <1>6, <1>7, <1>8, <1>9, <1>10, <1>11,
     <1>12, <1>13, <1>14, <1>15, <1>16, <1>17, <1>18, <1>19, <1>20
  DEF Next, RunStep, Rollback

(* Every run that fails, at any place and beside which no rollback ran,    *)
(* leaves exactly the firewall it found if that one was on and loaded from *)
(* files, and its own late timer leaves it so: with both tools, also when  *)
(* earlier runs completed, failed or were killed.                          *)
THEOREM FailureRestoresFirewall == Spec => []FailedRestoresFirewall
PROOF
<1> DEFINE IInv == TypeOK /\ Owned /\ Steady /\ Kept
<1>1. Init => IInv
  <2>1. Init => Steady /\ Kept
    BY DEF Init, Steady, Kept
  <2>2. QED
    BY <2>1, StartType, OwnedStart
<1>2. IInv /\ [Next]_vars => IInv'
  BY TypeStep, OwnedStep, SteadyStep, KeptStep
<1>3. IInv => FailedRestoresFirewall
  BY DEF Kept, Back, FailedRestoresFirewall
<1>4. QED
  BY <1>1, <1>2, <1>3, PTL DEF Spec

-----------------------------------------------------------------------------
(* On ufw, while no rollback has run beside a run: a firewall that is on,  *)
(* or that a reboot, a restore or the run's own timer would switch on,     *)
(* lets the operator in, and a run that switches it on has allowed the     *)
(* port before.                                                            *)
LetsIn(c) == c.file /\ (c.deny => Ssh \in c.rules)

Admitted ==
  tool = "ufw" /\ disturbed = 0 =>
    /\ config.file /\ snap.config.file
    /\ up => Ssh \in live
    /\ boot => up /\ LetsIn(config)
    /\ snap.boot => before.up /\ LetsIn(snap.config)
    /\ before.up /\ (pc # "idle" \/ \E t \in timers : t.run = runs) => up
    /\ pc = "allow" => Ssh \in todo \cup config.rules
    /\ pc \in {"roles", "ftp"} => Ssh \in config.rules

LEMMA AdmittedStep ==
  ASSUME TypeOK, [Next]_vars, Owned, Steady, Admitted
  PROVE  Admitted'
PROOF
<1> USE SshAssumption
    DEF TypeOK, Owned, Steady, Admitted, LetsIn, Reach, Configs
<1>1. CASE UNCHANGED vars
  BY <1>1 DEF vars, firewall, history, bounds
<1>2. CASE Begin
  BY <1>2 DEF Begin, firewall
<1>3. CASE CheckActive
  BY <1>3 DEF CheckActive, firewall, history, bounds
<1>4. CASE ScheduleRollback
  BY <1>4 DEF ScheduleRollback, firewall, history, bounds
<1>5. CASE Prepare
  BY <1>5 DEF Prepare, history, bounds
<1>6. CASE DefaultDeny
  BY <1>6 DEF DefaultDeny, history, bounds, Configs, Ports
<1>7. CASE DeleteBroadRule
  BY <1>7 DEF DeleteBroadRule, history, bounds, Configs
<1>8. ASSUME NEW q \in Ports, Allow(q) PROVE Admitted'
  BY <1>8 DEF Allow, history, bounds, Configs, Ports
<1>9. CASE CommitFirewall
  BY <1>9 DEF CommitFirewall, history, bounds, Ports
<1>10. CASE InstallRoles
  BY <1>10 DEF InstallRoles, firewall, history, bounds, Ports
<1>11. CASE CancelRollback
  BY <1>11 DEF CancelRollback, firewall, history, bounds
<1>12. CASE Complete
  BY <1>12 DEF Complete, firewall, history, bounds
<1>13. CASE Finish
  BY <1>13 DEF Finish, firewall, history, bounds
<1>14. CASE Fail
  BY <1>14 DEF Fail, firewall, history, bounds, Running
<1>15. CASE RestoreFirewall
  BY <1>15 DEF RestoreFirewall, history, bounds, Extracted, BootAfter
<1>16. CASE ReloadFirewall
  BY <1>16 DEF ReloadFirewall, history, bounds, Ports
<1>17. ASSUME NEW t \in timers, StartRollback(t) PROVE Admitted'
  BY <1>17 DEF StartRollback, Disturbs, bounds, Extracted, BootAfter
<1>18. ASSUME NEW t \in timers, FinishRollback(t) PROVE Admitted'
  BY <1>18 DEF FinishRollback, Disturbs, bounds, Ports
<1>19. CASE Kill
  BY <1>19 DEF Kill, firewall, history
<1>20. CASE PowerLoss
  BY <1>20 DEF PowerLoss, history, Ports
<1>21. QED
  BY <1>1, <1>2, <1>3, <1>4, <1>5, <1>6, <1>7, <1>8, <1>9, <1>10, <1>11,
     <1>12, <1>13, <1>14, <1>15, <1>16, <1>17, <1>18, <1>19, <1>20
  DEF Next, RunStep, Rollback

(* On every server, also one whose firewall was off or had no rule for the *)
(* operator's port, a firewall that filters lets the operator in: on ufw   *)
(* as long as no rollback runs beside a later step of a run, and always if *)
(* the rules had the port to begin with.  What is left out is false of a   *)
(* firewalld whose zone does not open a custom SSH port: Prepare starts it *)
(* before Allow adds the port.                                             *)
THEOREM SshAlwaysReachable == Spec => []SshReachable
PROOF
<1> DEFINE Listed == Ssh \in first => AllPermit({Ssh}) /\ Open({Ssh})
           IInv == TypeOK /\ Owned /\ Steady /\ Listed /\ Admitted
<1>1. Init => IInv
  <2> SUFFICES ASSUME Init PROVE IInv
    OBVIOUS
  <2>1. TypeOK /\ Owned /\ Steady
    BY StartType, OwnedStart DEF Init, Steady
  <2>2. PICK s \in Servers :
          /\ tool = s.tool /\ up = s.up /\ boot = s.up /\ first = s.rules
          /\ config = [rules |-> s.rules, deny |-> s.deny, file |-> s.file]
          /\ live = IF s.up THEN Reach(config) ELSE Ports
    BY DEF Init
  <2>3. Ssh \in Ports
    BY SshAssumption DEF Ports
  <2>4. snap.config = config /\ snap.boot = boot /\ timers = {} /\ pc = "idle"
        /\ before.up = up
    BY DEF Init
  <2>5. Ssh \in first => Ssh \in live
    BY <2>2, <2>3 DEF Reach
  <2>6. Listed
    BY <2>2, <2>3, <2>4, <2>5 DEF AllPermit, Open
  <2>7. /\ s.tool = "ufw" => s.file
        /\ s.up /\ s.deny => Ssh \in s.rules
    BY ServersAssumption
  <2>8. Admitted
    BY <2>2, <2>3, <2>4, <2>7 DEF Admitted, LetsIn, Reach
  <2>9. QED
    BY <2>1, <2>6, <2>8
<1>2. IInv /\ [Next]_vars => IInv'
  <2> SUFFICES ASSUME IInv, [Next]_vars PROVE IInv'
    OBVIOUS
  <2>1. TypeOK' /\ Owned' /\ Steady' /\ Admitted'
    BY TypeStep, OwnedStep, SteadyStep, AdmittedStep
  <2>2. first' = first /\ Panel \notin {Ssh}
    BY FirstFixed, SshAssumption
  <2>3. Listed'
    <3>1. CASE Ssh \in first
      BY <3>1, <2>2, PermitStep, OpenStep
    <3>2. CASE Ssh \notin first
      BY <3>2, <2>2
    <3>3. QED
      BY <3>1, <3>2
  <2>4. QED
    BY <2>1, <2>3
<1>3. IInv => SshReachable
  BY DEF Open, Admitted, SshReachable
<1>4. QED
  BY <1>1, <1>2, <1>3, PTL DEF Spec
=============================================================================
