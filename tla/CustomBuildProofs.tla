-------------------------- MODULE CustomBuildProofs --------------------------
(***************************************************************************)
(* What holds of hostpanel-build for any administrators, targets and       *)
(* domains, and any number of builds, failures, kills, reboots and re-runs *)
(* of its installer.                                                       *)
(***************************************************************************)
EXTENDS CustomBuild, TLAPS

Counts == [builds: 0..MaxBuilds, sets: 0..MaxSets, faults: 0..MaxFaults,
           kills: 0..MaxKills, setups: 0..MaxSetups, reboots: 0..MaxReboots]

Limited == {"builds", "sets", "faults", "kills", "setups", "reboots"}

(* A bound that is spent stays within its limit, and no other one moves.   *)
LEMMA SpendType ==
  ASSUME TypeOK,
         NEW what \in Limited,
         Spend(what)
  PROVE  /\ bounds' \in Counts
         /\ what = "setups" => bounds'.setups # 0
         /\ what # "setups" => bounds'.setups = bounds.setups
         /\ what = "reboots" => bounds'.reboots # 0
         /\ what # "reboots" => bounds'.reboots = bounds.reboots
PROOF
<1> USE BoundsAssumption DEF TypeOK, Counts, Spend, Limits, Limited
<1>1. CASE what = "builds"
  BY <1>1
<1>2. CASE what = "sets"
  BY <1>2
<1>3. CASE what = "faults"
  BY <1>3
<1>4. CASE what = "kills"
  BY <1>4
<1>5. CASE what = "setups"
  BY <1>5
<1>6. CASE what = "reboots"
  <2>1. bounds.reboots + 1 \in 0..MaxReboots /\ bounds.reboots + 1 # 0
    BY <1>6
  <2>2. bounds' = [bounds EXCEPT !.reboots = bounds.reboots + 1]
    BY <1>6
  <2> QED BY <1>6, <2>1, <2>2
<1> QED BY <1>1, <1>2, <1>3, <1>4, <1>5, <1>6

(* What a build is asked for is a list of components.                      *)
LEMMA ExpandType ==
  ASSUME NEW t \in Targets, NEW m \in Modes
  PROVE  Expand(t, m) \in Seq(Components)
PROOF
<1>1. WebComponents(m) \in Seq(Components)
  <2>1. /\ <<"nginx", "apache", "php">> \in Seq(Components)
        /\ <<"nginx", "openlitespeed", "php">> \in Seq(Components)
        /\ <<"nginx", "php">> \in Seq(Components)
    BY DEF Components
  <2> QED BY <2>1 DEF WebComponents
<1>2. t # "web" => <<t>> \in Seq(Components)
  BY TargetsAssumption
<1> QED BY <1>1, <1>2 DEF Expand

LEMMA StartType == Init => TypeOK
PROOF
<1> SUFFICES ASSUME Init PROVE TypeOK
  OBVIOUS
<1>1. bounds \in Counts
  BY BoundsAssumption DEF Init, Counts
<1>2. domain \in [Domains -> Modes \union {None}]
  BY DEF Init, Domains, Modes
<1>3. DOMAIN previous = {} /\ previous \in [DOMAIN previous -> Modes]
  BY DEF Init
<1>4. asked \in [Builders -> {Nobody} \union Request]
  BY DEF Init
<1>5. todo \in Seq(Components)
  BY DEF Init
<1> QED
  BY <1>1, <1>2, <1>3, <1>4, <1>5 DEF Init, TypeOK, Modes, Services, Counts

(* A process that leaves forgets everything and gives the lock back.       *)
LEMMA LeaveType ==
  ASSUME TypeOK, lock # None, Leave, bounds' \in Counts,
         active' \subseteq Services, masked' \in BOOLEAN,
         trouble' \subseteq {"service", "rollback", "exposed", "interrupted",
                             "killed"},
         UNCHANGED <<conf, modefile, domain, ols, claim, unrecorded>>
  PROVE  TypeOK'
PROOF
<1>1. todo' \in Seq(Components)
  BY DEF Leave
<1>2. DOMAIN previous' = {} /\ previous' \in [DOMAIN previous' -> Modes]
  BY DEF Leave
<1>3. asked' \in [Builders -> {Nobody} \union Request]
  BY DEF Leave, TypeOK
<1>4. /\ lock' = None /\ pc' = "idle" /\ failed' = FALSE /\ was' = FALSE
      /\ left' = {} /\ changed' = {} /\ updated' = FALSE
  BY DEF Leave
<1> QED BY <1>1, <1>2, <1>3, <1>4 DEF TypeOK, Counts

LEMMA TypeStep == TypeOK /\ [Next]_vars => TypeOK'
PROOF
<1> SUFFICES ASSUME TypeOK, [Next]_vars PROVE TypeOK'
  OBVIOUS
<1>a. \A what \in Limited : Spend(what) => bounds' \in Counts
  BY SpendType
<1> USE DEF TypeOK, PCs, past, Limited
<1>1. CASE SetWebserver
  BY <1>1, <1>a DEF SetWebserver, build, helper, Counts
<1>2. CASE InstallTool
  BY <1>2, <1>a DEF InstallTool, build, helper, Counts
<1>3. ASSUME NEW b \in Builders, ReadOptions(b) \/ Busy(b) PROVE TypeOK'
  <2>1. asked' \in [Builders -> {Nobody} \union Request]
    BY <1>3 DEF ReadOptions, Busy, Request
  <2>2. lock # None => asked'[lock] # Nobody
    BY <1>3 DEF ReadOptions, Busy
  <2>3. bounds' \in Counts
    BY <1>3, <1>a DEF ReadOptions, Busy, history, Counts
  <2> QED
    BY <1>3, <2>1, <2>2, <2>3 DEF ReadOptions, Busy, server, build, helper,
       history, Counts
<1>4. ASSUME NEW b \in Builders, TakeLock(b) PROVE TypeOK'
  <2>1. asked[b] \in Request
    BY <1>4 DEF TakeLock
  <2>2. todo' \in Seq(Components)
    BY <1>4, <2>1, ExpandType DEF TakeLock, Request
  <2>3. DOMAIN previous = {}
    BY <1>4, BuildersAssumption DEF TakeLock
  <2> QED
    BY <1>4, <2>2, <2>3 DEF TakeLock, server, helper, history, Counts
<1>5. CASE Preflight
  <2>a. ("lsws" \in active) \in BOOLEAN
    OBVIOUS
  <2>b. was' \in BOOLEAN
    BY <1>5, <2>a, Zenon DEF Preflight
  <2>c. masked' \in BOOLEAN /\ active' \subseteq Services
    BY <1>5 DEF Preflight
  <2>1. was' \in BOOLEAN /\ masked' \in BOOLEAN /\ active' \subseteq Services
    BY <2>b, <2>c
  <2>2. UNCHANGED <<conf, modefile, domain, ols, asked, lock, todo, failed,
                    helper, claim, history>>
        /\ pc = "preflight" /\ pc' = "build"
    BY <1>5 DEF Preflight
  <2> QED BY <2>1, <2>2 DEF helper, history, Counts
<1>6. CASE PreflightFails
  BY <1>6, <1>a, LeaveType, BuildersAssumption DEF PreflightFails
<1>7. CASE BuildComponent
  BY <1>7 DEF BuildComponent, Reinstall, Services, helper, history, Counts
<1>8. CASE ComponentFails
  BY <1>8, <1>a DEF ComponentFails, Reinstall, Services, Fault, Raise, helper,
     Counts
<1>9. CASE Rebuilt
  BY <1>9 DEF Rebuilt, Goto, server, helper, history, Counts
<1>10. CASE HelperStart
  BY <1>10 DEF HelperStart, Managed, Goto, server, history, Counts
<1>11. CASE HelperRefuses
  BY <1>11 DEF HelperRefuses, Raise, server, helper, history, Counts
<1>12. CASE RewriteListeners \/ Unmask \/ StartLsws
  BY <1>12 DEF RewriteListeners, Unmask, StartLsws, Goto, Services, helper,
     history, Counts
<1>13. CASE PrepareFails
  BY <1>13, <1>a DEF PrepareFails, Fault, Raise, Services, helper, Counts
<1>14. CASE Convert
  <2>1. Mode \in Modes
    BY <1>14 DEF Convert, Mode, Request, Nobody
  <2>2. domain' \in [Domains -> Modes \union {None}]
    BY <1>14, <2>1 DEF Convert
  <2> QED
    BY <1>14, <2>2 DEF Convert, build, history, Counts
<1>15. CASE ConvertFails
  BY <1>15, <1>a DEF ConvertFails, Fault, Goto, server, helper, Counts
<1>16. CASE PostCheck
  BY <1>16 DEF PostCheck, Goto, server, helper, history, Counts
<1>17. CASE RollbackDomain
  <2>1. domain' \in [Domains -> Modes \union {None}]
    BY <1>17 DEF RollbackDomain
  <2> QED
    BY <1>17, <2>1 DEF RollbackDomain, build, history, Counts
<1>18. CASE RollbackFails
  BY <1>18, <1>a DEF RollbackFails, Fault, server, build, Counts
<1>19. CASE SwitchFailed
  BY <1>19 DEF SwitchFailed, Raise, server, helper, history, Counts
<1>20. CASE PersistMode
  <2>1. Mode \in Modes
    BY <1>20 DEF PersistMode, Mode, Request, Nobody
  <2> QED
    BY <1>20, <2>1 DEF PersistMode, Goto, helper, Counts
<1>21. CASE PersistFails
  <2>1. Mode \in Modes
    BY <1>21 DEF PersistFails, Mode, Request, Nobody
  <2> QED
    BY <1>21, <1>a, <2>1 DEF PersistFails, Fault, Raise, server, helper, Counts
<1>22. CASE ReconcileApache \/ ReconcileLsws
  BY <1>22 DEF ReconcileApache, ReconcileLsws, Goto, Services, helper, history,
     Counts
<1>23. CASE ReconcileFails \/ DoctorFails
  BY <1>23, <1>a DEF ReconcileFails, DoctorFails, Fault, Raise, server, helper,
     Counts
<1>24. CASE Check \/ Doctor
  BY <1>24 DEF Check, Doctor, Goto, Raise, server, helper, history, Counts
<1>25. CASE Cleanup
  BY <1>25, LeaveType, BuildersAssumption DEF Cleanup, Services, history,
     Counts
<1>26. CASE CleanupFails
  BY <1>26, <1>a, LeaveType, BuildersAssumption DEF CleanupFails
<1>27. CASE Interrupt
  BY <1>27, <1>a DEF Interrupt, Raise, server, helper, Counts
<1>28. CASE Kill
  BY <1>28, <1>a, LeaveType, BuildersAssumption DEF Kill, server
<1>29. CASE ClaimDomain
  <2>1. domain' \in [Domains -> Modes \union {None}]
    BY <1>29 DEF ClaimDomain, Modes, Domains
  <2> QED
    BY <1>29, <2>1 DEF ClaimDomain, build, helper, history, Counts
<1>30. CASE ReadDefault
  BY <1>30 DEF ReadDefault, NoClaim, server, build, helper, history, Counts
<1>31. CASE ApplyDefault
  <2>1. claim \in [domain: New, default: Modes \union {None}]
    BY <1>31 DEF ApplyDefault, NoClaim
  <2>2. domain' \in [Domains -> Modes \union {None}]
    BY <1>31, <2>1 DEF ApplyDefault, Domains
  <2> QED
    BY <1>31, <2>2 DEF ApplyDefault, build, helper, history, Counts
<1>32. CASE UNCHANGED vars
  BY <1>32 DEF vars, server, build, helper, history, Counts
<1>33. CASE Reboot
  <2>1. DOMAIN previous' = {} /\ previous' \in [DOMAIN previous' -> Modes]
    BY <1>33 DEF Reboot
  <2>2. asked' \in [Builders -> {Nobody} \union Request]
    BY <1>33 DEF Reboot
  <2>3. todo' \in Seq(Components)
    BY <1>33 DEF Reboot
  <2>4. active' \subseteq Services
    BY <1>33 DEF Reboot, Services
  <2> QED
    BY <1>33, <1>a, <2>1, <2>2, <2>3, <2>4 DEF Reboot, Counts
<1> QED
  BY <1>1, <1>2, <1>3, <1>4, <1>5, <1>6, <1>7, <1>8, <1>9, <1>10, <1>11,
     <1>12, <1>13, <1>14, <1>15, <1>16, <1>17, <1>18, <1>19, <1>20, <1>21,
     <1>22, <1>23, <1>24, <1>25, <1>26, <1>27, <1>28, <1>29, <1>30, <1>31,
     <1>32, <1>33 DEF Next

(* TYPE: every variable keeps its type, and memory of a build exists only  *)
(* while its process holds the lock (hostpanel_build_core.py).             *)
THEOREM TypeCorrect == Spec => []TypeOK
PROOF BY StartType, TypeStep, PTL DEF Spec

(* What is excepted stays excepted.                                        *)
LEMMA Monotone ==
  ASSUME TypeOK, [Next]_vars
  PROVE  /\ trouble \subseteq trouble'
         /\ bounds'.setups = 0 => bounds.setups = 0
         /\ bounds'.reboots = 0 => bounds.reboots = 0
         /\ ~InstallTool => bounds'.setups = bounds.setups
         /\ ~Reboot => bounds'.reboots = bounds.reboots
PROOF
<1> USE DEF history, past, Limited
<1>a. \A what \in Limited : Spend(what) =>
         /\ what = "setups" => bounds'.setups # 0
         /\ what # "setups" => bounds'.setups = bounds.setups
         /\ what = "reboots" => bounds'.reboots # 0
         /\ what # "reboots" => bounds'.reboots = bounds.reboots
  BY SpendType
<1>1. ASSUME NEW b \in Builders, ReadOptions(b) \/ TakeLock(b) \/ Busy(b)
      PROVE  /\ trouble' = trouble
             /\ bounds'.setups = bounds.setups
             /\ bounds'.reboots = bounds.reboots
  BY <1>a, <1>1 DEF ReadOptions, TakeLock, Busy
<1>2. CASE \/ SetWebserver \/ InstallTool \/ Preflight \/ PreflightFails
           \/ BuildComponent \/ ComponentFails \/ Rebuilt \/ HelperStart
           \/ HelperRefuses \/ RewriteListeners \/ Unmask \/ StartLsws
           \/ PrepareFails
  BY <1>a, <1>2 DEF SetWebserver, InstallTool, Preflight, PreflightFails,
     BuildComponent, ComponentFails, Rebuilt, HelperStart, HelperRefuses,
     RewriteListeners, Unmask, StartLsws, PrepareFails, Fault
<1>3. CASE \/ Convert \/ ConvertFails \/ PostCheck \/ RollbackDomain
           \/ RollbackFails \/ SwitchFailed \/ PersistMode \/ PersistFails
           \/ ReconcileApache \/ ReconcileFails \/ ReconcileLsws
  BY <1>a, <1>3 DEF Convert, ConvertFails, PostCheck, RollbackDomain,
     RollbackFails, SwitchFailed, PersistMode, PersistFails, ReconcileApache,
     ReconcileFails, ReconcileLsws, Fault
<1>4. CASE \/ Check \/ Doctor \/ DoctorFails \/ Cleanup \/ CleanupFails
           \/ Interrupt \/ Kill \/ Reboot \/ ClaimDomain \/ ReadDefault
           \/ ApplyDefault \/ UNCHANGED vars
  BY <1>a, <1>4 DEF Check, Doctor, DoctorFails, Cleanup, CleanupFails,
     Interrupt, Kill, Reboot, ClaimDomain, ReadDefault, ApplyDefault, Fault,
     vars
<1> QED BY <1>1, <1>2, <1>3, <1>4 DEF Next

-----------------------------------------------------------------------------
(* OpenLiteSpeed.  It is masked from the preflight of a build that will    *)
(* install it to the moment its listeners are rewritten; a build starts it *)
(* again only if it ran before, and so with rewritten listeners.           *)
LoopbackInv ==
  /\ LoopbackOnly
  /\ "lsws" \in active \/ was => Installed
  /\ was /\ "exposed" \notin trouble => ols = "loopback"
  /\ pc = "preflight" =>
       todo = Expand(asked[lock].target, asked[lock].mode)
  /\ pc = "build" /\ (\E i \in 1..Len(todo) : todo[i] = "openlitespeed") =>
       masked
  /\ pc \in {"unmask", "start"} => ols = "loopback"
  /\ pc \in {"prepare", "unmask", "start"} /\ updated
       /\ "exposed" \notin trouble => "lsws" \notin active /\ ~was

LEMMA LoopbackStep == TypeOK /\ LoopbackInv /\ [Next]_vars => LoopbackInv'
PROOF
<1> SUFFICES ASSUME TypeOK, LoopbackInv, [Next]_vars PROVE LoopbackInv'
  OBVIOUS
<1> USE DEF LoopbackOnly, Installed, past
<1>0. "exposed" \in trouble => "exposed" \in trouble'
  BY Monotone
<1>1. ASSUME UNCHANGED <<active, ols, masked, was, todo, updated>>,
             pc' \in {"preflight", "build"} =>
               pc' = pc /\ lock' = lock /\ asked'[lock] = asked[lock],
             pc' \in {"prepare", "unmask", "start"} => pc' = pc
      PROVE  LoopbackInv'
  BY <1>0, <1>1 DEF LoopbackInv
<1>2. ASSUME was' => was, active' \subseteq active, ols' = ols,
             pc' \notin {"preflight", "build", "prepare", "unmask", "start"}
      PROVE  LoopbackInv'
  BY <1>0, <1>2 DEF LoopbackInv
<1>3. CASE SetWebserver \/ InstallTool
  BY <1>1, <1>3 DEF SetWebserver, InstallTool, build, helper
<1>4. ASSUME NEW b \in Builders, ReadOptions(b) \/ Busy(b)
      PROVE  LoopbackInv'
  <2>1. pc \in {"preflight", "build"} => asked'[lock] = asked[lock]
    BY <1>4 DEF ReadOptions, Busy, TypeOK
  <2> QED BY <1>1, <1>4, <2>1 DEF ReadOptions, Busy, server, build, helper
<1>5. ASSUME NEW b \in Builders, TakeLock(b) PROVE LoopbackInv'
  BY <1>5, <1>0 DEF TakeLock, server, LoopbackInv
<1>6. CASE Preflight
  <2>1. pc = "preflight" /\ pc' = "build" /\ todo' = todo /\ ols' = ols
        /\ active' \subseteq active
    BY <1>6 DEF Preflight
  <2>2. was' => was \/ "lsws" \in active
    <3>1. CASE OlsRequested
      BY <1>6, <3>1, Zenon DEF Preflight
    <3>2. CASE ~OlsRequested
      BY <1>6, <3>2 DEF Preflight
    <3> QED BY <3>1, <3>2
  <2>3. ASSUME NEW i \in 1..Len(todo), todo[i] = "openlitespeed" PROVE masked'
    <3>1. lock # None
      BY <2>1, BuildersAssumption DEF TypeOK
    <3>2. todo = Expand(asked[lock].target, asked[lock].mode)
      BY <2>1 DEF LoopbackInv
    <3>3. i \in DOMAIN todo
      BY DEF TypeOK
    <3>4. OlsRequested
      BY <2>3, <3>1, <3>2, <3>3 DEF OlsRequested, Asks
    <3> QED BY <1>6, <3>4 DEF Preflight
  <2> QED BY <1>0, <2>1, <2>2, <2>3 DEF LoopbackInv
<1>7. CASE BuildComponent \/ ComponentFails
  <2>1. \/ active' \subseteq active \union {"apache"} /\ UNCHANGED ols
        \/ /\ Head(todo) = "openlitespeed"
           /\ ols' = IF Installed THEN ols ELSE "stock"
           /\ active' = IF masked THEN active ELSE active \union {"lsws"}
    BY <1>7 DEF BuildComponent, ComponentFails, Reinstall
  <2>2. todo # <<>> /\ pc = "build" /\ was' = was /\ masked' = masked
    BY <1>7 DEF BuildComponent, ComponentFails, Raise
  <2>3. Head(todo) = todo[1] /\ 1 \in 1..Len(todo)
    BY <2>2 DEF TypeOK
  <2>4. Head(todo) = "openlitespeed" => masked
    BY <2>2, <2>3 DEF LoopbackInv
  <2>5. /\ LoopbackOnly' /\ ("lsws" \in active' \/ was' => Installed')
        /\ was' /\ "exposed" \notin trouble' => ols' = "loopback"
    BY <1>0, <2>1, <2>2, <2>4 DEF LoopbackInv
  <2>6. CASE BuildComponent
    <3>1. todo' = Tail(todo) /\ pc' = "build"
      BY <2>6, <2>2 DEF BuildComponent
    <3>2. ASSUME NEW i \in 1..Len(todo'), todo'[i] = "openlitespeed"
          PROVE  masked'
      <4>1. i + 1 \in 1..Len(todo) /\ todo[i + 1] = todo'[i]
        BY <2>2, <3>1 DEF TypeOK
      <4> QED BY <2>2, <3>2, <4>1 DEF LoopbackInv
    <3> QED BY <2>5, <3>1, <3>2 DEF LoopbackInv
  <2>7. CASE ComponentFails
    BY <2>5, <2>7 DEF ComponentFails, Raise, LoopbackInv
  <2> QED BY <1>7, <2>6, <2>7
<1>8. CASE RewriteListeners \/ Unmask \/ StartLsws \/ PrepareFails
  <2>1. CASE RewriteListeners
    BY <1>0, <2>1 DEF RewriteListeners, Goto, history, LoopbackInv
  <2>2. CASE Unmask
    BY <1>0, <2>2 DEF Unmask, Goto, helper, history, LoopbackInv
  <2>3. CASE StartLsws
    BY <1>0, <2>3 DEF StartLsws, Goto, LoopbackInv
  <2>4. CASE PrepareFails
    BY <1>0, <2>4 DEF PrepareFails, Raise, LoopbackInv
  <2> QED BY <1>8, <2>1, <2>2, <2>3, <2>4
<1>9. CASE \/ Rebuilt \/ HelperRefuses
           \/ Convert \/ ConvertFails \/ PostCheck \/ RollbackDomain
           \/ RollbackFails \/ SwitchFailed \/ PersistMode \/ PersistFails
  BY <1>2, <1>9 DEF Rebuilt, HelperRefuses, Convert, ConvertFails, PostCheck,
     RollbackDomain, RollbackFails, SwitchFailed, PersistMode, PersistFails,
     Goto, Raise, server, build
<1>10. CASE ReconcileApache \/ HelperStart
  BY <1>0, <1>10 DEF ReconcileApache, HelperStart, Goto, server, LoopbackInv
<1>11. CASE \/ ReconcileFails \/ ReconcileLsws \/ Check \/ Doctor
            \/ DoctorFails \/ Interrupt
  BY <1>2, <1>11 DEF ReconcileFails, ReconcileLsws, Check, Doctor, DoctorFails,
     Interrupt, Goto, Raise, server
<1>12. CASE Cleanup
  BY <1>0, <1>12 DEF Cleanup, Restarts, Leave, LoopbackInv
<1>13. CASE PreflightFails \/ CleanupFails \/ Kill
  BY <1>2, <1>13 DEF PreflightFails, CleanupFails, Kill, Leave, server
<1>14. CASE ClaimDomain \/ ReadDefault \/ ApplyDefault \/ UNCHANGED vars
  BY <1>1, <1>14 DEF ClaimDomain, ReadDefault, ApplyDefault, vars, server,
     build, helper
<1>15. CASE Reboot
  BY <1>0, <1>15 DEF Reboot, Services, TypeOK, LoopbackInv
<1> QED
  BY <1>3, <1>4, <1>5, <1>6, <1>7, <1>8, <1>9, <1>10, <1>11, <1>12, <1>13,
     <1>14, <1>15 DEF Next

(* CUSTOMBUILD.md:216: OpenLiteSpeed never runs over the listeners its     *)
(* package brings, whatever fails or is killed, until a preparation fails  *)
(* after `enable --now`, or a reboot before the listeners are rewritten.   *)
THEOREM AlwaysLoopback == Spec => []LoopbackOnly
PROOF
<1>1. Init => LoopbackInv
  BY DEF Init, LoopbackInv, LoopbackOnly
<1>2. LoopbackInv => LoopbackOnly
  BY DEF LoopbackInv
<1> QED BY <1>1, <1>2, TypeCorrect, LoopbackStep, PTL DEF Spec

-----------------------------------------------------------------------------
(* What the holder of the lock was asked for does not change under it.     *)
LEMMA HolderStays ==
  ASSUME TypeOK, [Next]_vars, lock # None, lock' = lock
  PROVE  /\ asked'[lock] = asked[lock] /\ Mode' = Mode
         /\ OlsRequested' = OlsRequested
PROOF
<1>1. asked'[lock] = asked[lock]
  <2>1. ASSUME NEW b \in Builders, ReadOptions(b) \/ TakeLock(b) \/ Busy(b)
        PROVE  asked'[lock] = asked[lock]
    BY <2>1 DEF ReadOptions, TakeLock, Busy, TypeOK
  <2>2. CASE \/ PreflightFails \/ Cleanup \/ CleanupFails \/ Kill
             \/ Reboot
    BY <2>2 DEF PreflightFails, Cleanup, CleanupFails, Kill, Reboot, Leave
  <2>3. CASE \/ SetWebserver \/ InstallTool \/ Preflight \/ BuildComponent
             \/ ComponentFails \/ Rebuilt \/ HelperStart \/ HelperRefuses
             \/ RewriteListeners \/ Unmask \/ StartLsws \/ PrepareFails
             \/ Convert \/ ConvertFails \/ PostCheck
             \/ RollbackDomain \/ RollbackFails \/ SwitchFailed
    BY <2>3 DEF SetWebserver, InstallTool, Preflight, BuildComponent,
       ComponentFails, Rebuilt, HelperStart, HelperRefuses,
       RewriteListeners, Unmask, StartLsws, PrepareFails, Convert,
       ConvertFails, PostCheck, RollbackDomain, RollbackFails, SwitchFailed,
       Fault
  <2>4. CASE \/ PersistMode \/ PersistFails \/ ReconcileApache
             \/ ReconcileFails \/ ReconcileLsws \/ Check \/ Doctor
             \/ DoctorFails \/ Interrupt \/ ClaimDomain \/ ReadDefault
             \/ ApplyDefault \/ UNCHANGED vars
    BY <2>4 DEF PersistMode, PersistFails, ReconcileApache, ReconcileFails,
       ReconcileLsws, Check, Doctor, DoctorFails, Interrupt, ClaimDomain,
       ReadDefault, ApplyDefault, Fault, vars
  <2> QED BY <2>1, <2>2, <2>3, <2>4 DEF Next
<1>2. Asks(lock, "openlitespeed")' <=> Asks(lock, "openlitespeed")
  BY <1>1 DEF Asks
<1> QED BY <1>1, <1>2 DEF Mode, OlsRequested

(* The helper runs for a `build web` of the mode its caller was asked for; *)
(* it knows the modes of all domains of the server, and past its check     *)
(* they are all converted.                                                 *)
Preparing == {"prepare", "unmask", "start"}
WebPCs == {"helper", "convert", "undo", "persist", "apache", "lsws", "check"}
            \union Preparing

HelperInv ==
  /\ \A d \in Hosted : domain[d] # None
  /\ pc \in WebPCs => asked[lock].target = "web"
  /\ pc \in Preparing => Mode = "openlitespeed"
  /\ pc \in Preparing \union {"convert", "undo"} =>
       Hosted \subseteq DOMAIN previous
  /\ pc \in {"persist", "apache", "lsws", "check"} =>
       \A d \in Hosted : domain[d] = Mode

LEMMA HelperStep == TypeOK /\ HelperInv /\ [Next]_vars => HelperInv'
PROOF
<1> SUFFICES ASSUME TypeOK, HelperInv, [Next]_vars PROVE HelperInv'
  OBVIOUS
<1> USE DEF WebPCs, Preparing
<1>0. Hosted \subseteq Domains /\ Hosted \intersect New = {}
  BY DomainsAssumption DEF Domains
<1>1. lock # None /\ lock' = lock =>
        asked'[lock] = asked[lock] /\ Mode' = Mode
  BY HolderStays
<1>2. pc # "idle" => lock # None
  BY BuildersAssumption DEF TypeOK
<1>3. ASSUME UNCHANGED <<domain, previous, lock>>,
             pc' \in WebPCs => pc' = pc \/ (pc = "apache" /\ pc' = "lsws")
                                \/ (pc = "lsws" /\ pc' = "check")
                                \/ (pc = "convert" /\ pc' = "undo")
                                \/ (pc = "persist" /\ pc' = "apache")
                                \/ (pc = "prepare" /\ pc' = "unmask")
                                \/ (pc = "unmask" /\ pc' = "start")
                                \/ (pc = "start" /\ pc' = "convert")
      PROVE  HelperInv'
  BY <1>1, <1>2, <1>3 DEF HelperInv
<1>4. ASSUME domain' = domain, pc' \notin WebPCs PROVE HelperInv'
  BY <1>4 DEF HelperInv
<1>5. CASE SetWebserver \/ InstallTool
  BY <1>3, <1>5 DEF SetWebserver, InstallTool, build, helper
<1>6. ASSUME NEW b \in Builders, ReadOptions(b) \/ TakeLock(b) \/ Busy(b)
      PROVE  HelperInv'
  BY <1>3, <1>4, <1>6 DEF ReadOptions, TakeLock, Busy, server, build, helper
<1>7. CASE \/ Preflight \/ PreflightFails \/ BuildComponent \/ ComponentFails
           \/ HelperRefuses \/ PrepareFails \/ SwitchFailed \/ PersistFails
  BY <1>4, <1>7 DEF Preflight, PreflightFails, BuildComponent, ComponentFails,
     HelperRefuses, PrepareFails, SwitchFailed, PersistFails, Leave, Raise,
     server
<1>8. CASE Rebuilt
  BY <1>1, <1>2, <1>8 DEF Rebuilt, Goto, server, HelperInv
<1>9. CASE HelperStart
  BY <1>0, <1>1, <1>2, <1>9 DEF HelperStart, Goto, Managed, server, HelperInv
<1>10. CASE \/ RewriteListeners \/ Unmask \/ StartLsws \/ ConvertFails
            \/ PersistMode
  BY <1>3, <1>10 DEF RewriteListeners, Unmask, StartLsws, ConvertFails,
     PersistMode, Goto, server, helper
<1>11. CASE Convert
  <2>1. pc = "convert" /\ pc' = pc /\ lock' = lock /\ previous' = previous
    BY <1>11 DEF Convert, build
  <2>2. Mode \in Modes
    BY <2>1 DEF TypeOK, Mode, Request, Nobody
  <2>3. \A d \in Hosted : domain'[d] # None
    BY <1>0, <1>11, <2>2 DEF Convert, HelperInv, TypeOK, Modes, None
  <2> QED BY <1>1, <1>2, <2>1, <2>3 DEF HelperInv
<1>12. CASE PostCheck
  <2>1. /\ pc = "convert" /\ UNCHANGED <<domain, previous, lock>>
        /\ pc' \in {"persist", "undo"}
        /\ pc' = "persist" => \A d \in DOMAIN previous : ModeOf(d) = Mode
    BY <1>12 DEF PostCheck, Goto, server, helper
  <2>2. pc' = "persist" => \A d \in Hosted : domain[d] = Mode
    BY <2>1 DEF HelperInv, ModeOf
  <2> QED BY <1>1, <1>2, <2>1, <2>2 DEF HelperInv
<1>13. CASE RollbackDomain
  <2>1. pc = "undo" /\ pc' = pc /\ lock' = lock /\ previous' = previous
    BY <1>13 DEF RollbackDomain, build
  <2>2. \A d \in Hosted : domain'[d] # None
    BY <1>0, <1>13 DEF RollbackDomain, HelperInv, TypeOK, Modes, None
  <2> QED BY <1>1, <1>2, <2>1, <2>2 DEF HelperInv
<1>14. CASE RollbackFails \/ ReconcileApache \/ ReconcileLsws
  BY <1>3, <1>14 DEF RollbackFails, ReconcileApache, ReconcileLsws, Goto,
     server, build, helper
<1>15. CASE \/ ReconcileFails \/ Check \/ Doctor \/ DoctorFails \/ Cleanup
            \/ CleanupFails \/ Interrupt \/ Kill \/ Reboot
  BY <1>4, <1>15 DEF ReconcileFails, Check, Doctor, DoctorFails, Cleanup,
     CleanupFails, Interrupt, Kill, Reboot, Leave, Goto, Raise, server
<1>16. CASE ClaimDomain \/ ApplyDefault
  <2>1. /\ UNCHANGED <<pc, lock, previous>>
        /\ \A d \in Hosted : domain'[d] = domain[d]
    BY <1>0, <1>16 DEF ClaimDomain, ApplyDefault, build, helper, TypeOK, NoClaim
  <2> QED BY <1>1, <1>2, <2>1 DEF HelperInv
<1>17. CASE ReadDefault \/ UNCHANGED vars
  BY <1>3, <1>17 DEF ReadDefault, vars, server, build, helper
<1> QED
  BY <1>5, <1>6, <1>7, <1>8, <1>9, <1>10, <1>11, <1>12, <1>13, <1>14, <1>15,
     <1>16, <1>17 DEF Next

-----------------------------------------------------------------------------
(* Serving.  The only backend a domain of the server may lack is lsws, and *)
(* only under a build that stopped it, knows that it ran, has not brought  *)
(* it back yet, and will fail unless the doctor sees it run.               *)
Down(d) == domain[d] = "openlitespeed" /\ "lsws" \notin active

ComesBack ==
  /\ OlsRequested /\ was
  /\ pc \in {"build", "helper", "doctor", "cleanup"} \union Preparing
  /\ pc = "cleanup" => failed

ServedInv ==
  Calm /\ bounds.reboots = 0 =>
    \A d \in Hosted : /\ Backend(domain[d]) \subseteq active \union {"lsws"}
                      /\ Down(d) => ComesBack

LEMMA ServedStep ==
  TypeOK /\ LoopbackInv /\ HelperInv /\ ServedInv /\ [Next]_vars => ServedInv'
PROOF
<1> SUFFICES ASSUME TypeOK, LoopbackInv, HelperInv, ServedInv, [Next]_vars,
                    Calm', bounds'.reboots = 0, NEW d \in Hosted
             PROVE  /\ Backend(domain'[d]) \subseteq active' \union {"lsws"}
                    /\ Down(d)' => ComesBack'
  BY DEF ServedInv
<1> USE DEF Down, ComesBack, Preparing
<1>0. d \in Domains /\ d \notin New
  BY DomainsAssumption DEF Domains
<1>1. lock # None /\ lock' = lock =>
        Mode' = Mode /\ OlsRequested' = OlsRequested
  BY HolderStays
<1>2. pc # "idle" => lock # None
  BY BuildersAssumption DEF TypeOK
<1>3. OlsRequested => lock # None
  BY DEF OlsRequested
<1>4. /\ Backend(domain[d]) \subseteq active \union {"lsws"}
      /\ Down(d) => ComesBack
  BY Monotone DEF ServedInv, Calm
<1>5. ASSUME UNCHANGED <<domain, lock, was>>,
             active \subseteq active',
             \/ pc' = pc /\ failed' = failed
             \/ pc' = "cleanup" /\ failed'
             \/ pc \notin {"build", "helper", "doctor", "cleanup"}
                           \union Preparing
             \/ pc' \in {"helper", "doctor"} \union Preparing
      PROVE  /\ Backend(domain'[d]) \subseteq active' \union {"lsws"}
             /\ Down(d)' => ComesBack'
  BY <1>1, <1>3, <1>4, <1>5
<1>6. CASE SetWebserver \/ InstallTool
  BY <1>5, <1>6 DEF SetWebserver, InstallTool, build
<1>7. ASSUME NEW b \in Builders, ReadOptions(b) \/ Busy(b)
      PROVE  /\ Backend(domain'[d]) \subseteq active' \union {"lsws"}
             /\ Down(d)' => ComesBack'
  BY <1>5, <1>7 DEF ReadOptions, Busy, server, build
<1>8. ASSUME NEW b \in Builders, TakeLock(b)
      PROVE  /\ Backend(domain'[d]) \subseteq active' \union {"lsws"}
             /\ Down(d)' => ComesBack'
  <2>1. UNCHANGED <<domain, active>> /\ lock = None
    BY <1>8 DEF TakeLock, server
  <2> QED BY <1>3, <1>4, <2>1
<1>9. CASE Preflight
  <2>1. /\ pc = "preflight" /\ pc' = "build" /\ lock' = lock
        /\ domain' = domain
        /\ active' = IF OlsRequested THEN active \ {"lsws"} ELSE active
    BY <1>9 DEF Preflight
  <2>2. OlsRequested /\ "lsws" \in active => was'
    BY <1>9, Zenon DEF Preflight
  <2>3. /\ Backend(domain[d]) \subseteq active \union {"lsws"} /\ ~Down(d)
    BY <1>4, <2>1
  <2>4. Down(d)' => OlsRequested /\ "lsws" \in active
    BY <2>1, <2>3
  <2>5. OlsRequested' = OlsRequested
    BY <1>1, <1>2, <2>1
  <2>6. Backend(domain'[d]) \subseteq active' \union {"lsws"}
    BY <2>1, <2>3
  <2> QED BY <2>1, <2>2, <2>4, <2>5, <2>6
<1>10. CASE PreflightFails
  <2>1. pc = "preflight" /\ UNCHANGED <<domain, active>>
    BY <1>10 DEF PreflightFails
  <2> QED BY <1>4, <2>1
<1>11. CASE BuildComponent \/ ComponentFails
  <2>1. active \subseteq active'
    BY <1>11 DEF BuildComponent, ComponentFails, Reinstall, Calm
  <2> QED
    BY <1>5, <1>11, <2>1 DEF BuildComponent, ComponentFails, Raise
<1>12. CASE Rebuilt \/ HelperRefuses \/ PrepareFails
  BY <1>5, <1>12 DEF Rebuilt, HelperRefuses, PrepareFails, Goto, Raise, server
<1>13. CASE HelperStart
  <2>1. /\ pc = "helper" /\ UNCHANGED <<domain, active, lock, was>>
        /\ pc' = IF Mode = "openlitespeed" THEN "prepare" ELSE "convert"
    BY <1>13 DEF HelperStart, Goto, server
  <2>2. CASE Mode = "openlitespeed"
    BY <1>5, <2>1, <2>2
  <2>3. CASE Mode # "openlitespeed"
    <3>1. asked[lock].target = "web" /\ asked[lock].mode # "openlitespeed"
      BY <2>1, <2>3 DEF HelperInv, WebPCs, Mode
    <3>2. Expand(asked[lock].target, asked[lock].mode)
            \in {<<"nginx", "apache", "php">>, <<"nginx", "php">>}
      BY <3>1 DEF Expand, WebComponents
    <3>3. ~OlsRequested
      BY <3>2 DEF OlsRequested, Asks
    <3> QED BY <1>4, <2>1, <3>3
  <2> QED BY <2>2, <2>3
<1>14. CASE RewriteListeners \/ Unmask \/ StartLsws
  BY <1>4, <1>5, <1>14 DEF RewriteListeners, Unmask, StartLsws, Goto
<1>15. CASE Convert
  <2>1. /\ pc = "convert" /\ active' = active
        /\ Backend(Mode) \subseteq active
        /\ domain'[d] \in {domain[d], Mode}
    BY <1>0, <1>15 DEF Convert, TypeOK
  <2>2. Mode = "openlitespeed" => "lsws" \in active
    BY <2>1 DEF Backend
  <2> QED BY <1>4, <2>1, <2>2
<1>16. CASE \/ ConvertFails \/ PostCheck \/ SwitchFailed \/ PersistMode
            \/ PersistFails
  BY <1>5, <1>16 DEF ConvertFails, PostCheck, SwitchFailed, PersistMode,
     PersistFails, Goto, Raise, server
<1>17. CASE RollbackDomain
  <2>1. /\ pc = "undo" /\ active' = active
        /\ \/ domain'[d] = domain[d]
           \/ /\ domain'[d] = previous[d]
              /\ Backend(previous[d]) \subseteq active
    BY <1>0, <1>17 DEF RollbackDomain, TypeOK
  <2>2. \/ domain'[d] = domain[d]
        \/ /\ Backend(domain'[d]) \subseteq active
           /\ domain'[d] = "openlitespeed" => "lsws" \in active
    BY <2>1 DEF Backend
  <2> QED BY <1>4, <2>1, <2>2
<1>18. CASE RollbackFails \/ CleanupFails \/ Interrupt \/ Kill \/ Reboot
  BY <1>18, SpendType DEF RollbackFails, CleanupFails, Interrupt, Kill, Reboot,
     Calm, Limited
<1>19. CASE ReconcileApache
  <2>1. /\ pc = "apache" /\ domain' = domain /\ domain[d] = Mode
        /\ active' = (active \ {"apache"}) \union
                     (Backend(Mode) \intersect {"apache"})
    BY <1>19 DEF ReconcileApache, HelperInv
  <2>2. Backend(Mode) \subseteq active' \union {"lsws"}
    BY <1>4, <2>1
  <2> QED BY <1>4, <2>1, <2>2
<1>20. CASE ReconcileLsws
  <2>1. /\ pc = "lsws" /\ domain' = domain /\ domain[d] = Mode
        /\ active' = IF Mode = "openlitespeed" THEN active
                     ELSE active \ {"lsws"}
    BY <1>20 DEF ReconcileLsws, HelperInv
  <2> QED BY <1>4, <2>1
<1>21. CASE ReconcileFails \/ Check \/ DoctorFails
  BY <1>5, <1>21 DEF ReconcileFails, Check, DoctorFails, Goto, Raise, server
<1>22. CASE Doctor
  <2>1. pc = "doctor" /\ UNCHANGED <<domain, active, lock, was>>
    BY <1>22 DEF Doctor, Goto, Raise, server
  <2>2. CASE DoctorPasses
    <3>1. Down(d) => was /\ Installed
      BY <1>4, <2>1 DEF LoopbackInv
    <3>2. ~Down(d)
      BY <2>2, <3>1 DEF DoctorPasses
    <3> QED BY <1>4, <2>1, <3>2
  <2>3. CASE ~DoctorPasses
    BY <1>5, <1>22, <2>1, <2>3 DEF Doctor, Raise
  <2> QED BY <2>2, <2>3
<1>23. CASE Cleanup
  <2>1. /\ pc = "cleanup" /\ domain' = domain
        /\ active' = active \union (IF Restarts THEN {"lsws"} ELSE {})
    BY <1>23 DEF Cleanup
  <2>2. Down(d) => Restarts
    BY <1>4, <2>1 DEF Restarts
  <2> QED BY <1>4, <2>1, <2>2
<1>24. CASE ClaimDomain \/ ApplyDefault
  <2>1. /\ UNCHANGED <<active, lock, was, pc, failed>>
        /\ domain'[d] = domain[d]
    BY <1>0, <1>24 DEF ClaimDomain, ApplyDefault, build, TypeOK,
       NoClaim
  <2> QED BY <1>1, <1>3, <1>4, <2>1
<1>25. CASE ReadDefault \/ UNCHANGED vars
  BY <1>5, <1>25 DEF ReadDefault, vars, server, build
<1> QED
  BY <1>6, <1>7, <1>8, <1>9, <1>10, <1>11, <1>12, <1>13, <1>14, <1>15, <1>16,
     <1>17, <1>18, <1>19, <1>20, <1>21, <1>22, <1>23, <1>24, <1>25 DEF Next

-----------------------------------------------------------------------------
(* The default.  While a conversion goes on, the domains it has not        *)
(* touched still have the recorded mode, and it knows that of the others.  *)
DefaultInv ==
  Calm /\ bounds.setups = 0 =>
    /\ pc \notin {"convert", "undo", "persist"} =>
         \A d \in Hosted : domain[d] = Standing
    /\ pc \in Preparing \union {"convert", "undo"} =>
         \A d \in Hosted : /\ previous[d] = Standing
                           /\ d \notin changed => domain[d] = previous[d]

LEMMA DefaultStep ==
  TypeOK /\ HelperInv /\ DefaultInv /\ [Next]_vars => DefaultInv'
PROOF
<1> SUFFICES ASSUME TypeOK, HelperInv, DefaultInv, [Next]_vars,
                    Calm', bounds'.setups = 0
             PROVE  DefaultInv'
  BY DEF DefaultInv, Standing
<1>0. Hosted \subseteq Domains /\ Hosted \intersect New = {}
  BY DomainsAssumption DEF Domains
<1> USE DEF past, Preparing
<1>a. Calm /\ bounds.setups = 0
  BY Monotone DEF Calm
<1>1. ASSUME UNCHANGED <<domain, modefile, unrecorded>>,
             pc \notin {"convert", "undo", "persist"},
             \/ pc' \notin Preparing \union {"convert", "undo", "persist"}
             \/ /\ UNCHANGED <<previous, changed>> /\ pc \in Preparing
                /\ pc' \in Preparing \union {"convert"}
      PROVE  DefaultInv'
  BY <1>a, <1>1 DEF DefaultInv, Standing
<1>2. ASSUME UNCHANGED <<domain, modefile, unrecorded, pc, previous, changed>>
      PROVE  DefaultInv'
  BY <1>a, <1>2 DEF DefaultInv, Standing
<1>3. CASE SetWebserver
  BY <1>2, <1>3 DEF SetWebserver, build, helper
<1>4. CASE InstallTool
  BY <1>4, SpendType DEF InstallTool, Limited
<1>5. ASSUME NEW b \in Builders, ReadOptions(b) \/ Busy(b) PROVE DefaultInv'
  BY <1>2, <1>5 DEF ReadOptions, Busy, server, build, helper, history
<1>6. ASSUME NEW b \in Builders, TakeLock(b) PROVE DefaultInv'
  <2>1. pc = "idle"
    BY <1>6, BuildersAssumption DEF TakeLock, TypeOK
  <2> QED BY <1>1, <1>6, <2>1 DEF TakeLock, server, helper, history
<1>7. CASE Preflight \/ BuildComponent \/ Rebuilt
  BY <1>1, <1>7 DEF Preflight, BuildComponent, Rebuilt, Goto, server, history
<1>8. CASE PreflightFails
  BY <1>1, <1>8 DEF PreflightFails, Leave
<1>9. CASE ComponentFails
  BY <1>1, <1>9 DEF ComponentFails, Raise
<1>10. CASE HelperStart
  <2>1. /\ UNCHANGED <<domain, modefile, unrecorded>> /\ pc = "helper"
        /\ pc' \in {"prepare", "convert"}
        /\ previous' = [d \in Managed |-> domain[d]]
    BY <1>10 DEF HelperStart, Goto, server, history
  <2>2. \A d \in Hosted : previous'[d] = domain[d]
    BY <1>0, <2>1 DEF Managed, HelperInv
  <2> QED BY <1>a, <2>1, <2>2 DEF DefaultInv, Standing
<1>11. CASE HelperRefuses
  BY <1>1, <1>11 DEF HelperRefuses, Raise, server, history
<1>12. CASE RewriteListeners \/ Unmask \/ StartLsws
  BY <1>1, <1>12 DEF RewriteListeners, Unmask, StartLsws, Goto, helper, history
<1>13. CASE PrepareFails
  BY <1>1, <1>13 DEF PrepareFails, Fault, Raise
<1>14. CASE Convert
  <2>1. /\ UNCHANGED <<modefile, unrecorded, previous>>
        /\ pc = "convert" /\ pc' = pc
    BY <1>14 DEF Convert, build, history
  <2>2. \A d \in Hosted : d \notin changed' =>
          d \notin changed /\ domain'[d] = domain[d]
    BY <1>0, <1>14 DEF Convert, TypeOK
  <2> QED BY <1>a, <2>1, <2>2 DEF DefaultInv, Standing
<1>15. CASE ConvertFails \/ PostCheck
  <2>1. /\ UNCHANGED <<domain, modefile, unrecorded, previous, changed>>
        /\ pc = "convert" /\ pc' \in {"undo", "persist"}
    BY <1>15 DEF ConvertFails, PostCheck, Fault, Goto, server, helper,
       history
  <2> QED BY <1>a, <2>1 DEF DefaultInv, Standing
<1>16. CASE RollbackDomain
  <2>1. /\ UNCHANGED <<modefile, unrecorded, previous>>
        /\ pc = "undo" /\ pc' = pc
    BY <1>16 DEF RollbackDomain, build, history
  <2>2. \A d \in Hosted : d \notin changed' =>
          \/ d \notin changed /\ domain'[d] = domain[d]
          \/ domain'[d] = previous[d]
    BY <1>0, <1>16 DEF RollbackDomain, TypeOK
  <2> QED BY <1>a, <2>1, <2>2 DEF DefaultInv, Standing
<1>17. CASE SwitchFailed
  BY <1>a, <1>17 DEF SwitchFailed, Raise, server, history, DefaultInv,
     Standing
<1>18. CASE RollbackFails \/ CleanupFails \/ Interrupt \/ Kill
  BY <1>18 DEF RollbackFails, CleanupFails, Interrupt, Kill, Calm
<1>19. CASE PersistMode \/ PersistFails
  <2>1. Mode # None
    BY <1>19 DEF PersistMode, PersistFails, Mode, TypeOK, Request, Nobody,
       Modes, None
  <2>2. /\ pc = "persist" /\ domain' = domain
        /\ pc' \in {"apache", "cleanup"} /\ Standing' = Mode
    BY <1>19, <2>1 DEF PersistMode, PersistFails, Goto, Raise, server, Standing
  <2> QED BY <2>2 DEF HelperInv, DefaultInv
<1>20. CASE ReconcileApache \/ ReconcileLsws \/ Check \/ Doctor
  BY <1>1, <1>20 DEF ReconcileApache, ReconcileLsws, Check, Doctor, Goto, Raise,
     server, history
<1>21. CASE ReconcileFails \/ DoctorFails
  BY <1>1, <1>21 DEF ReconcileFails, DoctorFails, Fault, Raise, server
<1>22. CASE Cleanup
  BY <1>1, <1>22 DEF Cleanup, Leave, history
<1>23. CASE ClaimDomain \/ ApplyDefault
  <2>1. /\ UNCHANGED <<modefile, unrecorded, pc, previous, changed>>
        /\ \A d \in Hosted : domain'[d] = domain[d]
    BY <1>0, <1>23 DEF ClaimDomain, ApplyDefault, build, helper, history,
       TypeOK, NoClaim
  <2> QED BY <1>a, <2>1 DEF DefaultInv, Standing
<1>24. CASE ReadDefault \/ UNCHANGED vars
  BY <1>2, <1>24 DEF ReadDefault, vars, server, build, helper, history
<1>25. CASE Reboot
  <2>1. pc = "idle" /\ pc' = "idle"
    BY <1>25 DEF Reboot, Calm
  <2> QED BY <1>1, <1>25, <2>1 DEF Reboot
<1> QED
  BY <1>3, <1>4, <1>5, <1>6, <1>7, <1>8, <1>9, <1>10, <1>11, <1>12, <1>13,
     <1>14, <1>15, <1>16, <1>17, <1>18, <1>19, <1>20, <1>21, <1>22, <1>23,
     <1>24, <1>25 DEF Next

-----------------------------------------------------------------------------
LEMMA Invariant ==
  Spec => [](TypeOK /\ LoopbackInv /\ HelperInv /\ ServedInv /\ DefaultInv)
PROOF
<1>1. Init => LoopbackInv /\ HelperInv /\ ServedInv /\ DefaultInv
  <2> SUFFICES ASSUME Init
               PROVE  LoopbackInv /\ HelperInv /\ ServedInv /\ DefaultInv
    OBVIOUS
  <2>1. \A d \in Hosted : domain[d] = "hybrid"
    BY DEF Init, Domains
  <2>2. /\ pc = "idle" /\ active = {"apache"} /\ ~was
        /\ modefile = "hybrid" /\ unrecorded = None
    BY DEF Init
  <2>3. LoopbackInv
    BY <2>2 DEF LoopbackInv, LoopbackOnly
  <2>4. HelperInv
    BY <2>1, <2>2 DEF HelperInv, WebPCs, Preparing, None
  <2>5. ServedInv
    BY <2>1, <2>2 DEF ServedInv, Backend, Down
  <2>6. DefaultInv
    BY <2>1, <2>2 DEF DefaultInv, Standing, Preparing
  <2> QED BY <2>3, <2>4, <2>5, <2>6
<1> QED
  BY <1>1, StartType, TypeStep, LoopbackStep, HelperStep, ServedStep,
     DefaultStep, PTL DEF Spec

(* Every domain of the server is served at every moment, by a backend that *)
(* runs, unless a build that asked for OpenLiteSpeed has stopped lsws and  *)
(* is not over (hostpanel_build_operations.py:332-375), until the server   *)
(* is rebooted, a rollback fails, a service does not come back or a build  *)
(* is killed.                                                              *)
THEOREM AlwaysServed == Spec => []Served
PROOF
<1>1. ServedInv => Served
  <2> SUFFICES ASSUME ServedInv, Calm, bounds.reboots = 0, NEW d \in Hosted
               PROVE  ~Unserved(d)
    BY DEF Served
  <2>1. Backend(domain[d]) \subseteq active \union {"lsws"}
        /\ (Down(d) => OlsRequested)
    BY DEF ServedInv, ComesBack
  <2> QED BY <2>1 DEF Unserved, Down, Backend
<1> QED BY <1>1, Invariant, PTL

(* CUSTOMBUILD.md:62 and :218: except while they are converted, all        *)
(* domains of the server have the mode recorded for future ones, or the    *)
(* mode of the last conversion that could not be recorded, kills, failed   *)
(* rollbacks and re-runs of the installer excepted.                        *)
THEOREM DefaultAlwaysFollows == Spec => []DefaultFollows
PROOF
<1>1. DefaultInv => DefaultFollows
  BY DEF DefaultInv, DefaultFollows
<1> QED BY <1>1, Invariant, PTL
=============================================================================
