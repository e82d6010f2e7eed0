---------------------------- MODULE CustomBuild ----------------------------
(***************************************************************************)
(* hostpanel-build on one server: `set webserver`, `build TARGET --apply`  *)
(* by several administrators, the helper that converts the domains, the    *)
(* panel that creates domains meanwhile, and the re-run of the tool's      *)
(* installer.                                                              *)
(*                                                                         *)
(* Simplifications.  nginx is the public edge of every mode and is not     *)
(* shown; the php component only counts as a step that can fail.  A mode   *)
(* is named as the panel names it (nginx_apache is "hybrid").  A set of    *)
(* domains is converted in any order, where the helper sorts it.           *)
(* webserver.set_mode and the packages are outside the repository's code:  *)
(* set_mode reloads the backend, so it fails when that is not running, and *)
(* a package starts the service it installs unless that is masked.  Which  *)
(* units are enabled is not modelled: after a reboot any installed service *)
(* may run.                                                                *)
(***************************************************************************)
EXTENDS Naturals, Sequences, FiniteSets

CONSTANTS
  Builders,   \* hostpanel-build processes
  Targets,    \* what `build` is asked for
  Hosted,     \* domains there from the beginning
  New,        \* domains the panel may create
  MaxBuilds,  \* bound: builds
  MaxSets,    \* bound: `set webserver` commands
  MaxFaults,  \* bound: commands that fail
  MaxKills,   \* bound: Ctrl-C and SIGKILL
  MaxSetups,  \* bound: re-runs of install-hostpanel-build.sh
  MaxReboots  \* bound: reboots of the server

Domains  == Hosted \union New
Modes    == {"hybrid", "nginx", "apache", "openlitespeed"}
Services == {"apache", "lsws"}
None     == "none"

Components == {"nginx", "apache", "openlitespeed", "php"}

ASSUME TargetsAssumption == Targets \subseteq {"web"} \union Components
ASSUME DomainsAssumption == Hosted \intersect New = {}
ASSUME BuildersAssumption == None \notin Builders
ASSUME BoundsAssumption ==
  {MaxBuilds, MaxSets, MaxFaults, MaxKills, MaxSetups, MaxReboots}
    \subseteq Nat

VARIABLES
  (* the server *)
  conf,      \* webserver= of /etc/hostpanel/build.conf
  modefile,  \* /etc/hostpanel/webserver-mode
  domain,    \* domain[d]: the mode of a managed domain, None if there is none
  active,    \* the backend services that run
  ols,       \* OpenLiteSpeed: absent, with stock listeners, or loopback only
  masked,    \* the runtime mask of lsws.service
  (* the processes *)
  asked,     \* asked[b]: what b was asked for and the option it read
  lock,      \* /run/hostpanel-build.lock
  pc,        \* where the lock's holder is
  todo,      \* components it has yet to rebuild
  was,       \* ols_was_active
  failed,    \* it raised
  left,      \* domains the helper has yet to convert
  previous,  \* their modes before
  changed,   \* domains it converted
  updated,   \* it has rewritten stock listeners (updated_main # main_text)
  (* the panel *)
  claim,     \* the domain it is creating and the default it read
  (* what cannot be undone, and bounds *)
  trouble,   \* failures of a rollback or a service, interruptions, and what
             \* exposes stock listeners
  unrecorded, \* the mode of the last conversion that could not be recorded
  bounds

server  == <<conf, modefile, domain, active, ols, masked>>
helper  == <<left, previous, changed, updated>>
build   == <<lock, pc, todo, was, failed>>
past    == <<trouble, unrecorded>>
history == <<past, bounds>>
vars    == <<server, asked, build, helper, claim, history>>

Limits == [builds |-> MaxBuilds, sets |-> MaxSets, faults |-> MaxFaults,
           kills |-> MaxKills, setups |-> MaxSetups, reboots |-> MaxReboots]
Spend(what) ==
  /\ bounds[what] < Limits[what]
  /\ bounds' = [bounds EXCEPT ![what] = @ + 1]

(* What serves the content of a domain in each mode.                       *)
Backend(m) ==
  CASE m \in {"hybrid", "apache"} -> {"apache"}
    [] m = "openlitespeed"        -> {"lsws"}
    [] OTHER                      -> {}
Installed == ols # "absent"
Managed   == {d \in Domains : domain[d] # None}
ModeOf(d) == IF domain[d] = None THEN "nginx" ELSE domain[d]

WebComponents(m) ==
  CASE m \in {"hybrid", "apache"} -> <<"nginx", "apache", "php">>
    [] m = "openlitespeed"        -> <<"nginx", "openlitespeed", "php">>
    [] OTHER                      -> <<"nginx", "php">>
Expand(target, m) == IF target = "web" THEN WebComponents(m) ELSE <<target>>
Asks(b, c) ==
  \E i \in DOMAIN Expand(asked[b].target, asked[b].mode) :
     Expand(asked[b].target, asked[b].mode)[i] = c

Nobody == [target |-> None, mode |-> None]
Mode   == asked[lock].mode   \* options["webserver"] of the lock's holder
OlsRequested == lock # None /\ Asks(lock, "openlitespeed")
NoClaim == [domain |-> None, default |-> None]

Init ==
  /\ conf = "hybrid" /\ modefile = "hybrid"
  /\ domain = [d \in Domains |-> IF d \in Hosted THEN "hybrid" ELSE None]
  /\ active = {"apache"} /\ ols = "absent" /\ masked = FALSE
  /\ asked = [b \in Builders |-> Nobody]
  /\ lock = None /\ pc = "idle" /\ todo = <<>> /\ was = FALSE
  /\ failed = FALSE
  /\ left = {} /\ previous = [d \in {} |-> None] /\ changed = {}
  /\ updated = FALSE
  /\ claim = NoClaim
  /\ trouble = {} /\ unrecorded = None
  /\ bounds = [builds |-> 0, sets |-> 0, faults |-> 0, kills |-> 0,
               setups |-> 0, reboots |-> 0]
-----------------------------------------------------------------------------
(* Commands that take no lock: `set`, and the installer of the tool, which *)
(* copies the option to webserver-mode without converting a domain.        *)
SetWebserver ==
  /\ Spend("sets")
  /\ \E m \in Modes \ {conf} : conf' = m
  /\ UNCHANGED <<modefile, domain, active, ols, masked, asked, build, helper,
                 claim, past>>

InstallTool ==
  /\ Spend("setups")
  /\ modefile' = conf
  /\ UNCHANGED <<conf, domain, active, ols, masked, asked, build, helper, claim,
                 past>>

(* The options are read before the lock is asked for.                      *)
ReadOptions(b) ==
  /\ asked[b] = Nobody
  /\ Spend("builds")
  /\ \E t \in Targets :
       asked' = [asked EXCEPT ![b] = [target |-> t, mode |-> conf]]
  /\ UNCHANGED <<server, build, helper, claim, past>>

TakeLock(b) ==
  /\ asked[b] # Nobody /\ lock = None
  /\ lock' = b /\ pc' = "preflight"
  /\ todo' = Expand(asked[b].target, asked[b].mode)
  /\ was' = FALSE /\ failed' = FALSE
  /\ UNCHANGED <<server, asked, helper, claim, history>>

Busy(b) ==
  /\ asked[b] # Nobody /\ lock \notin {None, b}
  /\ asked' = [asked EXCEPT ![b] = Nobody]
  /\ UNCHANGED <<server, build, helper, claim, history>>
-----------------------------------------------------------------------------
Fault ==
  /\ Spend("faults")
  /\ UNCHANGED asked
Raise ==
  /\ pc' = "cleanup" /\ failed' = TRUE
  /\ UNCHANGED <<lock, todo, was>>
Goto(next) == pc' = next /\ UNCHANGED <<lock, todo, was, failed>>

(* Give the lock back and forget what the process had in memory.           *)
Leave ==
  /\ asked' = [asked EXCEPT ![lock] = Nobody]
  /\ lock' = None /\ pc' = "idle" /\ todo' = <<>>
  /\ was' = FALSE /\ failed' = FALSE
  /\ left' = {} /\ previous' = [d \in {} |-> None] /\ changed' = {}
  /\ updated' = FALSE

(* Mutant of Preflight: packages installed without the mask.               *)
StopOnly ==
  /\ pc = "preflight"
  /\ IF OlsRequested
       THEN was' = ("lsws" \in active) /\ active' = active \ {"lsws"}
       ELSE UNCHANGED <<was, active>>
  /\ pc' = "build"
  /\ UNCHANGED <<conf, modefile, domain, ols, masked, asked, lock, todo,
                 failed, helper, claim, history>>

(* Package metadata and candidates first, then the mask that stops lsws.   *)
Preflight ==
  /\ pc = "preflight"
  /\ IF OlsRequested
       THEN /\ was' = ("lsws" \in active)
            /\ active' = active \ {"lsws"} /\ masked' = TRUE
       ELSE UNCHANGED <<was, active, masked>>
  /\ pc' = "build"
  /\ UNCHANGED <<conf, modefile, domain, ols, asked, lock, todo, failed,
                 helper, claim, history>>

(* It raises before the try: nothing is undone, the mask included if       *)
(* `systemctl mask --now` set it and then failed to stop the service.      *)
PreflightFails ==
  /\ pc = "preflight" /\ Spend("faults")
  /\ masked' \in IF OlsRequested THEN {masked, TRUE} ELSE {masked}
  /\ Leave
  /\ UNCHANGED <<conf, modefile, domain, active, ols, claim, past>>

(* What installing or reinstalling the packages of a component does.       *)
Reinstall(c) ==
  CASE c = "apache" -> active' = active \union {"apache"} /\ UNCHANGED ols
    [] c = "openlitespeed" ->
         /\ ols' = IF Installed THEN ols ELSE "stock"
         /\ active' = IF masked THEN active ELSE active \union {"lsws"}
    [] OTHER -> UNCHANGED <<active, ols>>

BuildComponent ==
  /\ pc = "build" /\ todo # <<>>
  /\ Reinstall(Head(todo))
  /\ todo' = Tail(todo)
  /\ UNCHANGED <<conf, modefile, domain, masked, asked, lock, pc, was, failed,
                 helper, claim, history>>

(* The packages, the validation, or the restart may fail; a restart that   *)
(* fails leaves the service down.                                          *)
ComponentFails ==
  /\ pc = "build" /\ todo # <<>> /\ Fault
  /\ \/ UNCHANGED <<active, ols, trouble>>
     \/ Reinstall(Head(todo)) /\ UNCHANGED trouble
     \/ /\ Head(todo) = "apache"
        /\ active' = active \ {"apache"}
        /\ trouble' = trouble \union {"service"}
        /\ UNCHANGED ols
  /\ Raise
  /\ UNCHANGED <<conf, modefile, domain, masked, helper, claim, unrecorded>>

Rebuilt ==
  /\ pc = "build" /\ todo = <<>>
  /\ Goto(IF asked[lock].target = "web" THEN "helper" ELSE "doctor")
  /\ UNCHANGED <<server, asked, helper, claim, history>>
-----------------------------------------------------------------------------
(* hostpanel-build-web                                                     *)
HelperStart ==
  /\ pc = "helper" /\ conf = Mode
  /\ left' = Managed /\ changed' = {}
  /\ previous' = [d \in Managed |-> domain[d]] /\ updated' = FALSE
  /\ Goto(IF Mode = "openlitespeed" THEN "prepare" ELSE "convert")
  /\ UNCHANGED <<server, asked, claim, history>>

HelperRefuses ==
  /\ pc \in {"helper", "check"} /\ conf # Mode
  /\ Raise
  /\ UNCHANGED <<server, asked, helper, claim, history>>

(* prepare_openlitespeed: the listeners, the mask, then the service.       *)
RewriteListeners ==
  /\ pc = "prepare"
  /\ ols' = "loopback" /\ updated' = (ols = "stock")
  /\ Goto("unmask")
  /\ UNCHANGED <<conf, modefile, domain, active, masked, asked, left, previous,
                 changed, claim, history>>

Unmask ==
  /\ pc = "unmask"
  /\ masked' = FALSE
  /\ Goto("start")
  /\ UNCHANGED <<conf, modefile, domain, active, ols, asked, helper, claim,
                 history>>

StartLsws ==
  /\ pc = "start"
  /\ active' = active \union {"lsws"}
  /\ Goto("convert")
  /\ UNCHANGED <<conf, modefile, domain, ols, masked, asked, helper, claim,
                 history>>

(* The configuration is put back as it was.  The mask stays lifted, and    *)
(* lsws keeps running if `enable --now` had started it or starts it late:  *)
(* nothing stops it.                                                       *)
PrepareFails ==
  /\ pc \in {"prepare", "unmask", "start"} /\ Fault
  /\ ols' = IF updated THEN "stock" ELSE ols
  /\ active' \in {active} \union
                (IF pc = "start" THEN {active \union {"lsws"}} ELSE {})
  /\ trouble' = trouble \union
       (IF pc = "start" /\ updated THEN {"exposed"} ELSE {})
  /\ Raise
  /\ UNCHANGED <<conf, modefile, domain, masked, helper, claim, unrecorded>>

(* Mutant of Convert: a domain is remembered as converted only if it       *)
(* already had the mode.                                                   *)
RememberUnchanged ==
  /\ pc = "convert"
  /\ \E d \in left :
       /\ domain[d] # None /\ Backend(Mode) \subseteq active
       /\ domain' = [domain EXCEPT ![d] = Mode]
       /\ changed' = IF domain[d] = Mode THEN changed \union {d} ELSE changed
       /\ left' = left \ {d}
  /\ UNCHANGED <<conf, modefile, active, ols, masked, asked, build, previous,
                 updated, claim, history>>

Convert ==
  /\ pc = "convert"
  /\ \E d \in left :
       /\ domain[d] # None /\ Backend(Mode) \subseteq active
       /\ domain' = [domain EXCEPT ![d] = Mode]
       /\ changed' = IF domain[d] = Mode THEN changed ELSE changed \union {d}
       /\ left' = left \ {d}
  /\ UNCHANGED <<conf, modefile, active, ols, masked, asked, build, previous,
                 updated, claim, history>>

ConvertFails ==
  /\ pc = "convert" /\ left # {}
  /\ \/ Fault
     \/ /\ \E d \in left : domain[d] = None
        /\ UNCHANGED <<asked, bounds>>
  /\ Goto("undo")
  /\ UNCHANGED <<server, helper, claim, past>>

PostCheck ==
  /\ pc = "convert" /\ left = {}
  /\ Goto(IF \A d \in DOMAIN previous : ModeOf(d) = Mode
            THEN "persist" ELSE "undo")
  /\ UNCHANGED <<server, asked, helper, claim, history>>

RollbackDomain ==
  /\ pc = "undo"
  /\ \E d \in changed :
       /\ domain[d] # None /\ Backend(previous[d]) \subseteq active
       /\ domain' = [domain EXCEPT ![d] = previous[d]]
       /\ changed' = changed \ {d}
  /\ UNCHANGED <<conf, modefile, active, ols, masked, asked, build, left,
                 previous, updated, claim, history>>

RollbackFails ==
  /\ pc = "undo"
  /\ \E d \in changed :
       /\ changed' = changed \ {d}
       /\ \/ Fault
          \/ /\ domain[d] = None \/ ~ Backend(previous[d]) \subseteq active
             /\ UNCHANGED <<asked, bounds>>
  /\ trouble' = trouble \union {"rollback"}
  /\ UNCHANGED <<server, build, left, previous, updated, claim, unrecorded>>

SwitchFailed ==
  /\ pc = "undo" /\ changed = {}
  /\ Raise
  /\ UNCHANGED <<server, asked, helper, claim, history>>
-----------------------------------------------------------------------------
PersistMode ==
  /\ pc = "persist"
  /\ modefile' = Mode /\ unrecorded' = None
  /\ Goto("apache")
  /\ UNCHANGED <<conf, domain, active, ols, masked, asked, helper, claim,
                 trouble, bounds>>

(* Nothing is rolled back.                                                 *)
PersistFails ==
  /\ pc = "persist" /\ Fault
  /\ unrecorded' = Mode
  /\ Raise
  /\ UNCHANGED <<server, helper, claim, trouble>>

ReconcileApache ==
  /\ pc = "apache"
  /\ active' = (active \ {"apache"}) \union
               (Backend(Mode) \intersect {"apache"})
  /\ Goto("lsws")
  /\ UNCHANGED <<conf, modefile, domain, ols, masked, asked, helper, claim,
                 history>>

ReconcileFails ==
  /\ pc \in {"apache", "lsws"} /\ Fault
  /\ Raise
  /\ UNCHANGED <<server, helper, claim, past>>

ReconcileLsws ==
  /\ pc = "lsws"
  /\ active' = IF Mode = "openlitespeed" THEN active ELSE active \ {"lsws"}
  /\ Goto("check")
  /\ UNCHANGED <<conf, modefile, domain, ols, masked, asked, helper, claim,
                 history>>

(* hostpanel-build-web --check lists the domains again.                    *)
Check ==
  /\ pc = "check" /\ conf = Mode
  /\ IF /\ Backend(Mode) \intersect {"lsws"} \subseteq active
        /\ \A d \in Managed : domain[d] = Mode
       THEN Goto("doctor")
       ELSE Raise
  /\ UNCHANGED <<server, asked, helper, claim, history>>

(* hostpanel-doctor wants lsws to run once it is installed; that Apache    *)
(* does not run is only a warning, and exit status 1.                      *)
DoctorPasses == "apache" \in active /\ (Installed => "lsws" \in active)

Doctor ==
  /\ pc = "doctor"
  /\ IF DoctorPasses THEN Goto("cleanup") ELSE Raise
  /\ UNCHANGED <<server, asked, helper, claim, history>>

DoctorFails ==
  /\ pc = "doctor" /\ Fault /\ Raise
  /\ UNCHANGED <<server, helper, claim, past>>

(* Mutant of Restarts: lsws restarted only after a success *)
RestartOnSuccess == OlsRequested /\ ~ failed /\ was

(* The finally clause of apply_build.                                      *)
Restarts == OlsRequested /\ failed /\ was

(* Mutant of Cleanup: the process returns without closing the lock *)
KeepLock ==
  /\ pc = "cleanup"
  /\ masked' = (masked /\ ~ OlsRequested)
  /\ active' = active \union (IF Restarts THEN {"lsws"} ELSE {})
  /\ asked' = [asked EXCEPT ![lock] = Nobody]
  /\ pc' = "idle" /\ todo' = <<>> /\ was' = FALSE /\ failed' = FALSE
  /\ left' = {} /\ previous' = [d \in {} |-> None] /\ changed' = {}
  /\ updated' = FALSE
  /\ UNCHANGED <<conf, modefile, domain, ols, lock, claim, history>>

Cleanup ==
  /\ pc = "cleanup"
  /\ masked' = (masked /\ ~ OlsRequested)
  /\ active' = active \union (IF Restarts THEN {"lsws"} ELSE {})
  /\ Leave
  /\ UNCHANGED <<conf, modefile, domain, ols, claim, history>>

CleanupFails ==
  /\ pc = "cleanup" /\ Restarts /\ Spend("faults")
  /\ masked' = FALSE /\ active' = active \ {"lsws"}
  /\ trouble' = trouble \union {"service"}
  /\ Leave
  /\ UNCHANGED <<conf, modefile, domain, ols, claim, unrecorded>>

(* Ctrl-C reaches the helper too; KeyboardInterrupt is no Exception, so no *)
(* domain is rolled back, but the finally clause of apply_build runs.      *)
Interrupt ==
  /\ pc \notin {"idle", "preflight", "cleanup"}
  /\ Spend("kills")
  /\ trouble' = trouble \union {"interrupted"}
  /\ Raise
  /\ UNCHANGED <<server, asked, helper, claim, unrecorded>>

Kill ==
  /\ pc # "idle"
  /\ Spend("kills")
  /\ trouble' = trouble \union {"killed"}
  /\ Leave
  /\ UNCHANGED <<server, claim, unrecorded>>

(* The mask is a runtime one: where a package was installed and its stock  *)
(* listeners were never rewritten, lsws may start with them.               *)
Reboot ==
  /\ Spend("reboots")
  /\ active' \in SUBSET (IF Installed THEN Services ELSE {"apache"})
  /\ masked' = FALSE
  /\ trouble' = trouble \union (IF pc = "idle" THEN {} ELSE {"killed"})
                        \union (IF ols = "stock" THEN {"exposed"} ELSE {})
  /\ asked' = [b \in Builders |-> Nobody]
  /\ lock' = None /\ pc' = "idle" /\ todo' = <<>>
  /\ was' = FALSE /\ failed' = FALSE
  /\ left' = {} /\ previous' = [d \in {} |-> None] /\ changed' = {}
  /\ updated' = FALSE /\ claim' = NoClaim
  /\ UNCHANGED <<conf, modefile, domain, ols, unrecorded>>
-----------------------------------------------------------------------------
(* The panel creates a domain: claimed under nginx, then moved to the      *)
(* default mode that it reads.                                             *)
ClaimDomain ==
  /\ claim = NoClaim
  /\ \E d \in New :
       /\ domain[d] = None
       /\ domain' = [domain EXCEPT ![d] = "nginx"]
       /\ claim' = [domain |-> d, default |-> None]
  /\ UNCHANGED <<conf, modefile, active, ols, masked, asked, build, helper,
                 history>>

ReadDefault ==
  /\ claim # NoClaim /\ claim.default = None
  /\ claim' = IF modefile = "nginx" THEN NoClaim
              ELSE [claim EXCEPT !.default = modefile]
  /\ UNCHANGED <<server, asked, build, helper, history>>

(* The claim is released when set_mode raises.                             *)
ApplyDefault ==
  /\ claim.default # None
  /\ domain' = [domain EXCEPT ![claim.domain] =
                  IF Backend(claim.default) \subseteq active
                    THEN claim.default ELSE None]
  /\ claim' = NoClaim
  /\ UNCHANGED <<conf, modefile, active, ols, masked, asked, build, helper,
                 history>>
-----------------------------------------------------------------------------
Next ==
  \/ SetWebserver \/ InstallTool
  \/ \E b \in Builders : ReadOptions(b) \/ TakeLock(b) \/ Busy(b)
  \/ Preflight \/ PreflightFails \/ BuildComponent \/ ComponentFails \/ Rebuilt
  \/ HelperStart \/ HelperRefuses
  \/ RewriteListeners \/ Unmask \/ StartLsws \/ PrepareFails
  \/ Convert \/ ConvertFails \/ PostCheck
  \/ RollbackDomain \/ RollbackFails \/ SwitchFailed
  \/ PersistMode \/ PersistFails
  \/ ReconcileApache \/ ReconcileFails \/ ReconcileLsws
  \/ Check \/ Doctor \/ DoctorFails \/ Cleanup \/ CleanupFails
  \/ Interrupt \/ Kill \/ Reboot
  \/ ClaimDomain \/ ReadDefault \/ ApplyDefault

Spec == Init /\ [][Next]_vars
-----------------------------------------------------------------------------
PCs == {"preflight", "build", "helper", "prepare", "unmask", "start",
        "convert", "undo", "persist", "apache", "lsws", "check", "doctor",
        "cleanup"}

Request == [target: Targets, mode: Modes]

(* TYPE: the values of the variables, and that memory of a build exists    *)
(* only while its process holds the lock.                                  *)
TypeOK ==
  /\ conf \in Modes /\ modefile \in Modes
  /\ domain \in [Domains -> Modes \union {None}]
  /\ active \subseteq Services /\ masked \in BOOLEAN
  /\ ols \in {"absent", "stock", "loopback"}
  /\ asked \in [Builders -> {Nobody} \union Request]
  /\ \/ lock = None /\ pc = "idle" /\ ~ failed /\ ~ was
     \/ lock \in Builders /\ asked[lock] # Nobody /\ pc \in PCs
  /\ todo \in Seq(Components)
  /\ was \in BOOLEAN /\ failed \in BOOLEAN
  /\ DOMAIN previous \subseteq Domains
  /\ previous \in [DOMAIN previous -> Modes]
  /\ left \subseteq DOMAIN previous /\ changed \subseteq DOMAIN previous \ left
  /\ pc \in {"idle", "preflight", "build", "helper"} => DOMAIN previous = {}
  /\ claim \in {NoClaim} \union [domain: New, default: Modes \union {None}]
  /\ updated \in BOOLEAN /\ unrecorded \in Modes \union {None}
  /\ trouble \subseteq {"service", "rollback", "exposed", "interrupted",
                        "killed"}
  /\ bounds \in [builds: 0..MaxBuilds, sets: 0..MaxSets, faults: 0..MaxFaults,
                 kills: 0..MaxKills, setups: 0..MaxSetups,
                 reboots: 0..MaxReboots]

(* What a build's own failures leave: every rollback succeeded, every      *)
(* service came back and nothing was interrupted or killed.                *)
Calm == trouble \subseteq {"exposed"}

(* Every domain of the server is served at every moment, during builds too *)
(* and whichever step of a build fails (hostpanel_build_operations.py:     *)
(* 332-375): its backend runs, unless a build that asked for OpenLiteSpeed *)
(* has stopped lsws and is not over.  A failed rollback, a service that    *)
(* does not come back, a kill and a reboot are exempt.                     *)
Unserved(d) ==
  ~ Backend(domain[d]) \subseteq
      active \union (IF OlsRequested THEN {"lsws"} ELSE {})
Served == Calm /\ bounds.reboots = 0 => \A d \in Hosted : ~ Unserved(d)

(* CUSTOMBUILD.md:62 and :218: except while they are being converted, all  *)
(* domains of the server use one mode: a conversion that fails rolls all   *)
(* of them back (hostpanel_build_web.py:335-351).  That is the mode        *)
(* recorded for future domains, except after persist_web_mode has failed   *)
(* (hostpanel_build_operations.py:228): then all of them use the mode the  *)
(* failed build asked for, until a later conversion is recorded.  A failed *)
(* rollback, a kill, and a re-run of the installer, which records a mode   *)
(* without converting anything, are exempt.                                *)
Standing == IF unrecorded = None THEN modefile ELSE unrecorded
DefaultFollows ==
  /\ Calm /\ bounds.setups = 0
  /\ pc \notin {"convert", "undo", "persist"}
  => \A d \in Hosted : domain[d] = Standing

(* CUSTOMBUILD.md:216: OpenLiteSpeed does not run over the listeners its   *)
(* package brings, whichever other step fails or is killed: the mask stays *)
(* until they are rewritten.  Two events are excepted, in which the code   *)
(* lets it: a preparation that fails once `enable --now` is asked for puts *)
(* the stock listeners back without stopping lsws (hostpanel_build_web.py: *)
(* 260-270), and a reboot before they are rewritten loses the runtime mask *)
(* (hostpanel_build_operations.py:282).                                    *)
LoopbackOnly == "lsws" \in active /\ "exposed" \notin trouble
                  => ols = "loopback"

(* CUSTOMBUILD.md:62 promises that an applied build changes every managed  *)
(* domain before it disables the unused backends: what Served says, for    *)
(* the domains the panel creates meanwhile.                                *)
NewDomainServed ==
  Calm /\ bounds.reboots = 0 => \A d \in New : ~ Unserved(d)

=============================================================================
