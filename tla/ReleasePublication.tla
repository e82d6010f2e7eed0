------------------------- MODULE ReleasePublication -------------------------
(***************************************************************************)
(* From a push to main to a signed GitHub release that the updater finds:  *)
(* publish-release.yml with the builder it runs (build-update-release.py,  *)
(* build_update_release_impl.py, release_legal.py) and                     *)
(* verify-existing-release.py.                                             *)
(*                                                                         *)
(* Simplifications.  A commit is its place on main.  What the builder      *)
(* makes depends on the commit alone, but for the time in                  *)
(* release-build.json.  An asset stands for a file and its signature.  A   *)
(* fault is a command that fails, a job that is cancelled or runs out of   *)
(* time, or a run that is cancelled while it waits.  A failed run is run   *)
(* again only while no other run waits.                                    *)
(***************************************************************************)
EXTENDS Naturals, Sequences, FiniteSets

CONSTANTS
  Gates,       \* the issues that must be closed
  Commits,     \* what a commit may hold, see Commit
  MaxCommits,  \* bound: pushes
  MaxFaults,   \* bound: faults
  MaxReopens,  \* bound: how often a gate is opened again
  MaxRepairs   \* bound: tags and drafts a maintainer deletes

(* RELEASE_VERSION, the VERSION of the signed source, whether              *)
(* RELEASE_VERSION is final, LICENSE and README are, the files the archive *)
(* must have are there, and a path the workflow watches is changed.        *)
Commit == [version: Nat, source: Nat, final: BOOLEAN, legal: BOOLEAN,
           whole: BOOLEAN, watched: BOOLEAN]

ASSUME CommitsAssumption == Commits \subseteq Commit
ASSUME BoundsAssumption ==
  {MaxCommits, MaxFaults, MaxReopens, MaxRepairs} \subseteq Nat

VARIABLES
  main,      \* the commits that were pushed, the last is the head
  open,      \* the gates that are open
  tags,      \* tags[v]: the commit of tag v, or None
  releases,  \* releases[v]: the GitHub release of tag v, or NoRelease
  pending,   \* the commit of the run that waits in the group, or None
  pc, run,   \* the step of the run in progress or the last one, and its data
  todo,      \* the gates a check has not read
  shut,      \* gates that have been closed since the publication was approved
  fresh,     \* the run's commit has been the head since then
  faults, reopens, repairs

github  == <<main, open, tags, releases>>
history == <<shut, fresh>>
counts  == <<faults, reopens, repairs>>
vars    == <<github, pending, pc, run, todo, history, counts>>

None == 0
Tip == Len(main)
Assets == {"archive", "manifest", "metadata"}
Versions == {c.version : c \in Commits}

NoRelease == [state |-> "none", assets |-> {}]
NoRun == [sha |-> None, version |-> 0, create |-> FALSE, tested |-> FALSE,
          dist |-> {}]

Init ==
  /\ main = << >> /\ open \in SUBSET Gates
  /\ tags = [v \in Versions |-> None]
  /\ releases = [v \in Versions |-> NoRelease]
  /\ pending = None /\ pc = "idle" /\ run = NoRun /\ todo = {}
  /\ shut = {} /\ fresh = FALSE
  /\ faults = 0 /\ reopens = 0 /\ repairs = 0
-----------------------------------------------------------------------------
(* What is read from a checkout.                                           *)

(* release_legal.validate_repository *)
Legal(c) == c.legal

(* The builder's own copy of Version, whose order is SemVer's.             *)
Newer(c) == c.source < c.version

(* deployable_release_version of the stable channel *)
Deployable(c) == Newer(c) /\ c.final

(* build_archive, validate_archive, canonical_manifest: the version inside *)
(* each of them is the commit's own.                                       *)
Built(sha) == {[name |-> a, commit |-> sha, version |-> main[sha].version] :
                 a \in Assets}

(* build-update-release.py without --print-version succeeds.               *)
Builds(c) == Legal(c) /\ Deployable(c) /\ c.whole
-----------------------------------------------------------------------------
(* The events that start a run.  The concurrency group holds one run in    *)
(* progress and one that waits; a new one takes the place of that one.     *)

(* Mutant of Push: the group keeps the older of two waiting runs.          *)
PushBehind(c) ==
  /\ Tip < MaxCommits /\ main' = Append(main, c)
  /\ pending' = IF c.watched /\ pending = None THEN Tip' ELSE pending
  /\ UNCHANGED <<open, tags, releases, pc, run, todo, history, counts>>

Push(c) ==
  /\ Tip < MaxCommits /\ main' = Append(main, c)
  /\ pending' = IF c.watched THEN Tip' ELSE pending
  /\ UNCHANGED <<open, tags, releases, pc, run, todo, history, counts>>

CloseGate(g) ==
  /\ g \in open /\ open' = open \ {g}
  /\ pending' = IF Tip # 0 THEN Tip ELSE None
  /\ shut' = shut \union {g}
  /\ UNCHANGED <<main, tags, releases, pc, run, todo, fresh, counts>>

ReopenGate(g) ==
  /\ g \in Gates \ open /\ reopens < MaxReopens
  /\ open' = open \union {g} /\ reopens' = reopens + 1
  /\ UNCHANGED <<main, tags, releases, pending, pc, run, todo, history,
                 faults, repairs>>

(* Any other issue is closed: its run, which has nothing to do, takes the  *)
(* place of the one that waits.                                            *)
CloseOther ==
  /\ pending # None /\ pending' = None
  /\ faults < MaxFaults /\ faults' = faults + 1
  /\ UNCHANGED <<github, pc, run, todo, history, reopens, repairs>>

(* A maintainer deletes what a failed publication has left.                *)
Repair(v) ==
  /\ repairs < MaxRepairs /\ repairs' = repairs + 1
  /\ \/ /\ releases[v] = NoRelease /\ tags[v] # None
        /\ tags' = [tags EXCEPT ![v] = None] /\ UNCHANGED releases
     \/ /\ releases[v].state = "draft"
        /\ releases' = [releases EXCEPT ![v] = NoRelease] /\ UNCHANGED tags
  /\ UNCHANGED <<main, open, pending, pc, run, todo, history, faults, reopens>>
-----------------------------------------------------------------------------
Ended == pc \in {"idle", "success", "failed"}

Goto(from, to) == pc = from /\ pc' = to

StartRun ==
  /\ Ended /\ pending # None
  /\ run' = [NoRun EXCEPT !.sha = pending] /\ pending' = None
  /\ pc' = "head" /\ todo' = {}
  /\ UNCHANGED <<github, history, counts>>

(* Mutant of RerunPublish: also after a verify job that has failed.        *)
RerunAnyJob ==
  /\ pc = "failed" /\ pending = None
  /\ pc' = "approve" /\ todo' = {}
  /\ UNCHANGED <<github, pending, run, history, counts>>

(* "Re-run failed jobs": a publish job that has failed starts again with   *)
(* the outputs the verify job left.                                        *)
RerunPublish ==
  /\ pc = "failed" /\ pending = None /\ run.tested
  /\ pc' = "approve" /\ todo' = {}
  /\ UNCHANGED <<github, pending, run, history, counts>>

(* "Re-run all jobs": the same commit again.                               *)
RerunAll ==
  /\ pc = "failed" /\ pending = None
  /\ run' = [NoRun EXCEPT !.sha = run.sha]
  /\ pc' = "head" /\ todo' = {}
  /\ UNCHANGED <<github, pending, history, counts>>

Quiet == UNCHANGED <<github, pending, history, counts>>

Fails ==
  /\ pc' = "failed" /\ todo' = {}
  /\ UNCHANGED <<github, pending, run, history>>

(* A step that fails if its condition does not hold.                       *)
Require(ok, from, to) ==
  /\ pc = from
  /\ IF ok THEN pc' = to /\ UNCHANGED <<github, pending, run, todo, history>>
     ELSE Fails
  /\ UNCHANGED counts

(* "Verify exact current main commit" *)
VerifyHead == Require(run.sha = Tip, "head", "version")

(* --print-version, with the legal gate before it *)
ResolveVersion ==
  Require(Legal(main[run.sha]) /\ Deployable(main[run.sha]), "version", "look")

RunVersion == main[run.sha].version

(* Mutant of VerifyExisting: any complete release of the version will do.  *)
VerifyAnyCommit(v) ==
  /\ releases[v].state = "final"
  /\ {a.name : a \in releases[v].assets} = Assets

(* verify_existing_release and verify-existing-release.py *)
VerifyExisting(v) ==
  /\ releases[v].state = "final"
  /\ tags[v] = run.sha
  /\ releases[v].assets = Built(run.sha)

(* Queries that fail read as "there is none".                              *)
Missed(tag) ==
  (IF releases[RunVersion] = NoRelease THEN 0 ELSE 1)
    + (IF tags[RunVersion] = None \/ tag THEN 0 ELSE 1)

(* "Resolve release version and publication state"                         *)
Look ==
  /\ pc = "look"
  /\ \/ /\ releases[RunVersion] # NoRelease
        /\ pc' = IF VerifyExisting(RunVersion) THEN "success" ELSE "failed"
        /\ UNCHANGED <<run, todo, faults>>
     \/ \E tag \in {FALSE, tags[RunVersion] # None} :
          /\ faults' = faults + Missed(tag) /\ faults' <= MaxFaults
          /\ run' = [run EXCEPT !.create = ~ tag, !.version = RunVersion]
          /\ pc' = "gates" /\ todo' = Gates
  /\ UNCHANGED <<github, pending, history, reopens, repairs>>

(* "Enforce release gates" and "Recheck release gates" read one issue      *)
(* after the other.                                                        *)
ReadGate(from, g) ==
  /\ pc = from /\ g \in todo
  /\ IF g \in open THEN Fails
     ELSE /\ todo' = todo \ {g}
          /\ UNCHANGED <<github, pending, pc, run, history>>
  /\ UNCHANGED counts

GatesRead(from, to) ==
  /\ Goto(from, to) /\ todo = {}
  /\ Quiet /\ UNCHANGED <<run, todo>>

(* "Run release regressions": the tests, and the build.                    *)
Test ==
  /\ pc = "test"
  /\ IF Builds(main[run.sha])
       THEN /\ pc' = "approve" /\ run' = [run EXCEPT !.tested = TRUE]
            /\ UNCHANGED <<github, pending, todo, history>>
       ELSE Fails
  /\ UNCHANGED counts

(* The environment's reviewer lets the publish job start.                  *)
Approve ==
  /\ Goto("approve", "revalidate")
  /\ shut' = Gates \ open /\ fresh' = (run.sha = Tip)
  /\ UNCHANGED <<github, pending, run, todo, counts>>

(* Mutant of Revalidate: main may have moved on.                           *)
RevalidateVersion ==
  /\ pc = "revalidate" /\ pc' = "recheck" /\ todo' = Gates
  /\ UNCHANGED <<github, pending, run, history, counts>>

(* "Revalidate exact current release input" *)
Revalidate ==
  /\ pc = "revalidate"
  /\ IF /\ run.sha = Tip /\ RunVersion = run.version
        /\ Legal(main[run.sha]) /\ Deployable(main[run.sha])
       THEN /\ pc' = "recheck" /\ todo' = Gates
            /\ UNCHANGED <<github, pending, run, history>>
       ELSE Fails
  /\ UNCHANGED counts

(* The build gives what it gave in the verify job.                         *)
BuildAndSign ==
  /\ Goto("build", "tag")
  /\ run' = [run EXCEPT !.dist = Built(run.sha)]
  /\ Quiet /\ UNCHANGED todo

(* Mutant of Tag: an existing tag is used as it is.                        *)
UseTag ==
  /\ pc = "tag" /\ pc' = "draft"
  /\ tags' = IF tags[run.version] = None
               THEN [tags EXCEPT ![run.version] = run.sha] ELSE tags
  /\ UNCHANGED <<main, open, releases, pending, run, todo, history, counts>>

(* "Publish GitHub release": a tag is made, which GitHub refuses if there  *)
(* is one, or the one there is must be at the commit.                      *)
Tag ==
  /\ pc = "tag"
  /\ \/ /\ run.create /\ tags[run.version] = None
        /\ tags' = [tags EXCEPT ![run.version] = run.sha] /\ pc' = "draft"
        /\ UNCHANGED <<main, open, releases, pending, run, todo, history>>
     \/ /\ ~ run.create /\ tags[run.version] = run.sha /\ pc' = "draft"
        /\ UNCHANGED <<github, pending, run, todo, history>>
     \/ /\ IF run.create THEN tags[run.version] # None
           ELSE tags[run.version] # run.sha
        /\ Fails
  /\ UNCHANGED counts

(* Mutant of Draft: a release that is there is edited.                     *)
DraftAnyway ==
  /\ pc = "draft" /\ tags[run.version] # None
  /\ releases' = [releases EXCEPT ![run.version] =
                                [@ EXCEPT !.state = "draft"]]
  /\ pc' = "upload"
  /\ UNCHANGED <<main, open, tags, pending, run, todo, history, counts>>

(* gh release create --verify-tag: a draft of a tag that has no release,   *)
(* its assets one after the other, then the release.                       *)
Draft ==
  /\ pc = "draft"
  /\ IF tags[run.version] # None /\ releases[run.version] = NoRelease
       THEN /\ releases' = [releases EXCEPT ![run.version] =
                                     [@ EXCEPT !.state = "draft"]]
            /\ pc' = "upload"
            /\ UNCHANGED <<main, open, tags, pending, run, todo, history>>
       ELSE Fails
  /\ UNCHANGED counts

Upload(a) ==
  /\ pc = "upload" /\ a \in run.dist \ releases[run.version].assets
  /\ IF releases[run.version].state = "draft"
       THEN /\ releases' = [releases EXCEPT ![run.version] =
               [state |-> "draft", assets |-> @.assets \union {a}]]
            /\ UNCHANGED <<main, open, tags, pending, pc, run, todo, history>>
       ELSE Fails
  /\ UNCHANGED counts

Publish ==
  /\ pc = "upload" /\ run.dist \subseteq releases[run.version].assets
  /\ releases' = [releases EXCEPT ![run.version] =
                                [@ EXCEPT !.state = "final"]]
  /\ pc' = "success"
  /\ UNCHANGED <<main, open, tags, pending, run, todo, history, counts>>

(* A job ends early; gh deletes the draft if it still can.                 *)
Fault ==
  /\ ~ Ended /\ faults < MaxFaults /\ faults' = faults + 1
  /\ pc' = "failed" /\ todo' = {}
  /\ \/ UNCHANGED releases
     \/ /\ pc = "upload"
        /\ releases' = [releases EXCEPT ![run.version] = NoRelease]
  /\ UNCHANGED <<main, open, tags, pending, run, history, reopens, repairs>>
-----------------------------------------------------------------------------
Verify ==
  \/ StartRun \/ VerifyHead \/ ResolveVersion \/ Look
  \/ \E g \in Gates : ReadGate("gates", g)
  \/ GatesRead("gates", "test") \/ Test

PublishJob ==
  \/ Approve \/ Revalidate
  \/ \E g \in Gates : ReadGate("recheck", g)
  \/ GatesRead("recheck", "build") \/ BuildAndSign \/ Tag \/ Draft
  \/ \E a \in run.dist : Upload(a)
  \/ Publish

People ==
  \/ \E c \in Commits : Push(c)
  \/ \E g \in Gates : CloseGate(g) \/ ReopenGate(g)
  \/ \E v \in Versions : Repair(v)
  \/ CloseOther \/ RerunPublish \/ RerunAll

Next == Verify \/ PublishJob \/ People \/ Fault

Spec == Init /\ [][Next]_vars

(* A runner goes on, and the reviewer approves what waits for approval.    *)
FairSpec == Spec /\ WF_vars(Verify) /\ WF_vars(PublishJob)
-----------------------------------------------------------------------------
Asset == [name: Assets, commit: 1..Tip, version: Versions]

Publishing == {"approve", "revalidate", "recheck", "build", "tag", "draft",
               "upload"}

(* TYPE: the values of the variables; a publish job has a commit and the   *)
(* version the verify job has found in it.                                 *)
TypeOK ==
  /\ main \in Seq(Commits) /\ open \subseteq Gates
  /\ tags \in [Versions -> 0..Tip]
  /\ releases \in [Versions -> [state: {"none", "draft", "final"},
                                assets: SUBSET Asset]]
  /\ pending \in 0..Tip
  /\ pc \in Publishing \union {"idle", "head", "version", "look", "gates",
                               "test", "success", "failed"}
  /\ run \in [sha: 0..Tip, version: Versions \union {0}, create: BOOLEAN,
             tested: BOOLEAN, dist: SUBSET Asset]
  /\ pc # "idle" \/ run.tested => run.sha # None
  /\ pc \in {"gates", "test"} \/ run.tested => run.version = RunVersion
  /\ pc \in Publishing => run.tested
  /\ todo \subseteq Gates /\ shut \subseteq Gates /\ fresh \in BOOLEAN
  /\ {faults, reopens, repairs} \subseteq Nat

(* A release is of one commit: its tag, its manifest and its archive name  *)
(* the same one, of that version and fit for the channel, and nothing is   *)
(* missing (publish-release.yml:340-365).                                  *)
ReleaseWhole ==
  \A v \in Versions : releases[v].state = "final" =>
    \E sha \in 1..Tip :
      /\ tags[v] = sha /\ releases[v].assets = Built(sha)
      /\ main[sha].version = v /\ Builds(main[sha])

(* What is published of a version stays: neither a second push with the    *)
(* same version nor a second run changes a release or the tag under it     *)
(* (publish-release.yml:187-196, 340-352).                                 *)
NeverReplaced ==
  [][\A v \in Versions : releases[v].state = "final" =>
       releases'[v] = releases[v] /\ tags'[v] = tags[v]]_vars

(* The reviewer may answer days later: only what held after that counts.   *)
(* Each gate has been closed and the commit the head of main since then    *)
(* (publish-release.yml:253-287).                                          *)
CheckedSinceApproval ==
  pc \in {"build", "tag", "draft", "upload"} => fresh /\ shut = Gates

(* A run that succeeds has found or made the release of its own commit, so *)
(* a version that was not raised is noticed (publish-release.yml:94-190).  *)
SuccessIsReleased ==
  pc = "success" =>
    /\ releases[RunVersion].state = "final"
    /\ releases[RunVersion].assets = Built(run.sha)

(* The head is published, or its version is taken.                         *)
Settled ==
  Tip > 0 /\ main[Tip].watched /\ Builds(main[Tip]) =>
    releases[main[Tip].version].state = "final"

(* When the gates stay closed in the end, the head that can be released    *)
(* is, unless its version already was or a job was broken off: the last    *)
(* event is the one that waits, whatever runs it finds                     *)
(* (publish-release.yml:3-43).                                             *)
Converges ==
  <>[](open = {}) => <>(faults + repairs > 0) \/ <>[]Settled
=============================================================================
