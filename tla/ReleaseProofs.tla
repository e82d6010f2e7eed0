--------------------------- MODULE ReleaseProofs ---------------------------
(***************************************************************************)
(* What the publication workflow promises for any gates, any commits and   *)
(* any number of pushes, faults and re-runs, and that it implements        *)
(* ReleaseChannel.                                                         *)
(***************************************************************************)
EXTENDS ReleasePublication, TLAPS

(* Commits stay where they are on main.                                    *)
LEMMA PushKeeps ==
  ASSUME TypeOK, NEW c \in Commits, Push(c)
  PROVE  /\ main' \in Seq(Commits) /\ Tip' = Tip + 1 /\ main'[Tip'] = c
         /\ \A sha \in 1..Tip : main'[sha] = main[sha]
PROOF
<1>1. main \in Seq(Commits) /\ main' = Append(main, c)
  BY DEF TypeOK, Push
<1> QED
  BY <1>1 DEF Tip

LEMMA BuiltType ==
  ASSUME TypeOK, NEW sha \in 1..Tip
  PROVE  /\ main[sha] \in Commits /\ main[sha].version \in Versions
         /\ Built(sha) \subseteq Asset
PROOF
<1>1. main[sha] \in Commits
  BY DEF TypeOK, Tip
<1>2. main[sha].version \in Versions
  BY <1>1 DEF Versions
<1> QED
  BY <1>1, <1>2 DEF Built, Asset

Release == [state: {"none", "draft", "final"}, assets: SUBSET Asset]
Run == [sha: 0..Tip, version: Versions \union {0}, create: BOOLEAN,
        tested: BOOLEAN, dist: SUBSET Asset]

(* A job at work has a commit, and a publish job what its verify job left. *)
LEMMA RunFacts ==
  ASSUME TypeOK
  PROVE  /\ run \in Run /\ Tip \in Nat
         /\ pc # "idle" \/ run.tested =>
              run.sha \in 1..Tip /\ RunVersion \in Versions
         /\ pc \in {"gates", "test"} \/ run.tested =>
              run.version = RunVersion
         /\ pc \in Publishing => run.version = RunVersion /\ run.tested
         /\ pending \in 0..Tip /\ todo \subseteq Gates
PROOF
<1>1. run \in Run /\ Tip \in Nat
  BY DEF TypeOK, Run, Tip
<1>2. pc # "idle" \/ run.tested => run.sha \in 1..Tip
  BY <1>1 DEF TypeOK, Run, None
<1> QED
  BY <1>1, <1>2, BuiltType DEF TypeOK, RunVersion

LEMMA FailsType ==
  ASSUME TypeOK, Fails, pc # "idle",
         \/ UNCHANGED counts
         \/ faults' = faults + 1 /\ UNCHANGED <<reopens, repairs>>
  PROVE  TypeOK'
PROOF
<1>1. UNCHANGED <<main, open, tags, releases, pending, run, shut, fresh>>
  BY DEF Fails, github, history
<1>2. Tip' = Tip /\ RunVersion' = RunVersion /\ Asset' = Asset
  BY <1>1 DEF Tip, RunVersion, Asset
<1>3. pc # "idle" => run.sha # None
  BY DEF TypeOK
<1> QED
  BY <1>1, <1>2, <1>3 DEF TypeOK, Fails, counts, Publishing

LEMMA TypeStep == TypeOK /\ [Next]_vars => TypeOK'
PROOF
<1> SUFFICES ASSUME TypeOK, [Next]_vars PROVE TypeOK'
  OBVIOUS
<1>a. /\ run \in Run /\ Tip \in Nat
      /\ pc # "idle" \/ run.tested =>
           run.sha \in 1..Tip /\ RunVersion \in Versions
      /\ pc \in {"gates", "test"} \/ run.tested => run.version = RunVersion
      /\ pc \in Publishing => run.version = RunVersion /\ run.tested
      /\ pending \in 0..Tip /\ todo \subseteq Gates
  BY RunFacts
<1>1. ASSUME UNCHANGED main
      PROVE  /\ Tip' = Tip /\ Asset' = Asset
             /\ run' = run => RunVersion' = RunVersion
  BY <1>1 DEF Tip, Asset, RunVersion
<1>2. ASSUME NEW c \in Commits, Push(c) PROVE TypeOK'
  <2>1. /\ main' \in Seq(Commits) /\ Tip' = Tip + 1
        /\ \A sha \in 1..Tip : main'[sha] = main[sha]
    BY <1>2, PushKeeps
  <2>2. Asset \subseteq Asset' /\ 0..Tip \subseteq 0..Tip' /\ Tip' \in 0..Tip'
    BY <1>a, <2>1 DEF Asset
  <2>3. run.sha \in 1..Tip => RunVersion' = RunVersion
    BY <1>2, <2>1 DEF Push, RunVersion
  <2>4. run.tested => run.sha \in 1..Tip
    BY <1>a
  <2> QED
    BY <1>2, <1>a, <2>1, <2>2, <2>3, <2>4 DEF Push, TypeOK, Run, history, counts
<1>3. CASE Fails /\ pc # "idle" /\ UNCHANGED counts
  BY <1>3, FailsType
<1>4. ASSUME NEW g \in Gates, CloseGate(g) \/ ReopenGate(g) PROVE TypeOK'
  <2>1. UNCHANGED <<main, tags, releases, pc, run, todo, fresh>>
    BY <1>4 DEF CloseGate, ReopenGate, history
  <2>2. /\ pending' \in 0..Tip /\ open' \subseteq Gates /\ shut' \subseteq Gates
        /\ {faults', reopens', repairs'} \subseteq Nat
    <3>1. CASE CloseGate(g)
      BY <3>1, <1>a DEF CloseGate, TypeOK, counts, None
    <3>2. CASE ReopenGate(g)
      BY <3>2, <1>a DEF ReopenGate, TypeOK, history
    <3> QED BY <1>4, <3>1, <3>2
  <2> QED BY <1>1, <2>1, <2>2 DEF TypeOK
<1>4a. CASE CloseOther
  <2>1. /\ pending' \in 0..Tip /\ faults' \in Nat
        /\ UNCHANGED <<main, open, tags, releases, pc, run, todo, shut, fresh,
                       reopens, repairs>>
    BY <1>4a, <1>a DEF CloseOther, TypeOK, None, github, history
  <2> QED BY <1>1, <2>1 DEF TypeOK
<1>5. ASSUME NEW v \in Versions, Repair(v) PROVE TypeOK'
  <2>1. tags' \in [Versions -> 0..Tip]
    <3>1. None \in 0..Tip
      BY <1>a DEF None
    <3> QED BY <1>5, <3>1 DEF Repair, TypeOK
  <2>2. releases' \in [Versions -> Release]
    BY <1>5 DEF Repair, TypeOK, NoRelease, Release
  <2> QED
    BY <1>5, <1>1, <1>a, <2>1, <2>2 DEF Repair, TypeOK, Release, history
<1>6. ASSUME UNCHANGED <<main, open, tags, releases, shut, fresh, counts>>,
             pending' \in {pending, None}, todo' \subseteq Gates,
             run' \in Run, run'.sha # None,
             run'.tested => run'.version = main[run'.sha].version,
             pc' \in {"gates", "test"} => run'.version = main[run'.sha].version,
             pc' \in Publishing \union {"head", "version", "look", "gates",
                                        "test", "success", "failed"},
             pc' \in Publishing => run'.tested
      PROVE  TypeOK'
  BY <1>6, <1>1, <1>a DEF TypeOK, Run, counts, RunVersion, None
<1>7. CASE StartRun \/ RerunPublish \/ RerunAll
  <2>1. CASE StartRun
    <3>1. run' = [NoRun EXCEPT !.sha = pending] /\ pending # None
      BY <2>1 DEF StartRun
    <3>2. run' \in Run /\ run'.sha # None /\ ~ run'.tested
      BY <1>a, <3>1 DEF NoRun, Run
    <3> QED BY <2>1, <1>6, <3>2 DEF StartRun, github, history, Publishing
  <2>2. CASE RerunPublish
    BY <2>2, <1>6, <1>a
       DEF RerunPublish, Run, github, history, None, TypeOK, Publishing,
           RunVersion
  <2>3. CASE RerunAll
    <3>1. PICK sha \in 1..Tip : run' = [NoRun EXCEPT !.sha = sha]
      BY <1>a, <2>3 DEF RerunAll
    <3>a. sha \in 0..Tip /\ sha # None
      BY <1>a DEF None
    <3>2. run' \in Run /\ run'.sha # None /\ ~ run'.tested
      BY <3>a, <3>1 DEF NoRun, Run
    <3> QED BY <2>3, <1>6, <3>2 DEF RerunAll, github, history, Publishing
  <2> QED BY <1>7, <2>1, <2>2, <2>3
<1>8. ASSUME pc # "idle",
             UNCHANGED <<github, pending, run, history, counts>>,
             todo' \subseteq Gates,
             pc' \in {"version", "look", "success", "failed"}
               \/ (pc \in {"gates", "test"} /\ pc' \in {"gates", "test"})
               \/ (pc \in Publishing /\ pc' \in Publishing)
      PROVE  TypeOK'
  BY <1>8, <1>6, <1>a DEF github, history, None, RunVersion, Publishing
<1>9. CASE VerifyHead \/ ResolveVersion
  <2>1. CASE VerifyHead
    BY <2>1, <1>3, <1>8, <1>a DEF VerifyHead, Require
  <2>2. CASE ResolveVersion
    BY <2>2, <1>3, <1>8, <1>a DEF ResolveVersion, Require
  <2> QED BY <1>9, <2>1, <2>2
<1>10. CASE Look
  <2>1. CASE releases[RunVersion] # NoRelease /\ pc' \in {"success", "failed"}
             /\ UNCHANGED <<run, todo, faults>>
    BY <1>10, <2>1, <1>8, <1>a DEF Look, counts
  <2>2. ASSUME NEW tag \in BOOLEAN,
               faults' = faults + Missed(tag),
               run' = [run EXCEPT !.create = ~ tag, !.version = RunVersion],
               pc' = "gates", todo' = Gates
        PROVE  TypeOK'
    <3>1. Missed(tag) \in Nat /\ faults' \in Nat
      BY <2>2 DEF Missed, TypeOK
    <3>2. /\ run' \in Run /\ run'.sha = run.sha /\ run'.version = RunVersion
          /\ run'.tested = run.tested /\ run.sha \in 1..Tip
      BY <1>10, <1>a, <2>2 DEF Look, Run
    <3>3. UNCHANGED <<main, open, tags, releases, pending, shut, fresh,
                      reopens, repairs>>
      BY <1>10 DEF Look, github, history
    <3>4. run'.version = main'[run'.sha].version
      BY <3>2, <3>3 DEF RunVersion
    <3> QED
      BY <2>2, <1>1, <3>1, <3>2, <3>3, <3>4
         DEF TypeOK, Run, RunVersion, None, Publishing
  <2> QED BY <1>10, <2>1, <2>2 DEF Look
<1>11. ASSUME NEW g \in Gates, ReadGate("gates", g) \/ ReadGate("recheck", g)
       PROVE  TypeOK'
  BY <1>11, <1>3, <1>8, <1>a DEF ReadGate, Publishing
<1>12. CASE GatesRead("gates", "test") \/ GatesRead("recheck", "build")
  BY <1>12, <1>8, <1>a DEF GatesRead, Goto, Quiet, Publishing
<1>13. CASE Test
  <2>1. CASE /\ pc = "test" /\ pc' = "approve"
             /\ run' = [run EXCEPT !.tested = TRUE]
             /\ UNCHANGED <<github, pending, todo, history, counts>>
    <3>1. /\ run' \in Run /\ run'.sha = run.sha
          /\ run'.version = main[run.sha].version /\ run'.tested
      BY <1>a, <2>1 DEF Run, RunVersion
    <3> QED BY <1>a, <1>6, <2>1, <3>1 DEF github, history, Publishing, None
  <2> QED BY <1>3, <1>13, <2>1 DEF Test
<1>14. CASE Approve
  BY <1>14, <1>1, <1>a
     DEF Approve, Goto, TypeOK, github, Publishing, counts
<1>15. CASE Revalidate
  BY <1>15, <1>3, <1>8, <1>a DEF Revalidate, Publishing
<1>16. CASE BuildAndSign
  <2>1. /\ run.sha \in 1..Tip /\ Built(run.sha) \subseteq Asset
        /\ run' = [run EXCEPT !.dist = Built(run.sha)]
    BY <1>16, <1>a, BuiltType DEF BuildAndSign, Goto
  <2>2. /\ run' \in Run /\ run'.sha = run.sha /\ run'.version = run.version
        /\ run'.tested = run.tested
    BY <1>a, <2>1 DEF Run
  <2> QED
    BY <1>16, <1>a, <1>6, <2>1, <2>2
       DEF BuildAndSign, Goto, Quiet, github, history, Publishing, RunVersion,
           None
<1>17. ASSUME pc \in Publishing, tags' \in [Versions -> 0..Tip],
              releases' \in [Versions -> Release],
              pc' \in Publishing \union {"success", "failed"},
              todo' \subseteq Gates, {faults'} \subseteq Nat,
              UNCHANGED <<main, open, pending, run, history, reopens, repairs>>
       PROVE  TypeOK'
  BY <1>17, <1>1, <1>a DEF TypeOK, Release, history, Publishing
<1>18. faults \in Nat /\ releases \in [Versions -> Release]
       /\ tags \in [Versions -> 0..Tip]
  BY DEF TypeOK, Release
<1>19. CASE Tag
  <2>1. CASE Fails /\ UNCHANGED counts
    BY <1>3, <1>19, <2>1 DEF Tag
  <2>2. CASE /\ tags' \in {tags, [tags EXCEPT ![run.version] = run.sha]}
             /\ pc' = "draft"
             /\ UNCHANGED <<main, open, releases, pending, run, todo, history,
                            counts>>
    <3>1. pc = "tag" /\ run.sha \in 0..Tip
      BY <1>19, <1>a DEF Tag, Run
    <3>2. tags' \in [Versions -> 0..Tip]
      BY <1>18, <2>2, <3>1
    <3> QED
      BY <1>17, <1>18, <1>a, <2>2, <3>1, <3>2 DEF counts, Publishing
  <2> QED BY <1>19, <2>1, <2>2 DEF Tag, github
<1>20. CASE Draft
  <2>1. CASE Fails /\ UNCHANGED counts
    BY <1>3, <1>20, <2>1 DEF Draft
  <2>2. CASE /\ releases' = [releases EXCEPT ![run.version] =
                                [@ EXCEPT !.state = "draft"]]
             /\ pc' = "upload"
             /\ UNCHANGED <<main, open, tags, pending, run, todo, history,
                            counts>>
    <3>1. releases' \in [Versions -> Release]
      BY <1>18, <2>2 DEF Release
    <3> QED BY <1>17, <1>18, <1>20, <1>a, <2>2, <3>1
            DEF counts, Publishing, Draft
  <2> QED BY <1>20, <2>1, <2>2 DEF Draft
<1>21. ASSUME NEW a \in run.dist, Upload(a) PROVE TypeOK'
  <2>1. CASE Fails /\ UNCHANGED counts
    BY <1>3, <1>21, <2>1 DEF Upload
  <2>2. CASE /\ releases' = [releases EXCEPT ![run.version] =
                [state |-> "draft", assets |-> @.assets \union {a}]]
             /\ UNCHANGED <<main, open, tags, pending, pc, run, todo, history,
                            counts>>
    <3>1. a \in Asset
      BY <1>21, <1>a DEF Run
    <3>a. run.version \in Versions
      BY <1>21, <1>a DEF Upload, Publishing
    <3>b. [state |-> "draft",
           assets |-> releases[run.version].assets \union {a}] \in Release
      BY <1>18, <3>1, <3>a DEF Release
    <3>3. releases' \in [Versions -> Release]
      BY <1>18, <2>2, <3>b
    <3> QED BY <1>17, <1>18, <1>21, <1>a, <2>2, <3>3
            DEF counts, Publishing, Upload
  <2> QED BY <1>21, <2>1, <2>2 DEF Upload
<1>22. CASE Publish
  <2>1. releases' \in [Versions -> Release]
    BY <1>18, <1>22 DEF Publish, Release
  <2> QED BY <1>17, <1>18, <1>22, <1>a, <2>1 DEF counts, Publishing, Publish
<1>23. CASE Fault
  <2>1. releases' \in [Versions -> Release]
    BY <1>18, <1>23 DEF Fault, Release, NoRelease
  <2>2. /\ pc # "idle" /\ pc' = "failed" /\ faults' \in Nat /\ todo' = {}
        /\ UNCHANGED <<main, open, tags, pending, run, shut, fresh, reopens,
                       repairs>>
    BY <1>18, <1>23 DEF Fault, Ended, history
  <2> QED
    BY <1>1, <1>a, <2>1, <2>2 DEF TypeOK, Release, Publishing, None
<1>24. CASE UNCHANGED vars
  BY <1>24, <1>1 DEF vars, github, history, counts, TypeOK
<1> QED
  BY <1>2, <1>4, <1>4a, <1>5, <1>7, <1>9, <1>10, <1>11, <1>12, <1>13, <1>14,
     <1>15, <1>16, <1>19, <1>20, <1>21, <1>22, <1>23, <1>24
     DEF Next, Verify, PublishJob, People

LEMMA StartType == Init => TypeOK
PROOF
<1> SUFFICES ASSUME Init PROVE TypeOK
  OBVIOUS
<1>1. main = << >> /\ Tip = 0
  BY DEF Init, Tip
<1>2. NoRun \in Run /\ ~ NoRun.tested
  BY <1>1 DEF NoRun, Run, None
<1>3. /\ releases \in [Versions -> Release]
      /\ tags \in [Versions -> 0..Tip] /\ pending \in 0..Tip
  BY <1>1 DEF Init, NoRelease, Release, None
<1>4. main \in Seq(Commits) /\ {faults, reopens, repairs} \subseteq Nat
  BY DEF Init
<1> QED
  BY <1>2, <1>3, <1>4 DEF Init, TypeOK, Run, Release, Publishing

(* Types, for any commits and any bounds.                                  *)
THEOREM TypeCorrect == Spec => []TypeOK
PROOF BY StartType, TypeStep, PTL DEF Spec
-----------------------------------------------------------------------------
(* What approval means: the gates that are closed now have been closed     *)
(* since, and what a check has read was closed when it was read.           *)
Approved ==
  /\ pc \in Publishing \ {"approve"} =>
       Gates \ open \subseteq shut /\ (run.sha = Tip => fresh)
  /\ pc = "recheck" => fresh /\ Gates \ todo \subseteq shut
  /\ CheckedSinceApproval

LEMMA ApprovedStep == TypeOK /\ Approved /\ [Next]_vars => Approved'
PROOF
<1> SUFFICES ASSUME TypeOK, Approved, [Next]_vars PROVE Approved'
  OBVIOUS
<1>1. ASSUME NEW c \in Commits, Push(c) PROVE Approved'
  <2>1. Tip' = Tip + 1 /\ UNCHANGED <<open, pc, run, todo, shut, fresh>>
    BY <1>1, PushKeeps DEF Push, history
  <2>2. run.sha # Tip'
    BY <2>1, RunFacts DEF Run
  <2> QED BY <2>1, <2>2 DEF Approved, CheckedSinceApproval
<1>2. ASSUME UNCHANGED <<main, pc, run, todo, fresh>>, shut \subseteq shut',
             Gates \ open' \subseteq (Gates \ open) \union shut',
             shut' \subseteq Gates
      PROVE  Approved'
  BY <1>2 DEF Approved, CheckedSinceApproval, Tip
<1>3. ASSUME NEW g \in Gates, CloseGate(g) \/ ReopenGate(g) PROVE Approved'
  BY <1>2, <1>3 DEF CloseGate, ReopenGate, history, TypeOK
<1>3a. CASE CloseOther
  BY <1>2, <1>3a DEF CloseOther, github, history, TypeOK
<1>4. ASSUME NEW v \in Versions, Repair(v) PROVE Approved'
  BY <1>2, <1>4 DEF Repair, history, TypeOK
<1>5. ASSUME pc' \notin Publishing \ {"approve"} PROVE Approved'
  BY <1>5 DEF Approved, CheckedSinceApproval, Publishing
<1>6. CASE Fails
  BY <1>5, <1>6 DEF Fails, Publishing
<1>7. CASE StartRun \/ RerunPublish \/ RerunAll \/ VerifyHead \/ ResolveVersion
             \/ Look \/ Test \/ Publish \/ Fault \/ GatesRead("gates", "test")
  BY <1>5, <1>6, <1>7
     DEF StartRun, RerunPublish, RerunAll, VerifyHead, ResolveVersion,
         Require, Look, Test, Publish, Fault, GatesRead, Goto, Publishing
<1>8. ASSUME NEW g \in Gates, ReadGate("gates", g) PROVE Approved'
  BY <1>5, <1>6, <1>8 DEF ReadGate, Publishing
<1>9. ASSUME NEW g \in Gates, ReadGate("recheck", g) PROVE Approved'
  <2>1. CASE g \notin open /\ todo' = todo \ {g}
             /\ UNCHANGED <<github, pc, run, history>>
    BY <1>9, <2>1
       DEF ReadGate, Approved, CheckedSinceApproval, Publishing, github,
           history, Tip
  <2> QED BY <1>6, <1>9, <2>1 DEF ReadGate
<1>10. CASE Approve
  BY <1>10 DEF Approve, Goto, Approved, CheckedSinceApproval, Publishing,
     github, Tip
<1>11. CASE Revalidate
  <2>1. CASE run.sha = Tip /\ pc' = "recheck" /\ todo' = Gates
             /\ UNCHANGED <<github, run, history>>
    BY <1>11, <2>1
       DEF Revalidate, Approved, CheckedSinceApproval, Publishing, github,
           history, Tip
  <2> QED BY <1>6, <1>11, <2>1 DEF Revalidate
<1>12. CASE GatesRead("recheck", "build")
  BY <1>12 DEF GatesRead, Goto, Quiet, Approved, CheckedSinceApproval,
     Publishing, github, history, Tip, TypeOK
<1>13. ASSUME pc \in {"build", "tag", "draft", "upload"},
              pc' \in {"tag", "draft", "upload"}, run'.sha = run.sha,
              UNCHANGED <<main, open, shut, fresh>>
       PROVE  Approved'
  BY <1>13 DEF Approved, CheckedSinceApproval, Publishing, Tip
<1>14. CASE BuildAndSign
  BY <1>13, <1>14, RunFacts
     DEF BuildAndSign, Goto, Quiet, github, history, Run
<1>15. CASE Tag
  BY <1>6, <1>13, <1>15 DEF Tag, github, history
<1>16. CASE Draft
  BY <1>6, <1>13, <1>16 DEF Draft, history
<1>17. ASSUME NEW a \in run.dist, Upload(a) PROVE Approved'
  BY <1>6, <1>13, <1>17 DEF Upload, history
<1>18. CASE UNCHANGED vars
  BY <1>2, <1>18 DEF vars, github, history, TypeOK
<1> QED
  BY <1>1, <1>3, <1>3a, <1>4, <1>7, <1>8, <1>9, <1>10, <1>11, <1>12, <1>14,
     <1>15, <1>16, <1>17, <1>18
     DEF Next, Verify, PublishJob, People

(* Nothing is published on what was read before the approval.              *)
THEOREM ChecksAreFresh == Spec => []CheckedSinceApproval
PROOF
<1>1. Init => Approved
  BY DEF Init, Approved, CheckedSinceApproval, Publishing
<1>2. Approved => CheckedSinceApproval
  BY DEF Approved
<1> QED
  BY <1>1, <1>2, ApprovedStep, TypeCorrect, PTL DEF Spec
-----------------------------------------------------------------------------
(* A tag is at a commit of its version that builds, a release has a tag,   *)
(* and its assets are that commit's.                                       *)
TagsTrue ==
  \A v \in Versions : tags[v] # None =>
    main[tags[v]].version = v /\ Builds(main[tags[v]])

ReleasesTrue ==
  \A v \in Versions :
    /\ releases[v].state = "none" => releases[v] = NoRelease
    /\ releases[v].state # "none" =>
         tags[v] # None /\ releases[v].assets \subseteq Built(tags[v])
    /\ releases[v].state = "final" => releases[v].assets = Built(tags[v])

(* What the run in progress has established: only its own job writes a     *)
(* draft, so the tag under it is at its commit.                            *)
RunTrue ==
  /\ run.tested => Builds(main[run.sha])
  /\ pc \in {"tag", "draft", "upload"} => run.dist = Built(run.sha)
  /\ pc = "draft" => tags[run.version] \in {None, run.sha}
  /\ pc = "upload" => releases[run.version].state # "final"
  /\ pc = "upload" /\ releases[run.version].state = "draft" =>
       tags[run.version] = run.sha

Kept == TagsTrue /\ ReleasesTrue /\ RunTrue /\ SuccessIsReleased

LEMMA KeptPush ==
  ASSUME TypeOK, Kept, NEW c \in Commits, Push(c)
  PROVE  Kept'
PROOF
<1>1. \A sha \in 1..Tip : main'[sha] = main[sha]
  BY PushKeeps
<1>2. \A sha \in 1..Tip : Built(sha)' = Built(sha)
  BY <1>1 DEF Built
<1>3. UNCHANGED <<tags, releases, pc, run>>
  BY DEF Push
<1>4. \A v \in Versions : tags[v] # None => tags[v] \in 1..Tip
  BY DEF TypeOK, None
<1>5. TagsTrue' /\ ReleasesTrue'
  BY <1>1, <1>2, <1>3, <1>4 DEF Kept, TagsTrue, ReleasesTrue
<1>6. pc # "idle" \/ run.tested => run.sha \in 1..Tip
  BY RunFacts
<1>7. RunTrue'
  BY <1>1, <1>2, <1>3, <1>6 DEF Kept, RunTrue
<1>8. SuccessIsReleased'
  BY <1>1, <1>2, <1>3, <1>6 DEF Kept, SuccessIsReleased, RunVersion
<1> QED
  BY <1>5, <1>7, <1>8 DEF Kept

(* A step that leaves the tags and the releases alone.                     *)
LEMMA KeptQuiet ==
  ASSUME Kept, UNCHANGED <<main, tags, releases>>,
         run'.tested => Builds(main[run'.sha]),
         pc' \notin {"draft", "upload", "success"} \/ (pc' = pc /\ run' = run),
         pc' = "tag" => run'.dist = Built(run'.sha)
  PROVE  Kept'
PROOF
<1>1. TagsTrue' /\ ReleasesTrue'
  BY DEF Kept, TagsTrue, ReleasesTrue, Built
<1>2. \A sha : Built(sha)' = Built(sha)
  BY DEF Built
<1>3. RunTrue'
  BY <1>2 DEF Kept, RunTrue
<1>4. SuccessIsReleased'
  BY <1>2 DEF Kept, SuccessIsReleased, RunVersion
<1> QED
  BY <1>1, <1>3, <1>4 DEF Kept

(* A step that changes the tag or the release of one version only.         *)
LEMMA KeptStep == TypeOK /\ Kept /\ [Next]_vars => Kept'
PROOF
<1> SUFFICES ASSUME TypeOK, Kept, [Next]_vars PROVE Kept'
  OBVIOUS
<1>a. /\ run \in Run
      /\ pc # "idle" \/ run.tested =>
           run.sha \in 1..Tip /\ RunVersion \in Versions
      /\ pc \in Publishing => run.version = RunVersion /\ run.tested
  BY RunFacts
<1>b. /\ releases \in [Versions -> Release] /\ tags \in [Versions -> 0..Tip]
      /\ run.tested => Builds(main[run.sha])
  BY DEF TypeOK, Release, Kept, RunTrue
<1>c. Next \/ UNCHANGED vars
  OBVIOUS
<1>1. ASSUME NEW c \in Commits, Push(c) PROVE Kept'
  BY <1>1, KeptPush
<1>2. CASE Fails
  BY <1>2, <1>b, KeptQuiet DEF Fails, github
<1>3. ASSUME NEW g \in Gates, CloseGate(g) \/ ReopenGate(g) PROVE Kept'
  <2>1. UNCHANGED <<main, tags, releases, pc, run>>
    BY <1>3 DEF CloseGate, ReopenGate
  <2> QED BY <2>1, <1>b, KeptQuiet DEF Kept, RunTrue
<1>3a. CASE CloseOther
  <2>1. UNCHANGED <<main, tags, releases, pc, run>>
    BY <1>3a DEF CloseOther, github
  <2> QED BY <2>1, <1>b, KeptQuiet DEF Kept, RunTrue
<1>4. ASSUME NEW v \in Versions, Repair(v) PROVE Kept'
  <2>1. UNCHANGED <<main, pc, run>> /\ (\A sha : Built(sha)' = Built(sha))
    BY <1>4 DEF Repair, Built
  <2>2. CASE /\ releases[v] = NoRelease /\ UNCHANGED releases
             /\ tags' = [tags EXCEPT ![v] = None]
    <3>1. releases[v].state = "none"
      BY <2>2 DEF NoRelease
    <3>2. TagsTrue' /\ ReleasesTrue'
      BY <1>b, <2>1, <2>2, <3>1 DEF Kept, TagsTrue, ReleasesTrue
    <3>3. RunTrue'
      BY <1>b, <2>1, <2>2, <3>1 DEF Kept, RunTrue
    <3>4. SuccessIsReleased'
      BY <2>1, <2>2 DEF Kept, SuccessIsReleased, RunVersion
    <3> QED BY <3>2, <3>3, <3>4 DEF Kept
  <2>3. CASE /\ releases[v].state = "draft" /\ UNCHANGED tags
             /\ releases' = [releases EXCEPT ![v] = NoRelease]
    <3>1. NoRelease.state = "none"
      BY DEF NoRelease
    <3>2. TagsTrue' /\ ReleasesTrue'
      BY <1>b, <2>1, <2>3, <3>1 DEF Kept, TagsTrue, ReleasesTrue
    <3>3. RunTrue'
      BY <1>b, <2>1, <2>3, <3>1 DEF Kept, RunTrue
    <3>4. SuccessIsReleased'
      BY <1>b, <2>1, <2>3 DEF Kept, SuccessIsReleased, RunVersion
    <3> QED BY <3>2, <3>3, <3>4 DEF Kept
  <2> QED BY <1>4, <2>2, <2>3 DEF Repair
<1>5. CASE StartRun \/ RerunPublish \/ RerunAll
  BY <1>5, <1>a, <1>b, KeptQuiet
     DEF StartRun, RerunPublish, RerunAll, NoRun, github, Run
<1>6. CASE VerifyHead \/ ResolveVersion \/ Revalidate
  <2>1. CASE pc' \notin {"tag", "draft", "upload", "success"}
             /\ UNCHANGED <<github, run>>
    BY <1>b, <2>1, KeptQuiet DEF github
  <2> QED
    BY <1>2, <1>6, <2>1 DEF VerifyHead, ResolveVersion, Revalidate, Require
<1>7. CASE Look
  <2>1. CASE VerifyExisting(RunVersion) /\ pc' = "success"
             /\ UNCHANGED <<github, run>>
    <3>1. UNCHANGED RunVersion /\ (\A sha : Built(sha)' = Built(sha))
      BY <2>1 DEF github, RunVersion, Built
    <3>2. SuccessIsReleased'
      BY <2>1, <3>1 DEF VerifyExisting, SuccessIsReleased, github
    <3>3. TagsTrue' /\ ReleasesTrue' /\ RunTrue'
      BY <2>1, <3>1 DEF Kept, TagsTrue, ReleasesTrue, RunTrue, github
    <3> QED BY <3>2, <3>3 DEF Kept
  <2>2. CASE pc' = "failed" /\ UNCHANGED <<github, run>>
    BY <1>b, <2>2, KeptQuiet DEF github
  <2>3. ASSUME NEW tag \in BOOLEAN, pc' = "gates", UNCHANGED github,
               run' = [run EXCEPT !.create = ~ tag, !.version = RunVersion]
        PROVE  Kept'
    <3>1. run'.tested = run.tested /\ run'.sha = run.sha
      BY <1>a, <2>3 DEF Run
    <3> QED BY <1>b, <2>3, <3>1, KeptQuiet DEF github
  <2> QED BY <1>7, <2>1, <2>2, <2>3 DEF Look
<1>8. ASSUME NEW g \in Gates, ReadGate("gates", g) \/ ReadGate("recheck", g)
      PROVE  Kept'
  <2>1. CASE UNCHANGED <<github, pc, run>>
    BY <1>b, <2>1, KeptQuiet DEF github, Kept, RunTrue
  <2> QED BY <1>2, <1>8, <2>1 DEF ReadGate
<1>9. CASE GatesRead("gates", "test") \/ GatesRead("recheck", "build")
           \/ Approve
  BY <1>9, <1>b, KeptQuiet DEF GatesRead, Goto, Quiet, Approve, github
<1>10. CASE Test
  <2>1. CASE /\ Builds(main[run.sha]) /\ pc' = "approve"
             /\ run' = [run EXCEPT !.tested = TRUE] /\ UNCHANGED github
    <3>1. run'.sha = run.sha
      BY <1>a, <2>1 DEF Run
    <3> QED BY <2>1, <3>1, KeptQuiet DEF github
  <2> QED BY <1>2, <1>10, <2>1 DEF Test
<1>11. CASE BuildAndSign
  <2>1. /\ pc' = "tag" /\ UNCHANGED github
        /\ run'.sha = run.sha /\ run'.tested = run.tested
        /\ run'.dist = Built(run.sha)
    BY <1>11, <1>a DEF BuildAndSign, Goto, Quiet, Run
  <2> QED BY <2>1, <1>b, KeptQuiet DEF github
<1>12. ASSUME pc \in {"tag", "draft", "upload"}
       PROVE  /\ run.version \in Versions /\ run.version = main[run.sha].version
              /\ Builds(main[run.sha]) /\ run.dist = Built(run.sha)
              /\ run.sha \in 1..Tip /\ run.sha # None
  BY <1>12, <1>a, <1>b DEF Publishing, Kept, RunTrue, RunVersion, None
<1>13. CASE Tag
  <2>1. CASE /\ pc = "tag" /\ pc' = "draft"
             /\ tags[run.version] = None
             /\ tags' = [tags EXCEPT ![run.version] = run.sha]
             /\ UNCHANGED <<main, releases, run>>
    <3>1. \A sha : Built(sha)' = Built(sha)
      BY <2>1 DEF Built
    <3>2. TagsTrue' /\ ReleasesTrue'
      BY <1>12, <1>b, <2>1, <3>1 DEF Kept, TagsTrue, ReleasesTrue
    <3>3. RunTrue'
      BY <1>12, <1>b, <2>1, <3>1 DEF Kept, RunTrue
    <3> QED BY <2>1, <3>2, <3>3 DEF Kept, SuccessIsReleased
  <2>2. CASE /\ pc = "tag" /\ pc' = "draft" /\ tags[run.version] = run.sha
             /\ UNCHANGED <<main, tags, releases, run>>
    <3>1. \A sha : Built(sha)' = Built(sha)
      BY <2>2 DEF Built
    <3>2. TagsTrue' /\ ReleasesTrue' /\ RunTrue'
      BY <1>12, <2>2, <3>1 DEF Kept, TagsTrue, ReleasesTrue, RunTrue
    <3> QED BY <2>2, <3>2 DEF Kept, SuccessIsReleased
  <2> QED BY <1>2, <1>13, <2>1, <2>2 DEF Tag, github
<1>14. CASE Draft
  <2>1. CASE /\ pc = "draft" /\ pc' = "upload" /\ tags[run.version] # None
             /\ releases[run.version] = NoRelease
             /\ releases' = [releases EXCEPT ![run.version] =
                                           [@ EXCEPT !.state = "draft"]]
             /\ UNCHANGED <<main, tags, run>>
    <3>1. \A sha : Built(sha)' = Built(sha)
      BY <2>1 DEF Built
    <3>2. /\ releases'[run.version].state = "draft"
          /\ releases'[run.version].assets = {}
          /\ \A v \in Versions \ {run.version} : releases'[v] = releases[v]
      BY <1>12, <1>b, <2>1 DEF NoRelease, Release
    <3>3. tags[run.version] = run.sha
      BY <2>1 DEF Kept, RunTrue
    <3>4. TagsTrue' /\ ReleasesTrue'
      BY <2>1, <3>1, <3>2 DEF Kept, TagsTrue, ReleasesTrue
    <3>5. RunTrue'
      BY <1>12, <2>1, <3>1, <3>2, <3>3 DEF Kept, RunTrue
    <3> QED BY <2>1, <3>4, <3>5 DEF Kept, SuccessIsReleased
  <2> QED BY <1>2, <1>14, <2>1 DEF Draft
<1>15. ASSUME NEW a \in run.dist, Upload(a) PROVE Kept'
  <2>1. CASE /\ pc = "upload" /\ pc' = pc
             /\ releases[run.version].state = "draft"
             /\ releases' = [releases EXCEPT ![run.version] =
                  [state |-> "draft", assets |-> @.assets \union {a}]]
             /\ UNCHANGED <<main, tags, run>>
    <3>1. \A sha : Built(sha)' = Built(sha)
      BY <2>1 DEF Built
    <3>2. /\ releases'[run.version].state = "draft"
          /\ releases'[run.version].assets =
               releases[run.version].assets \union {a}
          /\ \A v \in Versions \ {run.version} : releases'[v] = releases[v]
      BY <1>12, <1>b, <2>1
    <3>3. tags[run.version] = run.sha /\ a \in Built(run.sha)
      BY <1>12, <1>15, <2>1 DEF Kept, RunTrue
    <3>4. TagsTrue' /\ ReleasesTrue'
      BY <2>1, <3>1, <3>2, <3>3 DEF Kept, TagsTrue, ReleasesTrue
    <3>5. RunTrue'
      BY <1>12, <2>1, <3>1, <3>2, <3>3 DEF Kept, RunTrue
    <3> QED BY <2>1, <3>4, <3>5 DEF Kept, SuccessIsReleased
  <2> QED BY <1>2, <1>15, <2>1 DEF Upload
<1>16. CASE Publish
  <2>1. /\ pc = "upload" /\ pc' = "success"
        /\ run.dist \subseteq releases[run.version].assets
        /\ releases' = [releases EXCEPT ![run.version] =
                                      [@ EXCEPT !.state = "final"]]
        /\ UNCHANGED <<main, tags, run>>
    BY <1>16 DEF Publish
  <2>2. \A sha : Built(sha)' = Built(sha)
    BY <2>1 DEF Built
  <2>3. /\ releases'[run.version].state = "final"
        /\ releases'[run.version].assets = releases[run.version].assets
        /\ \A v \in Versions \ {run.version} : releases'[v] = releases[v]
    BY <1>12, <1>b, <2>1 DEF Release
  <2>4. Built(run.sha) # {}
    BY DEF Built, Assets
  <2>5. releases[run.version].state = "draft"
    BY <1>12, <1>b, <2>1, <2>4
       DEF Kept, RunTrue, ReleasesTrue, NoRelease, Release
  <2>6. /\ tags[run.version] = run.sha
        /\ releases[run.version].assets = Built(run.sha)
    BY <1>12, <2>1, <2>5 DEF Kept, RunTrue, ReleasesTrue
  <2>7. TagsTrue' /\ ReleasesTrue'
    BY <1>12, <2>1, <2>2, <2>3, <2>6 DEF Kept, TagsTrue, ReleasesTrue
  <2>8. RunTrue'
    BY <1>b, <2>1 DEF RunTrue
  <2>9. SuccessIsReleased'
    BY <1>12, <2>1, <2>2, <2>3, <2>6 DEF SuccessIsReleased, RunVersion
  <2> QED BY <2>7, <2>8, <2>9 DEF Kept
<1>17. CASE Fault
  <2>1. CASE UNCHANGED releases
    BY <1>17, <1>b, <2>1, KeptQuiet DEF Fault
  <2>2. CASE /\ pc = "upload"
             /\ releases' = [releases EXCEPT ![run.version] = NoRelease]
    <3>1. UNCHANGED <<main, tags, run>> /\ pc' = "failed"
          /\ (\A sha : Built(sha)' = Built(sha))
      BY <1>17 DEF Fault, Built
    <3>2. /\ releases'[run.version] = NoRelease
          /\ \A v \in Versions \ {run.version} : releases'[v] = releases[v]
      BY <1>12, <1>b, <2>2
    <3>3. TagsTrue' /\ ReleasesTrue'
      BY <3>1, <3>2 DEF Kept, TagsTrue, ReleasesTrue, NoRelease
    <3>4. RunTrue' /\ SuccessIsReleased'
      BY <1>b, <3>1 DEF RunTrue, SuccessIsReleased
    <3> QED BY <3>3, <3>4 DEF Kept
  <2> QED BY <1>17, <2>1, <2>2 DEF Fault
<1>18. CASE UNCHANGED vars
  BY <1>18, <1>b, KeptQuiet DEF vars, github, Kept, RunTrue
<1> QED
  BY <1>c, <1>1, <1>3, <1>3a, <1>4, <1>5, <1>6, <1>7, <1>8, <1>9, <1>10, <1>11,
     <1>13, <1>14, <1>15, <1>16, <1>17, <1>18
     DEF Next, Verify, PublishJob, People

LEMMA KeptAlways == Spec => []Kept
PROOF
<1>1. Init => Kept
  BY DEF Init, Kept, TagsTrue, ReleasesTrue, RunTrue, SuccessIsReleased,
     NoRelease, NoRun
<1> QED
  BY <1>1, KeptStep, TypeCorrect, PTL DEF Spec

(* A published release is complete, and of one commit.                     *)
THEOREM ReleasesWhole == Spec => []ReleaseWhole
PROOF
<1>1. ASSUME TypeOK, Kept PROVE ReleaseWhole
  <2> SUFFICES ASSUME NEW v \in Versions, releases[v].state = "final"
               PROVE  \E sha \in 1..Tip :
                        /\ tags[v] = sha /\ releases[v].assets = Built(sha)
                        /\ main[sha].version = v /\ Builds(main[sha])
    BY DEF ReleaseWhole
  <2>1. tags[v] # None /\ releases[v].assets = Built(tags[v])
    BY <1>1 DEF Kept, ReleasesTrue
  <2>2. main[tags[v]].version = v /\ Builds(main[tags[v]])
    BY <1>1, <2>1 DEF Kept, TagsTrue
  <2>3. tags[v] \in 1..Tip
    BY <1>1, <2>1 DEF TypeOK, None, Tip
  <2> QED BY <2>1, <2>2, <2>3
<1> QED
  BY <1>1, TypeCorrect, KeptAlways, PTL

(* A run that ends well has its own commit's release.                      *)
THEOREM SuccessMeansReleased == Spec => []SuccessIsReleased
PROOF
<1>1. Kept => SuccessIsReleased
  BY DEF Kept
<1> QED
  BY <1>1, KeptAlways, PTL

(* No step of a run, of a maintainer or of a fault changes a published     *)
(* release or its tag.                                                     *)
THEOREM PublishedStays == Spec => NeverReplaced
PROOF
<1> DEFINE Stays == \A v \in Versions : releases[v].state = "final" =>
                      releases'[v] = releases[v] /\ tags'[v] = tags[v]
<1>1. ASSUME TypeOK, Kept, [Next]_vars PROVE [Stays]_vars
  <2>1. CASE UNCHANGED <<tags, releases>>
    BY <2>1
  <2>a. pc \in {"tag", "draft", "upload"} => run.version \in Versions
    BY <1>1, RunFacts DEF Publishing
  <2>b. releases \in [Versions -> Release] /\ tags \in [Versions -> 0..Tip]
    BY <1>1 DEF TypeOK, Release
  <2>2. ASSUME NEW v \in Versions, Repair(v) PROVE Stays
    BY <2>2, <2>b DEF Repair, NoRelease
  <2>3. CASE Tag
    <3>1. CASE /\ tags[run.version] = None
               /\ tags' = [tags EXCEPT ![run.version] = run.sha]
               /\ UNCHANGED releases
      BY <1>1, <3>1, <2>b DEF Kept, ReleasesTrue
    <3> QED BY <2>1, <2>3, <3>1 DEF Tag, Fails, github
  <2>4. CASE Draft
    <3>1. CASE /\ releases[run.version] = NoRelease /\ UNCHANGED tags
               /\ releases' = [releases EXCEPT ![run.version] =
                                             [@ EXCEPT !.state = "draft"]]
      BY <3>1, <2>b DEF NoRelease
    <3> QED BY <2>1, <2>4, <3>1 DEF Draft, Fails, github
  <2>6. ASSUME NEW a \in run.dist, Upload(a) PROVE Stays
    <3>1. CASE /\ pc = "upload" /\ UNCHANGED tags
               /\ releases' = [releases EXCEPT ![run.version] =
                    [state |-> "draft", assets |-> @.assets \union {a}]]
      <4>1. \A v \in Versions \ {run.version} : releases'[v] = releases[v]
        BY <3>1, <2>b
      <4>2. releases[run.version].state # "final"
        BY <1>1, <3>1 DEF Kept, RunTrue
      <4> QED BY <3>1, <4>1, <4>2
    <3> QED BY <2>1, <2>6, <3>1 DEF Upload, Fails, github
  <2>7. CASE Publish \/ Fault
    <3>1. CASE /\ pc = "upload" /\ UNCHANGED tags
               /\ \/ releases' = [releases EXCEPT ![run.version] =
                                              [@ EXCEPT !.state = "final"]]
                  \/ releases' = [releases EXCEPT ![run.version] = NoRelease]
      <4>1. \A v \in Versions \ {run.version} : releases'[v] = releases[v]
        BY <3>1, <2>b
      <4>2. releases[run.version].state # "final"
        BY <1>1, <3>1 DEF Kept, RunTrue
      <4> QED BY <3>1, <4>1, <4>2
    <3> QED BY <2>1, <2>7, <3>1 DEF Publish, Fault
  <2>8. CASE UNCHANGED vars
    BY <2>8
  <2>9. ASSUME NEW c \in Commits, Push(c) PROVE Stays
    BY <2>1, <2>9 DEF Push
  <2>10. ASSUME NEW g \in Gates,
                \/ CloseGate(g) \/ ReopenGate(g)
                \/ ReadGate("gates", g) \/ ReadGate("recheck", g)
         PROVE  Stays
    BY <2>1, <2>10 DEF CloseGate, ReopenGate, ReadGate, Fails, github
  <2>11. CASE \/ CloseOther \/ StartRun \/ RerunPublish \/ RerunAll
              \/ VerifyHead \/ ResolveVersion \/ Look \/ Test \/ Approve
              \/ Revalidate \/ BuildAndSign \/ GatesRead("gates", "test")
              \/ GatesRead("recheck", "build")
    BY <2>1, <2>11
       DEF CloseOther, StartRun, RerunPublish, RerunAll, VerifyHead,
           ResolveVersion, Require, Look, Test, Approve, Revalidate,
           BuildAndSign, GatesRead, Goto, Quiet, Fails, github
  <2> QED
    BY <1>1, <2>2, <2>3, <2>4, <2>6, <2>7, <2>8, <2>9, <2>10, <2>11
       DEF Next, Verify, PublishJob, People
<1> QED
  BY <1>1, TypeCorrect, KeptAlways, PTL DEF Spec, NeverReplaced
-----------------------------------------------------------------------------
(* What a reader of releases sees of the workflow: published releases, and *)
(* the commit of a publish job that has found it to be the head.           *)
Vetted ==
  IF pc \in {"recheck", "build", "tag", "draft", "upload"} THEN run.sha
  ELSE None

Published ==
  [v \in Versions |->
     IF releases[v].state = "final" THEN releases[v].assets ELSE {}]

Channel == INSTANCE ReleaseChannel WITH
             Fit <- {c \in Commits : Builds(c)}, Names <- Assets,
             vetted <- Vetted, published <- Published

LEMMA BuiltForm ==
  ASSUME NEW sha
  PROVE  /\ Built(sha) = [name: Assets, commit: {sha},
                          version: {main[sha].version}]
         /\ Built(sha) # {}
PROOF
<1>1. "archive" \in Assets
  BY DEF Assets
<1>2. [name |-> "archive", commit |-> sha, version |-> main[sha].version]
        \in Built(sha)
  BY <1>1 DEF Built
<1> DEFINE v == main[sha].version
<1> HIDE DEF v
<1>3. {[name |-> a, commit |-> sha, version |-> v] : a \in Assets}
        = [name: Assets, commit: {sha}, version: {v}]
  <2>1. ASSUME NEW r \in [name: Assets, commit: {sha}, version: {v}]
        PROVE  r = [name |-> r.name, commit |-> sha, version |-> v]
    BY <2>1
  <2>2. \A r \in [name: Assets, commit: {sha}, version: {v}] :
          r.name \in Assets
    OBVIOUS
  <2>3. \A a \in Assets : [name |-> a, commit |-> sha, version |-> v]
                            \in [name: Assets, commit: {sha}, version: {v}]
    OBVIOUS
  <2> QED BY <2>1, <2>2, <2>3
<1>4. Built(sha) = [name: Assets, commit: {sha}, version: {v}]
  BY <1>3 DEF Built, v
<1> QED BY <1>2, <1>4 DEF v

(* A step that publishes nothing, and at most gives the commit up.         *)
LEMMA Unpublished ==
  ASSUME TypeOK, UNCHANGED <<main, Published>>,
         Vetted' = Vetted \/ Vetted' = None
  PROVE  [Channel!Next]_<<main, Vetted, Published>>
PROOF BY DEF Channel!Next, Channel!GiveUp, None

(* An unpublished release stays unpublished whatever a job does to it.     *)
LEMMA DraftsUnseen ==
  ASSUME TypeOK, NEW v \in Versions, releases[v].state # "final",
         NEW r \in Release, r.state # "final",
         releases' = [releases EXCEPT ![v] = r]
  PROVE  Published' = Published
PROOF
<1>1. releases \in [Versions -> Release]
  BY DEF TypeOK, Release
<1>2. \A w \in Versions :
        releases'[w] = IF w = v THEN r ELSE releases[w]
  BY <1>1
<1> QED BY <1>2 DEF Published

(* A version is published in one step, from the commit that was vetted:    *)
(* what Upload left is all of the commit's assets and nothing else.        *)
LEMMA PublishRelease ==
  ASSUME TypeOK, Kept, Publish
  PROVE  Channel!Release
PROOF
<1> DEFINE v == main[run.sha].version
           made == [name: Assets, commit: {run.sha}, version: {v}]
<1>1. /\ run.sha \in 1..Tip /\ run.version = v /\ v \in Versions
      /\ run.tested /\ main \in Seq(Commits)
      /\ releases \in [Versions -> Release]
  BY RunFacts DEF Publish, Publishing, RunVersion, TypeOK, Release
<1>2. main[run.sha] \in {c \in Commits : Builds(c)}
  BY <1>1 DEF Kept, RunTrue, Tip
<1>3. run.dist = made /\ made # {} /\ run.dist \subseteq releases[v].assets
  BY <1>1, BuiltForm DEF Publish, Kept, RunTrue
<1>4. releases[v].state = "draft"
  <2>1. releases[v].state \in {"none", "draft"}
    BY <1>1 DEF Publish, Kept, RunTrue, Release
  <2>2. releases[v].state = "none" => releases[v].assets = {}
    BY <1>1 DEF Kept, ReleasesTrue, NoRelease
  <2> QED BY <1>3, <2>1, <2>2
<1>5. releases[v].assets = made
  <2>1. tags[v] = run.sha
    BY <1>1, <1>4 DEF Publish, Kept, RunTrue
  <2>2. releases[v].assets \subseteq Built(run.sha)
    BY <1>1, <1>4, <2>1 DEF Kept, ReleasesTrue
  <2> QED BY <1>3, <2>2, BuiltForm
<1>6. Vetted = run.sha /\ Vetted # 0 /\ Vetted' = 0
  BY <1>1 DEF Publish, Vetted, None
<1>7. Published[v] = {} /\ Published' = [Published EXCEPT ![v] = made]
  <2> HIDE DEF v, made
  <2>1. \A w \in Versions \ {v} : releases'[w] = releases[w]
    BY <1>1 DEF Publish
  <2>2. releases'[v] = [releases[v] EXCEPT !.state = "final"]
    BY <1>1 DEF Publish
  <2>3. releases[v] \in [state: {"none", "draft", "final"},
                         assets: SUBSET Asset]
    BY <1>1 DEF Release
  <2>4. releases'[v].state = "final" /\ releases'[v].assets = made
    BY <1>5, <2>2, <2>3
  <2>5. \A w \in Versions : Published'[w] = IF w = v THEN made
                                            ELSE Published[w]
    BY <2>1, <2>4 DEF Published
  <2>6. Published[v] = {}
    BY <1>1, <1>4 DEF Published
  <2>7. Published' = [w \in Versions |-> Published'[w]]
    BY DEF Published
  <2>8. [Published EXCEPT ![v] = made]
          = [w \in Versions |-> IF w = v THEN made ELSE Published[w]]
    BY DEF Published
  <2> QED BY <2>5, <2>6, <2>7, <2>8
<1>8. UNCHANGED main
  BY DEF Publish
<1> QED BY <1>2, <1>6, <1>7, <1>8 DEF Channel!Release

LEMMA ChannelStep ==
  ASSUME TypeOK, Kept, [Next]_vars
  PROVE  [Channel!Next]_<<main, Vetted, Published>>
PROOF
<1> DEFINE Goal == [Channel!Next]_<<main, Vetted, Published>>
<1>a. UNCHANGED releases => Published' = Published
  BY DEF Published
<1>b. ASSUME UNCHANGED <<main, releases>>, Vetted' = Vetted \/ Vetted' = None
      PROVE  Goal
  BY <1>a, <1>b, Unpublished
<1>c. Fails => Goal
  BY <1>b DEF Fails, github, Vetted
<1>d. pc = "upload" \/ pc = "draft" => run.version \in Versions
  BY RunFacts DEF Publishing
<1>1. ASSUME NEW c \in Commits, Push(c) PROVE Goal
  BY <1>1, <1>a DEF Push, Vetted, Channel!Next, Channel!Push
<1>2. ASSUME NEW g \in Gates, CloseGate(g) \/ ReopenGate(g) PROVE Goal
  BY <1>2, <1>b DEF CloseGate, ReopenGate, Vetted
<1>3. ASSUME NEW v \in Versions, Repair(v) PROVE Goal
  <2>1. CASE UNCHANGED releases
    BY <1>3, <1>b, <2>1 DEF Repair, Vetted
  <2>2. CASE /\ releases[v].state = "draft"
             /\ releases' = [releases EXCEPT ![v] = NoRelease]
    <3>1. NoRelease \in Release /\ NoRelease.state # "final"
      BY DEF NoRelease, Release
    <3>2. Published' = Published
      BY <2>2, <3>1, DraftsUnseen
    <3> QED BY <1>3, <3>2, Unpublished DEF Repair, Vetted
  <2> QED BY <1>3, <2>1, <2>2 DEF Repair
<1>4. CASE CloseOther \/ StartRun \/ RerunPublish \/ RerunAll
  BY <1>4, <1>b DEF CloseOther, StartRun, RerunPublish, RerunAll, github,
     Ended, Vetted
<1>5. CASE \/ VerifyHead \/ ResolveVersion \/ Look \/ Test \/ Approve
           \/ GatesRead("gates", "test")
  BY <1>5, <1>b DEF VerifyHead, ResolveVersion, Require, Look, Test, Approve,
     GatesRead, Goto, Quiet, Fails, github, Vetted
<1>6. ASSUME NEW g \in Gates,
             ReadGate("gates", g) \/ ReadGate("recheck", g)
      PROVE  Goal
  BY <1>6, <1>b, <1>c DEF ReadGate, github, Vetted
<1>7. CASE Revalidate
  <2>1. CASE run.sha = Tip /\ pc' = "recheck" /\ UNCHANGED <<github, run>>
    BY <1>7, <1>a, <2>1 DEF Revalidate, github, Vetted, Tip, None,
       Channel!Next, Channel!Vet
  <2> QED BY <1>7, <1>c, <2>1 DEF Revalidate
<1>8. CASE GatesRead("recheck", "build") \/ BuildAndSign
  <2>1. UNCHANGED <<main, releases>> /\ run'.sha = run.sha
    BY <1>8 DEF GatesRead, BuildAndSign, Quiet, github, TypeOK
  <2>2. Vetted' = Vetted
    BY <1>8, <2>1 DEF GatesRead, BuildAndSign, Goto, Vetted
  <2> QED BY <1>b, <2>1, <2>2
<1>9. CASE Tag
  BY <1>9, <1>b, <1>c DEF Tag, github, Vetted
<1>10. CASE Draft
  <2>1. CASE /\ releases[run.version] = NoRelease
             /\ releases' = [releases EXCEPT ![run.version] =
                                           [@ EXCEPT !.state = "draft"]]
             /\ pc' = "upload" /\ UNCHANGED <<main, run>>
    <3> DEFINE r == [NoRelease EXCEPT !.state = "draft"]
    <3>1. /\ r \in Release /\ r.state # "final"
          /\ NoRelease.state # "final"
      BY DEF NoRelease, Release
    <3>2. releases' = [releases EXCEPT ![run.version] = r]
      BY <2>1
    <3> HIDE DEF r
    <3>3. Published' = Published
      BY <1>10, <1>d, <2>1, <3>1, <3>2, DraftsUnseen DEF Draft
    <3> QED BY <1>10, <2>1, <3>3, Unpublished DEF Draft, Vetted
  <2> QED BY <1>10, <1>c, <2>1 DEF Draft
<1>11. ASSUME NEW a \in run.dist, Upload(a) PROVE Goal
  <2>1. CASE /\ releases[run.version].state = "draft"
             /\ releases' = [releases EXCEPT ![run.version] =
                  [state |-> "draft", assets |-> @.assets \union {a}]]
             /\ UNCHANGED <<main, pc, run>>
    <3> DEFINE r == [state |-> "draft",
                     assets |-> releases[run.version].assets \union {a}]
    <3>1. run.dist \subseteq Asset /\ releases[run.version] \in Release
      BY <1>11, <1>d DEF Upload, TypeOK, Release
    <3>2. r \in Release /\ r.state # "final"
      BY <3>1 DEF Release
    <3>3. releases' = [releases EXCEPT ![run.version] = r]
      BY <2>1
    <3> HIDE DEF r
    <3>4. Published' = Published
      BY <1>11, <1>d, <2>1, <3>2, <3>3, DraftsUnseen DEF Upload
    <3> QED BY <2>1, <3>4, Unpublished DEF Vetted
  <2> QED BY <1>11, <1>c, <2>1 DEF Upload
<1>12. CASE Publish
  BY <1>12, PublishRelease DEF Channel!Next
<1>13. CASE Fault
  <2>1. CASE UNCHANGED releases
    BY <1>13, <1>b, <2>1 DEF Fault, Vetted
  <2>2. CASE /\ pc = "upload"
             /\ releases' = [releases EXCEPT ![run.version] = NoRelease]
    <3>1. NoRelease \in Release /\ NoRelease.state # "final"
      BY DEF NoRelease, Release
    <3>2. releases[run.version].state # "final"
      BY <2>2 DEF Kept, RunTrue
    <3>3. Published' = Published
      BY <1>d, <2>2, <3>1, <3>2, DraftsUnseen
    <3> QED BY <1>13, <3>3, Unpublished DEF Fault, Vetted
  <2> QED BY <1>13, <2>1, <2>2 DEF Fault
<1>14. CASE UNCHANGED vars
  BY <1>14, <1>b DEF vars, github, Vetted
<1> QED
  BY <1>1, <1>2, <1>3, <1>4, <1>5, <1>6, <1>7, <1>8, <1>9, <1>10, <1>11,
     <1>12, <1>13, <1>14 DEF Next, Verify, PublishJob, People

(* The workflow, with its tags, drafts, uploads, faults, re-runs and       *)
(* repairs, implements ReleaseChannel: who reads releases sees a version   *)
(* appear in one step, whole, never to change, made from one commit that   *)
(* was the head of main when the approved job looked                       *)
(* (publish-release.yml:253-274, 332-365).                                 *)
THEOREM PublishesAtomically == Spec => Channel!Spec
PROOF
<1>1. Init => Channel!Init
  BY DEF Init, Channel!Init, Vetted, Published, None, NoRelease
<1>2. TypeOK /\ Kept /\ [Next]_vars
        => [Channel!Next]_<<main, Vetted, Published>>
  BY ChannelStep
<1> QED
  BY <1>1, <1>2, TypeCorrect, KeptAlways, PTL DEF Spec, Channel!Spec
=============================================================================
