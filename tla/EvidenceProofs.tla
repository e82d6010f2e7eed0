--------------------------- MODULE EvidenceProofs ---------------------------
(***************************************************************************)
(* What the evidence archive promises for any files, any number of writes  *)
(* of the harness and any limits: types, no secret in an upload, no        *)
(* archive after a failure, and members that are what their file held.     *)
(***************************************************************************)
EXTENDS EvidencePipeline, TLAPS

LEMMA MaskType ==
  ASSUME NEW s \in Seq(Nat)
  PROVE  /\ Mask(s) \in Seq(Nat) /\ Len(Mask(s)) = Len(s)
         /\ \A k \in 1..Len(s) :
              Mask(s)[k] = IF s[k] \in Secrets \ Stubborn THEN Tool ELSE s[k]
PROOF
<1>1. PICK n \in Nat : n = Len(s)
  OBVIOUS
<1>2. \A k \in 1..n : s[k] \in Nat
  BY <1>1
<1> QED
  BY <1>1, <1>2 DEF Mask, Tool

LEMMA Element ==
  ASSUME NEW S, NEW s \in Seq(S), NEW i \in 1..Len(s) PROVE s[i] \in S
PROOF OBVIOUS

LEMMA NoFileType == NoFile \in File
PROOF BY DEF NoFile, File, AllNames, NoIno

LEMMA BlocksType ==
  ASSUME TypeOK, NEW i \in Inos
  PROVE  inodes[i] \in [blocks: Seq(Nat), stamp: Nat] /\ Blocks(i) \in Seq(Nat)
PROOF
<1>1. inodes \in Seq([blocks: Seq(Nat), stamp: Nat]) /\ i \in 1..Len(inodes)
  BY DEF TypeOK, Inos
<1> DEFINE Inode == [blocks: Seq(Nat), stamp: Nat]
<1>2. inodes[i] \in Inode
  <2> HIDE DEF Inode
  <2> QED BY <1>1, Element DEF Inode
<1> QED
  BY <1>2 DEF Blocks

(* What a file holds after a write, and that the other files keep theirs.  *)
LEMMA WriteType ==
  ASSUME TypeOK, NEW i \in Inos, WriteFile(i)
  PROVE  /\ writes' = writes + 1
         /\ inodes' \in Seq([blocks: Seq(Nat), stamp: Nat])
         /\ Len(inodes') = Len(inodes)
         /\ \A j \in Inos \ {i} : inodes'[j] = inodes[j]
         /\ Blocks(i)' \in Seq(Nat)
         /\ window' = IF cur.ino = i THEN window \union {Blocks(i)'}
                      ELSE window
         /\ \A k \in 1..Len(Blocks(i)') :
              \/ Blocks(i)'[k] = writes'
              \/ k <= Len(Blocks(i)) /\ Blocks(i)'[k] = Blocks(i)[k]
PROOF
<1>1. writes' = writes + 1 /\ writes' \in Nat
  BY DEF WriteFile, Acts, TypeOK
<1>2. inodes[i] \in [blocks: Seq(Nat), stamp: Nat] /\ Blocks(i) \in Seq(Nat)
  BY BlocksType
<1>3. PICK blocks \in {Append(Blocks(i), writes'), << >>}
                        \union {[Blocks(i) EXCEPT ![k] = writes'] :
                                  k \in 1..Len(Blocks(i))},
           stamp \in {inodes[i].stamp, inodes[i].stamp + 1} :
        /\ inodes' = [inodes EXCEPT ![i] =
                        [blocks |-> blocks, stamp |-> stamp]]
        /\ window' = IF cur.ino = i THEN window \union {blocks} ELSE window
  BY DEF WriteFile
<1>4. /\ blocks \in Seq(Nat)
      /\ \A k \in 1..Len(blocks) :
           \/ blocks[k] = writes'
           \/ k <= Len(Blocks(i)) /\ blocks[k] = Blocks(i)[k]
  <2>1. CASE blocks = Append(Blocks(i), writes')
    BY <1>1, <1>2, <2>1
  <2>2. CASE blocks = << >>
    BY <2>2
  <2>3. ASSUME NEW k \in 1..Len(Blocks(i)),
               blocks = [Blocks(i) EXCEPT ![k] = writes']
        PROVE  /\ blocks \in Seq(Nat) /\ Len(blocks) = Len(Blocks(i))
               /\ \A j \in 1..Len(blocks) :
                    blocks[j] = writes' \/ blocks[j] = Blocks(i)[j]
    BY <1>1, <1>2, <2>3
  <2> QED BY <1>3, <2>1, <2>2, <2>3
<1>5. stamp \in Nat
  BY <1>2, <1>3
<1>6. /\ inodes' \in Seq([blocks: Seq(Nat), stamp: Nat])
      /\ Len(inodes') = Len(inodes)
      /\ \A j \in Inos \ {i} : inodes'[j] = inodes[j]
      /\ inodes'[i] = [blocks |-> blocks, stamp |-> stamp]
  BY <1>3, <1>4, <1>5 DEF TypeOK, Inos
<1> QED
  BY <1>1, <1>3, <1>4, <1>6 DEF Blocks

(* A new file leaves the others as they are.                               *)
LEMMA NewInode ==
  ASSUME TypeOK, NEW b \in Seq(Nat),
         inodes' = Append(inodes, [blocks |-> b, stamp |-> 0])
  PROVE  /\ inodes' \in Seq([blocks: Seq(Nat), stamp: Nat])
         /\ Len(inodes') = Len(inodes) + 1 /\ Inos \subseteq Inos'
         /\ Len(inodes') \in Inos'
         /\ \A i \in Inos : inodes'[i] = inodes[i]
PROOF BY DEF TypeOK, Inos

(* An error of a program leaves every type as it was.                      *)
LEMMA FailsType == ASSUME TypeOK, Fails PROVE TypeOK'
PROOF
<1>1. archive' \in [made: BOOLEAN, members: SUBSET Members]
  <2>1. NoArchive \in [made: BOOLEAN, members: SUBSET Members]
    BY Zenon DEF NoArchive
  <2>2. archive \in [made: BOOLEAN, members: SUBSET Members]
    BY DEF TypeOK
  <2>3. archive' \in {NoArchive, archive}
    BY DEF Fails
  <2> QED BY <2>1, <2>2, <2>3
<1>2. pc' = "failed" /\ cur' = NoFile /\ todo' = {} /\ window' = {}
      /\ UNCHANGED <<env, phase, total, uploaded>>
  BY DEF Fails
<1> QED
  BY <1>1, <1>2, NoFileType DEF TypeOK, env, Inos, PCs, AllNames

LEMMA TypeStep == TypeOK /\ [Next]_vars => TypeOK'
PROOF
<1> SUFFICES ASSUME TypeOK, [Next]_vars PROVE TypeOK'
  OBVIOUS
<1>1. ASSUME NEW n \in Names, CreateFile(n) PROVE TypeOK'
  <2>1. writes' \in Nat /\ <<writes'>> \in Seq(Nat) /\ n \in AllNames
    BY <1>1 DEF CreateFile, Acts, TypeOK, AllNames
  <2>2. /\ inodes' = Append(inodes, [blocks |-> <<writes'>>, stamp |-> 0])
        /\ tree' = [tree EXCEPT ![n] = Len(inodes')]
        /\ UNCHANGED <<alive, window, run, archive, uploaded, evidence>>
    BY <1>1 DEF CreateFile, Kept
  <2>3. /\ inodes' \in Seq([blocks: Seq(Nat), stamp: Nat])
        /\ Inos \subseteq Inos' /\ Len(inodes') \in Inos'
    BY <2>1, <2>2, NewInode
  <2> QED BY <2>1, <2>2, <2>3 DEF TypeOK, run
<1>2. ASSUME NEW n \in Names, MoveFile(n) PROVE TypeOK'
  <2>1. tree' \in [AllNames -> Inos \union {NoIno}]
    BY <1>2 DEF MoveFile, TypeOK, AllNames
  <2>2. writes' \in Nat
    BY <1>2 DEF MoveFile, Acts, TypeOK
  <2> QED BY <1>2, <2>1, <2>2 DEF MoveFile, Kept, run, TypeOK, Inos
<1>3. ASSUME NEW i \in 1..Len(inodes), WriteFile(i) PROVE TypeOK'
  <2>1. i \in Inos /\ writes' \in Nat
    BY <1>3 DEF Inos, WriteFile, Acts, TypeOK
  <2>2. /\ inodes' \in Seq([blocks: Seq(Nat), stamp: Nat])
        /\ Len(inodes') = Len(inodes)
        /\ Blocks(i)' \in Seq(Nat)
        /\ window' = IF cur.ino = i THEN window \union {Blocks(i)'}
                     ELSE window
    BY <1>3, <2>1, WriteType
  <2>3. Inos' = Inos /\ window' \subseteq Seq(Nat)
    BY <2>2 DEF TypeOK, Inos
  <2> QED BY <1>3, <2>1, <2>2, <2>3 DEF WriteFile, Kept, run, TypeOK
<1>4. CASE HarnessEnds
  BY <1>4 DEF HarnessEnds, Kept, run, TypeOK, Inos
<1>5. CASE Fails
  BY <1>5, FailsType
<1>6. CASE Start \/ Sanitized \/ Sealed \/ Upload \/ Kill \/ CreateArchive
  <2>1. CASE Start
    BY <2>1, NoFileType DEF Start, Goto, env, TypeOK, Inos, PCs, Phases
  <2>2. CASE Sanitized
    BY <2>2, NoFileType DEF Sanitized, Goto, env, TypeOK, Inos, PCs, Phases
  <2>3. CASE Sealed
    BY <2>3, NoFileType DEF Sealed, Goto, env, TypeOK, Inos, PCs, Phases
  <2>4. CASE Upload
    BY <2>4, NoFileType DEF Upload, Goto, env, TypeOK, Inos, PCs, Phases
  <2>5. CASE Kill
    BY <2>5, NoFileType DEF Kill, Goto, env, TypeOK, Inos, PCs, Phases
  <2>6. CASE CreateArchive
    <3>1. archive' \in [made: BOOLEAN, members: SUBSET Members]
          /\ archive'.made
      BY <2>6 DEF CreateArchive
    <3> QED BY <2>6, <3>1, NoFileType
            DEF CreateArchive, Goto, env, TypeOK, Inos, PCs, Phases
  <2> QED BY <1>6, <2>1, <2>2, <2>3, <2>4, <2>5, <2>6
<1>7. CASE Prepare
  BY <1>5, <1>7, NoFileType DEF Prepare, Goto, env, TypeOK, Inos, PCs, Phases
<1>8. CASE Mark
  <2>1. CASE tree[Marker] = NoIno
    <3>1. /\ inodes' = Append(inodes, [blocks |-> <<Tool>>, stamp |-> 0])
          /\ tree' = [tree EXCEPT ![Marker] = Len(inodes')]
          /\ Goto("sanitize", "list")
          /\ UNCHANGED <<alive, writes, todo, total, archive, uploaded,
                         evidence>>
      BY <1>8, <2>1 DEF Mark
    <3>2. <<Tool>> \in Seq(Nat)
      BY DEF Tool
    <3>3. /\ inodes' \in Seq([blocks: Seq(Nat), stamp: Nat])
          /\ Inos \subseteq Inos' /\ Len(inodes') \in Inos'
      BY <3>1, <3>2, NewInode
    <3> QED BY <3>1, <3>3, NoFileType
            DEF TypeOK, Goto, AllNames, PCs, Phases
  <2> QED BY <1>5, <1>8, <2>1 DEF Mark
<1>9. CASE Walk \/ List
  BY <1>5, <1>9, NoFileType
     DEF Walk, List, Listed, Goto, env, TypeOK, Inos, PCs, Phases
<1>10. ASSUME NEW n \in AllNames, Open(n) PROVE TypeOK'
  <2>1. CASE /\ tree[n] # NoIno
             /\ cur' = [NoFile EXCEPT !.name = n, !.ino = tree[n],
                                      !.size = Len(Blocks(tree[n])),
                                      !.stamp = inodes[tree[n]].stamp]
             /\ window' = {Blocks(tree[n])} /\ pc' = "read"
             /\ UNCHANGED <<env, phase, todo, total, archive, uploaded,
                            evidence>>
    <3>1. tree[n] \in Inos
      BY <2>1 DEF TypeOK
    <3>2. inodes[tree[n]].stamp \in Nat /\ Blocks(tree[n]) \in Seq(Nat)
          /\ Len(Blocks(tree[n])) \in Nat /\ tree[n] \in Nat
      BY <3>1, BlocksType DEF Inos
    <3>3. cur' \in File /\ cur'.ino = tree[n]
      BY <2>1, <3>2, NoFileType DEF File
    <3>4. phase = "seal" => archive.made
      BY <1>10 DEF Open, TypeOK
    <3> QED BY <2>1, <3>1, <3>2, <3>3, <3>4 DEF TypeOK, env, Inos, PCs
  <2> QED BY <1>5, <1>10, <2>1 DEF Open
<1>11. CASE Read
  <2> DEFINE now == Blocks(cur.ino)
             part == IF cur.pass = 1 THEN cur.first ELSE cur.second
             k == Len(part) + 1
  <2>a. cur \in File /\ cur.ino \in Inos /\ pc = "read"
    BY <1>11 DEF Read, TypeOK
  <2>b. now \in Seq(Nat) /\ part \in Seq(Nat)
    BY <2>a, BlocksType DEF File
  <2>1. CASE /\ k <= Len(now)
             /\ cur' = IF cur.pass = 1
                         THEN [cur EXCEPT !.first = Append(part, now[k])]
                         ELSE [cur EXCEPT !.second = Append(part, now[k])]
             /\ UNCHANGED <<env, pc, phase, todo, total, archive, uploaded,
                            evidence, window>>
    <3>1. Append(part, now[k]) \in Seq(Nat)
      BY <2>1, <2>b
    <3>2. cur' \in File /\ cur'.ino = cur.ino
      BY <2>1, <2>a, <3>1 DEF File
    <3> QED BY <2>1, <3>2 DEF TypeOK, env, Inos
  <2>2. CASE /\ cur' = [cur EXCEPT !.pass = 2]
             /\ pc' \in {"read", "check"}
             /\ UNCHANGED <<env, phase, todo, total, archive, uploaded,
                            evidence, window>>
    <3>1. cur' \in File /\ cur'.ino = cur.ino
      BY <2>2, <2>a DEF File
    <3> QED BY <2>2, <2>a, <3>1 DEF TypeOK, env, Inos, PCs
  <2> QED BY <1>5, <1>11, <2>1, <2>2 DEF Read
<1>12. CASE Sanitize
  <2>1. cur.size \in Nat
    BY DEF TypeOK, File
  <2> QED BY <1>12, <2>1, NoFileType
          DEF Sanitize, Goto, env, TypeOK, Inos, PCs, Phases
<1>13. CASE Replace
  <2>1. cur.first \in Seq(Nat) /\ cur.name \in AllNames
    BY DEF TypeOK, File
  <2>2. Mask(cur.first) \in Seq(Nat)
    BY <2>1, MaskType
  <2>3. inodes' = Append(inodes, [blocks |-> Mask(cur.first), stamp |-> 0])
    BY <1>13 DEF Replace
  <2>4. /\ inodes' \in Seq([blocks: Seq(Nat), stamp: Nat])
        /\ Inos \subseteq Inos' /\ Len(inodes') \in Inos'
    BY <2>2, <2>3, NewInode
  <2> QED BY <1>13, <2>1, <2>4, NoFileType
          DEF Replace, Goto, TypeOK, PCs, Phases
<1>14. CASE Seal
  <2>1. cur.size \in Nat /\ cur.first \in Seq(Nat) /\ cur.name \in AllNames
    BY DEF TypeOK, File
  <2>2. Member \in Members
    BY <2>1, MaskType DEF Member, Members
  <2>3. archive' \in [made: BOOLEAN, members: SUBSET Members]
        /\ archive'.made = archive.made
    BY <1>14, <2>2 DEF Seal, TypeOK
  <2> QED BY <1>14, <2>1, <2>3, NoFileType
          DEF Seal, Goto, env, TypeOK, Inos, PCs, Phases
<1>15. CASE UNCHANGED vars
  BY <1>15 DEF vars, env, run, TypeOK, Inos
<1> QED
  BY <1>1, <1>2, <1>3, <1>4, <1>5, <1>6, <1>7, <1>8, <1>9, <1>10, <1>11,
     <1>12, <1>13, <1>14, <1>15
     DEF Next, Harness, Pipeline, Refuse, Fault

LEMMA StartType == Init => TypeOK
PROOF
<1> SUFFICES ASSUME Init PROVE TypeOK
  OBVIOUS
<1>1. /\ inodes \in Seq([blocks: Seq(Nat), stamp: Nat])
      /\ tree \in [AllNames -> Inos \union {NoIno}]
  <2>1. CASE inodes = << >> /\ tree = [n \in AllNames |-> NoIno]
    BY <2>1
  <2>2. CASE /\ inodes = <<[blocks |-> <<Tool>>, stamp |-> 0]>>
             /\ tree = [n \in AllNames |-> IF n = Marker THEN 1 ELSE NoIno]
    <3>1. <<Tool>> \in Seq(Nat)
      BY DEF Tool
    <3>2. [blocks |-> <<Tool>>, stamp |-> 0] \in [blocks: Seq(Nat), stamp: Nat]
      BY <3>1
    <3>3. inodes \in Seq([blocks: Seq(Nat), stamp: Nat]) /\ Len(inodes) = 1
      BY <2>2, <3>2
    <3> QED BY <2>2, <3>3 DEF Inos
  <2> QED BY <2>1, <2>2 DEF Init
<1> QED
  BY <1>1, NoFileType
  DEF Init, TypeOK, PCs, Phases, NoArchive, NoIno

(* Types, for any names, limits and number of writes.                      *)
THEOREM TypeCorrect == Spec => []TypeOK
PROOF BY StartType, TypeStep, PTL DEF Spec
-----------------------------------------------------------------------------
(* Nothing in the archive, and nothing uploaded, holds a secret.           *)
Clean == \A m \in archive.members \union uploaded.members :
           BlocksIn(m.data) \cap Secrets = {}

LEMMA CleanStep == TypeOK /\ Clean /\ [Next]_vars => Clean'
PROOF
<1> SUFFICES ASSUME TypeOK, Clean, [Next]_vars PROVE Clean'
  OBVIOUS
<1>1. CASE Seal
  <2>1. Member.data = Mask(cur.first) /\ ~ Leaks(cur.first)
    BY <1>1 DEF Seal, Usable, Member
  <2>2. BlocksIn(Member.data) \cap Secrets = {}
    BY <2>1 DEF Leaks
  <2>3. /\ archive'.members = archive.members \union {Member}
        /\ uploaded' = uploaded
    BY <1>1 DEF Seal, TypeOK
  <2>4. \A m \in archive'.members \union uploaded'.members :
          BlocksIn(m.data) \cap Secrets = {}
    BY <2>2, <2>3 DEF Clean
  <2> QED BY <2>4 DEF Clean, BlocksIn
<1>2. CASE /\ archive' \in {archive, NoArchive, [made |-> TRUE, members |-> {}]}
           /\ uploaded' \in {uploaded, archive}
  <2>1. /\ archive'.members \subseteq archive.members
        /\ uploaded'.members \subseteq archive.members \union uploaded.members
    BY <1>2 DEF NoArchive
  <2> QED BY <2>1 DEF Clean, BlocksIn
<1>3. Seal \/ /\ archive' \in {archive, NoArchive,
                              [made |-> TRUE, members |-> {}]}
              /\ uploaded' \in {uploaded, archive}
  BY DEF Next, Harness, Pipeline, CreateFile, MoveFile, WriteFile, HarnessEnds,
     Kept, Start, Prepare, Mark, Walk, List, CreateArchive, Open, Read, Refuse,
     Sanitize, Replace, Sanitized, Sealed, Upload, Fault, Kill, Fails, vars
<1> QED
  BY <1>1, <1>2, <1>3

(* No secret is uploaded, whatever the harness writes and whenever.        *)
THEOREM SecretsStay == Spec => []UploadClean
PROOF
<1>1. Init => Clean
  BY DEF Init, Clean, NoArchive
<1>2. Clean => UploadClean
  BY DEF Clean, UploadClean
<1> QED
  BY <1>1, <1>2, CleanStep, TypeCorrect, PTL DEF Spec
-----------------------------------------------------------------------------
(* Blocks never come back: every block that is or was in a file is of a    *)
(* write that has happened, and a later one has a greater number.          *)
Bound ==
  /\ \A i \in Inos : \A k \in 1..Len(Blocks(i)) : Blocks(i)[k] <= writes
  /\ \A c \in window : \A k \in 1..Len(c) : c[k] <= writes
  /\ \A k \in 1..Len(cur.first) : cur.first[k] <= writes

LEMMA BoundStep == TypeOK /\ Bound /\ [Next]_vars => Bound'
PROOF
<1> SUFFICES ASSUME TypeOK, Bound, [Next]_vars PROVE Bound'
  OBVIOUS
<1>0. /\ writes \in Nat /\ cur \in File /\ cur.first \in Seq(Nat)
      /\ window \subseteq Seq(Nat) /\ NoFile.first = << >>
  BY DEF TypeOK, File, NoFile
<1>1. ASSUME NEW b \in Seq(Nat),
             inodes' = Append(inodes, [blocks |-> b, stamp |-> 0]),
             writes' \in {writes, writes + 1},
             \A k \in 1..Len(b) : b[k] <= writes',
             window' \in {window, {}}, cur' \in {cur, NoFile}
      PROVE  Bound'
  <2>1. \A i \in Inos' : i \in Inos \/ inodes'[i] = [blocks |-> b, stamp |-> 0]
    BY <1>1 DEF TypeOK, Inos
  <2>2. \A i \in Inos : inodes'[i] = inodes[i]
    BY <1>1, NewInode
  <2>3. \A i \in Inos' : \A k \in 1..Len(Blocks(i)') : Blocks(i)'[k] <= writes'
    <3> SUFFICES ASSUME NEW i \in Inos', NEW k \in 1..Len(Blocks(i)')
                 PROVE  Blocks(i)'[k] <= writes'
      OBVIOUS
    <3>1. CASE i \in Inos
      <4>1. Blocks(i)' = Blocks(i) /\ Blocks(i) \in Seq(Nat)
        BY <2>2, <3>1, BlocksType DEF Blocks
      <4>2. Blocks(i)[k] <= writes /\ Blocks(i)[k] \in Nat
        BY <3>1, <4>1 DEF Bound
      <4> QED BY <1>0, <1>1, <4>1, <4>2
    <3>2. CASE inodes'[i] = [blocks |-> b, stamp |-> 0]
      <4>1. Blocks(i)' = b
        BY <3>2 DEF Blocks
      <4> QED BY <1>1, <4>1
    <3> QED BY <2>1, <3>1, <3>2
  <2>4. \A c \in window' : \A k \in 1..Len(c) : c[k] <= writes'
    BY <1>0, <1>1 DEF Bound
  <2>5. \A k \in 1..Len(cur'.first) : cur'.first[k] <= writes'
    BY <1>0, <1>1 DEF Bound
  <2> QED BY <2>3, <2>4, <2>5 DEF Bound
<1>2. ASSUME UNCHANGED <<inodes, writes>>, window' \in {window, {}},
             cur' \in {cur, NoFile} \/ cur'.first = cur.first
      PROVE  Bound'
  BY <1>0, <1>2 DEF Bound, Inos, Blocks
<1>3. ASSUME NEW n \in Names, CreateFile(n) PROVE Bound'
  <2>1. /\ writes' = writes + 1 /\ <<writes'>> \in Seq(Nat)
        /\ \A k \in 1..Len(<<writes'>>) : <<writes'>>[k] <= writes'
    BY <1>0, <1>3 DEF CreateFile, Acts
  <2> QED BY <1>1, <1>3, <2>1 DEF CreateFile, Kept, run
<1>4. ASSUME NEW n \in Names, MoveFile(n) PROVE Bound'
  <2>1. writes' = writes + 1 /\ UNCHANGED <<inodes, window, cur>>
    BY <1>4 DEF MoveFile, Acts, Kept, run
  <2>2. \A i \in Inos : \A k \in 1..Len(Blocks(i)) :
          Blocks(i)[k] \in Nat /\ Blocks(i)[k] <= writes
    BY BlocksType DEF Bound
  <2>3. \A i \in Inos : \A k \in 1..Len(Blocks(i)) : Blocks(i)[k] <= writes'
    BY <1>0, <2>1, <2>2
  <2>4. \A c \in window : \A k \in 1..Len(c) : c[k] <= writes'
    BY <1>0, <2>1 DEF Bound
  <2>5. \A k \in 1..Len(cur.first) : cur.first[k] <= writes'
    BY <1>0, <2>1 DEF Bound
  <2> QED BY <2>1, <2>3, <2>4, <2>5 DEF Bound, Inos, Blocks
<1>5. ASSUME NEW i \in Inos, WriteFile(i) PROVE Bound'
  <2>1. /\ writes' = writes + 1
        /\ Len(inodes') = Len(inodes)
        /\ \A j \in Inos \ {i} : inodes'[j] = inodes[j]
        /\ Blocks(i)' \in Seq(Nat)
        /\ window' = IF cur.ino = i THEN window \union {Blocks(i)'}
                     ELSE window
        /\ \A k \in 1..Len(Blocks(i)') :
              \/ Blocks(i)'[k] = writes'
              \/ k <= Len(Blocks(i)) /\ Blocks(i)'[k] = Blocks(i)[k]
    BY <1>5, WriteType
  <2>2. Blocks(i) \in Seq(Nat)
    BY BlocksType
  <2>a. \A k \in 1..Len(Blocks(i)) :
          Blocks(i)[k] \in Nat /\ Blocks(i)[k] <= writes
    BY <2>2 DEF Bound
  <2>b. \A k \in 1..Len(Blocks(i)) : Blocks(i)[k] <= writes'
    BY <1>0, <2>1, <2>a
  <2>c. Len(Blocks(i)) \in Nat /\ Len(Blocks(i)') \in Nat
    BY <2>1, <2>2
  <2>3. \A k \in 1..Len(Blocks(i)') : Blocks(i)'[k] <= writes'
    <3> SUFFICES ASSUME NEW k \in 1..Len(Blocks(i)')
                 PROVE  Blocks(i)'[k] <= writes'
      OBVIOUS
    <3>1. CASE Blocks(i)'[k] = writes'
      BY <1>0, <2>1, <3>1
    <3>2. CASE k <= Len(Blocks(i)) /\ Blocks(i)'[k] = Blocks(i)[k]
      BY <2>b, <2>c, <3>2
    <3> QED BY <2>1, <3>1, <3>2
  <2>4. \A j \in Inos \ {i} : \A k \in 1..Len(Blocks(j)') :
          Blocks(j)'[k] <= writes'
    <3> SUFFICES ASSUME NEW j \in Inos \ {i}, NEW k \in 1..Len(Blocks(j)')
                 PROVE  Blocks(j)'[k] <= writes'
      OBVIOUS
    <3>1. Blocks(j)' = Blocks(j) /\ Blocks(j) \in Seq(Nat)
      BY <2>1, BlocksType DEF Blocks
    <3>2. Blocks(j)[k] <= writes /\ Blocks(j)[k] \in Nat
      BY <3>1 DEF Bound
    <3> QED BY <1>0, <2>1, <3>1, <3>2
  <2>5. Inos' = Inos /\ cur' = cur
    BY <1>5, <2>1 DEF Inos, WriteFile, Kept, run
  <2>6. \A c \in window' : \A k \in 1..Len(c) : c[k] <= writes'
    <3>1. \A c \in window : \A k \in 1..Len(c) : c[k] <= writes'
      BY <1>0, <2>1 DEF Bound
    <3> QED BY <2>1, <2>3, <3>1
  <2>7. \A k \in 1..Len(cur.first) : cur.first[k] <= writes'
    BY <1>0, <2>1 DEF Bound
  <2> QED BY <2>3, <2>4, <2>5, <2>6, <2>7 DEF Bound
<1>6. CASE Fails
  BY <1>2, <1>6 DEF Fails, env
<1>7. CASE HarnessEnds \/ Start \/ CreateArchive \/ Sanitized \/ Sealed
             \/ Upload \/ Kill \/ Sanitize \/ Seal
  BY <1>2, <1>7 DEF HarnessEnds, Start, CreateArchive, Sanitized, Sealed,
     Upload, Kill, Sanitize, Seal, Goto, Kept, env, run
<1>8. CASE Prepare \/ Walk \/ List
  BY <1>2, <1>6, <1>8 DEF Prepare, Walk, List, Goto, env
<1>9. CASE Mark
  <2>1. /\ <<Tool>> \in Seq(Nat)
        /\ \A k \in 1..Len(<<Tool>>) : <<Tool>>[k] <= writes
    BY <1>0 DEF Tool
  <2> QED BY <1>1, <1>6, <1>9, <2>1 DEF Mark, Goto
<1>10. ASSUME NEW n \in AllNames, Open(n) PROVE Bound'
  <2>1. CASE /\ tree[n] # NoIno
             /\ cur'.first = << >> /\ window' = {Blocks(tree[n])}
             /\ UNCHANGED env
    <3>1. tree[n] \in Inos
      BY <2>1 DEF TypeOK
    <3>2. \A c \in window' : \A k \in 1..Len(c) : c[k] <= writes
      BY <2>1, <3>1 DEF Bound
    <3> QED BY <2>1, <3>2 DEF Bound, env, Inos, Blocks
  <2>2. Fails \/ /\ tree[n] # NoIno
                 /\ cur'.first = << >> /\ window' = {Blocks(tree[n])}
                 /\ UNCHANGED env
    BY <1>10 DEF Open, NoFile
  <2> QED BY <1>6, <2>1, <2>2
<1>11. CASE Read
  <2> DEFINE now == Blocks(cur.ino)
             k == Len(cur.first) + 1
  <2>1. now \in Seq(Nat) /\ cur.ino \in Inos
    BY <1>11, BlocksType DEF Read, TypeOK
  <2>2. CASE /\ k <= Len(now)
             /\ cur' = [cur EXCEPT !.first = Append(cur.first, now[k])]
             /\ UNCHANGED <<env, window>>
    <3>1. k \in 1..Len(now) /\ now[k] <= writes
      BY <1>0, <2>1, <2>2 DEF Bound
    <3>2. cur'.first = Append(cur.first, now[k])
      BY <1>0, <2>2 DEF File
    <3>3. \A j \in 1..Len(cur'.first) : cur'.first[j] <= writes
      BY <1>0, <2>1, <3>1, <3>2 DEF Bound
    <3> QED BY <2>2, <3>3 DEF Bound, env, Inos, Blocks
  <2>3. CASE cur'.first = cur.first /\ UNCHANGED <<env, window>>
    BY <1>2, <2>3 DEF env
  <2>4. \/ Fails
        \/ cur'.first = cur.first /\ UNCHANGED <<env, window>>
        \/ /\ k <= Len(now)
           /\ cur' = [cur EXCEPT !.first = Append(cur.first, now[k])]
           /\ UNCHANGED <<env, window>>
    <3>1. CASE cur.pass = 1
      BY <1>0, <1>11, <3>1 DEF Read, File
    <3>2. CASE cur.pass # 1
      BY <1>0, <1>11, <3>2 DEF Read, File
    <3> QED BY <3>1, <3>2
  <2> QED BY <1>6, <2>2, <2>3, <2>4
<1>12. CASE Replace
  <2>1. /\ Mask(cur.first) \in Seq(Nat)
        /\ \A k \in 1..Len(Mask(cur.first)) : Mask(cur.first)[k] <= writes
    BY <1>0, MaskType DEF Bound, Tool
  <2> QED BY <1>1, <1>12, <2>1 DEF Replace, Goto
<1>13. CASE UNCHANGED vars
  BY <1>2, <1>13 DEF vars, env, run
<1> QED
  BY <1>3, <1>4, <1>5, <1>6, <1>7, <1>8, <1>9, <1>10, <1>11, <1>12, <1>13
     DEF Next, Harness, Pipeline, Refuse, Fault, Inos
-----------------------------------------------------------------------------
(* During the second pass: the file held c between the passes, and what it *)
(* holds and the second pass reads is not older; or some block of the      *)
(* first pass is gone for good.                                            *)
Between(c) ==
  /\ Len(c) = cur.size
  /\ \A j \in 1..cur.size :
       /\ cur.first[j] <= c[j]
       /\ j <= Len(Blocks(cur.ino)) => c[j] <= Blocks(cur.ino)[j]
       /\ j <= Len(cur.second) => c[j] <= cur.second[j]

Overtaken(j) ==
  /\ j <= Len(Blocks(cur.ino)) => cur.first[j] < Blocks(cur.ino)[j]
  /\ j <= Len(cur.second) => cur.first[j] < cur.second[j]

Passes ==
  pc \in {"read", "check"} =>
    /\ Blocks(cur.ino) \in window
    /\ Len(cur.first) <= cur.size /\ Len(cur.second) <= cur.size
    /\ cur.pass = 1 =>
         /\ pc = "read" /\ cur.second = << >>
         /\ \A j \in 1..Len(cur.first) : j <= Len(Blocks(cur.ino)) =>
              cur.first[j] <= Blocks(cur.ino)[j]
    /\ cur.pass = 2 =>
         /\ Len(cur.first) = cur.size
         /\ \/ \E c \in window : Between(c)
            \/ \E j \in 1..cur.size : Overtaken(j)
    /\ pc = "check" => Len(cur.second) = cur.size

(* At the end of the second pass: two equal passes are what the file held. *)
LEMMA EqualPasses ==
  ASSUME TypeOK, Passes, pc = "check", cur.first = cur.second
  PROVE  cur.first \in window
PROOF
<1>1. /\ cur.first \in Seq(Nat) /\ cur.size \in Nat /\ cur.pass \in {1, 2}
      /\ window \subseteq Seq(Nat)
  BY DEF TypeOK, File
<1>2. /\ cur.pass = 2 /\ Len(cur.first) = cur.size
      /\ \/ \E c \in window : Between(c)
         \/ \E j \in 1..cur.size : Overtaken(j)
  BY <1>1 DEF Passes
<1>3. ~ \E j \in 1..cur.size : Overtaken(j)
  <2> SUFFICES ASSUME NEW j \in 1..cur.size, Overtaken(j) PROVE FALSE
    OBVIOUS
  <2>1. j <= Len(cur.second) /\ cur.first[j] \in Nat
    BY <1>1, <1>2
  <2> QED BY <2>1 DEF Overtaken
<1>4. PICK c \in window : Between(c)
  BY <1>2, <1>3
<1>5. c \in Seq(Nat) /\ Len(c) = Len(cur.first)
  BY <1>1, <1>2, <1>4 DEF Between
<1>6. \A j \in 1..Len(c) : c[j] = cur.first[j]
  <2> SUFFICES ASSUME NEW j \in 1..Len(c) PROVE c[j] = cur.first[j]
    OBVIOUS
  <2>1. j \in 1..cur.size /\ c[j] \in Nat /\ cur.first[j] \in Nat
    BY <1>1, <1>2, <1>5
  <2>2. cur.first[j] <= c[j] /\ c[j] <= cur.second[j]
    BY <1>2, <1>4, <1>5, <2>1 DEF Between
  <2> QED BY <2>1, <2>2
<1>7. c = cur.first
  BY <1>1, <1>5, <1>6
<1> QED
  BY <1>4, <1>7

(* A write to the file that is being read.                                 *)
LEMMA PassWrite ==
  ASSUME TypeOK, Bound, Passes, cur.ino \in Inos, WriteFile(cur.ino)
  PROVE  Passes'
PROOF
<1> DEFINE old == Blocks(cur.ino)
           new == Blocks(cur.ino)'
<1> SUFFICES ASSUME pc \in {"read", "check"} PROVE Passes'
  BY DEF Passes, WriteFile, Kept, run
<1>0. UNCHANGED <<pc, cur>>
  BY DEF WriteFile, Kept, run
<1>1. /\ writes \in Nat /\ cur.size \in Nat /\ cur.first \in Seq(Nat)
      /\ cur.second \in Seq(Nat) /\ window \subseteq Seq(Nat)
      /\ cur.pass \in {1, 2}
  BY DEF TypeOK, File
<1>a. \A j \in 1..Len(cur.first) : cur.first[j] <= writes
  BY DEF Bound
<1>2. old \in Seq(Nat)
  BY BlocksType
<1>3. /\ writes' = writes + 1 /\ new \in Seq(Nat)
      /\ window' = window \union {new}
      /\ \A k \in 1..Len(new) :
           new[k] = writes' \/ (k <= Len(old) /\ new[k] = old[k])
  <2>1. PICK i \in Inos : i = cur.ino
    OBVIOUS
  <2>2. WriteFile(i)
    BY <2>1
  <2>3. /\ writes' = writes + 1 /\ Blocks(i)' \in Seq(Nat)
        /\ window' = IF cur.ino = i THEN window \union {Blocks(i)'}
                     ELSE window
        /\ \A k \in 1..Len(Blocks(i)') :
             \/ Blocks(i)'[k] = writes'
             \/ k <= Len(Blocks(i)) /\ Blocks(i)'[k] = Blocks(i)[k]
    BY <2>2, WriteType
  <2>4. Blocks(i)' = new /\ Blocks(i) = old
    BY <1>0, <2>1 DEF Blocks
  <2> HIDE DEF old, new
  <2>5. window' = window \union {new} /\ new \in Seq(Nat)
    BY <2>1, <2>3, <2>4
  <2>6. \A k \in 1..Len(new) :
          new[k] = writes' \/ (k <= Len(old) /\ new[k] = old[k])
    <3> SUFFICES ASSUME NEW k \in 1..Len(new)
                 PROVE  new[k] = writes' \/ (k <= Len(old) /\ new[k] = old[k])
      OBVIOUS
    <3>1. k \in 1..Len(Blocks(i)')
      BY <2>4
    <3>2. \/ Blocks(i)'[k] = writes'
          \/ k <= Len(Blocks(i)) /\ Blocks(i)'[k] = Blocks(i)[k]
      BY <2>3, <3>1
    <3>3. Blocks(i)'[k] = new[k] /\ Blocks(i)[k] = old[k]
      BY <2>4
    <3>4. Len(Blocks(i)) = Len(old)
      BY <2>4
    <3> QED BY <3>2, <3>3, <3>4
  <2> QED BY <2>3, <2>5, <2>6
<1> HIDE DEF old, new
<1>4. ASSUME cur.pass = 1
      PROVE  \A j \in 1..Len(cur.first) : j <= Len(new) =>
               cur.first[j] <= new[j]
  <2> SUFFICES ASSUME NEW j \in 1..Len(cur.first), j <= Len(new)
               PROVE  cur.first[j] <= new[j]
    OBVIOUS
  <2>1. /\ cur.first[j] \in Nat /\ cur.first[j] <= writes
        /\ j \in 1..Len(new)
    BY <1>1, <1>a, <1>3
  <2>2. j <= Len(old) => cur.first[j] <= old[j]
    BY <1>4 DEF Passes, old
  <2> QED BY <1>1, <1>3, <2>1, <2>2
<1>5. ASSUME NEW c \in window, Between(c) PROVE Between(c)'
  <2> SUFFICES ASSUME NEW j \in 1..cur.size, j <= Len(new)
               PROVE  c[j] <= new[j]
    BY <1>0, <1>5 DEF Between, new
  <2>a. c \in Seq(Nat) /\ j \in Nat /\ Len(new) \in Nat
    BY <1>1, <1>3, <1>5
  <2>b. cur.size <= Len(c) /\ (j <= Len(old) => c[j] <= old[j])
    BY <1>5 DEF Between, old
  <2>1. /\ j \in 1..Len(new) /\ c \in Seq(Nat) /\ j \in 1..Len(c)
        /\ j <= Len(old) => c[j] <= old[j]
    BY <1>1, <2>a, <2>b
  <2>2. c[j] \in Nat /\ c[j] <= writes
    BY <2>1 DEF Bound
  <2> QED BY <1>1, <1>3, <2>1, <2>2
<1>6. ASSUME NEW j \in 1..cur.size, Overtaken(j), Len(cur.first) = cur.size
      PROVE  Overtaken(j)'
  <2> SUFFICES ASSUME j <= Len(new) PROVE cur.first[j] < new[j]
    BY <1>0, <1>6 DEF Overtaken, new
  <2>1. /\ cur.first[j] \in Nat /\ cur.first[j] <= writes
        /\ j \in 1..Len(new)
    BY <1>1, <1>a, <1>3, <1>6
  <2>2. j <= Len(old) => cur.first[j] < old[j]
    BY <1>6 DEF Overtaken, old
  <2> QED BY <1>1, <1>3, <2>1, <2>2
<1>7. cur.pass = 2 =>
        /\ Len(cur.first) = cur.size
        /\ \/ \E c \in window' : Between(c)'
           \/ \E j \in 1..cur.size : Overtaken(j)'
  BY <1>3, <1>5, <1>6 DEF Passes
<1>8. new \in window'
  BY <1>3
<1> QED
  BY <1>0, <1>4, <1>7, <1>8 DEF Passes, new

LEMMA PassRead == ASSUME TypeOK, Bound, Passes, Read PROVE Passes'
PROOF
<1> DEFINE now == Blocks(cur.ino)
           part == IF cur.pass = 1 THEN cur.first ELSE cur.second
           k == Len(part) + 1
<1>1. /\ cur \in File /\ cur.ino \in Inos /\ pc = "read"
      /\ cur.size \in Nat /\ cur.first \in Seq(Nat)
      /\ cur.second \in Seq(Nat) /\ cur.pass \in {1, 2}
      /\ window \subseteq Seq(Nat)
  BY DEF Read, TypeOK, File
<1>2. /\ now \in Seq(Nat) /\ now \in window /\ part \in Seq(Nat)
      /\ Len(cur.first) <= cur.size /\ Len(cur.second) <= cur.size
  BY <1>1, BlocksType DEF Passes
<1>3. CASE Fails
  BY <1>3 DEF Fails, Passes
<1>4. CASE /\ k <= cur.size /\ k <= Len(now) /\ cur.pass = 1
           /\ cur' = [cur EXCEPT !.first = Append(part, now[k])]
           /\ UNCHANGED <<env, pc, window>>
  <2>1. /\ cur'.first = Append(cur.first, now[Len(cur.first) + 1])
        /\ cur'.second = << >> /\ cur'.size = cur.size /\ cur'.pass = 1
        /\ cur'.ino = cur.ino
    BY <1>1, <1>4 DEF File, Passes
  <2>2. Blocks(cur.ino)' = now
    BY <1>4, <2>1 DEF env, Blocks
  <2>3. \A j \in 1..Len(cur'.first) : j <= Len(now) =>
          cur'.first[j] <= now[j]
    <3> HIDE DEF now
    <3> SUFFICES ASSUME NEW j \in 1..Len(cur'.first), j <= Len(now)
                 PROVE  cur'.first[j] <= now[j]
      OBVIOUS
    <3>1. j \in Nat /\ now[j] \in Nat
      BY <1>1, <1>2, <2>1
    <3>2. CASE j \in 1..Len(cur.first)
      <4>1. cur'.first[j] = cur.first[j]
        BY <1>1, <1>2, <2>1, <3>2
      <4> QED BY <1>1, <1>4, <3>2, <4>1 DEF Passes, now
    <3>3. CASE j = Len(cur.first) + 1
      <4>1. cur'.first[j] = now[j]
        BY <1>1, <2>1, <3>3
      <4> QED BY <3>1, <4>1
    <3> QED BY <1>1, <2>1, <3>2, <3>3
  <2>4. Len(cur'.first) <= cur.size /\ Len(cur'.second) <= cur.size
    BY <1>1, <1>4, <2>1
  <2>5. /\ pc' = "read" /\ Blocks(cur.ino)' \in window'
        /\ \A j \in 1..Len(cur'.first) : j <= Len(Blocks(cur.ino)') =>
             cur'.first[j] <= Blocks(cur.ino)'[j]
    <3> HIDE DEF now
    <3> QED BY <1>1, <1>2, <1>4, <2>2, <2>3
  <2> QED BY <2>1, <2>4, <2>5 DEF Passes
<1>5. CASE /\ k <= cur.size /\ k <= Len(now) /\ cur.pass = 2
           /\ cur' = [cur EXCEPT !.second = Append(part, now[k])]
           /\ UNCHANGED <<env, pc, window>>
  <2>1. /\ cur'.second = Append(cur.second, now[Len(cur.second) + 1])
        /\ cur'.first = cur.first /\ cur'.size = cur.size /\ cur'.pass = 2
        /\ cur'.ino = cur.ino /\ Len(cur.first) = cur.size
        /\ Len(cur.second) + 1 <= Len(now)
        /\ Len(cur.second) + 1 <= cur.size
    BY <1>1, <1>5 DEF File, Passes
  <2>2. Blocks(cur.ino)' = now /\ window' = window
    BY <1>5, <2>1 DEF env, Blocks
  <2>3. /\ Len(cur'.second) = Len(cur.second) + 1
        /\ \A j \in 1..Len(cur.second) : cur'.second[j] = cur.second[j]
        /\ cur'.second[Len(cur.second) + 1] = now[Len(cur.second) + 1]
    BY <1>1, <1>2, <2>1
  <2>4. \A j \in 1..Len(cur'.second) :
           \/ j \in 1..Len(cur.second) /\ cur'.second[j] = cur.second[j]
           \/ j \in 1..Len(now) /\ cur'.second[j] = now[j]
    BY <1>1, <2>1, <2>3
  <2>5. ASSUME NEW c \in window, Between(c) PROVE Between(c)'
    <3> SUFFICES ASSUME NEW j \in 1..cur.size, j <= Len(cur'.second)
                 PROVE  c[j] <= cur'.second[j]
      BY <2>1, <2>2, <2>5 DEF Between
    <3>1. j \in 1..Len(cur'.second)
      BY <1>1, <2>3
    <3> QED BY <2>4, <2>5, <3>1 DEF Between
  <2>6. ASSUME NEW j \in 1..cur.size, Overtaken(j) PROVE Overtaken(j)'
    <3> SUFFICES ASSUME j <= Len(cur'.second)
                 PROVE  cur.first[j] < cur'.second[j]
      BY <2>1, <2>2, <2>6 DEF Overtaken
    <3>1. j \in 1..Len(cur'.second)
      BY <1>1, <2>3
    <3> QED BY <2>4, <2>6, <3>1 DEF Overtaken
  <2>7. \/ \E c \in window' : Between(c)'
        \/ \E j \in 1..cur'.size : Overtaken(j)'
    BY <1>1, <1>5, <2>1, <2>2, <2>5, <2>6 DEF Passes
  <2>8. Len(cur'.second) <= cur'.size
    BY <2>1, <2>3
  <2> QED BY <1>1, <1>2, <1>5, <2>1, <2>2, <2>7, <2>8 DEF Passes
<1>6. CASE /\ k > cur.size /\ k > Len(now) /\ cur.pass = 1
           /\ cur' = [cur EXCEPT !.pass = 2] /\ pc' = "read"
           /\ UNCHANGED <<env, window>>
  <2>1. /\ cur'.first = cur.first /\ cur'.second = << >> /\ cur'.pass = 2
        /\ cur'.size = cur.size /\ cur'.ino = cur.ino
        /\ Len(cur.first) = cur.size /\ Len(now) <= cur.size
        /\ \A j \in 1..Len(cur.first) : j <= Len(now) =>
             cur.first[j] <= now[j]
    BY <1>1, <1>2, <1>6 DEF File, Passes
  <2>2. Blocks(cur.ino)' = now /\ window' = window
    BY <1>6, <2>1 DEF env, Blocks
  <2>3. CASE Len(now) = cur.size
    <3> HIDE DEF now
    <3>1. \A j \in 1..cur.size : now[j] <= now[j]
      BY <1>1, <1>2, <2>3
    <3>2. \A j \in 1..cur.size : cur.first[j] <= now[j] /\ ~ j <= 0
      BY <1>1, <2>1, <2>3
    <3>3. Len(cur'.second) = 0 /\ 0 <= cur.size
      BY <1>1, <2>1
    <3>4. PICK c \in window' : c = now
      BY <1>2, <2>2
    <3>5. Between(c)'
      BY <2>1, <2>2, <2>3, <3>1, <3>2, <3>3, <3>4 DEF Between
    <3> QED BY <1>2, <1>6, <2>1, <2>2, <3>3, <3>5 DEF Passes
  <2>4. CASE Len(now) # cur.size
    <3>1. cur.size \in 1..cur.size /\ ~ cur.size <= Len(now)
      BY <1>1, <1>2, <2>1, <2>4
    <3>2. Overtaken(cur.size)'
      BY <1>1, <2>1, <2>2, <3>1 DEF Overtaken
    <3> QED BY <1>2, <1>6, <2>1, <2>2, <3>1, <3>2 DEF Passes
  <2> QED BY <2>3, <2>4
<1>7. CASE /\ k > cur.size /\ cur.pass = 2
           /\ cur' = [cur EXCEPT !.pass = 2] /\ pc' = "check"
           /\ UNCHANGED <<env, window>>
  <2>1. cur' = cur /\ Len(cur.second) = cur.size
    BY <1>1, <1>2, <1>7 DEF File
  <2> QED BY <1>1, <1>7, <2>1 DEF Passes, Between, Overtaken, env, Blocks
<1> QED
  <2>1. CASE cur.pass = 1
    BY <1>1, <1>3, <1>4, <1>6, <2>1 DEF Read
  <2>2. CASE cur.pass = 2
    BY <1>1, <1>3, <1>5, <1>7, <2>2 DEF Read
  <2> QED BY <1>1, <2>1, <2>2

LEMMA PassStep == TypeOK /\ Bound /\ Passes /\ [Next]_vars => Passes'
PROOF
<1> SUFFICES ASSUME TypeOK, Bound, Passes, [Next]_vars PROVE Passes'
  OBVIOUS
<1>1. ASSUME UNCHANGED <<pc, cur, window>>,
             pc \in {"read", "check"} => inodes'[cur.ino] = inodes[cur.ino]
      PROVE  Passes'
  BY <1>1 DEF Passes, Between, Overtaken, Blocks
<1>2. ASSUME pc' \notin {"read", "check"} PROVE Passes'
  BY <1>2 DEF Passes
<1>3. pc \in {"read", "check"} => cur.ino \in Inos
  BY DEF TypeOK
<1>4. ASSUME NEW n \in Names, CreateFile(n) PROVE Passes'
  <2>1. writes' \in Nat /\ <<writes'>> \in Seq(Nat)
    BY <1>4 DEF CreateFile, Acts, TypeOK
  <2>2. \A i \in Inos : inodes'[i] = inodes[i]
    BY <1>4, <2>1, NewInode DEF CreateFile
  <2> QED BY <1>1, <1>3, <1>4, <2>2 DEF CreateFile, Kept, run
<1>5. ASSUME NEW i \in Inos, WriteFile(i) PROVE Passes'
  <2>1. CASE i = cur.ino
    BY <1>5, <2>1, PassWrite
  <2>2. CASE i # cur.ino
    <3>1. /\ \A j \in Inos \ {i} : inodes'[j] = inodes[j]
          /\ window' = window
      BY <1>5, <2>2, WriteType
    <3> QED BY <1>1, <1>3, <1>5, <2>2, <3>1 DEF WriteFile, Kept, run
  <2> QED BY <2>1, <2>2
<1>6. ASSUME NEW n \in Names, MoveFile(n) PROVE Passes'
  BY <1>1, <1>6 DEF MoveFile, Kept, run
<1>7. CASE HarnessEnds
  BY <1>1, <1>7 DEF HarnessEnds, Kept, run
<1>8. CASE Fails
  BY <1>2, <1>8 DEF Fails
<1>9. CASE Start \/ Sanitized \/ Sealed \/ Upload \/ Kill \/ CreateArchive
             \/ Seal \/ Sanitize \/ Replace
  BY <1>2, <1>9 DEF Start, Sanitized, Sealed, Upload, Kill, CreateArchive,
     Seal, Sanitize, Replace, Goto
<1>10. CASE Prepare \/ Mark \/ Walk \/ List
  BY <1>2, <1>8, <1>10 DEF Prepare, Mark, Walk, List, Goto
<1>11. ASSUME NEW n \in AllNames, Open(n) PROVE Passes'
  <2>1. CASE /\ tree[n] # NoIno
             /\ cur' = [NoFile EXCEPT !.name = n, !.ino = tree[n],
                                      !.size = Len(Blocks(tree[n])),
                                      !.stamp = inodes[tree[n]].stamp]
             /\ window' = {Blocks(tree[n])} /\ pc' = "read"
             /\ UNCHANGED env
    <3>1. Len(Blocks(tree[n])) \in Nat
      BY <2>1, BlocksType DEF TypeOK
    <3>2. /\ cur'.ino = tree[n] /\ cur'.first = << >> /\ cur'.second = << >>
          /\ cur'.size = Len(Blocks(tree[n])) /\ cur'.pass = 1
      BY <2>1 DEF NoFile
    <3>3. Blocks(cur.ino)' \in window'
      BY <2>1, <3>2 DEF Blocks, env
    <3> QED BY <2>1, <3>1, <3>2, <3>3 DEF Passes
  <2> QED BY <1>8, <1>11, <2>1 DEF Open
<1>12. CASE Read
  BY <1>12, PassRead
<1>13. CASE UNCHANGED vars
  BY <1>1, <1>13 DEF vars, env, run
<1> QED
  BY <1>4, <1>5, <1>6, <1>7, <1>8, <1>9, <1>10, <1>11, <1>12, <1>13
     DEF Next, Harness, Pipeline, Refuse, Fault, Inos

LEMMA HeldStep == TypeOK /\ Passes /\ MembersHeld /\ [Next]_vars => MembersHeld'
PROOF
<1> SUFFICES ASSUME TypeOK, Passes, MembersHeld, [Next]_vars
             PROVE  MembersHeld'
  OBVIOUS
<1>1. CASE Seal
  <2>1. cur.first \in window
    BY <1>1, EqualPasses DEF Seal, Usable, Stable
  <2>2. Member.held /\ archive'.members = archive.members \union {Member}
    BY <1>1, <2>1 DEF Seal, Member, TypeOK
  <2> QED BY <2>2 DEF MembersHeld
<1>2. CASE archive' \in {archive, NoArchive, [made |-> TRUE, members |-> {}]}
  <2>1. archive'.members \subseteq archive.members
    BY <1>2 DEF NoArchive
  <2> QED BY <2>1 DEF MembersHeld
<1>3. Seal \/ archive' \in {archive, NoArchive, [made |-> TRUE, members |-> {}]}
  BY DEF Next, Harness, Pipeline, CreateFile, MoveFile, WriteFile, HarnessEnds,
     Kept, Start, Prepare, Mark, Walk, List, CreateArchive, Open, Read, Refuse,
     Sanitize, Replace, Sanitized, Sealed, Upload, Fault, Kill, Fails, vars
<1> QED
  BY <1>1, <1>2, <1>3

(* Every member is its file as it once was while it was read, for any      *)
(* number of writes at any moment: two equal passes over blocks that never *)
(* come back have something in between that equals both.                   *)
THEOREM ArchiveHolds == Spec => []MembersHeld
PROOF
<1>1. Init => Bound
  <2> SUFFICES ASSUME Init PROVE Bound
    OBVIOUS
  <2>1. \A i \in Inos : Blocks(i) = <<Tool>>
    BY DEF Init, Inos, Blocks
  <2>2. Len(<<Tool>>) = 1 /\ <<Tool>>[1] = 0 /\ writes = 0
    BY DEF Tool, Init
  <2>3. \A i \in Inos : \A k \in 1..Len(Blocks(i)) : Blocks(i)[k] <= writes
    BY <2>1, <2>2
  <2> QED BY <2>3 DEF Init, Bound, NoFile
<1>2. Init => Passes /\ MembersHeld
  BY DEF Init, Passes, MembersHeld, NoArchive
<1>3. Spec => []Bound
  BY <1>1, BoundStep, TypeCorrect, PTL DEF Spec
<1>4. Spec => []Passes
  BY <1>2, <1>3, PassStep, TypeCorrect, PTL DEF Spec
<1> QED
  BY <1>2, <1>4, HeldStep, TypeCorrect, PTL DEF Spec

-----------------------------------------------------------------------------
(* When the harness had ended: what the files hold, redacted, is what the  *)
(* upload must have, from the end of prepare on; a file that is read is    *)
(* what its name leads to; the archive has what is no longer to do.        *)
Content(S) == {<<n, Mask(Blocks(tree[n]))>> : n \in S}
Packed(a)  == {<<m.name, m.data>> : m \in a.members}
Promised ==
  IF evidence.files = {} THEN {<<Marker, <<Tool>> >>}
  ELSE {<<e[1], Mask(e[2])>> : e \in evidence.files}

Left ==
  /\ ~ alive
  /\ phase = "prepare" /\ pc = "list" =>
       evidence.files = {<<n, Blocks(tree[n])>> : n \in Listed}
  /\ phase = "prepare" /\ pc = "mark" => evidence.files = {} /\ Listed = {}
  /\ phase # "prepare" /\ pc \notin {"failed", "killed"} =>
       Content(Listed) = Promised

Reads ==
  /\ pc \in {"read", "check", "replace"} => window = {Blocks(cur.ino)}
  /\ pc = "replace" => cur.first = Blocks(cur.ino) /\ tree[cur.name] = cur.ino

Packs ==
  /\ phase = "seal" /\ pc = "create" => todo = Listed
  /\ phase = "seal" /\ pc \in {"pick", "read", "check", "upload"} =>
       todo \subseteq Listed /\ Packed(archive) = Content(Listed \ todo)
  /\ pc = "upload" => phase = "seal" /\ todo = {}

Order ==
  /\ pc = "harness" => phase = "prepare" /\ ~ evidence.known
  /\ pc = "mark" => phase = "prepare"
  /\ pc = "replace" => phase = "sanitize"
  /\ pc = "create" => phase = "seal"
  /\ pc \in {"read", "check"} => cur.name \in todo
  /\ uploaded.made => pc = "done"

Complete ==
  evidence.known =>
    Left /\ Reads /\ Packs /\ (uploaded.made => Packed(uploaded) = Promised)

LEMMA OrderStep == TypeOK /\ Order /\ [Next]_vars => Order'
PROOF
<1> SUFFICES ASSUME TypeOK, Order, [Next]_vars PROVE Order'
  OBVIOUS
<1>1. CASE Harness
  BY <1>1 DEF Harness, CreateFile, MoveFile, WriteFile, HarnessEnds, Kept, run,
     Order
<1>2. ASSUME Fails, pc # "done" PROVE Order'
  BY <1>2 DEF Fails, Order
<1>3. CASE Start \/ Sanitized \/ Sealed \/ Upload \/ CreateArchive \/ Seal
           \/ Sanitize \/ Replace \/ Kill
  BY <1>3 DEF Start, Sanitized, Sealed, Upload, CreateArchive, Seal, Sanitize,
     Replace, Kill, Working, Goto, Order, NoArchive
<1>4. CASE Prepare \/ Mark \/ Walk \/ List
  BY <1>2, <1>4 DEF Prepare, Mark, Walk, List, Goto, Order
<1>5. ASSUME NEW n \in AllNames, Open(n) PROVE Order'
  <2>1. CASE ~ Fails
    <3>1. /\ pc = "pick" /\ pc' = "read" /\ n \in todo /\ todo' = todo
          /\ uploaded' = uploaded /\ evidence' = evidence
          /\ cur' = [NoFile EXCEPT !.name = n, !.ino = tree[n],
                                   !.size = Len(Blocks(tree[n])),
                                   !.stamp = inodes[tree[n]].stamp]
      BY <1>5, <2>1 DEF Open
    <3>2. cur'.name = n
      BY <3>1 DEF NoFile
    <3> QED BY <3>1, <3>2 DEF Order
  <2> QED BY <1>2, <1>5, <2>1 DEF Open
<1>6. CASE Read
  <2>1. ASSUME NEW x, NEW y, NEW z, cur \in File,
               cur' \in {[cur EXCEPT !.first = x], [cur EXCEPT !.second = y],
                         [cur EXCEPT !.pass = z]}
        PROVE  cur'.name = cur.name
    BY <2>1 DEF File
  <2>2. CASE ~ Fails
    <3>1. cur'.name = cur.name
      BY <1>6, <2>1, <2>2 DEF Read, TypeOK
    <3> QED BY <1>6, <2>2, <3>1 DEF Read, Order
  <2> QED BY <1>2, <1>6, <2>2 DEF Read
<1>7. CASE Refuse \/ Fault
  BY <1>2, <1>7 DEF Refuse, Fault, Working
<1>8. CASE UNCHANGED vars
  BY <1>8 DEF vars, run, Order
<1> QED
  BY <1>1, <1>3, <1>4, <1>5, <1>6, <1>7, <1>8 DEF Next, Pipeline

LEMMA SameBlocks ==
  ASSUME NEW a \in Seq(Nat), NEW b \in Seq(Nat), Len(a) = Len(b),
         \A k \in 1..Len(a) : a[k] = b[k]
  PROVE  a = b
PROOF OBVIOUS

(* Nothing is left to redact in what was redacted, or in the marker.       *)
LEMMA MaskTwice == \A s \in Seq(Nat) : Mask(Mask(s)) = Mask(s)
PROOF
<1> SUFFICES ASSUME NEW s \in Seq(Nat) PROVE Mask(Mask(s)) = Mask(s)
  OBVIOUS
<1>1. Mask(s) \in Seq(Nat) /\ Mask(Mask(s)) \in Seq(Nat)
      /\ Len(Mask(s)) = Len(s) /\ Len(Mask(Mask(s))) = Len(s)
  BY MaskType
<1>2. \A k \in 1..Len(s) : Mask(Mask(s))[k] = Mask(s)[k]
  BY <1>1, MaskType, SecretsAssumption
<1>3. PICK a \in Seq(Nat), b \in Seq(Nat) : a = Mask(Mask(s)) /\ b = Mask(s)
  BY <1>1
<1> QED BY <1>1, <1>2, <1>3, SameBlocks

LEMMA MarkerMask == Mask(<<Tool>>) = <<Tool>>
PROOF
<1>a. <<Tool>> \in Seq(Nat) /\ Len(<<Tool>>) = 1 /\ <<Tool>>[1] = Tool
  BY DEF Tool
<1>1. PICK s \in Seq(Nat) : s = <<Tool>> /\ Len(s) = 1 /\ s[1] = Tool
  BY <1>a, Zenon
<1>2. /\ Mask(s) \in Seq(Nat) /\ Len(Mask(s)) = Len(s)
      /\ \A k \in 1..Len(s) :
           Mask(s)[k] = IF s[k] \in Secrets \ Stubborn THEN Tool ELSE s[k]
  BY MaskType
<1>3. \A k \in 1..Len(s) : Mask(s)[k] = s[k]
  BY <1>1, <1>2
<1>4. Mask(s) = s
  BY <1>2, <1>3, SameBlocks
<1> QED BY <1>1, <1>4

(* The end of prepare: what the harness left, or the marker.               *)
LEMMA PrepareComplete ==
  ASSUME TypeOK, Order, Complete, evidence.known, Prepare
  PROVE  Complete'
PROOF
<1>1. UNCHANGED <<tree, inodes, alive, evidence, uploaded>>
      /\ uploaded'.made = uploaded.made /\ ~ uploaded.made
  BY DEF Prepare, Fails, env, Order
<1>2. evidence.files = {<<n, Blocks(tree[n])>> : n \in Listed} /\ ~ alive
  BY DEF Prepare, Complete, Left
<1>3. Listed' = Listed /\ Content(Listed)' = Content(Listed)
      /\ Promised' = Promised
  BY <1>1 DEF Listed, Content, Blocks, Promised
<1>4. CASE pc' = "failed"
  BY <1>1, <1>2, <1>4 DEF Complete, Left, Reads, Packs
<1>5. CASE Listed = {} /\ phase' = "prepare" /\ pc' = "mark"
  BY <1>1, <1>2, <1>3, <1>5 DEF Complete, Left, Reads, Packs
<1>6. CASE Listed # {} /\ phase' = "sanitize" /\ pc' = "list"
  <2>1. evidence.files # {}
    BY <1>2, <1>6
  <2>2. Promised = {<<e[1], Mask(e[2])>> : e \in evidence.files}
    BY <2>1 DEF Promised
  <2>3. Promised = Content(Listed)
    <3>1. \A e \in evidence.files : <<e[1], Mask(e[2])>> \in Content(Listed)
      <4> TAKE e \in evidence.files
      <4>1. PICK n \in Listed : e = <<n, Blocks(tree[n])>>
        BY <1>2
      <4>2. e[1] = n /\ e[2] = Blocks(tree[n])
        BY <4>1
      <4> QED BY <4>2 DEF Content
    <3>2. \A n \in Listed : <<n, Mask(Blocks(tree[n]))>> \in Promised
      <4> TAKE n \in Listed
      <4> DEFINE e == <<n, Blocks(tree[n])>>
      <4>1. e \in evidence.files /\ e[1] = n /\ e[2] = Blocks(tree[n])
        BY <1>2
      <4> HIDE DEF e
      <4>2. <<e[1], Mask(e[2])>> \in Promised
        BY <2>2, <4>1
      <4> QED BY <4>1, <4>2
    <3> QED BY <2>2, <3>1, <3>2 DEF Content
  <2> QED
    BY <1>1, <1>2, <1>3, <1>6, <2>3 DEF Complete, Left, Reads, Packs
<1> QED
  BY <1>4, <1>5, <1>6 DEF Prepare, Fails, Goto

LEMMA MarkComplete ==
  ASSUME TypeOK, Order, Complete, evidence.known, Mark
  PROVE  Complete'
PROOF
<1>1. /\ evidence' = evidence /\ uploaded' = uploaded /\ ~ uploaded.made
      /\ alive' = alive /\ ~ alive /\ evidence.files = {} /\ Listed = {}
  BY DEF Mark, Fails, env, Order, Complete, Left
<1>2. CASE Fails
  BY <1>1, <1>2 DEF Fails, Complete, Left, Reads, Packs
<1>3. CASE ~ Fails
  <2>1. /\ inodes' = Append(inodes, [blocks |-> <<Tool>>, stamp |-> 0])
        /\ tree' = [tree EXCEPT ![Marker] = Len(inodes')]
        /\ phase' = "sanitize" /\ pc' = "list"
    BY <1>3 DEF Mark, Goto
  <2>2. inodes \in Seq([blocks: Seq(Nat), stamp: Nat])
        /\ tree \in [AllNames -> Inos \union {NoIno}]
    BY DEF TypeOK
  <2>3. [blocks |-> <<Tool>>, stamp |-> 0] \in [blocks: Seq(Nat), stamp: Nat]
    BY DEF Tool
  <2>4. /\ Len(inodes') = Len(inodes) + 1 /\ Len(inodes) \in Nat
        /\ inodes'[Len(inodes')] = [blocks |-> <<Tool>>, stamp |-> 0]
    BY <2>1, <2>2, <2>3
  <2>5. Marker \in AllNames /\ tree'[Marker] = Len(inodes')
        /\ \A n \in AllNames \ {Marker} : tree'[n] = NoIno
    BY <1>1, <2>1, <2>2 DEF AllNames, Listed
  <2>6. Listed' = {Marker}
    BY <2>4, <2>5 DEF Listed, NoIno
  <2>7. Blocks(tree[Marker])' = <<Tool>>
    BY <2>4, <2>5 DEF Blocks
  <2>8. Content(Listed)' = {<<Marker, <<Tool>> >>}
    BY <2>6, <2>7, MarkerMask DEF Content
  <2>9. Promised' = {<<Marker, <<Tool>> >>}
    BY <1>1 DEF Promised
  <2> QED
    BY <1>1, <2>1, <2>8, <2>9 DEF Complete, Left, Reads, Packs
<1> QED BY <1>2, <1>3

(* A file is replaced by what is left of it, which promises the same.      *)
LEMMA ReplaceComplete ==
  ASSUME TypeOK, Order, Complete, evidence.known, Replace
  PROVE  Complete'
PROOF
<1>1. /\ evidence' = evidence /\ uploaded' = uploaded /\ ~ uploaded.made
      /\ alive' = alive /\ ~ alive /\ pc = "replace" /\ pc' = "pick"
      /\ phase' = "sanitize"
      /\ inodes' = Append(inodes, [blocks |-> Mask(cur.first), stamp |-> 0])
      /\ tree' = [tree EXCEPT ![cur.name] = Len(inodes')]
  BY DEF Replace, Goto, Order, Complete, Left
<1>2. /\ cur.first = Blocks(cur.ino) /\ tree[cur.name] = cur.ino
      /\ cur.ino \in Inos /\ cur.name \in AllNames
      /\ tree \in [AllNames -> Inos \union {NoIno}] /\ cur.first \in Seq(Nat)
  BY <1>1 DEF Complete, Reads, TypeOK, File
<1>3. /\ inodes' \in Seq([blocks: Seq(Nat), stamp: Nat])
      /\ Len(inodes') = Len(inodes) + 1 /\ Len(inodes) \in Nat
      /\ \A i \in Inos : inodes'[i] = inodes[i]
      /\ inodes'[Len(inodes')].blocks = Mask(cur.first)
  <2>1. Mask(cur.first) \in Seq(Nat)
    BY <1>2, MaskType
  <2>2. PICK b \in Seq(Nat) : b = Mask(cur.first)
    BY <2>1
  <2>3. inodes' = Append(inodes, [blocks |-> b, stamp |-> 0])
    BY <1>1, <2>2
  <2>4. /\ inodes' \in Seq([blocks: Seq(Nat), stamp: Nat])
        /\ Len(inodes') = Len(inodes) + 1
        /\ \A i \in Inos : inodes'[i] = inodes[i]
    BY <2>3, NewInode
  <2>5. inodes'[Len(inodes')] = [blocks |-> b, stamp |-> 0]
        /\ Len(inodes) \in Nat
    BY <2>3 DEF TypeOK
  <2> QED BY <2>2, <2>4, <2>5
<1>4. Listed' = Listed
  BY <1>1, <1>2, <1>3 DEF Listed, Inos, NoIno
<1>5. ASSUME NEW n \in Listed
      PROVE  Mask(Blocks(tree[n]))' = Mask(Blocks(tree[n]))
  <2>1. CASE n = cur.name
    <3>1. Blocks(tree[n])' = Mask(Blocks(tree[n]))
      BY <1>1, <1>2, <1>3, <2>1 DEF Blocks
    <3>2. Blocks(tree[n]) \in Seq(Nat)
      BY <1>2, <2>1
    <3> QED BY <3>1, <3>2, MaskTwice DEF Mask
  <2>2. CASE n # cur.name
    <3>1. n \in AllNames /\ tree'[n] = tree[n] /\ tree[n] \in Inos
      BY <1>1, <1>2, <2>2 DEF Listed
    <3>2. Blocks(tree[n])' = Blocks(tree[n])
      BY <1>3, <3>1 DEF Blocks
    <3> QED BY <3>2 DEF Mask
  <2> QED BY <2>1, <2>2
<1>6. Content(Listed)' = Content(Listed) /\ Promised' = Promised
  BY <1>1, <1>4, <1>5 DEF Content, Promised
<1>7. Content(Listed) = Promised
  <2>1. phase # "prepare"
    BY DEF Replace, Goto, Order, TypeOK
  <2> QED BY <1>1, <2>1 DEF Complete, Left
<1> QED
  BY <1>1, <1>6, <1>7 DEF Complete, Left, Reads, Packs

(* A member is the content of the file whose turn it was.                  *)
LEMMA SealComplete ==
  ASSUME TypeOK, Passes, Order, Complete, evidence.known, Seal
  PROVE  Complete'
PROOF
<1>1. /\ UNCHANGED <<tree, inodes, alive, evidence, uploaded>>
      /\ ~ uploaded.made /\ ~ alive /\ pc = "check" /\ phase = "seal"
      /\ pc' = "pick" /\ phase' = "seal" /\ todo' = todo \ {cur.name}
      /\ archive'.members = archive.members \union {Member}
  BY DEF Seal, Goto, env, Order, Complete, Left, TypeOK
<1>2. /\ cur.first \in window /\ window = {Blocks(cur.ino)}
      /\ tree[cur.name] = cur.ino /\ cur.name \in todo
  BY <1>1, EqualPasses DEF Seal, Usable, Stable, Complete, Reads, Order
<1>3. cur.first = Blocks(tree[cur.name])
  BY <1>2
<1>4. /\ todo \subseteq Listed /\ Packed(archive) = Content(Listed \ todo)
      /\ Content(Listed) = Promised
  BY <1>1 DEF Complete, Packs, Left
<1>5. /\ Member.name = cur.name
      /\ Member.data = Mask(Blocks(tree[cur.name]))
  BY <1>3 DEF Member
<1>6. Packed(archive)' = Packed(archive) \union {<<Member.name, Member.data>>}
  BY <1>1 DEF Packed
<1>7. Listed \ (todo \ {cur.name}) = (Listed \ todo) \union {cur.name}
  BY <1>2, <1>4
<1>8. Content(Listed \ (todo \ {cur.name}))
        = Content(Listed \ todo) \union {<<Member.name, Member.data>>}
  BY <1>5, <1>7 DEF Content
<1>9. /\ Packed(archive)' = Content(Listed \ (todo \ {cur.name}))
      /\ todo' \subseteq Listed /\ todo' = todo \ {cur.name}
  BY <1>1, <1>4, <1>6, <1>8
<1>10. /\ Listed' = Listed /\ Promised' = Promised
       /\ Content(Listed)' = Content(Listed)
       /\ Content(Listed \ todo)' = Content(Listed \ (todo \ {cur.name}))
  BY <1>1 DEF Listed, Promised, Content, Blocks
<1>11. /\ Content(Listed)' = Promised'
       /\ Packed(archive)' = Content(Listed \ todo)'
  BY <1>4, <1>9, <1>10
<1> QED
  BY <1>1, <1>9, <1>10, <1>11 DEF Complete, Left, Reads, Packs

LEMMA CompleteStep ==
  TypeOK /\ Passes /\ Order /\ Complete /\ [Next]_vars => Complete'
PROOF
<1> SUFFICES ASSUME TypeOK, Passes, Order, Complete, [Next]_vars,
                    evidence'.known
             PROVE  Complete'
  BY DEF Complete
<1>1. CASE Start
  <2>1. /\ ~ alive /\ evidence'.files = {<<n, Blocks(tree[n])>> : n \in Listed}
        /\ pc' = "list" /\ phase' = "prepare" /\ ~ uploaded'.made
        /\ UNCHANGED <<tree, inodes, alive>>
    BY <1>1 DEF Start, Goto, env, Order, NoEvidence
  <2>2. {<<n, Blocks(tree[n])>> : n \in Listed}'
          = {<<n, Blocks(tree[n])>> : n \in Listed}
    BY <2>1 DEF Listed, Blocks
  <2> QED BY <2>1, <2>2 DEF Complete, Left, Reads, Packs
<1>2. CASE ~ Start
  <2>1. evidence' = evidence /\ evidence.known /\ ~ alive
    BY <1>2 DEF Next, Harness, Pipeline, CreateFile, MoveFile, WriteFile,
       HarnessEnds, Kept, Prepare, Mark, Walk, List, CreateArchive, Open, Read,
       Refuse, Sanitize, Replace, Sanitized, Seal, Sealed, Upload, Fault, Kill,
       Fails, vars, Complete, Left
  <2>2. ~ Harness
    BY <2>1 DEF Harness, CreateFile, MoveFile, WriteFile, HarnessEnds, Acts
  <2>3. ASSUME UNCHANGED <<tree, inodes, alive>>
        PROVE  /\ Listed' = Listed /\ Content(Listed)' = Content(Listed)
               /\ Promised' = Promised
               /\ UNCHANGED todo
                    => Content(Listed \ todo)' = Content(Listed \ todo)
    BY <2>1, <2>3 DEF Listed, Content, Promised, Blocks
  <2>4. ASSUME Fails, pc # "done" PROVE Complete'
    BY <2>1, <2>3, <2>4 DEF Fails, env, Order, Complete, Left, Reads, Packs
  <2>5. CASE Prepare \/ Mark \/ Replace \/ Seal
    BY <2>1, <2>5, PrepareComplete, MarkComplete, ReplaceComplete, SealComplete
  <2>6. CASE Walk
    BY <2>1, <2>3, <2>6 DEF Walk, Goto, env, Order, Complete, Left, Reads,
       Packs
  <2>7. CASE List
    <3>1. CASE ~ Fails
      BY <2>1, <2>3, <2>7, <3>1 DEF List, Goto, env, Order, Complete, Left,
         Reads, Packs
    <3> QED BY <2>4, <2>7, <3>1 DEF List
  <2>8. CASE CreateArchive
    <3>1. /\ pc = "create" /\ pc' = "pick" /\ phase' = "seal" /\ todo' = todo
          /\ archive'.members = {} /\ uploaded' = uploaded
          /\ UNCHANGED <<tree, inodes, alive>>
      BY <2>8 DEF CreateArchive, Goto, env
    <3>2. phase = "seal" /\ todo = Listed
      BY <2>1, <3>1 DEF Order, Complete, Packs
    <3>3. Packed(archive)' = {} /\ Content(Listed \ todo)' = {}
      BY <2>3, <3>1, <3>2 DEF Packed, Content
    <3> QED
      BY <2>1, <2>3, <3>1, <3>2, <3>3 DEF Order, Complete, Left, Reads, Packs
  <2>9. ASSUME NEW n \in AllNames, Open(n) PROVE Complete'
    <3>1. CASE ~ Fails
      <4>1. /\ pc = "pick" /\ pc' = "read" /\ window' = {Blocks(tree[n])}
            /\ UNCHANGED <<tree, inodes, alive, phase, todo, archive, uploaded>>
            /\ cur' = [NoFile EXCEPT !.name = n, !.ino = tree[n],
                                     !.size = Len(Blocks(tree[n])),
                                     !.stamp = inodes[tree[n]].stamp]
        BY <2>9, <3>1 DEF Open, env
      <4>2. cur'.ino = tree[n]
        BY <4>1 DEF NoFile
      <4>3. window' = {Blocks(cur.ino)'}
        BY <4>1, <4>2 DEF Blocks
      <4>4. Packed(archive)' = Packed(archive)
        BY <4>1 DEF Packed
      <4> QED
        BY <2>1, <2>3, <4>1, <4>3, <4>4 DEF Order, Complete, Left, Reads, Packs
    <3> QED BY <2>4, <2>9, <3>1 DEF Open
  <2>10. CASE Read
    <3>1. CASE ~ Fails
      <4>1. ASSUME NEW x, NEW y, NEW z, cur \in File,
                   cur' \in {[cur EXCEPT !.first = x],
                             [cur EXCEPT !.second = y],
                             [cur EXCEPT !.pass = z]}
            PROVE  cur'.ino = cur.ino
        BY <4>1 DEF File
      <4>2. /\ pc = "read" /\ pc' \in {"read", "check"}
            /\ UNCHANGED <<tree, inodes, alive, phase, todo, archive, uploaded,
                           window>>
        BY <2>10, <3>1 DEF Read, env
      <4>3. cur'.ino = cur.ino
        BY <2>10, <3>1, <4>1 DEF Read, TypeOK
      <4>4. Blocks(cur.ino)' = Blocks(cur.ino)
            /\ Packed(archive)' = Packed(archive)
        BY <4>2, <4>3 DEF Blocks, Packed
      <4> QED
        BY <2>1, <2>3, <4>2, <4>4 DEF Order, Complete, Left, Reads, Packs
    <3> QED BY <2>4, <2>10, <3>1 DEF Read
  <2>11. CASE Sanitize
    <3>1. /\ pc = "check" /\ phase = "sanitize" /\ phase' = "sanitize"
          /\ UNCHANGED <<tree, inodes, alive, archive, uploaded>>
          /\ pc' = "pick" \/ (pc' = "replace" /\ UNCHANGED <<cur, window>>)
      BY <2>11 DEF Sanitize, Goto, env
    <3>2. cur.first = Blocks(cur.ino) /\ window = {Blocks(cur.ino)}
          /\ tree[cur.name] = cur.ino
      BY <2>1, <2>11, <3>1, EqualPasses
      DEF Sanitize, Usable, Stable, Complete, Reads
    <3>3. Blocks(cur.ino) = inodes[cur.ino].blocks
          /\ Blocks(cur.ino)' = inodes'[cur'.ino].blocks
      BY DEF Blocks
    <3> QED
      BY <2>1, <2>3, <3>1, <3>2, <3>3 DEF Order, Complete, Left, Reads, Packs
  <2>12. CASE Sanitized
    BY <2>1, <2>3, <2>12 DEF Sanitized, Goto, env, Order, Complete, Left, Reads,
       Packs
  <2>13. CASE Sealed
    <3>1. Packed(archive)' = Packed(archive)
      BY <2>13 DEF Sealed, Packed
    <3> QED
      BY <2>1, <2>3, <2>13, <3>1 DEF Sealed, Goto, env, Order, Complete, Left,
         Reads, Packs
  <2>14. CASE Upload
    <3>1. /\ pc = "upload" /\ pc' = "done" /\ phase' = "seal"
          /\ uploaded' = archive /\ UNCHANGED <<tree, inodes, alive>>
      BY <2>14 DEF Upload, Goto, env
    <3>2. Packed(uploaded)' = Packed(archive) /\ Listed \ {} = Listed
      BY <3>1 DEF Packed
    <3>3. phase = "seal" /\ todo = {} /\ Packed(archive) = Content(Listed)
          /\ Content(Listed) = Promised
      BY <2>1, <3>1, <3>2 DEF Complete, Packs, Left
    <3> QED
      BY <2>1, <2>3, <3>1, <3>2, <3>3 DEF Complete, Left, Reads, Packs
  <2>15. CASE Kill
    BY <2>1, <2>3, <2>15 DEF Kill, Working, Goto, env, Order, Complete, Left,
       Reads, Packs
  <2>16. CASE Refuse \/ Fault
    BY <2>4, <2>16 DEF Refuse, Fault, Working
  <2>17. CASE UNCHANGED vars
    BY <2>1, <2>3, <2>17 DEF vars, env, run, Complete, Left, Reads, Packs,
       Packed, Blocks
  <2> QED
    BY <1>2, <2>2, <2>5, <2>6, <2>7, <2>8, <2>9, <2>10, <2>11, <2>12, <2>13,
       <2>14, <2>15, <2>16, <2>17 DEF Next, Pipeline
<1> QED BY <1>1, <1>2

(* If the harness had ended, the upload is all of its evidence, redacted,  *)
(* and nothing else: no file is lost, doubled or left half redacted        *)
(* between the three programs.                                             *)
THEOREM UploadsAll == Spec => []UploadComplete
PROOF
<1>1. Init => Bound
  <2> SUFFICES ASSUME Init PROVE Bound
    OBVIOUS
  <2>1. \A i \in Inos : Blocks(i) = <<Tool>>
    BY DEF Init, Inos, Blocks
  <2>2. Len(<<Tool>>) = 1 /\ <<Tool>>[1] = 0 /\ writes = 0
    BY DEF Tool, Init
  <2>3. \A i \in Inos : \A k \in 1..Len(Blocks(i)) : Blocks(i)[k] <= writes
    BY <2>1, <2>2
  <2> QED BY <2>3 DEF Init, Bound, NoFile
<1>2. Init => Passes /\ Order /\ Complete
  BY DEF Init, Passes, Order, Complete, NoEvidence, NoArchive
<1>3. TypeOK /\ Order /\ Complete => UploadComplete
  BY DEF Order, Complete, Promised, Packed, UploadComplete
<1> QED
  BY <1>1, <1>2, <1>3, BoundStep, PassStep, OrderStep, CompleteStep,
     TypeCorrect, PTL DEF Spec
=============================================================================
