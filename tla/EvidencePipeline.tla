-------------------------- MODULE EvidencePipeline --------------------------
(***************************************************************************)
(* From the evidence of an acceptance run to the archive that is uploaded: *)
(* prepare-, sanitize- and seal-qemu-evidence.py (and their provider       *)
(* wrappers, which are the same programs with other names), one after the  *)
(* other as in run-qemu.sh, while processes of the harness may still       *)
(* write to the evidence.                                                  *)
(*                                                                         *)
(* Simplifications.  A file is a sequence of blocks, a block the number of *)
(* the write it came from or Tool; a secret is one block.  No block is     *)
(* overwritten with the bytes it holds.  The tree has one level and only   *)
(* regular files with one link; the time stamps of a file may or may not   *)
(* change with a write.  The sanitizer's temporary file is left out.       *)
(***************************************************************************)
EXTENDS Naturals, Sequences, FiniteSets

CONSTANTS
  Names,      \* names of evidence files
  BadNames,   \* those with a control character or the shape of a secret
  Marker,     \* MARKER_NAME
  Secrets,    \* writes whose block has the shape of a secret
  Stubborn,   \* secrets that no rule rewrites, such as half a private key
  MaxFile,    \* MAX_FILE_BYTES, in blocks
  MaxTotal,   \* MAX_TOTAL_BYTES, in blocks
  MaxWrites   \* bound: what the harness does

Tool  == 0  \* a block of these tools: the marker, a redaction
NoIno == 0

ASSUME NamesAssumption == BadNames \subseteq Names /\ Marker \notin Names
ASSUME SecretsAssumption == Stubborn \subseteq Secrets /\ Tool \notin Secrets
ASSUME BoundsAssumption ==
  MaxFile \in Nat /\ MaxTotal \in Nat /\ MaxWrites \in Nat

VARIABLES
  tree,      \* tree[n]: the inode that has this name
  inodes,    \* inodes[i]: the blocks and the time stamp of a file
  alive,     \* a process of the harness is still there
  writes,    \* how often the harness has changed the tree
  pc, phase, \* where the pipeline is, and in which of the three programs
  todo,      \* the names the program has listed and not done
  cur,       \* the file that is being read
  total,     \* total_bytes
  archive,   \* the members of the sealed archive, or NoArchive
  uploaded,  \* what was uploaded, or NoArchive
  evidence,  \* what the harness left if it had ended, else NoEvidence
  window     \* what the file that is being read has held since its opening

env  == <<tree, inodes, alive, writes>>
run  == <<pc, phase, todo, cur, total>>
vars == <<env, run, archive, uploaded, evidence, window>>

AllNames   == Names \union {Marker}
NoArchive  == [made |-> FALSE, members |-> {}]
NoEvidence == [known |-> FALSE, files |-> {}]
NoFile == [name |-> Marker, ino |-> NoIno, size |-> 0, stamp |-> 0,
           pass |-> 1, first |-> << >>, second |-> << >>]

Listed == {n \in AllNames : tree[n] # NoIno}
Blocks(i) == inodes[i].blocks
BlocksIn(s) == {s[k] : k \in 1..Len(s)}

(* _sanitize: what the rules make of a file, and whether a leak pattern    *)
(* still finds something.                                                  *)
Mask(s)  == [k \in 1..Len(s) |->
               IF s[k] \in Secrets \ Stubborn THEN Tool ELSE s[k]]
Leaks(s) == BlocksIn(Mask(s)) \cap Secrets # {}

(* The directory is empty, or an earlier job step has prepared it.         *)
Init ==
  /\ \/ tree = [n \in AllNames |-> NoIno] /\ inodes = << >>
     \/ /\ tree = [n \in AllNames |-> IF n = Marker THEN 1 ELSE NoIno]
        /\ inodes = <<[blocks |-> <<Tool>>, stamp |-> 0]>>
  /\ alive = TRUE /\ writes = 0
  /\ pc = "harness" /\ phase = "prepare"
  /\ todo = {} /\ cur = NoFile /\ total = 0
  /\ archive = NoArchive /\ uploaded = NoArchive
  /\ evidence = NoEvidence /\ window = {}
-----------------------------------------------------------------------------
(* The harness.  A write makes a file, adds to it, overwrites a block or   *)
(* empties it; the harness also removes and renames files.                 *)
Acts == alive /\ writes < MaxWrites /\ writes' = writes + 1
Kept == UNCHANGED <<run, archive, uploaded, evidence>>

CreateFile(n) ==
  /\ Acts /\ tree[n] = NoIno
  /\ inodes' = Append(inodes, [blocks |-> <<writes'>>, stamp |-> 0])
  /\ tree' = [tree EXCEPT ![n] = Len(inodes')]
  /\ Kept /\ UNCHANGED <<alive, window>>

WriteFile(i) ==
  /\ Acts
  /\ \E blocks \in {Append(Blocks(i), writes'), << >>}
                    \union {[Blocks(i) EXCEPT ![k] = writes'] :
                              k \in 1..Len(Blocks(i))} :
     \E stamp \in {inodes[i].stamp, inodes[i].stamp + 1} :
       /\ inodes' = [inodes EXCEPT ![i] =
                       [blocks |-> blocks, stamp |-> stamp]]
       /\ window' = IF cur.ino = i THEN window \union {blocks} ELSE window
  /\ Kept /\ UNCHANGED <<tree, alive>>

MoveFile(n) ==
  /\ Acts /\ tree[n] # NoIno
  /\ \/ tree' = [tree EXCEPT ![n] = NoIno]
     \/ \E m \in Names \ {n} :
          tree' = [tree EXCEPT ![n] = NoIno, ![m] = tree[n]]
  /\ Kept /\ UNCHANGED <<inodes, alive, window>>

HarnessEnds ==
  /\ alive /\ alive' = FALSE
  /\ Kept /\ UNCHANGED <<tree, inodes, writes, window>>
-----------------------------------------------------------------------------
(* A program ends with an error: run-qemu.sh stops.  seal_tree removes the *)
(* archive it has created, or leaves it when that fails: an OSError of     *)
(* _remove_created_archive is swallowed.                                   *)
Fails ==
  /\ pc' = "failed"
  /\ archive' \in {NoArchive, archive}
  /\ cur' = NoFile /\ todo' = {} /\ window' = {}
  /\ UNCHANGED <<env, phase, total, uploaded, evidence>>

Goto(program, step) ==
  /\ phase' = program /\ pc' = step
  /\ cur' = NoFile /\ window' = {}

(* run-qemu.sh: the harness has returned, or was stopped by its time limit *)
(* with children that live on.                                             *)
Start ==
  /\ pc = "harness" /\ Goto("prepare", "list")
  /\ evidence' = IF alive THEN NoEvidence
                 ELSE [known |-> TRUE,
                       files |-> {<<n, Blocks(tree[n])>> : n \in Listed}]
  /\ UNCHANGED <<env, todo, total, archive, uploaded>>
-----------------------------------------------------------------------------
(* Mutant of Prepare: the marker is made beside evidence.                  *)
PrepareAlways ==
  /\ pc = "list" /\ phase = "prepare"
  /\ Goto("prepare", "mark")
  /\ UNCHANGED <<env, todo, total, archive, uploaded, evidence>>

(* _validate_marker                                                        *)
MarkerRight == Blocks(tree[Marker]) = <<Tool>>

(* prepare: an empty directory gets the marker; one that holds the marker  *)
(* alone must hold the right one.                                          *)
Prepare ==
  /\ pc = "list" /\ phase = "prepare"
  /\ \/ /\ Listed = {} /\ Goto("prepare", "mark")
        /\ UNCHANGED <<env, todo, total, archive, uploaded, evidence>>
     \/ /\ Listed # {}
        /\ Listed = {Marker} => MarkerRight
        /\ Goto("sanitize", "list")
        /\ UNCHANGED <<env, todo, total, archive, uploaded, evidence>>
     \/ /\ Listed = {Marker} /\ ~ MarkerRight /\ Fails

(* _create_marker                                                          *)
Mark ==
  /\ pc = "mark"
  /\ IF tree[Marker] = NoIno
       THEN /\ inodes' = Append(inodes, [blocks |-> <<Tool>>, stamp |-> 0])
            /\ tree' = [tree EXCEPT ![Marker] = Len(inodes')]
            /\ Goto("sanitize", "list")
            /\ UNCHANGED <<alive, writes, todo, total, archive, uploaded,
                           evidence>>
       ELSE Fails

(* sanitize_tree walks the tree and takes the files one by one.            *)
Walk ==
  /\ pc = "list" /\ phase = "sanitize"
  /\ todo' = Listed /\ total' = 0
  /\ Goto("sanitize", "pick")
  /\ UNCHANGED <<env, archive, uploaded, evidence>>

(* _require_safe_name                                                      *)
SafeName(n) == n \notin BadNames

(* Mutant of List: the sealer does not create its archive.                 *)
ListOnly ==
  /\ pc = "list" /\ phase = "seal"
  /\ IF Listed = {} \/ \E n \in Listed : ~ SafeName(n)
       THEN Fails
       ELSE /\ todo' = Listed /\ total' = 0
            /\ Goto("seal", "pick")
            /\ UNCHANGED <<env, archive, uploaded, evidence>>

(* seal_tree looks at the whole tree before it creates its archive, and    *)
(* needs something to seal.                                                *)
List ==
  /\ pc = "list" /\ phase = "seal"
  /\ IF Listed = {} \/ \E n \in Listed : ~ SafeName(n)
       THEN Fails
       ELSE /\ todo' = Listed /\ total' = 0
            /\ Goto("seal", "create")
            /\ UNCHANGED <<env, archive, uploaded, evidence>>

CreateArchive ==
  /\ pc = "create" /\ Goto("seal", "pick")
  /\ archive' = [made |-> TRUE, members |-> {}]
  /\ UNCHANGED <<env, todo, total, uploaded, evidence>>

(* _regular_files comes to the next file and _read_stable opens it.        *)
Open(n) ==
  /\ pc = "pick" /\ n \in todo
  /\ IF \/ ~ SafeName(n) \/ tree[n] = NoIno
        \/ Len(Blocks(tree[n])) > MaxFile
       THEN Fails
       ELSE /\ cur' = [NoFile EXCEPT !.name = n, !.ino = tree[n],
                                     !.size = Len(Blocks(tree[n])),
                                     !.stamp = inodes[tree[n]].stamp]
            /\ window' = {Blocks(tree[n])}
            /\ pc' = "read"
            /\ UNCHANGED <<env, phase, todo, total, archive, uploaded,
                           evidence>>

(* One pass reads size blocks, and then tries for one more.                *)
Read ==
  /\ pc = "read"
  /\ LET now  == Blocks(cur.ino)
         part == IF cur.pass = 1 THEN cur.first ELSE cur.second
         k    == Len(part) + 1
     IN  \/ /\ k <= cur.size /\ k <= Len(now)
            /\ cur' = IF cur.pass = 1
                        THEN [cur EXCEPT !.first = Append(part, now[k])]
                        ELSE [cur EXCEPT !.second = Append(part, now[k])]
            /\ UNCHANGED <<env, pc, phase, todo, total, archive, uploaded,
                           evidence, window>>
         \/ /\ k > cur.size /\ k > Len(now)
            /\ cur' = [cur EXCEPT !.pass = 2]
            /\ pc' = IF cur.pass = 1 THEN "read" ELSE "check"
            /\ UNCHANGED <<env, phase, todo, total, archive, uploaded,
                           evidence, window>>
         \/ (k <= cur.size) # (k <= Len(now)) /\ Fails

(* Mutant of Stable: the second pass is not compared with the first.       *)
SameStamp ==
  /\ inodes[cur.ino].stamp = cur.stamp /\ Len(Blocks(cur.ino)) = cur.size
  /\ tree[cur.name] = cur.ino

(* The two passes agree, the file has not changed and has its name.        *)
Stable ==
  /\ cur.first = cur.second
  /\ inodes[cur.ino].stamp = cur.stamp /\ Len(Blocks(cur.ino)) = cur.size
  /\ tree[cur.name] = cur.ino

Usable ==
  Stable /\ ~ Leaks(cur.first) /\ total + cur.size <= MaxTotal

Refuse == pc = "check" /\ ~ Usable /\ Fails

(* sanitize_tree: a file with a secret is rewritten, another is left.      *)
Sanitize ==
  /\ pc = "check" /\ phase = "sanitize" /\ Usable
  /\ total' = total + cur.size
  /\ IF Mask(cur.first) = cur.first
       THEN Goto("sanitize", "pick") /\ todo' = todo \ {cur.name}
       ELSE pc' = "replace" /\ UNCHANGED <<phase, todo, cur, window>>
  /\ UNCHANGED <<env, archive, uploaded, evidence>>

Replace ==
  /\ pc = "replace"
  /\ inodes' = Append(inodes, [blocks |-> Mask(cur.first), stamp |-> 0])
  /\ tree' = [tree EXCEPT ![cur.name] = Len(inodes')]
  /\ todo' = todo \ {cur.name}
  /\ Goto("sanitize", "pick")
  /\ UNCHANGED <<alive, writes, total, archive, uploaded, evidence>>

Sanitized ==
  /\ pc = "pick" /\ phase = "sanitize" /\ todo = {}
  /\ Goto("seal", "list")
  /\ UNCHANGED <<env, todo, total, archive, uploaded, evidence>>

(* Mutant of Member: what the sanitizer has left is clean.                 *)
MemberAsRead ==
  [name |-> cur.name, data |-> cur.first, held |-> cur.first \in window]

(* seal_tree sanitizes what it reads once more.                            *)
Member ==
  [name |-> cur.name, data |-> Mask(cur.first), held |-> cur.first \in window]

Seal ==
  /\ pc = "check" /\ phase = "seal" /\ Usable
  /\ total' = total + cur.size
  /\ archive' = [archive EXCEPT !.members = @ \union {Member}]
  /\ todo' = todo \ {cur.name}
  /\ Goto("seal", "pick")
  /\ UNCHANGED <<env, uploaded, evidence>>

Sealed ==
  /\ pc = "pick" /\ phase = "seal" /\ todo = {}
  /\ Goto("seal", "upload")
  /\ UNCHANGED <<env, todo, total, archive, uploaded, evidence>>

Upload ==
  /\ pc = "upload" /\ Goto("seal", "done")
  /\ uploaded' = archive
  /\ UNCHANGED <<env, todo, total, archive, evidence>>

Working == pc \notin {"harness", "failed", "killed", "done"}

(* A file system fault in any of the programs.                             *)
Fault == Working /\ pc # "upload" /\ Fails

(* The job is killed: nothing is removed.                                  *)
Kill ==
  /\ Working /\ Goto(phase, "killed")
  /\ UNCHANGED <<env, todo, total, archive, uploaded, evidence>>
-----------------------------------------------------------------------------
Harness ==
  \/ \E n \in Names : CreateFile(n) \/ MoveFile(n)
  \/ \E i \in 1..Len(inodes) : WriteFile(i)
  \/ HarnessEnds

Pipeline ==
  \/ Start \/ Prepare \/ Mark \/ Walk \/ List \/ CreateArchive
  \/ \E n \in AllNames : Open(n)
  \/ Read \/ Refuse \/ Sanitize \/ Replace \/ Sanitized
  \/ Seal \/ Sealed \/ Upload \/ Fault \/ Kill

Next == Harness \/ Pipeline

Spec == Init /\ [][Next]_vars
-----------------------------------------------------------------------------
Phases == {"prepare", "sanitize", "seal"}
PCs == {"harness", "list", "mark", "create", "pick", "read", "check",
        "replace", "upload", "failed", "killed", "done"}
Inos == 1..Len(inodes)
File == [name: AllNames, ino: Nat, size: Nat, stamp: Nat, pass: {1, 2},
         first: Seq(Nat), second: Seq(Nat)]
Members == [name: AllNames, data: Seq(Nat), held: BOOLEAN]

(* TYPE: the values of the variables; a file that is read is open, and so  *)
(* is the archive that members are added to.                               *)
TypeOK ==
  /\ tree \in [AllNames -> Inos \union {NoIno}]
  /\ inodes \in Seq([blocks: Seq(Nat), stamp: Nat])
  /\ alive \in BOOLEAN /\ writes \in Nat
  /\ pc \in PCs /\ phase \in Phases
  /\ todo \subseteq AllNames /\ cur \in File /\ total \in Nat
  /\ archive \in [made: BOOLEAN, members: SUBSET Members]
  /\ uploaded \in [made: BOOLEAN, members: SUBSET Members]
  /\ window \subseteq Seq(Nat)
  /\ pc \in {"read", "check", "replace"} => cur.ino \in Inos
  /\ phase = "seal" /\ pc \in {"pick", "read", "check", "upload"}
       => archive.made

(* No secret leaves the machine: what is uploaded has none, whatever the   *)
(* harness wrote behind the sanitizer (seal-qemu-evidence.py:173-187).     *)
UploadClean ==
  \A m \in uploaded.members : BlocksIn(m.data) \cap Secrets = {}

(* Each member of the archive is its file as it was at one moment while it *)
(* was read, also when a write does not show in the time stamps            *)
(* (sanitize-qemu-evidence.py:207-241).                                    *)
MembersHeld == \A m \in archive.members : m.held

(* If the harness had ended, the upload is all it left, redacted and       *)
(* nothing else, or the marker if it left nothing.                         *)
UploadComplete ==
  uploaded.made /\ evidence.known =>
    {<<m.name, m.data>> : m \in uploaded.members} =
      IF evidence.files = {} THEN {<<Marker, <<Tool>> >>}
      ELSE {<<e[1], Mask(e[2])>> : e \in evidence.files}
=============================================================================
