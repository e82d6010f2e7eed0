--------------------------- MODULE ReleaseChannel ---------------------------
(***************************************************************************)
(* What the publication promises to everybody who reads releases: a        *)
(* version appears in one step, whole, once and for all, and is made from  *)
(* one commit that was the head of main when it was vetted.  No tags, no   *)
(* drafts, no jobs.                                                        *)
(***************************************************************************)
EXTENDS Naturals, Sequences

CONSTANTS
  Commits,   \* what may be pushed
  Fit,       \* the commits that may be released
  Versions,  \* versions of the commits
  Names      \* the assets of a whole release

VARIABLES
  main,      \* the commits that were pushed
  vetted,    \* the place of the commit that is being released, or 0
  published  \* published[v]: the assets of version v that can be read

Init == main = << >> /\ vetted = 0 /\ published = [v \in Versions |-> {}]

Push == /\ \E c \in Commits : main' = Append(main, c)
        /\ UNCHANGED <<vetted, published>>

Vet == /\ vetted = 0 /\ vetted' = Len(main)
       /\ UNCHANGED <<main, published>>

Release ==
  LET v == main[vetted].version
  IN  /\ vetted # 0 /\ main[vetted] \in Fit /\ published[v] = {}
      /\ published' = [published EXCEPT ![v] =
                         [name: Names, commit: {vetted}, version: {v}]]
      /\ vetted' = 0 /\ UNCHANGED main

GiveUp == vetted # 0 /\ vetted' = 0 /\ UNCHANGED <<main, published>>

Next == Push \/ Vet \/ Release \/ GiveUp

Spec == Init /\ [][Next]_<<main, vetted, published>>
=============================================================================
