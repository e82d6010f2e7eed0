----------------------------- MODULE MCRelease -----------------------------
EXTENDS ReleasePublication

CONSTANTS bind, tls

Plain == [version |-> 1, source |-> 0, final |-> TRUE, legal |-> TRUE,
          whole |-> TRUE, watched |-> TRUE]

(* A release, the next one, documents only, and each mistake.              *)
MCCommits ==
  {Plain, [Plain EXCEPT !.version = 2], [Plain EXCEPT !.watched = FALSE],
   [Plain EXCEPT !.legal = FALSE], [Plain EXCEPT !.whole = FALSE],
   [Plain EXCEPT !.source = 1]}
=============================================================================
