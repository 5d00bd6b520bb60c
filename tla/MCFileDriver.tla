---------------------------- MODULE MCFileDriver ----------------------------
(* FileDriver for TLC.  The contexts are interchangeable, and so are the   *)
(* paths.                                                                  *)
EXTENDS FileDriver, TLC

Symmetry == Permutations(Contexts) \cup Permutations(Paths)

(* what the driver is expected to cope with                                *)
Calmly == [may |-> {"get", "elsewhere", "delete on close"},
           deleteAfterUpload |-> {0, 2}, maxClock |-> 3]

(* what only the bookkeeping is expected to survive: calls that fail, and   *)
(* handles that share a file which is renamed or deleted on close           *)
Disturbed(what) == [may |-> what \cup {"late close"}, deleteAfterUpload |-> {0}, maxClock |-> 1]

CalmOrDisturbed ==
  {Calmly} \cup {Disturbed(what) : what \in {{"delete", "copy"}, {"put"}, {"shared", "rename new"}}}

LateCloses == {[may |-> {"late close"}, deleteAfterUpload |-> {0}, maxClock |-> 3]}

(* truth is history, and in the disturbed worlds only its type matters:    *)
(* states that differ in it alone are one there                            *)
Distinguished ==
  <<remote, cacheAt, file, heap, mOpen, headCache, ctx, deleting, clock, world,
    IF Calm THEN truth ELSE NULL>>

=============================================================================
