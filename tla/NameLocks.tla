------------------------------ MODULE NameLocks ------------------------------
(***************************************************************************)
(* What a file-system callback may assume of the name guard: every name    *)
(* has one lock, a thread takes it only when nobody holds it, and keeps it *)
(* until it gives it back.  There is no table, no counter and no heap      *)
(* here; NameGuard, which has all three, is shown to implement this.       *)
(***************************************************************************)
CONSTANTS
  Threads,   (* WinFsp dispatcher threads                                  *)
  Names      (* Windows paths                                              *)

VARIABLE held  (* the pairs <<t, n>> such that t is inside the lock of n   *)

Init == held = {}

Acquire(t, n) ==
  /\ \A u \in Threads : <<u, n>> \notin held
  /\ held' = held \cup {<<t, n>>}

Release(t, n) ==
  /\ <<t, n>> \in held
  /\ held' = held \ {<<t, n>>}

Next == \E t \in Threads, n \in Names : Acquire(t, n) \/ Release(t, n)

Spec == Init /\ [][Next]_held

=============================================================================
