---------------------------- MODULE MCDirectories ----------------------------
(* ObjectCache and Directories on a bucket with one directory that all      *)
(* files are in.                                                            *)
EXTENDS Directories, TLC

Symmetry == Permutations(Threads) \cup Permutations(Files)

InOneDirectory == [f \in Files |-> Dir] @@ (Dir :> Top)

(* two files whose lookups may fail                                         *)
TwoFiles == [keys |-> Files, strict |-> FALSE, failing |-> {"head"},
             callbacks |-> FALSE, condition |-> 2]

(* one file, and any call may fail                                          *)
Failing(f) == [keys |-> {f}, strict |-> FALSE, failing |-> {"head", "list", "change"},
               callbacks |-> FALSE, condition |-> 2]

(* one file and its directory, and listings that look both up               *)
Strict(f) == [keys |-> {f, Dir}, strict |-> TRUE, failing |-> {},
              callbacks |-> FALSE, condition |-> 2]

(* the callbacks, with either setting of DeleteDirCondition                 *)
Calling(n) == [keys |-> Keys, strict |-> FALSE, failing |-> {"list", "change"},
               callbacks |-> TRUE, condition |-> n]

FourKinds ==
  {TwoFiles} \cup UNION {{Failing(f), Strict(f)} : f \in Files} \cup {Calling(n) : n \in 1 .. 2}
==============================================================================
