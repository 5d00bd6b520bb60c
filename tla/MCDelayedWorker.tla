--------------------------- MODULE MCDelayedWorker ---------------------------
(* DelayedWorker with threads and tasks as model values.  A temporal        *)
(* property is checked, so there is no symmetry reduction.                  *)
EXTENDS DelayedWorker
==============================================================================
