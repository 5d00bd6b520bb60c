---------------------------- MODULE MCSyncContent ----------------------------
(* SyncContent on an object of a few units, with model values as threads.   *)
EXTENDS SyncContent
==============================================================================
