-------------------------- MODULE MCMultipartUpload --------------------------
(* MultipartUpload with a few callers and threads.                          *)
EXTENDS MultipartUpload
==============================================================================
