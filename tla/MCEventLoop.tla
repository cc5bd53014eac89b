----------------------------- MODULE MCEventLoop -----------------------------
(* An instance of the event loop: three descriptors, so that the scan for  *)
(* the next highest one has gaps to skip, under an array of two or three   *)
(* entries, so that one falls outside it.  With one handler an entry that  *)
(* is readable and writable calls it once; two are in MCServer.            *)
EXTENDS EventLoop
=============================================================================
