---------------------------- MODULE MCInstances ----------------------------
(* Two processes, three starts, one crash; two documents, one of which is    *)
(* too many.                                                                 *)
EXTENDS Instances
=============================================================================
