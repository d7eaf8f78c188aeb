------------------------ MODULE MCIterationExecutors ------------------------
(* IterationExecutors on small instances.                                  *)
EXTENDS IterationExecutors
=============================================================================
