----------------------- MODULE MCBackpressureSemaphore -----------------------
(***************************************************************************)
(* Five handlings compete for two permits and two places in the line: all  *)
(* permits taken, the line partly and wholly full, a refusal and a return  *)
(* after it all happen.                                                    *)
(***************************************************************************)
EXTENDS BackpressureSemaphore

=============================================================================
