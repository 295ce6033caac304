-------------------------- MODULE MCNativeSession --------------------------
(* A small instance of NativeSession for TLC.                              *)
EXTENDS NativeSession

(* Bound of MCNativeSession.cfg: it stops one step after a session begins  *)
(* to end, which leaves room for longer streams; MCNativeEnd.cfg goes on.  *)
SessionGoesOn == ~terminal /\ ~killPending /\ ~ctxDone

(* Every operation returns, and a session that is to end is terminated.    *)
SessionEnds == OpsReturn /\ EndTerminates
=============================================================================
