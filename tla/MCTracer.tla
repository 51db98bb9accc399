------------------------------ MODULE MCTracer ------------------------------
(* Instances of Tracer for TLC; the constants are in the .cfg files. *)
EXTENDS Tracer

(* Every call of Trace returns (CallsReturn).  No action, no fairness and   *)
(* no initial value tells the processes apart, so what holds for the        *)
(* threads of one of them holds for those of all.                           *)
TraceReturns == \A p \in {CHOOSE q \in Procs : TRUE} : CallsReturn(p)
=============================================================================
