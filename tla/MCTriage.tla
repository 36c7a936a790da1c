------------------------------ MODULE MCTriage ------------------------------
(* Two re-evaluations in an hour of four debounces; two hours.              *)
EXTENDS Triage
=============================================================================
