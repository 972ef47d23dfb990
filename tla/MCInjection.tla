------------------------------ MODULE MCInjection ------------------------------
(* Two hooks, a main thread and a worker, with and without a debugger. *)
EXTENDS Injection

CONSTANTS main, worker, remote
=============================================================================
