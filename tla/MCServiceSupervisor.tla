------------------------ MODULE MCServiceSupervisor ------------------------
(* Model-checking instance of ServiceSupervisor: the constants are given  *)
(* in the configurations.                                                 *)
EXTENDS ServiceSupervisor
=============================================================================
