-------------------------- MODULE MCActionLifecycle --------------------------
(* Model-checking instance of ActionLifecycle: the constants are in the    *)
(* configuration.                                                          *)
EXTENDS ActionLifecycle
=============================================================================
