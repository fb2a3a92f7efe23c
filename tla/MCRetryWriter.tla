---------------------------- MODULE MCRetryWriter ----------------------------
(* TLC instances of RetryWriter. *)
EXTENDS RetryWriter
===============================================================================
