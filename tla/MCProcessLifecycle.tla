-------------------------- MODULE MCProcessLifecycle --------------------------
(* Either process, with requests that come while others are in progress.       *)
EXTENDS ProcessLifecycle
=============================================================================
