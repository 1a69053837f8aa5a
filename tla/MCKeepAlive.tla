---------------------------- MODULE MCKeepAlive ----------------------------
(* KeepAlive for TLC.  Timeout is the longest that a heartbeat which does not fail
   can leave a row alone: one interval and the delay.                      *)
EXTENDS KeepAlive
=============================================================================
