------------------------------ MODULE MCDaemon ------------------------------
(***************************************************************************)
(* Daemon on a small instance: a subscriber's queue of one frame overflows *)
(* with the second event, and the second client may find no slot.          *)
(***************************************************************************)
EXTENDS Daemon

=============================================================================
