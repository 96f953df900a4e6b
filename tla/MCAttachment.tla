---------------------------- MODULE MCAttachment ----------------------------
(* Attachment on small instances. *)
EXTENDS Attachment

Tolerated == AllEvents \ {"restartFail", "attachRefused", "overlap", "busyReconnect"}
=============================================================================
