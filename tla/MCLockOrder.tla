----------------------------- MODULE MCLockOrder -----------------------------
(***************************************************************************)
(* TLC instances of LockOrder: the ALSA thread, the task and one thread of *)
(* the web server.                                                         *)
(***************************************************************************)
EXTENDS LockOrder, TLC

CONSTANTS alsa, task, web

MCOrdered ==
  alsa :> {"period"} @@ task :> {"command", "buffering", "close"} @@ web :> {"rebuild", "show", "change"}
MCWork ==
  alsa :> {"period"} @@ task :> {"command", "buffering", "close", "garbage"}
    @@ web :> {"rebuild", "show", "change", "delete", "random"}

=============================================================================
