-------------------------- MODULE MCNotifications --------------------------
(* One notification with templates and one without, each sent by a task of *)
(* its own or not; two flushes at once.                                    *)
EXTENDS Notifications
=============================================================================
