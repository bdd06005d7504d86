----------------------- MODULE MCNotificationPipeline -----------------------
(* An instance of NotificationPipeline for TLC: one event that is delivered
   and one whose envelope cannot be read, so that a batch holds both. *)
EXTENDS NotificationPipeline

CONSTANTS scanFailed, garbled, discord, p1, p2
=============================================================================
