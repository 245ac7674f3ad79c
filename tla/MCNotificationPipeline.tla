---------------------- MODULE MCNotificationPipeline ----------------------
(* The instances of NotificationPipeline that TLC checks. *)
EXTENDS NotificationPipeline
===========================================================================
