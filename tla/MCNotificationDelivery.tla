------------------------ MODULE MCNotificationDelivery ------------------------
(* An instance of NotificationDelivery for TLC. *)
EXTENDS NotificationDelivery
===============================================================================
