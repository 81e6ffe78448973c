------------------------------ MODULE Realtime ------------------------------
(***************************************************************************)
(* What reaches a user outside of his own request: notifications, and the  *)
(* messages and presence of the sockets.  The two share no state.          *)
(***************************************************************************)
EXTENDS Notifications, Messaging

RealtimeSpec == NotificationSpec /\ MessagingSpec

(* Every variable of the two modules keeps its type.                       *)
RealtimeTypeOK == NotificationTypeOK /\ MessagingTypeOK
=============================================================================
