---------------------------- MODULE MCPushWorker ----------------------------
(* Two users, a notification for each, and two devices that both may use.  *)
EXTENDS PushWorker

CONSTANTS n1, n2, u1, u2, t1, t2

MCRecipient == [n \in Notifs |-> IF n = n1 THEN u1 ELSE u2]
=============================================================================
