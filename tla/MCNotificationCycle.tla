------------------------- MODULE MCNotificationCycle -------------------------
(***************************************************************************)
(* An instance of NotificationCycle for TLC: one issue that may stay and   *)
(* two that take turns.                                                    *)
(***************************************************************************)
EXTENDS NotificationCycle, TLC

CONSTANTS a, b, c

TakingTurns == {{}, {a, b}, {a, c}}
=============================================================================
