----------------------------- MODULE MCAuditLog -----------------------------
(* Instances of AuditLog for TLC: three calls on one or on two days.        *)
EXTENDS AuditLog, TLC

CONSTANTS c1, c2, c3, today, tomorrow

MCTwoDays == (c1 :> today) @@ (c2 :> today) @@ (c3 :> tomorrow)
MCOneDay == (c1 :> today) @@ (c2 :> today) @@ (c3 :> today)
===============================================================================
