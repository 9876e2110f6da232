------------------------------ MODULE AuditTrail ------------------------------
(***************************************************************************)
(* What the audit recorder port promises to the code that calls it: a      *)
(* Record call may put its event in the trail at any moment after it       *)
(* starts, it answers "ok" only for an event that is in the trail, and a   *)
(* crash may lose any event except those that were answered "ok".          *)
(*                                                                         *)
(* A call that answers "error" says nothing about the trail: the write may *)
(* have succeeded and the fsync or the close may have failed.              *)
(***************************************************************************)

CONSTANT Calls          \* the Record calls made during a behaviour

VARIABLES trail,        \* the calls whose event a reader of the trail finds
          answer        \* what each call returned: "none" while it runs

trailVars == <<trail, answer>>

TrailTypeOK == /\ trail \subseteq Calls
               /\ answer \in [Calls -> {"none", "ok", "error"}]

TrailInit == /\ trail = {}
             /\ answer = [c \in Calls |-> "none"]

\* The event of call c reaches the trail.
Arrive(c) == /\ answer[c] = "none"
             /\ c \notin trail
             /\ trail' = trail \cup {c}
             /\ UNCHANGED answer

\* The call reports success; only an event that is in the trail is reported.
Acknowledge(c) == /\ answer[c] = "none"
                  /\ c \in trail
                  /\ answer' = [answer EXCEPT ![c] = "ok"]
                  /\ UNCHANGED trail

\* The call reports an error, whether or not its event is in the trail.
Refuse(c) == /\ answer[c] = "none"
             /\ answer' = [answer EXCEPT ![c] = "error"]
             /\ UNCHANGED trail

\* A crash loses the events L, none of which was acknowledged.
Lose(L) == /\ L \subseteq {c \in trail : answer[c] # "ok"}
           /\ trail' = trail \ L
           /\ UNCHANGED answer

TrailNext == \/ \E c \in Calls : Arrive(c) \/ Acknowledge(c) \/ Refuse(c)
             \/ \E L \in SUBSET trail : Lose(L)

TrailSpec == TrailInit /\ [][TrailNext]_trailVars

\* Every event that was acknowledged is in the trail for good.
AcknowledgedIsKept == \A c \in Calls : answer[c] = "ok" => c \in trail

===============================================================================
