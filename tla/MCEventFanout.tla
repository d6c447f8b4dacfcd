---------------------------- MODULE MCEventFanout ----------------------------
(***************************************************************************)
(* Three small instances of EventFanout in one: an event and an            *)
(* announcement for two streams that may miss each other's wake-ups; the   *)
(* same for two destinations; and one more message than the buffer keeps   *)
(* for a single stream.                                                    *)
(***************************************************************************)
EXTENDS EventFanoutInvariant, TLC

CONSTANTS e1, a1, a2, s1, s2

MCTypeOf == (a1 :> "agent.registered") @@ (a2 :> "policy.changed")
MCSubscribed == <<{a1}, {e1, a1}>>
MCAudiences ==
  {[events |-> {e1, a1}, streams |-> {s1, s2}, hooks |-> {}],
   [events |-> {e1, a1}, streams |-> {}, hooks |-> {1, 2}],
   [events |-> {e1, a1, a2}, streams |-> {s1}, hooks |-> {}]}
=============================================================================
