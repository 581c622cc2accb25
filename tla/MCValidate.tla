----------------------------- MODULE MCValidate -----------------------------
(***************************************************************************)
(* Validate for TLC: two services in list order s1, s2.  s1 is checked    *)
(* every 2 cycles and quenched (unmonitored) after 2 starts within 2       *)
(* cycles; starting or stopping it also handles s2.  s2 follows a cron     *)
(* schedule and has no action-rate rule.                                   *)
(***************************************************************************)
EXTENDS Validate, TLC

CONSTANTS s1, s2

MCServices == {s1, s2}
MCServiceList == <<s1, s2>>
MCEvery == (s1 :> "cycle" @@ s2 :> "cron")
MCEveryCycles == (s1 :> 2 @@ s2 :> 1)
MCActionRates ==
  (s1 :> << [count |-> 2, cycle |-> 2, action |-> "unmonitor"] >> @@ s2 :> << >>)
MCDependants == (s1 :> {s2} @@ s2 :> {})
MCRequests == {"restart", "unmonitor"}

=============================================================================
