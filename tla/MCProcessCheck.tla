---------------------------- MODULE MCProcessCheck ----------------------------
(***************************************************************************)
(* ProcessCheck for TLC: one process service with two action-rate rules, *)
(* a cpu rule and an uptime rule.                                          *)
(***************************************************************************)
EXTENDS ProcessCheck, TLC

CONSTANTS p1

MCServices == {p1}

\* "if 1 restart within 2 cycles then alert" and
\* "if 2 restarts within 2 cycles then unmonitor"
MCRates == (p1 :> << [count |-> 1, cycle |-> 2, action |-> "alert"],
                     [count |-> 2, cycle |-> 2, action |-> "unmonitor"] >>)

\* "if cpu > 1% then alert" and "if uptime < 1 seconds then alert" (figures
\* in the units of the rules).  Any rule on a figure that is never skipped
\* posts in every cycle and would hide what the cpu rule leaves in s->error.
MCResources == << [id |-> "cpu_percent", op |-> "gt", limit |-> 1] >>
MCUptimes   == << [op |-> "lt", limit |-> 1] >>

\* A figure below, at or above the limits; -1 is a cpu figure not computed.
MCSamples == {-1, 0, 2}

=============================================================================
