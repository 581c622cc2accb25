----------------------------- MODULE ActionQueue -----------------------------
(***************************************************************************)
(* What the scheduled-action mechanism of the daemon promises, stated      *)
(* without the driver: each service holds at most one pending control      *)
(* action; a control handler may queue one only while none is pending;    *)
(* the daemon takes a pending action off the queue when it starts to       *)
(* perform it, performs one action at a time, and each queued action once; *)
(* until the daemon is stopped, every pending action is eventually served. *)
(*                                                                         *)
(* Validate implements this specification: see ImplementsActionQueue      *)
(* there, which gives the refinement mapping.                              *)
(***************************************************************************)
CONSTANTS
  Services,  \* the configured services
  Requests,  \* the control actions a handler may queue
  Ignore     \* no action pending (ACTION_IGNORE)

VARIABLES
  pending,   \* the action queued on each service, Ignore if none
  serving,   \* the action the daemon is performing on each service, Ignore if none
  stopped    \* the daemon has been told to stop

avars == <<pending, serving, stopped>>

Idle == [s \in Services |-> Ignore]

Init ==
  /\ pending = Idle
  /\ serving = Idle
  /\ stopped = FALSE

\* A handler queues action a on s; it is refused while one is pending.
Request(s, a) ==
  /\ pending[s] = Ignore
  /\ pending' = [pending EXCEPT ![s] = a]
  /\ UNCHANGED <<serving, stopped>>

\* The daemon, doing one thing at a time, takes the pending action of s off
\* the queue and starts performing it.
Begin(s) ==
  /\ pending[s] # Ignore
  /\ serving = Idle
  /\ serving' = [serving EXCEPT ![s] = pending[s]]
  /\ pending' = [pending EXCEPT ![s] = Ignore]
  /\ UNCHANGED stopped

\* The action is done.
End(s) ==
  /\ serving[s] # Ignore
  /\ serving' = [serving EXCEPT ![s] = Ignore]
  /\ UNCHANGED <<pending, stopped>>

Stop ==
  /\ stopped' = TRUE
  /\ UNCHANGED <<pending, serving>>

Next ==
  \/ \E s \in Services, a \in Requests : Request(s, a)
  \/ \E s \in Services : Begin(s) \/ End(s)
  \/ Stop

\* A running daemon does not leave an action pending forever, and finishes
\* what it started.
Spec ==
  /\ Init /\ [][Next]_avars
  /\ \A s \in Services : WF_avars(~stopped /\ Begin(s)) /\ WF_avars(End(s))

=============================================================================
