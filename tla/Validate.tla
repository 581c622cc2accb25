------------------------------ MODULE Validate ------------------------------
(***************************************************************************)
(* The cycle driver of the validation engine, validate() in                *)
(* src/validate.c, with the scheduler filters it calls before a service's  *)
(* validator: do_scheduled_action(), check_skip() and check_timeout().     *)
(*                                                                         *)
(* The driver runs in the daemon thread.  Other threads (the HTTP and CLI  *)
(* control handlers) queue a control action on a service by writing        *)
(* s->doaction and raising Run.doaction, and a signal handler can raise    *)
(* Run.stopped; both run concurrently with the driver.  The driver is      *)
(* modelled one service at a time, and do_scheduled_action() in two steps  *)
(* split at the call of control_service(), which may block for seconds     *)
(* while a service starts or stops.                                        *)
(*                                                                         *)
(* The kind-specific validator s->check(s) is abstracted to what it does   *)
(* to the driver's state: it succeeds or fails, and an event it posts may  *)
(* restart the service (s->nstart grows) or unmonitor it.  The validators  *)
(* themselves are modelled in their own modules.                           *)
(***************************************************************************)
EXTENDS RateLimit, FiniteSets, Functions

CONSTANTS
  ServiceList,  \* servicelist: every service once, in list order
  Every,        \* s->every.type: "none", "cycle", "cron" or "notincron"
  EveryCycles,  \* s->every.spec.cycle.number, for Every[s] = "cycle"
  Dependants,   \* services control_service(s, ..) also acts on and marks visited
  Requests,     \* the control actions the HTTP and CLI handlers may request
  MaxStarts     \* no start or restart is requested once s->nstart reaches it

Controls == {"start", "stop", "restart", "monitor", "unmonitor"}
Ignore   == "ignore"                     \* ACTION_IGNORE

\* s->monitor is a bit set: MONITOR_NOT is the empty set.
MonitorFlags == {"yes", "init", "waiting"}

ASSUME /\ ServiceList \in Seq(Services)
       /\ Len(ServiceList) >= 1
       /\ \A s \in Services : \E i \in DOMAIN ServiceList : ServiceList[i] = s
       /\ Every \in [Services -> {"none", "cycle", "cron", "notincron"}]
       /\ EveryCycles \in [Services -> Nat \ {0}]
       /\ Dependants \in [Services -> SUBSET Services]
       /\ Requests \subseteq Controls
       /\ MaxStarts \in Nat

VARIABLES
  pc,         \* where validate() is: "idle", "quick", "quickClear", "main", "mainClear", "exited"
  idx,        \* position in servicelist of the loop in progress
  ctl,        \* the scheduled action handed to control_service() and its result
  incron,     \* Time_incron(s->every.spec.cron, now) for this cycle's now
  runDoaction,\* Run.doaction
  stopped,    \* Run.stopped
  monitor,    \* s->monitor
  doaction,   \* s->doaction
  visited,    \* s->visited
  counter,    \* s->every.spec.cycle.counter
  nstart,     \* s->nstart
  ncycle,     \* s->ncycle
  \* history variables, not state of the program:
  requested,  \* a control request not yet handed to control_service()
  window,     \* restarts between consecutive check_timeout() calls, newest last
  posted,     \* the events Event_post() received in the last step
  ran         \* <<s, step>> for check_timeout() and s->check() run in the last step

vars == <<pc, idx, ctl, incron, runDoaction, stopped, monitor, doaction, visited,
          counter, nstart, ncycle, requested, window, posted, ran>>

\* The services whose schedule does not depend on the clock.
Periodic == {s \in Services : Every[s] \in {"none", "cycle"}}

NoCtl == [action |-> Ignore, rv |-> FALSE]

(***************************************************************************)
(* The per-service state the filters read and write, as one record, so    *)
(* that the sequence do_scheduled_action; check_skip; check_timeout;       *)
(* check can be written as a composition of operators on it.               *)
(***************************************************************************)
Svc(s) == [monitor |-> monitor[s], counter |-> counter[s], nstart |-> nstart[s],
           ncycle |-> ncycle[s], visited |-> visited, window |-> window[s]]

Commit(s, r) ==
  /\ monitor' = [monitor EXCEPT ![s] = r.monitor]
  /\ counter' = [counter EXCEPT ![s] = r.counter]
  /\ nstart'  = [nstart EXCEPT ![s] = r.nstart]
  /\ ncycle'  = [ncycle EXCEPT ![s] = r.ncycle]
  /\ visited' = r.visited
  /\ window'  = [window EXCEPT ![s] = r.window]

(***************************************************************************)
(* control_service(name, action), the collaborator do_scheduled_action()   *)
(* calls (control.c, not part of the validation engine): a start or        *)
(* restart counts in s->nstart and re-enables monitoring, a stop or        *)
(* unmonitor disables it, and starting or stopping walks the dependency    *)
(* chain, marking the services it handled as visited.                      *)
(***************************************************************************)
ControlService(s, a, r) ==
  LET started == IF a \in {"start", "restart"} THEN Started(r) ELSE r
  IN  [started EXCEPT
         !.monitor = CASE a \in {"stop", "unmonitor"} -> {}
                       [] @ = {}                      -> {"init"}
                       [] OTHER                       -> @,
         !.visited = IF a \in {"start", "stop", "restart"}
                       THEN [t \in Services |-> @[t] \/ t \in Dependants[s] \cup {s}]
                       ELSE @]

\* Mutants of check_skip(): the incremented counter is never stored, and
\* the counter is not reset when the service is due.
CheckSkipNoCount(s, r) ==
  LET waiting == [r EXCEPT !.monitor = @ \cup {"waiting"}]
      next    == r.counter + 1
      Skip(x) == [skip |-> TRUE, svc |-> x]
      Go(x)   == [skip |-> FALSE, svc |-> [x EXCEPT !.monitor = @ \ {"waiting"}]]
  IN  CASE r.visited[s]                          -> Skip(r)
        [] Every[s] = "cycle" /\ next < EveryCycles[s] -> Skip(waiting)
        [] Every[s] = "cycle"                    -> Go([r EXCEPT !.counter = 0])
        [] Every[s] = "cron" /\ ~incron[s]       -> Skip(waiting)
        [] Every[s] = "notincron" /\ incron[s]   -> Skip(waiting)
        [] OTHER                                 -> Go(r)

CheckSkipNoReset(s, r) ==
  LET waiting == [r EXCEPT !.monitor = @ \cup {"waiting"}]
      next    == r.counter + 1
      Skip(x) == [skip |-> TRUE, svc |-> x]
      Go(x)   == [skip |-> FALSE, svc |-> [x EXCEPT !.monitor = @ \ {"waiting"}]]
  IN  CASE r.visited[s]                          -> Skip(r)
        [] Every[s] = "cycle" /\ next < EveryCycles[s]
                                                 -> Skip([waiting EXCEPT !.counter = next])
        [] Every[s] = "cycle"                    -> Go([r EXCEPT !.counter = next])
        [] Every[s] = "cron" /\ ~incron[s]       -> Skip(waiting)
        [] Every[s] = "notincron" /\ incron[s]   -> Skip(waiting)
        [] OTHER                                 -> Go(r)

(***************************************************************************)
(* check_skip(s, now): TRUE when the service is not to be validated in     *)
(* this cycle, with the counter and MONITOR_WAITING updates it makes.      *)
(***************************************************************************)
CheckSkip(s, r) ==
  LET waiting == [r EXCEPT !.monitor = @ \cup {"waiting"}]
      next    == r.counter + 1
      Skip(x) == [skip |-> TRUE, svc |-> x]
      Go(x)   == [skip |-> FALSE, svc |-> [x EXCEPT !.monitor = @ \ {"waiting"}]]
  IN  CASE r.visited[s]                          -> Skip(r)
        [] Every[s] = "cycle" /\ next < EveryCycles[s]
                                                 -> Skip([waiting EXCEPT !.counter = next])
        [] Every[s] = "cycle"                    -> Go([r EXCEPT !.counter = 0])
        [] Every[s] = "cron" /\ ~incron[s]       -> Skip(waiting)
        [] Every[s] = "notincron" /\ incron[s]   -> Skip(waiting)
        [] OTHER                                 -> Go(r)

(***************************************************************************)
(* s->check(s), abstracted: an event it posts may restart the service or   *)
(* unmonitor it.  validate() then sets MONITOR_YES unless monitoring was   *)
(* disabled, which clears MONITOR_INIT and MONITOR_WAITING.                *)
(***************************************************************************)
CheckEffects(r) ==
  {"none", "unmonitor"} \cup (IF r.nstart < MaxStarts THEN {"restart"} ELSE {})

Check(r, effect) ==
  LET after == CASE effect = "restart"   -> Started(r)
                 [] effect = "unmonitor" -> [r EXCEPT !.monitor = {}]
                 [] OTHER                -> r
  IN  IF after.monitor # {} THEN [after EXCEPT !.monitor = {"yes"}] ELSE after

(***************************************************************************)
(* The body of the main loop after do_scheduled_action(s) returned FALSE:  *)
(* "if (s->monitor && ! check_skip(s, now)) { check_timeout(s);            *)
(* if (s->monitor) { s->check(s); ... } }".  r is the service's state      *)
(* after do_scheduled_action(), posts the events that posted.              *)
(***************************************************************************)
ValidateService(s, r, posts) ==
  LET sk == CheckSkip(s, r)
      to == CheckTimeout(s, sk.svc)
  IN  CASE r.monitor = {} \/ sk.skip ->
             /\ Commit(s, IF r.monitor = {} THEN r ELSE sk.svc)
             /\ posted' = posts
             /\ ran' = {}
        [] to.svc.monitor = {} ->
             /\ Commit(s, to.svc)
             /\ posted' = posts \cup to.posts
             /\ ran' = {<<s, "check_timeout">>}
        [] OTHER ->
             /\ \E effect \in CheckEffects(to.svc) : Commit(s, Check(to.svc, effect))
             /\ posted' = posts \cup to.posts
             /\ ran' = {<<s, "check_timeout">>, <<s, "check">>}

(***************************************************************************)
(* The driver: validate(), one step per service of each loop.             *)
(***************************************************************************)
Init ==
  /\ pc = "idle"
  /\ idx = 1
  /\ ctl = NoCtl
  /\ incron = [s \in Services |-> FALSE]
  /\ runDoaction = FALSE
  /\ stopped = FALSE
  /\ monitor \in [Services -> {{}, {"init"}}]
  /\ doaction = [s \in Services |-> Ignore]
  /\ visited = [s \in Services |-> FALSE]
  /\ counter = [s \in Services |-> 0]
  /\ nstart = [s \in Services |-> 0]
  /\ ncycle = [s \in Services |-> 0]
  /\ requested = [s \in Services |-> Ignore]
  /\ window = [s \in Services |-> [i \in 1..WindowLen(s) |-> 0]]
  /\ posted = {}
  /\ ran = {}

SvcVars == <<monitor, counter, nstart, ncycle, visited, window>>

\* The prologue of validate(): flush queued events, refresh the system
\* snapshots, take the clock, and run the quick loop if an action is pending.
StartCycle ==
  /\ pc = "idle"
  /\ ~stopped
  /\ incron' \in {f \in [Services -> BOOLEAN] : \A s \in Periodic : ~f[s]}
  /\ runDoaction' = FALSE
  /\ pc' = IF runDoaction THEN "quick" ELSE "main"
  /\ idx' = 1
  /\ posted' = {}
  /\ ran' = {}
  /\ UNCHANGED <<ctl, stopped, doaction, requested>>
  /\ UNCHANGED SvcVars

\* Moving on to the next service; the quick loop is followed by the main loop.
Advance(L) ==
  IF L = "quick" /\ idx = Len(ServiceList)
    THEN pc' = "main" /\ idx' = 1
    ELSE pc' = L /\ idx' = idx + 1

ClearPc(L) == IF L = "quick" THEN "quickClear" ELSE "mainClear"

\* Mutant of do_scheduled_action(): s->doaction is cleared before
\* control_service() is called instead of after it.
ControlClearingFirst(L) ==
  /\ pc = L
  /\ idx <= Len(ServiceList)
  /\ L = "main" => ~stopped
  /\ LET s == ServiceList[idx] IN
       /\ doaction[s] # Ignore
       /\ \E rv \in BOOLEAN : ctl' = [action |-> doaction[s], rv |-> rv]
       /\ Commit(s, ControlService(s, doaction[s], Svc(s)))
       /\ requested' = [requested EXCEPT ![s] = Ignore]
       /\ doaction' = [doaction EXCEPT ![s] = Ignore]
  /\ pc' = ClearPc(L)
  /\ posted' = {}
  /\ ran' = {}
  /\ UNCHANGED <<idx, incron, runDoaction, stopped>>

\* do_scheduled_action(s), up to and including control_service().  The main
\* loop reaches it only while Run.stopped is not set.
Control(L) ==
  /\ pc = L
  /\ idx <= Len(ServiceList)
  /\ L = "main" => ~stopped
  /\ LET s == ServiceList[idx] IN
       /\ doaction[s] # Ignore
       /\ \E rv \in BOOLEAN : ctl' = [action |-> doaction[s], rv |-> rv]
       /\ Commit(s, ControlService(s, doaction[s], Svc(s)))
       /\ requested' = [requested EXCEPT ![s] = Ignore]
  /\ pc' = ClearPc(L)
  /\ posted' = {}
  /\ ran' = {}
  /\ UNCHANGED <<idx, incron, runDoaction, stopped, doaction>>

\* Mutant of do_scheduled_action(): s->doaction is not reset after the
\* Action event is posted.
ClearKeepAction(L) ==
  /\ pc = ClearPc(L)
  /\ LET s     == ServiceList[idx]
         posts == {Event(s, "Action", "changed", 0)}
     IN  /\ UNCHANGED doaction
         /\ IF L = "main" /\ ~ctl.rv
              THEN ValidateService(s, Svc(s), posts)
              ELSE posted' = posts /\ ran' = {} /\ UNCHANGED SvcVars
  /\ ctl' = NoCtl
  /\ Advance(L)
  /\ UNCHANGED <<incron, runDoaction, stopped, requested>>

\* The rest of do_scheduled_action(s): post the Action event, clear
\* s->doaction and free the token.  In the main loop the service is then
\* validated unless control_service() returned TRUE.
Clear(L) ==
  /\ pc = ClearPc(L)
  /\ LET s     == ServiceList[idx]
         posts == {Event(s, "Action", "changed", 0)}
     IN  /\ doaction' = [doaction EXCEPT ![s] = Ignore]
         /\ IF L = "main" /\ ~ctl.rv
              THEN ValidateService(s, Svc(s), posts)
              ELSE posted' = posts /\ ran' = {} /\ UNCHANGED SvcVars
  /\ ctl' = NoCtl
  /\ Advance(L)
  /\ UNCHANGED <<incron, runDoaction, stopped, requested>>

\* do_scheduled_action(s) with no action pending returns FALSE at once.
NoAction(L) ==
  /\ pc = L
  /\ idx <= Len(ServiceList)
  /\ L = "main" => ~stopped
  /\ LET s == ServiceList[idx] IN
       /\ doaction[s] = Ignore
       /\ IF L = "main"
            THEN ValidateService(s, Svc(s), {})
            ELSE posted' = {} /\ ran' = {} /\ UNCHANGED SvcVars
  /\ Advance(L)
  /\ UNCHANGED <<ctl, incron, runDoaction, stopped, doaction, requested>>

\* The main loop ends at the end of the list or once Run.stopped is set;
\* reset_depend() then clears every visited mark.
EndCycle ==
  /\ pc = "main"
  /\ idx > Len(ServiceList) \/ stopped
  /\ pc' = "idle"
  /\ visited' = [s \in Services |-> FALSE]
  /\ posted' = {}
  /\ ran' = {}
  /\ UNCHANGED <<idx, ctl, incron, runDoaction, stopped, monitor, doaction,
                 counter, nstart, ncycle, requested, window>>

\* The daemon leaves its loop once stopped; nothing runs after that.
Exit ==
  /\ pc = "idle"
  /\ stopped
  /\ pc' = "exited"
  /\ posted' = {}
  /\ ran' = {}
  /\ UNCHANGED <<idx, ctl, incron, runDoaction, stopped, doaction, requested>>
  /\ UNCHANGED SvcVars

Halted == pc = "exited" /\ UNCHANGED vars

(***************************************************************************)
(* The environment: a control request from the HTTP or CLI handler, which  *)
(* is refused while another action on the service is pending, and the      *)
(* stop signal.  A start or restart is only requested below MaxStarts.     *)
(***************************************************************************)
Request(s, a) ==
  /\ pc # "exited"
  /\ doaction[s] = Ignore
  /\ a \in {"start", "restart"} => nstart[s] < MaxStarts
  /\ doaction' = [doaction EXCEPT ![s] = a]
  /\ requested' = [requested EXCEPT ![s] = a]
  /\ runDoaction' = TRUE
  /\ posted' = {}
  /\ ran' = {}
  /\ UNCHANGED <<pc, idx, ctl, incron, stopped>>
  /\ UNCHANGED SvcVars

Stop ==
  /\ ~stopped
  /\ stopped' = TRUE
  /\ posted' = {}
  /\ ran' = {}
  /\ UNCHANGED <<pc, idx, ctl, incron, runDoaction, doaction, requested>>
  /\ UNCHANGED SvcVars

Loops == {"quick", "main"}

Driver ==
  \/ StartCycle
  \/ \E L \in Loops : Control(L) \/ Clear(L) \/ NoAction(L)
  \/ EndCycle
  \/ Exit

Environment ==
  \/ \E s \in Services, a \in Requests : Request(s, a)
  \/ Stop

Next == Driver \/ Environment \/ Halted

\* The daemon thread calls validate() once per cycle for as long as it runs;
\* the requests and the stop signal come when they come.
Spec == Init /\ [][Next]_vars /\ WF_vars(Driver)

(***************************************************************************)
(* Properties                                                              *)
(***************************************************************************)
TypeOK ==
  /\ pc \in {"idle", "quick", "quickClear", "main", "mainClear", "exited"}
  /\ idx \in 1..Len(ServiceList) + 1
  /\ ctl \in [action : Controls \cup {Ignore}, rv : BOOLEAN]
  /\ incron \in [Services -> BOOLEAN]
  /\ runDoaction \in BOOLEAN /\ stopped \in BOOLEAN
  /\ monitor \in [Services -> SUBSET MonitorFlags]
  /\ doaction \in [Services -> Controls \cup {Ignore}]
  /\ requested \in [Services -> Controls \cup {Ignore}]
  /\ visited \in [Services -> BOOLEAN]
  /\ \A s \in Services : counter[s] \in 0..(EveryCycles[s] - 1)
  /\ nstart \in [Services -> Nat] /\ ncycle \in [Services -> Nat]
  /\ \A s \in Services : window[s] \in [1..WindowLen(s) -> Nat]

\* A control request written by the HTTP or CLI thread while the daemon is
\* inside do_scheduled_action() for the same service is never lost: until
\* control_service() has been called with it, it is still in s->doaction.
NoLostRequest ==
  \A s \in Services : requested[s] # Ignore => doaction[s] = requested[s]

\* Starts of s recorded before the current check_timeout() call and after
\* the c calls before it (the history was shifted by the call).
StartsWithin(s, c) ==
  SumFunctionOnSet(window[s], (WindowLen(s) - c)..(WindowLen(s) - 1))

\* check_timeout() posts a Timeout for a rule (count, cycle) only when the
\* service really was started at least count times within the last cycle
\* validated cycles: s->nstart never carries starts from before the
\* window it is compared against.
TimeoutJustified ==
  \A e \in posted :
    e.kind = "Timeout" =>
      StartsWithin(e.service, ActionRates[e.service][e.rule].cycle)
        >= ActionRates[e.service][e.rule].count

\* A monitored service scheduled every cycle or every N cycles is validated
\* in some later cycle, unless something else intervenes first: monitoring
\* is disabled, a control action is queued, a dependency chain handles it,
\* or the daemon stops.

EventuallyValidated ==
  \A s \in Periodic :
    monitor[s] # {} ~>
      \/ <<s, "check">> \in ran
      \/ monitor[s] = {} \/ doaction[s] # Ignore \/ visited[s] \/ stopped


(***************************************************************************)
(* Refinement: the driver implements the abstract action queue.  From the  *)
(* call of control_service() to the reset of s->doaction the action is     *)
(* being served: it is off the queue although s->doaction still holds it,  *)
(* and a handler cannot queue a new one because s->doaction is not yet     *)
(* ACTION_IGNORE.                                                          *)
(***************************************************************************)
Serving(s) == pc \in {"quickClear", "mainClear"} /\ ServiceList[idx] = s

PendingOf == [s \in Services |-> IF Serving(s) THEN Ignore ELSE doaction[s]]

ServingOf == [s \in Services |-> IF Serving(s) THEN ctl.action ELSE Ignore]

AQ == INSTANCE ActionQueue
        WITH pending <- PendingOf, serving <- ServingOf, stopped <- stopped

\* validate() serves every queued control action exactly once, one at a
\* time, without losing one a handler queues meanwhile, and eventually
\* unless Run.stopped is set: a quick loop or the next main loop reaches
\* the service.
ImplementsActionQueue == AQ!Spec

=============================================================================
