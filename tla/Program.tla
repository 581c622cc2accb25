------------------------------- MODULE Program -------------------------------
(***************************************************************************)
(* The life cycle of the child of a program service across cycles:         *)
(* check_program() (src/validate.c) reaps the child of the previous cycle  *)
(* or defers while it runs, kills it once it has run longer than its       *)
(* timeout, evaluates its exit status against the status rules, and       *)
(* spawns the next child.                                                  *)
(*                                                                         *)
(* Time is kept relative to s->program->started: age is now - started,     *)
(* which is all the code compares.  It is capped at AgeCap, beyond which   *)
(* no comparison of the code distinguishes ages.  One cycle is one call of *)
(* check_program() followed by the rest of the cycle and the poll sleep,   *)
(* which advance the clock by 1..MaxStep seconds.  The child runs on its   *)
(* own and exits when it exits, possibly never.                            *)
(*                                                                         *)
(* check_program() runs only in the cycles where validate() gets to it:    *)
(* while the service is monitored and check_skip() lets it through, which  *)
(* for "every N cycles" is one cycle in N.  The user may unmonitor and     *)
(* monitor the service again between cycles; the child is left alone.      *)
(***************************************************************************)
EXTENDS Integers, Sequences, FiniteSets

CONSTANTS
  Timeout,      \* s->program->timeout
  MaxStep,      \* the most seconds one cycle takes
  ExitCodes,    \* the exit statuses a child can end with
  StatusList,   \* s->statuslist: a sequence of [op, value]
  SpawnCanFail, \* whether Command_execute() may fail
  EveryCycles   \* s->every.spec.cycle.number; 1 validates every cycle

ASSUME /\ Timeout \in Nat /\ MaxStep \in Nat \ {0}
       /\ ExitCodes \subseteq Nat /\ ExitCodes # {}
       /\ StatusList \in Seq([op : {"eq", "ne", "gt", "lt"}, value : Nat])
       /\ SpawnCanFail \in BOOLEAN
       /\ EveryCycles \in Nat \ {0}

\* The most seconds between two validations of a monitored service.
Period == EveryCycles * MaxStep

AgeCap == Timeout + Period + 1

VARIABLES
  pc,          \* "check": check_program() is next; "sleep": the rest of the cycle
  P,           \* s->program->P: "none" (NULL), "running", "exited"
  code,        \* the exit status of an exited child
  age,         \* now - s->program->started, capped at AgeCap
  exitStatus,  \* s->program->exitStatus
  monitored,   \* s->monitor is not MONITOR_NOT
  counter,     \* s->every.spec.cycle.counter
  \* history variables:
  posted,      \* the Status events of the last call: [rule, state]
  reaped,      \* the last call evaluated a child
  killedAge,   \* the age at which the last killed child was killed, -1 if none,
               \* and whether monitoring was off meanwhile
  paused       \* monitoring was off at some time since the last spawn

vars == <<pc, P, code, age, exitStatus, monitored, counter, posted, reaped,
          killedAge, paused>>

Init ==
  /\ pc = "check"
  /\ P = "none"
  /\ code \in ExitCodes
  /\ age = 0
  /\ exitStatus = 0
  /\ posted = {}
  /\ reaped = FALSE
  /\ killedAge = [age |-> -1, paused |-> FALSE]
  /\ monitored = TRUE
  /\ counter = 0
  /\ paused = FALSE

\* Util_evalQExpression(operator, exitStatus, return_value)
EvalQ(op, a, b) ==
  CASE op = "eq" -> a = b
    [] op = "ne" -> a # b
    [] op = "gt" -> a > b
    [] op = "lt" -> a < b

\* The Status events of the status rules for exit status c.
StatusEvents(c) ==
  {[rule |-> i, state |-> IF EvalQ(StatusList[i].op, c, StatusList[i].value)
                            THEN "failed" ELSE "succeeded"] : i \in DOMAIN StatusList}

\* Mutant: started is not refreshed when a child is spawned.
SpawnKeepStarted(evs) ==
  \/ /\ P' = "running"
     /\ UNCHANGED age
     /\ posted' = evs \cup {[rule |-> 0, state |-> "succeeded"]}
     /\ paused' = FALSE
  \/ /\ SpawnCanFail
     /\ P' = "none"
     /\ UNCHANGED age
     /\ posted' = evs \cup {[rule |-> 0, state |-> "failed"]}
     /\ UNCHANGED paused

\* "s->program->P = Command_execute(s->program->C)": on failure a Status
\* FAILED event for the exec action, on success SUCCEEDED and started = now.
Spawn(evs) ==
  \/ /\ P' = "running"
     /\ age' = 0
     /\ posted' = evs \cup {[rule |-> 0, state |-> "succeeded"]}
     /\ paused' = FALSE
  \/ /\ SpawnCanFail
     /\ P' = "none"
     /\ UNCHANGED age
     /\ posted' = evs \cup {[rule |-> 0, state |-> "failed"]}
     /\ UNCHANGED paused

\* The child has terminated with exit status c: save it, post the events of
\* the status rules, Process_free() the handle and spawn the next child.
Reap(c) ==
  /\ exitStatus' = c
  /\ reaped' = TRUE
  /\ Spawn(StatusEvents(c))

\* Mutant: the killed child is not waited for, so Process_exitStatus()
\* still reports -1, the status of a running child.
CheckProgramNoWait ==
  /\ CASE P = "none" ->
            /\ Spawn({})
            /\ UNCHANGED <<code, exitStatus, killedAge>>
            /\ reaped' = FALSE
       [] P = "running" /\ age > Timeout ->
            /\ Reap(-1) /\ UNCHANGED code
            /\ killedAge' = [age |-> age, paused |-> paused]
       [] P = "running" ->
            /\ posted' = {}
            /\ reaped' = FALSE
            /\ UNCHANGED <<P, code, age, exitStatus, killedAge, paused>>
       [] P = "exited" ->
            /\ Reap(code)
            /\ UNCHANGED <<code, killedAge>>

\* Mutant: a timed-out child is never killed; the check is always deferred.
CheckProgramNoKill ==
  /\ CASE P = "none" ->
            /\ Spawn({})
            /\ UNCHANGED <<code, exitStatus, killedAge>>
            /\ reaped' = FALSE
       [] P = "running" ->
            /\ posted' = {}
            /\ reaped' = FALSE
            /\ UNCHANGED <<P, code, age, exitStatus, killedAge, paused>>
       [] P = "exited" ->
            /\ Reap(code)
            /\ UNCHANGED <<code, killedAge>>

\* check_program(s).  A running child is killed once now - started exceeds
\* the timeout and Process_waitFor() returns its exit status; until then the
\* call returns at once.
CheckProgram ==
  /\ CASE P = "none" ->
            /\ Spawn({})
            /\ UNCHANGED <<code, exitStatus, killedAge>>
            /\ reaped' = FALSE
       [] P = "running" /\ age > Timeout ->
            /\ \E c \in ExitCodes : Reap(c) /\ code' = c
            /\ killedAge' = [age |-> age, paused |-> paused]
       [] P = "running" ->
            /\ posted' = {}
            /\ reaped' = FALSE
            /\ UNCHANGED <<P, code, age, exitStatus, killedAge, paused>>
       [] P = "exited" ->
            /\ Reap(code)
            /\ UNCHANGED <<code, killedAge>>

\* Mutant: the skip counter is compared before it is incremented
\* ("counter++ < number").
CheckSkipLate ==
  IF counter < EveryCycles
    THEN [skip |-> TRUE, counter |-> counter + 1]
    ELSE [skip |-> FALSE, counter |-> 0]

\* check_skip() for "every EveryCycles cycles" (a plain service has
\* EveryCycles = 1): whether this cycle is skipped, and the new counter.
CheckSkip ==
  IF counter + 1 < EveryCycles
    THEN [skip |-> TRUE, counter |-> counter + 1]
    ELSE [skip |-> FALSE, counter |-> 0]

(***************************************************************************)
(* validate() reaches the program service: a service that is not          *)
(* monitored, or that check_skip() skips, is not checked this cycle.       *)
(***************************************************************************)
Validate ==
  /\ pc = "check"
  /\ pc' = "sleep"
  /\ IF monitored /\ ~CheckSkip.skip
       THEN /\ counter' = CheckSkip.counter
            /\ CheckProgram
       ELSE /\ counter' = IF monitored THEN CheckSkip.counter ELSE counter
            /\ posted' = {} /\ reaped' = FALSE
            /\ UNCHANGED <<P, code, age, exitStatus, killedAge, paused>>
  /\ UNCHANGED monitored

\* The user unmonitors the service, or monitors it again.
Unmonitor ==
  /\ monitored /\ monitored' = FALSE
  /\ paused' = TRUE
  /\ UNCHANGED <<pc, P, code, age, exitStatus, counter, posted, reaped, killedAge>>

Monitor ==
  /\ ~monitored /\ monitored' = TRUE
  /\ UNCHANGED <<pc, P, code, age, exitStatus, counter, posted, reaped, killedAge, paused>>

\* The rest of the cycle and the poll interval.
Sleep ==
  /\ pc = "sleep"
  /\ pc' = "check"
  /\ \E d \in 1..MaxStep : age' = IF age + d > AgeCap THEN AgeCap ELSE age + d
  /\ UNCHANGED <<P, code, exitStatus, monitored, counter, posted, reaped, killedAge, paused>>

\* The child exits by itself.
ChildExit ==
  /\ P = "running"
  /\ P' = "exited"
  /\ \E c \in ExitCodes : code' = c
  /\ UNCHANGED <<pc, age, exitStatus, monitored, counter, posted, reaped, killedAge, paused>>

Next == Validate \/ Sleep \/ ChildExit \/ Unmonitor \/ Monitor

\* The daemon runs its cycles; the child need never exit, and the user
\* need never monitor the service again.
Spec == Init /\ [][Next]_vars /\ WF_vars(Validate) /\ WF_vars(Sleep)

(***************************************************************************)
(* Properties                                                              *)
(***************************************************************************)
TypeOK ==
  /\ pc \in {"check", "sleep"}
  /\ P \in {"none", "running", "exited"}
  /\ code \in ExitCodes /\ exitStatus \in {0} \cup ExitCodes
  /\ age \in 0..AgeCap
  /\ posted \subseteq [rule : {0} \cup DOMAIN StatusList, state : {"failed", "succeeded"}]
  /\ reaped \in BOOLEAN
  /\ killedAge \in [age : {-1} \cup 0..AgeCap, paused : BOOLEAN]
  /\ monitored \in BOOLEAN /\ counter \in 0..(EveryCycles - 1) /\ paused \in BOOLEAN

\* Spec 8, scenario 5: a child is killed only once it has run strictly
\* longer than s->program->timeout since the spawn that started it; and,
\* unless the service was unmonitored meanwhile, no later than one period
\* of "every N cycles" after that.
KilledAfterTimeout ==
  killedAge.age # -1 =>
    /\ killedAge.age > Timeout
    /\ ~killedAge.paused => killedAge.age <= Timeout + Period

\* Every child is eventually reaped and its exit status evaluated, even a
\* child that never exits by itself and a child of a service checked one
\* cycle in N, unless the service is left unmonitored.
ChildEventuallyReaped == (P # "none") ~> (reaped \/ ~monitored)

=============================================================================
