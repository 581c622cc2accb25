------------------------------ MODULE RateLimit ------------------------------
(***************************************************************************)
(* The restart-rate quench of a service, check_timeout() in                *)
(* src/validate.c, on the per-service record [monitor, nstart, ncycle,     *)
(* window] of the modules that use it (Validate, ProcessCheck).  window is *)
(* a history of the starts counted in each of the last check_timeout()     *)
(* calls, newest last; it is not state of the program.                     *)
(***************************************************************************)
EXTENDS Naturals, Sequences

CONSTANTS
  Services,     \* the configured services (model values)
  ActionRates   \* s->actionratelist: a sequence of [count, cycle, action]

RateActions == {"alert", "unmonitor"}    \* actions bound to an action-rate rule

ASSUME ActionRates \in [Services -> Seq([count : Nat \ {0}, cycle : Nat \ {0},
                                         action : RateActions])]

RateCycles(s) == {ActionRates[s][i].cycle : i \in DOMAIN ActionRates[s]}

\* The restart history keeps one slot more than the longest rule's cycles.
WindowLen(s) ==
  1 + (IF RateCycles(s) = {} THEN 0
       ELSE CHOOSE m \in RateCycles(s) : \A c \in RateCycles(s) : m >= c)

Event(s, kind, state, rule) ==
  [service |-> s, kind |-> kind, state |-> state, rule |-> rule]

\* A start of the service: it is counted in s->nstart, and recorded in the
\* newest slot of the restart history.
Started(r) == [r EXCEPT !.nstart = @ + 1, !.window[Len(r.window)] = @ + 1]

(***************************************************************************)
(* check_timeout(s): count a cycle once the service has been started,     *)
(* post a failed Timeout event for every rule whose count of starts was    *)
(* reached within its cycles, and reset both counters once the longest     *)
(* rule's cycles are over.  Posting runs the rule's action at once: an     *)
(* unmonitor action disables monitoring.  Each call also shifts the        *)
(* restart history by one slot.                                            *)
(***************************************************************************)
\* Mutant of check_timeout(): the reset clears s->ncycle but not s->nstart.
CheckTimeoutKeepStarts(s, r) ==
  LET rules  == ActionRates[s]
      cycles == IF r.nstart > 0 THEN r.ncycle + 1 ELSE r.ncycle
      fired  == {i \in DOMAIN rules : r.nstart >= rules[i].count /\ cycles <= rules[i].cycle}
  IN  IF rules = << >> THEN [svc |-> r, posts |-> {}]
      ELSE [svc |-> [r EXCEPT !.ncycle = IF cycles > WindowLen(s) - 1 THEN 0 ELSE cycles,
                              !.monitor = IF \E i \in fired : rules[i].action = "unmonitor"
                                            THEN {} ELSE @,
                              !.window = Append(Tail(@), 0)],
            posts |-> {Event(s, "Timeout", "failed", i) : i \in fired}]

CheckTimeout(s, r) ==
  LET rules  == ActionRates[s]
      cycles == IF r.nstart > 0 THEN r.ncycle + 1 ELSE r.ncycle
      fired  == {i \in DOMAIN rules : r.nstart >= rules[i].count /\ cycles <= rules[i].cycle}
      max    == CHOOSE m \in RateCycles(s) : \A c \in RateCycles(s) : m >= c
      reset  == cycles > max
  IN  IF rules = << >>
        THEN [svc |-> r, posts |-> {}]
        ELSE [svc |-> [r EXCEPT
                         !.ncycle  = IF reset THEN 0 ELSE cycles,
                         !.nstart  = IF reset THEN 0 ELSE @,
                         !.monitor = IF \E i \in fired : rules[i].action = "unmonitor"
                                       THEN {} ELSE @,
                         !.window  = Append(Tail(@), 0)],
              posts |-> {Event(s, "Timeout", "failed", i) : i \in fired}]

=============================================================================
