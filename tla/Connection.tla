----------------------------- MODULE Connection -----------------------------
(***************************************************************************)
(* The port tests of a process or remote-host service: the ICMP loop of    *)
(* check_remote_host() and its gate on the last ping, the loop             *)
(* "for (p = s->portlist; p; p = p->next) check_connection(s, p)" of       *)
(* check_process() and check_remote_host(), and check_connection() with    *)
(* its retry loop (src/validate.c).  A process service has no ICMP rules.  *)
(*                                                                         *)
(* One attempt is one step: open the socket, the readiness check, the      *)
(* protocol check and the code at the "error:" label, which either jumps   *)
(* back to "retry:" or posts the Connection event.  What the network does  *)
(* is a nondeterministic outcome of each attempt.  The response time       *)
(* t2 - t1 is abstracted to a small set of non-negative values.            *)
(***************************************************************************)
EXTENDS Naturals, Integers, Sequences, FiniteSets

CONSTANTS
  Ports,        \* s->portlist: a sequence of distinct ports
  Retry,        \* p->retry
  SockType,     \* socket_get_type(): "stream" or "dgram"
  DefaultCheck, \* p->protocol->check == check_default
  Elapsed,      \* the response times t2 - t1 an attempt may measure
  IcmpRules     \* the number of echo rules in s->icmplist

PortSet == {Ports[i] : i \in DOMAIN Ports}

ASSUME /\ Len(Ports) >= 1
       /\ Cardinality(PortSet) = Len(Ports)
       /\ Retry \in [PortSet -> Nat]
       /\ SockType \in [PortSet -> {"stream", "dgram"}]
       /\ DefaultCheck \in [PortSet -> BOOLEAN]
       /\ Elapsed \subseteq Nat
       /\ IcmpRules \in Nat

Icmps == 1..IcmpRules

\* What icmp_echo() returns: a response time, -1 (no answer) or -2 (no
\* permission to open a raw socket).
Echoes == {-2, -1} \cup Elapsed

VARIABLES
  pc,          \* "idle" between passes, "call" entering check_connection(), "attempt"
  cur,         \* index in Ports of the port under test
  retryCount,  \* retry_count
  rv,          \* rv
  report,      \* the failure recorded in report[]: "none", "open", "ready", "protocol"
  response,    \* p->response
  available,   \* p->is_available
  icmpAvailable, \* icmp->is_available of each ICMP rule
  icmpEvents,  \* the Icmp event each rule posted in the current pass
  \* history variables:
  events,      \* the Connection events posted in the current pass, in order
  pings,       \* what icmp_echo() returned to each rule in the current pass
  tries,       \* attempts made by the current call
  firstOk,     \* the first attempt of the current call passed the protocol check
  someOk       \* some attempt of the current call passed the protocol check

vars == <<pc, cur, retryCount, rv, report, response, available, icmpAvailable,
          icmpEvents, events, pings, tries, firstOk, someOk>>

Init ==
  /\ pc = "idle"
  /\ cur = 1
  /\ retryCount = 0
  /\ rv = TRUE
  /\ report = "none"
  /\ response \in [PortSet -> {-1} \cup Elapsed]
  /\ available \in [PortSet -> BOOLEAN]
  /\ icmpAvailable \in [Icmps -> BOOLEAN]
  /\ events = << >>
  /\ pings = << >>
  /\ icmpEvents = << >>
  /\ tries = 0
  /\ firstOk = FALSE
  /\ someOk = FALSE

\* Mutant: a ping without permission (-2) leaves the rule unavailable.
PingAvailableNoPerm(e) == e >= 0

\* icmp->is_available after the ping of an echo rule returned e.
PingAvailable(e) == e # -1

\* The Icmp event the branch for e posts: none for -2, FAILED for -1,
\* SUCCEEDED for a response time.
IcmpEvent(e) == CASE e = -2 -> "none"
                  [] e = -1 -> "failed"
                  [] OTHER  -> "succeeded"

(***************************************************************************)
(* The validator reaches its tests: check_remote_host() pings once per     *)
(* ICMP rule, posting Icmp FAILED or SUCCEEDED (nothing for -2), and runs  *)
(* the port tests unless the last ping left its rule unavailable.  Port    *)
(* tests of a process service start at once.                               *)
(***************************************************************************)
StartPass ==
  /\ pc = "idle"
  /\ \E echo \in [Icmps -> Echoes] :
       /\ pings' = echo
       /\ icmpAvailable' = [i \in Icmps |-> PingAvailable(echo[i])]
       /\ icmpEvents' = [i \in Icmps |-> IcmpEvent(echo[i])]
       /\ pc' = IF IcmpRules > 0 /\ ~icmpAvailable'[IcmpRules] THEN "idle" ELSE "call"
  /\ cur' = 1
  /\ events' = << >>
  /\ UNCHANGED <<retryCount, rv, report, response, available, tries, firstOk, someOk>>

\* Mutant: rv keeps its value from the previous call, as a static would.
BeginKeepRv ==
  /\ pc = "call"
  /\ pc' = "attempt"
  /\ retryCount' = Retry[Ports[cur]]
  /\ report' = "none"
  /\ tries' = 0
  /\ firstOk' = FALSE
  /\ someOk' = FALSE
  /\ UNCHANGED <<rv, cur, response, available, icmpAvailable, icmpEvents, events, pings>>

\* Entry of check_connection(s, p): its locals are initialised.
Begin ==
  /\ pc = "call"
  /\ pc' = "attempt"
  /\ retryCount' = Retry[Ports[cur]]
  /\ rv' = TRUE
  /\ report' = "none"
  /\ tries' = 0
  /\ firstOk' = FALSE
  /\ someOk' = FALSE
  /\ UNCHANGED <<cur, response, available, icmpAvailable, icmpEvents, events, pings>>

(***************************************************************************)
(* What one attempt meets: no socket, a socket not ready for i/o, a failed *)
(* protocol test, or success.  The readiness check is skipped for a UDP    *)
(* socket with a protocol test of its own.                                 *)
(***************************************************************************)
Outcomes(p) ==
  {"open", "protocol", "ok"} \cup
    (IF SockType[p] # "dgram" \/ DefaultCheck[p] THEN {"ready"} ELSE {})

\* Mutant: the retry test reads "retry_count-- > 0".
AfterAttemptOffByOne(p, failed, why) ==
  LET post(state) == events' = Append(events, [port |-> p, state |-> state,
                                               report |-> why, tries |-> tries + 1,
                                               firstOk |-> firstOk', someOk |-> someOk'])
      last == cur = Len(Ports)
  IN  /\ retryCount' = IF failed THEN retryCount - 1 ELSE retryCount
      /\ IF failed /\ retryCount > 0
           THEN /\ pc' = "attempt"
                /\ UNCHANGED <<cur, available, events>>
           ELSE /\ pc' = IF last THEN "idle" ELSE "call"
                /\ cur' = IF last THEN cur ELSE cur + 1
                /\ IF failed
                     THEN /\ available' = [available EXCEPT ![p] = FALSE]
                          /\ post("failed")
                     ELSE /\ available' = [available EXCEPT ![p] = TRUE]
                          /\ post("succeeded")

\* The code at "error:": retry while "retry_count-- > 1", else post.
AfterAttempt(p, failed, why) ==
  LET post(state) == events' = Append(events, [port |-> p, state |-> state,
                                               report |-> why, tries |-> tries + 1,
                                               firstOk |-> firstOk', someOk |-> someOk'])
      last == cur = Len(Ports)
  IN  /\ retryCount' = IF failed THEN retryCount - 1 ELSE retryCount
      /\ IF failed /\ retryCount > 1
           THEN /\ pc' = "attempt"
                /\ UNCHANGED <<cur, available, events>>
           ELSE /\ pc' = IF last THEN "idle" ELSE "call"
                /\ cur' = IF last THEN cur ELSE cur + 1
                /\ IF failed
                     THEN /\ available' = [available EXCEPT ![p] = FALSE]
                          /\ post("failed")
                     ELSE /\ available' = [available EXCEPT ![p] = TRUE]
                          /\ post("succeeded")

Attempt ==
  /\ pc = "attempt"
  /\ UNCHANGED <<icmpAvailable, icmpEvents, pings>>
  /\ LET p == Ports[cur] IN
     \E o \in Outcomes(p) :
       /\ tries' = tries + 1
       /\ firstOk' = (firstOk \/ (tries = 0 /\ o = "ok"))
       /\ someOk' = (someOk \/ o = "ok")
       /\ IF o = "ok"
            THEN /\ UNCHANGED <<rv, report>>
                 /\ \E t \in Elapsed :
                      response' = [response EXCEPT ![p] =
                                     IF ~rv /\ retryCount <= 1 THEN -1 ELSE t]
                 /\ AfterAttempt(p, ~rv, report)
            ELSE /\ rv' = FALSE
                 /\ report' = o
                 /\ response' = IF retryCount > 1 THEN response
                                ELSE [response EXCEPT ![p] = -1]
                 /\ AfterAttempt(p, TRUE, o)

Next == StartPass \/ Begin \/ Attempt

Spec == Init /\ [][Next]_vars

(***************************************************************************)
(* Properties                                                              *)
(***************************************************************************)
MaxRetry == CHOOSE m \in {Retry[p] : p \in PortSet} : \A p \in PortSet : m >= Retry[p]

\* The attempts check_connection() makes on a port: p->retry, at least one.
Attempts(p) == IF Retry[p] > 1 THEN Retry[p] ELSE 1

\* The types of the variables, and check_connection() makes an attempt
\* only while "retry_count-- > 1" left it one of the port's attempts.
TypeOK ==
  /\ pc \in {"idle", "call", "attempt"}
  /\ cur \in 1..Len(Ports)
  /\ retryCount \in -1..MaxRetry   \* "retry_count-- > 1" leaves -1 when p->retry is 0
  /\ rv \in BOOLEAN
  /\ report \in {"none", "open", "ready", "protocol"}
  /\ response \in [PortSet -> {-1} \cup Elapsed]
  /\ available \in [PortSet -> BOOLEAN]
  /\ icmpAvailable \in [Icmps -> BOOLEAN]
  /\ icmpEvents \in [Icmps -> {"none", "failed", "succeeded"}] \/ icmpEvents = << >>
  /\ tries \in Nat /\ firstOk \in BOOLEAN /\ someOk \in BOOLEAN
  /\ pc = "attempt" => tries < Attempts(Ports[cur])   \* a retry is left

\* A port whose test failed was tried exactly p->retry times (once if
\* p->retry is 0 or 1), and its failure left p->response at -1 and
\* p->is_available FALSE.
FailureAfterAllAttempts ==
  \A i \in DOMAIN events :
    events[i].state = "failed" =>
      /\ events[i].tries = Attempts(events[i].port)
      /\ i = Len(events) => response[events[i].port] = -1
                            /\ ~available[events[i].port]

\* A port that answers the first attempt of a cycle is reported available,
\* whatever happened to it in earlier cycles.
FirstAnswerReported ==
  \A i \in DOMAIN events : events[i].firstOk => events[i].state = "succeeded"

\* Spec 7.2 and the comment at the gate of check_remote_host(): once the
\* host has been pinged, the port tests of a pass run exactly when the last
\* ICMP rule did not post Icmp FAILED.  An earlier rule's failure does not
\* stop them, and a ping the daemon had no permission to send (no event at
\* all) lets them run.
PortTestsFollowLastPing ==
  LET ran        == pc # "idle" \/ events # << >>
      lastFailed == icmpEvents[IcmpRules] = "failed"
  IN  icmpEvents # << >> => (ran <=> ~lastFailed)

\* Spec 4.6 and scenario 4 of spec 8: a port that answers any attempt,
\* after earlier attempts failed, is reported available.
RetryAnswerReported ==
  \A i \in DOMAIN events : events[i].someOk => events[i].state = "succeeded"

=============================================================================
