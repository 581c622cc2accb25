----------------------------- MODULE ProcessCheck -----------------------------
(***************************************************************************)
(* A process service across cycles: what validate() does to it in one     *)
(* cycle, check_timeout() and then check_process() (src/validate.c) with   *)
(* check_process_state(), check_process_pid(), check_process_ppid(),      *)
(* check_uptime() and check_process_resources(), against the process as    *)
(* the operating system runs it: it dies, is restarted under a new pid by  *)
(* a restart action, is reparented, or turns into a zombie.  s->error is   *)
(* the bitmap Event_post() keeps (EventSink).  The figures a sample        *)
(* yields (cpu, memory, uptime, ...) are chosen afresh in every cycle from *)
(* Samples; a cpu figure may be negative, as update_process_data() leaves  *)
(* it when it cannot compute one.                                          *)
(*                                                                         *)
(* Not modelled here: the port probes (Connection).                        *)
(***************************************************************************)
EXTENDS RateLimit, EventSink, Integers, FiniteSets

LOCAL INSTANCE SequencesExt

CONSTANTS
  MaxStarts,     \* no restart happens once s->nstart reaches it
  MaxPid,        \* the last pid the system hands out to the process
  Ppids,         \* the parents the process can have
  DoProcess,     \* Run.doprocess
  SampleCanFail, \* whether update_process_data() may fail
  ResourceList,  \* s->resourcelist: a sequence of [id, op, limit]
  UptimeList,    \* s->uptimelist: a sequence of [op, limit]
  Samples        \* the values a sampled figure can have

ASSUME /\ Cardinality(Services) = 1
       /\ MaxStarts \in Nat /\ MaxPid \in Nat \ {0} /\ Ppids \subseteq Nat \ {0}
       /\ DoProcess \in BOOLEAN /\ SampleCanFail \in BOOLEAN
       /\ Samples \subseteq Int

\* The resource ids of check_process_resources().  The cpu figures are
\* skipped while initialising or when negative; swap is read only for a
\* system service.
CpuIds    == {"cpu_percent", "total_cpu_percent", "cpuuser", "cpusystem", "cpuwait"}
SwapIds   == {"swap_percent", "swap_kbyte"}
OtherIds  == {"mem_percent", "mem_kbyte", "load1", "load5", "load15", "children",
              "total_mem_kbyte", "total_mem_percent"}

ASSUME /\ ResourceList \in Seq([id : CpuIds \cup SwapIds \cup OtherIds,
                                op : {"gt", "lt"}, limit : Int])
       /\ UptimeList \in Seq([op : {"gt", "lt"}, limit : Int])

S == CHOOSE s \in Services : TRUE

VARIABLES
  procPid,   \* the pid of the running process, 0 when it is not running
  procPpid,  \* its parent pid
  zombie,    \* PROCESS_ZOMBIE in its status flags
  lastPid,   \* the last pid the system handed out; pids increase
  pid, ppid, \* s->inf->priv.process.pid and .ppid, -1 before the first sample
  prevPid,   \* s->inf->priv.process._pid
  prevPpid,  \* s->inf->priv.process._ppid
  svc,       \* [monitor, nstart, ncycle, window] of the service (RateLimit)
  error,     \* s->error: the event kinds in failed state
  \* history variables:
  posted,    \* the events of the last cycle, in order
  restarted, \* the process was restarted since the last sample
  restartedAtSample, \* restarted, as it was when the last sample was taken
  lastFail,  \* the resource rules whose measured figure met the limit when
             \* the resource tests last ran
  sampledNow, \* the last cycle sampled the process
  samples    \* the samples taken so far, counted up to 2

vars == <<procPid, procPpid, zombie, lastPid, pid, ppid, prevPid, prevPpid, svc,
          error, posted, restarted, restartedAtSample, lastFail, sampledNow, samples>>

Ev(kind, state) == Event(S, kind, state, 0)

\* The daemon starts with the process running, no sample taken and the
\* service in MONITOR_INIT.
Init ==
  /\ procPid = 1 /\ lastPid = 1
  /\ procPpid \in Ppids
  /\ zombie = FALSE
  /\ pid = -1 /\ ppid = -1 /\ prevPid = -1 /\ prevPpid = -1
  /\ svc = [monitor |-> {"init"}, nstart |-> 0, ncycle |-> 0,
            window |-> [i \in 1..WindowLen(S) |-> 0]]
  /\ error = {}
  /\ posted = << >>
  /\ restarted = FALSE /\ restartedAtSample = FALSE
  /\ lastFail = {}
  /\ sampledNow = FALSE /\ samples = 0

(***************************************************************************)
(* The evaluators, each giving the events it posts.                        *)
(***************************************************************************)
\* check_process_state()
CheckProcessState(z) == <<Ev("Data", IF z THEN "failed" ELSE "succeeded")>>

\* check_process_pid() and check_process_ppid(): nothing before the first
\* sample, then CHANGED or CHANGEDNOT against the previous sample.
CheckProcessPid(prev, cur) ==
  IF prev = -1 THEN << >>
  ELSE <<Ev("Pid", IF prev # cur THEN "changed" ELSE "changednot")>>

CheckProcessPpid(prev, cur) ==
  IF prev = -1 THEN << >>
  ELSE <<Ev("PPid", IF prev # cur THEN "changed" ELSE "changednot")>>

\* Util_evalQExpression(operator, left, right)
EvalQ(op, a, b) == IF op = "gt" THEN a > b ELSE a < b

\* The figures one sample yields for the ids the rules read; only a cpu
\* figure can be negative.
UsedIds == {ResourceList[i].id : i \in DOMAIN ResourceList}
           \cup (IF UptimeList = << >> THEN {} ELSE {"uptime"})
Figures == {f \in [UsedIds -> Samples] : \A id \in UsedIds \ CpuIds : f[id] >= 0}

\* check_uptime(): one Uptime event per rule.
CheckUptime(fig) ==
  [j \in DOMAIN UptimeList |->
     Event(S, "Uptime", IF EvalQ(UptimeList[j].op, fig["uptime"], UptimeList[j].limit)
                          THEN "failed" ELSE "succeeded", j)]

\* A cpu test is skipped while the service is in MONITOR_INIT or while the
\* figure is negative; a swap test has no branch for a process service.
\* Either way okay stays TRUE.  A rule is hit when its figure was compared
\* and met the limit.
Skipped(init, fig, r) == r.id \in CpuIds /\ (init \/ fig[r.id] < 0)
Hit(init, fig, r) ==
  r.id \notin SwapIds /\ ~Skipped(init, fig, r) /\ EvalQ(r.op, fig[r.id], r.limit)

\* Mutant, the reading of spec 4.7 ("skip with debug only"): a skipped test
\* posts no event.
CheckProcessResourcesSkipSilent(init, fig, i) ==
  IF Skipped(init, fig, ResourceList[i]) THEN << >>
  ELSE <<Event(S, "Resource", IF Hit(init, fig, ResourceList[i]) THEN "failed"
                                ELSE "succeeded", i)>>

\* check_process_resources(s, r) for rule i: Resource FAILED when hit, and
\* Resource SUCCEEDED otherwise, a skipped test included.
CheckProcessResources(init, fig, i) ==
  <<Event(S, "Resource", IF Hit(init, fig, ResourceList[i]) THEN "failed"
                           ELSE "succeeded", i)>>

\* The loop of check_process() over s->resourcelist.
ResourceEvents(init, fig) ==
  FoldLeft(LAMBDA acc, i : acc \o CheckProcessResources(init, fig, i), << >>,
           [i \in DOMAIN ResourceList |-> i])

\* Mutant: the error bits are read as they were before check_timeout().
ClearErrorsStale(err) ==
  (IF "Exec" \in error THEN <<Ev("Exec", "succeeded")>> ELSE << >>)
  \o (IF "Timeout" \in error
        THEN [i \in DOMAIN ActionRates[S] |-> Event(S, "Timeout", "succeeded", i)]
        ELSE << >>)

\* The Exec and Timeout errors a running process clears, one Timeout event
\* per action-rate rule.
ClearErrors(err) ==
  (IF "Exec" \in err THEN <<Ev("Exec", "succeeded")>> ELSE << >>)
  \o (IF "Timeout" \in err
        THEN [i \in DOMAIN ActionRates[S] |-> Event(S, "Timeout", "succeeded", i)]
        ELSE << >>)

\* Mutant: the process is sampled even when it is not running, whose pid
\* is then 0.
CheckProcessSampleDead(err, sampled, init, fig) ==
  IF procPid = 0
    THEN [evs |-> <<Ev("Nonexist", "failed")>>, sample |-> DoProcess /\ sampled]
    ELSE LET head == <<Ev("Nonexist", "succeeded")>> \o ClearErrors(err)
         IN  IF DoProcess /\ sampled
               THEN [evs |-> head \o CheckProcessState(zombie)
                               \o CheckProcessPid(pid, procPid)
                               \o CheckProcessPpid(ppid, procPpid)
                               \o CheckUptime(fig) \o ResourceEvents(init, fig),
                     sample |-> TRUE]
               ELSE [evs |-> head, sample |-> FALSE]

\* Mutant: the sample is forgotten (pid and ppid back at -1) when a cycle
\* finds the process not running.
NoSampleForget ==
  /\ pid' = IF procPid = 0 THEN -1 ELSE pid
  /\ ppid' = IF procPid = 0 THEN -1 ELSE ppid
  /\ UNCHANGED <<prevPid, prevPpid, restarted, restartedAtSample, lastFail, samples>>

\* A cycle that takes no sample: the process is not running, sampling is
\* off or update_process_data() failed.  Only update_process_data() moves
\* pid to _pid, so the last sample is kept.
NoSample ==
  UNCHANGED <<pid, ppid, prevPid, prevPpid, restarted, restartedAtSample, lastFail, samples>>

(***************************************************************************)
(* check_process(s), given s->error as check_timeout() left it and the     *)
(* outcome of update_process_data() and the figures it read.  On success   *)
(* update_process_data() moves pid and ppid to _pid and _ppid and samples  *)
(* the process.                                                            *)
(***************************************************************************)
CheckProcess(err, sampled, init, fig) ==
  IF procPid = 0
    THEN [evs |-> <<Ev("Nonexist", "failed")>>, sample |-> FALSE]
    ELSE LET head == <<Ev("Nonexist", "succeeded")>> \o ClearErrors(err)
         IN  IF DoProcess /\ sampled
               THEN [evs |-> head \o CheckProcessState(zombie)
                               \o CheckProcessPid(pid, procPid)
                               \o CheckProcessPpid(ppid, procPpid)
                               \o CheckUptime(fig) \o ResourceEvents(init, fig),
                     sample |-> TRUE]
               ELSE [evs |-> head, sample |-> FALSE]

\* One cycle of validate() for the service: check_timeout(), then, if that
\* left it monitored, check_process(), after which MONITOR_INIT gives way
\* to MONITOR_YES.
Cycle ==
  /\ svc.monitor # {}
  /\ LET to == CheckTimeout(S, svc)
         tv == AsSeq(to.posts)
     IN  \E ok \in IF SampleCanFail THEN BOOLEAN ELSE {TRUE} :
         \* the figures matter only to a cycle that samples the process
         \E fig \in IF ok /\ procPid # 0 THEN Figures ELSE {CHOOSE f \in Figures : TRUE} :
           LET init == "init" \in to.svc.monitor
               cp   == CheckProcess(PostAll(error, tv), ok, init, fig)
               run  == to.svc.monitor # {}
               evs  == IF run THEN tv \o cp.evs ELSE tv
               smp  == run /\ cp.sample
           IN  /\ svc' = IF run THEN [to.svc EXCEPT !.monitor = {"yes"}] ELSE to.svc
               /\ posted' = evs
               /\ error' = PostAll(error, evs)
               /\ sampledNow' = smp
               /\ IF smp
                    THEN /\ samples' = IF samples < 2 THEN samples + 1 ELSE 2
                         /\ /\ prevPid' = pid /\ pid' = procPid
                         /\ prevPpid' = ppid /\ ppid' = procPpid
                         /\ restartedAtSample' = restarted
                         /\ restarted' = FALSE
                         /\ lastFail' = {i \in DOMAIN ResourceList :
                                           Hit(init, fig, ResourceList[i])}
                    ELSE NoSample
  /\ UNCHANGED <<procPid, procPpid, zombie, lastPid>>

(***************************************************************************)
(* The environment.  A restart (the action bound to an event, or the       *)
(* user's) stops the process and starts it under a new pid, or fails to    *)
(* start it, which the control code reports as an Exec error; either way   *)
(* it counts in s->nstart.  The process may die, be reparented or become a *)
(* zombie, and the user may enable monitoring again.                       *)
(***************************************************************************)
Restart ==
  /\ svc.monitor # {} /\ svc.nstart < MaxStarts
  /\ svc' = Started(svc)
  /\ restarted' = TRUE
  /\ \/ /\ lastPid < MaxPid
        /\ procPid' = lastPid + 1 /\ lastPid' = lastPid + 1
        /\ zombie' = FALSE
        /\ UNCHANGED error
     \/ /\ procPid' = 0
        /\ error' = error \cup {"Exec"}
        /\ UNCHANGED <<lastPid, zombie>>
  /\ posted' = << >> /\ sampledNow' = FALSE
  /\ UNCHANGED <<procPpid, pid, ppid, prevPid, prevPpid, restartedAtSample, lastFail, samples>>

Die ==
  /\ procPid # 0
  /\ procPid' = 0
  /\ posted' = << >> /\ sampledNow' = FALSE
  /\ UNCHANGED <<procPpid, zombie, lastPid, pid, ppid, prevPid, prevPpid, svc,
                 error, restarted, restartedAtSample, lastFail, samples>>

Reparent ==
  /\ procPid # 0
  /\ \E q \in Ppids \ {procPpid} : procPpid' = q
  /\ posted' = << >> /\ sampledNow' = FALSE
  /\ UNCHANGED <<procPid, zombie, lastPid, pid, ppid, prevPid, prevPpid, svc,
                 error, restarted, restartedAtSample, lastFail, samples>>

BecomeZombie ==
  /\ procPid # 0 /\ ~zombie
  /\ zombie' = TRUE
  /\ posted' = << >> /\ sampledNow' = FALSE
  /\ UNCHANGED <<procPid, procPpid, lastPid, pid, ppid, prevPid, prevPpid, svc,
                 error, restarted, restartedAtSample, lastFail, samples>>

Remonitor ==
  /\ svc.monitor = {}
  /\ svc' = [svc EXCEPT !.monitor = {"init"}]
  /\ posted' = << >> /\ sampledNow' = FALSE
  /\ UNCHANGED <<procPid, procPpid, zombie, lastPid, pid, ppid, prevPid, prevPpid,
                 error, restarted, restartedAtSample, lastFail, samples>>

Next == Cycle \/ Restart \/ Die \/ Reparent \/ BecomeZombie \/ Remonitor

Spec == Init /\ [][Next]_vars /\ WF_vars(Cycle)

(***************************************************************************)
(* Properties                                                              *)
(***************************************************************************)
Kinds == {"Nonexist", "Exec", "Timeout", "Data", "Pid", "PPid", "Uptime", "Resource"}

TypeOK ==
  /\ procPid \in 0..lastPid /\ lastPid \in 1..MaxPid
  /\ procPpid \in Ppids /\ zombie \in BOOLEAN
  /\ pid \in {-1} \cup 1..lastPid /\ prevPid \in {-1} \cup 1..lastPid
  /\ ppid \in {-1} \cup Ppids /\ prevPpid \in {-1} \cup Ppids
  /\ svc.monitor \in {{}, {"init"}, {"yes"}} /\ svc.nstart \in 0..MaxStarts
  /\ error \subseteq Kinds
  /\ restarted \in BOOLEAN /\ restartedAtSample \in BOOLEAN
  /\ lastFail \subseteq DOMAIN ResourceList
  /\ sampledNow \in BOOLEAN /\ samples \in 0..2

\* Spec 4.5 and 5.3: every cycle that samples the process, after the first
\* sample, posts exactly one Pid event, and it is CHANGED exactly when the
\* process was restarted since the previous sample, whatever cycles in
\* between found it dead, failed to sample it or were skipped by an
\* unmonitoring quench; the first sample posts none.  A restart is neither
\* invented nor lost.
PidChangesReported ==
  LET pidEvs == {i \in DOMAIN posted : posted[i].kind = "Pid"}
  IN  /\ \A i \in pidEvs : (posted[i].state = "changed") <=> restartedAtSample
      /\ sampledNow => Cardinality(pidEvs) = IF samples >= 2 THEN 1 ELSE 0

\* The comment of check_process(), "reset the exec and timeout errors if
\* active ... the process is running": a cycle that finds the process
\* running leaves neither Exec nor Timeout set in s->error, even a Timeout
\* that check_timeout() raised earlier in the same cycle.
RunningClearsStartErrors ==
  (\E i \in DOMAIN posted : posted[i] = Ev("Nonexist", "succeeded"))
    => "Exec" \notin error /\ "Timeout" \notin error

\* check_process_resources() posts Resource SUCCEEDED for a test it skips
\* (MONITOR_INIT, a negative cpu figure): a Resource failure on record in
\* s->error was measured when the resource tests last ran, never left over
\* from an earlier cycle whose figure could not be read again.
ResourceFailureMeasured == "Resource" \in error => lastFail # {}

=============================================================================
