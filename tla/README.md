# TLA+ models of the monit validation engine

These modules model `src/src/validate.c`, the per-cycle validation engine of
the monit daemon. They are checked with TLC. Each module is translated from
the C source; `PROJECT.json` maps every definition to the lines it models.

## The system

The daemon thread calls `validate()` once per cycle. Other threads (the HTTP
server, the command-line client) and the event engine only reach this file
through `s->doaction` and `Run.doaction`, when they request an action on a
service, and through `Run.stopped`.

| Part | Functions | State it keeps across cycles |
|---|---|---|
| Cycle driver | `validate()`, `reset_depend()` | `Run.doaction`, `s->monitor`, `s->visited` |
| Scheduler filters | `do_scheduled_action()`, `check_skip()`, `check_timeout()` | `s->doaction`, `every.spec.cycle.counter`, `s->nstart`, `s->ncycle` |
| Connection probe | `check_connection()` | `p->response`, `p->is_available` |
| Content match | `check_file()` (stat), `check_match()`, `check_pattern()` | `st_ino`, `st_ino_prev`, `st_size`, `readpos`, `ml->log` |
| Program life cycle | `check_program()` | `program->P`, `started`, `exitStatus` |
| File, directory, fifo | `check_file()`, `check_directory()`, `check_fifo()`: existence and type, `check_perm/uid/gid()`, `check_checksum()`, `check_size()`, `check_timestamp()` | `cs->hash`, `cs->initialized`, `sl->size`, `sl->initialized`, `t->timestamp` |
| Process / filesystem | `check_process*` (state, pid, ppid, uptime, resources), `check_filesystem*` | previous pid/ppid, `s->monitor` (MONITOR_INIT), previous flags |
| Remote host | `check_remote_host()` (ICMP, then the ports) | `icmp->is_available` |
| Stateless tests | `check_system()`; the perm/uid/gid tests of `check_filesystem()` | none |

How the parts interact:

1. `validate()` runs the quick loop of `do_scheduled_action()` when an action
   is pending.
2. For each service, while `Run.stopped` is not set, it calls
   `do_scheduled_action()`, then `check_skip()` and `check_timeout()`.
3. If the service is still monitored, it calls the validator of the service's
   kind, which calls the evaluators.
4. Every outcome is an `Event_post()`, which is outside this file.
5. A restart that an event triggers feeds back into `s->nstart` through
   `control_service()`.

The hard behaviours are these:

- A control request can race the daemon loop.
- The skip and restart-rate counters are modular.
- Connection attempts are retried.
- The log file that the content match follows is written and rotated by
  another process while the daemon reads it.
- A child program outlives the cycle that started it and may never exit.
- The change tests keep their expected value across cycles and across failed
  probes.

## Modules

| Module | Models | State (VARIABLES) | Actions |
|---|---|---|---|
| `Validate` | cycle driver and scheduler filters | `pc`, `idx` (loop position), `ctl` (control_service result), `monitor`, `doaction`, `visited`, `counter`, `nstart`, `ncycle`, `stopped`, `runDoaction`, `incron` (Time_incron of the cycle) | `StartCycle`, `Control`/`Clear` (do_scheduled_action split at control_service), `NoAction`, `EndCycle`, `Exit`; environment: `Request`, `Stop` |
| `Connection` | the ICMP loop of `check_remote_host()` and its gate, then `check_connection()` over a port list | `icmpAvailable`, `retryCount`, `rv`, `report`, `response`, `available`, `cur` | `StartPass` (the pings and the gate on the last one), `Begin` (locals initialised), `Attempt` (one attempt and the `error:` code) |
| `ContentMatch` | `stat()` of `check_file()` and `check_match()` | `path`/`content` (the file system), `stIno`, `stInoPrev`, `stSize`, `readpos`, `logs`, `fd` | `Stat`, `Open`, `OpenFails`, `ReadLine` (one turn of the read loop); writer: `Write`, `Rotate` |
| `Program` | `check_program()` across cycles, behind the driver's monitor test and `check_skip()` | `P`, `age` (now - started), `code`, `exitStatus`, `monitored`, `counter` (every-N counter) | `Validate` (the driver's step for the service, calling `CheckProgram`), `Sleep` (rest of the cycle), `ChildExit`; user: `Unmonitor`, `Monitor` |
| `Changes` | `check_file()`, `check_directory()`, `check_fifo()` (constant `Kind`) with `check_perm/uid/gid()`, `check_checksum()`, `check_size()`, `check_timestamp()` | `csInit`, `csHash`, `sizeInit`, `sizeExp`, `stampExp`, `pc`; the `stat()` snapshot `stSize`, `timestamp`, `stMode`, `stUid`, `stGid`; the path's `exists`, `type`, `mode`, `owner`, `group`, `content`, `size`, `stamp` | `Stat` (the `stat()`, with the Nonexist and Invalid early returns), `CheckFile` (the attribute and change tests); environment: `Modify`, `Chmod`, `Remove`, `Create` |
| `RateLimit` | `check_timeout()` and the start counting of `control_service()` | none (operators over a service record) | `CheckTimeout`, `Started`; extended by `Validate` and `ProcessCheck` |
| `EventSink` | the error bitmap `Event_post()` keeps (spec-modelled) | none | `PostOne`, `PostAll` (a sequence of events folded into `s->error`) |
| `ProcessCheck` | one process service: `check_timeout()` then `check_process()` with state, pid, ppid, uptime and resource tests | `pid`, `ppid`, `prevPid`, `prevPpid` (`_pid`, `_ppid`), `svc` (monitor with MONITOR_INIT, nstart, ncycle), `error`; the OS's `procPid`, `procPpid`, `zombie`, `lastPid` | `Cycle`; environment: `Restart`, `Die`, `Reparent`, `BecomeZombie`, `Remonitor` |
| `Filesystem` | `check_filesystem()` with `check_filesystem_flags()` and `check_filesystem_resources()` | `pc`, `flags`, `prevFlags` (`_flags`), `error`; the mount point's `target` and `mounted` flags | `Resolve` (lstat/realpath), `Examine` (stat and the rest); environment: `Vanish`, `Remount` |
| `ActionQueue` | abstract: what the pending-action mechanism promises | `pending`, `serving`, `stopped` | `Request`, `Begin`, `End`, `Stop` |

Each `MC*.tla` module gives the sequence- and record-valued constants of a
model. Each `.cfg` file gives the rest and names the properties.

Each module also keeps history variables. They record what the code's state
does not, and the properties need them:

- `posted` holds the events of the last step.
- `ran` records that a check ran (`Validate`).
- `window` holds the per-cycle start counts (`Validate`).
- `requested` holds the last request not yet served (`Validate`).
- `tries`, `firstOk` and `someOk` describe the attempts of the current call
  (`Connection`).
- `lineStart` and `ends` record where each line read began and ended
  (`ContentMatch`).
- `seen` holds the last value each change test observed (`Changes`).
- `pings` holds what `icmp_echo()` returned in the current pass, and
  `icmpEvents` the Icmp event each rule posted (`Connection`).
- `paused` and `killedAge` record whether monitoring was off since the last
  spawn, and the age at which a child was killed (`Program`).
- `seenTarget` records whether the last existence check found the mount
  point, and `reads` the flags the last two successful usage reads found
  (`Filesystem`). The Fsflag property is judged against `reads`, not
  against the code's `_flags`.
- `restarted` and `restartedAtSample` record whether the process was
  restarted since the previous sample; `sampledNow` and `samples` record
  whether the last cycle sampled the process and how many samples were taken,
  counted up to 2 (`ProcessCheck`).
- `lastFail` holds the resource rules whose comparison failed in the last
  cycle that sampled the process (`ProcessCheck`).

### Refinement

`ActionQueue` states what `s->doaction` promises without the driver. Each
service holds at most one pending action. A handler may queue one only when
none is pending. The daemon takes an action off the queue when it starts it
(`Begin`) and finishes it (`End`), one at a time. While the daemon runs,
every pending action is eventually served.

`Validate` implements it under this mapping:
- A service is being served while `pc` is at the `control_service()` step
  of the quick or main loop on it.
- Its pending action is `s->doaction`, except while it is being served.
- `serving` is the action `control_service()` is performing.

`ImplementsActionQueue == AQ!Spec` is checked as a PROPERTY of the driver
run. The two phases matter. With a single "serve" step, a `do_scheduled_action()`
that forgot to clear `s->doaction` would look like a fresh request and pass.
With two phases the mutant `ClearKeepAction` fails the refinement.

### Abstractions

- A message is a record or a model value; wording and logging are left out.
- `control_service()` is abstracted. A start or restart counts in `s->nstart`.
  A stop or unmonitor clears `s->monitor`. A start, stop or restart marks the
  service and its dependants visited.
- `s->check(s)` is abstracted to its effect on the driver: nothing, a restart,
  or unmonitoring. Each validator has its own module.
- The outcomes of socket, protocol, ICMP, checksum and process probes are
  nondeterministic.
- In `ContentMatch`, bytes come from `{"a","b",nl,nul}` and
  `MATCH_LINE_LENGTH` is 4. That is small enough to reach the full-buffer path
  (`length == L-1`) and the skip of an oversized line. A pattern is one byte,
  and `regexec`/`strstr` reduce to containment. A match log is its length.
- In `ProcessCheck`, only `update_process_data()` moves `pid` to `_pid`, as
  spec 4.5 lists it among the probes. `Util_isProcessRunning()` and the
  unmonitor path of `control_service()` are assumed to leave `pid` and
  `_pid` alone: a cycle that finds the process dead, fails to sample it, or
  is skipped while unmonitored keeps the last sample (`NoSample`). These
  functions are outside `src/`. If one of them reset `_pid` to -1, a restart
  would go unreported, and `PidChangesReported` fails under the mutant
  `NoSampleForget` that does so.
- In `Program`, time is `now - started`, capped above
  `timeout + EveryCycles * MaxStep`.
  Above that cap no comparison in the code tells two ages apart.

## Runs

| Run | cfg | Expect | Properties | What it shows |
|---|---|---|---|---|
| driver | MCValidate.cfg | pass | TypeOK, NoLostRequest, TimeoutJustified, EventuallyValidated, ImplementsActionQueue | See below |
| ports | MCConnection.cfg | pass | TypeOK, FailureAfterAllAttempts, FirstAnswerReported, PortTestsFollowLastPing | See below |
| ports_retry_answer | MCConnectionRetry.cfg | violation | RetryAnswerReported | Finding 1 |
| content_match | MCContentMatch.cfg | pass | TypeOK, LinesFromLineStart, ChangedIffMatched | See below |
| content_rotate | MCContentMatchRotate.cfg | pass | AllLinesRead | See below |
| content_rotate_race | MCContentMatchRace.cfg | violation | LinesFromLineStart | Finding 3 |
| content_nul | MCContentMatchNul.cfg | violation | AllLinesRead | Finding 4 |
| content_open_fail | MCContentMatchOpenFail.cfg | violation | AllLinesRead | Finding 5 |
| program | MCProgram.cfg | pass | TypeOK, KilledAfterTimeout, ChildEventuallyReaped | See below |
| changes | MCChanges.cfg | pass | TypeOK, ChangesReported | See below |
| process | MCProcessCheck.cfg | pass | TypeOK, PidChangesReported, RunningClearsStartErrors, ResourceFailureMeasured | See below |
| filesystem | MCFilesystem.cfg | pass | FlagChangeJustified, NonexistTracksTarget, RemountReported | See below |

What the passing runs show:

- **driver.** A request is never lost, even one that arrives while
  `control_service()` runs. Every Timeout event is backed by enough starts in
  its window. A monitored periodic service is validated again unless it is
  stopped, unmonitored, or has an action pending. The driver refines
  `ActionQueue`.
- **ports.** A failed port was tried `p->retry` times. A port that answers the
  first attempt is reported available, whatever happened in earlier passes.
  Behind two ICMP echo rules, the port tests of a pass run exactly when the
  last rule did not post Icmp FAILED. An earlier failed ping does not stop
  them. A ping refused for lack of permission (-2) posts no Icmp event and
  lets them run; the mutant that leaves such a rule unavailable
  (`PingAvailableNoPerm`) is caught.
- **content_match.** On an append-only log, every line matched starts at a
  line start. This holds for incomplete lines, oversized lines, NUL-free text
  and failing `fopen()`. Content CHANGED is posted exactly when a line of that
  call matched.
- **content_rotate.** With one rotation and a reliable `fopen()`, every
  complete line of the current file is eventually read.
- **program.** The program check runs behind the driver's monitor test and
  `every N cycles` skip. A child is killed only after more than `timeout`
  seconds. While monitoring stays on, it is killed at most one check period
  (`EveryCycles` cycles) late. A child that never exits is still reaped,
  unless the user unmonitors the service.
- **changes.** CHANGED is posted exactly when the observed value differs from
  the one observed last. This holds across checksum failures, the silent first
  size observation, and the `break` after the first change rule. The size and
  timestamp tests read the `stat()` taken at the start of the call, and the
  file may change between that `stat()` and the checksum, be chmod-ed,
  removed, or replaced by a directory: a missing path or a wrong type returns
  before any change test, and the expected values survive it.
- **process.** Every cycle that samples the process after its first sample
  posts exactly one Pid event (the first sample posts none), and it is
  CHANGED exactly when the process was restarted since the previous sample:
  a restart is neither invented nor lost. This holds
  across cycles that find it dead, fail to sample it, or are skipped because
  the rate rule unmonitored it. A cycle that finds the process running clears
  any Exec or Timeout error left by a failed start (two rate rules: alert at
  count 1, unmonitor at count 2). A Resource error is left in `s->error` only
  when some resource comparison of the last sampled cycle really failed: the
  cpu rule that is skipped in the first cycle after (re)monitoring
  (MONITOR_INIT) or on a negative cpu figure posts SUCCEEDED, never a stale
  failure.
- **filesystem.** A call posts Fsflag CHANGED exactly when it read the usage
  and the last two successful reads found different flags. This is judged
  against a history of the reads, so a `_flags` lost or corrupted by a
  failed read or a vanished mount point would be caught. After a full cycle, the Nonexist error is set
  exactly when that cycle did not find the mount point. A remount of a present mount point is
  eventually reported, even when usage reads fail on some cycles.

For every property of every passing run, `PROJECT.json` lists a mutant: a
plausible bug in the mapped code that TLC finds violating the property.

## Findings

1. **`check_connection()` keeps `rv` across retries** (`validate.c:594`). A
   port that fails an attempt and then answers the retry is reported as
   failed. Spec 4.6 and scenario 4 of spec 8 say it is available.
2. Withdrawn as a finding. `check_timeout()` uses a tumbling window
   (`validate.c:1327`), and the spec does not say which window is meant. It
   is kept as a hazard; `TimeoutJustified` checks the side the code
   promises.
3. **A rotation between `stat()` and `fopen()`** (`validate.c:1130`). The
   old inode and size decide `readpos`, so the new file is read from the old
   offset, in the middle of a line.
4. **A NUL byte stalls the content match forever** (`validate.c:1167`).
   `strlen()` stops at the NUL. A NUL at the start of a line gives length 0,
   which the comment says cannot happen; a later NUL makes the line look
   incomplete. Both jump to `final:` and leave `readpos` where it was, so no
   later line is ever read. TLC's trace takes the length-0 branch.
5. **A failed `fopen()` loses the inode change** (`validate.c:308`).
   `check_file()` moves `st_ino` into `st_ino_prev` on every `stat()`. If
   `check_match()` cannot open the file in the cycle that first sees a rotated
   inode, the next cycle keeps the stale `readpos`. The head of the new file is
   then never read.

### Observations not stated as properties

- **Timeout raised and cleared in one cycle** (`validate.c:200`).
  `ProcessCheck` reaches a cycle in which `check_timeout()` posts Timeout
  FAILED for an `alert` rate rule. `check_process()` then finds the bit set
  and posts Timeout SUCCEEDED for every rule, so `s->error` ends clear. Every
  such cycle sends a failure and a recovery. That the bitmap ends clear is
  checked by `RunningClearsStartErrors`; the pair of alerts is not stated as a
  property, since what the user is told belongs to `Event_post()`.
- **Link target vanishing between `realpath()` and `stat()`**
  (`validate.c:253`). `Filesystem` reaches a call that posts Nonexist
  SUCCEEDED and then Nonexist FAILED. `NonexistTracksTarget` checks that the
  bitmap ends right.
- **A skipped resource test posts SUCCEEDED** (`validate.c:723`). Spec 4.7
  says a cpu test without a usable figure is skipped with a debug message; the
  code posts Resource SUCCEEDED instead, which clears a Resource failure of
  the cycle before. `ResourceFailureMeasured` checks the consequence the code
  relies on: the bitmap never keeps a failure that no comparison measured.
- **Fsflag is never cleared** (`validate.c:1245`). No CHANGEDNOT is posted,
  so the Fsflag bit stays set after a remount.

## Bounds and why they suffice

**MCValidate**
- Two services: a cycle-skipping one (every 2 cycles) with one dependant, and
  a cron one. Requests are restart and unmonitor.
- `MaxStarts = 2`. One rate rule: 2 starts within 2 cycles, then unmonitor.
- These values reach the rate rule firing and its reset, the every-N counter
  wrapping, a dependant marked visited, and a request arriving between
  `control_service()` and the clearing of `s->doaction`.
- 664,258 distinct states.

**MCConnection**
- Ports: TCP with `retry 3`, UDP with `retry 2` and its own protocol check,
  and UDP with `retry 0` and the default check.
- `retry 0` makes one attempt, as `retry 1` does, and leaves `retry_count`
  at -1. With 2 and 3 this covers the one-attempt, one-retry and
  several-retry paths, and the skipped readiness test.
- Two ICMP rules with echo outcomes {-2 (no permission), -1 (failed), 0, 1}:
  a failure on either rule alone, and on both. `MCConnectionRetry` has no ICMP
  rule. 51,984 distinct states.

**MCContentMatch**
- `MATCH_LINE_LENGTH = 4` and files of up to 6 bytes (3 with rotation).
- This holds a whole line, an oversized line (4 or more bytes), an incomplete
  tail and an ignored line. With rotation, the new file can outgrow the old
  `readpos`.
- The rotation runs use two inodes and the alphabet `{a, nl}`.

**MCProgram**
- `timeout = 3`, cycles of 1 to 2 seconds, a check every 2 cycles, and exit
  codes {0, 1, 2}.
- Status rules `!= 0` and `= 2`.
- With `timeout = 3` a check can fall at age 3, not yet past the timeout, and
  the next one a full period (up to 4 seconds) later: the latest kill the
  code allows. The user may unmonitor and remonitor. 15,364 distinct states.

**MCProcessCheck**
- One process service with two rate rules: "1 restart within 2 cycles,
  alert" and "2 restarts within 2 cycles, then unmonitor".
- `MaxStarts = 2`, pids up to 3 (two restarts), parents {1, 7}.
- Sampling may fail.
- A cpu rule "cpu_percent > 1" and an uptime rule "uptime < 1", with
  figures from {-1, 0, 2} (-1 is the "not yet measured" cpu value). Only a cpu
  rule is used: a rule on a figure that is never skipped posts Resource in
  every sampled cycle and would hide what the cpu rule leaves in `s->error`.
- Reached: a restart whose sample is lost, the rule unmonitoring and
  remonitoring, a failed start (Exec), the first sample, the cpu test skipped
  under MONITOR_INIT and on -1, and a failing cpu test followed by a skipped
  one. 148,172 distinct states.

**MCFilesystem**
- A symbolic link with flags {1, 2}; `filesystem_usage()` may fail.
- Three resource rules: a percent rule per resource and an absolute one. The
  inode rule meets `files = 0` and is skipped.
- Reached: first sample, remount before or after a failed read, and the
  target vanishing at either step. 288 distinct states.

**MCChanges**
- Two values for each of content, size and timestamp.
- A size rule sits on each side of a change rule, and a timestamp rule sits
  before one.
- Kind file, paths of type reg or dir, modes {0644, 0666}, owners {0, 1},
  a perm rule 0644 and a uid rule 0.
- The file may change between the `stat()` and the tests, and may be
  chmod-ed, removed, or recreated as a directory. 220,032 distinct states.

## Fairness

- **Validate.** Weak fairness is assumed on the daemon's steps only. The thread
  loops over `validate()` for as long as it runs. Requests and the stop signal
  come from outside and are not fair.
- **Connection.** No fairness; it checks safety only.
- **ContentMatch.** Weak fairness on `Stat` and `ReadLine`, because the daemon
  keeps cycling. Strong fairness on `Open`: `fopen()` of an existing file does
  not fail forever, though it may fail on some cycles. The writer is not fair.
- **ProcessCheck.** Weak fairness on `Cycle`. The process and the user are
  not fair.
- **Filesystem.** Weak fairness on the daemon's steps. Strong fairness on a
  successful usage read: `filesystem_usage()` does not fail forever. The mount
  point may vanish and come back whenever it likes. `RemountReported`
  therefore excuses a vanished mount point: a target that disappears whenever
  the daemon looks can hide a remount forever.
- **Program.** Weak fairness on `Validate` (the daemon's step for the service)
  and on `Sleep` (the passage of time). The child need never exit, and the
  user (`Unmonitor`, `Monitor`) is not fair. `ChildEventuallyReaped` excuses
  an unmonitored service, whose child the code never reaps.

## Not modelled, and the plan

- **The perm/uid/gid calls of `check_filesystem()`.** Each is one comparison
  of the `stat()` already modelled, with no state across cycles. (The same
  calls of `check_file()`, `check_directory()` and `check_fifo()` are in
  `Changes`.)
- **Truncation in the content-match writer** (`validate.c:1143`). A
  copytruncate that regrows the file within a cycle exposes the same stale
  `readpos` mechanism as Finding 3, so it adds no new question.
- **Killing a child** (`validate.c:462`). `Process_kill()` and the wait are
  libmonit calls; the kill and the reap are taken as one step.
- **`check_system()`.** One comparison per resource rule over the host's
  figures, with nothing across cycles or threads for a model checker to
  explore.
- **Collaborators.** `Event_post()`, `control_service()`, the probes and the
  cron evaluator are outside this file and are abstracted as described above.
