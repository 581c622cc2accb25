------------------------------- MODULE Changes -------------------------------
(***************************************************************************)
(* A file, directory or fifo service: check_file(), check_directory() and *)
(* check_fifo() (src/validate.c) with the evaluators they call in one      *)
(* cycle, check_checksum(), check_perm(), check_uid(), check_gid(),        *)
(* check_size() and check_timestamp(), against a path whose object is      *)
(* modified, removed, or recreated as another type of object between and  *)
(* within cycles.  Contents, sizes and timestamps are small sets of        *)
(* values; the hash of a content is the content itself.  The             *)
(* constant-value tests compare under their operator; the age              *)
(* now - timestamp of the file is a value of Ages chosen by the clock.     *)
(*                                                                         *)
(* The validator stat()s the path first and the other tests read that     *)
(* snapshot, while check_checksum() reads the file itself later in the     *)
(* call; the file may be rewritten in between.  check_match() is the       *)
(* module ContentMatch.                                                    *)
(***************************************************************************)
EXTENDS Integers, Sequences, FiniteSets

CONSTANTS
  Values,          \* the contents, sizes and timestamps the file can have
  Ages,            \* the values now - timestamp can take
  ChecksumChanges, \* cs->test_changes
  ChecksumHash,    \* the expected hash of the configuration, NoHash if none
  NoHash,
  SizeList,        \* s->sizelist: a sequence of [changes, op, limit]
  TimestampList,   \* s->timestamplist: a sequence of [changes, op, limit]
  Kind,            \* the service type: "file", "directory" or "fifo"
  Types,           \* the types of object the path can name
  Modes,           \* the st_mode permission bits the object can have
  Owners, Groups,  \* the st_uid and st_gid it can have
  Perm, Uid, Gid,  \* s->perm->perm, s->uid->uid, s->gid->gid, or Null
  Null

Ops == {"eq", "ne", "gt", "lt"}
Rule == [changes : BOOLEAN, op : Ops, limit : Nat]

ASSUME /\ ChecksumChanges \in BOOLEAN
       /\ ChecksumHash \in Values \cup {NoHash}
       /\ ChecksumChanges => ChecksumHash = NoHash
       /\ SizeList \in Seq(Rule) /\ TimestampList \in Seq(Rule)
       /\ Kind \in {"file", "directory", "fifo"} /\ Types \subseteq {"reg", "dir", "fifo"}
       /\ Modes \subseteq Nat /\ Perm \in Nat \cup {Null}
       /\ Uid \in Owners \cup {Null} /\ Gid \in Groups \cup {Null}
       /\ Kind # "file" => SizeList = << >> /\ ChecksumHash = NoHash

\* The test of the validator: S_ISREG, S_ISDIR or S_ISFIFO.
KindType == CASE Kind = "file" -> "reg" [] Kind = "directory" -> "dir" [] OTHER -> "fifo"

VARIABLES
  content, size, stamp,  \* the file: its bytes, st_size, max(st_mtime, st_ctime)
  exists, type,          \* the path names an object, and its type
  mode, owner, group,    \* its permission bits, st_uid and st_gid
  pc,                    \* "stat": the validator is next; "check": it has stat()ed the path
  stSize,                \* s->inf->priv.file.st_size
  timestamp,             \* s->inf->timestamp
  stMode, stUid, stGid,  \* s->inf->st_mode, st_uid, st_gid
  csInit,                \* cs->initialized
  csHash,                \* cs->hash
  sizeInit,              \* sl->initialized of each size rule
  sizeExp,               \* sl->size of each size rule
  stampExp,              \* t->timestamp of each timestamp rule
  \* history variables:
  seen,     \* per test, the value it observed at its last evaluation, NoHash if none
  posted    \* the events of the last cycle: [test, rule, state, differs]

obj  == <<content, size, stamp, exists, type, mode, owner, group>>
snap == <<stSize, timestamp, stMode, stUid, stGid>>
vars == <<obj, pc, snap, csInit, csHash, sizeInit, sizeExp, stampExp, seen, posted>>

\* Util_evalQExpression(operator, left, right)
EvalQ(op, a, b) ==
  CASE op = "eq" -> a = b
    [] op = "ne" -> a # b
    [] op = "gt" -> a > b
    [] op = "lt" -> a < b

\* The configuration sets the expected hash (cs->initialized) when it has
\* one, the limit of a size rule, and the timestamp of a change rule to the
\* file's timestamp at start.
Init ==
  /\ content \in Values /\ size \in Values /\ stamp \in Values
  /\ exists = TRUE /\ type = KindType
  /\ mode \in Modes /\ owner \in Owners /\ group \in Groups
  /\ pc = "stat" /\ stSize = size /\ timestamp = stamp
  /\ stMode = mode /\ stUid = owner /\ stGid = group
  /\ csInit = (ChecksumHash # NoHash)
  /\ csHash = ChecksumHash
  /\ sizeInit = [i \in DOMAIN SizeList |-> FALSE]
  /\ sizeExp = [i \in DOMAIN SizeList |-> SizeList[i].limit]
  /\ stampExp = [i \in DOMAIN TimestampList |-> IF TimestampList[i].changes THEN stamp ELSE 0]
  /\ seen = [t \in {"checksum", "size", "timestamp"} |->
               IF t = "timestamp" THEN stamp ELSE NoHash]
  /\ posted = {}

Ev(test, rule, state, differs) ==
  [test |-> test, rule |-> rule, state |-> state, differs |-> differs]

\* The rules a loop with a "break" after the first change rule evaluates.
Evaluated(list) ==
  {i \in DOMAIN list : \A j \in 1..(i - 1) : ~list[j].changes}

\* The value observed differs from the value the test observed last.
Differs(test) ==
  LET v == CASE test = "checksum" -> content [] test = "size" -> stSize [] OTHER -> timestamp
  IN  seen[test] # NoHash /\ seen[test] # v

(***************************************************************************)
(* Each evaluator yields its new descriptor state and the events it posts. *)
(***************************************************************************)
\* Mutant: the expected hash is not reset after a change is reported.
ChecksumStepNoReset(ok) ==
  LET expected == IF csInit THEN csHash ELSE content
      changed  == expected # content
  IN  IF ~ok
        THEN [init |-> csInit, hash |-> csHash, evs |-> {Ev("data", 0, "failed", FALSE)}]
        ELSE [init |-> TRUE,
              hash |-> expected,
              evs  |-> {Ev("data", 0, "succeeded", FALSE),
                        Ev("checksum", 0,
                           CASE changed /\ ChecksumChanges -> "changed"
                             [] changed                    -> "failed"
                             [] ChecksumChanges            -> "changednot"
                             [] OTHER                      -> "succeeded",
                           Differs("checksum"))}]

\* Mutant: the hash buffer is copied into cs->hash even when the checksum
\* could not be computed, leaving it empty (0).
ChecksumStepCopyOnFailure(ok) ==
  LET expected == IF csInit THEN csHash ELSE content
      changed  == expected # content
  IN  IF ~ok
        THEN [init |-> TRUE, hash |-> 0, evs |-> {Ev("data", 0, "failed", FALSE)}]
        ELSE [init |-> TRUE,
              hash |-> IF changed /\ ChecksumChanges THEN content ELSE expected,
              evs  |-> {Ev("data", 0, "succeeded", FALSE),
                        Ev("checksum", 0,
                           CASE changed /\ ChecksumChanges -> "changed"
                             [] changed                    -> "failed"
                             [] ChecksumChanges            -> "changednot"
                             [] OTHER                      -> "succeeded",
                           Differs("checksum"))}]

\* check_checksum(); ok is the result of Util_getChecksum().
ChecksumStep(ok) ==
  LET expected == IF csInit THEN csHash ELSE content
      changed  == expected # content
  IN  IF ~ok
        THEN [init |-> csInit, hash |-> csHash, evs |-> {Ev("data", 0, "failed", FALSE)}]
        ELSE [init |-> TRUE,
              hash |-> IF changed /\ ChecksumChanges THEN content ELSE expected,
              evs  |-> {Ev("data", 0, "succeeded", FALSE),
                        Ev("checksum", 0,
                           CASE changed /\ ChecksumChanges -> "changed"
                             [] changed                    -> "failed"
                             [] ChecksumChanges            -> "changednot"
                             [] OTHER                      -> "succeeded",
                           Differs("checksum"))}]

\* check_size(): the rules up to the first change rule; a change rule is
\* initialised silently the first time.
SizeStep ==
  LET ev(i) == IF SizeList[i].changes
                 THEN IF ~sizeInit[i] THEN {}
                      ELSE {Ev("size", i, IF sizeExp[i] # stSize THEN "changed" ELSE "changednot",
                               Differs("size"))}
                 ELSE {Ev("size", i, IF EvalQ(SizeList[i].op, stSize, sizeExp[i])
                                       THEN "failed" ELSE "succeeded", FALSE)}
      chg(i) == i \in Evaluated(SizeList) /\ SizeList[i].changes
  IN  [init |-> [i \in DOMAIN SizeList |-> sizeInit[i] \/ chg(i)],
       exp  |-> [i \in DOMAIN SizeList |-> IF chg(i) THEN stSize ELSE sizeExp[i]],
       evs  |-> UNION {ev(i) : i \in Evaluated(SizeList)}]

\* check_timestamp(); ok is time() succeeding, age is now - timestamp.
TimestampStep(ok, age) ==
  LET ev(i) == IF TimestampList[i].changes
                 THEN Ev("timestamp", i, IF stampExp[i] # timestamp THEN "changed" ELSE "changednot",
                         Differs("timestamp"))
                 ELSE Ev("timestamp", i, IF EvalQ(TimestampList[i].op, age, TimestampList[i].limit)
                                         THEN "failed" ELSE "succeeded", FALSE)
      chg(i) == ok /\ i \in Evaluated(TimestampList) /\ TimestampList[i].changes
  IN  [exp |-> [i \in DOMAIN TimestampList |-> IF chg(i) THEN timestamp ELSE stampExp[i]],
       evs |-> IF ~ok THEN {Ev("data", 0, "failed", FALSE)}
               ELSE {Ev("data", 0, "succeeded", FALSE)} \cup {ev(i) : i \in Evaluated(TimestampList)}]

\* check_perm(), check_uid() and check_gid(), when configured.
AttrEvents ==
  (IF Perm = Null THEN {}
   ELSE {Ev("perm", 0, IF stMode % 4096 # Perm THEN "failed" ELSE "succeeded", FALSE)})
  \cup (IF Uid = Null THEN {}
        ELSE {Ev("uid", 0, IF stUid # Uid THEN "failed" ELSE "succeeded", FALSE)})
  \cup (IF Gid = Null THEN {}
        ELSE {Ev("gid", 0, IF stGid # Gid THEN "failed" ELSE "succeeded", FALSE)})

(***************************************************************************)
(* The stat() of the validator and its two fatal tests.  A path that      *)
(* cannot be stat()ed posts Nonexist FAILED and the cycle is over.         *)
(* Otherwise the snapshot is taken, the size only by check_file(), and    *)
(* Nonexist SUCCEEDED posted; an object of the wrong type then posts       *)
(* Invalid FAILED, which also ends the cycle, with the snapshot kept.      *)
(***************************************************************************)
Stat ==
  /\ pc = "stat"
  /\ IF ~exists
       THEN /\ posted' = {Ev("nonexist", 0, "failed", FALSE)}
            /\ UNCHANGED <<pc, snap>>
       ELSE /\ stSize' = IF Kind = "file" THEN size ELSE stSize
            /\ timestamp' = stamp
            /\ stMode' = mode /\ stUid' = owner /\ stGid' = group
            /\ posted' = {Ev("nonexist", 0, "succeeded", FALSE),
                          Ev("invalid", 0, IF type = KindType THEN "succeeded" ELSE "failed", FALSE)}
            /\ pc' = IF type = KindType THEN "check" ELSE "stat"
  /\ UNCHANGED <<obj, csInit, csHash, sizeInit, sizeExp, stampExp, seen>>

(***************************************************************************)
(* The rest of the validator: check_file() runs the checksum, permission, *)
(* uid, gid, size and timestamp tests in this order, check_directory()    *)
(* and check_fifo() the permission, uid, gid and timestamp tests.         *)
(***************************************************************************)
CheckFile ==
  /\ pc = "check" /\ pc' = "stat"
  /\ \E csOk \in IF Kind = "file" THEN BOOLEAN ELSE {FALSE}, timeOk \in BOOLEAN, age \in Ages :
    LET c  == IF Kind = "file" THEN ChecksumStep(csOk)
              ELSE [init |-> csInit, hash |-> csHash, evs |-> {}]
        z  == SizeStep
        t  == TimestampStep(timeOk, age)
        sizeSeen  == \E i \in Evaluated(SizeList) : SizeList[i].changes
        stampSeen == timeOk /\ \E i \in Evaluated(TimestampList) : TimestampList[i].changes
    IN  /\ csInit' = c.init /\ csHash' = c.hash
        /\ sizeInit' = z.init /\ sizeExp' = z.exp
        /\ stampExp' = t.exp
        /\ posted' = c.evs \cup AttrEvents \cup z.evs \cup t.evs
        /\ seen' = [seen EXCEPT !["checksum"] = IF csOk THEN content ELSE @,
                                !["size"] = IF sizeSeen THEN stSize ELSE @,
                                !["timestamp"] = IF stampSeen THEN timestamp ELSE @]
        /\ UNCHANGED <<obj, snap>>

\* The object is rewritten, truncated or touched, between two cycles or
\* while the validator runs.
Modify ==
  /\ exists
  /\ \E c, z, t \in Values :
       /\ <<c, z, t>> # <<content, size, stamp>>
       /\ content' = c /\ size' = z /\ stamp' = t
  /\ posted' = {}
  /\ UNCHANGED <<exists, type, mode, owner, group, pc, snap, csInit, csHash,
                 sizeInit, sizeExp, stampExp, seen>>

\* chmod() or chown() of the object.
Chmod ==
  /\ exists
  /\ \E m \in Modes, u \in Owners, g \in Groups :
       /\ <<m, u, g>> # <<mode, owner, group>>
       /\ mode' = m /\ owner' = u /\ group' = g
  /\ posted' = {}
  /\ UNCHANGED <<content, size, stamp, exists, type, pc, snap, csInit, csHash,
                 sizeInit, sizeExp, stampExp, seen>>

\* The object is removed, or an object of some type is created at the path,
\* keeping the bytes and attributes of the last one.
Remove ==
  /\ exists /\ exists' = FALSE
  /\ posted' = {}
  /\ UNCHANGED <<content, size, stamp, type, mode, owner, group, pc, snap,
                 csInit, csHash, sizeInit, sizeExp, stampExp, seen>>

Create ==
  /\ ~exists /\ exists' = TRUE
  /\ \E ty \in Types : type' = ty
  /\ posted' = {}
  /\ UNCHANGED <<content, size, stamp, mode, owner, group, pc, snap,
                 csInit, csHash, sizeInit, sizeExp, stampExp, seen>>

Next == Stat \/ CheckFile \/ Modify \/ Chmod \/ Remove \/ Create

Spec == Init /\ [][Next]_vars

(***************************************************************************)
(* Properties                                                              *)
(***************************************************************************)
TypeOK ==
  /\ content \in Values /\ size \in Values /\ stamp \in Values
  /\ exists \in BOOLEAN /\ type \in Types
  /\ mode \in Modes /\ owner \in Owners /\ group \in Groups
  /\ pc \in {"stat", "check"} /\ stSize \in Values /\ timestamp \in Values
  /\ stMode \in Modes /\ stUid \in Owners /\ stGid \in Groups
  /\ csInit \in BOOLEAN /\ csHash \in Values \cup {NoHash}
  /\ csInit => csHash \in Values
  /\ sizeInit \in [DOMAIN SizeList -> BOOLEAN]
  /\ sizeExp \in [DOMAIN SizeList -> Nat]
  /\ stampExp \in [DOMAIN TimestampList -> Nat]
  /\ seen \in [{"checksum", "size", "timestamp"} -> Values \cup {NoHash}]

\* Spec 8, scenario 3 and invariant 6: a change test posts CHANGED in a
\* cycle exactly when the value it observes differs from the one it
\* observed the last time it looked, whatever cycles in between failed to
\* compute the checksum or skipped the test, and although the checksum
\* reads the file later than the stat() the other tests read; the first
\* observation of a checksum or size is not a change.
ChangesReported ==
  \A e \in posted :
    e.state \in {"changed", "changednot"} => ((e.state = "changed") <=> e.differs)

=============================================================================
