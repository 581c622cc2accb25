---------------------------- MODULE ContentMatch ----------------------------
(***************************************************************************)
(* The content match of a file service: the stat() of check_file() that    *)
(* refreshes the inode and size, and check_match() (src/validate.c), which *)
(* reads the lines appended since s->inf->priv.file.readpos and posts one  *)
(* Content event per match descriptor.                                     *)
(*                                                                         *)
(* The file is a sequence of bytes over a small alphabet ("nl" is '\n',    *)
(* "nul" is '\0') and MATCH_LINE_LENGTH is a small constant, so that       *)
(* fgets() filling its buffer, the oversized-line path and strlen()        *)
(* stopping at a NUL are all reached.  The writer of the file (the         *)
(* application being monitored, and logrotate) runs concurrently with the  *)
(* daemon: it appends bytes and may rotate the file, after which the path  *)
(* names a new, empty inode.  A pattern is one byte; it matches a line     *)
(* that contains it.  A match log is abstracted to its length, 0 standing  *)
(* for the NULL log.                                                       *)
(***************************************************************************)
EXTENDS Naturals, Sequences, FiniteSets

CONSTANTS
  Chars,            \* the bytes the writer writes
  MatchLineLength,  \* MATCH_LINE_LENGTH
  MaxLen,           \* the writer stops once a file has this many bytes
  Inodes,           \* 1..n: the inodes the path names in turn, one per rotation
  ProcPath,         \* Str_startsWith(s->path, "/proc")
  MatchList,        \* s->matchlist: a sequence of [pat, not]
  IgnoreList,       \* s->matchignorelist: a sequence of [pat, not]
  OpenCanFail       \* whether fopen() of the existing file may fail (EMFILE, EACCES)

NL  == "nl"
NUL == "nul"
L   == MatchLineLength

ASSUME /\ Chars \subseteq {"a", "b", NL, NUL}
       /\ L \in Nat /\ L >= 3
       /\ MaxLen \in Nat
       /\ Inodes = 1..Cardinality(Inodes) /\ Inodes # {}
       /\ ProcPath \in BOOLEAN /\ OpenCanFail \in BOOLEAN
       /\ MatchList \in Seq([pat : {"a", "b"}, not : BOOLEAN])
       /\ IgnoreList \in Seq([pat : {"a", "b"}, not : BOOLEAN])

VARIABLES
  path,       \* the inode the path names
  content,    \* the bytes of every inode
  pc,         \* "idle", "open" (check_file() done, check_match() next), "read"
  fd,         \* the inode the FILE stream of check_match() reads, 0 when closed
  stIno,      \* s->inf->priv.file.st_ino
  stInoPrev,  \* s->inf->priv.file.st_ino_prev
  stSize,     \* s->inf->priv.file.st_size
  readpos,    \* s->inf->priv.file.readpos
  logs,       \* the length of ml->log for each match descriptor
  \* history variables:
  posted,     \* the Content events of the last call: [desc, state]
  matched,    \* the descriptors a line matched in the current call
  lineStart,  \* the last line processed began at a line start of its file
  ends        \* for each inode, the offsets at which the lines read from it ended

vars == <<path, content, pc, fd, stIno, stInoPrev, stSize, readpos, logs,
          posted, matched, lineStart, ends>>

Descs == DOMAIN MatchList

Init ==
  /\ path = 1
  /\ content = [i \in Inodes |-> << >>]
  /\ pc = "idle"
  /\ fd = 0
  /\ stIno = 0
  /\ stInoPrev = 0
  /\ stSize = 0
  /\ readpos = 0
  /\ logs = [d \in Descs |-> 0]
  /\ posted = {}
  /\ matched = {}
  /\ lineStart = TRUE
  /\ ends = [i \in Inodes |-> {}]

(***************************************************************************)
(* Helpers: the C library calls on the byte sequence.                      *)
(***************************************************************************)
SeqMin(a, b) == IF a < b THEN a ELSE b

\* The first '\n' among c[from..to], 0 if there is none.
FirstNL(c, from, to) ==
  LET js == {j \in from..to : c[j] = NL}
  IN  IF js = {} THEN 0 ELSE CHOOSE j \in js : \A k \in js : j <= k

\* fgets(line, L, file) at offset pos < Len(c): at most L - 1 bytes, up to
\* and including the first '\n'.
Fgets(c, pos) ==
  LET lim == SeqMin(Len(c), pos + L - 1)
      nl  == FirstNL(c, pos + 1, lim)
  IN  SubSeq(c, pos + 1, IF nl > 0 THEN nl ELSE lim)

\* strlen(): the bytes before the first NUL.
Strlen(buf) ==
  LET zs == {i \in DOMAIN buf : buf[i] = NUL}
  IN  IF zs = {} THEN Len(buf) ELSE (CHOOSE i \in zs : \A k \in zs : i <= k) - 1

\* "(check_pattern(ml, line) == 0) ^ (ml->not)"
Matches(ml, line) == (\E i \in DOMAIN line : line[i] = ml.pat) # ml.not

(***************************************************************************)
(* check_file(): stat() the path and record inode and size.                *)
(***************************************************************************)
Stat ==
  /\ pc = "idle"
  /\ stInoPrev' = IF stIno # 0 THEN stIno ELSE stInoPrev
  /\ stIno' = path
  /\ stSize' = Len(content[path])
  /\ pc' = "open"
  /\ matched' = {}
  /\ posted' = {}
  /\ UNCHANGED <<path, content, fd, readpos, logs, lineStart, ends>>

\* Mutant: the match logs are posted but not freed.
FinalKeepLog ==
  /\ posted' = {[desc |-> d, state |-> IF logs[d] > 0 THEN "changed" ELSE "changednot"]
                : d \in Descs}
  /\ logs' = logs
  /\ fd' = 0
  /\ pc' = "idle"

(***************************************************************************)
(* The code at "final:": close the file, post Content CHANGED for every    *)
(* descriptor with a log and free it, CHANGEDNOT for the others.           *)
(***************************************************************************)
Final ==
  /\ posted' = {[desc |-> d, state |-> IF logs[d] > 0 THEN "changed" ELSE "changednot"]
                : d \in Descs}
  /\ logs' = [d \in Descs |-> 0]
  /\ fd' = 0
  /\ pc' = "idle"

\* fopen() fails: the error is logged and no event is posted.
OpenFails ==
  /\ OpenCanFail
  /\ pc = "open"
  /\ pc' = "idle"
  /\ UNCHANGED <<path, content, fd, stIno, stInoPrev, stSize, readpos, logs,
                 posted, matched, lineStart, ends>>

\* Mutant: readpos is reset only when the file shrank.
OpenNoInodeCheck ==
  /\ pc = "open"
  /\ LET rp == IF ~ProcPath /\ readpos > stSize THEN 0
               ELSE IF ProcPath THEN 0 ELSE readpos
     IN  /\ readpos' = rp
         /\ IF ~ProcPath /\ rp = stSize
              THEN Final
              ELSE /\ fd' = path
                   /\ pc' = "read"
                   /\ UNCHANGED <<logs, posted>>
  /\ UNCHANGED <<path, content, stIno, stInoPrev, stSize, matched, lineStart, ends>>

\* fopen() and the choice of the read position.  When nothing was appended
\* it goes straight to "final:", so that earlier match errors are cleared.
Open ==
  /\ pc = "open"
  /\ LET rp == IF ~ProcPath /\ (stIno # stInoPrev \/ readpos > stSize) THEN 0
               ELSE IF ProcPath THEN 0 ELSE readpos
     IN  /\ readpos' = rp
         /\ IF ~ProcPath /\ rp = stSize
              THEN Final
              ELSE /\ fd' = path
                   /\ pc' = "read"
                   /\ UNCHANGED <<logs, posted>>
  /\ UNCHANGED <<path, content, stIno, stInoPrev, stSize, matched, lineStart, ends>>

\* Mutant: the log is appended to whatever its length.
ConsumeNoCap(c, pos, line, n) ==
  LET ignored == \E i \in DOMAIN IgnoreList : Matches(IgnoreList[i], line)
      hits    == IF ignored THEN {} ELSE {d \in Descs : Matches(MatchList[d], line)}
      Grow(k) == IF k + Len(line) + 1 >= L THEN k + Len(line) + 1 + 4 ELSE k + Len(line) + 1
  IN  /\ readpos' = pos + n
      /\ lineStart' = (pos = 0 \/ c[pos] = NL)
      /\ logs' = [d \in Descs |-> IF d \in hits THEN Grow(logs[d]) ELSE logs[d]]
      /\ matched' = matched \cup hits
      /\ ends' = [ends EXCEPT ![fd] = @ \cup {pos + n}]
      /\ UNCHANGED <<fd, pc, posted>>

(***************************************************************************)
(* A line read at offset pos of c and taking n bytes of the file is        *)
(* consumed: readpos advances, the ignore list is consulted first, and     *)
(* each matching descriptor appends "line\n" to its log while the log is   *)
(* shorter than L, then "...\n" once it reaches L.                         *)
(***************************************************************************)
Consume(c, pos, line, n) ==
  LET ignored == \E i \in DOMAIN IgnoreList : Matches(IgnoreList[i], line)
      hits    == IF ignored THEN {} ELSE {d \in Descs : Matches(MatchList[d], line)}
      Grow(k) == IF k + Len(line) + 1 >= L THEN k + Len(line) + 1 + 4 ELSE k + Len(line) + 1
  IN  /\ readpos' = pos + n
      /\ lineStart' = (pos = 0 \/ c[pos] = NL)
      /\ logs' = [d \in Descs |-> IF d \in hits /\ logs[d] < L THEN Grow(logs[d]) ELSE logs[d]]
      /\ matched' = matched \cup hits
      /\ ends' = [ends EXCEPT ![fd] = @ \cup {pos + n}]
      /\ UNCHANGED <<fd, pc, posted>>

\* Mutant: the skip loop of an oversized line does not count its '\n'.
ReadLineOversizeShort ==
  /\ pc = "read"
  /\ LET c   == content[fd]
         pos == readpos
         buf == Fgets(c, pos)
         len == Strlen(buf)
         rest == FirstNL(c, pos + L, Len(c))
     IN  CASE pos >= Len(c)                     -> Final /\ UNCHANGED <<readpos, matched, lineStart, ends>>
           [] len = 0                           -> Final /\ UNCHANGED <<readpos, matched, lineStart, ends>>
           [] buf[len] # NL /\ len < L - 1      -> Final /\ UNCHANGED <<readpos, matched, lineStart, ends>>
           [] buf[len] # NL /\ rest = 0         -> Final /\ UNCHANGED <<readpos, matched, lineStart, ends>>
           [] buf[len] # NL                     -> Consume(c, pos, buf, rest - pos - 1)
           [] OTHER                             -> Consume(c, pos, SubSeq(buf, 1, len - 1), len)
  /\ UNCHANGED <<path, content, stIno, stInoPrev, stSize>>

(***************************************************************************)
(* One turn of the read loop: fseek() to readpos, fgets() a line and       *)
(* decide on it: end of file, an empty string, an incomplete last line, an *)
(* oversized line whose rest is skipped up to its '\n', or a whole line.   *)
(***************************************************************************)
ReadLine ==
  /\ pc = "read"
  /\ LET c   == content[fd]
         pos == readpos
         buf == Fgets(c, pos)
         len == Strlen(buf)
         rest == FirstNL(c, pos + L, Len(c))
     IN  CASE pos >= Len(c)                     -> Final /\ UNCHANGED <<readpos, matched, lineStart, ends>>
           [] len = 0                           -> Final /\ UNCHANGED <<readpos, matched, lineStart, ends>>
           [] buf[len] # NL /\ len < L - 1      -> Final /\ UNCHANGED <<readpos, matched, lineStart, ends>>
           [] buf[len] # NL /\ rest = 0         -> Final /\ UNCHANGED <<readpos, matched, lineStart, ends>>
           [] buf[len] # NL                     -> Consume(c, pos, buf, rest - pos)
           [] OTHER                             -> Consume(c, pos, SubSeq(buf, 1, len - 1), len)
  /\ UNCHANGED <<path, content, stIno, stInoPrev, stSize>>

(***************************************************************************)
(* The writer: append a byte, or rotate the file.                          *)
(***************************************************************************)
Write(ch) ==
  /\ Len(content[path]) < MaxLen
  /\ content' = [content EXCEPT ![path] = Append(@, ch)]
  /\ UNCHANGED <<path, pc, fd, stIno, stInoPrev, stSize, readpos, logs, posted,
                 matched, lineStart, ends>>

Rotate ==
  /\ path + 1 \in Inodes
  /\ path' = path + 1
  /\ UNCHANGED <<content, pc, fd, stIno, stInoPrev, stSize, readpos, logs, posted,
                 matched, lineStart, ends>>

Monitor == Stat \/ Open \/ OpenFails \/ ReadLine

Writer == (\E ch \in Chars : Write(ch)) \/ Rotate

Next == Monitor \/ Writer

\* The daemon validates the file every cycle, and fopen() does not fail
\* forever (strong fairness: it may fail on cycles in between); the writer
\* writes when it writes.
Spec == Init /\ [][Next]_vars /\ WF_vars(Stat \/ ReadLine) /\ SF_vars(Open)

(***************************************************************************)
(* Properties                                                              *)
(***************************************************************************)
\* The offset of the last '\n' of c, 0 if it has none.
LastNL(c) == LET js == {j \in DOMAIN c : c[j] = NL}
             IN  IF js = {} THEN 0 ELSE CHOOSE j \in js : \A k \in js : j >= k

TypeOK ==
  /\ path \in Inodes
  /\ content \in [Inodes -> Seq(Chars)]
  /\ pc \in {"idle", "open", "read"}
  /\ fd \in {0} \cup Inodes
  /\ stIno \in {0} \cup Inodes /\ stInoPrev \in {0} \cup Inodes
  /\ stSize \in 0..MaxLen /\ readpos \in 0..MaxLen
  /\ logs \in [Descs -> 0..(2 * L + 4)]
  /\ posted \subseteq [desc : Descs, state : {"changed", "changednot"}]
  /\ matched \subseteq Descs
  /\ lineStart \in BOOLEAN
  /\ ends \in [Inodes -> SUBSET (1..MaxLen)]

\* The comment of check_match(): "The test compares only the lines
\* terminated with \n" and resumes "at the beginning of the incomplete
\* line": every line matched starts at the beginning of a line of the file
\* it was read from, whatever the writer appended around the reads.
LinesFromLineStart == lineStart

\* A call of check_match() posts Content CHANGED for a descriptor exactly
\* when a line read by that call matched it, and CHANGEDNOT otherwise: no
\* match log survives into the next cycle.
ChangedIffMatched ==
  pc = "idle" =>
    \A e \in posted : (e.state = "changed") <=> (e.desc \in matched)

\* Every complete line written to the file the path names is eventually
\* read by check_match(), unless the file is rotated away first: the '\n'
\* at offset k of inode i ends a line that a read of inode i consumed.
AllLinesRead ==
  \A i \in Inodes, k \in 1..MaxLen :
    (path = i /\ k \in DOMAIN content[i] /\ content[i][k] = NL)
      ~> (path # i \/ k \in ends[i])

=============================================================================
