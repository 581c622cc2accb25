------------------------------ MODULE Filesystem ------------------------------
(***************************************************************************)
(* A filesystem service across cycles: check_filesystem() (src/validate.c) *)
(* with check_filesystem_flags() and check_filesystem_resources(), against *)
(* a mount point that the administrator may remount with other flags and   *)
(* whose symbolic link target may disappear and reappear.                  *)
(*                                                                         *)
(* check_filesystem() is split in two steps at the system calls that race  *)
(* with the environment: Resolve is the lstat() and realpath() of the      *)
(* path, Examine the stat() of the target and everything after it.  The    *)
(* usage figures are the constants Usage; filesystem_usage() may fail, and *)
(* on success moves flags to _flags and reads the mount flags.             *)
(***************************************************************************)
EXTENDS EventSink, Integers, Sequences

LOCAL INSTANCE SequencesExt

CONSTANTS
  Flags,          \* the mount flag words the filesystem can have
  IsLink,         \* s->path is a symbolic link to the mount point
  UsageCanFail,   \* whether filesystem_usage() may fail
  Usage,          \* [blocks, blocksfree, blocksfreetotal, files, filesfree]
  FilesystemList  \* s->filesystemlist: a sequence of [resource, op, percent, absolute]

ASSUME /\ Flags \subseteq Nat /\ IsLink \in BOOLEAN /\ UsageCanFail \in BOOLEAN
       /\ Usage \in [{"blocks", "blocksfree", "blocksfreetotal", "files", "filesfree"} -> Nat]
       /\ FilesystemList \in Seq([resource : {"inode", "space"}, op : {"gt", "lt"},
                                  percent : Int, absolute : Int])

VARIABLES
  pc,         \* "idle", or "resolved": check_filesystem() is between realpath() and stat()
  target,     \* the mount point exists
  mounted,    \* the flags it is mounted with
  flags,      \* s->inf->priv.filesystem.flags, -1 before the first sample
  prevFlags,  \* s->inf->priv.filesystem._flags
  error,      \* s->error
  posted,     \* history: the events of the current or last call, in order
  seenTarget, \* history: the last lstat(), realpath() or stat() found the target
  reads       \* history: the flags the last two successful usage reads found

vars == <<pc, target, mounted, flags, prevFlags, error, posted, seenTarget, reads>>

Init ==
  /\ pc = "idle"
  /\ target = TRUE
  /\ mounted \in Flags
  /\ flags = -1 /\ prevFlags = -1
  /\ error = {}
  /\ posted = << >>
  /\ seenTarget = TRUE
  /\ reads = << >>

Ev(kind, state, rule) == [kind |-> kind, state |-> state, rule |-> rule]

\* Util_evalQExpression(operator, left, right)
EvalQ(op, a, b) == IF op = "gt" THEN a > b ELSE a < b

\* The per-mille figures check_filesystem() derives, with their guards.
InodePercent ==
  IF Usage.files > 0 THEN (1000 * (Usage.files - Usage.filesfree)) \div Usage.files ELSE 0
SpacePercent ==
  IF Usage.blocks > 0 THEN (1000 * (Usage.blocks - Usage.blocksfree)) \div Usage.blocks ELSE 0
InodeTotal == Usage.files - Usage.filesfree
SpaceTotal == Usage.blocks - Usage.blocksfreetotal

\* check_filesystem_resources(s, td) for rule i: a Resource event, or none
\* when no limit is set or the filesystem has no inodes.
CheckFilesystemResources(i) ==
  LET td    == FilesystemList[i]
      pct   == td.percent >= 0
      value == IF td.resource = "inode"
                 THEN IF pct THEN InodePercent ELSE InodeTotal
                 ELSE IF pct THEN SpacePercent ELSE SpaceTotal
  IN  IF td.percent < 0 /\ td.absolute < 0 THEN << >>
      ELSE IF td.resource = "inode" /\ Usage.files <= 0 THEN << >>
      ELSE <<Ev("Resource", IF EvalQ(td.op, value, IF pct THEN td.percent ELSE td.absolute)
                              THEN "failed" ELSE "succeeded", i)>>

ResourceEvents ==
  FoldLeft(LAMBDA acc, i : acc \o CheckFilesystemResources(i), << >>, [i \in DOMAIN FilesystemList |-> i])

\* Mutant: the "not initialized yet" early return is missing.
CheckFilesystemFlagsNoInit(prev, cur) ==
  IF prev = cur THEN << >> ELSE <<Ev("Fsflag", "changed", 0)>>

\* check_filesystem_flags(): nothing before the first sample, CHANGED when
\* the flags differ from the previous sample, and nothing otherwise.
CheckFilesystemFlags(prev, cur) ==
  IF prev = -1 \/ prev = cur THEN << >> ELSE <<Ev("Fsflag", "changed", 0)>>

\* History: the last two flag words read, after a read that found f.
KeepRead(f) == IF Len(reads) < 2 THEN Append(reads, f) ELSE <<reads[2], f>>

\* The end of a call: post the events and return to the driver.
Finish(evs) ==
  /\ posted' = evs
  /\ error' = PostAll(error, evs)
  /\ pc' = "idle"

(***************************************************************************)
(* check_filesystem(), up to realpath().  A path that is not a link goes   *)
(* straight on to the rest.                                                *)
(***************************************************************************)
Resolve ==
  /\ pc = "idle"
  /\ IsLink
  /\ IF target
       THEN /\ posted' = <<Ev("Nonexist", "succeeded", 0)>>
            /\ error' = PostAll(error, posted')
            /\ pc' = "resolved"
       ELSE Finish(<<Ev("Nonexist", "failed", 0)>>)
  /\ seenTarget' = target
  /\ UNCHANGED <<target, mounted, flags, prevFlags, reads>>

\* Mutant: the stat() failure of the link target returns without posting.
ExamineSilentStatFailure ==
  /\ pc = IF IsLink THEN "resolved" ELSE "idle"
  /\ LET head == IF IsLink THEN posted ELSE << >>
     IN  IF ~target
           THEN /\ Finish(head)
                /\ UNCHANGED <<flags, prevFlags, reads>>
           ELSE \E ok \in IF UsageCanFail THEN BOOLEAN ELSE {TRUE} :
                  IF ~ok
                    THEN /\ Finish(head \o <<Ev("Nonexist", "succeeded", 0), Ev("Data", "failed", 0)>>)
                         /\ UNCHANGED <<flags, prevFlags, reads>>
                    ELSE /\ Finish(head \o <<Ev("Nonexist", "succeeded", 0), Ev("Data", "succeeded", 0)>>
                                   \o CheckFilesystemFlags(flags, mounted) \o ResourceEvents)
                         /\ prevFlags' = flags /\ flags' = mounted
                         /\ reads' = KeepRead(mounted)
  /\ seenTarget' = target
  /\ UNCHANGED <<target, mounted>>

\* Mutant: the flags are moved to _flags after the new ones are read, so
\* the two are always equal.
ExamineFlagsAfterRefresh ==
  /\ pc = IF IsLink THEN "resolved" ELSE "idle"
  /\ LET head == IF IsLink THEN posted ELSE << >>
     IN  IF ~target
           THEN /\ Finish(head \o <<Ev("Nonexist", "failed", 0)>>)
                /\ UNCHANGED <<flags, prevFlags, reads>>
           ELSE \E ok \in IF UsageCanFail THEN BOOLEAN ELSE {TRUE} :
                  IF ~ok
                    THEN /\ Finish(head \o <<Ev("Nonexist", "succeeded", 0), Ev("Data", "failed", 0)>>)
                         /\ UNCHANGED <<flags, prevFlags, reads>>
                    ELSE /\ Finish(head \o <<Ev("Nonexist", "succeeded", 0), Ev("Data", "succeeded", 0)>>
                                   \o CheckFilesystemFlags(mounted, mounted) \o ResourceEvents)
                         /\ prevFlags' = mounted /\ flags' = mounted
                         /\ reads' = KeepRead(mounted)
  /\ seenTarget' = target
  /\ UNCHANGED <<target, mounted>>

(***************************************************************************)
(* The rest of check_filesystem(): stat() the target (lstat() the path     *)
(* when it is no link), read the usage, derive the figures, and run the    *)
(* flags and resource tests.                                               *)
(***************************************************************************)
Examine ==
  /\ pc = IF IsLink THEN "resolved" ELSE "idle"
  /\ LET head == IF IsLink THEN posted ELSE << >>
     IN  IF ~target
           THEN /\ Finish(head \o <<Ev("Nonexist", "failed", 0)>>)
                /\ UNCHANGED <<flags, prevFlags, reads>>
           ELSE \E ok \in IF UsageCanFail THEN BOOLEAN ELSE {TRUE} :
                  IF ~ok
                    THEN /\ Finish(head \o <<Ev("Nonexist", "succeeded", 0), Ev("Data", "failed", 0)>>)
                         /\ UNCHANGED <<flags, prevFlags, reads>>
                    ELSE /\ Finish(head \o <<Ev("Nonexist", "succeeded", 0), Ev("Data", "succeeded", 0)>>
                                   \o CheckFilesystemFlags(flags, mounted) \o ResourceEvents)
                         /\ prevFlags' = flags /\ flags' = mounted
                         /\ reads' = KeepRead(mounted)
  /\ seenTarget' = target
  /\ UNCHANGED <<target, mounted>>

(***************************************************************************)
(* The environment: the mount point disappears or comes back, and the      *)
(* filesystem is remounted with other flags.                               *)
(***************************************************************************)
Vanish ==
  /\ target' = ~target
  /\ UNCHANGED <<pc, mounted, flags, prevFlags, error, posted, seenTarget, reads>>

Remount ==
  /\ target
  /\ \E f \in Flags \ {mounted} : mounted' = f
  /\ UNCHANGED <<pc, target, flags, prevFlags, error, posted, seenTarget, reads>>

Next == Resolve \/ Examine \/ Vanish \/ Remount

\* A call of check_filesystem() that read the usage.
UsageRead == \E i \in DOMAIN posted' : posted'[i] = Ev("Data", "succeeded", 0)

\* The daemon keeps cycling; filesystem_usage() of an existing mount point
\* does not fail forever.
Spec ==
  /\ Init /\ [][Next]_vars
  /\ WF_vars(Resolve \/ Examine) /\ SF_vars(Examine /\ UsageRead)

(***************************************************************************)
(* Properties                                                              *)
(***************************************************************************)
TypeOK ==
  /\ pc \in {"idle", "resolved"} /\ target \in BOOLEAN
  /\ mounted \in Flags
  /\ flags \in {-1} \cup Flags /\ prevFlags \in {-1} \cup Flags
  /\ error \subseteq {"Nonexist", "Data", "Fsflag", "Resource"}
  /\ seenTarget \in BOOLEAN
  /\ reads \in Seq(Flags) /\ Len(reads) <= 2

\* A remount that changes the flags f of a sampled filesystem is eventually
\* reported by an Fsflag CHANGED event, however many cycles in between fail
\* to read its usage, unless it is undone (the filesystem is mounted with f
\* again) or the mount point disappears.
RemountReported ==
  \A f \in Flags :
    (flags = f /\ mounted # f) ~>
       \/ \E i \in DOMAIN posted : posted[i].kind = "Fsflag"
       \/ mounted = f \/ ~target

\* Spec 2 and 5.3: a call posts Fsflag CHANGED exactly when it read the
\* usage and the flags it found differ from those the previous successful
\* read found: never on the first read, never across failed reads or a
\* vanished mount point between two reads of the same flags, and never
\* missed when the flags did change between two reads.  It is judged
\* against the reads themselves, not against _flags.
FlagChangeJustified ==
  LET fsflag   == \E i \in DOMAIN posted : posted[i].kind = "Fsflag"
      readNow  == \E i \in DOMAIN posted : posted[i] = Ev("Data", "succeeded", 0)
  IN  fsflag <=> (readNow /\ Len(reads) = 2 /\ reads[1] # reads[2])

\* Spec 5: between calls, the Nonexist bit of s->error says whether the
\* last call found the mount point, although a link target that vanishes
\* between realpath() and stat() makes one call post Nonexist SUCCEEDED and
\* then FAILED.
NonexistTracksTarget ==
  pc = "idle" /\ posted # << >> => (("Nonexist" \in error) <=> ~seenTarget)

=============================================================================
