---------------------------- MODULE MCFilesystem ----------------------------
(***************************************************************************)
(* Filesystem for TLC: a filesystem without inodes, 70% of its space used  *)
(* by the blocks free to users, 80 blocks by all, and three limits.        *)
(***************************************************************************)
EXTENDS Filesystem

MCUsage == [blocks |-> 100, blocksfree |-> 30, blocksfreetotal |-> 20,
            files |-> 0, filesfree |-> 0]

\* "space usage > 50%", "inode usage > 10%", "space usage < 90 blocks"
MCFilesystemList ==
  << [resource |-> "space", op |-> "gt", percent |-> 500, absolute |-> -1],
     [resource |-> "inode", op |-> "gt", percent |-> 100, absolute |-> -1],
     [resource |-> "space", op |-> "lt", percent |-> -1, absolute |-> 90] >>

=============================================================================
