------------------------------ MODULE MCChanges ------------------------------
EXTENDS Changes

\* "if size > 1", "if changed size", and a rule after it the loop never reaches.
MCSizeList == << [changes |-> FALSE, op |-> "gt", limit |-> 1],
                 [changes |-> TRUE, op |-> "ne", limit |-> 0],
                 [changes |-> FALSE, op |-> "lt", limit |-> 2] >>

\* "if timestamp > 0 seconds", then "if changed timestamp".
MCTimestampList == << [changes |-> FALSE, op |-> "gt", limit |-> 0],
                      [changes |-> TRUE, op |-> "ne", limit |-> 0] >>

=============================================================================
