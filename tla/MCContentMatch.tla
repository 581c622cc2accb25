--------------------------- MODULE MCContentMatch ---------------------------
EXTENDS ContentMatch

\* One pattern "a" to match, lines with "b" ignored.
MCMatchList  == << [pat |-> "a", not |-> FALSE] >>
MCIgnoreList == << [pat |-> "b", not |-> FALSE] >>

=============================================================================
