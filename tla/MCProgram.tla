------------------------------ MODULE MCProgram ------------------------------
EXTENDS Program

\* "if status != 0 then alert" and "if status = 2 then exec ...".
MCStatusList == << [op |-> "ne", value |-> 0], [op |-> "eq", value |-> 2] >>

=============================================================================
