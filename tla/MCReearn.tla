------------------------------ MODULE MCReearn ------------------------------
\* One obligation with a deposit in one reserve; yields in two tokens whose
\* windows overlap.  Scaled numbers: 2 for 10, 2 for 10^9.
EXTENDS Reearn

CONSTANT other

MCYields == {[rate |-> 1, token |-> RELEND, start_time |-> 1, end_time |-> 3],
             [rate |-> 3, token |-> other, start_time |-> 2, end_time |-> 4]}
MCExponents == {0, -1, 1}
=============================================================================
