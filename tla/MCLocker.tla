------------------------------ MODULE MCLocker ------------------------------
\* One locker and a whitelist of two entries; schedules with periods that do and
\* do not divide their window.
EXTENDS LockerManager

MCSchedules ==
    {[start_ts |-> 3, end_ts |-> 8, period_count |-> n] : n \in {2, 3, 4}}
        \cup {[start_ts |-> 1, end_ts |-> 4, period_count |-> 2]}
MCRelayed == {-2, -1, 1, 2}
=============================================================================
