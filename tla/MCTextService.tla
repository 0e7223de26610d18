--------------------------- MODULE MCTextService ---------------------------
EXTENDS TextService

\* Sessions are granted at once, the keyboard is off at times
MCAtOnce == [does |-> {"close", "disable"}, codes |-> {"a", "b"},
             commits |-> 3, waiting |-> 0, faults |-> 2]
\* Sessions are granted late, keys tested again
MCLate == [does |-> {"defer", "retest", "unknown"}, codes |-> {"a"},
           commits |-> 2, waiting |-> 2, faults |-> 1]
\* Another session is requested while an update waits
MCQueued == [does |-> {"defer"}, codes |-> {"a"},
             commits |-> 2, waiting |-> 3, faults |-> 0]
MCApplications == {MCAtOnce, MCLate, MCQueued}
=============================================================================
