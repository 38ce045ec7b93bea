------------------------------ MODULE MCSessions ------------------------------
EXTENDS SessionManagement

\* Three situations: sessions are switched and archived until they fall out of
\* the archive; writes fail and sessions grow too old; a party reinstalls.
MCBounds ==
    LET none == [sessions |-> 3, messages |-> 3, failures |-> 0, reinstalls |-> 0,
                 archives |-> 0, time |-> 0]
    IN  {[none EXCEPT !.messages = 4, !.archives = 1],
         [none EXCEPT !.sessions = 2, !.messages = 4, !.failures = 2, !.time = 2],
         [none EXCEPT !.reinstalls = 1]}
===============================================================================
