--------------------------- MODULE MCEventJournal ---------------------------
(* Instances of EventJournal for TLC.                                      *)
EXTENDS EventJournal

\* Nothing distinguishes event ids, so they are numbers and a new one is the
\* next number; only the first is ever drawn again.
IdsInOrder ==
    \A call \in calls' \ calls :
        IF call.event.eventId = 1 THEN TRUE
        ELSE {c.event.eventId : c \in calls} = 1..(call.event.eventId - 1)

MCSpec ==
    /\ Init /\ [][Next /\ IdsInOrder]_vars
    /\ \A r \in Readers : WF_vars(Reads(r))
=============================================================================
