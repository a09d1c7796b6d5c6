------------------------------ MODULE EventLog ------------------------------
(***************************************************************************)
(* What the journal of agent sessions promises, with nothing said of       *)
(* transactions, preconditions, retries or cursors: every session has one  *)
(* log that only grows at its end, an event is in the logs at most once,   *)
(* and a new writer takes a log over only by spending a token that nobody  *)
(* has spent.  EventJournal implements this specification.                 *)
(***************************************************************************)
EXTENDS Naturals

CONSTANTS Sessions, EventIds, Writers, Tokens

VARIABLES
    log,      \* the entries of all sessions
    spent     \* the tokens that have been spent

Entry == [session : Sessions, sequence : Nat \ {0}, eventId : EventIds,
          writer : Writers]

TypeOK == log \subseteq Entry /\ spent \subseteq Tokens

Init == log = {} /\ spent = {}

LogOf(s) == {e \in log : e.session = s}

IsLast(e) == \A f \in LogOf(e.session) : f.sequence <= e.sequence

Add(s, n, id, w) ==
    /\ \A f \in log : f.eventId # id
    /\ log' = log \cup {[session |-> s, sequence |-> n, eventId |-> id,
                         writer |-> w]}

Open(s, id, w) ==
    /\ LogOf(s) = {}
    /\ Add(s, 1, id, w)
    /\ UNCHANGED spent

\* The writer of the last entry goes on.
Continue(last, id) ==
    /\ IsLast(last)
    /\ Add(last.session, last.sequence + 1, id, last.writer)
    /\ UNCHANGED spent

\* Any writer, for a token that has not been spent.
TakeOver(last, id, w, token) ==
    /\ IsLast(last) /\ token \notin spent
    /\ Add(last.session, last.sequence + 1, id, w)
    /\ spent' = spent \cup {token}

Next ==
    /\ log' # log
    /\ \E id \in EventIds :
        \/ \E s \in Sessions, w \in Writers : Open(s, id, w)
        \/ \E last \in log : Continue(last, id)
        \/ \E last \in log, w \in Writers, token \in Tokens :
              TakeOver(last, id, w, token)

Spec == Init /\ [][Next]_<<log, spent>>
=============================================================================
