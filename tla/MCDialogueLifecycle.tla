------------------------ MODULE MCDialogueLifecycle ------------------------
(* Instances of DialogueLifecycle for TLC.                                 *)
EXTENDS DialogueLifecycle, TLC

\* Nothing distinguishes the ids of a kind.
Symmetry == Permutations(Turns) \cup Permutations(Sessions)
                \cup Permutations(Requests)

\* The state a completed turn leaves behind: READY, with the first session
\* bound and open.  That turn is none of Turns: nobody reads its row again.
BoundInit ==
    \E first \in Sessions :
        /\ \A s \in Sessions : first <= s
        /\ dialogue = [status |-> "READY", activeTurnId |-> NoTurn,
                       runtimeSessionId |-> first, pendingCount |-> 0]
        /\ turns = [t \in Turns |-> [status |-> "NONE", dispatchState |-> "NONE",
                                     cancelRequested |-> FALSE]]
        /\ interactions = [r \in Requests |->
              [status |-> "NONE", turnId |-> NoTurn, session |-> NoSession]]
        /\ dispatcher = [t \in Turns |-> [pc |-> "none", session |-> NoSession]]
        /\ canceller = [t \in Turns |-> [pc |-> "idle", session |-> NoSession]]
        /\ responder = [r \in Requests |-> [pc |-> "idle", affected |-> NoTurn]]
        /\ sessions = [s \in Sessions |-> IF s = first THEN "open" ELSE "unused"]
        /\ runtimeTurns = [t \in Turns |->
              [state |-> "none", session |-> NoSession, cancelAsked |-> FALSE]]
        /\ phase = "up" /\ crashes = 0

\* Symmetry is not sound with liveness: ids, here numbers, are used in order.
InOrder ==
    /\ \A t, u \in Turns : u < t /\ turns'[t].status # "NONE"
                             => turns'[u].status # "NONE"
    /\ \A s, u \in Sessions : u < s /\ sessions'[s] # "unused"
                                => sessions'[u] # "unused"

BoundSpec == BoundInit /\ [][Next]_vars /\ Fairness
=============================================================================
