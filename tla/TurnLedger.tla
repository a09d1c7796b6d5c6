----------------------------- MODULE TurnLedger -----------------------------
(***************************************************************************)
(* What a dialogue promises to a client that sends messages, with nothing  *)
(* said of databases, runtimes, sessions or restarts: a message is         *)
(* admitted only while no earlier one is open, an open one is settled by   *)
(* exactly one verdict, and a verdict is never revised.                    *)
(* DialogueLifecycle implements this specification.                        *)
(***************************************************************************)
CONSTANT Turns

VARIABLE verdict    \* verdict[t]: "unsent", "open", or how turn t ended

Verdicts == {"COMPLETED", "CANCELLED", "INTERRUPTED", "FAILED", "UNCERTAIN"}

TypeOK == verdict \in [Turns -> {"unsent", "open"} \cup Verdicts]

Init == verdict = [t \in Turns |-> "unsent"]

Admit(t) ==
    /\ verdict[t] = "unsent"
    /\ \A u \in Turns : verdict[u] # "open"
    /\ verdict' = [verdict EXCEPT ![t] = "open"]

Settle(t) ==
    /\ verdict[t] = "open"
    /\ \E v \in Verdicts : verdict' = [verdict EXCEPT ![t] = v]

Next == \E t \in Turns : Admit(t) \/ Settle(t)

Spec == Init /\ [][Next]_verdict
=============================================================================
