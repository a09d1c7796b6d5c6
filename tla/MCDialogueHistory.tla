-------------------------- MODULE MCDialogueHistory --------------------------
(* Instances of DialogueHistory for TLC.                                   *)
EXTENDS DialogueHistory, TLC

\* Without clients no action and no property reads the feed or what was
\* significant, save for MaxFeed, which is then large enough never to count:
\* states that differ only there are one.
Tables == <<dialogues, turns, items>>

\* Turns are alike, and so are interactions.
Alike == Permutations(Turns) \cup Permutations(Interactions)
=============================================================================
