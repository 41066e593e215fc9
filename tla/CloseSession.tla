---------------------------- MODULE CloseSession ----------------------------
(* What closing promises, whatever dialogs, queues and callbacks it takes:   *)
(* a document leaves the window only when it has nothing to lose, or in the  *)
(* very step in which the user agrees to lose it.                            *)
CONSTANT Tabs

VARIABLES
    doc,     \* of each tab: clean, dirty, or left
    consent  \* the tabs whose changes the user agreed to lose just now

Init ==
    /\ doc \in [Tabs -> {"clean", "dirty"}]
    /\ consent = {}

\* Edited, saved, or reverted by the user's wish.
Change ==
    /\ doc' \in [Tabs -> {"clean", "dirty", "left"}]
    /\ \A t \in Tabs : (doc[t] = "left") = (doc'[t] = "left")
    /\ consent' = {}

Leave(agreed, leaving) ==
    /\ consent' = agreed
    /\ \A t \in leaving : doc[t] = "dirty" => t \in agreed
    /\ doc' = [t \in Tabs |-> IF t \in leaving THEN "left" ELSE doc[t]]

Next ==
    \/ Change
    \/ \E agreed, leaving \in SUBSET Tabs : Leave(agreed, leaving)

Spec == Init /\ [][Next]_<<doc, consent>>
=============================================================================
