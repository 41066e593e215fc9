------------------------------ MODULE MCSessions ------------------------------
(* A session from its start to its end, explored in three parts: files are   *)
(* opened in two windows (two files, up to three tabs); the session is saved *)
(* at some moment and restored; the user logs out of a session with two      *)
(* windows and three documents.                                              *)
EXTENDS Sessions, TLC

CONSTANTS w1, w2, d1, d2, d3, f, g

MCWindows  == <<w1, w2>>
MCWindowOf == d1 :> w1 @@ d2 :> w1 @@ d3 :> w2

MCFiles    == {f, g}
MCRequests == { <<>>, <<f>>, <<f, f>>, <<g, f>> }

VARIABLE part

\* In the other parts lapiz has been logged out of, as far as Logout goes.
MCInit ==
    /\ O!Init
    /\ \/ part = "logout" /\ Init
       \/ part \in {"open", "session"} /\ InitWith([NewClient(FALSE) EXCEPT !.quit = TRUE])

\* Once the session has been saved only its end and its restoration are of interest.
MCNext ==
    /\ UNCHANGED part
    /\ \/ part = "logout" /\ Next /\ UNCHANGED opening
       \/ part = "open" /\ (O!NextOfLoads \/ O!NextOfWindows) /\ UNCHANGED vars
       \/ /\ part = "session" /\ UNCHANGED vars
          /\ O!NextOfSession \/ (state_file = NoSession /\ O!NextOfWindows)

MCSpec == MCInit /\ [][MCNext]_<<vars, opening, part>> /\ Fairness
=============================================================================
