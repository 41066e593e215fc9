-------------------------- MODULE UndisturbedSaver --------------------------
(* The save pipeline with a history of whether another program has touched   *)
(* the files or the volume while a save was in flight, and what holds of the *)
(* document and its file as long as none has.                                *)
EXTENDS DocumentSaver

VARIABLE raced  \* history: did another program ever act during a save?

HInit == Init /\ raced = FALSE

HNext ==
    \/ Foreigners /\ raced' = (raced \/ pc # "idle")
    \/ (User \/ Pipeline) /\ UNCHANGED raced

HSpec == HInit /\ [][HNext]_<<vars, raced>> /\ WF_<<vars, raced>>(Pipeline /\ UNCHANGED raced)

\* An unmodified document shows what is on disk, whatever saves were made,
\* failed or cancelled, unless the file was touched during one of them.
CleanUnlessRaced == raced \/ CleanMeansOnDisk

\* What another program leaves in the file between saves is never taken for
\* the document's own.
DetectableUnlessRaced == raced \/ ForeignContentIsDetectable

\* A save replaces only what the document was loaded from or saved to, unless
\* it was told to ignore the modification or the file changed under it.
NoSilentOverwrite ==
    [][(/\ pc = "close" /\ pc' = "info"
        /\ IGNORE_MTIME \notin saver.flags /\ ~raced) =>
         LET f == files[saver.uri] IN f.exists => f.mtime = docMtime]_vars

\* What the document believes about its file is so: it does not take its own
\* text for saved when it is not, nor another program's for its own.
KnowsItsFile == CleanUnlessRaced /\ DetectableUnlessRaced

\* What is overwritten, in the file and in its backup, is what was meant to be.
OverwritesNothing == NoSilentOverwrite /\ BackupsArePreserved
=============================================================================
