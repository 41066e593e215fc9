--------------------------- MODULE MCDocumentSaver ---------------------------
(* Values of the save pipeline's constants for TLC.                         *)
EXTENDS UndisturbedSaver

\* A plain save, one after "Save Anyway" on an external modification, and an
\* autosave; SaveAs brings IGNORE_BACKUP in.
MCFlagSets == {{}, {IGNORE_MTIME}, {PRESERVE_BACKUP}}
==============================================================================
