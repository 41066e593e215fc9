------------------------------- MODULE Sessions -------------------------------
(* A session of lapiz: the windows with the files opened in them, which are   *)
(* kept and restored (OpenFiles), and the way it ends (Logout).  The two have *)
(* no state in common.                                                        *)
EXTENDS Logout, Locations

CONSTANTS MaxTabs, MaxWindows, NoSession

VARIABLES app, state_file, seen

opening == <<app, state_file, seen>>

O == INSTANCE OpenFiles

\* Of the tabs of a file, in whatever windows, one can be edited unless the user
\* allowed more; see OpenFiles.
FilesAreOpenedOnce == O!FilesAreOpenedOnce

\* Who asks for files, the saved session too, gets them shown; see OpenFiles.
WhatWasAskedForIsShown == O!WhatWasAskedForIsShown
=============================================================================
