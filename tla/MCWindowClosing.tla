--------------------------- MODULE MCWindowClosing ---------------------------
(* Two untitled documents and a named one, so that a Save As queue has a     *)
(* second tab to go on with and a tab that needs no dialog.                  *)
EXTENDS WindowClosing
CONSTANTS a, b, c
MCOpened == <<a, b, c>>
MCUnnamed == {a, b}
=============================================================================
