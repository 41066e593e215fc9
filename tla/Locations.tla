------------------------------ MODULE Locations ------------------------------
(* The locations that files are opened from, and what is asked for of them.  *)
EXTENDS Sequences

CONSTANTS
    Files,      \* the locations
    Requests,   \* the lists of files that are asked for together
    Untitled    \* stands for the location of a document without a file

ASSUME LocationsAssumption == Requests \subseteq Seq(Files) /\ Untitled \notin Files
=============================================================================
