---------------------------- MODULE MCFileBrowser ----------------------------
EXTENDS FileBrowser

MCFolder == [f \in Files |-> CASE f = "docs" -> "home" [] f \in {"work", ".git"} -> "docs"
                              [] f = "text" -> "work" [] OTHER -> ""]
=============================================================================
