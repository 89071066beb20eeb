---------------------------- MODULE MCFilePanel -----------------------------
(* TLC instances of FilePanel. *)
EXTENDS FilePanel

\* A directory at the top, with a file and a directory in it.
CONSTANTS top, sub, a

MCFolders == {top, sub}
MCParent == top :> Root @@ sub :> top
MCNames == {a}
MCFiles == top :> {a} @@ sub :> {}
MCOrder == <<top, sub, a>>
=============================================================================
