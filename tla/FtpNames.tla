------------------------------ MODULE FtpNames ------------------------------
(***************************************************************************)
(* What users and files can be named in lab1, and what the names stand for.*)
(***************************************************************************)
EXTENDS Integers

CONSTANTS
    Clients,        \* the client programs
    Dirs, dft_path, \* the server's directories, and the one it started in
    Names,          \* file names that users type
    CdArgs,         \* what users type after cd: directories, AFile, Nothing
    MaxConns        \* bound on the connections made in a behaviour

AFile == "a file"           \* the path of a regular file
Nothing == "nothing"        \* a path, or a file, that does not exist
Folder == "folder"          \* what a name stands for when it is a directory
NULL == "NULL"              \* cwds of a descriptor not in use: a path where nothing is
Blank == ""                 \* an argument, or an answer, that is not there

ASSUME FtpAssumption ==
    /\ dft_path \in Dirs
    /\ AFile \notin Dirs /\ Nothing \notin Dirs /\ NULL \notin Dirs
    /\ CdArgs \subseteq Dirs \cup {AFile, Nothing}
    /\ MaxConns \in Nat

Commands == {"open", "ls", "cd", "get", "put", "sha", "quit"}
Data == Clients \cup {"old"}        \* contents of a file: who made it
=============================================================================
