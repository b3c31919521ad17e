\* Two clients, two directories, one file name, at most two connections.
SPECIFICATION Spec
CONSTANTS
    c1 = c1
    c2 = c2
    Clients = {c1, c2}
    Dirs = {"root", "sub"}
    dft_path = "root"
    Names = {"f"}
    CdArgs = {"sub", "a file", "nothing"}
    MaxConns = 2
INVARIANTS ConnectedHasSocket
\* Users stop typing, and a server stopped by a put serves nobody.
CHECK_DEADLOCK FALSE
