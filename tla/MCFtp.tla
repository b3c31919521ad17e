-------------------------------- MODULE MCFtp --------------------------------
(***************************************************************************)
(* The instance of Ftp that TLC checks, started from one set of files from *)
(* which others come about: the server lacks the file until it is put, and *)
(* a client that lacks it may get it.                                      *)
(***************************************************************************)
EXTENDS FtpRefinement, FtpInvariant

CONSTANTS c1, c2

\* c1 has the file and c2 does not; the server's own directory lacks it, and the
\* other one has a directory of that name.
MCInit ==
    /\ Init
    /\ \A n \in Names : local[c1][n] = c1 /\ local[c2][n] = Nothing
    /\ \A d \in Dirs, n \in Names : files[d][n] = IF d = dft_path THEN Nothing ELSE Folder

MCSpec == MCInit /\ [][Next]_vars /\ Fairness
=============================================================================
