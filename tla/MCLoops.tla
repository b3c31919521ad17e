------------------------------- MODULE MCLoops -------------------------------
(***************************************************************************)
(* The two modules about loops, for TLC: update_window of lab2 and the     *)
(* framing of lab1.  They have nothing to do with each other; one of them  *)
(* has its smallest input while the other has any.                         *)
(***************************************************************************)
EXTENDS WindowLoop, FtpFraming

LoopsInit == LoopInit /\ FramingInit /\ (wsize = 1 \/ posts = <<>>)

LoopsNext ==
    \/ LoopNext /\ UNCHANGED fvars
    \/ FramingNext /\ UNCHANGED uvars

LoopsSpec == LoopsInit /\ [][LoopsNext]_<<uvars, fvars>> /\ FramingFairness
=============================================================================
