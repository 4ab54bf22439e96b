---------------------------- MODULE MCYarnThreads ----------------------------
(* Three threads: one being joined while another reenters and a third is   *)
(* launched.                                                               *)
EXTENDS YarnThreads
=============================================================================
