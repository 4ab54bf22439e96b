------------------------------- MODULE MCFiles -------------------------------
(* Two files and stdin, and a file that has the name of the first output.  *)
EXTENDS Files, TLC

CONSTANTS f, g, fz, gz, stdout

AllOptions == [force : BOOLEAN, keep : BOOLEAN, pipeout : BOOLEAN]
OutNames == f :> fz @@ g :> gz
=============================================================================
