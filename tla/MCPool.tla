------------------------------- MODULE MCPool -------------------------------
(* Two buffers and three threads: two that get buffers, one of which finds *)
(* the limit reached, and droppers of the last reference and of others.    *)
EXTENDS Pool
=============================================================================
