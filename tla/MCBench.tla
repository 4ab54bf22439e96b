------------------------------- MODULE MCBench -------------------------------
(* The sequential algorithms of pigz, one in each behaviour: the two       *)
(* compressors on one input (Threading), a list of block lengths (Lens) or *)
(* an LZW stream (Lzw).  The others rest with a trivial input.             *)
(*                                                                         *)
(* Inputs of up to two buffers and three bytes, with all sets of hits.     *)
(* Lists of up to six hits with lengths at the limits of the codes, for    *)
(* the smallest and the largest block size, and for one for which a list   *)
(* of six three-byte codes outgrows the 16 bytes that it is given.  Texts  *)
(* of up to seven symbols of two kinds, a long one for the change of the   *)
(* code size and the full table, and one for the longest string of a table.*)
EXTENDS Threading, Lens

CONSTANTS Y, MaxClears

VARIABLES
  runs,
  text, param, flags, enc, sent, io, table, end, prev, final, out, zPc

LongText ==
  <<0,1,2,0,0,2,2,1,1,0,2,1,2,2,2,0,0,0,1,1,1,2,0,1,0,1,2,1,
    0,2,0,2,0,0,0,0,1,0,0,2,1,1,2,2,0,1,1,0,1,0,0,1,2,0,2,2>>
Texts ==
  UNION {[1..n -> {0, 1}] : n \in 0..7}
    \union {SubSeq(LongText, 1, n) : n \in {17, 18, 40, 56}}
    \union {[i \in 1..90 |-> 3]}

(* Lists that outgrow a buffer of 16 bytes, short ones for larger buffers. *)
HitsOf(bytes) == IF bytes < 65536 THEN 6 ELSE 3

Stream == INSTANCE Lzw WITH pc <- zPc

ASSUME BenchAssumption ==
  /\ Y \in Nat \ {0, 1} /\ MaxClears \in Nat
  /\ \A t \in Texts : \A i \in DOMAIN t : t[i] \in 0..2^Y - 1

streamVars == <<text, param, flags, enc, sent, io, table, end, prev, final, out, zPc>>
benchVars == <<runs, bothVars, lensVars, streamVars>>

BenchInit ==
  /\ runs \in {"blocks", "list", "stream"}
  /\ runs # "blocks" => length = 0 /\ hits = {} /\ rsync = FALSE /\ setdict = FALSE
  /\ runs # "list" => blockSize = 32768
  /\ runs # "stream" => text = <<>> /\ param = Y + 1 /\ flags = FALSE
  /\ InitBoth /\ LensInit /\ Stream!Init

BlocksStep == runs = "blocks" /\ NextBoth /\ UNCHANGED <<runs, lensVars, streamVars>>
ListStep == runs = "list" /\ LensNext /\ UNCHANGED <<runs, bothVars, streamVars>>
StreamStep == runs = "stream" /\ Stream!Next /\ UNCHANGED <<runs, bothVars, lensVars>>

BenchNext == BlocksStep \/ ListStep \/ StreamStep

BenchSpec == BenchInit /\ [][BenchNext]_benchVars

(* See Lzw.                                                                *)
TextBack == Stream!TextBack
=============================================================================
