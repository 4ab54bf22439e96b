------------------------------- MODULE MCLoad -------------------------------
(* Buffers of three bytes and a trailer of two.                            *)
EXTENDS Load

File(length, use, threads, seek) ==
  [length |-> length, use |-> use, threads |-> threads, seek |-> seek]

Compressed == File(0, "compress", TRUE, TRUE)
Lengths == 0..7

(* A file to compress, and then a file to decompress or a pipe to list, or *)
(* two files in a row, with and without threads; what is left before its   *)
(* end fits in the first buffer, and a list with threads is of a pipe.     *)
Careful ==
  {<<Compressed, File(n, "whole", TRUE, TRUE)>> : n \in Lengths}
    \union {<<Compressed, File(n, "list", TRUE, FALSE)>> : n \in Lengths \ {1}}
    \union {<<File(n, u, FALSE, TRUE)>> : n \in Lengths \ {1}, u \in {"list", "leave"}}
    \union {<<File(n, "leave", TRUE, TRUE), File(m, "whole", TRUE, TRUE)>> :
              n \in {0, 2}, m \in {2, 3, 4, 6}}

(* A file with junk after the compressed data, and then another file.      *)
Junk == {<<File(4, "leave", TRUE, TRUE), File(4, "whole", TRUE, TRUE)>>}
=============================================================================
