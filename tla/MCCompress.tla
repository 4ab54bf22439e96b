----------------------------- MODULE MCCompress -----------------------------
(* Two compress threads, and four input buffers instead of the 7 that the  *)
(* code allows them, so that main runs into the limit of the pool.         *)
EXTENDS Compress

Stream(length, hits, rsync) == [length |-> length, hits |-> hits, rsync |-> rsync]

(* One stream after the other: four jobs, the last one short, after an     *)
(* empty stream; two jobs, and nothing or two more after them.             *)
Plain == {<<Stream(0, {}, FALSE), Stream(7, {}, FALSE)>>,
          <<Stream(3, {}, FALSE), Stream(0, {}, FALSE)>>,
          <<Stream(3, {}, FALSE), Stream(3, {}, FALSE)>>}

(* With -R, an input of two buffers and a byte: no hit, a hit in the       *)
(* second buffer, hits in both: jobs filled up from the next buffer, tails  *)
(* after a hit, constructed dictionaries.                                  *)
Rsyncable == {<<Stream(5, hits, TRUE)>> : hits \in {{}, {3}, {1, 4}}}

MCPrograms == Plain \union Rsyncable
=============================================================================
