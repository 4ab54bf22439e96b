---------------------------------- MODULE Lzw ----------------------------------
(***************************************************************************)
(* unlzw(): the decoder of the format of compress(1), which is not in the  *)
(* repository.  The encoder here is what the decoder has to undo: greedy   *)
(* LZW that may clear its table at any code, codes that grow, and groups   *)
(* of codes that are filled up when the code size changes.                 *)
(*                                                                         *)
(* A byte has Y bits instead of 8: symbols are below 2^Y, codes have from  *)
(* Y + 1 up to 2Y bits, and a group is Y codes.  Output is not buffered.   *)
(***************************************************************************)
EXTENDS Integers, Sequences, SequencesExt, FiniteSetsExt

CONSTANTS
  Y,         \* bits in a byte
  Texts,     \* what is compressed
  MaxClears  \* bound: clear codes

VARIABLES
  text, param, flags,  \* the input and the flags byte of the header
  enc,       \* the encoder: at, dict, bits, group, clears
  sent,      \* the bits of the stream, least significant first
  io,        \* bits, mask, chunk, left, rem, and pos, the bytes taken
  table,     \* prefix[] and suffix[]
  end, prev, final,
  out,       \* the output
  pc

vars == <<text, param, flags, enc, sent, io, table, end, prev, final, out, pc>>

Clear == 2^Y
Widest == IF param = Y + 1 THEN Y + 2 ELSE param

Init ==
  /\ text \in Texts /\ param \in Y + 1..2 * Y /\ flags \in BOOLEAN
  /\ enc = [at |-> 0, dict |-> <<>>, bits |-> Y + 1, group |-> 0, clears |-> 0]
  /\ sent = <<>>
  /\ io = [bits |-> Y + 1, mask |-> 2^(Y + 1) - 1, chunk |-> 0, left |-> 0, rem |-> 0, pos |-> 0]
  /\ table = <<>>
  /\ end = (IF flags THEN Clear ELSE Clear - 1)
  /\ prev = 0 /\ final = 0 /\ out = <<>> /\ pc = "encode"

-----------------------------------------------------------------------------
(* The encoder                                                             *)

Bits(n, width) == [i \in 1..width |-> (n \div 2^(i - 1)) % 2]
Zeros(n) == [i \in 1..n |-> 0]

(* The number of the first entry, and of the next.                         *)
FirstFree == IF flags THEN Clear + 1 ELSE Clear
Free == FirstFree + Len(enc.dict)

Entries == {<<s>> : s \in 0..Clear - 1} \union ToSet(enc.dict)
CodeOf(w) ==
  IF Len(w) = 1 THEN w[1] ELSE FirstFree - 1 + (CHOOSE i \in DOMAIN enc.dict : enc.dict[i] = w)

(* A code, and the rest of its group when the codes change their size.     *)
Put(code, changes) ==
  LET rest == (Y - 1 - enc.group) * enc.bits
  IN  sent' = sent \o Bits(code, enc.bits) \o (IF changes THEN Zeros(rest) ELSE <<>>)
NextGroup(changes) == IF changes THEN 0 ELSE (enc.group + 1) % Y

EncodeCode ==
  /\ pc = "encode" /\ enc.at < Len(text)
  /\ LET rest == SubSeq(text, enc.at + 1, Len(text))
         n == Max({k \in 1..Len(rest) : SubSeq(rest, 1, k) \in Entries})
         wider == Free > 2^enc.bits - 1 /\ enc.bits < Widest
         adds == n < Len(rest) /\ Free < 2^param
     IN  /\ Put(CodeOf(SubSeq(rest, 1, n)), wider)
         /\ enc' = [enc EXCEPT !.at = @ + n, !.bits = IF wider THEN @ + 1 ELSE @,
                               !.group = NextGroup(wider),
                               !.dict = IF adds THEN Append(@, SubSeq(rest, 1, n + 1)) ELSE @]
  /\ UNCHANGED <<text, param, flags, io, table, end, prev, final, out, pc>>

EncodeClear ==
  /\ pc = "encode" /\ flags /\ enc.at \in 1..Len(text) - 1 /\ enc.clears < MaxClears
  /\ Put(Clear, TRUE)
  /\ enc' = [enc EXCEPT !.bits = Y + 1, !.group = 0, !.dict = <<>>, !.clears = @ + 1]
  /\ UNCHANGED <<text, param, flags, io, table, end, prev, final, out, pc>>

EncodeEnd ==
  /\ pc = "encode" /\ enc.at = Len(text)
  /\ sent' = sent \o Zeros((-Len(sent)) % Y)
  /\ pc' = "first"
  /\ UNCHANGED <<text, param, flags, enc, io, table, end, prev, final, out>>

-----------------------------------------------------------------------------
(* The decoder                                                             *)

Total == Len(sent) \div Y
Byte(i) == FoldFunctionOnSet(+, 0, [b \in 1..Y |-> sent[(i - 1) * Y + b] * 2^(b - 1)], 1..Y)

(* FLUSHCODE()                                                             *)
Flush(s) == [s EXCEPT !.left = 0, !.rem = 0, !.chunk = 0,
                      !.pos = IF s.pos + s.chunk < Total THEN s.pos + s.chunk ELSE Total]

(* Not the code: the size changes after the table is full.                 *)
TableFullLate(s) == end > s.mask

TableFull(s) == end >= s.mask

(* The code size for the next code.                                        *)
Sized(s) ==
  IF TableFull(s) /\ s.bits < Widest
    THEN [Flush(s) EXCEPT !.bits = @ + 1, !.mask = 2 * @ + 1]
    ELSE s

(* The next code from the bits left over and one or two bytes.             *)
Fetch(s) ==
  LET two == s.bits > s.left + Y
      got == Byte(s.pos + IF two THEN 2 ELSE 1)
      code == s.rem + Byte(s.pos + 1) * 2^s.left + (IF two THEN got * 2^(s.left + Y) ELSE 0)
      taken == IF two THEN 2 ELSE 1
      left == s.left + taken * Y - s.bits
      chunk == IF s.chunk = 0 THEN s.bits ELSE s.chunk
  IN  [code |-> code % (s.mask + 1),
       io |-> [s EXCEPT !.pos = @ + taken, !.left = left, !.rem = got \div 2^(Y - left),
                        !.chunk = chunk - taken]]

Ended(s) == s.pos = Total
Cut(s) == s.bits > s.left + Y /\ s.pos + 1 = Total

DecodeFirst ==
  /\ pc = "first"
  /\ IF Total = 0 THEN pc' = "done" /\ UNCHANGED <<io, prev, final, out>>
     ELSE IF Total = 1 \/ Byte(2) % 2 # 0 THEN pc' = "bad" /\ UNCHANGED <<io, prev, final, out>>
     ELSE /\ pc' = "code"
          /\ prev' = Byte(1) /\ final' = Byte(1) /\ out' = <<Byte(1)>>
          /\ io' = [io EXCEPT !.pos = 2, !.rem = Byte(2) \div 2, !.left = Y - 1, !.chunk = @ + io.bits - 2]
  /\ UNCHANGED <<text, param, flags, enc, sent, table, end>>

(* The string of a code, from the links of the table.                      *)
StringOf(code) ==
  LET str[n \in Nat, c \in Nat] ==
        IF c < Clear \/ n = 0 THEN <<c>> ELSE Append(str[n - 1, table[c].prefix], table[c].suffix)
  IN  str[2^(2 * Y), code]

(* The special code reuses the last match.                                 *)
String(code) == IF code > end THEN Append(StringOf(prev), final) ELSE StringOf(code)

Valid(code) == code <= end \/ (code = end + 1 /\ prev <= end)

DecodeCode ==
  /\ pc = "code"
  /\ LET s == Sized(io)
         f == Fetch(s)
         str == String(f.code)
     IN  /\ ~Ended(s) /\ ~Cut(s) /\ ~(f.code = Clear /\ flags) /\ Valid(f.code)
         /\ io' = f.io
         /\ out' = out \o str
         /\ final' = str[1]
         /\ IF end < s.mask
              THEN /\ end' = end + 1
                   /\ table' = [c \in DOMAIN table \union {end + 1} |->
                                  IF c = end + 1 THEN [prefix |-> prev, suffix |-> str[1]]
                                  ELSE table[c]]
              ELSE UNCHANGED <<end, table>>
         /\ prev' = f.code
  /\ UNCHANGED <<text, param, flags, enc, sent, pc>>

DecodeClear ==
  /\ pc = "code"
  /\ LET s == Sized(io)
         f == Fetch(s)
     IN  /\ ~Ended(s) /\ ~Cut(s) /\ f.code = Clear /\ flags
         /\ io' = [Flush(f.io) EXCEPT !.bits = Y + 1, !.mask = 2^(Y + 1) - 1]
  /\ end' = Clear - 1
  /\ UNCHANGED <<text, param, flags, enc, sent, table, prev, final, out, pc>>

DecodeEnd ==
  /\ pc = "code"
  /\ LET s == Sized(io)
         f == Fetch(s)
     IN  pc' = IF Ended(s) THEN "done"
               ELSE IF Cut(s) THEN "bad"
               ELSE IF (f.code = Clear /\ flags) \/ Valid(f.code) THEN "code" ELSE "bad"
  /\ pc' # "code"
  /\ UNCHANGED <<text, param, flags, enc, sent, io, table, end, prev, final, out>>

Stopped == pc \in {"done", "bad"} /\ UNCHANGED vars

Next ==
  \/ EncodeCode \/ EncodeClear \/ EncodeEnd
  \/ DecodeFirst \/ DecodeCode \/ DecodeClear \/ DecodeEnd
  \/ Stopped

Spec == Init /\ [][Next]_vars

-----------------------------------------------------------------------------

(* What was compressed is what comes out, at whatever code the size        *)
(* changes, the table is full or is cleared; and match[] holds each string.*)
TextBack ==
  /\ pc = "done" => out = text
  /\ pc # "bad"
  /\ pc = "code" => Len(StringOf(prev)) <= 2^(2 * Y) - 2^Y + 2
=============================================================================
