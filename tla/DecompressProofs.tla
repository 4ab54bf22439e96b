--------------------------- MODULE DecompressProofs ---------------------------
(***************************************************************************)
(* Proofs about both ends of the decompressor.  Load, for any size of the  *)
(* buffers and of the trailer and any program that leaves no file with a   *)
(* read thread before its end: what the decoder gets is the file, and no   *)
(* read thread is left behind.  Outb, for any number of pieces and         *)
(* streams: each thread does the pieces in order, and a stream that ends   *)
(* is done.                                                                *)
(***************************************************************************)
EXTENDS Load, Outb, FiniteSetTheorems, SequenceTheorems, TLAPS

-----------------------------------------------------------------------------
(* The input                                                               *)

(* A file with a read thread is read to its end, or its end is in the      *)
(* first buffer.                                                           *)
ReadToEnd ==
  \A p \in Programs : \A i \in DOMAIN p :
    p[i].threads =>
      p[i].use \in {"compress", "whole"} \/ (p[i].use = "list" /\ ~p[i].seek) \/ p[i].length < Buf

AllFiles == 1..MaxFiles
Active == {"loop", "wait", "read", "twist", "ended"}
Loading == {"load", "wait"}

InBuffer == inNext[2] + inLeft <= Buf

Types ==
  /\ files \in Programs /\ at \in 0..Len(files) /\ off \in Int
  /\ bufs \in [{0, 1} -> [Slots -> Int \X Int]]
  /\ inWhich \in {-1, 0, 1} /\ inLen \in 0..Buf /\ inLeft \in 0..Buf
  /\ inNext \in {0, 1} \X Nat /\ InBuffer
  /\ inShort \in BOOLEAN /\ inEof \in BOOLEAN
  /\ loadState \in 0..MaxFiles /\ lockVal \in [AllFiles -> {-1, 0, 1}]
  /\ rpc \in [AllFiles -> Active \union {"none", "joined"}] /\ rlock \in [AllFiles -> 0..MaxFiles]
  /\ rwhich \in [AllFiles -> {0, 1}] /\ rgot \in [AllFiles -> 0..Buf]
  /\ cthreads \in {0, 1} /\ caught \in Int
  /\ taken \in Nat /\ kept \in -1..Trailer
  /\ mpc \in {"next", "load", "wait", "join", "loaded", "seek", "listed", "done", "bailed"}

(* No read thread is there but that of the file at work.                   *)
Threads ==
  /\ \A f \in AllFiles : rpc[f] \in Active => f = at
  /\ \A f \in AllFiles : f > at => rpc[f] = "none"
  /\ mpc \in {"next", "done"} => off = -1 /\ \A f \in AllFiles : rpc[f] \notin Active
  /\ mpc = "done" => at = Len(files) /\ (cthreads # 0 => caught = cthreads)
  /\ mpc # "bailed"

Working == mpc \notin {"next", "done"}
Reading == rpc[at] \in Active

(* What the file at work may be, and when it has a read thread.            *)
AtWork ==
  /\ at > 0 /\ file.use # "compress"
  /\ off \in 0..file.length
  /\ mpc = "seek" => off = file.length - Trailer
  /\ ~file.threads => rpc[at] = "none" /\ mpc \notin {"wait", "join"}
  /\ inShort => rpc[at] \notin Active
  /\ inEof => inShort /\ inLeft = 0
  /\ mpc = "join" => rpc[at] = "ended" /\ inLeft < Buf
  /\ mpc \in {"seek", "listed"} => rpc[at] \notin Active
  /\ mpc = "wait" => Reading
  /\ inWhich # -1 <=> Reading
  /\ file.threads /\ ~Reading /\ ~inShort => mpc = "load" /\ off = 0 /\ rpc[at] = "none"
  /\ kept # -1 => file.use = "list"

(* How far the decoder is in the file: after ListKeep and in Again what it *)
(* had of the last buffer is taken.                                        *)
Had == taken + (IF mpc \in Loading THEN 0 ELSE inLeft)
Ready == lockVal[at] = 0 /\ mpc # "join"
Requested == lockVal[at] = 1

(* The read thread has the buffer that the decoder does not have.          *)
ReaderOK ==
  /\ loadState = at /\ lockVal[at] \in {0, 1}
  /\ rpc[at] = "wait" => rlock[at] = at
  /\ rpc[at] \in {"read", "twist"} => Requested /\ rwhich[at] = inWhich
  /\ rpc[at] = "ended" => lockVal[at] = 0 /\ inLen < Buf
  /\ rpc[at] \in {"loop", "wait"} /\ lockVal[at] = 0 => inLen = Buf
  /\ rpc[at] = "read" => rgot[at] < Buf
  /\ rpc[at] = "twist" => rgot[at] = Buf \/ off = file.length
  /\ rpc[at] = "ended" => off = file.length
  /\ mpc = "loaded" /\ inLeft > 0 => inNext[1] = 1 - inWhich
  /\ rpc[at] \in {"loop", "wait"} /\ Requested => off = Had
  /\ rpc[at] \in {"read", "twist"} =>
       /\ off = Had + rgot[at]
       /\ \A s \in 0..(rgot[at] - 1) : bufs[inWhich][s] = <<at, Had + s>>
  /\ Ready =>
       /\ off = Had + inLen
       /\ \A s \in 0..(inLen - 1) : bufs[inWhich][s] = <<at, Had + s>>
  /\ mpc = "join" => off = Had

(* What the decoder has are the next bytes of the file.                    *)
BufferOK ==
  /\ ~Reading => off = Had
  /\ inShort => Had = file.length /\ inLeft < Buf
  /\ mpc \in {"join", "loaded"} =>
       \A s \in 0..(inLeft - 1) : bufs[inNext[1]][inNext[2] + s] = <<at, taken + s>>
  /\ mpc = "loaded" /\ ~inShort => Had >= Buf /\ (kept # -1 => inLeft = Buf)
  /\ mpc \in Loading /\ kept = -1 => inLeft = 0
  /\ mpc \in Loading /\ inShort => kept = -1

(* What is kept of a pipe are the last bytes before those of the buffer.   *)
TailOK ==
  /\ kept # -1 /\ mpc # "listed" => kept <= taken /\ tail = [k \in 1..kept |-> <<at, taken - kept + k - 1>>]
  /\ mpc = "listed" => tail = <<>> \/
       (Trailer <= file.length /\ tail = [k \in 1..Trailer |-> <<at, file.length - Trailer + k - 1>>])

FileOK ==
  Working =>
    /\ AtWork
    /\ mpc \notin {"seek", "listed"} => (Reading => ReaderOK) /\ BufferOK
    /\ TailOK

IInv == Types /\ Threads /\ FileOK

-----------------------------------------------------------------------------
(* The constants, and the file at work                                     *)

LEMMA Numbers ==
  /\ Buf \in Nat \ {0} /\ Trailer \in Nat \ {0} /\ Trailer <= Buf /\ MaxFiles \in Nat
  /\ Slots = 0..(Buf - 1)
BY LoadAssumption DEF Slots

LEMMA Counts ==
  ASSUME Types
  PROVE  /\ inLeft \in Nat /\ inLeft <= Buf /\ taken \in Nat
         /\ inNext[1] \in {0, 1} /\ inNext[2] \in Nat /\ inNext[2] + inLeft <= Buf
<1>1. inLeft \in 0..Buf /\ taken \in Nat /\ inNext \in {0, 1} \X Nat /\ inNext[2] + inLeft <= Buf
  BY DEF Types, InBuffer
<1>2. inLeft \in Nat /\ inLeft <= Buf
  BY <1>1, Numbers
<1>3. inNext[1] \in {0, 1} /\ inNext[2] \in Nat
  BY <1>1
<1> QED
  BY <1>1, <1>2, <1>3

LEMMA FileIs ==
  ASSUME Types, at > 0
  PROVE  /\ at \in AllFiles /\ file \in FileType /\ file.length \in Nat
         /\ ReadToEnd /\ file.threads =>
              file.use \in {"compress", "whole"} \/ (file.use = "list" /\ ~file.seek) \/ file.length < Buf
<1>1. files \in Programs /\ at \in 0..Len(files) /\ files \in Seq(FileType) /\ Len(files) <= MaxFiles
  BY LoadAssumption DEF Types
<1>2. at \in DOMAIN files /\ at \in AllFiles /\ files[at] \in FileType
  BY <1>1, Numbers DEF AllFiles
<1> QED
  BY <1>1, <1>2 DEF file, FileType, ReadToEnd

(* Where there is a read thread, it is that of the file at work.           *)
LEMMA ReaderAt ==
  ASSUME IInv, NEW f \in AllFiles, rpc[f] \in Active
  PROVE  /\ f = at /\ at > 0 /\ Working /\ Reading /\ AtWork /\ mpc \notin {"seek", "listed"}
         /\ ReaderOK /\ BufferOK /\ TailOK /\ Types /\ Threads /\ at \in AllFiles /\ file.length \in Nat
<1>1. f = at /\ Working
  BY DEF IInv, Threads, Working
<1>2. at > 0 /\ Reading
  BY <1>1, Numbers DEF AllFiles, Reading
<1>3. file.length \in Nat
  BY <1>2, FileIs DEF IInv
<1> QED
  BY <1>1, <1>2, <1>3 DEF IInv, FileOK, AtWork, Reading

-----------------------------------------------------------------------------
(* The read thread                                                         *)

(* What a step of the read thread leaves as it is.                         *)
LEMMA ReaderFrame ==
  ASSUME IInv, rpc[at] \in Active, at \in AllFiles, at > 0, AtWork,
         NEW p \in Active, rpc' = [rpc EXCEPT ![at] = p],
         UNCHANGED <<files, at, cthreads, caught, inWhich, inLeft, inNext, inShort, inEof, loadState,
                     taken, tail, kept, mpc>>,
         off' \in 0..file.length, mpc = "join" => p = "ended"
  PROVE  /\ Threads' /\ Working' /\ Reading' /\ AtWork' /\ InBuffer' /\ rpc'[at] = p /\ file' = file
         /\ \A g \in AllFiles : g # at => rpc'[g] = rpc[g]
         /\ rpc' \in [AllFiles -> Active \union {"none", "joined"}]
<1>1. /\ rpc'[at] = p /\ \A g \in AllFiles : g # at => rpc'[g] = rpc[g]
      /\ rpc' \in [AllFiles -> Active \union {"none", "joined"}]
  BY DEF IInv, Types
<1>2. Threads /\ mpc \notin {"next", "done"}
  BY DEF IInv, Threads
<1>3. Working' /\ Reading' /\ file' = file
  BY <1>1, <1>2 DEF Working, Reading, file
<1>4. Threads'
  <2>1. "none" \notin Active
    BY DEF Active
  <2>2. \A g \in AllFiles : g > at => g # at
    BY DEF AllFiles
  <2> QED
    BY <1>1, <1>2, <2>1, <2>2 DEF Threads
<1>5. AtWork'
  <2>1. ~inShort /\ mpc \notin {"seek", "listed"} /\ file.threads /\ inWhich # -1
    BY DEF AtWork, Active, Reading
  <2> QED
    BY <1>1, <1>3, <2>1 DEF AtWork
<1>6. InBuffer'
  BY DEF IInv, Types, InBuffer
<1> QED
  BY <1>1, <1>3, <1>4, <1>5, <1>6

LEMMA ReadPossessKeeps ==
  ASSUME IInv, NEW f \in AllFiles, ReadPossess(f)
  PROVE  IInv'
<1>1. /\ f = at /\ at > 0 /\ Working /\ Reading /\ AtWork /\ mpc \notin {"seek", "listed"}
      /\ ReaderOK /\ BufferOK /\ TailOK /\ Types /\ Threads /\ at \in AllFiles /\ file.length \in Nat
  BY ReaderAt DEF ReadPossess, Active
<1>2. /\ rpc[at] = "loop" /\ rpc' = [rpc EXCEPT ![at] = "wait"] /\ rlock' = [rlock EXCEPT ![at] = at]
      /\ UNCHANGED <<files, at, cthreads, caught, off, bufs, inWhich, inLen, inLeft, inNext, inShort, inEof,
                     loadState, lockVal, rwhich, rgot, taken, tail, kept, mpc>>
  BY <1>1 DEF ReadPossess, ReaderOK, fileVars, inVars, lockVars, useVars
<1>3. "wait" \in Active /\ mpc # "join" /\ off \in 0..file.length
  BY <1>1, <1>2 DEF Active, AtWork
<1>4. /\ Threads' /\ Working' /\ Reading' /\ AtWork' /\ InBuffer' /\ rpc'[at] = "wait" /\ file' = file
      /\ rpc' \in [AllFiles -> Active \union {"none", "joined"}]
  BY <1>1, <1>2, <1>3, ReaderFrame, Numbers DEF Reading, AllFiles
<1>5. rlock' \in [AllFiles -> 0..MaxFiles] /\ rlock'[at] = at
  <2>1. at \in 0..MaxFiles
    BY <1>1, Numbers DEF AllFiles
  <2>2. rlock \in [AllFiles -> 0..MaxFiles]
    BY <1>1 DEF Types
  <2> QED
    BY <1>1, <1>2, <2>1, <2>2
<1>6. Types'
  BY <1>1, <1>2, <1>4, <1>5 DEF Types
<1>7. ReaderOK'
  BY <1>1, <1>2, <1>4, <1>5 DEF ReaderOK, Had, Ready, Requested
<1>8. BufferOK' /\ TailOK'
  BY <1>1, <1>2, <1>4 DEF BufferOK, TailOK, Had
<1> QED
  BY <1>4, <1>6, <1>7, <1>8 DEF IInv, FileOK

LEMMA ReadBeginKeeps ==
  ASSUME IInv, NEW f \in AllFiles, ReadBegin(f)
  PROVE  IInv'
<1>1. /\ f = at /\ at > 0 /\ Working /\ Reading /\ AtWork /\ mpc \notin {"seek", "listed"}
      /\ ReaderOK /\ BufferOK /\ TailOK /\ Types /\ Threads /\ at \in AllFiles /\ file.length \in Nat
  BY ReaderAt DEF ReadBegin, Active
<1>2. inWhich \in {0, 1} /\ rlock[at] = at /\ rpc[at] = "wait" /\ lockVal[at] = 1
  BY <1>1 DEF ReadBegin, ReaderOK, AtWork, Types
<1>3. /\ rpc' = [rpc EXCEPT ![at] = "read"] /\ rwhich' = [rwhich EXCEPT ![at] = inWhich]
      /\ rgot' = [rgot EXCEPT ![at] = 0]
      /\ UNCHANGED <<files, at, cthreads, caught, off, bufs, inWhich, inLen, inLeft, inNext, inShort, inEof,
                     loadState, lockVal, rlock, taken, tail, kept, mpc>>
  BY <1>1, <1>2 DEF ReadBegin, fileVars, inVars, lockVars, useVars
<1>4. "read" \in Active /\ mpc # "join" /\ off \in 0..file.length
  BY <1>1, <1>2 DEF Active, AtWork
<1>5. /\ Threads' /\ Working' /\ Reading' /\ AtWork' /\ InBuffer' /\ rpc'[at] = "read" /\ file' = file
      /\ rpc' \in [AllFiles -> Active \union {"none", "joined"}]
  BY <1>1, <1>3, <1>4, ReaderFrame, Numbers DEF Reading, AllFiles
<1>6. /\ rwhich' \in [AllFiles -> {0, 1}] /\ rwhich'[at] = inWhich
      /\ rgot' \in [AllFiles -> 0..Buf] /\ rgot'[at] = 0
  <2>1. 0 \in 0..Buf
    BY Numbers
  <2>2. rwhich \in [AllFiles -> {0, 1}] /\ rgot \in [AllFiles -> 0..Buf]
    BY <1>1 DEF Types
  <2> QED
    BY <1>1, <1>2, <1>3, <2>1, <2>2
<1>7. Types'
  BY <1>1, <1>3, <1>5, <1>6 DEF Types
<1>8. Had' = Had /\ Had \in Nat
  BY <1>1, <1>3, Numbers DEF Had, Types
<1>9. ReaderOK'
  BY <1>1, <1>2, <1>3, <1>4, <1>5, <1>6, <1>8, Numbers DEF ReaderOK, Ready, Requested
<1>10. BufferOK' /\ TailOK'
  BY <1>1, <1>3, <1>5, <1>8 DEF BufferOK, TailOK
<1> QED
  BY <1>5, <1>7, <1>9, <1>10 DEF IInv, FileOK

(* What one call of read() may bring.                                      *)
LEMMA PortionIs ==
  ASSUME NEW n \in Nat, NEW k \in Portions(n), off \in 0..file.length, file.length \in Nat
  PROVE  /\ k \in 0..n /\ off + k \in 0..file.length
         /\ k = 0 /\ n > 0 => off = file.length
<1>1. MaxOf(0, file.length - off) = file.length - off
  BY DEF MaxOf
<1>2. PICK m : m = MinOf(n, file.length - off)
  OBVIOUS
<1>3. m \in Nat /\ m <= n /\ m <= file.length - off /\ (m = n \/ m = file.length - off)
  BY <1>2 DEF MinOf
<1>4. k \in MinOf(1, m)..m
  BY <1>1, <1>2 DEF Portions
<1> QED
  BY <1>3, <1>4 DEF MinOf

LEMMA ReadSomeKeeps ==
  ASSUME IInv, NEW f \in AllFiles, ReadSome(f)
  PROVE  IInv'
<1>1. /\ f = at /\ at > 0 /\ Working /\ Reading /\ AtWork /\ mpc \notin {"seek", "listed"}
      /\ ReaderOK /\ BufferOK /\ TailOK /\ Types /\ Threads /\ at \in AllFiles /\ file.length \in Nat
  BY ReaderAt DEF ReadSome, Active
<1>2. /\ rpc[at] = "read" /\ rwhich[at] = inWhich /\ inWhich \in {0, 1} /\ Requested /\ rgot[at] < Buf
      /\ rgot[at] \in Nat /\ off \in 0..file.length /\ file.length \in Nat /\ at \in AllFiles
  <2>1. rpc[at] = "read" /\ rgot[at] \in 0..Buf
    BY <1>1 DEF ReadSome, Types
  <2>2. rgot[at] \in Nat
    BY <2>1, Numbers
  <2>3. inWhich \in {0, 1}
    BY <1>1 DEF AtWork, Types
  <2> QED
    BY <1>1, <2>1, <2>2, <2>3 DEF ReaderOK, AtWork
<1>3. PICK k \in Portions(Buf - rgot[at]) :
        /\ bufs' = [bufs EXCEPT ![inWhich] = Filled(bufs[inWhich], rgot[at], k)]
        /\ off' = off + k
        /\ rgot' = [rgot EXCEPT ![at] = rgot[at] + k]
        /\ rpc' = [rpc EXCEPT ![at] = IF k = 0 \/ rgot'[at] = Buf THEN "twist" ELSE "read"]
        /\ UNCHANGED mpc
  BY <1>1, <1>2 DEF ReadSome
<1>4. UNCHANGED <<files, at, cthreads, caught, inWhich, inLen, inLeft, inNext, inShort, inEof,
                  loadState, lockVal, rlock, rwhich, taken, tail, kept, mpc>>
  BY <1>3 DEF ReadSome, fileVars, lockVars, useVars
<1>5. /\ k \in Nat /\ rgot[at] + k <= Buf /\ off' \in 0..file.length
      /\ k = 0 => off' = file.length
  <2>1. Buf - rgot[at] \in Nat /\ Buf - rgot[at] > 0
    BY <1>2, Numbers
  <2>2. k \in 0..(Buf - rgot[at]) /\ off + k \in 0..file.length /\ (k = 0 => off = file.length)
    BY <1>2, <2>1, PortionIs
  <2> QED
    BY <1>2, <1>3, <2>1, <2>2, Numbers
<1>6. rgot'[at] = rgot[at] + k /\ rgot' \in [AllFiles -> 0..Buf]
  <2>1. rgot[at] + k \in 0..Buf
    <3>1. rgot[at] \in Nat /\ k \in Nat /\ rgot[at] + k <= Buf
      BY <1>2, <1>5
    <3>2. Buf \in Nat
      BY Numbers
    <3> QED
      BY ONLY <3>1, <3>2
  <2>2. rgot \in [AllFiles -> 0..Buf] /\ at \in AllFiles /\ rgot' = [rgot EXCEPT ![at] = rgot[at] + k]
    BY <1>1, <1>3 DEF Types
  <2> QED
    BY <2>1, <2>2
<1>7. PICK p : p = IF k = 0 \/ rgot'[at] = Buf THEN "twist" ELSE "read"
  OBVIOUS
<1>8. p \in Active /\ p \in {"read", "twist"} /\ mpc # "join"
  BY <1>1, <1>2, <1>7 DEF Active, AtWork
<1>9. /\ Threads' /\ Working' /\ Reading' /\ AtWork' /\ InBuffer' /\ rpc'[at] = p /\ file' = file
      /\ rpc' \in [AllFiles -> Active \union {"none", "joined"}]
  BY <1>1, <1>2, <1>3, <1>4, <1>5, <1>7, <1>8, ReaderFrame DEF Reading, AllFiles
<1>10. /\ bufs' \in [{0, 1} -> [Slots -> Int \X Int]]
       /\ bufs'[1 - inWhich] = bufs[1 - inWhich]
       /\ \A s \in Slots : bufs'[inWhich][s] =
            IF s \in rgot[at]..(rgot[at] + k - 1) THEN <<at, off + s - rgot[at]>> ELSE bufs[inWhich][s]
  <2>1. bufs \in [{0, 1} -> [Slots -> Int \X Int]]
    BY <1>1 DEF Types
  <2>2. Filled(bufs[inWhich], rgot[at], k) =
          [s \in Slots |-> IF s \in rgot[at]..(rgot[at] + k - 1) THEN <<at, off + s - rgot[at]>>
                           ELSE bufs[inWhich][s]]
    BY DEF Filled
  <2>3. \A s \in Slots : <<at, off + s - rgot[at]>> \in Int \X Int
    <3>1. at \in Int /\ off \in Int /\ rgot[at] \in Int
      BY <1>2, Numbers DEF AllFiles
    <3>2. \A s \in Slots : s \in Int
      BY Numbers
    <3> QED
      BY <3>1, <3>2
  <2>4. Filled(bufs[inWhich], rgot[at], k) \in [Slots -> Int \X Int]
    BY <1>2, <2>1, <2>2, <2>3
  <2>5. bufs'[inWhich] = Filled(bufs[inWhich], rgot[at], k) /\ bufs'[1 - inWhich] = bufs[1 - inWhich]
        /\ bufs' \in [{0, 1} -> [Slots -> Int \X Int]]
    BY <1>2, <1>3, <2>1, <2>4
  <2> QED
    BY <2>2, <2>5
<1>11. Types'
  <2>1. off' \in Int
    BY <1>2, <1>5
  <2>2. bufs' \in [{0, 1} -> [Slots -> Int \X Int]]
    BY <1>10
  <2> QED
    BY <1>1, <1>4, <1>6, <1>9, <2>1, <2>2 DEF Types
<1>12. Had' = Had /\ Had \in Nat
  BY <1>1, <1>4, Numbers DEF Had, Types
<1>13. off = Had + rgot[at] /\ \A s \in 0..(rgot[at] - 1) : bufs[inWhich][s] = <<at, Had + s>>
  BY <1>1, <1>2 DEF ReaderOK
<1>14. off' = Had + rgot'[at] /\ \A s \in 0..(rgot'[at] - 1) : bufs'[inWhich][s] = <<at, Had + s>>
  <2>1. ASSUME NEW s \in 0..(rgot'[at] - 1)
        PROVE  bufs'[inWhich][s] = <<at, Had + s>>
    <3>1. s \in Slots /\ s \in Nat
      BY <1>2, <1>5, <1>6, Numbers
    <3>2. CASE s \in rgot[at]..(rgot[at] + k - 1)
      <4>1. bufs'[inWhich][s] = <<at, off + s - rgot[at]>>
        BY <1>10, <3>1, <3>2
      <4>2. off + s - rgot[at] = Had + s
        BY <1>2, <1>12, <1>13, <3>1
      <4> QED
        BY <4>1, <4>2
    <3>3. CASE s \notin rgot[at]..(rgot[at] + k - 1)
      <4>1. s \in 0..(rgot[at] - 1)
        BY <1>2, <1>5, <1>6, <3>1, <3>3
      <4> QED
        BY <1>10, <1>13, <3>1, <3>3, <4>1
    <3> QED
      BY <3>2, <3>3
  <2> QED
    BY <1>2, <1>3, <1>5, <1>6, <1>12, <1>13, <2>1
<1>15. ReaderOK'
  <2>1. p = "twist" => rgot'[at] = Buf \/ off' = file.length
    BY <1>5, <1>7
  <2>2. p = "read" => rgot'[at] < Buf
    BY <1>2, <1>5, <1>6, <1>7, Numbers
  <2>3. lockVal[at] = 1 /\ loadState = at /\ (mpc = "loaded" /\ inLeft > 0 => inNext[1] = 1 - inWhich)
    BY <1>1, <1>2 DEF ReaderOK, Requested
  <2> QED
    BY <1>2, <1>4, <1>8, <1>9, <1>12, <1>14, <2>1, <2>2, <2>3 DEF ReaderOK, Ready, Requested
<1>16. BufferOK'
  <2>1. mpc = "loaded" /\ inLeft > 0 => bufs'[inNext[1]] = bufs[inNext[1]]
    BY <1>1, <1>8, <1>10 DEF ReaderOK
  <2>2. inLeft = 0 => 0..(inLeft - 1) = {}
    OBVIOUS
  <2>3. inLeft \in Nat
    BY <1>1, Numbers DEF Types
  <2>4. mpc = "loaded" => inLeft = 0 \/ bufs'[inNext[1]] = bufs[inNext[1]]
    BY <2>1, <2>3
  <2>5. mpc = "loaded" => \A s \in 0..(inLeft - 1) :
          bufs[inNext[1]][inNext[2] + s] = <<at, taken + s>>
            => bufs'[inNext[1]][inNext[2] + s] = <<at, taken + s>>
    BY <2>2, <2>4
  <2> QED
    BY <1>1, <1>4, <1>8, <1>9, <1>12, <2>5 DEF BufferOK
<1>17. TailOK'
  BY <1>1, <1>4, <1>9 DEF TailOK
<1> QED
  BY <1>9, <1>11, <1>15, <1>16, <1>17 DEF IInv, FileOK

LEMMA ReadTwistKeeps ==
  ASSUME IInv, NEW f \in AllFiles, ReadTwist(f)
  PROVE  IInv'
<1>1. /\ f = at /\ at > 0 /\ Working /\ Reading /\ AtWork /\ mpc \notin {"seek", "listed"}
      /\ ReaderOK /\ BufferOK /\ TailOK /\ Types /\ Threads /\ at \in AllFiles /\ file.length \in Nat
  BY ReaderAt DEF ReadTwist, Active
<1>2. /\ rpc[at] = "twist" /\ Requested /\ rwhich[at] = inWhich /\ loadState = at /\ at \in AllFiles
      /\ rgot[at] \in 0..Buf /\ (rgot[at] = Buf \/ off = file.length)
  BY <1>1, FileIs DEF ReadTwist, ReaderOK, Types
<1>3. PICK p : p = IF rgot[at] = Buf THEN "loop" ELSE "ended"
  OBVIOUS
<1>4. /\ rpc' = [rpc EXCEPT ![at] = p] /\ lockVal' = [lockVal EXCEPT ![at] = 0] /\ inLen' = rgot[at]
      /\ UNCHANGED <<files, at, cthreads, caught, off, bufs, inWhich, inLeft, inNext, inShort, inEof,
                     loadState, rlock, rwhich, rgot, taken, tail, kept, mpc>>
  BY <1>1, <1>2, <1>3 DEF ReadTwist, MoreToRead, fileVars, useVars
<1>5. p \in Active /\ mpc # "join" /\ off \in 0..file.length
  BY <1>1, <1>2, <1>3 DEF Active, AtWork
<1>6. /\ Threads' /\ Working' /\ Reading' /\ AtWork' /\ InBuffer' /\ rpc'[at] = p /\ file' = file
      /\ rpc' \in [AllFiles -> Active \union {"none", "joined"}]
  BY <1>1, <1>2, <1>4, <1>5, ReaderFrame DEF Reading
<1>7. lockVal' \in [AllFiles -> {-1, 0, 1}] /\ lockVal'[at] = 0
  BY <1>1, <1>2, <1>4 DEF Types
<1>8. Types'
  BY <1>1, <1>2, <1>4, <1>6, <1>7 DEF Types
<1>9. Had' = Had
  BY <1>4 DEF Had
<1>10. off = Had + rgot[at] /\ \A s \in 0..(rgot[at] - 1) : bufs[inWhich][s] = <<at, Had + s>>
  BY <1>1, <1>2 DEF ReaderOK
<1>11. ReaderOK'
  BY <1>1, <1>2, <1>3, <1>4, <1>5, <1>6, <1>7, <1>9, <1>10, Numbers DEF ReaderOK, Ready, Requested
<1>12. BufferOK' /\ TailOK'
  BY <1>1, <1>4, <1>6, <1>9 DEF BufferOK, TailOK
<1> QED
  BY <1>6, <1>8, <1>11, <1>12 DEF IInv, FileOK


-----------------------------------------------------------------------------
(* The main thread: load()                                                 *)

LEMMA AtFile ==
  ASSUME IInv, Working
  PROVE  /\ at > 0 /\ at \in AllFiles /\ file.length \in Nat /\ Types /\ Threads /\ AtWork /\ TailOK
         /\ mpc \notin {"seek", "listed"} => (Reading => ReaderOK) /\ BufferOK
         /\ ReadToEnd /\ file.threads =>
              file.use \in {"compress", "whole"} \/ (file.use = "list" /\ ~file.seek) \/ file.length < Buf
<1>1. at > 0 /\ Types /\ Threads /\ AtWork /\ TailOK
  BY DEF IInv, FileOK, AtWork
<1>2. mpc \notin {"seek", "listed"} => (Reading => ReaderOK) /\ BufferOK
  BY DEF IInv, FileOK
<1> QED
  BY <1>1, <1>2, FileIs

(* What the decoder had is not after what is read.                         *)
LEMMA Ahead ==
  ASSUME IInv, Working, mpc \notin {"seek", "listed"}
  PROVE  Had \in Nat /\ Had <= off /\ off <= file.length
<1>1. /\ file.length \in Nat /\ Types /\ AtWork /\ (Reading => ReaderOK) /\ BufferOK /\ at \in AllFiles
  BY AtFile
<1>2. Had \in Nat /\ off \in 0..file.length
  BY <1>1, Numbers DEF Had, Types, AtWork
<1>3. CASE ~Reading
  BY <1>1, <1>2, <1>3 DEF BufferOK
<1>4. CASE Reading
  <2>1. inLen \in Nat /\ rgot[at] \in Nat
    BY <1>1, Numbers DEF Types
  <2>2. lockVal[at] \in {0, 1} /\ rpc[at] \in Active
    BY <1>1, <1>4 DEF ReaderOK, Reading
  <2>3. CASE mpc = "join"
    BY <1>1, <1>2, <1>4, <2>3 DEF ReaderOK
  <2>4. CASE mpc # "join" /\ lockVal[at] = 0
    BY <1>1, <1>2, <1>4, <2>1, <2>4 DEF ReaderOK, Ready
  <2>5. CASE mpc # "join" /\ lockVal[at] = 1
    <3>1. rpc[at] \in {"loop", "wait"} \/ rpc[at] \in {"read", "twist"}
      BY <1>1, <1>4, <2>2, <2>5 DEF ReaderOK, Active
    <3>2. off = Had \/ off = Had + rgot[at]
      BY <1>1, <1>4, <2>5, <3>1 DEF ReaderOK, Requested
    <3> QED
      BY <1>2, <2>1, <3>2
  <2> QED
    BY <2>2, <2>3, <2>4, <2>5
<1> QED
  BY <1>3, <1>4

LEMMA OpenKeeps ==
  ASSUME IInv, Open
  PROVE  IInv'
<1>1. /\ mpc = "next" /\ at < Len(files) /\ at' = at + 1 /\ taken' = 0 /\ tail' = <<>> /\ kept' = -1
      /\ UNCHANGED <<files, caught, bufs, inLen, inNext, loadState, lockVal, rpc, rlock, rwhich, rgot>>
      /\ Types /\ Threads /\ off = -1 /\ \A f \in AllFiles : rpc[f] \notin Active
  BY DEF Open, lockVars, readVars, IInv, Threads
<1>2. files \in Seq(FileType) /\ Len(files) <= MaxFiles /\ at \in 0..Len(files) /\ Len(files) \in Nat
  BY <1>1, LoadAssumption DEF Types
<1>3. /\ at' \in 0..Len(files') /\ at' > 0 /\ at' \in AllFiles /\ rpc[at'] = "none"
      /\ file' \in FileType /\ file' = files[at + 1] /\ \A f \in AllFiles : f > at' => f > at
  <2>1. at + 1 \in DOMAIN files /\ at + 1 \in AllFiles /\ at + 1 > at
    BY <1>1, <1>2, Numbers DEF AllFiles
  <2>2. rpc[at + 1] = "none"
    BY <1>1, <2>1 DEF Threads
  <2>3. files[at + 1] \in FileType
    BY <1>2, <2>1
  <2>4. \A f \in AllFiles : f > at + 1 => f > at
    BY <1>2, <2>1 DEF AllFiles
  <2> QED
    BY <1>1, <1>2, <2>1, <2>2, <2>3, <2>4 DEF file
<1>4a. kept' \in -1..Trailer /\ taken' \in Nat /\ at' \in 0..Len(files')
  BY <1>1, <1>3, Numbers
<1>4. CASE files[at + 1].use = "compress"
  <2>1. cthreads' = 1 /\ UNCHANGED <<off, mpc, inWhich, inLeft, inShort, inEof>>
    BY <1>4 DEF Open
  <2>2. InBuffer'
    BY <1>1, <2>1 DEF Types, InBuffer
  <2>3. Types'
    BY <1>4a, <1>1, <2>1, <2>2 DEF Types
  <2>4. Threads' /\ ~Working'
    BY <1>1, <1>3, <2>1 DEF Threads, Working
  <2> QED
    BY <2>3, <2>4 DEF IInv, FileOK
<1>5. CASE files[at + 1].use # "compress"
  <2>1. /\ off' = 0 /\ mpc' = "load" /\ inWhich' = -1 /\ inLeft' = 0 /\ inShort' = FALSE /\ inEof' = FALSE
        /\ cthreads' = cthreads
    BY <1>5 DEF Open
  <2>2. InBuffer' /\ inLeft' \in 0..Buf /\ off' \in Int /\ inShort' \in BOOLEAN /\ inEof' \in BOOLEAN
    <3>1. inNext \in {0, 1} \X Nat /\ inNext[2] + inLeft <= Buf /\ inLeft \in Nat
      BY <1>1, Numbers DEF Types, InBuffer
    <3>2. inNext[2] \in Nat /\ inNext'[2] = inNext[2]
      BY <1>1, <3>1
    <3>3. inNext'[2] + 0 <= Buf
      BY <3>1, <3>2, Numbers
    <3>4. InBuffer'
      BY <2>1, <3>3 DEF InBuffer
    <3>5. inLeft' \in 0..Buf /\ off' \in Int
      BY <2>1, Numbers
    <3>6. inShort' \in BOOLEAN /\ inEof' \in BOOLEAN
      BY <2>1
    <3> QED
      BY <3>4, <3>5, <3>6
  <2>3. Types'
    BY <1>4a, <1>1, <2>1, <2>2 DEF Types
  <2>4. Threads'
    BY <1>1, <1>3, <2>1 DEF Threads
  <2>5. file'.length \in Nat /\ rpc'[at'] = "none" /\ ~Reading'
    BY <1>1, <1>3 DEF FileType, Reading, Active
  <2>6. AtWork'
    BY <1>3, <1>5, <2>1, <2>5, <1>1 DEF AtWork, Active
  <2>7. BufferOK' /\ TailOK'
    BY <1>1, <2>1, Numbers DEF BufferOK, TailOK, Had, Loading
  <2> QED
    BY <2>3, <2>4, <2>5, <2>6, <2>7 DEF IInv, FileOK
<1> QED
  BY <1>4, <1>5

LEMMA LoadNothingKeeps ==
  ASSUME IInv, LoadNothing
  PROVE  IInv'
<1>1. /\ mpc = "load" /\ inShort /\ inEof' = TRUE /\ inLeft' = 0 /\ mpc' = "loaded"
      /\ UNCHANGED <<files, at, cthreads, caught, off, bufs, inWhich, inLen, inNext, inShort, loadState,
                     lockVal, rpc, rlock, rwhich, rgot, taken, tail, kept>>
  BY DEF LoadNothing, fileVars, lockVars, readVars, useVars
<1>2. Working
  BY <1>1 DEF Working
<1>3. /\ at > 0 /\ at \in AllFiles /\ file.length \in Nat /\ Types /\ Threads /\ AtWork /\ TailOK /\ BufferOK
  BY <1>1, <1>2, AtFile
<1>4. InBuffer' /\ inLeft' \in 0..Buf
  <2>1. inNext[2] \in Nat /\ inLeft \in Nat /\ inNext[2] + inLeft <= Buf
    BY <1>3, Counts
  <2>2. inNext[2] + 0 <= Buf /\ 0 \in 0..Buf
    BY <2>1, Numbers
  <2> QED
    BY <1>1, <2>2 DEF InBuffer
<1>5. Types'
  BY <1>1, <1>3, <1>4 DEF Types
<1>6. Threads' /\ file' = file /\ (Reading' <=> Reading) /\ ~Reading
  BY <1>1, <1>3 DEF Threads, file, Reading, AtWork
<1>7. AtWork'
  BY <1>1, <1>3, <1>6 DEF AtWork
<1>8. Had' = Had /\ Had = file.length
  BY <1>1, <1>3 DEF Had, Loading, BufferOK, Types
<1>9. BufferOK' /\ TailOK'
  BY <1>1, <1>3, <1>6, <1>8, Numbers DEF BufferOK, TailOK, Loading
<1> QED
  BY <1>5, <1>6, <1>7, <1>9 DEF IInv, FileOK

LEMMA LoadLaunchKeeps ==
  ASSUME IInv, LoadLaunch
  PROVE  IInv'
<1>1. /\ mpc = "load" /\ ~inShort /\ file.threads /\ mpc' = "wait"
      /\ UNCHANGED <<files, at, cthreads, caught, off, bufs, inLen, inLeft, inNext, inShort, inEof, rlock,
                     rwhich, rgot, taken, tail, kept>>
  BY DEF LoadLaunch, fileVars, useVars
<1>2. Working
  BY <1>1 DEF Working
<1>3. /\ at > 0 /\ at \in AllFiles /\ file.length \in Nat /\ Types /\ Threads /\ AtWork /\ TailOK /\ BufferOK
      /\ (Reading => ReaderOK)
  BY <1>1, <1>2, AtFile
<1>4. InBuffer' /\ file' = file /\ Had' = Had /\ ~inEof /\ Had \in Nat
  BY <1>1, <1>3, Numbers DEF Types, InBuffer, file, Had, Loading, AtWork
<1>5. CASE inWhich # -1
  <2>1. UNCHANGED <<inWhich, loadState, lockVal, rpc>>
    BY <1>5 DEF LoadLaunch, lockVars
  <2>2. Types' /\ Threads'
    BY <1>1, <1>3, <1>4, <2>1 DEF Types, Threads
  <2>3. Reading /\ Reading'
    BY <1>1, <1>3, <1>5, <2>1 DEF AtWork, Reading
  <2>4. AtWork'
    BY <1>1, <1>3, <1>4, <2>1, <2>3 DEF AtWork
  <2>5. ReaderOK'
    BY <1>1, <1>3, <1>4, <2>1, <2>3 DEF ReaderOK, Requested, Ready
  <2>6. BufferOK' /\ TailOK'
    BY <1>1, <1>3, <1>4, <2>1, <2>3 DEF BufferOK, TailOK, Loading
  <2> QED
    BY <2>2, <2>4, <2>5, <2>6 DEF IInv, FileOK
<1>6. CASE inWhich = -1
  <2>1. inWhich' = 1 /\ loadState' = at /\ lockVal' = [lockVal EXCEPT ![at] = 1]
        /\ rpc' = [rpc EXCEPT ![at] = "loop"]
    BY <1>6 DEF LoadLaunch
  <2>2. /\ lockVal' \in [AllFiles -> {-1, 0, 1}] /\ lockVal'[at] = 1 /\ rpc'[at] = "loop"
        /\ \A g \in AllFiles : g # at => rpc'[g] = rpc[g]
        /\ rpc' \in [AllFiles -> Active \union {"none", "joined"}] /\ at \in 0..MaxFiles
    <3>1. at \in 0..MaxFiles
      BY <1>3, Numbers DEF AllFiles
    <3> QED
      BY <1>3, <2>1, <3>1 DEF Types, Active
  <2>3. Types'
    BY <1>1, <1>3, <1>4, <2>1, <2>2 DEF Types
  <2>4. Threads'
    <3>1. \A g \in AllFiles : g > at => g # at
      BY DEF AllFiles
    <3> QED
      BY <1>1, <1>3, <2>2, <3>1 DEF Threads
  <2>5. Reading' /\ ~Reading
    BY <1>1, <1>3, <1>6, <2>2 DEF AtWork, Reading, Active
  <2>6. AtWork'
    BY <1>1, <1>3, <1>4, <2>1, <2>5 DEF AtWork
  <2>7. ReaderOK'
    BY <1>1, <1>3, <1>4, <2>1, <2>2, <2>5 DEF ReaderOK, Requested, Ready, BufferOK
  <2>8. BufferOK' /\ TailOK'
    BY <1>1, <1>3, <1>4, <2>1, <2>5 DEF BufferOK, TailOK, Loading
  <2> QED
    BY <2>3, <2>4, <2>6, <2>7, <2>8 DEF IInv, FileOK
<1> QED
  BY <1>5, <1>6


LEMMA LoadTakeKeeps ==
  ASSUME IInv, LoadTake
  PROVE  IInv'
<1>1. /\ mpc = "wait" /\ lockVal[loadState] = 0 /\ inLeft' = inLen
      /\ inNext' = <<IF inWhich # 0 THEN 1 ELSE 0, 0>>
      /\ UNCHANGED <<files, at, cthreads, caught, off, bufs, inLen, inShort, inEof, loadState, rpc, rlock,
                     rwhich, rgot, taken, tail, kept>>
  BY DEF LoadTake, ReadDone, fileVars, readVars, useVars
<1>2. Working
  BY <1>1 DEF Working
<1>3. /\ at > 0 /\ at \in AllFiles /\ file.length \in Nat /\ Types /\ Threads /\ AtWork /\ TailOK /\ BufferOK
      /\ (Reading => ReaderOK)
  BY <1>1, <1>2, AtFile
<1>4. /\ Reading /\ ReaderOK /\ inWhich \in {0, 1} /\ loadState = at /\ lockVal[at] = 0 /\ inNext' = <<inWhich, 0>>
      /\ ~inShort /\ ~inEof /\ file.threads
  BY <1>1, <1>3 DEF AtWork, ReaderOK, Types, Reading, Active
<1>5. /\ Had = taken /\ off = taken + inLen
      /\ \A s \in 0..(inLen - 1) : bufs[inWhich][s] = <<at, taken + s>>
  <2>1. Had = taken /\ Ready
    BY <1>1, <1>3, <1>4, Numbers DEF Had, Loading, Types, Ready
  <2> QED
    BY <1>4, <2>1 DEF ReaderOK
<1>6. \A s \in 0..(inLeft' - 1) : bufs'[inNext'[1]][inNext'[2] + s] = <<at', taken' + s>>
  BY <1>1, <1>4, <1>5
<1>7. inNext' \in {0, 1} \X Nat /\ inNext'[1] = inWhich /\ inNext'[2] = 0 /\ inLeft' \in 0..Buf /\ InBuffer'
  <2>1. inNext' \in {0, 1} \X Nat /\ inNext'[1] = inWhich /\ inNext'[2] = 0
    BY <1>4
  <2>2. inLeft' \in 0..Buf /\ 0 + inLeft' <= Buf
    BY <1>1, <1>3, Numbers DEF Types
  <2> QED
    BY <2>1, <2>2 DEF InBuffer
<1>8. file' = file /\ Reading' /\ TailOK' /\ inLen \in Nat /\ taken \in Nat
  <2>1. file' = file /\ Reading' /\ inLen \in Nat /\ taken \in Nat
    BY <1>1, <1>3, <1>4, Numbers DEF file, Reading, Types
  <2>2. mpc' # "listed"
    BY DEF LoadTake
  <2> QED
    BY <1>1, <1>3, <2>1, <2>2 DEF TailOK
<1>9. CASE inLen = Buf
  <2>1. inWhich' = 1 - inWhich /\ lockVal' = [lockVal EXCEPT ![at] = 1] /\ mpc' = "loaded"
    BY <1>4, <1>9 DEF LoadTake, Other
  <2>2. lockVal' \in [AllFiles -> {-1, 0, 1}] /\ lockVal'[at] = 1 /\ inWhich' \in {0, 1}
    BY <1>3, <1>4, <2>1 DEF Types
  <2>3. Types' /\ Threads'
    BY <1>1, <1>3, <1>7, <2>1, <2>2 DEF Types, Threads
  <2>4. AtWork'
    BY <1>1, <1>3, <1>4, <1>8, <2>1, <2>2 DEF AtWork
  <2>5. rpc[at] \in {"loop", "wait"}
    BY <1>3, <1>4, <1>9, Numbers DEF ReaderOK, Requested, Reading, Active
  <2>6. Had' = taken + Buf /\ off = taken + Buf
    BY <1>1, <1>5, <1>9, <2>1 DEF Had, Loading
  <2>7. inNext'[1] = 1 - inWhich'
    BY <1>4, <1>7, <2>1
  <2>8. ReaderOK'
    BY <1>1, <1>3, <1>4, <2>1, <2>2, <2>5, <2>6, <2>7 DEF ReaderOK, Requested, Ready
  <2>9. BufferOK'
    BY <1>1, <1>4, <1>6, <1>8, <1>9, <2>1, <2>6, Numbers DEF BufferOK, Loading
  <2> QED
    BY <1>8, <2>3, <2>4, <2>8, <2>9 DEF IInv, FileOK
<1>10. CASE inLen # Buf
  <2>1. UNCHANGED <<inWhich, lockVal>> /\ mpc' = "join" /\ inLen < Buf
    BY <1>3, <1>10, Numbers DEF LoadTake, Types
  <2>2. rpc[at] = "ended"
    BY <1>3, <1>4, <1>10 DEF ReaderOK, Requested, Reading, Active
  <2>3. Types' /\ Threads'
    BY <1>1, <1>3, <1>7, <2>1 DEF Types, Threads
  <2>4. AtWork'
    BY <1>1, <1>3, <1>4, <1>8, <2>1, <2>2 DEF AtWork
  <2>5. Had' = taken + inLen
    BY <1>1, <2>1 DEF Had, Loading
  <2>6. ReaderOK'
    BY <1>1, <1>3, <1>4, <1>5, <1>8, <2>1, <2>2, <2>5 DEF ReaderOK, Requested, Ready
  <2>7. BufferOK'
    BY <1>1, <1>4, <1>6, <1>8, <2>1 DEF BufferOK, Loading
  <2> QED
    BY <1>8, <2>3, <2>4, <2>6, <2>7 DEF IInv, FileOK
<1> QED
  BY <1>9, <1>10

LEMMA LoadJoinKeeps ==
  ASSUME IInv, LoadJoin
  PROVE  IInv'
<1>1. /\ mpc = "join" /\ rpc[at] = "ended" /\ rpc' = [rpc EXCEPT ![at] = "joined"]
      /\ lockVal' = [lockVal EXCEPT ![loadState] = -1] /\ inWhich' = -1
      /\ mpc' = "loaded" /\ inShort' = TRUE
      /\ UNCHANGED <<files, at, cthreads, caught, off, bufs, inLen, inLeft, inNext, loadState, rlock, rwhich, rgot,
                     taken, tail, kept>>
  BY DEF LoadJoin, Short, fileVars, useVars
<1>2. Working
  BY <1>1 DEF Working
<1>3. /\ at > 0 /\ at \in AllFiles /\ file.length \in Nat /\ Types /\ Threads /\ AtWork /\ TailOK /\ BufferOK
      /\ (Reading => ReaderOK)
  BY <1>1, <1>2, AtFile
<1>4. Reading /\ ReaderOK /\ loadState = at /\ inLeft < Buf /\ off = Had /\ off = file.length
  BY <1>1, <1>3 DEF AtWork, ReaderOK, Reading, Active
<1>5. /\ lockVal' \in [AllFiles -> {-1, 0, 1}] /\ rpc'[at] = "joined"
      /\ rpc' \in [AllFiles -> Active \union {"none", "joined"}]
      /\ \A g \in AllFiles : g # at => rpc'[g] = rpc[g]
  BY <1>1, <1>3, <1>4 DEF Types
<1>6. inEof' \in BOOLEAN /\ (inEof' <=> inLeft' = 0) /\ inShort' \in BOOLEAN
  BY <1>1 DEF LoadJoin, Short
<1>7. InBuffer' /\ file' = file /\ Had' = Had /\ ~Reading'
  BY <1>1, <1>3, <1>5 DEF Types, InBuffer, file, Had, Loading, Reading, Active
<1>8. Types'
  BY <1>1, <1>3, <1>5, <1>6, <1>7 DEF Types
<1>9. Threads'
  <2>1. \A g \in AllFiles : g > at => g # at
    BY DEF AllFiles
  <2> QED
    BY <1>1, <1>3, <1>5, <2>1 DEF Threads, Active
<1>10. AtWork'
  BY <1>1, <1>3, <1>5, <1>6, <1>7 DEF AtWork, Active
<1>11. BufferOK' /\ TailOK'
  BY <1>1, <1>3, <1>4, <1>7 DEF BufferOK, TailOK, Loading
<1> QED
  BY <1>7, <1>8, <1>9, <1>10, <1>11 DEF IInv, FileOK

LEMMA LoadSingleKeeps ==
  ASSUME IInv, LoadSingle
  PROVE  IInv'
<1>1. PICK n : n = MinOf(Buf, file.length - off)
  OBVIOUS
<1>2. /\ mpc = "load" /\ ~inShort /\ ~file.threads /\ inLeft' = n /\ off' = off + n
      /\ bufs' = [bufs EXCEPT ![1] = Filled(bufs[1], 0, n)]
      /\ inNext' = <<1, 0>> /\ mpc' = "loaded"
      /\ UNCHANGED <<files, at, cthreads, caught, inWhich, inLen, loadState, lockVal, rpc, rlock, rwhich, rgot,
                     taken, tail, kept>>
      /\ IF n < Buf THEN Short ELSE UNCHANGED <<inShort, inEof>>
  BY <1>1 DEF LoadSingle, fileVars, lockVars, readVars, useVars
<1>3. Working
  BY <1>2 DEF Working
<1>4. /\ at > 0 /\ at \in AllFiles /\ file.length \in Nat /\ Types /\ Threads /\ AtWork /\ TailOK /\ BufferOK
  BY <1>2, <1>3, AtFile
<1>5. ~Reading /\ rpc[at] = "none" /\ off = Had /\ Had = taken /\ off \in 0..file.length /\ ~inEof /\ inWhich = -1
      /\ taken \in Nat
  <2>1. Had = taken /\ taken \in Nat
    BY <1>2, <1>4, Numbers DEF Had, Types, Loading
  <2> QED
    BY <1>2, <1>4, <2>1 DEF AtWork, Reading, Active, BufferOK
<1>6. n \in 0..Buf /\ n \in Nat /\ off + n \in 0..file.length /\ (n < Buf => off + n = file.length)
  BY <1>1, <1>4, <1>5, Numbers DEF MinOf
<1>7. /\ bufs' \in [{0, 1} -> [Slots -> Int \X Int]]
      /\ \A s \in 0..(n - 1) : bufs'[1][s] = <<at, taken + s>>
  <2>1. Filled(bufs[1], 0, n) =
          [s \in Slots |-> IF s \in 0..(0 + n - 1) THEN <<at, off + s - 0>> ELSE bufs[1][s]]
    BY DEF Filled
  <2>2. bufs \in [{0, 1} -> [Slots -> Int \X Int]]
    BY <1>4 DEF Types
  <2>3. \A s \in Slots : s \in Int /\ <<at, off + s - 0>> \in Int \X Int
    BY <1>4, <1>5, Numbers DEF AllFiles
  <2>4. Filled(bufs[1], 0, n) \in [Slots -> Int \X Int]
    BY <2>1, <2>2, <2>3
  <2>5. \A s \in 0..(n - 1) : s \in Slots /\ s \in 0..(0 + n - 1) /\ off + s - 0 = taken + s
    BY <1>5, <1>6, Numbers
  <2> QED
    BY <1>2, <2>1, <2>2, <2>4, <2>5
<1>8. InBuffer' /\ inNext' \in {0, 1} \X Nat /\ inNext'[1] = 1 /\ inNext'[2] = 0
  BY <1>2, <1>6, Numbers DEF InBuffer
<1>9. /\ inShort' \in BOOLEAN /\ inEof' \in BOOLEAN /\ (inShort' <=> n < Buf)
      /\ (inEof' => inShort' /\ inLeft' = 0)
  BY <1>2, <1>4, <1>5 DEF Types, Short
<1>10. Types'
  <2>1. off' \in Int /\ inLeft' \in 0..Buf
    BY <1>2, <1>6
  <2> QED
    BY <1>2, <1>4, <1>7, <1>8, <1>9, <2>1 DEF Types
<1>11. Threads' /\ file' = file /\ ~Reading'
  BY <1>2, <1>4, <1>5 DEF Threads, file, Reading
<1>12. AtWork'
  BY <1>2, <1>4, <1>5, <1>6, <1>9, <1>11 DEF AtWork, Active
<1>13. Had' = taken + n /\ off' = taken + n
  BY <1>2, <1>5 DEF Had, Loading
<1>14. BufferOK'
  <2>1. \A s \in 0..(inLeft' - 1) : bufs'[inNext'[1]][inNext'[2] + s] = <<at', taken' + s>>
    BY <1>2, <1>7, <1>8
  <2>2. ~inShort' => Had' >= Buf /\ inLeft' = Buf
    BY <1>2, <1>5, <1>6, <1>9, <1>13, Numbers
  <2> QED
    BY <1>2, <1>5, <1>6, <1>9, <1>11, <1>13, <2>1, <2>2 DEF BufferOK, Loading
<1>15. TailOK'
  BY <1>2, <1>4, <1>11 DEF TailOK
<1> QED
  BY <1>10, <1>11, <1>12, <1>14, <1>15 DEF IInv, FileOK


-----------------------------------------------------------------------------
(* The main thread: the callers of load(), and the end of the program      *)

(* The n bytes of the file from the i-th of what is left on.               *)
LEMMA InBytesAre ==
  ASSUME IInv, mpc = "loaded", NEW i \in Nat, NEW n \in Nat, i + n <= inLeft
  PROVE  InBytes(i, n) = [k \in 1..n |-> <<at, taken + i + k - 1>>]
<1>1. inNext[2] \in Nat /\ taken \in Nat /\ inLeft \in Nat /\ BufferOK
  <2>1. Types /\ BufferOK
    BY AtFile DEF Working
  <2> QED
    BY <2>1, Numbers DEF Types
<1>2. InBytes(i, n) = [k \in 1..n |-> bufs[inNext[1]][inNext[2] + i + k - 1]]
  BY DEF InBytes, Bytes
<1>3. ASSUME NEW k \in 1..n
      PROVE  bufs[inNext[1]][inNext[2] + i + k - 1] = <<at, taken + i + k - 1>>
  <2>1. i + k - 1 \in 0..(inLeft - 1)
    BY <1>1
  <2>2. bufs[inNext[1]][inNext[2] + (i + k - 1)] = <<at, taken + (i + k - 1)>>
    BY <1>1, <2>1 DEF BufferOK
  <2>3. inNext[2] + (i + k - 1) = inNext[2] + i + k - 1 /\ taken + (i + k - 1) = taken + i + k - 1
    BY <1>1, <2>1
  <2> QED
    BY <2>2, <2>3
<1> QED
  BY <1>2, <1>3

LEMMA SeqOf ==
  ASSUME NEW S, NEW n \in Nat, NEW s \in [1..n -> S]
  PROVE  s \in Seq(S) /\ Len(s) = n
OBVIOUS

LEMMA TakeKeeps ==
  ASSUME IInv, Take
  PROVE  IInv'
<1>1. /\ mpc = "loaded" /\ kept = -1 /\ inLeft > 0 /\ inLeft' = inLeft - 1 /\ taken' = taken + 1
      /\ inNext' = [inNext EXCEPT ![2] = inNext[2] + 1]
      /\ UNCHANGED <<files, at, cthreads, caught, off, bufs, inWhich, inLen, inShort, inEof, loadState, lockVal,
                     rpc, rlock, rwhich, rgot, tail, kept, mpc>>
  BY DEF Take, fileVars, lockVars, readVars
<1>2. Working
  BY <1>1 DEF Working
<1>3. /\ at > 0 /\ at \in AllFiles /\ file.length \in Nat /\ Types /\ Threads /\ AtWork /\ TailOK /\ BufferOK
      /\ (Reading => ReaderOK)
  BY <1>1, <1>2, AtFile
<1>4. inLeft \in 0..Buf /\ taken \in Nat /\ inNext \in {0, 1} \X Nat /\ inNext[2] + inLeft <= Buf /\ inNext[2] \in Nat
  BY <1>3, Numbers DEF Types, InBuffer
<1>5. inNext' = <<inNext[1], inNext[2] + 1>> /\ inNext'[1] = inNext[1] /\ inNext'[2] = inNext[2] + 1
  BY <1>1, <1>4
<1>6. inNext' \in {0, 1} \X Nat /\ InBuffer' /\ inLeft' \in 0..Buf /\ taken' \in Nat
  <2>1. inNext' \in {0, 1} \X Nat
    BY <1>4, <1>5
  <2> QED
    BY <1>1, <1>4, <1>5, <2>1, Numbers DEF InBuffer
<1>7. Types' /\ Threads' /\ file' = file
  BY <1>1, <1>3, <1>6 DEF Types, Threads, file
<1>8. Had' = Had /\ (Reading' <=> Reading) /\ ~inEof
  BY <1>1, <1>3, <1>4 DEF Had, Reading, Loading, AtWork
<1>9. AtWork'
  BY <1>1, <1>3, <1>7, <1>8 DEF AtWork
<1>10. Reading => ReaderOK'
  BY <1>1, <1>3, <1>5, <1>7, <1>8 DEF ReaderOK, Requested, Ready
<1>11. BufferOK'
  <2>1. ASSUME NEW s \in 0..(inLeft' - 1)
        PROVE  bufs'[inNext'[1]][inNext'[2] + s] = <<at', taken' + s>>
    <3>1. s + 1 \in 0..(inLeft - 1)
      BY <1>1, <1>4
    <3>2. bufs[inNext[1]][inNext[2] + (s + 1)] = <<at, taken + (s + 1)>>
      BY <1>1, <1>3, <3>1 DEF BufferOK
    <3>3. inNext[2] + (s + 1) = inNext[2] + 1 + s /\ taken + (s + 1) = taken + 1 + s
      BY <1>4, <3>1
    <3> QED
      BY <1>1, <1>5, <3>2, <3>3
  <2>2. inLeft' < inLeft
    BY <1>1, <1>4
  <2>3. inShort => inLeft' < Buf
    BY <1>1, <1>4, Numbers
  <2> QED
    BY <1>1, <1>3, <1>7, <1>8, <2>1, <2>3 DEF BufferOK, Loading
<1>12. TailOK'
  BY <1>1 DEF TailOK
<1> QED
  BY <1>7, <1>8, <1>9, <1>10, <1>11, <1>12 DEF IInv, FileOK

LEMMA AgainKeeps ==
  ASSUME IInv, Again
  PROVE  IInv'
<1>1. /\ mpc = "loaded" /\ kept = -1 /\ inLeft = 0 /\ ~inEof /\ mpc' = "load"
      /\ UNCHANGED <<files, at, cthreads, caught, off, bufs, inWhich, inLen, inLeft, inNext, inShort, inEof,
                     loadState, lockVal, rpc, rlock, rwhich, rgot, taken, tail, kept>>
  BY DEF Again, fileVars, inVars, lockVars, readVars, useVars
<1>2. Working
  BY <1>1 DEF Working
<1>3. /\ at > 0 /\ at \in AllFiles /\ file.length \in Nat /\ Types /\ Threads /\ AtWork /\ TailOK /\ BufferOK
      /\ (Reading => ReaderOK)
  BY <1>1, <1>2, AtFile
<1>4. InBuffer' /\ file' = file /\ Had' = Had /\ (Reading' <=> Reading)
  BY <1>1, <1>3, Numbers DEF Types, InBuffer, file, Had, Reading, Loading
<1>5. Types' /\ Threads'
  BY <1>1, <1>3, <1>4 DEF Types, Threads
<1>6. AtWork'
  BY <1>1, <1>3, <1>4 DEF AtWork
<1>7. Reading => ReaderOK'
  BY <1>1, <1>3, <1>4 DEF ReaderOK, Requested, Ready
<1>8. BufferOK' /\ TailOK'
  BY <1>1, <1>3, <1>4 DEF BufferOK, TailOK, Loading
<1> QED
  BY <1>4, <1>5, <1>6, <1>7, <1>8 DEF IInv, FileOK

(* Where no read thread may be left, none is.                              *)
LEMMA AtLastRead ==
  ASSUME IInv, ReadToEnd, mpc = "loaded", ~inShort, file.threads
  PROVE  file.use \in {"compress", "whole"} \/ (file.use = "list" /\ ~file.seek)
<1>1. Working /\ BufferOK /\ file.length \in Nat
      /\ (file.use \in {"compress", "whole"} \/ (file.use = "list" /\ ~file.seek) \/ file.length < Buf)
  BY AtFile DEF Working
<1>2. Had >= Buf /\ Had \in Nat /\ Had <= off /\ off <= file.length /\ off \in Int
  BY <1>1, Ahead DEF BufferOK, IInv, Types
<1> QED
  BY <1>1, <1>2, Numbers

LEMMA CloseKeeps ==
  ASSUME IInv, ReadToEnd, Close
  PROVE  IInv'
<1>1. /\ off' = -1 /\ mpc' = "next" /\ mpc \in {"loaded", "listed"}
      /\ UNCHANGED <<files, at, cthreads, caught, bufs, inWhich, inLen, inLeft, inNext, inShort, inEof, loadState,
                     lockVal, rpc, rlock, rwhich, rgot, taken, tail, kept>>
  BY DEF Close, fileVars, inVars, lockVars, readVars, useVars
<1>2. Working
  BY <1>1 DEF Working
<1>3. at > 0 /\ at \in AllFiles /\ Types /\ Threads /\ AtWork
  BY <1>2, AtFile
<1>4. rpc[at] \notin Active
  <2>1. CASE mpc = "listed"
    BY <1>3, <2>1 DEF AtWork
  <2>2. CASE mpc = "loaded" /\ inShort
    BY <1>3, <2>2 DEF AtWork
  <2>3. CASE mpc = "loaded" /\ ~inShort
    <3>1. file.use = "leave"
      BY <1>3, <2>3 DEF Close, AtWork
    <3>2. ~file.threads
      BY <2>3, <3>1, AtLastRead
    <3> QED
      BY <1>3, <3>2 DEF AtWork, Active
  <2> QED
    BY <1>1, <2>1, <2>2, <2>3
<1>5. InBuffer' /\ off' \in Int
  BY <1>1, <1>3 DEF Types, InBuffer
<1>6. Types'
  BY <1>1, <1>3, <1>5 DEF Types
<1>7. Threads' /\ ~Working'
  BY <1>1, <1>3, <1>4 DEF Threads, Working
<1> QED
  BY <1>6, <1>7 DEF IInv, FileOK


LEMMA ListShortKeeps ==
  ASSUME IInv, ListShort
  PROVE  IInv'
<1>1. /\ mpc = "loaded" /\ inShort /\ inLeft >= Trailer /\ tail' = InBytes(inLeft - Trailer, Trailer)
      /\ mpc' = "listed"
      /\ UNCHANGED <<files, at, cthreads, caught, off, bufs, inWhich, inLen, inLeft, inNext, inShort, inEof,
                     loadState, lockVal, rpc, rlock, rwhich, rgot, taken, kept>>
  BY DEF ListShort, Listing, fileVars, inVars, lockVars, readVars
<1>2. Working
  BY <1>1 DEF Working
<1>3. /\ at > 0 /\ at \in AllFiles /\ file.length \in Nat /\ Types /\ Threads /\ AtWork /\ TailOK /\ BufferOK
  BY <1>1, <1>2, AtFile
<1>4. taken + inLeft = file.length /\ taken \in Nat /\ inLeft \in Nat /\ inLeft - Trailer \in Nat /\ Trailer \in Nat
  BY <1>1, <1>3, Numbers DEF BufferOK, Had, Loading, Types
<1>5. InBytes(inLeft - Trailer, Trailer) = [k \in 1..Trailer |-> <<at, taken + (inLeft - Trailer) + k - 1>>]
  BY <1>1, <1>4, InBytesAre
<1>6. \A k \in 1..Trailer : taken + (inLeft - Trailer) + k - 1 = file.length - Trailer + k - 1
  BY <1>4
<1>7. tail' = [k \in 1..Trailer |-> <<at, file.length - Trailer + k - 1>>] /\ Trailer <= file.length
  <2>1. tail' = [k \in 1..Trailer |-> <<at, file.length - Trailer + k - 1>>]
    BY <1>1, <1>5, <1>6
  <2>2. Trailer <= file.length
    BY <1>1, <1>4
  <2> QED
    BY <2>1, <2>2
<1>8. InBuffer' /\ file' = file /\ (Reading' <=> Reading) /\ ~Reading
  BY <1>1, <1>3 DEF Types, InBuffer, file, Reading, AtWork
<1>9. Types' /\ Threads'
  BY <1>1, <1>3, <1>8 DEF Types, Threads
<1>10. AtWork'
  BY <1>1, <1>3, <1>8 DEF AtWork, Reading
<1>11. TailOK'
  BY <1>1, <1>7, <1>8 DEF TailOK
<1> QED
  BY <1>1, <1>9, <1>10, <1>11 DEF IInv, FileOK

LEMMA ListSeekKeeps ==
  ASSUME IInv, ReadToEnd, ListSeek
  PROVE  IInv'
<1>1. /\ mpc = "loaded" /\ ~inShort /\ file.seek /\ kept = -1 /\ file.use = "list"
      /\ off' = file.length - Trailer /\ mpc' = "seek"
      /\ UNCHANGED <<files, at, cthreads, caught, bufs, inWhich, inLen, inLeft, inNext, inShort, inEof,
                     loadState, lockVal, rpc, rlock, rwhich, rgot, taken, tail, kept>>
  BY DEF ListSeek, Listing, fileVars, inVars, lockVars, readVars, useVars
<1>2. Working
  BY <1>1 DEF Working
<1>3. /\ at > 0 /\ at \in AllFiles /\ file.length \in Nat /\ Types /\ Threads /\ AtWork /\ TailOK /\ BufferOK
  BY <1>1, <1>2, AtFile
<1>4. ~file.threads /\ rpc[at] = "none"
  BY <1>1, <1>3, AtLastRead DEF AtWork
<1>5. Trailer <= file.length
  <2>1. Had >= Buf /\ Had \in Nat /\ Had <= off /\ off <= file.length /\ off \in Int
    BY <1>1, <1>2, <1>3, Ahead DEF BufferOK, Types
  <2> QED
    BY <1>3, <2>1, Numbers
<1>6. InBuffer' /\ file' = file /\ ~Reading' /\ ~Reading /\ off' \in 0..file.length
  <2>1. file' = file /\ InBuffer'
    BY <1>1, <1>3 DEF Types, InBuffer, file
  <2>2. ~Reading' /\ ~Reading
    BY <1>1, <1>4 DEF Reading, Active
  <2>3. off' \in 0..file.length
    BY <1>1, <1>3, <1>5, Numbers
  <2> QED
    BY <2>1, <2>2, <2>3
<1>7. Types' /\ Threads'
  <2>1. off' \in Int
    BY <1>3, <1>6
  <2> QED
    BY <1>1, <1>3, <1>6, <2>1 DEF Types, Threads
<1>8. AtWork'
  BY <1>1, <1>3, <1>4, <1>6 DEF AtWork, Active
<1>9. TailOK'
  BY <1>1 DEF TailOK
<1> QED
  BY <1>1, <1>7, <1>8, <1>9 DEF IInv, FileOK

LEMMA ListReadKeeps ==
  ASSUME IInv, ListRead
  PROVE  IInv'
<1>1. PICK n : n = MinOf(Trailer, MaxOf(0, file.length - off))
  OBVIOUS
<1>2. /\ mpc = "seek" /\ tail' = [k \in 1..n |-> <<at, off + k - 1>>] /\ off' = off + n /\ mpc' = "listed"
      /\ UNCHANGED <<files, at, cthreads, caught, bufs, inWhich, inLen, inLeft, inNext, inShort, inEof,
                     loadState, lockVal, rpc, rlock, rwhich, rgot, taken, kept>>
  BY <1>1 DEF ListRead, fileVars, inVars, lockVars, readVars
<1>3. Working
  BY <1>2 DEF Working
<1>4. /\ at > 0 /\ at \in AllFiles /\ file.length \in Nat /\ Types /\ Threads /\ AtWork /\ TailOK
  BY <1>3, AtFile
<1>5. off = file.length - Trailer /\ off \in 0..file.length /\ ~Reading
  BY <1>2, <1>4 DEF AtWork, Reading
<1>6. n = Trailer /\ Trailer <= file.length
  BY <1>1, <1>4, <1>5, Numbers DEF MinOf, MaxOf
<1>7. InBuffer' /\ file' = file /\ ~Reading' /\ off' \in 0..file.length
  <2>1. file' = file /\ InBuffer'
    BY <1>2, <1>4 DEF Types, InBuffer, file
  <2>2. ~Reading'
    BY <1>2, <1>5 DEF Reading
  <2>3. off' \in 0..file.length
    <3>1. off' = file.length - Trailer + Trailer /\ Trailer \in Int /\ file.length \in Int
      BY <1>2, <1>4, <1>5, <1>6, Numbers
    <3>2. off' = file.length
      BY <3>1
    <3> QED
      BY <1>4, <3>2
  <2> QED
    BY <2>1, <2>2, <2>3
<1>8. Types' /\ Threads'
  <2>1. off' \in Int
    BY <1>4, <1>7
  <2> QED
    BY <1>2, <1>4, <1>7, <2>1 DEF Types, Threads
<1>9. AtWork'
  BY <1>2, <1>4, <1>5, <1>7 DEF AtWork, Reading
<1>10. TailOK'
  BY <1>2, <1>5, <1>6, <1>7 DEF TailOK
<1> QED
  BY <1>2, <1>8, <1>9, <1>10 DEF IInv, FileOK

LEMMA ListKeepKeeps ==
  ASSUME IInv, ListKeep
  PROVE  IInv'
<1>1. /\ mpc = "loaded" /\ kept' = MinOf(inLeft, Trailer) /\ tail' = InBytes(inLeft - kept', kept')
      /\ taken' = taken + inLeft /\ mpc' = "load"
      /\ UNCHANGED <<files, at, cthreads, caught, off, bufs, inWhich, inLen, inLeft, inNext, inShort, inEof,
                     loadState, lockVal, rpc, rlock, rwhich, rgot>>
  BY DEF ListKeep, Listing, fileVars, inVars, lockVars, readVars
<1>2. Working
  BY <1>1 DEF Working
<1>3. /\ at > 0 /\ at \in AllFiles /\ file.length \in Nat /\ Types /\ Threads /\ AtWork /\ TailOK /\ BufferOK
      /\ (Reading => ReaderOK)
  BY <1>1, <1>2, AtFile
<1>4. ~inShort /\ file.use = "list"
  <2>1. inShort => inLeft # Buf
    <3>1. inShort => inLeft < Buf
      BY <1>3 DEF BufferOK
    <3> QED
      BY <3>1, Numbers
  <2>2. (Listing /\ ~inShort) \/ (kept # -1 /\ inLeft = Buf)
    BY DEF ListKeep
  <2> QED
    BY <1>3, <2>1, <2>2 DEF Listing, AtWork
<1>5. /\ kept' \in Nat /\ kept' <= inLeft /\ kept' <= Trailer /\ taken \in Nat /\ inLeft \in Nat
      /\ inLeft - kept' \in Nat /\ taken' \in Nat /\ kept' # -1 /\ kept' \in -1..Trailer
  <2>1. inLeft \in Nat /\ taken \in Nat
    BY <1>3, Numbers DEF Types
  <2> QED
    BY <1>1, <2>1, Numbers DEF MinOf
<1>6. tail' = [k \in 1..kept' |-> <<at', taken' - kept' + k - 1>>]
  <2>1. PICK n : n = kept'
    OBVIOUS
  <2>2. InBytes(inLeft - n, n) = [k \in 1..n |-> <<at, taken + (inLeft - n) + k - 1>>]
    <3>1. n \in Nat /\ inLeft - n \in Nat
      BY <1>5, <2>1
    <3>2. inLeft - n + n <= inLeft
      BY <1>5, <3>1
    <3> QED
      BY <1>1, <3>1, <3>2, InBytesAre
  <2>3. \A k \in 1..n : taken + (inLeft - n) + k - 1 = taken' - n + k - 1
    BY <1>1, <1>5, <2>1
  <2> QED
    BY <1>1, <2>1, <2>2, <2>3
<1>7. InBuffer' /\ file' = file /\ Had' = Had /\ (Reading' <=> Reading)
  BY <1>1, <1>3, <1>5 DEF Types, InBuffer, file, Had, Reading, Loading
<1>8. Types' /\ Threads'
  BY <1>1, <1>3, <1>5, <1>7 DEF Types, Threads
<1>9. AtWork'
  BY <1>1, <1>3, <1>4, <1>7 DEF AtWork
<1>10. Reading => ReaderOK'
  BY <1>1, <1>3, <1>7 DEF ReaderOK, Requested, Ready
<1>11. BufferOK'
  <2>1. mpc' = "load" /\ kept' # -1 /\ ~inShort'
    BY <1>1, <1>4, <1>5
  <2>2. ~Reading => off' = Had'
    BY <1>1, <1>3, <1>7 DEF BufferOK
  <2> QED
    BY <1>7, <2>1, <2>2 DEF BufferOK
<1>12. TailOK'
  <2>1. kept' <= taken' /\ mpc' # "listed"
    BY <1>1, <1>5
  <2> QED
    BY <1>6, <2>1 DEF TailOK
<1> QED
  BY <1>7, <1>8, <1>9, <1>10, <1>11, <1>12 DEF IInv, FileOK

LEMMA ListLastKeeps ==
  ASSUME IInv, ListLast
  PROVE  IInv'
<1>1. /\ mpc = "loaded" /\ kept # -1 /\ inLeft < Buf
      /\ tail' = (IF kept + inLeft < Trailer THEN <<>> ELSE JoinedTail(kept))
      /\ mpc' = "listed"
      /\ UNCHANGED <<files, at, cthreads, caught, off, bufs, inWhich, inLen, inLeft, inNext, inShort, inEof,
                     loadState, lockVal, rpc, rlock, rwhich, rgot, taken, kept>>
  BY DEF ListLast, fileVars, inVars, lockVars, readVars
<1>2. Working
  BY <1>1 DEF Working
<1>3. /\ at > 0 /\ at \in AllFiles /\ file.length \in Nat /\ Types /\ Threads /\ AtWork /\ TailOK /\ BufferOK
  BY <1>1, <1>2, AtFile
<1>4. /\ kept \in Nat /\ taken \in Nat /\ inLeft \in Nat /\ Trailer \in Nat /\ kept <= Trailer
      /\ inShort /\ taken + inLeft = file.length
  <2>1. kept \in Nat /\ taken \in Nat /\ inLeft \in Nat /\ Trailer \in Nat /\ kept <= Trailer
    BY <1>1, <1>3, Numbers DEF Types
  <2> QED
    BY <1>1, <1>3, <2>1, Numbers DEF BufferOK, Had, Loading
<1>5. kept <= taken /\ tail = [k \in 1..kept |-> <<at, taken - kept + k - 1>>]
  BY <1>1, <1>3 DEF TailOK
<1>6. kept + inLeft >= Trailer => Trailer <= file.length
  BY <1>4, <1>5
<1>7. ASSUME kept + inLeft >= Trailer
      PROVE  JoinedTail(kept) = [k \in 1..Trailer |-> <<at, file.length - Trailer + k - 1>>]
  <2>1. CASE inLeft >= Trailer
    <3>1. inLeft - Trailer \in Nat
      BY <1>4, <2>1
    <3>2. InBytes(inLeft - Trailer, Trailer) = [k \in 1..Trailer |-> <<at, taken + (inLeft - Trailer) + k - 1>>]
      <4>1. inLeft - Trailer + Trailer <= inLeft
        BY <1>4
      <4> QED
        BY <1>1, <1>4, <3>1, <4>1, InBytesAre
    <3>3. \A k \in 1..Trailer : taken + (inLeft - Trailer) + k - 1 = file.length - Trailer + k - 1
      BY <1>4
    <3> QED
      BY <2>1, <3>2, <3>3 DEF JoinedTail
  <2>2. CASE inLeft < Trailer
    <3>1. PICK m : m = Trailer - inLeft
      OBVIOUS
    <3>2. m \in 1..kept /\ kept + inLeft - Trailer + 1 = kept - m + 1 /\ ~(inLeft >= Trailer)
      BY <1>4, <1>7, <2>2, <3>1
    <3>3. JoinedTail(kept) = SubSeq(tail, kept - m + 1, kept) \o InBytes(0, inLeft)
      BY <3>2 DEF JoinedTail
    <3>4. tail \in Seq(Int \X Int) /\ Len(tail) = kept /\ \A k \in 1..kept : tail[k] = <<at, taken - kept + k - 1>>
      <4>1. \A k \in 1..kept : <<at, taken - kept + k - 1>> \in Int \X Int
        BY <1>3, <1>4, Numbers DEF AllFiles
      <4>2. tail \in [1..kept -> Int \X Int] /\ \A k \in 1..kept : tail[k] = <<at, taken - kept + k - 1>>
        BY <1>5, <4>1
      <4>3. tail \in Seq(Int \X Int) /\ Len(tail) = kept
        BY <1>4, <4>2, SeqOf
      <4> QED
        BY <4>2, <4>3
    <3>5. /\ SubSeq(tail, kept - m + 1, kept) \in Seq(Int \X Int) /\ Len(SubSeq(tail, kept - m + 1, kept)) = m
          /\ \A k \in 1..m : SubSeq(tail, kept - m + 1, kept)[k] = tail[kept - m + k]
      BY <1>4, <3>2, <3>4
    <3>6. InBytes(0, inLeft) = [k \in 1..inLeft |-> <<at, taken + 0 + k - 1>>]
      BY <1>1, <1>4, InBytesAre
    <3>7. InBytes(0, inLeft) \in Seq(Int \X Int) /\ Len(InBytes(0, inLeft)) = inLeft
      <4>1. \A k \in 1..inLeft : <<at, taken + 0 + k - 1>> \in Int \X Int
        BY <1>3, <1>4, Numbers DEF AllFiles
      <4>2. InBytes(0, inLeft) \in [1..inLeft -> Int \X Int]
        BY <3>6, <4>1
      <4> QED
        BY <1>4, <4>2, SeqOf
    <3>8. /\ JoinedTail(kept) \in Seq(Int \X Int) /\ Len(JoinedTail(kept)) = m + inLeft
          /\ \A k \in 1..(m + inLeft) : JoinedTail(kept)[k] =
               IF k <= m THEN SubSeq(tail, kept - m + 1, kept)[k] ELSE InBytes(0, inLeft)[k - m]
      <4>1. PICK a : a = SubSeq(tail, kept - m + 1, kept)
        OBVIOUS
      <4>2. PICK b : b = InBytes(0, inLeft)
        OBVIOUS
      <4>3. a \in Seq(Int \X Int) /\ b \in Seq(Int \X Int) /\ Len(a) = m /\ Len(b) = inLeft
        BY <3>5, <3>7, <4>1, <4>2
      <4>4. /\ a \o b \in Seq(Int \X Int) /\ Len(a \o b) = m + inLeft
            /\ \A k \in 1..(m + inLeft) : (a \o b)[k] = IF k <= m THEN a[k] ELSE b[k - m]
        BY <4>3, ConcatProperties
      <4> QED
        BY <3>3, <4>1, <4>2, <4>4
    <3>9. m + inLeft = Trailer
      BY <1>4, <3>1
    <3>10. ASSUME NEW k \in 1..Trailer
           PROVE  JoinedTail(kept)[k] = <<at, file.length - Trailer + k - 1>>
      <4>1. CASE k <= m
        <5>1. k \in 1..m /\ kept - m + k \in 1..kept
          BY <1>4, <3>2, <4>1
        <5>2. JoinedTail(kept)[k] = <<at, taken - kept + (kept - m + k) - 1>>
          BY <3>4, <3>5, <3>8, <3>9, <4>1, <5>1
        <5>3. taken - kept + (kept - m + k) - 1 = file.length - Trailer + k - 1
          BY <1>4, <3>1, <3>2
        <5> QED
          BY <5>2, <5>3
      <4>2. CASE k > m
        <5>1. k - m \in 1..inLeft
          BY <1>4, <3>2, <3>9, <4>2
        <5>2. ~(k <= m)
          BY <3>2, <4>2
        <5>3. JoinedTail(kept)[k] = <<at, taken + 0 + (k - m) - 1>>
          BY <3>6, <3>8, <3>9, <5>1, <5>2
        <5>4. taken + 0 + (k - m) - 1 = file.length - Trailer + k - 1
          BY <1>4, <3>1, <3>2
        <5> QED
          BY <5>3, <5>4
      <4> QED
        BY <3>2, <4>1, <4>2
    <3> QED
      <4>1. Len(JoinedTail(kept)) = Trailer /\ JoinedTail(kept) \in Seq(Int \X Int)
        BY <3>8, <3>9
      <4>2. PICK j : j = JoinedTail(kept)
        OBVIOUS
      <4>3. j \in Seq(Int \X Int) /\ Len(j) = Trailer
        BY ONLY <4>1, <4>2
      <4>4. j = [i \in 1..Trailer |-> j[i]]
        BY ONLY <4>3
      <4>5. \A i \in 1..Trailer : j[i] = <<at, file.length - Trailer + i - 1>>
        BY ONLY <3>10, <4>2
      <4> QED
        BY ONLY <4>2, <4>4, <4>5
  <2> QED
    BY <1>4, <2>1, <2>2
<1>8. InBuffer' /\ file' = file /\ (Reading' <=> Reading) /\ ~Reading
  BY <1>1, <1>3, <1>4 DEF Types, InBuffer, file, Reading, AtWork
<1>9. Types' /\ Threads'
  BY <1>1, <1>3, <1>8 DEF Types, Threads
<1>10. AtWork'
  BY <1>1, <1>3, <1>4, <1>8 DEF AtWork, Reading
<1>11. TailOK'
  <2>1. CASE kept + inLeft < Trailer
    BY <1>1, <2>1 DEF TailOK
  <2>2. CASE kept + inLeft >= Trailer
    <3>1. ~(kept + inLeft < Trailer)
      BY <1>4, <2>2
    <3>2. tail' = [k \in 1..Trailer |-> <<at, file.length - Trailer + k - 1>>] /\ Trailer <= file.length
      BY <1>1, <1>6, <1>7, <2>2, <3>1
    <3> QED
      BY <1>1, <1>8, <3>2 DEF TailOK
  <2> QED
    BY <1>4, <2>1, <2>2
<1> QED
  BY <1>1, <1>9, <1>10, <1>11 DEF IInv, FileOK

LEMMA FinishKeeps ==
  ASSUME IInv, Finish
  PROVE  IInv'
<1>1. /\ mpc = "next" /\ at = Len(files) /\ mpc' = "done"
      /\ UNCHANGED <<files, at, cthreads, off, bufs, inWhich, inLen, inLeft, inNext, inShort, inEof,
                     loadState, lockVal, rlock, rwhich, rgot, taken, tail, kept>>
      /\ Types /\ Threads
  BY DEF Finish, inVars, lockVars, useVars, IInv
<1>2. \A f \in AllFiles : rpc[f] \notin Active
  BY <1>1 DEF Threads
<1>3. Extant = {}
  BY <1>1, <1>2 DEF Extant, AllFiles, Types
<1>4. rpc' \in [AllFiles -> Active \union {"none", "joined"}] /\ \A f \in AllFiles : rpc'[f] = rpc[f]
  <2>1. cthreads = 0 => rpc' = rpc
    BY DEF Finish
  <2>2. cthreads # 0 => rpc' = [f \in AllFiles |-> IF f \in Extant THEN "joined" ELSE rpc[f]]
    BY DEF Finish, AllFiles
  <2> QED
    BY <1>1, <1>3, <2>1, <2>2 DEF Types
<1>5. caught' \in Int /\ (cthreads # 0 => caught' = cthreads)
  <2>1. Cardinality(Extant) = 0
    BY <1>3, FS_EmptySet
  <2>2. cthreads = 0 => caught' = caught
    BY DEF Finish
  <2>3. cthreads # 0 => caught' = cthreads + 0
    BY <2>1 DEF Finish
  <2> QED
    BY <1>1, <2>2, <2>3 DEF Types
<1>6. InBuffer'
  BY <1>1 DEF Types, InBuffer
<1>7. Types'
  BY <1>1, <1>4, <1>5, <1>6 DEF Types
<1>8. Threads' /\ ~Working'
  BY <1>1, <1>2, <1>4, <1>5 DEF Threads, Working
<1> QED
  BY <1>7, <1>8 DEF IInv, FileOK

LEMMA InitHolds ==
  ASSUME Init
  PROVE  IInv
<1>1. Types
  <2>1. 0 \in 0..Len(files) /\ files \in Programs
    BY LoadAssumption DEF Init
  <2>2. bufs \in [{0, 1} -> [Slots -> Int \X Int]] /\ NoByte \in Int \X Int
    BY DEF Init, NoByte
  <2>3. InBuffer /\ 0 \in 0..Buf /\ 0 \in 0..MaxFiles /\ -1 \in -1..Trailer /\ inNext \in {0, 1} \X Nat
    BY Numbers DEF Init, InBuffer
  <2>4. inShort \in BOOLEAN /\ inEof \in BOOLEAN /\ inWhich \in {-1, 0, 1} /\ off \in Int /\ caught \in Int
    <3>1. inShort = FALSE /\ inEof = FALSE
      BY DEF Init
    <3>2. inWhich = -1 /\ off = -1 /\ caught = -1
      BY DEF Init
    <3>3. inShort \in BOOLEAN /\ inEof \in BOOLEAN
      BY <3>1
    <3>4. inWhich \in {-1, 0, 1} /\ off \in Int /\ caught \in Int
      BY <3>2
    <3> QED
      BY <3>3, <3>4
  <2>5. /\ lockVal \in [AllFiles -> {-1, 0, 1}] /\ rpc \in [AllFiles -> Active \union {"none", "joined"}]
        /\ rlock \in [AllFiles -> 0..MaxFiles] /\ rwhich \in [AllFiles -> {0, 1}] /\ rgot \in [AllFiles -> 0..Buf]
    BY <2>3 DEF Init, AllFiles
  <2> QED
    BY <2>1, <2>2, <2>3, <2>4, <2>5 DEF Init, Types
<1>2. Threads /\ ~Working
  BY DEF Init, Threads, Working, AllFiles, Active
<1> QED
  BY <1>1, <1>2 DEF IInv, FileOK

LEMMA StutterKeeps ==
  ASSUME IInv, UNCHANGED vars
  PROVE  IInv'
<1>1. UNCHANGED <<files, at, cthreads, caught, off, bufs, inWhich, inLen, inLeft, inNext, inShort, inEof,
                  loadState, lockVal, rpc, rlock, rwhich, rgot, taken, tail, kept, mpc>>
  BY DEF vars, fileVars, inVars, lockVars, readVars, useVars
<1>2. InBuffer' <=> InBuffer
  BY <1>1 DEF InBuffer
<1>3. Types' /\ Threads'
  BY <1>1, <1>2 DEF IInv, Types, Threads
<1>4. FileOK'
  <2>1. (Working' <=> Working) /\ file' = file /\ Had' = Had /\ (Reading' <=> Reading) /\ (Ready' <=> Ready)
        /\ (Requested' <=> Requested)
    BY <1>1 DEF Working, file, Had, Reading, Ready, Requested
  <2>2. AtWork' <=> AtWork
    BY <1>1, <2>1 DEF AtWork
  <2>3. ReaderOK' <=> ReaderOK
    BY <1>1, <2>1 DEF ReaderOK
  <2>4. (BufferOK' <=> BufferOK) /\ (TailOK' <=> TailOK)
    BY <1>1, <2>1 DEF BufferOK, TailOK
  <2> QED
    BY <1>1, <2>1, <2>2, <2>3, <2>4 DEF IInv, FileOK
<1> QED
  BY <1>3, <1>4 DEF IInv

LEMMA StepKeeps ==
  ASSUME IInv, ReadToEnd, [Next]_vars
  PROVE  IInv'
<1>1. CASE Main
  BY <1>1, OpenKeeps, LoadNothingKeeps, LoadLaunchKeeps, LoadTakeKeeps, LoadJoinKeeps, LoadSingleKeeps,
     TakeKeeps, AgainKeeps, CloseKeeps, ListShortKeeps, ListSeekKeeps, ListReadKeeps, ListKeepKeeps,
     ListLastKeeps, FinishKeeps DEF Main
<1>2. ASSUME NEW f \in 1..MaxFiles, Reader(f)
      PROVE  IInv'
  BY <1>2, ReadPossessKeeps, ReadBeginKeeps, ReadSomeKeeps, ReadTwistKeeps DEF Reader, AllFiles
<1>3. CASE Stopped \/ UNCHANGED vars
  BY <1>3, StutterKeeps DEF Stopped
<1> QED
  BY <1>1, <1>2, <1>3 DEF Next

-----------------------------------------------------------------------------
(* The invariant, for a program that leaves no file with a read thread     *)
(* before its end: every read thread, every buffer and every byte of load()*)
(* and list_info() is as the above says, and the program never bails out.  *)
THEOREM Invariant == ReadToEnd => (Spec => []IInv)
<1> SUFFICES ASSUME ReadToEnd PROVE Spec => []IInv
  OBVIOUS
<1>1. Init => IInv
  BY InitHolds
<1>2. IInv /\ [Next]_vars => IInv'
  BY StepKeeps
<1> QED
  BY <1>1, <1>2, PTL DEF Spec


(* TypeOK, of the same programs: buffers and offsets within their bounds.  *)
THEOREM TypeCorrect == ReadToEnd => (Spec => []TypeOK)
<1> SUFFICES ASSUME ReadToEnd PROVE Spec => []TypeOK
  OBVIOUS
<1>1. ASSUME IInv
      PROVE  TypeOK
  <2>1. Types /\ Threads
    BY <1>1 DEF IInv
  <2>2. off \in -1..(IF at = 0 THEN 0 ELSE file.length)
    <3>1. CASE Working
      BY <1>1, <3>1, AtFile DEF AtWork
    <3>2. CASE ~Working
      <4>1. off = -1
        BY <2>1, <3>2 DEF Threads, Working
      <4>2. at # 0 => file.length \in Nat
        BY <2>1, FileIs DEF Types
      <4> QED
        BY <4>1, <4>2
    <3> QED
      BY <3>1, <3>2
  <2>3. inNext[1] \in {0, 1} /\ inNext[2] + inLeft \in 0..Buf
    <3>1. inNext[1] \in {0, 1} /\ inNext[2] \in Nat /\ inLeft \in Nat /\ inNext[2] + inLeft <= Buf
      BY <2>1, Counts
    <3> QED
      BY <3>1, Numbers
  <2> QED
    BY <2>1, <2>2, <2>3 DEF TypeOK, Types, AllFiles, Active
<1> QED
  BY <1>1, Invariant, PTL

(* load() provides the bytes of the file ind in their order and its end    *)
(* where it is, and the read thread never fills the buffer that is taken   *)
(* from.                                                                   *)
THEOREM Loads == ReadToEnd => (Spec => []LoadsInd)
<1> SUFFICES ASSUME ReadToEnd PROVE Spec => []LoadsInd
  OBVIOUS
<1>1. ASSUME IInv, mpc = "loaded"
      PROVE  /\ \A k \in 1..inLeft : InBytes(0, inLeft)[k] = <<at, taken + k - 1>>
             /\ inEof => taken = file.length
             /\ \A f \in 1..MaxFiles : rpc[f] = "read" /\ inLeft > 0 => rwhich[f] # inNext[1]
  <2>1. Working /\ Types /\ AtWork /\ BufferOK /\ inLeft \in Nat /\ taken \in Nat
    <3>1. Working /\ Types /\ AtWork /\ BufferOK
      BY <1>1, AtFile DEF Working
    <3> QED
      BY <3>1, Counts
  <2>2. \A k \in 1..inLeft : InBytes(0, inLeft)[k] = <<at, taken + k - 1>>
    <3>1. InBytes(0, inLeft) = [k \in 1..inLeft |-> <<at, taken + 0 + k - 1>>]
      BY <1>1, <2>1, InBytesAre
    <3> QED
      BY <2>1, <3>1
  <2>3. inEof => taken = file.length
    BY <1>1, <2>1 DEF AtWork, BufferOK, Had, Loading
  <2>4. ASSUME NEW f \in 1..MaxFiles, rpc[f] = "read", inLeft > 0
        PROVE  rwhich[f] # inNext[1]
    <3>1. f = at /\ ReaderOK
      BY <1>1, <2>4, ReaderAt DEF AllFiles, Active
    <3>2. rwhich[at] = inWhich /\ inNext[1] = 1 - inWhich /\ inWhich \in {-1, 0, 1}
      BY <1>1, <2>1, <2>4, <3>1 DEF ReaderOK, Types
    <3> QED
      BY <3>1, <3>2
  <2> QED
    BY <2>2, <2>3, <2>4
<1>2. IInv => LoadsInd
  BY <1>1 DEF LoadsInd
<1> QED
  BY <1>2, Invariant, PTL

(* What list_info() takes for the trailer is the end of the file.          *)
THEOREM TrailerFound == ReadToEnd => (Spec => []TrailerIsEnd)
<1> SUFFICES ASSUME ReadToEnd PROVE Spec => []TrailerIsEnd
  OBVIOUS
<1>1. IInv => TrailerIsEnd
  BY AtFile DEF TrailerIsEnd, TailOK, Working
<1> QED
  BY <1>1, Invariant, PTL

(* No read thread is left behind, and join_all() joins just the compress   *)
(* threads: assert(caught == cthreads) in finish_jobs() holds.             *)
THEOREM NoneIsLeft == ReadToEnd => (Spec => []NoneLeft)
<1> SUFFICES ASSUME ReadToEnd PROVE Spec => []NoneLeft
  OBVIOUS
<1>1. IInv => NoneLeft
  BY DEF IInv, NoneLeft, Types, Threads, Extant, AllFiles
<1> QED
  BY <1>1, Invariant, PTL

-----------------------------------------------------------------------------
(* The output                                                              *)

(* The pieces of a stream up to the nth.                                   *)
Upto(n) == [i \in 1..n |-> i]

Pieces(s) == Len(s) \in Nat /\ s = Upto(Len(s))

(* The piece in the call of outb() is not yet given to the thread.         *)
Pending(w) ==
  /\ opc \in {"single", "launch", "waitcheck", "waitwrite", "copy"}
       \/ (opc = "alert" /\ w = "check")
  /\ arg # 0

Given(w) == IF Pending(w) THEN Len(produced) - 1 ELSE Len(produced)
Doing(w) == more[w] = 1 /\ copy # 0

OutbTypes ==
  /\ threads \in BOOLEAN /\ launched \in BOOLEAN
  /\ Pieces(produced) /\ Pieces(written) /\ Pieces(outCheck)
  /\ copy \in Nat /\ arg \in Nat
  /\ more \in [Workers -> {0, 1}]
  /\ wpc \in [Workers -> {"none", "wait", "work", "ended"}]
  /\ wlen \in [Workers -> Nat]
  /\ opc \in {"idle", "inflate", "single", "launch", "waitcheck", "waitwrite",
              "copy", "alert", "joincheck", "joinwrite", "end"}

(* What main knows at each point of outb().                                *)
MainOK ==
  /\ launched => threads
  /\ opc \in {"idle", "end", "single"} => ~launched
  /\ opc \in {"waitcheck", "waitwrite", "copy", "alert", "joincheck", "joinwrite"} =>
       launched
  /\ opc = "launch" => threads
  /\ opc = "single" => ~threads
  /\ opc \in {"waitwrite", "copy", "alert"} => more["check"] = 0
  /\ opc = "copy" => more["write"] = 0
  /\ opc \in {"single", "launch", "waitcheck", "waitwrite", "copy", "alert"} =>
       arg = 0 \/ arg = Len(produced)
  /\ opc = "alert" => copy = arg
  /\ opc \in {"joincheck", "joinwrite"} => copy = 0
  /\ opc = "joinwrite" => wpc["check"] = "ended"

(* A thread is there while it is launched, and has ended only after the    *)
(* piece that ends the stream; the copy stays as it is while it works.     *)
WorkerOK(w) ==
  /\ ~launched => wpc[w] \in {"none", "ended"}
  /\ launched => wpc[w] # "none"
  /\ more[w] = 1 => wpc[w] \in {"wait", "work"}
  /\ wpc[w] = "work" => more[w] = 1 /\ wlen[w] = copy
  /\ launched /\ wpc[w] = "ended" => copy = 0
  /\ launched /\ copy = 0 /\ (wpc[w] = "ended" \/ more[w] = 1) =>
       opc \in {"joincheck", "joinwrite"} \/ (opc = "alert" /\ w = "write")

(* A thread has done what it was given, but for the piece in the copy.     *)
Counted(w, s) ==
  /\ Doing(w) => copy = Given(w)
  /\ Len(s) = IF Doing(w) THEN Given(w) - 1 ELSE Given(w)

OutbInv ==
  /\ OutbTypes /\ MainOK
  /\ WorkerOK("write") /\ WorkerOK("check")
  /\ Counted("write", written) /\ Counted("check", outCheck)

-----------------------------------------------------------------------------
(* Sequences of pieces                                                     *)

LEMMA UptoLen == ASSUME NEW n \in Nat PROVE Upto(n) \in Seq(Nat) /\ Len(Upto(n)) = n
  BY DEF Upto

LEMMA NoPieces == Pieces(<<>>) /\ Len(<<>>) = 0
<1>1. Upto(0) = <<>>
  BY DEF Upto
<1> QED
  BY <1>1 DEF Pieces

LEMMA OneMore ==
  ASSUME NEW s, Pieces(s), NEW x, x = Len(s) + 1
  PROVE  Pieces(Append(s, x)) /\ Len(Append(s, x)) = Len(s) + 1 /\ s \o <<x>> = Append(s, x)
<1> DEFINE n == Len(s)
<1>1. n \in Nat /\ s = Upto(n) /\ s \in Seq(Nat) /\ x \in Nat
  BY UptoLen DEF Pieces
<1>2. Append(s, x) \in Seq(Nat) /\ Len(Append(s, x)) = n + 1
  BY <1>1
<1>3. Append(s, x) = Upto(n + 1)
  <2>1. \A i \in 1..(n + 1) : Append(s, x)[i] = i
    BY <1>1 DEF Upto
  <2> QED
    BY <1>1, <1>2, <2>1 DEF Upto
<1>4. s \o <<x>> = Append(s, x)
  BY <1>1
<1> QED
  BY <1>1, <1>2, <1>3, <1>4 DEF Pieces

LEMMA NoMore == ASSUME NEW s, Pieces(s) PROVE s \o <<>> = s
<1>1. s \in Seq(Nat)
  BY UptoLen DEF Pieces
<1> QED
  BY <1>1

LEMMA FirstPieces ==
  ASSUME NEW s, Pieces(s), NEW t, Pieces(t), Len(s) \in (Len(t) - 2)..Len(t)
  PROVE  s = SubSeq(t, 1, Len(s))
<1>1. s \in Seq(Nat) /\ t \in Seq(Nat) /\ Len(s) \in Nat /\ Len(t) \in Nat
      /\ s = Upto(Len(s)) /\ t = Upto(Len(t))
  BY UptoLen DEF Pieces
<1>2. Len(s) <= Len(t)
  BY <1>1
<1>3. SubSeq(t, 1, Len(s)) = [i \in 1..Len(s) |-> t[i]]
  BY <1>1, <1>2
<1>4. \A i \in 1..Len(s) : t[i] = i
  BY <1>1, <1>2 DEF Upto
<1> QED
  BY <1>1, <1>3, <1>4 DEF Upto
-----------------------------------------------------------------------------
(* The invariant                                                           *)

LEMMA OutbInitOK == OutbInit => OutbInv
<1> SUFFICES ASSUME OutbInit PROVE OutbInv
  OBVIOUS
<1>1. \A s \in {produced, written, outCheck} : Pieces(s) /\ Len(s) = 0
  <2>1. produced = <<>> /\ written = <<>> /\ outCheck = <<>>
    BY DEF OutbInit
  <2> QED
    BY <2>1, NoPieces
<1>2. OutbTypes /\ MainOK /\ \A w \in Workers : WorkerOK(w)
  <2>1. OutbTypes
    BY <1>1 DEF OutbInit, OutbTypes, Workers
  <2>2. MainOK
    BY DEF OutbInit, MainOK
  <2>3. \A w \in Workers : WorkerOK(w)
    BY DEF OutbInit, WorkerOK, Workers
  <2> QED
    BY <2>1, <2>2, <2>3
<1>3. \A w \in Workers : ~Doing(w) /\ Given(w) = 0
  BY <1>1 DEF OutbInit, Doing, Given, Pending, Workers
<1>4. Counted("write", written) /\ Counted("check", outCheck)
  BY <1>1, <1>3 DEF Counted, Workers
<1> QED
  BY <1>2, <1>4 DEF OutbInv, Workers

LEMMA OutbNextOK ==
  ASSUME OutbInv, [OutbNext]_outbVars
  PROVE  OutbInv'
<1> USE DEF OutbInv, OutbTypes, MainOK, WorkerOK, Counted, Doing, Given, Pending, Workers, streamVars, workerVars, outputs
<1>1. CASE StartStream
  BY <1>1, NoPieces DEF StartStream
<1>2. CASE \E n \in 0..MaxPieces : Call(n)
  <2> PICK n \in 0..MaxPieces : Call(n)
    BY <1>2
  <2>1. Len(produced) \in Nat /\ n \in Nat
    BY OutbAssumption DEF Call, Pieces
  <2>2. CASE n = 0
    BY <2>1, <2>2 DEF Call, Pieces
  <2>3. CASE n # 0
    <3>1. Pieces(produced') /\ Len(produced') = Len(produced) + 1
      BY <2>3, OneMore DEF Call
    <3> QED
      BY <2>1, <2>3, <3>1 DEF Call
  <2> QED
    BY <2>2, <2>3
<1>3. CASE EndStream
  BY <1>3 DEF EndStream
<1>4. CASE Single
  <2>1. more["write"] = 0 /\ more["check"] = 0
    BY <1>4 DEF Single
  <2>2. CASE arg = 0
    BY <1>4, <2>1, <2>2 DEF Single, After
  <2>3. CASE arg # 0
    <3>1. arg = Len(written) + 1 /\ arg = Len(outCheck) + 1
      BY <1>4, <2>1, <2>3 DEF Single, Pieces
    <3>2. written' = Append(written, arg) /\ outCheck' = Append(outCheck, arg)
      BY <1>4, <2>3 DEF Single
    <3>3. Pieces(written') /\ Len(written') = Len(written) + 1
      BY <3>1, <3>2, OneMore
    <3>4. Pieces(outCheck') /\ Len(outCheck') = Len(outCheck) + 1
      BY <3>1, <3>2, OneMore
    <3> QED
      BY <1>4, <2>1, <2>3, <3>1, <3>3, <3>4 DEF Single, After, Pieces
  <2> QED
    BY <2>2, <2>3
<1>5. CASE Launch
  BY <1>5 DEF Launch
<1>6. CASE WaitCheck
  BY <1>6 DEF WaitCheck
<1>7. CASE WaitWrite
  BY <1>7 DEF WaitWrite
<1>8. CASE CopyOut
  BY <1>8 DEF CopyOut, Pieces
<1>9. CASE Alert
  BY <1>9 DEF Alert, Pieces
<1>10. CASE JoinCheck
  BY <1>10 DEF JoinCheck
<1>11. CASE JoinWrite
  BY <1>11 DEF JoinWrite
<1>12. CASE \E w \in Workers : WorkerTake(w)
  BY <1>12 DEF WorkerTake
<1>13. CASE WorkerDo("write")
  <2>1. more["write"] = 1 /\ wlen["write"] = copy
    BY <1>13 DEF WorkerDo
  <2>2. CASE copy = 0
    <3>1. written' = written /\ outCheck' = outCheck
      BY <1>13, <2>1, <2>2, NoMore DEF WorkerDo
    <3> QED
      BY <1>13, <2>1, <2>2, <3>1 DEF WorkerDo
  <2>3. CASE copy # 0
    <3>1. copy = Len(written) + 1
      BY <2>1, <2>3 DEF Pieces
    <3>2. written' = Append(written, copy) /\ outCheck' = outCheck
      BY <1>13, <2>1, <2>3, <3>1, OneMore DEF WorkerDo
    <3>3. Pieces(written') /\ Len(written') = Len(written) + 1
      BY <3>1, <3>2, OneMore
    <3> QED
      BY <1>13, <2>1, <2>3, <3>1, <3>2, <3>3 DEF WorkerDo
  <2> QED
    BY <2>2, <2>3
<1>14. CASE WorkerDo("check")
  <2>1. more["check"] = 1 /\ wlen["check"] = copy
    BY <1>14 DEF WorkerDo
  <2>2. CASE copy = 0
    <3>1. outCheck' = outCheck /\ written' = written
      BY <1>14, <2>1, <2>2, NoMore DEF WorkerDo
    <3> QED
      BY <1>14, <2>1, <2>2, <3>1 DEF WorkerDo
  <2>3. CASE copy # 0
    <3>1. copy = Len(outCheck) + 1
      BY <2>1, <2>3 DEF Pieces
    <3>2. outCheck' = Append(outCheck, copy) /\ written' = written
      BY <1>14, <2>1, <2>3, <3>1, OneMore DEF WorkerDo
    <3>3. Pieces(outCheck') /\ Len(outCheck') = Len(outCheck) + 1
      BY <3>1, <3>2, OneMore
    <3> QED
      BY <1>14, <2>1, <2>3, <3>1, <3>2, <3>3 DEF WorkerDo
  <2> QED
    BY <2>2, <2>3
<1>15. CASE UNCHANGED outbVars
  BY <1>15 DEF outbVars
<1> QED
  BY <1>1, <1>2, <1>3, <1>4, <1>5, <1>6, <1>7, <1>8, <1>9, <1>10, <1>11, <1>12, <1>13,
     <1>14, <1>15 DEF OutbNext, OutbStep, Worker, OutbStopped

(* What main and the threads know of the copy and of each other, and how   *)
(* far each thread is, at every point of outb(), outb_write() and          *)
(* outb_check().                                                           *)
THEOREM OutbInvariant == OutbSpec => []OutbInv
<1>1. OutbInv /\ [OutbNext]_outbVars => OutbInv'
  BY OutbNextOK
<1> QED
  BY OutbInitOK, <1>1, PTL DEF OutbSpec

(* Each thread of outb() does the pieces in order, every one and once, and *)
(* is at most the one in out_copy and the one in the call behind; main     *)
(* copies into out_copy only when neither works on it.                     *)
THEOREM DoneInOrder == OutbSpec => []InOrder
<1>1. OutbInv => InOrder
  <2> SUFFICES ASSUME OutbInv PROVE InOrder
    OBVIOUS
  <2> USE DEF OutbInv, OutbTypes
  <2>1. Len(produced) \in Nat /\ Len(written) \in Nat /\ Len(outCheck) \in Nat
    BY DEF Pieces
  <2>2. Len(written) \in (Len(produced) - 2)..Len(produced)
    BY <2>1 DEF Counted, Given
  <2>3. Len(outCheck) \in (Len(produced) - 2)..Len(produced)
    BY <2>1 DEF Counted, Given
  <2>4. written = SubSeq(produced, 1, Len(written))
    BY <2>2, FirstPieces
  <2>5. outCheck = SubSeq(produced, 1, Len(outCheck))
    BY <2>3, FirstPieces
  <2>6. \A w \in Workers : opc = "copy" => wpc[w] # "work" /\ more[w] = 0
    BY DEF MainOK, WorkerOK, Workers
  <2> QED
    BY <2>2, <2>3, <2>4, <2>5, <2>6 DEF InOrder
<1> QED
  BY OutbInvariant, <1>1, PTL

(* At the end of a stream the check value that infchk() compares with the  *)
(* trailer is that of all of it, all of it is written, and both threads    *)
(* are gone.                                                               *)
THEOREM StreamsDone == OutbSpec => []StreamDone
<1>1. OutbInv => StreamDone
  <2> SUFFICES ASSUME OutbInv, opc = "end" PROVE StreamDone
    BY DEF StreamDone
  <2>1. \A w \in Workers : wpc[w] \in {"none", "ended"} /\ more[w] = 0
    BY DEF OutbInv, OutbTypes, MainOK, WorkerOK, Workers
  <2>2. Len(written) = Len(produced) /\ Len(outCheck) = Len(produced)
    BY <2>1 DEF OutbInv, Counted, Doing, Given, Pending, Workers
  <2>3. written = produced /\ outCheck = produced
    BY <2>2 DEF OutbInv, OutbTypes, Pieces
  <2> QED
    BY <2>1, <2>3 DEF StreamDone
<1> QED
  BY OutbInvariant, <1>1, PTL
=============================================================================
