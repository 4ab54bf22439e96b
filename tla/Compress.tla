------------------------------ MODULE Compress ------------------------------
(***************************************************************************)
(* Parallel compression in pigz.c: the main thread reads the input and     *)
(* makes jobs (parallel_compress), compress threads take them in order,    *)
(* compress them and put them in the write list (compress_thread), and a   *)
(* write thread per stream takes them in sequence and writes them          *)
(* (write_thread).  The compress threads stay for the next stream until    *)
(* finish_jobs() calls them back.                                          *)
(*                                                                         *)
(* Locks are at the level of LockSpec: a possess() with a wait_for() is    *)
(* the guard of the step, a twist() its effect.  Pools are at the level of *)
(* SpacePool; the buffers of a pool are interchangeable, so get_space()    *)
(* takes the first.  Data is abstracted as in Blocks: a buffer holds a     *)
(* piece of the input, or the result of compressing one.                   *)
(***************************************************************************)
EXTENDS Blocks

CONSTANTS
  Procs,       \* option -p: the most compress threads
  InLimit,     \* the limit of in_pool: INBUFS(procs), or fewer to meet it soon
  OutBound,    \* bound: buffers in a pool that has no limit
  MaxJobs,     \* bound: the last sequence number of a stream
  Programs,    \* the streams of a run: length, hits of the hash, option -R
  Null         \* no buffer

(* A stream; without -R there is no hash, so it has no hits.               *)
Inputs == {i \in [length : Nat, hits : SUBSET Nat, rsync : BOOLEAN] :
             i.hits \subseteq 1..i.length /\ (~i.rsync => i.hits = {})}

Compressors == 1..Procs
InPool == {"in"} \X (1..InLimit)
OutPool == {"out"} \X (1..OutBound)
DictPool == {"dict"} \X (1..OutBound)
LensPool == {"lens"} \X (1..OutBound)
Spaces == InPool \union OutPool \union DictPool \union LensPool
Seqs == 0..MaxJobs

ASSUME CompressAssumption ==
  /\ Procs \in Nat \ {0} /\ InLimit \in Nat /\ OutBound \in Nat /\ MaxJobs \in Nat
  /\ Programs \subseteq Seq(Inputs)
  /\ Null \notin Spaces

VARIABLES
  \* the pools
  refs,        \* the use count of each buffer, 0 if it is in its pool
  data,        \* what each buffer holds
  \* the lists
  jobs,        \* the jobs, by sequence number
  compressList, compressHave,  \* compress_head and the value of compress_have
  writeList, writeFirst,       \* write_head and the value of write_first
  \* main
  mpc, input, pos, seq, curr, next, hold, left, scan, dict,
  cthreads,    \* compress threads launched
  setup,       \* compress_have is not NULL
  todo,        \* streams to come, with the one at work
  \* compress threads
  cpc, cjob, cwindow,
  \* write thread
  wpc, wseq, wmore, output

pools == <<refs, data>>
cLists == <<compressList, compressHave>>
wLists == <<writeList, writeFirst>>
mainVars == <<mpc, input, pos, seq, curr, next, hold, left, scan, dict,
              cthreads, setup, todo>>
cVars == <<cpc, cjob, cwindow>>
wVars == <<wpc, wseq, wmore, output>>
vars == <<pools, jobs, cLists, wLists, mainVars, cVars, wVars>>

(* What a buffer holds: a piece of input, and for compressed data also the *)
(* window it needs and its block ends; for a list of lengths, the list.    *)
NoWindow == Piece(-2, -2)
Holding(piece) == [piece |-> piece, window |-> NoWindow, ends |-> {}, lens |-> <<>>]
Garbage == Holding(Broken)

(* get_space() of a pool takes the first buffer nobody uses, if any.       *)
Fresh(pool) == {s \in pool : refs[s] = 0}
First(pool) == CHOOSE s \in Fresh(pool) : \A u \in Fresh(pool) : s[2] <= u[2]

(* use_space() of a buffer, on top of what r says of the others.           *)
Used(r, s) == [r EXCEPT ![s] = @ + 1]

(* drop_space() of a buffer (or of none), and what is left in it.          *)
Dropped(r, s) == IF s = Null THEN r ELSE [r EXCEPT ![s] = @ - 1]
Kept(r, d) == [s \in Spaces |-> IF r[s] = 0 THEN Garbage ELSE d[s]]

NoJob == [in |-> Null, out |-> Null, lens |-> Null, more |-> FALSE,
          check |-> Broken, calc |-> FALSE, live |-> FALSE]

NoOutput == [piece |-> Empty(0), check |-> Empty(0), ulen |-> 0, ends |-> {0},
             good |-> TRUE]

NoInput == [length |-> 0, hits |-> {}, rsync |-> FALSE]

Init ==
  /\ refs = [s \in Spaces |-> 0]
  /\ data = [s \in Spaces |-> Garbage]
  /\ jobs = [n \in Seqs |-> NoJob]
  /\ compressList = <<>> /\ compressHave = 0
  /\ writeList = <<>> /\ writeFirst = -1
  /\ mpc = "idle" /\ input = NoInput
  /\ pos = 0 /\ seq = 0 /\ left = 0 /\ scan = 0
  /\ curr = Null /\ next = Null /\ hold = Null /\ dict = Null
  /\ cthreads = 0 /\ setup = FALSE /\ todo \in Programs
  /\ cpc = [c \in Compressors |-> "none"]
  /\ cjob = [c \in Compressors |-> -1]
  /\ cwindow = [c \in Compressors |-> NoWindow]
  /\ wpc = "none" /\ wseq = 0 /\ wmore = FALSE /\ output = NoOutput

-----------------------------------------------------------------------------
(* main: parallel_compress()                                               *)

ReadAt(p) == Piece(p, MinOf(p + Size, input.length))

(* setup_jobs(), if need be, and the launch of the write thread.           *)
Start ==
  /\ mpc = "idle" /\ todo # <<>>
  /\ setup' = TRUE
  /\ IF setup THEN UNCHANGED <<cLists, wLists>>
     ELSE /\ compressList' = <<>> /\ compressHave' = 0
          /\ writeList' = <<>> /\ writeFirst' = -1
  /\ input' = Head(todo)
  /\ pos' = 0 /\ seq' = 0 /\ left' = 0 /\ scan' = 0
  /\ hold' = Null /\ dict' = Null
  /\ wpc' = "header"
  /\ mpc' = "first"
  /\ UNCHANGED <<pools, jobs, curr, next, cthreads, todo, cVars, wseq, wmore,
                 output>>

(* get_space(&in_pool) and readn() into it                                 *)
GetAndRead(s) ==
  /\ Fresh(InPool) # {} /\ s = First(InPool)
  /\ pos' = ReadAt(pos).hi

ReadFirst ==
  /\ mpc = "first"
  /\ \E s \in InPool :
       /\ GetAndRead(s)
       /\ next' = s
       /\ refs' = Used(refs, s)
       /\ data' = [data EXCEPT ![s] = Holding(ReadAt(pos))]
  /\ mpc' = "job"
  /\ UNCHANGED <<jobs, cLists, wLists, input, seq, curr, hold, left, scan, dict,
                 cthreads, setup, todo, cVars, wVars>>

(* A new job: move on to the next buffer and have one after that, from     *)
(* hold or from the input.                                                 *)
NewJob ==
  /\ mpc = "job"
  /\ seq \in Seqs    \* bound
  /\ curr' = next
  /\ hold' = Null
  /\ IF hold # Null
       THEN next' = hold /\ UNCHANGED <<pos, pools>>
       ELSE \E s \in InPool :
              /\ GetAndRead(s)
              /\ next' = s
              /\ refs' = Used(refs, s)
              /\ data' = [data EXCEPT ![s] = Holding(ReadAt(pos))]
  /\ jobs' = [jobs EXCEPT ![seq] = [NoJob EXCEPT !.live = TRUE]]
  /\ mpc' = "rsync"
  /\ UNCHANGED <<cLists, wLists, input, seq, left, scan, dict, cthreads, setup,
                 todo, cVars, wVars>>

(* Cut the input in blocks with a list of lengths, and move input between  *)
(* curr and next so that a job ends after a hit.                           *)
Rsync ==
  /\ mpc = "rsync"
  /\ IF input.rsync /\ Span(data[curr].piece) # 0
       THEN LET l == First(LensPool)
                t == RsyncTurn(data[curr].piece, data[next].piece, left, scan,
                               input.hits)
            IN  /\ Fresh(LensPool) # {}
                /\ refs' = Used(refs, l)
                /\ data' = [data EXCEPT ![l] = [Garbage EXCEPT !.lens = t.lens],
                              ![curr] = IF t.tailed THEN data[curr] ELSE Holding(t.curr),
                              ![next] = Holding(t.next)]
                /\ jobs' = [jobs EXCEPT ![seq].lens = l]
                /\ left' = t.left /\ scan' = t.scan
                /\ mpc' = IF t.tailed THEN "tail" ELSE "dict"
                /\ hold' = IF t.tailed THEN next ELSE hold
       ELSE /\ mpc' = "dict"
            /\ UNCHANGED <<pools, jobs, left, scan, hold>>
  /\ UNCHANGED <<cLists, wLists, input, pos, seq, curr, next, dict, cthreads,
                 setup, todo, cVars, wVars>>

(* The input after the last hit in curr goes to a buffer of its own.       *)
CutTail ==
  /\ mpc = "tail"
  /\ Fresh(InPool) # {}
  /\ LET s == First(InPool)
         p == data[curr].piece
     IN  /\ next' = s
         /\ refs' = Used(refs, s)
         /\ data' = [data EXCEPT ![s] = Holding(Suffix(p, left)),
                                 ![curr] = Holding(Piece(p.lo, p.hi - left))]
  /\ mpc' = "dict"
  /\ UNCHANGED <<jobs, cLists, wLists, input, pos, seq, curr, hold, left, scan,
                 dict, cthreads, setup, todo, cVars, wVars>>

(* Not the code: the wrong buffer for a dictionary.                        *)
HoldDictNext(more) ==
  IF more THEN dict' = next /\ refs' = Used(refs, next) /\ UNCHANGED data
  ELSE UNCHANGED <<dict, pools>>

(* The dictionary for the next job: curr itself, with one more use, or a   *)
(* constructed one.                                                        *)
HoldDict(more) ==
  LET c == data[curr].piece
      d == First(DictPool)
  IN  IF ~more THEN UNCHANGED <<dict, pools>>
      ELSE IF Span(c) >= Dict \/ dict = Null
        THEN dict' = curr /\ refs' = Used(refs, curr) /\ UNCHANGED data
        ELSE /\ Fresh(DictPool) # {}
             /\ dict' = d
             /\ refs' = Used(refs, d)
             /\ data' = [data EXCEPT ![d] = Holding(NextDict(c, data[dict].piece))]

Prepare ==
  /\ mpc = "dict"
  /\ LET more == Span(data[next].piece) # 0
     IN  /\ jobs' = [jobs EXCEPT ![seq].in = curr, ![seq].out = dict,
                                 ![seq].more = more]
         /\ HoldDict(more)
  /\ mpc' = "append"
  /\ UNCHANGED <<cLists, wLists, input, pos, seq, curr, next, hold, left, scan,
                 cthreads, setup, todo, cVars, wVars>>

(* Not the code: a thread only when there are more jobs than threads.      *)
AppendJobLate ==
  /\ mpc = "append"
  /\ seq' = seq + 1
  /\ IF cthreads < seq /\ cthreads < Procs
       THEN /\ cthreads' = cthreads + 1
            /\ cpc' = [cpc EXCEPT ![cthreads + 1] = "get"]
       ELSE UNCHANGED <<cthreads, cpc>>
  /\ compressList' = Append(compressList, seq)
  /\ compressHave' = compressHave + 1
  /\ mpc' = IF jobs[seq].more THEN "job" ELSE "end"
  /\ UNCHANGED <<pools, jobs, wLists, input, pos, curr, next, hold, left, scan,
                 dict, setup, todo, cjob, cwindow, wVars>>

(* Launch a compress thread if more of them could be of use, and put the   *)
(* job at the end of the compress list.                                    *)
AppendJob ==
  /\ mpc = "append"
  /\ seq' = seq + 1
  /\ IF cthreads < seq + 1 /\ cthreads < Procs
       THEN /\ cthreads' = cthreads + 1
            /\ cpc' = [cpc EXCEPT ![cthreads + 1] = "get"]
       ELSE UNCHANGED <<cthreads, cpc>>
  /\ compressList' = Append(compressList, seq)
  /\ compressHave' = compressHave + 1
  /\ mpc' = IF jobs[seq].more THEN "job" ELSE "end"
  /\ UNCHANGED <<pools, jobs, wLists, input, pos, curr, next, hold, left, scan,
                 dict, setup, todo, cjob, cwindow, wVars>>

(* Not the code: the empty buffer kept.                                    *)
EndInputKept ==
  /\ mpc = "end"
  /\ mpc' = "join"
  /\ UNCHANGED <<pools, jobs, cLists, wLists, input, pos, seq, curr, next, hold,
                 left, scan, dict, cthreads, setup, todo, cVars, wVars>>

(* The end of the input: drop the empty buffer.                            *)
EndInput ==
  /\ mpc = "end"
  /\ refs' = Dropped(refs, next)
  /\ data' = Kept(refs', data)
  /\ mpc' = "join"
  /\ UNCHANGED <<jobs, cLists, wLists, input, pos, seq, curr, next, hold, left,
                 scan, dict, cthreads, setup, todo, cVars, wVars>>

(* join(writeth)                                                           *)
JoinWriter ==
  /\ mpc = "join"
  /\ wpc = "ended"
  /\ wpc' = "none"
  /\ todo' = Tail(todo)
  /\ mpc' = "idle"
  /\ curr' = Null /\ next' = Null
  /\ UNCHANGED <<pools, jobs, cLists, wLists, input, pos, seq, hold, left, scan,
                 dict, cthreads, setup, cVars, wseq, wmore, output>>

(* finish_jobs(): the job that tells every compress thread to return.      *)
Finish ==
  /\ mpc = "idle" /\ setup
  /\ compressList' = <<-1>>
  /\ compressHave' = compressHave + 1
  /\ mpc' = "joinall"
  /\ UNCHANGED <<pools, jobs, wLists, input, pos, seq, curr, next, hold, left,
                 scan, dict, cthreads, setup, todo, cVars, wVars>>

(* join_all(), and then the pools and lists are freed.                     *)
JoinAll ==
  /\ mpc = "joinall"
  /\ \A c \in Compressors : cpc[c] \in {"none", "exited"}
  /\ cpc' = [c \in Compressors |-> "none"]
  /\ cthreads' = 0
  /\ setup' = FALSE
  /\ mpc' = "idle"
  /\ UNCHANGED <<pools, jobs, cLists, wLists, input, pos, seq, curr, next, hold,
                 left, scan, dict, todo, cjob, cwindow, wVars>>

Main ==
  \/ Start \/ ReadFirst \/ NewJob \/ Rsync \/ CutTail \/ Prepare \/ AppendJob \/ EndInput
  \/ JoinWriter \/ Finish \/ JoinAll

-----------------------------------------------------------------------------
(* compress_thread()                                                       *)

(* Take a job from the head of the list, or leave the one that says to     *)
(* return where it is.                                                     *)
GetJob(c) ==
  /\ cpc[c] = "get"
  /\ compressHave # 0
  /\ IF Head(compressList) = -1
       THEN /\ cpc' = [cpc EXCEPT ![c] = "exited"]
            /\ UNCHANGED <<cLists, cjob>>
       ELSE /\ cjob' = [cjob EXCEPT ![c] = Head(compressList)]
            /\ compressList' = Tail(compressList)
            /\ compressHave' = compressHave - 1
            /\ cpc' = [cpc EXCEPT ![c] = "window"]
  /\ UNCHANGED <<pools, jobs, wLists, mainVars, cwindow, wVars>>

(* Set the dictionary, if there is one, and drop it.                       *)
SetDictionary(c) ==
  /\ cpc[c] = "window"
  /\ LET d == jobs[cjob[c]].out
     IN  /\ cwindow' = [cwindow EXCEPT
                          ![c] = IF d = Null THEN NoWindow ELSE UsedDict(data[d].piece)]
         /\ refs' = Dropped(refs, d)
         /\ data' = Kept(refs', data)
  /\ cpc' = [cpc EXCEPT ![c] = "compress"]
  /\ UNCHANGED <<jobs, cLists, wLists, mainVars, cjob, wVars>>

(* use_space(job->in): reserve the input until it is checked.              *)
Reserve(r, in) == Used(r, in)

(* Compress the blocks of the job into an output buffer and drop the list  *)
(* of their lengths.                                                       *)
CompressData(c) ==
  /\ cpc[c] = "compress"
  /\ Fresh(OutPool) # {}
  /\ LET j == jobs[cjob[c]]
         o == First(OutPool)
         lens == IF j.lens = Null THEN <<>> ELSE data[j.lens].lens
         in == data[j.in].piece
     IN  /\ refs' = Reserve(Dropped(Used(refs, o), j.lens), j.in)
         /\ data' = Kept(refs', [data EXCEPT ![o] =
                      [piece |-> in, window |-> cwindow[c],
                       ends |-> BlockEnds(in, lens), lens |-> <<>>]])
         /\ jobs' = [jobs EXCEPT ![cjob[c]].out = o, ![cjob[c]].lens = Null]
  /\ cpc' = [cpc EXCEPT ![c] = "insert"]
  /\ cwindow' = [cwindow EXCEPT ![c] = NoWindow]
  /\ UNCHANGED <<cLists, wLists, mainVars, cjob, wVars>>

(* The place of a job in the write list, by sequence number.               *)
Inserted(list, n) ==
  LET here == SelectInSeq(list, LAMBDA m : m > n)
  IN  IF here = 0 THEN Append(list, n) ELSE InsertAt(list, here, n)

Insert(c) ==
  /\ cpc[c] = "insert"
  /\ writeList' = Inserted(writeList, cjob[c])
  /\ writeFirst' = Head(writeList')
  /\ cpc' = [cpc EXCEPT ![c] = "check"]
  /\ UNCHANGED <<pools, jobs, cLists, mainVars, cjob, cwindow, wVars>>

(* Calculate the check value, while the write thread may have the job, and *)
(* drop the input.                                                         *)
Check(c) ==
  /\ cpc[c] = "check"
  /\ LET j == jobs[cjob[c]]
     IN  /\ jobs' = [jobs EXCEPT ![cjob[c]].check = data[j.in].piece]
         /\ refs' = Dropped(refs, j.in)
         /\ data' = Kept(refs', data)
  /\ cpc' = [cpc EXCEPT ![c] = "calc"]
  /\ UNCHANGED <<cLists, wLists, mainVars, cjob, cwindow, wVars>>

(* twist(job->calc, TO, 1): from here on the job is the write thread's.    *)
Calculated(c) ==
  /\ cpc[c] = "calc"
  /\ jobs' = [jobs EXCEPT ![cjob[c]].calc = TRUE]
  /\ cpc' = [cpc EXCEPT ![c] = "get"]
  /\ cjob' = [cjob EXCEPT ![c] = -1]
  /\ UNCHANGED <<pools, cLists, wLists, mainVars, cwindow, wVars>>

Compressor(c) ==
  \/ GetJob(c) \/ SetDictionary(c) \/ CompressData(c) \/ Insert(c) \/ Check(c)
  \/ Calculated(c)

-----------------------------------------------------------------------------
(* write_thread()                                                          *)

WriteHeader ==
  /\ wpc = "header"
  /\ wseq' = 0
  /\ output' = NoOutput
  /\ wpc' = "get"
  /\ UNCHANGED <<pools, jobs, cLists, wLists, mainVars, cVars, wmore>>

(* Wait for the job whose turn it is and take it off the list.             *)
TakeJob ==
  /\ wpc = "get"
  /\ writeFirst = wseq
  /\ writeList' = Tail(writeList)
  /\ writeFirst' = IF writeList' = <<>> THEN -1 ELSE Head(writeList')
  /\ wpc' = "length"
  /\ UNCHANGED <<pools, jobs, cLists, mainVars, cVars, wseq, wmore, output>>

(* Note the length of the input and drop it.                               *)
TakeLength ==
  /\ wpc = "length"
  /\ LET j == jobs[wseq]
     IN  /\ wmore' = j.more
         /\ output' = [output EXCEPT !.ulen = @ + Span(data[j.in].piece)]
         /\ refs' = Dropped(refs, j.in)
         /\ data' = Kept(refs', data)
  /\ wpc' = "write"
  /\ UNCHANGED <<jobs, cLists, wLists, mainVars, cVars, wseq>>

(* Write the compressed data and drop it.  What is written can be          *)
(* decompressed if the window it needs is what was written before it.      *)
WriteData ==
  /\ wpc = "write"
  /\ LET j == jobs[wseq]
         o == data[j.out]
     IN  /\ output' = [output EXCEPT
              !.piece = Cat(@, o.piece),
              !.ends = @ \union o.ends,
              !.good = @ /\ o.window \in
                  {NoWindow, Suffix(output.piece, MinOf(Span(output.piece), Dict))}]
         /\ refs' = Dropped(refs, j.out)
         /\ data' = Kept(refs', data)
  /\ wpc' = "combine"
  /\ UNCHANGED <<jobs, cLists, wLists, mainVars, cVars, wseq, wmore>>

(* Not the code: no wait for the check value.                              *)
CalcReadyAlways(j) == TRUE

CalcReady(j) == j.calc

(* Wait for the check value, combine it with the others, free the job.     *)
Combine ==
  /\ wpc = "combine"
  /\ CalcReady(jobs[wseq])
  /\ output' = [output EXCEPT !.check = Cat(@, jobs[wseq].check)]
  /\ jobs' = [jobs EXCEPT ![wseq] = NoJob]
  /\ wseq' = wseq + 1
  /\ wpc' = IF wmore THEN "get" ELSE "trailer"
  /\ UNCHANGED <<pools, cLists, wLists, mainVars, cVars, wmore>>

(* Write the trailer; then the assertions, and write_first made ready for  *)
(* the next stream.                                                        *)
WriteTrailer ==
  /\ wpc = "trailer"
  /\ writeFirst' = -1
  /\ wpc' = "ended"
  /\ UNCHANGED <<pools, jobs, cLists, writeList, mainVars, cVars, wseq, wmore,
                 output>>

Writer ==
  \/ WriteHeader \/ TakeJob \/ TakeLength \/ WriteData \/ Combine \/ WriteTrailer

-----------------------------------------------------------------------------

Terminated ==
  /\ mpc = "idle" /\ ~setup /\ todo = <<>>
  /\ UNCHANGED vars

Next ==
  \/ Main
  \/ \E c \in Compressors : Compressor(c)
  \/ Writer
  \/ Terminated

Spec == Init /\ [][Next]_vars

(* Every thread goes on when it can: a lock it waits for keeps the value   *)
(* that the thread waits for until the thread changes it, with one         *)
(* exception, the compress list, where it may wait for the next job.       *)
FairSpec ==
  /\ Spec
  /\ WF_vars(Main) /\ WF_vars(Writer)
  /\ \A c \in Compressors : WF_vars(Compressor(c))

-----------------------------------------------------------------------------

TypeOK ==
  /\ refs \in [Spaces -> Nat]
  /\ \A s \in Spaces : data[s].piece \in [lo : Int, hi : Int]
  /\ \A n \in Seqs : /\ jobs[n].in \in InPool \union {Null}
                      /\ jobs[n].out \in (Spaces \ LensPool) \union {Null}
                      /\ jobs[n].lens \in LensPool \union {Null}
  /\ {seq, wseq} \subseteq 0..(MaxJobs + 1) /\ compressHave \in Nat
  /\ writeFirst \in Seqs \union {-1}
  /\ {curr, next, hold} \subseteq InPool \union {Null}
  /\ dict \in InPool \union DictPool \union {Null}
  /\ cthreads \in 0..Procs
  /\ cjob \in [Compressors -> Seqs \union {-1}]
  /\ mpc \in {"idle", "first", "job", "rsync", "tail", "dict", "append", "end",
              "join", "joinall"}
  /\ cpc \in [Compressors -> {"none", "get", "window", "compress", "insert",
                             "check", "calc", "exited"}]
  /\ wpc \in {"none", "header", "get", "length", "write", "combine", "trailer",
              "ended"}

(* What is written in the end is the input, in order, with no block        *)
(* missing or twice, in the blocks that Blocks asks for, and each block    *)
(* can be decompressed with what precedes it: no buffer was read after it  *)
(* was given back and filled again, whoever held it.  The trailer tells    *)
(* the truth: the check values and lengths of all jobs were combined.      *)
OutputIsInput ==
  wpc \in {"trailer", "ended"} =>
    /\ output.good
    /\ output.check = Piece(0, input.length)
    /\ output.piece = Piece(0, input.length)
    /\ output.ulen = input.length
    /\ output.ends = Cuts(input.length, input.hits)

(* A job is not freed while a compress thread has to do with it, no two    *)
(* compress threads have the same one, and none is in the write list       *)
(* before it is compressed.  The write list is in order and has nothing in *)
(* it whose turn is over, so that the wait for the next is not in vain.    *)
JobsSafe ==
  LET At(c, states) == cpc[c] \in states
      Working == {"window", "compress", "insert"}
      Having == Working \union {"check", "calc"}
  IN  /\ \A c \in Compressors : At(c, Having) => jobs[cjob[c]].live
      /\ \A c, d \in Compressors :
           c # d /\ At(c, Having) /\ At(d, Having) => cjob[c] # cjob[d]
      /\ \A c \in Compressors, i \in DOMAIN writeList :
           At(c, Working) => writeList[i] # cjob[c]
      /\ \A i, k \in DOMAIN writeList : i < k => writeList[i] < writeList[k]
      /\ \A i \in DOMAIN writeList :
           wpc \in {"get", "trailer"} => wseq <= writeList[i]

(* The buffers that main moves input between are main's alone.             *)
MovesUnshared ==
  /\ mpc = "rsync" => refs[curr] = 1 /\ refs[next] = 1
  /\ mpc = "tail" => refs[curr] = 1

(* The assertions of write_thread() at the end of a stream, of             *)
(* compress_thread() when it takes a job and of free_pool(): between       *)
(* streams every buffer is back in its pool and both lists are empty.      *)
Asserts ==
  /\ wpc = "trailer" => compressList = <<>> /\ compressHave = 0 /\ writeList = <<>>
  /\ compressHave # 0 => compressList # <<>>
  /\ mpc = "idle" => \A s \in Spaces : refs[s] = 0

(* Every stream is compressed to its end, and every compress thread comes  *)
(* back when it is told to: no deadlock over the input buffers, of which   *)
(* there are few, no wait for a job or a check value that never comes.     *)
StreamsEnd == mpc # "idle" ~> mpc = "idle"
=============================================================================
