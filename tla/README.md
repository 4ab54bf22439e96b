# TLA+ models of pigz and of liblzma's threads in android-ndk-compression-tools

The repository collects compression tools to be built with the Android NDK: pigz,
xz, bzip2, gzip, lz4, lzo and lzop, each in its own directory, with shell scripts
that download, patch and build them. Two of them run threads. **pigz**, parallel gzip
(`src/pigz/pigz.c` and its thread library `src/pigz/yarn.c`), has threads that share
reference-counted buffers, lists ordered by sequence numbers, read-ahead and write-behind
threads, and boundary arithmetic between buffers. **liblzma**, the library of xz, has the
multi-threaded encoder (`stream_encoder_mt.c` with `outqueue.c`): workers that finish
blocks in any order into a ring of buffers that is read in order. This development
models both, with the sequential algorithms of pigz that are easy to get wrong by one.

## 1. Inventory

| Component | State | Operations | Interacts with |
|---|---|---|---|
| yarn locks (`yarn.c:97-186`) | a mutex, a condition variable, a `long` | `possess`, `release`, `twist`, `wait_for`, `peek_lock` | all of pigz |
| yarn threads (`yarn.c:188-389`) | `threads` (list), `threads_lock` (value: threads done, not joined), the mark `done` of each thread | `launch`, `ignition`/`reenter`, `join`, `join_all`, `destruct` | `finish_jobs`, `load`, `outb` |
| buffer pools (`pigz.c:952-1110`) | free list, its lock `have`, `limit`, `made`; in each buffer the lock `use` with its count | `new_pool`, `get_space`, `use_space`, `drop_space`, `grow_space`, `free_pool` | main, compress threads, write thread |
| block splitting (`1500-1669`, `1695-1851`) | `curr`, `next`, `hold`, `left`, `scan`, `hash`; `in[]`, `next[]`, `start`, `more`, `got` | the loops of `parallel_compress` and `single_compress` | jobs |
| jobs (`1112-1468`) | compress list and `compress_have`, write list and `write_first`, `cthreads`; in each job the lock `calc` | `setup_jobs`, `compress_thread`, `write_thread`, `finish_jobs` | pools, threads |
| check values (`840-939`) | none | `adler32_comb`, `crc32_comb` | `write_thread` |
| block length lists (`1470-1494`, `1295-1354`) | a pool buffer | `append_len`, the decoding in `compress_thread` | jobs |
| decompression input (`1853-2010`) | `in_buf`, `in_buf2`, `in_which`, `in_next`, `in_left`, `in_len`, `in_eof`, `in_short`, `load_state`, `load_thread` | `in_init`, `load`, `load_read`, `GET` | descriptor `ind`, `list_info`, `process` |
| decompression output (`2496-2614`) | `out_copy`, `out_len`, `outb_write_more`, `outb_check_more`, the threads | `outb`, `outb_write`, `outb_check` | `infchk` |
| list_info (`2395-2480`) | `tail` | find the trailer by seeking or by reading on | decompression input |
| LZW decompression (`2734-2922`) | code size, `prefix[]`, `suffix[]`, bits left over | `unlzw` | decompression input |
| file processing (`process`, `cut_short`, `bail`) | `ind`, `outd`, `in`, `out`, the files | open, create, unlink | everything |
| xz encoder (`stream_encoder_mt.c`) | `sequence`, `thr`, `threads_free`, `thread_error`, `index`; in each worker `state`, `in_size`, `outbuf`, and the mutexes and condition variables | `lzma_code`, `lzma_stream_encoder_mt`, `lzma_end`; `worker_start`, `worker_encode` | output queue, the application |
| xz output queue (`outqueue.c`) | `bufs[]`, `bufs_pos`, `bufs_used`, `read_pos` | `lzma_outq_init`, `_get_buf`, `_read`, `_is_readable` | main and workers of the encoder |

Not modelled: headers and trailers of pigz as bytes, its options and trace log; the sequential
coders and the tool of xz; bzip2, gzip, lz4, lzo, lzop, gnulib, the build scripts.
`PROJECT.json` lists every one with its status.

**What is hard.** A wake-up lost between a test and a sleep, or sent to the wrong
waiter (yarn); a new thread that ends before its creator has put it in the list, and the
count that `join_all` sleeps on; the two orders in which a pool takes its two kinds of
locks, and the moment between "I am the last user" and "it is in the list"; buffers that
the writer, the compress thread (twice: to compress and for the check value), the next
job (as dictionary) and main (which moves input between buffers) hold at the same time;
jobs that finish out of order; `left`, `scan` and `hold`, which carry the rolling hash from
one turn to the next; a read thread that outlives its file; three threads around one copy of the
output; an interrupt between two lines of `process()`; a worker of liblzma that is idle to main
and not done with its buffer. `hazards` in `PROJECT.json` lists where each would bite.

**What makes each part correct.** Locks: no wake-up lost, waits end.
Threads: the list is the threads not joined, the count the done ones among them, no lookup fails, calls
return. Pools: a free buffer is nobody's, none is lost, no deadlock. Splitting: jobs
are the input without gap, dictionaries its windows, blocks end where the input says. Jobs:
the output is the input, in order, decompressible, with the right trailer; every stream ends and
everything is back. Input: bytes in order, the end where the file ends, nobody left behind. Output:
each piece once, in order, all of them before the trailer is compared. Files: data that was whole is whole
somewhere, what is incomplete does not stay, what is not ours is not touched. Encoder: the blocks are the
input, cut where asked, in order; every thread is somewhere; calls return and streams finish.

## 2. The modules

```
YarnOps ── LockSpec            what yarn.h promises of a lock
   └────── Yarn                mutex + condition variable   ── implements ──> LockSpec
YarnThreads                    launch, join, join_all, destruct; locks as in LockSpec
YarnProofs                     Yarn and YarnThreads together (theorems)
SpacePool                      what the users of a pool rely on
Pool                           get/use/drop_space            ── implements ──> SpacePool
   └─ PoolProofs               (theorems)
Blocks                         cutting input into jobs and blocks, as operators
   ├─ BlocksProofs             what they give on any data (lemmas)
   ├─ ParallelBlocks ─ Threading ── INSTANCE SingleBlocks    one input, both compressors
   │                       ├─ Checks                         combining check values
   │                       └─ ThreadingProofs                with BlocksProofs and Lens (theorems)
   ├─ SingleBlocks
   └─ Compress                 main, compress threads, write thread; pools as in SpacePool
        └─ CompressProofs      (theorems)
Grow ── Lens                   list of block lengths in a growing buffer
Load                           read-ahead of the decompressor
Outb                           write-behind of the decompressor
DecompressProofs               Load and Outb together (theorems)
Lzw                            the LZW decoder, and an encoder to test it with
MCBench                        Threading, Lens and Lzw in one run
Files ── FilesProofs           output files, errors and interrupts (theorems)
BlockQueue                     what outqueue.h promises
EncoderMt                      the encoder of liblzma, with its ring  ── implements ──> BlockQueue
   └─ EncoderProofs            (theorems)
```

Each level uses what the level below was shown to provide: `Yarn` implements
`LockSpec`, so the other modules take `possess` with `wait_for` as the guard of a
step and `twist` as its effect; `Pool` implements `SpacePool`, so `Compress` gets, uses
and drops buffers in one step.

* **Yarn.** `mutex`, `value`, and for each thread where it is in its call. `Possess`,
  `Release`, `Twist`, `WaitFor` are the functions; a wait is split where it can be
  interrupted: `Test` (the loop condition, which sleeps or goes in), `Reacquire` (back from
  `pthread_cond_wait`), `SpuriousWake`. `Broadcast` is `pthread_cond_broadcast`.
* **YarnThreads.** `threads`, `marked` (the flags `done`), `threadsLock` and `by` (value and possessor of
  `threads_lock`), `state` of each thread, `mpc`/`ally` for the calls of main. A thread may run and end between
  `pthread_create` (`LaunchCreate`) and its entry in the list (`LaunchLink`). `Signal` is the SIGUSR1
  of `destruct`: in `probe()` it runs the clean-up handler, later it just ends the thread, with
  whatever it possesses.
* **Pool.** `head`, `have`/`haveBy`, `limit`, `born` (`made` is its cardinality), `use`/`useBy`,
  and `refs`, the references held by code outside the calls. One step per critical
  section, or per part of one up to the next lock: `get_space` is `GetPossess`, `GetPull`,
  `GetPop`, `GetTwist` or `GetMake`; `drop_space` is `DropShared` or `DropLast`, `DropPush`,
  `DropTwist`. `FreePool` comes when the program is done with the pool, and a new pool may follow.
* **Blocks, ParallelBlocks, SingleBlocks, Threading.** A piece of input is an interval of
  positions; the hash is the set of positions where it hits. `RsyncTurn` is the body of the
  rsync part of the loop, `NextDict` the dictionary it prepares, `Cuts` the reference definition
  of where blocks have to end, which no code computes. `SingleBlocks` is the loop of
  `single_compress` with its offsets in `in[]` and `next[]`. `Threading` runs the same input through both.
* **Compress.** All of `parallel_compress`, `compress_thread`, `write_thread` and `finish_jobs`,
  one step per stretch between locks. A buffer that nobody has a reference to holds
  garbage, so use after drop shows in the output. zlib is
  abstracted to what a decompressor needs: which bytes a compressed block stands for, and the
  window it was compressed against; check values are abstracted to the piece they cover,
  and combining them to appending the pieces.
* **Lens, Grow.** Byte for byte, since the conversion is the point: three forms of codes, in a buffer
  that `grow()` enlarges in arithmetic modulo 2^Width.
* **Load.** Bytes are named by file and position. The files of one program run follow
  each other, so that globals that survive a file (`in_which`, `load_state`, `ind`) are the model's state. `readn`
  is several calls of `read()`, each of which may return less than it could.
* **Checks.** `AdlerComb` with the unsigned arithmetic of the code, in words of twice `Half` bits and modulo the
  largest prime below `2^Half`; `CrcComb` with matrices as sequences of sets of bits. `Adler` and `Crc`, the
  values of zlib, are the reference. `Threading` combines the values of the jobs as they are made.
* **Lzw.** `unlzw` code by code: `Sized` is the test for a wider code, `Fetch` the bits of the next code,
  `Flush` the macro `FLUSHCODE`. The encoder (external: compress(1)) is greedy, may send a clear code at any place, and
  fills up its groups of codes.
* **Files.** One step per system call or assignment between which an interrupt matters: `SetOut` (`out`), `Open` and `Assign`
  (`outd = open()`, with the moment in between), `Overwrite` (the user said yes), `Process`, `CloseOutput`, `Protect` (`outd = -1`),
  `RemoveOriginal`, `Release`. `Bail` is enabled wherever `process()` or what it calls may fail, `Interrupt` everywhere;
  `Look` and `Remove` are the test and the `unlink` that both make. A file's content is the data it
  stands for or `Part`. SIGINT comes to the thread of main; when it would come to another, that
  thread's handler runs while main goes on, which is not modelled.
* **EncoderMt, BlockQueue.** One step per `mythread_sync`, up to a wait in it. `Call` is `lzma_code()` with an action, some more
  input and some room for output; `StartStream` is `lzma_stream_encoder_mt()`, which ends the old threads or stops and keeps
  them; `EndEncoder` is `lzma_end()`. `mpc` says where main is in the call; the steps of a worker are those of
  `worker_start` and `worker_encode`. The block encoder is abstracted to what it may do: take input, end
  the block, find it incompressible, or fail. `written` is the sequence of the blocks in the output, `index` that of the blocks
  which `lzma_index_append()` has taken (`EndOfBlock`): it may fail, as may `initialize_new_thread()` (`NewThread`) and
  `lzma_index_encoder_init()` (`BeginIndex`). A block takes three units of output, so that it can be read in part,
  and its last unit may leave room or not.
  Each condition variable has at most one sleeper besides the one who signals.
* **Outb.** Pieces of output are numbered; `threads` may differ from stream to stream, as
  options may between files.

Variants marked "Not the code" in a module are plausible mistakes (a dropped wait, a missing
reset); each property is checked to fail with one of them, so that it says something about the code.
`TypeOK` documents the ranges of the variables of each module with state; it is proved for `Yarn`, `Pool`,
`Files`, `Load` and `Compress`, as are `Exclusive` of `Yarn` and `UseCounts` of `Pool`, and no run spends time on them.

## 3. The runs

| Run | Instance | Shows |
|---|---|---|
| `yarn_lock` | 3 threads, values 0 and 1, every condition and change | `NoLostWakeup`, `WaitsEnd`; `Implements` (LockSpec) |
| `yarn_threads` | 3 threads, launched, joined and signalled in any order | `ListOK`, `NeverFails`, `AllJoined`, `CallsReturn` |
| `pool` | 2 getters and a dropper, 2 buffers, limit 2, up to 2 uses | `NoSharing`, `Asserts`, `NoneLost`, `CallsEnd`; `Implements` SpacePool |
| `algorithms` | every input up to 11 bytes, every set of hits, with and without -R and -i, buffers of 4, window 3; up to 6 block lengths at the limits of the three codes; LZW texts of up to 90 symbols | `JobsAreInput`, `BothStayInside`, `DictionaryIsWindow`, `HashedInOrder`, `SameBlocks`, `SameTrailer`; `BlocksAsAsked`; `TextBack` |
| `compress` | an empty stream and streams of 2 and 4 jobs, two in a row, or one of 3 or 4 jobs with -R; 2 compress threads, 4 input buffers | `OutputIsInput`, `JobsSafe`, `MovesUnshared`, `Asserts`, `StreamsEnd` |
| `load` | files of 0 to 7 bytes, buffers of 3, a trailer of 2; alone or after another file, with and without threads | `LoadsInd`, `TrailerIsEnd`, `NoneLeft`, `Ends` |
| `load_junk` | a file left before its end, then another | *violation* of `LoadsInd` |
| `outb` | two streams of up to 3 pieces, threads or not in each | `InOrder`, `StreamDone`, `OutbReturns` |
| `encoder` | up to 2 workers, blocks of 2 bytes, room for two thirds of a block; one or two streams, of up to 3 bytes, one error in some | `OutputIsInput`, `ThreadsAccounted`, `CallsReturn`, `FinishEnds`; `Implements` BlockQueue |
| `encoder_reuse` | a stream that fails, then another with the same number of threads | *violation* of `OutputIsInput` |
| `files` | 3 arguments out of two files and stdin, all mixes of -f, -k, -c, an output that exists, one interrupt or error | `NeverLost`, `NothingPartLeft`, `LosesOnlyAsked` |
| `files_interrupt` | the same, with a named file after output to stdout | *violation* of `LosesOnlyAsked` |

**Why the bounds are enough.** With three threads on a lock there is a possessor, a
waiter and one that changes the value, and two waiters for different values, which is what
`twist`'s broadcast is for. In `yarn_threads` one thread can be joined while another is in
`reenter` and a third not yet in the list. In `pool` the second getter finds the limit
reached and the list empty, while the third thread is at any point of `drop_space`; three references
to a buffer are more than two threads can drop at a time.

The input of `algorithms` covers two full
buffers and a part, so every combination of hits in `curr`, in
`next`, in the part of `next` that has room, and in the tail that is held; the window is one less than the
buffer, so that a job cut by a hit needs a constructed dictionary. The check values are modulo 3 and
of 4 bits, so that the sums of `AdlerComb` reach each of its tests, and lengths are
longer than the modulus. The buffer of a list starts with 16 bytes or more, which six codes of three bytes outgrow.
An LZW byte has 2 bits: codes of 3 and 4 bits, tables of 8 and 16 entries, which the long texts fill, with
clear codes before, at and after the change of the size (`MaxClears` is 1). The three algorithms share one run, each in behaviours
of its own, while the others rest.

`InLimit` is 7 in the code for two processors (`INBUFS`); in `compress` it is 4, so that main really waits for a
buffer with the fourth job, also while it holds three of its own with -R. `Programs` has two streams in a row because threads, lists and
pools stay for the next stream. With -R the sets of hits are those that differ in what main does with
the second buffer: `algorithms` has all of them. `OutBound`, the buffers of a pool without limit, is 5: one for each
of the two threads and what can wait for the writer; a run in which it were too small would stop main
or a compress thread, not hide a state of a smaller backlog. `MaxJobs`, the last sequence number of a stream, is 8, more than any input of
the run needs; it bounds the guard of `NewJob`. In `load`, files of 0 to 7 bytes are empty, shorter
than, equal to and longer than one and two buffers, with a trailer that lies across two.

In `encoder` two workers finish in either order; with one, the ring has two
buffers and three blocks go round it. A stream of one byte that may fail, in main, a worker or the index, is followed by one
of three, in new threads or in those of before; `Reuses` says in which situations the same number of threads is kept, the only one
that is right for sure being the end of a stream (see section 5). In `files` two arguments have outputs, one of which exists, and the third may be either
again or stdin, so that the globals of one file are there for the next.

`CHECK_DEADLOCK FALSE` is in `YarnThreads.cfg` only: there the system really may stop, see
`destruct` in section 5. The other modules have an explicit step for a program that is done.

The run of `pool` is about a pool with a limit. That the same holds with `Limit = -1`, and
for other numbers of threads and buffers, is what the proofs are for.

**Fairness.** A thread that can go on does (weak fairness of the steps of each
thread), and a mutex that is free again and again is had in the end (strong fairness
of getting it, in `Yarn`, `Pool` and `YarnThreads`): POSIX does not promise the
second for every scheduler, the program relies on it. A possessor lets go in the end, since every critical section of pigz
is short. No fairness makes anyone call an operation, let a spurious wake-up happen or a signal arrive, with
these exceptions that the code around justifies: a reference is dropped in the end
(`compress_thread` and `write_thread` drop what they are given on every path);
a launched thread returns; and an application that has called `lzma_code()` with `LZMA_FINISH` calls it
again until it is done, as `base.h` asks (`FinishingSpec`, for `FinishEnds` alone). The time-out of `wait_for_work` is never relied on, as
it may be 0. In `Outb` the decompressor may stop calling. `Files` has no liveness: an interrupt may end it at any moment.

## 4. The theorems

All proofs are checked by TLAPS down to the last leaf.

* `YarnProofs`, about `Yarn`, from `YarnAssumption` (the thread and value sets are any sets that do not
  hold the markers; an initial value that is one of the values): `LockTypeCorrect`, `MutualExclusion`,
  `WakeupsNotLost`, and `Refinement` (`Spec => Implements`). The inductive invariant is
  `TypeOK /\ Exclusive /\ WantOK /\ NoLostWakeup`: no lost wake-up depends on the
  test and the sleep being made by the owner of the mutex, that is on `Exclusive`, and on the condition being
  remembered exactly while waiting (`WantOK`). In the refinement, a thread that is about to find its
  condition false has already given the lock up.
* `YarnProofs`, about `YarnThreads`, from `ThreadsAssumption` (a finite set of threads, apart from main and the markers), with `destruct`: `ListRight`, `NoFailure`,
  `AllAreJoined`. The inductive invariant says that the list holds once what is launched and not joined, but for the thread that main is about to link
  (`Linked`); that the value of `threads_lock` counts the marked threads of the list (`Marks`); who possesses that lock, which a thread
  ended by a signal keeps (`Possession`); and what main knows of the thread of its call (`AllyOK`), in particular that a thread about to be linked
  cannot be in `reenter` yet, since main has the lock. That `join_all` finds a marked thread follows from a cardinality that is not 0.
  Lemmas say what `First` and `RemoveFirst` give on a list without repetition.
* `PoolProofs`, from `PoolAssumption` (finite sets of threads and buffers, a limit of -1 or between
  1 and the number of buffers): `TypeCorrect`, `BuffersNotShared`, `UseCountsRight`,
  `AssertionsHold`, `NothingLost`. `NoSharing` is not inductive: it needs to know who possesses which lock
  at which point (`LocksOK`), what a thread knows of the buffer it works on between two
  locks (`AtWorkOK`), that the use count counts the references, with the one that is still in the count of a buffer
  just pushed (`CountOK`), and that a getter that finds the list empty may make a buffer (`MayMake`).
  `NothingLost` has its own inductive part, `AllSomewhere`, on top of `IInv`.
  There is a lemma for each action, and lemmas on what popping and pushing do to a list without repetition
  and on the set of threads that spend a reference.
  `Refinement` is that `Pool` implements `SpacePool`. The invariant `RInv` adds
  that `pool->limit` is the limit less the buffers made (`LimitOK`). A get takes effect at
  `GetPop` or `GetMake`, a use at `UseTwist`, a drop at `DropShared` or at `DropPush`; all other
  steps are invisible (`Unseen`).

* `FilesProofs`, from `FilesAssumption` and, stated in each theorem, `NamesApart` (outputs have different names, which are
  not those of inputs, nor "<stdout>"): `DataIsKept`, `NothingIncomplete`, and `OnlyAsked`, which also assumes that all output after some to stdout goes there
  (`StdoutLast`) and that no file has the name "<stdout>". The inductive invariant of `Invariant` says that `out` is that of
  the argument at work (`OutOK`), what `outd` and `fd` are at each point (`OutdOK`), that nobody writes to an input (`InputsOK`), that the output of an input
  that is gone or about to go is whole (`OutputsOK`), and what `ending` may be about to remove. `OnlyAsked` needs `LInv`
  besides: `outd` is -1 whenever `out` names a file that pigz has not opened, which is what `StdoutLast` is for.

* `DecompressProofs`, about `Load`, from `LoadAssumption` (any sizes, a trailer that fits in a buffer, any set of programs) and, stated in each theorem,
  `ReadToEnd`: a file with a read thread is read to its end, or its end is in its first buffer, which is what `load_junk` shows to be needed. `Loads`, `TrailerFound`,
  `NoneIsLeft`, `TypeCorrect`. The inductive invariant says that only the file at work has a read thread (`Threads`) and where its end has been
  seen (`AtWork`); that the read thread has the buffer the decoder has not, and which bytes are in it at each of its steps (`ReaderOK`); that what the decoder has are the next
  bytes of the file (`BufferOK`); and that `list_info` keeps the last bytes before the buffer (`TailOK`). `off` is where the decoder is plus what is
  read ahead, which relates two threads that share no lock but by its value. `ReadToEnd` is used at two places only: when a file is left (`CloseKeeps`) and
  before `list_info` seeks (`ListSeekKeeps`), where no read thread may be there.

* `DecompressProofs`, about `Outb`, from `OutbAssumption` (the bounds are numbers, any numbers): `DoneInOrder` and `StreamsDone`. The inductive invariant says what
  main knows at each point of `outb()` (`MainOK`: after the waits the values of the locks are 0, before the joins the copy is the end of the
  stream), that a thread keeps its lock at 1 and the copy as it took it while it works (`WorkerOK`), that it may have ended only after
  the piece of no length (`WorkerOK`), and that it has done all it was given but the piece in the copy (`Counted`). A sequence of pieces
  is then its length (`Pieces`), so that order follows from counting.

* `ThreadingProofs`, from `BlocksAssumption` and `LengthAssumption` (any block size, a window not larger than it, any bound on the length), for every input and every
  set of hash hits: `JobsAreTheInput`, `CopiesStayInside`, `WindowForEachJob`, `EveryByteHashed`, `BuffersOfBoth`, `IndependentOfThreading` and
  `BothImplementsParallel`. The invariant of a turn of `parallel_compress()` says what is in `next` and `hold` (`Buffers`), where the hash is and that it has found
  no hit since the last job (`Hashing`), what the dictionary holds (`Dictionaries`, a `Window`) and that the blocks so far are a `Chain`: cuts from 0 up to the last job,
  each at the `NextCut` of the one before. `left` is not 0 just when a tail was held, and then the hash has already been over what follows it: that is what
  a turn relies on. That of `single_compress()` says the same of its two buffers at each point of the loop (`AtTop`, `AtScan`, `AtBlock`), and where it has cleared
  the history (`Clears`). Two chains up to the end of the input are the same set, the `Cuts` (lemma `CutsAre`), whatever the buffers they were found in.
  The lemmas on the operators are in `BlocksProofs`: what `Lengths` and `BlockEnds` do to a set of hits, that the list of lengths coded by main and
  decoded by a compress thread ends blocks just at the hits (`EndsOfHits`), what `RsyncTurn` gives (`TurnIs`), and that `NextDict` is a window again (`NextDictIs`).

  The last part is about `Lens`, from `GrowAssumption` (a `size_t` of at least 16 bits, as C asks) and `LensAssumption` (hits are at least a byte apart, and three bytes
  for each hit of a job and for the end of its list are no more than a `size_t` can count): `ListRight`. The three forms of codes are told apart and give the length back (`DecodedIs`),
  `grow()` gives at least four bytes more or the largest size, also where the shift is undefined or the sum wraps (`Grows`), so that `append_len()` never writes over
  the end (`PutFits`). The invariant `ListInd` says where each code is in the list (`Places`), what the running totals of the lengths are (`Totals`), and that
  the decoder is at the code of the next block with what is left being the rest of the total (`AtCode`); the totals rise with each block, so
  that nothing is left only after the last one. `Pow2` is a recursive function since the provers know nothing of `^`.

* `CompressProofs`, from `CompressAssumption` and `BlocksAssumption` (positive numbers of threads and bytes, any limits of pools and of sequence numbers, any
  set of programs), in three layers. `Control` is about jobs: the buffers main has at each point (`BuffersOK`), which threads run
  (`ThreadsOK`), that the compress list is the last jobs in order (`CompressListOK`), how far the write thread is (`WriterOK`), which jobs exist
  from the one at the writer to the one main makes (`JobsOK`), that a compress thread has a job of its own that is in no list (`WorkOK`), and that the
  write list is in order and between the two (`WriteListOK`). It gives `JobsAreSafe`. `References` adds the counts. A reference is a token, that is a
  variable or field that may name a buffer: main's four buffers, three fields of each job, and the second reference that a compress thread has for
  the check value. `held` says which buffer a token stands for at each point of the code, and `CountsOK` that the use count of a buffer
  is the number of tokens that stand for it. A step then takes a reference (`Put`), drops one (`TakeAway`) or hands it on (`Pass`), and there is a lemma for
  each action that says which. `MainAlone` says that what main is filling or cutting has no other token, which with the
  counts gives `MovesAreUnshared`: the count is 1. `CountsAreReferences`, `TypeCorrect` (no count is negative), `AssertionsHold` (a stream that is done leaves no
  token, so that all counts are 0) and `NoUseAfterDrop` (a thread that reads a buffer holds a token for it) follow as well. The last is what the abstraction
  of a free buffer as garbage turns into wrong output.
  `Contents` is about what is in the buffers, and gives `OutputRight`: the output is the input, in the blocks asked for, with its length and check value.
  It says that there is a story of the stream so far, that is the position `f[n]` where each job begins and the set `S` of the positions where blocks end, a `Chain` as
  in `ThreadingProofs`, such that main's buffers go on where the last job ends (`Buffered`, `DictAt`, and at each point of the loop `MainData`),
  each job has the piece `Of(f, n)` in its input, a window before it in its dictionary, the blocks of `Part(f, S, n)` in its list of
  lengths or its output, and the check value of its piece (`JobData`), a compress thread has what it took of them (`ThreadData`), and what is
  written is the input up to the job at the writer (`OutData`). A step of main changes only buffers that nobody else has
  (`MainStory`, from `MainAlone`), those of threads only what no token stands for (`StillThere`), so that most of the story stays as it is; `Rsync` alone adds to it, with what
  `TurnIs` and `ChainExtends` of `BlocksProofs` say of a turn.

* `EncoderProofs`, from `EncoderAssumption` (positive numbers of threads and bytes, any finite set of plans, any rooms) and, stated in each theorem,
  `Reuses \subseteq {"end"}`: the encoder is kept for another stream, without new threads, only when the stream before has ended. That is the one
  situation which is right for sure; `encoder_reuse` is a counterexample without it. Errors of workers, of new threads and of the index, time-outs, spurious wake-ups,
  `lzma_end()` and new streams with other threads in mid-stream are all there.
  * `Invariant`: `Safe` is inductive. Its parts are `Types`; `HoldersOK`, the ring within its size (`RingOK`), each worker that has a block the owner of a
    buffer of the ring of its own, which is not finished (`OwnersOK`), and what a worker knows at each point (`WorkersOK`); `PhaseOK`, which workers
    main has stopped or joined so far; and `LiveOK`, about a stream without an error: what has been given of the input, that a worker is on the
    stack of free threads exactly when it is not busy nor the one main is about to start, the thread that main gives input to, and what holds when only the index is left.
  * `OrderInvariant`: `Safe /\ Ordered` is inductive. `WrittenOK` says that what is written is cut where it has to be, and `ChainOK` that the ring goes on
    from there: there are positions, from the end of what is written to that of the input taken, such that each buffer of the ring, in its order,
    is the piece between two of them and finished, or in the hands of a worker that will finish it so (`Fills`), or the last one, which is still given input (`Begun`).
    That is needed because blocks are finished in any order, and a worker's encoded block is not yet marked between its two critical sections.
  * `BlocksInOrder` and `EveryThreadAccounted` follow, the second by counting: owners and unfinished buffers are in bijection. The blocks of `BlocksInOrder`
    are those in the output, whether or not the index takes them; the index has the same only as long as nothing in the stream has failed (`IndexKept`),
    because after that it may lack some (section 5).
  * `RingIsQueue`: `lzma_outq_get_buf` in `ResetThread` is `GetBuf`, the step in which a worker marks its buffer is `Finish`, the read that reaches the end of a
    buffer is `Read`, `lzma_outq_init` is `Reset`, and all else is invisible.

**Only model-checked**: liveness (all of it); `TextBack` (`Lzw`) and `SameTrailer` (`Checks`), whose recursive definitions go byte by byte
or bit by bit over data, so that a proof is an induction over arithmetic on digits.

The provers cannot use an induction theorem on an operator. Where a proof needs induction over data all the same (`Cuts`, `BlockEnds`), `BlocksProofs`
has the set of numbers for which the claim holds, shows that it has 0 and with each number the next (`Up`), and gives the recursive function explicitly (`Iterate`).

## 5. What was found

* `load_junk`: a file left before its end (junk after the compressed data, an unknown
  format) leaves `load_read` running; `in_init` forgets it and it goes on with the globals and the
  descriptor of the next file. `join_all` later joins it as if it were a compress thread, and
  `assert(caught == cthreads)` (`1193`) may fail.
* `encoder_reuse`: `threads_stop(coder, true)` returns when every worker has set `THR_IDLE` (`stream_encoder_mt.c:381-386`), which a worker
  does before it marks its buffer finished (`388-405`). A worker that had completed a block when the stream failed
  may do so after `lzma_outq_init` has given that buffer to the new stream, and main reads a block that is not there yet.
* `files_interrupt`: `outd` stays 1 after output to stdout, so that for the next named file `out` is set and `outd` is not -1 before
  `open()` has returned: an interrupt in between removes a file of that name that pigz never opened.

Observed while modelling, and not runs of their own:

* `stream_encode_mt()` means to fail when "lzma_index_append() failed" (`stream_encoder_mt.c:722-727`), but with room left in the output it goes round its
  loop first (`718-719`) and overwrites the error (`696`) before anything has looked at it. The block is then in the output and not in the index, and
  `LZMA_FINISH` returns `LZMA_STREAM_END` for a file whose index does not match its blocks; it takes `LZMA_MEM_ERROR` or `LZMA_DATA_ERROR`
  (`index.c:664-682`). `EndOfBlock` has it: with one stream of two bytes that may fail once, room 2 as in `Encoder.cfg`, and the invariant `mpc = "app" /\ action = "FINISH" /\ result = "end" => index = written`, TLC
  finds it in 22 states. That is why `OutputIsInput` is about the blocks in the output, and about the index only as long as nothing has failed.
* With `-i -R` the output does depend on threading, whatever the change log says (`pigz.c:138`): `single_compress` clears the history only when the
  blocks since the last reset exceed the block size (`1809-1815`), and `parallel_compress` starts every
  job without history. `SameBlocks` is about the blocks, and about the history with `-i` alone.
* `list_info` seeks in the descriptor (`2433`) while the read thread, asked for the next buffer
  when the first was full, reads from it. `load` lists files with threads only where it does not seek.
* `destruct` (`yarn.c:380-389`), which pigz never calls, can hang: its signal may end a thread that is in `reenter` with `threads_lock` in its possession, which then nobody
  can release. `CallsReturn` is about programs without it; the other properties of `YarnThreads` hold with it.
* With output to stdout, `bail()` and `cut_short()` unlink a file of the name `<stdout>` in the current directory.
* An interrupt between `open()` and the assignment to `outd` leaves an empty output; `NothingPartLeft` makes that exception.
* With `-d -N -f` and a name in the header that is the name of the input, `open()` truncates the input before it is read. `NamesApart` excludes it.
* In liblzma, `threads_stop()` may turn the `THR_RUN` of a worker that was taken from the stack, and has not yet woken up, into `THR_STOP`. The worker goes back
  to sleep without putting itself on the stack, is lost to the next stream, and with all workers lost that way and no time-out main waits forever.
  It takes an error or a new stream in mid-stream right after the worker was taken: the run `encoder` keeps threads only after a stream has ended.

## 6. Hazards without a property

`PROJECT.json` lists all hazards with the properties that guard them. Without one is only the race in `list_info`
between seeking and the read thread, which is real.

## 7. Not modelled

`bail()` is in `Files` and the end of the program in `Load`; elsewhere it is absent: what other threads do in the moment between its
`unlink` and `exit` has no effect on files, since they only write to the descriptor. Memory and I/O errors all lead to it. zlib,
pthreads and the system calls are external; pthreads is modelled in `Yarn` and `EncoderMt` from how the code uses
it. Sequence numbers are not bounded to a `long`. Formats of headers, options, messages and the trace log (DEBUG only) are left out, as are
recursion into directories and symbolic links. Of liblzma the stream header, the progress counters, `in_chunk_max`, `LZMA_BUF_ERROR` and
the bytes of index and footer are left out; so are the errors of `lzma_stream_encoder_mt()` itself, after which
`lzma_next_strm_init` ends the encoder as `lzma_end()` does.

The sequential coders (liblzma's codecs, bzip2, gzip, lz4, lzo) and gnulib make up almost all of the lines of the repository. They are computations on bytes
without concurrency or failures to interleave, much of them vendored or tables, and a model that is shorter
than they are would leave out just what could be wrong in them.

## 8. Plan

1. *Done*: locks, pools, output and files (checked and proved), threads, splitting, jobs, lengths, check values, LZW, input, and liblzma's encoder.
2. Proofs: *done* for locks, threads, pools, jobs with their reference counts, input, output, files, liblzma's encoder with its ring, the loops of both compressors and that they cut alike, the output of parallel compression, and the lists of block lengths. Left: the two that go bit by bit, `Lzw` and `Checks`.
3. Abstract specifications still worth stating: parallel compression as a stream of blocks written
   in order, implemented by `Compress`; a reader of a file, implemented by `Load`.
4. Components: the index of `.xz` files (`index.c`, `index_hash.c`) as a pure algorithm, the state machine of `BZ2_bzCompress`, the removal of files on signals in gzip.
