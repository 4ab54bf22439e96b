----------------------------- MODULE FilesProofs -----------------------------
(***************************************************************************)
(* Proofs about Files, for any names, arguments and options, of inputs     *)
(* whose outputs have names of their own.                                  *)
(***************************************************************************)
EXTENDS Files, TLAPS

(* Outputs have different names, which are not those of inputs.            *)
NamesApart ==
  /\ \A p \in Paths : OutName[p] \notin Paths \union {Stdout}
  /\ \A p, q \in Paths : OutName[p] = OutName[q] => p = q

AtWork == {"name", "open", "assign", "exists", "failed", "stream", "close", "closed"}

(* out is that of the argument from the choice of its name on.             *)
OutOK ==
  IF mpc \in {"idle", "name"} THEN out = NoName
  ELSE out = IF ToStdout THEN Stdout ELSE OutName[path]

(* The descriptor is that of stdout when the output goes there; it is      *)
(* given up before the original is.                                        *)
OutdOK ==
  /\ mpc \in {"assign", "stream"} /\ fd \in {1, File} => (fd = 1 <=> ToStdout)
  /\ mpc = "assign" /\ fd = Exists => ~ToStdout
  /\ mpc = "stream" => fd \in {1, File} /\ outd = fd
  /\ mpc \in {"exists", "close", "closed", "original"} => ~ToStdout
  /\ mpc = "original" \/ (mpc = "release" /\ ~ToStdout) => outd = -1

(* Nobody writes to an input, and the one at work is there.                *)
InputsOK ==
  /\ \A p \in Paths : disk[p] # None => p \in Existing /\ disk[p] = Whole(p)
  /\ mpc \in AtWork \union {"original"} /\ path \in Paths => disk[path] # None

(* The output of an input that is gone is whole, and so is that of one     *)
(* that is about to go.                                                    *)
OutputsOK ==
  /\ \A p \in Paths \intersect Existing :
       disk[p] = None => disk[OutName[p]] = Whole(p)
  /\ mpc \in {"close", "closed", "original"} /\ ending # "ended" =>
       disk[OutName[path]] = Whole(path)

(* Only the output that is being written is not complete.                  *)
PartOK ==
  /\ \A n \in Names : disk[n] = Part =>
       /\ n = out /\ ~ToStdout
       /\ (mpc = "assign" /\ fd = File) \/ (mpc = "stream" /\ outd = File)
  /\ ending = "remove" => outd # -1 /\ out # NoName
  /\ NothingPartLeft

IInv == TypeOK /\ OutOK /\ OutdOK /\ InputsOK /\ OutputsOK /\ PartOK

-----------------------------------------------------------------------------

LEMMA Kinds ==
  /\ None \in Contents /\ Part \in Contents /\ None # Part
  /\ \A d \in Names : Whole(d) \in Contents /\ Whole(d) # None /\ Whole(d) # Part
BY DEF None, Part, Whole, Contents

LEMMA InitOK == Init => IInv
<1> SUFFICES ASSUME Init PROVE IInv
  OBVIOUS
<1>1. \A n \in Names : disk[n] = IF n \in Existing THEN Whole(n) ELSE None
  BY FilesAssumption DEF Init
<1>2. TypeOK
  BY FilesAssumption, Kinds DEF Init, TypeOK, Exists, Failed, File
<1>3. InputsOK /\ OutputsOK
  BY <1>1, FilesAssumption, Kinds DEF Init, InputsOK, OutputsOK, AtWork
<1>4. PartOK
  BY <1>1, FilesAssumption, Kinds DEF Init, PartOK, NothingPartLeft
<1>5. OutOK /\ OutdOK
  BY DEF Init, OutOK, OutdOK
<1> QED
  BY <1>2, <1>3, <1>4, <1>5 DEF IInv

LEMMA NextOK ==
  ASSUME NamesApart, IInv, [Next]_vars
  PROVE  IInv'
<1> USE FilesAssumption, Kinds
<1> USE DEF IInv, TypeOK, OutOK, OutdOK, InputsOK, OutputsOK, PartOK, NothingPartLeft, AtWork, Running, ToStdout, Exists, Failed, File, vars
<1>1. CASE \E p \in Paths \union {Stdin}, o \in Options : Start(p, o)
  BY <1>1, NamesApart DEF NamesApart, Start
<1>2. CASE Skip
  BY <1>2, NamesApart DEF NamesApart, Skip
<1>3. CASE SetOut
  BY <1>3, NamesApart DEF NamesApart, SetOut
<1>4. CASE Open
  BY <1>4, NamesApart DEF NamesApart, Open, MayOverwrite
<1>5. CASE Assign
  <2>1. CASE fd = Exists
    BY <1>5, <2>1, NamesApart DEF NamesApart, Assign
  <2>2. CASE fd = Failed
    BY <1>5, <2>2, NamesApart DEF NamesApart, Assign
  <2>3. CASE fd = 1
    BY <1>5, <2>3, NamesApart DEF NamesApart, Assign
  <2>4. CASE fd = File
    BY <1>5, <2>4, NamesApart DEF NamesApart, Assign
  <2> QED
    BY <2>1, <2>2, <2>3, <2>4
<1>6. CASE Overwrite
  BY <1>6, NamesApart DEF NamesApart, Overwrite
<1>7. CASE SkipExisting
  BY <1>7, NamesApart DEF NamesApart, SkipExisting
<1>8. CASE Process
  BY <1>8, NamesApart DEF NamesApart, Process
<1>9. CASE CloseOutput
  BY <1>9, NamesApart DEF NamesApart, CloseOutput
<1>10. CASE Protect
  BY <1>10, NamesApart DEF NamesApart, Protect
<1>11. CASE RemoveOriginal
  BY <1>11, NamesApart DEF NamesApart, RemoveOriginal
<1>12. CASE Release
  BY <1>12, NamesApart DEF NamesApart, Release
<1>13. CASE Bail
  BY <1>13, NamesApart DEF NamesApart, Bail
<1>14. CASE Interrupt
  BY <1>14, NamesApart DEF NamesApart, Interrupt
<1>15. CASE Look
  BY <1>15, NamesApart DEF NamesApart, Look
<1>16. CASE Remove
  BY <1>16, NamesApart DEF NamesApart, Remove
<1>17. CASE Stopped
  BY <1>17, NamesApart DEF NamesApart, Stopped
<1>18. CASE UNCHANGED vars
  BY <1>18
<1> QED
  BY <1>1, <1>2, <1>3, <1>4, <1>5, <1>6, <1>7, <1>8, <1>9, <1>10, <1>11, <1>12, <1>13, <1>14, <1>15, <1>16, <1>17, <1>18 DEF Next
(* The invariant, for every run of pigz.                                   *)
THEOREM Invariant == NamesApart => (Spec => []IInv)
<1> SUFFICES ASSUME NamesApart PROVE Spec => []IInv
  OBVIOUS
<1>1. IInv /\ [Next]_vars => IInv'
  BY NextOK
<1> QED
  BY InitOK, <1>1, PTL DEF Spec

(* A name is reached only once, so an input is never there and its output  *)
(* incomplete: in one of its two files, the data of every input is whole.  *)
LEMMA Somewhere == NamesApart /\ IInv => NeverLost
<1> SUFFICES ASSUME NamesApart, IInv, NEW p \in Paths \intersect Existing
             PROVE  Kept(p)
  BY DEF NeverLost
<1>1. CASE disk[p] = None
  BY <1>1, FilesAssumption DEF IInv, OutputsOK, Kept
<1>2. CASE disk[p] # None
  BY <1>2, FilesAssumption DEF IInv, InputsOK, Kept
<1> QED
  BY <1>1, <1>2

(* Whatever fails, and whenever bail() or an interrupt comes, the data of  *)
(* every file that pigz is given is whole in some file.                    *)
THEOREM DataIsKept == NamesApart => (Spec => []NeverLost)
<1> SUFFICES ASSUME NamesApart PROVE Spec => []NeverLost
  OBVIOUS
<1>1. Spec => []IInv
  BY Invariant
<1>2. IInv => NeverLost
  BY Somewhere
<1> QED
  BY <1>1, <1>2, PTL

(* Neither bail() nor an interrupt nor a file that was processed leaves a  *)
(* file behind that is not complete.                                       *)
THEOREM NothingIncomplete == NamesApart => (Spec => []NothingPartLeft)
<1> SUFFICES ASSUME NamesApart PROVE Spec => []NothingPartLeft
  OBVIOUS
<1>1. Spec => []IInv
  BY Invariant
<1>2. IInv => NothingPartLeft
  BY DEF IInv, PartOK
<1> QED
  BY <1>1, <1>2, PTL
-----------------------------------------------------------------------------
(* Which file is removed                                                   *)

(* What outd says of out: not stale, when nothing is written to a file     *)
(* after stdout was, and no file has the name that stands for stdout.      *)
OutdCurrent ==
  /\ outd = 1 /\ mpc # "idle" => ToStdout
  /\ outd = File => mpc \in {"stream", "close", "closed"}
  /\ (mpc = "assign" /\ fd = File) \/ (mpc = "stream" /\ ~ToStdout) =>
       ending = "ended" \/ disk[out] = Part
  /\ disk[Stdout] = None

LInv == IInv /\ OutdCurrent

LEMMA CurrentOK ==
  ASSUME NamesApart, StdoutLast, LInv, [Next]_vars
  PROVE  LInv'
<1> USE FilesAssumption, Kinds DEF LInv
<1>1. IInv'
  BY NextOK
<1>2. OutdCurrent'
  <2> USE DEF OutdCurrent, Running, ToStdout, Exists, Failed, File, vars
  <2> DEFINE Facts == /\ OutOK /\ OutdOK /\ TypeOK
                      /\ \A p \in Paths : OutName[p] # Stdout
  <2>1. Facts
    BY NamesApart DEF NamesApart, IInv
  <2> USE <2>1 DEF TypeOK, OutOK, OutdOK
  <2>2. CASE \E p \in Paths \union {Stdin}, o \in Options : Start(p, o)
    BY <2>2, StdoutLast DEF Start
  <2>3. CASE Skip \/ SetOut
    BY <2>3 DEF Skip, SetOut
  <2>4. CASE Open
    BY <2>4 DEF Open, MayOverwrite
  <2>5. CASE Assign
    BY <2>5 DEF Assign
  <2>6. CASE Overwrite \/ SkipExisting
    BY <2>6 DEF Overwrite, SkipExisting
  <2>7. CASE Process
    BY <2>7 DEF Process
  <2>8. CASE CloseOutput \/ Protect \/ RemoveOriginal \/ Release
    BY <2>8 DEF CloseOutput, Protect, RemoveOriginal, Release
  <2>9. CASE Bail \/ Interrupt \/ Look \/ Remove
    BY <2>9 DEF Bail, Interrupt, Look, Remove
  <2>10. CASE Stopped \/ UNCHANGED vars
    BY <2>10 DEF Stopped
  <2> QED
    BY <2>2, <2>3, <2>4, <2>5, <2>6, <2>7, <2>8, <2>9, <2>10 DEF Next
<1> QED
  BY <1>1, <1>2

(* A step of a kind that does not overwrite loses nothing.                 *)
LEMMA LosesNothing ==
  ASSUME NamesApart, LInv, [Next]_vars, NEW d \in Existing, Kept(d), ~Kept(d)'
  PROVE  mpc = "exists" \/ (mpc = "open" /\ opt.force /\ Running)
<1> USE FilesAssumption, Kinds
<1>1. PICK n \in Names : disk[n] = Whole(d)
  BY DEF Kept
<1>2. disk'[n] # Whole(d)
  BY DEF Kept
<1>3. ~(\E m \in Names : disk'[m] = Whole(d))
  BY DEF Kept
<1> USE DEF TypeOK, Running, ToStdout, Exists, Failed, File
<1> DEFINE Facts == TypeOK /\ OutOK /\ OutdOK /\ InputsOK /\ OutputsOK /\ PartOK /\ OutdCurrent
<1>4. Facts
  BY DEF LInv, IInv
<1>5. CASE Open
  <2>1. CASE ToStdout
    BY <1>1, <1>2, <1>5, <2>1 DEF Open
  <2>2. CASE ~ToStdout /\ ~opt.force
    <3>1. disk' = disk \/ (disk[out] = None /\ disk' = [disk EXCEPT ![out] = Part])
      BY <1>5, <2>2 DEF Open, MayOverwrite
    <3> QED
      BY <1>1, <1>2, <1>4, <3>1
  <2>3. CASE opt.force
    BY <1>5, <2>3 DEF Open
  <2> QED
    BY <2>1, <2>2, <2>3
<1>6. CASE Overwrite
  BY <1>6 DEF Overwrite
<1>7. CASE Process
  BY <1>1, <1>2, <1>4, <1>7 DEF Process, OutOK, OutdOK, OutdCurrent
<1>8. CASE RemoveOriginal
  <2>1. /\ disk[path] = Whole(path) /\ n = path /\ Whole(d) = Whole(path)
        /\ OutName[path] # path /\ OutName[path] \in Names
        /\ disk[OutName[path]] = Whole(path)
    BY <1>1, <1>2, <1>4, <1>8, NamesApart
       DEF RemoveOriginal, OutdOK, InputsOK, OutputsOK, AtWork, NamesApart
  <2> QED
    BY <1>3, <1>8, <2>1 DEF RemoveOriginal
<1>9. CASE Remove
  <2>1. n = out /\ ending = "remove" /\ ~ToStdout /\ path \in Paths
    BY <1>1, <1>2, <1>4, <1>9 DEF Remove, OutOK, OutdCurrent, PartOK
  <2>2. mpc \in {"close", "closed"} /\ out = OutName[path]
    BY <1>1, <1>4, <2>1 DEF OutOK, OutdOK, OutdCurrent, PartOK
  <2>3. /\ disk[out] = Whole(path) /\ disk[path] = Whole(path)
        /\ path # out /\ path \in Names
    BY <1>4, <2>1, <2>2, NamesApart DEF OutputsOK, InputsOK, AtWork, NamesApart
  <2> QED
    BY <1>1, <1>3, <1>9, <2>1, <2>3 DEF Remove
<1>10. CASE UNCHANGED disk
  BY <1>1, <1>2, <1>10
<1> QED
  BY <1>5, <1>6, <1>7, <1>8, <1>9, <1>10
     DEF Next, Start, Skip, SetOut, Assign, SkipExisting, CloseOutput, Protect, Release,
         Bail, Interrupt, Look, Stopped, vars

(* Whatever fails, and whenever an interrupt comes, the data of a file,    *)
(* given to pigz or not, goes only if the user had said so, and when its   *)
(* output is opened: provided that stdout is the last output and has not   *)
(* got the name of a file.                                                 *)
THEOREM OnlyAsked ==
  NamesApart /\ StdoutLast /\ Stdout \notin Existing => (Spec => LosesOnlyAsked)
<1> SUFFICES ASSUME NamesApart, StdoutLast, Stdout \notin Existing
             PROVE  Spec => LosesOnlyAsked
  OBVIOUS
<1>1. Init => LInv
  <2> SUFFICES ASSUME Init PROVE LInv
    OBVIOUS
  <2> QED
    BY InitOK, FilesAssumption DEF LInv, OutdCurrent, Init, File, ToStdout, Exists
<1>2. LInv /\ [Next]_vars => LInv'
  BY CurrentOK
<1>3. LInv /\ [Next]_vars =>
        [\A d \in Existing : Kept(d) /\ ~Kept(d)' =>
           mpc = "exists" \/ (mpc = "open" /\ opt.force /\ Running)]_disk
  BY LosesNothing
<1> QED
  BY <1>1, <1>2, <1>3, PTL DEF Spec, LosesOnlyAsked
=============================================================================
