-------------------------------- MODULE Files --------------------------------
(***************************************************************************)
(* The life of the files that pigz processes: process() creates an output  *)
(* file, has it written, closes it and removes the input; bail(), which    *)
(* main or a thread calls on an error, and cut_short(), which an interrupt *)
(* calls, remove the output if out and outd say that it is being written.  *)
(*                                                                         *)
(* The content of a file is abstracted to the data it stands for, in       *)
(* compressed form or not: Whole(d) for the data of the file that had the  *)
(* name d when pigz started, or Part, what is not complete.  main stands   *)
(* still while it ends the program, and an interrupt comes to main's       *)
(* thread.  When another thread calls bail(), main waits for that thread.  *)
(***************************************************************************)
EXTENDS Integers

CONSTANTS
  Names,     \* names of files
  Paths,     \* those given as arguments
  Existing,  \* those that exist when pigz starts
  OutName,   \* the name of the output, from the path or from its header
  Options,   \* options -f and -k, and whether the output goes to stdout
  Stdin,     \* "-", or no argument
  Stdout,    \* the name given to the output to stdout
  NoName,    \* out = NULL
  StdoutLast, \* bound: once stdout was written, all output goes there
  MaxFiles   \* bound: arguments

ASSUME FilesAssumption ==
  /\ Paths \subseteq Names /\ Existing \subseteq Names
  /\ OutName \in [Paths -> Names]
  /\ Options \subseteq [force : BOOLEAN, keep : BOOLEAN, pipeout : BOOLEAN]
  /\ Stdin \notin Names /\ Stdout \in Names \ Paths /\ NoName \notin Names
  /\ StdoutLast \in BOOLEAN /\ MaxFiles \in Nat

Contents == [kind : {"none", "part"}] \union [kind : {"whole"}, data : Names]
None == [kind |-> "none"]
Part == [kind |-> "part"]
Whole(d) == [kind |-> "whole", data |-> d]

(* File descriptors: of a file that is open for output, and results of     *)
(* open() that leave outd = -1.                                            *)
File == 3
Exists == -1
Failed == -2

VARIABLES
  disk,      \* the content of each file, None if there is none
  out, outd, \* the globals
  path, opt, \* the argument, and the options for it
  fd,        \* what open() returned
  mpc,       \* main: where it is in process()
  ending,    \* bail() or cut_short(): where it is
  files      \* arguments so far

vars == <<disk, out, outd, path, opt, fd, mpc, ending, files>>

Init ==
  /\ disk = [n \in Names |-> IF n \in Existing THEN Whole(n) ELSE None]
  /\ out = NoName /\ outd = -1
  /\ path = Stdin /\ opt \in Options /\ fd = Exists
  /\ mpc = "idle" /\ ending = "none" /\ files = 0

Running == ending = "none"
ToStdout == path = Stdin \/ opt.pipeout

-----------------------------------------------------------------------------
(* process()                                                               *)

(* A file that is not there is skipped; option -c stays.                   *)
Start(p, o) ==
  /\ Running /\ mpc = "idle" /\ files < MaxFiles
  /\ p \in Paths => disk[p] # None
  /\ opt.pipeout => o.pipeout
  /\ StdoutLast /\ outd = 1 => p = Stdin \/ o.pipeout
  /\ path' = p /\ opt' = o
  /\ mpc' = "name"
  /\ files' = files + 1
  /\ UNCHANGED <<disk, out, outd, fd, ending>>

(* So is one that is not to be compressed, that has an unknown header, or  *)
(* that is only tested or listed.                                          *)
Skip ==
  /\ Running /\ mpc = "name"
  /\ mpc' = "idle"
  /\ UNCHANGED <<disk, out, outd, path, opt, fd, ending, files>>

SetOut ==
  /\ Running /\ mpc = "name"
  /\ out' = IF ToStdout THEN Stdout ELSE OutName[path]
  /\ mpc' = "open"
  /\ UNCHANGED <<disk, outd, path, opt, fd, ending, files>>

(* Not the code: O_EXCL is left out.                                       *)
MayOverwriteAny == TRUE

(* open() with O_TRUNC, and without O_EXCL when forced                     *)
MayOverwrite == opt.force

Open ==
  /\ Running /\ mpc = "open"
  /\ IF ToStdout THEN fd' = 1 /\ UNCHANGED disk
     ELSE \/ /\ disk[out] = None \/ MayOverwrite
             /\ disk' = [disk EXCEPT ![out] = Part]
             /\ fd' = File
          \/ /\ disk[out] # None /\ ~MayOverwrite
             /\ fd' = Exists
             /\ UNCHANGED disk
          \/ fd' = Failed /\ UNCHANGED disk
  /\ mpc' = "assign"
  /\ UNCHANGED <<out, outd, path, opt, ending, files>>

(* Not the code: outd is not set.                                          *)
AssignNot ==
  /\ Running /\ mpc = "assign"
  /\ UNCHANGED outd
  /\ mpc' = CASE fd = Exists -> "exists" [] fd = Failed -> "failed" [] OTHER -> "stream"
  /\ UNCHANGED <<disk, out, path, opt, fd, ending, files>>

(* outd = open(...)                                                        *)
Assign ==
  /\ Running /\ mpc = "assign"
  /\ outd' = IF fd < 0 THEN -1 ELSE fd
  /\ mpc' = CASE fd = Exists -> "exists" [] fd = Failed -> "failed" [] OTHER -> "stream"
  /\ UNCHANGED <<disk, out, path, opt, fd, ending, files>>

(* The user may say to overwrite it, else the file is skipped.             *)
Overwrite ==
  /\ Running /\ mpc = "exists"
  /\ \/ fd' = File /\ disk' = [disk EXCEPT ![out] = Part]
     \/ fd' = Failed /\ UNCHANGED disk
  /\ mpc' = "assign"
  /\ UNCHANGED <<out, outd, path, opt, ending, files>>

SkipExisting ==
  /\ Running /\ mpc = "exists"
  /\ out' = NoName
  /\ mpc' = "idle"
  /\ UNCHANGED <<disk, outd, path, opt, fd, ending, files>>

(* The input is processed to the output: what is whole stays so.           *)
Process ==
  /\ Running /\ mpc = "stream"
  /\ disk' = IF ToStdout THEN disk ELSE [disk EXCEPT ![out] = disk[path]]
  /\ mpc' = IF outd = 1 THEN "release" ELSE "close"
  /\ UNCHANGED <<out, outd, path, opt, fd, ending, files>>

(* Not the code: the input is removed before the output is closed.         *)
CloseOutputLate ==
  /\ Running /\ mpc = "close"
  /\ disk' = IF opt.keep THEN disk ELSE [disk EXCEPT ![path] = None]
  /\ mpc' = "closed"
  /\ UNCHANGED <<out, outd, path, opt, fd, ending, files>>

CloseOutput ==
  /\ Running /\ mpc = "close"
  /\ mpc' = "closed"
  /\ UNCHANGED <<disk, out, outd, path, opt, fd, ending, files>>

(* outd = -1: now prevent deletion on interrupt                            *)
Protect ==
  /\ Running /\ mpc = "closed"
  /\ outd' = -1
  /\ mpc' = "original"
  /\ UNCHANGED <<disk, out, path, opt, fd, ending, files>>

RemoveOriginal ==
  /\ Running /\ mpc = "original"
  /\ disk' = IF opt.keep THEN disk ELSE [disk EXCEPT ![path] = None]
  /\ mpc' = "release"
  /\ UNCHANGED <<out, outd, path, opt, fd, ending, files>>

Release ==
  /\ Running /\ mpc = "release"
  /\ out' = NoName
  /\ mpc' = "idle"
  /\ UNCHANGED <<disk, outd, path, opt, fd, ending, files>>

-----------------------------------------------------------------------------
(* bail() and cut_short()                                                  *)

(* An error: in main before the output is open, in main or a thread while  *)
(* it is written, or when it is closed.                                    *)
Bail ==
  /\ Running /\ mpc \in {"name", "failed", "stream", "close"}
  /\ ending' = "look"
  /\ UNCHANGED <<disk, out, outd, path, opt, fd, mpc, files>>

Interrupt ==
  /\ Running
  /\ ending' = "look"
  /\ UNCHANGED <<disk, out, outd, path, opt, fd, mpc, files>>

Look ==
  /\ ending = "look"
  /\ ending' = IF outd # -1 /\ out # NoName THEN "remove" ELSE "ended"
  /\ UNCHANGED <<disk, out, outd, path, opt, fd, mpc, files>>

Remove ==
  /\ ending = "remove"
  /\ disk' = [disk EXCEPT ![out] = None]
  /\ ending' = "ended"
  /\ UNCHANGED <<out, outd, path, opt, fd, mpc, files>>

Stopped ==
  /\ ending = "ended" \/ (Running /\ mpc = "idle" /\ files = MaxFiles)
  /\ UNCHANGED vars

Next ==
  \/ \E p \in Paths \union {Stdin}, o \in Options : Start(p, o)
  \/ Skip \/ SetOut \/ Open \/ Assign \/ Overwrite \/ SkipExisting
  \/ Process \/ CloseOutput \/ Protect \/ RemoveOriginal \/ Release
  \/ Bail \/ Interrupt \/ Look \/ Remove
  \/ Stopped

Spec == Init /\ [][Next]_vars

-----------------------------------------------------------------------------

TypeOK ==
  /\ disk \in [Names -> Contents]
  /\ out \in Names \union {NoName} /\ outd \in {-1, 1, File}
  /\ path \in Paths \union {Stdin} /\ opt \in Options
  /\ fd \in {Failed, Exists, 1, File}
  /\ mpc \in {"idle", "name", "open", "assign", "exists", "failed", "stream", "close",
              "closed", "original", "release"}
  /\ ending \in {"none", "look", "remove", "ended"}
  /\ files \in 0..MaxFiles

Kept(d) == \E n \in Names : disk[n] = Whole(d)

(* The data of every file that pigz is given is whole in some file at any  *)
(* moment, whatever fails or is interrupted then.                          *)
NeverLost == \A p \in Paths \intersect Existing : Kept(p)

(* No file that exists is lost, ours or not, unless the user had said that *)
(* it may be overwritten: bail() and cut_short() remove what pigz wrote.   *)
LosesOnlyAsked ==
  [][\A d \in Existing : Kept(d) /\ ~Kept(d)' =>
       mpc = "exists" \/ (mpc = "open" /\ opt.force /\ Running)]_disk

(* Nothing that is not complete is left behind: after an error or an       *)
(* interrupt, but for the empty file of an open() that has not returned,   *)
(* and between files.                                                      *)
NothingPartLeft ==
  ending = "ended" \/ (Running /\ mpc = "idle") =>
    mpc = "assign" \/ \A n \in Names : disk[n] # Part
=============================================================================
