---- MODULE ProjectFiles ----
(***************************************************************************)
(* The files of a project under the agent's file tools                     *)
(* (packages/tools/src/tools/fs.ts with read-ledger.ts) and under the user *)
(* and his editor, and the record that packages/core/src/change-tracker.ts *)
(* keeps of a task's edits.                                                *)
(*                                                                         *)
(* The content of a file is a version number, new for everything that is   *)
(* saved, 0 when there is no file; a hash stands for what it is of.  A     *)
(* folder is the set of the files' paths below it.  A tool runs without    *)
(* giving way to the rest of the program, but the editor is another        *)
(* process and saves between its test and its write.                       *)
(***************************************************************************)
EXTENDS Naturals, FiniteSets

CONSTANTS
  File,
  Large,     \* versions over 200 KiB: not kept by the tracker
  Huge,      \* versions over 1 MiB: not indexed
  Budget     \* bound: a behaviour's mutating calls, walks of the index, and
             \* the last version

ASSUME FileAssumption   == IsFiniteSet(File)
ASSUME LargeAssumption  == Large \subseteq Nat \ {0} /\ Huge \subseteq Large
ASSUME BudgetAssumption == Budget \subseteq [calls : Nat, walks : Nat, versions : Nat]

VARIABLES
  disk,
  versions,  \* saved so far
  left,      \* of the budget
  ledger,    \* the task's ReadLedger
  handed,    \* versions whose hash the task's model has been given
  call,      \* the task's mutating tool call
  preimage,  \* ChangeTracker.firstSeen of the task
  change,    \* task_changes of the task: before and after
  told,      \* paths of a finished call, not yet passed on
  \* History.
  written,   \* versions the task has written
  carried,   \* versions it has moved with their folder
  clobbered  \* versions it has written over without so much as their hash

hashes == <<ledger, handed>>
fileVars == <<disk, versions, left, hashes, call, preimage, change, told, written, carried, clobbered>>

NoCall  == [at |-> "none", tool |-> "none", folder |-> FALSE, from |-> {}, to |-> {},
            ok |-> FALSE, raced |-> FALSE]
Forgotten == [f \in File |-> 0]
Untracked == [f \in File |-> {}]

\* Fault: the new name of a moved file is left out.
PathsOfFault(c) == IF c.folder THEN {} ELSE c.from

\* ChangeTracker.pathsOf: of a folder its own path, which is that of no file.
PathsOf(c) == IF c.folder THEN {} ELSE c.from \cup c.to

FilesTypeOK ==
  /\ left \in [calls : Nat, walks : Nat, versions : Nat] /\ disk \in [File -> 0..versions]
  /\ versions \in Nat /\ ledger \in [File -> 0..versions]
  /\ call.at \in {"none", "tracked", "checked", "ran"} /\ PathsOf(call) \subseteq File
  /\ preimage \in [File -> SUBSET (0..versions)] /\ change \in [File -> SUBSET ((0..versions) \X (0..versions))]
  /\ told \subseteq File /\ written \subseteq handed
  /\ handed \cup carried \subseteq 1..versions
  \* Only what has been read is in the ledger; a change starts at its pre-image.
  /\ \A f \in File : ledger[f] \in handed \cup {0}
  /\ \A f \in File : \A c \in change[f] : {c[1]} = preimage[f]

FilesInit ==
  /\ disk \in {d \in [File -> 0..Cardinality(File)] :
                 \A f, g \in File : d[f] = d[g] => f = g \/ d[f] = 0}
  /\ versions = Cardinality(File) /\ left \in Budget
  /\ ledger = Forgotten /\ handed = {} /\ call = NoCall
  /\ preimage = Untracked /\ change = Untracked
  /\ told = {} /\ written = {} /\ carried = {} /\ clobbered = {}

NewVersion(v) == versions < left.versions /\ v = versions + 1 /\ versions' = v

tracked == <<preimage, change>>

-----------------------------------------------------------------------------
(* Tools                                                                    *)

\* fs.read, fs.list and searches leave the files alone; fs.read shows the
\* content, or some lines of it, with the hash of the whole.
ReadFile(f) ==
  /\ call.at = "none" /\ told = {} /\ disk[f] # 0
  /\ ledger' = [ledger EXCEPT ![f] = disk[f]]
  /\ handed' = handed \cup {disk[f]}
  /\ UNCHANGED <<left, disk, versions, call, tracked, told, written, carried, clobbered>>

\* ChangeTracker.before: the pre-image, once for a task and path.
Track(tool, folder, from, to) ==
  /\ call.at = "none" /\ told = {} /\ left.calls > 0 /\ left' = [left EXCEPT !.calls = @ - 1]
  /\ call' = [NoCall EXCEPT !.at = "tracked", !.tool = tool, !.folder = folder, !.from = from, !.to = to]
  /\ preimage' = [f \in File |-> IF f \in PathsOf(call') /\ preimage[f] = {} THEN {disk[f]} ELSE preimage[f]]
  /\ UNCHANGED <<disk, versions, hashes, change, told, written, carried, clobbered>>

\* Fault: a file that was read may have changed since.
ExpectedFault(f, v) == v \in handed \/ v = disk[f]

\* The hash a write names, any that its model has been given, or the ledger's,
\* is the one on disk.
Expected(f, v) == v \in handed \cup {ledger[f]} /\ v # 0 /\ v = disk[f]

\* What is tested before anything is touched.
Examine ==
  /\ call.at = "tracked"
  /\ \E f \in call.from :
       CASE call.tool = "fs.write"  -> disk[f] = 0 \/ \E v \in 0..versions : Expected(f, v)
         [] call.tool = "fs.patch"  -> disk[f] # 0 /\ \E v \in 0..versions : Expected(f, v)
         [] call.tool = "fs.delete" -> disk[f] # 0
         [] OTHER                   -> disk[f] # 0 /\ \A g \in call.to : disk[g] = 0
  /\ call' = [call EXCEPT !.at = "checked"]
  /\ UNCHANGED <<left, disk, versions, hashes, tracked, told, written, carried, clobbered>>

\* A test fails, the user does not allow the call, it is cancelled, an edit of
\* a patch is not found.
Refused ==
  /\ call.at \in {"tracked", "checked"} /\ call' = [call EXCEPT !.at = "ran"]
  /\ UNCHANGED <<left, disk, versions, hashes, tracked, told, written, carried, clobbered>>

\* fs.conflict: the hash named, or the ledger's, is not the one on disk, which
\* the message gives.
Conflict ==
  /\ call.at = "tracked" /\ call.tool \in {"fs.write", "fs.patch"} /\ call' = [call EXCEPT !.at = "ran"]
  /\ \E f \in call.from : disk[f] # 0 /\ handed' = handed \cup {disk[f]}
  /\ UNCHANGED <<left, disk, versions, ledger, tracked, told, written, carried, clobbered>>

Ran == call' = [call EXCEPT !.at = "ran", !.ok = TRUE]

Overwritten(f) ==
  IF call.raced THEN clobbered ELSE clobbered \cup ({disk[f]} \ (handed \cup {0}))

\* fs.write, and fs.patch of the file as it is when it is read again.
Put(v) ==
  /\ call.at = "checked" /\ call.tool \in {"fs.write", "fs.patch"} /\ NewVersion(v) /\ Ran
  /\ \E f \in call.from :
       /\ disk' = [disk EXCEPT ![f] = v] /\ ledger' = [ledger EXCEPT ![f] = v]
       /\ clobbered' = Overwritten(f)
  /\ handed' = handed \cup {v} /\ written' = written \cup {v}
  /\ UNCHANGED <<left, tracked, told, carried>>

\* A file, or a folder with all its files.  The ledger forgets the path named.
Remove ==
  /\ call.at = "checked" /\ call.tool = "fs.delete" /\ Ran
  /\ disk' = [f \in File |-> IF f \in call.from THEN 0 ELSE disk[f]]
  /\ ledger' = [f \in File |-> IF f \in PathsOf(call) THEN 0 ELSE ledger[f]]
  /\ UNCHANGED <<left, versions, handed, tracked, told, written, carried, clobbered>>

\* The record of reading moves along with the file, if there is one.
Rename ==
  /\ call.at = "checked" /\ call.tool = "fs.rename" /\ ~call.folder /\ Ran
  /\ \E f \in call.from, g \in call.to :
       /\ disk' = [disk EXCEPT ![g] = disk[f], ![f] = 0]
       /\ ledger' = [ledger EXCEPT ![g] = IF ledger[f] # 0 THEN ledger[f] ELSE @, ![f] = 0]
       /\ clobbered' = Overwritten(g)
  /\ UNCHANGED <<left, versions, handed, tracked, told, written, carried>>

\* A folder with all its files, unless one has been saved where it goes; the
\* ledger has the files under their old paths.  "whence" leads from each new
\* path to the old one.
RenameFolder ==
  /\ call.at = "checked" /\ call.tool = "fs.rename" /\ call.folder /\ Ran
  /\ \A g \in call.to : disk[g] = 0
  /\ \E whence \in [call.to -> call.from] :
       /\ \A f \in call.from : \E g \in call.to : whence[g] = f
       /\ disk' = [h \in File |-> IF h \in call.to THEN disk[whence[h]]
                                 ELSE IF h \in call.from THEN 0 ELSE disk[h]]
  /\ carried' = carried \cup ({disk[f] : f \in call.from} \ {0})
  /\ UNCHANGED <<left, versions, hashes, tracked, told, written, clobbered>>

-----------------------------------------------------------------------------
(* What the task reports                                                    *)

\* What a snapshot of a version keeps.
Kept(v) == IF v \in Large THEN <<0, "truncated">> ELSE <<v, "whole">>

CompareAfter(f) == Kept(CHOOSE v \in preimage[f] : TRUE) # Kept(disk[f])

\* ChangeTracker.after, whether the call succeeded or not.
Report ==
  /\ call.at = "ran" /\ call' = NoCall /\ told' = IF call.ok THEN PathsOf(call) ELSE {}
  /\ change' = [f \in File |-> IF f \in PathsOf(call) /\ CompareAfter(f)
                               THEN {<<CHOOSE v \in preimage[f] : TRUE, disk[f]>>} ELSE change[f]]
  /\ UNCHANGED <<left, disk, versions, hashes, preimage, written, carried, clobbered>>

UserSaves(f, v) ==
  /\ disk[f] # v /\ (IF v = 0 THEN UNCHANGED versions ELSE NewVersion(v)) /\ disk' = [disk EXCEPT ![f] = v]
  /\ call' = IF call.at = "checked" /\ f \in call.from \cup call.to THEN [call EXCEPT !.raced = TRUE] ELSE call
  /\ UNCHANGED <<left, hashes, tracked, told, written, carried, clobbered>>

TaskSteps ==
  \/ \E f \in File : ReadFile(f)
  \/ \E f \in File, tool \in {"fs.write", "fs.patch", "fs.delete"} : Track(tool, FALSE, {f}, {})
  \/ \E f, g \in File : f # g /\ Track("fs.rename", FALSE, {f}, {g})
  \/ \E from \in SUBSET File : from # {} /\ Track("fs.delete", TRUE, from, {})
  \/ \E from, to \in SUBSET File :
       /\ from # {} /\ from \cap to = {} /\ Cardinality(from) = Cardinality(to)
       /\ Track("fs.rename", TRUE, from, to)
  \/ Examine \/ Refused \/ Conflict \/ Put(versions + 1) \/ Remove \/ Rename \/ RenameFolder \/ Report

-----------------------------------------------------------------------------
(* Properties                                                               *)

\* "Never a silent overwrite": a write or a move never replaces content whose
\* hash the task has not been given, by a read of it or of some of its lines or
\* by the refusal of an earlier write, unless the user saves it between the test
\* and the write of the same call.
NothingIsClobbered == clobbered = {}

\* Between two calls every file that holds what the task wrote is listed in its
\* changes with that content, moved files too.  Excepted are files too large
\* to keep that were so before, and what the task has moved with its folder:
\* the tracker compares the folder's own path, which has no content.
EditsAreListed ==
  call.at = "none" => \A f \in File : disk[f] \in written \ carried =>
    \/ \E c \in change[f] : c[2] = disk[f]
    \/ disk[f] \in Large /\ preimage[f] \subseteq Large
====
