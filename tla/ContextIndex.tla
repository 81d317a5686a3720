---- MODULE ContextIndex ----
(***************************************************************************)
(* The index of a project (packages/context/src/indexer.ts, engine.ts)     *)
(* over the files that tools and the user change (ProjectFiles): the       *)
(* background walk that gives way to the rest of the program between       *)
(* files, the immediate update for the paths of a tool's call, and the     *)
(* rows that outlive the process.                                          *)
(*                                                                         *)
(* A file stands for a batch of files; each imports all the others by a    *)
(* relative path.                                                          *)
(***************************************************************************)
EXTENDS ProjectFiles

VARIABLES
  rows,      \* table files: the version indexed, 0 for no row
  linked,    \* table imports: the targets that are resolved
  indexing,  \* ProjectIndex.state
  everFull,  \* meta.last_full_at is set
  walk,      \* runFullIndex under way
  broken     \* history: a walk ended half-way, and nothing was resolved since

indexVars == <<fileVars, rows, linked, indexing, everFull, walk, broken>>
table == <<rows, linked>>
ofTask == <<disk, versions, hashes, call, tracked, written, carried, clobbered>>

NoWalk == [on |-> FALSE, unread |-> {}, todo |-> {}, listed |-> {}]
Indexed(r) == {f \in File : r[f] # 0}

\* resolveSpecifier, for all the imports of the files that have a row.
AllLinks(r) == [f \in File |-> IF r[f] = 0 THEN {} ELSE Indexed(r) \ {f}]

IndexInit ==
  /\ FilesInit /\ rows = Forgotten /\ linked = Untracked /\ indexing = "idle"
  /\ everFull = FALSE /\ walk = NoWalk /\ broken = FALSE

IndexTypeOK ==
  /\ FilesTypeOK
  /\ rows \in [File -> 0..versions] /\ indexing \in {"idle", "indexing", "ready", "error"}
  /\ walk.on => indexing = "indexing" /\ walk.todo \subseteq walk.listed
  /\ walk.listed \cap walk.unread = {} /\ (~walk.on => walk = NoWalk)
  \* An import leads from a file with a row to another.
  /\ \A f \in File : linked[f] \subseteq AllLinks(rows)[f]
  /\ \A f \in File : rows[f] \notin Huge

-----------------------------------------------------------------------------
(* The walk                                                                 *)

\* ensureIndexed: projectOpen and the first retrieval unless the index is
\* ready, contextReindex always; a call during a walk shares it.
StartWalk(forced) ==
  /\ ~walk.on /\ left.walks > 0 /\ left' = [left EXCEPT !.walks = @ - 1] /\ (forced \/ indexing # "ready")
  /\ walk' = [NoWalk EXCEPT !.on = TRUE, !.unread = File] /\ indexing' = "indexing"
  /\ UNCHANGED <<ofTask, told, table, everFull, broken>>

\* readdirSync of one directory.
ListDirectory(files) ==
  /\ walk.on /\ files # {} /\ files \subseteq walk.unread
  /\ LET there == {f \in files : disk[f] # 0} IN
     walk' = [walk EXCEPT !.unread = @ \ files, !.todo = @ \cup there, !.listed = @ \cup there]
  /\ UNCHANGED <<fileVars, table, indexing, everFull, broken>>

\* indexOne: a file that is gone, too large or as it was leaves its row alone.
IndexOne(f, t) ==
  IF disk[f] \in Huge \cup {0, t.rows[f]} THEN t
  ELSE [rows |-> [t.rows EXCEPT ![f] = disk[f]], linked |-> [t.linked EXCEPT ![f] = {}]]

Tables == [rows |-> rows, linked |-> linked]

Visit(f) ==
  /\ walk.on /\ f \in walk.todo /\ walk' = [walk EXCEPT !.todo = @ \ {f}]
  /\ LET t == IndexOne(f, Tables) IN rows' = t.rows /\ linked' = t.linked
  /\ UNCHANGED <<fileVars, indexing, everFull, broken>>

\* removePaths: rows, imports, and the targets of others' imports.
RemovePaths(gone, t) ==
  [rows   |-> [f \in File |-> IF f \in gone THEN 0 ELSE t.rows[f]],
   linked |-> [f \in File |-> IF f \in gone THEN {} ELSE t.linked[f] \ gone]]

\* Rows of files that were not listed go; what is unresolved is resolved.
FinishWalk ==
  /\ walk.on /\ walk.todo = {} /\ walk.unread = {} /\ walk' = NoWalk
  /\ rows' = RemovePaths(File \ walk.listed, Tables).rows /\ linked' = AllLinks(rows')
  /\ indexing' = "ready" /\ everFull' = TRUE /\ broken' = FALSE
  /\ UNCHANGED fileVars

\* A file cannot be read; what was stored stays.
WalkFails ==
  /\ walk.on /\ walk' = NoWalk /\ indexing' = "error" /\ broken' = TRUE
  /\ UNCHANGED <<fileVars, table, everFull>>

-----------------------------------------------------------------------------
(* Updates and the process                                                  *)

\* Fault: only the imports of the files named are looked at again.
ResolveForFault(paths, t) ==
  [t EXCEPT !.linked = [f \in File |-> IF f \in paths THEN AllLinks(t.rows)[f] ELSE @[f]]]

\* resolveImportsFor: the imports of the files named, and all the unresolved.
ResolveFor(paths, t) == [t EXCEPT !.linked = AllLinks(t.rows)]

\* notifyChanged after a call that succeeded: indexPaths.
Notify ==
  /\ told # {} /\ told' = {}
  /\ LET gone  == {f \in told : disk[f] = 0 /\ rows[f] # 0}
         fresh == {f \in told : IndexOne(f, Tables) # Tables}
         kept  == RemovePaths(gone, Tables)
         t     == [rows   |-> [f \in File |-> IF f \in fresh THEN disk[f] ELSE kept.rows[f]],
                   linked |-> [f \in File |-> IF f \in fresh THEN {} ELSE kept.linked[f]]]
         done  == IF gone \cup fresh = {} THEN t ELSE ResolveFor(told, t) IN
     /\ rows' = done.rows /\ linked' = done.linked
     /\ indexing' = IF gone \cup fresh # {} /\ indexing = "idle" THEN "ready" ELSE indexing
     /\ broken' = (broken /\ gone \cup fresh = {})
  /\ UNCHANGED <<ofTask, left, everFull, walk>>

\* The program ends and starts again: the tables are as they were, or are
\* emptied because the file is unreadable or the parsers are newer.
Restart(emptied) ==
  /\ left.walks > 0 /\ left' = [left EXCEPT !.walks = @ - 1] /\ walk' = NoWalk /\ told' = {}
  /\ call' = NoCall /\ ledger' = Forgotten /\ handed' = {}
  /\ preimage' = Untracked /\ change' = Untracked /\ written' = {} /\ carried' = {}
  /\ rows' = (IF emptied THEN Forgotten ELSE rows) /\ linked' = (IF emptied THEN Untracked ELSE linked)
  /\ everFull' = (everFull /\ ~emptied) /\ indexing' = IF everFull' THEN "ready" ELSE "idle"
  /\ broken' = (~emptied /\ (broken \/ walk.on))
  /\ UNCHANGED <<disk, versions, clobbered>>

\* During an update nothing else runs.
IndexNext ==
  \/ told = {} /\ TaskSteps /\ UNCHANGED <<table, indexing, everFull, walk, broken>>
  \/ /\ told = {} /\ \E f \in File, v \in {0, versions + 1} : UserSaves(f, v)
     /\ UNCHANGED <<table, indexing, everFull, walk, broken>>
  \/ told = {} /\ ((\E forced \in BOOLEAN : StartWalk(forced)) \/ FinishWalk \/ WalkFails)
  \/ told = {} /\ ((\E files \in SUBSET File : ListDirectory(files)) \/ (\E f \in File : Visit(f)))
  \/ Notify \/ (\E emptied \in BOOLEAN : Restart(emptied))

IndexSpec == IndexInit /\ [][IndexNext]_indexVars

-----------------------------------------------------------------------------
(* Properties                                                               *)

\* While the index says it is ready, every import that leads to a file with a
\* row is resolved, whatever was written, moved and deleted during and between
\* the walks.  Excepted is what a walk leaves that did not come to its end.
ImportGraphIsWhole == indexing = "ready" /\ ~broken => linked = AllLinks(rows)
====
