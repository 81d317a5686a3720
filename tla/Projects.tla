---- MODULE Projects ----
(***************************************************************************)
(* The catalog of projects and what the platform keeps of each             *)
(* (packages/project with its repositories): folder, settings, blueprint,  *)
(* requirements, memory, and the first commit of a managed project.        *)
(*                                                                         *)
(* A command of the catalog is one call without an await, so that commands *)
(* do not interleave; the folders are shared with the user, who makes and  *)
(* removes them outside the program, and git runs beside both.             *)
(***************************************************************************)
EXTENDS Naturals, Sequences

CONSTANTS
  Project,     \* ids, each given once
  Dir,         \* folders a project may live in
  Inside,      \* pairs: the first folder is in the second
  Doc,         \* blueprint documents, as the items they name
  Fact,        \* ids of memory items
  MaxBlueprints, \* bound: versions of a project's blueprint
  Effort       \* bounds, one of them for a run: acts of each kind

ASSUME ProjectsAssumption == /\ Inside \subseteq Dir \X Dir /\ \A d \in Dir : <<d, d>> \notin Inside
                            /\ Effort \subseteq [folders : Nat, papers : Nat, facts : Nat]
                            /\ MaxBlueprints \in Nat

VARIABLES
  catalog,     \* table projects
  folder,      \* the file system: who made the folder
  removed,     \* history: folders the user removed, or that went with a project around them
  configured,  \* table settings: keys project:<id>
  initial,     \* the initial commit
  blueprint,   \* table blueprints: documents by version
  approved,    \* versions with approved_at
  requirement, \* table requirements, by id
  synced,      \* history: the version each project's requirements come from
  refused,     \* history: projects whose sync was refused by the database
  fact,        \* table project_memory
  effort       \* what is left of the bounds

papers == <<blueprint, approved, requirement, synced, refused>>
projectsVars == <<catalog, folder, removed, configured, initial, papers, fact, effort>>

NoProject == [at |-> "none", dir |-> {}, origin |-> "none"]
NoFact == [at |-> "none", of |-> {}, by |-> {}]

Cataloged == {p \in Project : catalog[p].at = "kept"}
DirOf(p) == catalog[p].dir
LiesIn(d) == {d} \cup {e \in Dir : <<e, d>> \in Inside}
Above(d) == {e \in Dir : <<d, e>> \in Inside}
Managed(p) == catalog[p].origin \in {"created", "copied"}

\* A document has at least the general requirement.
Derived(doc) == IF doc = <<>> THEN <<"general">> ELSE doc
RefId == UNION {DOMAIN Derived(doc) : doc \in Doc}
NoRef == [of |-> {}, ref |-> "none"]

ProjectsTypeOK ==
  /\ \A p \in Project : /\ catalog[p].at \in {"none", "kept", "gone"} /\ catalog[p].dir \subseteq Dir
                        /\ catalog[p].origin \in {"none", "created", "copied", "imported"}
                        /\ initial[p] \in {"none", "pending", "done", "failed"}
                        /\ Len(blueprint[p]) <= MaxBlueprints /\ approved[p] \subseteq DOMAIN blueprint[p]
  /\ folder \in [Dir -> {"none", "user", "program"}] /\ removed \subseteq Dir
  \* No setting, blueprint, requirement or memory of a project is left without it.
  /\ configured \cup refused \subseteq Project /\ configured \subseteq Cataloged
  /\ \A i \in RefId : requirement[i].of \subseteq Cataloged
  /\ \A f \in Fact : fact[f].at = "kept" => fact[f].of \subseteq Cataloged
  \* The requirements of a project are those of the blueprint it synced last.
  /\ \A p \in Cataloged :
       LET refs == IF synced[p] = 0 THEN <<>> ELSE Derived(blueprint[p][synced[p]])
           mine == {i \in RefId : requirement[i].of = {p}}
       IN mine = DOMAIN refs /\ \A i \in mine : requirement[i].ref = refs[i]

ProjectsInit ==
  /\ catalog = [p \in Project |-> NoProject] /\ folder = [d \in Dir |-> "none"] /\ removed = {}
  /\ configured = {} /\ initial = [p \in Project |-> "none"]
  /\ blueprint = [p \in Project |-> <<>>] /\ approved = [p \in Project |-> {}]
  /\ requirement = [i \in RefId |-> NoRef] /\ synced = [p \in Project |-> 0] /\ refused = {}
  /\ fact = [f \in Fact |-> NoFact] /\ effort \in Effort

\* Bounds the acts of a kind.
Spend(kind) == effort[kind] > 0 /\ effort' = [effort EXCEPT ![kind] = @ - 1]

-----------------------------------------------------------------------------
(* The catalog                                                              *)

\* Fault: the name of the folder is not tried against the disk.
FreeFault(d) == folder[d] # "user"

\* uniqueChildDirectory: a name that is taken is passed over.
Free(d) == folder[d] = "none"

\* mkdir makes the parents too.
Made(d) == [e \in Dir |-> IF e \in {d} \cup Above(d) /\ folder[e] = "none" THEN "program" ELSE folder[e]]

Insert(p, d, origin) ==
  /\ catalog' = [catalog EXCEPT ![p] = [at |-> "kept", dir |-> {d}, origin |-> origin]]
  \* git init is started and not awaited.
  /\ initial' = [initial EXCEPT ![p] = IF origin = "imported" THEN "none" ELSE "pending"]
  /\ UNCHANGED <<removed, configured, papers, fact>>

\* A template that is unknown or fails to copy leaves the parents only.
Create(p, d) ==
  /\ catalog[p].at = "none" /\ Free(d)
  /\ \/ folder' = Made(d) /\ Insert(p, d, "created")
     \/ /\ folder' = [Made(d) EXCEPT ![d] = "none"]
        /\ UNCHANGED <<catalog, initial, removed, configured, papers, fact>>

\* A folder that is a project already is refused.
ImportInPlace(p, d) ==
  /\ catalog[p].at = "none" /\ folder[d] # "none" /\ \A q \in Cataloged : DirOf(q) # {d}
  /\ UNCHANGED folder /\ Insert(p, d, "imported")

\* A copy that fails half-way stays on the disk without a project.
ImportCopy(p, source, d) ==
  /\ catalog[p].at = "none" /\ folder[source] # "none" /\ Free(d) /\ d \notin LiesIn(source)
  /\ folder' = Made(d)
  /\ \/ Insert(p, d, "copied")
     \/ UNCHANGED <<catalog, initial, removed, configured, papers, fact>>

\* Foreign keys take the rows of the project along; its settings are removed by name.
DropRows(p) ==
  /\ catalog' = [catalog EXCEPT ![p] = [NoProject EXCEPT !.at = "gone"]] /\ configured' = configured \ {p}
  /\ blueprint' = [blueprint EXCEPT ![p] = <<>>] /\ approved' = [approved EXCEPT ![p] = {}]
  /\ requirement' = [i \in RefId |-> IF p \in requirement[i].of THEN NoRef ELSE requirement[i]]
  /\ fact' = [f \in Fact |-> IF p \in fact[f].of THEN [NoFact EXCEPT !.at = "gone"] ELSE fact[f]]
  /\ synced' = [synced EXCEPT ![p] = 0]

Emptied(dirs) == [e \in Dir |-> IF e \in dirs THEN "none" ELSE folder[e]]

\* With deleteFiles the name is typed again, and the folder is not one
\* imported in place; nobody asks what other projects live in it.  The removal
\* may fail after some of its work.
Delete(p, files, typed) ==
  /\ p \in Cataloged /\ (files => Managed(p) /\ typed)
  /\ LET gone == UNION {LiesIn(d) : d \in DirOf(p)} IN
     \/ /\ folder' = IF files THEN Emptied(gone) ELSE folder
        /\ removed' = IF files THEN removed \cup (gone \ DirOf(p)) ELSE removed
        /\ DropRows(p)
     \/ /\ files /\ \E some \in SUBSET (gone \ DirOf(p)) : folder' = Emptied(some) /\ removed' = removed \cup some
        /\ UNCHANGED <<catalog, configured, blueprint, approved, requirement, fact, synced>>
  /\ UNCHANGED <<initial, refused>>

Configure(p) ==
  /\ p \in Cataloged /\ configured' = configured \cup {p}
  /\ UNCHANGED <<catalog, folder, removed, initial, papers, fact>>

\* init(): not inside another repository, and the folder must be there still.
InitialCommit(p) ==
  /\ initial[p] = "pending"
  /\ \/ /\ \A d \in DirOf(p) : /\ folder[d] # "none"
                                 /\ \A q \in Project : initial[q] = "done" => DirOf(q) \cap Above(d) = {}
        /\ initial' = [initial EXCEPT ![p] = "done"]
     \/ initial' = [initial EXCEPT ![p] = "failed"]
  /\ UNCHANGED <<catalog, folder, removed, configured, papers, fact>>

-----------------------------------------------------------------------------
(* Blueprint and requirements                                               *)

SaveBlueprint(p, doc) ==
  /\ p \in Cataloged /\ Len(blueprint[p]) < MaxBlueprints
  /\ blueprint' = [blueprint EXCEPT ![p] = Append(@, doc)]
  /\ UNCHANGED <<catalog, folder, removed, configured, initial, approved, requirement, synced, refused, fact>>

\* Only the latest version.
Approve(p, version) ==
  /\ version \in DOMAIN blueprint[p] /\ version = Len(blueprint[p])
  /\ approved' = [approved EXCEPT ![p] = @ \cup {version}]
  /\ UNCHANGED <<catalog, folder, removed, configured, initial, blueprint, requirement, synced, refused, fact>>

\* The ids are numbers from 1 in every project, and the key of the table.
Collides(p, refs) == \E i \in DOMAIN refs : requirement[i].of \notin {{}, {p}}

\* Fault: a row of that id is overwritten, whosever it is.
ReplaceFault(p, refs) ==
  requirement' = [i \in RefId |-> IF i \in DOMAIN refs THEN [of |-> {p}, ref |-> refs[i]]
                                  ELSE IF requirement[i].of = {p} THEN NoRef ELSE requirement[i]]

\* One transaction: all of the new rows or the old ones.
Replace(p, refs) ==
  requirement' = [i \in RefId |-> IF Collides(p, refs) \/ requirement[i].of \notin {{}, {p}} THEN requirement[i]
                                  ELSE IF i \in DOMAIN refs THEN [of |-> {p}, ref |-> refs[i]]
                                  ELSE NoRef]

\* sync(): from the latest version; without one there are none.
Sync(p) ==
  /\ p \in Cataloged
  /\ LET n == Len(blueprint[p])
         refs == IF n = 0 THEN <<>> ELSE Derived(blueprint[p][n])
     IN /\ Replace(p, refs)
        /\ IF Collides(p, refs) THEN refused' = refused \cup {p} /\ UNCHANGED synced
           ELSE synced' = [synced EXCEPT ![p] = n] /\ UNCHANGED refused
  /\ UNCHANGED <<catalog, folder, removed, configured, initial, blueprint, approved, fact>>

-----------------------------------------------------------------------------
(* Memory                                                                   *)

AddFact(f, p) ==
  /\ fact[f].at = "none" /\ p \in Cataloged /\ fact' = [fact EXCEPT ![f] = [at |-> "kept", of |-> {p}, by |-> {}]]
  /\ UNCHANGED <<catalog, folder, removed, configured, initial, papers>>

\* An item is replaced once.
Supersede(old, new) ==
  /\ fact[old].at = "kept" /\ fact[old].by = {} /\ fact[new].at = "none"
  /\ fact' = [fact EXCEPT ![new] = [at |-> "kept", of |-> fact[old].of, by |-> {}], ![old].by = {new}]
  /\ UNCHANGED <<catalog, folder, removed, configured, initial, papers>>

DeleteFact(f) ==
  /\ fact[f].at = "kept" /\ fact' = [fact EXCEPT ![f] = [NoFact EXCEPT !.at = "gone"]]
  /\ UNCHANGED <<catalog, folder, removed, configured, initial, papers>>

-----------------------------------------------------------------------------
\* The user, outside the program.
UserMakes(d) ==
  /\ folder[d] = "none" /\ (\A e \in Above(d) : folder[e] # "none")
  /\ folder' = [folder EXCEPT ![d] = "user"]
  /\ UNCHANGED <<catalog, removed, configured, initial, papers, fact>>

UserRemoves(d) ==
  /\ folder[d] # "none" /\ removed' = removed \cup LiesIn(d)
  /\ folder' = Emptied(LiesIn(d))
  /\ UNCHANGED <<catalog, configured, initial, papers, fact>>

CatalogSteps ==
  \/ \E p \in Project, d \in Dir : ImportInPlace(p, d) \/ Create(p, d) \/ \E s \in Dir : ImportCopy(p, s, d)
  \/ \E p \in Project, files, typed \in BOOLEAN : Delete(p, files, typed)

\* Beside the catalog: git and the user.
FolderSteps == (\E p \in Project : InitialCommit(p)) \/ (\E d \in Dir : UserMakes(d) \/ UserRemoves(d))

PaperSteps(p) == Configure(p) \/ (\E doc \in Doc : SaveBlueprint(p, doc)) \/ (\E v \in 1..MaxBlueprints : Approve(p, v)) \/ Sync(p)

FactSteps(f) == (\E p \in Project : AddFact(f, p)) \/ (\E g \in Fact : Supersede(f, g)) \/ DeleteFact(f)

ProjectsNext ==
  \/ UNCHANGED effort /\ CatalogSteps
  \/ Spend("folders") /\ FolderSteps
  \/ Spend("papers") /\ \E p \in Project : PaperSteps(p)
  \/ Spend("facts") /\ \E f \in Fact : FactSteps(f)

ProjectsSpec == ProjectsInit /\ [][ProjectsNext]_projectsVars

-----------------------------------------------------------------------------
(* Properties                                                               *)

\* Two projects hold one folder only where it had been removed from under the
\* first of them, by the user or with the folder of a project around it.
FoldersAreApart == \A p, q \in Cataloged : p # q /\ DirOf(p) = DirOf(q) => DirOf(p) \subseteq removed
====
