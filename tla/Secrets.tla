---- MODULE Secrets ----
(***************************************************************************)
(* The secrets service (packages/secrets/src/service.ts) over its table    *)
(* (storage/src/repositories/secret-refs.ts) and the vault directory.      *)
(*                                                                         *)
(* Every operation runs to its end without giving way, but the process may *)
(* be killed between the two writes it makes; "cut" says where.  A value   *)
(* is a version number; ids are random, so a deleted one never comes back. *)
(***************************************************************************)
EXTENDS Naturals, FiniteSets

CONSTANTS
  Secret,      \* ids of secrets
  MaxVersions  \* bound: values stored

ASSUME MaxVersionsAssumption == MaxVersions \in Nat \ {0}

VARIABLES
  ref,     \* secret_refs table: the version a row was written for, 0 for no row
  vault,   \* <id>.bin: the version it holds, 0 for no file
  issued,  \* ids that have been given out
  version  \* values stored so far

secretVars == <<ref, vault, issued, version>>

Cut == {"", "first", "second"}  \* nowhere, before and after the first write

SecretsTypeOK ==
  /\ ref \in [Secret -> 0..version] /\ vault \in [Secret -> 0..version]
  /\ issued \subseteq Secret /\ version \in 0..MaxVersions
  \* A row is written after its ciphertext and removed before it.
  /\ \A s \in Secret : ref[s] # 0 => vault[s] # 0 /\ s \in issued

SecretsInit ==
  /\ issued \in {{}} \cup {{s} : s \in Secret} /\ version = Cardinality(issued)
  /\ ref = [s \in Secret |-> IF s \in issued THEN 1 ELSE 0] /\ vault = ref

\* Fault: the row is written first.
WriteSecretFault(s, cut) ==
  /\ version < MaxVersions /\ version' = version + 1
  /\ ref' = IF cut = "first" THEN ref ELSE [ref EXCEPT ![s] = version + 1]
  /\ vault' = IF cut = "" THEN [vault EXCEPT ![s] = version + 1] ELSE vault

\* The ciphertext goes through a temporary file, which nobody reads, to the
\* name of the id, and then the row is inserted or updated.
WriteSecret(s, cut) ==
  /\ version < MaxVersions /\ version' = version + 1
  /\ vault' = IF cut = "first" THEN vault ELSE [vault EXCEPT ![s] = version + 1]
  /\ ref' = IF cut = "" THEN [ref EXCEPT ![s] = version + 1] ELSE ref

SetSecret(s, cut) == s \notin issued /\ issued' = issued \cup {s} /\ WriteSecret(s, cut)

RotateSecret(s, cut) == ref[s] # 0 /\ WriteSecret(s, cut) /\ UNCHANGED issued

\* The secrets "ids" one after the other; a missing one is passed over.
Dropped(ids, cut) ==
  /\ ref' = IF cut = "first" THEN ref ELSE [s \in Secret |-> IF s \in ids THEN 0 ELSE ref[s]]
  /\ vault' = IF cut = "" THEN [s \in Secret |-> IF s \in ids THEN 0 ELSE vault[s]] ELSE vault
  /\ UNCHANGED <<issued, version>>

\* resolve() of a set of at most one id.
Resolves(ids) == \E s \in ids : ref[s] # 0 /\ vault[s] # 0
====
