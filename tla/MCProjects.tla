---- MODULE MCProjects ----
(***************************************************************************)
(* The instance of Projects for TLC: two folders, one in the other, and    *)
(* blueprints of one requirement and of two.                               *)
(***************************************************************************)
EXTENDS ProjectClaims

Nested      == {<<"b", "a">>}
Blueprints  == {<<"x">>, <<"y", "x">>}
ProjectActs == {[folders |-> 3, papers |-> 0, facts |-> 0],
                [folders |-> 0, papers |-> 5, facts |-> 0],
                [folders |-> 0, papers |-> 0, facts |-> 3]}
====
