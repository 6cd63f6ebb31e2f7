------------------------------- MODULE MCSkills -------------------------------
(***************************************************************************)
(* Skills with the sources and the skills TLC is given.                    *)
(***************************************************************************)
EXTENDS Skills

CONSTANTS x, y, a, b

Package(n, v, md) == [named |-> n, version |-> v, md |-> md, whole |-> TRUE,
                      inside |-> FALSE]

\* A new version of x from inside and outside a repository, a package that
\* states no name, one without SKILL.md, and the skill x of the project itself.
MCSources ==
  {[at |-> "local", package |-> Package(x, 2, TRUE)],
   [at |-> "repo",  package |-> Package(x, 2, TRUE)],
   [at |-> "repo",  package |-> Package(NoName, 1, TRUE)],
   [at |-> "local", package |-> Package(x, 1, FALSE)],
   [at |-> "installed", scope |-> "project", name |-> x]}

MCOverrides == {NoName, y}

\* The user, the project, both or neither have x.
MCAlready ==
  {[s \in Scopes |-> [n \in Names |->
      IF n = x /\ s \in have THEN Package(x, 1, TRUE) ELSE Absent]] : have \in SUBSET Scopes}
==============================================================================
