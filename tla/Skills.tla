-------------------------------- MODULE Skills --------------------------------
(***************************************************************************)
(* The skill packages (core/skills.c, tools/skill_tool.c) and the tool     *)
(* that installs them (tools/install_skill.c).                             *)
(*                                                                         *)
(* A package is the directory of one skill: the name its SKILL.md states,  *)
(* which of its versions it is, whether SKILL.md is there, whether all of  *)
(* its own files are, and whether another package lies inside it.  Two     *)
(* directories hold skills, the user's and the project's.  An agent reads  *)
(* them once, as it is created, and its prompt keeps the manifest it made  *)
(* of them.  install_skill fetches a package into a temporary directory    *)
(* named after the second it starts in, removes a skill of that name if it *)
(* is forced to, and copies the package with `cp -R', which puts it inside *)
(* a target that has come to exist.  The agents' calls run side by side.   *)
(***************************************************************************)
EXTENDS Integers, FiniteSets

CONSTANTS
  Agents,     \* agents with the tool: the main one and subagents
  Main,       \* the main agent
  Names,      \* valid skill names
  NoName,     \* no name
  Sources,    \* what `source' may name, below
  Overrides,  \* what `name' may be, or NoName
  Already,    \* the skills there may be at first
  HasHome,    \* HOME is set
  MaxTime,    \* bound: the clock
  MaxCalls    \* bound: calls of install_skill

Scopes == {"user", "project"}

\* What a directory may hold.
Packages == [named : Names \cup {NoName}, version : Int, md : BOOLEAN, whole : BOOLEAN,
             inside : BOOLEAN]

\* A package without what has been put inside it.
Own(d) == [d EXCEPT !.inside = FALSE]

ASSUME SkillsAssumption ==
  /\ Main \in Agents
  /\ NoName \notin Names /\ HasHome \in BOOLEAN
  /\ MaxTime \in Nat /\ MaxCalls \in Nat
  /\ Overrides \subseteq Names \cup {NoName}
  /\ Already \subseteq [Scopes -> [Names -> Packages]]
  /\ HasHome \/ \A r \in Already, n \in Names : ~r["user"][n].md
  /\ \A source \in Sources :
       \/ /\ source.at \in {"local", "repo"}
          /\ source.package \in Packages /\ source.package.whole
       \/ source.at = "installed" /\ source.scope \in Scopes /\ source.name \in Names

\* No directory, and a temporary one without a clone in it.
Absent == [named |-> NoName, version |-> -1, md |-> FALSE, whole |-> FALSE,
           inside |-> FALSE]
Empty  == [Absent EXCEPT !.version = 0]

VARIABLES
  root,     \* the skills under each of the two directories
  tmp,      \* .agent/tmp/skill-install-<second>
  call,     \* each agent's call of install_skill: where it is, its arguments, its
            \* second, the name settled on, whether it has succeeded, whether it has
            \* been the only call, and what the source held as it began
  now,      \* time(NULL)
  calls,    \* calls begun
  manifest  \* the skills in each agent's prompt

vars == <<root, tmp, call, now, calls, manifest>>

------------------------------------------------------------------------------
(***************************************************************************)
(* Faults, each standing in for the operator named in its comment.         *)
(***************************************************************************)
\* Overwrites, taking any call for a forced one.
OverwritesAny(c) == TRUE

\* AfterTarget, leaving it to the copy to replace what is there.
NoRemoval(exists, force) == IF exists /\ ~force THEN "cleanup" ELSE "copy"

\* Load, trying the user's skills first.
LoadUserFirst(r, n) == IF r["user"][n].md THEN r["user"][n] ELSE r["project"][n]
------------------------------------------------------------------------------
(***************************************************************************)
(* The manifest and load_skill.                                            *)
(***************************************************************************)
\* parse_skill_meta: the name in SKILL.md, or that of the directory.
MetaName(d, n) == IF d.named = NoName THEN n ELSE d.named

\* collect_skills_from_dir passes by what has no SKILL.md.
Collected(r, s) == {n \in Names : r[s][n].md}

\* meta_list_upsert: the project's skills are read last, and an entry replaces
\* the one of its name.
Replaced(r, s, n) ==
  /\ s = "user"
  /\ \E m \in Collected(r, "project") :
       MetaName(r["project"][m], m) = MetaName(r["user"][n], n)

\* The skills skills_build_prompt may list, each with the directory it was read
\* from and what that held: of two in one scope with the same name, the one
\* readdir has last.
Listed(r) ==
  {[name |-> MetaName(r[e[1]][e[2]], e[2]), scope |-> e[1], dir |-> e[2],
    skill |-> r[e[1]][e[2]]] :
     e \in {x \in Scopes \X Names : x[2] \in Collected(r, x[1]) /\ ~Replaced(r, x[1], x[2])}}

\* skills_load.
Load(r, n) == IF r["project"][n].md THEN r["project"][n] ELSE r["user"][n]

(***************************************************************************)
(* install_skill.                                                          *)
(***************************************************************************)
Running == {a \in Agents : call[a].pc # "idle"}

\* What the source holds, Absent when is_dir says no.
Held(c) == CASE c.source.at = "local"     -> c.source.package
             [] c.source.at = "repo"      ->
                  IF tmp[c.second] = Empty THEN Absent ELSE tmp[c.second]
             [] c.source.at = "installed" -> root[c.source.scope][c.source.name]

\* What is there of a directory whose copying or removal was broken off.
Torn(d) == {[d EXCEPT !.md = b, !.whole = FALSE, !.inside = i] :
              b \in {FALSE, d.md}, i \in {FALSE, d.inside}}

Exists(d) == d # Absent

\* The override, or the name in SKILL.md.
InstallName(c, d) == IF c.override # NoName THEN c.override ELSE d.named

Target(c) == root[c.scope][c.name]

\* The source is the very directory to be installed.
OntoItself(c) ==
  c.source.at = "installed" /\ c.source.scope = c.scope /\ c.source.name = c.name

Overwrites(c) == c.force

\* Past is_dir(target).
AfterTarget(exists, force) ==
  CASE ~exists          -> "copy"
    [] exists /\ force  -> "remove"
    [] exists /\ ~force -> "cleanup"

Init ==
  /\ root \in Already
  /\ tmp = [s \in 0..MaxTime |-> Absent]
  /\ call \in [Agents -> {[pc |-> "idle"]}]
  /\ now = 0 /\ calls = 0
  /\ manifest = [a \in Agents |-> Listed(root)]

\* agent_create_silent: a new subagent in the place of another, or the first in it.
NewAgent(a) ==
  /\ a # Main /\ call[a].pc = "idle"
  /\ manifest' = [manifest EXCEPT ![a] = Listed(root)]
  /\ UNCHANGED <<root, tmp, call, now, calls>>

Goto(a, step) == call' = [call EXCEPT ![a].pc = step]

\* The call begins: the temporary directory is made, if it is not there.
Begin(a, source, scope, override, force) ==
  LET held == IF source.at = "installed" THEN root[source.scope][source.name]
                                         ELSE source.package
  IN  /\ call[a].pc = "idle" /\ calls < MaxCalls
      /\ calls' = calls + 1
      /\ call' = [b \in Agents |->
           CASE b = a -> [pc |-> "fetch", source |-> source, scope |-> scope,
                          override |-> override, force |-> force, second |-> now,
                          name |-> NoName, ok |-> FALSE, alone |-> Running = {},
                          asked |-> held]
             [] b \in Running -> [call[b] EXCEPT !.alone = FALSE]
             [] OTHER -> call[b]]
      /\ tmp' = [tmp EXCEPT ![now] = IF Exists(@) THEN @ ELSE Empty]
      /\ UNCHANGED <<root, now, manifest>>

\* Wrong arguments, or no temporary directory: an error, and nothing else.
Refuse(a) ==
  /\ call[a].pc = "idle" /\ calls < MaxCalls
  /\ calls' = calls + 1
  /\ UNCHANGED <<root, tmp, call, now, manifest>>

\* A directory is used where it is.
FetchLocal(a) ==
  /\ call[a].pc = "fetch" /\ call[a].source.at # "repo"
  /\ Goto(a, IF Exists(Held(call[a])) THEN "check" ELSE "cleanup")
  /\ UNCHANGED <<root, tmp, now, calls, manifest>>

\* git clone wants a directory that is not there or empty, and makes its parents.
Clone(a) ==
  /\ call[a].pc = "fetch" /\ call[a].source.at = "repo"
  /\ tmp[call[a].second] \in {Absent, Empty}
  /\ tmp' = [tmp EXCEPT ![call[a].second] = call[a].source.package]
  /\ Goto(a, "check")
  /\ UNCHANGED <<root, now, calls, manifest>>

CloneFails(a) ==
  /\ call[a].pc = "fetch" /\ call[a].source.at = "repo"
  /\ Goto(a, "cleanup")
  /\ UNCHANGED <<root, tmp, now, calls, manifest>>

\* SKILL.md is there and the name is settled; the scope has a directory.
Check(a) ==
  LET d == Held(call[a])
      name == InstallName(call[a], d)
      good == d.md /\ name # NoName /\ (call[a].scope = "user" => HasHome)
  IN  /\ call[a].pc = "check"
      /\ call' = [call EXCEPT ![a].pc = IF good THEN "target" ELSE "cleanup",
                              ![a].name = IF good THEN name ELSE NoName]
      /\ UNCHANGED <<root, tmp, now, calls, manifest>>

\* ensure_dir_path fails for the directory of the scope.
RootFails(a) ==
  /\ call[a].pc = "target"
  /\ Goto(a, "cleanup")
  /\ UNCHANGED <<root, tmp, now, calls, manifest>>

LookAtTarget(a) ==
  /\ call[a].pc = "target"
  /\ Goto(a, AfterTarget(Exists(Target(call[a])), Overwrites(call[a])))
  /\ UNCHANGED <<root, tmp, now, calls, manifest>>

Put(a, d) == root' = [root EXCEPT ![call[a].scope][call[a].name] = d]

\* rm -rf target.
Remove(a) ==
  /\ call[a].pc = "remove"
  /\ Put(a, Absent)
  /\ Goto(a, "copy")
  /\ UNCHANGED <<tmp, now, calls, manifest>>

\* It was not started, or stopped in the middle.
RemoveFails(a) ==
  /\ call[a].pc = "remove"
  /\ \/ UNCHANGED root
     \/ Exists(Target(call[a])) /\ \E d \in Torn(Target(call[a])) : Put(a, d)
  /\ Goto(a, "cleanup")
  /\ UNCHANGED <<tmp, now, calls, manifest>>

\* cp -R source target.
Copy(a) ==
  LET c == call[a]
  IN  /\ c.pc = "copy" /\ Exists(Held(c)) /\ ~OntoItself(c)
      /\ Put(a, IF Exists(Target(c)) THEN [Target(c) EXCEPT !.inside = TRUE] ELSE Held(c))
      /\ call' = [call EXCEPT ![a].pc = "cleanup", ![a].ok = TRUE]
      /\ UNCHANGED <<tmp, now, calls, manifest>>

\* The source has gone or is the target, or the copying stops in the middle.
CopyFails(a) ==
  LET c == call[a]
  IN  /\ c.pc = "copy"
      /\ \/ UNCHANGED root
         \/ /\ Exists(Held(c)) /\ ~Exists(Target(c))
            /\ \E d \in Torn(Held(c)) : Put(a, d)
         \/ /\ Exists(Held(c)) /\ Exists(Target(c))
            /\ Put(a, [Target(c) EXCEPT !.inside = TRUE])
      /\ Goto(a, "cleanup")
      /\ UNCHANGED <<tmp, now, calls, manifest>>

\* rm -rf tmp_base, on both ways out.
Cleanup(a) ==
  /\ call[a].pc = "cleanup"
  /\ \/ tmp' = [tmp EXCEPT ![call[a].second] = Absent]
     \/ UNCHANGED tmp
  /\ call' = [call EXCEPT ![a] = [pc |-> "idle"]]
  /\ UNCHANGED <<root, now, calls, manifest>>

\* Another second.
Tick ==
  /\ now < MaxTime
  /\ now' = now + 1
  /\ UNCHANGED <<root, tmp, call, calls, manifest>>

Install(a) ==
  \/ FetchLocal(a) \/ Clone(a) \/ CloneFails(a) \/ Check(a) \/ RootFails(a)
  \/ LookAtTarget(a) \/ Remove(a) \/ RemoveFails(a) \/ Copy(a) \/ CopyFails(a)
  \/ Cleanup(a)

Next ==
  \/ Tick
  \/ \E a \in Agents :
       \/ \E source \in Sources, scope \in Scopes, override \in Overrides, force \in BOOLEAN : Begin(a, source, scope, override, force)
       \/ Refuse(a)
       \/ NewAgent(a)
       \/ Install(a)

Spec == Init /\ [][Next]_vars
------------------------------------------------------------------------------
(***************************************************************************)
(* Properties.                                                             *)
(***************************************************************************)
\* A call that says "Installed" has put the whole package it was given in place,
\* although it may find an older one there, or a torn one, or be given the very
\* directory it is to replace - unless another call ran at the same time
\* (install_skill.c:243-267).
InstalledWhole ==
  \A a \in Running : call[a].ok /\ call[a].alone => Target(call[a]) = call[a].asked

\* The files of a whole skill only go by the removal of a call that was told to
\* force and names it.  Two calls without force may race for one name and share a
\* temporary directory, and all that one can then do to what the other has
\* installed is to leave its own package inside it (install_skill.c:244-260).
KeptUnlessForced ==
  [][\A s \in Scopes, n \in Names :
       root[s][n].whole /\ root'[s][n] # root[s][n] =>
         \E a \in Running :
           /\ call[a].scope = s /\ call[a].name = n
           /\ \/ call[a].pc = "remove" /\ call[a].force
              \/ /\ call[a].pc = "copy" /\ ~call[a].alone
                 /\ Own(root'[s][n]) = Own(root[s][n])]_vars

\* The skill of an entry is where the manifest found it.
InPlace(r, e) == Own(r[e.scope][e.dir]) = Own(e.skill)

\* load_skill finds it, or the project's of that name for a skill of the user's.
Loads(r, e) ==
  LET found == Load(r, e.name)
  IN  /\ found.md
      /\ found = r[e.scope][e.dir] \/ (e.scope = "user" /\ found = r["project"][e.dir])

\* A forced call is at the removal of the skill of an entry.
Removing(e) == \E a \in Running : /\ call[a].pc = "remove" /\ call[a].force
                                  /\ call[a].scope = e.scope /\ call[a].name = e.dir

\* An agent's prompt keeps the manifest of the moment the agent was created.
\* Where SKILL.md states its directory's name, what that manifest lists load_skill
\* finds at once and after every step, the project's before the user's, unless a
\* forced call has removed the skill since: no installation without force, failed
\* or beside others, takes it away (skills.c:186-199, 265-266, 308-320;
\* agent.c:44).
ListedLoads ==
  [][\A a \in Agents : \A e \in manifest'[a] :
       /\ e.name = e.dir
       /\ e \in manifest[a] => InPlace(root, e) /\ ~Removing(e)
       => InPlace(root', e) /\ Loads(root', e)]_vars
==============================================================================
