------------------------------- MODULE Robots -------------------------------
(***************************************************************************)
(* robots.txt of research/controlled_browser.py: _parse_robots chooses the *)
(* groups for the curator's agent, _RobotsPolicy judges a path.            *)
(*                                                                         *)
(* A file is a sequence of groups.  Of the agent names that are part of    *)
(* the curator's user agent there are a short and a full one; a group's    *)
(* delay is the larger of its crawl-delay and the interval of its          *)
(* request-rate.                                                           *)
(*                                                                         *)
(* A path is what follows its first slash, in pieces, each of which is     *)
(* written plainly or under levels of percent encoding; a rule gives the   *)
(* first pieces.  Wildcards, the $ anchor, queries, escapes of what        *)
(* structures a URL, and an empty Allow are left out.                      *)
(***************************************************************************)
EXTENDS Naturals, FiniteSets, SequencesExt

Agents == {"full", "short", "*", "other"}

Segment == [name : STRING, escapes : Nat]

Rule(Paths) == [allow : BOOLEAN, path : Paths]

Group(Paths) == [agents : SUBSET Agents, rules : SUBSET Rule(Paths), delay : Nat]

Policy(Paths) == [rules : SUBSET Rule(Paths), interval : Nat]

NoPolicy == [rules |-> {}, interval |-> 0]

(* How well a group's longest name matches; "*" names everyone.            *)
Score(group) == IF "full" \in group.agents THEN 2
                ELSE IF "short" \in group.agents THEN 1 ELSE 0

(* The groups that match best apply, all of them.                          *)
Applying(file) ==
  LET matches == {i \in DOMAIN file :
                    file[i].agents \cap {"full", "short", "*"} # {}}
  IN {i \in matches : \A j \in matches : Score(file[j]) <= Score(file[i])}

PolicyOf(file) ==
  [rules |-> UNION {file[i].rules : i \in Applying(file)},
   interval |-> Max({0} \cup {file[i].delay : i \in Applying(file)})]

(* unquote takes one level of encoding away.                               *)
Unquoted(path) ==
  [i \in DOMAIN path |->
     [path[i] EXCEPT !.escapes = IF @ = 0 THEN 0 ELSE @ - 1]]

(* Mutant: the path is judged as the page writes it.                       *)
RawTarget(path) == path

(* The path that is asked for is unquoted; those of the rules are not.     *)
Target(path) == Unquoted(path)

Matching(policy, path) ==
  {rule \in policy.rules : IsPrefix(rule.path, Target(path))}

(* The longest matching rules decide, and among them any that allows.      *)
Permits(policy, path) ==
  LET matches == Matching(policy, path)
      longest == {rule \in matches :
                    \A other \in matches : Len(other.path) <= Len(rule.path)}
  IN matches # {} => \E rule \in longest : rule.allow
=============================================================================
