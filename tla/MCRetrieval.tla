----------------------------- MODULE MCRetrieval ----------------------------
(* Retrieval of documents at two URLs, and from two origins: each may have *)
(* a robots.txt with groups for everyone, for a name that is part of the   *)
(* curator's, and two for the curator's own name.                          *)
EXTENDS Retrieval, Sequences

Spelt(name, escapes) == <<[name |-> name, escapes |-> escapes]>>

Within == Spelt("x", 0) \o Spelt("y", 0)

(* The root, a path as it is and with an escape, and one that begins so.   *)
SomePaths == {<<>>, Spelt("x", 0), Spelt("x", 1), Within}

OneGroup(agents, rules, delay) ==
  [agents |-> agents, rules |-> rules, delay |-> delay]

Forbid(path) == [allow |-> FALSE, path |-> path]
Allow(path) == [allow |-> TRUE, path |-> path]

(* The same groups, with one rule written plainly or with an escape.       *)
FileOf(path) == <<OneGroup({"*", "short"}, {Forbid(<<>>)}, 0),
                  OneGroup({"full"}, {Forbid(path)}, 2),
                  OneGroup({"full", "other"}, {Allow(Within)}, 1)>>

TwoFiles == {FileOf(Spelt("x", 0)), FileOf(Spelt("x", 1))}
=============================================================================
