------------------------------- MODULE MCMemory -------------------------------
(* Small instances of Memory: two types, two one-line contents, and one that  *)
(* reads back as two entries.                                                  *)
EXTENDS Memory

CONSTANTS main, sub, one, two, both

Contents == {one, two, both}
LinesOf == [c \in Contents |-> IF c = both THEN <<one, two>> ELSE <<c>>]
OneLegacy == <<<<2, one>>>>
NoLegacy == <<>>
SomeAnswers == {<<>>, <<<<1, two>>, <<2, one>>>>}
OneAgent == {main}
TwoAgents == {main, sub}
=============================================================================
