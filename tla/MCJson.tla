------------------------------- MODULE MCJson --------------------------------
EXTENDS Json

MCKeys   == {"k", "K"}
MCLower  == [k \in MCKeys |-> "k"]
MCItems  == 1..10
MCTokens ==
  {"[", "]", "{", "}", ",", ":", "\"", "\\", "n", "0", "1", "-", ".", "e", "null", " ", "^A"}

MCSeeds ==
  {<<"[", "1", ",", "[", "]", " ", ",", "{", "}", "]">>,
   <<"{", "\"", "n", "\"", ":", "1", ",", "\"", "\\", "n", "\"", ":", "\"", "\"", "}">>,
   <<"{", "\"", "\"", ":", "1", ",", "}">>,
   <<"[", "[", "-", "1", "]", "]">>,
   <<"BOM", "null">>,
   <<"-", "1", "e", "1", "5">>,
   <<"[", "0", ".", "0", "0", "0", "1", "]">>,
   <<"[", "1", ".", "0", "e", "+", "1", "1", "1", "]">>,
   <<" ", "{", "\"", "\"", " ", ":", "{", "\"", "1", "\"", ":", "null", "}", "}">>,
   <<"BOM", "[", "\"", "\\", "\"", "^A", "\"", "]">>}

Symmetric == Permutations(Items)
==============================================================================
