----------------------------- MODULE JsonForest ------------------------------
(***************************************************************************)
(* What cJSON promises of its items: trees whose arrays and objects have   *)
(* their children in order.  No pointer is visible here; JsonItems is the  *)
(* library's linked lists, and implements this.                            *)
(***************************************************************************)
EXTENDS Integers, Sequences, FiniteSets, SequencesExt

CONSTANTS Items, Keys, NoKey

VARIABLES kind, key, kids

vars == <<kind, key, kids>>

\* A number stands for every item that holds no others.
AllKinds == {"array", "object", "number"}
Live  == {i \in Items : kind[i] # "free"}
Roots == {i \in Live : \A p \in Live : ~Contains(kids[p], i)}

\* The items of the tree at i.
RECURSIVE Tree(_)
Tree(i) == {i} \cup UNION {Tree(c) : c \in ToSet(kids[i])}

\* An item may be put under p if that makes no circle.
MayHold(p, i) == p \in Live /\ kind[p] # "number" /\ i \in Roots /\ p \notin Tree(i)

Without(f, gone, blank) == [i \in Items |-> IF i \in gone THEN blank ELSE f[i]]

------------------------------------------------------------------------------
Init ==
  /\ kind = [i \in Items |-> "free"]
  /\ key  = [i \in Items |-> NoKey]
  /\ kids = [i \in Items |-> <<>>]

Create(i, k) ==
  /\ kind[i] = "free"
  /\ kind' = [kind EXCEPT ![i] = k]
  /\ UNCHANGED <<key, kids>>

\* An array of new numbers.
CreateArray(a, new) ==
  /\ {a} \cup ToSet(new) \subseteq Items \ Live /\ ~Contains(new, a)
  /\ kind' = [i \in Items |-> IF i = a THEN "array"
                              ELSE IF Contains(new, i) THEN "number" ELSE kind[i]]
  /\ kids' = [kids EXCEPT ![a] = new]
  /\ UNCHANGED key

\* i becomes the at-th child of p, in an object under the key k.
Attach(p, i, k) ==
  /\ UNCHANGED kind
  /\ key' = [key EXCEPT ![i] = k]
  /\ MayHold(p, i)
  /\ \E at \in 1..(Len(kids[p]) + 1) : kids' = [kids EXCEPT ![p] = InsertAt(@, at, i)]

AttachNew(p, i, k) ==
  /\ kind[i] = "free" /\ p \in Live
  /\ kind' = [kind EXCEPT ![i] = "number"]
  /\ key'  = [key EXCEPT ![i] = k]
  /\ kids' = [kids EXCEPT ![p] = Append(@, i)]

Detach(p, i) ==
  /\ UNCHANGED <<kind, key>>
  /\ kids' = [kids EXCEPT ![p] = Remove(@, i)]

\* The tree at i goes, from under p if it is there.
Delete(i) ==
  /\ kind' = Without(kind, Tree(i), "free")
  /\ key'  = Without(key, Tree(i), NoKey)
  /\ kids' = Without([p \in Items |-> Remove(kids[p], i)], Tree(i), <<>>)

\* r takes the place of i, and the tree at i goes.
Replace(p, i, r, k) ==
  /\ kind' = Without(kind, Tree(i), "free")
  /\ key'  = Without([key EXCEPT ![r] = k], Tree(i), NoKey)
  /\ MayHold(p, r)
  /\ kids' = Without([kids EXCEPT ![p] = [n \in DOMAIN @ |-> IF @[n] = i THEN r ELSE @[n]]],
                     Tree(i), <<>>)

\* copy[j] is the new item for each j of the items copied: i alone or its tree.
Duplicate(i, copy) ==
  LET new    == {copy[j] : j \in DOMAIN copy}
      Of(j)  == CHOOSE o \in DOMAIN copy : copy[o] = j
      Moved(s) == IF DOMAIN copy = {i} THEN <<>> ELSE [n \in DOMAIN s |-> copy[s[n]]]
  IN  /\ IsInjective(copy)
      /\ kind' = [j \in Items |-> IF j \in new THEN kind[Of(j)] ELSE kind[j]]
      /\ key'  = [j \in Items |-> IF j \in new THEN key[Of(j)] ELSE key[j]]
      /\ kids' = [j \in Items |-> IF j \in new THEN Moved(kids[Of(j)]) ELSE kids[j]]

\* An item that is in no tree is given another key.
Rename(i, k) ==
  /\ UNCHANGED <<kind, kids>>
  /\ i \in Roots /\ key' = [key EXCEPT ![i] = k]

Next ==
  \/ \E i \in Items :
       \/ \E k \in AllKinds : Create(i, k)
       \/ \E k \in Keys \cup {NoKey} : Rename(i, k)
  \/ \E i \in Live : Delete(i)
  \/ \E p \in Live, i \in Items, k \in Keys : AttachNew(p, i, k)
  \/ \E p \in Live, i \in Roots, k \in Keys \cup {NoKey} :
       Attach(p, i, k) \/ \E n \in DOMAIN kids[p] : Replace(p, kids[p][n], i, k)
  \/ \E p \in Live : \E n \in DOMAIN kids[p] : Detach(p, kids[p][n])
  \/ \E i \in Live : \E S \in {{i}, Tree(i)} : \E copy \in [S -> Items \ Live] : Duplicate(i, copy)
  \/ \E i \in Items, n \in 1..Cardinality(Items) : \E new \in [1..n -> Items \ Live] : CreateArray(i, new)

Spec == Init /\ [][Next]_vars
==============================================================================
