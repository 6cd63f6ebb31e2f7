------------------------------ MODULE JsonItems ------------------------------
(***************************************************************************)
(* The items of cJSON and the lists they are linked in (libs/cJSON.c): a   *)
(* container points to its first child, children are linked by next and    *)
(* prev, and the prev of the first child is the last one.  The operators   *)
(* take a heap and give the heap after the call; the actions at the end    *)
(* are the calls of a program that puts only roots under other items.      *)
(*                                                                         *)
(* malloc fails when no item is free; the copy of a string that cannot be  *)
(* made is the choice ~got.  References to items are left out: nothing in  *)
(* the program makes one.                                                  *)
(***************************************************************************)
EXTENDS Integers, Sequences, FiniteSets, SequencesExt, FiniteSetsExt

CONSTANTS
  Items,          \* the addresses malloc can give for an item
  Kinds,          \* the types a program creates
  Null,           \* no item
  Keys,           \* names of members
  NoKey,          \* item->string is NULL
  Lower,          \* each key as case_insensitive_strcmp sees it
  CircularLimit   \* CJSON_CIRCULAR_LIMIT

ASSUME ItemsAssumption == Null \notin Items /\ NoKey \notin Keys

VARIABLE heap     \* for each item its type, string, valuestring and links

Blank == [kind |-> "free", key |-> NoKey, val |-> <<>>,
          next |-> Null, prev |-> Null, child |-> Null]

FreeItems(h) == {i \in Items : h[i].kind = "free"}
Live(h)      == Items \ FreeItems(h)

Put(h, i, field, v) == [h EXCEPT ![i] = [@ EXCEPT ![field] = v]]

\* The items from i along next; no list has more than n.
RECURSIVE Chain(_, _, _)
Chain(h, i, n) == IF i = Null \/ n = 0 THEN <<>> ELSE <<i>> \o Chain(h, h[i].next, n - 1)

Children(h, p) == Chain(h, h[p].child, Cardinality(Items))

RECURSIVE Below(_, _)
Below(h, p) == {p} \cup UNION {Below(h, c) : c \in ToSet(Children(h, p))}

Root(h, i) == i \in Live(h) /\ \A p \in Live(h) : ~Contains(Children(h, p), i)
------------------------------------------------------------------------------
(* Items and their lists.                                                  *)

New(h) == IF FreeItems(h) = {} THEN Null ELSE CHOOSE i \in FreeItems(h) : TRUE

Made(h, i, kind, key, val) ==
  [h EXCEPT ![i] = [Blank EXCEPT !.kind = kind, !.key = key, !.val = val]]

\* cJSON_Delete frees the items after i as well.
Delete(h, i) ==
  LET gone == UNION {Below(h, j) : j \in ToSet(Chain(h, i, Cardinality(Items)))}
  IN  [j \in Items |-> IF j \in gone THEN Blank ELSE h[j]]

Suffix(h, prev, i) == Put(Put(h, prev, "next", i), i, "prev", prev)

AddToArray(h, p, i) ==
  LET first == h[p].child IN
  IF first = Null
  THEN Put(Put(Put(h, p, "child", i), i, "prev", i), i, "next", Null)
  ELSE IF h[first].prev = Null THEN h
  ELSE Put(Suffix(h, h[first].prev, i), first, "prev", i)

AddToObject(h, p, k, i) == AddToArray(Put(h, i, "key", k), p, i)

GetItem(h, p, n) == IF n < Len(Children(h, p)) THEN Children(h, p)[n + 1] ELSE Null

GetMember(h, p, k, sensitive) ==
  LET s == Children(h, p)
      Stops(i) == IF sensitive THEN h[i].key \in {k, NoKey}
                  ELSE h[i].key # NoKey /\ Lower[h[i].key] = Lower[k]
      at == SelectInSeq(s, Stops)
  IN  IF at = 0 \/ h[s[at]].key = NoKey THEN Null ELSE s[at]

\* Detach, if the first child were not told who the last one is.
DetachForgetsLast(h, p, i) ==
  LET before == IF i # h[p].child THEN Put(h, h[i].prev, "next", h[i].next)
                ELSE Put(h, p, "child", h[i].next)
      after  == IF h[i].next # Null THEN Put(before, h[i].next, "prev", h[i].prev) ELSE before
  IN  Put(Put(after, i, "prev", Null), i, "next", Null)

Detach(h, p, i) ==
  LET it     == h[i]
      before == IF i # h[p].child THEN Put(h, it.prev, "next", it.next) ELSE h
      after  == IF it.next # Null THEN Put(before, it.next, "prev", it.prev) ELSE before
      ends   == IF i = h[p].child THEN Put(after, p, "child", it.next)
                ELSE IF it.next = Null THEN Put(after, h[p].child, "prev", it.prev)
                ELSE after
  IN  IF i # h[p].child /\ it.prev = Null THEN h
      ELSE Put(Put(ends, i, "prev", Null), i, "next", Null)

Insert(h, p, n, i) ==
  LET next == GetItem(h, p, n)
      linked == Put(Put(Put(h, i, "next", next), i, "prev", h[next].prev), next, "prev", i)
  IN  IF next = Null THEN AddToArray(h, p, i)
      ELSE IF next # h[p].child /\ h[next].prev = Null THEN h
      ELSE IF next = h[p].child THEN Put(linked, p, "child", i)
      ELSE Put(linked, h[next].prev, "next", i)

Replace(h, p, i, r) ==
  LET it    == h[i]
      first == h[p].child
      taken == Put(Put(h, r, "next", it.next), r, "prev", it.prev)
      after == IF it.next # Null THEN Put(taken, it.next, "prev", r) ELSE taken
      inner == IF it.prev # Null THEN Put(after, it.prev, "next", r) ELSE after
      ends  == IF first = i
               THEN Put(IF after[first].prev = first THEN Put(after, r, "prev", r) ELSE after,
                        p, "child", r)
               ELSE IF it.next = Null THEN Put(inner, first, "prev", r) ELSE inner
  IN  IF first = Null \/ i = Null \/ r = i THEN h
      ELSE Delete(Put(Put(ends, i, "next", Null), i, "prev", Null), i)

\* A list of children built from the front, as parsing and copying do it.
LinkAfter(h, p, last, i) ==
  IF last = Null THEN Put(h, p, "child", i) ELSE Suffix(h, last, i)

CloseList(h, p, last) ==
  IF h[p].child = Null THEN h ELSE Put(h, h[p].child, "prev", last)

Failed(h) == [ok |-> FALSE, heap |-> h, item |-> Null]

CreateArray(h, kind, n) ==
  LET a == New(h)
      Step(acc, m) ==
        LET i == New(acc.heap) IN
        IF ~acc.ok \/ i = Null THEN [acc EXCEPT !.ok = FALSE]
        ELSE [ok |-> TRUE, item |-> i,
              heap |-> LinkAfter(Made(acc.heap, i, kind, NoKey, <<>>), a, acc.item, i)]
      all == FoldLeft(Step, [ok |-> TRUE, item |-> Null, heap |-> Made(h, a, "array", NoKey, <<>>)],
                      [m \in 1..n |-> m])
  IN  IF a = Null THEN h
      ELSE IF all.ok THEN CloseList(all.heap, a, all.item)
      ELSE Delete(all.heap, a)

RECURSIVE Duplicate(_, _, _, _)
Duplicate(h, i, depth, recurse) ==
  LET d == New(h)
      Step(acc, c) ==
        LET copy == Duplicate(acc.heap, c, depth + 1, TRUE) IN
        IF ~acc.ok THEN acc
        ELSE IF depth >= CircularLimit \/ ~copy.ok THEN [acc EXCEPT !.ok = FALSE]
        ELSE [ok |-> TRUE, item |-> copy.item, heap |-> LinkAfter(copy.heap, d, acc.item, copy.item)]
      all == FoldLeft(Step, [ok |-> TRUE, item |-> Null,
                             heap |-> Made(h, d, h[i].kind, h[i].key, h[i].val)],
                      IF recurse THEN Children(h, i) ELSE <<>>)
  IN  IF d = Null THEN Failed(h)
      ELSE IF all.ok THEN [ok |-> TRUE, item |-> d, heap |-> CloseList(all.heap, d, all.item)]
      ELSE Failed(Delete(all.heap, d))

RECURSIVE Compare(_, _, _, _)
Compare(h, a, b, sensitive) ==
  LET as == Children(h, a)
      bs == Children(h, b)
      Finds(ones, p) ==
        \A n \in DOMAIN ones :
          LET other == IF h[ones[n]].key = NoKey THEN Null
                       ELSE GetMember(h, p, h[ones[n]].key, sensitive)
          IN  other # Null /\ Compare(h, ones[n], other, sensitive)
  IN  /\ h[a].kind = h[b].kind
      /\ \/ a = b
         \/ h[a].kind \notin {"array", "object"} /\ h[a].val = h[b].val
         \/ /\ h[a].kind = "array" /\ Len(as) = Len(bs)
            /\ \A n \in DOMAIN as : Compare(h, as[n], bs[n], sensitive)
         \/ h[a].kind = "object" /\ Finds(as, b) /\ Finds(bs, a)
------------------------------------------------------------------------------
(* The calls.                                                              *)

Holders == {p \in Live(heap) : heap[p].kind \in {"array", "object"}}

\* The program adds an item once, and not to its own descendants.
MayHold(p, i) == Root(heap, i) /\ p \notin Below(heap, i)

HeapInit == heap = [i \in Items |-> Blank]

CallCreate(kind) ==
  /\ New(heap) # Null
  /\ heap' = Made(heap, New(heap), kind, NoKey, <<>>)

CallCreateArray(n) == heap' = CreateArray(heap, "number", n)

CallAddToArray(p, i) == MayHold(p, i) /\ heap' = AddToArray(heap, p, i)

CallAddToObject(p, k, i, got) ==
  /\ MayHold(p, i)
  /\ heap' = IF got THEN AddToObject(heap, p, k, i) ELSE heap

\* cJSON_AddStringToObject and its kind: the new item goes if it cannot be added.
CallAddNew(p, k, got) ==
  LET i == New(heap)
      h == Made(heap, i, "number", NoKey, <<>>)
  IN  /\ i # Null
      /\ heap' = IF got THEN AddToObject(h, p, k, i) ELSE Delete(h, i)

CallDetach(p, n) ==
  LET i == GetItem(heap, p, n) IN i # Null /\ heap' = Detach(heap, p, i)

CallDelete(i) == Root(heap, i) /\ heap' = Delete(heap, i)

CallDeleteItem(p, n) ==
  LET i == GetItem(heap, p, n) IN i # Null /\ heap' = Delete(Detach(heap, p, i), i)

CallDeleteMember(p, k, sensitive) ==
  LET i == GetMember(heap, p, k, sensitive)
  IN  i # Null /\ heap' = Delete(Detach(heap, p, i), i)

CallInsert(p, n, i) == MayHold(p, i) /\ heap' = Insert(heap, p, n, i)

CallReplace(p, n, r) ==
  /\ MayHold(p, r) /\ GetItem(heap, p, n) # Null
  /\ heap' = Replace(heap, p, GetItem(heap, p, n), r)

\* The replacement is renamed first, found or not found.
CallReplaceMember(p, k, r, sensitive, got) ==
  LET named == Put(heap, r, "key", IF got THEN k ELSE NoKey) IN
  /\ MayHold(p, r)
  /\ heap' = IF got THEN Replace(named, p, GetMember(named, p, k, sensitive), r) ELSE named

CallDuplicate(i, recurse) == heap' = Duplicate(heap, i, 0, recurse).heap

Edit ==
  \/ \E kind \in Kinds : CallCreate(kind)
  \/ \E n \in 1..Cardinality(Items) : CallCreateArray(n)
  \/ \E i \in Live(heap), b \in BOOLEAN : CallDelete(i) \/ CallDuplicate(i, b)
  \/ \E p \in Holders :
       \/ \E i \in Live(heap) :
            \/ CallAddToArray(p, i)
            \/ \E k \in Keys, b \in BOOLEAN : CallAddToObject(p, k, i, b)
            \/ \E n \in 0..Len(Children(heap, p)) : CallInsert(p, n, i) \/ CallReplace(p, n, i)
            \/ \E k \in Keys, b, got \in BOOLEAN : CallReplaceMember(p, k, i, b, got)
       \/ \E k \in Keys, b \in BOOLEAN : CallAddNew(p, k, b) \/ CallDeleteMember(p, k, b)
       \/ \E n \in 0..(Len(Children(heap, p)) - 1) : CallDetach(p, n) \/ CallDeleteItem(p, n)
==============================================================================
