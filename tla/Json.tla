-------------------------------- MODULE Json ---------------------------------
(***************************************************************************)
(* cJSON as the program uses it: a text that is typed and parsed, and      *)
(* items that are made, linked and freed by its calls.  The two have no    *)
(* state in common, so a behaviour does one or the other.                  *)
(***************************************************************************)
EXTENDS JsonItems, TLC

CONSTANTS
  TextItems,      \* the items a parser can have
  NestingLimit,   \* CJSON_NESTING_LIMIT
  IntMax,         \* INT_MAX
  Tokens,     \* what a text is made of
  MaxTyped,   \* how long a text that was typed from nothing can be
  Seeds,      \* longer texts
  MaxEdits    \* how many bytes of those are damaged

VARIABLES
  text,       \* the text
  edits       \* how often a seed was changed

J == INSTANCE JsonText WITH Items <- TextItems

vars == <<heap, text, edits>>

Init ==
  /\ HeapInit
  /\ \/ text = <<>> /\ edits = MaxEdits
     \/ text \in Seeds /\ edits = 0

Type ==
  /\ heap = [i \in Items |-> Blank]
  /\ \/ /\ edits = MaxEdits /\ Len(text) < MaxTyped /\ UNCHANGED edits
        /\ \E c \in Tokens : text' = Append(text, c)
     \/ /\ edits < MaxEdits /\ edits' = edits + 1
        /\ \E n \in DOMAIN text :
             \/ text' = RemoveAt(text, n)
             \/ \E c \in Tokens : text' \in {ReplaceAt(text, n, c), InsertAt(text, n, c)}
  /\ UNCHANGED heap

Next == (Edit /\ text = <<>> /\ UNCHANGED <<text, edits>>) \/ Type

Spec == Init /\ [][Next]_vars
------------------------------------------------------------------------------
(* What a JSON text is (RFC 8259).  A text is cut at some of its commas,   *)
(* and at a colon, and each piece has to be a value again.  What cJSON     *)
(* takes for JSON besides is `lax': control characters where blanks may be *)
(* and in strings, and every number strtod takes that has no plus or point *)
(* in front.                                                               *)

Controls == {"\n", "\t", "^A", "NUL"}

BlankTokens(lax) == {" "} \cup IF lax THEN Controls ELSE {"\n", "\t"}

RECURSIVE Trim(_, _)
Trim(s, lax) ==
  IF s # <<>> /\ s[1] \in BlankTokens(lax) THEN Trim(Tail(s), lax)
  ELSE IF s # <<>> /\ s[Len(s)] \in BlankTokens(lax) THEN Trim(Front(s), lax)
  ELSE s

AreDigits(s) == s # <<>> /\ ToSet(s) \subseteq J!Digits

\* JSON's numbers: no zero in front, and digits on both sides of a point.
IsStrict(s) ==
  \E from \in 1..2, point, power \in 0..Len(s) :
    LET whole    == SubSeq(s, from, point)
        fraction == SubSeq(s, point + 1, power)
        exponent == SubSeq(s, power + 1, Len(s))
        signed   == Len(exponent) > 1 /\ exponent[2] \in {"-", "+"}
    IN  /\ AreDigits(whole) /\ (whole[1] = "0" => Len(whole) = 1)
        /\ from = 2 => s[1] = "-"
        /\ fraction = <<>> \/ (fraction[1] = "." /\ AreDigits(Tail(fraction)))
        /\ \/ exponent = <<>>
           \/ exponent[1] = "e" /\ AreDigits(SubSeq(exponent, IF signed THEN 3 ELSE 2, Len(exponent)))

IsNumber(s, lax) ==
  IF lax THEN s # <<>> /\ s[1] \notin {"+", "."} /\ J!IsDecimal(s) ELSE IsStrict(s)

\* Each backslash of the string escapes the next token, no quote is left over.
IsString(s, lax) ==
  \E escaped \in SUBSET {n \in 3..(Len(s) - 1) : s[n] \in DOMAIN J!Escapes} :
    /\ Len(s) >= 2 /\ s[1] = "\"" /\ s[Len(s)] = "\""
    /\ \A n \in 2..(Len(s) - 1) :
         /\ n \in escaped => n - 1 \notin escaped
         /\ s[n] \in Controls => lax
         /\ n \notin escaped => s[n] # "\"" /\ (s[n] = "\\" <=> n + 1 \in escaped)

Cuts(s) == {[n \in 0..(Cardinality(C) + 1) |->
               IF n = 0 THEN 0 ELSE IF n > Cardinality(C) THEN Len(s) + 1
               ELSE SetToSortSeq(C, <)[n]] : C \in SUBSET {n \in DOMAIN s : s[n] = ","}}

Inner(s) == SubSeq(s, 2, Len(s) - 1)
Between(s, open, close) == Len(s) >= 2 /\ s[1] = open /\ s[Len(s)] = close

RECURSIVE IsValue(_, _, _)
IsValue(text0, depth, lax) ==
  LET s == Trim(text0, lax)
      Piece(i, cut, n) == SubSeq(i, cut[n - 1] + 1, cut[n] - 1)
      IsMember(piece) ==
        \E c \in DOMAIN piece :
          /\ piece[c] = ":" /\ IsString(Trim(SubSeq(piece, 1, c - 1), lax), lax)
          /\ IsValue(SubSeq(piece, c + 1, Len(piece)), depth + 1, lax)
      HasPieces(IsGood(_)) ==
        \/ Trim(Inner(s), lax) = <<>>
        \/ \E cut \in Cuts(Inner(s)) :
             \A n \in DOMAIN cut \ {0} : IsGood(Piece(Inner(s), cut, n))
  IN  \/ s = <<"null">> \/ IsNumber(s, lax) \/ IsString(s, lax)
      \/ depth < NestingLimit /\ Between(s, "[", "]") /\ HasPieces(LAMBDA v : IsValue(v, depth + 1, lax))
      \/ depth < NestingLimit /\ Between(s, "{", "}") /\ HasPieces(IsMember)

\* How far the value at the start of t goes, 0 if there is none.  A byte order mark
\* may be in front of two bytes or more.
ValueEnd(t) ==
  LET from == IF t # <<>> /\ t[1] = "BOM" /\ (Len(t) >= 3 \/ Last(t) = "null") THEN 2 ELSE 1
      ends == {n \in from..Len(t) :
                 t[n] \notin BlankTokens(TRUE) /\ IsValue(SubSeq(t, from, n), 0, TRUE)}
  IN  IF ends = {} THEN 0 ELSE Max(ends)

\* What t says: its tokens but for blanks, each number as the value it stands for,
\* control characters within strings escaped.
RECURSIVE Says(_, _)
Says(t, quoted) ==
  LET Then(c, n)  == <<c>> \o Says(SubSeq(t, n + 1, Len(t)), quoted)
      Escaped(cs) == [k \in DOMAIN cs |-> <<cs[k]>>] \o Says(Tail(t), TRUE)
      copied      == J!Digits \cup {"+", "-", "e", "."}
      end         == SelectInSeq(Append(t, "NUL"), LAMBDA c : c \notin copied) - 1
  IN  IF t = <<>> THEN <<>>
      ELSE IF t[1] = "\"" THEN <<<<"\"">>>> \o Says(Tail(t), ~quoted)
      ELSE IF quoted /\ t[1] = "\\" THEN <<<<"\\">>, <<t[2]>>>> \o Says(SubSeq(t, 3, Len(t)), TRUE)
      ELSE IF quoted /\ t[1] = "\n" THEN Escaped(<<"\\", "n">>)
      ELSE IF quoted /\ t[1] = "^A" THEN Escaped(<<"\\", "u", "0", "0", "0", "1">>)
      ELSE IF quoted THEN Then(<<t[1]>>, 1)
      ELSE IF t[1] \in BlankTokens(TRUE) \cup {"BOM"} THEN Says(Tail(t), FALSE)
      ELSE IF end = 0 THEN Then(<<t[1]>>, 1)
      ELSE Then(J!StrToD(SubSeq(t, 1, end)), end)

\* A number that is beyond the doubles is null.
Nulled(said) ==
  [n \in DOMAIN said |-> IF Len(said[n]) = 3 /\ J!IsInfinite(said[n]) THEN <<"null">> ELSE said[n]]
------------------------------------------------------------------------------
(* Properties.                                                             *)

NoItems == [i \in TextItems |-> Blank]

\* A heap where all but n items belong to others.
Crowded(n) ==
  [i \in TextItems |-> IF i > n THEN [Blank EXCEPT !.kind = "number"] ELSE Blank]

Linked(h, p) ==
  LET s == J!Children(h, p) IN
  s # <<>> => /\ h[s[1]].prev = Last(s) /\ h[Last(s)].next = Null
              /\ \A n \in 2..Len(s) : h[s[n]].prev = s[n - 1]

\* r is what Parse makes of t: the value that t begins with, if there is one.
Reads(t, r) ==
  LET end == ValueEnd(t)
  IN  /\ ~r.over
      /\ end > 0 <=> r.item # Null
      /\ IF r.item # Null THEN r.off = end ELSE t = <<>> \/ r.off < Len(t)

\* r, made of the heap h, is one tree with its lists linked both ways, or nothing.
Leaves(h, r) ==
  LET tree == IF r.item = Null THEN {} ELSE J!Below(r.heap, r.item)
  IN  /\ \A i \in TextItems \ tree : r.heap[i] = h[i]
      /\ \A i \in tree : h[i] = Blank /\ r.heap[i].kind # "invalid" /\ Linked(r.heap, i)

\* The parser accepts every JSON text no deeper than the limit, and nothing but
\* JSON texts and those `lax' names: it accepts a text, NUL or no NUL at its end,
\* exactly if it begins with such a value, and stops at the end of that value; when
\* the whole text has to be a value, only then.  It reads nothing outside the text
\* and the place it gives for an error is inside.  However much memory there is, a
\* text that is refused leaves no item behind, one that is accepted leaves one tree
\* with its lists linked both ways, and the items of others stay as they are
\* (cJSON.c:1022-1118, 1394-1611).  A text has no more items than tokens.
ParsesJson ==
  LET terminated == Append(text, "NUL")
      end   == ValueEnd(terminated)
      whole == J!Parse(terminated, NoItems, TRUE).item # Null
  IN  /\ \A t \in {text, terminated} : Reads(t, J!Parse(t, NoItems, FALSE))
      /\ whole <=> end > 0 /\ \A n \in (end + 1)..Len(text) : text[n] \in BlankTokens(TRUE)
      /\ IsValue(text, 0, FALSE) => whole
      /\ \A n \in 0..Min({Len(text), Cardinality(TextItems)}) :
           Leaves(Crowded(n), J!Parse(text, Crowded(n), FALSE))

\* cJSON_Compare finds the first of two members with one name.
Twins(h, i) ==
  \E p \in J!Below(h, i) :
    \E m, n \in ToSet(J!Children(h, p)) : m # n /\ h[m].key # NoKey /\ h[m].key = h[n].key

\* p is the tree whose text without blanks is plain, printed into a buffer of that size.
PrintedInto(p, plain, size, grows, format) ==
  /\ ~p.over
  /\ p.ok => Says(J!Text(p), FALSE) = Says(plain, FALSE)
  /\ p.ok /\ ~format => J!Text(p) = plain
  /\ ~format /\ size >= Len(plain) + 6 => p.ok
  /\ ~format /\ grows > 5 /\ Len(plain) + 6 <= IntMax => p.ok

Printed(r, plain) ==
  \A size \in 0..(Len(plain) + 8), grows \in {0, 1, 9}, format \in BOOLEAN :
    PrintedInto(J!PrintInto(r.heap, r.item, size, grows, format), plain, size, grows, format)

ReadAgain(r, again) == again.item # Null /\ J!Compare(again.heap, r.item, again.item, TRUE)

\* But for a \u escape, a name that is there twice, and what has become null.
Same(r, lost) ==
  \/ "^A" \in ToSet(text) \/ Twins(r.heap, r.item) \/ lost
  \/ ReadAgain(r, J!Parse(J!Text(J!PrintInto(r.heap, r.item, IntMax, 0, TRUE)), r.heap, FALSE))

\* What was parsed is printed as it was read, less its blanks, each number with the
\* value it had, and one too large for a double as null.  The print is JSON,
\* though what was read may only have been `lax'.  It is the same whatever buffer it
\* goes into; the printer never goes outside the buffer, and needs no more than the
\* five bytes beyond the text that cJSON.h speaks of.  Parsed again, the formatted
\* text is a tree that cJSON_Compare says is the same (cJSON.c:537-597, 855-970,
\* 1453-1711).
PrintsBack ==
  LET Back(r) ==
        LET plain == J!Text(J!PrintInto(r.heap, r.item, IntMax, 0, FALSE))
            said  == Says(SubSeq(text, 1, r.off), FALSE)
        IN  /\ Says(plain, FALSE) = Nulled(said)
            /\ "^A" \in ToSet(text) \/ IsValue(plain, 0, FALSE)
            /\ Printed(r, plain)
            /\ Same(r, Nulled(said) # said)
  IN  LET r == J!Parse(text, NoItems, FALSE) IN r.item # Null => Back(r)

Forest == INSTANCE JsonForest WITH
  kind <- [i \in Items |-> heap[i].kind],
  key  <- [i \in Items |-> heap[i].key],
  kids <- [i \in Items |-> Children(heap, i)]

\* Every call does to the trees what its name says, and no other tree, child or
\* name changes: no list is cut or joined wrongly by the pointers.
ImplementsForest == Forest!Spec
==============================================================================
