------------------------------- MODULE JsonText ------------------------------
(***************************************************************************)
(* Reading and printing JSON (libs/cJSON.c): the parser over a buffer with *)
(* an offset, which builds the items of JsonItems, and the printer into a  *)
(* buffer that it makes larger as it goes.                                 *)
(*                                                                         *)
(* A byte that matters to either is a token, of letters, control           *)
(* characters and escapes there is one each; null, true and false are the  *)
(* token "null", a byte order mark is "BOM", "NUL" ends a string.  \u      *)
(* escapes are left out.  The value of a number is what strtod makes of    *)
(* its text: a sign, digits that neither begin nor end with a zero, and    *)
(* where the point is from their start; or infinity.                       *)
(***************************************************************************)
EXTENDS JsonItems, TLC

CONSTANTS
  NestingLimit,   \* CJSON_NESTING_LIMIT
  IntMax          \* INT_MAX

Blanks  == {" ", "\n", "\t", "^A", "NUL"}
Escapes == ("n" :> "\n") @@ ("\"" :> "\"") @@ ("\\" :> "\\")
------------------------------------------------------------------------------
(* The C library's numbers: doubles of up to 15 digits, all told apart.    *)

Digits == {"0", "1", "2", "3", "4", "5", "6", "7", "8", "9"}

Natural(s) ==
  LET DigitValue == [c \in Digits |-> CHOOSE n \in 0..9 : ToString(n) = c]
  IN  FoldLeft(LAMBDA sum, c : 10 * sum + DigitValue[c], 0, s)

\* strtod takes the longest text of this sort: digits with at most one point among
\* them, a sign before and an exponent behind.
IsDecimal(s) ==
  \E from \in 1..2, n \in DOMAIN s :
    LET mantissa == SubSeq(s, from, n)
        exponent == SubSeq(s, n + 1, Len(s))
        signed   == Len(exponent) > 1 /\ exponent[2] \in {"-", "+"}
        power    == SubSeq(exponent, IF signed THEN 3 ELSE 2, Len(exponent))
    IN  /\ from = 2 => s[1] \in {"-", "+"}
        /\ ToSet(mantissa) \subseteq Digits \cup {"."} /\ ToSet(mantissa) \cap Digits # {}
        /\ Cardinality({k \in DOMAIN mantissa : mantissa[k] = "."}) <= 1
        /\ \/ exponent = <<>>
           \/ exponent[1] = "e" /\ power # <<>> /\ ToSet(power) \subseteq Digits

Zero           == <<<<>>, <<>>, 0>>
Infinite(sign) == <<sign, <<"infinite">>, 0>>
IsInfinite(v)  == v = Infinite(v[1])

\* strtod, of a text that IsDecimal.
StrToD(s) ==
  LET end      == SelectInSeq(Append(s, "e"), LAMBDA c : c = "e")
      unsigned == SelectSeq(SubSeq(s, 1, end - 1), LAMBDA c : c \in Digits \cup {"."})
      point    == SelectInSeq(Append(unsigned, "."), LAMBDA c : c = ".") - 1
      digits   == SelectSeq(unsigned, LAMBDA c : c # ".")
      first    == SelectInSeq(digits, LAMBDA c : c # "0")
      last     == SelectLastInSeq(digits, LAMBDA c : c # "0")
      power    == Natural(SelectSeq(SubSeq(s, end + 1, Len(s)), LAMBDA c : c \in Digits))
      down     == end < Len(s) /\ s[end + 1] = "-"
      shifted  == point - (first - 1) + IF down THEN -power ELSE power
      sign     == IF s[1] = "-" THEN <<"-">> ELSE <<>>
  IN  IF first = 0 \/ shifted < -323 THEN Zero
      ELSE IF shifted > 309 THEN Infinite(sign)
      ELSE <<sign, SubSeq(digits, first, last), shifted>>

\* printf's %1.15g, of a value that is finite and not zero; %d where both apply.
General(v) ==
  LET digits == v[2]
      point  == v[3]
      up     == point - 1
      size   == IF up < 0 THEN -up ELSE up
      Os(n)  == [k \in 1..n |-> "0"]
      Figures(n) == (IF n < 10 THEN <<ToString(n)>>
                     ELSE IF n < 100 THEN <<ToString(n \div 10), ToString(n % 10)>>
                     ELSE <<ToString(n \div 100), ToString((n \div 10) % 10), ToString(n % 10)>>)
      Fixed  ==
        IF point <= 0 THEN <<"0", ".">> \o Os(-point) \o digits
        ELSE IF point >= Len(digits) THEN digits \o Os(point - Len(digits))
        ELSE SubSeq(digits, 1, point) \o <<".">> \o SubSeq(digits, point + 1, Len(digits))
      Scientific ==
        <<digits[1]>> \o (IF Len(digits) = 1 THEN <<>> ELSE <<".">> \o Tail(digits))
          \o <<"e", IF up < 0 THEN "-" ELSE "+">> \o Os(IF size < 10 THEN 1 ELSE 0) \o Figures(size)
  IN  v[1] \o (IF -4 <= up /\ up < 15 THEN Fixed ELSE Scientific)
------------------------------------------------------------------------------
(* The parser.  b is the parse_buffer; over says that it was read outside. *)

Start(t, h) == [text |-> t, off |-> 0, depth |-> 0, heap |-> h, ok |-> TRUE, over |-> FALSE]

Ended(b)   == b.off >= Len(b.text)
Sees(b, S) == ~Ended(b) /\ b.text[b.off + 1] \in S
Step(b, n) == [b EXCEPT !.off = @ + n]
Fail(b)    == [b EXCEPT !.ok = FALSE]

\* At the end of the buffer it goes back by one.
Skip(b) ==
  LET rest == {n \in b.off..(Len(b.text) - 1) : b.text[n + 1] \notin Blanks}
  IN  IF Ended(b) THEN b
      ELSE [b EXCEPT !.off = IF rest = {} THEN Len(b.text) - 1 ELSE Min(rest)]

\* Two bytes have to follow it.
SkipBom(b) ==
  IF Sees(b, {"BOM"}) /\ (Len(b.text) >= 3 \/ b.text[Len(b.text)] = "null") THEN Step(b, 1) ELSE b

Typed(b, i, kind, val) ==
  [b EXCEPT !.heap = [@ EXCEPT ![i] = [@ EXCEPT !.kind = kind, !.val = val]]]

\* The place of the quote that ends the string, 0 if there is none.
RECURSIVE StringEnd(_, _)
StringEnd(t, n) ==
  IF n > Len(t) THEN 0
  ELSE IF t[n] = "\"" THEN n
  ELSE StringEnd(t, IF t[n] = "\\" THEN n + 2 ELSE n + 1)

RECURSIVE Unescape(_)
Unescape(s) ==
  LET Then(c, n) == LET r == Unescape(SubSeq(s, n + 1, Len(s)))
                    IN  [r EXCEPT !.val = <<c>> \o @]
  IN  IF s = <<>> THEN [ok |-> TRUE, val |-> <<>>]
      ELSE IF s[1] # "\\" THEN Then(s[1], 1)
      ELSE IF s[2] \in DOMAIN Escapes THEN Then(Escapes[s[2]], 2)
      ELSE [ok |-> FALSE, val |-> <<>>]

\* The first byte is read with no look at the end of the buffer.
ParseString(b, i) ==
  LET end == StringEnd(b.text, b.off + 2)
      r   == Unescape(SubSeq(b.text, b.off + 2, end - 1))
  IN  IF Ended(b) THEN Fail([b EXCEPT !.over = TRUE])
      ELSE IF ~Sees(b, {"\""}) \/ end = 0 \/ ~r.ok THEN Fail(Step(b, 1))
      ELSE [Typed(b, i, "string", r.val) EXCEPT !.off = end]

\* What strtod takes of the digits, signs, points and e's that follow.
ParseNumber(b, i) ==
  LET copied == Digits \cup {"+", "-", "e", "."}
      end    == Max({n \in b.off..Len(b.text) : \A m \in (b.off + 1)..n : b.text[m] \in copied})
      taken  == {n \in (b.off + 1)..end : IsDecimal(SubSeq(b.text, b.off + 1, n))}
      number == SubSeq(b.text, b.off + 1, Max(taken))
  IN  IF taken = {} THEN Fail(b)
      ELSE [Typed(b, i, "number", StrToD(number)) EXCEPT !.off = Max(taken)]

\* A list that fails takes its items with it.
Drop(b, head) == Fail([b EXCEPT !.heap = IF head = Null THEN @ ELSE Delete(@, head)])

Close(b, i, kind, head, last) ==
  LET h == IF head = Null THEN b.heap ELSE Put(b.heap, head, "prev", last)
  IN  Typed([Step(b, 1) EXCEPT !.depth = @ - 1, !.heap = Put(h, i, "child", head)], i, kind, <<>>)

RECURSIVE ParseValue(_, _), ParseList(_, _, _, _, _)

\* Member, if nothing asked whether a byte follows the comma.
MemberUnguarded(b, i) ==
  LET name  == ParseString(Skip(Step(b, 1)), i)
      h     == name.heap
      named == [Skip(name) EXCEPT !.heap = Put(Put(h, i, "key", h[i].val), i, "val", <<>>)]
  IN  IF ~name.ok THEN name
      ELSE IF ~Sees(named, {":"}) THEN Fail(named)
      ELSE ParseValue(Skip(Step(named, 1)), i)

Member(b, i) ==
  LET name  == ParseString(Skip(Step(b, 1)), i)
      h     == name.heap
      named == [Skip(name) EXCEPT !.heap = Put(Put(h, i, "key", h[i].val), i, "val", <<>>)]
  IN  IF b.off + 1 >= Len(b.text) THEN Fail(b)
      ELSE IF ~name.ok THEN name
      ELSE IF ~Sees(named, {":"}) THEN Fail(named)
      ELSE ParseValue(Skip(Step(named, 1)), i)

\* b is in front of an element: at the bracket or the comma before it.
ParseList(b, i, kind, head, last) ==
  LET n     == New(b.heap)
      made  == Made(b.heap, n, "invalid", NoKey, <<>>)
      first == IF head = Null THEN n ELSE head
      at    == [b EXCEPT !.heap = IF head = Null THEN made ELSE Suffix(made, last, n)]
      value == IF kind = "object" THEN Member(at, n) ELSE ParseValue(Skip(Step(at, 1)), n)
      after == Skip(value)
  IN  IF n = Null THEN Drop(b, head)
      ELSE IF ~value.ok THEN Drop(value, first)
      ELSE IF Sees(after, {","}) THEN ParseList(after, i, kind, first, n)
      ELSE IF Sees(after, {IF kind = "object" THEN "}" ELSE "]"}) THEN Close(after, i, kind, first, n)
      ELSE Drop(after, first)

ParseContainer(b, i, kind, closing) ==
  LET open == Skip(Step([b EXCEPT !.depth = @ + 1], 1)) IN
  IF b.depth >= NestingLimit THEN Fail(b)
  ELSE IF Sees(open, {closing}) THEN Close(open, i, kind, Null, Null)
  ELSE IF Ended(open) THEN Fail(Step(open, -1))
  ELSE ParseList(Step(open, -1), i, kind, Null, Null)

ParseValue(b, i) ==
  CASE Sees(b, {"null"})   -> Typed(Step(b, 1), i, "null", <<"null">>)
    [] Sees(b, {"\""})     -> ParseString(b, i)
    [] Sees(b, Digits \cup {"-"}) -> ParseNumber(b, i)
    [] Sees(b, {"["})      -> ParseContainer(b, i, "array", "]")
    [] Sees(b, {"{"})      -> ParseContainer(b, i, "object", "}")
    [] OTHER               -> Fail(b)

\* cJSON_ParseWithLengthOpts; the item is Null if the text is refused, and
\* then off is where the error is said to be.
Parse(t, h, terminated) ==
  LET i == New(h)
      AtEnd(b) == IF terminated /\ b.ok THEN Skip(b) ELSE b
      Result(b) ==
        IF b.ok /\ (terminated => Sees(b, {"NUL"}))
        THEN [item |-> i, off |-> b.off, over |-> b.over, heap |-> b.heap]
        ELSE [item |-> Null, off |-> Min({b.off, Len(t) - 1}), over |-> b.over,
              heap |-> Delete(b.heap, i)]
  IN  IF t = <<>> \/ i = Null THEN [item |-> Null, off |-> 0, over |-> FALSE, heap |-> h]
      ELSE Result(AtEnd(ParseValue(Skip(SkipBom(Start(t, Made(h, i, "invalid", NoKey, <<>>)))), i)))
------------------------------------------------------------------------------
(* The printer.  p is the printbuffer; "?" was never written.  It grows as *)
(* often as realloc works: a buffer of the caller's, never.  Once a call   *)
(* has failed, the calls around it return at once.                         *)

Buffer(n, grows, format) ==
  [buf |-> [k \in 1..n |-> "?"], off |-> 0, depth |-> 0, grows |-> grows,
   format |-> format, ok |-> TRUE, over |-> FALSE]

Ensure(p, needed) ==
  LET want == needed + p.off + 1
      size == IF want > IntMax \div 2 THEN IntMax ELSE 2 * want
  IN  IF ~p.ok \/ want <= Len(p.buf) THEN p
      ELSE IF \/ Len(p.buf) > 0 /\ p.off >= Len(p.buf)
              \/ p.grows = 0 \/ want > IntMax
           THEN [p EXCEPT !.ok = FALSE]
      ELSE [p EXCEPT !.grows = @ - 1,
                     !.buf = [n \in 1..size |-> IF n <= Len(@) THEN @[n] ELSE "?"]]

\* s is written where the buffer stands, which then moves on.
Write(p, needed, s, advance) ==
  LET e == Ensure(p, needed) IN
  IF ~e.ok THEN e
  ELSE [e EXCEPT !.off = @ + advance,
                 !.over = @ \/ e.off + Len(s) > Len(e.buf),
                 !.buf = [n \in DOMAIN @ |-> IF n - e.off \in DOMAIN s THEN s[n - e.off] ELSE @[n]]]

\* update_offset: strlen from the offset.
Update(p) ==
  LET ends == {n \in (p.off + 1)..Len(p.buf) : p.buf[n] = "NUL"} IN
  IF ~p.ok THEN p
  ELSE IF ends = {} THEN [p EXCEPT !.over = TRUE]
  ELSE [p EXCEPT !.off = Min(ends) - 1]

Escape(c) ==
  CASE c = "\n" -> <<"\\", "n">>
    [] c = "\t" -> <<"\\", "t">>
    [] c \in {"\"", "\\"} -> <<"\\", c>>
    [] c = "^A" -> <<"\\", "u", "0", "0", "0", "1">>
    [] OTHER -> <<c>>

\* EscapeCharacters, if every escape were one character more.
OneEach(c) == IF Len(Escape(c)) > 1 THEN 1 ELSE 0

EscapeCharacters(c) == IF c \in {"\n", "\t", "\"", "\\"} THEN 1 ELSE IF c = "^A" THEN 5 ELSE 0

PrintString(p, s) ==
  LET escaped == FlattenSeq([n \in DOMAIN s |-> Escape(s[n])])
      length  == Len(s) + FoldSeq(LAMBDA c, sum : EscapeCharacters(c) + sum, 0, s)
  IN  Write(p, length + 3, <<"\"">> \o escaped \o <<"\"", "NUL">>, 0)

PrintKey(p, key) ==
  IF key = NoKey THEN Write(p, 3, <<"\"", "\"", "NUL">>, 0) ELSE PrintString(p, key)

\* -0 is an int that is equal to it, and printed as one.
PrintNumber(p, v) ==
  LET s == CASE IsInfinite(v) -> <<"null">>
             [] v = Zero -> <<"0">>
             [] OTHER -> General(v)
  IN  Write(p, Len(s) + 1, Append(s, "NUL"), Len(s))

Tabs(n) == [m \in 1..n |-> "\t"]
If(yes, s) == IF yes THEN s ELSE <<>>

RECURSIVE PrintValue(_, _, _)

Element(p, h, i) ==
  LET value == Update(PrintValue(p, h, i))
      comma == <<",">> \o If(p.format, <<" ">>)
  IN  IF h[i].next = Null THEN value
      ELSE Write(value, Len(comma) + 1, Append(comma, "NUL"), Len(comma))

PrintArray(p, h, i) ==
  LET Each(q, c) == Element(q, h, c)
      open == [Write(p, 1, <<"[">>, 1) EXCEPT !.depth = @ + 1]
      all  == FoldLeft(Each, open, Children(h, i))
  IN  [Write(all, 2, <<"]", "NUL">>, 0) EXCEPT !.depth = @ - 1]

Pair(p, h, i) ==
  LET in    == IF p.format THEN Write(p, p.depth, Tabs(p.depth), p.depth) ELSE p
      colon == <<":">> \o If(p.format, <<"\t">>)
      key   == Write(Update(PrintKey(in, h[i].key)), Len(colon), colon, Len(colon))
      end   == If(h[i].next # Null, <<",">>) \o If(p.format, <<"\n">>)
  IN  Write(Update(PrintValue(key, h, i)), Len(end) + 1, Append(end, "NUL"), Len(end))

PrintObject(p, h, i) ==
  LET Each(q, c) == Pair(q, h, c)
      brace == <<"{">> \o If(p.format, <<"\n">>)
      open  == [Write(p, Len(brace) + 1, brace, Len(brace)) EXCEPT !.depth = @ + 1]
      all   == FoldLeft(Each, open, Children(h, i))
      end   == If(p.format, Tabs(all.depth - 1)) \o <<"}", "NUL">>
  IN  [Write(all, Len(end), end, 0) EXCEPT !.depth = @ - 1]

PrintValue(p, h, i) ==
  CASE h[i].kind = "string" -> PrintString(p, h[i].val)
    [] h[i].kind = "number" -> PrintNumber(p, h[i].val)
    [] h[i].kind = "array"  -> PrintArray(p, h, i)
    [] h[i].kind = "object" -> PrintObject(p, h, i)
    [] h[i].kind = "null"   -> Write(p, 2, <<"null", "NUL">>, 0)
    [] OTHER                -> [p EXCEPT !.ok = FALSE]

\* The text of a buffer that was printed to; print reallocates it to this.
Text(p) == SubSeq(p.buf, 1, Update([p EXCEPT !.off = 0]).off)

PrintInto(h, i, size, grows, format) == Update(PrintValue(Buffer(size, grows, format), h, i))
==============================================================================
