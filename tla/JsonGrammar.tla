----------------------------- MODULE JsonGrammar -----------------------------
(***************************************************************************)
(* What a text means as JSON, said by how texts are put together and not   *)
(* by how they are read: the reference for the parser of Json11.           *)
(***************************************************************************)
EXTENDS Json11

NoMeaning == [next |-> 0]

\* The pieces of a text that is cut in front of some places.
Pieces(s, places) ==
  LET starts == places \union {1}
      start(k) == CHOOSE i \in starts : Cardinality({j \in starts : j < i}) = k - 1
      end(k) == IF k = Cardinality(starts) THEN Len(s) ELSE start(k + 1) - 1
  IN  [k \in 1..Cardinality(starts) |-> SubSeq(s, start(k), end(k))]

\* The text without the whitespace around it.
Trim(s) ==
  LET inked == {i \in DOMAIN s : s[i] \notin Whitespace}
  IN  IF inked = {} THEN <<>>
      ELSE LET first == CHOOSE i \in inked : \A j \in 1..(i - 1) : j \notin inked
               last == CHOOSE i \in inked : \A j \in (i + 1)..Len(s) : j \notin inked
           IN  SubSeq(s, first, last)

\* A string is a row of signs between quotes: characters, escapes and code points.
IsSign(p) ==
  \/ Len(p) = 1 /\ p[1] \notin {"quote", "backslash"} \union Controls
  \/ Len(p) = 2 /\ p[1] = "backslash" /\ p[2] \in DOMAIN Escapes
  \/ Len(p) = 3 /\ p[1] = "backslash" /\ p[2] = "u" /\ p[3] \in Codepoints

IsCodepoint(p, c) == p = <<"backslash", "u", c>>

\* The meaning of a row of signs: a leading surrogate and the trailing one behind it are
\* one character.
Spelled(signs) ==
  LET pair(k) == /\ k \in 1..(Len(signs) - 1)
                 /\ IsCodepoint(signs[k], "lead") /\ IsCodepoint(signs[k + 1], "trail")
      meaning(k) == IF pair(k) THEN <<"astral">>
                    ELSE IF pair(k - 1) THEN <<>>
                    ELSE IF Len(signs[k]) = 2 THEN <<Escapes[signs[k][2]]>>
                    ELSE <<Last(signs[k])>>
  IN  FlattenSeq([k \in DOMAIN signs |-> meaning(k)])

\* The rows of signs that a text can be taken for.
RECURSIVE Rows(_)
Rows(body) ==
  LET before(k) == SubSeq(body, 1, Len(body) - k)
      sign(k) == SubSeq(body, Len(body) - k + 1, Len(body))
  IN  IF body = <<>> THEN {<<>>}
      ELSE UNION {{Append(row, sign(k)) : row \in Rows(before(k))} :
                    k \in {j \in 1..Len(body) : IsSign(sign(j))}}

IsQuoted(s) == Len(s) >= 2 /\ Head(s) = "quote" /\ Last(s) = "quote"

StringMeaning(s) ==
  LET rows == Rows(SubSeq(s, 2, Len(s) - 1))
  IN  IF ~IsQuoted(s) \/ rows = {} THEN NoMeaning
      ELSE String(Spelled(CHOOSE row \in rows : TRUE))

\* A number: an integer, then perhaps a fraction, then perhaps an exponent.
AllDigits(s) == s # <<>> /\ \A i \in DOMAIN s : s[i] \in Digits
IsInteger(s) == AllDigits(s) /\ (s[1] = "0" => Len(s) = 1)
IsFraction(s) == s = <<>> \/ (s[1] = "." /\ AllDigits(Tail(s)))
Signed(s) == IF s # <<>> /\ s[1] \in {"+", "-"} THEN Tail(s) ELSE s
IsExponent(s) == s = <<>> \/ (s[1] = "e" /\ AllDigits(Signed(Tail(s))))

NumberMeaning(s) ==
  LET minus == s # <<>> /\ s[1] = "-"
      body == IF minus THEN Tail(s) ELSE s
      part(a, b) == SubSeq(body, a + 1, b)
      readings == {r \in (0..Len(body)) \X (0..Len(body)) :
                     /\ r[1] <= r[2]
                     /\ IsInteger(part(0, r[1]))
                     /\ IsFraction(part(r[1], r[2]))
                     /\ IsExponent(part(r[2], Len(body)))}
  IN  IF readings = {} THEN NoMeaning
      ELSE LET r == CHOOSE x \in readings : TRUE
               fraction == IF r[1] = r[2] THEN <<>> ELSE part(r[1] + 1, r[2])
               m == ValueOf(part(0, r[1]) \o fraction)
               written == part(r[2] + 1, Len(body))
               e == IF written = <<>> THEN 0
                    ELSE IF written[1] = "-" THEN -ValueOf(Tail(written))
                    ELSE ValueOf(Signed(written))
           IN  Number(IF minus THEN -m ELSE m, e - Len(fraction))

\* The ways to cut the inside of brackets at some of its commas.
Lists(inside) ==
  {Pieces(inside, {i + 1 : i \in commas}) :
     commas \in SUBSET {i \in DOMAIN inside : inside[i] = ","}}

\* A piece that ends with the comma it was cut at, without the comma.
Item(pieces, k) == IF k = Len(pieces) THEN pieces[k] ELSE Front(pieces[k])

RECURSIVE Meaning(_, _)

\* "name" : value
MemberMeanings(s, depth) ==
  {<<StringMeaning(Trim(SubSeq(s, 1, c - 1))), Meaning(SubSeq(s, c + 1, Len(s)), depth)>> :
     c \in {i \in DOMAIN s : s[i] = ":"}}

\* The meaning of a text as a value with at most depth levels inside it.
Meaning(text, depth) ==
  LET s == Trim(text)
      inside == SubSeq(s, 2, Len(s) - 1)
      between(open, close) == Len(s) >= 2 /\ Head(s) = open /\ Last(s) = close
      arrays == {l \in Lists(inside) :
                   \A k \in DOMAIN l : Meaning(Item(l, k), depth - 1) # NoMeaning}
      member(l, k) == {m \in MemberMeanings(Item(l, k), depth - 1) :
                         m[1] # NoMeaning /\ m[2] # NoMeaning}
      objects == {l \in Lists(inside) : \A k \in DOMAIN l : member(l, k) # {}}
  IN  IF depth < 0 \/ s = <<>> THEN NoMeaning
      ELSE IF Len(s) = 1 /\ s[1] \in Keywords
      THEN CASE s[1] = "true" -> Bool(TRUE) [] s[1] = "false" -> Bool(FALSE)
             [] s[1] = "null" -> Null
      ELSE IF between("[", "]") THEN
        IF Trim(inside) = <<>> THEN Array(<<>>)
        ELSE IF arrays = {} THEN NoMeaning
        ELSE LET l == CHOOSE x \in arrays : TRUE
             IN  Array([k \in DOMAIN l |-> Meaning(Item(l, k), depth - 1)])
      ELSE IF between("{", "}") THEN
        IF Trim(inside) = <<>> THEN Object(<<>>)
        ELSE IF objects = {} THEN NoMeaning
        ELSE LET l == CHOOSE x \in objects : TRUE
                 members == [k \in DOMAIN l |-> CHOOSE m \in member(l, k) : TRUE]
                 names == {members[k][1].string : k \in DOMAIN l}
                 \* Of two members with one name the second counts.
                 at(name) == CHOOSE k \in DOMAIN l :
                               /\ members[k][1].string = name
                               /\ \A j \in DOMAIN l : members[j][1].string = name => j <= k
             IN  Object([name \in names |-> members[at(name)][2]])
      ELSE IF IsQuoted(s) THEN StringMeaning(s)
      ELSE NumberMeaning(s)

=============================================================================
