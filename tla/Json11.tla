-------------------------------- MODULE Json11 --------------------------------
(***************************************************************************)
(* The JSON library that NodeE parses its messages with: JsonParser and    *)
(* the accessors of json11.cpp.  The texts that Json::parse gets are read  *)
(* under JsonParse::STANDARD, without comments.                            *)
(*                                                                         *)
(* A text is a sequence of characters.  One character stands for a run of  *)
(* them where the parser cannot stop in between with another outcome: the  *)
(* words true, false and null, and the four digits of a \u escape, which   *)
(* are a leading or a trailing surrogate, a control character, or another. *)
(***************************************************************************)
EXTENDS Integers, Sequences, SequencesExt

CONSTANT max_depth    \* of nesting (json11.cpp: 200)

ASSUME DepthAssumption == max_depth \in Nat

Digits == {"0", "1", "2", "3", "4", "5", "6", "7", "8", "9"}
Whitespace == {" ", "newline"}
Controls == {"newline", "control"}   \* 0x00 to 0x1f
Codepoints == {"lead", "trail", "control", "other"}
Keywords == {"true", "false", "null"}

\* The letter behind a backslash, and the character it stands for.
Escapes == [n |-> "newline", quote |-> "quote", backslash |-> "backslash"]

\* str[i], with the NUL that ends a std::string.
Char(s, i) == IF i \in 1..Len(s) THEN s[i] ELSE "NUL"

-----------------------------------------------------------------------------
(* Values                                                                  *)

Null == [null |-> TRUE]
Bool(b) == [bool |-> b]
String(chars) == [string |-> chars]
Array(values) == [array |-> values]
Object(members) == [object |-> members]

\* A number is mantissa * 10^exponent, its mantissa not divisible by 10.
RECURSIVE Number(_, _)
Number(mantissa, exponent) ==
  IF mantissa = 0 THEN [number |-> <<0, 0>>]
  ELSE IF mantissa % 10 = 0 THEN Number(mantissa \div 10, exponent + 1)
  ELSE [number |-> <<mantissa, exponent>>]

\* Json::int_value: the conversion of a double to int cuts off the fraction.
int_value(v) ==
  IF "number" \notin DOMAIN v THEN 0
  ELSE LET m == v.number[1]  e == v.number[2]
       IN  IF e >= 0 THEN m * 10^e ELSE IF m >= 0 THEN m \div 10^(-e) ELSE -((-m) \div 10^(-e))

string_value(v) == IF "string" \in DOMAIN v THEN v.string ELSE <<>>

\* Json::operator[]
Member(v, key) ==
  IF "object" \in DOMAIN v /\ key \in DOMAIN v.object THEN v.object[key] ELSE Null

-----------------------------------------------------------------------------
(* JsonParser.  A function of the parser takes a position and returns what *)
(* it has parsed and the position behind it, or Failed.                    *)

Failed == [next |-> 0]
Parsed(v, i) == [value |-> v, next |-> i]

\* The first place from i on that is not in a class of characters.
RECURSIVE Skip(_, _, _)
Skip(s, i, class) == IF Char(s, i) \in class THEN Skip(s, i + 1, class) ELSE i

consume_whitespace(s, i) == Skip(s, i, Whitespace)

\* An escaped code point that may turn out to be half of a pair is held back until the
\* next character of the string has been read.
NoCodepoint == "none"

\* Faulty: a surrogate that is not part of a pair is left out.
encode_utf8_strict(pt) == IF pt \in {NoCodepoint, "lead", "trail"} THEN <<>> ELSE <<pt>>

encode_utf8(pt) == IF pt = NoCodepoint THEN <<>> ELSE <<pt>>

RECURSIVE parse_string(_, _, _, _)
parse_string(s, i, out, last) ==
  LET ch == Char(s, i)
      escaped == Char(s, i + 1)
      codepoint == Char(s, i + 2)
      flushed == out \o encode_utf8(last)
  IN  IF ch = "quote" THEN Parsed(flushed, i + 1)
      ELSE IF ch \in Controls \union {"NUL"} THEN Failed
      ELSE IF ch # "backslash" THEN parse_string(s, i + 1, Append(flushed, ch), NoCodepoint)
      ELSE IF escaped = "u" /\ codepoint \in Codepoints THEN
        IF last = "lead" /\ codepoint = "trail"
        THEN parse_string(s, i + 3, Append(out, "astral"), NoCodepoint)
        ELSE parse_string(s, i + 3, flushed, codepoint)
      ELSE IF escaped \in DOMAIN Escapes
      THEN parse_string(s, i + 2, Append(flushed, Escapes[escaped]), NoCodepoint)
      ELSE Failed

DigitValue(c) == CHOOSE d \in 0..9 : c = <<"0", "1", "2", "3", "4", "5", "6", "7", "8", "9">>[d + 1]

\* atoi of a sequence of digits.
ValueOf(digits) == FoldLeft(LAMBDA sum, c : 10 * sum + DigitValue(c), 0, digits)

parse_number(s, i) ==
  LET unsigned == IF Char(s, i) = "-" THEN i + 1 ELSE i
      point == Skip(s, unsigned, Digits)
      hasFraction == Char(s, point) = "."
      mark == IF hasFraction THEN Skip(s, point + 1, Digits) ELSE point
      hasExponent == Char(s, mark) = "e"
      power == IF Char(s, mark + 1) \in {"+", "-"} THEN mark + 2 ELSE mark + 1
      end == IF hasExponent THEN Skip(s, power, Digits) ELSE mark
      mantissa == ValueOf(SubSeq(s, unsigned, point - 1) \o SubSeq(s, point + 1, mark - 1))
      exponent == IF hasExponent THEN ValueOf(SubSeq(s, power, end - 1)) ELSE 0
  IN  IF \/ point = unsigned
         \/ Char(s, unsigned) = "0" /\ point # unsigned + 1
         \/ hasFraction /\ mark = point + 1
         \/ hasExponent /\ end = power
      THEN Failed
      ELSE Parsed(Number(IF unsigned = i THEN mantissa ELSE -mantissa,
                         (IF Char(s, mark + 1) = "-" THEN -exponent ELSE exponent)
                           - (IF hasFraction THEN mark - point - 1 ELSE 0)),
                  end)

\* expect("true", true) and so on.
expect(word) ==
  CASE word = "true" -> Bool(TRUE) [] word = "false" -> Bool(FALSE) [] word = "null" -> Null

\* parse_json(depth), and the loops of its two nested cases, which are entered in front
\* of a member or an element.
RECURSIVE parse_json(_, _, _), ParseMembers(_, _, _, _), ParseElements(_, _, _, _)

parse_json(s, i, depth) ==
  LET at == consume_whitespace(s, i)
      ch == Char(s, at)
      second == consume_whitespace(s, at + 1)
      str == parse_string(s, at + 1, <<>>, NoCodepoint)
  IN  IF depth > max_depth THEN Failed
      ELSE IF ch \in Digits \union {"-"} THEN parse_number(s, at)
      ELSE IF ch \in Keywords THEN Parsed(expect(ch), at + 1)
      ELSE IF ch = "quote"
      THEN IF str = Failed THEN Failed ELSE Parsed(String(str.value), str.next)
      ELSE IF ch = "{"
      THEN IF Char(s, second) = "}" THEN Parsed(Object(<<>>), second + 1)
           ELSE ParseMembers(s, second, depth, <<>>)
      ELSE IF ch = "["
      THEN IF Char(s, second) = "]" THEN Parsed(Array(<<>>), second + 1)
           ELSE ParseElements(s, second, depth, <<>>)
      ELSE Failed

ParseMembers(s, i, depth, data) ==
  LET key == IF Char(s, i) = "quote" THEN parse_string(s, i + 1, <<>>, NoCodepoint) ELSE Failed
      colon == consume_whitespace(s, key.next)
      member == IF key # Failed /\ Char(s, colon) = ":" THEN parse_json(s, colon + 1, depth + 1)
                ELSE Failed
      after == consume_whitespace(s, member.next)
      extended == [k \in DOMAIN data \union {key.value} |->
                     IF k = key.value THEN member.value ELSE data[k]]
  IN  IF member = Failed THEN Failed
      ELSE IF Char(s, after) = "}" THEN Parsed(Object(extended), after + 1)
      ELSE IF Char(s, after) = ","
      THEN ParseMembers(s, consume_whitespace(s, after + 1), depth, extended)
      ELSE Failed

ParseElements(s, i, depth, data) ==
  LET element == parse_json(s, i, depth + 1)
      after == consume_whitespace(s, element.next)
  IN  IF element = Failed THEN Failed
      ELSE IF Char(s, after) = "]" THEN Parsed(Array(Append(data, element.value)), after + 1)
      ELSE IF Char(s, after) = ","
      THEN ParseElements(s, consume_whitespace(s, after + 1), depth, Append(data, element.value))
      ELSE Failed

\* Faulty: what follows the value is not looked at.
parse_front(s) ==
  LET result == parse_json(s, 1, 0)
  IN  IF result = Failed THEN Failed ELSE Parsed(result.value, Len(s) + 1)

\* Json::parse, which returns null if it fails.
parse(s) ==
  LET result == parse_json(s, 1, 0)
      end == consume_whitespace(s, result.next)
  IN  IF result = Failed THEN Failed
      ELSE IF end # Len(s) + 1 THEN Failed
      ELSE Parsed(result.value, end)

-----------------------------------------------------------------------------
(* Numbers in decimal digits, as a token is written                        *)

\* The digits of a number as the streams of the standard library write them.
RECURSIVE DigitsOf(_)
DigitsOf(k) ==
  LET last == <<"0", "1", "2", "3", "4", "5", "6", "7", "8", "9">>[(k % 10) + 1]
  IN  IF k < 10 THEN <<last>> ELSE Append(DigitsOf(k \div 10), last)

Decimal(k) == IF k < 0 THEN <<"-">> \o DigitsOf(-k) ELSE DigitsOf(k)

=============================================================================
