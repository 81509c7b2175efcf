--------------------------- MODULE InstructionToken ---------------------------
(***************************************************************************)
(* The class InstructionToken and its way over a TCP connection: a peer    *)
(* writes tokens as dump prints them, the node makes a token of whatever   *)
(* one read returns.  Names of fields, interfaces and calls are one        *)
(* character each, a payload is spelled out in hexadecimal digits.         *)
(***************************************************************************)
EXTENDS JsonGrammar

CONSTANTS
  Tokens,       \* the tokens that may be sent
  MaxMessages,  \* bound: messages on one connection
  Noises        \* texts that no token printed, to try the parser on: a beginning, what
                \* may be appended to it, and how often

ASSUME MessagesAssumption == MaxMessages \in Nat

VARIABLES
  wire,   \* what was written and not read yet
  sent,   \* history: the tokens written
  text,   \* the buffer, if a token was made of it
  token,  \* that token
  noise   \* the noise on this wire, with the number of pieces that may follow, or Quiet

vars == <<wire, sent, text, token, noise>>

None == <<>>
Quiet == <<>>

-----------------------------------------------------------------------------
(* Bytes and hexadecimal digits                                            *)

HexDigits == <<"0", "1", "2", "3", "4", "5", "6", "7", "8", "9", "a", "b", "c", "d", "e", "f">>

\* Faulty: no leading zero.
UnpaddedByte(b) ==
  IF b < 16 THEN <<HexDigits[b + 1]>> ELSE <<HexDigits[(b \div 16) + 1], HexDigits[(b % 16) + 1]>>

\* std::hex, std::setw(2), std::setfill('0')
HexByte(b) == <<HexDigits[(b \div 16) + 1], HexDigits[(b % 16) + 1]>>

byteStreamToHexString(bytes) == FlattenSeq([k \in DOMAIN bytes |-> HexByte(bytes[k])])

\* strtoul(..., 16) of two digits.
hexStringToByteStream(hex) ==
  LET value(c) == (CHOOSE d \in DOMAIN HexDigits : HexDigits[d] = c) - 1
  IN  [k \in 1..(Len(hex) \div 2) |-> 16 * value(hex[2 * k - 1]) + value(hex[2 * k])]

-----------------------------------------------------------------------------
(* The three constructors, and dump                                        *)

IntFields == {"sender_id", "task_id", "payload_total_fragments", "payload_frag_number",
              "payload_size"}
TextFields == {"interface_type", "api_call"}

\* From values and a payload in hexadecimal digits, of which there is an even number.
WithHex(values, hex) ==
  values @@ [payload_content |-> hex, bytes |-> hexStringToByteStream(hex),
             payload_byte_length |-> Len(hex) \div 2]

\* From values and a payload in bytes.
WithBytes(values, bytes) ==
  values @@ [payload_content |-> byteStreamToHexString(bytes), bytes |-> bytes,
             payload_byte_length |-> Len(bytes)]

\* From the text of a message.  A text that does not parse is null, which has no members,
\* and a member that is not there is null again.
FromText(s) ==
  LET parsed == parse(s)
      test_obj == IF parsed = Failed THEN Null ELSE parsed.value
      field(f) == Member(test_obj, <<f>>)
  IN  WithHex([f \in IntFields \union TextFields |->
                 IF f \in IntFields THEN int_value(field(f)) ELSE string_value(field(f))],
              string_value(field("payload_content")))

\* The token of a text that does not parse.
Unparsed ==
  WithHex([f \in IntFields \union TextFields |-> IF f \in IntFields THEN 0 ELSE <<>>], <<>>)

\* Nothing is escaped.
dump_token(t) ==
  LET name(f) == <<"quote", f, "quote", ":">>
      int(f) == name(f) \o Decimal(t[f])
      str(f) == name(f) \o <<"quote">> \o t[f] \o <<"quote">>
      comma == <<",">>
  IN  <<"{">> \o int("sender_id") \o comma \o int("task_id") \o comma
        \o str("interface_type") \o comma \o str("api_call") \o comma
        \o int("payload_total_fragments") \o comma \o int("payload_frag_number") \o comma
        \o int("payload_size") \o comma \o str("payload_content") \o <<"}", "newline">>

-----------------------------------------------------------------------------

Init ==
  /\ sent = <<>>
  /\ text = None
  /\ token = None
  /\ \/ noise = Quiet /\ wire = <<>>
     \/ noise \in Noises /\ wire = noise.begin

\* write(sock, token.dump()), by the node that is the peer of this one.
Write(t) ==
  /\ noise = Quiet
  /\ Len(sent) < MaxMessages
  /\ wire' = wire \o dump_token(t)
  /\ sent' = Append(sent, t)
  /\ UNCHANGED <<text, token, noise>>

\* read returns the next k characters, and a token is made of them unless they begin
\* with a newline.
Read(k) ==
  LET buffer == SubSeq(wire, 1, k)
  IN  /\ noise = Quiet /\ token = None
      /\ wire' = SubSeq(wire, k + 1, Len(wire))
      /\ \/ /\ buffer[1] = "newline"
            /\ UNCHANGED <<text, token>>
         \/ /\ buffer[1] # "newline"
            /\ text' = buffer
            /\ token' = FromText(buffer)
      /\ UNCHANGED <<sent, noise>>

\* incoming->push_back(temp), and delete[] buffer.
Push ==
  /\ token # None
  /\ text' = None
  /\ token' = None
  /\ UNCHANGED <<wire, sent, noise>>

\* A text that is not a message grows.
Disturb(piece) ==
  /\ noise.count > 0
  /\ wire' = wire \o piece
  /\ noise' = [noise EXCEPT !.count = @ - 1]
  /\ UNCHANGED <<sent, text, token>>

Next ==
  \/ \E t \in Tokens : Write(t)
  \/ \E k \in 1..Len(wire) : Read(k)
  \/ Push
  \/ noise # Quiet /\ \E piece \in noise.pieces : Disturb(piece)

Spec == Init /\ [][Next]_vars

-----------------------------------------------------------------------------
(* Properties                                                              *)

\* Wherever a stream is cut and joined, a token is a whole message or nothing: the text
\* of one message, with or without the newline behind it, gives back the token that was
\* sent, in every field and in every byte of the payload; any other piece of the stream,
\* even one that is JSON by itself, such as the digits of a payload, gives the token
\* without a call.  NodeE takes this for granted.
ReadsAreAllOrNothing ==
  token # None =>
    LET messages == {i \in DOMAIN sent : LET written == dump_token(sent[i])
                                             IN  text \in {written, Front(written)}}
    IN  IF messages = {} THEN token = Unparsed ELSE \A i \in messages : token = sent[i]

\* The parser accepts a text if and only if it is JSON, and returns what it means:
\* nothing is accepted in part, no whitespace, nesting, escape or pair of surrogates is
\* lost, a name that occurs twice has the second value.
ParseMatchesGrammar ==
  noise # Quiet =>
    LET meaning == Meaning(wire, max_depth)
    IN  parse(wire) = IF meaning = NoMeaning THEN Failed ELSE Parsed(meaning, Len(wire) + 1)

=============================================================================
