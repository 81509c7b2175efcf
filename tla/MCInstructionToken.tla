-------------------------- MODULE MCInstructionToken --------------------------
(***************************************************************************)
(* Instances of InstructionToken for TLC.                                  *)
(***************************************************************************)
EXTENDS InstructionToken

Values(sender, call, size) ==
  [sender_id |-> sender, task_id |-> 0, interface_type |-> <<"T1">>, api_call |-> <<call>>,
   payload_total_fragments |-> 1, payload_frag_number |-> 0, payload_size |-> size]

\* The tokens of a handshake and of an encryption, with payloads that begin and end with
\* a zero, that are numbers in themselves, and that are empty.
SomeTokens == {
  WithHex(Values(3, "HS_COMPLETE", 1), <<>>),
  WithBytes(Values(0, "SET_SEED", 2), <<16, 3>>),
  WithBytes(Values(2147483647, "ENCRYPT", 12), <<7, 30, 160>>)}

Quote == "quote"
Key(k) == <<Quote, k, Quote>>
Noise(begin, pieces, count) == [begin |-> begin, pieces |-> pieces, count |-> count]
Each(chars) == {<<c>> : c \in chars}

SomeNoises == {
  \* objects and arrays
  Noise(<<>>, Each({"{", "}", ",", "[", "]", "0", " "}) \union {Key("k") \o <<":">>}, 4),
  \* members, one name twice
  Noise(<<"{">> \o Key("k") \o <<":">>,
        Each({"}", "0", "{", ","}) \union {Key("l") \o <<":">>, <<",">> \o Key("k") \o <<":">>}, 5),
  \* nested arrays
  Noise(<<"[">>, Each({"[", "]", ",", "null"}), 5),
  \* every character that has a meaning by itself
  Noise(<<>>, Each({"{", "}", "[", "]", ",", ":", Quote, "x", "1", "true", "backslash",
                     "newline"}), 3),
  \* strings
  Noise(<<Quote>>, Each({Quote, "n", "backslash", "newline"})
                     \union {<<"backslash", "u", c>> : c \in {"lead", "trail", "control"}}, 4),
  \* numbers
  Noise(<<>>, Each({"-", "0", "1", ".", "e", "+"}), 5),
  Noise(<<"1", ".">>, Each({"-", "0", "5", "e", "+"}), 4)}

=============================================================================
