---------------------------- MODULE CipherService ----------------------------
(***************************************************************************)
(* What a node promises to the Core Complex: whatever it is asked, it      *)
(* answers, one answer for each message, in the order of the messages, and *)
(* a text is enciphered under the seed the Core Complex set last.  There   *)
(* are no threads, queues or network here.                                 *)
(*                                                                         *)
(* The order is all the Core Complex has: a reply of Driver.cpp carries    *)
(* task_id 0, whatever the task_id of the message it answers.              *)
(***************************************************************************)
EXTENDS Naturals, Sequences

CONSTANTS Seeds,      \* values of the payload of SET_SEED
          Texts,      \* values of the payload of ENCRYPT and DECRYPT
          Window,     \* messages the Core Complex sends ahead of their answers
          MaxSent,    \* bound: messages the Core Complex sends
          None        \* no seed, no text

VARIABLES expected,   \* answers the Core Complex waits for, in order
          got,        \* the last answer it received
          key,        \* the seed it set last
          sent        \* number of messages it has sent

vars == <<expected, got, key, sent>>

Reply(api, text, seed) == [api |-> api, text |-> text, key |-> seed]
SendId == Reply("SEND_ID", None, None)
HsComplete == Reply("HS_COMPLETE", None, None)
CipherReplies == {"SEND_ENCRYPTED", "SEND_DECRYPTED"}

Init ==
  /\ expected = <<>>
  /\ got = None
  /\ key = None
  /\ sent = 0

Ask(answer) ==
  /\ sent < MaxSent
  /\ Len(expected) < Window
  /\ sent' = sent + 1
  /\ expected' = Append(expected, answer)

AskId == Ask(SendId) /\ UNCHANGED <<got, key>>

\* A new seed is set when every answer under the old one has been received.
AskSeed(s) ==
  /\ expected = <<>>
  /\ Ask(HsComplete)
  /\ key' = s
  /\ UNCHANGED got

AskCipher(api, text) ==
  /\ key # None
  /\ Ask(Reply(api, text, key))
  /\ UNCHANGED <<got, key>>

Answer ==
  /\ expected # <<>>
  /\ got' = Head(expected)
  /\ expected' = Tail(expected)
  /\ UNCHANGED <<key, sent>>

Next ==
  \/ AskId
  \/ \E s \in Seeds : AskSeed(s)
  \/ \E api \in CipherReplies, text \in Texts : AskCipher(api, text)
  \/ Answer

Spec == Init /\ [][Next]_vars /\ WF_vars(Answer)

=============================================================================
