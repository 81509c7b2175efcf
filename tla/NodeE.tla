-------------------------------- MODULE NodeE --------------------------------
(***************************************************************************)
(* The node program: main of Linux/NodeE-CPP/src/Driver.cpp and the two    *)
(* functions of ClientNetworking.cpp, which run as four threads:           *)
(*                                                                         *)
(*   main      starts the others, deletes the seed buffer, joins           *)
(*   incoming  ClientNetworking::producing: connect, read, parse, push     *)
(*   consumer  the lambda "consumer": the handshake and the cipher         *)
(*   outgoing  ClientNetworking::sending: poll, dump, write                *)
(*                                                                         *)
(* The threads are joined by two ConcurrentBlockingDeques, which are       *)
(* atomic queues here: BlockingDeque shows that the class implements that. *)
(* The Core Complex, the server the node connects to, is not in the        *)
(* repository; its actions are the protocol that Driver.cpp expects of it. *)
(*                                                                         *)
(* The cipher is a pair of a seed and a text: what the bytes of a reply    *)
(* depend on.  Which bytes they are is the subject of QPP and QPPHLS.      *)
(***************************************************************************)
EXTENDS Naturals, Sequences

CONSTANTS
  Seeds,          \* payloads of SET_SEED
  Texts,          \* payloads of ENCRYPT and DECRYPT
  None,           \* no payload, no seed
  Clobbered,      \* the seed buffer after free() has written its links in it
  Window,         \* messages the Core Complex sends ahead of their answers
  MaxSent,        \* bound: messages the Core Complex sends
  MaxBacklog,     \* bound: tokens in each deque when read() returns at once
  WholeMessages,  \* TRUE: a read() returns no more and no less than one message
  PromptMain,     \* TRUE: main reaches "delete[] seed" before the connection is up
  MayBreak        \* TRUE: the connection may fail, end or be reset

ASSUME PayloadAssumption ==
  /\ None \notin Seeds \union Texts
  /\ Clobbered \notin Seeds \union {None}

ASSUME BoundsAssumption ==
  /\ Window \in Nat \ {0}
  /\ MaxSent \in Nat
  /\ MaxBacklog \in Nat
  /\ {WholeMessages, PromptMain, MayBreak} \subseteq BOOLEAN

VARIABLES
  status,     \* the process: "running", "exited" by exit(-1), "killed" by SIGPIPE
  seedFreed,  \* main has executed delete[] seed
  seed,       \* contents of the buffer that the pointer "seed" designates
  qpp,        \* the seed *qpp was constructed with; None: qpp is uninitialized
  consumer,   \* where the consumer thread is
  acquired,   \* its local variable "acquired"
  buffer,     \* what the block last used as the buffer of producing parses to
  incoming,   \* incoming_buffer
  outgoing,   \* outgoing_buffer
  sending,    \* the token the outgoing thread has polled and not yet written
  link,       \* the connection: "down", "open", "closed" or "reset" by the peer
  toNode,     \* messages sent to the node and not yet read in full
  offset,     \* how much of Head(toNode) has been read
  fromNode,   \* replies written by the node and not yet received
  core,       \* the Core Complex: "idle", "awaitId", "giveSeed", "awaitHs", "ready"
  expected,   \* answers it waits for, in order
  got,        \* the last answer it received
  key,        \* the seed it sent last
  sent        \* number of messages it has sent

nodeVars == <<status, seedFreed, seed, qpp, consumer, acquired, sending>>
coreVars == <<core, expected, got, key, sent>>
netVars == <<link, toNode, offset, fromNode, buffer>>
vars == <<nodeVars, incoming, outgoing, netVars, coreVars>>

-----------------------------------------------------------------------------
(* InstructionToken: a message of the Core Complex, once parsed, and a     *)
(* reply of the node, reduced to the fields that Driver.cpp looks at.      *)

Token(api, payload) == [api |-> api, payload |-> payload]

\* json11 gives every field of a text it cannot parse its default value.
Unparsed == Token("", None)

CipherReply == [ENCRYPT |-> "SEND_ENCRYPTED", DECRYPT |-> "SEND_DECRYPTED"]

Messages ==
       {Token("REQUEST_HANDSHAKE", None)}
  \union {Token("SET_SEED", s) : s \in Seeds}
  \union {Token(api, text) : api \in DOMAIN CipherReply, text \in Texts}

Reply(api, text, k) == [api |-> api, text |-> text, key |-> k]
SendId == Reply("SEND_ID", None, None)
HsComplete == Reply("HS_COMPLETE", None, None)

Replies ==
  {SendId, HsComplete}
  \union {Reply(CipherReply[api], text, k) :
            api \in DOMAIN CipherReply, text \in Texts, k \in Seeds \union {Clobbered}}

ASSUME ReplyAssumption == None \notin Replies

\* The answer the Core Complex expects of message msg, if k is its last seed.
AnswerTo(msg, k) ==
  CASE msg.api = "REQUEST_HANDSHAKE" -> SendId
    [] msg.api = "SET_SEED" -> HsComplete
    [] OTHER -> Reply(CipherReply[msg.api], msg.payload, k)

Running == status = "running"

-----------------------------------------------------------------------------

Init ==
  /\ status = "running"
  /\ seedFreed = FALSE
  /\ seed = None
  /\ qpp = None
  /\ consumer = "poll"
  /\ acquired = Unparsed
  /\ buffer = Unparsed
  /\ incoming = <<>>
  /\ outgoing = <<>>
  /\ sending = <<>>
  /\ link = "down"
  /\ toNode = <<>>
  /\ offset = 0
  /\ fromNode = <<>>
  /\ core = "idle"
  /\ expected = <<>>
  /\ got = None
  /\ key = None
  /\ sent = 0

-----------------------------------------------------------------------------
(* main                                                                    *)

\* delete[] seed, while the consumer thread still uses the buffer: free() links
\* the block into a list, through words at the start of the block.  The model takes it
\* that the allocator never hands the block out again.
DeleteSeed ==
  /\ Running
  /\ ~seedFreed
  /\ seedFreed' = TRUE
  /\ seed' = Clobbered
  /\ UNCHANGED <<status, qpp, consumer, acquired, sending, incoming, outgoing,
                 netVars, coreVars>>

-----------------------------------------------------------------------------
(* The incoming thread                                                     *)

Connect ==
  /\ Running
  /\ link = "down"
  /\ PromptMain => seedFreed
  /\ link' = "open"
  /\ UNCHANGED <<nodeVars, incoming, outgoing, toNode, offset, fromNode, buffer, coreVars>>

\* connect returns -1: perror, exit(-1).
ConnectFails ==
  /\ Running
  /\ MayBreak
  /\ link = "down"
  /\ status' = "exited"
  /\ UNCHANGED <<seedFreed, seed, qpp, consumer, acquired, sending, incoming,
                 outgoing, netVars, coreVars>>

\* TCP is a stream of bytes, in which a message has three places where a read can
\* begin: the brace it opens with, some place inside the text, and its newline.
AtBrace == 0
AtText == 1
AtNewline == 2

\* The next read can return what is left of the first n messages and the part of
\* the following one that comes before place off.
Readable(n, off) ==
  /\ n = 0 => off > offset
  /\ n = Len(toNode) => off = AtBrace
  /\ WholeMessages => <<n, off>> \in {<<0, AtNewline>>, <<1, AtBrace>>}

\* InstructionToken(buffer): the buffer parses if it holds one message exactly,
\* with or without its newline.
Parse(n, off) ==
  IF offset = AtBrace /\ <<n, off>> \in {<<0, AtNewline>>, <<1, AtBrace>>}
  THEN Head(toNode)
  ELSE Unparsed

\* One turn of the loop of producing.  A buffer that begins with a newline is
\* dropped, whatever follows the newline.
Receive ==
  /\ Running
  /\ \E n \in 0..Len(toNode), off \in {AtBrace, AtText, AtNewline} :
       /\ Readable(n, off)
       /\ toNode' = SubSeq(toNode, n + 1, Len(toNode))
       /\ offset' = off
       /\ IF offset = AtNewline
          THEN UNCHANGED <<incoming, buffer>>
          ELSE /\ buffer' = Parse(n, off)
               /\ incoming' = Append(incoming, buffer')
  /\ UNCHANGED <<nodeVars, outgoing, link, fromNode, coreVars>>

\* Faulty: the loop of producing ends at the end of the stream.
StopReceiving ==
  /\ Running
  /\ link \in {"closed", "reset"}
  /\ toNode = <<>>
  /\ UNCHANGED vars

\* read returns 0 at the end of the stream, and -1 once it is reset; neither is
\* tested for, and the loop turns without blocking.  The text of length 0 does not
\* parse.  After -1 the buffer is read although nothing was written to it: it is a
\* new block, in which the allocator may have left the text of the turn before.
\* (The buffer may also begin with a newline: that turn changes nothing.)
ReceiveNothing ==
  /\ Running
  /\ link \in {"closed", "reset"}
  /\ toNode = <<>>
  /\ Len(incoming) < MaxBacklog /\ Len(outgoing) < MaxBacklog
  /\ \/ buffer' = Unparsed
     \/ link = "reset" /\ UNCHANGED buffer
  /\ incoming' = Append(incoming, buffer')
  /\ UNCHANGED <<nodeVars, outgoing, link, toNode, offset, fromNode, coreVars>>

-----------------------------------------------------------------------------
(* The consumer thread                                                     *)

\* incoming_buffer.block_poll() and the menu of API calls.
PollToken ==
  /\ Running
  /\ consumer = "poll"
  /\ incoming # <<>>
  /\ acquired' = Head(incoming)
  /\ incoming' = Tail(incoming)
  /\ consumer' = CASE acquired'.api = "REQUEST_HANDSHAKE" -> "sendId"
                   [] acquired'.api \in DOMAIN CipherReply -> "cipher"
                   [] OTHER -> "poll"
  /\ UNCHANGED <<status, seedFreed, seed, qpp, sending, outgoing, netVars, coreVars>>

\* Faulty: the handshake leaves the seed to the menu of API calls.
PushIdOnly ==
  /\ Running
  /\ consumer = "sendId"
  /\ outgoing' = Append(outgoing, SendId)
  /\ consumer' = "poll"
  /\ UNCHANGED <<status, seedFreed, seed, qpp, acquired, sending, incoming,
                 netVars, coreVars>>

PushId ==
  /\ Running
  /\ consumer = "sendId"
  /\ outgoing' = Append(outgoing, SendId)
  /\ consumer' = "pollSeed"
  /\ UNCHANGED <<status, seedFreed, seed, qpp, acquired, sending, incoming,
                 netVars, coreVars>>

\* Faulty: the cipher is not constructed.
PollSeedOnly ==
  /\ Running
  /\ consumer = "pollSeed"
  /\ incoming # <<>>
  /\ Head(incoming).api = "SET_SEED"
  /\ incoming' = Tail(incoming)
  /\ seed' = Head(incoming).payload
  /\ consumer' = "sendHs"
  /\ UNCHANGED <<status, seedFreed, qpp, acquired, sending, outgoing, netVars, coreVars>>

\* The second block_poll, in the middle of the handshake, and memcpy(seed, ...).
PollSeed ==
  /\ Running
  /\ consumer = "pollSeed"
  /\ incoming # <<>>
  /\ Head(incoming).api = "SET_SEED"
  /\ incoming' = Tail(incoming)
  /\ seed' = Head(incoming).payload
  /\ consumer' = "construct"
  /\ UNCHANGED <<status, seedFreed, qpp, acquired, sending, outgoing, netVars, coreVars>>

\* Faulty: a poll that does not block, and finds no seed yet.
HandshakeImpatient ==
  /\ Running
  /\ consumer = "pollSeed"
  /\ incoming = <<>>
  /\ status' = "exited"
  /\ UNCHANGED <<seedFreed, seed, qpp, consumer, acquired, sending, incoming, outgoing,
                 netVars, coreVars>>

\* "Error handshake sequence", exit(-1).
HandshakeError ==
  /\ Running
  /\ consumer = "pollSeed"
  /\ incoming # <<>>
  /\ Head(incoming).api # "SET_SEED"
  /\ incoming' = Tail(incoming)
  /\ status' = "exited"
  /\ UNCHANGED <<seedFreed, seed, qpp, consumer, acquired, sending, outgoing,
                 netVars, coreVars>>

\* Faulty: a second handshake keeps the cipher of the first.
ConstructOnce ==
  /\ Running
  /\ consumer = "construct"
  /\ qpp' = IF qpp = None THEN seed ELSE qpp
  /\ consumer' = "sendHs"
  /\ UNCHANGED <<status, seedFreed, seed, acquired, sending, incoming, outgoing,
                 netVars, coreVars>>

\* qpp = new QPP(seed): the constructor copies the buffer.
ConstructQpp ==
  /\ Running
  /\ consumer = "construct"
  /\ qpp' = seed
  /\ consumer' = "sendHs"
  /\ UNCHANGED <<status, seedFreed, seed, acquired, sending, incoming, outgoing,
                 netVars, coreVars>>

\* Faulty: the end of the handshake is not announced.
PushNothing ==
  /\ Running
  /\ consumer = "sendHs"
  /\ consumer' = "poll"
  /\ UNCHANGED <<status, seedFreed, seed, qpp, acquired, sending, incoming, outgoing,
                 netVars, coreVars>>

PushHsComplete ==
  /\ Running
  /\ consumer = "sendHs"
  /\ outgoing' = Append(outgoing, HsComplete)
  /\ consumer' = "poll"
  /\ UNCHANGED <<status, seedFreed, seed, qpp, acquired, sending, incoming,
                 netVars, coreVars>>

\* Faulty: the reply has the api of the request.
CipherEcho ==
  /\ Running
  /\ consumer = "cipher"
  /\ qpp # None
  /\ outgoing' = Append(outgoing, Reply(acquired.api, acquired.payload, qpp))
  /\ consumer' = "poll"
  /\ UNCHANGED <<status, seedFreed, seed, qpp, acquired, sending, incoming,
                 netVars, coreVars>>

\* ENCRYPT and DECRYPT: set the text, run the cipher, push the reply.  Calling an
\* uninitialized qpp is undefined; KeyedBeforeUse says that it does not happen.
Cipher ==
  /\ Running
  /\ consumer = "cipher"
  /\ qpp # None
  /\ outgoing' = Append(outgoing, Reply(CipherReply[acquired.api], acquired.payload, qpp))
  /\ consumer' = "poll"
  /\ UNCHANGED <<status, seedFreed, seed, qpp, acquired, sending, incoming,
                 netVars, coreVars>>

-----------------------------------------------------------------------------
(* The outgoing thread                                                     *)

\* Faulty: the newest reply is polled first.
PollNewestReply ==
  /\ Running
  /\ sending = <<>>
  /\ outgoing # <<>>
  /\ sending' = <<outgoing[Len(outgoing)]>>
  /\ outgoing' = SubSeq(outgoing, 1, Len(outgoing) - 1)
  /\ UNCHANGED <<status, seedFreed, seed, qpp, consumer, acquired, incoming,
                 netVars, coreVars>>

\* Faulty: the token stays in the deque.
PeekReply ==
  /\ Running
  /\ sending = <<>>
  /\ outgoing # <<>>
  /\ sending' = <<Head(outgoing)>>
  /\ UNCHANGED <<status, seedFreed, seed, qpp, consumer, acquired, incoming, outgoing,
                 netVars, coreVars>>

PollReply ==
  /\ Running
  /\ sending = <<>>
  /\ outgoing # <<>>
  /\ sending' = <<Head(outgoing)>>
  /\ outgoing' = Tail(outgoing)
  /\ UNCHANGED <<status, seedFreed, seed, qpp, consumer, acquired, incoming,
                 netVars, coreVars>>

\* write, its result ignored.  A peer that has closed its end answers the data with
\* a reset.  A write on a connection that was reset, or never was up, raises SIGPIPE;
\* the first one after the reset may return the error instead.
Write ==
  /\ Running
  /\ sending # <<>>
  /\ sending' = <<>>
  /\ fromNode' = IF link = "open" THEN fromNode \o sending ELSE fromNode
  /\ link' = IF link = "closed" THEN "reset" ELSE link
  /\ \/ UNCHANGED status
     \/ link \in {"down", "reset"} /\ status' = "killed"
  /\ UNCHANGED <<seedFreed, seed, qpp, consumer, acquired, incoming, outgoing,
                 toNode, offset, buffer, coreVars>>

-----------------------------------------------------------------------------
(* The Core Complex (external)                                             *)

Ask(msg, k) ==
  /\ Running
  /\ link = "open"
  /\ toNode' = Append(toNode, msg)
  /\ expected' = Append(expected, AnswerTo(msg, k))
  /\ sent' = sent + 1
  /\ UNCHANGED <<nodeVars, incoming, outgoing, link, offset, fromNode, buffer, got>>

\* The first handshake, or one for a new seed, possibly behind requests that have
\* not been answered yet.
RequestHandshake ==
  /\ core \in {"idle", "ready"}
  /\ Len(expected) < Window
  /\ sent + 2 <= MaxSent
  /\ core' = "awaitId"
  /\ key' = key
  /\ Ask(Token("REQUEST_HANDSHAKE", None), key)

SetSeed(s) ==
  /\ core = "giveSeed"
  /\ core' = "awaitHs"
  /\ key' = s
  /\ Ask(Token("SET_SEED", s), s)

RequestCipher(api, text) ==
  /\ core = "ready"
  /\ Len(expected) < Window
  /\ sent < MaxSent
  /\ UNCHANGED <<core, key>>
  /\ Ask(Token(api, text), key)

\* An answer arrives.  Only its kind is compared with what was asked.
ReceiveAnswer ==
  /\ fromNode # <<>>
  /\ expected # <<>>
  /\ Head(fromNode).api = Head(expected).api
  /\ got' = Head(fromNode)
  /\ fromNode' = Tail(fromNode)
  /\ expected' = Tail(expected)
  /\ core' = CASE got' = SendId -> "giveSeed"
               [] got' = HsComplete -> "ready"
               [] OTHER -> core
  /\ UNCHANGED <<nodeVars, incoming, outgoing, link, toNode, offset, buffer, key, sent>>

\* The Core Complex closes the connection; what it sent can still be read.
Close ==
  /\ MayBreak
  /\ link = "open"
  /\ link' = "closed"
  /\ UNCHANGED <<nodeVars, incoming, outgoing, toNode, offset, fromNode, buffer, coreVars>>

\* The connection is reset; what was still under way is lost.
Reset ==
  /\ MayBreak
  /\ link \in {"open", "closed"}
  /\ link' = "reset"
  /\ \E n \in 0..Len(toNode) :
       /\ toNode' = SubSeq(toNode, 1, n)
       /\ offset' = IF n = 0 THEN AtBrace ELSE offset
  /\ UNCHANGED <<nodeVars, incoming, outgoing, fromNode, buffer, coreVars>>

-----------------------------------------------------------------------------

IncomingThread == Connect \/ ConnectFails \/ Receive \/ ReceiveNothing

ConsumerThread ==
  \/ PollToken \/ PushId \/ PollSeed \/ HandshakeError
  \/ ConstructQpp \/ PushHsComplete \/ Cipher

OutgoingThread == PollReply \/ Write

CoreComplex ==
  \/ RequestHandshake
  \/ \E s \in Seeds : SetSeed(s)
  \/ \E api \in DOMAIN CipherReply, text \in Texts : RequestCipher(api, text)
  \/ ReceiveAnswer
  \/ Close
  \/ Reset

Next == DeleteSeed \/ IncomingThread \/ ConsumerThread \/ OutgoingThread \/ CoreComplex

\* The operating system runs every thread that can run, and the Core Complex
\* reads its answers and goes on with a handshake it has begun.  It need not ask
\* for anything.
Fairness ==
  /\ WF_vars(IncomingThread)
  /\ WF_vars(ConsumerThread)
  /\ WF_vars(OutgoingThread)
  /\ WF_vars(ReceiveAnswer)
  /\ WF_vars(\E s \in Seeds : SetSeed(s))

Spec == Init /\ [][Next]_vars
FairSpec == Spec /\ Fairness

-----------------------------------------------------------------------------
(* Properties                                                              *)

ConsumerPc == {"poll", "sendId", "pollSeed", "construct", "sendHs", "cipher"}

TypeOK ==
  /\ status \in {"running", "exited", "killed"}
  /\ seedFreed \in BOOLEAN
  /\ seed \in Seeds \union {None, Clobbered}
  /\ qpp \in Seeds \union {None, Clobbered}
  /\ consumer \in ConsumerPc
  /\ acquired \in Messages \union {Unparsed}
  /\ buffer \in Messages \union {Unparsed}
  /\ incoming \in Seq(Messages \union {Unparsed})
  /\ outgoing \in Seq(Replies)
  /\ sending \in Seq(Replies) /\ Len(sending) <= 1
  /\ link \in {"down", "open", "closed", "reset"}
  /\ toNode \in Seq(Messages)
  /\ offset \in {AtBrace, AtText, AtNewline}
  /\ toNode = <<>> => offset = AtBrace
  /\ fromNode \in Seq(Replies)
  /\ core \in {"idle", "awaitId", "giveSeed", "awaitHs", "ready"}
  /\ expected \in Seq(Replies)
  /\ got \in Replies \union {None}
  /\ key \in Seeds \union {None}
  /\ sent \in 0..MaxSent

\* The answers that are on their way to the Core Complex: written, polled by the
\* outgoing thread, queued, in the hands of the consumer thread, or still to be made
\* from what is queued or has not been read.  Of a text that did not parse, None.
Answers(msgs) ==
  [i \in 1..Len(msgs) |-> IF msgs[i] = Unparsed THEN None ELSE AnswerTo(msgs[i], key)]

ConsumerAnswer ==
  CASE consumer = "sendId" -> <<SendId>>
    [] consumer \in {"construct", "sendHs"} -> <<HsComplete>>
    [] consumer = "cipher" -> <<AnswerTo(acquired, key)>>
    [] OTHER -> <<>>

Unread == IF offset = AtBrace THEN toNode ELSE Tail(toNode)

Pipeline ==
  fromNode \o sending \o outgoing \o ConsumerAnswer \o Answers(incoming) \o Answers(Unread)

\* While the connection is up, the answers under way are those the Core Complex
\* waits for, one for each message, in its order, each text under the seed in force
\* when the message was sent.  Four threads and two queues lie between the two.
PipelineMatchesExpected ==
  Running /\ link = "open" => Pipeline = expected

\* The answers of a sequence, None apart, are some of those of another, in its order.
Among(coming, all) ==
  LET heard == {i \in 1..Len(coming) : coming[i] # None}
  IN  \E at \in [heard -> 1..Len(all)] :
        /\ \A i, j \in heard : i < j => at[i] < at[j]
        /\ \A i \in heard : coming[i] = all[at[i]]

\* However reads cut the stream, and whenever the connection ends, answers are lost
\* but never reordered, made up, repeated or made for another text: those that can
\* still arrive are some of those expected, in that order.  After a reset only those
\* written before can: what the node goes on to answer then is lost.
AnswersKeepOrder ==
  Among(IF link = "reset" THEN fromNode ELSE Pipeline, expected)

\* Once HS_COMPLETE is on its way, and until the Core Complex gives another seed,
\* the node's cipher was constructed with the seed the Core Complex sent, although
\* the buffer it passed through belongs to main, which deletes it.
KeyAgreement ==
  \/ core = "ready"
  \/ \E q \in {outgoing, sending, fromNode} : \E i \in DOMAIN q : q[i] = HsComplete
  => qpp = key

\* The consumer thread never calls the cipher before a handshake has constructed
\* it, although the pointer is uninitialized until then.
KeyedBeforeUse == consumer = "cipher" => qpp # None

\* The node gives up only if the connection failed or ended: as long as it is open,
\* and the Core Complex keeps to the protocol, no handshake is found erroneous.
ExitOnlyWhenPeerGone == status = "exited" => link # "open"

\* Every thread of the node blocks: in read, and in the two calls of block_poll.
NodeAtRest ==
  /\ toNode = <<>>
  /\ incoming = <<>> /\ consumer \in {"poll", "pollSeed"}
  /\ outgoing = <<>> /\ sending = <<>>

\* The node and the Core Complex never wait for each other: when every thread of the node
\* blocks on an open connection, each answer that is still expected has been written, and
\* the two agree on whose turn it is.  The consumer thread, which polls in two places,
\* waits for a seed exactly when the Core Complex is about to give one.
NoStandstill ==
  Running /\ link = "open" /\ NodeAtRest =>
    /\ fromNode = expected
    /\ consumer = "pollSeed" <=> core \in {"awaitId", "giveSeed"}

\* What is left to do with all that is under way, in steps at most: a part of a message
\* may be read by itself, and each read makes a token, which ends as an answer received.
InHand ==
  CASE consumer = "construct" -> 5
    [] consumer \in {"sendId", "sendHs", "cipher"} -> 4
    [] OTHER -> 0

Work ==
  7 * (3 * Len(toNode) - offset) + 6 * Len(incoming) + InHand
    + 3 * Len(outgoing) + 2 * Len(sending) + Len(fromNode)

\* While the connection is open no thread turns in vain, however the reads cut the stream:
\* each step that is not a new message of the Core Complex, or the one "delete[]" of main,
\* leaves less to be done.  So a message is answered after a number of steps that depends
\* only on what was under way when it was sent.
StepsAdvance ==
  [][Running /\ link = "open" /\ link' = "open" /\ sent' = sent /\ seedFreed' = seedFreed
       => Work' < Work]_vars

\* The node implements the service of CipherService: what the Core Complex receives
\* is always the answer to its oldest unanswered message, under the right seed, and
\* it does receive it.
Service == INSTANCE CipherService
ImplementsCipherService == Service!Spec

\* The same without the promise to answer, which a connection that ends breaks.
NeverAnswersWrongly == Service!Init /\ [][Service!Next]_(Service!vars)

\* A handshake the Core Complex begins is completed.
HandshakeCompletes == core = "awaitId" ~> core = "ready"

\* A consumer thread that waits for the seed does not wait for ever if the
\* connection ends: the tokens made of nothing at the end of the stream reach it.
HandshakeNeverHangs ==
  consumer = "pollSeed" /\ link \in {"closed", "reset"}
    ~> consumer # "pollSeed" \/ ~Running

=============================================================================
