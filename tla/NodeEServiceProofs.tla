--------------------------- MODULE NodeEServiceProofs ---------------------------
(***************************************************************************)
(* Theorems about NodeE when every read returns one message and main frees *)
(* the seed before the connection is up: the answers on their way are the  *)
(* ones the Core Complex waits for, the node does not give up, neither end *)
(* waits for the other for ever, and the node implements the safety part   *)
(* of CipherService.                                                       *)
(* Seeds, texts, bounds and whether the connection may break are arbitrary.*)
(***************************************************************************)
EXTENDS NodeEProofs

-----------------------------------------------------------------------------
(* The answers under way, in three parts                                   *)

\* Answers to what is still queued or unread.
AnswersBy(msgs, k) == [i \in 1..Len(msgs) |-> AnswerTo(msgs[i], k)]

Asked == Cat(AnswersBy(incoming, key), AnswersBy(Unread, key))

\* The answers to messages that are taken off, or added to, a queue.
LEMMA AnswersFacts ==
  ASSUME NEW k \in Seeds \union {None}, NEW q \in Seq(Messages)
  PROVE  /\ AnswersBy(q, k) \in Seq(Outcomes)
         /\ AnswersBy(q, k) = <<>> <=> q = <<>>
         /\ q # <<>> => AnswersBy(q, k) = Cat(One(AnswerTo(Head(q), k)), AnswersBy(Tail(q), k))
         /\ \A m \in Messages : AnswersBy(Append(q, m), k) = Append(AnswersBy(q, k), AnswerTo(m, k))
<1>1. ASSUME NEW r \in Seq(Messages)
      PROVE  /\ AnswersBy(r, k) \in Seq(Outcomes)
             /\ Len(AnswersBy(r, k)) = Len(r)
             /\ \A i \in 1..Len(r) : AnswersBy(r, k)[i] = AnswerTo(r[i], k)
  <2>1. Len(r) \in Nat /\ \A i \in 1..Len(r) : r[i] \in Messages
    BY <1>1, LenProperties, ElementOfSeq
  <2>2. AnswersBy(r, k) \in [1..Len(r) -> Outcomes]
    <3>1. \A i \in 1..Len(r) : AnswerTo(r[i], k) \in Outcomes
      BY <2>1, MessageFacts
    <3>2. QED
      BY <3>1 DEF AnswersBy
  <2>3. AnswersBy(r, k) \in Seq(Outcomes)
    BY <2>1, <2>2, SeqDef
  <2>4. Len(AnswersBy(r, k)) = Len(r)
    <3>1. DOMAIN AnswersBy(r, k) = 1..Len(AnswersBy(r, k)) /\ Len(AnswersBy(r, k)) \in Nat
      BY <2>3, LenProperties
    <3>2. DOMAIN AnswersBy(r, k) = 1..Len(r)
      BY <2>2
    <3>3. QED
      BY <2>1, <3>1, <3>2
  <2>5. QED
    BY <2>3, <2>4 DEF AnswersBy
<1>2. AnswersBy(q, k) = <<>> <=> q = <<>>
  <2>1. Len(AnswersBy(q, k)) = Len(q) /\ AnswersBy(q, k) \in Seq(Outcomes)
    BY <1>1
  <2> DEFINE a == AnswersBy(q, k)
  <2>2. Len(a) = Len(q) /\ a \in Seq(Outcomes)
    BY <2>1
  <2> HIDE DEF a
  <2>3. a = <<>> <=> q = <<>>
    BY <2>2
  <2>4. QED
    BY <2>3 DEF a
<1>3. ASSUME q # <<>>
      PROVE  AnswersBy(q, k) = Cat(One(AnswerTo(Head(q), k)), AnswersBy(Tail(q), k))
  <2>1. /\ Head(q) \in Messages /\ Head(q) = q[1] /\ Tail(q) \in Seq(Messages)
        /\ Len(q) \in Nat /\ Len(q) > 0 /\ Len(Tail(q)) = Len(q) - 1
        /\ \A i \in 1..Len(Tail(q)) : Tail(q)[i] = q[i + 1]
    BY <1>3, HeadTailProperties, EmptySeq
  <2> DEFINE a == AnswersBy(q, k)
             x == AnswerTo(Head(q), k)
             t == Tail(q)
             b == AnswersBy(t, k)
  <2>2. /\ a \in Seq(Outcomes) /\ Len(a) = Len(q) /\ x \in Outcomes /\ a[1] = x
        /\ b \in Seq(Outcomes) /\ Len(b) = Len(q) - 1
    <3>1. a \in Seq(Outcomes) /\ Len(a) = Len(q) /\ a[1] = AnswerTo(q[1], k)
      <4>1. 1 \in 1..Len(q)
        BY <2>1
      <4>2. QED
        BY <1>1, <4>1
    <3>2. b \in Seq(Outcomes) /\ Len(b) = Len(q) - 1
      BY <1>1, <2>1
    <3>3. x \in Outcomes /\ x = AnswerTo(q[1], k)
      BY <2>1, MessageFacts
    <3>4. QED
      BY <3>1, <3>2, <3>3
  <2>3. ASSUME NEW i \in 2..Len(q) PROVE a[i] = b[i - 1]
    <3>1. i \in 1..Len(q) /\ i - 1 \in 1..Len(t) /\ (i - 1) + 1 = i
      BY <2>1
    <3>2. a[i] = AnswerTo(q[i], k)
      BY <1>1, <3>1
    <3>3. b[i - 1] = AnswerTo(t[i - 1], k)
      BY <1>1, <2>1, <3>1
    <3>4. t[i - 1] = q[i]
      BY <2>1, <3>1
    <3>5. QED
      BY <3>2, <3>3, <3>4
  <2> DEFINE c == Cat(One(x), b)
  <2> HIDE DEF a, b, x, t
  <2>4. One(x) \in Seq(Outcomes) /\ Len(One(x)) = 1 /\ One(x)[1] = x
    BY <2>2, OneFacts
  <2> DEFINE h == One(x)
  <2>5. h \in Seq(Outcomes) /\ Len(h) = 1 /\ h[1] = x
    BY <2>4
  <2> HIDE DEF h
  <2>6. c = Cat(h, b)
    BY DEF h
  <2>7. c \in Seq(Outcomes) /\ Len(c) = Len(q)
    <3>1. h \in Seq(Outcomes) /\ b \in Seq(Outcomes)
      BY <2>2, <2>5
    <3>2. Cat(h, b) \in Seq(Outcomes) /\ Len(Cat(h, b)) = Len(h) + Len(b)
      BY <3>1, CatFacts
    <3>3. QED
      BY <2>1, <2>2, <2>5, <2>6, <3>2
  <2> HIDE DEF c
  <2>8. ASSUME NEW i \in 1..Len(q) PROVE a[i] = c[i]
    <3>1. i \in 1..(Len(h) + Len(b))
      BY <2>1, <2>2, <2>5
    <3>2. c[i] = IF i <= Len(h) THEN h[i] ELSE b[i - Len(h)]
      BY <2>2, <2>5, <2>6, <3>1, CatElements
    <3>3. CASE i = 1
      BY <2>2, <2>5, <3>2, <3>3
    <3>4. CASE i # 1
      <4>1. i \in 2..Len(q) /\ ~(i <= 1)
        BY <2>1, <3>4
      <4>2. QED
        BY <2>3, <2>5, <3>2, <4>1
    <3>5. QED
      BY <3>3, <3>4
  <2>9. a = c
    BY <2>2, <2>7, <2>8, SeqEqual
  <2>10. QED
    BY <2>9 DEF a, b, x, t, c
<1>4. ASSUME NEW m \in Messages
      PROVE  AnswersBy(Append(q, m), k) = Append(AnswersBy(q, k), AnswerTo(m, k))
  <2> DEFINE p == Append(q, m)
             a == AnswersBy(p, k)
             b == AnswersBy(q, k)
             x == AnswerTo(m, k)
  <2>1. /\ p \in Seq(Messages) /\ Len(p) = Len(q) + 1 /\ p[Len(q) + 1] = m
        /\ \A i \in 1..Len(q) : p[i] = q[i]
        /\ Len(q) \in Nat
    BY AppendProperties, LenProperties
  <2>2. /\ a \in Seq(Outcomes) /\ Len(a) = Len(q) + 1 /\ b \in Seq(Outcomes) /\ Len(b) = Len(q)
        /\ x \in Outcomes
    BY <1>1, <2>1, MessageFacts
  <2>3. a[Len(q) + 1] = x
    <3>1. Len(q) + 1 \in 1..Len(p)
      BY <2>1
    <3>2. a[Len(q) + 1] = AnswerTo(p[Len(q) + 1], k)
      BY <1>1, <2>1, <3>1
    <3>3. QED
      BY <2>1, <3>2
  <2>4. ASSUME NEW i \in 1..Len(q) PROVE a[i] = b[i]
    <3>1. i \in 1..Len(p)
      BY <2>1
    <3>2. a[i] = AnswerTo(p[i], k)
      BY <1>1, <2>1, <3>1
    <3>3. b[i] = AnswerTo(q[i], k)
      BY <1>1
    <3>4. QED
      BY <2>1, <3>2, <3>3
  <2> HIDE DEF a, b, x, p
  <2>5. /\ Append(b, x) \in Seq(Outcomes) /\ Len(Append(b, x)) = Len(q) + 1
        /\ \A i \in 1..Len(q) : Append(b, x)[i] = b[i]
        /\ Append(b, x)[Len(q) + 1] = x
    BY <2>2, AppendProperties
  <2>6. ASSUME NEW i \in 1..(Len(q) + 1) PROVE a[i] = Append(b, x)[i]
    <3>1. i \in 1..Len(q) \/ i = Len(q) + 1
      BY <2>1
    <3>2. QED
      BY <2>3, <2>4, <2>5, <3>1
  <2>7. a = Append(b, x)
    BY <2>2, <2>5, <2>6, SeqEqual
  <2>8. QED
    BY <2>7 DEF a, b, x, p
<1>5. QED
  BY <1>1, <1>2, <1>3, <1>4

-----------------------------------------------------------------------------
(* Whole messages                                                          *)

\* A message is read up to its newline or with it, and all that the node reads while the
\* connection is open parses.
WholeReads == offset # AtText /\ (link = "open" => incoming \in Seq(Messages))

\* A read takes the first unread message, or the newline of the one before it.
LEMMA ReadWhole ==
  ASSUME WholeMessages, TInv, offset # AtText, Receive
  PROVE  /\ offset' # AtText
         /\ \/ Unread' = Unread /\ UNCHANGED <<incoming, buffer>>
            \/ /\ Unread # <<>> /\ Unread' = Tail(Unread)
               /\ buffer' = Head(Unread) /\ incoming' = Append(incoming, Head(Unread))
<1>1. PICK n \in 0..Len(toNode), off \in {AtBrace, AtText, AtNewline} :
        /\ Readable(n, off)
        /\ toNode' = SubSeq(toNode, n + 1, Len(toNode))
        /\ offset' = off
        /\ IF offset = AtNewline
           THEN UNCHANGED <<incoming, buffer>>
           ELSE /\ buffer' = Parse(n, off)
                /\ incoming' = Append(incoming, buffer')
  BY DEF Receive
<1>2. /\ toNode \in Seq(Messages) /\ offset \in {AtBrace, AtNewline}
      /\ toNode = <<>> => offset = AtBrace
  BY DEF TInv, QueueTypes
<1>3. AtBrace = 0 /\ AtText = 1 /\ AtNewline = 2
  BY DEF AtBrace, AtText, AtNewline
<1>4. \/ n = 0 /\ off = AtNewline
      \/ n = 1 /\ off = AtBrace
  BY <1>1 DEF Readable
<1>5. CASE n = 0 /\ off = AtNewline
  <2>1. offset = AtBrace
    BY <1>1, <1>2, <1>3, <1>5 DEF Readable
  <2>2. n # Len(toNode)
    BY <1>1, <1>3, <1>5 DEF Readable
  <2>3. toNode # <<>>
    BY <1>2, <1>5, <2>2, EmptySeq
  <2>4. toNode' = toNode
    BY <1>1, <1>2, <1>5, SubSeqFull
  <2>5. offset' = AtNewline
    BY <1>1, <1>5
  <2>6. Unread = toNode /\ Unread' = Tail(toNode)
    BY <1>3, <2>1, <2>4, <2>5 DEF Unread
  <2>7. buffer' = Head(toNode) /\ incoming' = Append(incoming, Head(toNode))
    BY <1>1, <1>3, <1>5, <2>1 DEF Parse
  <2>8. QED
    BY <1>3, <2>3, <2>5, <2>6, <2>7
<1>6. CASE n = 1 /\ off = AtBrace
  <2>1. toNode # <<>>
    BY <1>2, <1>6, EmptySeq
  <2>2. toNode' = Tail(toNode)
    BY <1>1, <1>2, <1>6, <2>1, TailIsSubSeq
  <2>3. offset' = AtBrace
    BY <1>1, <1>6
  <2>4. Unread' = Tail(toNode)
    BY <2>2, <2>3 DEF Unread
  <2>5. CASE offset = AtBrace
    <3>1. Unread = toNode
      BY <2>5 DEF Unread
    <3>2. buffer' = Head(toNode) /\ incoming' = Append(incoming, Head(toNode))
      BY <1>1, <1>3, <1>6, <2>5 DEF Parse
    <3>3. QED
      BY <1>3, <2>1, <2>3, <2>4, <3>1, <3>2
  <2>6. CASE offset = AtNewline
    <3>1. Unread = Tail(toNode)
      BY <1>3, <2>6 DEF Unread
    <3>2. UNCHANGED <<incoming, buffer>>
      BY <1>1, <2>6
    <3>3. QED
      BY <1>3, <2>3, <2>4, <3>1, <3>2
  <2>7. QED
    BY <1>2, <2>5, <2>6
<1>7. QED
  BY <1>4, <1>5, <1>6

LEMMA WholeReadsInit == Init => WholeReads
BY EmptySeq DEF Init, WholeReads, AtText, AtBrace

\* Every step keeps WholeReads.
LEMMA WholeReadsStep ==
  ASSUME WholeMessages, TInv, Linked, WholeReads, [Next]_vars
  PROVE  WholeReads'
<1> USE DEF nodeVars, coreVars, netVars
<1>1. CASE Connect
  BY <1>1, EmptySeq DEF Connect, WholeReads, Linked
<1>2. CASE Receive
  <2>1. /\ offset' # AtText
        /\ \/ incoming' = incoming
           \/ Unread # <<>> /\ incoming' = Append(incoming, Head(Unread))
    BY <1>2, ReadWhole DEF WholeReads
  <2>2. Unread # <<>> => Head(Unread) \in Messages
    BY UnreadFacts, HeadTailProperties
  <2>3. incoming \in Seq(Messages) => incoming' \in Seq(Messages)
    BY <2>1, <2>2, AppendProperties
  <2>4. QED
    BY <1>2, <2>1, <2>3 DEF Receive, WholeReads
<1>3. CASE ReceiveNothing
  BY <1>3 DEF ReceiveNothing, WholeReads
<1>4. CASE PollToken \/ PollSeed \/ HandshakeError
  <2>1. incoming # <<>> /\ incoming' = Tail(incoming) /\ UNCHANGED <<offset, link>>
    BY <1>4 DEF PollToken, PollSeed, HandshakeError
  <2>2. incoming \in Seq(Messages) => incoming' \in Seq(Messages)
    BY <2>1, HeadTailProperties
  <2>3. QED
    BY <2>1, <2>2 DEF WholeReads
<1>5. CASE Reset
  BY <1>5 DEF Reset, WholeReads, AtBrace, AtText
<1>6. CASE Write \/ Close
  BY <1>6 DEF Write, Close, WholeReads
<1>7. CASE \/ DeleteSeed \/ ConnectFails \/ PushId \/ ConstructQpp \/ PushHsComplete \/ Cipher
           \/ PollReply \/ RequestHandshake \/ (\E s \in Seeds : SetSeed(s))
           \/ (\E api \in DOMAIN CipherReply, text \in Texts : RequestCipher(api, text))
           \/ ReceiveAnswer \/ UNCHANGED vars
  <2>1. UNCHANGED <<offset, link, incoming>>
    BY <1>7 DEF DeleteSeed, ConnectFails, PushId, ConstructQpp, PushHsComplete, Cipher, PollReply,
                RequestHandshake, SetSeed, RequestCipher, Ask, ReceiveAnswer, vars
  <2>2. QED
    BY <2>1 DEF WholeReads
<1>8. QED
  BY <1>1, <1>2, <1>3, <1>4, <1>5, <1>6, <1>7
     DEF Next, IncomingThread, ConsumerThread, OutgoingThread, CoreComplex

-----------------------------------------------------------------------------
(* How the three parts of the pipeline move                                *)

LEMMA PartFacts ==
  ASSUME TInv, WholeReads, link = "open"
  PROVE  /\ Written \in Seq(Outcomes) /\ ConsumerAnswer \in Seq(Outcomes) /\ Asked \in Seq(Outcomes)
         /\ AnswersBy(incoming, key) \in Seq(Outcomes) /\ AnswersBy(Unread, key) \in Seq(Outcomes)
         /\ Pipeline = Cat(Written, Cat(ConsumerAnswer, Asked))
         /\ Asked = <<>> <=> incoming = <<>> /\ Unread = <<>>
<1>1. /\ incoming \in Seq(Messages) /\ Unread \in Seq(Messages)
      /\ key \in Seeds \union {None}
  BY UnreadFacts DEF WholeReads, TInv, ThreadTypes
<1>2. /\ AnswersBy(incoming, key) \in Seq(Outcomes) /\ AnswersBy(Unread, key) \in Seq(Outcomes)
      /\ AnswersBy(incoming, key) = <<>> <=> incoming = <<>>
      /\ AnswersBy(Unread, key) = <<>> <=> Unread = <<>>
  BY <1>1, AnswersFacts
<1>3. Written \in Seq(Outcomes)
  <2>1. fromNode \in Seq(Replies) /\ sending \in Seq(Replies) /\ outgoing \in Seq(Replies)
    BY DEF TInv, QueueTypes
  <2>2. fromNode \in Seq(Outcomes) /\ sending \in Seq(Outcomes) /\ outgoing \in Seq(Outcomes)
    BY <2>1, SeqMonotonic DEF Outcomes
  <2>3. Cat(fromNode, sending) \in Seq(Outcomes)
    BY <2>2, CatFacts
  <2>4. QED
    BY <2>2, <2>3, CatFacts DEF Written
<1>4. ConsumerAnswer \in Seq(Outcomes)
  <2>1. SendId \in Outcomes /\ HsComplete \in Outcomes
    BY ReplyFacts DEF Outcomes
  <2>2. consumer = "cipher" => AnswerTo(acquired, key) \in Outcomes
    <3>1. consumer = "cipher" => acquired \in Messages
      BY TokenFacts, CipherReplyFacts DEF TInv, ThreadTypes, Handshakes, CipherAcquired
    <3>2. QED
      BY <1>1, <3>1 DEF Outcomes
  <2> DEFINE x == AnswerTo(acquired, key)
  <2> HIDE DEF x
  <2>3. /\ <<SendId>> \in Seq(Outcomes) /\ <<HsComplete>> \in Seq(Outcomes)
        /\ <<>> \in Seq(Outcomes)
        /\ x \in Outcomes => <<x>> \in Seq(Outcomes)
    BY <2>1
  <2>4. QED
    BY <2>2, <2>3 DEF ConsumerAnswer, x
<1>5. Asked \in Seq(Outcomes) /\ (Asked = <<>> <=> incoming = <<>> /\ Unread = <<>>)
  <2> DEFINE e == AnswersBy(incoming, key)
             f == AnswersBy(Unread, key)
  <2>1. e \in Seq(Outcomes) /\ f \in Seq(Outcomes) /\ Asked = Cat(e, f)
    BY <1>2 DEF Asked
  <2>2. (e = <<>> <=> incoming = <<>>) /\ (f = <<>> <=> Unread = <<>>)
    BY <1>2
  <2> HIDE DEF e, f
  <2>3. Cat(e, f) \in Seq(Outcomes) /\ (Cat(e, f) = <<>> <=> e = <<>> /\ f = <<>>)
    <3>1. e \in Seq(Outcomes) /\ f \in Seq(Outcomes)
      BY <2>1
    <3>2. QED
      BY <3>1, CatFacts
  <2>4. QED
    BY <2>1, <2>2, <2>3
<1>6. Answers(incoming) = AnswersBy(incoming, key) /\ Answers(Unread) = AnswersBy(Unread, key)
  <2>1. \A m \in Messages : m # Unparsed
    BY MessageFacts
  <2>2. ASSUME NEW q \in Seq(Messages) PROVE Answers(q) = AnswersBy(q, key)
    <3>1. \A i \in 1..Len(q) : q[i] # Unparsed
      BY <2>1, ElementOfSeq
    <3>2. QED
      BY <3>1 DEF Answers, AnswersBy
  <2>3. QED
    BY <1>1, <2>2
<1>7. Pipeline = Cat(Cat(Cat(Written, ConsumerAnswer), AnswersBy(incoming, key)), AnswersBy(Unread, key))
  BY <1>6 DEF Pipeline, Written, Cat
<1>8. Pipeline = Cat(Written, Cat(ConsumerAnswer, Asked))
  <2> DEFINE e == AnswersBy(incoming, key)
             f == AnswersBy(Unread, key)
             w == Written
             c == ConsumerAnswer
  <2>1. e \in Seq(Outcomes) /\ f \in Seq(Outcomes) /\ w \in Seq(Outcomes) /\ c \in Seq(Outcomes)
    BY <1>2, <1>3, <1>4
  <2>2. Asked = Cat(e, f) /\ Pipeline = Cat(Cat(Cat(w, c), e), f)
    BY <1>7 DEF Asked
  <2> HIDE DEF e, f, w, c
  <2>3. Cat(Cat(Cat(w, c), e), f) = Cat(w, Cat(c, Cat(e, f)))
    BY <2>1, Regroup
  <2>4. Pipeline = Cat(w, Cat(c, Asked))
    BY <2>2, <2>3
  <2>5. QED
    BY <2>4 DEF w, c
<1>9. QED
  BY <1>2, <1>3, <1>4, <1>5, <1>8

\* A read moves answers from the unread messages to the queue.
LEMMA MoveRead ==
  ASSUME WholeMessages, TInv, WholeReads, link = "open", Receive
  PROVE  Written' = Written /\ ConsumerAnswer' = ConsumerAnswer /\ Asked' = Asked
<1> USE DEF nodeVars, coreVars, netVars
<1>1. key' = key /\ Written' = Written /\ ConsumerAnswer' = ConsumerAnswer
  BY DEF Receive, Written, ConsumerAnswer
<1>2. \/ Unread' = Unread /\ incoming' = incoming
      \/ /\ Unread # <<>> /\ Unread' = Tail(Unread)
         /\ incoming' = Append(incoming, Head(Unread))
  BY ReadWhole DEF WholeReads
<1>3. CASE Unread' = Unread /\ incoming' = incoming
  BY <1>1, <1>3 DEF Asked
<1>4. CASE /\ Unread # <<>> /\ Unread' = Tail(Unread)
           /\ incoming' = Append(incoming, Head(Unread))
  <2>1. incoming \in Seq(Messages) /\ Unread \in Seq(Messages) /\ key \in Seeds \union {None}
    BY UnreadFacts DEF WholeReads, TInv, ThreadTypes
  <2> DEFINE m == Head(Unread)
             x == AnswerTo(m, key)
             a == AnswersBy(incoming, key)
             b == AnswersBy(Tail(Unread), key)
  <2>2. m \in Messages /\ Tail(Unread) \in Seq(Messages)
    BY <1>4, <2>1, HeadTailProperties
  <2>3. x \in Outcomes
    BY <2>1, <2>2, MessageFacts
  <2>4. a \in Seq(Outcomes) /\ b \in Seq(Outcomes)
    BY <2>1, <2>2, AnswersFacts
  <2>5. AnswersBy(Unread, key) = Cat(One(x), b)
    BY <1>4, <2>1, AnswersFacts
  <2>6. AnswersBy(incoming', key') = Append(a, x)
    <3>1. AnswersBy(Append(incoming, m), key) = Append(a, x)
      BY <2>1, <2>2, AnswersFacts
    <3>2. QED
      BY <1>1, <1>4, <3>1
  <2>7. Asked = Cat(a, Cat(One(x), b)) /\ Asked' = Cat(Append(a, x), b)
    BY <1>1, <1>4, <2>5, <2>6 DEF Asked
  <2> HIDE DEF m, x, a, b
  <2>8. Append(a, x) = Cat(a, One(x)) /\ One(x) \in Seq(Outcomes)
    BY <2>3, <2>4, AppendIsCat, OneFacts
  <2>9. Cat(Cat(a, One(x)), b) = Cat(a, Cat(One(x), b))
    BY <2>4, <2>8, CatAssociative
  <2>10. QED
    BY <1>1, <2>7, <2>8, <2>9
<1>5. QED
  BY <1>2, <1>3, <1>4

\* The consumer thread takes the first message that was not answered.
LEMMA MovePoll ==
  ASSUME TInv, WholeReads, link = "open", incoming # <<>>, incoming' = Tail(incoming),
         UNCHANGED <<toNode, offset, key>>
  PROVE  /\ Head(incoming) \in Messages
         /\ AnswerTo(Head(incoming), key) \in Outcomes /\ Asked' \in Seq(Outcomes)
         /\ Asked = Cat(One(AnswerTo(Head(incoming), key)), Asked')
<1> DEFINE m == Head(incoming)
           x == AnswerTo(m, key)
           a == AnswersBy(Tail(incoming), key)
           b == AnswersBy(Unread, key)
<1>1. incoming \in Seq(Messages) /\ Unread \in Seq(Messages) /\ key \in Seeds \union {None}
  BY UnreadFacts DEF WholeReads, TInv, ThreadTypes
<1>2. m \in Messages /\ Tail(incoming) \in Seq(Messages)
  BY <1>1, HeadTailProperties
<1>3. x \in Outcomes
  BY <1>1, <1>2, MessageFacts
<1>4. a \in Seq(Outcomes) /\ b \in Seq(Outcomes)
  BY <1>1, <1>2, AnswersFacts
<1>5. AnswersBy(incoming, key) = Cat(One(x), a)
  BY <1>1, AnswersFacts
<1>6. Unread' = Unread
  BY DEF Unread
<1>7. Asked = Cat(Cat(One(x), a), b) /\ Asked' = Cat(a, b)
  BY <1>5, <1>6 DEF Asked
<1> HIDE DEF x, a, b
<1>8. Cat(Cat(One(x), a), b) = Cat(One(x), Cat(a, b)) /\ Cat(a, b) \in Seq(Outcomes)
  <2>1. One(x) \in Seq(Outcomes)
    BY <1>3, OneFacts
  <2>2. QED
    BY <1>4, <2>1, CatAssociative, CatFacts
<1>9. x \in Outcomes /\ Asked' \in Seq(Outcomes) /\ Asked = Cat(One(x), Asked')
  BY <1>3, <1>7, <1>8
<1>10. QED
  BY <1>2, <1>9 DEF x

\* A message of the Core Complex goes behind the others; a seed goes out alone.
LEMMA MoveAsk ==
  ASSUME TInv, WholeReads, link = "open", NEW msg \in Messages,
         toNode' = Append(toNode, msg), UNCHANGED <<incoming, offset>>,
         key' \in Seeds \union {None}, key' = key \/ Asked = <<>>
  PROVE  /\ AnswerTo(msg, key') \in Outcomes /\ Unread' # <<>>
         /\ Asked' = Cat(Asked, One(AnswerTo(msg, key')))
<1> DEFINE x == AnswerTo(msg, key')
           a == AnswersBy(incoming, key')
           b == AnswersBy(Unread, key')
<1>1. incoming \in Seq(Messages) /\ Unread \in Seq(Messages) /\ toNode \in Seq(Messages)
      /\ (toNode = <<>> => offset = AtBrace)
  BY UnreadFacts DEF WholeReads, TInv, QueueTypes
<1>2. Unread' = Append(Unread, msg)
  BY UnreadAsk
<1>3. Unread' # <<>>
  BY <1>1, <1>2, AppendProperties
<1>4. x \in Outcomes
  BY MessageFacts
<1>5. a \in Seq(Outcomes) /\ b \in Seq(Outcomes) /\ AnswersBy(Append(Unread, msg), key') = Append(b, x)
  BY <1>1, AnswersFacts
<1>6. Asked = Cat(a, b)
  <2>1. CASE key' = key
    BY <2>1 DEF Asked
  <2>2. CASE Asked = <<>>
    <3>1. incoming = <<>> /\ Unread = <<>>
      BY <2>2, PartFacts
    <3>2. a = <<>> /\ b = <<>>
      BY <1>1, <3>1, AnswersFacts
    <3>3. Cat(a, b) = <<>>
      BY <3>2 DEF Cat
    <3>4. QED
      BY <2>2, <3>3
  <2>3. QED
    BY <2>1, <2>2
<1>7. Asked' = Cat(a, Append(b, x))
  BY <1>2, <1>5 DEF Asked
<1> HIDE DEF x, a, b
<1>8. Append(b, x) = Cat(b, One(x)) /\ One(x) \in Seq(Outcomes)
  BY <1>4, <1>5, AppendIsCat, OneFacts
<1>9. Cat(Cat(a, b), One(x)) = Cat(a, Cat(b, One(x)))
  BY <1>5, <1>8, CatAssociative
<1>10. QED
  BY <1>3, <1>4, <1>6, <1>7, <1>8, <1>9 DEF x

-----------------------------------------------------------------------------
(* The phases of a handshake                                               *)

\* While the connection is open, the answers under way are those that are expected.  A
\* consumer thread that waits for the seed has answered all that came before: the id is
\* on its way, or the Core Complex is to give the seed, or the seed is on its way.  One
\* that does not wait for it still owes the id, or has taken the seed, if a handshake
\* is under way.
Phases ==
  Running /\ link = "open" =>
    /\ expected = Cat(Written, Cat(ConsumerAnswer, Asked))
    /\ consumer = "pollSeed" =>
         /\ core \in {"awaitId", "giveSeed", "awaitHs"}
         /\ core = "awaitId" => Asked = <<>>
         /\ core = "awaitHs" => Written = <<>>
    /\ consumer # "pollSeed" =>
         /\ core # "giveSeed"
         /\ core = "awaitId" => Cat(ConsumerAnswer, Asked) # <<>>
         /\ core = "awaitHs" => Asked = <<>>

\* While there is a cipher to call, it has the seed of the Core Complex (see Keyed).
CipherKeyed == consumer = "cipher" => qpp = key

LEMMA CipherHasTheSeed == Keyed => CipherKeyed
BY DEF Keyed, NoCipherThreads, CipherKeyed

\* What an answer in the middle of those expected says of the others.
LEMMA InExpected ==
  ASSUME TInv, CoreExpects, NEW w \in Seq(Outcomes), NEW x \in Outcomes, NEW q \in Seq(Outcomes),
         expected = Cat(w, Cat(One(x), q))
  PROVE  /\ x = SendId => core = "awaitId" /\ q = <<>>
         /\ x = HsComplete => core = "awaitHs"
         /\ core = "awaitHs" => x = HsComplete /\ w = <<>> /\ q = <<>>
         /\ core = "awaitId" /\ q = <<>> => x = SendId
         /\ core \in {"awaitId", "awaitHs", "ready"}
<1> DEFINE n == Len(w) + 1
<1>1. /\ n \in 1..Len(expected) /\ expected[n] = x
      /\ Len(expected) = n + Len(q)
      /\ n = Len(expected) => q = <<>>
  BY MiddleElement
<1>2. Len(w) \in Nat /\ Len(q) \in Nat /\ (Len(w) = 0 => w = <<>>) /\ (Len(q) = 0 => q = <<>>)
      /\ (q = <<>> => Len(q) = 0)
  BY LenProperties, EmptySeq
<1>3. expected \in Seq(Replies) /\ n \in DOMAIN expected
  BY <1>1 DEF TInv, QueueTypes
<1>4. /\ x = SendId => core = "awaitId" /\ n = Len(expected)
      /\ x = HsComplete => core = "awaitHs"
  BY <1>1, <1>3 DEF TInv, Handshakes, Outstanding
<1>5. core = "awaitHs" => x = HsComplete /\ w = <<>> /\ q = <<>>
  <2>1. core = "awaitHs" => expected = <<HsComplete>>
    BY DEF CoreExpects
  <2>2. expected = <<HsComplete>> => Len(expected) = 1 /\ expected[1] = HsComplete
    OBVIOUS
  <2>3. Len(expected) = 1 => Len(w) = 0 /\ Len(q) = 0 /\ n = 1
    BY <1>1, <1>2
  <2>4. QED
    BY <1>1, <1>2, <2>1, <2>2, <2>3
<1>6. core = "awaitId" /\ q = <<>> => x = SendId
  <2>1. core = "awaitId" => expected[Len(expected)] = SendId
    BY DEF CoreExpects
  <2>2. q = <<>> => Len(expected) = n
    BY <1>1, <1>2
  <2>3. QED
    BY <1>1, <2>1, <2>2
<1>7. expected # <<>>
  BY <1>1, <1>3, EmptySeq
<1>8. core \in {"awaitId", "awaitHs", "ready"}
  BY <1>7 DEF CoreExpects, TInv, ThreadTypes
<1>9. QED
  BY <1>1, <1>4, <1>5, <1>6, <1>8

LEMMA PhasesInit == Init => Phases
BY DEF Init, Phases

\* The steps of the node, while the connection is open.
LEMMA PhasesNode ==
  ASSUME WholeMessages, TInv, WholeReads, CoreExpects, CipherKeyed, Phases, Running, link = "open",
         (Receive \/ ConsumerThread \/ OutgoingThread)
  PROVE  Phases'
<1> DEFINE w == Written
           h == ConsumerAnswer
           q == Asked
<1> USE DEF nodeVars, coreVars, netVars
<1>1. w \in Seq(Outcomes) /\ h \in Seq(Outcomes) /\ q \in Seq(Outcomes)
  BY PartFacts
<1>2. /\ expected = Cat(w, Cat(h, q))
      /\ consumer = "pollSeed" =>
           /\ core \in {"awaitId", "giveSeed", "awaitHs"}
           /\ core = "awaitId" => q = <<>>
           /\ core = "awaitHs" => w = <<>>
      /\ consumer # "pollSeed" =>
           /\ core # "giveSeed"
           /\ core = "awaitId" => Cat(h, q) # <<>>
           /\ core = "awaitHs" => q = <<>>
  BY DEF Phases
<1>3. core' = core /\ expected' = expected /\ key' = key /\ link' = "open"
  BY DEF Receive, ConsumerThread, PollToken, PushId, PollSeed, HandshakeError, ConstructQpp,
         PushHsComplete, Cipher, OutgoingThread, PollReply, Write
<1> DEFINE NewPhases(v, g, r) ==
      /\ expected = Cat(v, Cat(g, r))
      /\ consumer' = "pollSeed" =>
           /\ core \in {"awaitId", "giveSeed", "awaitHs"}
           /\ core = "awaitId" => r = <<>>
           /\ core = "awaitHs" => v = <<>>
      /\ consumer' # "pollSeed" =>
           /\ core # "giveSeed"
           /\ core = "awaitId" => Cat(g, r) # <<>>
           /\ core = "awaitHs" => r = <<>>
<1>4. (Running' => NewPhases(Written', ConsumerAnswer', Asked')) => Phases'
  BY <1>3 DEF Phases
<1> HIDE DEF w, h, q
<1>5. CASE Receive
  <2>1. Written' = w /\ ConsumerAnswer' = h /\ Asked' = q
    BY <1>5, MoveRead DEF w, h, q
  <2>2. consumer' = consumer
    BY <1>5 DEF Receive
  <2>3. QED
    BY <1>2, <1>4, <2>1, <2>2
<1>6. CASE OutgoingThread
  <2>1. Written' = w
    BY <1>6, MoveOut DEF w
  <2>2. consumer' = consumer /\ ConsumerAnswer' = h /\ Asked' = q
    BY <1>6 DEF OutgoingThread, PollReply, Write, ConsumerAnswer, Asked, Unread, h, q
  <2>3. QED
    BY <1>2, <1>4, <2>1, <2>2
<1>7. CASE PollToken
  <2> DEFINE m == Head(incoming)
             x == AnswerTo(m, key)
             r == Asked'
  <2>1. m \in Messages /\ x \in Outcomes /\ r \in Seq(Outcomes) /\ q = Cat(One(x), r)
    BY <1>7, MovePoll DEF PollToken, q
  <2>2. Written' = w /\ h = <<>> /\ consumer = "poll" /\ acquired' = m
    BY <1>7 DEF PollToken, Written, ConsumerAnswer, w, h
  <2>3. Cat(h, q) = q
    BY <1>1, <2>2, CatFacts
  <2>4. q # <<>>
    <3>1. One(x) \in Seq(Outcomes) /\ One(x) # <<>>
      BY <2>1, OneFacts
    <3>2. QED
      BY <2>1, <3>1, CatFacts
  <2>5. expected = Cat(w, Cat(One(x), r))
    BY <1>2, <2>1, <2>3
  <2>6. core \in {"awaitId", "awaitHs", "ready"} /\ core # "awaitHs"
    <3>1. core # "awaitHs"
      BY <1>2, <2>2, <2>4
    <3>2. core \in {"awaitId", "awaitHs", "ready"}
      <4> HIDE DEF x, r
      <4>1. QED
        BY <1>1, <2>1, <2>5, InExpected
    <3>3. QED
      BY <3>1, <3>2
  <2>7. m.api # "SET_SEED"
    <3>1. x # HsComplete
      <4> HIDE DEF x, r
      <4>1. QED
        BY <1>1, <2>1, <2>5, <2>6, InExpected
    <3>2. QED
      BY <2>1, <3>1, MessageFacts
  <2>8. consumer' \in {"sendId", "cipher"} /\ ConsumerAnswer' = One(x)
    <3>1. m.api = "REQUEST_HANDSHAKE" \/ m.api \in Apis
      BY <2>1, <2>7, MessageFacts
    <3>2. consumer' = IF m.api = "REQUEST_HANDSHAKE" THEN "sendId" ELSE "cipher"
      BY <1>7, <2>2, <3>1, CipherReplyFacts DEF PollToken, Apis
    <3>3. m.api = "REQUEST_HANDSHAKE" => x = SendId
      BY <2>1, MessageFacts
    <3>4. QED
      BY <1>3, <2>2, <3>2, <3>3 DEF ConsumerAnswer, One
  <2>9. Cat(One(x), r) # <<>>
    BY <2>1, <2>4
  <2> HIDE DEF x, r
  <2>10. NewPhases(w, One(x), r)
    BY <2>5, <2>6, <2>8, <2>9
  <2>11. QED
    BY <1>4, <2>2, <2>8, <2>10 DEF r
<1>8. CASE PushId
  <2>1. h = One(SendId) /\ SendId \in Outcomes
    BY <1>8, ReplyFacts DEF PushId, ConsumerAnswer, One, Outcomes, h
  <2>2. Written' = Cat(w, h)
    BY <1>8, <2>1, MovePush DEF PushId, w
  <2>3. consumer' = "pollSeed" /\ ConsumerAnswer' = <<>> /\ Asked' = q
    BY <1>8 DEF PushId, ConsumerAnswer, Asked, Unread, q
  <2>4. core = "awaitId" /\ q = <<>>
    BY <1>1, <1>2, <2>1, InExpected
  <2>5. Cat(Cat(w, h), Cat(<<>>, q)) = Cat(w, Cat(h, q))
    <3>1. Cat(<<>>, q) = q
      BY <1>1, CatFacts
    <3>2. QED
      BY <1>1, <3>1, CatAssociative
  <2>6. NewPhases(Cat(w, h), <<>>, q)
    BY <1>2, <2>3, <2>4, <2>5
  <2>7. QED
    BY <1>4, <2>2, <2>3, <2>6
<1>9. CASE PollSeed
  <2> DEFINE m == Head(incoming)
             x == AnswerTo(m, key)
             r == Asked'
  <2>1. m \in Messages /\ x \in Outcomes /\ r \in Seq(Outcomes) /\ q = Cat(One(x), r)
    BY <1>9, MovePoll DEF PollSeed, q
  <2>2. Written' = w /\ h = <<>> /\ consumer' = "construct" /\ m.api = "SET_SEED"
    BY <1>9 DEF PollSeed, Written, ConsumerAnswer, w, h
  <2>3. Cat(h, q) = q
    BY <1>1, <2>2, CatFacts
  <2>4. x = HsComplete
    BY <2>1, <2>2, MessageFacts
  <2>5. ConsumerAnswer' = One(x)
    BY <2>2, <2>4 DEF ConsumerAnswer, One
  <2>6. expected = Cat(w, Cat(One(x), r))
    BY <1>2, <2>1, <2>3
  <2> HIDE DEF x, r
  <2>7. core = "awaitHs" /\ r = <<>>
    BY <1>1, <2>1, <2>4, <2>6, InExpected
  <2>8. NewPhases(w, One(x), r)
    BY <2>2, <2>6, <2>7
  <2>9. QED
    BY <1>4, <2>2, <2>5, <2>8 DEF r
<1>10. CASE HandshakeError
  <2>1. ~Running'
    BY <1>10 DEF HandshakeError, Running
  <2>2. QED
    BY <1>4, <2>1
<1>11. CASE ConstructQpp
  <2>1. Written' = w /\ ConsumerAnswer' = h /\ Asked' = q
        /\ consumer # "pollSeed" /\ consumer' # "pollSeed"
    BY <1>11 DEF ConstructQpp, Written, ConsumerAnswer, Asked, Unread, w, h, q
  <2>2. QED
    BY <1>2, <1>4, <2>1
<1>12. CASE PushHsComplete
  <2>1. h = One(HsComplete) /\ HsComplete \in Outcomes
    BY <1>12, ReplyFacts DEF PushHsComplete, ConsumerAnswer, One, Outcomes, h
  <2>2. Written' = Cat(w, h)
    BY <1>12, <2>1, MovePush DEF PushHsComplete, w
  <2>3. consumer' = "poll" /\ ConsumerAnswer' = <<>> /\ Asked' = q
    BY <1>12 DEF PushHsComplete, ConsumerAnswer, Asked, Unread, q
  <2>4. core = "awaitHs" /\ q = <<>>
    BY <1>1, <1>2, <2>1, InExpected
  <2>5. Cat(Cat(w, h), Cat(<<>>, q)) = Cat(w, Cat(h, q))
    <3>1. Cat(<<>>, q) = q
      BY <1>1, CatFacts
    <3>2. QED
      BY <1>1, <3>1, CatAssociative
  <2>6. NewPhases(Cat(w, h), <<>>, q)
    BY <1>2, <2>3, <2>4, <2>5
  <2>7. QED
    BY <1>4, <2>2, <2>3, <2>6
<1>13. CASE Cipher
  <2> DEFINE x == AnswerTo(acquired, key)
  <2>1. acquired \in Messages /\ acquired.api \in Apis
    BY <1>13, TokenFacts, CipherReplyFacts DEF Cipher, TInv, ThreadTypes, Handshakes, CipherAcquired
  <2>2. x \in Outcomes /\ x # SendId
    <3>1. key \in Seeds \union {None} /\ acquired.api # "REQUEST_HANDSHAKE"
      BY <2>1 DEF TInv, ThreadTypes, Apis
    <3>2. QED
      BY <2>1, <3>1, MessageFacts
  <2>3. x = Reply(CipherReply[acquired.api], acquired.payload, qpp)
    BY <1>13, <2>1 DEF AnswerTo, Apis, CipherKeyed, Cipher
  <2>4. h = One(x)
    BY <1>13 DEF Cipher, ConsumerAnswer, One, h
  <2>5. consumer # "pollSeed" /\ consumer' = "poll" /\ ConsumerAnswer' = <<>> /\ Asked' = q
    BY <1>13 DEF Cipher, ConsumerAnswer, Asked, Unread, q
  <2>6. outgoing' = Append(outgoing, x) /\ UNCHANGED <<sending, fromNode>>
    BY <1>13, <2>3 DEF Cipher
  <2> HIDE DEF x
  <2>7. Written' = Cat(w, h)
    BY <2>2, <2>4, <2>6, MovePush DEF w
  <2>8. Cat(<<>>, q) = q
    BY <1>1, CatFacts
  <2>9. core = "awaitId" => q # <<>>
    BY <1>1, <1>2, <2>2, <2>4, InExpected
  <2>10. Cat(Cat(w, h), Cat(<<>>, q)) = Cat(w, Cat(h, q))
    BY <1>1, <2>8, CatAssociative
  <2>11. NewPhases(Cat(w, h), <<>>, q)
    BY <1>2, <2>5, <2>8, <2>9, <2>10
  <2>12. QED
    BY <1>4, <2>5, <2>7, <2>11
<1>14. QED
  BY <1>5, <1>6, <1>7, <1>8, <1>9, <1>10, <1>11, <1>12, <1>13 DEF ConsumerThread

\* The steps of the Core Complex, and the connection coming up.
LEMMA PhasesCore ==
  ASSUME TInv, Linked, WholeReads, CoreExpects, Phases,
         Connect \/ RequestHandshake \/ (\E s \in Seeds : SetSeed(s)) \/ ReceiveAnswer
           \/ (\E api \in DOMAIN CipherReply, text \in Texts : RequestCipher(api, text)),
         Running', link' = "open"
  PROVE  Phases'
<1> USE DEF nodeVars, coreVars, netVars
<1>1. CASE Connect
  <2>1. /\ core = "idle" /\ consumer = "poll" /\ incoming = <<>> /\ outgoing = <<>>
        /\ sending = <<>> /\ fromNode = <<>> /\ toNode = <<>>
    BY <1>1 DEF Connect, Linked
  <2>2. /\ core' = "idle" /\ consumer' = "poll" /\ incoming' = <<>> /\ outgoing' = <<>>
        /\ sending' = <<>> /\ fromNode' = <<>> /\ toNode' = <<>> /\ key' = key
        /\ offset' = offset /\ expected' = expected
    BY <1>1, <2>1 DEF Connect
  <2>3. expected' = <<>>
    BY <2>1, <2>2 DEF CoreExpects
  <2>4. Cat(<<>>, <<>>) = <<>>
    BY DEF Cat
  <2>5. Written' = <<>> /\ ConsumerAnswer' = <<>>
    BY <2>2, <2>4 DEF Written, ConsumerAnswer
  <2>6. Unread' = <<>>
    <3>1. offset = AtBrace
      BY <2>1 DEF TInv, QueueTypes
    <3>2. QED
      BY <2>2, <3>1 DEF Unread
  <2>7. AnswersBy(<<>>, key) = <<>>
    <3>1. <<>> \in Seq(Messages) /\ key \in Seeds \union {None}
      BY DEF TInv, ThreadTypes
    <3>2. QED
      BY <3>1, AnswersFacts
  <2>8. Asked' = <<>>
    BY <2>2, <2>4, <2>6, <2>7 DEF Asked
  <2>9. QED
    BY <2>2, <2>3, <2>4, <2>5, <2>8 DEF Phases
<1>2. ASSUME NEW msg \in Messages, Ask(msg, key'), key' \in Seeds \union {None},
             key' = key \/ (Asked = <<>> /\ consumer = "pollSeed")
      PROVE  /\ Running /\ link = "open" /\ consumer' = consumer /\ Written' = Written
             /\ ConsumerAnswer' = ConsumerAnswer
             /\ AnswerTo(msg, key') \in Outcomes
             /\ Asked' = Cat(Asked, One(AnswerTo(msg, key')))
             /\ Asked' # <<>>
             /\ expected' = Append(expected, AnswerTo(msg, key'))
             /\ expected' = Cat(Written', Cat(ConsumerAnswer', Asked'))
  <2> DEFINE x == AnswerTo(msg, key')
             w == Written
             h == ConsumerAnswer
             q == Asked
  <2>1. Running /\ link = "open" /\ consumer' = consumer /\ acquired' = acquired
    BY <1>2 DEF Ask
  <2>2. /\ toNode' = Append(toNode, msg) /\ UNCHANGED <<incoming, offset>>
        /\ expected' = Append(expected, x)
    BY <1>2 DEF Ask
  <2>3. w \in Seq(Outcomes) /\ h \in Seq(Outcomes) /\ q \in Seq(Outcomes)
    BY <2>1, PartFacts
  <2>4. x \in Outcomes /\ Asked' = Cat(q, One(x))
    BY <1>2, <2>1, <2>2, MoveAsk
  <2>5. Written' = w
    BY <1>2 DEF Ask, Written
  <2>6. ConsumerAnswer' = h
    BY <1>2, <2>1 DEF ConsumerAnswer
  <2>7. expected = Cat(w, Cat(h, q))
    BY <2>1 DEF Phases
  <2> HIDE DEF x, w, h, q
  <2>8. One(x) \in Seq(Outcomes) /\ One(x) # <<>> /\ Cat(h, q) \in Seq(Outcomes)
    BY <2>3, <2>4, OneFacts, CatFacts
  <2>9. Append(expected, x) = Cat(expected, One(x))
    <3>1. expected \in Seq(Outcomes)
      BY <2>3, <2>7, <2>8, CatFacts
    <3>2. QED
      BY <2>4, <3>1, AppendIsCat
  <2>10. Cat(Cat(w, Cat(h, q)), One(x)) = Cat(w, Cat(Cat(h, q), One(x)))
    BY <2>3, <2>8, CatAssociative
  <2>11. Cat(Cat(h, q), One(x)) = Cat(h, Cat(q, One(x)))
    BY <2>3, <2>8, CatAssociative
  <2>12. Cat(q, One(x)) # <<>>
    BY <2>3, <2>8, CatFacts
  <2>13. expected' = Cat(w, Cat(h, Asked'))
    BY <2>2, <2>4, <2>7, <2>9, <2>10, <2>11
  <2>14. QED
    BY <2>1, <2>2, <2>4, <2>5, <2>6, <2>12, <2>13 DEF x, w, h, q
<1>3. CASE RequestHandshake
  <2> DEFINE msg == Token("REQUEST_HANDSHAKE", None)
  <2>1. msg \in Messages /\ key' = key /\ Ask(msg, key') /\ core \in {"idle", "ready"}
        /\ core' = "awaitId" /\ key' \in Seeds \union {None}
    BY <1>3, AskedFacts DEF RequestHandshake, TInv, ThreadTypes
  <2> HIDE DEF msg
  <2>2. /\ Running /\ link = "open" /\ consumer' = consumer /\ Asked' # <<>>
        /\ expected' = Cat(Written', Cat(ConsumerAnswer', Asked'))
        /\ Asked' \in Seq(Outcomes) /\ ConsumerAnswer' \in Seq(Outcomes)
    <3>1. /\ Running /\ link = "open" /\ consumer' = consumer /\ Asked' # <<>>
          /\ expected' = Cat(Written', Cat(ConsumerAnswer', Asked'))
          /\ Asked' = Cat(Asked, One(AnswerTo(msg, key'))) /\ AnswerTo(msg, key') \in Outcomes
          /\ ConsumerAnswer' = ConsumerAnswer
      BY <1>2, <2>1
    <3>2. Asked \in Seq(Outcomes) /\ ConsumerAnswer \in Seq(Outcomes)
      BY <3>1, PartFacts
    <3>3. One(AnswerTo(msg, key')) \in Seq(Outcomes)
      BY <3>1, OneFacts
    <3>4. Cat(Asked, One(AnswerTo(msg, key'))) \in Seq(Outcomes)
      BY <3>2, <3>3, CatFacts
    <3>5. QED
      BY <3>1, <3>2, <3>4
  <2>3. consumer # "pollSeed"
    BY <2>1, <2>2 DEF Phases
  <2>4. Cat(ConsumerAnswer', Asked') # <<>>
    BY <2>2, CatFacts
  <2>5. QED
    BY <2>1, <2>2, <2>3, <2>4 DEF Phases
<1>4. CASE \E s \in Seeds : SetSeed(s)
  <2>1. PICK s \in Seeds : SetSeed(s)
    BY <1>4
  <2> DEFINE msg == Token("SET_SEED", s)
  <2>2. msg \in Messages /\ key' = s /\ Ask(msg, key') /\ core = "giveSeed" /\ core' = "awaitHs"
    BY <2>1, AskedFacts DEF SetSeed
  <2>3. Running /\ link = "open"
    BY <2>2 DEF Ask
  <2>4. consumer = "pollSeed"
    BY <2>2, <2>3 DEF Phases
  <2>5. Asked = <<>> /\ Written = <<>>
    <3>1. expected = <<>> /\ expected = Cat(Written, Cat(ConsumerAnswer, Asked))
      BY <2>2, <2>3 DEF CoreExpects, Phases
    <3>2. Written \in Seq(Outcomes) /\ ConsumerAnswer \in Seq(Outcomes) /\ Asked \in Seq(Outcomes)
      BY <2>3, PartFacts
    <3>3. Cat(ConsumerAnswer, Asked) \in Seq(Outcomes)
      BY <3>2, CatFacts
    <3>4. Written = <<>> /\ Cat(ConsumerAnswer, Asked) = <<>>
      BY <3>1, <3>2, <3>3, CatFacts
    <3>5. QED
      BY <3>2, <3>4, CatFacts
  <2> HIDE DEF msg
  <2>6. /\ consumer' = consumer /\ Written' = Written
        /\ expected' = Cat(Written', Cat(ConsumerAnswer', Asked'))
    BY <1>2, <2>2, <2>4, <2>5
  <2>7. QED
    BY <2>2, <2>4, <2>5, <2>6 DEF Phases
<1>5. CASE \E api \in DOMAIN CipherReply, text \in Texts : RequestCipher(api, text)
  <2>1. PICK api \in Apis, text \in Texts : RequestCipher(api, text)
    BY <1>5, CipherReplyFacts
  <2> DEFINE msg == Token(api, text)
  <2>2. msg \in Messages /\ key' = key /\ Ask(msg, key') /\ core = "ready" /\ core' = "ready"
        /\ key' \in Seeds \union {None}
    BY <2>1, AskedFacts DEF RequestCipher, TInv, ThreadTypes
  <2> HIDE DEF msg
  <2>3. /\ Running /\ link = "open" /\ consumer' = consumer
        /\ expected' = Cat(Written', Cat(ConsumerAnswer', Asked'))
    BY <1>2, <2>2
  <2>4. consumer # "pollSeed"
    BY <2>2, <2>3 DEF Phases
  <2>5. QED
    BY <2>2, <2>3, <2>4 DEF Phases
<1>6. CASE ReceiveAnswer
  <2> DEFINE w == Written
             h == ConsumerAnswer
             q == Asked
             p == Cat(h, q)
  <2>1. Running /\ link = "open"
    BY <1>6 DEF ReceiveAnswer, Running
  <2>2. w \in Seq(Outcomes) /\ h \in Seq(Outcomes) /\ q \in Seq(Outcomes)
    BY <2>1, PartFacts
  <2>3. p \in Seq(Outcomes)
    BY <2>2, CatFacts
  <2>4. expected = Cat(w, p)
    BY <2>1 DEF Phases
  <2>5. w # <<>> /\ Head(w) = Head(fromNode) /\ Written' = Tail(w)
    BY <1>6, MoveReceived DEF ReceiveAnswer
  <2>6. consumer' = consumer /\ ConsumerAnswer' = h /\ Asked' = q /\ expected' = Tail(expected)
    BY <1>6 DEF ReceiveAnswer, ConsumerAnswer, Asked, Unread
  <2>7. /\ consumer = "pollSeed" =>
             /\ core \in {"awaitId", "giveSeed", "awaitHs"}
             /\ core = "awaitId" => q = <<>>
             /\ core = "awaitHs" => w = <<>>
        /\ consumer # "pollSeed" =>
             /\ core # "giveSeed"
             /\ core = "awaitId" => p # <<>>
             /\ core = "awaitHs" => q = <<>>
    BY <2>1 DEF Phases
  <2> HIDE DEF w, h, q, p
  <2>8. expected' = Cat(Written', p)
    BY <2>2, <2>3, <2>4, <2>5, <2>6, TailOfFirstPart
  <2>9. Len(expected) = 1 => p = <<>>
    <3>1. Len(Cat(w, p)) = Len(w) + Len(p)
      BY <2>2, <2>3, CatFacts
    <3>2. Len(w) \in Nat /\ Len(p) \in Nat /\ (Len(w) = 0 => w = <<>>) /\ (Len(p) = 0 => p = <<>>)
      BY <2>2, <2>3, LenProperties, EmptySeq
    <3>3. Len(w) # 0
      BY <2>5, <3>2
    <3>4. Len(Cat(w, p)) = 1 => Len(p) = 0
      <4>1. \A m, n \in Nat : m # 0 /\ m + n = 1 => n = 0
        OBVIOUS
      <4>2. QED
        BY <3>1, <3>2, <3>3, <4>1, Zenon
    <3>5. QED
      BY <2>4, <3>2, <3>4
  <2>10. /\ Head(fromNode) = SendId => core = "awaitId" /\ Len(expected) = 1 /\ core' = "giveSeed"
         /\ Head(fromNode) = HsComplete => core = "awaitHs" /\ core' = "ready"
         /\ Head(fromNode) \notin {SendId, HsComplete} =>
              core' = core /\ core \in {"awaitId", "ready"}
    BY <1>6, AnswerReceived
  <2>11. expected' = Cat(Written', Cat(ConsumerAnswer', Asked'))
    BY <2>6, <2>8 DEF p
  <2>12. CASE Head(fromNode) = SendId
    <3>1. consumer = "pollSeed" /\ core' = "giveSeed"
      BY <2>7, <2>9, <2>10, <2>12
    <3>2. QED
      BY <2>6, <2>11, <3>1 DEF Phases
  <2>13. CASE Head(fromNode) = HsComplete
    <3>1. consumer # "pollSeed" /\ core' = "ready"
      BY <2>5, <2>7, <2>10, <2>13
    <3>2. QED
      BY <2>6, <2>11, <3>1 DEF Phases
  <2>14. CASE Head(fromNode) \notin {SendId, HsComplete}
    <3>1. core' = core /\ core \in {"awaitId", "ready"} /\ Cat(ConsumerAnswer', Asked') = p
      BY <2>6, <2>10, <2>14 DEF p
    <3>2. QED
      BY <2>6, <2>7, <2>11, <3>1 DEF Phases
  <2>15. QED
    BY <2>12, <2>13, <2>14
<1>7. QED
  BY <1>1, <1>3, <1>4, <1>5, <1>6

LEMMA PhasesStep ==
  ASSUME WholeMessages, TInv, Linked, WholeReads, CoreExpects, CipherKeyed, Phases, [Next]_vars
  PROVE  Phases'
<1> SUFFICES ASSUME Running', link' = "open" PROVE Phases'
  BY DEF Phases
<1> USE DEF nodeVars, coreVars, netVars
<1>1. CASE Receive \/ ConsumerThread \/ OutgoingThread
  <2>1. Running /\ link = "open"
    BY <1>1 DEF Receive, ConsumerThread, PollToken, PushId, PollSeed, HandshakeError, ConstructQpp,
                PushHsComplete, Cipher, OutgoingThread, PollReply, Write
  <2>2. QED
    BY <1>1, <2>1, PhasesNode
<1>2. CASE Connect \/ RequestHandshake \/ (\E s \in Seeds : SetSeed(s)) \/ ReceiveAnswer
             \/ (\E api \in DOMAIN CipherReply, text \in Texts : RequestCipher(api, text))
  BY <1>2, PhasesCore
<1>3. CASE ConnectFails \/ ReceiveNothing \/ Close \/ Reset
  BY <1>3 DEF ConnectFails, ReceiveNothing, Close, Reset, Running
<1>4. CASE DeleteSeed \/ UNCHANGED vars
  <2>1. UNCHANGED <<status, consumer, acquired, sending, incoming, outgoing, link, toNode,
                    offset, fromNode, core, expected, key>>
    BY <1>4 DEF DeleteSeed, vars
  <2>2. /\ Written' = Written /\ ConsumerAnswer' = ConsumerAnswer /\ Asked' = Asked
        /\ Running' = Running
    BY <2>1 DEF Written, ConsumerAnswer, Asked, Unread, Running
  <2>3. QED
    BY <2>1, <2>2 DEF Phases
<1>5. QED
  BY <1>1, <1>2, <1>3, <1>4 DEF Next, IncomingThread, CoreComplex

-----------------------------------------------------------------------------
(* The node stays                                                          *)

\* A message that is found where the seed should be contradicts the phase of the handshake.
LEMMA NoHandshakeError ==
  ASSUME TInv, WholeReads, CoreExpects, Phases, HandshakeError
  PROVE  link # "open"
<1> SUFFICES ASSUME link = "open" PROVE FALSE
  OBVIOUS
<1> USE DEF nodeVars, coreVars, netVars
<1> DEFINE x == AnswerTo(Head(incoming), key)
           w == Written
           q == Asked'
<1>1. /\ Running /\ consumer = "pollSeed" /\ incoming # <<>> /\ incoming' = Tail(incoming)
      /\ Head(incoming).api # "SET_SEED" /\ UNCHANGED <<toNode, offset, key>>
  BY DEF HandshakeError
<1>2. /\ Head(incoming) \in Messages
      /\ x \in Outcomes /\ q \in Seq(Outcomes) /\ Asked = Cat(One(x), q)
  BY <1>1, MovePoll
<1>3. x # HsComplete
  BY <1>1, <1>2, MessageFacts
<1>4. w \in Seq(Outcomes) /\ expected = Cat(w, Cat(ConsumerAnswer, Asked)) /\ Asked # <<>>
  BY <1>1, PartFacts DEF Phases
<1>5. core \in {"awaitId", "giveSeed", "awaitHs"} /\ core # "awaitId"
  BY <1>1, <1>4 DEF Phases
<1>6. ConsumerAnswer = <<>>
  BY <1>1 DEF ConsumerAnswer
<1> HIDE DEF x, w, q
<1>7. Cat(One(x), q) \in Seq(Outcomes)
  BY <1>2, OneFacts, CatFacts
<1>8. Cat(<<>>, Cat(One(x), q)) = Cat(One(x), q)
  BY <1>7, CatFacts
<1>9. expected = Cat(w, Cat(One(x), q))
  BY <1>2, <1>4, <1>6, <1>8
<1>10. core \in {"awaitId", "awaitHs", "ready"} /\ (core = "awaitHs" => x = HsComplete)
  BY <1>2, <1>4, <1>9, InExpected
<1>11. QED
  BY <1>3, <1>5, <1>10

LEMMA StaysStep ==
  ASSUME TInv, WholeReads, CoreExpects, Phases, ExitOnlyWhenPeerGone, [Next]_vars
  PROVE  ExitOnlyWhenPeerGone'
<1> SUFFICES ASSUME status' = "exited" PROVE link' # "open"
  BY DEF ExitOnlyWhenPeerGone
<1> USE DEF nodeVars, coreVars, netVars, Running
<1>1. CASE HandshakeError
  BY <1>1, NoHandshakeError DEF HandshakeError
<1>2. CASE ConnectFails
  BY <1>2 DEF ConnectFails
<1>3. CASE Write
  BY <1>3 DEF Write
<1>4. CASE \/ DeleteSeed \/ Connect \/ Receive \/ ReceiveNothing \/ PollToken \/ PushId \/ PollSeed
           \/ ConstructQpp \/ PushHsComplete \/ Cipher \/ PollReply \/ RequestHandshake
           \/ (\E s \in Seeds : SetSeed(s))
           \/ (\E api \in DOMAIN CipherReply, text \in Texts : RequestCipher(api, text))
  BY <1>4 DEF DeleteSeed, Connect, Receive, ReceiveNothing, PollToken, PushId, PollSeed,
              ConstructQpp, PushHsComplete, Cipher, PollReply, RequestHandshake, SetSeed,
              RequestCipher, Ask
<1>5. CASE ReceiveAnswer \/ Close \/ Reset \/ UNCHANGED vars
  BY <1>5 DEF ReceiveAnswer, Close, Reset, vars, ExitOnlyWhenPeerGone
<1>6. QED
  BY <1>1, <1>2, <1>3, <1>4, <1>5
     DEF Next, IncomingThread, ConsumerThread, OutgoingThread, CoreComplex

-----------------------------------------------------------------------------
(* What was written                                                        *)

\* The replies that were written are the first of those expected, also when the
\* connection is no longer open.
WrittenFirst ==
  Len(fromNode) <= Len(expected) /\ \A i \in 1..Len(fromNode) : fromNode[i] = expected[i]

LEMMA FirstPart ==
  ASSUME NEW S, NEW p \in Seq(S), NEW q \in Seq(S)
  PROVE  Len(p) <= Len(Cat(p, q)) /\ \A i \in 1..Len(p) : p[i] = Cat(p, q)[i]
<1>1. Len(p) \in Nat /\ Len(q) \in Nat /\ Len(Cat(p, q)) = Len(p) + Len(q)
  BY LenProperties, CatFacts
<1>2. ASSUME NEW i \in 1..Len(p) PROVE p[i] = Cat(p, q)[i]
  <2>1. i \in 1..(Len(p) + Len(q)) /\ i <= Len(p)
    BY <1>1
  <2>2. QED
    BY <2>1, CatElements
<1>3. QED
  BY <1>1, <1>2

LEMMA WrittenFirstStep ==
  ASSUME TInv, WholeReads, Phases, WrittenFirst, [Next]_vars
  PROVE  WrittenFirst'
<1>0. expected \in Seq(Replies) /\ fromNode \in Seq(Replies)
      /\ sending \in Seq(Replies) /\ outgoing \in Seq(Replies)
  BY DEF TInv, QueueTypes
<1> USE DEF nodeVars, coreVars, netVars
<1>1. CASE Write
  <2>1. CASE link = "open"
    <3> DEFINE p == Cat(fromNode, sending)
               q == outgoing
               r == Cat(ConsumerAnswer, Asked)
    <3>1. fromNode' = p /\ expected' = expected /\ Running
      BY <1>1, <2>1 DEF Write, Cat
    <3>2. p \in Seq(Replies) /\ q \in Seq(Replies)
      BY <1>0, CatFacts
    <3>3. p \in Seq(Outcomes) /\ q \in Seq(Outcomes)
      BY <3>2, SeqMonotonic DEF Outcomes
    <3>4. expected = Cat(Cat(p, q), r)
      BY <2>1, <3>1 DEF Phases, Written
    <3>5. r \in Seq(Outcomes)
      BY <2>1, PartFacts, CatFacts
    <3> HIDE DEF p, q, r
    <3>6. Cat(Cat(p, q), r) = Cat(p, Cat(q, r)) /\ Cat(q, r) \in Seq(Outcomes)
      BY <3>3, <3>5, CatAssociative, CatFacts
    <3>7. Len(p) <= Len(expected) /\ \A i \in 1..Len(p) : p[i] = expected[i]
      BY <3>3, <3>4, <3>6, FirstPart
    <3>8. QED
      BY <3>1, <3>7 DEF WrittenFirst
  <2>2. CASE link # "open"
    <3>1. fromNode' = fromNode /\ expected' = expected
      BY <1>1, <2>2 DEF Write
    <3>2. QED
      BY <3>1 DEF WrittenFirst
  <2>3. QED
    BY <2>1, <2>2
<1>2. CASE RequestHandshake \/ (\E s \in Seeds : SetSeed(s))
             \/ (\E api \in DOMAIN CipherReply, text \in Texts : RequestCipher(api, text))
  <2>1. \E msg, k : Ask(msg, k)
    BY <1>2 DEF RequestHandshake, SetSeed, RequestCipher
  <2>2. PICK reply : expected' = Append(expected, reply)
    BY <2>1 DEF Ask
  <2>3. fromNode' = fromNode
    BY <2>1 DEF Ask
  <2>4. Len(expected') = Len(expected) + 1 /\ \A i \in 1..Len(expected) : expected'[i] = expected[i]
    BY <1>0, <2>2
  <2>5. Len(fromNode) \in Nat /\ Len(expected) \in Nat
    BY <1>0, LenProperties
  <2>6. \A i \in 1..Len(fromNode) : i \in 1..Len(expected)
    BY <2>5 DEF WrittenFirst
  <2>7. QED
    BY <2>3, <2>4, <2>5, <2>6 DEF WrittenFirst
<1>3. CASE ReceiveAnswer
  <2>1. fromNode # <<>> /\ expected # <<>> /\ fromNode' = Tail(fromNode) /\ expected' = Tail(expected)
    BY <1>3 DEF ReceiveAnswer
  <2>2. /\ Len(fromNode') = Len(fromNode) - 1 /\ Len(expected') = Len(expected) - 1
        /\ \A i \in 1..Len(fromNode') : fromNode'[i] = fromNode[i + 1]
        /\ \A i \in 1..Len(expected') : expected'[i] = expected[i + 1]
    BY <1>0, <2>1, HeadTailProperties
  <2>3. Len(fromNode) \in Nat /\ Len(expected) \in Nat
    BY <1>0, LenProperties
  <2>4. \A i \in 1..Len(fromNode') : i + 1 \in 1..Len(fromNode) /\ i \in 1..Len(expected')
    BY <2>2, <2>3 DEF WrittenFirst
  <2>5. Len(fromNode') <= Len(expected')
    BY <2>2, <2>3 DEF WrittenFirst
  <2>6. QED
    BY <2>2, <2>4, <2>5 DEF WrittenFirst
<1>4. CASE DeleteSeed \/ IncomingThread \/ ConsumerThread \/ PollReply \/ Close \/ Reset \/ UNCHANGED vars
  <2>1. UNCHANGED <<fromNode, expected>>
    BY <1>4 DEF DeleteSeed, IncomingThread, Connect, ConnectFails, Receive, ReceiveNothing,
                ConsumerThread, PollToken, PushId, PollSeed, HandshakeError, ConstructQpp,
                PushHsComplete, Cipher, PollReply, Close, Reset, vars
  <2>2. QED
    BY <2>1 DEF WrittenFirst
<1>5. QED
  BY <1>1, <1>2, <1>3, <1>4 DEF Next, OutgoingThread, CoreComplex

-----------------------------------------------------------------------------
(* The theorems                                                            *)

SInv == WholeReads /\ Phases /\ ExitOnlyWhenPeerGone /\ WrittenFirst

LEMMA SInvInit == Init => SInv
<1> SUFFICES ASSUME Init PROVE SInv
  OBVIOUS
<1>1. ExitOnlyWhenPeerGone
  BY DEF Init, ExitOnlyWhenPeerGone
<1>2. fromNode = <<>> /\ expected = <<>>
  BY DEF Init
<1>3. WrittenFirst
  BY <1>2 DEF WrittenFirst
<1>4. QED
  BY <1>1, <1>3, WholeReadsInit, PhasesInit DEF SInv

LEMMA SInvStep ==
  ASSUME WholeMessages, TInv, OInv, SInv, [Next]_vars
  PROVE  SInv'
<1>0. Linked /\ CoreExpects /\ CipherKeyed /\ WholeReads /\ Phases /\ ExitOnlyWhenPeerGone /\ WrittenFirst
  BY CipherHasTheSeed DEF OInv, SInv
<1>1. WholeReads'
  BY <1>0, WholeReadsStep
<1>2. Phases'
  BY <1>0, PhasesStep
<1>3. ExitOnlyWhenPeerGone'
  BY <1>0, StaysStep
<1>4. WrittenFirst'
  BY <1>0, WrittenFirstStep
<1>5. QED
  BY <1>1, <1>2, <1>3, <1>4 DEF SInv

LEMMA SInvAlways ==
  ASSUME WholeMessages, PromptMain
  PROVE  Spec => [](TInv /\ OInv /\ SInv)
<1>1. TInv /\ OInv /\ SInv /\ [Next]_vars => SInv'
  BY SInvStep
<1>2. QED
  BY <1>1, OInvAlways, SInvInit, PTL DEF Spec

\* While the connection is open, the answers under way in four threads, two queues and the
\* connection are those the Core Complex waits for, one for each message, in its order,
\* each text under the seed in force when the message was sent: for any seeds and texts,
\* any number of messages, and also when the connection ends later.
THEOREM PipelineIsExpected ==
  ASSUME WholeMessages, PromptMain
  PROVE  Spec => []PipelineMatchesExpected
<1>1. TInv /\ SInv => PipelineMatchesExpected
  <2> SUFFICES ASSUME TInv, SInv, Running, link = "open" PROVE Pipeline = expected
    BY DEF PipelineMatchesExpected
  <2>1. WholeReads /\ Phases
    BY DEF SInv
  <2>2. Pipeline = Cat(Written, Cat(ConsumerAnswer, Asked))
    BY <2>1, PartFacts
  <2>3. expected = Cat(Written, Cat(ConsumerAnswer, Asked))
    BY <2>1 DEF Phases
  <2>4. QED
    BY <2>2, <2>3
<1>2. QED
  BY <1>1, SInvAlways, PTL

\* As long as the connection is open no handshake is found erroneous: when the consumer
\* thread polls for the seed, no request that the Core Complex sent ahead, and no newline
\* that was read apart, is in front of it.
THEOREM NodeStays ==
  ASSUME WholeMessages, PromptMain
  PROVE  Spec => []ExitOnlyWhenPeerGone
<1>1. SInv => ExitOnlyWhenPeerGone
  BY DEF SInv
<1>2. QED
  BY <1>1, SInvAlways, PTL

\* The node and the Core Complex never wait for each other: for any seeds, texts and bounds,
\* when every thread of the node blocks on an open connection what is expected has been
\* written, and the consumer thread waits for a seed exactly when one will be given.
THEOREM NeverStandsStill ==
  ASSUME WholeMessages, PromptMain
  PROVE  Spec => []NoStandstill
<1>1. TInv /\ OInv /\ SInv => NoStandstill
  <2> SUFFICES ASSUME TInv, OInv, SInv, Running, link = "open", NodeAtRest
               PROVE  /\ fromNode = expected
                      /\ consumer = "pollSeed" <=> core \in {"awaitId", "giveSeed"}
    BY DEF NoStandstill
  <2>1. WholeReads /\ Phases /\ CoreExpects
    BY DEF SInv, OInv
  <2>2. /\ toNode = <<>> /\ incoming = <<>> /\ outgoing = <<>> /\ sending = <<>>
        /\ consumer \in {"poll", "pollSeed"}
    BY DEF NodeAtRest
  <2>3. ConsumerAnswer = <<>>
    BY <2>2 DEF ConsumerAnswer
  <2>4. Asked = <<>>
    BY <2>1, <2>2, PartFacts, UnreadFacts
  <2>5. Written = fromNode
    <3>1. fromNode \in Seq(Replies)
      BY DEF TInv, QueueTypes
    <3>2. Cat(fromNode, <<>>) = fromNode
      BY <3>1, CatFacts
    <3>3. QED
      BY <2>2, <3>2 DEF Written
  <2>6. Cat(ConsumerAnswer, Asked) = <<>>
    BY <2>1, <2>3, <2>4, PartFacts, CatFacts
  <2>7. fromNode = expected
    <3>1. Cat(Written, <<>>) = Written
      BY <2>1, PartFacts, CatFacts
    <3>2. expected = Cat(Written, Cat(ConsumerAnswer, Asked))
      BY <2>1 DEF Phases
    <3>3. QED
      BY <2>5, <2>6, <3>1, <3>2
  <2>8. core = "awaitHs" => expected # <<>>
    BY <2>1 DEF CoreExpects
  <2>9. CASE consumer = "pollSeed"
    <3>1. core \in {"awaitId", "giveSeed", "awaitHs"}
      BY <2>1, <2>9 DEF Phases
    <3>2. core = "awaitHs" => Written = <<>>
      BY <2>1, <2>9 DEF Phases
    <3>3. core # "awaitHs"
      BY <2>5, <2>7, <2>8, <3>2
    <3>4. QED
      BY <2>7, <2>9, <3>1, <3>3
  <2>10. CASE consumer = "poll"
    <3>1. core \notin {"awaitId", "giveSeed"}
      BY <2>1, <2>6, <2>10 DEF Phases
    <3>2. QED
      BY <2>7, <2>10, <3>1
  <2>11. QED
    BY <2>2, <2>7, <2>9, <2>10
<1>2. QED
  BY <1>1, SInvAlways, PTL

\* Every step of the node and of the connection is a step of CipherService, or none.
LEMMA ServiceStep ==
  ASSUME TInv, OInv, SInv, [Next]_vars
  PROVE  [Service!Next]_(Service!vars)
<1> USE DEF nodeVars, coreVars, netVars
<1>0. /\ TInv /\ CoreExpects /\ WrittenFirst
      /\ sent \in Nat /\ MaxSent \in Nat /\ sent <= MaxSent /\ Window \in Nat /\ Window > 0
  BY BoundsAssumption DEF OInv, SInv, TInv, ThreadTypes
<1>1. CASE RequestHandshake
  <2>1. /\ sent + 2 <= MaxSent /\ Len(expected) < Window /\ key' = key
        /\ sent' = sent + 1 /\ expected' = Append(expected, SendId) /\ got' = got
    BY <1>1, AskedFacts DEF RequestHandshake, Ask
  <2>2. sent < MaxSent
    BY <1>0, <2>1
  <2>3. Service!AskId
    BY <2>1, <2>2 DEF Service!AskId, Service!Ask, Service!SendId, Service!Reply, SendId, Reply
  <2>4. QED
    BY <2>3 DEF Service!Next
<1>2. CASE \E s \in Seeds : SetSeed(s)
  <2>1. PICK s \in Seeds : SetSeed(s)
    BY <1>2
  <2>2. /\ core = "giveSeed" /\ key' = s
        /\ sent' = sent + 1 /\ expected' = Append(expected, HsComplete) /\ got' = got
    BY <2>1, AskedFacts DEF SetSeed, Ask
  <2>3. expected = <<>> /\ sent + 1 <= MaxSent
    BY <1>0, <2>2 DEF CoreExpects, TInv, Handshakes, Reserved
  <2>4. sent < MaxSent /\ Len(expected) < Window
    BY <1>0, <2>3, EmptySeq
  <2>5. Service!AskSeed(s)
    BY <2>2, <2>3, <2>4
       DEF Service!AskSeed, Service!Ask, Service!HsComplete, Service!Reply, HsComplete, Reply
  <2>6. QED
    BY <2>5 DEF Service!Next
<1>3. CASE \E api \in DOMAIN CipherReply, text \in Texts : RequestCipher(api, text)
  <2>1. PICK api \in Apis, text \in Texts : RequestCipher(api, text)
    BY <1>3, CipherReplyFacts
  <2>2. /\ core = "ready" /\ Len(expected) < Window /\ sent < MaxSent /\ key' = key
        /\ sent' = sent + 1 /\ got' = got
        /\ expected' = Append(expected, Reply(CipherReply[api], text, key))
    BY <2>1, AskedFacts DEF RequestCipher, Ask
  <2>3. key # None
    BY <1>0, <2>2, PayloadAssumption DEF TInv, Handshakes, KeyGiven
  <2>4. CipherReply[api] \in Service!CipherReplies
    BY CipherReplyFacts DEF Service!CipherReplies
  <2>5. Service!AskCipher(CipherReply[api], text)
    BY <2>2, <2>3 DEF Service!AskCipher, Service!Ask, Service!Reply, Reply
  <2>6. QED
    BY <2>4, <2>5 DEF Service!Next
<1>4. CASE ReceiveAnswer
  <2>1. /\ fromNode # <<>> /\ expected # <<>>
        /\ got' = Head(fromNode) /\ expected' = Tail(expected) /\ UNCHANGED <<key, sent>>
    BY <1>4 DEF ReceiveAnswer
  <2>2. fromNode \in Seq(Replies) /\ expected \in Seq(Replies)
    BY <1>0 DEF TInv, QueueTypes
  <2>3. Head(fromNode) = Head(expected)
    <3>1. Head(fromNode) = fromNode[1] /\ Head(expected) = expected[1] /\ 1 \in 1..Len(fromNode)
      BY <2>1, <2>2
    <3>2. QED
      BY <1>0, <3>1 DEF WrittenFirst
  <2>4. Service!Answer
    BY <2>1, <2>3 DEF Service!Answer
  <2>5. QED
    BY <2>4 DEF Service!Next
<1>5. CASE \/ DeleteSeed \/ IncomingThread \/ ConsumerThread \/ OutgoingThread
           \/ Close \/ Reset \/ UNCHANGED vars
  BY <1>5 DEF DeleteSeed, IncomingThread, Connect, ConnectFails, Receive, ReceiveNothing,
              ConsumerThread, PollToken, PushId, PollSeed, HandshakeError, ConstructQpp,
              PushHsComplete, Cipher, OutgoingThread, PollReply, Write, Close, Reset, vars,
              Service!vars
<1>6. QED
  BY <1>1, <1>2, <1>3, <1>4, <1>5 DEF Next, CoreComplex

\* However the connection ends, the node implements the safety part of CipherService: what
\* the Core Complex receives is the answer to its oldest unanswered message, for its text
\* and under the right seed.  Answers may be lost, never wrong.
THEOREM AnswersAreNeverWrong ==
  ASSUME WholeMessages, PromptMain
  PROVE  Spec => NeverAnswersWrongly
<1>1. Init => Service!Init
  BY DEF Init, Service!Init
<1>2. TInv /\ OInv /\ SInv /\ [Next]_vars => [Service!Next]_(Service!vars)
  BY ServiceStep
<1>3. QED
  BY <1>1, <1>2, SInvAlways, PTL DEF Spec, NeverAnswersWrongly

=============================================================================
