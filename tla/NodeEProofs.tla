------------------------------ MODULE NodeEProofs ------------------------------
(***************************************************************************)
(* Theorems about NodeE, for any seeds, texts and bounds, however the      *)
(* reads cut the stream and whenever the connection ends: types, that the  *)
(* cipher is constructed before it is used, that answers keep their order, *)
(* that both ends use the same seed, and that every step leaves less to be *)
(* done.  The lemmas serve NodeEServiceProofs as well.                     *)
(***************************************************************************)
EXTENDS NodeE, SequenceTheorems, TLAPS

-----------------------------------------------------------------------------
(* Sequences                                                               *)

\* Concatenation, and the sequence of one element, as operators whose definitions the
\* proofs expand only here.
Cat(p, q) == p \o q

One(e) == <<e>>

\* What concatenation returns.
LEMMA CatFacts ==
  ASSUME NEW S, NEW p \in Seq(S), NEW q \in Seq(S)
  PROVE  /\ Cat(p, q) \in Seq(S)
         /\ Len(Cat(p, q)) = Len(p) + Len(q)
         /\ Cat(p, <<>>) = p /\ Cat(<<>>, p) = p
         /\ Cat(p, q) = <<>> <=> p = <<>> /\ q = <<>>
<1>1. Cat(p, q) \in Seq(S) /\ Len(Cat(p, q)) = Len(p) + Len(q)
  BY ConcatProperties DEF Cat
<1>2. Cat(p, <<>>) = p /\ Cat(<<>>, p) = p
  BY ConcatEmptySeq DEF Cat
<1>3. Cat(p, q) = <<>> <=> p = <<>> /\ q = <<>>
  BY ConcatEqualIffEmpty DEF Cat
<1>4. QED
  BY <1>1, <1>2, <1>3

\* The elements of a concatenation.
LEMMA CatElements ==
  ASSUME NEW S, NEW p \in Seq(S), NEW q \in Seq(S), NEW i \in 1..(Len(p) + Len(q))
  PROVE  Cat(p, q)[i] = IF i <= Len(p) THEN p[i] ELSE q[i - Len(p)]
BY ConcatProperties DEF Cat

\* Three parts can be taken together in either way.
LEMMA CatAssociative ==
  ASSUME NEW S, NEW p \in Seq(S), NEW q \in Seq(S), NEW r \in Seq(S)
  PROVE  Cat(Cat(p, q), r) = Cat(p, Cat(q, r))
BY ConcatAssociative DEF Cat

\* The sequence of one element.
LEMMA OneFacts ==
  ASSUME NEW S, NEW e \in S
  PROVE  /\ One(e) \in Seq(S) /\ Len(One(e)) = 1 /\ One(e)[1] = e /\ One(e) # <<>>
         /\ Head(One(e)) = e /\ Tail(One(e)) = <<>>
BY DEF One

\* To append an element is to concatenate it.
LEMMA AppendIsCat ==
  ASSUME NEW S, NEW p \in Seq(S), NEW e \in S
  PROVE  Append(p, e) = Cat(p, One(e))
BY AppendIsConcat DEF Cat, One

\* Four parts, the last three taken together.
LEMMA Regroup ==
  ASSUME NEW S, NEW w \in Seq(S), NEW c \in Seq(S), NEW e \in Seq(S), NEW f \in Seq(S)
  PROVE  Cat(Cat(Cat(w, c), e), f) = Cat(w, Cat(c, Cat(e, f)))
<1>1. Cat(w, c) \in Seq(S) /\ Cat(e, f) \in Seq(S)
  BY CatFacts
<1>2. Cat(Cat(Cat(w, c), e), f) = Cat(Cat(w, c), Cat(e, f))
  BY <1>1, CatAssociative
<1>3. Cat(Cat(w, c), Cat(e, f)) = Cat(w, Cat(c, Cat(e, f)))
  BY <1>1, CatAssociative
<1>4. QED
  BY <1>2, <1>3

\* A sequence that is not empty is its first element, followed by the rest.
LEMMA FirstAndRest ==
  ASSUME NEW S, NEW q \in Seq(S), q # <<>>
  PROVE  /\ Head(q) \in S /\ Head(q) = q[1] /\ Tail(q) \in Seq(S) /\ Len(Tail(q)) = Len(q) - 1
         /\ q = Cat(One(Head(q)), Tail(q))
<1>1. Head(q) \in S /\ Head(q) = q[1] /\ Tail(q) \in Seq(S) /\ Len(Tail(q)) = Len(q) - 1
      /\ \A i \in 1..Len(Tail(q)) : Tail(q)[i] = q[i + 1]
  BY HeadTailProperties
<1>2. Len(q) \in Nat /\ Len(q) # 0
  BY EmptySeq, LenProperties
<1> DEFINE t == Tail(q)
           h == One(Head(q))
           r == Cat(h, t)
<1>3. t \in Seq(S) /\ h \in Seq(S) /\ Len(t) = Len(q) - 1 /\ Len(h) = 1 /\ h[1] = q[1]
  BY <1>1, OneFacts
<1>4. \A i \in 1..Len(t) : t[i] = q[i + 1]
  BY <1>1
<1> HIDE DEF t, h
<1>5. r \in Seq(S) /\ Len(r) = Len(q)
  <2>1. h \in Seq(S) /\ t \in Seq(S)
    BY <1>3
  <2>2. Cat(h, t) \in Seq(S) /\ Len(Cat(h, t)) = Len(h) + Len(t)
    BY <2>1, CatFacts
  <2>3. QED
    BY <1>2, <1>3, <2>2
<1>6. ASSUME NEW i \in 1..Len(q) PROVE r[i] = q[i]
  <2>1. i \in 1..(Len(h) + Len(t))
    BY <1>2, <1>3
  <2>2. r[i] = IF i <= Len(h) THEN h[i] ELSE t[i - Len(h)]
    BY <1>3, <2>1, CatElements
  <2>3. CASE i = 1
    BY <1>3, <2>2, <2>3
  <2>4. CASE i # 1
    <3>1. i - 1 \in 1..Len(t) /\ (i - 1) + 1 = i /\ ~(i <= 1)
      BY <1>2, <1>3, <2>4
    <3>2. t[i - 1] = q[i]
      BY <1>4, <3>1
    <3>3. QED
      BY <1>3, <2>2, <3>1, <3>2
  <2>5. QED
    BY <2>3, <2>4
<1> HIDE DEF r
<1>7. r = q
  BY <1>5, <1>6, SeqEqual
<1>8. QED
  BY <1>1, <1>7 DEF h, t, r

\* An element in the middle of a sequence, and what its being the last one means.
LEMMA MiddleElement ==
  ASSUME NEW S, NEW w \in Seq(S), NEW e \in S, NEW q \in Seq(S)
  PROVE  LET p == Cat(w, Cat(One(e), q))
         IN  /\ p \in Seq(S) /\ Len(p) = Len(w) + 1 + Len(q)
             /\ Len(w) + 1 \in 1..Len(p) /\ p[Len(w) + 1] = e
             /\ Len(w) + 1 = Len(p) => q = <<>>
<1> DEFINE r == Cat(One(e), q)
           p == Cat(w, r)
<1>1. Len(w) \in Nat /\ Len(q) \in Nat /\ (Len(q) = 0 => q = <<>>)
  BY LenProperties, EmptySeq
<1>2. One(e) \in Seq(S) /\ Len(One(e)) = 1 /\ One(e)[1] = e
  BY OneFacts
<1>3. r \in Seq(S) /\ Len(r) = 1 + Len(q) /\ r[1] = e
  <2> DEFINE h == One(e)
  <2>1. h \in Seq(S) /\ Len(h) = 1 /\ h[1] = e /\ 1 \in 1..(Len(h) + Len(q)) /\ r = Cat(h, q)
    BY <1>1, <1>2
  <2> HIDE DEF h, r
  <2>2. r \in Seq(S) /\ Len(r) = Len(h) + Len(q)
    BY <2>1, CatFacts
  <2>3. r[1] = IF 1 <= Len(h) THEN h[1] ELSE q[1 - Len(h)]
    BY <2>1, CatElements
  <2>4. QED
    BY <2>1, <2>2, <2>3
<1> HIDE DEF r
<1>4. p \in Seq(S) /\ Len(p) = Len(w) + 1 + Len(q)
  <2>1. Cat(w, r) \in Seq(S) /\ Len(Cat(w, r)) = Len(w) + Len(r)
    BY <1>3, CatFacts
  <2>2. QED
    BY <1>1, <1>3, <2>1
<1>5. p[Len(w) + 1] = e
  <2>1. Len(w) + 1 \in 1..(Len(w) + Len(r)) /\ ~(Len(w) + 1 <= Len(w)) /\ (Len(w) + 1) - Len(w) = 1
    BY <1>1, <1>3
  <2>2. QED
    BY <1>3, <2>1, CatElements
<1> HIDE DEF p
<1>6. Len(w) + 1 \in 1..Len(p) /\ (Len(w) + 1 = Len(p) => q = <<>>)
  BY <1>1, <1>4
<1>7. QED
  BY <1>4, <1>5, <1>6 DEF p, r

\* What is taken off the front of a sequence is taken off the front of its first part.
LEMMA TailOfFirstPart ==
  ASSUME NEW S, NEW w \in Seq(S), NEW p \in Seq(S), w # <<>>
  PROVE  Head(Cat(w, p)) = Head(w) /\ Tail(Cat(w, p)) = Cat(Tail(w), p) /\ Cat(w, p) # <<>>
<1> DEFINE h == Head(w)
           t == Tail(w)
           v == Cat(t, p)
<1>1. h \in S /\ t \in Seq(S) /\ w = Cat(One(h), t)
  BY FirstAndRest
<1> HIDE DEF h, t
<1>2. Cat(w, p) = Cat(One(h), v) /\ v \in Seq(S)
  BY <1>1, OneFacts, CatFacts, CatAssociative
<1> HIDE DEF v
<1>3. Head(Cat(One(h), v)) = h /\ Tail(Cat(One(h), v)) = v /\ Cat(One(h), v) # <<>>
  <2>1. Head(<<h>> \o v) = h /\ Tail(<<h>> \o v) = v /\ <<h>> \o v # <<>>
    BY <1>1, <1>2
  <2>2. QED
    BY <2>1 DEF Cat, One
<1>4. QED
  BY <1>2, <1>3 DEF h, t, v

\* A sequence of elements of S is a sequence over S.
LEMMA SequenceOver ==
  ASSUME NEW M, NEW S, NEW q \in Seq(M), \A i \in 1..Len(q) : q[i] \in S
  PROVE  q \in Seq(S)
<1>1. q \in [1..Len(q) -> M] /\ Len(q) \in Nat
  BY LenProperties
<1>2. q \in [1..Len(q) -> S]
  BY <1>1
<1>3. QED
  BY <1>1, <1>2, SeqDef

-----------------------------------------------------------------------------
(* Messages and replies                                                    *)

Apis == {"ENCRYPT", "DECRYPT"}
AnyToken == Messages \union {Unparsed}

\* The menu of the cipher has two entries.
LEMMA CipherReplyFacts ==
  /\ DOMAIN CipherReply = Apis
  /\ \A api \in Apis : CipherReply[api] \in {"SEND_ENCRYPTED", "SEND_DECRYPTED"}
BY DEF CipherReply, Apis

\* What the kind of a token says of its payload.
LEMMA TokenFacts ==
  ASSUME NEW t \in AnyToken
  PROVE  /\ t.api = "SET_SEED" => t \in Messages /\ t = Token("SET_SEED", t.payload) /\ t.payload \in Seeds
         /\ t.api \in Apis => t \in Messages /\ t.payload \in Texts
         /\ t.api = "REQUEST_HANDSHAKE" => t = Token("REQUEST_HANDSHAKE", None)
<1> DEFINE Fact(u) ==
      /\ u.api = "SET_SEED" => u \in Messages /\ u = Token("SET_SEED", u.payload) /\ u.payload \in Seeds
      /\ u.api \in Apis => u \in Messages /\ u.payload \in Texts
      /\ u.api = "REQUEST_HANDSHAKE" => u = Token("REQUEST_HANDSHAKE", None)
<1>1. Fact(Token("", None))
  BY DEF Token, Apis
<1>2. Fact(Token("REQUEST_HANDSHAKE", None))
  BY DEF Token, Apis
<1>3. ASSUME NEW s \in Seeds, Token("SET_SEED", s) \in Messages
      PROVE  Fact(Token("SET_SEED", s))
  BY <1>3 DEF Token, Apis
<1>4. ASSUME NEW api \in Apis, NEW text \in Texts, Token(api, text) \in Messages
      PROVE  Fact(Token(api, text))
  BY <1>4 DEF Token, Apis
<1>5. CASE t \in Messages
  <2>1. \/ t = Token("REQUEST_HANDSHAKE", None)
        \/ \E s \in Seeds : t = Token("SET_SEED", s)
        \/ \E api \in DOMAIN CipherReply, text \in Texts : t = Token(api, text)
    BY <1>5 DEF Messages
  <2>2. QED
    BY <1>2, <1>3, <1>4, <1>5, <2>1, CipherReplyFacts
<1>6. CASE t = Unparsed
  BY <1>1, <1>6 DEF Unparsed
<1>7. QED
  BY <1>5, <1>6 DEF AnyToken

\* What the kind of a reply says of it.
LEMMA ReplyFacts ==
  /\ SendId \in Replies /\ HsComplete \in Replies /\ SendId # HsComplete
  /\ SendId.api = "SEND_ID" /\ HsComplete.api = "HS_COMPLETE"
  /\ \A r \in Replies : r.api = "SEND_ID" => r = SendId
  /\ \A r \in Replies : r.api = "HS_COMPLETE" => r = HsComplete
  /\ \A api \in Apis, text \in Texts, k \in Seeds \union {Clobbered} :
       /\ Reply(CipherReply[api], text, k) \in Replies
       /\ Reply(CipherReply[api], text, k) \notin {SendId, HsComplete}
BY CipherReplyFacts DEF Replies, SendId, HsComplete, Reply

\* The messages that the Core Complex sends, and the answers it expects of them.
LEMMA AskedFacts ==
  /\ Token("REQUEST_HANDSHAKE", None) \in Messages
  /\ \A k : AnswerTo(Token("REQUEST_HANDSHAKE", None), k) = SendId
  /\ \A s \in Seeds : /\ Token("SET_SEED", s) \in Messages
                      /\ \A k : AnswerTo(Token("SET_SEED", s), k) = HsComplete
  /\ \A api \in Apis, text \in Texts :
       /\ Token(api, text) \in Messages
       /\ \A k : AnswerTo(Token(api, text), k) = Reply(CipherReply[api], text, k)
<1>1. /\ Token("REQUEST_HANDSHAKE", None) \in Messages
      /\ \A k : AnswerTo(Token("REQUEST_HANDSHAKE", None), k) = SendId
  BY DEF Messages, Token, AnswerTo
<1>2. ASSUME NEW s \in Seeds
      PROVE  /\ Token("SET_SEED", s) \in Messages
             /\ \A k : AnswerTo(Token("SET_SEED", s), k) = HsComplete
  BY DEF Messages, Token, AnswerTo
<1>3. ASSUME NEW api \in Apis, NEW text \in Texts
      PROVE  /\ Token(api, text) \in Messages
             /\ \A k : AnswerTo(Token(api, text), k) = Reply(CipherReply[api], text, k)
  <2>1. Token(api, text) \in Messages
    BY CipherReplyFacts DEF Messages
  <2>2. \A k : AnswerTo(Token(api, text), k) = Reply(CipherReply[api], text, k)
    BY DEF Token, AnswerTo, Apis
  <2>3. QED
    BY <2>1, <2>2
<1>4. QED
  BY <1>1, <1>2, <1>3

\* Taking a message off the front of a stream, or keeping some of it.
LEMMA CutFacts ==
  ASSUME NEW S, NEW q \in Seq(S), NEW k \in 0..Len(q)
  PROVE  /\ SubSeq(q, k + 1, Len(q)) \in Seq(S)
         /\ Len(SubSeq(q, k + 1, Len(q))) = Len(q) - k
         /\ \A i \in 1..(Len(q) - k) : SubSeq(q, k + 1, Len(q))[i] = q[k + i]
         /\ SubSeq(q, 1, k) \in Seq(S)
         /\ Len(SubSeq(q, 1, k)) = k
         /\ \A i \in 1..k : SubSeq(q, 1, k)[i] = q[i]
<1>1. /\ SubSeq(q, k + 1, Len(q)) \in Seq(S)
      /\ Len(SubSeq(q, k + 1, Len(q))) = Len(q) - k
      /\ \A i \in 1..(Len(q) - k) : SubSeq(q, k + 1, Len(q))[i] = q[k + i]
  BY SMTT(30)
<1>2. /\ SubSeq(q, 1, k) \in Seq(S)
      /\ Len(SubSeq(q, 1, k)) = k
      /\ \A i \in 1..k : SubSeq(q, 1, k)[i] = q[i]
  BY SMTT(30)
<1>3. QED
  BY <1>1, <1>2

-----------------------------------------------------------------------------
(* Types                                                                   *)

\* An answer to a part of a handshake is the last one that the Core Complex waits for.
Outstanding ==
  /\ \A i \in DOMAIN expected : expected[i] = SendId => core = "awaitId" /\ i = Len(expected)
  /\ \A i \in DOMAIN expected : expected[i] = HsComplete => core = "awaitHs" /\ i = Len(expected)

\* The second message of a handshake was allowed for when it began.
Reserved == core \in {"awaitId", "giveSeed"} => sent + 1 <= MaxSent

\* The Core Complex has given a seed before it asks for a cipher.
KeyGiven == core \in {"awaitHs", "ready"} => key \in Seeds

\* The consumer thread goes to the cipher with a token that asks for it.
CipherAcquired == consumer = "cipher" => acquired.api \in DOMAIN CipherReply

\* The type invariant in two parts.
ThreadTypes ==
  /\ status \in {"running", "exited", "killed"}
  /\ seedFreed \in BOOLEAN
  /\ seed \in Seeds \union {None, Clobbered}
  /\ qpp \in Seeds \union {None, Clobbered}
  /\ consumer \in ConsumerPc
  /\ acquired \in AnyToken
  /\ buffer \in AnyToken
  /\ link \in {"down", "open", "closed", "reset"}
  /\ core \in {"idle", "awaitId", "giveSeed", "awaitHs", "ready"}
  /\ got \in Replies \union {None}
  /\ key \in Seeds \union {None}
  /\ sent \in 0..MaxSent

QueueTypes ==
  /\ incoming \in Seq(AnyToken)
  /\ outgoing \in Seq(Replies)
  /\ sending \in Seq(Replies) /\ Len(sending) <= 1
  /\ toNode \in Seq(Messages)
  /\ offset \in {AtBrace, AtText, AtNewline}
  /\ toNode = <<>> => offset = AtBrace
  /\ fromNode \in Seq(Replies)
  /\ expected \in Seq(Replies)

LEMMA TypeParts == TypeOK <=> ThreadTypes /\ QueueTypes
BY DEF TypeOK, ThreadTypes, QueueTypes, AnyToken

Handshakes == Outstanding /\ Reserved /\ KeyGiven /\ CipherAcquired

TInv == ThreadTypes /\ QueueTypes /\ Handshakes

LEMMA TInvInit == Init => TInv
<1> SUFFICES ASSUME Init PROVE TInv
  OBVIOUS
<1>1. ThreadTypes
  <2>1. 0 \in 0..MaxSent
    BY BoundsAssumption
  <2>2. QED
    BY <2>1 DEF Init, ThreadTypes, ConsumerPc, AnyToken
<1>2. QueueTypes
  BY DEF Init, QueueTypes, AtBrace, AtText, AtNewline
<1>3. Handshakes
  BY DEF Init, Handshakes, Outstanding, Reserved, KeyGiven, CipherAcquired
<1>4. QED
  BY <1>1, <1>2, <1>3 DEF TInv

\* The steps of main and of the incoming thread.
LEMMA TInvIncoming == TInv /\ (DeleteSeed \/ IncomingThread) => TInv'
<1> SUFFICES ASSUME TInv, DeleteSeed \/ IncomingThread PROVE TInv'
  OBVIOUS
<1> USE DEF TInv, nodeVars, coreVars, netVars
<1>1. CASE DeleteSeed
  <2>1. ThreadTypes' /\ QueueTypes'
    BY <1>1 DEF DeleteSeed, ThreadTypes, QueueTypes
  <2>2. Handshakes'
    BY <1>1 DEF DeleteSeed, Handshakes, Outstanding, Reserved, KeyGiven, CipherAcquired
  <2>3. QED
    BY <2>1, <2>2
<1>2. CASE Connect
  <2>1. ThreadTypes' /\ QueueTypes'
    BY <1>2 DEF Connect, ThreadTypes, QueueTypes
  <2>2. Handshakes'
    BY <1>2 DEF Connect, Handshakes, Outstanding, Reserved, KeyGiven, CipherAcquired
  <2>3. QED
    BY <2>1, <2>2
<1>3. CASE ConnectFails
  <2>1. ThreadTypes' /\ QueueTypes'
    BY <1>3 DEF ConnectFails, ThreadTypes, QueueTypes
  <2>2. Handshakes'
    BY <1>3 DEF ConnectFails, Handshakes, Outstanding, Reserved, KeyGiven, CipherAcquired
  <2>3. QED
    BY <2>1, <2>2
<1>4. CASE Receive
  <2>1. PICK n \in 0..Len(toNode), off \in {AtBrace, AtText, AtNewline} :
          /\ Readable(n, off)
          /\ toNode' = SubSeq(toNode, n + 1, Len(toNode))
          /\ offset' = off
          /\ IF offset = AtNewline
             THEN UNCHANGED <<incoming, buffer>>
             ELSE /\ buffer' = Parse(n, off)
                  /\ incoming' = Append(incoming, buffer')
    BY <1>4 DEF Receive
  <2>2. toNode \in Seq(Messages)
    BY DEF QueueTypes
  <2>3. toNode' \in Seq(Messages) /\ Len(toNode') = Len(toNode) - n
    <3>1. n \in 0..Len(toNode) /\ toNode' = SubSeq(toNode, n + 1, Len(toNode))
      BY <2>1
    <3>2. QED
      BY <2>2, <3>1, CutFacts
  <2>4. toNode' = <<>> => offset' = AtBrace
    <3>1. offset' = off /\ (n = Len(toNode) => off = AtBrace)
      BY <2>1 DEF Readable
    <3>2. toNode' = <<>> => n = Len(toNode)
      BY <2>2, <2>3
    <3>3. QED
      BY <3>1, <3>2
  <2>5. Parse(n, off) \in AnyToken
    <3>1. toNode = <<>> => n = 0 /\ off = AtBrace
      BY <2>1 DEF Readable
    <3>2. toNode # <<>> => Head(toNode) \in Messages
      BY <2>2
    <3>3. QED
      BY <3>1, <3>2 DEF Parse, AnyToken, AtBrace, AtNewline
  <2>6. buffer' \in AnyToken /\ incoming' \in Seq(AnyToken)
    <3>1. \/ buffer' = buffer /\ incoming' = incoming
          \/ buffer' = Parse(n, off) /\ incoming' = Append(incoming, buffer')
      BY <2>1
    <3>2. buffer' \in AnyToken
      BY <2>5, <3>1 DEF ThreadTypes
    <3>3. incoming \in Seq(AnyToken)
      BY DEF QueueTypes
    <3>4. QED
      BY <3>1, <3>2, <3>3
  <2>7. ThreadTypes' /\ QueueTypes'
    BY <1>4, <2>1, <2>3, <2>4, <2>6 DEF Receive, ThreadTypes, QueueTypes
  <2>8. Handshakes'
    BY <1>4 DEF Receive, Handshakes, Outstanding, Reserved, KeyGiven, CipherAcquired
  <2>9. QED
    BY <2>7, <2>8
<1>5. CASE ReceiveNothing
  <2>1. buffer' \in AnyToken /\ incoming' \in Seq(AnyToken)
    BY <1>5 DEF ReceiveNothing, ThreadTypes, QueueTypes, AnyToken
  <2>2. ThreadTypes' /\ QueueTypes'
    BY <1>5, <2>1 DEF ReceiveNothing, ThreadTypes, QueueTypes
  <2>3. Handshakes'
    BY <1>5 DEF ReceiveNothing, Handshakes, Outstanding, Reserved, KeyGiven, CipherAcquired
  <2>4. QED
    BY <2>2, <2>3
<1>6. QED
  BY <1>1, <1>2, <1>3, <1>4, <1>5 DEF IncomingThread

\* The steps of the consumer thread.
LEMMA TInvConsumer == TInv /\ ConsumerThread => TInv'
<1> SUFFICES ASSUME TInv, ConsumerThread PROVE TInv'
  OBVIOUS
<1> USE DEF TInv, nodeVars, coreVars, netVars
<1>1. CASE PollToken
  <2>1. Head(incoming) \in AnyToken /\ Tail(incoming) \in Seq(AnyToken)
    BY <1>1 DEF PollToken, QueueTypes
  <2>2. acquired' \in AnyToken /\ incoming' \in Seq(AnyToken)
    BY <1>1, <2>1 DEF PollToken
  <2>3. consumer' \in ConsumerPc /\ (consumer' = "cipher" => acquired'.api \in DOMAIN CipherReply)
    BY <1>1 DEF PollToken, ConsumerPc
  <2>4. ThreadTypes' /\ QueueTypes'
    BY <1>1, <2>2, <2>3 DEF PollToken, ThreadTypes, QueueTypes
  <2>5. Handshakes'
    BY <1>1, <2>3 DEF PollToken, Handshakes, Outstanding, Reserved, KeyGiven, CipherAcquired
  <2>6. QED
    BY <2>4, <2>5
<1>2. CASE PushId
  <2>1. outgoing' \in Seq(Replies)
    BY <1>2, ReplyFacts DEF PushId, QueueTypes
  <2>2. ThreadTypes' /\ QueueTypes'
    BY <1>2, <2>1 DEF PushId, ThreadTypes, QueueTypes, ConsumerPc
  <2>3. Handshakes'
    BY <1>2 DEF PushId, Handshakes, Outstanding, Reserved, KeyGiven, CipherAcquired
  <2>4. QED
    BY <2>2, <2>3
<1>3. CASE PollSeed
  <2>1. Head(incoming) \in AnyToken /\ incoming' \in Seq(AnyToken)
    BY <1>3 DEF PollSeed, QueueTypes
  <2>2. seed' \in Seeds
    BY <1>3, <2>1, TokenFacts DEF PollSeed
  <2>3. ThreadTypes' /\ QueueTypes'
    BY <1>3, <2>1, <2>2 DEF PollSeed, ThreadTypes, QueueTypes, ConsumerPc
  <2>4. Handshakes'
    BY <1>3 DEF PollSeed, Handshakes, Outstanding, Reserved, KeyGiven, CipherAcquired
  <2>5. QED
    BY <2>3, <2>4
<1>4. CASE HandshakeError
  <2>1. incoming' \in Seq(AnyToken)
    BY <1>4 DEF HandshakeError, QueueTypes
  <2>2. ThreadTypes' /\ QueueTypes'
    BY <1>4, <2>1 DEF HandshakeError, ThreadTypes, QueueTypes
  <2>3. Handshakes'
    BY <1>4 DEF HandshakeError, Handshakes, Outstanding, Reserved, KeyGiven, CipherAcquired
  <2>4. QED
    BY <2>2, <2>3
<1>5. CASE ConstructQpp
  <2>1. ThreadTypes' /\ QueueTypes'
    BY <1>5 DEF ConstructQpp, ThreadTypes, QueueTypes, ConsumerPc
  <2>2. Handshakes'
    BY <1>5 DEF ConstructQpp, Handshakes, Outstanding, Reserved, KeyGiven, CipherAcquired
  <2>3. QED
    BY <2>1, <2>2
<1>6. CASE PushHsComplete
  <2>1. outgoing' \in Seq(Replies)
    BY <1>6, ReplyFacts DEF PushHsComplete, QueueTypes
  <2>2. ThreadTypes' /\ QueueTypes'
    BY <1>6, <2>1 DEF PushHsComplete, ThreadTypes, QueueTypes, ConsumerPc
  <2>3. Handshakes'
    BY <1>6 DEF PushHsComplete, Handshakes, Outstanding, Reserved, KeyGiven, CipherAcquired
  <2>4. QED
    BY <2>2, <2>3
<1>7. CASE Cipher
  <2>1. acquired.api \in Apis /\ acquired.payload \in Texts
    BY <1>7, TokenFacts, CipherReplyFacts DEF Cipher, ThreadTypes, Handshakes, CipherAcquired
  <2>2. qpp \in Seeds \union {Clobbered}
    BY <1>7 DEF Cipher, ThreadTypes
  <2>3. Reply(CipherReply[acquired.api], acquired.payload, qpp) \in Replies
    BY <2>1, <2>2, ReplyFacts
  <2>4. outgoing' \in Seq(Replies)
    BY <1>7, <2>3 DEF Cipher, QueueTypes
  <2>5. ThreadTypes' /\ QueueTypes'
    BY <1>7, <2>4 DEF Cipher, ThreadTypes, QueueTypes, ConsumerPc
  <2>6. Handshakes'
    BY <1>7 DEF Cipher, Handshakes, Outstanding, Reserved, KeyGiven, CipherAcquired
  <2>7. QED
    BY <2>5, <2>6
<1>8. QED
  BY <1>1, <1>2, <1>3, <1>4, <1>5, <1>6, <1>7 DEF ConsumerThread

\* The steps of the outgoing thread.
LEMMA TInvOutgoing == TInv /\ OutgoingThread => TInv'
<1> SUFFICES ASSUME TInv, OutgoingThread PROVE TInv'
  OBVIOUS
<1> USE DEF TInv, nodeVars, coreVars, netVars
<1>1. CASE PollReply
  <2>1. outgoing' \in Seq(Replies) /\ sending' \in Seq(Replies) /\ Len(sending') <= 1
    BY <1>1 DEF PollReply, QueueTypes
  <2>2. ThreadTypes' /\ QueueTypes'
    BY <1>1, <2>1 DEF PollReply, ThreadTypes, QueueTypes
  <2>3. Handshakes'
    BY <1>1 DEF PollReply, Handshakes, Outstanding, Reserved, KeyGiven, CipherAcquired
  <2>4. QED
    BY <2>2, <2>3
<1>2. CASE Write
  <2>1. fromNode' \in Seq(Replies) /\ sending' \in Seq(Replies) /\ Len(sending') <= 1
    BY <1>2 DEF Write, QueueTypes
  <2>2. ThreadTypes' /\ QueueTypes'
    BY <1>2, <2>1 DEF Write, ThreadTypes, QueueTypes
  <2>3. Handshakes'
    BY <1>2 DEF Write, Handshakes, Outstanding, Reserved, KeyGiven, CipherAcquired
  <2>4. QED
    BY <2>2, <2>3
<1>3. QED
  BY <1>1, <1>2 DEF OutgoingThread

\* What asking does, once the message and its answer are known.
LEMMA AskTypes ==
  ASSUME TInv, NEW msg \in Messages, NEW k, AnswerTo(msg, k) \in Replies, Ask(msg, k),
         sent + 1 <= MaxSent,
         core' \in {"idle", "awaitId", "giveSeed", "awaitHs", "ready"},
         key' \in Seeds \union {None}
  PROVE  ThreadTypes' /\ QueueTypes' /\ CipherAcquired'
<1> USE DEF TInv, nodeVars, coreVars, netVars
<1>1. expected' \in Seq(Replies) /\ toNode' \in Seq(Messages) /\ toNode' # <<>>
  <2>1. /\ expected \in Seq(Replies) /\ toNode \in Seq(Messages)
        /\ expected' = Append(expected, AnswerTo(msg, k)) /\ toNode' = Append(toNode, msg)
    BY DEF Ask, QueueTypes
  <2> DEFINE answer == AnswerTo(msg, k)
  <2>2. answer \in Replies /\ expected' = Append(expected, answer)
    BY <2>1
  <2> HIDE DEF answer
  <2>3. expected' \in Seq(Replies)
    BY <2>1, <2>2
  <2>4. toNode' \in Seq(Messages) /\ toNode' # <<>>
    BY <2>1
  <2>5. QED
    BY <2>3, <2>4
<1>2. sent' \in 0..MaxSent
  BY BoundsAssumption DEF Ask, ThreadTypes
<1>3. ThreadTypes'
  BY <1>2 DEF Ask, ThreadTypes
<1>4. QueueTypes'
  BY <1>1 DEF Ask, QueueTypes
<1>5. CipherAcquired'
  BY DEF Ask, Handshakes, CipherAcquired
<1>6. QED
  BY <1>3, <1>4, <1>5

\* The steps of the Core Complex and of the connection.
LEMMA TInvCore == TInv /\ CoreComplex => TInv'
<1> SUFFICES ASSUME TInv, CoreComplex PROVE TInv'
  OBVIOUS
<1> USE DEF TInv, nodeVars, coreVars, netVars
<1>1. CASE RequestHandshake
  <2> DEFINE msg == Token("REQUEST_HANDSHAKE", None)
  <2>1. msg \in Messages /\ AnswerTo(msg, key) = SendId /\ SendId \in Replies
    BY AskedFacts, ReplyFacts
  <2>2. /\ Ask(msg, key) /\ sent + 2 <= MaxSent
        /\ core \in {"idle", "ready"} /\ core' = "awaitId" /\ key' = key
    BY <1>1 DEF RequestHandshake
  <2>3. ThreadTypes' /\ QueueTypes' /\ CipherAcquired'
    <3>1. sent + 1 <= MaxSent
      BY <2>2, BoundsAssumption DEF ThreadTypes
    <3>2. key' \in Seeds \union {None}
      BY <2>2 DEF ThreadTypes
    <3> HIDE DEF msg
    <3>3. QED
      BY <2>1, <2>2, <3>1, <3>2, AskTypes
  <2>4. expected' = Append(expected, SendId)
    BY <2>1, <2>2 DEF Ask
  <2>5. Outstanding'
    BY <2>2, <2>4, ReplyFacts DEF Handshakes, Outstanding, QueueTypes
  <2>6. Reserved' /\ KeyGiven'
    BY <2>2, BoundsAssumption DEF Ask, Reserved, KeyGiven, ThreadTypes
  <2>7. QED
    BY <2>3, <2>5, <2>6 DEF Handshakes
<1>2. CASE \E s \in Seeds : SetSeed(s)
  <2>1. PICK s \in Seeds : SetSeed(s)
    BY <1>2
  <2> DEFINE msg == Token("SET_SEED", s)
  <2>2. msg \in Messages /\ AnswerTo(msg, s) = HsComplete /\ HsComplete \in Replies
    BY AskedFacts, ReplyFacts
  <2>3. Ask(msg, s) /\ core = "giveSeed" /\ core' = "awaitHs" /\ key' = s
    BY <2>1 DEF SetSeed
  <2>4. ThreadTypes' /\ QueueTypes' /\ CipherAcquired'
    <3>1. sent + 1 <= MaxSent
      BY <2>3 DEF Handshakes, Reserved
    <3> HIDE DEF msg
    <3>2. QED
      BY <2>2, <2>3, <3>1, AskTypes
  <2>5. expected' = Append(expected, HsComplete)
    BY <2>2, <2>3 DEF Ask
  <2>6. Outstanding'
    BY <2>3, <2>5, ReplyFacts DEF Handshakes, Outstanding, QueueTypes
  <2>7. Reserved' /\ KeyGiven'
    BY <2>3 DEF Reserved, KeyGiven
  <2>8. QED
    BY <2>4, <2>6, <2>7 DEF Handshakes
<1>3. CASE \E api \in DOMAIN CipherReply, text \in Texts : RequestCipher(api, text)
  <2>1. PICK api \in Apis, text \in Texts : RequestCipher(api, text)
    BY <1>3, CipherReplyFacts
  <2> DEFINE msg == Token(api, text)
             reply == Reply(CipherReply[api], text, key)
  <2>2. Ask(msg, key) /\ core = "ready" /\ core' = core /\ key' = key /\ sent < MaxSent
    BY <2>1 DEF RequestCipher
  <2>3. key \in Seeds
    BY <2>2 DEF Handshakes, KeyGiven
  <2>4. msg \in Messages /\ AnswerTo(msg, key) = reply
    BY AskedFacts
  <2>5. reply \in Replies /\ reply \notin {SendId, HsComplete}
    BY <2>3, ReplyFacts
  <2> HIDE DEF msg, reply
  <2>6. ThreadTypes' /\ QueueTypes' /\ CipherAcquired'
    <3>1. sent + 1 <= MaxSent
      BY <2>2, BoundsAssumption DEF ThreadTypes
    <3>2. core' \in {"idle", "awaitId", "giveSeed", "awaitHs", "ready"} /\ key' \in Seeds \union {None}
      BY <2>2 DEF ThreadTypes
    <3>3. QED
      BY <2>2, <2>4, <2>5, <3>1, <3>2, AskTypes
  <2>7. expected' = Append(expected, reply)
    BY <2>2, <2>4 DEF Ask
  <2>8. Outstanding'
    BY <2>2, <2>5, <2>7 DEF Handshakes, Outstanding, QueueTypes
  <2>9. Reserved' /\ KeyGiven'
    BY <2>2, <2>3 DEF Reserved, KeyGiven
  <2>10. QED
    BY <2>6, <2>8, <2>9 DEF Handshakes
<1>4. CASE ReceiveAnswer
  <2>1. /\ Head(fromNode) \in Replies /\ fromNode' \in Seq(Replies)
        /\ Head(expected) \in Replies /\ expected' \in Seq(Replies)
        /\ expected # <<>> /\ Head(expected) = expected[1]
        /\ Len(expected') = Len(expected) - 1
        /\ \A i \in DOMAIN expected' : expected'[i] = expected[i + 1]
    BY <1>4 DEF ReceiveAnswer, QueueTypes
  <2>2. Head(fromNode) = SendId => core = "awaitId" /\ Len(expected) = 1
    BY <1>4, <2>1, ReplyFacts DEF ReceiveAnswer, Handshakes, Outstanding, QueueTypes
  <2>3. Head(fromNode) = HsComplete => core = "awaitHs" /\ Len(expected) = 1
    BY <1>4, <2>1, ReplyFacts DEF ReceiveAnswer, Handshakes, Outstanding, QueueTypes
  <2>4. got' \in Replies /\ core' \in {"giveSeed", "ready", core}
        /\ (core' = "giveSeed" => core \in {"awaitId", "giveSeed"})
        /\ (core' = "ready" => core \in {"awaitHs", "ready"})
        /\ (core' # core => Len(expected) = 1)
    BY <1>4, <2>1, <2>2, <2>3 DEF ReceiveAnswer
  <2>5. ThreadTypes' /\ QueueTypes'
    BY <1>4, <2>1, <2>4 DEF ReceiveAnswer, ThreadTypes, QueueTypes
  <2>6. Outstanding'
    <3>1. CASE core' # core
      <4>1. expected' \in Seq(Replies) /\ Len(expected') = Len(expected) - 1
        BY <2>1
      <4>2. Len(expected) = 1
        BY <2>4, <3>1
      <4>3. DOMAIN expected' = {}
        BY <4>1, <4>2
      <4>4. QED
        BY <4>3 DEF Outstanding
    <3>2. CASE core' = core
      <4>1. /\ expected \in Seq(Replies) /\ expected' \in Seq(Replies)
            /\ Len(expected') = Len(expected) - 1
        BY <2>1 DEF QueueTypes
      <4>2. Outstanding
        BY DEF Handshakes
      <4>3. ASSUME NEW i \in DOMAIN expected'
            PROVE  /\ expected'[i] = expected[i + 1] /\ i + 1 \in DOMAIN expected
                   /\ i + 1 = Len(expected) => i = Len(expected')
        <5>1. expected'[i] = expected[i + 1]
          BY <2>1
        <5>2. QED
          BY <4>1, <5>1
      <4>4. QED
        BY <3>2, <4>2, <4>3 DEF Outstanding
    <3>3. QED
      BY <3>1, <3>2
  <2>7. Reserved' /\ KeyGiven' /\ CipherAcquired'
    BY <1>4, <2>4 DEF ReceiveAnswer, Handshakes, Reserved, KeyGiven, CipherAcquired
  <2>8. QED
    BY <2>5, <2>6, <2>7 DEF Handshakes
<1>5. CASE Close
  <2>1. ThreadTypes' /\ QueueTypes'
    BY <1>5 DEF Close, ThreadTypes, QueueTypes
  <2>2. Handshakes'
    BY <1>5 DEF Close, Handshakes, Outstanding, Reserved, KeyGiven, CipherAcquired
  <2>3. QED
    BY <2>1, <2>2
<1>6. CASE Reset
  <2>1. PICK n \in 0..Len(toNode) : /\ toNode' = SubSeq(toNode, 1, n)
                                    /\ offset' = IF n = 0 THEN AtBrace ELSE offset
    BY <1>6 DEF Reset
  <2>2. toNode' \in Seq(Messages) /\ Len(toNode') = n
    BY <2>1, CutFacts DEF QueueTypes
  <2>3. ThreadTypes' /\ QueueTypes'
    BY <1>6, <2>1, <2>2 DEF Reset, ThreadTypes, QueueTypes
  <2>4. Handshakes'
    BY <1>6 DEF Reset, Handshakes, Outstanding, Reserved, KeyGiven, CipherAcquired
  <2>5. QED
    BY <2>3, <2>4
<1>7. QED
  BY <1>1, <1>2, <1>3, <1>4, <1>5, <1>6 DEF CoreComplex

LEMMA TInvStep == TInv /\ [Next]_vars => TInv'
<1>1. ASSUME TInv, UNCHANGED vars PROVE TInv'
  BY <1>1 DEF vars, nodeVars, coreVars, netVars, TInv, ThreadTypes, QueueTypes, Handshakes,
              Outstanding, Reserved, KeyGiven, CipherAcquired
<1>2. QED
  BY <1>1, TInvIncoming, TInvConsumer, TInvOutgoing, TInvCore DEF Next

LEMMA TInvAlways == Spec => []TInv
BY TInvInit, TInvStep, PTL DEF Spec

\* The variables of the node, of the connection and of the Core Complex keep their types,
\* for any seeds, texts and bounds, and on connections of every kind.
THEOREM TypeCorrect == Spec => []TypeOK
<1>1. TInv => TypeOK
  BY TypeParts DEF TInv
<1>2. QED
  BY <1>1, TInvAlways, PTL

-----------------------------------------------------------------------------
(* The cipher is constructed before it is used                             *)

\* Replies that do not end a handshake, and tokens that do not ask for the cipher.
Plain == Replies \ {HsComplete}
Uncipher == {t \in AnyToken : t.api \notin Apis}

\* Until the first handshake is over nobody knows of a cipher: not the Core Complex,
\* not the replies on their way to it, not the tokens on their way to the consumer
\* thread, nor the block that a read that failed leaves for the next one.
NoCipherThreads ==
  /\ core # "ready"
  /\ consumer \notin {"sendHs", "cipher"}
  /\ buffer \in Uncipher

NoCipherQueues ==
  /\ incoming \in Seq(Uncipher) /\ toNode \in Seq(Uncipher)
  /\ outgoing \in Seq(Plain) /\ sending \in Seq(Plain) /\ fromNode \in Seq(Plain)

KInv ==
  /\ consumer = "construct" => seed # None
  /\ qpp = None => NoCipherThreads /\ NoCipherQueues

LEMMA PlainFacts ==
  /\ SendId \in Plain /\ HsComplete \notin Plain
  /\ Unparsed \in Uncipher
  /\ Token("REQUEST_HANDSHAKE", None) \in Uncipher
  /\ \A s \in Seeds : Token("SET_SEED", s) \in Uncipher
BY ReplyFacts, AskedFacts DEF Plain, Uncipher, AnyToken, Unparsed, Token, Apis

LEMMA KInvInit == Init => KInv
BY PlainFacts DEF Init, KInv, NoCipherThreads, NoCipherQueues

\* The steps of the threads of the node keep KInv.
LEMMA KInvNode == TInv /\ KInv /\ (DeleteSeed \/ IncomingThread \/ ConsumerThread \/ OutgoingThread) => KInv'
<1> SUFFICES ASSUME TInv, KInv,
                    DeleteSeed \/ IncomingThread \/ ConsumerThread \/ OutgoingThread
             PROVE  KInv'
  OBVIOUS
<1> USE DEF KInv, nodeVars, coreVars, netVars
<1>t. ThreadTypes /\ QueueTypes
  BY DEF TInv
<1>s. Clobbered # None /\ None \notin Seeds
  BY PayloadAssumption
<1>1. CASE DeleteSeed
  <2>1. seed' # None /\ consumer' = consumer /\ qpp' = qpp
    BY <1>1, <1>s DEF DeleteSeed
  <2>2. qpp = None => NoCipherThreads' /\ NoCipherQueues'
    BY <1>1 DEF DeleteSeed, NoCipherThreads, NoCipherQueues
  <2>3. QED
    BY <2>1, <2>2
<1>2. CASE Connect
  BY <1>2 DEF Connect, NoCipherThreads, NoCipherQueues
<1>3. CASE ConnectFails
  BY <1>3 DEF ConnectFails, NoCipherThreads, NoCipherQueues
<1>4. CASE Receive
  <2>1. PICK n \in 0..Len(toNode), off \in {AtBrace, AtText, AtNewline} :
          /\ Readable(n, off)
          /\ toNode' = SubSeq(toNode, n + 1, Len(toNode))
          /\ IF offset = AtNewline
             THEN UNCHANGED <<incoming, buffer>>
             ELSE /\ buffer' = Parse(n, off)
                  /\ incoming' = Append(incoming, buffer')
    BY <1>4 DEF Receive
  <2>2. consumer' = consumer /\ seed' = seed /\ qpp' = qpp /\ core' = core
        /\ outgoing' = outgoing /\ sending' = sending /\ fromNode' = fromNode
    BY <1>4 DEF Receive
  <2>3. ASSUME qpp = None PROVE NoCipherThreads' /\ NoCipherQueues'
    <3>1. /\ toNode \in Seq(Uncipher) /\ incoming \in Seq(Uncipher) /\ buffer \in Uncipher
      BY <2>3 DEF NoCipherThreads, NoCipherQueues
    <3>2. toNode' \in Seq(Uncipher)
      <4>1. n \in 0..Len(toNode) /\ toNode' = SubSeq(toNode, n + 1, Len(toNode))
        BY <2>1
      <4>2. QED
        BY <3>1, <4>1, CutFacts
    <3>3. Parse(n, off) \in Uncipher
      <4>1. toNode = <<>> => n = 0 /\ off = AtBrace
        BY <2>1 DEF Readable
      <4>2. toNode # <<>> => Head(toNode) \in Uncipher
        BY <3>1
      <4>3. QED
        BY <4>1, <4>2, PlainFacts DEF Parse, AtBrace, AtNewline
    <3>4. \/ buffer' = buffer /\ incoming' = incoming
          \/ buffer' = Parse(n, off) /\ incoming' = Append(incoming, buffer')
      BY <2>1
    <3>5. buffer' \in Uncipher
      BY <3>1, <3>3, <3>4
    <3>6. incoming' \in Seq(Uncipher)
      BY <3>1, <3>4, <3>5
    <3>7. NoCipherThreads'
      BY <2>2, <2>3, <3>5 DEF NoCipherThreads
    <3>8. NoCipherQueues'
      BY <2>2, <2>3, <3>2, <3>6 DEF NoCipherQueues
    <3>9. QED
      BY <3>7, <3>8
  <2>4. QED
    BY <2>2, <2>3
<1>5. CASE ReceiveNothing
  <2>1. ASSUME qpp = None PROVE NoCipherThreads' /\ NoCipherQueues'
    <3>1. buffer' \in Uncipher /\ incoming' = Append(incoming, buffer')
      BY <1>5, <2>1, PlainFacts DEF ReceiveNothing, NoCipherThreads
    <3>2. incoming \in Seq(Uncipher)
      BY <2>1 DEF NoCipherQueues
    <3>3. incoming' \in Seq(Uncipher)
      BY <3>1, <3>2
    <3>4. QED
      BY <1>5, <2>1, <3>1, <3>3 DEF ReceiveNothing, NoCipherThreads, NoCipherQueues
  <2>2. QED
    BY <1>5, <2>1 DEF ReceiveNothing
<1>6. CASE PollToken
  <2>1. consumer' # "construct" /\ seed' = seed /\ qpp' = qpp
    BY <1>6 DEF PollToken
  <2>2. ASSUME qpp = None PROVE NoCipherThreads' /\ NoCipherQueues'
    <3>1. incoming \in Seq(Uncipher) /\ incoming # <<>>
      BY <1>6, <2>2 DEF PollToken, NoCipherQueues
    <3>2. Head(incoming) \in Uncipher /\ Tail(incoming) \in Seq(Uncipher)
      BY <3>1
    <3>3. acquired' \in Uncipher /\ incoming' \in Seq(Uncipher)
      BY <1>6, <3>2 DEF PollToken
    <3>4. acquired'.api \notin DOMAIN CipherReply
      BY <3>3, CipherReplyFacts DEF Uncipher
    <3>5. consumer' \in {"sendId", "poll"}
      BY <1>6, <3>4 DEF PollToken
    <3>6. NoCipherThreads'
      BY <1>6, <2>2, <3>5 DEF PollToken, NoCipherThreads
    <3>7. NoCipherQueues'
      BY <1>6, <2>2, <3>3 DEF PollToken, NoCipherQueues
    <3>8. QED
      BY <3>6, <3>7
  <2>3. QED
    BY <2>1, <2>2
<1>7. CASE PushId
  <2>1. ASSUME qpp = None PROVE NoCipherThreads' /\ NoCipherQueues'
    <3>1. outgoing \in Seq(Plain)
      BY <2>1 DEF NoCipherQueues
    <3>2. outgoing' \in Seq(Plain)
      BY <1>7, <3>1, PlainFacts DEF PushId
    <3>3. QED
      BY <1>7, <2>1, <3>2 DEF PushId, NoCipherThreads, NoCipherQueues
  <2>2. QED
    BY <1>7, <2>1 DEF PushId
<1>8. CASE PollSeed
  <2>1. Head(incoming) \in AnyToken /\ seed' = Head(incoming).payload
    BY <1>8, <1>t DEF PollSeed, QueueTypes
  <2>2. seed' # None
    BY <1>8, <1>s, <2>1, TokenFacts DEF PollSeed
  <2>3. ASSUME qpp = None PROVE NoCipherThreads' /\ NoCipherQueues'
    <3>1. incoming \in Seq(Uncipher) /\ incoming # <<>> /\ incoming' = Tail(incoming)
      BY <1>8, <2>3 DEF PollSeed, NoCipherQueues
    <3>2. incoming' \in Seq(Uncipher)
      BY <3>1
    <3>3. QED
      BY <1>8, <2>3, <3>2 DEF PollSeed, NoCipherThreads, NoCipherQueues
  <2>4. QED
    BY <1>8, <2>2, <2>3 DEF PollSeed
<1>9. CASE HandshakeError
  <2>1. ASSUME qpp = None PROVE NoCipherThreads' /\ NoCipherQueues'
    <3>1. incoming \in Seq(Uncipher) /\ incoming # <<>> /\ incoming' = Tail(incoming)
      BY <1>9, <2>1 DEF HandshakeError, NoCipherQueues
    <3>2. incoming' \in Seq(Uncipher)
      BY <3>1
    <3>3. QED
      BY <1>9, <2>1, <3>2 DEF HandshakeError, NoCipherThreads, NoCipherQueues
  <2>2. QED
    BY <1>9, <2>1 DEF HandshakeError
<1>10. CASE ConstructQpp
  BY <1>10 DEF ConstructQpp
<1>11. CASE PushHsComplete
  BY <1>11 DEF PushHsComplete, NoCipherThreads
<1>12. CASE Cipher
  BY <1>12 DEF Cipher
<1>13. CASE PollReply
  <2>1. ASSUME qpp = None PROVE NoCipherThreads' /\ NoCipherQueues'
    <3>1. outgoing \in Seq(Plain) /\ outgoing # <<>>
          /\ sending' = <<Head(outgoing)>> /\ outgoing' = Tail(outgoing)
      BY <1>13, <2>1 DEF PollReply, NoCipherQueues
    <3>2. sending' \in Seq(Plain) /\ outgoing' \in Seq(Plain)
      BY <3>1
    <3>3. QED
      BY <1>13, <2>1, <3>2 DEF PollReply, NoCipherThreads, NoCipherQueues
  <2>2. QED
    BY <1>13, <2>1 DEF PollReply
<1>14. CASE Write
  <2>1. ASSUME qpp = None PROVE NoCipherThreads' /\ NoCipherQueues'
    <3>1. sending \in Seq(Plain) /\ fromNode \in Seq(Plain)
      BY <2>1 DEF NoCipherQueues
    <3>2. fromNode' \in Seq(Plain) /\ sending' \in Seq(Plain)
      BY <1>14, <3>1 DEF Write
    <3>3. QED
      BY <1>14, <2>1, <3>2 DEF Write, NoCipherThreads, NoCipherQueues
  <2>2. QED
    BY <1>14, <2>1 DEF Write
<1>15. QED
  BY <1>1, <1>2, <1>3, <1>4, <1>5, <1>6, <1>7, <1>8, <1>9, <1>10, <1>11, <1>12, <1>13, <1>14
     DEF IncomingThread, ConsumerThread, OutgoingThread

\* The steps of the Core Complex and of the connection keep KInv.
LEMMA KInvCore == TInv /\ KInv /\ CoreComplex => KInv'
<1> SUFFICES ASSUME TInv, KInv, CoreComplex PROVE KInv'
  OBVIOUS
<1> USE DEF KInv, nodeVars, coreVars, netVars
<1>1. CASE RequestHandshake
  <2> DEFINE msg == Token("REQUEST_HANDSHAKE", None)
  <2>1. msg \in Uncipher
    BY PlainFacts
  <2>2. Ask(msg, key) /\ core' # "ready"
    BY <1>1 DEF RequestHandshake
  <2> HIDE DEF msg
  <2>3. toNode \in Seq(Uncipher) => toNode' \in Seq(Uncipher)
    BY <2>1, <2>2 DEF Ask
  <2>4. QED
    BY <2>2, <2>3 DEF Ask, NoCipherThreads, NoCipherQueues
<1>2. CASE \E s \in Seeds : SetSeed(s)
  <2>1. PICK s \in Seeds : SetSeed(s)
    BY <1>2
  <2> DEFINE msg == Token("SET_SEED", s)
  <2>2. msg \in Uncipher
    BY PlainFacts
  <2>3. Ask(msg, s) /\ core' # "ready"
    BY <2>1 DEF SetSeed
  <2> HIDE DEF msg
  <2>4. toNode \in Seq(Uncipher) => toNode' \in Seq(Uncipher)
    BY <2>2, <2>3 DEF Ask
  <2>5. QED
    BY <2>3, <2>4 DEF Ask, NoCipherThreads, NoCipherQueues
<1>3. CASE \E api \in DOMAIN CipherReply, text \in Texts : RequestCipher(api, text)
  <2>1. core = "ready" /\ consumer' = consumer /\ seed' = seed /\ qpp' = qpp
    BY <1>3 DEF RequestCipher, Ask
  <2>2. QED
    BY <2>1 DEF NoCipherThreads
<1>4. CASE ReceiveAnswer
  <2>1. ASSUME qpp = None PROVE NoCipherThreads' /\ NoCipherQueues'
    <3>1. fromNode \in Seq(Plain) /\ fromNode # <<>> /\ fromNode' = Tail(fromNode)
      BY <1>4, <2>1 DEF ReceiveAnswer, NoCipherQueues
    <3>2. Head(fromNode) \in Plain /\ fromNode' \in Seq(Plain)
      BY <3>1
    <3>3. Head(fromNode) # HsComplete
      BY <3>2, PlainFacts
    <3>4. core' # "ready"
      BY <1>4, <2>1, <3>3 DEF ReceiveAnswer, NoCipherThreads
    <3>5. QED
      BY <1>4, <2>1, <3>2, <3>4 DEF ReceiveAnswer, NoCipherThreads, NoCipherQueues
  <2>2. QED
    BY <1>4, <2>1 DEF ReceiveAnswer
<1>5. CASE Close
  BY <1>5 DEF Close, NoCipherThreads, NoCipherQueues
<1>6. CASE Reset
  <2>1. PICK n \in 0..Len(toNode) : toNode' = SubSeq(toNode, 1, n)
    BY <1>6 DEF Reset
  <2>2. toNode \in Seq(Uncipher) => toNode' \in Seq(Uncipher)
    BY <2>1, CutFacts
  <2>3. QED
    BY <1>6, <2>2 DEF Reset, NoCipherThreads, NoCipherQueues
<1>7. QED
  BY <1>1, <1>2, <1>3, <1>4, <1>5, <1>6 DEF CoreComplex

LEMMA KInvAlways == Spec => [](TInv /\ KInv)
<1>1. TInv /\ KInv /\ [Next]_vars => KInv'
  <2>1. ASSUME KInv, UNCHANGED vars PROVE KInv'
    BY <2>1 DEF vars, nodeVars, coreVars, netVars, KInv, NoCipherThreads, NoCipherQueues
  <2>2. QED
    BY <2>1, KInvNode, KInvCore DEF Next
<1>2. QED
  BY <1>1, TInvInit, TInvStep, KInvInit, PTL DEF Spec

\* The consumer thread never calls a cipher that no handshake has constructed, although
\* its pointer is uninitialized until then: however reads cut the stream of messages,
\* whenever main frees the seed and however the connection ends.
THEOREM CipherConstructedFirst == Spec => []KeyedBeforeUse
<1>1. KInv => KeyedBeforeUse
  BY DEF KInv, NoCipherThreads, KeyedBeforeUse
<1>2. QED
  BY <1>1, KInvAlways, PTL

-----------------------------------------------------------------------------
(* Answers and tokens                                                      *)

\* Anything that can be an answer under some seed.
Outcomes == Replies \union {AnswerTo(m, k) : m \in Messages, k \in Seeds \union {None}}

\* Every message asks for one kind of answer.
LEMMA MessageFacts ==
  ASSUME NEW m \in Messages, NEW k
  PROVE  /\ AnswerTo(m, k) = SendId <=> m.api = "REQUEST_HANDSHAKE"
         /\ AnswerTo(m, k) = HsComplete <=> m.api = "SET_SEED"
         /\ m.api \in {"REQUEST_HANDSHAKE", "SET_SEED"} \union Apis
         /\ m.api = "REQUEST_HANDSHAKE" => m = Token("REQUEST_HANDSHAKE", None)
         /\ m # Unparsed /\ m \in AnyToken
         /\ k \in Seeds \union {None} => AnswerTo(m, k) \in Outcomes
<1>0. Unparsed.api = ""
  BY DEF Unparsed, Token
<1>1. \/ m = Token("REQUEST_HANDSHAKE", None)
      \/ \E s \in Seeds : m = Token("SET_SEED", s)
      \/ \E api \in Apis, text \in Texts : m = Token(api, text)
  BY CipherReplyFacts DEF Messages
<1>2. CASE m = Token("REQUEST_HANDSHAKE", None)
  <2>1. m.api = "REQUEST_HANDSHAKE" /\ m # Unparsed /\ "REQUEST_HANDSHAKE" \notin Apis
    BY <1>2 DEF Token, Unparsed, Apis
  <2>2. AnswerTo(m, k) = SendId /\ SendId # HsComplete
    BY <1>2, AskedFacts, ReplyFacts
  <2>3. QED
    BY <1>2, <2>1, <2>2 DEF AnyToken, Outcomes
<1>3. CASE \E s \in Seeds : m = Token("SET_SEED", s)
  <2>1. m.api = "SET_SEED" /\ m # Unparsed /\ "SET_SEED" \notin Apis
    <3>1. PICK s \in Seeds : m = Token("SET_SEED", s)
      BY <1>3
    <3>2. m.api = "SET_SEED"
      BY <3>1 DEF Token
    <3>3. QED
      BY <1>0, <3>2 DEF Apis
  <2>2. AnswerTo(m, k) = HsComplete /\ SendId # HsComplete
    BY <1>3, AskedFacts, ReplyFacts
  <2>3. QED
    BY <2>1, <2>2 DEF AnyToken, Outcomes
<1>4. CASE \E api \in Apis, text \in Texts : m = Token(api, text)
  <2>1. m.api \in Apis /\ m # Unparsed /\ m.api \notin {"REQUEST_HANDSHAKE", "SET_SEED"}
    <3>1. PICK api \in Apis, text \in Texts : m = Token(api, text)
      BY <1>4
    <3>2. m.api = api
      BY <3>1 DEF Token
    <3>3. QED
      BY <1>0, <3>2 DEF Apis
  <2>2. AnswerTo(m, k) = Reply(CipherReply[m.api], m.payload, k)
    BY <2>1 DEF AnswerTo
  <2>3. AnswerTo(m, k).api \in {"SEND_ENCRYPTED", "SEND_DECRYPTED"}
    BY <2>1, <2>2, CipherReplyFacts DEF Reply
  <2>4. AnswerTo(m, k) # SendId /\ AnswerTo(m, k) # HsComplete
    BY <2>3, ReplyFacts
  <2>5. QED
    BY <2>1, <2>4 DEF AnyToken, Outcomes
<1>5. QED
  BY <1>1, <1>2, <1>3, <1>4

LEMMA UnreadFacts ==
  ASSUME TInv
  PROVE  /\ Unread \in Seq(Messages)
         /\ toNode = <<>> => Unread = <<>>
<1>1. toNode \in Seq(Messages) /\ (toNode = <<>> => offset = AtBrace)
  BY DEF TInv, QueueTypes
<1>2. toNode # <<>> => Tail(toNode) \in Seq(Messages)
  BY <1>1, HeadTailProperties
<1>3. QED
  BY <1>1, <1>2 DEF Unread

\* A message that is sent goes behind the unread ones.
LEMMA UnreadAsk ==
  ASSUME TInv, NEW msg \in Messages, toNode' = Append(toNode, msg), offset' = offset
  PROVE  Unread' = Append(Unread, msg)
<1>1. toNode \in Seq(Messages) /\ (toNode = <<>> => offset = AtBrace)
  BY DEF TInv, QueueTypes
<1>2. toNode # <<>> => Tail(Append(toNode, msg)) = Append(Tail(toNode), msg)
  BY <1>1, HeadTailAppend
<1>3. QED
  BY <1>1, <1>2 DEF Unread

\* Every step but a push keeps the replies on their way in a set.
LEMMA RepliesKept ==
  ASSUME NEW S, outgoing \in Seq(S), sending \in Seq(S), fromNode \in Seq(S),
         OutgoingThread \/ ReceiveAnswer \/ UNCHANGED <<outgoing, sending, fromNode>>
  PROVE  outgoing' \in Seq(S) /\ sending' \in Seq(S) /\ fromNode' \in Seq(S)
<1> USE DEF nodeVars, coreVars, netVars
<1>1. CASE PollReply
  <2>1. outgoing # <<>> /\ sending' = <<Head(outgoing)>> /\ outgoing' = Tail(outgoing)
        /\ fromNode' = fromNode
    BY <1>1 DEF PollReply
  <2>2. QED
    BY <2>1
<1>2. CASE Write
  <2>1. sending' = <<>> /\ outgoing' = outgoing /\ fromNode' \in {fromNode, fromNode \o sending}
    BY <1>2 DEF Write
  <2>2. <<>> \in Seq(S) /\ fromNode \o sending \in Seq(S)
    BY ConcatProperties
  <2>3. QED
    BY <2>1, <2>2
<1>3. CASE ReceiveAnswer
  <2>1. fromNode # <<>> /\ fromNode' = Tail(fromNode) /\ UNCHANGED <<outgoing, sending>>
    BY <1>3 DEF ReceiveAnswer
  <2>2. QED
    BY <2>1
<1>4. CASE UNCHANGED <<outgoing, sending, fromNode>>
  BY <1>4
<1>5. QED
  BY <1>1, <1>2, <1>3, <1>4 DEF OutgoingThread

\* Tokens that set no other seed than k.
Current(k) == {t \in AnyToken : t.api = "SET_SEED" => t.payload = k}

LEMMA CurrentFacts ==
  ASSUME NEW k
  PROVE  /\ Unparsed \in Current(k)
         /\ Token("REQUEST_HANDSHAKE", None) \in Current(k)
         /\ k \in Seeds => Token("SET_SEED", k) \in Current(k)
         /\ \A api \in Apis, text \in Texts : Token(api, text) \in Current(k)
<1>1. Unparsed.api = "" /\ Unparsed \in AnyToken
  BY DEF Unparsed, Token, AnyToken
<1>2. \A api, p : Token(api, p).api = api /\ Token(api, p).payload = p
  BY DEF Token
<1>3. \A api \in Apis : api # "SET_SEED"
  BY DEF Apis
<1>4. QED
  BY <1>1, <1>2, <1>3, AskedFacts DEF Current, AnyToken

-----------------------------------------------------------------------------
(* What the Core Complex waits for                                         *)

\* Between two handshakes nothing is said of what is expected; during one, what the Core
\* Complex waits for ends with the answer to the message of the handshake it sent.
CoreExpects ==
  /\ core \in {"idle", "giveSeed"} => expected = <<>>
  /\ core = "awaitId" => expected # <<>> /\ expected[Len(expected)] = SendId
  /\ core = "awaitHs" => expected = <<HsComplete>>

\* The three answers that the Core Complex can receive.
LEMMA AnswerReceived ==
  ASSUME TInv, CoreExpects, ReceiveAnswer
  PROVE  /\ expected \in Seq(Replies) /\ fromNode \in Seq(Replies)
         /\ expected # <<>> /\ fromNode # <<>>
         /\ Head(fromNode) = SendId => core = "awaitId" /\ Len(expected) = 1 /\ core' = "giveSeed"
         /\ Head(fromNode) = HsComplete => core = "awaitHs" /\ Len(expected) = 1 /\ core' = "ready"
         /\ Head(fromNode) \notin {SendId, HsComplete} =>
              core' = core /\ core \in {"awaitId", "ready"} /\ (core = "awaitId" => Len(expected) > 1)
<1>1. /\ expected \in Seq(Replies) /\ fromNode \in Seq(Replies)
      /\ expected # <<>> /\ fromNode # <<>>
      /\ Head(fromNode).api = Head(expected).api
  BY DEF TInv, QueueTypes, ReceiveAnswer
<1>2. /\ Head(fromNode) \in Replies /\ Head(expected) \in Replies
      /\ Head(expected) = expected[1] /\ Len(expected) \in Nat /\ Len(expected) >= 1
      /\ 1 \in DOMAIN expected
  BY <1>1
<1>3. /\ expected[1] = SendId => core = "awaitId" /\ Len(expected) = 1
      /\ expected[1] = HsComplete => core = "awaitHs" /\ Len(expected) = 1
  BY <1>2 DEF TInv, Handshakes, Outstanding
<1>4. /\ Head(fromNode) = SendId <=> expected[1] = SendId
      /\ Head(fromNode) = HsComplete <=> expected[1] = HsComplete
  BY <1>1, <1>2, ReplyFacts
<1>5. core' = CASE Head(fromNode) = SendId -> "giveSeed"
                [] Head(fromNode) = HsComplete -> "ready"
                [] OTHER -> core
  BY DEF ReceiveAnswer
<1>6. ASSUME Head(fromNode) \notin {SendId, HsComplete}
      PROVE  core' = core /\ core \in {"awaitId", "ready"} /\ (core = "awaitId" => Len(expected) > 1)
  <2>1. core' = core
    BY <1>5, <1>6
  <2>2. core \notin {"idle", "giveSeed"}
    BY <1>1 DEF CoreExpects
  <2>3. core # "awaitHs"
    <3>1. core = "awaitHs" => expected = <<HsComplete>>
      BY DEF CoreExpects
    <3>2. expected = <<HsComplete>> => expected[1] = HsComplete
      OBVIOUS
    <3>3. QED
      BY <1>4, <1>6, <3>1, <3>2
  <2>4. core = "awaitId" => Len(expected) # 1
    BY <1>4, <1>6 DEF CoreExpects
  <2>5. core \in {"idle", "awaitId", "giveSeed", "awaitHs", "ready"}
    BY DEF TInv, ThreadTypes
  <2>6. core \in {"awaitId", "ready"}
    BY <2>2, <2>3, <2>5
  <2>7. core = "awaitId" => Len(expected) > 1
    <3>1. \A n \in Nat : n >= 1 /\ n # 1 => n > 1
      OBVIOUS
    <3>2. QED
      BY <1>2, <2>4, <3>1, Zenon
  <2>8. QED
    BY <2>1, <2>6, <2>7
<1>7. SendId # HsComplete
  BY ReplyFacts
<1>8. QED
  BY <1>1, <1>3, <1>4, <1>5, <1>6, <1>7

LEMMA CoreExpectsStep ==
  ASSUME TInv, CoreExpects, [Next]_vars
  PROVE  CoreExpects'
<1>1. CASE UNCHANGED <<core, expected>>
  BY <1>1 DEF CoreExpects
<1>2. CASE RequestHandshake
  <2>1. core' = "awaitId" /\ expected' = Append(expected, SendId)
    BY <1>2, AskedFacts DEF RequestHandshake, Ask
  <2>2. expected \in Seq(Replies) /\ SendId \in Replies
    BY ReplyFacts DEF TInv, QueueTypes
  <2>3. expected' # <<>> /\ Len(expected') = Len(expected) + 1 /\ expected'[Len(expected) + 1] = SendId
    BY <2>1, <2>2, AppendProperties
  <2>4. QED
    BY <2>1, <2>3 DEF CoreExpects
<1>3. CASE \E s \in Seeds : SetSeed(s)
  <2>1. core = "giveSeed" /\ core' = "awaitHs" /\ expected' = Append(expected, HsComplete)
    BY <1>3, AskedFacts DEF SetSeed, Ask
  <2>2. expected = <<>>
    BY <2>1 DEF CoreExpects
  <2>3. expected' = <<HsComplete>>
    <3>1. HsComplete \in Replies /\ <<>> \in Seq(Replies)
      BY ReplyFacts
    <3>2. Append(<<>>, HsComplete) = <<>> \o <<HsComplete>> /\ <<HsComplete>> \in Seq(Replies)
      BY <3>1, AppendIsConcat
    <3>3. QED
      BY <2>1, <2>2, <3>2, ConcatEmptySeq
  <2>4. QED
    BY <2>1, <2>3 DEF CoreExpects
<1>4. CASE \E api \in DOMAIN CipherReply, text \in Texts : RequestCipher(api, text)
  <2>1. core' = "ready"
    BY <1>4 DEF RequestCipher
  <2>2. QED
    BY <2>1 DEF CoreExpects
<1>5. CASE ReceiveAnswer
  <2>1. expected \in Seq(Replies) /\ expected # <<>> /\ expected' = Tail(expected)
    BY <1>5, AnswerReceived DEF ReceiveAnswer
  <2>2. /\ expected' \in Seq(Replies) /\ Len(expected') = Len(expected) - 1
        /\ Len(expected) \in Nat
        /\ \A i \in 1..Len(expected') : expected'[i] = expected[i + 1]
    BY <2>1, HeadTailProperties, LenProperties
  <2>3. CASE Head(fromNode) = SendId
    <3>1. core' = "giveSeed" /\ Len(expected) = 1
      BY <1>5, <2>3, AnswerReceived
    <3>2. expected' = <<>>
      BY <2>2, <3>1, EmptySeq
    <3>3. QED
      BY <3>1, <3>2 DEF CoreExpects
  <2>4. CASE Head(fromNode) = HsComplete
    <3>1. core' = "ready"
      BY <1>5, <2>4, AnswerReceived
    <3>2. QED
      BY <3>1 DEF CoreExpects
  <2>5. CASE Head(fromNode) \notin {SendId, HsComplete}
    <3>1. core' = core /\ core \in {"awaitId", "ready"} /\ (core = "awaitId" => Len(expected) > 1)
      BY <1>5, <2>5, AnswerReceived
    <3>2. ASSUME core = "awaitId"
          PROVE  expected' # <<>> /\ expected'[Len(expected')] = SendId
      <4>1. Len(expected') \in 1..Len(expected') /\ Len(expected') + 1 = Len(expected)
        BY <2>2, <3>1, <3>2
      <4>2. expected'[Len(expected')] = expected[Len(expected)]
        BY <2>2, <4>1
      <4>3. expected' # <<>>
        BY <4>1, EmptySeq
      <4>4. QED
        BY <3>2, <4>2, <4>3 DEF CoreExpects
    <3>3. QED
      BY <3>1, <3>2 DEF CoreExpects
  <2>6. QED
    BY <2>3, <2>4, <2>5
<1>6. QED
  BY <1>1, <1>2, <1>3, <1>4, <1>5
     DEF Next, IncomingThread, ConsumerThread, OutgoingThread, CoreComplex, coreVars, vars,
         DeleteSeed, Connect, ConnectFails, Receive, ReceiveNothing, PollToken, PushId,
         PollSeed, HandshakeError, ConstructQpp, PushHsComplete, Cipher, PollReply, Write,
         Close, Reset

-----------------------------------------------------------------------------
(* Some of the answers of a sequence, in its order                         *)

Heard(q) == {i \in 1..Len(q) : q[i] # None}

\* The places of the answers of q in p.
Places(at, q, p) ==
  /\ at \in [Heard(q) -> 1..Len(p)]
  /\ \A i, j \in Heard(q) : i < j => at[i] < at[j]
  /\ \A i \in Heard(q) : q[i] = p[at[i]]

LEMMA AmongPlaces ==
  ASSUME NEW q, NEW p
  PROVE  Among(q, p) <=> \E at : Places(at, q, p)
BY DEF Among, Places, Heard

LEMMA AmongItself ==
  ASSUME NEW q, Len(q) \in Nat
  PROVE  Among(q, q)
<1> DEFINE at == [i \in Heard(q) |-> i]
<1>1. Places(at, q, q)
  BY DEF Places, Heard
<1>2. QED
  BY <1>1, AmongPlaces

LEMMA NothingAmong ==
  ASSUME NEW q, NEW p, Heard(q) = {}
  PROVE  Among(q, p)
<1> DEFINE at == [i \in Heard(q) |-> 0]
<1>1. Places(at, q, p)
  BY DEF Places
<1>2. QED
  BY <1>1, AmongPlaces

LEMMA AmongNothing ==
  ASSUME NEW q, Among(q, <<>>)
  PROVE  Heard(q) = {}
<1>1. PICK at : Places(at, q, <<>>)
  BY AmongPlaces
<1>2. QED
  BY <1>1 DEF Places

LEMMA AmongTransitive ==
  ASSUME NEW r, NEW q, NEW p, Len(r) \in Nat, Len(q) \in Nat, Len(p) \in Nat,
         Among(r, q), Among(q, p)
  PROVE  Among(r, p)
<1>1. PICK f : Places(f, r, q)
  BY AmongPlaces
<1>2. PICK g : Places(g, q, p)
  BY AmongPlaces
<1> DEFINE at == [i \in Heard(r) |-> g[f[i]]]
<1>3. \A i \in Heard(r) : f[i] \in Heard(q) /\ r[i] = q[f[i]]
  BY <1>1 DEF Places, Heard
<1>4. at \in [Heard(r) -> 1..Len(p)]
  BY <1>2, <1>3 DEF Places
<1>5. \A i, j \in Heard(r) : i < j => at[i] < at[j]
  BY <1>1, <1>2, <1>3 DEF Places
<1>6. \A i \in Heard(r) : r[i] = p[at[i]]
  BY <1>2, <1>3 DEF Places
<1>7. QED
  BY <1>4, <1>5, <1>6, AmongPlaces DEF Places

LEMMA AmongCat ==
  ASSUME NEW S, NEW a \in Seq(S), NEW b \in Seq(S), NEW c \in Seq(S), NEW d \in Seq(S),
         Among(a, b), Among(c, d)
  PROVE  Among(Cat(a, c), Cat(b, d))
<1> DEFINE q == Cat(a, c)
           p == Cat(b, d)
<1>1. /\ Len(a) \in Nat /\ Len(b) \in Nat /\ Len(c) \in Nat /\ Len(d) \in Nat
      /\ Len(q) = Len(a) + Len(c) /\ Len(p) = Len(b) + Len(d)
  BY CatFacts, LenProperties
<1>2. \A i \in 1..(Len(a) + Len(c)) : q[i] = IF i <= Len(a) THEN a[i] ELSE c[i - Len(a)]
  BY CatElements
<1>3. \A i \in 1..(Len(b) + Len(d)) : p[i] = IF i <= Len(b) THEN b[i] ELSE d[i - Len(b)]
  BY CatElements
<1>4. PICK f : Places(f, a, b)
  BY AmongPlaces
<1>5. PICK g : Places(g, c, d)
  BY AmongPlaces
<1> DEFINE at == [i \in Heard(q) |-> IF i <= Len(a) THEN f[i] ELSE Len(b) + g[i - Len(a)]]
<1> HIDE DEF q, p
<1>6. ASSUME NEW i \in Heard(q)
      PROVE  /\ i \in Nat
             /\ i <= Len(a) => i \in Heard(a) /\ f[i] \in 1..Len(b) /\ q[i] = b[f[i]]
             /\ ~(i <= Len(a)) => /\ i - Len(a) \in Heard(c) /\ g[i - Len(a)] \in 1..Len(d)
                                  /\ q[i] = d[g[i - Len(a)]]
  <2>1. i \in 1..(Len(a) + Len(c)) /\ q[i] # None
    BY <1>1 DEF Heard
  <2>2. CASE i <= Len(a)
    <3>1. i \in Heard(a) /\ q[i] = a[i]
      BY <1>1, <1>2, <2>1, <2>2 DEF Heard
    <3>2. QED
      BY <1>4, <2>1, <2>2, <3>1 DEF Places
  <2>3. CASE ~(i <= Len(a))
    <3>1. i - Len(a) \in Heard(c) /\ q[i] = c[i - Len(a)]
      BY <1>1, <1>2, <2>1, <2>3 DEF Heard
    <3>2. QED
      BY <1>5, <2>1, <2>3, <3>1 DEF Places
  <2>4. QED
    BY <2>2, <2>3
<1>7. ASSUME NEW i \in Heard(q)
      PROVE  at[i] \in 1..Len(p) /\ q[i] = p[at[i]]
  <2>1. CASE i <= Len(a)
    <3>1. at[i] = f[i] /\ f[i] \in 1..(Len(b) + Len(d)) /\ f[i] <= Len(b)
      BY <1>1, <1>6, <2>1
    <3>2. QED
      BY <1>1, <1>3, <1>6, <2>1, <3>1
  <2>2. CASE ~(i <= Len(a))
    <3>1. /\ at[i] = Len(b) + g[i - Len(a)] /\ at[i] \in 1..(Len(b) + Len(d))
          /\ ~(at[i] <= Len(b)) /\ at[i] - Len(b) = g[i - Len(a)]
      BY <1>1, <1>6, <2>2
    <3>2. QED
      BY <1>1, <1>3, <1>6, <2>2, <3>1
  <2>3. QED
    BY <2>1, <2>2
<1>8. ASSUME NEW i \in Heard(q), NEW j \in Heard(q), i < j
      PROVE  at[i] < at[j]
  <2>1. CASE j <= Len(a)
    <3>1. i <= Len(a) /\ i \in Heard(a) /\ j \in Heard(a)
      BY <1>1, <1>6, <1>8, <2>1
    <3>2. QED
      BY <1>4, <1>8, <2>1, <3>1 DEF Places
  <2>2. CASE i <= Len(a) /\ ~(j <= Len(a))
    <3>1. f[i] \in 1..Len(b) /\ g[j - Len(a)] \in 1..Len(d)
      BY <1>6, <2>2
    <3>2. QED
      BY <1>1, <2>2, <3>1
  <2>3. CASE ~(i <= Len(a))
    <3>1. /\ ~(j <= Len(a)) /\ i - Len(a) < j - Len(a)
          /\ i - Len(a) \in Heard(c) /\ j - Len(a) \in Heard(c)
          /\ g[i - Len(a)] \in 1..Len(d) /\ g[j - Len(a)] \in 1..Len(d)
      BY <1>1, <1>6, <1>8, <2>3
    <3>2. g[i - Len(a)] < g[j - Len(a)]
      BY <1>5, <3>1 DEF Places
    <3>3. QED
      BY <1>1, <2>3, <3>1, <3>2
  <2>4. QED
    BY <2>1, <2>2, <2>3
<1>9. at \in [Heard(q) -> 1..Len(p)]
  BY <1>7
<1> HIDE DEF at
<1>10. Places(at, q, p)
  BY <1>7, <1>8, <1>9 DEF Places
<1>11. QED
  BY <1>10, AmongPlaces DEF q, p

\* Without their first ones, if the other's first one was for its first one.
LEMMA AmongRest ==
  ASSUME NEW S, NEW x \in S, NEW y \in S, NEW q \in Seq(S), NEW p \in Seq(S), x # None,
         Among(Cat(One(x), q), Cat(One(y), p))
  PROVE  Among(q, p)
<1> DEFINE s == Cat(One(x), q)
           t == Cat(One(y), p)
<1>1. /\ Len(q) \in Nat /\ Len(p) \in Nat
      /\ One(x) \in Seq(S) /\ One(y) \in Seq(S) /\ Len(One(x)) = 1 /\ Len(One(y)) = 1
      /\ One(x)[1] = x
  BY LenProperties, OneFacts
<1> DEFINE h == One(x)
           k == One(y)
<1>2. Len(s) = 1 + Len(q) /\ Len(t) = 1 + Len(p)
  <2> HIDE DEF h, k
  <2>1. /\ h \in Seq(S) /\ Len(h) = 1 /\ s = Cat(h, q)
        /\ k \in Seq(S) /\ Len(k) = 1 /\ t = Cat(k, p)
    BY <1>1 DEF h, k
  <2>2. Len(Cat(h, q)) = Len(h) + Len(q) /\ Len(Cat(k, p)) = Len(k) + Len(p)
    BY <2>1, CatFacts
  <2>3. QED
    BY <2>1, <2>2
<1>3. s[1] = x /\ \A i \in 1..Len(q) : s[i + 1] = q[i]
  <2> HIDE DEF h, s
  <2>0. h \in Seq(S) /\ Len(h) = 1 /\ s = Cat(h, q)
    BY <1>1 DEF h, s
  <2>1. \A i \in 1..(Len(h) + Len(q)) : Cat(h, q)[i] = IF i <= Len(h) THEN h[i] ELSE q[i - Len(h)]
    BY <2>0, CatElements
  <2>2. ASSUME NEW i \in 1..Len(q) PROVE s[i + 1] = q[i]
    <3>1. i + 1 \in 1..(1 + Len(q)) /\ ~(i + 1 <= 1) /\ (i + 1) - 1 = i
      BY <1>1
    <3>2. QED
      BY <2>0, <2>1, <3>1
  <2>3. 1 \in 1..(1 + Len(q)) /\ 1 <= 1 /\ h[1] = x
    BY <1>1 DEF h
  <2>4. s[1] = x
    BY <2>0, <2>1, <2>3
  <2>5. QED
    BY <2>2, <2>4
<1>4. \A i \in 1..Len(p) : t[i + 1] = p[i]
  <2> HIDE DEF k, t
  <2>0. k \in Seq(S) /\ Len(k) = 1 /\ t = Cat(k, p)
    BY <1>1 DEF k, t
  <2>1. \A i \in 1..(Len(k) + Len(p)) : Cat(k, p)[i] = IF i <= Len(k) THEN k[i] ELSE p[i - Len(k)]
    BY <2>0, CatElements
  <2>2. ASSUME NEW i \in 1..Len(p) PROVE t[i + 1] = p[i]
    <3>1. i + 1 \in 1..(1 + Len(p)) /\ ~(i + 1 <= 1) /\ (i + 1) - 1 = i
      BY <1>1
    <3>2. QED
      BY <2>0, <2>1, <3>1
  <2>3. QED
    BY <2>2
<1>5. PICK f : Places(f, s, t)
  BY AmongPlaces
<1> HIDE DEF s, t, h, k
<1> DEFINE at == [i \in Heard(q) |-> f[i + 1] - 1]
<1>6. 1 \in Heard(s) /\ f[1] \in 1..(1 + Len(p))
  <2>1. 1 \in 1..Len(s) /\ s[1] # None
    BY <1>1, <1>2, <1>3
  <2>2. 1 \in Heard(s)
    BY <2>1 DEF Heard
  <2>3. QED
    BY <1>2, <1>5, <2>2 DEF Places
<1>7. ASSUME NEW i \in Heard(q)
      PROVE  /\ i \in 1..Len(q) /\ i + 1 \in Heard(s) /\ f[i + 1] - 1 \in 1..Len(p)
             /\ q[i] = p[f[i + 1] - 1]
  <2>1. i \in 1..Len(q) /\ i + 1 \in Heard(s) /\ q[i] = s[i + 1] /\ 1 < i + 1
    <3>1. i \in 1..Len(q) /\ q[i] # None
      BY DEF Heard
    <3>2. i + 1 \in 1..Len(s) /\ s[i + 1] = q[i] /\ 1 < i + 1
      BY <1>1, <1>2, <1>3, <3>1
    <3>3. i + 1 \in Heard(s)
      BY <3>1, <3>2 DEF Heard
    <3>4. QED
      BY <3>1, <3>2, <3>3
  <2>2. f[1] < f[i + 1] /\ f[i + 1] \in 1..(1 + Len(p)) /\ s[i + 1] = t[f[i + 1]]
    BY <1>2, <1>5, <1>6, <2>1 DEF Places
  <2>3. f[i + 1] - 1 \in 1..Len(p) /\ (f[i + 1] - 1) + 1 = f[i + 1]
    BY <1>1, <1>6, <2>2
  <2>4. QED
    BY <1>4, <2>1, <2>2, <2>3
<1>8. ASSUME NEW i \in Heard(q), NEW j \in Heard(q), i < j
      PROVE  at[i] < at[j]
  <2>1. /\ i + 1 \in Heard(s) /\ j + 1 \in Heard(s) /\ i + 1 < j + 1
        /\ f[i + 1] - 1 \in 1..Len(p) /\ f[j + 1] - 1 \in 1..Len(p)
        /\ f[i + 1] \in 1..(1 + Len(p)) /\ f[j + 1] \in 1..(1 + Len(p))
    BY <1>2, <1>5, <1>7, <1>8 DEF Places
  <2>2. f[i + 1] < f[j + 1]
    BY <1>5, <2>1 DEF Places
  <2>3. QED
    BY <1>1, <2>1, <2>2
<1>9. Places(at, q, p)
  BY <1>7, <1>8 DEF Places
<1>10. QED
  BY <1>9, AmongPlaces

\* The end of a sequence.
LEMMA EndAmong ==
  ASSUME NEW S, NEW p \in Seq(S), NEW q \in Seq(S)
  PROVE  Among(q, Cat(p, q))
<1>1. <<>> \in Seq(S) /\ Cat(<<>>, q) = q
  BY CatFacts
<1>2. Heard(<<>>) = {}
  BY DEF Heard
<1>3. Among(<<>>, p) /\ Among(q, q)
  BY <1>2, NothingAmong, AmongItself, LenProperties
<1>4. QED
  BY <1>1, <1>3, AmongCat

-----------------------------------------------------------------------------
(* The replies that have been made                                         *)

\* Behind those of them that were written come the others, in the order of the queue.
Written == Cat(Cat(fromNode, sending), outgoing)

\* As long as the node has another cipher than the Core Complex thinks it has, no request
\* for it is under way, and no end of a handshake.
NoCipherLeft ==
  /\ incoming \in Seq(Uncipher) /\ Unread \in Seq(Uncipher)
  /\ outgoing \in Seq(Plain) /\ sending \in Seq(Plain) /\ fromNode \in Seq(Plain)

\* A reply that is pushed goes behind the others.
LEMMA MovePush ==
  ASSUME TInv, NEW x \in Outcomes, outgoing' = Append(outgoing, x), UNCHANGED <<sending, fromNode>>
  PROVE  Written' = Cat(Written, One(x))
<1>1. outgoing \in Seq(Outcomes) /\ sending \in Seq(Outcomes) /\ fromNode \in Seq(Outcomes)
  <2>1. fromNode \in Seq(Replies) /\ sending \in Seq(Replies) /\ outgoing \in Seq(Replies)
    BY DEF TInv, QueueTypes
  <2>2. QED
    BY <2>1, SeqMonotonic DEF Outcomes
<1>2. Cat(fromNode, sending) \in Seq(Outcomes) /\ One(x) \in Seq(Outcomes)
  BY <1>1, CatFacts, OneFacts
<1>3. Append(outgoing, x) = Cat(outgoing, One(x))
  BY <1>1, AppendIsCat
<1>4. Cat(Cat(Cat(fromNode, sending), outgoing), One(x)) = Cat(Cat(fromNode, sending), Cat(outgoing, One(x)))
  BY <1>1, <1>2, CatAssociative
<1>5. QED
  BY <1>3, <1>4 DEF Written

\* The outgoing thread moves replies on, and loses none while the connection is open.
LEMMA MoveOut ==
  ASSUME TInv, OutgoingThread, PollReply \/ link = "open"
  PROVE  Written' = Written
<1>1. outgoing \in Seq(Replies) /\ sending \in Seq(Replies) /\ fromNode \in Seq(Replies)
  BY DEF TInv, QueueTypes
<1>2. CASE PollReply
  <2> DEFINE h == Head(outgoing)
             t == Tail(outgoing)
  <2>1. sending = <<>> /\ outgoing # <<>> /\ sending' = One(h) /\ outgoing' = t /\ fromNode' = fromNode
    BY <1>2 DEF PollReply, netVars, One
  <2>2. h \in Replies /\ t \in Seq(Replies) /\ outgoing = Cat(One(h), t)
    BY <1>1, <2>1, FirstAndRest
  <2> HIDE DEF h, t
  <2>3. Cat(fromNode, sending) = fromNode
    BY <1>1, <2>1, CatFacts
  <2>4. Cat(Cat(fromNode, One(h)), t) = Cat(fromNode, Cat(One(h), t))
    <3>1. One(h) \in Seq(Replies)
      BY <2>2, OneFacts
    <3>2. QED
      BY <1>1, <2>2, <3>1, CatAssociative
  <2>5. QED
    BY <2>1, <2>2, <2>3, <2>4 DEF Written
<1>3. CASE Write /\ link = "open"
  <2>1. sending' = <<>> /\ fromNode' = Cat(fromNode, sending) /\ outgoing' = outgoing
    BY <1>3 DEF Write, Cat
  <2>2. Cat(Cat(fromNode, sending), <<>>) = Cat(fromNode, sending)
    BY <1>1, CatFacts
  <2>3. QED
    BY <2>1, <2>2 DEF Written
<1>4. QED
  BY <1>2, <1>3 DEF OutgoingThread

\* The Core Complex receives the first answer of all.
LEMMA MoveReceived ==
  ASSUME TInv, fromNode # <<>>, fromNode' = Tail(fromNode), UNCHANGED <<sending, outgoing>>
  PROVE  Written # <<>> /\ Head(Written) = Head(fromNode) /\ Written' = Tail(Written)
<1>1. outgoing \in Seq(Replies) /\ sending \in Seq(Replies) /\ fromNode \in Seq(Replies)
  BY DEF TInv, QueueTypes
<1> DEFINE p == Cat(fromNode, sending)
<1>2. p \in Seq(Replies)
  BY <1>1, CatFacts
<1>3. Head(p) = Head(fromNode) /\ Tail(p) = Cat(Tail(fromNode), sending) /\ p # <<>>
  BY <1>1, TailOfFirstPart
<1>4. Written = Cat(p, outgoing) /\ Written' = Cat(Tail(p), outgoing)
  BY <1>3 DEF Written
<1> HIDE DEF p
<1>5. Head(Cat(p, outgoing)) = Head(p) /\ Tail(Cat(p, outgoing)) = Cat(Tail(p), outgoing)
      /\ Cat(p, outgoing) # <<>>
  BY <1>1, <1>2, <1>3, TailOfFirstPart
<1>6. QED
  BY <1>3, <1>4, <1>5

-----------------------------------------------------------------------------
(* The answers to tokens, of which some did not parse                      *)

Items == Outcomes \union {None}

ItemOf(t, k) == IF t = Unparsed THEN None ELSE AnswerTo(t, k)

AnswersOf(q, k) == [i \in 1..Len(q) |-> ItemOf(q[i], k)]

\* An answer is none only if the token did not parse.
LEMMA ItemFacts ==
  ASSUME NEW k \in Seeds \union {None}, NEW t \in AnyToken
  PROVE  /\ ItemOf(t, k) \in Items
         /\ ItemOf(Unparsed, k) = None
         /\ t # Unparsed => t \in Messages /\ ItemOf(t, k) = AnswerTo(t, k)
         /\ t # Unparsed /\ (k \in Seeds \/ t \in Uncipher) => ItemOf(t, k) # None
<1>1. t # Unparsed => t \in Messages /\ ItemOf(t, k) = AnswerTo(t, k)
  BY DEF AnyToken, ItemOf
<1>2. ItemOf(t, k) \in Items
  <2>1. t \in Messages => AnswerTo(t, k) \in Outcomes
    BY MessageFacts
  <2>2. QED
    BY <1>1, <2>1 DEF Items, ItemOf
<1>3. ASSUME t # Unparsed, k \in Seeds \/ t \in Uncipher
      PROVE  AnswerTo(t, k) \in Replies
  <2>1. /\ AnswerTo(t, k) = SendId <=> t.api = "REQUEST_HANDSHAKE"
        /\ AnswerTo(t, k) = HsComplete <=> t.api = "SET_SEED"
        /\ t.api \in {"REQUEST_HANDSHAKE", "SET_SEED"} \union Apis
    BY <1>1, <1>3, MessageFacts
  <2>2. CASE t.api \in {"REQUEST_HANDSHAKE", "SET_SEED"}
    BY <2>1, <2>2, ReplyFacts
  <2>3. CASE t.api \in Apis
    <3>1. k \in Seeds /\ t.payload \in Texts
      BY <1>3, <2>3, TokenFacts DEF Uncipher
    <3>2. AnswerTo(t, k) = Reply(CipherReply[t.api], t.payload, k)
      BY <2>3 DEF AnswerTo, Apis
    <3>3. QED
      BY <2>3, <3>1, <3>2, ReplyFacts
  <2>4. QED
    BY <2>1, <2>2, <2>3
<1>4. QED
  BY <1>1, <1>2, <1>3, ReplyAssumption DEF ItemOf

LEMMA AnswersOfFacts ==
  ASSUME NEW k \in Seeds \union {None}, NEW q \in Seq(AnyToken)
  PROVE  /\ AnswersOf(q, k) \in Seq(Items)
         /\ Len(AnswersOf(q, k)) = Len(q)
         /\ \A i \in 1..Len(q) : AnswersOf(q, k)[i] = ItemOf(q[i], k)
<1>1. Len(q) \in Nat /\ \A i \in 1..Len(q) : q[i] \in AnyToken
  BY LenProperties, ElementOfSeq
<1>2. \A i \in 1..Len(q) : ItemOf(q[i], k) \in Items
  BY <1>1, ItemFacts
<1>3. AnswersOf(q, k) \in [1..Len(q) -> Items]
  BY <1>2 DEF AnswersOf
<1>4. AnswersOf(q, k) \in Seq(Items)
  BY <1>1, <1>3, SeqDef
<1>5. Len(AnswersOf(q, k)) = Len(q)
  <2>1. DOMAIN AnswersOf(q, k) = 1..Len(AnswersOf(q, k)) /\ Len(AnswersOf(q, k)) \in Nat
    BY <1>4, LenProperties
  <2>2. DOMAIN AnswersOf(q, k) = 1..Len(q)
    BY <1>3
  <2>3. QED
    BY <1>1, <2>1, <2>2
<1>6. QED
  BY <1>4, <1>5 DEF AnswersOf

\* The answers to two sequences of tokens, one behind the other.
LEMMA AnswersOfCat ==
  ASSUME NEW k \in Seeds \union {None}, NEW p \in Seq(AnyToken), NEW q \in Seq(AnyToken)
  PROVE  AnswersOf(Cat(p, q), k) = Cat(AnswersOf(p, k), AnswersOf(q, k))
<1> DEFINE r == Cat(p, q)
           a == AnswersOf(r, k)
           b == AnswersOf(p, k)
           c == AnswersOf(q, k)
           d == Cat(b, c)
<1>1. r \in Seq(AnyToken) /\ Len(r) = Len(p) + Len(q) /\ Len(p) \in Nat /\ Len(q) \in Nat
  BY CatFacts, LenProperties
<1>2. \A i \in 1..(Len(p) + Len(q)) : r[i] = IF i <= Len(p) THEN p[i] ELSE q[i - Len(p)]
  BY CatElements
<1> HIDE DEF r
<1>3. /\ a \in Seq(Items) /\ Len(a) = Len(r) /\ \A i \in 1..Len(r) : a[i] = ItemOf(r[i], k)
      /\ b \in Seq(Items) /\ Len(b) = Len(p) /\ \A i \in 1..Len(p) : b[i] = ItemOf(p[i], k)
      /\ c \in Seq(Items) /\ Len(c) = Len(q) /\ \A i \in 1..Len(q) : c[i] = ItemOf(q[i], k)
  BY <1>1, AnswersOfFacts
<1> HIDE DEF a, b, c
<1>4. d \in Seq(Items) /\ Len(d) = Len(b) + Len(c)
  <2>1. b \in Seq(Items) /\ c \in Seq(Items)
    BY <1>3
  <2>2. QED
    BY <2>1, CatFacts
<1>5. \A i \in 1..(Len(b) + Len(c)) : d[i] = IF i <= Len(b) THEN b[i] ELSE c[i - Len(b)]
  BY <1>3, CatElements
<1> HIDE DEF d
<1>6. ASSUME NEW i \in 1..(Len(p) + Len(q)) PROVE a[i] = d[i]
  <2>1. a[i] = ItemOf(r[i], k) /\ d[i] = IF i <= Len(p) THEN b[i] ELSE c[i - Len(p)]
    BY <1>1, <1>3, <1>5
  <2>2. CASE i <= Len(p)
    <3>1. i \in 1..Len(p)
      BY <1>1, <2>2
    <3>2. r[i] = p[i] /\ b[i] = ItemOf(p[i], k)
      BY <1>2, <1>3, <2>2, <3>1
    <3>3. QED
      BY <2>1, <2>2, <3>2
  <2>3. CASE ~(i <= Len(p))
    <3>1. i - Len(p) \in 1..Len(q)
      BY <1>1, <2>3
    <3>2. r[i] = q[i - Len(p)] /\ c[i - Len(p)] = ItemOf(q[i - Len(p)], k)
      BY <1>2, <1>3, <2>3, <3>1
    <3>3. QED
      BY <2>1, <2>3, <3>2
  <2>4. QED
    BY <2>2, <2>3
<1>7. a = d
  BY <1>1, <1>3, <1>4, <1>6, SeqEqual
<1>8. QED
  BY <1>7 DEF a, b, c, d, r

LEMMA AnswersOfOne ==
  ASSUME NEW k \in Seeds \union {None}, NEW t \in AnyToken
  PROVE  AnswersOf(One(t), k) = One(ItemOf(t, k))
<1>1. One(t) \in Seq(AnyToken) /\ Len(One(t)) = 1 /\ One(t)[1] = t
  BY OneFacts
<1>2. ItemOf(t, k) \in Items
  BY ItemFacts
<1>3. /\ One(ItemOf(t, k)) \in Seq(Items) /\ Len(One(ItemOf(t, k))) = 1
      /\ One(ItemOf(t, k))[1] = ItemOf(t, k)
  BY <1>2, OneFacts
<1> DEFINE x == ItemOf(t, k)
           a == AnswersOf(One(t), k)
           b == One(x)
<1>4. a \in Seq(Items) /\ Len(a) = 1 /\ a[1] = x
  <2>1. 1 \in 1..Len(One(t))
    BY <1>1
  <2>2. QED
    BY <1>1, <2>1, AnswersOfFacts
<1>5. b \in Seq(Items) /\ Len(b) = 1 /\ b[1] = x
  BY <1>3
<1> HIDE DEF a, b, x
<1>6. \A i \in 1..Len(a) : a[i] = b[i]
  BY <1>4, <1>5
<1>7. a = b
  BY <1>4, <1>5, <1>6, SeqEqual
<1>8. QED
  BY <1>7 DEF a, b, x

\* A token that is added to a queue, or taken off it.
LEMMA AnswersOfQueue ==
  ASSUME NEW k \in Seeds \union {None}, NEW q \in Seq(AnyToken)
  PROVE  /\ \A t \in AnyToken : AnswersOf(Append(q, t), k) = Cat(AnswersOf(q, k), One(ItemOf(t, k)))
         /\ q # <<>> => /\ Head(q) \in AnyToken /\ Tail(q) \in Seq(AnyToken)
                        /\ AnswersOf(q, k) = Cat(One(ItemOf(Head(q), k)), AnswersOf(Tail(q), k))
<1>1. ASSUME NEW t \in AnyToken
      PROVE  AnswersOf(Append(q, t), k) = Cat(AnswersOf(q, k), One(ItemOf(t, k)))
  <2>1. One(t) \in Seq(AnyToken) /\ Append(q, t) = Cat(q, One(t))
    BY OneFacts, AppendIsCat
  <2>2. AnswersOf(Cat(q, One(t)), k) = Cat(AnswersOf(q, k), AnswersOf(One(t), k))
    BY <2>1, AnswersOfCat
  <2>3. QED
    BY <2>1, <2>2, AnswersOfOne
<1>2. ASSUME q # <<>>
      PROVE  /\ Head(q) \in AnyToken /\ Tail(q) \in Seq(AnyToken)
             /\ AnswersOf(q, k) = Cat(One(ItemOf(Head(q), k)), AnswersOf(Tail(q), k))
  <2>1. Head(q) \in AnyToken /\ Tail(q) \in Seq(AnyToken) /\ q = Cat(One(Head(q)), Tail(q))
    BY <1>2, FirstAndRest
  <2> DEFINE h == Head(q)
             t == Tail(q)
  <2>2. h \in AnyToken /\ t \in Seq(AnyToken) /\ One(h) \in Seq(AnyToken) /\ q = Cat(One(h), t)
    BY <2>1, OneFacts
  <2> HIDE DEF h, t
  <2>3. AnswersOf(Cat(One(h), t), k) = Cat(One(ItemOf(h, k)), AnswersOf(t, k))
    BY <2>2, AnswersOfCat, AnswersOfOne
  <2>4. h \in AnyToken /\ t \in Seq(AnyToken) /\ AnswersOf(q, k) = Cat(One(ItemOf(h, k)), AnswersOf(t, k))
    BY <2>2, <2>3
  <2>5. QED
    BY <2>4 DEF h, t
<1>3. QED
  BY <1>1, <1>2

\* The end of a sequence of tokens.
IsEnd(r, q) ==
  \E m \in Nat : Len(q) = m + Len(r) /\ \A i \in 1..Len(r) : r[i] = q[m + i]

LEMMA EndOfTokens ==
  ASSUME NEW k \in Seeds \union {None}, NEW q \in Seq(AnyToken), NEW r \in Seq(AnyToken),
         IsEnd(r, q)
  PROVE  Among(AnswersOf(r, k), AnswersOf(q, k))
<1>1. PICK m \in Nat : Len(q) = m + Len(r) /\ \A i \in 1..Len(r) : r[i] = q[m + i]
  BY DEF IsEnd
<1>2. Len(r) \in Nat
  BY LenProperties
<1> DEFINE a == AnswersOf(r, k)
           b == AnswersOf(q, k)
           at == [i \in Heard(a) |-> m + i]
<1>3. /\ Len(a) = Len(r) /\ \A i \in 1..Len(r) : a[i] = ItemOf(r[i], k)
      /\ Len(b) = Len(q) /\ \A i \in 1..Len(q) : b[i] = ItemOf(q[i], k)
  BY AnswersOfFacts
<1> HIDE DEF a, b
<1>4. ASSUME NEW i \in Heard(a)
      PROVE  i \in 1..Len(r) /\ m + i \in 1..Len(b) /\ a[i] = b[m + i]
  <2>1. i \in 1..Len(r)
    BY <1>3 DEF Heard
  <2>2. m + i \in 1..Len(q)
    BY <1>1, <1>2, <2>1
  <2>3. QED
    BY <1>1, <1>3, <2>1, <2>2
<1>5. Places(at, a, b)
  <2>1. at \in [Heard(a) -> 1..Len(b)]
    BY <1>4
  <2>2. \A i, j \in Heard(a) : i < j => m + i < m + j
    BY <1>4
  <2>3. QED
    BY <1>4, <2>1, <2>2 DEF Places
<1>6. QED
  BY <1>5, AmongPlaces DEF a, b

LEMMA EndKept ==
  ASSUME NEW M, NEW S, NEW q \in Seq(S), NEW r \in Seq(M), IsEnd(r, q)
  PROVE  r \in Seq(S)
<1>1. PICK m \in Nat : Len(q) = m + Len(r) /\ \A i \in 1..Len(r) : r[i] = q[m + i]
  BY DEF IsEnd
<1>2. ASSUME NEW i \in 1..Len(r) PROVE r[i] \in S
  <2>1. m + i \in 1..Len(q)
    BY <1>1, LenProperties
  <2>2. QED
    BY <1>1, <1>2, <2>1, ElementOfSeq
<1>3. QED
  BY <1>2, SequenceOver

-----------------------------------------------------------------------------
(* How the answers under way move                                          *)

\* What is to be made of the tokens that are queued and of the messages to be read.
Coming == Cat(AnswersOf(incoming, key), AnswersOf(Unread, key))

Parts ==
  /\ Written \in Seq(Items) /\ ConsumerAnswer \in Seq(Items) /\ Coming \in Seq(Items)
  /\ incoming \in Seq(AnyToken) /\ Unread \in Seq(AnyToken) /\ key \in Seeds \union {None}
  /\ Pipeline = Cat(Written, Cat(ConsumerAnswer, Coming))

LEMMA PipelineParts == TInv => Parts
<1> SUFFICES ASSUME TInv PROVE Parts
  OBVIOUS
<1>1. incoming \in Seq(AnyToken) /\ Unread \in Seq(AnyToken) /\ key \in Seeds \union {None}
  <2>1. incoming \in Seq(AnyToken) /\ key \in Seeds \union {None}
    BY DEF TInv, QueueTypes, ThreadTypes
  <2>2. Unread \in Seq(Messages)
    BY UnreadFacts
  <2>3. QED
    BY <2>1, <2>2, SeqMonotonic DEF AnyToken
<1> DEFINE e == AnswersOf(incoming, key)
           f == AnswersOf(Unread, key)
           w == Written
           c == ConsumerAnswer
<1>2. e \in Seq(Items) /\ f \in Seq(Items)
  BY <1>1, AnswersOfFacts
<1>3. w \in Seq(Items)
  <2>1. fromNode \in Seq(Replies) /\ sending \in Seq(Replies) /\ outgoing \in Seq(Replies)
    BY DEF TInv, QueueTypes
  <2>2. fromNode \in Seq(Items) /\ sending \in Seq(Items) /\ outgoing \in Seq(Items)
    BY <2>1, SeqMonotonic DEF Outcomes, Items
  <2>3. Cat(fromNode, sending) \in Seq(Items)
    BY <2>2, CatFacts
  <2>4. QED
    BY <2>2, <2>3, CatFacts DEF Written
<1>4. c \in Seq(Items)
  <2>1. SendId \in Items /\ HsComplete \in Items
    BY ReplyFacts DEF Outcomes, Items
  <2>2. consumer = "cipher" => AnswerTo(acquired, key) \in Items
    <3>1. consumer = "cipher" => acquired \in Messages
      BY TokenFacts, CipherReplyFacts DEF TInv, ThreadTypes, Handshakes, CipherAcquired
    <3>2. QED
      BY <1>1, <3>1 DEF Outcomes, Items
  <2> DEFINE x == AnswerTo(acquired, key)
  <2> HIDE DEF x
  <2>3. /\ <<SendId>> \in Seq(Items) /\ <<HsComplete>> \in Seq(Items)
        /\ <<>> \in Seq(Items)
        /\ x \in Items => <<x>> \in Seq(Items)
    BY <2>1
  <2>4. QED
    BY <2>2, <2>3 DEF ConsumerAnswer, x
<1>5. Pipeline = Cat(Cat(Cat(w, c), e), f)
  BY DEF Pipeline, Written, Cat, Answers, AnswersOf, ItemOf
<1>6. Coming = Cat(e, f)
  BY DEF Coming
<1> HIDE DEF e, f, w, c
<1>7. Cat(e, f) \in Seq(Items) /\ Cat(Cat(Cat(w, c), e), f) = Cat(w, Cat(c, Cat(e, f)))
  BY <1>2, <1>3, <1>4, CatFacts, Regroup
<1>8. w \in Seq(Items) /\ c \in Seq(Items) /\ Coming \in Seq(Items) /\ Pipeline = Cat(w, Cat(c, Coming))
  BY <1>3, <1>4, <1>5, <1>6, <1>7
<1>9. QED
  BY <1>1, <1>8 DEF w, c, Parts

\* The same after a step.
LEMMA PipelinePartsNext == TInv' => Parts'
BY PipelineParts, PTL

LEMMA ThreeParts ==
  ASSUME NEW S, NEW w \in Seq(S), NEW c \in Seq(S), NEW a \in Seq(S),
         NEW v \in Seq(S), NEW d \in Seq(S), NEW b \in Seq(S),
         Among(v, w), Among(Cat(d, b), Cat(c, a))
  PROVE  Among(Cat(v, Cat(d, b)), Cat(w, Cat(c, a)))
<1>1. Cat(d, b) \in Seq(S) /\ Cat(c, a) \in Seq(S)
  BY CatFacts
<1>2. QED
  BY <1>1, AmongCat

\* The beginning of a sequence.
LEMMA StartAmong ==
  ASSUME NEW S, NEW p \in Seq(S), NEW q \in Seq(S)
  PROVE  Among(p, Cat(p, q))
<1>1. <<>> \in Seq(S) /\ Cat(p, <<>>) = p
  BY CatFacts
<1>2. Heard(<<>>) = {}
  BY DEF Heard
<1>3. Among(<<>>, q) /\ Among(p, p)
  BY <1>2, NothingAmong, AmongItself, LenProperties
<1>4. QED
  BY <1>1, <1>3, AmongCat

\* Ends of a sequence.
LEMMA EndFacts ==
  ASSUME NEW S, NEW q \in Seq(S)
  PROVE  /\ IsEnd(q, q)
         /\ \A n \in 0..Len(q) : IsEnd(SubSeq(q, n + 1, Len(q)), q)
         /\ q # <<>> => IsEnd(Tail(q), q)
<1>1. Len(q) \in Nat
  BY LenProperties
<1>2. IsEnd(q, q)
  <2>1. 0 \in Nat /\ Len(q) = 0 + Len(q) /\ \A i \in 1..Len(q) : q[i] = q[0 + i]
    BY <1>1
  <2>2. QED
    BY <2>1 DEF IsEnd
<1>3. ASSUME NEW n \in 0..Len(q) PROVE IsEnd(SubSeq(q, n + 1, Len(q)), q)
  <2> DEFINE r == SubSeq(q, n + 1, Len(q))
  <2>1. Len(r) = Len(q) - n /\ \A i \in 1..(Len(q) - n) : r[i] = q[n + i]
    BY CutFacts
  <2> HIDE DEF r
  <2>2. n \in Nat /\ Len(q) = n + Len(r) /\ \A i \in 1..Len(r) : r[i] = q[n + i]
    BY <1>1, <2>1
  <2>3. IsEnd(r, q)
    BY <2>2 DEF IsEnd
  <2>4. QED
    BY <2>3 DEF r
<1>4. ASSUME q # <<>> PROVE IsEnd(Tail(q), q)
  <2> DEFINE r == Tail(q)
  <2>1. Len(r) = Len(q) - 1 /\ \A i \in 1..Len(r) : r[i] = q[i + 1]
    BY <1>4, HeadTailProperties
  <2> HIDE DEF r
  <2>2. 1 \in Nat /\ Len(q) = 1 + Len(r) /\ \A i \in 1..Len(r) : r[i] = q[1 + i]
    BY <1>1, <2>1
  <2>3. IsEnd(r, q)
    BY <2>2 DEF IsEnd
  <2>4. QED
    BY <2>3 DEF r
<1>5. QED
  BY <1>2, <1>3, <1>4

LEMMA EndOfEnd ==
  ASSUME NEW S, NEW q \in Seq(S), NEW r \in Seq(S), NEW s \in Seq(S), IsEnd(s, r), IsEnd(r, q)
  PROVE  /\ IsEnd(s, q)
         /\ Len(r) < Len(q) => IsEnd(r, Tail(q))
<1>1. Len(q) \in Nat /\ Len(r) \in Nat /\ Len(s) \in Nat
  BY LenProperties
<1>2. PICK m \in Nat : Len(q) = m + Len(r) /\ \A i \in 1..Len(r) : r[i] = q[m + i]
  BY DEF IsEnd
<1>3. PICK l \in Nat : Len(r) = l + Len(s) /\ \A i \in 1..Len(s) : s[i] = r[l + i]
  BY DEF IsEnd
<1>4. IsEnd(s, q)
  <2>1. m + l \in Nat /\ Len(q) = (m + l) + Len(s)
    BY <1>1, <1>2, <1>3
  <2>2. ASSUME NEW i \in 1..Len(s) PROVE s[i] = q[(m + l) + i]
    <3>1. l + i \in 1..Len(r) /\ m + (l + i) = (m + l) + i
      BY <1>1, <1>2, <1>3
    <3>2. s[i] = r[l + i] /\ r[l + i] = q[m + (l + i)]
      BY <1>2, <1>3, <3>1
    <3>3. QED
      BY <3>1, <3>2
  <2>3. QED
    BY <2>1, <2>2 DEF IsEnd
<1>5. ASSUME Len(r) < Len(q) PROVE IsEnd(r, Tail(q))
  <2> DEFINE t == Tail(q)
  <2>1. q # <<>> /\ m - 1 \in Nat
    BY <1>1, <1>2, <1>5
  <2>2. Len(t) = Len(q) - 1 /\ \A i \in 1..Len(t) : t[i] = q[i + 1]
    BY <2>1, HeadTailProperties
  <2> HIDE DEF t
  <2>3. Len(t) = (m - 1) + Len(r)
    BY <1>1, <1>2, <2>2
  <2>4. ASSUME NEW i \in 1..Len(r) PROVE r[i] = t[(m - 1) + i]
    <3>1. (m - 1) + i \in 1..Len(t) /\ ((m - 1) + i) + 1 = m + i
      BY <1>1, <2>1, <2>3
    <3>2. QED
      BY <1>2, <2>2, <3>1
  <2>5. IsEnd(r, t)
    BY <2>1, <2>3, <2>4 DEF IsEnd
  <2>6. QED
    BY <2>5 DEF t
<1>6. QED
  BY <1>4, <1>5

\* A turn of the loop of the incoming thread, however its read cuts the stream.
LEMMA ReadAny ==
  ASSUME TInv, Receive
  PROVE  /\ Unread' \in Seq(Messages) /\ IsEnd(Unread', Unread)
         /\ \/ incoming' = incoming /\ buffer' = buffer
            \/ incoming' = Append(incoming, Unparsed) /\ buffer' = Unparsed
            \/ /\ Unread # <<>> /\ Unread' = Tail(Unread)
               /\ incoming' = Append(incoming, Head(Unread)) /\ buffer' = Head(Unread)
<1>1. PICK n \in 0..Len(toNode), off \in {AtBrace, AtText, AtNewline} :
        /\ Readable(n, off)
        /\ toNode' = SubSeq(toNode, n + 1, Len(toNode))
        /\ offset' = off
        /\ IF offset = AtNewline
           THEN UNCHANGED <<incoming, buffer>>
           ELSE /\ buffer' = Parse(n, off)
                /\ incoming' = Append(incoming, buffer')
  BY DEF Receive
<1>2. /\ toNode \in Seq(Messages) /\ Len(toNode) \in Nat /\ offset \in {AtBrace, AtText, AtNewline}
      /\ toNode = <<>> => offset = AtBrace
  BY LenProperties DEF TInv, QueueTypes
<1>3. AtBrace = 0 /\ AtText = 1 /\ AtNewline = 2
  BY DEF AtBrace, AtText, AtNewline
<1>4. (n = 0 => off > offset) /\ (n = Len(toNode) => off = AtBrace)
  BY <1>1 DEF Readable
<1>5. /\ toNode' \in Seq(Messages) /\ Len(toNode') = Len(toNode) - n /\ IsEnd(toNode', toNode)
  BY <1>1, <1>2, CutFacts, EndFacts
<1>6. /\ Unread' \in Seq(Messages) /\ IsEnd(Unread', toNode')
      /\ Unread' = IF off = AtBrace THEN toNode' ELSE Tail(toNode')
  <2>1. Unread' = IF off = AtBrace THEN toNode' ELSE Tail(toNode')
    BY <1>1 DEF Unread
  <2>2. off # AtBrace => toNode' # <<>>
    <3>1. off # AtBrace => Len(toNode') # 0
      BY <1>1, <1>2, <1>4, <1>5
    <3>2. QED
      BY <3>1, EmptySeq
  <2>3. off # AtBrace => Tail(toNode') \in Seq(Messages) /\ IsEnd(Tail(toNode'), toNode')
    BY <1>5, <2>2, EndFacts, HeadTailProperties
  <2>4. IsEnd(toNode', toNode')
    BY <1>5, EndFacts
  <2>5. QED
    BY <1>5, <2>1, <2>3, <2>4
<1>7. IsEnd(Unread', Unread)
  <2>1. CASE offset = AtBrace
    <3>1. Unread = toNode
      BY <2>1 DEF Unread
    <3>2. QED
      BY <1>2, <1>5, <1>6, <3>1, EndOfEnd
  <2>2. CASE offset # AtBrace /\ n = 0
    <3>1. off # AtBrace /\ toNode' = toNode
      BY <1>1, <1>2, <1>3, <1>4, <2>2, SubSeqFull
    <3>2. Unread = Tail(toNode) /\ Unread' = Unread
      BY <1>6, <2>2, <3>1 DEF Unread
    <3>3. QED
      BY <1>6, <3>2, EndFacts
  <2>3. CASE offset # AtBrace /\ n # 0
    <3>1. Unread = Tail(toNode) /\ toNode # <<>>
      BY <1>2, <2>3 DEF Unread
    <3>2. Tail(toNode) \in Seq(Messages)
      BY <1>2, <3>1, HeadTailProperties
    <3>3. Len(toNode') < Len(toNode)
      BY <1>1, <1>2, <1>5, <2>3
    <3>4. IsEnd(toNode', Tail(toNode))
      BY <1>2, <1>5, <1>6, <3>3, EndOfEnd
    <3>5. IsEnd(Unread', Tail(toNode))
      BY <1>5, <1>6, <3>2, <3>4, EndOfEnd
    <3>6. QED
      BY <3>1, <3>5
  <2>4. QED
    BY <2>1, <2>2, <2>3
<1>8. \/ incoming' = incoming /\ buffer' = buffer
      \/ incoming' = Append(incoming, Unparsed) /\ buffer' = Unparsed
      \/ /\ Unread # <<>> /\ Unread' = Tail(Unread)
         /\ incoming' = Append(incoming, Head(Unread)) /\ buffer' = Head(Unread)
  <2>1. CASE offset = AtBrace /\ <<n, off>> \in {<<0, AtNewline>>, <<1, AtBrace>>}
    <3>1. /\ Unread = toNode
          /\ incoming' = Append(incoming, Head(toNode)) /\ buffer' = Head(toNode)
      BY <1>1, <1>3, <2>1 DEF Unread, Parse
    <3>2. CASE n = 0 /\ off = AtNewline
      <4>1. toNode # <<>>
        <5>1. Len(toNode) # 0
          BY <1>3, <1>4, <3>2
        <5>2. QED
          BY <5>1, EmptySeq
      <4>2. toNode' = toNode
        BY <1>1, <1>2, <3>2, SubSeqFull
      <4>3. Unread' = Tail(toNode)
        BY <1>3, <1>6, <3>2, <4>2
      <4>4. QED
        BY <3>1, <4>1, <4>3
    <3>3. CASE n = 1 /\ off = AtBrace
      <4>1. toNode # <<>>
        BY <1>2, <3>3, EmptySeq
      <4>2. toNode' = Tail(toNode)
        BY <1>1, <1>2, <3>3, <4>1, TailIsSubSeq
      <4>3. Unread' = Tail(toNode)
        BY <1>6, <3>3, <4>2
      <4>4. QED
        BY <3>1, <4>1, <4>3
    <3>4. QED
      BY <2>1, <3>2, <3>3
  <2>2. CASE ~(offset = AtBrace /\ <<n, off>> \in {<<0, AtNewline>>, <<1, AtBrace>>})
    <3>1. Parse(n, off) = Unparsed
      BY <2>2 DEF Parse
    <3>2. QED
      BY <1>1, <3>1
  <2>3. QED
    BY <2>1, <2>2
<1>9. QED
  BY <1>6, <1>7, <1>8

\* What is read may be of use to nobody, but is not answered in another order.
LEMMA ReadMoves ==
  ASSUME TInv, TInv', Receive \/ ReceiveNothing, link' # "reset"
  PROVE  /\ Written' = Written /\ ConsumerAnswer' = ConsumerAnswer
         /\ Among(Coming', Coming)
<1> USE DEF nodeVars, coreVars, netVars
<1>1. /\ key' = key /\ Written' = Written /\ ConsumerAnswer' = ConsumerAnswer
  BY DEF Receive, ReceiveNothing, Written, ConsumerAnswer
<1>2. /\ incoming \in Seq(AnyToken) /\ Unread \in Seq(AnyToken) /\ Unread' \in Seq(AnyToken)
      /\ key \in Seeds \union {None}
  BY PipelineParts, PipelinePartsNext DEF Parts
<1>3. /\ IsEnd(Unread', Unread)
      /\ \/ incoming' = incoming
         \/ incoming' = Append(incoming, Unparsed)
         \/ /\ Unread # <<>> /\ Unread' = Tail(Unread)
            /\ incoming' = Append(incoming, Head(Unread))
  <2>1. CASE Receive
    BY <2>1, ReadAny
  <2>2. CASE ReceiveNothing
    <3>1. Unread' = Unread /\ incoming' = Append(incoming, Unparsed)
      BY <2>2 DEF ReceiveNothing, Unread
    <3>2. QED
      BY <1>2, <3>1, EndFacts
  <2>3. QED
    BY <2>1, <2>2
<1> DEFINE e == AnswersOf(incoming, key)
           f == AnswersOf(Unread, key)
           d == AnswersOf(incoming', key)
           g == AnswersOf(Unread', key)
           x == ItemOf(Head(Unread), key)
<1>4. Coming = Cat(e, f) /\ Coming' = Cat(d, g)
  BY <1>1 DEF Coming
<1>5. /\ e \in Seq(Items) /\ f \in Seq(Items) /\ g \in Seq(Items)
      /\ Len(e) \in Nat /\ Len(f) \in Nat
      /\ Among(g, f)
  BY <1>2, <1>3, AnswersOfFacts, EndOfTokens, LenProperties
<1>6. Among(e, e)
  BY <1>5, AmongItself
<1>7. CASE incoming' = incoming
  <2>1. d = e
    BY <1>7
  <2> HIDE DEF e, f, d, g
  <2>2. Among(Cat(e, g), Cat(e, f))
    BY <1>5, <1>6, AmongCat
  <2>3. QED
    BY <1>1, <1>4, <2>1, <2>2
<1>8. CASE incoming' = Append(incoming, Unparsed)
  <2> DEFINE n == One(None)
  <2>1. d = Cat(e, n)
    <3>1. Unparsed \in AnyToken
      BY DEF AnyToken
    <3>2. ItemOf(Unparsed, key) = None
      BY DEF ItemOf
    <3>3. QED
      BY <1>2, <1>8, <3>1, <3>2, AnswersOfQueue
  <2>2. n \in Seq(Items) /\ Heard(n) = {}
    <3>1. None \in Items
      BY DEF Items
    <3>2. n \in Seq(Items) /\ Len(n) = 1 /\ n[1] = None
      BY <3>1, OneFacts
    <3> HIDE DEF n
    <3>3. \A i \in 1..Len(n) : n[i] = None
      BY <3>2
    <3>4. QED
      BY <3>2, <3>3 DEF Heard
  <2> HIDE DEF e, f, d, g, n
  <2>3. <<>> \in Seq(Items) /\ Cat(e, <<>>) = e /\ Cat(e, n) \in Seq(Items)
    BY <1>5, <2>2, CatFacts
  <2>4. Among(n, <<>>)
    BY <2>2, NothingAmong
  <2>5. Among(Cat(e, n), Cat(e, <<>>))
    BY <1>5, <1>6, <2>2, <2>3, <2>4, AmongCat
  <2>6. Among(Cat(Cat(e, n), g), Cat(e, f))
    BY <1>5, <2>3, <2>5, AmongCat
  <2>7. QED
    BY <1>1, <1>4, <2>1, <2>6
<1>9. CASE /\ Unread # <<>> /\ Unread' = Tail(Unread)
           /\ incoming' = Append(incoming, Head(Unread))
  <2>1. Head(Unread) \in AnyToken /\ x \in Items
    BY <1>2, <1>9, AnswersOfQueue, ItemFacts
  <2>2. d = Cat(e, One(x)) /\ f = Cat(One(x), g)
    BY <1>2, <1>9, <2>1, AnswersOfQueue
  <2> HIDE DEF e, f, d, g, x
  <2>3. One(x) \in Seq(Items)
    BY <2>1, OneFacts
  <2>4. Cat(Cat(e, One(x)), g) = Cat(e, Cat(One(x), g))
    BY <1>5, <2>3, CatAssociative
  <2>5. Coming' = Coming
    BY <1>4, <2>2, <2>4
  <2>6. Len(Coming) \in Nat
    BY PipelineParts, LenProperties DEF Parts
  <2>7. QED
    BY <1>1, <2>5, <2>6, AmongItself
<1>10. QED
  BY <1>3, <1>7, <1>8, <1>9

\* The consumer thread takes the first token of the queue.
LEMMA TakeMoves ==
  ASSUME TInv, incoming # <<>>, incoming' = Tail(incoming), UNCHANGED <<toNode, offset, key>>
  PROVE  /\ Head(incoming) \in AnyToken
         /\ ItemOf(Head(incoming), key) \in Items /\ Coming' \in Seq(Items)
         /\ Coming = Cat(One(ItemOf(Head(incoming), key)), Coming')
<1> DEFINE x == ItemOf(Head(incoming), key)
           a == AnswersOf(Tail(incoming), key)
           b == AnswersOf(Unread, key)
<1>1. incoming \in Seq(AnyToken) /\ Unread \in Seq(AnyToken) /\ key \in Seeds \union {None}
  BY PipelineParts DEF Parts
<1>2. /\ Head(incoming) \in AnyToken /\ Tail(incoming) \in Seq(AnyToken)
      /\ AnswersOf(incoming, key) = Cat(One(x), a)
  BY <1>1, AnswersOfQueue
<1>3. x \in Items
  BY <1>1, <1>2, ItemFacts
<1>4. a \in Seq(Items) /\ b \in Seq(Items)
  BY <1>1, <1>2, AnswersOfFacts
<1>5. Unread' = Unread
  BY DEF Unread
<1>6. Coming = Cat(Cat(One(x), a), b) /\ Coming' = Cat(a, b)
  BY <1>2, <1>5 DEF Coming
<1> HIDE DEF x, a, b
<1>7. Cat(Cat(One(x), a), b) = Cat(One(x), Cat(a, b)) /\ Cat(a, b) \in Seq(Items)
  <2>1. One(x) \in Seq(Items)
    BY <1>3, OneFacts
  <2>2. QED
    BY <1>4, <2>1, CatAssociative, CatFacts
<1>8. x \in Items /\ Coming' \in Seq(Items) /\ Coming = Cat(One(x), Coming')
  BY <1>3, <1>6, <1>7
<1>9. QED
  BY <1>2, <1>8 DEF x

-----------------------------------------------------------------------------
(* Answers keep their order                                                *)

\* Main first: the seed is freed before the connection is up, and nothing has happened
\* before.
Linked ==
  /\ link # "down" => seedFreed
  /\ link = "down" => /\ core = "idle" /\ consumer = "poll"
                      /\ incoming = <<>> /\ outgoing = <<>> /\ sending = <<>>
                      /\ fromNode = <<>> /\ toNode = <<>>

\* Every seed on its way is the last one, also in the block that a failed read leaves.
SeedTokens ==
  buffer \in Current(key) /\ incoming \in Seq(Current(key)) /\ Unread \in Seq(Current(key))

\* The node's cipher is the one the Core Complex thinks it has, or nothing is under way
\* that asks for it or says that it is there.
Keyed ==
  /\ SeedTokens
  /\ consumer = "construct" => seed = key
  /\ qpp # key => NoCipherThreads /\ NoCipherLeft

\* What is made of the first token, when the consumer thread takes it.
LEMMA PollMoves ==
  ASSUME TInv, TInv', PollToken \/ PollSeed \/ HandshakeError
  PROVE  Among(Pipeline', Pipeline)
<1> USE DEF nodeVars, coreVars, netVars
<1> DEFINE h == Head(incoming)
           x == ItemOf(h, key)
<1>1. /\ incoming # <<>> /\ incoming' = Tail(incoming) /\ UNCHANGED <<toNode, offset, key>>
      /\ Written' = Written
  BY DEF PollToken, PollSeed, HandshakeError, Written
<1>2. /\ h \in AnyToken /\ x \in Items /\ Coming' \in Seq(Items)
      /\ Coming = Cat(One(x), Coming')
  BY <1>1, TakeMoves
<1>3. /\ Written \in Seq(Items) /\ ConsumerAnswer \in Seq(Items) /\ Coming \in Seq(Items)
      /\ ConsumerAnswer' \in Seq(Items)
      /\ Pipeline = Cat(Written, Cat(ConsumerAnswer, Coming))
      /\ Pipeline' = Cat(Written', Cat(ConsumerAnswer', Coming'))
  BY PipelineParts, PipelinePartsNext DEF Parts
<1>4. /\ h.api = "REQUEST_HANDSHAKE" => x = SendId
      /\ h.api = "SET_SEED" => x = HsComplete
      /\ h.api \in Apis => x = AnswerTo(h, key)
  <2>1. Unparsed.api = ""
    BY DEF Unparsed, Token
  <2>2. h.api \in {"REQUEST_HANDSHAKE", "SET_SEED"} \union Apis => h # Unparsed
    BY <2>1 DEF Apis
  <2>3. h # Unparsed => h \in Messages /\ x = AnswerTo(h, key)
    BY <1>2 DEF AnyToken, ItemOf
  <2>4. h \in Messages => /\ h.api = "REQUEST_HANDSHAKE" => AnswerTo(h, key) = SendId
                          /\ h.api = "SET_SEED" => AnswerTo(h, key) = HsComplete
    BY MessageFacts
  <2>5. QED
    BY <2>2, <2>3, <2>4
<1>5. \/ ConsumerAnswer' = ConsumerAnswer
      \/ ConsumerAnswer = <<>> /\ ConsumerAnswer' \in {<<>>, One(x)}
  <2>1. CASE PollToken
    <3>1. /\ consumer = "poll" /\ acquired' = h /\ key' = key
          /\ \/ consumer' = "sendId" /\ h.api = "REQUEST_HANDSHAKE"
             \/ consumer' = "cipher" /\ h.api \in Apis
             \/ consumer' = "poll"
      BY <2>1, CipherReplyFacts DEF PollToken
    <3>2. ConsumerAnswer = <<>>
      BY <3>1 DEF ConsumerAnswer
    <3>3. CASE consumer' = "sendId" /\ h.api = "REQUEST_HANDSHAKE"
      <4>1. ConsumerAnswer' = <<SendId>>
        BY <3>3 DEF ConsumerAnswer
      <4>2. QED
        BY <1>4, <3>2, <3>3, <4>1 DEF One
    <3>4. CASE consumer' = "cipher" /\ h.api \in Apis
      <4>1. ConsumerAnswer' = <<AnswerTo(h, key)>>
        BY <3>1, <3>4 DEF ConsumerAnswer
      <4>2. x = AnswerTo(h, key)
        BY <1>4, <3>4
      <4> HIDE DEF x
      <4>3. QED
        BY <3>2, <4>1, <4>2 DEF One
    <3>5. CASE consumer' = "poll"
      <4>1. ConsumerAnswer' = <<>>
        BY <3>5 DEF ConsumerAnswer
      <4>2. QED
        BY <3>2, <4>1
    <3>6. QED
      BY <3>1, <3>3, <3>4, <3>5
  <2>2. CASE PollSeed
    <3>1. consumer = "pollSeed" /\ consumer' = "construct" /\ h.api = "SET_SEED"
      BY <2>2 DEF PollSeed
    <3>2. ConsumerAnswer = <<>> /\ ConsumerAnswer' = <<HsComplete>>
      BY <3>1 DEF ConsumerAnswer
    <3>3. QED
      BY <1>4, <3>1, <3>2 DEF One
  <2>3. CASE HandshakeError
    BY <2>3 DEF HandshakeError, ConsumerAnswer
  <2>4. QED
    BY <2>1, <2>2, <2>3
<1> DEFINE w == Written
           c == ConsumerAnswer
           d == ConsumerAnswer'
           a == Coming
           b == Coming'
<1>6. /\ w \in Seq(Items) /\ c \in Seq(Items) /\ d \in Seq(Items)
      /\ a \in Seq(Items) /\ b \in Seq(Items) /\ x \in Items
      /\ a = Cat(One(x), b) /\ Pipeline = Cat(w, Cat(c, a)) /\ Pipeline' = Cat(w, Cat(d, b))
      /\ d = c \/ (c = <<>> /\ d \in {<<>>, One(x)})
  BY <1>1, <1>2, <1>3, <1>5
<1> HIDE DEF w, c, d, a, b, x, h
<1>7. One(x) \in Seq(Items) /\ Len(w) \in Nat /\ Len(c) \in Nat /\ Len(a) \in Nat
  BY <1>6, OneFacts, LenProperties
<1>8. Among(w, w) /\ Among(c, c) /\ Among(a, a) /\ Among(b, a)
  BY <1>6, <1>7, AmongItself, EndAmong
<1>9. Among(Cat(d, b), Cat(c, a))
  <2>1. CASE d = c
    BY <1>6, <1>8, <2>1, AmongCat
  <2>2. CASE c = <<>> /\ d \in {<<>>, One(x)}
    <3>1. Cat(<<>>, a) = a /\ Cat(<<>>, b) = b
      BY <1>6, CatFacts
    <3>2. QED
      BY <1>6, <1>8, <2>2, <3>1
  <2>3. QED
    BY <1>6, <2>1, <2>2
<1>10. Among(Cat(w, Cat(d, b)), Cat(w, Cat(c, a)))
  BY <1>6, <1>8, <1>9, ThreeParts
<1>11. QED
  BY <1>6, <1>10

\* What the consumer thread had to answer is pushed.
LEMMA PushMoves ==
  ASSUME TInv, TInv', Keyed, PushId \/ PushHsComplete \/ Cipher
  PROVE  Among(Pipeline', Pipeline)
<1> USE DEF nodeVars, coreVars, netVars
<1>1. /\ UNCHANGED <<incoming, toNode, offset, key, link, sending, fromNode>>
  BY DEF PushId, PushHsComplete, Cipher
<1>2. Coming' = Coming
  BY <1>1 DEF Coming, Unread
<1>3. ConsumerAnswer' = <<>>
  <2>1. consumer' \in {"pollSeed", "poll"}
    BY DEF PushId, PushHsComplete, Cipher
  <2>2. QED
    BY <2>1 DEF ConsumerAnswer
<1>4. \E x \in Outcomes : ConsumerAnswer = One(x) /\ outgoing' = Append(outgoing, x)
  <2>1. SendId \in Outcomes /\ HsComplete \in Outcomes
    BY ReplyFacts DEF Outcomes
  <2>2. CASE PushId
    <3>1. ConsumerAnswer = One(SendId) /\ outgoing' = Append(outgoing, SendId)
      BY <2>2 DEF PushId, ConsumerAnswer, One
    <3>2. QED
      BY <2>1, <3>1
  <2>3. CASE PushHsComplete
    <3>1. ConsumerAnswer = One(HsComplete) /\ outgoing' = Append(outgoing, HsComplete)
      BY <2>3 DEF PushHsComplete, ConsumerAnswer, One
    <3>2. QED
      BY <2>1, <3>1
  <2>4. CASE Cipher
    <3>1. consumer = "cipher" /\ qpp = key
      BY <1>1, <2>4 DEF Cipher, Keyed, NoCipherThreads
    <3>2. acquired \in Messages /\ acquired.api \in Apis /\ key \in Seeds \union {None}
      BY <3>1, TokenFacts, CipherReplyFacts DEF TInv, ThreadTypes, Handshakes, CipherAcquired
    <3> DEFINE x == AnswerTo(acquired, key)
    <3>3. x = Reply(CipherReply[acquired.api], acquired.payload, qpp)
      BY <3>1, <3>2 DEF AnswerTo, Apis
    <3>4. x \in Outcomes
      BY <3>2 DEF Outcomes
    <3>5. ConsumerAnswer = <<x>>
      BY <3>1 DEF ConsumerAnswer
    <3>6. outgoing' = Append(outgoing, x)
      BY <2>4, <3>3 DEF Cipher
    <3> HIDE DEF x
    <3>7. QED
      BY <3>4, <3>5, <3>6 DEF One
  <2>5. QED
    BY <2>2, <2>3, <2>4
<1>5. PICK x \in Outcomes : ConsumerAnswer = One(x) /\ outgoing' = Append(outgoing, x)
  BY <1>4
<1>6. Written' = Cat(Written, One(x))
  BY <1>1, <1>5, MovePush
<1>7. /\ Written \in Seq(Items) /\ ConsumerAnswer \in Seq(Items) /\ Coming \in Seq(Items)
      /\ Pipeline = Cat(Written, Cat(ConsumerAnswer, Coming))
      /\ Pipeline' = Cat(Written', Cat(ConsumerAnswer', Coming'))
  BY PipelineParts, PipelinePartsNext DEF Parts
<1> DEFINE w == Written
           c == ConsumerAnswer
           a == Coming
           p == Pipeline
<1>8. /\ w \in Seq(Items) /\ c \in Seq(Items) /\ a \in Seq(Items)
      /\ p = Cat(w, Cat(c, a)) /\ Pipeline' = Cat(Cat(w, c), Cat(<<>>, a))
  BY <1>2, <1>3, <1>5, <1>6, <1>7
<1> HIDE DEF w, c, a
<1>9. Cat(<<>>, a) = a /\ Cat(Cat(w, c), a) = Cat(w, Cat(c, a)) /\ Cat(w, Cat(c, a)) \in Seq(Items)
  BY <1>8, CatFacts, CatAssociative
<1>10. Pipeline' = p /\ Len(p) \in Nat
  BY <1>8, <1>9, LenProperties
<1>11. QED
  BY <1>10, AmongItself

\* No step of the node, and no end of the connection, puts an answer in front of another
\* or makes one that nobody asked for.
LEMMA NodeMoves ==
  ASSUME TInv, TInv', Linked, Keyed, link' # "reset",
         \/ DeleteSeed \/ IncomingThread \/ ConsumerThread \/ OutgoingThread
         \/ Close \/ UNCHANGED vars
  PROVE  Among(Pipeline', Pipeline)
<1> USE DEF nodeVars, coreVars, netVars
<1>1. CASE Receive \/ ReceiveNothing
  <2>1. Written' = Written /\ ConsumerAnswer' = ConsumerAnswer /\ Among(Coming', Coming)
    BY <1>1, ReadMoves
  <2>2. /\ Written \in Seq(Items) /\ ConsumerAnswer \in Seq(Items) /\ Coming \in Seq(Items)
        /\ Coming' \in Seq(Items)
        /\ Pipeline = Cat(Written, Cat(ConsumerAnswer, Coming))
        /\ Pipeline' = Cat(Written', Cat(ConsumerAnswer', Coming'))
    BY PipelineParts, PipelinePartsNext DEF Parts
  <2> DEFINE w == Written
             c == ConsumerAnswer
             a == Coming
             b == Coming'
  <2>3. /\ w \in Seq(Items) /\ c \in Seq(Items) /\ a \in Seq(Items) /\ b \in Seq(Items)
        /\ Among(b, a) /\ Pipeline = Cat(w, Cat(c, a)) /\ Pipeline' = Cat(w, Cat(c, b))
    BY <2>1, <2>2
  <2> HIDE DEF w, c, a, b
  <2>4. Among(w, w) /\ Among(c, c)
    BY <2>3, AmongItself, LenProperties
  <2>5. Among(Cat(c, b), Cat(c, a))
    BY <2>3, <2>4, AmongCat
  <2>6. Among(Cat(w, Cat(c, b)), Cat(w, Cat(c, a)))
    BY <2>3, <2>4, <2>5, ThreeParts
  <2>7. QED
    BY <2>3, <2>6
<1>2. CASE PollToken \/ PollSeed \/ HandshakeError
  BY <1>2, PollMoves
<1>3. CASE PushId \/ PushHsComplete \/ Cipher
  BY <1>3, PushMoves
<1>4. CASE \/ DeleteSeed \/ Connect \/ ConnectFails \/ ConstructQpp \/ OutgoingThread \/ Close
           \/ UNCHANGED vars
  <2>1. UNCHANGED <<incoming, toNode, offset, key, acquired>>
    BY <1>4 DEF DeleteSeed, Connect, ConnectFails, ConstructQpp, OutgoingThread, PollReply, Write,
                Close, vars
  <2>2. Coming' = Coming
    BY <2>1 DEF Coming, Unread
  <2>3. ConsumerAnswer' = ConsumerAnswer
    <3>1. consumer' = consumer \/ (consumer = "construct" /\ consumer' = "sendHs")
      BY <1>4 DEF DeleteSeed, Connect, ConnectFails, ConstructQpp, OutgoingThread, PollReply, Write,
                  Close, vars
    <3>2. QED
      BY <2>1, <3>1 DEF ConsumerAnswer
  <2>4. Written' = Written
    <3>1. CASE OutgoingThread
      <4>1. PollReply \/ link = "open"
        <5>1. ASSUME Write PROVE link = "open"
          <6>1. sending # <<>> /\ (link = "closed" => link' = "reset") /\ (link = "reset" => link' = "reset")
            BY <5>1 DEF Write
          <6>2. link \in {"down", "open", "closed", "reset"}
            BY DEF TInv, ThreadTypes
          <6>3. QED
            BY <6>1, <6>2 DEF Linked
        <5>2. QED
          BY <3>1, <5>1 DEF OutgoingThread
      <4>2. QED
        BY <3>1, <4>1, MoveOut
    <3>2. CASE ~OutgoingThread
      <4>1. UNCHANGED <<outgoing, sending, fromNode>>
        BY <1>4, <3>2 DEF DeleteSeed, Connect, ConnectFails, ConstructQpp, Close, vars
      <4>2. QED
        BY <4>1 DEF Written
    <3>3. QED
      BY <3>1, <3>2
  <2>5. Pipeline' = Pipeline /\ Pipeline \in Seq(Items)
    <3>1. /\ Written \in Seq(Items) /\ ConsumerAnswer \in Seq(Items) /\ Coming \in Seq(Items)
          /\ Pipeline = Cat(Written, Cat(ConsumerAnswer, Coming))
          /\ Pipeline' = Cat(Written', Cat(ConsumerAnswer', Coming'))
      BY PipelineParts, PipelinePartsNext DEF Parts
    <3>2. Cat(ConsumerAnswer, Coming) \in Seq(Items)
      BY <3>1, CatFacts
    <3>3. Pipeline \in Seq(Items)
      BY <3>1, <3>2, CatFacts
    <3>4. QED
      BY <2>2, <2>3, <2>4, <3>1, <3>3
  <2>6. QED
    BY <2>5, AmongItself, LenProperties
<1>5. QED
  BY <1>1, <1>2, <1>3, <1>4 DEF IncomingThread, ConsumerThread

\* Nothing in the whole, nothing in its parts.
LEMMA HeardCat ==
  ASSUME NEW S, NEW p \in Seq(S), NEW q \in Seq(S), Heard(Cat(p, q)) = {}
  PROVE  Heard(p) = {} /\ Heard(q) = {}
<1> DEFINE r == Cat(p, q)
<1>1. Len(r) = Len(p) + Len(q) /\ Len(p) \in Nat /\ Len(q) \in Nat
  BY CatFacts, LenProperties
<1>2. \A i \in 1..(Len(p) + Len(q)) : r[i] = IF i <= Len(p) THEN p[i] ELSE q[i - Len(p)]
  BY CatElements
<1> HIDE DEF r
<1>3. \A i \in 1..(Len(p) + Len(q)) : r[i] = None
  BY <1>1 DEF Heard, r
<1>4. ASSUME NEW i \in 1..Len(p) PROVE p[i] = None
  <2>1. i \in 1..(Len(p) + Len(q)) /\ i <= Len(p)
    BY <1>1
  <2>2. QED
    BY <1>2, <1>3, <2>1
<1>5. ASSUME NEW i \in 1..Len(q) PROVE q[i] = None
  <2>1. /\ Len(p) + i \in 1..(Len(p) + Len(q)) /\ ~(Len(p) + i <= Len(p))
        /\ (Len(p) + i) - Len(p) = i
    BY <1>1
  <2>2. QED
    BY <1>2, <1>3, <2>1
<1>6. QED
  BY <1>4, <1>5 DEF Heard

LEMMA HeardReplies ==
  ASSUME NEW q \in Seq(Replies), Heard(q) = {}
  PROVE  q = <<>>
<1>1. ASSUME q # <<>> PROVE FALSE
  <2>1. 1 \in 1..Len(q)
    BY <1>1, EmptySeq, LenProperties
  <2>2. q[1] \in Replies
    BY <2>1, ElementOfSeq
  <2>3. QED
    BY <2>1, <2>2, ReplyAssumption DEF Heard
<1>2. QED
  BY <1>1

\* Without a seed nothing on its way asks for the cipher.
LEMMA SeedOrNoCipher ==
  ASSUME TInv, KInv, Keyed
  PROVE  \/ key \in Seeds
         \/ consumer # "cipher" /\ incoming \in Seq(Uncipher) /\ Unread \in Seq(Uncipher)
<1>0. key \in Seeds \union {None}
  BY DEF TInv, ThreadTypes
<1>1. CASE qpp # key
  BY <1>1 DEF Keyed, NoCipherThreads, NoCipherLeft
<1>2. CASE qpp = None
  <2>1. consumer # "cipher" /\ incoming \in Seq(Uncipher) /\ toNode \in Seq(Uncipher)
    BY <1>2 DEF KInv, NoCipherThreads, NoCipherQueues
  <2>2. toNode = <<>> => Unread = toNode
    BY DEF TInv, QueueTypes, Unread
  <2>3. toNode # <<>> => Tail(toNode) \in Seq(Uncipher)
    BY <2>1, HeadTailProperties
  <2>4. Unread \in Seq(Uncipher)
    BY <2>1, <2>2, <2>3 DEF Unread
  <2>5. QED
    BY <2>1, <2>4
<1>3. CASE qpp = key /\ qpp # None
  BY <1>0, <1>3
<1>4. QED
  BY <1>1, <1>2, <1>3

\* When a seed is to be given, no answer is under way, nor what one could be made of.
LEMMA NothingHeard ==
  ASSUME TInv, KInv, Keyed, CoreExpects, core = "giveSeed",
         Among(Pipeline, expected)
  PROVE  /\ consumer \in {"poll", "pollSeed"}
         /\ incoming \in Seq({Unparsed}) /\ Unread = <<>>
         /\ outgoing = <<>> /\ sending = <<>> /\ fromNode = <<>>
<1>1. Heard(Pipeline) = {}
  BY AmongNothing DEF CoreExpects
<1>2. /\ Written \in Seq(Items) /\ ConsumerAnswer \in Seq(Items) /\ Coming \in Seq(Items)
      /\ incoming \in Seq(AnyToken) /\ Unread \in Seq(AnyToken) /\ key \in Seeds \union {None}
      /\ Pipeline = Cat(Written, Cat(ConsumerAnswer, Coming))
  BY PipelineParts DEF Parts
<1>3. Heard(Written) = {} /\ Heard(ConsumerAnswer) = {} /\ Heard(Coming) = {}
  <2> DEFINE w == Written
             c == ConsumerAnswer
             a == Coming
  <2>1. w \in Seq(Items) /\ c \in Seq(Items) /\ a \in Seq(Items) /\ Heard(Cat(w, Cat(c, a))) = {}
    BY <1>1, <1>2
  <2> HIDE DEF w, c, a
  <2>2. Cat(c, a) \in Seq(Items)
    BY <2>1, CatFacts
  <2>3. Heard(w) = {} /\ Heard(Cat(c, a)) = {}
    BY <2>1, <2>2, HeardCat
  <2>4. Heard(c) = {} /\ Heard(a) = {}
    BY <2>1, <2>3, HeardCat
  <2>5. QED
    BY <2>3, <2>4 DEF w, c, a
<1>4. outgoing = <<>> /\ sending = <<>> /\ fromNode = <<>>
  <2>1. fromNode \in Seq(Replies) /\ sending \in Seq(Replies) /\ outgoing \in Seq(Replies)
    BY DEF TInv, QueueTypes
  <2>2. Cat(fromNode, sending) \in Seq(Replies) /\ Written = Cat(Cat(fromNode, sending), outgoing)
    BY <2>1, CatFacts DEF Written
  <2>3. Heard(Cat(fromNode, sending)) = {} /\ Heard(outgoing) = {}
    BY <1>3, <2>1, <2>2, HeardCat
  <2>4. Heard(fromNode) = {} /\ Heard(sending) = {}
    BY <2>1, <2>3, HeardCat
  <2>5. QED
    BY <2>1, <2>3, <2>4, HeardReplies
<1>5. \/ key \in Seeds
      \/ consumer # "cipher" /\ incoming \in Seq(Uncipher) /\ Unread \in Seq(Uncipher)
  BY SeedOrNoCipher
<1>6. consumer \in {"poll", "pollSeed"}
  <2>1. \A x \in Items : x # None => Heard(One(x)) # {}
    <3>1. ASSUME NEW x \in Items, x # None PROVE Heard(One(x)) # {}
      <4>1. Len(One(x)) = 1 /\ One(x)[1] = x
        BY OneFacts
      <4>2. 1 \in Heard(One(x))
        BY <3>1, <4>1 DEF Heard
      <4>3. QED
        BY <4>2
    <3>2. QED
      BY <3>1
  <2>2. /\ SendId \in Items /\ SendId # None /\ HsComplete \in Items /\ HsComplete # None
    BY ReplyFacts, ReplyAssumption DEF Items, Outcomes
  <2>3. ASSUME consumer = "cipher" PROVE FALSE
    <3> DEFINE x == AnswerTo(acquired, key)
    <3>1. acquired \in Messages /\ acquired \in AnyToken /\ acquired # Unparsed /\ key \in Seeds
      <4>1. acquired \in Messages
        BY <2>3, TokenFacts, CipherReplyFacts DEF TInv, ThreadTypes, Handshakes, CipherAcquired
      <4>2. QED
        BY <1>5, <2>3, <4>1, MessageFacts
    <3>2. x \in Items /\ x # None
      BY <3>1, ItemFacts
    <3>3. ConsumerAnswer = One(x)
      BY <2>3 DEF ConsumerAnswer, One
    <3> HIDE DEF x
    <3>4. QED
      BY <1>3, <2>1, <3>2, <3>3
  <2>4. consumer # "sendId"
    <3>1. consumer = "sendId" => ConsumerAnswer = One(SendId)
      BY DEF ConsumerAnswer, One
    <3>2. QED
      BY <1>3, <2>1, <2>2, <3>1
  <2>5. consumer \notin {"construct", "sendHs"}
    <3>1. consumer \in {"construct", "sendHs"} => ConsumerAnswer = One(HsComplete)
      BY DEF ConsumerAnswer, One
    <3>2. QED
      BY <1>3, <2>1, <2>2, <3>1
  <2>6. QED
    BY <2>3, <2>4, <2>5 DEF TInv, ThreadTypes, ConsumerPc
<1> DEFINE e == AnswersOf(incoming, key)
           f == AnswersOf(Unread, key)
<1>7. Heard(e) = {} /\ Heard(f) = {}
  <2>1. e \in Seq(Items) /\ f \in Seq(Items) /\ Heard(Cat(e, f)) = {}
    BY <1>2, <1>3, AnswersOfFacts DEF Coming
  <2> HIDE DEF e, f
  <2>2. QED
    BY <2>1, HeardCat
<1>8. ASSUME NEW q \in Seq(AnyToken), Heard(AnswersOf(q, key)) = {}, key \in Seeds \/ q \in Seq(Uncipher)
      PROVE  q \in Seq({Unparsed})
  <2>1. ASSUME NEW i \in 1..Len(q) PROVE q[i] \in {Unparsed}
    <3>1. Len(AnswersOf(q, key)) = Len(q) /\ AnswersOf(q, key)[i] = ItemOf(q[i], key)
      BY <1>2, AnswersOfFacts
    <3>2. ItemOf(q[i], key) = None
      BY <1>8, <3>1 DEF Heard
    <3>3. q[i] \in AnyToken /\ (key \in Seeds \/ q[i] \in Uncipher)
      BY <1>8, ElementOfSeq
    <3>4. QED
      BY <1>2, <3>2, <3>3, ItemFacts
  <2>2. QED
    BY <2>1, SequenceOver
<1>9. incoming \in Seq({Unparsed}) /\ Unread \in Seq({Unparsed})
  BY <1>2, <1>5, <1>7, <1>8
<1>10. Unread = <<>>
  <2>1. Unread \in Seq(Messages)
    BY UnreadFacts
  <2>2. ASSUME Unread # <<>> PROVE FALSE
    <3>1. Head(Unread) \in Messages /\ Head(Unread) \in {Unparsed}
      BY <1>9, <2>1, <2>2, HeadTailProperties
    <3>2. QED
      BY <3>1, MessageFacts
  <2>3. QED
    BY <2>2
<1>11. QED
  BY <1>4, <1>6, <1>9, <1>10

\* Another message goes behind the ones that were not read, and its answer behind the
\* answers under way.
LEMMA AskMoves ==
  ASSUME TInv, TInv', NEW msg \in Messages, Ask(msg, key'), ConsumerAnswer' = ConsumerAnswer,
         AnswersOf(incoming, key') = AnswersOf(incoming, key),
         AnswersOf(Unread, key') = AnswersOf(Unread, key)
  PROVE  /\ AnswerTo(msg, key') \in Items
         /\ Pipeline' = Cat(Pipeline, One(AnswerTo(msg, key')))
         /\ expected' = Cat(expected, One(AnswerTo(msg, key')))
<1> USE DEF nodeVars, coreVars, netVars
<1> DEFINE x == AnswerTo(msg, key')
           e == AnswersOf(incoming, key)
           f == AnswersOf(Unread, key)
           w == Written
           c == ConsumerAnswer
<1>1. /\ incoming' = incoming /\ toNode' = Append(toNode, msg) /\ offset' = offset
      /\ expected' = Append(expected, x) /\ Written' = w
  BY DEF Ask, Written
<1>2. /\ incoming \in Seq(AnyToken) /\ Unread \in Seq(AnyToken) /\ key \in Seeds \union {None}
      /\ key' \in Seeds \union {None} /\ w \in Seq(Items) /\ c \in Seq(Items)
      /\ Pipeline = Cat(w, Cat(c, Coming)) /\ Pipeline' = Cat(Written', Cat(ConsumerAnswer', Coming'))
  BY PipelineParts, PipelinePartsNext DEF Parts
<1>3. x \in Items /\ msg \in AnyToken /\ ItemOf(msg, key') = x
  BY <1>2, MessageFacts DEF Items, ItemOf
<1>4. Unread' = Append(Unread, msg)
  BY <1>1, UnreadAsk
<1>5. AnswersOf(Unread', key') = Cat(f, One(x))
  <2>1. AnswersOf(Append(Unread, msg), key') = Cat(AnswersOf(Unread, key'), One(ItemOf(msg, key')))
    BY <1>2, <1>3, AnswersOfQueue
  <2>2. QED
    BY <1>3, <1>4, <2>1
<1>6. AnswersOf(incoming', key') = e
  BY <1>1
<1>7. Coming = Cat(e, f) /\ Coming' = Cat(e, Cat(f, One(x)))
  BY <1>5, <1>6 DEF Coming
<1>8. Pipeline = Cat(w, Cat(c, Cat(e, f))) /\ Pipeline' = Cat(w, Cat(c, Cat(e, Cat(f, One(x)))))
  BY <1>1, <1>2, <1>7
<1>9. e \in Seq(Items) /\ f \in Seq(Items)
  BY <1>2, AnswersOfFacts
<1>10. expected' = Cat(expected, One(x))
  <2>1. expected \in Seq(Items)
    BY SeqMonotonic DEF TInv, QueueTypes, Items, Outcomes
  <2>2. Append(expected, x) = Cat(expected, One(x))
    BY <1>3, <2>1, AppendIsCat
  <2>3. QED
    BY <1>1, <2>2
<1> HIDE DEF x, e, f, w, c
<1>11. Pipeline' = Cat(Pipeline, One(x))
  <2> DEFINE o == One(x)
             ef == Cat(e, f)
             r == Cat(c, ef)
  <2>1. o \in Seq(Items)
    BY <1>3, OneFacts
  <2> HIDE DEF o
  <2>2. Cat(e, Cat(f, o)) = Cat(ef, o) /\ ef \in Seq(Items)
    BY <1>9, <2>1, CatAssociative, CatFacts
  <2>3. w \in Seq(Items) /\ c \in Seq(Items)
    BY <1>2
  <2>4. Pipeline' = Cat(w, Cat(c, Cat(ef, o))) /\ Pipeline = Cat(w, r)
    BY <1>8, <2>2 DEF o
  <2> HIDE DEF ef
  <2>5. Cat(c, Cat(ef, o)) = Cat(r, o) /\ r \in Seq(Items)
    BY <2>1, <2>2, <2>3, CatAssociative, CatFacts
  <2> HIDE DEF r
  <2>6. Cat(w, Cat(r, o)) = Cat(Cat(w, r), o)
    BY <2>1, <2>3, <2>5, CatAssociative
  <2>7. Pipeline' = Cat(Pipeline, o)
    BY <2>4, <2>5, <2>6
  <2>8. QED
    BY <2>7 DEF o
<1>12. QED
  BY <1>3, <1>10, <1>11 DEF x

\* What the Core Complex asks is asked under its last seed, and a new seed only when
\* nothing is under way.
LEMMA AskedUnderKey ==
  ASSUME TInv, TInv', KInv, Keyed, CoreExpects, Among(Pipeline, expected),
         \/ RequestHandshake \/ (\E s \in Seeds : SetSeed(s))
         \/ \E api \in DOMAIN CipherReply, text \in Texts : RequestCipher(api, text)
  PROVE  /\ link = "open"
         /\ ConsumerAnswer' = ConsumerAnswer
         /\ AnswersOf(incoming, key') = AnswersOf(incoming, key)
         /\ AnswersOf(Unread, key') = AnswersOf(Unread, key)
         /\ \E msg \in Messages : Ask(msg, key')
<1> USE DEF nodeVars, coreVars, netVars
<1>1. CASE RequestHandshake
  <2>1. key' = key /\ Ask(Token("REQUEST_HANDSHAKE", None), key')
    BY <1>1 DEF RequestHandshake
  <2>2. link = "open" /\ ConsumerAnswer' = ConsumerAnswer
    BY <2>1 DEF Ask, ConsumerAnswer
  <2>3. QED
    BY <2>1, <2>2, AskedFacts
<1>2. CASE \E api \in DOMAIN CipherReply, text \in Texts : RequestCipher(api, text)
  <2>1. PICK api \in Apis, text \in Texts : key' = key /\ Ask(Token(api, text), key')
    BY <1>2, CipherReplyFacts DEF RequestCipher
  <2>2. link = "open" /\ ConsumerAnswer' = ConsumerAnswer
    BY <2>1 DEF Ask, ConsumerAnswer
  <2>3. QED
    BY <2>1, <2>2, AskedFacts
<1>3. CASE \E s \in Seeds : SetSeed(s)
  <2>1. PICK s \in Seeds : core = "giveSeed" /\ key' = s /\ Ask(Token("SET_SEED", s), key')
    BY <1>3 DEF SetSeed
  <2>2. link = "open" /\ UNCHANGED <<consumer, acquired>>
    BY <2>1 DEF Ask
  <2>3. consumer \in {"poll", "pollSeed"} /\ incoming \in Seq({Unparsed}) /\ Unread = <<>>
    BY <2>1, <2>2, NothingHeard
  <2>4. ConsumerAnswer' = ConsumerAnswer
    <3>1. ConsumerAnswer = <<>> /\ ConsumerAnswer' = <<>>
      BY <2>2, <2>3 DEF ConsumerAnswer
    <3>2. QED
      BY <3>1
  <2>5. AnswersOf(incoming, key') = AnswersOf(incoming, key)
    <3>1. \A i \in 1..Len(incoming) : incoming[i] = Unparsed
      BY <2>3, ElementOfSeq
    <3>2. \A i \in 1..Len(incoming) : ItemOf(incoming[i], key') = ItemOf(incoming[i], key)
      BY <3>1 DEF ItemOf
    <3>3. QED
      BY <3>2 DEF AnswersOf
  <2>6. AnswersOf(Unread, key') = AnswersOf(Unread, key)
    <3>1. \A i \in 1..Len(Unread) : ItemOf(Unread[i], key') = ItemOf(Unread[i], key)
      BY <2>3
    <3>2. QED
      BY <3>1 DEF AnswersOf
  <2>7. QED
    BY <2>1, <2>2, <2>4, <2>5, <2>6, AskedFacts
<1>4. QED
  BY <1>1, <1>2, <1>3

\* The answers that are under way, or after a reset those that were written, are some of
\* the expected ones, in their order.
Order ==
  /\ Among(fromNode, expected)
  /\ link # "reset" => Among(Pipeline, expected)

\* Replies that were written are the first of those under way.
LEMMA FromNodeFirst == TInv => Among(fromNode, Pipeline)
<1> SUFFICES ASSUME TInv PROVE Among(fromNode, Pipeline)
  OBVIOUS
<1> DEFINE a == fromNode
           b == sending
           c == outgoing
           d == Cat(ConsumerAnswer, Coming)
           ab == Cat(a, b)
           bc == Cat(b, c)
<1>1. /\ ConsumerAnswer \in Seq(Items) /\ Coming \in Seq(Items)
      /\ Pipeline = Cat(Cat(ab, c), d)
  BY PipelineParts DEF Parts, Written
<1>2. a \in Seq(Items) /\ b \in Seq(Items) /\ c \in Seq(Items) /\ d \in Seq(Items)
  <2>1. fromNode \in Seq(Replies) /\ sending \in Seq(Replies) /\ outgoing \in Seq(Replies)
    BY DEF TInv, QueueTypes
  <2>2. fromNode \in Seq(Items) /\ sending \in Seq(Items) /\ outgoing \in Seq(Items)
    BY <2>1, SeqMonotonic DEF Outcomes, Items
  <2>3. d \in Seq(Items)
    BY <1>1, CatFacts
  <2>4. QED
    BY <2>2, <2>3
<1> HIDE DEF a, b, c, d
<1>3. ab \in Seq(Items) /\ Cat(ab, c) = Cat(a, bc) /\ bc \in Seq(Items)
  BY <1>2, CatFacts, CatAssociative
<1> HIDE DEF ab, bc
<1>4. Cat(Cat(a, bc), d) = Cat(a, Cat(bc, d)) /\ Cat(bc, d) \in Seq(Items)
  BY <1>2, <1>3, CatAssociative, CatFacts
<1>5. Pipeline = Cat(a, Cat(bc, d))
  BY <1>1, <1>3, <1>4
<1>6. Among(a, Cat(a, Cat(bc, d)))
  BY <1>2, <1>4, StartAmong
<1>7. QED
  BY <1>5, <1>6 DEF a

LEMMA FromNodeFirstNext == TInv' => Among(fromNode', Pipeline')
<1>1. TInv' => Among(fromNode, Pipeline)'
  BY FromNodeFirst, PTL
<1>2. QED
  BY <1>1

LEMMA PipelineTyped == TInv => Pipeline \in Seq(Items)
<1> SUFFICES ASSUME TInv PROVE Pipeline \in Seq(Items)
  OBVIOUS
<1>1. /\ Written \in Seq(Items) /\ ConsumerAnswer \in Seq(Items) /\ Coming \in Seq(Items)
      /\ Pipeline = Cat(Written, Cat(ConsumerAnswer, Coming))
  BY PipelineParts DEF Parts
<1>2. Cat(ConsumerAnswer, Coming) \in Seq(Items)
  BY <1>1, CatFacts
<1>3. QED
  BY <1>1, <1>2, CatFacts

LEMMA PipelineTypedNext == TInv' => Pipeline' \in Seq(Items)
<1>1. TInv' => (Pipeline \in Seq(Items))'
  BY PipelineTyped, PTL
<1>2. QED
  BY <1>1 DEF Items, Outcomes

\* The answer that arrives was the first on its way.
LEMMA ReceivedFirst ==
  ASSUME TInv, TInv', ReceiveAnswer
  PROVE  /\ Head(fromNode) \in Items /\ Pipeline' \in Seq(Items)
         /\ Pipeline = Cat(One(Head(fromNode)), Pipeline')
<1> USE DEF nodeVars, coreVars, netVars
<1>1. /\ fromNode # <<>> /\ fromNode' = Tail(fromNode)
      /\ UNCHANGED <<consumer, acquired, incoming, outgoing, sending, toNode, offset, key, link>>
  BY DEF ReceiveAnswer
<1> DEFINE x == Head(fromNode)
           v == Tail(Written)
           d == Cat(ConsumerAnswer, Coming)
<1>2. x \in Items
  <2>1. fromNode \in Seq(Replies)
    BY DEF TInv, QueueTypes
  <2>2. x \in Replies
    BY <1>1, <2>1, HeadTailProperties
  <2>3. QED
    BY <2>2 DEF Items, Outcomes
<1>3. /\ Written \in Seq(Items) /\ ConsumerAnswer \in Seq(Items) /\ Coming \in Seq(Items)
      /\ Pipeline = Cat(Written, d) /\ Pipeline' = Cat(Written', Cat(ConsumerAnswer', Coming'))
  BY PipelineParts, PipelinePartsNext DEF Parts
<1>4. ConsumerAnswer' = ConsumerAnswer /\ Coming' = Coming
  BY <1>1 DEF ConsumerAnswer, Coming, Unread
<1>5. Written # <<>> /\ Head(Written) = x /\ Written' = v
  BY <1>1, MoveReceived
<1>6. v \in Seq(Items) /\ Written = Cat(One(x), v)
  BY <1>3, <1>5, FirstAndRest
<1>7. d \in Seq(Items)
  BY <1>3, CatFacts
<1>8. Pipeline' = Cat(v, d) /\ Pipeline = Cat(Cat(One(x), v), d)
  BY <1>3, <1>4, <1>5, <1>6
<1> HIDE DEF x, v, d
<1>9. One(x) \in Seq(Items)
  BY <1>2, OneFacts
<1>10. Cat(Cat(One(x), v), d) = Cat(One(x), Cat(v, d)) /\ Cat(v, d) \in Seq(Items)
  BY <1>6, <1>7, <1>9, CatAssociative, CatFacts
<1>11. QED
  BY <1>2, <1>8, <1>10 DEF x

\* The first answer arrives; what was behind it stays in order.
LEMMA OrderReceived ==
  ASSUME TInv, TInv', Order, ReceiveAnswer
  PROVE  Order'
<1>1. /\ fromNode # <<>> /\ expected # <<>>
      /\ fromNode' = Tail(fromNode) /\ expected' = Tail(expected) /\ link' = link
  BY DEF ReceiveAnswer
<1>2. fromNode \in Seq(Replies) /\ expected \in Seq(Replies)
  BY DEF TInv, QueueTypes
<1> DEFINE x == Head(fromNode)
           y == Head(expected)
           q == Tail(fromNode)
           r == Tail(expected)
           l == Pipeline'
<1>3. /\ x \in Replies /\ y \in Replies /\ q \in Seq(Replies) /\ r \in Seq(Replies)
      /\ fromNode = Cat(One(x), q) /\ expected = Cat(One(y), r)
  BY <1>1, <1>2, FirstAndRest
<1>4. x # None /\ x \in Items /\ y \in Items /\ q \in Seq(Items) /\ r \in Seq(Items)
  BY <1>3, ReplyAssumption, SeqMonotonic DEF Items, Outcomes
<1>5. Among(q, r)
  <2> HIDE DEF x, y, q, r
  <2>1. Among(Cat(One(x), q), Cat(One(y), r))
    BY <1>3 DEF Order
  <2>2. QED
    BY <1>4, <2>1, AmongRest
<1>6. ASSUME link # "reset" PROVE Among(l, r)
  <2>1. l \in Seq(Items) /\ Pipeline = Cat(One(x), l)
    BY ReceivedFirst
  <2> HIDE DEF x, y, q, r, l
  <2>2. Among(Cat(One(x), l), Cat(One(y), r))
    BY <1>3, <1>6, <2>1 DEF Order
  <2>3. QED
    BY <1>4, <2>1, <2>2, AmongRest
<1>7. QED
  BY <1>1, <1>5, <1>6 DEF Order

LEMMA OrderStep ==
  ASSUME TInv, TInv', KInv, Linked, Keyed, CoreExpects, Order, [Next]_vars
  PROVE  Order'
<1> USE DEF nodeVars, coreVars, netVars
<1>1. CASE ReceiveAnswer
  BY <1>1, OrderReceived
<1>2. CASE \/ RequestHandshake \/ (\E s \in Seeds : SetSeed(s))
           \/ \E api \in DOMAIN CipherReply, text \in Texts : RequestCipher(api, text)
  <2>1. link = "open"
    BY <1>2 DEF RequestHandshake, SetSeed, RequestCipher, Ask
  <2>2. Among(fromNode, expected) /\ Among(Pipeline, expected)
    BY <2>1 DEF Order
  <2>3. PICK msg \in Messages : Ask(msg, key')
    BY <1>2, <2>2, AskedUnderKey
  <2> DEFINE x == AnswerTo(msg, key')
             o == One(x)
  <2>4. x \in Items /\ Pipeline' = Cat(Pipeline, o) /\ expected' = Cat(expected, o)
    <3>1. /\ ConsumerAnswer' = ConsumerAnswer
          /\ AnswersOf(incoming, key') = AnswersOf(incoming, key)
          /\ AnswersOf(Unread, key') = AnswersOf(Unread, key)
      BY <1>2, <2>2, AskedUnderKey
    <3>2. QED
      BY <2>3, <3>1, AskMoves
  <2>5. fromNode' = fromNode /\ link' = link
    BY <2>3 DEF Ask
  <2>6. /\ fromNode \in Seq(Items) /\ expected \in Seq(Items) /\ Pipeline \in Seq(Items)
        /\ o \in Seq(Items) /\ Len(o) \in Nat
    <3>1. fromNode \in Seq(Replies) /\ expected \in Seq(Replies)
      BY DEF TInv, QueueTypes
    <3>2. fromNode \in Seq(Items) /\ expected \in Seq(Items)
      BY <3>1, SeqMonotonic DEF Items, Outcomes
    <3>3. Pipeline \in Seq(Items)
      BY PipelineTyped
    <3>4. o \in Seq(Items)
      BY <2>4, OneFacts
    <3>5. QED
      BY <3>2, <3>3, <3>4, LenProperties
  <2> HIDE DEF o, x
  <2>7. Among(o, o) /\ <<>> \in Seq(Items) /\ Among(<<>>, o) /\ Cat(fromNode, <<>>) = fromNode
    <3>1. Heard(<<>>) = {}
      BY DEF Heard
    <3>2. QED
      BY <2>6, <3>1, AmongItself, NothingAmong, CatFacts
  <2>8. Among(Cat(Pipeline, o), Cat(expected, o))
    BY <2>2, <2>6, <2>7, AmongCat
  <2>9. Among(Cat(fromNode, <<>>), Cat(expected, o))
    BY <2>2, <2>6, <2>7, AmongCat
  <2>10. QED
    BY <2>4, <2>5, <2>7, <2>8, <2>9 DEF Order
<1>3. CASE \/ DeleteSeed \/ IncomingThread \/ ConsumerThread \/ OutgoingThread
           \/ Close \/ Reset \/ UNCHANGED vars
  <2>1. expected' = expected
    BY <1>3 DEF DeleteSeed, IncomingThread, Connect, ConnectFails, Receive, ReceiveNothing,
                ConsumerThread, PollToken, PushId, PollSeed, HandshakeError, ConstructQpp,
                PushHsComplete, Cipher, OutgoingThread, PollReply, Write, Close, Reset, vars
  <2>2. CASE link' = "reset"
    <3>1. ASSUME Write PROVE fromNode' = fromNode
      <4>1. link # "open"
        BY <2>2, <3>1 DEF Write
      <4>2. QED
        BY <3>1, <4>1 DEF Write
    <3>2. fromNode' = fromNode
      BY <1>3, <3>1
         DEF DeleteSeed, IncomingThread, Connect, ConnectFails, Receive, ReceiveNothing,
             ConsumerThread, PollToken, PushId, PollSeed, HandshakeError, ConstructQpp,
             PushHsComplete, Cipher, OutgoingThread, PollReply, Close, Reset, vars
    <3>3. QED
      BY <2>1, <2>2, <3>2 DEF Order
  <2>3. CASE link' # "reset"
    <3>1. link # "reset"
      BY <1>3, <2>3
         DEF DeleteSeed, IncomingThread, Connect, ConnectFails, Receive, ReceiveNothing,
             ConsumerThread, PollToken, PushId, PollSeed, HandshakeError, ConstructQpp,
             PushHsComplete, Cipher, OutgoingThread, PollReply, Write, Close, Reset, vars
    <3>2. ~Reset
      BY <2>3 DEF Reset
    <3>3. Among(Pipeline', Pipeline)
      BY <1>3, <2>3, <3>2, NodeMoves
    <3>4. Among(Pipeline, expected) /\ Among(fromNode', Pipeline')
      BY <3>1, FromNodeFirstNext DEF Order
    <3>5. /\ Len(Pipeline') \in Nat /\ Len(Pipeline) \in Nat /\ Len(expected) \in Nat
          /\ Len(fromNode') \in Nat
      <4>1. Pipeline \in Seq(Items) /\ Pipeline' \in Seq(Items)
        BY PipelineTyped, PipelineTypedNext
      <4>2. expected \in Seq(Replies) /\ fromNode' \in Seq(Replies)
        BY DEF TInv, QueueTypes
      <4>3. QED
        BY <4>1, <4>2, LenProperties
    <3>6. Among(Pipeline', expected)
      BY <3>3, <3>4, <3>5, AmongTransitive
    <3>7. Among(fromNode', expected)
      BY <3>4, <3>5, <3>6, AmongTransitive
    <3>8. QED
      BY <2>1, <3>6, <3>7 DEF Order
  <2>4. QED
    BY <2>2, <2>3
<1>4. QED
  BY <1>1, <1>2, <1>3 DEF Next, CoreComplex

\* Every step keeps Linked.
LEMMA LinkedStep ==
  ASSUME PromptMain, TInv, Linked, [Next]_vars
  PROVE  Linked'
<1> USE DEF nodeVars, coreVars, netVars
<1>1. CASE DeleteSeed
  BY <1>1 DEF DeleteSeed, Linked
<1>2. CASE Connect
  BY <1>2 DEF Connect, Linked
<1>3. CASE ConnectFails
  BY <1>3 DEF ConnectFails, Linked
<1>4. CASE Receive
  <2>1. ASSUME toNode = <<>> PROVE FALSE
    <3>1. Len(toNode) = 0 /\ offset = AtBrace
      BY <2>1 DEF TInv, QueueTypes
    <3>2. PICK n \in 0..0, off \in {AtBrace, AtText, AtNewline} : Readable(n, off)
      BY <1>4, <3>1 DEF Receive
    <3>3. QED
      BY <3>1, <3>2 DEF Readable, AtBrace, AtText, AtNewline
  <2>2. link # "down"
    BY <2>1 DEF Linked
  <2>3. QED
    BY <1>4, <2>2 DEF Receive, Linked
<1>5. CASE ReceiveNothing
  BY <1>5 DEF ReceiveNothing, Linked
<1>6. CASE PollToken
  BY <1>6 DEF PollToken, Linked
<1>7. CASE PushId
  BY <1>7 DEF PushId, Linked
<1>8. CASE PollSeed
  BY <1>8 DEF PollSeed, Linked
<1>9. CASE HandshakeError
  BY <1>9 DEF HandshakeError, Linked
<1>10. CASE ConstructQpp
  BY <1>10 DEF ConstructQpp, Linked
<1>11. CASE PushHsComplete
  BY <1>11 DEF PushHsComplete, Linked
<1>12. CASE Cipher
  BY <1>12 DEF Cipher, Linked
<1>13. CASE PollReply
  BY <1>13 DEF PollReply, Linked
<1>14. CASE Write
  BY <1>14 DEF Write, Linked
<1>15. CASE RequestHandshake
  BY <1>15 DEF RequestHandshake, Ask, Linked
<1>16. CASE \E s \in Seeds : SetSeed(s)
  BY <1>16 DEF SetSeed, Ask, Linked
<1>17. CASE \E api \in DOMAIN CipherReply, text \in Texts : RequestCipher(api, text)
  BY <1>17 DEF RequestCipher, Ask, Linked
<1>18. CASE ReceiveAnswer
  BY <1>18 DEF ReceiveAnswer, Linked
<1>19. CASE Close \/ Reset
  BY <1>19 DEF Close, Reset, Linked
<1>20. CASE UNCHANGED vars
  BY <1>20 DEF vars, Linked
<1>21. QED
  BY <1>1, <1>2, <1>3, <1>4, <1>5, <1>6, <1>7, <1>8, <1>9, <1>10, <1>11, <1>12, <1>13, <1>14,
     <1>15, <1>16, <1>17, <1>18, <1>19, <1>20
     DEF Next, IncomingThread, ConsumerThread, OutgoingThread, CoreComplex

-----------------------------------------------------------------------------
(* The block that a failed read leaves                                     *)

HasId(q) == \E i \in 1..Len(q) : q[i] = SendId

\* When the node has answered, or is to answer, the request for a handshake, and has read
\* all there is, what it read last is that request, or did not parse.
LastRead ==
  /\ link # "reset" /\ Unread = <<>>
  /\ core = "giveSeed" \/ HasId(Pipeline)
  => buffer \in {Token("REQUEST_HANDSHAKE", None), Unparsed}

LEMMA IdAmong ==
  ASSUME NEW q, NEW p, Among(q, p), HasId(q)
  PROVE  HasId(p)
<1>1. PICK at : Places(at, q, p)
  BY AmongPlaces
<1>2. PICK i \in 1..Len(q) : q[i] = SendId
  BY DEF HasId
<1>3. i \in Heard(q)
  BY <1>2, ReplyAssumption DEF Heard, Replies
<1>4. at[i] \in 1..Len(p) /\ p[at[i]] = SendId
  BY <1>1, <1>2, <1>3 DEF Places
<1>5. QED
  BY <1>4 DEF HasId

\* The id is the last answer under way: nothing is asked before the seed is given.
LEMMA IdIsLast ==
  ASSUME TInv, Among(Pipeline, expected),
         NEW i \in 1..Len(Pipeline), Pipeline[i] = SendId,
         NEW j \in 1..Len(Pipeline), Pipeline[j] # None
  PROVE  j <= i
<1>1. PICK at : Places(at, Pipeline, expected)
  BY AmongPlaces
<1>2. expected \in Seq(Replies) /\ Len(expected) \in Nat /\ DOMAIN expected = 1..Len(expected)
  BY LenProperties DEF TInv, QueueTypes
<1>3. i \in Heard(Pipeline) /\ j \in Heard(Pipeline)
  BY ReplyAssumption DEF Heard, Replies
<1>4. at[i] \in 1..Len(expected) /\ at[j] \in 1..Len(expected) /\ expected[at[i]] = SendId
  BY <1>1, <1>3 DEF Places
<1>5. at[i] = Len(expected)
  BY <1>2, <1>4 DEF TInv, Handshakes, Outstanding
<1>6. i < j => at[i] < at[j]
  BY <1>1, <1>3 DEF Places
<1>7. Len(Pipeline) \in Nat
  BY PipelineTyped, LenProperties
<1>8. QED
  BY <1>2, <1>4, <1>5, <1>6, <1>7

\* Nobody asks for a cipher without a seed.
LEMMA UnreadAnswered ==
  ASSUME TInv, KInv, Keyed, NEW i \in 1..Len(Unread)
  PROVE  ItemOf(Unread[i], key) # None
<1>1. Unread \in Seq(Messages) /\ key \in Seeds \union {None}
  BY UnreadFacts DEF TInv, ThreadTypes
<1>2. Unread[i] \in Messages
  BY <1>1, ElementOfSeq
<1>3. Unread[i] # Unparsed /\ Unread[i] \in AnyToken
  BY <1>1, <1>2, MessageFacts
<1>4. key \in Seeds \/ Unread \in Seq(Uncipher)
  BY SeedOrNoCipher
<1>5. Unread \in Seq(Uncipher) => Unread[i] \in Uncipher
  BY ElementOfSeq
<1>6. QED
  BY <1>1, <1>3, <1>4, <1>5, ItemFacts

\* A read that takes the last message while the id is under way has taken the request.
LEMMA RequestRead ==
  ASSUME TInv, TInv', KInv, Keyed, Order, link # "reset", Receive,
         Unread # <<>>, Unread' = <<>>, HasId(Pipeline')
  PROVE  buffer' \in {Token("REQUEST_HANDSHAKE", None), Unparsed}
<1> USE DEF nodeVars, coreVars, netVars
<1> DEFINE w == Written
           c == ConsumerAnswer
           e == AnswersOf(incoming, key)
           f == AnswersOf(Unread, key)
           t == Cat(Cat(w, c), e)
           n == Len(Unread)
<1>1. /\ key' = key /\ w \in Seq(Items) /\ c \in Seq(Items)
      /\ incoming \in Seq(AnyToken) /\ Unread \in Seq(AnyToken) /\ key \in Seeds \union {None}
      /\ Pipeline = Cat(w, Cat(c, Coming)) /\ Pipeline' = Cat(w, Cat(c, Coming'))
  <2>1. key' = key /\ Written' = w /\ ConsumerAnswer' = c
    BY DEF Receive, Written, ConsumerAnswer
  <2>2. QED
    BY <2>1, PipelineParts, PipelinePartsNext DEF Parts
<1>2. /\ e \in Seq(Items) /\ f \in Seq(Items) /\ Len(f) = n /\ n \in Nat /\ n # 0
      /\ \A i \in 1..n : f[i] = ItemOf(Unread[i], key)
  BY <1>1, AnswersOfFacts, LenProperties, EmptySeq
<1>3. Cat(w, c) \in Seq(Items)
  BY <1>1, CatFacts
<1>4. t \in Seq(Items) /\ Len(t) \in Nat
  BY <1>2, <1>3, CatFacts, LenProperties
<1>5. Pipeline = Cat(t, f)
  <2>1. Pipeline = Cat(w, Cat(c, Cat(e, f)))
    BY <1>1 DEF Coming
  <2>2. w \in Seq(Items) /\ c \in Seq(Items) /\ e \in Seq(Items) /\ f \in Seq(Items)
    BY <1>1, <1>2
  <2> HIDE DEF w, c, e, f
  <2>3. QED
    BY <2>1, <2>2, Regroup
<1> DEFINE l == Len(t) + n
<1>6. /\ Len(Pipeline) = l /\ l \in 1..Len(Pipeline)
      /\ Pipeline[l] = ItemOf(Unread[n], key) /\ Pipeline[l] # None
      /\ \A i \in 1..Len(t) : Pipeline[i] = t[i]
  <2>1. ItemOf(Unread[n], key) # None
    BY <1>2, UnreadAnswered
  <2> HIDE DEF t, f, n
  <2>2. Len(Pipeline) = l
    <3>1. t \in Seq(Items) /\ f \in Seq(Items)
      BY <1>2, <1>4
    <3>2. Len(Cat(t, f)) = Len(t) + Len(f)
      BY <3>1, CatFacts
    <3>3. QED
      BY <1>2, <1>5, <3>2
  <2>3. \A i \in 1..l : Pipeline[i] = IF i <= Len(t) THEN t[i] ELSE f[i - Len(t)]
    BY <1>2, <1>4, <1>5, CatElements
  <2>4. l \in 1..l /\ ~(l <= Len(t)) /\ l - Len(t) = n /\ n \in 1..n
    BY <1>2, <1>4
  <2>5. Pipeline[l] = f[n]
    BY <2>3, <2>4
  <2>6. \A i \in 1..Len(t) : i \in 1..l /\ i <= Len(t)
    BY <1>2, <1>4
  <2>7. QED
    BY <1>2, <2>1, <2>2, <2>3, <2>4, <2>5, <2>6
<1>7. Among(Pipeline, expected)
  BY DEF Order
<1>8. ASSUME NEW i \in 1..Len(Pipeline), Pipeline[i] = SendId
      PROVE  i = l
  <2>1. l <= i
    BY <1>6, <1>7, <1>8, IdIsLast
  <2>2. Len(t) \in Nat /\ n \in Nat /\ i \in 1..l
    BY <1>2, <1>4, <1>6, <1>8
  <2> HIDE DEF t, n
  <2>3. QED
    BY <2>1, <2>2
<1>9. /\ IsEnd(Unread', Unread)
      /\ \/ incoming' = incoming /\ buffer' = buffer
         \/ incoming' = Append(incoming, Unparsed) /\ buffer' = Unparsed
         \/ /\ Unread' = Tail(Unread)
            /\ incoming' = Append(incoming, Head(Unread)) /\ buffer' = Head(Unread)
  BY ReadAny
<1>10. CASE incoming' = incoming /\ buffer' = buffer
  <2>1. Pipeline' = t
    <3>1. AnswersOf(<<>>, key) = <<>>
      <4>1. <<>> \in Seq(AnyToken)
        OBVIOUS
      <4>2. AnswersOf(<<>>, key) \in Seq(Items) /\ Len(AnswersOf(<<>>, key)) = 0
        BY <1>1, <4>1, AnswersOfFacts
      <4>3. QED
        BY <4>2, EmptySeq
    <3>2. Coming' = Cat(e, <<>>)
      BY <1>1, <1>10, <3>1 DEF Coming
    <3>3. Coming' = e
      BY <1>2, <3>2, CatFacts
    <3>4. Pipeline' = Cat(w, Cat(c, e))
      BY <1>1, <3>3
    <3>5. w \in Seq(Items) /\ c \in Seq(Items) /\ e \in Seq(Items)
      BY <1>1, <1>2
    <3> HIDE DEF w, c, e
    <3>6. QED
      BY <3>4, <3>5, CatAssociative
  <2>2. PICK i \in 1..Len(t) : t[i] = SendId
    BY <2>1 DEF HasId
  <2>3. Pipeline[i] = SendId /\ i \in 1..Len(Pipeline)
    <3>1. Len(t) \in Nat /\ n \in Nat
      BY <1>2, <1>4
    <3>2. Len(Pipeline) = Len(t) + n /\ Pipeline[i] = t[i]
      BY <1>6
    <3> HIDE DEF t, n
    <3>3. QED
      BY <2>2, <3>1, <3>2
  <2>4. i = l
    BY <1>8, <2>3
  <2>5. Len(t) \in Nat /\ n \in Nat /\ n # 0
    BY <1>2, <1>4
  <2> HIDE DEF t, n
  <2>6. QED
    BY <2>2, <2>4, <2>5
<1>11. CASE /\ Unread' = Tail(Unread)
            /\ incoming' = Append(incoming, Head(Unread)) /\ buffer' = Head(Unread)
  <2>1. Len(Unread) = 1 /\ Head(Unread) = Unread[1]
    <3>1. Len(Tail(Unread)) = Len(Unread) - 1 /\ Head(Unread) = Unread[1]
      BY <1>1, HeadTailProperties
    <3>2. Len(Unread) - 1 = 0
      BY <1>11, <3>1
    <3>3. QED
      BY <1>2, <3>1, <3>2
  <2>2. HasId(Pipeline)
    <3>1. Among(Coming', Coming)
      BY <1>11, ReadMoves DEF Receive
    <3>2. w \in Seq(Items) /\ c \in Seq(Items) /\ Coming \in Seq(Items) /\ Coming' \in Seq(Items)
      BY <1>1, PipelineParts, PipelinePartsNext DEF Parts
    <3> DEFINE a == Coming
               b == Coming'
    <3>3. /\ Among(b, a) /\ a \in Seq(Items) /\ b \in Seq(Items)
          /\ w \in Seq(Items) /\ c \in Seq(Items)
          /\ Pipeline = Cat(w, Cat(c, a)) /\ Pipeline' = Cat(w, Cat(c, b))
      BY <1>1, <3>1, <3>2
    <3> HIDE DEF w, c, a, b
    <3>4. Among(w, w) /\ Among(c, c)
      BY <3>3, AmongItself, LenProperties
    <3>5. Among(Cat(c, b), Cat(c, a))
      BY <3>3, <3>4, AmongCat
    <3>6. Among(Pipeline', Pipeline)
      BY <3>3, <3>4, <3>5, ThreeParts
    <3>7. QED
      BY <3>6, IdAmong
  <2>3. Pipeline[l] = SendId
    <3>1. PICK i \in 1..Len(Pipeline) : Pipeline[i] = SendId
      BY <2>2 DEF HasId
    <3>2. QED
      BY <1>8, <3>1
  <2>4. ItemOf(Head(Unread), key) = SendId /\ Head(Unread) \in Messages
    <3>1. Unread \in Seq(Messages)
      BY UnreadFacts
    <3>2. Head(Unread) \in Messages
      BY <3>1, HeadTailProperties
    <3>3. QED
      BY <1>6, <2>1, <2>3, <3>2
  <2>5. Head(Unread) = Token("REQUEST_HANDSHAKE", None)
    BY <2>4, MessageFacts DEF ItemOf
  <2>6. QED
    BY <1>11, <2>5
<1>12. QED
  BY <1>9, <1>10, <1>11

\* One element in front of a sequence.
LEMMA OneThen ==
  ASSUME NEW S, NEW x \in S, NEW q \in Seq(S)
  PROVE  /\ Len(Cat(One(x), q)) = 1 + Len(q) /\ Len(q) \in Nat
         /\ \A i \in 1..(1 + Len(q)) : Cat(One(x), q)[i] = IF i <= 1 THEN x ELSE q[i - 1]
<1> DEFINE o == One(x)
<1>1. o \in Seq(S) /\ Len(o) = 1 /\ o[1] = x /\ Len(q) \in Nat
  BY OneFacts, LenProperties
<1> HIDE DEF o
<1>2. Len(Cat(o, q)) = 1 + Len(q)
  <2>1. o \in Seq(S)
    BY <1>1
  <2>2. Len(Cat(o, q)) = Len(o) + Len(q)
    BY <2>1, CatFacts
  <2>3. QED
    BY <1>1, <2>2
<1>3. \A i \in 1..(1 + Len(q)) : Cat(o, q)[i] = IF i <= 1 THEN o[i] ELSE q[i - 1]
  BY <1>1, CatElements
<1>4. \A i \in 1..(1 + Len(q)) : i <= 1 => i = 1
  BY <1>1
<1>5. QED
  BY <1>1, <1>2, <1>3, <1>4 DEF o

LEMMA LastReadStep ==
  ASSUME TInv, TInv', KInv, Linked, CoreExpects, Keyed, LastRead, Order, [Next]_vars
  PROVE  LastRead'
<1> SUFFICES ASSUME link' # "reset", Unread' = <<>>, core' = "giveSeed" \/ HasId(Pipeline')
             PROVE  buffer' \in {Token("REQUEST_HANDSHAKE", None), Unparsed}
  BY DEF LastRead, HasId
<1> USE DEF nodeVars, coreVars, netVars
<1>1. CASE \/ RequestHandshake \/ (\E s \in Seeds : SetSeed(s))
           \/ \E api \in DOMAIN CipherReply, text \in Texts : RequestCipher(api, text)
  <2>1. PICK msg \in Messages : toNode' = Append(toNode, msg) /\ offset' = offset
    <3>1. CASE RequestHandshake
      BY <3>1, AskedFacts DEF RequestHandshake, Ask
    <3>2. CASE \E s \in Seeds : SetSeed(s)
      BY <3>2, AskedFacts DEF SetSeed, Ask
    <3>3. CASE \E api \in DOMAIN CipherReply, text \in Texts : RequestCipher(api, text)
      BY <3>3, AskedFacts, CipherReplyFacts DEF RequestCipher, Ask
    <3>4. QED
      BY <1>1, <3>1, <3>2, <3>3
  <2>2. Unread' = Append(Unread, msg) /\ Unread \in Seq(Messages)
    BY <2>1, UnreadAsk, UnreadFacts
  <2>3. Unread' # <<>>
    BY <2>2, AppendProperties
  <2>4. QED
    BY <2>3
<1>2. CASE Reset
  BY <1>2 DEF Reset
<1>3. CASE ReceiveAnswer
  <2>1. UNCHANGED <<link, toNode, offset, buffer>>
    BY <1>3 DEF ReceiveAnswer
  <2>2. link # "reset" /\ Unread = <<>>
    BY <2>1 DEF Unread
  <2>3. core = "giveSeed" \/ HasId(Pipeline)
    <3>1. Pipeline = Cat(One(Head(fromNode)), Pipeline') /\ Pipeline' \in Seq(Items)
          /\ Head(fromNode) \in Items
      BY <1>3, ReceivedFirst
    <3> DEFINE x == Head(fromNode)
               q == Pipeline'
    <3>2. core' # core => x = SendId \/ core' = "ready"
      BY <1>3 DEF ReceiveAnswer
    <3>3. /\ Len(Pipeline) = 1 + Len(q) /\ Len(q) \in Nat
          /\ \A i \in 1..(1 + Len(q)) : Pipeline[i] = IF i <= 1 THEN x ELSE q[i - 1]
      <4>1. x \in Items /\ q \in Seq(Items) /\ Pipeline = Cat(One(x), q)
        BY <3>1
      <4> HIDE DEF x, q
      <4>2. QED
        BY <4>1, OneThen
    <3> HIDE DEF x, q
    <3>4. CASE HasId(q)
      <4>1. PICK i \in 1..Len(q) : q[i] = SendId
        BY <3>4 DEF HasId
      <4>2. i + 1 \in 1..(1 + Len(q)) /\ ~(i + 1 <= 1) /\ (i + 1) - 1 = i
        BY <3>3, <4>1
      <4>3. QED
        BY <3>3, <4>1, <4>2 DEF HasId
    <3>5. CASE x = SendId
      <4>1. 1 \in 1..(1 + Len(q)) /\ Pipeline[1] = x
        BY <3>3
      <4>2. QED
        BY <3>3, <3>5, <4>1 DEF HasId
    <3>6. QED
      BY <3>2, <3>4, <3>5 DEF q
  <2>4. QED
    BY <2>1, <2>2, <2>3 DEF LastRead
<1>4. CASE \/ DeleteSeed \/ IncomingThread \/ ConsumerThread \/ OutgoingThread
           \/ Close \/ UNCHANGED vars
  <2>1. link # "reset" /\ core' = core
    BY <1>4 DEF DeleteSeed, IncomingThread, Connect, ConnectFails, Receive, ReceiveNothing,
                ConsumerThread, PollToken, PushId, PollSeed, HandshakeError, ConstructQpp,
                PushHsComplete, Cipher, OutgoingThread, PollReply, Write, Close, vars
  <2>2. Among(Pipeline', Pipeline)
    BY <1>4, NodeMoves
  <2>3. core = "giveSeed" \/ HasId(Pipeline)
    BY <2>1, <2>2, IdAmong
  <2>4. CASE Receive /\ Unread # <<>>
    <3>1. core # "giveSeed"
      BY <2>1, <2>4, NothingHeard DEF Order
    <3>2. QED
      BY <2>1, <2>4, <3>1, RequestRead
  <2>5. CASE Receive /\ Unread = <<>>
    <3>1. buffer' \in {buffer, Unparsed}
      BY <2>5, ReadAny
    <3>2. QED
      BY <2>1, <2>3, <2>5, <3>1 DEF LastRead
  <2>6. CASE ~Receive
    <3>1. /\ UNCHANGED <<toNode, offset>>
          /\ buffer' \in {buffer, Unparsed}
      BY <1>4, <2>6
         DEF DeleteSeed, IncomingThread, Connect, ConnectFails, ReceiveNothing, ConsumerThread,
             PollToken, PushId, PollSeed, HandshakeError, ConstructQpp, PushHsComplete, Cipher,
             OutgoingThread, PollReply, Write, Close, vars
    <3>2. Unread = <<>>
      BY <3>1 DEF Unread
    <3>3. QED
      BY <2>1, <2>3, <3>1, <3>2 DEF LastRead
  <2>7. QED
    BY <2>4, <2>5, <2>6
<1>5. QED
  BY <1>1, <1>2, <1>3, <1>4 DEF Next, CoreComplex

-----------------------------------------------------------------------------
(* The seed and the cipher                                                 *)

\* What a reset leaves of the unread messages is the beginning of them.
LEMMA UnreadReset ==
  ASSUME TInv, Reset, NEW S, Unread \in Seq(S)
  PROVE  Unread' \in Seq(S)
<1>1. PICK n \in 0..Len(toNode) : /\ toNode' = SubSeq(toNode, 1, n)
                                  /\ offset' = IF n = 0 THEN AtBrace ELSE offset
  BY DEF Reset
<1>2. toNode \in Seq(Messages) /\ Len(toNode) \in Nat
  BY LenProperties DEF TInv, QueueTypes
<1>3. toNode' \in Seq(Messages) /\ Len(toNode') = n /\ \A i \in 1..n : toNode'[i] = toNode[i]
  BY <1>1, <1>2, CutFacts
<1>4. CASE n = 0
  <2>1. toNode' = <<>> /\ offset' = AtBrace
    BY <1>1, <1>3, <1>4, EmptySeq
  <2>2. QED
    BY <2>1 DEF Unread
<1>5. CASE n # 0 /\ offset = AtBrace
  <2>1. Unread = toNode /\ Unread' = toNode'
    BY <1>1, <1>5 DEF Unread
  <2>2. Unread' = SubSeq(Unread, 1, n) /\ n \in 0..Len(Unread)
    BY <1>1, <2>1
  <2>3. QED
    BY <2>2, CutFacts
<1>6. CASE n # 0 /\ offset # AtBrace
  <2>1. Unread = Tail(toNode) /\ Unread' = Tail(toNode')
    BY <1>1, <1>6 DEF Unread
  <2>2. toNode # <<>> /\ toNode' # <<>>
    BY <1>1, <1>2, <1>3, <1>6, EmptySeq
  <2>3. /\ Len(Tail(toNode)) = Len(toNode) - 1
        /\ \A i \in 1..(Len(toNode) - 1) : Tail(toNode)[i] = toNode[i + 1]
        /\ Tail(toNode') \in Seq(Messages) /\ Len(Tail(toNode')) = n - 1
        /\ \A i \in 1..(n - 1) : Tail(toNode')[i] = toNode'[i + 1]
    BY <1>2, <1>3, <2>2, HeadTailProperties
  <2>4. ASSUME NEW i \in 1..Len(Tail(toNode')) PROVE Tail(toNode')[i] \in S
    <3>1. i \in 1..(n - 1) /\ i + 1 \in 1..n /\ i \in 1..(Len(toNode) - 1)
      BY <1>1, <1>2, <2>3
    <3>2. Tail(toNode')[i] = Tail(toNode)[i]
      <4>1. Tail(toNode')[i] = toNode'[i + 1] /\ Tail(toNode)[i] = toNode[i + 1]
        BY <2>3, <3>1
      <4>2. toNode'[i + 1] = toNode[i + 1]
        BY <1>3, <3>1
      <4>3. QED
        BY <4>1, <4>2
    <3>3. Tail(toNode)[i] \in S
      <4>1. Unread \in Seq(S) /\ i \in 1..Len(Unread)
        BY <2>1, <2>3, <3>1
      <4>2. QED
        BY <2>1, <4>1, ElementOfSeq
    <3>4. QED
      BY <3>2, <3>3
  <2>5. Tail(toNode') \in Seq(S)
    BY <2>3, <2>4, SequenceOver
  <2>6. QED
    BY <2>1, <2>5
<1>7. QED
  BY <1>4, <1>5, <1>6

\* Every step but a message of the Core Complex keeps the tokens on their way in a set
\* that holds what the node makes of a text that does not parse.
LEMMA TokensKept ==
  ASSUME TInv, NEW S, Unparsed \in S,
         buffer \in S, incoming \in Seq(S), Unread \in Seq(S),
         \/ DeleteSeed \/ IncomingThread \/ ConsumerThread \/ OutgoingThread
         \/ ReceiveAnswer \/ Close \/ Reset \/ UNCHANGED vars
  PROVE  buffer' \in S /\ incoming' \in Seq(S) /\ Unread' \in Seq(S)
<1> USE DEF nodeVars, coreVars, netVars
<1>1. CASE Receive
  <2>1. /\ Unread' \in Seq(Messages) /\ IsEnd(Unread', Unread)
        /\ \/ incoming' = incoming /\ buffer' = buffer
           \/ incoming' = Append(incoming, Unparsed) /\ buffer' = Unparsed
           \/ /\ Unread # <<>>
              /\ incoming' = Append(incoming, Head(Unread)) /\ buffer' = Head(Unread)
    BY <1>1, ReadAny
  <2>2. Unread' \in Seq(S)
    BY <2>1, EndKept
  <2>3. Unread # <<>> => Head(Unread) \in S
    BY HeadTailProperties
  <2>4. \A m \in S : Append(incoming, m) \in Seq(S)
    BY AppendProperties
  <2>5. QED
    BY <2>1, <2>2, <2>3, <2>4
<1>2. CASE ReceiveNothing
  <2>1. buffer' \in S /\ incoming' = Append(incoming, buffer') /\ UNCHANGED <<toNode, offset>>
    BY <1>2 DEF ReceiveNothing
  <2>2. QED
    BY <2>1, AppendProperties DEF Unread
<1>3. CASE PollToken \/ PollSeed \/ HandshakeError
  <2>1. incoming # <<>> /\ incoming' = Tail(incoming) /\ UNCHANGED <<buffer, toNode, offset>>
    BY <1>3 DEF PollToken, PollSeed, HandshakeError
  <2>2. QED
    BY <2>1, HeadTailProperties DEF Unread
<1>4. CASE Reset
  <2>1. Unread' \in Seq(S)
    BY <1>4, UnreadReset
  <2>2. UNCHANGED <<incoming, buffer>>
    BY <1>4 DEF Reset
  <2>3. QED
    BY <2>1, <2>2
<1>5. CASE DeleteSeed \/ Connect \/ ConnectFails \/ PushId \/ ConstructQpp \/ PushHsComplete
             \/ Cipher \/ PollReply \/ Write \/ ReceiveAnswer \/ Close \/ UNCHANGED vars
  <2>1. UNCHANGED <<incoming, buffer, toNode, offset>>
    BY <1>5 DEF DeleteSeed, Connect, ConnectFails, PushId, ConstructQpp, PushHsComplete, Cipher,
                PollReply, Write, ReceiveAnswer, Close, vars
  <2>2. QED
    BY <2>1 DEF Unread
<1>6. QED
  BY <1>1, <1>2, <1>3, <1>4, <1>5 DEF IncomingThread, ConsumerThread, OutgoingThread

\* What a message of the Core Complex does to the tokens on their way.
LEMMA TokensAsked ==
  ASSUME TInv, NEW S, NEW msg \in Messages, msg \in S, NEW k, Ask(msg, k),
         buffer \in S, incoming \in Seq(S), Unread \in Seq(S)
  PROVE  buffer' \in S /\ incoming' \in Seq(S) /\ Unread' \in Seq(S)
<1>1. Unread' = Append(Unread, msg) /\ UNCHANGED <<incoming, buffer>>
  BY UnreadAsk DEF Ask
<1>2. QED
  BY <1>1, AppendProperties

\* A new seed finds nothing under way that speaks of the one before.
LEMMA SeedGiven ==
  ASSUME TInv, KInv, CoreExpects, Keyed, LastRead, Order, NEW s \in Seeds, SetSeed(s)
  PROVE  Keyed'
<1> DEFINE msg == Token("SET_SEED", s)
<1>1. /\ core = "giveSeed" /\ core' = "awaitHs" /\ key' = s /\ Ask(msg, s)
      /\ msg \in Messages /\ msg \in Current(s) /\ msg \in Uncipher
  BY AskedFacts, CurrentFacts, PlainFacts DEF SetSeed
<1> HIDE DEF msg
<1>2. link = "open" /\ UNCHANGED <<consumer, outgoing, sending, fromNode>>
  BY <1>1 DEF Ask, nodeVars
<1>3. /\ consumer \in {"poll", "pollSeed"} /\ incoming \in Seq({Unparsed}) /\ Unread = <<>>
      /\ outgoing = <<>> /\ sending = <<>> /\ fromNode = <<>>
  BY <1>1, <1>2, NothingHeard DEF Order
<1>4. buffer \in {Token("REQUEST_HANDSHAKE", None), Unparsed}
  BY <1>1, <1>2, <1>3 DEF LastRead
<1>5. ASSUME NEW S, Unparsed \in S, Token("REQUEST_HANDSHAKE", None) \in S, msg \in S
      PROVE  buffer' \in S /\ incoming' \in Seq(S) /\ Unread' \in Seq(S)
  <2>1. incoming \in Seq(S)
    BY <1>3, <1>5, SeqMonotonic
  <2>2. Unread \in Seq(S)
    BY <1>3
  <2>3. QED
    BY <1>1, <1>4, <1>5, <2>1, <2>2, TokensAsked
<1>6. SeedTokens'
  BY <1>1, <1>5, CurrentFacts DEF SeedTokens
<1>7. buffer' \in Uncipher /\ incoming' \in Seq(Uncipher) /\ Unread' \in Seq(Uncipher)
  BY <1>1, <1>5, PlainFacts
<1>8. outgoing' \in Seq(Plain) /\ sending' \in Seq(Plain) /\ fromNode' \in Seq(Plain)
  BY <1>2, <1>3
<1>9. consumer' \in {"poll", "pollSeed"}
  BY <1>2, <1>3
<1>10. NoCipherThreads' /\ NoCipherLeft'
  BY <1>1, <1>7, <1>8, <1>9 DEF NoCipherThreads, NoCipherLeft
<1>11. QED
  BY <1>6, <1>9, <1>10 DEF Keyed

\* Another step leaves the seeds on their way, and takes one of them.
LEMMA SeedsKept ==
  ASSUME TInv, Linked, Keyed, key' = key, [Next]_vars, ~(\E s \in Seeds : SetSeed(s))
  PROVE  SeedTokens' /\ (consumer' = "construct" => seed' = key')
<1> USE DEF nodeVars, coreVars, netVars
<1>0. buffer \in Current(key) /\ incoming \in Seq(Current(key)) /\ Unread \in Seq(Current(key))
  BY DEF Keyed, SeedTokens
<1>1. buffer' \in Current(key) /\ incoming' \in Seq(Current(key)) /\ Unread' \in Seq(Current(key))
  <2>1. CASE \/ RequestHandshake
             \/ \E api \in DOMAIN CipherReply, text \in Texts : RequestCipher(api, text)
    <3>1. PICK msg \in Messages : msg \in Current(key) /\ Ask(msg, key)
      <4>1. CASE RequestHandshake
        BY <4>1, AskedFacts, CurrentFacts DEF RequestHandshake
      <4>2. CASE \E api \in DOMAIN CipherReply, text \in Texts : RequestCipher(api, text)
        BY <4>2, AskedFacts, CurrentFacts, CipherReplyFacts DEF RequestCipher
      <4>3. QED
        BY <2>1, <4>1, <4>2
    <3>2. QED
      BY <1>0, <3>1, TokensAsked
  <2>2. CASE \/ DeleteSeed \/ IncomingThread \/ ConsumerThread \/ OutgoingThread
             \/ ReceiveAnswer \/ Close \/ Reset \/ UNCHANGED vars
    BY <1>0, <2>2, CurrentFacts, TokensKept
  <2>3. QED
    BY <2>1, <2>2 DEF Next, CoreComplex
<1>2. consumer' = "construct" => seed' = key'
  <2>1. CASE PollSeed
    <3>1. Head(incoming).api = "SET_SEED" /\ seed' = Head(incoming).payload /\ incoming # <<>>
      BY <2>1 DEF PollSeed
    <3>2. Head(incoming) \in Current(key)
      BY <1>0, <3>1, HeadTailProperties
    <3>3. QED
      BY <3>1, <3>2 DEF Current
  <2>2. CASE DeleteSeed
    <3>1. ~seedFreed /\ consumer' = consumer
      BY <2>2 DEF DeleteSeed
    <3>2. consumer = "poll"
      BY <3>1 DEF Linked
    <3>3. QED
      BY <3>1, <3>2
  <2>3. CASE PollToken
    BY <2>3 DEF PollToken
  <2>4. CASE PushId \/ ConstructQpp \/ PushHsComplete \/ Cipher
    BY <2>4 DEF PushId, ConstructQpp, PushHsComplete, Cipher
  <2>5. CASE \/ IncomingThread \/ HandshakeError \/ OutgoingThread \/ RequestHandshake
             \/ (\E api \in DOMAIN CipherReply, text \in Texts : RequestCipher(api, text))
             \/ ReceiveAnswer \/ Close \/ Reset \/ UNCHANGED vars
    <3>1. consumer' = consumer /\ seed' = seed
      BY <2>5 DEF IncomingThread, Connect, ConnectFails, Receive, ReceiveNothing, HandshakeError,
                  OutgoingThread, PollReply, Write, RequestHandshake, RequestCipher, Ask,
                  ReceiveAnswer, Close, Reset, vars
    <3>2. QED
      BY <3>1 DEF Keyed
  <2>6. QED
    BY <2>1, <2>2, <2>3, <2>4, <2>5 DEF Next, ConsumerThread, CoreComplex
<1>3. QED
  BY <1>1, <1>2 DEF SeedTokens

\* As long as the node has another cipher, nothing comes to ask for it.
LEMMA NoCipherKept ==
  ASSUME TInv, Keyed, qpp # key, UNCHANGED <<qpp, key>>, [Next]_vars
  PROVE  NoCipherThreads' /\ NoCipherLeft'
<1>0. /\ core # "ready" /\ consumer \notin {"sendHs", "cipher"}
      /\ buffer \in Uncipher /\ incoming \in Seq(Uncipher) /\ Unread \in Seq(Uncipher)
      /\ outgoing \in Seq(Plain) /\ sending \in Seq(Plain) /\ fromNode \in Seq(Plain)
  BY DEF Keyed, NoCipherThreads, NoCipherLeft
<1> USE DEF nodeVars, coreVars, netVars
<1>1. buffer' \in Uncipher /\ incoming' \in Seq(Uncipher) /\ Unread' \in Seq(Uncipher)
  <2>1. CASE RequestHandshake \/ (\E s \in Seeds : SetSeed(s))
    <3>1. PICK msg \in Messages, k \in Seeds \union {None} : msg \in Uncipher /\ Ask(msg, k)
      BY <2>1, PlainFacts, AskedFacts DEF RequestHandshake, SetSeed, TInv, ThreadTypes
    <3>2. QED
      BY <1>0, <3>1, TokensAsked
  <2>2. CASE \/ DeleteSeed \/ IncomingThread \/ ConsumerThread \/ OutgoingThread
             \/ ReceiveAnswer \/ Close \/ Reset \/ UNCHANGED vars
    BY <1>0, <2>2, PlainFacts, TokensKept
  <2>3. CASE \E api \in DOMAIN CipherReply, text \in Texts : RequestCipher(api, text)
    BY <1>0, <2>3 DEF RequestCipher
  <2>4. QED
    BY <2>1, <2>2, <2>3 DEF Next, CoreComplex
<1>2. outgoing' \in Seq(Plain) /\ sending' \in Seq(Plain) /\ fromNode' \in Seq(Plain)
  <2>1. CASE PushId
    <3>1. outgoing' = Append(outgoing, SendId) /\ UNCHANGED <<sending, fromNode>>
      BY <2>1 DEF PushId
    <3>2. QED
      BY <1>0, <3>1, PlainFacts, AppendProperties
  <2>2. CASE PushHsComplete \/ Cipher
    BY <1>0, <2>2 DEF PushHsComplete, Cipher
  <2>3. CASE OutgoingThread \/ ReceiveAnswer
    BY <1>0, <2>3, RepliesKept
  <2>4. CASE \/ DeleteSeed \/ IncomingThread \/ PollToken \/ PollSeed \/ HandshakeError
             \/ ConstructQpp \/ RequestHandshake \/ (\E s \in Seeds : SetSeed(s))
             \/ (\E api \in DOMAIN CipherReply, text \in Texts : RequestCipher(api, text))
             \/ Close \/ Reset \/ UNCHANGED vars
    <3>1. UNCHANGED <<outgoing, sending, fromNode>>
      BY <2>4 DEF DeleteSeed, IncomingThread, Connect, ConnectFails, Receive, ReceiveNothing,
                  PollToken, PollSeed, HandshakeError, ConstructQpp, RequestHandshake, SetSeed,
                  RequestCipher, Ask, Close, Reset, vars
    <3>2. QED
      BY <1>0, <3>1
  <2>5. QED
    BY <2>1, <2>2, <2>3, <2>4 DEF Next, ConsumerThread, CoreComplex
<1>3. consumer' \notin {"sendHs", "cipher"}
  <2>1. CASE PollToken
    <3>1. incoming # <<>> /\ acquired' = Head(incoming)
      BY <2>1 DEF PollToken
    <3>2. acquired'.api \notin DOMAIN CipherReply
      BY <1>0, <3>1, HeadTailProperties, CipherReplyFacts DEF Uncipher
    <3>3. QED
      BY <2>1, <3>2 DEF PollToken
  <2>2. CASE PushId \/ PollSeed
    BY <2>2 DEF PushId, PollSeed
  <2>3. CASE PushHsComplete \/ Cipher
    BY <1>0, <2>3 DEF PushHsComplete, Cipher
  <2>4. CASE ConstructQpp
    <3>1. qpp' = seed /\ seed = key
      BY <2>4 DEF ConstructQpp, Keyed
    <3>2. QED
      BY <3>1
  <2>5. CASE DeleteSeed \/ IncomingThread \/ HandshakeError \/ OutgoingThread \/ CoreComplex \/ UNCHANGED vars
    <3>1. consumer' = consumer
      BY <2>5 DEF DeleteSeed, IncomingThread, Connect, ConnectFails, Receive, ReceiveNothing,
                  HandshakeError, OutgoingThread, PollReply, Write, CoreComplex, RequestHandshake,
                  SetSeed, RequestCipher, Ask, ReceiveAnswer, Close, Reset, vars
    <3>2. QED
      BY <1>0, <3>1
  <2>6. QED
    BY <2>1, <2>2, <2>3, <2>4, <2>5 DEF Next, ConsumerThread
<1>4. core' # "ready"
  <2>1. CASE ReceiveAnswer
    <3>1. fromNode # <<>> /\ Head(fromNode) \in Plain
      BY <1>0, <2>1, HeadTailProperties DEF ReceiveAnswer
    <3>2. Head(fromNode) # HsComplete
      BY <3>1, PlainFacts
    <3>3. QED
      BY <1>0, <2>1, <3>2 DEF ReceiveAnswer
  <2>2. CASE RequestHandshake \/ (\E s \in Seeds : SetSeed(s))
    BY <2>2 DEF RequestHandshake, SetSeed
  <2>3. CASE \E api \in DOMAIN CipherReply, text \in Texts : RequestCipher(api, text)
    BY <1>0, <2>3 DEF RequestCipher
  <2>4. CASE DeleteSeed \/ IncomingThread \/ ConsumerThread \/ OutgoingThread \/ Close \/ Reset \/ UNCHANGED vars
    <3>1. core' = core
      BY <2>4 DEF DeleteSeed, IncomingThread, Connect, ConnectFails, Receive, ReceiveNothing,
                  ConsumerThread, PollToken, PushId, PollSeed, HandshakeError, ConstructQpp,
                  PushHsComplete, Cipher, OutgoingThread, PollReply, Write, Close, Reset, vars
    <3>2. QED
      BY <1>0, <3>1
  <2>5. QED
    BY <2>1, <2>2, <2>3, <2>4 DEF Next, CoreComplex
<1>5. NoCipherThreads'
  BY <1>1, <1>3, <1>4 DEF NoCipherThreads
<1>6. QED
  BY <1>1, <1>2, <1>5 DEF NoCipherLeft

LEMMA KeyedStep ==
  ASSUME TInv, KInv, Linked, CoreExpects, Keyed, LastRead, Order, [Next]_vars
  PROVE  Keyed'
<1> USE DEF nodeVars, coreVars, netVars
<1>1. CASE \E s \in Seeds : SetSeed(s)
  BY <1>1, SeedGiven
<1>2. CASE ~(\E s \in Seeds : SetSeed(s))
  <2>1. key' = key
    BY <1>2 DEF Next, DeleteSeed, IncomingThread, Connect, ConnectFails, Receive,
                ReceiveNothing, ConsumerThread, PollToken, PushId, PollSeed, HandshakeError,
                ConstructQpp, PushHsComplete, Cipher, OutgoingThread, PollReply, Write,
                CoreComplex, RequestHandshake, RequestCipher, Ask, ReceiveAnswer, Close, Reset,
                vars
  <2>2. SeedTokens' /\ (consumer' = "construct" => seed' = key')
    BY <1>2, <2>1, SeedsKept
  <2>3. CASE ConstructQpp
    <3>1. qpp' = key'
      BY <2>1, <2>3 DEF ConstructQpp, Keyed
    <3>2. QED
      BY <2>2, <3>1 DEF Keyed
  <2>4. CASE ~ConstructQpp
    <3>1. qpp' = qpp
      BY <1>2, <2>4
         DEF Next, DeleteSeed, IncomingThread, Connect, ConnectFails, Receive,
             ReceiveNothing, ConsumerThread, PollToken, PushId, PollSeed, HandshakeError,
             PushHsComplete, Cipher, OutgoingThread, PollReply, Write, CoreComplex,
             RequestHandshake, RequestCipher, Ask, ReceiveAnswer, Close, Reset, vars
    <3>2. qpp' # key' => NoCipherThreads' /\ NoCipherLeft'
      BY <2>1, <3>1, NoCipherKept
    <3>3. QED
      BY <2>2, <3>2 DEF Keyed
  <2>5. QED
    BY <2>3, <2>4
<1>3. QED
  BY <1>1, <1>2

-----------------------------------------------------------------------------
(* The theorems                                                            *)

OInv == Linked /\ CoreExpects /\ LastRead /\ Keyed /\ Order

LEMMA OInvInit == Init => OInv
<1> SUFFICES ASSUME Init PROVE OInv
  OBVIOUS
<1>1. /\ incoming = <<>> /\ Unread = <<>> /\ fromNode = <<>> /\ sending = <<>> /\ outgoing = <<>>
      /\ consumer = "poll" /\ qpp = key /\ core = "idle" /\ expected = <<>> /\ buffer = Unparsed
  BY DEF Init, Unread, AtBrace
<1>2. Linked /\ CoreExpects /\ LastRead /\ Keyed
  <2>1. Linked /\ CoreExpects /\ LastRead
    BY <1>1 DEF Init, Linked, CoreExpects, LastRead
  <2>2. SeedTokens
    BY <1>1, CurrentFacts DEF SeedTokens
  <2>3. QED
    BY <1>1, <2>1, <2>2 DEF Keyed
<1>3. Answers(<<>>) = <<>>
  <2>1. Len(<<>>) = 0 /\ 1..0 = {}
    OBVIOUS
  <2>2. DOMAIN Answers(<<>>) = {} /\ DOMAIN <<>> = {}
    BY <2>1 DEF Answers
  <2>3. AnswersOf(<<>>, None) \in Seq(Items) /\ Len(AnswersOf(<<>>, None)) = 0
    <3>1. <<>> \in Seq(AnyToken) /\ None \in Seeds \union {None}
      OBVIOUS
    <3>2. QED
      BY <3>1, AnswersOfFacts
  <2>4. Answers(<<>>) = AnswersOf(<<>>, None)
    BY <2>1 DEF Answers, AnswersOf
  <2>5. QED
    BY <2>3, <2>4, EmptySeq
<1>4. Pipeline = <<>>
  <2>1. ConsumerAnswer = <<>>
    BY <1>1 DEF ConsumerAnswer
  <2>2. <<>> \o <<>> = <<>>
    OBVIOUS
  <2>3. QED
    BY <1>1, <1>3, <2>1, <2>2 DEF Pipeline
<1>5. Heard(<<>>) = {}
  BY DEF Heard
<1>6. Among(<<>>, <<>>)
  BY <1>5, NothingAmong
<1>7. Order
  BY <1>1, <1>4, <1>6 DEF Order
<1>8. QED
  BY <1>2, <1>7 DEF OInv

LEMMA OInvStep ==
  ASSUME PromptMain
  PROVE  TInv /\ TInv' /\ KInv /\ OInv /\ [Next]_vars => OInv'
BY LinkedStep, CoreExpectsStep, LastReadStep, KeyedStep, OrderStep DEF OInv

LEMMA OInvAlways ==
  ASSUME PromptMain
  PROVE  Spec => [](TInv /\ KInv /\ OInv)
BY KInvAlways, OInvInit, OInvStep, PTL DEF Spec

\* However the reads cut the stream and whenever the connection ends: answers may be lost,
\* but they are never reordered, repeated, made up, or made for another text or under
\* another seed.  This is of the whole way of a message through the four threads and two
\* queues, from the turns of producing over the handshake of the consumer thread to the
\* writes of sending.  Main must be prompt, since a cipher that is constructed after
\* delete[] seed answers under what free has left in the block; MCNodeESeedRace shows one.
THEOREM OrderIsKept ==
  ASSUME PromptMain
  PROVE  Spec => []AnswersKeepOrder
<1>1. OInv => AnswersKeepOrder
  BY DEF OInv, Order, AnswersKeepOrder
<1>2. QED
  BY <1>1, OInvAlways, PTL

\* Whenever the Core Complex takes a handshake for complete, and as soon as the reply that
\* completes it exists, the cipher of the node was constructed with the seed it sent last:
\* main deletes the buffer of the seed before the first seed is copied to it, never between
\* the copy and the constructor, and no text read in pieces, nor one that a failed read
\* left in the buffer, sets a seed of before again.
THEOREM KeysAgree ==
  ASSUME PromptMain
  PROVE  Spec => []KeyAgreement
<1>1. OInv => KeyAgreement
  <2> SUFFICES ASSUME OInv, qpp # key
               PROVE  /\ core # "ready"
                      /\ \A q \in {outgoing, sending, fromNode} : \A i \in DOMAIN q : q[i] # HsComplete
    BY DEF KeyAgreement
  <2>1. core # "ready" /\ outgoing \in Seq(Plain) /\ sending \in Seq(Plain) /\ fromNode \in Seq(Plain)
    BY DEF OInv, Keyed, NoCipherThreads, NoCipherLeft
  <2>2. ASSUME NEW q \in Seq(Plain), NEW i \in DOMAIN q PROVE q[i] # HsComplete
    <3>1. q[i] \in Plain
      BY LenProperties, ElementOfSeq
    <3>2. QED
      BY <3>1, PlainFacts
  <2>3. QED
    BY <2>1, <2>2
<1>2. QED
  BY <1>1, OInvAlways, PTL

-----------------------------------------------------------------------------
(* Every step leaves less to be done                                       *)

LEMMA WorkTypes ==
  ASSUME TInv
  PROVE  /\ Len(toNode) \in Nat /\ Len(incoming) \in Nat /\ Len(outgoing) \in Nat
         /\ Len(sending) \in Nat /\ Len(fromNode) \in Nat /\ offset \in 0..2
         /\ InHand \in Nat
         /\ Work \in Int
<1>1. /\ Len(toNode) \in Nat /\ Len(incoming) \in Nat /\ Len(outgoing) \in Nat
      /\ Len(sending) \in Nat /\ Len(fromNode) \in Nat /\ offset \in 0..2
  BY LenProperties DEF TInv, QueueTypes, AtBrace, AtText, AtNewline
<1>2. InHand \in Nat
  BY DEF InHand
<1>3. QED
  BY <1>1, <1>2 DEF Work

\* The length of what is left of a queue, and of a longer one.
LEMMA Lengths ==
  ASSUME NEW S, NEW q \in Seq(S)
  PROVE  /\ q # <<>> => Len(Tail(q)) = Len(q) - 1 /\ Len(q) >= 1
         /\ \A e \in S : Len(Append(q, e)) = Len(q) + 1
         /\ \A k \in 0..Len(q) : Len(SubSeq(q, k + 1, Len(q))) = Len(q) - k
<1>1. Len(q) \in Nat
  BY LenProperties
<1>2. q # <<>> => Len(Tail(q)) = Len(q) - 1 /\ Len(q) >= 1
  BY HeadTailProperties, EmptySeq, <1>1
<1>3. \A e \in S : Len(Append(q, e)) = Len(q) + 1
  BY AppendProperties
<1>4. \A k \in 0..Len(q) : Len(SubSeq(q, k + 1, Len(q))) = Len(q) - k
  BY <1>1
<1>5. QED
  BY <1>2, <1>3, <1>4

LEMMA WorkFalls ==
  ASSUME TInv, Next, link = "open", link' = "open", sent' = sent, seedFreed' = seedFreed
  PROVE  Work' < Work
<1> USE DEF nodeVars, coreVars, netVars
<1>1. /\ Len(toNode) \in Nat /\ Len(incoming) \in Nat /\ Len(outgoing) \in Nat
      /\ Len(sending) \in Nat /\ Len(fromNode) \in Nat /\ offset \in 0..2
      /\ InHand \in Nat
  BY WorkTypes
<1>2. /\ incoming \in Seq(AnyToken) /\ outgoing \in Seq(Replies) /\ sending \in Seq(Replies)
      /\ toNode \in Seq(Messages) /\ fromNode \in Seq(Replies)
  BY DEF TInv, QueueTypes
<1>3. CASE Receive
  <2>1. PICK n \in 0..Len(toNode), off \in {AtBrace, AtText, AtNewline} :
          /\ Readable(n, off)
          /\ toNode' = SubSeq(toNode, n + 1, Len(toNode))
          /\ offset' = off
          /\ IF offset = AtNewline
             THEN UNCHANGED <<incoming, buffer>>
             ELSE /\ buffer' = Parse(n, off)
                  /\ incoming' = Append(incoming, buffer')
    BY <1>3 DEF Receive
  <2>2. Len(toNode') = Len(toNode) - n
    BY <1>2, <2>1, Lengths
  <2>3. Len(incoming') <= Len(incoming) + 1 /\ Len(incoming') \in Nat
    <3>1. \A e : Len(Append(incoming, e)) = Len(incoming) + 1
      BY <1>2
    <3>2. QED
      BY <1>1, <2>1, <3>1
  <2>4. 3 * Len(toNode') - offset' <= 3 * Len(toNode) - offset - 1
    BY <1>1, <2>1, <2>2 DEF Readable, AtBrace, AtText, AtNewline
  <2>5. /\ UNCHANGED <<outgoing, sending, fromNode, consumer>>
        /\ InHand' = InHand
    BY <1>3 DEF Receive, InHand
  <2>6. 3 * Len(toNode) - offset \in Int /\ 3 * Len(toNode') - offset' \in Int
    BY <1>1, <2>1, <2>2 DEF AtBrace, AtText, AtNewline
  <2> DEFINE left == 3 * Len(toNode) - offset
             left2 == 3 * Len(toNode') - offset'
  <2>7. /\ Work = 7 * left + 6 * Len(incoming) + InHand
                     + 3 * Len(outgoing) + 2 * Len(sending) + Len(fromNode)
        /\ Work' = 7 * left2 + 6 * Len(incoming') + InHand
                     + 3 * Len(outgoing) + 2 * Len(sending) + Len(fromNode)
    BY <2>5 DEF Work
  <2> HIDE DEF left, left2
  <2>8. left \in Int /\ left2 \in Int /\ left2 <= left - 1
    BY <2>4, <2>6 DEF left, left2
  <2>9. QED
    BY <1>1, <2>3, <2>7, <2>8
<1>4. CASE PollToken \/ PollSeed \/ HandshakeError
  <2>1. /\ incoming # <<>> /\ incoming' = Tail(incoming)
        /\ UNCHANGED <<outgoing, sending, fromNode, toNode, offset>>
        /\ consumer \in {"poll", "pollSeed"}
    BY <1>4 DEF PollToken, PollSeed, HandshakeError
  <2>2. Len(incoming') = Len(incoming) - 1
    BY <1>2, <2>1, Lengths
  <2>3. InHand = 0 /\ InHand' \in 0..5
    BY <2>1 DEF InHand
  <2>4. QED
    BY <1>1, <2>1, <2>2, <2>3 DEF Work
<1>5. CASE ConstructQpp
  <2>1. InHand' = InHand - 1
    BY <1>5 DEF ConstructQpp, InHand
  <2>2. QED
    BY <1>1, <1>5, <2>1 DEF ConstructQpp, Work
<1>6. CASE PushId \/ PushHsComplete \/ Cipher
  <2>1. InHand = 4 /\ InHand' = 0
    BY <1>6 DEF PushId, PushHsComplete, Cipher, InHand
  <2>2. Len(outgoing') = Len(outgoing) + 1
    <3>1. outgoing' \in Seq(Replies)
      BY TInvStep DEF TInv, QueueTypes
    <3>2. \A e : Len(Append(outgoing, e)) = Len(outgoing) + 1
      BY <1>2
    <3>3. QED
      BY <1>6, <3>2 DEF PushId, PushHsComplete, Cipher
  <2>3. UNCHANGED <<incoming, sending, fromNode, toNode, offset>>
    BY <1>6 DEF PushId, PushHsComplete, Cipher
  <2>4. QED
    BY <1>1, <2>1, <2>2, <2>3 DEF Work
<1>7. CASE PollReply
  <2>1. Len(outgoing') = Len(outgoing) - 1 /\ Len(sending) = 0 /\ Len(sending') = 1
    BY <1>2, <1>7, Lengths DEF PollReply
  <2>2. InHand' = InHand /\ UNCHANGED <<incoming, fromNode, toNode, offset>>
    BY <1>7 DEF PollReply, InHand
  <2>3. QED
    BY <1>1, <2>1, <2>2 DEF Work
<1>8. CASE Write
  <2>1. Len(sending') = 0 /\ Len(sending) >= 1 /\ fromNode' = fromNode \o sending
    BY <1>1, <1>2, <1>8, EmptySeq DEF Write
  <2>2. Len(fromNode') = Len(fromNode) + Len(sending)
    BY <1>2, <2>1, ConcatProperties
  <2>3. InHand' = InHand /\ UNCHANGED <<incoming, outgoing, toNode, offset>>
    BY <1>8 DEF Write, InHand
  <2>4. QED
    BY <1>1, <2>1, <2>2, <2>3 DEF Work
<1>9. CASE ReceiveAnswer
  <2>1. Len(fromNode') = Len(fromNode) - 1
    BY <1>2, <1>9, Lengths DEF ReceiveAnswer
  <2>2. InHand' = InHand /\ UNCHANGED <<incoming, outgoing, sending, toNode, offset>>
    BY <1>9 DEF ReceiveAnswer, InHand
  <2>3. QED
    BY <1>1, <2>1, <2>2 DEF Work
<1>10. ~Connect /\ ~ConnectFails /\ ~ReceiveNothing /\ ~Close /\ ~Reset
  BY DEF Connect, ConnectFails, ReceiveNothing, Close, Reset
<1>11. ~DeleteSeed
  BY DEF DeleteSeed
<1>12. /\ ~RequestHandshake
       /\ ~\E s \in Seeds : SetSeed(s)
       /\ ~\E api \in DOMAIN CipherReply, text \in Texts : RequestCipher(api, text)
  <2>1. sent \in Nat
    BY DEF TInv, ThreadTypes
  <2>2. \A msg, k : ~Ask(msg, k)
    BY <2>1 DEF Ask
  <2>3. QED
    BY <2>2 DEF RequestHandshake, SetSeed, RequestCipher
<1>13. QED
  BY <1>3, <1>4, <1>5, <1>6, <1>7, <1>8, <1>9, <1>10, <1>11, <1>12
     DEF Next, IncomingThread, ConsumerThread, OutgoingThread, CoreComplex

\* No thread of the node turns in vain on an open connection, for any seeds, texts and
\* bounds and however the reads cut the stream.
THEOREM NothingIsDoneInVain == Spec => StepsAdvance
<1> DEFINE Falls == Running /\ link = "open" /\ link' = "open" /\ sent' = sent
                      /\ seedFreed' = seedFreed => Work' < Work
<1>1. TInv /\ [Next]_vars => [Falls]_vars
  BY WorkFalls
<1> HIDE DEF Falls
<1>2. Spec => [][Falls]_vars
  BY <1>1, TInvAlways, PTL DEF Spec
<1>3. QED
  BY <1>2 DEF StepsAdvance, Falls

=============================================================================
