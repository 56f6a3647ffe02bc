----------------------- MODULE ArticleConsumer_proofs -----------------------
(***************************************************************************)
(* Theorems about the article consumer, for any number of backends,        *)
(* messages and articles and for any set of calls that may fail, unless a  *)
(* theorem says otherwise.                                                 *)
(***************************************************************************)
EXTENDS ArticleConsumer, FiniteSetTheorems, SequenceTheorems, TLAPS

-----------------------------------------------------------------------------
\* Lemmas about sequences.

\* A sequence over a set is one over a larger set.
LEMMA SeqWiden ==
  ASSUME NEW S, NEW T, S \subseteq T, NEW s \in Seq(S)
  PROVE  s \in Seq(T)
<1>1. s \in [1 .. Len(s) -> T]
  <2>1. Len(s) \in Nat /\ s \in [1 .. Len(s) -> S]
    BY LenProperties
  <2>. QED
    BY <2>1
<1>. QED
  BY <1>1, SeqDef, LenProperties

\* A message that was published stays what it is when another one is.
LEMMA AppendKeeps ==
  ASSUME NEW S, NEW s \in Seq(S), NEW e \in S
  PROVE  /\ Append(s, e) \in Seq(S)
         /\ Len(Append(s, e)) = Len(s) + 1
         /\ Append(s, e)[Len(s) + 1] = e
         /\ \A i \in 1 .. Len(s) : Append(s, e)[i] = s[i]
BY AppendProperties

-----------------------------------------------------------------------------
\* Type correctness.

\* What the handler's variables hold at each call: TypeOK alone does not say
\* that an image is attached to an article and an image that exist.  Early
\* are the places where no row of the creation has been inserted.
Early == {"down", "idle", "reject", "lookup", "begin", "insert"}

HandlerOK(b) ==
  /\ pc[b] \in Early => done[b] = 0
  /\ pc[b] \notin {"down", "idle"} => cur[b] # 0
  /\ pc[b] \in {"image", "attach"} =>
       /\ articleID[b] # 0
       /\ done[b] < Len(ImageURLs(Article(b)))
  /\ pc[b] = "attach" => imageID[b] # 0

TypeInv == TypeOK /\ \A b \in Backends : HandlerOK(b)

\* A payload's fields, and the URLs its creation inserts.
LEMMA PayloadFields ==
  ASSUME NEW p \in Payloads
  PROVE  /\ p.title \in Text /\ p.origin \in Text /\ p.viewers \in Nat
         /\ p.main \in Text /\ p.content \in Seq(Text)
         /\ ImageURLs(p) \in Seq(Text)
         /\ Len(ImageURLs(p)) = Len(p.content) + 1
<1>1. /\ p.title \in Text /\ p.origin \in Text /\ p.viewers \in Nat
      /\ p.main \in Text /\ p.content \in Seq(Text)
  BY ConsumerAssumption
<1>2. <<p.main>> \in Seq(Text) /\ Len(<<p.main>>) = 1
  BY <1>1
<1>3. ImageURLs(p) \in Seq(Text) /\ Len(ImageURLs(p)) = Len(p.content) + 1
  BY <1>1, <1>2, ConcatProperties DEF ImageURLs
<1>. QED
  BY <1>1, <1>3

LEMMA InitTypeInv == Init => TypeInv
BY DEF Init, StreamInit, StoreInit, TypeInv, TypeOK, StreamTypeOK, StoreTypeOK,
       HandlerOK, AckPending, PCs, Early

\* What every step keeps of the stream and of the tables: nothing that was
\* delivered changes, and no row goes away.
StreamGrows ==
  /\ delivered <= delivered'
  /\ \A s \in 1 .. delivered : s \in DOMAIN stream /\ stream'[s] = stream[s]

StoreGrows ==
  /\ Len(articles) <= Len(articles')
  /\ Len(images) <= Len(images')

LEMMA StreamPublishType ==
  ASSUME StreamTypeOK, NEW p \in Payloads, StreamPublish(p)
  PROVE  StreamTypeOK' /\ StreamGrows
<1>1. /\ stream' \in Seq(Payloads)
      /\ Len(stream') = Len(stream) + 1
      /\ \A i \in 1 .. Len(stream) : stream'[i] = stream[i]
  BY AppendKeeps DEF StreamTypeOK, StreamPublish
<1>. QED
  BY <1>1, LenProperties DEF StreamTypeOK, StreamPublish, StreamGrows, AckPending

LEMMA DeliverNewType ==
  ASSUME StreamTypeOK, NEW b \in Backends, DeliverNew(b)
  PROVE  StreamTypeOK' /\ StreamGrows
<1>1. /\ delivered \in Nat /\ Len(stream) \in Nat
      /\ delivered' = delivered + 1 /\ delivered' \in 0 .. Len(stream')
  BY LenProperties DEF StreamTypeOK, DeliverNew
<1>2. \A c \in Backends : inbox[c] \in Seq(1 .. delivered')
  <2>. TAKE c \in Backends
  <2>1. inbox[c] \in Seq(1 .. delivered)
    BY DEF StreamTypeOK
  <2>. QED
    BY <1>1, <2>1, SeqWiden
<1>3. inbox' \in [Backends -> Seq(1 .. delivered')]
  <2>1. Append(inbox[b], delivered') \in Seq(1 .. delivered')
    BY <1>1, <1>2, AppendKeeps
  <2>. QED
    BY <1>1, <1>2, <2>1 DEF StreamTypeOK, DeliverNew, Buffer
<1>. QED
  BY <1>1, <1>3, LenProperties
     DEF StreamTypeOK, DeliverNew, StreamGrows, AckPending

LEMMA RedeliverType ==
  ASSUME StreamTypeOK, NEW b \in Backends, NEW s \in expired, Redeliver(b, s)
  PROVE  StreamTypeOK' /\ StreamGrows
<1>1. s \in 1 .. delivered
  BY DEF StreamTypeOK, AckPending
<1>2. inbox' \in [Backends -> Seq(1 .. delivered)]
  <2>1. inbox[b] \in Seq(1 .. delivered)
    BY DEF StreamTypeOK
  <2>2. Append(inbox[b], s) \in Seq(1 .. delivered)
    BY <1>1, <2>1, AppendKeeps
  <2>. QED
    BY <2>2 DEF StreamTypeOK, Redeliver, Buffer
<1>. QED
  BY <1>2, LenProperties DEF StreamTypeOK, Redeliver, StreamGrows, AckPending

LEMMA AckWaitExpiresType ==
  ASSUME StreamTypeOK, NEW s, AckWaitExpires(s)
  PROVE  StreamTypeOK' /\ StreamGrows
BY LenProperties DEF StreamTypeOK, AckWaitExpires, StreamGrows, AckPending

LEMMA RemoveType ==
  ASSUME StreamTypeOK, NEW s \in 1 .. delivered, Remove(s), UNCHANGED inbox
  PROVE  StreamTypeOK' /\ StreamGrows
BY LenProperties DEF StreamTypeOK, Remove, StreamGrows, AckPending

LEMMA UnchangedStreamType ==
  ASSUME StreamTypeOK, UNCHANGED streamVars
  PROVE  StreamTypeOK' /\ StreamGrows
BY LenProperties DEF StreamTypeOK, streamVars, StreamGrows, AckPending

\* A buffer is emptied by a crash, or loses its head to the handler.
LEMMA InboxType ==
  ASSUME StreamTypeOK, NEW b \in Backends, NEW left \in Seq(1 .. delivered),
         inbox' = [inbox EXCEPT ![b] = left],
         UNCHANGED <<stream, acked, delivered, expired>>
  PROVE  StreamTypeOK' /\ StreamGrows
<1>1. inbox' \in [Backends -> Seq(1 .. delivered)]
  BY DEF StreamTypeOK
<1>. QED
  BY <1>1, LenProperties DEF StreamTypeOK, StreamGrows, AckPending

LEMMA UnchangedStoreType ==
  ASSUME StoreTypeOK, UNCHANGED storeVars
  PROVE  StoreTypeOK' /\ StoreGrows
BY LenProperties DEF StoreTypeOK, storeVars, StoreGrows

LEMMA InsertArticleType ==
  ASSUME StoreTypeOK, NEW p \in Payloads, InsertArticle(p)
  PROVE  /\ StoreTypeOK' /\ StoreGrows
         /\ Len(articles') = Len(articles) + 1
         /\ \A id \in DOMAIN articles : articles'[id] = articles[id]
         /\ articles'[Len(articles) + 1].title = p.title
         /\ articles'[Len(articles) + 1].origin = p.origin
         /\ articles'[Len(articles) + 1].viewers = p.viewers
<1>. DEFINE row == [title |-> p.title, origin |-> p.origin, viewers |-> p.viewers]
<1>1. row \in ArticleRow
  BY PayloadFields DEF ArticleRow
<1>2. /\ articles' \in Seq(ArticleRow)
      /\ Len(articles') = Len(articles) + 1
      /\ articles'[Len(articles) + 1] = row
      /\ \A i \in 1 .. Len(articles) : articles'[i] = articles[i]
  BY <1>1, AppendKeeps DEF StoreTypeOK, InsertArticle
<1>3. DOMAIN articles = 1 .. Len(articles) /\ DOMAIN articles' = 1 .. Len(articles')
  BY <1>2, LenProperties DEF StoreTypeOK
<1>. QED
  BY <1>2, <1>3, LenProperties DEF StoreTypeOK, InsertArticle, StoreGrows

LEMMA InsertImageType ==
  ASSUME StoreTypeOK, NEW url \in Text, InsertImage(url)
  PROVE  StoreTypeOK' /\ StoreGrows /\ Len(images') = Len(images) + 1
<1>1. /\ images' \in Seq(Text)
      /\ Len(images') = Len(images) + 1
  BY AppendKeeps DEF StoreTypeOK, InsertImage
<1>2. DOMAIN images = 1 .. Len(images) /\ DOMAIN images' = 1 .. Len(images')
  BY <1>1, LenProperties DEF StoreTypeOK
<1>. QED
  BY <1>1, <1>2, LenProperties DEF StoreTypeOK, InsertImage, StoreGrows

LEMMA InsertAttachmentType ==
  ASSUME StoreTypeOK, NEW id \in DOMAIN articles, NEW i \in DOMAIN images,
         NEW main \in BOOLEAN, InsertAttachment(id, i, main)
  PROVE  StoreTypeOK' /\ StoreGrows
BY LenProperties DEF StoreTypeOK, InsertAttachment, StoreGrows

LEMMA SetViewersType ==
  ASSUME StoreTypeOK, NEW id, NEW n \in Nat, SetViewers(id, n)
  PROVE  /\ StoreTypeOK' /\ StoreGrows
         /\ DOMAIN articles' = DOMAIN articles
         /\ \A j \in DOMAIN articles : /\ articles'[j].title = articles[j].title
                                       /\ articles'[j].origin = articles[j].origin
                                       /\ j # id => articles'[j] = articles[j]
         /\ id \in DOMAIN articles => articles'[id].viewers = n
<1>1. DOMAIN articles = 1 .. Len(articles) /\ Len(articles) \in Nat
      /\ articles \in [1 .. Len(articles) -> ArticleRow]
  BY LenProperties DEF StoreTypeOK
<1>2. CASE id \notin DOMAIN articles
  BY <1>1, <1>2 DEF SetViewers, StoreTypeOK, StoreGrows
<1>3. CASE id \in DOMAIN articles
  <2>1. articles' = [articles EXCEPT ![id].viewers = n]
    BY <1>3 DEF SetViewers
  <2>2. articles' \in [1 .. Len(articles) -> ArticleRow]
    BY <1>1, <2>1, <1>3 DEF ArticleRow
  <2>3. articles' \in Seq(ArticleRow) /\ Len(articles') = Len(articles)
    <3>1. articles' \in Seq(ArticleRow)
      BY <1>1, <2>2, SeqDef
    <3>. QED
      BY <1>1, <2>2, <3>1, LenProperties
  <2>. QED
    BY <1>1, <1>3, <2>1, <2>2, <2>3
       DEF StoreTypeOK, SetViewers, StoreGrows, ArticleRow
<1>. QED
  BY <1>2, <1>3

\* The article in a handler's hands is one that was published.
LEMMA ArticleInHand ==
  ASSUME TypeInv, NEW b \in Backends, cur[b] # 0
  PROVE  /\ cur[b] \in 1 .. delivered
         /\ cur[b] \in DOMAIN stream
         /\ Article(b) \in Payloads
<1>1. cur[b] \in 1 .. delivered /\ delivered \in 0 .. Len(stream)
  BY DEF TypeInv, TypeOK, StreamTypeOK
<1>. QED
  BY <1>1, LenProperties DEF TypeInv, TypeOK, StreamTypeOK, Article

\* A handler that does not move keeps what HandlerOK says of it.
LEMMA HandlerKept ==
  ASSUME TypeInv, StreamGrows, NEW b \in Backends,
         UNCHANGED <<pc[b], cur[b], articleID[b], imageID[b], done[b]>>
  PROVE  HandlerOK(b)'
<1>1. cur[b] # 0 => Article(b)' = Article(b)
  BY ArticleInHand DEF StreamGrows, Article
<1>2. pc[b] \in {"image", "attach"} => cur[b] # 0
  BY DEF TypeInv, HandlerOK
<1>. QED
  BY <1>1, <1>2 DEF TypeInv, HandlerOK, ImageURLs

\* An id stays in range when rows are added, and so does one that is new.
LEMMA RangeWiden ==
  ASSUME NEW S, NEW m \in Nat, NEW n \in Nat, m <= n, NEW f \in [S -> 0 .. m]
  PROVE  /\ f \in [S -> 0 .. n]
         /\ \A x \in S, i \in 0 .. n : [f EXCEPT ![x] = i] \in [S -> 0 .. n]
<1>1. \A i \in 0 .. m : i \in 0 .. n
  OBVIOUS
<1>2. f \in [S -> 0 .. n]
  BY <1>1
<1>. QED
  BY <1>2

LEMMA LengthsGrow ==
  ASSUME TypeInv, StreamTypeOK', StreamGrows, StoreTypeOK', StoreGrows
  PROVE  /\ delivered \in Nat /\ delivered' \in Nat /\ delivered <= delivered'
         /\ Len(articles) \in Nat /\ Len(articles') \in Nat
         /\ Len(images) \in Nat /\ Len(images') \in Nat
         /\ Len(articles) <= Len(articles') /\ Len(images) <= Len(images')
BY LenProperties DEF TypeInv, TypeOK, StreamTypeOK, StoreTypeOK, StreamGrows, StoreGrows

\* No handler moves: the stream and the tables may.
LEMMA HandlersStay ==
  ASSUME TypeInv, StreamTypeOK', StreamGrows, StoreTypeOK', StoreGrows,
         UNCHANGED handlerVars
  PROVE  TypeInv'
<1>1. TypeOK'
  <2>1. /\ cur \in [Backends -> 0 .. delivered] /\ articleID \in [Backends -> 0 .. Len(articles)]
        /\ imageID \in [Backends -> 0 .. Len(images)]
        /\ UNCHANGED <<pc, cur, articleID, imageID, done>>
    BY DEF TypeInv, TypeOK, handlerVars
  <2>2. /\ cur \in [Backends -> 0 .. delivered'] /\ articleID \in [Backends -> 0 .. Len(articles')]
        /\ imageID \in [Backends -> 0 .. Len(images')]
    BY <2>1, LengthsGrow, RangeWiden
  <2>. QED
    BY <2>1, <2>2 DEF TypeInv, TypeOK
<1>2. \A b \in Backends : HandlerOK(b)'
  BY HandlerKept DEF handlerVars
<1>. QED
  BY <1>1, <1>2 DEF TypeInv

\* The handler of b moves, the others do not.
LEMMA HandlerMoves ==
  ASSUME TypeInv, StreamTypeOK', StreamGrows, StoreTypeOK', StoreGrows,
         NEW b \in Backends,
         NEW there \in PCs, NEW s \in 0 .. delivered',
         NEW id \in 0 .. Len(articles'), NEW i \in 0 .. Len(images'),
         NEW n \in Nat,
         pc' = [pc EXCEPT ![b] = there], cur' = [cur EXCEPT ![b] = s],
         articleID' = [articleID EXCEPT ![b] = id],
         imageID' = [imageID EXCEPT ![b] = i], done' = [done EXCEPT ![b] = n],
         HandlerOK(b)'
  PROVE  TypeInv'
<1>1. TypeOK'
  <2>1. /\ cur \in [Backends -> 0 .. delivered] /\ articleID \in [Backends -> 0 .. Len(articles)]
        /\ imageID \in [Backends -> 0 .. Len(images)]
    BY DEF TypeInv, TypeOK
  <2>2. pc' \in [Backends -> PCs] /\ done' \in [Backends -> Nat]
    BY DEF TypeInv, TypeOK
  <2>3. cur' \in [Backends -> 0 .. delivered']
    BY <2>1, LengthsGrow, RangeWiden
  <2>4. articleID' \in [Backends -> 0 .. Len(articles')]
    BY <2>1, LengthsGrow, RangeWiden
  <2>5. imageID' \in [Backends -> 0 .. Len(images')]
    BY <2>1, LengthsGrow, RangeWiden
  <2>. QED
    BY <2>2, <2>3, <2>4, <2>5 DEF TypeOK
<1>2. \A c \in Backends : HandlerOK(c)'
  <2>1. \A c \in Backends \ {b} :
          UNCHANGED <<pc[c], cur[c], articleID[c], imageID[c], done[c]>>
    BY DEF TypeInv, TypeOK
  <2>. QED
    BY <2>1, HandlerKept
<1>. QED
  BY <1>1, <1>2 DEF TypeInv

\* The handler of b returns, or its process dies.
LEMMA HandlerReturns ==
  ASSUME TypeInv, StreamTypeOK', StreamGrows, StoreTypeOK', StoreGrows,
         NEW b \in Backends, NEW there \in {"down", "idle"}, Return(b, there)
  PROVE  TypeInv'
<1>1. /\ 0 \in 0 .. delivered' /\ 0 \in 0 .. Len(articles') /\ 0 \in 0 .. Len(images')
      /\ there \in PCs
  BY LenProperties DEF StreamTypeOK, StoreTypeOK, PCs
<1>2. pc'[b] = there
  BY DEF Return, Goto, TypeInv, TypeOK
<1>3. HandlerOK(b)'
  BY <1>2 DEF HandlerOK, Return, TypeInv, TypeOK
<1>. QED
  BY <1>1, <1>3, HandlerMoves DEF Return, Goto

\* The values that are in range whatever the handler does.
LEMMA Ranges ==
  ASSUME TypeInv, NEW b \in Backends
  PROVE  /\ pc[b] \in PCs
         /\ cur[b] \in 0 .. delivered
         /\ articleID[b] \in 0 .. Len(articles) /\ Len(articles) \in Nat
         /\ imageID[b] \in 0 .. Len(images) /\ Len(images) \in Nat
         /\ done[b] \in Nat
         /\ DOMAIN articles = 1 .. Len(articles) /\ DOMAIN images = 1 .. Len(images)
BY LenProperties DEF TypeInv, TypeOK, StreamTypeOK, StoreTypeOK

\* A step that moves only the program counter, to a call that needs no
\* article, image or message more than the one before it.
LEMMA HandlerGoes ==
  ASSUME TypeInv, StreamTypeOK', StreamGrows, StoreTypeOK', StoreGrows,
         NEW b \in Backends, pc[b] \notin {"down", "idle"},
         NEW there \in PCs \ {"image", "attach"}, Goto(b, there),
         there \in Early => pc[b] \in Early,
         UNCHANGED <<cur, imageID, done>>,
         NEW id \in 0 .. Len(articles'), articleID' = [articleID EXCEPT ![b] = id]
  PROVE  TypeInv'
<1>1. HandlerOK(b)'
  <2>1. cur[b] # 0
    BY DEF TypeInv, HandlerOK
  <2>. QED
    BY <2>1 DEF HandlerOK, Goto, TypeInv, TypeOK
<1>2. /\ cur[b] \in 0 .. delivered' /\ imageID[b] \in 0 .. Len(images')
      /\ done[b] \in Nat
  <2>1. /\ delivered \in Nat /\ delivered' \in Nat /\ delivered <= delivered'
        /\ Len(images') \in Nat /\ Len(images) <= Len(images')
    BY LenProperties
       DEF TypeInv, TypeOK, StreamGrows, StoreGrows, StreamTypeOK, StoreTypeOK
  <2>. QED
    BY <2>1, Ranges
<1>3. /\ cur' = [cur EXCEPT ![b] = cur[b]]
      /\ imageID' = [imageID EXCEPT ![b] = imageID[b]]
      /\ done' = [done EXCEPT ![b] = done[b]]
  BY DEF TypeInv, TypeOK
<1>. QED
  BY <1>1, <1>2, <1>3, HandlerMoves DEF Goto

\* The steps of a handler that change no table.
LEMMA QuietStepTypeInv ==
  ASSUME TypeInv, NEW b \in Backends,
         \/ Receive(b) \/ Reject(b) \/ RejectAckLost(b)
         \/ GetArticleIDByTitleAndOrigin(b) \/ LookupFails(b)
         \/ Begin(b) \/ BeginFails(b)
         \/ EndTransaction(b) \/ EndTransactionFails(b)
         \/ Ack(b) \/ AckLost(b) \/ Crash(b) \/ Start(b)
  PROVE  TypeInv'
<1>. USE DEF TypeInv, TypeOK
<1>1. UNCHANGED storeVars => StoreTypeOK' /\ StoreGrows /\ Len(articles') = Len(articles)
  BY UnchangedStoreType DEF storeVars
<1>2. UNCHANGED streamVars => StreamTypeOK' /\ StreamGrows
  BY UnchangedStreamType
<1>3. articleID' = articleID => articleID' = [articleID EXCEPT ![b] = articleID[b]]
  OBVIOUS
<1>4. pc[b] \notin {"down", "idle"} => cur[b] \in 1 .. delivered
  BY ArticleInHand DEF HandlerOK
<1>5. CASE Receive(b)
  <2>. DEFINE s == Head(inbox[b])
              there == IF stream[s].err THEN "reject" ELSE "lookup"
  <2>1. s \in 1 .. delivered /\ Tail(inbox[b]) \in Seq(1 .. delivered)
    BY <1>5, HeadTailProperties DEF Receive, StreamTypeOK
  <2>2. StreamTypeOK' /\ StreamGrows
    BY <1>5, <2>1, InboxType DEF Receive
  <2>3. HandlerOK(b)'
    BY <1>5, <2>1 DEF Receive, HandlerOK, Goto, At, Early
  <2>4. /\ pc' = [pc EXCEPT ![b] = there] /\ cur' = [cur EXCEPT ![b] = s]
        /\ articleID' = [articleID EXCEPT ![b] = articleID[b]]
        /\ imageID' = [imageID EXCEPT ![b] = imageID[b]]
        /\ done' = [done EXCEPT ![b] = done[b]]
        /\ UNCHANGED <<storeVars, delivered>>
    BY <1>5 DEF Receive, Goto
  <2>5. /\ there \in PCs /\ s \in 0 .. delivered' /\ done[b] \in Nat
        /\ articleID[b] \in 0 .. Len(articles') /\ imageID[b] \in 0 .. Len(images')
    BY <2>1, <2>4, Ranges DEF PCs, storeVars
  <2>. QED
    BY <1>1, <2>2, <2>3, <2>4, <2>5, HandlerMoves
<1>6. CASE Reject(b) \/ RejectAckLost(b)
  <2>1. StreamTypeOK' /\ StreamGrows
    BY <1>2, <1>4, <1>6, RemoveType DEF Reject, RejectAckLost, At
  <2>. QED
    BY <1>1, <1>3, <1>6, <2>1, HandlerGoes, Ranges
       DEF Reject, RejectAckLost, At, PCs, Early
<1>7. CASE GetArticleIDByTitleAndOrigin(b)
  <2>1. PICK id \in 0 .. Len(articles), there \in {"begin", "update"} :
          articleID' = [articleID EXCEPT ![b] = id] /\ Goto(b, there)
    <3>1. CASE Goto(b, "begin") /\ UNCHANGED articleID
      BY <1>3, <3>1, Ranges
    <3>2. CASE \E id \in MatchingIDs(Article(b).title, Article(b).origin) :
                 /\ articleID' = [articleID EXCEPT ![b] = id]
                 /\ Goto(b, "update")
      <4>1. MatchingIDs(Article(b).title, Article(b).origin)
              \subseteq 0 .. Len(articles)
        BY Ranges DEF MatchingIDs
      <4>. QED
        BY <3>2, <4>1
    <3>. QED
      BY <1>7, <3>1, <3>2 DEF GetArticleIDByTitleAndOrigin
  <2>. QED
    BY <1>1, <1>2, <1>7, <2>1, HandlerGoes
       DEF GetArticleIDByTitleAndOrigin, At, PCs, Early
<1>8. CASE LookupFails(b) \/ AckLost(b)
  BY <1>1, <1>2, <1>8, HandlerReturns DEF LookupFails, AckLost
<1>9. CASE Begin(b) \/ BeginFails(b) \/ EndTransaction(b)
  BY <1>1, <1>2, <1>3, <1>9, HandlerGoes, Ranges
     DEF Begin, BeginFails, EndTransaction, At, PCs, Early
<1>10. CASE EndTransactionFails(b)
  <2>1. 0 \in 0 .. Len(articles')
    BY <1>1, <1>10, Ranges DEF EndTransactionFails
  <2>. QED
    BY <1>1, <1>2, <1>10, <2>1, HandlerGoes DEF EndTransactionFails, PCs, Early
<1>11. CASE Ack(b)
  <2>1. StreamTypeOK' /\ StreamGrows
    BY <1>4, <1>11, RemoveType DEF Ack, At
  <2>. QED
    BY <1>1, <1>11, <2>1, HandlerReturns DEF Ack
<1>12. CASE Crash(b)
  <2>1. <<>> \in Seq(1 .. delivered)
    OBVIOUS
  <2>2. StreamTypeOK' /\ StreamGrows
    BY <1>12, <2>1, InboxType DEF Crash
  <2>. QED
    BY <1>1, <1>12, <2>2, HandlerReturns DEF Crash
<1>13. CASE Start(b)
  <2>1. HandlerOK(b)'
    BY <1>13 DEF Start, HandlerOK, Goto, At, Early
  <2>2. /\ pc' = [pc EXCEPT ![b] = "idle"] /\ cur' = [cur EXCEPT ![b] = cur[b]]
        /\ articleID' = [articleID EXCEPT ![b] = articleID[b]]
        /\ imageID' = [imageID EXCEPT ![b] = imageID[b]]
        /\ done' = [done EXCEPT ![b] = done[b]]
        /\ UNCHANGED <<streamVars, storeVars>>
    BY <1>13 DEF Start, Goto
  <2>3. /\ "idle" \in PCs /\ cur[b] \in 0 .. delivered' /\ done[b] \in Nat
        /\ articleID[b] \in 0 .. Len(articles') /\ imageID[b] \in 0 .. Len(images')
    BY <2>2, Ranges DEF PCs, storeVars, streamVars
  <2>. QED
    BY <1>1, <1>2, <2>1, <2>2, <2>3, HandlerMoves
<1>. QED
  BY <1>5, <1>6, <1>7, <1>8, <1>9, <1>10, <1>11, <1>12, <1>13

\* The steps of a handler that may change a table.
LEMMA TableStepTypeInv ==
  ASSUME TypeInv, NEW b \in Backends,
         \/ NewArticle(b) \/ NewArticleFails(b)
         \/ NewImage(b) \/ NewImageFails(b)
         \/ AttachArticleImage(b) \/ AttachArticleImageFails(b)
         \/ UpdateArticleStats(b) \/ UpdateFails(b)
  PROVE  TypeInv'
<1>0. /\ StreamTypeOK /\ StoreTypeOK /\ HandlerOK(b)
      /\ b \in DOMAIN pc /\ b \in DOMAIN cur /\ b \in DOMAIN articleID
      /\ b \in DOMAIN imageID /\ b \in DOMAIN done
  BY DEF TypeInv, TypeOK
<1>1. /\ pc[b] \in PCs /\ cur[b] # 0
      /\ cur[b] \in 0 .. delivered /\ Article(b) \in Payloads
      /\ Article(b).viewers \in Nat
  <2>1. pc[b] \in PCs /\ cur[b] # 0 /\ cur[b] \in 0 .. delivered
    BY <1>0, Ranges DEF HandlerOK, At, NewArticle, NewArticleFails, NewImage, NewImageFails,
       AttachArticleImage, AttachArticleImageFails, UpdateArticleStats, UpdateFails
  <2>. QED
    BY <2>1, ArticleInHand, PayloadFields
<1>2. /\ streamVars' = streamVars /\ StreamTypeOK' /\ StreamGrows /\ delivered' = delivered
      /\ cur' = cur => Article(b)' = Article(b)
  BY <1>0, UnchangedStreamType
     DEF NewArticle, NewArticleFails, NewImage, NewImageFails, AttachArticleImage,
         AttachArticleImageFails, UpdateArticleStats, UpdateFails, streamVars, Article
<1>3. UNCHANGED storeVars => StoreTypeOK' /\ StoreGrows
  BY <1>0, UnchangedStoreType
<1>4. /\ cur[b] \in 0 .. delivered' /\ done[b] \in Nat
      /\ Len(ImageURLs(Article(b))) \in Nat \ {0}
  <2>1. /\ Len(ImageURLs(Article(b))) = Len(Article(b).content) + 1
        /\ Len(Article(b).content) \in Nat
    BY <1>1, PayloadFields, LenProperties
  <2>. QED
    BY <1>1, <1>2, <2>1, Ranges
<1>5. /\ articleID' = articleID => articleID' = [articleID EXCEPT ![b] = articleID[b]]
      /\ imageID' = imageID => imageID' = [imageID EXCEPT ![b] = imageID[b]]
      /\ cur' = cur => cur' = [cur EXCEPT ![b] = cur[b]]
      /\ done' = done => done' = [done EXCEPT ![b] = done[b]]
  BY DEF TypeInv, TypeOK
<1>6. StoreTypeOK' /\ StoreGrows =>
        /\ articleID[b] \in 0 .. Len(articles') /\ imageID[b] \in 0 .. Len(images')
        /\ Len(articles') \in Nat /\ Len(images') \in Nat
  BY Ranges, LenProperties DEF StoreTypeOK, StoreGrows
<1>7. pc[b] \in {"image", "attach"} =>
        /\ articleID[b] \in DOMAIN articles
        /\ ImageURLs(Article(b))[done[b] + 1] \in Text
  <2>1. pc[b] \in {"image", "attach"} => done[b] + 1 \in 1 .. Len(ImageURLs(Article(b)))
    BY <1>0, <1>4 DEF HandlerOK
  <2>. QED
    BY <1>0, <1>1, <2>1, Ranges, PayloadFields, ElementOfSeq DEF HandlerOK
<1>8. CASE NewArticle(b)
  <2>1. StoreTypeOK' /\ StoreGrows /\ Len(articles') = Len(articles) + 1
    BY <1>0, <1>1, <1>8, InsertArticleType DEF NewArticle
  <2>2. /\ pc' = [pc EXCEPT ![b] = "image"] /\ "image" \in PCs
        /\ articleID' = [articleID EXCEPT ![b] = Len(articles) + 1]
        /\ Len(articles) + 1 \in 0 .. Len(articles') /\ Len(articles) + 1 # 0
        /\ UNCHANGED <<cur, imageID, done>>
    BY <1>8, <2>1, Ranges DEF NewArticle, Goto, PCs
  <2>3. HandlerOK(b)'
    BY <1>0, <1>1, <1>2, <1>4, <1>8, <2>2
       DEF NewArticle, HandlerOK, At, Early, ImageURLs
  <2>. QED
    BY <1>2, <1>4, <1>5, <1>6, <2>1, <2>2, <2>3, HandlerMoves
<1>9. CASE NewImage(b)
  <2>1. StoreTypeOK' /\ StoreGrows /\ Len(images') = Len(images) + 1
    BY <1>0, <1>7, <1>9, InsertImageType DEF NewImage, At
  <2>2. /\ pc' = [pc EXCEPT ![b] = "attach"] /\ "attach" \in PCs
        /\ imageID' = [imageID EXCEPT ![b] = Len(images) + 1]
        /\ Len(images) + 1 \in 0 .. Len(images') /\ Len(images) + 1 # 0
        /\ UNCHANGED <<cur, articleID, done>>
    BY <1>9, <2>1, Ranges DEF NewImage, Goto, PCs
  <2>3. HandlerOK(b)'
    <3>1. /\ pc'[b] = "attach" /\ cur'[b] = cur[b] /\ articleID'[b] = articleID[b]
          /\ imageID'[b] # 0 /\ done'[b] = done[b] /\ Article(b)' = Article(b)
      BY <1>0, <1>2, <2>2
    <3>2. articleID[b] # 0 /\ done[b] < Len(ImageURLs(Article(b)))
      BY <1>0, <1>9 DEF NewImage, HandlerOK, At
    <3>. QED
      BY <1>1, <3>1, <3>2 DEF HandlerOK, Early, ImageURLs
  <2>. QED
    BY <1>2, <1>4, <1>5, <1>6, <2>1, <2>2, <2>3, HandlerMoves
<1>10. CASE AttachArticleImage(b)
  <2>. DEFINE there == IF done[b] + 1 < Len(ImageURLs(Article(b)))
                       THEN "image" ELSE "commit"
  <2>1. imageID[b] \in DOMAIN images
    BY <1>0, <1>10, Ranges DEF AttachArticleImage, HandlerOK, At
  <2>2. StoreTypeOK' /\ StoreGrows
    BY <1>0, <1>7, <1>10, <2>1, InsertAttachmentType DEF AttachArticleImage, At
  <2>3. /\ pc' = [pc EXCEPT ![b] = there] /\ there \in PCs
        /\ done' = [done EXCEPT ![b] = done[b] + 1] /\ done[b] + 1 \in Nat
        /\ UNCHANGED <<cur, articleID, imageID>>
    BY <1>10, Ranges DEF AttachArticleImage, Goto, PCs
  <2>4. HandlerOK(b)'
    <3>1. /\ pc'[b] = there /\ cur'[b] = cur[b] /\ articleID'[b] = articleID[b]
          /\ imageID'[b] = imageID[b] /\ done'[b] = done[b] + 1
          /\ Article(b)' = Article(b)
      BY <1>0, <1>2, <2>3
    <3>2. articleID[b] # 0
      BY <1>0, <1>10 DEF AttachArticleImage, HandlerOK, At
    <3>. QED
      BY <1>1, <3>1, <3>2 DEF HandlerOK, Early, ImageURLs
  <2>. QED
    BY <1>2, <1>4, <1>5, <1>6, <2>2, <2>3, <2>4, HandlerMoves
<1>11. CASE NewArticleFails(b) \/ NewImageFails(b) \/ AttachArticleImageFails(b)
  <2>1. StoreTypeOK' /\ StoreGrows
    <3>1. CASE NewArticleFails(b)
      BY <1>0, <1>1, <1>3, <3>1, InsertArticleType DEF NewArticleFails
    <3>2. CASE NewImageFails(b)
      BY <1>0, <1>3, <1>7, <3>2, InsertImageType DEF NewImageFails, At
    <3>3. CASE AttachArticleImageFails(b)
      <4>1. imageID[b] \in DOMAIN images
        BY <1>0, <3>3, Ranges DEF AttachArticleImageFails, HandlerOK, At
      <4>. QED
        BY <1>0, <1>3, <1>7, <3>3, <4>1, InsertAttachmentType
           DEF AttachArticleImageFails, At
    <3>. QED
      BY <1>11, <3>1, <3>2, <3>3
  <2>. QED
    BY <1>2, <1>5, <1>6, <1>11, <2>1, HandlerGoes
       DEF NewArticleFails, NewImageFails, AttachArticleImageFails, At, PCs, Early
<1>12. ASSUME SetViewers(articleID[b], Article(b).viewers) \/ UNCHANGED storeVars
       PROVE  StoreTypeOK' /\ StoreGrows
  BY <1>0, <1>1, <1>3, <1>12, SetViewersType
<1>13. CASE UpdateArticleStats(b)
  BY <1>2, <1>5, <1>6, <1>12, <1>13, HandlerGoes
     DEF UpdateArticleStats, At, PCs, Early
<1>14. CASE UpdateFails(b)
  BY <1>2, <1>12, <1>14, HandlerReturns DEF UpdateFails
<1>. QED
  BY <1>8, <1>9, <1>10, <1>11, <1>13, <1>14

LEMMA NextTypeInv == TypeInv /\ [Next]_vars => TypeInv'
<1>. SUFFICES ASSUME TypeInv, [Next]_vars
              PROVE  TypeInv'
  OBVIOUS
<1>. USE DEF TypeInv, TypeOK
<1>1. UNCHANGED storeVars => StoreTypeOK' /\ StoreGrows
  BY UnchangedStoreType
<1>2. ASSUME NEW p \in Payloads, Publish(p)
      PROVE  TypeInv'
  BY <1>1, <1>2, StreamPublishType, HandlersStay DEF Publish
<1>3. ASSUME NEW s, Expire(s)
      PROVE  TypeInv'
  BY <1>1, <1>3, AckWaitExpiresType, HandlersStay DEF Expire
<1>4. ASSUME NEW b \in Backends, Deliver(b)
      PROVE  TypeInv'
  BY <1>1, <1>4, DeliverNewType, RedeliverType, HandlersStay DEF Deliver
<1>5. CASE UNCHANGED vars
  BY <1>1, <1>5, UnchangedStreamType, HandlersStay DEF vars
<1>. QED
  BY <1>2, <1>3, <1>4, <1>5, QuietStepTypeInv, TableStepTypeInv
     DEF Next, HandlerStep, FailureStep

\* The variables keep their types: in particular no attachment names an
\* article or an image that is not there, whatever fails half way.
THEOREM TypeCorrect == Spec => []TypeOK
<1>1. TypeInv => TypeOK
  BY DEF TypeInv
<1>. QED
  BY <1>1, InitTypeInv, NextTypeInv, PTL DEF Spec

-----------------------------------------------------------------------------
(***************************************************************************)
(* The images of an article while it is created, by any number of          *)
(* backends, whatever fails: an article with images has exactly one main   *)
(* image (MainImageFirst), and creations that stop half way leave one      *)
(* image row each at most (OneOrphanPerCreation).                          *)
(*                                                                         *)
(* MainImageFirst is not inductive, because a handler that attaches a      *)
(* second main image would break it.  It needs that every article under    *)
(* creation has one creator, and what each creation has attached so far.   *)
(***************************************************************************)

Creating(b) == pc[b] \in {"image", "attach"}

\* The first image a creator attaches is the main one and finds no other.
MainGoesFirst(b) ==
  Creating(b) => IF done[b] = 0 THEN ImagesOf(articleID[b]) = {}
                                ELSE ImagesOf(articleID[b]) # {}

OneCreator ==
  \A b, c \in Backends :
    Creating(b) /\ Creating(c) /\ articleID[b] = articleID[c] => b = c

ImagesInv ==
  /\ TypeInv
  /\ OneCreator
  /\ \A b \in Backends : MainGoesFirst(b)
  /\ MainImageFirst

\* The steps that leave the attachments alone, and move no handler into the
\* creation of another article.
LEMMA QuietImages ==
  ASSUME ImagesInv, TypeInv', UNCHANGED article_images,
         DOMAIN articles \subseteq DOMAIN articles',
         \A b \in Backends : Creating(b)' =>
           Creating(b) /\ articleID'[b] = articleID[b] /\ done'[b] = done[b]
  PROVE  ImagesInv'
<1>1. \A id : ImagesOf(id)' = ImagesOf(id)
  BY DEF ImagesOf
<1>2. OneCreator' /\ \A b \in Backends : MainGoesFirst(b)'
  BY <1>1 DEF ImagesInv, OneCreator, MainGoesFirst
<1>3. MainImageFirst'
  <2>1. \A id : id \notin DOMAIN articles => ImagesOf(id) = {}
    BY DEF ImagesInv, TypeInv, TypeOK, StoreTypeOK, ImagesOf
  <2>. QED
    BY <1>1, <2>1 DEF ImagesInv, MainImageFirst
<1>. QED
  BY <1>2, <1>3 DEF ImagesInv

\* An attachment: to the article of its creator, main if it is the first.
LEMMA AttachImages ==
  ASSUME ImagesInv, TypeInv', NEW b \in Backends, pc[b] = "attach",
         InsertAttachment(articleID[b], imageID[b], done[b] = 0),
         \A c \in Backends \ {b} :
           UNCHANGED <<pc[c], articleID[c], done[c]>>,
         articleID'[b] = articleID[b],
         Creating(b)' => done'[b] # 0
  PROVE  ImagesInv'
<1>. DEFINE id == articleID[b]
            new == [article |-> id, image |-> imageID[b], main |-> (done[b] = 0)]
<1>1. /\ article_images' = article_images \cup {new}
      /\ UNCHANGED <<articles, images>>
  BY DEF InsertAttachment
<1>2. /\ ImagesOf(id)' = ImagesOf(id) \cup {new}
      /\ \A j : j # id => ImagesOf(j)' = ImagesOf(j)
  BY <1>1 DEF ImagesOf
<1>3. Creating(b) /\ id \in DOMAIN articles
  <2>1. id # 0 /\ id \in 0 .. Len(articles) /\ DOMAIN articles = 1 .. Len(articles)
        /\ Len(articles) \in Nat
    BY Ranges DEF ImagesInv, TypeInv, HandlerOK
  <2>. QED
    BY <2>1 DEF Creating
<1>4. OneCreator'
  BY <1>3 DEF ImagesInv, OneCreator, Creating
<1>5. \A c \in Backends : MainGoesFirst(c)'
  <2>1. MainGoesFirst(b)'
    BY <1>2 DEF MainGoesFirst
  <2>2. ASSUME NEW c \in Backends, c # b
        PROVE  MainGoesFirst(c)'
    <3>1. Creating(c)' => Creating(c) /\ articleID[c] # id
      BY <1>3, <2>2 DEF ImagesInv, OneCreator, Creating
    <3>. QED
      BY <1>2, <2>2, <3>1 DEF ImagesInv, MainGoesFirst
  <2>. QED
    BY <2>1, <2>2
<1>6. MainImageFirst'
  <2>1. CASE done[b] = 0
    <3>1. ImagesOf(id)' = {new} /\ new.main
      BY <1>2, <1>3, <2>1 DEF ImagesInv, MainGoesFirst
    <3>. QED
      BY <1>1, <1>2, <3>1 DEF ImagesInv, MainImageFirst
  <2>2. CASE done[b] # 0
    <3>1. ~new.main /\ ImagesOf(id) # {}
      BY <1>3, <2>2 DEF ImagesInv, MainGoesFirst
    <3>2. PICK first \in ImagesOf(id) : \A r \in ImagesOf(id) : r.main <=> r = first
      BY <1>3, <3>1 DEF ImagesInv, MainImageFirst
    <3>3. first # new
      BY <3>1, <3>2
    <3>. QED
      BY <1>1, <1>2, <3>1, <3>2, <3>3 DEF ImagesInv, MainImageFirst
  <2>. QED
    BY <2>1, <2>2
<1>. QED
  BY <1>4, <1>5, <1>6 DEF ImagesInv

\* A new article: it has no image, and no other handler creates it.
LEMMA NewArticleImages ==
  ASSUME ImagesInv, TypeInv', NEW b \in Backends, NewArticle(b)
  PROVE  ImagesInv'
<1>. DEFINE id == Len(articles) + 1
<1>0. TypeInv
  BY DEF ImagesInv
<1>1. /\ Len(articles) \in Nat /\ DOMAIN articles = 1 .. Len(articles)
      /\ DOMAIN articles' = 1 .. Len(articles) + 1
      /\ \A c \in Backends : articleID[c] \in 0 .. Len(articles)
  <2>1. Len(articles') = Len(articles) + 1
    BY <1>0, ArticleInHand, InsertArticleType
       DEF NewArticle, At, TypeInv, TypeOK, HandlerOK
  <2>2. DOMAIN articles' = 1 .. Len(articles')
    BY LenProperties DEF TypeInv, TypeOK, StoreTypeOK
  <2>. QED
    BY <1>0, <2>1, <2>2, Ranges
<1>2. /\ \A c \in Backends \ {b} : UNCHANGED <<pc[c], articleID[c], done[c]>>
      /\ articleID'[b] = id /\ done'[b] = 0 /\ UNCHANGED article_images
  BY <1>0 DEF NewArticle, InsertArticle, Goto, At, TypeInv, TypeOK, HandlerOK, Early
<1>3. \A j : ImagesOf(j)' = ImagesOf(j)
  BY <1>2 DEF ImagesOf
<1>4. ImagesOf(id) = {}
  BY <1>0, <1>1 DEF TypeInv, TypeOK, StoreTypeOK, ImagesOf
<1>5. OneCreator'
  <2>1. \A c \in Backends : c # b => articleID'[c] # id
    BY <1>1, <1>2
  <2>. QED
    BY <1>2, <2>1 DEF ImagesInv, OneCreator, Creating
<1>6. \A c \in Backends : MainGoesFirst(c)'
  BY <1>2, <1>3, <1>4 DEF ImagesInv, MainGoesFirst, Creating
<1>7. MainImageFirst'
  BY <1>1, <1>3, <1>4 DEF ImagesInv, MainImageFirst
<1>. QED
  BY <1>5, <1>6, <1>7 DEF ImagesInv

LEMMA ImagesStep ==
  ASSUME ImagesInv, [Next]_vars
  PROVE  ImagesInv'
<1>1. TypeInv /\ TypeInv'
  BY NextTypeInv DEF ImagesInv
<1>2. DOMAIN articles = 1 .. Len(articles) /\ Len(articles) \in Nat
      /\ DOMAIN articles' = 1 .. Len(articles') /\ Len(articles') \in Nat
  BY <1>1, LenProperties DEF TypeInv, TypeOK, StoreTypeOK
<1>3. ASSUME UNCHANGED <<article_images, articles, handlerVars>>
      PROVE  ImagesInv'
  BY <1>1, <1>3, QuietImages DEF handlerVars, Creating
<1>4. ASSUME NEW b \in Backends, HandlerStep(b) \/ FailureStep(b) \/ Start(b)
      PROVE  ImagesInv'
  <2>1. CASE NewArticle(b)
    BY <1>1, <2>1, NewArticleImages
  <2>2. CASE AttachArticleImage(b)
    <3>1. /\ pc[b] = "attach" /\ done'[b] = done[b] + 1 /\ done[b] \in Nat
          /\ articleID' = articleID
          /\ InsertAttachment(articleID[b], imageID[b], done[b] = 0)
          /\ \A c \in Backends \ {b} : UNCHANGED <<pc[c], articleID[c], done[c]>>
      BY <1>1, <2>2 DEF AttachArticleImage, At, Goto, TypeInv, TypeOK
    <3>. QED
      BY <1>1, <3>1, AttachImages
  <2>3. CASE AttachArticleImageFails(b) /\ ~UNCHANGED storeVars
    <3>1. /\ pc[b] = "attach" /\ pc'[b] = "rollback" /\ articleID' = articleID
          /\ InsertAttachment(articleID[b], imageID[b], done[b] = 0)
          /\ \A c \in Backends \ {b} : UNCHANGED <<pc[c], articleID[c], done[c]>>
      BY <1>1, <2>3 DEF AttachArticleImageFails, At, Goto, TypeInv, TypeOK
    <3>. QED
      BY <1>1, <3>1, AttachImages DEF Creating
  <2>4. ASSUME ~NewArticle(b), ~AttachArticleImage(b),
               ~(AttachArticleImageFails(b) /\ ~UNCHANGED storeVars)
        PROVE  ImagesInv'
    <3>1. UNCHANGED article_images
      BY <1>4, <2>4
         DEF HandlerStep, FailureStep, Start, storeVars, Receive, Reject, RejectAckLost,
             GetArticleIDByTitleAndOrigin, LookupFails, Begin, BeginFails,
             NewArticleFails, InsertArticle, NewImage, NewImageFails, InsertImage,
             AttachArticleImageFails, EndTransaction, EndTransactionFails,
             UpdateArticleStats, UpdateFails, SetViewers, Ack, AckLost, Crash
    <3>2. DOMAIN articles \subseteq DOMAIN articles'
      <4>1. CASE UNCHANGED articles
        BY <4>1
      <4>2. CASE UpdateArticleStats(b) \/ UpdateFails(b)
        BY <4>2 DEF UpdateArticleStats, UpdateFails, SetViewers, storeVars
      <4>3. CASE NewArticleFails(b) /\ ~UNCHANGED articles
        <5>1. Len(articles') = Len(articles) + 1
          BY <1>1, <4>3, ArticleInHand, InsertArticleType
             DEF NewArticleFails, At, TypeInv, TypeOK, HandlerOK, storeVars
        <5>. QED
          BY <1>2, <5>1
      <4>. QED
        BY <1>4, <2>4, <4>1, <4>2, <4>3
           DEF HandlerStep, FailureStep, Start, storeVars, Receive, Reject,
               RejectAckLost, GetArticleIDByTitleAndOrigin, LookupFails, Begin,
               BeginFails, NewImage, NewImageFails, InsertImage,
               AttachArticleImageFails, InsertAttachment, EndTransaction,
               EndTransactionFails, Ack, AckLost, Crash
    <3>3. \A c \in Backends : Creating(c)' =>
            Creating(c) /\ articleID'[c] = articleID[c] /\ done'[c] = done[c]
      <4>1. \A c \in Backends \ {b} : UNCHANGED <<pc[c], articleID[c], done[c]>>
        BY <1>1, <1>4
           DEF HandlerStep, FailureStep, Start, Receive, Reject, RejectAckLost,
               GetArticleIDByTitleAndOrigin, LookupFails, Begin, BeginFails, NewArticle,
               NewArticleFails, NewImage, NewImageFails, AttachArticleImage,
               AttachArticleImageFails, EndTransaction, EndTransactionFails,
               UpdateArticleStats, UpdateFails, Ack, AckLost, Crash, Goto, Return,
               TypeInv, TypeOK
      <4>2. CASE NewImage(b)
        BY <1>1, <4>1, <4>2 DEF NewImage, Creating, At
      <4>3. CASE ~NewImage(b)
        <5>1. pc'[b] \notin {"image", "attach"}
          BY <1>1, <1>4, <2>4, <4>3
             DEF HandlerStep, FailureStep, Start, Receive, Reject, RejectAckLost,
                 GetArticleIDByTitleAndOrigin, LookupFails, Begin, BeginFails,
                 NewArticleFails, NewImageFails, AttachArticleImageFails, EndTransaction,
                 EndTransactionFails, UpdateArticleStats, UpdateFails, Ack, AckLost,
                 Crash, Goto, Return, TypeInv, TypeOK
        <5>. QED
          BY <4>1, <5>1 DEF Creating
      <4>. QED
        BY <4>2, <4>3
    <3>. QED
      BY <1>1, <3>1, <3>2, <3>3, QuietImages
  <2>. QED
    BY <2>1, <2>2, <2>3, <2>4
<1>. QED
  BY <1>3, <1>4
     DEF Next, Publish, Expire, Deliver, vars, storeVars

\* At every moment, and after any failure or crash, an article that has any
\* image has exactly one main image, however many backends create articles.
THEOREM OneMainImage == Spec => []MainImageFirst
<1>1. Init => ImagesInv
  BY InitTypeInv
     DEF Init, StoreInit, ImagesInv, OneCreator, MainGoesFirst, Creating, MainImageFirst,
         ImagesOf
<1>2. ImagesInv /\ [Next]_vars => ImagesInv'
  BY ImagesStep
<1>3. ImagesInv => MainImageFirst
  BY DEF ImagesInv
<1>. QED
  BY <1>1, <1>2, <1>3, PTL DEF Spec
-----------------------------------------------------------------------------
(***************************************************************************)
(* Image rows without an article.  A creation has one at most: it is about *)
(* to attach it, or stopped there.  The count alone is not inductive: a    *)
(* handler at NewImage may still leave one, and an attachment must take    *)
(* one away.                                                               *)
(***************************************************************************)
Pending == {b \in Backends : pc[b] = "image"}
Attaching(b) == pc[b] = "attach"

OrphansInv ==
  /\ TypeInv
  /\ IsFiniteSet(Pending)
  /\ Cardinality(Orphans) + Cardinality(Pending) <= Len(articles)
  /\ \A b \in Backends : Attaching(b) => imageID[b] \in Orphans
  /\ \A b, c \in Backends :
       Attaching(b) /\ Attaching(c) /\ imageID[b] = imageID[c] => b = c

LEMMA OrphansFinite ==
  ASSUME TypeInv
  PROVE  /\ IsFiniteSet(Orphans) /\ Cardinality(Orphans) \in Nat
         /\ DOMAIN images = 1 .. Len(images) /\ Len(images) \in Nat
<1>1. DOMAIN images = 1 .. Len(images) /\ Len(images) \in Nat
  BY LenProperties DEF TypeInv, TypeOK, StoreTypeOK
<1>2. IsFiniteSet(1 .. Len(images))
  BY <1>1, FS_Interval
<1>3. Orphans \in SUBSET (1 .. Len(images))
  BY <1>1 DEF Orphans
<1>. QED
  BY <1>1, <1>2, <1>3, FS_Subset, FS_CardinalityType

LEMMA AtMostOneMore ==
  ASSUME NEW S, IsFiniteSet(S), NEW b, NEW T, T \subseteq S \cup {b}
  PROVE  /\ IsFiniteSet(T) /\ Cardinality(T) <= Cardinality(S) + 1
         /\ Cardinality(S) \in Nat /\ Cardinality(T) \in Nat
<1>1. /\ IsFiniteSet(S \cup {b}) /\ Cardinality(S) \in Nat
      /\ Cardinality(S \cup {b}) = IF b \in S THEN Cardinality(S) ELSE Cardinality(S) + 1
  BY FS_AddElement, FS_CardinalityType
<1>2. IsFiniteSet(T) /\ Cardinality(T) <= Cardinality(S \cup {b})
  BY <1>1, FS_Subset
<1>3. Cardinality(T) \in Nat
  BY <1>2, FS_CardinalityType
<1>. QED
  BY <1>1, <1>2, <1>3

\* The steps that touch no image, and bring no handler to one.
LEMMA QuietOrphans ==
  ASSUME OrphansInv, TypeInv', UNCHANGED <<images, article_images>>,
         Len(articles) <= Len(articles'),
         Pending' \subseteq Pending,
         \A b \in Backends : Attaching(b)' => Attaching(b) /\ imageID'[b] = imageID[b]
  PROVE  OrphansInv'
<1>1. Orphans' = Orphans
  BY DEF Orphans
<1>2. /\ IsFiniteSet(Pending') /\ Cardinality(Pending') <= Cardinality(Pending)
      /\ Cardinality(Pending') \in Nat /\ Cardinality(Pending) \in Nat
  BY FS_Subset, FS_CardinalityType DEF OrphansInv
<1>3. Len(articles) \in Nat /\ Len(articles') \in Nat
  BY LenProperties DEF OrphansInv, TypeInv, TypeOK, StoreTypeOK
<1>4. Cardinality(Orphans)' + Cardinality(Pending)' <= Len(articles)'
  BY <1>1, <1>2, <1>3, OrphansFinite DEF OrphansInv
<1>. QED
  BY <1>1, <1>2, <1>4 DEF OrphansInv

\* A new article pays for the image its creator may leave behind.
LEMMA NewArticleOrphans ==
  ASSUME OrphansInv, TypeInv', NEW b \in Backends,
         UNCHANGED <<images, article_images, imageID>>,
         Len(articles') = Len(articles) + 1,
         Pending' \subseteq Pending \cup {b},
         \A c \in Backends : Attaching(c)' => Attaching(c)
  PROVE  OrphansInv'
<1>1. Orphans' = Orphans
  BY DEF Orphans
<1>2. /\ IsFiniteSet(Pending') /\ Cardinality(Pending') <= Cardinality(Pending) + 1
      /\ Cardinality(Pending) \in Nat /\ Cardinality(Pending') \in Nat
  BY AtMostOneMore DEF OrphansInv
<1>3. Len(articles) \in Nat
  BY LenProperties DEF OrphansInv, TypeInv, TypeOK, StoreTypeOK
<1>4. Cardinality(Orphans)' + Cardinality(Pending)' <= Len(articles)'
  BY <1>1, <1>2, <1>3, OrphansFinite DEF OrphansInv
<1>. QED
  BY <1>1, <1>2, <1>4 DEF OrphansInv

\* A new image is an orphan, and its handler is not about to make another one.
LEMMA NewImageOrphans ==
  ASSUME OrphansInv, TypeInv', NEW b \in Backends, pc[b] = "image",
         NEW url, InsertImage(url),
         Pending' = Pending \ {b},
         \A c \in Backends : Attaching(c)' =>
           IF c = b THEN imageID'[c] = Len(images) + 1
                    ELSE Attaching(c) /\ imageID'[c] = imageID[c]
  PROVE  OrphansInv'
<1>. DEFINE new == Len(images) + 1
<1>0. TypeInv
  BY DEF OrphansInv
<1>1. /\ DOMAIN images = 1 .. Len(images) /\ Len(images) \in Nat
      /\ DOMAIN images' = 1 .. new
      /\ article_images' = article_images /\ articles' = articles
  <2>1. images \in Seq(Text) /\ images' = Append(images, url)
    BY <1>0 DEF InsertImage, TypeInv, TypeOK, StoreTypeOK
  <2>2. Len(images') = Len(images) + 1 /\ DOMAIN images' = 1 .. Len(images')
    BY <2>1, OrphansFinite
  <2>. QED
    BY <1>0, <2>2, OrphansFinite DEF InsertImage
<1>2. \A r \in article_images : r.image \in 1 .. Len(images)
  BY <1>0, <1>1 DEF TypeInv, TypeOK, StoreTypeOK
<1>3. Orphans' = Orphans \cup {new} /\ new \notin Orphans
  BY <1>1, <1>2 DEF Orphans
<1>4. Cardinality(Orphans') = Cardinality(Orphans) + 1
  BY <1>0, <1>3, OrphansFinite, FS_AddElement
<1>5. /\ IsFiniteSet(Pending') /\ Cardinality(Pending') = Cardinality(Pending) - 1
      /\ Cardinality(Pending) \in Nat
  <2>1. b \in Pending
    BY DEF Pending
  <2>. QED
    BY <2>1, FS_RemoveElement, FS_CardinalityType DEF OrphansInv
<1>6. Cardinality(Orphans)' + Cardinality(Pending)' <= Len(articles)'
  <2>1. Len(articles) \in Nat /\ Len(articles') = Len(articles)
    BY <1>0, <1>1, LenProperties DEF TypeInv, TypeOK, StoreTypeOK
  <2>2. Cardinality(Orphans) \in Nat
    BY <1>0, OrphansFinite
  <2>. QED
    BY <1>4, <1>5, <2>1, <2>2 DEF OrphansInv
<1>7. \A c \in Backends : Attaching(c)' => imageID'[c] \in Orphans'
  BY <1>3 DEF OrphansInv
<1>8. \A c, d \in Backends :
        Attaching(c)' /\ Attaching(d)' /\ imageID'[c] = imageID'[d] => c = d
  BY <1>3 DEF OrphansInv
<1>. QED
  BY <1>5, <1>6, <1>7, <1>8 DEF OrphansInv

\* An attachment takes the orphan of its handler away, and no other one's.
LEMMA AttachOrphans ==
  ASSUME OrphansInv, TypeInv', NEW b \in Backends, Attaching(b),
         NEW main, InsertAttachment(articleID[b], imageID[b], main),
         Pending' \subseteq Pending \cup {b}, UNCHANGED imageID,
         \A c \in Backends : Attaching(c)' => Attaching(c) /\ c # b
  PROVE  OrphansInv'
<1>. DEFINE was == imageID[b]
<1>0. TypeInv /\ was \in Orphans
  BY DEF OrphansInv
<1>1. /\ article_images' = article_images \cup
           {[article |-> articleID[b], image |-> was, main |-> main]}
      /\ UNCHANGED <<articles, images>>
  BY DEF InsertAttachment
<1>2. Orphans' = Orphans \ {was}
  <2>1. DOMAIN images' = DOMAIN images
    BY <1>1
  <2>2. PICK new : article_images' = article_images \cup {new} /\ new.image = was
    <3>. DEFINE new == [article |-> articleID[b], image |-> was, main |-> main]
    <3>1. new.image = was
      OBVIOUS
    <3>. QED
      BY <1>1, <3>1
  <2>. QED
    BY <2>1, <2>2 DEF Orphans
<1>3. Cardinality(Orphans') = Cardinality(Orphans) - 1
  BY <1>0, <1>2, OrphansFinite, FS_RemoveElement
<1>4. /\ IsFiniteSet(Pending') /\ Cardinality(Pending') <= Cardinality(Pending) + 1
      /\ Cardinality(Pending) \in Nat /\ Cardinality(Pending') \in Nat
  BY AtMostOneMore DEF OrphansInv
<1>5. Cardinality(Orphans)' + Cardinality(Pending)' <= Len(articles)'
  <2>1. Len(articles) \in Nat /\ Len(articles') = Len(articles)
    BY <1>0, <1>1, LenProperties DEF TypeInv, TypeOK, StoreTypeOK
  <2>2. Cardinality(Orphans) \in Nat
    BY <1>0, OrphansFinite
  <2>. QED
    BY <1>3, <1>4, <2>1, <2>2 DEF OrphansInv
<1>6. \A c \in Backends : Attaching(c)' => imageID'[c] \in Orphans'
  BY <1>2 DEF OrphansInv
<1>. QED
  BY <1>4, <1>5, <1>6 DEF OrphansInv

LEMMA OrphansStep ==
  ASSUME OrphansInv, [Next]_vars
  PROVE  OrphansInv'
<1>1. TypeInv /\ TypeInv'
  BY NextTypeInv DEF OrphansInv
<1>2. Len(articles) \in Nat /\ Len(articles') \in Nat
  BY <1>1, LenProperties DEF TypeInv, TypeOK, StoreTypeOK
<1>3. ASSUME UNCHANGED <<storeVars, handlerVars>>
      PROVE  OrphansInv'
  BY <1>1, <1>2, <1>3, QuietOrphans DEF storeVars, handlerVars, Pending, Attaching
<1>4. ASSUME NEW b \in Backends, HandlerStep(b) \/ FailureStep(b) \/ Start(b)
      PROVE  OrphansInv'
  <2>1. \A c \in Backends \ {b} : UNCHANGED <<pc[c], imageID[c]>>
    BY <1>1, <1>4
       DEF HandlerStep, FailureStep, Start, Receive, Reject, RejectAckLost,
           GetArticleIDByTitleAndOrigin, LookupFails, Begin, BeginFails, NewArticle,
           NewArticleFails, NewImage, NewImageFails, AttachArticleImage,
           AttachArticleImageFails, EndTransaction, EndTransactionFails,
           UpdateArticleStats, UpdateFails, Ack, AckLost, Crash, Goto, Return,
           TypeInv, TypeOK
  <2>2. CASE NewArticle(b) \/ (NewArticleFails(b) /\ ~UNCHANGED storeVars)
    <3>1. /\ pc[b] = "insert" /\ pc'[b] \in {"image", "rollback"}
          /\ InsertArticle(Article(b)) /\ UNCHANGED imageID
      BY <1>1, <2>2 DEF NewArticle, NewArticleFails, At, Goto, TypeInv, TypeOK
    <3>2. Len(articles') = Len(articles) + 1 /\ UNCHANGED <<images, article_images>>
      BY <1>1, <3>1, ArticleInHand, InsertArticleType
         DEF TypeInv, TypeOK, HandlerOK, InsertArticle
    <3>. QED
      BY <1>1, <2>1, <3>1, <3>2, NewArticleOrphans DEF Pending, Attaching
  <2>3. CASE NewImage(b) \/ (NewImageFails(b) /\ ~UNCHANGED storeVars)
    <3>1. /\ pc[b] = "image" /\ pc'[b] \in {"attach", "rollback"}
          /\ pc'[b] = "attach" => imageID'[b] = Len(images) + 1
          /\ InsertImage(ImageURLs(Article(b))[done[b] + 1])
      BY <1>1, <2>3 DEF NewImage, NewImageFails, At, Goto, TypeInv, TypeOK
    <3>2. Pending' = Pending \ {b}
      BY <2>1, <3>1 DEF Pending
    <3>. QED
      BY <1>1, <2>1, <3>1, <3>2, NewImageOrphans DEF Attaching
  <2>4. CASE AttachArticleImage(b) \/ (AttachArticleImageFails(b) /\ ~UNCHANGED storeVars)
    <3>1. /\ Attaching(b) /\ pc'[b] \in {"image", "commit", "rollback"}
          /\ InsertAttachment(articleID[b], imageID[b], done[b] = 0)
          /\ UNCHANGED imageID
      BY <1>1, <2>4
         DEF AttachArticleImage, AttachArticleImageFails, At, Goto, Attaching, TypeInv,
             TypeOK
    <3>2. /\ Pending' \subseteq Pending \cup {b}
          /\ \A c \in Backends : Attaching(c)' => Attaching(c) /\ c # b
      BY <2>1, <3>1 DEF Pending, Attaching
    <3>. QED
      BY <1>1, <3>1, <3>2, AttachOrphans
  <2>5. ASSUME ~NewArticle(b), ~NewImage(b), ~AttachArticleImage(b),
               NewArticleFails(b) \/ NewImageFails(b) \/ AttachArticleImageFails(b)
                 => UNCHANGED storeVars
        PROVE  OrphansInv'
    <3>1. UNCHANGED <<images, article_images>>
      BY <1>4, <2>5
         DEF HandlerStep, FailureStep, Start, storeVars, Receive, Reject, RejectAckLost,
             GetArticleIDByTitleAndOrigin, LookupFails, Begin, BeginFails,
             EndTransaction, EndTransactionFails, UpdateArticleStats, UpdateFails,
             SetViewers, Ack, AckLost, Crash
    <3>2. Len(articles) <= Len(articles')
      <4>1. CASE UNCHANGED articles
        BY <1>2, <4>1
      <4>2. CASE UpdateArticleStats(b) \/ (UpdateFails(b) /\ ~UNCHANGED articles)
        <5>1. DOMAIN articles' = DOMAIN articles
          BY <4>2 DEF UpdateArticleStats, UpdateFails, SetViewers, storeVars
        <5>2. DOMAIN articles = 1 .. Len(articles) /\ DOMAIN articles' = 1 .. Len(articles')
          BY <1>1, LenProperties DEF TypeInv, TypeOK, StoreTypeOK
        <5>. QED
          BY <1>2, <5>1, <5>2
      <4>. QED
        BY <1>4, <2>5, <4>1, <4>2
           DEF HandlerStep, FailureStep, Start, storeVars, Receive, Reject,
               RejectAckLost, GetArticleIDByTitleAndOrigin, LookupFails, Begin,
               BeginFails, EndTransaction, EndTransactionFails, Ack, AckLost, Crash
    <3>3. pc'[b] \notin {"image", "attach"}
      BY <1>1, <1>4, <2>5
         DEF HandlerStep, FailureStep, Start, Receive, Reject, RejectAckLost,
             GetArticleIDByTitleAndOrigin, LookupFails, Begin, BeginFails,
             NewArticleFails, NewImageFails, AttachArticleImageFails, EndTransaction,
             EndTransactionFails, UpdateArticleStats, UpdateFails, Ack, AckLost,
             Crash, Goto, Return, TypeInv, TypeOK
    <3>. QED
      BY <1>1, <2>1, <3>1, <3>2, <3>3, QuietOrphans DEF Pending, Attaching
  <2>. QED
    BY <2>2, <2>3, <2>4, <2>5
<1>. QED
  BY <1>3, <1>4 DEF Next, Publish, Expire, Deliver, vars

\* Image rows do not leak: there are never more of them without an article
\* than articles, however often messages are redelivered and creations fail,
\* and however many backends there are.
THEOREM NoImageLeak == Spec => []OneOrphanPerCreation
<1>1. Init => OrphansInv
  <2>. SUFFICES ASSUME Init PROVE OrphansInv
    OBVIOUS
  <2>1. Pending = {} /\ Orphans = {} /\ Len(articles) = 0
    BY DEF Init, StoreInit, Pending, Orphans
  <2>. QED
    BY <2>1, InitTypeInv, FS_EmptySet DEF Init, OrphansInv, Attaching
<1>2. OrphansInv /\ [Next]_vars => OrphansInv'
  BY OrphansStep
<1>3. OrphansInv => OneOrphanPerCreation
  <2>. SUFFICES ASSUME OrphansInv PROVE OneOrphanPerCreation
    OBVIOUS
  <2>1. Cardinality(Pending) \in Nat /\ Cardinality(Orphans) \in Nat
        /\ Len(articles) \in Nat
    BY OrphansFinite, FS_CardinalityType, LenProperties
       DEF OrphansInv, TypeInv, TypeOK, StoreTypeOK
  <2>. QED
    BY <2>1 DEF OrphansInv, OneOrphanPerCreation
<1>. QED
  BY <1>1, <1>2, <1>3, PTL DEF Spec

-----------------------------------------------------------------------------
(***************************************************************************)
(* What the table articles holds while the consumer runs: no article       *)
(* twice (one backend), nothing acknowledged that is not there, and the    *)
(* ledger that both add up to.                                             *)
(***************************************************************************)

\* The assumptions the theorems below take, each where it is needed.

\* docker-compose starts one backend.
OneBackend == \E b : Backends = {b}

\* A title matches itself: it holds no escape character of ILIKE.
TitlesMatchThemselves == \A t \in Text : <<t, t>> \in TitleMatches

\* A title matches no other, and an article without a title shares its origin
\* with no article that has one: the lookup finds the article or nothing.
TitlesIdentify ==
  /\ \A t, s \in Text : <<t, s>> \in TitleMatches => t = s
  /\ \A p, q \in Payloads :
       p.title = Blank /\ p.origin = q.origin => q.title = Blank

\* No call that NewArticle makes fails.
CreationWorks ==
  Faults \cap {"begin", "insert", "image", "attach", "commit", "rollback"} = {}

-----------------------------------------------------------------------------
\* Rows: the table only grows, by the insert of NewArticle, and the title and
\* the origin of a row never change.

SameRows ==
  /\ DOMAIN articles' = DOMAIN articles
  /\ \A id \in DOMAIN articles : /\ articles'[id].title = articles[id].title
                                 /\ articles'[id].origin = articles[id].origin

\* The handler of b inserts its article.
Inserts(b) ==
  /\ NewArticle(b) \/ NewArticleFails(b)
  /\ InsertArticle(Article(b))

LEMMA RowsOfStep ==
  ASSUME TypeInv, [Next]_vars
  PROVE  SameRows \/ \E b \in Backends : Inserts(b)
<1>1. articles' = articles => SameRows
  BY DEF SameRows
<1>2. ASSUME NEW b \in Backends, HandlerStep(b) \/ FailureStep(b)
      PROVE  SameRows \/ Inserts(b)
  <2>1. CASE UpdateArticleStats(b) \/ UpdateFails(b)
    <3>1. CASE SetViewers(articleID[b], Article(b).viewers)
      <4>1. Article(b).viewers \in Nat
        BY <2>1, ArticleInHand, PayloadFields
           DEF TypeInv, HandlerOK, UpdateArticleStats, UpdateFails, At
      <4>. QED
        BY <3>1, <4>1, SetViewersType DEF TypeInv, TypeOK, SameRows
    <3>. QED
      BY <1>1, <2>1, <3>1 DEF UpdateArticleStats, UpdateFails, storeVars
  <2>2. CASE NewArticle(b) \/ NewArticleFails(b)
    BY <1>1, <2>2 DEF NewArticle, NewArticleFails, Inserts, storeVars
  <2>3. ASSUME ~(UpdateArticleStats(b) \/ UpdateFails(b)),
               ~(NewArticle(b) \/ NewArticleFails(b))
        PROVE  articles' = articles
    BY <1>2, <2>3
       DEF HandlerStep, FailureStep, storeVars, Receive, Reject, RejectAckLost,
           GetArticleIDByTitleAndOrigin, LookupFails, Begin, BeginFails, NewImage,
           NewImageFails, InsertImage, AttachArticleImage, AttachArticleImageFails,
           InsertAttachment, EndTransaction, EndTransactionFails, Ack, AckLost, Crash
  <2>. QED
    BY <1>1, <2>1, <2>2, <2>3
<1>. QED
  BY <1>1, <1>2 DEF Next, Publish, Expire, Deliver, Start, vars, storeVars

\* An insert adds one row, the article in the handler's hands.
LEMMA RowsOfInsert ==
  ASSUME TypeInv, NEW b \in Backends, Inserts(b)
  PROVE  /\ Article(b) \in Payloads
         /\ DOMAIN articles = 1 .. Len(articles) /\ Len(articles) \in Nat
         /\ DOMAIN articles' = 1 .. Len(articles) + 1
         /\ \A id \in DOMAIN articles : articles'[id] = articles[id]
         /\ articles'[Len(articles) + 1].title = Article(b).title
         /\ articles'[Len(articles) + 1].origin = Article(b).origin
         /\ articles'[Len(articles) + 1].viewers = Article(b).viewers
<1>1. Article(b) \in Payloads
  BY ArticleInHand DEF TypeInv, HandlerOK, Inserts, NewArticle, NewArticleFails, At
<1>2. DOMAIN articles = 1 .. Len(articles) /\ Len(articles) \in Nat
  BY LenProperties DEF TypeInv, TypeOK, StoreTypeOK
<1>3. StoreTypeOK' /\ Len(articles') = Len(articles) + 1
      /\ DOMAIN articles' = 1 .. Len(articles')
  BY <1>1, InsertArticleType, LenProperties DEF Inserts, TypeInv, TypeOK, StoreTypeOK
<1>. QED
  BY <1>1, <1>2, <1>3, InsertArticleType DEF Inserts, TypeInv, TypeOK

\* Any step keeps the stream, and the messages that handlers hold.
LEMMA StreamOfStep ==
  ASSUME TypeInv, [Next]_vars
  PROVE  StreamGrows
<1>1. StreamTypeOK /\ StreamTypeOK'
  BY NextTypeInv DEF TypeInv, TypeOK
<1>2. delivered \in 0 .. Len(stream) /\ DOMAIN stream = 1 .. Len(stream)
  BY <1>1, LenProperties DEF StreamTypeOK
<1>3. stream' = stream \/ \E p \in Payloads : StreamPublish(p)
  BY DEF Next, vars, streamVars, Publish, Expire, AckWaitExpires, Deliver, DeliverNew,
         Redeliver, Start, HandlerStep, FailureStep, Receive, Reject, Remove,
         RejectAckLost, GetArticleIDByTitleAndOrigin, LookupFails, Begin, BeginFails,
         NewArticle, NewArticleFails, NewImage, NewImageFails, AttachArticleImage,
         AttachArticleImageFails, EndTransaction, EndTransactionFails,
         UpdateArticleStats, UpdateFails, Ack, AckLost, Crash
<1>4. delivered' = delivered \/ \E b \in Backends : DeliverNew(b)
  BY DEF Next, vars, streamVars, Publish, StreamPublish, Expire, AckWaitExpires, Deliver,
         Redeliver, Start, HandlerStep, FailureStep, Receive, Reject, Remove,
         RejectAckLost, GetArticleIDByTitleAndOrigin, LookupFails, Begin, BeginFails,
         NewArticle, NewArticleFails, NewImage, NewImageFails, AttachArticleImage,
         AttachArticleImageFails, EndTransaction, EndTransactionFails,
         UpdateArticleStats, UpdateFails, Ack, AckLost, Crash
<1>5. delivered <= delivered'
  BY <1>2, <1>4 DEF DeliverNew
<1>. QED
  BY <1>1, <1>2, <1>3, <1>5, StreamPublishType, LenProperties DEF StreamGrows

-----------------------------------------------------------------------------
\* No article twice.

\* Between the lookup that found nothing and the insert, there is nothing.
StillMissing(b) ==
  pc[b] \in {"begin", "insert"} =>
    MatchingIDs(Article(b).title, Article(b).origin) = {}

NoDuplicateInv ==
  /\ TypeInv
  /\ \A b \in Backends : StillMissing(b)
  /\ NoDuplicateArticle

\* How a handler comes to stand before the insert.
LEMMA BeforeInsert ==
  ASSUME TypeInv, [Next]_vars, NEW b \in Backends, pc'[b] \in {"begin", "insert"}
  PROVE  /\ cur'[b] = cur[b]
         /\ \/ MatchingIDs(Article(b).title, Article(b).origin) = {}
            \/ pc[b] \in {"begin", "insert"}
<1>. USE DEF TypeInv, TypeOK
<1>1. CASE UNCHANGED handlerVars
  BY <1>1 DEF handlerVars
<1>2. ASSUME NEW c \in Backends, c # b, HandlerStep(c) \/ FailureStep(c) \/ Start(c)
      PROVE  pc'[b] = pc[b] /\ cur'[b] = cur[b]
  BY <1>2
     DEF HandlerStep, FailureStep, Start, Receive, Reject, RejectAckLost,
         GetArticleIDByTitleAndOrigin, LookupFails, Begin, BeginFails, NewArticle,
         NewArticleFails, NewImage, NewImageFails, AttachArticleImage,
         AttachArticleImageFails, EndTransaction, EndTransactionFails,
         UpdateArticleStats, UpdateFails, Ack, AckLost, Crash, Goto, Return
<1>3. CASE HandlerStep(b) \/ FailureStep(b) \/ Start(b)
  <2>1. GetArticleIDByTitleAndOrigin(b) \/ Begin(b)
    BY <1>3
       DEF HandlerStep, FailureStep, Start, Receive, Reject, RejectAckLost, LookupFails,
           BeginFails, NewArticle, NewArticleFails, NewImage, NewImageFails,
           AttachArticleImage, AttachArticleImageFails, EndTransaction,
           EndTransactionFails, UpdateArticleStats, UpdateFails, Ack, AckLost, Crash,
           Goto, Return
  <2>. QED
    BY <2>1 DEF GetArticleIDByTitleAndOrigin, Begin, Goto, At
<1>. QED
  BY <1>1, <1>2, <1>3
     DEF Next, Publish, Expire, Deliver, vars, handlerVars

LEMMA NoDuplicateStep ==
  ASSUME OneBackend, TitlesMatchThemselves, NoDuplicateInv, [Next]_vars
  PROVE  NoDuplicateInv'
<1>1. PICK b : Backends = {b}
  BY DEF OneBackend
<1>2. TypeInv /\ TypeInv' /\ StreamGrows
  BY NextTypeInv, StreamOfStep DEF NoDuplicateInv
<1>3. CASE SameRows
  <2>1. NoDuplicateArticle'
    BY <1>3 DEF SameRows, NoDuplicateInv, NoDuplicateArticle
  <2>2. StillMissing(b)'
    <3>. SUFFICES ASSUME pc'[b] \in {"begin", "insert"}
                  PROVE  MatchingIDs(Article(b).title, Article(b).origin)' = {}
      BY DEF StillMissing
    <3>1. /\ cur'[b] = cur[b]
          /\ MatchingIDs(Article(b).title, Article(b).origin) = {}
      BY <1>1, <1>2, BeforeInsert DEF NoDuplicateInv, StillMissing
    <3>2. Article(b)' = Article(b)
      <4>1. cur'[b] # 0
        BY <1>1, <1>2 DEF TypeInv, HandlerOK
      <4>. QED
        BY <1>1, <1>2, <3>1, <4>1, ArticleInHand DEF StreamGrows, Article
    <3>. QED
      BY <1>3, <3>1, <3>2 DEF SameRows, MatchingIDs
  <2>. QED
    BY <1>1, <1>2, <2>1, <2>2 DEF NoDuplicateInv
<1>4. CASE Inserts(b)
  <2>1. /\ Article(b) \in Payloads
        /\ DOMAIN articles = 1 .. Len(articles) /\ Len(articles) \in Nat
        /\ DOMAIN articles' = 1 .. Len(articles) + 1
        /\ \A id \in DOMAIN articles : articles'[id] = articles[id]
        /\ articles'[Len(articles) + 1].title = Article(b).title
        /\ articles'[Len(articles) + 1].origin = Article(b).origin
    BY <1>1, <1>2, <1>4, RowsOfInsert
  <2>2. \A id \in DOMAIN articles :
          ~(articles[id].title = Article(b).title /\ articles[id].origin = Article(b).origin)
    <3>1. MatchingIDs(Article(b).title, Article(b).origin) = {}
      BY <1>1, <1>4 DEF NoDuplicateInv, StillMissing, Inserts, NewArticle,
                        NewArticleFails, At
    <3>2. <<Article(b).title, Article(b).title>> \in TitleMatches
      BY <2>1, PayloadFields DEF TitlesMatchThemselves
    <3>. QED
      BY <3>1, <3>2 DEF MatchingIDs
  <2>3. NoDuplicateArticle'
    BY <2>1, <2>2 DEF NoDuplicateArticle, NoDuplicateInv
  <2>4. StillMissing(b)'
    BY <1>1, <1>2, <1>4
       DEF StillMissing, Inserts, NewArticle, NewArticleFails, Goto, TypeInv, TypeOK
  <2>. QED
    BY <1>1, <1>2, <2>3, <2>4 DEF NoDuplicateInv
<1>. QED
  BY <1>1, <1>2, <1>3, <1>4, RowsOfStep

\* One backend never stores an article twice, whatever calls fail, however
\* often it crashes and whatever is delivered again: nothing can come between
\* the lookup that finds no row and the insert.
THEOREM NeverTwice ==
  ASSUME OneBackend, TitlesMatchThemselves
  PROVE  Spec => []NoDuplicateArticle
<1>1. Init => NoDuplicateInv
  BY InitTypeInv
     DEF Init, StoreInit, NoDuplicateInv, NoDuplicateArticle, StillMissing
<1>2. NoDuplicateInv /\ [Next]_vars => NoDuplicateInv'
  BY NoDuplicateStep
<1>3. NoDuplicateInv => NoDuplicateArticle
  BY DEF NoDuplicateInv
<1>. QED
  BY <1>1, <1>2, <1>3, PTL DEF Spec

-----------------------------------------------------------------------------
\* Nothing acknowledged that is not stored.

SameAs(p, id) == articles[id].title = p.title /\ articles[id].origin = p.origin

\* Once the handler is past the lookup it works on the row of its article.
InHand(b) ==
  /\ pc[b] # "rollback"
  /\ pc[b] = "reject" => Article(b).err
  /\ pc[b] \in {"image", "attach", "commit", "update", "ack"} =>
       articleID[b] \in DOMAIN articles /\ SameAs(Article(b), articleID[b])

StoredInv ==
  /\ TypeInv
  /\ \A id \in DOMAIN articles : \E p \in Payloads : SameAs(p, id)
  /\ \A b \in Backends : InHand(b)
  /\ AckedIsStored

\* A row, once there, stays: under its id, with its title and origin.
RowsStay == \A id \in DOMAIN articles :
              /\ id \in DOMAIN articles'
              /\ articles'[id].title = articles[id].title
              /\ articles'[id].origin = articles[id].origin

LEMMA RowsStayOfStep ==
  ASSUME TypeInv, [Next]_vars
  PROVE  RowsStay
<1>1. ASSUME NEW b \in Backends, Inserts(b)
      PROVE  RowsStay
  BY <1>1, RowsOfInsert DEF RowsStay
<1>. QED
  BY <1>1, RowsOfStep DEF RowsStay, SameRows

\* What the lookup finds is the article it looked for.
LEMMA LookupFinds ==
  ASSUME TitlesIdentify, StoredInv, NEW p \in Payloads,
         NEW id \in MatchingIDs(p.title, p.origin)
  PROVE  id \in DOMAIN articles /\ SameAs(p, id)
<1>1. PICK q \in Payloads : SameAs(q, id)
  BY DEF StoredInv, MatchingIDs
<1>2. p.title \in Text /\ q.title \in Text
  BY PayloadFields
<1>. QED
  BY <1>1, <1>2 DEF SameAs, MatchingIDs, TitlesIdentify

LEMMA InHandStep ==
  ASSUME CreationWorks, TitlesIdentify, StoredInv, [Next]_vars, NEW b \in Backends
  PROVE  InHand(b)'
<1>1. TypeInv /\ StreamGrows /\ RowsStay /\ InHand(b)
  BY StreamOfStep, RowsStayOfStep DEF StoredInv
<1>2. ASSUME cur'[b] = cur[b], cur[b] # 0
      PROVE  Article(b)' = Article(b)
  BY <1>1, <1>2, ArticleInHand DEF StreamGrows, Article
<1>3. cur[b] # 0 => Article(b) \in Payloads
  BY <1>1, ArticleInHand
<1>4. ASSUME UNCHANGED <<pc[b], cur[b], articleID[b]>>
      PROVE  InHand(b)'
  <2>1. pc[b] \notin {"down", "idle"} => Article(b)' = Article(b)
    BY <1>1, <1>2, <1>4 DEF TypeInv, HandlerOK
  <2>. QED
    BY <1>1, <1>4, <2>1 DEF InHand, SameAs, RowsStay
<1>5. CASE Receive(b)
  <2>1. Head(inbox[b]) \in 1 .. delivered
    BY <1>1, <1>5, HeadTailProperties DEF Receive, TypeInv, TypeOK, StreamTypeOK
  <2>2. /\ pc'[b] = (IF Article(b)'.err THEN "reject" ELSE "lookup")
    BY <1>1, <1>5 DEF Receive, Goto, Article, TypeInv, TypeOK
  <2>. QED
    BY <2>2 DEF InHand
<1>6. CASE GetArticleIDByTitleAndOrigin(b)
  <2>1. cur[b] # 0 /\ cur'[b] = cur[b]
    BY <1>1, <1>6 DEF GetArticleIDByTitleAndOrigin, TypeInv, HandlerOK, At
  <2>2. Article(b)' = Article(b) /\ UNCHANGED storeVars
    BY <1>2, <1>6, <2>1 DEF GetArticleIDByTitleAndOrigin
  <2>3. \/ pc'[b] = "begin"
        \/ pc'[b] = "update" /\ articleID'[b] \in MatchingIDs(Article(b).title,
                                                             Article(b).origin)
    BY <1>1, <1>6 DEF GetArticleIDByTitleAndOrigin, Goto, TypeInv, TypeOK
  <2>. QED
    BY <1>3, <2>1, <2>2, <2>3, LookupFinds DEF InHand, SameAs, storeVars
<1>7. CASE NewArticle(b)
  <2>1. Inserts(b)
    BY <1>7 DEF Inserts, NewArticle
  <2>2. cur[b] # 0 /\ cur'[b] = cur[b] /\ pc'[b] = "image"
        /\ articleID'[b] = Len(articles) + 1
    BY <1>1, <1>7 DEF NewArticle, TypeInv, TypeOK, HandlerOK, At, Goto
  <2>3. /\ articleID'[b] \in DOMAIN articles'
        /\ articles'[articleID'[b]].title = Article(b).title
        /\ articles'[articleID'[b]].origin = Article(b).origin
    BY <1>1, <2>1, <2>2, RowsOfInsert
  <2>. QED
    BY <1>2, <2>2, <2>3 DEF InHand, SameAs
<1>8. CASE \/ Reject(b) \/ RejectAckLost(b) \/ Begin(b) \/ NewImage(b)
           \/ AttachArticleImage(b) \/ EndTransaction(b) \/ UpdateArticleStats(b)
  <2>1. /\ cur'[b] = cur[b] /\ articleID'[b] = articleID[b]
        /\ \/ pc'[b] \in {"lookup", "insert"}
           \/ /\ pc[b] \in {"image", "attach", "commit", "rollback", "update"}
              /\ pc'[b] \in {"image", "attach", "commit", "ack"}
    BY <1>1, <1>8
       DEF Reject, RejectAckLost, Begin, NewImage, AttachArticleImage, EndTransaction,
           UpdateArticleStats, Goto, At, TypeInv, TypeOK
  <2>2. pc[b] \notin {"down", "idle"}
    BY <1>8 DEF Reject, RejectAckLost, Begin, NewImage, AttachArticleImage,
                EndTransaction, UpdateArticleStats, At
  <2>3. Article(b)' = Article(b)
    BY <1>1, <1>2, <2>1, <2>2 DEF TypeInv, HandlerOK
  <2>. QED
    BY <1>1, <2>1, <2>3 DEF InHand, SameAs, RowsStay
<1>9. CASE LookupFails(b) \/ UpdateFails(b) \/ Ack(b) \/ AckLost(b) \/ Crash(b) \/ Start(b)
  <2>1. pc'[b] \in {"down", "idle"}
    BY <1>1, <1>9 DEF LookupFails, UpdateFails, Ack, AckLost, Crash, Start, Return, Goto,
                      TypeInv, TypeOK
  <2>. QED
    BY <2>1 DEF InHand
<1>10. CASE \/ BeginFails(b) \/ NewArticleFails(b) \/ NewImageFails(b)
            \/ AttachArticleImageFails(b) \/ EndTransactionFails(b)
  BY <1>1, <1>10 DEF BeginFails, NewArticleFails, NewImageFails, AttachArticleImageFails,
                     EndTransactionFails, CanFail, CreationWorks
<1>11. ASSUME NEW c \in Backends, c # b, HandlerStep(c) \/ FailureStep(c) \/ Start(c)
       PROVE  UNCHANGED <<pc[b], cur[b], articleID[b]>>
  BY <1>1, <1>11
     DEF HandlerStep, FailureStep, Start, Receive, Reject, RejectAckLost,
         GetArticleIDByTitleAndOrigin, LookupFails, Begin, BeginFails, NewArticle,
         NewArticleFails, NewImage, NewImageFails, AttachArticleImage,
         AttachArticleImageFails, EndTransaction, EndTransactionFails,
         UpdateArticleStats, UpdateFails, Ack, AckLost, Crash, Goto, Return,
         TypeInv, TypeOK
<1>12. CASE UNCHANGED handlerVars
  BY <1>4, <1>12 DEF handlerVars
<1>. QED
  BY <1>4, <1>5, <1>6, <1>7, <1>8, <1>9, <1>10, <1>11, <1>12
     DEF Next, HandlerStep, FailureStep, Publish, Expire, Deliver, vars, handlerVars

LEMMA StoredStep ==
  ASSUME CreationWorks, TitlesIdentify, StoredInv, [Next]_vars
  PROVE  StoredInv'
<1>1. TypeInv /\ TypeInv' /\ StreamGrows /\ RowsStay
  BY NextTypeInv, StreamOfStep, RowsStayOfStep DEF StoredInv
<1>2. \A b \in Backends : InHand(b) /\ InHand(b)'
  BY InHandStep DEF StoredInv
<1>3. \A id \in DOMAIN articles' : \E p \in Payloads : SameAs(p, id)'
  <2>1. CASE SameRows
    BY <2>1 DEF SameRows, StoredInv, SameAs
  <2>2. ASSUME NEW b \in Backends, Inserts(b)
        PROVE  \A id \in DOMAIN articles' : \E p \in Payloads : SameAs(p, id)'
    BY <1>1, <2>2, RowsOfInsert DEF StoredInv, SameAs
  <2>. QED
    BY <1>1, <2>1, <2>2, RowsOfStep
<1>4. AckedIsStored'
  <2>. SUFFICES ASSUME NEW s \in acked', ~stream'[s].err
                PROVE  Stored(stream[s])'
    BY DEF AckedIsStored
  <2>1. CASE s \in acked
    <3>1. s \in 1 .. delivered /\ stream'[s] = stream[s]
      BY <1>1, <2>1 DEF TypeInv, TypeOK, StreamTypeOK, StreamGrows
    <3>2. Stored(stream[s])
      BY <2>1, <3>1 DEF StoredInv, AckedIsStored
    <3>. QED
      BY <1>1, <3>1, <3>2 DEF Stored, RowsStay
  <2>2. CASE s \notin acked
    <3>1. PICK b \in Backends : (Reject(b) \/ Ack(b)) /\ s = cur[b]
      BY <2>2
         DEF Next, vars, streamVars, Publish, StreamPublish, Expire, AckWaitExpires,
             Deliver, DeliverNew, Redeliver, Start, HandlerStep, FailureStep, Receive,
             Reject, Ack, Remove, RejectAckLost, GetArticleIDByTitleAndOrigin,
             LookupFails, Begin, BeginFails, NewArticle, NewArticleFails, NewImage,
             NewImageFails, AttachArticleImage, AttachArticleImageFails, EndTransaction,
             EndTransactionFails, UpdateArticleStats, UpdateFails, AckLost, Crash
    <3>2. stream'[s] = stream[s] /\ Article(b) = stream[s]
      BY <1>1, <3>1, ArticleInHand
         DEF StreamGrows, Article, TypeInv, HandlerOK, Reject, Ack, At
    <3>3. Ack(b)
      BY <1>2, <3>1, <3>2 DEF InHand, Reject, At
    <3>4. articleID[b] \in DOMAIN articles /\ SameAs(stream[s], articleID[b])
      BY <1>2, <3>2, <3>3 DEF InHand, Ack, At
    <3>. QED
      BY <1>1, <3>2, <3>4 DEF Stored, SameAs, RowsStay
  <2>. QED
    BY <2>1, <2>2
<1>. QED
  BY <1>1, <1>2, <1>3, <1>4 DEF StoredInv

LEMMA StoredInit == Init => StoredInv
BY InitTypeInv DEF Init, StreamInit, StoreInit, StoredInv, AckedIsStored, InHand

\* As long as the creation of an article cannot fail, no article is lost: for
\* any number of backends, a message is acknowledged only with its article in
\* the table, whatever crashes, expires or is delivered again.
THEOREM NothingLost ==
  ASSUME CreationWorks, TitlesIdentify
  PROVE  Spec => []AckedIsStored
<1>1. StoredInv /\ [Next]_vars => StoredInv'
  BY StoredStep
<1>2. StoredInv => AckedIsStored
  BY DEF StoredInv
<1>. QED
  BY <1>1, <1>2, StoredInit, PTL DEF Spec

-----------------------------------------------------------------------------
\* The consumer implements the ledger.

LedgerInv == NoDuplicateInv /\ StoredInv

\* An insert is a Record: there was no entry to replace.
LEMMA InsertRecords ==
  ASSUME TitlesMatchThemselves, LedgerInv, NEW b \in Backends, Inserts(b)
  PROVE  Range(articles') =
           {e \in Range(articles) : ~Ledger!SameArticle(Article(b), e)}
             \cup {Ledger!Entry(Article(b))}
<1>1. /\ Article(b) \in Payloads
      /\ DOMAIN articles = 1 .. Len(articles) /\ Len(articles) \in Nat
      /\ DOMAIN articles' = 1 .. Len(articles) + 1
      /\ \A id \in DOMAIN articles : articles'[id] = articles[id]
  BY RowsOfInsert DEF LedgerInv, StoredInv
<1>2. articles'[Len(articles) + 1] = Ledger!Entry(Article(b))
  <2>1. articles \in Seq(ArticleRow) /\ Ledger!Entry(Article(b)) \in ArticleRow
    BY <1>1, PayloadFields
       DEF LedgerInv, StoredInv, TypeInv, TypeOK, StoreTypeOK, Ledger!Entry, ArticleRow
  <2>. QED
    BY <2>1, AppendKeeps DEF Inserts, InsertArticle, Ledger!Entry
<1>3. \A id \in DOMAIN articles : ~Ledger!SameArticle(Article(b), articles[id])
  <2>1. MatchingIDs(Article(b).title, Article(b).origin) = {}
    BY DEF LedgerInv, NoDuplicateInv, StillMissing, Inserts, NewArticle,
           NewArticleFails, At
  <2>2. <<Article(b).title, Article(b).title>> \in TitleMatches
    BY <1>1, PayloadFields DEF TitlesMatchThemselves
  <2>. QED
    BY <2>1, <2>2 DEF MatchingIDs, Ledger!SameArticle
<1>. QED
  BY <1>1, <1>2, <1>3 DEF Range

\* An update of the article in hand is a Record: the entry of that article,
\* and no other, is replaced.
LEMMA UpdateRecords ==
  ASSUME LedgerInv, NEW b \in Backends, At(b, "update"),
         SetViewers(articleID[b], Article(b).viewers)
  PROVE  Range(articles') =
           {e \in Range(articles) : ~Ledger!SameArticle(Article(b), e)}
             \cup {Ledger!Entry(Article(b))}
<1>. DEFINE id == articleID[b]
<1>1. /\ id \in DOMAIN articles /\ articles \in [DOMAIN articles -> ArticleRow]
      /\ articles[id].title = Article(b).title
      /\ articles[id].origin = Article(b).origin
  <2>1. articles \in [1 .. Len(articles) -> ArticleRow]
    BY LenProperties DEF LedgerInv, StoredInv, TypeInv, TypeOK, StoreTypeOK
  <2>. QED
    BY <2>1 DEF LedgerInv, StoredInv, InHand, SameAs, At
<1>2. /\ DOMAIN articles' = DOMAIN articles
      /\ \A j \in DOMAIN articles : j # id => articles'[j] = articles[j]
      /\ articles'[id] = Ledger!Entry(Article(b))
  BY <1>1 DEF SetViewers, ArticleRow, Ledger!Entry
<1>3. \A j \in DOMAIN articles : Ledger!SameArticle(Article(b), articles[j]) <=> j = id
  BY <1>1 DEF Ledger!SameArticle, LedgerInv, NoDuplicateInv, NoDuplicateArticle
<1>. QED
  BY <1>1, <1>2, <1>3 DEF Range

\* Every step of the consumer is a step of the ledger, or none.
LEMMA LedgerStep ==
  ASSUME CreationWorks, OneBackend, TitlesMatchThemselves, LedgerInv, [Next]_vars
  PROVE  [Ledger!Next]_(<<stream, acked, Range(articles)>>)
<1>. USE DEF Ledger!Next
<1>1. TypeInv
  BY DEF LedgerInv, StoredInv
<1>2. \A b \in Backends : pc[b] \notin {"down", "idle"} => cur[b] \in DOMAIN stream
  BY <1>1, ArticleInHand DEF TypeInv, HandlerOK
<1>3. ASSUME NEW p \in Payloads, Publish(p)
      PROVE  Ledger!Next
  BY <1>3 DEF Publish, StreamPublish, storeVars, Ledger!Post
<1>4. ASSUME NEW b \in Backends,
             NewArticle(b) \/ NewArticleFails(b) \/ UpdateArticleStats(b) \/ UpdateFails(b),
             UNCHANGED articles
      PROVE  UNCHANGED <<stream, acked, Range(articles)>>
  BY <1>4 DEF NewArticle, NewArticleFails, UpdateArticleStats, UpdateFails, streamVars
<1>5. ASSUME NEW b \in Backends, Inserts(b)
      PROVE  Ledger!Next
  <2>1. UNCHANGED <<stream, acked>> /\ cur[b] \in DOMAIN stream
    BY <1>2, <1>5 DEF Inserts, NewArticle, NewArticleFails, streamVars, At
  <2>2. Ledger!Record(cur[b])
    BY <1>5, <2>1, InsertRecords DEF Ledger!Record, Article
  <2>. QED
    BY <2>1, <2>2
<1>6. ASSUME NEW b \in Backends, UpdateArticleStats(b) \/ UpdateFails(b),
             SetViewers(articleID[b], Article(b).viewers)
      PROVE  Ledger!Next
  <2>1. UNCHANGED <<stream, acked>> /\ cur[b] \in DOMAIN stream /\ At(b, "update")
    BY <1>2, <1>6 DEF UpdateArticleStats, UpdateFails, streamVars, At
  <2>2. Ledger!Record(cur[b])
    BY <1>6, <2>1, UpdateRecords DEF Ledger!Record, Article
  <2>. QED
    BY <2>1, <2>2
<1>7. ASSUME NEW b \in Backends, Reject(b) \/ Ack(b)
      PROVE  Ledger!Next
  <2>1. /\ acked' = acked \cup {cur[b]} /\ UNCHANGED <<stream, articles>>
        /\ cur[b] \in DOMAIN stream
    BY <1>2, <1>7 DEF Reject, Ack, Remove, storeVars, At
  <2>2. stream[cur[b]].err \/ \E e \in Range(articles) :
                                 Ledger!SameArticle(stream[cur[b]], e)
    BY <1>7 DEF LedgerInv, StoredInv, InHand, Reject, Ack, At, SameAs, Article,
                Ledger!SameArticle, Range
  <2>3. Ledger!Retire(cur[b])
    BY <2>1, <2>2 DEF Ledger!Retire
  <2>. QED
    BY <2>1, <2>3
<1>8. ASSUME NEW b \in Backends,
             \/ Receive(b) \/ RejectAckLost(b) \/ GetArticleIDByTitleAndOrigin(b)
             \/ LookupFails(b) \/ Begin(b) \/ BeginFails(b) \/ NewImage(b)
             \/ NewImageFails(b) \/ AttachArticleImage(b) \/ AttachArticleImageFails(b)
             \/ EndTransaction(b) \/ EndTransactionFails(b) \/ AckLost(b) \/ Crash(b)
             \/ Start(b) \/ Deliver(b)
      PROVE  UNCHANGED <<stream, acked, Range(articles)>>
  BY <1>8
     DEF streamVars, storeVars, Receive, RejectAckLost, GetArticleIDByTitleAndOrigin,
         LookupFails, Begin, BeginFails, NewImage, NewImageFails, InsertImage,
         AttachArticleImage, AttachArticleImageFails, InsertAttachment, EndTransaction,
         EndTransactionFails, AckLost, Crash, Start, Deliver, DeliverNew, Redeliver
<1>9. ASSUME NEW s, Expire(s)
      PROVE  UNCHANGED <<stream, acked, Range(articles)>>
  BY <1>9 DEF Expire, AckWaitExpires, storeVars
<1>10. CASE UNCHANGED vars
  BY <1>10 DEF vars, streamVars, storeVars
<1>11. ASSUME NEW b \in Backends, HandlerStep(b) \/ FailureStep(b)
       PROVE  [Ledger!Next]_(<<stream, acked, Range(articles)>>)
  <2>1. CASE NewArticle(b) \/ NewArticleFails(b)
    BY <1>4, <1>5, <2>1 DEF NewArticle, NewArticleFails, Inserts, storeVars
  <2>2. CASE UpdateArticleStats(b) \/ UpdateFails(b)
    BY <1>4, <1>6, <2>2 DEF UpdateArticleStats, UpdateFails, storeVars
  <2>. QED
    BY <1>7, <1>8, <1>11, <2>1, <2>2 DEF HandlerStep, FailureStep
<1>. QED
  BY <1>3, <1>8, <1>9, <1>10, <1>11 DEF Next

\* One backend whose creations work keeps a ledger of the published articles:
\* to its readers the stream, the redeliveries and the crashes are invisible.
THEOREM ImplementsLedger ==
  ASSUME CreationWorks, OneBackend, TitlesMatchThemselves, TitlesIdentify
  PROVE  Spec => LedgerSpec
<1>1. Init => LedgerInv /\ Ledger!Init
  <2>1. Init => NoDuplicateInv
    BY InitTypeInv
       DEF Init, StoreInit, NoDuplicateInv, NoDuplicateArticle, StillMissing
  <2>2. Init => Ledger!Init
    BY DEF Init, StreamInit, StoreInit, Ledger!Init, Range
  <2>. QED
    BY <2>1, <2>2, StoredInit DEF LedgerInv
<1>2. LedgerInv /\ [Next]_vars => LedgerInv'
  BY NoDuplicateStep, StoredStep DEF LedgerInv
<1>3. LedgerInv /\ [Next]_vars => [Ledger!Next]_(<<stream, acked, Range(articles)>>)
  BY LedgerStep
<1>. QED
  BY <1>1, <1>2, <1>3, PTL DEF Spec, LedgerSpec, Ledger!Spec, Ledger!ledgerVars
=============================================================================
