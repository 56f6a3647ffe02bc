-------------------------- MODULE NewsFeed_proofs --------------------------
(***************************************************************************)
(* Theorems about the feed processors and their publishers, for any number *)
(* of feeds, any pages and any failures: what a processor holds at which   *)
(* call, and that articles leave the worker in the order of the page.      *)
(***************************************************************************)
EXTENDS NewsFeed, SequenceLemmas

-----------------------------------------------------------------------------
\* The links of a page.

Nodes == Articles \cup {NoLink}
Hand == Sent \cup {NoArticle}
Results == Sent \cup {NoArticle, "refused", "timeout"}

LEMMA AtMostOneType ==
  ASSUME NEW S, NEW none, NEW a \in S \cup {none}
  PROVE  AtMostOne(a, none) \in Seq(S)
BY EmptySeq DEF AtMostOne

\* The links, node by node.
LinkOf(nodeSeq) == [i \in DOMAIN nodeSeq |-> AtMostOne(nodeSeq[i], NoLink)]

LEMMA LinkOfType ==
  ASSUME NEW s \in Seq(Nodes)
  PROVE  LinkOf(s) \in Seq(Seq(Articles)) /\ Len(LinkOf(s)) = Len(s)
<1>1. DOMAIN s = 1 .. Len(s) /\ Len(s) \in Nat
  BY LenProperties
<1>2. \A i \in 1 .. Len(s) : AtMostOne(s[i], NoLink) \in Seq(Articles)
  <2>1. \A i \in 1 .. Len(s) : s[i] \in Articles \cup {NoLink}
    BY ElementOfSeq DEF Nodes
  <2> QED BY <2>1, AtMostOneType
<1>3. LinkOf(s) = [i \in 1 .. Len(s) |-> AtMostOne(s[i], NoLink)]
  BY <1>1 DEF LinkOf
<1> DEFINE A == Seq(Articles)
<1> HIDE DEF A
<1>4. LinkOf(s) \in [1 .. Len(s) -> A]
  BY <1>2, <1>3 DEF A
<1>5. LinkOf(s) \in Seq(A) /\ DOMAIN LinkOf(s) = 1 .. Len(s)
  BY <1>1, <1>4
<1>6. Len(LinkOf(s)) = Len(s)
  BY <1>1, <1>5, LenProperties
<1> QED BY <1>5, <1>6 DEF A

LEMMA LinksType ==
  ASSUME NEW s \in Seq(Nodes)
  PROVE  Links(s) \in Seq(Articles)
BY LinkOfType, FlattenType DEF Links, LinkOf

LEMMA LinksNone == Links(<<>>) = <<>>
<1>1. LinkOf(<<>>) = <<>>
  BY DEF LinkOf
<1> QED BY <1>1, FlattenEmpty DEF Links, LinkOf

\* A page links what its first node links, and then what the others link.
LEMMA LinksHead ==
  ASSUME NEW s \in Seq(Nodes), s # <<>>
  PROVE  /\ Head(s) \in Nodes /\ Tail(s) \in Seq(Nodes)
         /\ Links(s) = AtMostOne(Head(s), NoLink) \o Links(Tail(s))
<1>1. /\ Head(s) \in Nodes /\ Tail(s) \in Seq(Nodes) /\ Head(s) = s[1]
      /\ Len(Tail(s)) = Len(s) - 1 /\ Len(s) \in Nat /\ Len(s) > 0
      /\ \A i \in 1 .. Len(s) - 1 : Tail(s)[i] = s[i + 1]
  BY HeadTailProperties, LenProperties, EmptySeq
<1>2. PICK first : first = AtMostOne(Head(s), NoLink)
  OBVIOUS
<1>3. first \in Seq(Articles)
  BY <1>1, <1>2, AtMostOneType DEF Nodes
<1>4. PICK rest : rest = LinkOf(Tail(s))
  OBVIOUS
<1>5. rest \in Seq(Seq(Articles)) /\ Len(rest) = Len(s) - 1
      /\ LinkOf(s) \in Seq(Seq(Articles)) /\ Len(LinkOf(s)) = Len(s)
  BY <1>1, <1>4, LinkOfType
<1>6. LinkOf(s) = <<first>> \o rest
  <2>1. PICK both : both = <<first>> \o rest
    OBVIOUS
  <2>2. /\ <<first>> \in Seq(Seq(Articles)) /\ Len(<<first>>) = 1
        /\ <<first>>[1] = first
    BY <1>3
  <2>3. /\ both \in Seq(Seq(Articles)) /\ Len(both) = 1 + Len(rest)
        /\ both[1] = first
        /\ \A i \in 1 .. Len(rest) : both[1 + i] = rest[i]
    <3> DEFINE A == Seq(Articles)
    <3> HIDE DEF A
    <3>1. <<first>> \in Seq(A) /\ rest \in Seq(A)
      BY <1>5, <2>2 DEF A
    <3>2. /\ both \in Seq(A) /\ Len(both) = Len(<<first>>) + Len(rest)
          /\ \A i \in 1 .. Len(<<first>>) + Len(rest) :
               both[i] = IF i <= Len(<<first>>) THEN <<first>>[i]
                         ELSE rest[i - Len(<<first>>)]
      BY <2>1, <3>1, ConcatProperties
    <3> QED BY <1>1, <1>5, <2>2, <3>2 DEF A
  <2>4. ASSUME NEW i \in 1 .. Len(s) PROVE LinkOf(s)[i] = both[i]
    <3>1. LinkOf(s)[i] = AtMostOne(s[i], NoLink)
      BY LenProperties DEF LinkOf
    <3>2. CASE i = 1
      BY <1>1, <1>2, <2>3, <3>1, <3>2
    <3>3. CASE i # 1
      <4>1. PICK j \in 1 .. Len(s) - 1 : i = 1 + j
        <5>1. i - 1 \in 1 .. Len(s) - 1 /\ i = 1 + (i - 1)
          BY <1>1, <3>3
        <5> QED BY <5>1
      <4>2. rest[j] = AtMostOne(Tail(s)[j], NoLink)
        <5>1. DOMAIN Tail(s) = 1 .. Len(s) - 1
          BY <1>1, LenProperties
        <5> QED BY <1>4, <5>1 DEF LinkOf
      <4>3. Tail(s)[j] = s[i]
        BY <1>1, <4>1
      <4> QED BY <1>5, <2>3, <3>1, <4>1, <4>2, <4>3
    <3> QED BY <3>2, <3>3
  <2>5. Len(both) = Len(LinkOf(s))
    BY <1>1, <1>5, <2>3
  <2>6. both \in Seq(Seq(Articles)) /\ LinkOf(s) \in Seq(Seq(Articles))
        /\ \A i \in 1 .. Len(both) : both[i] = LinkOf(s)[i]
    BY <1>5, <2>3, <2>4, <2>5
  <2>7. both = LinkOf(s)
    BY <2>5, <2>6, SeqEqual
  <2> QED BY <2>1, <2>7
<1>7. FlattenSeq(LinkOf(s)) = FlattenSeq(<<first>>) \o FlattenSeq(rest)
  <2>1. <<first>> \in Seq(Seq(Articles))
    BY <1>3
  <2> QED BY <1>5, <1>6, <2>1, FlattenConcat
<1>8. FlattenSeq(<<first>>) = first
  BY <1>3, FlattenOne
<1> QED BY <1>1, <1>2, <1>4, <1>7, <1>8 DEF Links, LinkOf

\* The first of a sequence, and the others.
LEMMA HeadTailOfCons ==
  ASSUME NEW S, NEW a \in S, NEW rest \in Seq(S)
  PROVE  /\ <<a>> \o rest # <<>>
         /\ Head(<<a>> \o rest) = a /\ Tail(<<a>> \o rest) = rest
<1>1. PICK s : s = <<a>> \o rest
  OBVIOUS
<1>2. <<a>> \in Seq(S) /\ Len(<<a>>) = 1 /\ <<a>>[1] = a
  OBVIOUS
<1>3. /\ s \in Seq(S) /\ Len(s) = 1 + Len(rest) /\ Len(rest) \in Nat
      /\ \A i \in 1 .. 1 + Len(rest) : s[i] = IF i <= 1 THEN <<a>>[i] ELSE rest[i - 1]
  BY <1>1, <1>2, ConcatProperties, LenProperties
<1>4. s # <<>> /\ s[1] = a
  BY <1>2, <1>3, EmptySeq
<1>5. /\ Head(s) = a /\ Tail(s) \in Seq(S) /\ Len(Tail(s)) = Len(rest)
      /\ \A i \in 1 .. Len(rest) : Tail(s)[i] = rest[i]
  BY <1>3, <1>4, HeadTailProperties
<1>6. Tail(s) = rest
  BY <1>5, SeqEqual
<1> QED BY <1>1, <1>4, <1>5, <1>6

-----------------------------------------------------------------------------
\* The inductive invariant.

FeedTypes ==
  /\ page \in [Feeds -> UNION {Pages[f] : f \in Feeds}]
  /\ \A f \in Feeds : page[f] \in Pages[f]
  /\ up \in BOOLEAN
  /\ pc \in [Feeds -> PCs]
  /\ refreshTick \in [Feeds -> BOOLEAN] /\ pullTick \in [Feeds -> BOOLEAN]
  /\ nodes \in [Feeds -> Seq(Nodes)]
  /\ extracted \in [Feeds -> Hand] /\ received \in [Feeds -> Hand]
  /\ result \in [Feeds -> Results]

\* What a processor holds at which call.
Holds(f) ==
  /\ ~up => pc[f] = "off" /\ received[f] = NoArticle
  /\ pc[f] \in {"off", "select", "feed"} => nodes[f] = <<>>
  /\ pc[f] \in {"pull", "page"} => nodes[f] # <<>> /\ Head(nodes[f]) # NoLink
  /\ extracted[f] # NoArticle <=> pc[f] = "send"

NewsInv == FeedTypes /\ \A f \in Feeds : Holds(f)

\* What InOrder says of one feed.
Ordered(f) ==
  \/ FailureStep(f) \/ ~up'
  \/ InHand(f)' = InHand(f) /\ UNCHANGED result[f]
  \/ InHand(f)' = InHand(f) \o Links(page[f]) /\ UNCHANGED result[f]
  \/ /\ InHand(f) # <<>>
     /\ InHand(f)' = Tail(InHand(f))
     /\ result'[f] = IF Head(InHand(f)) \in Unroutable
                     THEN "refused" ELSE Head(InHand(f))

\* Only the processor and the publisher of the feed move.
OnlyMoves(f) ==
  /\ UNCHANGED <<page, up>>
  /\ pc' \in [Feeds -> PCs]
  /\ refreshTick' \in [Feeds -> BOOLEAN] /\ pullTick' \in [Feeds -> BOOLEAN]
  /\ nodes' \in [Feeds -> Seq(Nodes)]
  /\ extracted' \in [Feeds -> Hand] /\ received' \in [Feeds -> Hand]
  /\ result' \in [Feeds -> Results]
  /\ \A g \in Feeds \ {f} :
       UNCHANGED <<pc[g], nodes[g], extracted[g], received[g], result[g]>>

LEMMA OneFeedMoves ==
  ASSUME NewsInv, NEW f \in Feeds, OnlyMoves(f), Holds(f)', Ordered(f)
  PROVE  NewsInv' /\ \A g \in Feeds : Ordered(g)
<1>1. FeedTypes'
  BY DEF NewsInv, FeedTypes, OnlyMoves
<1>2. ASSUME NEW g \in Feeds \ {f} PROVE Holds(g)' /\ Ordered(g)
  BY DEF NewsInv, Holds, Ordered, OnlyMoves, InHand
<1> QED BY <1>1, <1>2 DEF NewsInv

\* The facts of one feed.
LEMMA FeedFacts ==
  ASSUME NewsInv, NEW f \in Feeds
  PROVE  /\ FeedTypes /\ Holds(f)
         /\ pc[f] \in PCs /\ up \in BOOLEAN /\ nodes[f] \in Seq(Nodes)
         /\ extracted[f] \in Hand /\ received[f] \in Hand /\ result[f] \in Results
         /\ nodes[f] # <<>> => Head(nodes[f]) \in Nodes /\ Tail(nodes[f]) \in Seq(Nodes)
         /\ page[f] \in Pages[f] /\ page[f] \in Seq(Nodes)
         /\ Sent \subseteq Hand /\ NoArticle \in Hand /\ NoArticle \notin Sent
         /\ Articles \subseteq Sent /\ Blank \in Sent /\ NoLink \notin Articles
<1>1. FeedTypes /\ Holds(f)
  BY DEF NewsInv
<1>2. nodes[f] \in Seq(Nodes)
  BY <1>1 DEF FeedTypes
<1>3. nodes[f] # <<>> => Head(nodes[f]) \in Nodes /\ Tail(nodes[f]) \in Seq(Nodes)
  BY <1>2, HeadTailProperties
<1>4. page[f] \in Seq(Nodes)
  BY <1>1, NewsFeedAssumption DEF FeedTypes, Nodes
<1> QED BY <1>1, <1>2, <1>3, <1>4, NewsFeedAssumption DEF FeedTypes, Hand, Sent

-----------------------------------------------------------------------------
\* The steps that end the worker, or change nothing of what it holds.

LEMMA ExitStep ==
  ASSUME NewsInv, Exit
  PROVE  NewsInv' /\ \A g \in Feeds : Ordered(g)
<1>1. <<>> \in Seq(Nodes) /\ NoArticle \in Hand /\ NoArticle \in Results
  BY EmptySeq DEF Hand, Results
<1>2. FeedTypes'
  BY <1>1 DEF NewsInv, FeedTypes, Exit, PCs
<1>3. \A g \in Feeds : Holds(g)'
  BY DEF Exit, Holds
<1>4. \A g \in Feeds : Ordered(g)
  BY DEF Exit, Ordered
<1> QED BY <1>2, <1>3, <1>4 DEF NewsInv

LEMMA OutsideStep ==
  ASSUME NewsInv, StartWorker \/ \E f \in Feeds : \E p \in Pages[f] : FeedChanges(f, p)
  PROVE  NewsInv' /\ \A g \in Feeds : Ordered(g)
<1>1. CASE StartWorker
  <2>1. FeedTypes'
    BY <1>1 DEF NewsInv, FeedTypes, StartWorker, feedVars
  <2>2. \A g \in Feeds : Holds(g)'
    BY <1>1 DEF NewsInv, Holds, StartWorker, feedVars
  <2>3. \A g \in Feeds : Ordered(g)
    BY <1>1 DEF StartWorker, feedVars, Ordered, InHand
  <2> QED BY <2>1, <2>2, <2>3 DEF NewsInv
<1>2. ASSUME NEW f \in Feeds, NEW p \in Pages[f], FeedChanges(f, p)
      PROVE  NewsInv' /\ \A g \in Feeds : Ordered(g)
  <2>1. p \in UNION {Pages[g] : g \in Feeds}
    OBVIOUS
  <2>2. FeedTypes'
    BY <1>2, <2>1 DEF NewsInv, FeedTypes, FeedChanges, feedVars
  <2>3. \A g \in Feeds : Holds(g)' /\ Ordered(g)
    BY <1>2 DEF NewsInv, Holds, FeedChanges, feedVars, Ordered, InHand
  <2> QED BY <2>2, <2>3 DEF NewsInv
<1> QED BY <1>1, <1>2

-----------------------------------------------------------------------------
\* The steps of a processor that leave what it holds where it is.

LEMMA QuietStep ==
  ASSUME NewsInv, NEW f \in Feeds,
         \/ RefreshTicks(f) \/ PullTicks(f) \/ Launch(f) \/ Refresh(f)
         \/ FeedPageDone(f) \/ Pull(f) \/ GetFeedPageFails(f) \/ Hangs(f)
  PROVE  NewsInv' /\ \A g \in Feeds : Ordered(g)
<1> USE FeedFacts
<1>1. OnlyMoves(f) /\ UNCHANGED <<nodes, extracted, received, result>>
  BY DEF FeedTypes, OnlyMoves, RefreshTicks, PullTicks, Launch, Refresh, FeedPageDone, Pull,
         GetFeedPageFails, Hangs, Goto, At, PCs
<1>2. Holds(f)'
  <2>1. CASE RefreshTicks(f) \/ PullTicks(f)
    BY <2>1 DEF Holds, RefreshTicks, PullTicks
  <2>2. CASE Launch(f) \/ Refresh(f)
    BY <2>2 DEF FeedTypes, Holds, Launch, Refresh, Goto, At
  <2>3. CASE FeedPageDone(f)
    BY <2>3 DEF FeedTypes, Holds, FeedPageDone, Goto, At
  <2>4. CASE Pull(f)
    BY <2>4 DEF FeedTypes, Holds, Pull, Goto, At
  <2>5. CASE GetFeedPageFails(f)
    BY <2>5 DEF FeedTypes, Holds, GetFeedPageFails, Goto, At
  <2>6. CASE Hangs(f)
    BY <2>6 DEF FeedTypes, Holds, Hangs, Goto, At
  <2> QED BY <2>1, <2>2, <2>3, <2>4, <2>5, <2>6
<1>3. Ordered(f)
  BY <1>1 DEF Ordered, InHand
<1> QED BY <1>1, <1>2, <1>3, OneFeedMoves

-----------------------------------------------------------------------------
\* The steps that take articles in hand, pass them on or let them go.

LEMMA GetFeedPageStep ==
  ASSUME NewsInv, NEW f \in Feeds, GetFeedPage(f)
  PROVE  NewsInv' /\ \A g \in Feeds : Ordered(g)
<1> USE FeedFacts
<1>1. /\ pc[f] = "feed" /\ nodes[f] = <<>> /\ extracted[f] = NoArticle
      /\ nodes' = [nodes EXCEPT ![f] = page[f]] /\ pc' = [pc EXCEPT ![f] = "nodes"]
      /\ UNCHANGED <<page, up, refreshTick, pullTick, extracted, received, result>>
  BY DEF GetFeedPage, At, Goto, Holds
<1>2. OnlyMoves(f)
  BY <1>1 DEF FeedTypes, OnlyMoves, PCs
<1>3. nodes'[f] = page[f] /\ pc'[f] = "nodes"
  BY <1>1 DEF FeedTypes
<1>4. Holds(f)'
  BY <1>1, <1>3 DEF Holds
<1>5. InHand(f)' = InHand(f) \o Links(page[f])
  <2>1. PICK held : held = AtMostOne(received[f], NoArticle)
                           \o AtMostOne(extracted[f], NoArticle)
    OBVIOUS
  <2>2. held \in Seq(Sent)
    BY <2>1, AtMostOneType, ConcatProperties DEF Hand
  <2>3. InHand(f) = held \o Links(<<>>) /\ InHand(f)' = held \o Links(page[f])
    BY <1>1, <1>3, <2>1 DEF InHand
  <2>4. held \o <<>> = held
    BY <2>2, ConcatEmptySeq
  <2> QED BY <2>3, <2>4, LinksNone
<1>6. Ordered(f)
  BY <1>1, <1>5 DEF Ordered
<1> QED BY <1>2, <1>4, <1>6, OneFeedMoves

LEMMA ArticleNodeStep ==
  ASSUME NewsInv, NEW f \in Feeds, ArticleNode(f)
  PROVE  NewsInv' /\ \A g \in Feeds : Ordered(g)
<1> USE FeedFacts
<1>1. /\ pc[f] = "nodes" /\ nodes[f] # <<>>
      /\ UNCHANGED <<page, up, refreshTick, pullTick, extracted, received, result>>
  BY DEF ArticleNode, At
<1>2. CASE Head(nodes[f]) = NoLink
  <2>1. nodes' = [nodes EXCEPT ![f] = Tail(@)] /\ UNCHANGED pc
    BY <1>2 DEF ArticleNode
  <2>2. OnlyMoves(f) /\ nodes'[f] = Tail(nodes[f])
    BY <1>1, <2>1 DEF FeedTypes, OnlyMoves
  <2>3. Holds(f)'
    BY <1>1, <2>1 DEF Holds
  <2>4. Links(nodes[f]) = Links(Tail(nodes[f]))
    <3>1. Links(nodes[f]) = <<>> \o Links(Tail(nodes[f]))
      BY <1>1, <1>2, LinksHead DEF AtMostOne
    <3>2. Links(Tail(nodes[f])) \in Seq(Articles)
      BY <1>1, LinksType
    <3> QED BY <3>1, <3>2, ConcatEmptySeq
  <2>5. InHand(f)' = InHand(f)
    BY <1>1, <2>2, <2>4 DEF InHand
  <2>6. Ordered(f)
    BY <1>1, <2>5 DEF Ordered
  <2> QED BY <2>2, <2>3, <2>6, OneFeedMoves
<1>3. CASE Head(nodes[f]) # NoLink
  <2>1. pc' = [pc EXCEPT ![f] = "pull"] /\ UNCHANGED nodes
    BY <1>3 DEF ArticleNode, Goto
  <2>2. OnlyMoves(f)
    BY <1>1, <2>1 DEF FeedTypes, OnlyMoves, PCs
  <2>3. Holds(f)'
    BY <1>1, <1>3, <2>1 DEF FeedTypes, Holds
  <2>4. Ordered(f)
    BY <1>1, <2>1 DEF Ordered, InHand
  <2> QED BY <2>2, <2>3, <2>4, OneFeedMoves
<1> QED BY <1>2, <1>3

\* The page of the first node gives an article: that one, unless the call fails.
LEMMA ExtractStep ==
  ASSUME NewsInv, NEW f \in Feeds, NEW a \in Sent, At(f, "page"), Extract(f, a),
         a = Head(nodes[f]) \/ FailureStep(f)
  PROVE  NewsInv' /\ \A g \in Feeds : Ordered(g)
<1> USE FeedFacts
<1>1. /\ pc[f] = "page" /\ nodes[f] # <<>> /\ extracted[f] = NoArticle
      /\ Head(nodes[f]) # NoLink /\ a # NoArticle
      /\ nodes' = [nodes EXCEPT ![f] = Tail(@)]
      /\ extracted' = [extracted EXCEPT ![f] = a] /\ pc' = [pc EXCEPT ![f] = "send"]
      /\ UNCHANGED <<page, up, refreshTick, pullTick, received, result>>
  BY DEF Extract, At, Goto, Holds
<1>2. OnlyMoves(f)
  BY <1>1 DEF FeedTypes, OnlyMoves, PCs
<1>3. nodes'[f] = Tail(nodes[f]) /\ extracted'[f] = a /\ pc'[f] = "send"
  BY <1>1 DEF FeedTypes
<1>4. Holds(f)'
  BY <1>1, <1>3 DEF Holds
<1>5. ASSUME a = Head(nodes[f]) PROVE InHand(f)' = InHand(f)
  <2>1. PICK got : got = AtMostOne(received[f], NoArticle)
    OBVIOUS
  <2>2. PICK rest : rest = Links(Tail(nodes[f]))
    OBVIOUS
  <2>3. got \in Seq(Sent) /\ rest \in Seq(Sent)
    <3>1. rest \in Seq(Articles)
      BY <1>1, <2>2, LinksType
    <3> QED BY <2>1, <3>1, AtMostOneType DEF Hand
  <2>4. Links(nodes[f]) = <<a>> \o rest
    BY <1>1, <1>5, <2>2, LinksHead DEF AtMostOne
  <2>5. InHand(f) = (got \o <<>>) \o (<<a>> \o rest)
    BY <1>1, <2>1, <2>4 DEF InHand, AtMostOne
  <2>6. InHand(f)' = (got \o <<a>>) \o rest
    BY <1>1, <1>3, <2>1, <2>2 DEF InHand, AtMostOne
  <2>7. got \o <<>> = got
    BY <2>3, ConcatEmptySeq
  <2>8. (got \o <<a>>) \o rest = got \o (<<a>> \o rest)
    <3>1. <<a>> \in Seq(Sent)
      OBVIOUS
    <3> QED BY <2>3, <3>1, ConcatAssociative
  <2> QED BY <2>5, <2>6, <2>7, <2>8
<1>6. Ordered(f)
  BY <1>1, <1>5 DEF Ordered
<1> QED BY <1>2, <1>4, <1>6, OneFeedMoves

LEMMA GetPageStep ==
  ASSUME NewsInv, NEW f \in Feeds, GetArticlePage(f) \/ GetOtherPage(f)
  PROVE  NewsInv' /\ \A g \in Feeds : Ordered(g)
<1>1. CASE GetArticlePage(f)
  <2>1. At(f, "page") /\ Extract(f, Head(nodes[f])) /\ Head(nodes[f]) \in Sent
    <3>1. At(f, "page") /\ Extract(f, Head(nodes[f]))
      BY <1>1 DEF GetArticlePage
    <3>2. nodes[f] # <<>> /\ Head(nodes[f]) # NoLink
      BY <3>1, FeedFacts DEF At, Holds
    <3> QED BY <3>1, <3>2, FeedFacts DEF Nodes
  <2> QED BY <2>1, ExtractStep
<1>2. CASE GetOtherPage(f)
  <2>1. At(f, "page") /\ Extract(f, Blank) /\ Blank \in Sent /\ FailureStep(f)
    BY <1>2 DEF GetOtherPage, FailureStep, Sent
  <2> QED BY <2>1, ExtractStep
<1> QED BY <1>1, <1>2

LEMMA DropsStep ==
  ASSUME NewsInv, NEW f \in Feeds, FeedPageCutOff(f) \/ GetArticlePageFails(f)
  PROVE  NewsInv' /\ \A g \in Feeds : Ordered(g)
<1> USE FeedFacts
<1>1. <<>> \in Seq(Nodes)
  BY EmptySeq
<1>2. OnlyMoves(f)
  <2>1. nodes' \in [Feeds -> Seq(Nodes)]
        /\ \A g \in Feeds \ {f} : nodes'[g] = nodes[g]
    <3>1. PICK rest \in Seq(Nodes) : nodes' = [nodes EXCEPT ![f] = rest]
      <4>1. CASE FeedPageCutOff(f)
        BY <1>1, <4>1 DEF FeedPageCutOff
      <4>2. CASE GetArticlePageFails(f)
        <5>1. nodes' = [nodes EXCEPT ![f] = Tail(nodes[f])]
          BY <4>2 DEF GetArticlePageFails
        <5>2. nodes[f] # <<>>
          BY <4>2 DEF GetArticlePageFails, At, Holds
        <5> QED BY <5>1, <5>2
      <4> QED BY <4>1, <4>2
    <3> QED BY <3>1 DEF FeedTypes
  <2>2. PICK there \in PCs : pc' = [pc EXCEPT ![f] = there]
    BY DEF PCs, FeedPageCutOff, GetArticlePageFails, Goto
  <2>3. UNCHANGED <<page, up, refreshTick, pullTick, extracted, received, result>>
    BY DEF FeedPageCutOff, GetArticlePageFails
  <2> QED BY <2>1, <2>2, <2>3 DEF FeedTypes, OnlyMoves
<1>3. Holds(f)'
  BY <1>1 DEF FeedTypes, FeedPageCutOff, GetArticlePageFails, At, Goto, Holds
<1>4. Ordered(f)
  BY DEF Ordered, FailureStep
<1> QED BY <1>2, <1>3, <1>4, OneFeedMoves

LEMMA SendStep ==
  ASSUME NewsInv, NEW f \in Feeds, Send(f)
  PROVE  NewsInv' /\ \A g \in Feeds : Ordered(g)
<1> USE FeedFacts
<1>1. /\ pc[f] = "send" /\ received[f] = NoArticle /\ extracted[f] # NoArticle /\ up
      /\ received' = [received EXCEPT ![f] = extracted[f]]
      /\ extracted' = [extracted EXCEPT ![f] = NoArticle] /\ pc' = [pc EXCEPT ![f] = "nodes"]
      /\ UNCHANGED <<page, up, refreshTick, pullTick, nodes, result>>
  BY DEF Send, At, Goto, Holds
<1>2. OnlyMoves(f)
  BY <1>1 DEF FeedTypes, OnlyMoves, PCs
<1>3. received'[f] = extracted[f] /\ extracted'[f] = NoArticle /\ pc'[f] = "nodes"
  BY <1>1 DEF FeedTypes
<1>4. Holds(f)'
  BY <1>1, <1>3 DEF Holds
<1>5. InHand(f)' = InHand(f)
  <2>1. InHand(f) = (<<>> \o <<extracted[f]>>) \o Links(nodes[f])
    BY <1>1 DEF InHand, AtMostOne
  <2>2. InHand(f)' = (<<extracted[f]>> \o <<>>) \o Links(nodes[f])
    BY <1>1, <1>3 DEF InHand, AtMostOne
  <2>3. <<extracted[f]>> \in Seq(Hand)
    OBVIOUS
  <2>4. <<>> \o <<extracted[f]>> = <<extracted[f]>> \o <<>>
    BY <2>3, ConcatEmptySeq
  <2> QED BY <2>1, <2>2, <2>4
<1>6. Ordered(f)
  BY <1>1, <1>5 DEF Ordered
<1> QED BY <1>2, <1>4, <1>6, OneFeedMoves

LEMMA PublishStep ==
  ASSUME NewsInv, NEW f \in Feeds, Publish(f) \/ PublishFails(f)
  PROVE  NewsInv' /\ \A g \in Feeds : Ordered(g)
<1> USE FeedFacts
<1>1. /\ received[f] # NoArticle
      /\ received' = [received EXCEPT ![f] = NoArticle]
      /\ UNCHANGED <<page, up, pc, refreshTick, pullTick, nodes, extracted>>
  BY DEF Publish, PublishFails
<1>2. PICK res \in Results : result' = [result EXCEPT ![f] = res]
  <2>1. received[f] \in Results /\ "refused" \in Results /\ "timeout" \in Results
    BY <1>1 DEF Hand, Results
  <2> QED BY <2>1 DEF Publish, PublishFails
<1>3. OnlyMoves(f) /\ received'[f] = NoArticle
  BY <1>1, <1>2 DEF FeedTypes, OnlyMoves
<1>4. Holds(f)'
  BY <1>1, <1>3 DEF Holds
<1>5. CASE Publish(f)
  <2>1. PICK a \in Sent : a = received[f]
    BY <1>1 DEF Hand
  <2>2. PICK rest : rest = AtMostOne(extracted[f], NoArticle) \o Links(nodes[f])
    OBVIOUS
  <2>3. /\ AtMostOne(extracted[f], NoArticle) \in Seq(Sent)
        /\ Links(nodes[f]) \in Seq(Sent) /\ rest \in Seq(Sent)
    <3>1. AtMostOne(extracted[f], NoArticle) \in Seq(Sent)
      BY AtMostOneType DEF Hand
    <3>2. Links(nodes[f]) \in Seq(Sent)
      <4>1. Links(nodes[f]) \in Seq(Articles)
        BY LinksType
      <4> QED BY <4>1
    <3> QED BY <2>2, <3>1, <3>2, ConcatProperties
  <2>4. InHand(f) = <<a>> \o rest
    <3>1. InHand(f) = (<<a>> \o AtMostOne(extracted[f], NoArticle)) \o Links(nodes[f])
      BY <1>1, <2>1 DEF InHand, AtMostOne
    <3>2. <<a>> \in Seq(Sent)
      OBVIOUS
    <3> QED BY <2>2, <2>3, <3>1, <3>2, ConcatAssociative
  <2>5. InHand(f)' = rest
    <3>1. InHand(f)' = (<<>> \o AtMostOne(extracted[f], NoArticle)) \o Links(nodes[f])
      BY <1>1, <1>3 DEF InHand, AtMostOne
    <3>2. <<>> \o AtMostOne(extracted[f], NoArticle) = AtMostOne(extracted[f], NoArticle)
      BY <2>3, ConcatEmptySeq
    <3> QED BY <2>2, <3>1, <3>2
  <2>6. /\ InHand(f) # <<>> /\ Head(InHand(f)) = a /\ Tail(InHand(f)) = rest
    BY <2>3, <2>4, HeadTailOfCons
  <2>7. result'[f] = IF a \in Unroutable THEN "refused" ELSE a
    BY <1>5, <2>1 DEF Publish, FeedTypes
  <2>8. Ordered(f)
    BY <2>5, <2>6, <2>7 DEF Ordered
  <2> QED BY <1>3, <1>4, <2>8, OneFeedMoves
<1>6. CASE PublishFails(f)
  <2>1. Ordered(f)
    BY <1>6 DEF Ordered, FailureStep
  <2> QED BY <1>3, <1>4, <2>1, OneFeedMoves
<1> QED BY <1>5, <1>6

-----------------------------------------------------------------------------
\* The invariant and the theorems.

LEMMA NewsInit == Init => NewsInv
<1> SUFFICES ASSUME Init PROVE NewsInv
  OBVIOUS
<1>1. <<>> \in Seq(Nodes) /\ NoArticle \in Hand /\ NoArticle \in Results
  BY EmptySeq DEF Hand, Results
<1>2. FeedTypes
  BY <1>1 DEF Init, FeedTypes, PCs
<1>3. \A f \in Feeds : Holds(f)
  BY DEF Init, Holds
<1> QED BY <1>2, <1>3 DEF NewsInv

LEMMA NewsStep ==
  ASSUME NewsInv, [Next]_vars
  PROVE  NewsInv' /\ \A g \in Feeds : Ordered(g)
<1>1. CASE UNCHANGED vars
  <2>1. UNCHANGED <<page, up, pc, refreshTick, pullTick, nodes, extracted, received, result>>
    BY <1>1 DEF vars, feedVars
  <2>2. FeedTypes' /\ \A f \in Feeds : Holds(f)'
    BY <2>1 DEF NewsInv, FeedTypes, Holds
  <2>3. \A f \in Feeds : Ordered(f)
    BY <2>1 DEF Ordered, InHand
  <2> QED BY <2>2, <2>3 DEF NewsInv
<1>2. CASE StartWorker \/ \E f \in Feeds : \E p \in Pages[f] : FeedChanges(f, p)
  BY <1>2, OutsideStep
<1>3. CASE Crash
  BY <1>3, ExitStep DEF Crash
<1>4. ASSUME NEW f \in Feeds,
             RefreshTicks(f) \/ PullTicks(f) \/ Launch(f) \/ ProcessorStep(f)
             \/ Publish(f) \/ FailureStep(f)
      PROVE  NewsInv' /\ \A g \in Feeds : Ordered(g)
  <2>1. CASE \/ RefreshTicks(f) \/ PullTicks(f) \/ Launch(f) \/ Refresh(f)
             \/ FeedPageDone(f) \/ Pull(f) \/ GetFeedPageFails(f) \/ Hangs(f)
    BY <2>1, QuietStep
  <2>2. CASE Panic(f) \/ CutOffInTag(f)
    BY <2>2, ExitStep DEF Panic, CutOffInTag
  <2>3. CASE GetFeedPage(f)
    BY <2>3, GetFeedPageStep
  <2>4. CASE ArticleNode(f)
    BY <2>4, ArticleNodeStep
  <2>5. CASE GetArticlePage(f) \/ GetOtherPage(f)
    BY <2>5, GetPageStep
  <2>6. CASE FeedPageCutOff(f) \/ GetArticlePageFails(f)
    BY <2>6, DropsStep
  <2>7. CASE Send(f)
    BY <2>7, SendStep
  <2>8. CASE Publish(f) \/ PublishFails(f)
    BY <2>8, PublishStep
  <2> QED BY <1>4, <2>1, <2>2, <2>3, <2>4, <2>5, <2>6, <2>7, <2>8
          DEF ProcessorStep, FailureStep
<1> QED BY <1>1, <1>2, <1>3, <1>4 DEF Next

LEMMA NewsInvariant == Spec => []NewsInv
<1>1. NewsInv /\ [Next]_vars => NewsInv'
  BY NewsStep
<1> QED BY <1>1, NewsInit, PTL DEF Spec

\* A processor holds article nodes only while it works through a page, and an
\* article only while it sends it; nothing is left of a worker that ended.
THEOREM TypeCorrect == Spec => []TypeOK
<1>1. NewsInv => TypeOK
  BY DEF NewsInv, FeedTypes, Holds, TypeOK, Nodes, Hand, Results
<1> QED BY <1>1, NewsInvariant, PTL

\* As long as no call fails, what a feed's page links leaves the worker in its
\* order, each article once, published or refused.
THEOREM ArticlesInOrder == Spec => InOrder
<1>1. NewsInv /\ [Next]_vars => \A f \in Feeds : Ordered(f)
  BY NewsStep
<1>2. NewsInv /\ [Next]_vars =>
        [\A f \in Feeds :
           \/ FailureStep(f) \/ ~up'
           \/ InHand(f)' = InHand(f) /\ UNCHANGED result[f]
           \/ InHand(f)' = InHand(f) \o Links(page[f]) /\ UNCHANGED result[f]
           \/ /\ InHand(f) # <<>>
              /\ InHand(f)' = Tail(InHand(f))
              /\ result'[f] = IF Head(InHand(f)) \in Unroutable
                              THEN "refused" ELSE Head(InHand(f))]_vars
  BY <1>1 DEF Ordered
<1> QED BY <1>2, NewsInvariant, PTL DEF Spec, InOrder
=============================================================================
