------------------------------ MODULE NewsFeed ------------------------------
(***************************************************************************)
(* The worker: one news feed processor per configured feed (newsfeed.go),  *)
(* the extractors of its article pages (article.go), and the publisher     *)
(* that ranges over the processor's article channel (worker/main.go).      *)
(*                                                                         *)
(* A processor waits for a refresh tick, gets the page of the feed, and    *)
(* for every article on it waits for a pull tick, gets the page of the     *)
(* article and sends what it extracted on a channel without buffer.  The   *)
(* channel of a ticker holds one tick; ticks that find it full are lost.   *)
(* http.Get has no timeout, so a site that does not answer stops its       *)
(* processor for good.  An extractor that follows a missing node panics    *)
(* in a selector's goroutine, which ends the process with every feed.      *)
(*                                                                         *)
(* An article is the address of its page.  A page that is not the one      *)
(* asked for (an error page, or one cut off before the title) yields the   *)
(* article Blank, which is sent like any other.                            *)
(***************************************************************************)
EXTENDS Naturals, Sequences, SequencesExt

CONSTANTS
  Feeds,        \* the feeds of the -template flags
  Articles,     \* what the links on feed pages lead to
  NoLink,       \* an article node on a feed page without a link
  Blank,        \* the article extracted from a page that has none
  NoArticle,    \* an empty hand
  Pages,        \* per feed, what its page can be: sequences of articles
  Unreadable,   \* articles whose extraction panics
  Unroutable,   \* articles whose subject the stream does not have
  Faults        \* the calls that may fail, and the crash of the worker

ASSUME NewsFeedAssumption ==
  /\ \A f \in Feeds : Pages[f] \subseteq Seq(Articles \cup {NoLink})
  /\ Unreadable \subseteq Articles
  /\ Unroutable \subseteq Articles \cup {Blank}
  /\ Articles \cap {NoLink, Blank, NoArticle} = {}
  /\ NoArticle # Blank
  /\ Faults \subseteq {"feed", "cut", "page", "other", "hang", "publish", "crash"}

VARIABLES
  page,         \* per feed: its page, as the site has it now
  up,           \* the worker runs
  pc,           \* per feed: what its processor waits for
  refreshTick,  \* per feed: the refresh ticker's channel holds a tick
  pullTick,     \* per feed: the pull ticker's channel holds a tick
  nodes,        \* per feed: article nodes of the page not yet handled
  extracted,    \* per feed: the article about to be sent on ArticleChan
  received,     \* per feed: the article its publisher received
  result        \* per feed: what js.Publish returned last

feedVars == <<pc, refreshTick, pullTick, nodes, extracted, received>>
vars == <<page, up, feedVars, result>>

PCs == {"off", "select", "feed", "nodes", "pull", "page", "send", "hung"}

Sent == Articles \cup {Blank}

TypeOK ==
  /\ \A f \in Feeds : page[f] \in Pages[f]
  /\ up \in BOOLEAN
  /\ pc \in [Feeds -> PCs]
  /\ refreshTick \in [Feeds -> BOOLEAN] /\ pullTick \in [Feeds -> BOOLEAN]
  /\ nodes \in [Feeds -> Seq(Articles \cup {NoLink})]
  /\ extracted \in [Feeds -> Sent \cup {NoArticle}]
  /\ received \in [Feeds -> Sent \cup {NoArticle}]
  /\ result \in [Feeds -> Sent \cup {NoArticle, "refused", "timeout"}]
  /\ \A f \in Feeds :
       /\ ~up => pc[f] = "off" /\ received[f] = NoArticle
       /\ pc[f] \in {"off", "select", "feed"} => nodes[f] = <<>>
       /\ pc[f] \in {"pull", "page"} => nodes[f] # <<>>
       /\ extracted[f] # NoArticle <=> pc[f] = "send"

Init ==
  /\ page \in {p \in [Feeds -> UNION {Pages[f] : f \in Feeds}] :
                \A f \in Feeds : p[f] \in Pages[f]}
  /\ up = FALSE
  /\ pc = [f \in Feeds |-> "off"]
  /\ refreshTick = [f \in Feeds |-> FALSE]
  /\ pullTick = [f \in Feeds |-> FALSE]
  /\ nodes = [f \in Feeds |-> <<>>]
  /\ extracted = [f \in Feeds |-> NoArticle]
  /\ received = [f \in Feeds |-> NoArticle]
  /\ result = [f \in Feeds |-> NoArticle]

-----------------------------------------------------------------------------
\* Helpers.

At(f, here) == pc[f] = here
Goto(f, there) == pc' = [pc EXCEPT ![f] = there]
CanFail(call) == call \in Faults

\* No article, or one.
AtMostOne(a, none) == IF a = none THEN <<>> ELSE <<a>>

\* The articles the page links, in its order.
Links(nodeSeq) ==
  FlattenSeq([i \in DOMAIN nodeSeq |-> AtMostOne(nodeSeq[i], NoLink)])

\* The worker ends, and nothing of what it held is left.
Exit ==
  /\ up' = FALSE
  /\ pc' = [f \in Feeds |-> "off"]
  /\ refreshTick' = [f \in Feeds |-> FALSE]
  /\ pullTick' = [f \in Feeds |-> FALSE]
  /\ nodes' = [f \in Feeds |-> <<>>]
  /\ extracted' = [f \in Feeds |-> NoArticle]
  /\ received' = [f \in Feeds |-> NoArticle]
  /\ result' = [f \in Feeds |-> NoArticle]
  /\ UNCHANGED page

-----------------------------------------------------------------------------
\* The sites, the clock and the life of the worker.

FeedChanges(f, p) ==
  /\ p # page[f]
  /\ page' = [page EXCEPT ![f] = p]
  /\ UNCHANGED <<up, feedVars, result>>

RefreshTicks(f) ==
  /\ ~At(f, "off")
  /\ refreshTick' = [refreshTick EXCEPT ![f] = TRUE]
  /\ UNCHANGED <<page, up, pc, pullTick, nodes, extracted, received, result>>

PullTicks(f) ==
  /\ ~At(f, "off")
  /\ pullTick' = [pullTick EXCEPT ![f] = TRUE]
  /\ UNCHANGED <<page, up, pc, refreshTick, nodes, extracted, received, result>>

StartWorker ==
  /\ ~up
  /\ up' = TRUE
  /\ UNCHANGED <<page, feedVars, result>>

Crash == CanFail("crash") /\ up /\ Exit

\* BatchExec runs the callback for the feed: the tickers start, and the
\* processor in a goroutine of its own.
Launch(f) ==
  /\ up /\ At(f, "off")
  /\ Goto(f, "select")
  /\ UNCHANGED <<page, up, refreshTick, pullTick, nodes, extracted, received,
                 result>>

-----------------------------------------------------------------------------
\* Start: the refresh loop of a processor.

Refresh(f) ==
  /\ At(f, "select")
  /\ refreshTick[f]
  /\ refreshTick' = [refreshTick EXCEPT ![f] = FALSE]
  /\ Goto(f, "feed")
  /\ UNCHANGED <<page, up, pullTick, nodes, extracted, received, result>>

GetFeedPage(f) ==
  /\ At(f, "feed")
  /\ nodes' = [nodes EXCEPT ![f] = page[f]]
  /\ Goto(f, "nodes")
  /\ UNCHANGED <<page, up, refreshTick, pullTick, extracted, received, result>>

GetFeedPageFails(f) ==
  /\ CanFail("feed")
  /\ At(f, "feed")
  /\ Goto(f, "select")
  /\ UNCHANGED <<page, up, refreshTick, pullTick, nodes, extracted, received,
                 result>>

\* No answer, or a body that never ends: http.Get and Read wait for ever.
Hangs(f) ==
  /\ CanFail("hang")
  /\ pc[f] \in {"feed", "nodes", "page"}
  /\ Goto(f, "hung")
  /\ UNCHANGED <<page, up, refreshTick, pullTick, nodes, extracted, received,
                 result>>

\* The body is read while the nodes are handled; an error ends the parse.
FeedPageCutOff(f) ==
  /\ CanFail("cut")
  /\ At(f, "nodes")
  /\ nodes[f] # <<>>
  /\ nodes' = [nodes EXCEPT ![f] = <<>>]
  /\ Goto(f, "select")
  /\ UNCHANGED <<page, up, refreshTick, pullTick, extracted, received, result>>

\* A page that breaks off inside a tag: the tokenizer unmarshals what it has
\* of the tag, whose readers run past the end, and the panic is not recovered.
CutOffInTag(f) ==
  /\ CanFail("cut")
  /\ pc[f] \in {"nodes", "page"}
  /\ Exit

\* onNewsFeedArticleNode: a node without a link is skipped.
ArticleNode(f) ==
  /\ At(f, "nodes")
  /\ nodes[f] # <<>>
  /\ \/ /\ Head(nodes[f]) = NoLink
        /\ nodes' = [nodes EXCEPT ![f] = Tail(@)]
        /\ UNCHANGED pc
     \/ /\ Head(nodes[f]) # NoLink
        /\ Goto(f, "pull")
        /\ UNCHANGED nodes
  /\ UNCHANGED <<page, up, refreshTick, pullTick, extracted, received, result>>

\* A variant: the refresh is over after its first article.
FeedPageLeft(f) ==
  /\ At(f, "nodes")
  /\ Goto(f, "select")
  /\ UNCHANGED <<page, up, refreshTick, pullTick, nodes, extracted, received,
                 result>>

FeedPageDone(f) ==
  /\ At(f, "nodes")
  /\ nodes[f] = <<>>
  /\ Goto(f, "select")
  /\ UNCHANGED <<page, up, refreshTick, pullTick, nodes, extracted, received,
                 result>>

-----------------------------------------------------------------------------
\* onArticlePageNode.

\* A variant: a select with a default, which skips the article if there is no
\* tick.
PullOrSkip(f) ==
  /\ At(f, "pull")
  /\ pullTick' = [pullTick EXCEPT ![f] = FALSE]
  /\ Goto(f, IF pullTick[f] THEN "page" ELSE "nodes")
  /\ nodes' = [nodes EXCEPT ![f] = IF pullTick[f] THEN @ ELSE Tail(@)]
  /\ UNCHANGED <<page, up, refreshTick, extracted, received, result>>

Pull(f) ==
  /\ At(f, "pull")
  /\ pullTick[f]
  /\ pullTick' = [pullTick EXCEPT ![f] = FALSE]
  /\ Goto(f, "page")
  /\ UNCHANGED <<page, up, refreshTick, nodes, extracted, received, result>>

\* The article a is extracted from the page of the first node.
Extract(f, a) ==
  /\ nodes' = [nodes EXCEPT ![f] = Tail(@)]
  /\ extracted' = [extracted EXCEPT ![f] = a]
  /\ Goto(f, "send")
  /\ UNCHANGED <<page, up, refreshTick, pullTick, received, result>>

GetArticlePage(f) ==
  /\ At(f, "page")
  /\ Head(nodes[f]) \notin Unreadable
  /\ Extract(f, Head(nodes[f]))

GetOtherPage(f) ==
  /\ CanFail("other")
  /\ At(f, "page")
  /\ Extract(f, Blank)

GetArticlePageFails(f) ==
  /\ CanFail("page")
  /\ At(f, "page")
  /\ nodes' = [nodes EXCEPT ![f] = Tail(@)]
  /\ Goto(f, "nodes")
  /\ UNCHANGED <<page, up, refreshTick, pullTick, extracted, received, result>>

\* OnTitle, OnPreface, OnPublishDate or OnInfo follows a nil Next.
Panic(f) ==
  /\ At(f, "page")
  /\ Head(nodes[f]) \in Unreadable
  /\ Exit

\* A variant: the channel has a buffer of one that the next send overwrites.
SendOver(f) ==
  /\ At(f, "send")
  /\ received' = [received EXCEPT ![f] = extracted[f]]
  /\ extracted' = [extracted EXCEPT ![f] = NoArticle]
  /\ Goto(f, "nodes")
  /\ UNCHANGED <<page, up, refreshTick, pullTick, nodes, result>>

\* n.ArticleChan <- article, once the publisher is back at its range.
Send(f) ==
  /\ At(f, "send")
  /\ received[f] = NoArticle
  /\ received' = [received EXCEPT ![f] = extracted[f]]
  /\ extracted' = [extracted EXCEPT ![f] = NoArticle]
  /\ Goto(f, "nodes")
  /\ UNCHANGED <<page, up, refreshTick, pullTick, nodes, result>>

-----------------------------------------------------------------------------
\* The publisher.

\* The publication is accepted, or refused because no stream has its subject:
\* js.Publish returns an error then, which is logged.
Publish(f) ==
  /\ received[f] # NoArticle
  /\ received' = [received EXCEPT ![f] = NoArticle]
  /\ result' = [result EXCEPT ![f] =
                  IF received[f] \in Unroutable THEN "refused" ELSE received[f]]
  /\ UNCHANGED <<page, up, pc, refreshTick, pullTick, nodes, extracted>>

\* No answer in time; whether the stream has the article is not known.
PublishFails(f) ==
  /\ CanFail("publish")
  /\ received[f] # NoArticle
  /\ received' = [received EXCEPT ![f] = NoArticle]
  /\ result' = [result EXCEPT ![f] = "timeout"]
  /\ UNCHANGED <<page, up, pc, refreshTick, pullTick, nodes, extracted>>

-----------------------------------------------------------------------------
ProcessorStep(f) ==
  \/ Refresh(f) \/ GetFeedPage(f) \/ ArticleNode(f) \/ FeedPageDone(f)
  \/ Pull(f) \/ GetArticlePage(f) \/ Panic(f) \/ Send(f)

FailureStep(f) ==
  \/ GetFeedPageFails(f) \/ FeedPageCutOff(f) \/ Hangs(f) \/ GetOtherPage(f)
  \/ GetArticlePageFails(f) \/ PublishFails(f) \/ CutOffInTag(f)

Next ==
  \/ StartWorker \/ Crash
  \/ \E f \in Feeds :
       \/ \E p \in Pages[f] : FeedChanges(f, p)
       \/ RefreshTicks(f) \/ PullTicks(f)
       \/ Launch(f) \/ ProcessorStep(f) \/ Publish(f) \/ FailureStep(f)

Spec == Init /\ [][Next]_vars

\* The clock goes on, and so does every goroutine that can.  Nothing starts
\* the worker, changes a site or makes a call fail.
Fairness ==
  \A f \in Feeds :
    /\ WF_vars(RefreshTicks(f)) /\ WF_vars(PullTicks(f))
    /\ WF_vars(Launch(f)) /\ WF_vars(ProcessorStep(f)) /\ WF_vars(Publish(f))

FairSpec == Spec /\ Fairness

-----------------------------------------------------------------------------
\* Properties.

\* What the worker holds of the feed, the oldest first.
InHand(f) ==
  AtMostOne(received[f], NoArticle) \o AtMostOne(extracted[f], NoArticle)
  \o Links(nodes[f])

\* Between the goroutine of the processor, its channel and the publisher no
\* article is lost, repeated or overtaken: as long as no call fails, a refresh
\* takes the links of the feed's page in hand, and what leaves the hand is its
\* first article, published or refused by the stream.
InOrder ==
  [][\A f \in Feeds :
       \/ FailureStep(f) \/ ~up'
       \/ InHand(f)' = InHand(f) /\ UNCHANGED result[f]
       \/ InHand(f)' = InHand(f) \o Links(page[f]) /\ UNCHANGED result[f]
       \/ /\ InHand(f) # <<>>
          /\ InHand(f)' = Tail(InHand(f))
          /\ result'[f] = IF Head(InHand(f)) \in Unroutable
                          THEN "refused" ELSE Head(InHand(f))]_vars

\* An article that stays on its feed is published again and again (so that its
\* statistics are refreshed), whatever ticks are lost, whatever else the feed
\* lists, and whatever happens to the other feeds: the worker has to stay up
\* and the calls for this feed have to stop failing, no more.
StaysPublished ==
  \A f \in Feeds, a \in Articles \ (Unroutable \cup Unreadable) :
    /\ <>[](up /\ ~At(f, "hung") /\ a \in ToSet(page[f]))
    /\ <>[][~FailureStep(f)]_vars
    => []<><<Publish(f) /\ received[f] = a>>_vars
=============================================================================
