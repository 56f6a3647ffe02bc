---------------------------- MODULE ArticleQuery ----------------------------
(***************************************************************************)
(* GET /api/v1/articles: the wrapper that reads the query parameters       *)
(* (article_wrapper.go), the handler behind it (handler/v1/article.go),    *)
(* the service methods (service/article.go), the count cache in the NATS   *)
(* key-value bucket (key_value.go) under the key of hashutils.go, and the  *)
(* page links of PaginationView, while the consumer adds articles.         *)
(*                                                                         *)
(* The handler of a request makes four calls that leave the process, in    *)
(* this order: the rows of the page, the cached count, the count, the      *)
(* store of the count.  One action is one call with what the code does on  *)
(* its result, so any number of requests and inserts interleave between.   *)
(*                                                                         *)
(* The text of a filter is cut at its blanks into lexems.  A lexem is the  *)
(* sequence of the words between its dots, for a dot is what the lexems    *)
(* are joined with for the key.  An article is what a filter tells apart:  *)
(* its date, and the lexems its texts match.  Nothing deletes an article   *)
(* or changes either.  The page size, a parameter of each request, is one  *)
(* constant.                                                               *)
(***************************************************************************)
EXTENDS PaginationView, FiniteSets, SequencesExt

CONSTANTS
  Readers,       \* clients, each with one request at a time
  Kinds,         \* what articles can be
  Filters,       \* the filters readers use
  AnyText,       \* the lexems of a filter that asks for no text
  PageSize,      \* the page_size parameter
  Faults,        \* the calls that may fail
  MaxArticles    \* bound: articles ever stored

ASSUME QueryAssumption ==
  /\ PageSize \in Nat \ {0}
  /\ MaxArticles \in Nat
  /\ Faults \subseteq {"rows", "get", "count", "put"}
  /\ \A f \in Filters : f = [dates |-> f.dates, lexems |-> f.lexems]
  /\ \A k \in Kinds : k = [day |-> k.day, lexems |-> k.lexems]

VARIABLES
  articles,       \* table articles
  kv,             \* the bucket: per key the count stored, NoCount if none
  pc,             \* per reader: the call its request is about to make
  request,        \* per reader: the filter and the page asked for
  articlesCount,  \* per reader: the count of the database, not yet stored
  answers         \* per reader: what was written to its ResponseWriter

handlerVars == <<pc, request, articlesCount, answers>>
vars == <<articles, kv, handlerVars>>

\* No count: none in the bucket, or GetArticlesCount failed and returned -1.
NoCount == -1

\* A variant: every filter has the same key.
KeyOfNothing(filter) == AnyText

\* GetCacheKey: the key made of the dates is overwritten by the one made of
\* the lexems, joined with dots; hashed, which keeps keys apart.
GetCacheKey(filter) == FlattenSeq(filter.lexems)

CacheKeys == {GetCacheKey(f) : f \in Filters}

\* The WHERE clause that Articles and GetArticleCount share: every lexem is
\* asked for.
Matching(filter) ==
  {id \in DOMAIN articles :
     /\ articles[id].day \in filter.dates
     /\ \/ filter.lexems = AnyText
        \/ \A i \in DOMAIN filter.lexems : filter.lexems[i] \in articles[id].lexems}

\* Does the page of the filter have a row?  A page below 1 is a negative
\* OFFSET, which is an error of the database.
HasRows(filter, page) ==
  page >= 1 /\ (page - 1) * PageSize < Cardinality(Matching(filter))

\* Errors are sets of names: errors.Join makes one error of several.
\* articleErrHandler compares the error with == and so recognises no joined
\* one.
StatusOf(err) ==
  IF err \in {{"ErrArticlesNotFound"}, {"ErrArticleNotFound"}} THEN 404
  ELSE IF err = {"ErrUnsupportedQueryParam"} THEN 406
  ELSE 500

\* What is answered.  The number of pages a view was made of is noted beside
\* its links for the properties; the client is not told.
Error(err) == [status |-> StatusOf(err), err |-> err, total |-> 0, links |-> <<>>]
Page(total, links) == [status |-> 200, err |-> {}, total |-> total, links |-> links]

UnsupportedValue == {"ErrUnsupportedQueryParam", "unsupported query value"}
InvalidPage == {"ErrInvalidPage", "Total pages"}

Pages == 0 .. MaxArticles + 1

TypeOK ==
  /\ articles \in Seq(Kinds) /\ Len(articles) <= MaxArticles
  /\ kv \in [CacheKeys -> NoCount .. MaxArticles]
  /\ pc \in [Readers -> {"idle", "rows", "get", "count", "put"}]
  /\ request \in [Readers -> [filter : Filters, page : Pages]]
  /\ articlesCount \in [Readers -> NoCount .. MaxArticles]
  /\ \A r \in Readers : Len(answers[r]) <= 2 /\
       \A i \in DOMAIN answers[r] : answers[r][i].links \in Seq(Pages)

Init ==
  /\ articles = <<>>
  /\ kv = [k \in CacheKeys |-> NoCount]
  /\ pc = [r \in Readers |-> "idle"]
  /\ request \in [Readers -> [filter : Filters, page : {1}]]
  /\ articlesCount = [r \in Readers |-> NoCount]
  /\ answers = [r \in Readers |-> <<>>]

-----------------------------------------------------------------------------
\* The environment of the handler.

\* The consumer stores an article.
Insert(k) ==
  /\ Len(articles) < MaxArticles
  /\ articles' = Append(articles, k)
  /\ UNCHANGED <<kv, handlerVars>>

\* A variant: the bucket has no TTL.
NeverExpires(key) == FALSE /\ UNCHANGED vars

\* The TTL of the bucket runs out for the count under this key.
CacheExpires(key) ==
  /\ kv[key] # NoCount
  /\ kv' = [kv EXCEPT ![key] = NoCount]
  /\ UNCHANGED <<articles, handlerVars>>

-----------------------------------------------------------------------------
\* The handler.
\*
\* A call fails where its failure shows.  A failed query of a page that has no
\* rows, a failed read of a count that is not there, and a store whose answer
\* is lost or that would have changed nothing end like the calls that succeed,
\* and are those steps.

At(r, here) == pc[r] = here
Goto(r, there) == pc' = [pc EXCEPT ![r] = there]
CanFail(call) == call \in Faults

\* Something is written to the client of r.
Write(r, answer) == answers' = [answers EXCEPT ![r] = Append(@, answer)]

\* The wrapper reads the parameters of a request.  An unsupported sorting is
\* answered, but the wrapper goes on; it calls the handler.
OnSorting(sortable) == IF sortable THEN <<>> ELSE <<Error(UnsupportedValue)>>

GetArticlesWrapper(r, filter, page) ==
  /\ At(r, "idle")
  /\ request' = [request EXCEPT ![r] = [filter |-> filter, page |-> page]]
  /\ \E sortable \in BOOLEAN :
       answers' = [answers EXCEPT ![r] = OnSorting(sortable)]
  /\ Goto(r, "rows")
  /\ UNCHANGED <<articles, kv, articlesCount>>

\* A date, a page or a page size it cannot read it answers at once.
UnreadableQuery(r) ==
  /\ At(r, "idle")
  /\ \E sortable \in BOOLEAN :
       answers' = [answers EXCEPT ![r] =
                     Append(OnSorting(sortable), Error(UnsupportedValue))]
  /\ UNCHANGED <<articles, kv, pc, request, articlesCount>>

\* A variant: the handler goes on after the answer.
NotFoundGoesOn(r) == Write(r, Error({"ErrArticlesNotFound"})) /\ Goto(r, "get")

NotFound(r) == Write(r, Error({"ErrArticlesNotFound"})) /\ Goto(r, "idle")

\* Service GetArticles: the rows of the page.  An error of the database is
\* answered like a page without rows.
GetArticles(r) ==
  /\ At(r, "rows")
  /\ \/ /\ HasRows(request[r].filter, request[r].page)
        /\ Goto(r, "get")
        /\ UNCHANGED answers
     \/ /\ ~HasRows(request[r].filter, request[r].page)
        /\ NotFound(r)
  /\ UNCHANGED <<articles, kv, request, articlesCount>>

GetArticlesFails(r) ==
  /\ CanFail("rows")
  /\ At(r, "rows")
  /\ HasRows(request[r].filter, request[r].page)
  /\ NotFound(r)
  /\ UNCHANGED <<articles, kv, request, articlesCount>>

\* The handler has a count (-1 if GetArticlesCount failed: the error is
\* overwritten by the next one) and answers with the links made of it.
Answer(r, count) ==
  LET total == TotalPages(count, PageSize)
      page  == request[r].page
  IN  /\ articlesCount' = [articlesCount EXCEPT ![r] = NoCount]
      /\ Write(r, IF IsInvalidPage(total, page) THEN Error(InvalidPage)
                                                ELSE Page(total, PagesLinks(total, page)))
      /\ Goto(r, "idle")

\* GetArticlesCount: the cached count, if there is one.
KvGet(r) ==
  /\ At(r, "get")
  /\ LET count == kv[GetCacheKey(request[r].filter)] IN
       \/ /\ count # NoCount
          /\ Answer(r, count)
       \/ /\ count = NoCount
          /\ Goto(r, "count")
          /\ UNCHANGED <<answers, articlesCount>>
  /\ UNCHANGED <<articles, kv, request>>

KvGetFails(r) ==
  /\ CanFail("get")
  /\ At(r, "get")
  /\ kv[GetCacheKey(request[r].filter)] # NoCount
  /\ Goto(r, "count")
  /\ UNCHANGED <<articles, kv, request, articlesCount, answers>>

GetArticleCount(r) ==
  /\ At(r, "count")
  /\ articlesCount' = [articlesCount EXCEPT ![r] =
                         Cardinality(Matching(request[r].filter))]
  /\ Goto(r, "put")
  /\ UNCHANGED <<articles, kv, request, answers>>

GetArticleCountFails(r) ==
  /\ CanFail("count")
  /\ At(r, "count")
  /\ Answer(r, NoCount)
  /\ UNCHANGED <<articles, kv, request>>

\* The count is stored under the key, and the request is answered with it.
KvPut(r) ==
  /\ At(r, "put")
  /\ kv' = [kv EXCEPT ![GetCacheKey(request[r].filter)] = articlesCount[r]]
  /\ Answer(r, articlesCount[r])
  /\ UNCHANGED <<articles, request>>

KvPutFails(r) ==
  /\ CanFail("put")
  /\ At(r, "put")
  /\ kv[GetCacheKey(request[r].filter)] # articlesCount[r]
  /\ Answer(r, articlesCount[r])
  /\ UNCHANGED <<articles, kv, request>>

HandlerStep(r) ==
  \/ GetArticles(r) \/ KvGet(r) \/ GetArticleCount(r) \/ KvPut(r)

FailureStep(r) ==
  \/ GetArticlesFails(r) \/ KvGetFails(r) \/ GetArticleCountFails(r)
  \/ KvPutFails(r)

Next ==
  \/ \E k \in Kinds : Insert(k)
  \/ \E key \in CacheKeys : CacheExpires(key)
  \/ \E r \in Readers :
       \/ \E f \in Filters, p \in Pages : GetArticlesWrapper(r, f, p)
       \/ UnreadableQuery(r) \/ HandlerStep(r) \/ FailureStep(r)

Spec == Init /\ [][Next]_vars

\* A request that is being handled goes on, and the bucket keeps its TTL.
\* Nothing makes a reader ask or an article appear.
Fairness ==
  /\ \A r \in Readers : WF_vars(HandlerStep(r))
  /\ \A key \in CacheKeys : WF_vars(CacheExpires(key))

FairSpec == Spec /\ Fairness

-----------------------------------------------------------------------------
\* Properties.

\* Every answer with page links, and the number of pages it was made of.
PagesShown(r) == {i \in DOMAIN answers[r] : answers[r][i].status = 200}
TotalShown(r, i) == answers[r][i].total

\* The filters whose text reads the same once its blanks are dots, whatever
\* their dates: the program keeps one count for all of them.
Confusable(filter) ==
  {f \in Filters : FlattenSeq(f.lexems) = FlattenSeq(filter.lexems)}

\* A page of articles is asked for, counted and linked by separate calls,
\* with a count that may be two minutes old.  Still, every link on it leads to
\* a page that has articles, now and later, of its filter or of one that is
\* confused with it.
LinksLeadToArticles ==
  \A r \in Readers : \A i \in PagesShown(r) :
    \A page \in Linked(answers[r][i].links) :
      \E f \in Confusable(request[r].filter) : HasRows(f, page)

\* From every page the neighbours are one link away, so that every page the
\* view was made of can be reached from any other.
NeighboursAreLinked ==
  \A r \in Readers : \A i \in PagesShown(r) :
    WindowLinked(answers[r][i].links, TotalShown(r, i), request[r].page)

\* A view goes from the first page to the last one, and where it leaves pages
\* out it says so.
GapsAreMarked ==
  \A r \in Readers : \A i \in PagesShown(r) :
    GapsMarked(answers[r][i].links, TotalShown(r, i))

\* Once articles stop coming, the count in the bucket is gone or right in the
\* end, and stays so, for its filter or for one that is confused with it: no
\* slow request puts an old count back for ever.
StaleCountsDie ==
  \A filter \in Filters :
    <>[](kv[GetCacheKey(filter)] \in
           {NoCount} \cup {Cardinality(Matching(f)) : f \in Confusable(filter)})

\* A page whose rows were read is answered with "invalid page." only for a
\* time: once articles stop coming and counting no longer fails, the wrong
\* count behind such an answer is gone, unless it is right for a filter that
\* is confused with the request's (handler/v1/article.go:40-52).
RefusalsEnd ==
  <>[][\A r \in Readers : ~GetArticleCountFails(r)]_vars =>
    <>[][\A r \in Readers :
           /\ Len(answers'[r]) > Len(answers[r])
           /\ Last(answers'[r]).err = InvalidPage
           => \E f \in Confusable(request[r].filter) : ~HasRows(f, request[r].page)]_vars
=============================================================================
