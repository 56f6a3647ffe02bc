# news-tracker in TLA+

news-tracker collects articles from news sites. A **worker** polls the feeds,
parses each article page and publishes the article on a NATS JetStream stream;
any number of **backends**, members of one queue group, consume the stream into
PostgreSQL and serve the articles over HTTP with a page-link view and a count
cache in a NATS key-value bucket.

```
 sites --HTTP--> worker: feed processor -> parser -> extractors -> publisher
                                                                     |
                                        JetStream stream ARTICLES  <-+
                                                  | queue group
 readers <--HTTP-- backend: API <-- PostgreSQL <-- backend: article consumer
                     |
                     +-- key-value bucket "articles" (counts)
```

The repository has no tests. The specifications below are the statement of what
the code does between its calls, which of its promises hold, and which do not.

## 1. Inventory

| Component (source) | State | Operations | Hard behaviour | What makes it correct |
|---|---|---|---|---|
| Article stream (`pkg/natsinfo/streams.go`, nats-server) | messages, acknowledgements, AckWait timers, delivery buffers | publish, deliver, redeliver, ack | redelivery races a slow handler; MaxAckPending | a message goes only when acknowledged |
| Article consumer (`backend/internal/worker`, `backend/internal/service`, `backend/pkg/txutils`) | handler locals per backend | unmarshal, lookup, create (insert, images, attachments in a transaction wrapper), update, ack | each call is a separate statement; every call fails or the process dies between any two; several backends | no article twice, none lost, images complete, every message retired |
| Article tables (`backend/migrations`, `storage/queries`) | articles, images, article_images | six statements | no uniqueness of title and origin | rows refer to rows |
| Article read API (`backend/internal/handler/v1`, `service`, `pkg/hashutils`) | one request per goroutine; the bucket | parameters, rows, cached count, count, store count, links | four calls, articles and other requests in between; stale counts; failing calls | links lead somewhere; errors mean what they say |
| Page links (`pkg/paginationutils`) | none | links of a page | boundaries | neighbours linked, gaps marked |
| Accessor and model (`backend/internal/accessor`, `model`) | none | articles from rows | rows without images | the list and the single article agree |
| HTML parser, tree building (`worker/pkg/parser` without the tokenizer) | a stack, counters and a root per selector | open, text, close | concurrent selectors; lost and misplaced close tags | nothing collected is lost, repeated or reordered; a tree ends with its element |
| HTML tokenizer (`worker/pkg/parser/tokenizer.go`, `token/`) | buffer, cursors, script state | read, next token | chunk boundaries, end of input | the tokens do not depend on how the page arrives |
| News feed processor (`worker/internal/prebuiltemplate`, `worker/main.go`) | two tickers, the article channel, extractors | refresh, pull, extract, send, publish | ticks and a blocked channel; failing fetches and publications; panics | what stays on the feed gets published |
| Batch execution (`pkg/executils`) | semaphore, index channel, wait group | run all | channel closed by its owner | each value once, returns when all are done |
| Messages, subjects, dates (`pkg/natsinfo/models.go`, `streams.go`, `pkg/dateutils`) | none | marshal, unmarshal, subject, parse | relative dates, two-digit years, dots in titles | what is published is what is read |
| Start-up (`pkg/natsinfo/config.go`, `utils.go`, the two `main.go`) | connection, stream, consumer, bucket | connect and wait, create or update | timer against connection; consumer beside the HTTP listener; what an older version left | nobody works with a stream or a consumer of an older version, or without a bucket |
| Prepared statements, environment, flags, packaging | - | - | none | not modelled (section 6) |

`PROJECT.json` lists the components with their status, and under `hazards` the
line at which each hard behaviour bites and the properties that speak of it.

## 2. Modules

### The consumer

* **`ArticleStream`** is the stream and its durable push consumer as
  `streams.go` configures them; JetStream itself is external. Messages are
  sequence numbers; `DeliverNew`, `Redeliver`, `AckWaitExpires` and `Remove` are
  its moves. The clock is abstracted: AckWait may run out at any moment, because
  nothing bounds how long a message waits in a subscription buffer or a handler.
* **`ArticleStore`** is the three tables, one operator per statement. A row's id
  is its position. `ILIKE '%' || title || '%'` is the relation `TitleMatches`, a
  constant, so that a run or a theorem can say what it assumes of it; an empty
  title matches everything, as in the query.
* **`ArticleConsumer`** composes the two with the handler: `pc[b]` is the call
  the handler of backend `b` is about to make, and each action is one call with
  what the code does on its result. A failing statement may have taken effect or
  not. `Faults` says which calls may fail. Three facts of the code shape it:
  the closure given to `WithTransaction` uses `s.queries`, not the transaction,
  so commit and rollback change no table (`EndTransaction`); the deferred
  function replaces the closure's error by the rollback's result, so a failed
  creation is acknowledged; an unreadable message is acknowledged and then
  handled all the same (`Reject` goes on to the lookup).
* **`ArticleLedger`** is the abstract specification: a set of entries, one per
  title and origin, each holding what some message said, written before a
  message of that article is retired. `ArticleConsumer` implements it with
  `posted <- stream`, `retired <- acked`, `entries <- Range(articles)`. It
  deliberately does not promise the newest statistics.
* **`ArticleConsumer_proofs`** holds the theorems (section 5),
  `MCArticleConsumer` the instances.

### The read API

* **`PaginationView`** is `paginationutils.go` as operators over page numbers;
  `cursorPadding` is the constant `CursorPadding`, 1 in the program.
* **`ArticleQuery`** is `GET /articles`: `GetArticlesWrapper` (parameters),
  `GetArticles` (rows), `KvGet`, `GetArticleCount`, `KvPut` (the count), and the
  answer made of `PagesLinks`. Consumers insert articles (`Insert`) and the TTL
  of the bucket runs out (`CacheExpires`) between any two of these. A lexem of
  the text is the sequence of the words between its dots, because the key of the
  count is the lexems joined with dots (`GetCacheKey`): "storm sea" and
  "storm.sea" share one, and so do filters that differ in their dates only
  (`Confusable`). A failing call is an action of its own only where its failure
  shows; one that ends as its success does, like a failing read of a count that
  is not there, is the other action. An error is
  the set of the errors joined in it, because `articleErrHandler` compares with
  `==`. `answers[r]` is what was written to the client; two entries mean two
  answers in one response, and `total` notes the number of pages a view was made
  of, which the properties measure it against. `MCArticleQuery` holds the instances, and
  **`ArticleQuery_proofs`** the theorems, those about views first.
* **`ArticlePages`** is what is on the pages: the order of the query, which is
  free among articles of one date, LIMIT and OFFSET, the images of a row as the
  accessor makes them of the joined JSON, and `GET /articles/{id}` with its
  statuses. `session[r]` is the list a client turns the pages of, `opened[r]`
  the answer it looks at. Meanwhile creations insert articles and attach their
  images one at a time, main image first (which `ArticleConsumer` guarantees,
  `MainImageFirst`), and the clock makes articles dated ahead visible.
  **`ArticlePages_proofs`** holds the theorems.
* **`Dates`** is `dateutils.go` as operators over minutes, with the calendar of
  package `time`: dates of a page, of a message, of a query, of an answer.
* **`ArticleDates`** follows one date from the site's page (`Shown`) through
  `OnPublishDate`, the message and `NewArticle` to the list (`Listed`), while
  the program's clock goes on. `DateRead` is the date the site meant as of the
  day on which the page was read: "today" on a page that was made yesterday is
  read as today. `MCArticleDates` holds the instance, **`ArticleDates_proofs`**
  the theorems, those about the calendar first.

### The parser

* **`OpenTag`** is the unmarshalling of tags: the cursor readers of `token/` as
  searches in a sequence of symbols. A reader that runs off the end panics in
  the code and is `Unreadable` here.
* **`Tokenizer`** is `tokenizer.go` over a reader that gives any number of
  bytes at a time, none included, and ends or breaks off anywhere, with or
  without bytes (`ReadBytes`, `ReadNothing`, `ReadFails`). `buf`, `bufCap`,
  `reader` and `data` are the buffer and the two cursors; `pc` says where the
  run of `Next` is between two bytes. `Expected` is the abstract reading: what
  the selectors are to be handed, made of the page's pieces alone, one piece
  after the other (`ReadPiece`, `Readings`). `PiecesAssumption` says what a
  piece is: a tag or a comment from its `<` to the only `>` in it, a tag that
  reads as its token when it is read alone, or text in which no `<` makes a tag,
  whatever text is before it and behind it. `MCTokenizer` holds the instance,
  `Parser_proofs` the theorems.
* **`AstGenerator`** is the stack of `ast_generator.go`. A node has one link,
  `Next`, so a tree is a chain and a stack entry is the chain that starts at
  its node.
* **`Parser`** is `Parse` with class selectors: a token is handed to every
  selector in a goroutine of its own (`wg`), and the next one is read when all
  are done. Documents are arbitrary token sequences; comments reach no selector
  and are left out, and an open tag says which selectors its class satisfies.
* **`Extractor`** extends `Parser` by what the worker does with a tree: the
  functions of `article.go`, run in the selector's goroutine when a close tag
  completes a tree (`TreeComplete`). A field holds the positions of the tokens
  it was made of (a date that could not be read, and is the time of day instead,
  those of none). `panicked` is the panic of one that follows a `Next` that is
  nil (`FollowsNil`), or of the one that gives `ParseDateUA` a text whose time
  has no colon (`DatePanics`); a token says which of these a text would be as a
  date. `MCParser` holds the instance, **`Parser_proofs`** the theorems about
  both and about `Tokenizer`, on the lemmas about sequences of
  **`SequenceLemmas`**.
* **`TreeCollector`** is the abstract selector: it takes the tokens in order and
  hands over, at some close tag, everything it collected since its root, in
  document order. Each selector of `Parser` implements it.

### The worker

* **`NewsFeed`** is `newsfeed.go` and the publisher of `worker/main.go`: `pc[f]`
  is what the processor of feed `f` waits for, `received[f]` is what its
  publisher holds, and the unbuffered channel is the rendezvous `Send`. A ticker
  is one Boolean, because its channel holds one tick. `Exit` is a panic in a
  goroutine or a crash: docker-compose has no restart policy, so `StartWorker`
  is an action of the operator. `result[f]` is what `js.Publish` returned last;
  a publication whose answer is lost counts as failed. `MCNewsFeed` holds the
  instance, **`NewsFeed_proofs`** the theorems.

### Processes

* **`BatchExec`** is one call of `executils.BatchExec`: the caller, the
  dispatcher, the pool of tokens, the wait group and the goroutines of the
  callbacks, with the two channels the caller closes when it returns.
* **`Startup`** extends it by the start of the program: any number of backends
  and the worker wait for NATS (`SelectTicker`, `SelectTimer`), create or update
  what they need there, in the order in which fx builds the parameters of
  `main`, and go on to serve, to consume, or to call BatchExec over the feeds.
  `at[r]` is the call a routine is about to make; a backend has two routines,
  because `articleConsumerWorker.start` runs in a goroutine of its own. `found`
  is what is on the server, which may be the work of an older version, the bucket
  included, which is attached to as it is. A call that fails ends the process
  (`CallFails`), and NATS comes and goes. An error of `NewNatsConnection` ends a
  backend, whose `Run` returns, but not the worker: it waits on
  `fx.New(...).Wait()`, so it is left waiting for a signal (`StartRefused`).
* **`Startup_proofs`** holds the theorems about both.

A definition marked *a variant* in a comment is a mutated form of the definition
behind it; it belongs to no specification and is used by the `mutants` of
`PROJECT.json` to show that a property can fail.

## 3. Runs

Passing runs (TLC explores the whole state space of the instance):

| Run | Question | Bounds, and why they are enough |
|---|---|---|
| `consumer_faults` | Is an article ever stored twice, or with images and not exactly one main image? How many image rows leak? Is every message retired? | 1 backend, 3 messages of an illustrated article and a badly dated one, buffer 1, MaxAckPending 2, every fault and crash, a title that is part of another. A message can be in the handler and due again at once, one more waits in the buffer, and new ones wait for MaxAckPending. |
| `consumer_ledger` | Does the system implement the ledger? Is a message ever acknowledged without its article stored? | 1 backend, 2 messages out of four, among them two refreshes of one article and junk; creations do not fail. |
| `parser` | Is anything a selector collects lost, repeated or reordered? Is a tree handed over exactly at its root's close tag? Do the fields of an article hold what is in their elements, and when does an extractor panic? | Every document of 6 tokens over three element names, one of them void, and texts that read as a date, do not, or make the reading panic; two selectors, which share the seven field types. `StopsAtRootClose`, `CompletesAtRootClose` and `OnlyMissingPartsPanic` have as premise that the document read so far is well formed (`WellFormed`: each close tag has the name of the element that it ends, the innermost one that is open and not void); 6 tokens give two trees one after the other and elements three deep. |
| `query_links` | Does a page link ever lead to a page without articles? Does the bucket get rid of wrong counts? Is a page that has articles refused for ever? | 2 readers, 2 articles in pages of 1, every fault; a filter for everything, and two that share a key, for "storm sea" on either day and "storm.sea" on Monday. Two readers make a slow request store an old count after a new one, and the count of one filter answer the other. |
| `newsfeed` | Are articles published in the order of the page? Is what stays on a feed published again and again? | 2 feeds with pages of up to three nodes that change, an article the stream refuses, one whose extraction panics, every fault, hangs, crashes of the worker. The second feed is there to fail, hang or panic while the first one goes on. |
| `query_views` | Are neighbours linked, and gaps marked up to the last page? | 1 reader, up to 15 articles in pages of 2: all views of up to 8 pages, with every count the cache can hold; from 7 pages on every shape of a view occurs. |
| `tokenizer` | Do the selectors get the same tokens however the page arrives? Does `Next` end? | Every page of up to 3 pieces out of 7 (tags with and without attributes, a script, a comment, text, a `<` that is text), in every cut into reads, empty reads included, broken off at every byte. The first buffer holds 3 bytes, so that it is moved within itself and into a larger one several times, in every state. |
| `article_dates` | Is the date of an article the one the site gives it, as of the day it was read, if two digits can tell its year? Does asking for the day shown find it? Is it listed in the end? | The nights before 1 March of a leap year and before a New Year, a site two hours ahead, publications around both midnights and at the edges of what two digits can tell, and six texts that are no date. |
| `article_pages` | Does a reader who turns page after page miss an article? Can what is listed be opened? | 1 reader, 3 articles of up to 3 dates with up to 2 images, pages of 1, both sortings. Three articles are one read, one that comes in before or after it, and one to come. |
| `startup` | Does anybody work with what is not set up, wait for ever or start by half? Does every feed start? | 2 backends, the worker with 2 feeds, a server that holds any mixture of older and current things. Two backends suffice for two processes in one create-or-update; the worker is a third. |

Runs that refute something the repository says (each is a finding of
`PROJECT.json`, with the line quoted there):

| Run | What the code does |
|---|---|
| `main_image_required` | A crash between the inserts leaves an article without its main image for good. |
| `failed_creation_acked` | A failed insert is rolled back, reported as success and acknowledged: the article is lost. |

More things the models show, about which the repository says nothing:

* The `:one` lookup selects every article whose title contains the title
  (`MatchingIDs`); with two backends an article is stored twice when both look
  it up before either inserts it.
* Filters that differ in their dates share a count, because the key made of the
  dates is overwritten, and so do texts that differ in blanks and dots
  (hashutils.go:17-18). A link of one may lead to a page that is empty for it;
  `LinksLeadToArticles`, `StaleCountsDie` and `RefusalsEnd` say that it is at
  least right for a filter that shares the key.
* Of an older bucket the backend keeps the configuration, its TTL included
  (utils.go:31-38), while an older stream or consumer is updated.
* A worker whose `NewNatsConnection` returns an error neither works nor ends.
* A page whose rows were just read is answered with "invalid page." when the
  count in the bucket is older. `RefusalsEnd` says that this passes.
* An error of the page query is answered like a page without rows
  (`GetArticlesFails`); an unsupported sorting is answered with status 500 and
  then with the articles (`GetArticlesWrapper` goes on).
* On page 2 of 3 the view is `1 ... 1 2 3`.
* A reader may see an article on two pages, when others come in before it; and
  an article listed before its first image is attached cannot be opened (500).
* In a document that is not well formed, a close tag whose name is still counted
  unwinds the stack down to the root and ends the tree early: the text behind it
  is lost. `FieldsHoldTheElement` says what is in a tree up to there.
* A title whose text is one element deeper is empty (`Content(tree[2])`). A page
  that breaks off within a tag, an empty title or date, and a date whose time has
  no colon each take the worker down.

`CHECK_DEADLOCK FALSE` is set where the system comes to rest: messages are
bounded in the runs of the consumer, documents in `parser` and `tokenizer`, and
the clock in `article_dates`. The others are checked for deadlock.

## 4. Fairness

`consumer_faults` (`FairSpec`) assumes weak fairness of delivery, of each AckWait timer
(both are what JetStream does by itself) and of a handler's own next step (the
goroutine of the subscription runs). It does not assume that a call ever
succeeds, that a message is published or that a process starts. The property
`EveryMessageRetired` has these as its premise: from some moment on no call
fails and some backend is up. Weak fairness is enough because an expired message
is delivered before new ones and stays due until it is.

`query_links` assumes weak fairness of a request's own steps and of the TTL,
which is that of a bucket made by this version of the program (key_value.go).
Failing calls are allowed for ever: a count that cannot be stored is no wrong
count. Nothing makes a reader ask. `RefusalsEnd` has as premise that counting
stops failing; without a count every page is refused. All other calls may fail
for ever, and requests go on being made and answered.

`newsfeed` assumes weak fairness of the two tickers of a feed, of its processor
and of its publisher (goroutines that can go on do), and of `Launch` (BatchExec
starts every callback). `StaysPublished` has as premise, for one feed: the worker
stays up, the feed's site does not hang, from some moment on its calls do not
fail, and the article stays on the page. Nothing is assumed of the other feed.

`tokenizer` assumes weak fairness of the tokenizer's own steps and strong
fairness of a read that gives bytes and of the end of the input once all bytes
were given: a connection that is read again and again delivers or ends. Strong,
because reading is enabled only while the buffer is empty, and empty reads come
in between.

`article_dates` assumes weak fairness of the clock only. `startup` assumes weak
fairness of each routine's next step (a timer runs out, a call returns, with or
without an error), and of the caller and the dispatcher of BatchExec. It does
not assume that NATS or a process is ever started, nor that a callback returns:
the worker's never do.

## 5. Proofs

Every theorem is about the specification of its module with arbitrary constants:
any number of backends, readers, feeds, selectors, messages, articles and pages,
any set of calls that fail. The specification is `Spec`, but `FairSpec` in
`ArticleDates`, `ExtractorSpec` where extractors are spoken of, and
`TokenizerSpec`. The
assumptions on constants are those named in the modules (`StreamAssumption`,
`StoreAssumption`, `ConsumerAssumption`, `QueryAssumption`, `ParserAssumption`
and so on), and what a theorem needs beyond them is in its ASSUME.

| Theorem | Beyond the assumptions on constants | Inductive invariant |
|---|---|---|
| `ArticleConsumer_proofs` | | |
| `TypeCorrect`: `[]TypeOK` | nothing | `TypeInv` adds, per handler, which of `cur`, `articleID`, `imageID` are set at which call and that an image is left to insert (`HandlerOK`); without it the ids inserted need not be rows |
| `NeverTwice`: `[]NoDuplicateArticle` | one backend; a title matches itself | a handler between its lookup and its insert still has no matching row (`StillMissing`); with one backend nobody else inserts |
| `NothingLost`: `[]AckedIsStored` | creations do not fail; a title matches no other title, and no article has an empty title unless all of its origin have | a handler past the lookup holds the row of its own message (`InHand`), and rows keep title and origin (`RowsStay`); any number of backends |
| `ImplementsLedger`: `LedgerSpec` | the assumptions of both | both invariants; an insert is a `Record` that replaces nothing, an update a `Record` of the one entry, an ack a `Retire`, everything else stutters |
| `OneMainImage`: `[]MainImageFirst` | nothing | an article is created by one handler only (`OneCreator`), which has attached the main image if it has attached anything (`MainGoesFirst`) |
| `NoImageLeak`: `[]OneOrphanPerCreation` | nothing | `OrphansInv`: orphans and handlers that are about to insert an image are together no more than articles, and each handler that is about to attach one holds an orphan of its own |
| `ArticleQuery_proofs` | | |
| `QueryTypeCorrect`: `[]TypeOK` | nothing | `QueryInv`: an answer is an error or the view of a page that its total allows; a request that is not done has been answered once at most |
| `LinksLead`: `[]LinksLeadToArticles` | nothing | `CountInv`: no count, in the bucket, in a request or behind an answer, is above the number of articles of some filter with its key, which only grows (`CountGrows`) |
| `NeighboursLinked`: `[]NeighboursAreLinked` | `CursorPadding = 1` | `QueryInv`, and `ViewPart`: which pages the view of a page links |
| `GapsMarkedInViews`: `[]GapsAreMarked` | `CursorPadding = 1` | `QueryInv`, and `ViewUnbroken`: each part of a view is unbroken and the parts meet |
| `ArticlePages_proofs` | | |
| `TypeCorrect`: `[]TypeOK` | nothing | `PagesInv`, which is `TablesInv` and, per reader, `SessionInv`, `SkipsNothing`, `AnswerInv` |
| `PagesSkipNothing`: `[]NothingSkipped` | nothing | `SkipsNothing`: an article of the start that was not shown is at a place behind the pages that were turned; inserted articles move it down only, and one with a date of its own stands at the same place in every order the query may choose |
| `ListedOpens`: `[]OpensAsListed` | nothing | `SessionInv`: a row shows the article with some of the images it has now (`RowAgrees`), which only grow, main image first |
| `Parser_proofs` | | |
| `TypeCorrect`: `[]TypeOK`, `OpenTagsCounted`: `[]OpenTagsAreCounted` | nothing | `ParserInv`: documents (`DocumentInv`), and per selector that the root is at the bottom of the stack and only there, no counter is below its elements (`Sound`), and no node was made of a token not yet taken (`SelectorInv`) |
| `ImplementsCollector`: `CollectorSpec` | nothing | `ParserInv`; an append is `Take` of a wanted token, a close tag links the skipped entries (`CloseTagSound`: the chain it leaves, or hands over, is the chain there was), the goroutines of other selectors stutter |
| `CompletesAtClose`: `CompletesAtRootClose`, `StopsAtClose`: `[]StopsAtRootClose` | no tag has the name of the texts (`TextApart`) | `DocInv` adds `MatchInv`: while the document is well formed, the stack mirrors it (`Mirrors`) - its elements are the ones still open since the root, in order, the counters of names that are closed are exact, and the root's counter says how many of its name are open |
| `PanicsOnlyAtMissingParts`: `[]OnlyMissingPartsPanic` | `TextApart` | `ExtractorInv` adds `HeldInv`: a selector holds exactly the open tags and texts since its root (`Collected`), so a tree with few nodes is an element with few tokens, and its second node is what stands right behind its open tag |
| `FieldsOfAnyPage`: `FieldsHoldTheElement` | nothing | `TreesInv`, that is `ParserInv` and `HeldInv`: what a tree has of a name are the positions of that name since its root, and its second node is the first open tag or text behind it (`SecondNode`) |
| `TokenizerTypeCorrect`: `[]TokenizerTypeOK` | nothing | `CursorInv`: the cursors and the buffer have their types, the capacity is never 0 (so a buffer that is doubled when more than half full has room), nothing is kept of a token before its kind is known, and a byte is looked at as the one behind a `<` only when there is one |
| `TokensArePages`: `[]TokensOfThePage` | nothing (but see `PiecesAssumption`) | `TokensInv` adds `BufferInv`: the buffer is the part of the page that was delivered last; and `ReadingInv`: for some number of pieces, all that these make is handed over (`Gathers`) but the text that is being read, or the reading is before, in, or skipping the next tag, whatever was moved meanwhile (`InText`, `InTag`) |
| `WholePageRead`: `[]WholePage` | nothing (but see `PiecesAssumption`) | `TokensInv`: where the delivered bytes end, so do the pieces, and only text can be left |
| `NewsFeed_proofs` | | |
| `TypeCorrect`: `[]TypeOK` | nothing | `NewsInv`: what a processor holds at which call (`Holds`): nodes while it works through a page, the first of them an article, an article while it sends it, nothing when the worker is down |
| `ArticlesInOrder`: `InOrder` | nothing | `NewsInv`; per step, `Ordered`: the links in hand stay, grow by a page read, or lose their head to the publisher |
| `ArticleDates_proofs` | | |
| `TypeCorrect`: `[]TypeOK` | nothing | `DatesInv`: the clock runs along one of its courses (`Courses`), a page shows what it might when it was made (`PageInv`), a message has the text of the date read (`MessageInv`), a row that date (`RowInv`) |
| `DateSurvivesTheWay`: `[]DateSurvives` | nothing | `DatesInv`, and that parsing what was formatted gives the minute back for the years 1969 to 2068 (`RoundTrip`) |
| `FoundByItsDay`: `[]FoundByShownDay` | nothing | `DatesInv`, and that every minute lies in the day that is shown for it, up to the next midnight |
| `Startup_proofs` | | |
| `StartTypeCorrect`: `[]TypeOK` | nothing | `StartInv` and `BatchInv`, below |
| `SetUpBeforeUse`: `[]WorksOnWhatItSetUp` | nothing | `StartInv`: the two routines of a backend live and die together, and what a routine has passed is on the server (`HasPassed`), where nothing becomes older again (`Grows`); of the bucket only that it is there |
| `ChannelsCloseLast`: `[]NoSendOnClosed` | nothing | `BatchInv`: indices are taken in order, so no goroutine is started twice; the wait group counts the indices sent and not done; a token is in the pool or with a goroutine; when the channels are closed nothing is under way |

The assumptions are not there for convenience: `failed_creation_acked` is what
happens if creations fail, a title contained in another one loses its article
without the condition on titles, and with two backends `NoDuplicateArticle`
fails. With a padding of 2 the views of the same code leave neighbours out. Without `TextApart` there could be an element `<TEXT_NODE>`: it
has the name that `Parse` gives its texts, so its close tag would close the
innermost text instead of the element. And a date is only kept in the years that
two digits tell: the year is written with its last two digits and read in the
window 1969 to 2068 (package `time`), so the premise of `DateSurvives` is about
the date as it was read. A premise about the date of publication was too weak,
as the proof showed: "today" on a page of the last night of 2068, read after
midnight, is a day of 2069.

`PiecesAssumption` is what makes "the tokens of the page" a meaningful thing to
say: of a `>` within an attribute the code makes the end of the tag, and then
what is behind it is text. It says nothing of how a page arrives or of what a
reading leaves in the state: that `<` and its next byte may be in different
reads, that a `<` at the end of a text meets the `<` of a tag, and what a script
makes of the open tags in it, are all part of what is proved. That a tag reads
as its token when it is read alone is a fact about `OpenTag` and not about the
buffer; TLC evaluates it for the pieces of the run.

The proofs about views need no induction: `PagesLinks` is the concatenation of
at most three parts, each a range of pages or one link with a placeholder, and
the lemmas of `ArticleQuery_proofs` say what a part links (`Part`), that it is
unbroken (`Unbroken`), and that both pass to concatenations.

The parser's proofs are about `FlattenSeq`, a recursive function over
sequences. The library's induction takes the induction hypothesis as an
operator, which the provers cannot instantiate; `SetInduction` takes it as a set
of numbers instead (a least number outside of it has a predecessor inside), and
on it `SequenceLemmas` proves that the function exists and what it does of an
append, a concatenation and a change of the last part, that every step function
has its iterates (`Iteration`), of which `Readings` are a case, and how parts of
a sequence are cut and joined (`IsPart`). The definitions proved
about are written with `FlattenSeq` of a function, not with folds or
`SelectSeq`: these take an operator.

What only TLC checks:

* The liveness properties, which are beyond the prover: `EveryMessageRetired`,
  `StaleCountsDie`, `RefusalsEnd`, `StaysPublished`, `Ends`, `ListedInTheEnd`,
  `NothingWaitsForever`, `NoHalfStart`, `AllFeedsStart`.
* What `OpenTag` makes of a tag: it is an assumption on the pieces, above.

All safety invariants and action properties of the runs are stated by a theorem,
and both refinements.

## 6. Not modelled

* A statement that is still running in PostgreSQL when its backend has died and
  the message has been delivered to another one: a crash happens between calls.
* Preface, content and dates of an article in the consumer; the narrowing of the
  viewers to 32 bits; column lengths (an insert that exceeds one is the fault
  `insert`).
* In the read API: `page_size` is a constant of a run; the text of an article
  and the URL of a link.
* The handler's second acknowledgement of an unreadable message, which nats.go
  refuses on the client side, is modelled as one that changes nothing.
* In the worker: the durations of the tickers; the subject of a message is only
  what `NewsFeed` tells apart, a title the stream takes or one it refuses.
* In the extractors: the URL prefix of images, the ignored sentences, numbers of
  viewers that are none, and two fields of one type in different selectors that
  complete at the same token (their goroutines would race for the field).
* In the parser: comments and attributes other than the class. The tokenizer has
  them; a run with more symbols would say nothing more.
* In the tokenizer: pages that are not made of such pieces, as one with a `>`
  within an attribute or a comment.
* At the start: a connection status that lags behind the server, which is a tick
  not taken or a call that fails; an update of the stream that the server
  refuses, which is a failing call; the settings of the database.
* `db.go`, whose `Prepare` nothing calls (`service.NewArticleSerivce` uses
  `New`); the flags of the worker, which are one JSON value decoded at start;
  environment, null helpers and packaging, which have no state.
* The components marked *not_modelled* in `PROJECT.json`, with the reasons there.

## 7. Plan

The set of runs is kept small: a new module takes over the slot of a run whose
question a theorem has settled or another run can ask as well.

1. `NewsPipeline`: `NewsFeed` composed with `ArticleConsumer` instead of its
   free `Publish`, so that every article that stays on a feed is stored in the
   end. The two meet only in `Publish`, which in `ArticleConsumer` may happen at
   any moment with any article, so safety carries over as it is; what the
   composition adds is one liveness property.
