---------------------------- MODULE ArticlePages ----------------------------
(***************************************************************************)
(* What a client of the read API sees of the articles: GET /articles, page *)
(* after page, and GET /articles/{id}, while creations add articles and    *)
(* attach their images one by one (module ArticleConsumer) and the clock   *)
(* makes articles dated ahead visible.                                     *)
(*                                                                         *)
(* A list is ordered by the date alone, and each query orders articles of  *)
(* one date as it likes.  The images of an article are numbered as they    *)
(* are attached, the main image first (ArticleConsumer!MainImageFirst); a  *)
(* creation that stops half way attaches no more of them.                  *)
(***************************************************************************)
EXTENDS Naturals, Sequences, SequencesExt, FiniteSetsExt

CONSTANTS
  Readers,      \* clients that turn pages
  LastTime,     \* bound: dates of articles and times of the clock
  Images,       \* the number of images of an article
  PageSize,     \* the page_size of their requests
  MaxArticles   \* bound: articles ever stored

ASSUME PagesAssumption ==
  /\ LastTime \in Nat \ {0}
  /\ Images \in Nat \ {0} /\ PageSize \in Nat \ {0} /\ MaxArticles \in Nat

VARIABLES
  articles,  \* table articles: per id the date, and how many images it has
  now,       \* the clock
  session,   \* per reader: the list it turns the pages of, and its page
  opened     \* per reader: the answer to GET /articles/{id}, while it looks

vars == <<articles, now, session, opened>>

Times == 1 .. LastTime
IDs == 1 .. MaxArticles + 1
Sortings == {"newest", "oldest"}
NoImage == 0

\* What a client sees of an article's images.
Views == [main : 0 .. Images, content : SUBSET (0 .. Images)]
NoView == [main |-> NoImage, content |-> {}]
NoAnswer == [id |-> 0, status |-> 0, view |-> NoView, failed |-> FALSE]

\* A reader that turned no page yet.
NoSession == [sorting |-> "newest", page |-> 0, start |-> {}, rows |-> <<>>,
              seen |-> {}]

\* The WHERE clause without filters.
Listed == {id \in DOMAIN articles : articles[id].date <= now}

TypeOK ==
  /\ articles \in Seq([date : Times, images : 0 .. Images])
  /\ now \in Times
  /\ \A r \in Readers :
       LET s == session[r] IN
       /\ s.sorting \in Sortings /\ s.page \in Nat
       /\ Len(s.rows) <= PageSize
       /\ s.start \cup s.seen \subseteq Listed
       /\ \A row \in ToSet(s.rows) : row.id \in s.seen /\ row.view \in Views
       /\ opened[r].id \in 0 .. MaxArticles + 1 /\ opened[r].view \in Views
       /\ opened[r].status \in {0, 200, 404, 428, 500}

Init ==
  /\ articles = <<>>
  /\ now = 1
  /\ session = [r \in Readers |-> NoSession]
  /\ opened = [r \in Readers |-> NoAnswer]

-----------------------------------------------------------------------------
\* The consumer and the clock.

\* An answer is looked at before anything else happens.
NoAnswers == [r \in Readers |-> NoAnswer]
LookAway == opened' = NoAnswers

NewArticle(date) ==
  /\ Len(articles) < MaxArticles
  /\ articles' = Append(articles, [date |-> date, images |-> 0])
  /\ LookAway
  /\ UNCHANGED <<now, session>>

AttachArticleImage(id) ==
  /\ id \in DOMAIN articles
  /\ articles[id].images < Images
  /\ articles' = [articles EXCEPT ![id].images = @ + 1]
  /\ LookAway
  /\ UNCHANGED <<now, session>>

Tick ==
  /\ now + 1 \in Times
  /\ now' = now + 1
  /\ LookAway
  /\ UNCHANGED <<articles, session>>

-----------------------------------------------------------------------------
\* GET /articles.

\* Does an article of date d come before one of date e?  (An unsupported
\* sorting sorts nothing; its request is answered with an error first.)
Before(d, e, sorting) == IF sorting = "newest" THEN d > e ELSE d < e

\* The orders in which a query may give the articles.
Orders(sorting) ==
  {o \in SetToSeqs(Listed) : \A i, j \in DOMAIN o :
     i < j => ~Before(articles[o[j]].date, articles[o[i]].date, sorting)}

\* Variants: the offset of the page after; one row too many.
PageOfNext(order, page) ==
  SubSeq(order, page * PageSize + 1, Min({Len(order), (page + 1) * PageSize}))
PageAndOne(order, page) ==
  SubSeq(order, (page - 1) * PageSize + 1, Min({Len(order), page * PageSize + 1}))

\* LIMIT and OFFSET.
PageOf(order, page) ==
  SubSeq(order, (page - 1) * PageSize + 1, Min({Len(order), page * PageSize}))

\* The accessor: the main image, and the others.
ArticleFromRow(images) ==
  LET main == {i \in images : i.main}
  IN  [main |-> IF main = {} THEN NoImage ELSE (CHOOSE i \in main : TRUE).url,
       content |-> {i.url : i \in images \ main}]

\* A variant: the main image is attached last.
ImagesOfMainLast(id) ==
  {[url |-> i, main |-> i = articles[id].images] : i \in 1 .. articles[id].images}

ImagesOf(id) == {[url |-> i, main |-> i = 1] : i \in 1 .. articles[id].images}

\* The LEFT JOIN gives an article without images one that is null; null
\* unmarshals to an image without URL that is not the main one.
ListView(id) ==
  ArticleFromRow(IF ImagesOf(id) = {} THEN {[url |-> NoImage, main |-> FALSE]}
                                      ELSE ImagesOf(id))

\* The next page, or the first one of a new list.  A page without rows is
\* answered with 404, and shows nothing new.
GetArticles(r, sorting, page) ==
  /\ \/ page = 1
     \/ /\ page = session[r].page + 1 /\ session[r].rows # <<>>
        /\ sorting = session[r].sorting
  /\ \E order \in Orders(sorting) :
       LET ids == PageOf(order, page)
           old == IF page = 1 THEN [NoSession EXCEPT !.start = Listed] ELSE session[r]
       IN  session' = [session EXCEPT ![r] =
             [sorting |-> sorting, page |-> page, start |-> old.start,
              rows |-> [i \in DOMAIN ids |-> [id |-> ids[i], view |-> ListView(ids[i])]],
              seen |-> old.seen \cup ToSet(ids)]]
  /\ LookAway
  /\ UNCHANGED <<articles, now>>

-----------------------------------------------------------------------------
\* GET /articles/{id}.

Open(r, answer) ==
  /\ opened' = [NoAnswers EXCEPT ![r] = answer]
  /\ UNCHANGED <<articles, now, session>>

Answer(id, status, view) ==
  [id |-> id, status |-> status, view |-> view, failed |-> FALSE]

\* The articles of the page, and an id that no article has.
Clickable(r) == {row.id : row \in ToSet(session[r].rows)} \cup {MaxArticles + 1}

\* Without images the subselect is NULL, which is no JSON: an error of the
\* accessor, and 500.
GetArticleByID(r, id) ==
  Open(r, IF id \notin DOMAIN articles THEN Answer(id, 404, NoView)
          ELSE IF ImagesOf(id) = {} THEN Answer(id, 500, NoView)
          ELSE Answer(id, 200, ArticleFromRow(ImagesOf(id))))

\* Any error but ErrNoRows is dropped, and the row without images that comes
\* with it is another error of the accessor.
GetArticleByIDFails(r, id) ==
  Open(r, [Answer(id, 500, NoView) EXCEPT !.failed = TRUE])

\* An id that is no number never reaches the handler.
GetArticleByNoID(r) == Open(r, Answer(0, 428, NoView))

Next ==
  \/ \E date \in Times : NewArticle(date)
  \/ \E id \in IDs : AttachArticleImage(id)
  \/ Tick
  \/ \E r \in Readers :
       \/ \E sorting \in Sortings, page \in IDs : GetArticles(r, sorting, page)
       \/ \E id \in Clickable(r) : GetArticleByID(r, id) \/ GetArticleByIDFails(r, id)
       \/ GetArticleByNoID(r)

Spec == Init /\ [][Next]_vars

-----------------------------------------------------------------------------
\* Properties.

\* How far down the list the article is.
Rank(id, sorting) ==
  1 + Cardinality({o \in Listed : Before(articles[o].date, articles[id].date, sorting)})

Alone(id) == \A o \in Listed \ {id} : articles[o].date # articles[id].date

\* Pages are cut by OFFSET from a list that grows while a reader turns them.
\* Still, a reader who turns page after page passes over no article that was
\* there when it started, at whatever place of the list others come in: one
\* that it was not shown is on a page to come.  (Unless another article has
\* its very date: such articles may change places from page to page.)
NothingSkipped ==
  \A r \in Readers :
    LET s == session[r] IN
    \A id \in s.start \ s.seen :
      Alone(id) => Rank(id, s.sorting) > s.page * PageSize

\* The two queries agree: an article that a list showed with its main image
\* can be opened, however much later, and has that main image and at least the
\* other images it was listed with.
OpensAsListed ==
  \A r \in Readers : \A row \in ToSet(session[r].rows) :
    /\ opened[r].id = row.id /\ ~opened[r].failed
    /\ row.view.main # NoImage
    => /\ opened[r].status = 200
       /\ opened[r].view.main = row.view.main
       /\ row.view.content \subseteq opened[r].view.content
=============================================================================
