---------------------------- MODULE ArticleStore ----------------------------
(***************************************************************************)
(* The tables of backend/migrations and the statements of                  *)
(* backend/internal/storage/queries/articles.sql that the consumer runs.   *)
(* Every statement runs on its own (queries is bound to the *sql.DB), so   *)
(* each operator below is one atomic change of the tables.                 *)
(*                                                                         *)
(* Row identities are the BIGSERIAL ids, here positions in the sequences   *)
(* articles and images.  Nothing in the program deletes a row.             *)
(***************************************************************************)
EXTENDS Naturals, Sequences, FiniteSets

CONSTANTS
  Text,          \* the strings titles, origins and URLs are taken from
  Blank,         \* the empty string
  TitleMatches   \* the pairs <<t, s>> with: s ILIKE '%' || t || '%'

ASSUME StoreAssumption ==
  /\ Blank \in Text
  /\ TitleMatches \subseteq Text \X Text

VARIABLES
  articles,        \* table articles
  images,          \* table images
  article_images   \* table article_images

storeVars == <<articles, images, article_images>>

ArticleRow == [title : Text, origin : Text, viewers : Nat]

StoreTypeOK ==
  /\ articles \in Seq(ArticleRow)
  /\ images \in Seq(Text)
  /\ article_images \subseteq
       [article : DOMAIN articles, image : DOMAIN images, main : BOOLEAN]

StoreInit ==
  /\ articles = <<>>
  /\ images = <<>>
  /\ article_images = {}

\* The rows that the WHERE clause of GetArticleIDByTitleAndOrigin selects.
MatchingIDs(title, origin) ==
  {id \in DOMAIN articles :
     /\ title = Blank \/ <<title, articles[id].title>> \in TitleMatches
     /\ articles[id].origin = origin}

InsertArticle(p) ==
  /\ articles' = Append(articles, [title   |-> p.title,
                                   origin  |-> p.origin,
                                   viewers |-> p.viewers])
  /\ UNCHANGED <<images, article_images>>

InsertImage(url) ==
  /\ images' = Append(images, url)
  /\ UNCHANGED <<articles, article_images>>

InsertAttachment(article, image, main) ==
  /\ article_images' = article_images \cup
       {[article |-> article, image |-> image, main |-> main]}
  /\ UNCHANGED <<articles, images>>

\* A variant: the statistics are added up instead of replaced.
AddViewers(id, viewers) ==
  /\ articles' = IF id \in DOMAIN articles
                 THEN [articles EXCEPT ![id].viewers = @ + viewers]
                 ELSE articles
  /\ UNCHANGED <<images, article_images>>

\* UPDATE ... WHERE id = @id: an id that no row has updates nothing, which is
\* not an error.
SetViewers(id, viewers) ==
  /\ articles' = IF id \in DOMAIN articles
                 THEN [articles EXCEPT ![id].viewers = viewers]
                 ELSE articles
  /\ UNCHANGED <<images, article_images>>

ImagesOf(id) == {r \in article_images : r.article = id}
Orphans == {i \in DOMAIN images : \A r \in article_images : r.image # i}
=============================================================================
