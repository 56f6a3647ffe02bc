----------------------------- MODULE Extractor -----------------------------
(***************************************************************************)
(* The extractors of an article page (prebuiltemplate/article.go): Parse   *)
(* hands each tree a selector completes to the extractor of its field, in  *)
(* the goroutine of the selector, where a panic ends the process.          *)
(*                                                                         *)
(* Fields with one class_selector have selectors that build the same       *)
(* trees; they are one selector with several fields here.  What a field    *)
(* holds is the sequence of tokens it was made of, by position: of none,   *)
(* if the date of an article is set to the time of day.  The URL prefix,   *)
(* the ignored sentences and texts that are no numbers are left out.       *)
(***************************************************************************)
EXTENDS Parser

CONSTANT Fields  \* per selector, the types of the fields with its class

FieldTypes == {"title", "preface", "content", "published_at", "info", "main_image",
               "content_images"}

ASSUME FieldsAssumption ==
  /\ Fields \in [Selectors -> SUBSET FieldTypes]
  /\ \A s, t \in Selectors : s # t => Fields[s] \cap Fields[t] = {}

VARIABLES
  article,   \* ArticlePageExtractor.article: per field its tokens
  panicked   \* an extractor panicked

extractorVars == <<vars, article, panicked>>

ExtractorInit ==
  /\ Init
  /\ article = [f \in FieldTypes |-> <<>>]
  /\ panicked = FALSE

IsText(node) == node.name = TextName

\* node.Content: only texts have one.
Content(node) == IF IsText(node) THEN <<node.at>> ELSE <<>>

\* The src of every img in the tree; the Attr of an open tag is never nil.
Images(tree) ==
  FlattenSeq([k \in DOMAIN tree |-> IF tree[k].name = "img" THEN <<tree[k].at>> ELSE <<>>])

\* The content of every node.
Contents(tree) == FlattenSeq([k \in DOMAIN tree |-> Content(tree[k])])

\* The nodes from the first one with the icon of the viewers on.
FromIcon(tree) ==
  LET icons == {k \in DOMAIN tree : ~IsText(tree[k]) /\ doc[tree[k].at].classOf \cap Icons # {}}
  IN  IF icons = {} THEN <<>> ELSE SubSeq(tree, Min(icons), Len(tree))

\* OnTitle, OnPreface and OnPublishDate follow Next once, OnInfo three times
\* from the icon.
FollowsNil(s, tree) ==
  \/ Fields[s] \cap {"title", "preface", "published_at"} # {} /\ Len(tree) < 2
  \/ "info" \in Fields[s] /\ Len(FromIcon(tree)) \in 1 .. 3

\* OnPublishDate gives ParseDateUA a text whose time has no minute to read.
DatePanics(s, tree) ==
  "published_at" \in Fields[s] /\ Len(tree) >= 2 /\ doc[tree[2].at].date = "panics"

\* What ParseDateUA reads a date in.
DateRead(node) == IF doc[node.at].date = "read" THEN <<node.at>> ELSE <<>>

\* What the extractor of the field leaves in it.
Extract(field, tree) ==
  CASE field \in {"title", "preface"} -> Content(tree[2])
    [] field = "published_at" -> DateRead(tree[2])
    [] field = "content" -> Contents(tree)
    [] field = "content_images" -> article[field] \o Images(tree)
    [] field = "main_image" ->
         IF Images(tree) = <<>> THEN article[field] ELSE <<Head(Images(tree))>>
    [] field = "info" ->
         IF FromIcon(tree) = <<>> THEN article[field] ELSE Content(FromIcon(tree)[4])

\* A close tag that completes a tree also runs its extractors.
TreeComplete(s) ==
  /\ OnClose(s)
  /\ IF trees' = trees THEN UNCHANGED <<article, panicked>>
     ELSE LET tree == Last(trees'[s]) IN
          /\ panicked' = (FollowsNil(s, tree) \/ DatePanics(s, tree))
          /\ article' = [f \in FieldTypes |->
               IF panicked' \/ f \notin Fields[s] THEN article[f]
               ELSE Extract(f, tree)]

ExtractorNext ==
  /\ ~panicked
  /\ \/ /\ \/ \E t \in Tokens : NextToken(t)
           \/ \E s \in Selectors : OnOpen(s) \/ OnText(s)
           \/ EndOfFile
        /\ UNCHANGED <<article, panicked>>
     \/ \E s \in Selectors : TreeComplete(s)

ExtractorSpec == ExtractorInit /\ [][ExtractorNext]_extractorVars
-----------------------------------------------------------------------------
\* The positions of the tokens of a name from the open tag root to the end.
Since(root, name) ==
  FlattenSeq([i \in DOMAIN doc |->
    IF i >= root /\ doc[i].kind # "close" /\ doc[i].name = name THEN <<i>> ELSE <<>>])

\* The first open tag or text behind the open tag root.
FirstBehind(root) == Min({i \in root + 1 .. Len(doc) : doc[i].kind # "close"})

\* Whatever tags were lost or never closed, the content of an article is every
\* text between the open tag of the selected element and the close tag it
\* ended at, its first image is the main one, and none is missing or comes
\* from elsewhere; a title, a preface or a date is that of the text right
\* behind the open tag, and of no other (article.go:38-100, through
\* ast_generator.go:50-95).
FieldsHoldTheElement ==
  [][\A s \in Selectors : trees[s] # trees'[s] /\ ~panicked' =>
       LET root   == Head(Last(trees'[s])).at
           images == Since(root, "img")
           first  == FirstBehind(root)
       IN  /\ "content" \in Fields[s] => article'["content"] = Since(root, TextName)
           /\ "content_images" \in Fields[s] =>
                article'["content_images"] = article["content_images"] \o images
           /\ "main_image" \in Fields[s] /\ images # <<>> =>
                article'["main_image"] = <<Head(images)>>
           /\ \A f \in Fields[s] \cap {"title", "preface"} :
                article'[f] = IF doc[first].name = TextName THEN <<first>> ELSE <<>>
           /\ "published_at" \in Fields[s] =>
                article'["published_at"] = IF doc[first].date = "read" THEN <<first>>
                                                                       ELSE <<>>]_extractorVars

\* In a well-formed page an extractor panics only where a part is missing: at
\* the end of an element with nothing in it, at one with fewer than three nodes
\* behind its icon, or at one that begins with a date whose time has no colon
\* (article.go:81, 87, 93, 112, dateutils.go:64).
OnlyMissingPartsPanic ==
  panicked /\ WellFormed =>
    \E s \in Selectors, i \in DOMAIN doc :
      /\ s \in doc[i].classOf /\ ClosedBy([name |-> doc[i].name, at |-> i], Len(doc))
      /\ \/ /\ Fields[s] \cap {"title", "preface", "published_at"} # {}
            /\ i = Len(doc) - 1
         \/ "published_at" \in Fields[s] /\ doc[i + 1].date = "panics"
         \/ /\ "info" \in Fields[s]
            /\ \E k \in i .. Len(doc) :
                 /\ doc[k].classOf \cap Icons # {}
                 /\ Cardinality({j \in k + 1 .. Len(doc) : doc[j].kind # "close"}) < 3
=============================================================================
