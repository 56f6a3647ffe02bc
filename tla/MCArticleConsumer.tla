------------------------- MODULE MCArticleConsumer -------------------------
\* Instances of ArticleConsumer: the articles published and the relation that
\* ILIKE is on their titles.
EXTENDS ArticleConsumer

CONSTANTS A, B, Site, Pic

MCText == {Blank, A, B, Site, Pic}

\* No title contains another one.
ExactTitles == {<<t, t>> : t \in MCText}

\* The title B is part of the title A ("Storm" and "Storm hits Kyiv").
NestedTitles == ExactTitles \cup {<<B, A>>}

Post(title, viewers, content) ==
  [err |-> FALSE, title |-> title, origin |-> Site, viewers |-> viewers,
   main |-> Pic, content |-> content]

\* What Unmarshal leaves of a payload that is not JSON.
Junk == [err |-> TRUE, title |-> Blank, origin |-> Blank, viewers |-> 0,
         main |-> Blank, content |-> <<>>]

\* What Unmarshal leaves of a payload whose published_at does not parse.
BadDate == [Post(B, 1, <<>>) EXCEPT !.err = TRUE]

\* The same article seen at two refreshes of the feed.
Refreshed == {Post(A, 1, <<>>), Post(A, 2, <<>>)}

\* An article with a content image.
OneIllustrated == {Post(A, 1, <<Pic>>)}

IllustratedMixed == {Post(A, 1, <<Pic>>), BadDate}
RefreshedAndJunk == Refreshed \cup {Post(B, 1, <<>>), Junk}

CreationFaults == {"begin", "insert", "image", "attach", "commit", "rollback"}
OtherFaults == FaultKinds \ CreationFaults
OnlyInsert == {"insert"}
OnlyCrash == {"crash"}
=============================================================================
