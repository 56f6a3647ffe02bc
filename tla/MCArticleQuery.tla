--------------------------- MODULE MCArticleQuery ---------------------------
\* Instances of ArticleQuery: dates, words, and the filters on them.
EXTENDS ArticleQuery

CONSTANTS Monday, Tuesday, Storm, Sea, NoWord

Dates == {Monday, Tuesday}

\* The lexems of no text, of "storm sea" and of "storm.sea".
NoText == <<<<NoWord>>>>
StormSea == <<<<Storm>>, <<Sea>>>>
StormDotSea == <<<<Storm, Sea>>>>

Filter(dates, lexems) == [dates |-> dates, lexems |-> lexems]
Kind(day, lexems) == [day |-> day, lexems |-> lexems]

\* Articles of one day; articles that match each of the texts on a Tuesday, or
\* the one with the dot on a Monday.
OneKind == {Kind(Monday, {})}
Storms == {Kind(Tuesday, {<<Storm>>, <<Sea>>, <<Storm, Sea>>}),
           Kind(Monday, {<<Storm, Sea>>})}

\* No filter; no filter, and two that share a key and neither date nor text.
Everything == {Filter(Dates, NoText)}
ByText == {Filter(Dates, NoText), Filter(Dates, StormSea),
           Filter({Monday}, StormDotSea)}
=============================================================================
