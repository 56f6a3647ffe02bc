----------------------------- MODULE MCNewsFeed -----------------------------
\* Instances of NewsFeed: the pages feeds can have.
EXTENDS NewsFeed, TLC

CONSTANTS Daily, Weekly, A, Dotted, Broken

MCArticles == {A, Dotted, Broken}

\* The title of Dotted has a dot; neither it nor a blank title makes a subject
\* of three tokens.
MCUnroutable == {Dotted, Blank}

\* One feed shows A, alone or below an article that cannot be published and a
\* node without a link; the other one lists an article that cannot be read.
MCPages == (Daily :> {<<A>>, <<Dotted, NoLink, A>>}) @@ (Weekly :> {<<Broken>>})

FaultKinds == {"feed", "cut", "page", "other", "hang", "publish", "crash"}
=============================================================================
