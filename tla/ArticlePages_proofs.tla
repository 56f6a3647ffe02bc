------------------------- MODULE ArticlePages_proofs -------------------------
(***************************************************************************)
(* Theorems about what a client of the read API sees, for any number of    *)
(* readers, articles, dates and images and any page size: turning pages of *)
(* a list that grows passes over no article, and what a list showed of an  *)
(* article agrees with the article once it is opened.                      *)
(***************************************************************************)
EXTENDS ArticlePages, FiniteSetTheorems, SequenceTheorems, TLAPS

-----------------------------------------------------------------------------
\* Places in an order.

\* The articles above place i.
Above(order, i) == {order[j] : j \in 1 .. i - 1}

\* How far down an order the article at place i is: as many articles of the
\* set come before it as there are places above its own.
LEMMA CountAbove ==
  ASSUME NEW S, NEW n \in Nat, NEW order \in [1 .. n -> S],
         \A i, j \in 1 .. n : i # j => order[i] # order[j],
         NEW i \in 1 .. n
  PROVE  Cardinality(Above(order, i)) = i - 1
<1> DEFINE T == {order[j] : j \in 1 .. i - 1}
           f == [j \in 1 .. i - 1 |-> order[j]]
<1>1. i - 1 \in Nat /\ 1 .. i - 1 \subseteq 1 .. n
  OBVIOUS
<1>2. f \in [1 .. i - 1 -> T]
  BY <1>1
<1>3. ASSUME NEW a \in 1 .. i - 1, NEW b \in 1 .. i - 1, f[a] = f[b] PROVE a = b
  BY <1>1, <1>3
<1>4. ASSUME NEW t \in T PROVE \E a \in 1 .. i - 1 : f[a] = t
  OBVIOUS
<1> HIDE DEF T, f
<1>5. f \in Injection(1 .. i - 1, T) /\ f \in Surjection(1 .. i - 1, T)
  BY <1>2, <1>3, <1>4 DEF Injection, Surjection, IsInjective
<1>6. ExistsBijection(1 .. i - 1, T)
  BY <1>5 DEF ExistsBijection, Bijection
<1> QED BY <1>1, <1>6, FS_CountingElements DEF T, Above

\* An order of a finite set has every element of it somewhere.
LEMMA OrderIsOnto ==
  ASSUME NEW S, IsFiniteSet(S), NEW order \in SetToSeqs(S), NEW id \in S
  PROVE  /\ Cardinality(S) \in Nat
         /\ order \in [1 .. Cardinality(S) -> S]
         /\ \A i, j \in 1 .. Cardinality(S) : i # j => order[i] # order[j]
         /\ \E i \in 1 .. Cardinality(S) : order[i] = id
<1> DEFINE n == Cardinality(S)
<1>1. n \in Nat
  BY FS_CardinalityType
<1>2. /\ order \in [1 .. n -> S]
      /\ \A i, j \in 1 .. n : i # j => order[i] # order[j]
  BY DEF SetToSeqs
<1>3. IsFiniteSet(1 .. n) /\ Cardinality(1 .. n) = n
  BY <1>1, FS_Interval
<1> HIDE DEF n
<1>4. order \in Injection(1 .. n, S)
  BY <1>2 DEF Injection, IsInjective
<1>5. order \in Surjection(1 .. n, S)
  BY <1>3, <1>4, FS_Injection DEF n
<1>6. \E i \in 1 .. n : order[i] = id
  BY <1>5 DEF Surjection
<1> QED BY <1>1, <1>2, <1>6 DEF n

\* LIMIT and OFFSET cut at most PageSize places out of an order.
LEMMA PageIsCut ==
  ASSUME NEW S, NEW order \in Seq(S), NEW page \in Nat \ {0}
  PROVE  LET ids == PageOf(order, page)
             low == (page - 1) * PageSize
         IN  /\ ids \in Seq(S) /\ Len(ids) <= PageSize
             /\ low \in Nat /\ page * PageSize = low + PageSize
             /\ \A i \in DOMAIN order :
                  i > low /\ i <= low + PageSize => order[i] \in ToSet(ids)
             /\ ToSet(ids) \subseteq S
             /\ DOMAIN ids = 1 .. Len(ids)
<1> DEFINE low == (page - 1) * PageSize
           high == Min({Len(order), page * PageSize})
           ids == PageOf(order, page)
<1>1. PageSize \in Nat /\ PageSize > 0
  BY PagesAssumption
<1>2. low \in Nat /\ page * PageSize = low + PageSize
  <2>1. \A p, q \in Nat : p * q \in Nat
    OBVIOUS
  <2>2. page = (page - 1) + 1 /\ page - 1 \in Nat
    OBVIOUS
  <2>3. \A p, q \in Nat : (p + 1) * q = p * q + q
    OBVIOUS
  <2> QED BY <1>1, <2>1, <2>2, <2>3
<1>3. Len(order) \in Nat /\ DOMAIN order = 1 .. Len(order)
  BY LenProperties
<1> HIDE DEF low
<1>4. high \in {Len(order), low + PageSize} /\ high <= Len(order) /\ high <= low + PageSize
  <2>1. \A a, b \in Nat : Min({a, b}) \in {a, b} /\ Min({a, b}) <= a /\ Min({a, b}) <= b
    <3>1. SUFFICES ASSUME NEW a \in Nat, NEW b \in Nat
                   PROVE  Min({a, b}) \in {a, b} /\ Min({a, b}) <= a /\ Min({a, b}) <= b
      OBVIOUS
    <3>2. \E x \in {a, b} : \A y \in {a, b} : x <= y
      <4>1. CASE a <= b
        BY <4>1
      <4>2. CASE b <= a
        BY <4>2
      <4> QED BY <4>1, <4>2
    <3> QED BY <3>2 DEF Min
  <2> QED BY <1>1, <1>2, <1>3, <2>1
<1>5. ids = SubSeq(order, low + 1, high)
  BY DEF PageOf, low
<1> HIDE DEF high, ids
<1>6. high \in Nat
  BY <1>1, <1>2, <1>3, <1>4
<1>7. /\ ids \in Seq(S)
      /\ Len(ids) = IF low + 1 <= high THEN high - (low + 1) + 1 ELSE 0
      /\ \A i \in 1 .. high - (low + 1) + 1 : ids[i] = order[(low + 1) + i - 1]
  <2>1. \A i \in low + 1 .. high : order[i] \in S
    <3>1. \A i \in low + 1 .. high : i \in 1 .. Len(order)
      <4>1. high <= Len(order)
        BY <1>4
      <4> QED BY <1>2, <1>3, <1>6, <4>1
    <3> QED BY <3>1, ElementOfSeq
  <2>2. low + 1 \in Int /\ high \in Int
    BY <1>2, <1>6
  <2> QED BY <1>5, <2>1, <2>2, SubSeqProperties
<1>8. Len(ids) <= PageSize
  BY <1>1, <1>2, <1>4, <1>6, <1>7
<1>9. DOMAIN ids = 1 .. Len(ids)
  BY <1>7, LenProperties
<1>10. ToSet(ids) \subseteq S
  <2>1. \A i \in 1 .. Len(ids) : ids[i] \in S
    BY <1>7, ElementOfSeq
  <2> QED BY <1>9, <2>1 DEF ToSet
<1>11. ASSUME NEW i \in DOMAIN order, i > low, i <= low + PageSize
       PROVE  order[i] \in ToSet(ids)
  <2>1. i \in Nat /\ i <= Len(order) /\ i <= high /\ low + 1 <= high
    <3>1. i \in 1 .. Len(order)
      BY <1>3
    <3>2. i <= high
      <4>1. CASE high = Len(order)
        BY <3>1, <4>1
      <4>2. CASE high = low + PageSize
        BY <1>11, <4>2
      <4> QED BY <1>4, <4>1, <4>2
    <3> QED BY <1>2, <1>3, <1>6, <1>11, <3>1, <3>2
  <2>2. i - low \in 1 .. high - (low + 1) + 1 /\ (low + 1) + (i - low) - 1 = i
    BY <1>2, <1>6, <1>11, <2>1
  <2>3. ids[i - low] = order[i] /\ i - low \in 1 .. Len(ids)
    BY <1>6, <1>7, <2>1, <2>2
  <2> QED BY <1>9, <2>3 DEF ToSet
<1> QED BY <1>2, <1>7, <1>8, <1>9, <1>10, <1>11 DEF ids, low

-----------------------------------------------------------------------------
\* What a client sees of an article with so many images.

ViewOf(n) == IF n = 0 THEN [main |-> NoImage, content |-> {NoImage}]
                      ELSE [main |-> 1, content |-> 2 .. n]

Counts == [date : Times, images : 0 .. Images]

\* The accessor separates the first image from the others.
LEMMA AccessorSees ==
  ASSUME NEW n \in 1 .. Images
  PROVE  ArticleFromRow({[url |-> i, main |-> i = 1] : i \in 1 .. n}) = ViewOf(n)
<1> DEFINE images == {[url |-> i, main |-> i = 1] : i \in 1 .. n}
           main == {i \in images : i.main}
<1>1. 1 \in 1 .. n /\ n # 0
  OBVIOUS
<1>2. main = {[url |-> 1, main |-> TRUE]}
  <2>1. ASSUME NEW i \in main PROVE i = [url |-> 1, main |-> TRUE]
    <3>1. PICK j \in 1 .. n : i = [url |-> j, main |-> j = 1]
      OBVIOUS
    <3>2. i.main
      OBVIOUS
    <3>3. j = 1
      BY <3>1, <3>2
    <3>4. (j = 1) = TRUE
      BY <3>3
    <3> QED BY <3>1, <3>3, <3>4
  <2>2. [url |-> 1, main |-> TRUE] \in main
    <3>1. [url |-> 1, main |-> 1 = 1] \in images
      BY <1>1
    <3> QED BY <3>1
  <2> HIDE DEF main
  <2> QED BY <2>1, <2>2
<1>3. (CHOOSE i \in main : TRUE).url = 1 /\ main # {}
  <2> HIDE DEF main
  <2>1. main # {}
    BY <1>2
  <2>2. PICK c : c = CHOOSE i \in main : TRUE
    OBVIOUS
  <2>3. c \in main
    BY <2>1, <2>2
  <2>4. c = [url |-> 1, main |-> TRUE]
    BY <1>2, <2>3
  <2>5. c.url = 1
    BY <2>4
  <2> QED BY <2>1, <2>2, <2>5
<1>4. {i.url : i \in images \ main} = 2 .. n
  <2>1. images \ main = {[url |-> i, main |-> FALSE] : i \in 2 .. n}
    <3>1. ASSUME NEW x \in images \ main
          PROVE  x \in {[url |-> i, main |-> FALSE] : i \in 2 .. n}
      <4>1. PICK i \in 1 .. n : x = [url |-> i, main |-> i = 1]
        OBVIOUS
      <4>2. i # 1
        BY <1>2, <4>1
      <4>3. i \in 2 .. n /\ (i = 1) = FALSE
        BY <4>2
      <4> QED BY <4>1, <4>3
    <3>2. ASSUME NEW i \in 2 .. n PROVE [url |-> i, main |-> FALSE] \in images \ main
      <4>1. i \in 1 .. n /\ (i = 1) = FALSE
        OBVIOUS
      <4>2. [url |-> i, main |-> i = 1] \in images
        BY <4>1
      <4> QED BY <4>1, <4>2
    <3> HIDE DEF images, main
    <3> QED BY <3>1, <3>2
  <2> HIDE DEF images, main
  <2>2. ASSUME NEW x \in {i.url : i \in images \ main} PROVE x \in 2 .. n
    <3>1. PICK i \in images \ main : x = i.url
      OBVIOUS
    <3>2. PICK j \in 2 .. n : i = [url |-> j, main |-> FALSE]
      BY <2>1
    <3> QED BY <3>1, <3>2
  <2>3. ASSUME NEW j \in 2 .. n PROVE j \in {i.url : i \in images \ main}
    <3>1. PICK i : i = [url |-> j, main |-> FALSE]
      OBVIOUS
    <3>2. i \in images \ main
      BY <2>1, <3>1
    <3>3. i.url = j
      BY <3>1
    <3> QED BY <3>2, <3>3
  <2> QED BY <2>2, <2>3
<1>5. ArticleFromRow(images)
        = [main |-> IF main = {} THEN NoImage ELSE (CHOOSE i \in main : TRUE).url,
           content |-> {i.url : i \in images \ main}]
  BY DEF ArticleFromRow
<1> HIDE DEF images, main
<1>6. ArticleFromRow(images) = [main |-> 1, content |-> 2 .. n]
  BY <1>3, <1>4, <1>5
<1> QED BY <1>1, <1>6 DEF ViewOf, images

LEMMA ViewIsView ==
  ASSUME NEW n \in 0 .. Images
  PROVE  ViewOf(n) \in Views
BY PagesAssumption DEF ViewOf, Views, NoImage

\* GET /articles, also of an article without images.
LEMMA ListSees ==
  ASSUME articles \in Seq(Counts), NEW id \in DOMAIN articles
  PROVE  ListView(id) = ViewOf(articles[id].images)
<1>1. PICK n \in 0 .. Images : n = articles[id].images
  <2>1. articles[id] \in Counts
    BY ElementOfSeq, LenProperties
  <2> QED BY <2>1 DEF Counts
<1>2. ImagesOf(id) = {[url |-> i, main |-> i = 1] : i \in 1 .. n}
  BY <1>1 DEF ImagesOf
<1>3. CASE n = 0
  <2>1. 1 .. n = {}
    BY <1>3
  <2>2. ImagesOf(id) = {}
    BY <1>2, <2>1
  <2> DEFINE null == [url |-> NoImage, main |-> FALSE]
             main == {i \in {null} : i.main}
  <2>3. main = {}
    OBVIOUS
  <2>4. {i.url : i \in {null} \ main} = {NoImage}
    <3>1. {null} \ main = {null} /\ null.url = NoImage
      BY <2>3
    <3> HIDE DEF null, main
    <3> QED BY <3>1
  <2>5. ArticleFromRow({null}) = [main |-> NoImage, content |-> {NoImage}]
    BY <2>3, <2>4 DEF ArticleFromRow
  <2> QED BY <1>1, <1>3, <2>2, <2>5 DEF ListView, ViewOf
<1>4. CASE n # 0
  <2>1. n \in 1 .. Images /\ 1 \in 1 .. n
    BY <1>4
  <2>2. ImagesOf(id) # {}
    BY <1>2, <2>1
  <2> QED BY <1>1, <1>2, <2>1, <2>2, AccessorSees DEF ListView
<1> QED BY <1>3, <1>4

\* GET /articles/{id}.
LEMMA OpenSees ==
  ASSUME articles \in Seq(Counts), NEW id \in DOMAIN articles
  PROVE  /\ ImagesOf(id) = {} <=> articles[id].images = 0
         /\ articles[id].images # 0 =>
              ArticleFromRow(ImagesOf(id)) = ViewOf(articles[id].images)
<1>1. PICK n \in 0 .. Images : n = articles[id].images
  <2>1. articles[id] \in Counts
    BY ElementOfSeq, LenProperties
  <2> QED BY <2>1 DEF Counts
<1>2. ImagesOf(id) = {[url |-> i, main |-> i = 1] : i \in 1 .. n}
  BY <1>1 DEF ImagesOf
<1>3. CASE n = 0
  <2>1. 1 .. n = {}
    BY <1>3
  <2> QED BY <1>1, <1>2, <1>3, <2>1
<1>4. CASE n # 0
  <2>1. n \in 1 .. Images /\ 1 \in 1 .. n
    BY <1>4
  <2> QED BY <1>1, <1>2, <1>4, <2>1, AccessorSees
<1> QED BY <1>3, <1>4

-----------------------------------------------------------------------------
\* The inductive invariant.

Sessions == [sorting : Sortings, page : Nat, start : SUBSET IDs,
             rows : Seq([id : IDs, view : Views]), seen : SUBSET IDs]

Answers == [id : 0 .. MaxArticles + 1, status : {0, 200, 404, 428, 500},
            view : Views, failed : BOOLEAN]

TablesInv ==
  /\ articles \in Seq(Counts) /\ Len(articles) <= MaxArticles
  /\ now \in Times

\* A row shows the article as it was with some of the images it has now.
RowAgrees(row) ==
  \E n \in 0 .. articles[row.id].images : row.view = ViewOf(n)

SessionInv(r) ==
  LET s == session[r] IN
  /\ Len(s.rows) <= PageSize
  /\ s.start \cup s.seen \subseteq Listed
  /\ \A row \in ToSet(s.rows) : row.id \in s.seen /\ RowAgrees(row)

\* NothingSkipped, of one reader.
SkipsNothing(r) ==
  LET s == session[r] IN
  \A id \in s.start \ s.seen :
    Alone(id) => Rank(id, s.sorting) > s.page * PageSize

\* The answer shows the article as it is: nothing happened since.
AnswerInv(r) ==
  LET a == opened[r] IN
  a.id \in DOMAIN articles /\ ~a.failed =>
    IF articles[a.id].images = 0 THEN a.status = 500
    ELSE a.status = 200 /\ a.view = ViewOf(articles[a.id].images)

PagesInv ==
  /\ TablesInv
  /\ session \in [Readers -> Sessions] /\ opened \in [Readers -> Answers]
  /\ \A r \in Readers : SessionInv(r) /\ SkipsNothing(r) /\ AnswerInv(r)

TablesFacts ==
  /\ DOMAIN articles = 1 .. Len(articles) /\ Len(articles) \in Nat
  /\ DOMAIN articles \subseteq IDs /\ MaxArticles + 1 \notin DOMAIN articles
  /\ \A id \in DOMAIN articles :
       /\ articles[id] \in Counts
       /\ articles[id].date \in Nat /\ articles[id].images \in 0 .. Images
  /\ Listed \subseteq DOMAIN articles /\ IsFiniteSet(Listed)

LEMMA Tables == TablesInv => TablesFacts
<1> SUFFICES ASSUME TablesInv PROVE TablesFacts
  OBVIOUS
<1>1. articles \in Seq(Counts) /\ Len(articles) <= MaxArticles /\ MaxArticles \in Nat
  BY PagesAssumption DEF TablesInv
<1>2. DOMAIN articles = 1 .. Len(articles) /\ Len(articles) \in Nat
  BY <1>1, LenProperties
<1>3. DOMAIN articles \subseteq IDs /\ MaxArticles + 1 \notin DOMAIN articles
  BY <1>1, <1>2 DEF IDs
<1>4. ASSUME NEW id \in DOMAIN articles
      PROVE  /\ articles[id] \in Counts
             /\ articles[id].date \in Nat /\ articles[id].images \in 0 .. Images
  <2>1. articles[id] \in Counts
    BY <1>1, <1>2, ElementOfSeq
  <2> QED BY <2>1, PagesAssumption DEF Counts, Times
<1>5. Listed \subseteq DOMAIN articles
  BY DEF Listed
<1>6. IsFiniteSet(Listed)
  <2>1. IsFiniteSet(1 .. Len(articles))
    BY <1>2, FS_Interval
  <2> QED BY <1>2, <1>5, <2>1, FS_Subset
<1> QED BY <1>2, <1>3, <1>4, <1>5, <1>6 DEF TablesFacts

LEMMA TablesNext == TablesInv' => TablesFacts'
BY Tables, PTL

\* As articles are added, get images and become visible, every list, every row
\* and every rank a reader relies on stays right.
TablesGrow ==
  /\ Len(articles) <= Len(articles') /\ now <= now'
  /\ \A id \in DOMAIN articles :
       /\ articles'[id].date = articles[id].date
       /\ articles[id].images <= articles'[id].images

LEMMA GrowthIsSafe ==
  ASSUME PagesInv, TablesInv', TablesGrow, session' = session, LookAway
  PROVE  PagesInv'
<1>1. /\ TablesInv /\ session \in [Readers -> Sessions] /\ opened \in [Readers -> Answers]
      /\ \A r \in Readers : SessionInv(r) /\ SkipsNothing(r) /\ AnswerInv(r)
  BY DEF PagesInv
<1>2. /\ DOMAIN articles = 1 .. Len(articles) /\ Len(articles) \in Nat
      /\ \A id \in DOMAIN articles : articles[id].date \in Nat
                                     /\ articles[id].images \in 0 .. Images
      /\ Listed \subseteq DOMAIN articles
  BY <1>1, Tables DEF TablesFacts
<1>3. /\ DOMAIN articles' = 1 .. Len(articles') /\ Len(articles') \in Nat
      /\ \A id \in DOMAIN articles' : articles'[id].date \in Nat
                                      /\ articles'[id].images \in 0 .. Images
      /\ IsFiniteSet(Listed')
  BY TablesNext DEF TablesFacts
<1>4. DOMAIN articles \subseteq DOMAIN articles'
  BY <1>2, <1>3 DEF TablesGrow
<1>5. now \in Nat /\ now' \in Nat /\ now <= now'
  BY <1>1, PagesAssumption DEF TablesInv, Times, TablesGrow
<1>6. Listed \subseteq Listed'
  <2>1. SUFFICES ASSUME NEW id \in DOMAIN articles, articles[id].date <= now
                 PROVE  id \in DOMAIN articles' /\ articles'[id].date <= now'
    BY DEF Listed
  <2> QED BY <1>2, <1>4, <1>5, <2>1 DEF TablesGrow
<1>7. ASSUME NEW r \in Readers PROVE SessionInv(r)'
  <2>1. SUFFICES ASSUME NEW row \in ToSet(session[r].rows) PROVE RowAgrees(row)'
    BY <1>1, <1>6 DEF SessionInv
  <2>2. row.id \in DOMAIN articles
    BY <1>1, <1>2 DEF SessionInv
  <2>3. PICK n \in 0 .. articles[row.id].images : row.view = ViewOf(n)
    BY <1>1 DEF SessionInv, RowAgrees
  <2>4. n \in 0 .. articles'[row.id].images
    <3>1. /\ articles[row.id].images \in Nat /\ articles'[row.id].images \in Nat
          /\ articles[row.id].images <= articles'[row.id].images
      BY <1>2, <1>3, <1>4, <2>2 DEF TablesGrow
    <3> QED BY <3>1
  <2> QED BY <2>3, <2>4 DEF RowAgrees
<1>8. ASSUME NEW r \in Readers PROVE SkipsNothing(r)'
  <2> DEFINE s == session[r]
  <2>1. SUFFICES ASSUME NEW id \in s.start \ s.seen, Alone(id)'
                 PROVE  Rank(id, s.sorting)' > s.page * PageSize
    BY DEF SkipsNothing
  <2>2. id \in Listed /\ id \in DOMAIN articles
    BY <1>1, <1>2 DEF SessionInv
  <2>3. \A o \in Listed : articles'[o].date = articles[o].date
    BY <1>2 DEF TablesGrow
  <2>4. Alone(id)
    BY <1>6, <2>1, <2>2, <2>3 DEF Alone
  <2>5. Rank(id, s.sorting) > s.page * PageSize
    BY <1>1, <2>4 DEF SkipsNothing
  <2> DEFINE above == {o \in Listed : Before(articles[o].date, articles[id].date, s.sorting)}
             above2 == {o \in Listed' : Before(articles'[o].date, articles'[id].date, s.sorting)}
  <2>6. above \subseteq above2
    BY <1>6, <2>2, <2>3 DEF Before
  <2>7. IsFiniteSet(above2)
    BY <1>3, FS_Subset
  <2>8. Rank(id, s.sorting) = 1 + Cardinality(above)
        /\ Rank(id, s.sorting)' = 1 + Cardinality(above2)
    BY DEF Rank
  <2>9. s.page * PageSize \in Nat
    <3>1. s.page \in Nat
      BY <1>1 DEF Sessions
    <3>2. \A p, q \in Nat : p * q \in Nat
      OBVIOUS
    <3> QED BY <3>1, <3>2, PagesAssumption
  <2> HIDE DEF above, above2
  <2>10. Cardinality(above) <= Cardinality(above2) /\ Cardinality(above2) \in Nat
         /\ Cardinality(above) \in Nat
    BY <2>6, <2>7, FS_Subset, FS_CardinalityType
  <2> QED BY <2>5, <2>8, <2>9, <2>10
<1>9. ASSUME NEW r \in Readers PROVE AnswerInv(r)'
  <2>1. opened'[r] = NoAnswer
    BY DEF LookAway, NoAnswers
  <2>2. opened'[r].id \notin DOMAIN articles'
    BY <1>3, <2>1 DEF NoAnswer
  <2> QED BY <2>2 DEF AnswerInv
<1>10. opened' \in [Readers -> Answers]
  <2>1. NoAnswer \in Answers
    BY PagesAssumption DEF NoAnswer, Answers, NoView, Views, NoImage
  <2> QED BY <2>1 DEF LookAway, NoAnswers
<1> QED BY <1>1, <1>7, <1>8, <1>9, <1>10 DEF PagesInv

LEMMA NewArticleStep ==
  ASSUME PagesInv, NEW date \in Times, NewArticle(date)
  PROVE  PagesInv'
<1> DEFINE new == [date |-> date, images |-> 0]
<1>1. TablesInv /\ TablesFacts
  BY Tables DEF PagesInv
<1>2. new \in Counts
  BY PagesAssumption DEF Counts
<1>3. /\ articles' = Append(articles, new) /\ Len(articles) < MaxArticles
      /\ now' = now /\ session' = session /\ LookAway
  BY DEF NewArticle
<1> HIDE DEF new
<1>4. /\ articles' \in Seq(Counts) /\ Len(articles') = Len(articles) + 1
      /\ \A id \in 1 .. Len(articles) : articles'[id] = articles[id]
  BY <1>1, <1>2, <1>3, AppendProperties DEF TablesInv
<1>5. Len(articles) \in Nat /\ MaxArticles \in Nat /\ now \in Nat
      /\ DOMAIN articles = 1 .. Len(articles)
      /\ \A id \in DOMAIN articles : articles[id].images \in 0 .. Images
  BY <1>1, PagesAssumption DEF TablesFacts, TablesInv, Times
<1>6. TablesInv'
  BY <1>1, <1>3, <1>4, <1>5 DEF TablesInv
<1>7. TablesGrow
  BY <1>3, <1>4, <1>5, PagesAssumption DEF TablesGrow
<1> QED BY <1>3, <1>6, <1>7, GrowthIsSafe

LEMMA AttachArticleImageStep ==
  ASSUME PagesInv, NEW id \in IDs, AttachArticleImage(id)
  PROVE  PagesInv'
<1>1. TablesInv /\ TablesFacts
  BY Tables DEF PagesInv
<1>2. /\ id \in DOMAIN articles /\ articles[id].images < Images
      /\ articles' = [articles EXCEPT ![id].images = @ + 1]
      /\ now' = now /\ session' = session /\ LookAway
  BY DEF AttachArticleImage
<1>3. /\ DOMAIN articles = 1 .. Len(articles) /\ Len(articles) \in Nat
      /\ articles \in Seq(Counts) /\ Len(articles) <= MaxArticles
      /\ \A i \in DOMAIN articles : articles[i] \in Counts
                                   /\ articles[i].images \in 0 .. Images
      /\ now \in Times
  BY <1>1 DEF TablesFacts, TablesInv
<1>4. PICK e : e = [articles[id] EXCEPT !.images = @ + 1]
  OBVIOUS
<1>5. e \in Counts /\ e.date = articles[id].date /\ e.images = articles[id].images + 1
  <2>1. articles[id] \in Counts /\ articles[id].images \in Nat
        /\ articles[id].images + 1 \in 0 .. Images
    BY <1>2, <1>3, PagesAssumption
  <2> QED BY <1>4, <2>1 DEF Counts
<1>6. articles' = [articles EXCEPT ![id] = e]
  BY <1>2, <1>4
<1>7. /\ articles' \in Seq(Counts) /\ Len(articles') = Len(articles)
      /\ \A i \in 1 .. Len(articles) : articles'[i] = IF i = id THEN e ELSE articles[i]
  BY <1>2, <1>3, <1>5, <1>6, ExceptSeq
<1>8. TablesInv'
  BY <1>2, <1>3, <1>7 DEF TablesInv
<1>9. TablesGrow
  <2>1. now \in Nat
    BY <1>3 DEF Times
  <2>2. \A i \in DOMAIN articles : articles[i].images \in Nat
    BY <1>3, PagesAssumption
  <2> QED BY <1>2, <1>3, <1>5, <1>7, <2>1, <2>2 DEF TablesGrow
<1> QED BY <1>2, <1>8, <1>9, GrowthIsSafe

LEMMA TickStep ==
  ASSUME PagesInv, Tick
  PROVE  PagesInv'
<1>1. TablesInv /\ TablesFacts
  BY Tables DEF PagesInv
<1>2. now + 1 \in Times /\ now' = now + 1 /\ articles' = articles /\ session' = session
      /\ LookAway
  BY DEF Tick
<1>3. TablesInv'
  BY <1>1, <1>2 DEF TablesInv
<1>4. TablesGrow
  <2>1. now \in Nat /\ Len(articles) \in Nat
    BY <1>1 DEF TablesInv, TablesFacts, Times
  <2>2. \A i \in DOMAIN articles : articles[i].images \in Nat
    BY <1>1, PagesAssumption DEF TablesFacts
  <2> QED BY <1>2, <2>1, <2>2 DEF TablesGrow
<1> QED BY <1>2, <1>3, <1>4, GrowthIsSafe

-----------------------------------------------------------------------------
\* GET /articles/{id}.

LEMMA OpenKeeps ==
  ASSUME PagesInv, NEW r \in Readers, NEW a \in Answers, Open(r, a),
         a.id \in DOMAIN articles /\ ~a.failed =>
           IF articles[a.id].images = 0 THEN a.status = 500
           ELSE a.status = 200 /\ a.view = ViewOf(articles[a.id].images)
  PROVE  PagesInv'
<1>1. /\ TablesInv /\ session \in [Readers -> Sessions] /\ opened \in [Readers -> Answers]
      /\ \A q \in Readers : SessionInv(q) /\ SkipsNothing(q)
      /\ DOMAIN articles = 1 .. Len(articles)
  BY Tables DEF PagesInv, TablesFacts
<1>2. UNCHANGED <<articles, now, session>> /\ opened' = [NoAnswers EXCEPT ![r] = a]
  BY DEF Open
<1>3. NoAnswer \in Answers /\ NoAnswer.id \notin DOMAIN articles
  BY <1>1, PagesAssumption DEF NoAnswer, Answers, NoView, Views, NoImage
<1>4. \A q \in Readers : opened'[q] = IF q = r THEN a ELSE NoAnswer
  BY <1>2 DEF NoAnswers
<1>5. opened' \in [Readers -> Answers]
  BY <1>2, <1>3 DEF NoAnswers
<1>6. ASSUME NEW q \in Readers PROVE AnswerInv(q)'
  BY <1>2, <1>3, <1>4 DEF AnswerInv
<1>7. ASSUME NEW q \in Readers PROVE SessionInv(q)' /\ SkipsNothing(q)'
  BY <1>1, <1>2 DEF SessionInv, SkipsNothing, RowAgrees, Listed, Alone, Rank
<1>8. TablesInv'
  BY <1>1, <1>2 DEF TablesInv
<1> QED BY <1>1, <1>2, <1>5, <1>6, <1>7, <1>8 DEF PagesInv

LEMMA ClickableIDs ==
  ASSUME PagesInv, NEW r \in Readers, NEW id \in Clickable(r)
  PROVE  id \in 0 .. MaxArticles + 1
<1>1. session[r].rows \in Seq([id : IDs, view : Views])
  BY DEF PagesInv, Sessions
<1>2. ASSUME NEW row \in ToSet(session[r].rows) PROVE row.id \in IDs
  <2>1. PICK i \in DOMAIN session[r].rows : row = session[r].rows[i]
    BY DEF ToSet
  <2>2. session[r].rows[i] \in [id : IDs, view : Views]
    BY <1>1, ElementOfSeq, LenProperties
  <2> QED BY <2>1, <2>2
<1> QED BY <1>2, PagesAssumption DEF Clickable, IDs

LEMMA GetArticleByIDStep ==
  ASSUME PagesInv, NEW r \in Readers, NEW id \in Clickable(r), GetArticleByID(r, id)
  PROVE  PagesInv'
<1>1. /\ TablesInv /\ TablesFacts /\ articles \in Seq(Counts)
      /\ id \in 0 .. MaxArticles + 1
  BY Tables, ClickableIDs DEF PagesInv, TablesInv
<1>2. NoView \in Views
  BY PagesAssumption DEF NoView, Views, NoImage
<1>3. CASE id \notin DOMAIN articles
  <2> DEFINE a == Answer(id, 404, NoView)
  <2>1. a \in Answers /\ a.id = id
    BY <1>1, <1>2 DEF Answers, Answer
  <2>2. Open(r, a)
    BY <1>3 DEF GetArticleByID
  <2> HIDE DEF a
  <2> QED BY <1>3, <2>1, <2>2, OpenKeeps
<1>4. CASE id \in DOMAIN articles /\ articles[id].images = 0
  <2> DEFINE a == Answer(id, 500, NoView)
  <2>1. a \in Answers /\ a.id = id /\ a.status = 500
    BY <1>1, <1>2 DEF Answers, Answer
  <2>2. Open(r, a)
    BY <1>1, <1>4, OpenSees DEF GetArticleByID
  <2> HIDE DEF a
  <2> QED BY <1>4, <2>1, <2>2, OpenKeeps
<1>5. CASE id \in DOMAIN articles /\ articles[id].images # 0
  <2> DEFINE v == ViewOf(articles[id].images)
             a == Answer(id, 200, v)
  <2>1. v \in Views
    BY <1>1, <1>5, ViewIsView DEF TablesFacts
  <2>2. ImagesOf(id) # {} /\ ArticleFromRow(ImagesOf(id)) = v
    BY <1>1, <1>5, OpenSees
  <2> HIDE DEF v
  <2>3. a \in Answers /\ a.id = id /\ a.status = 200 /\ a.view = v
    BY <1>1, <2>1 DEF Answers, Answer
  <2>4. Open(r, a)
    BY <1>5, <2>2 DEF GetArticleByID
  <2> HIDE DEF a
  <2> QED BY <1>5, <2>3, <2>4, OpenKeeps DEF v
<1> QED BY <1>3, <1>4, <1>5

LEMMA OtherAnswers ==
  ASSUME PagesInv, NEW r \in Readers,
         \/ \E id \in Clickable(r) : GetArticleByIDFails(r, id)
         \/ GetArticleByNoID(r)
  PROVE  PagesInv'
<1>1. NoView \in Views /\ 0 \in 0 .. MaxArticles + 1 /\ 0 \notin DOMAIN articles
  <2>1. DOMAIN articles = 1 .. Len(articles)
    BY Tables DEF PagesInv, TablesFacts
  <2> QED BY <2>1, PagesAssumption DEF NoView, Views, NoImage
<1>2. ASSUME NEW id \in Clickable(r), GetArticleByIDFails(r, id) PROVE PagesInv'
  <2> DEFINE a == [Answer(id, 500, NoView) EXCEPT !.failed = TRUE]
  <2>0. PICK w : w = Answer(id, 500, NoView)
    OBVIOUS
  <2>2. a \in Answers /\ a.failed
    <3>1. id \in 0 .. MaxArticles + 1
      BY ClickableIDs
    <3>2. w \in Answers
      BY <1>1, <2>0, <3>1 DEF Answer, Answers
    <3>3. ASSUME NEW t \in BOOLEAN
          PROVE  [w EXCEPT !.failed = t] \in Answers /\ [w EXCEPT !.failed = t].failed = t
      BY <3>2 DEF Answers
    <3> QED BY <2>0, <3>3
  <2>3. Open(r, a)
    BY <1>2 DEF GetArticleByIDFails
  <2> HIDE DEF a
  <2> QED BY <2>2, <2>3, OpenKeeps
<1>3. CASE GetArticleByNoID(r)
  <2> DEFINE a == Answer(0, 428, NoView)
  <2>1. a \in Answers /\ a.id = 0
    BY <1>1 DEF Answer, Answers
  <2>2. Open(r, a)
    BY <1>3 DEF GetArticleByNoID
  <2> HIDE DEF a
  <2> QED BY <1>1, <2>1, <2>2, OpenKeeps
<1> QED BY <1>2, <1>3

-----------------------------------------------------------------------------
\* GET /articles.

\* An article alone on its date has one place in every order of the list: the
\* page cut there shows it.
LEMMA PassedOverIsBelow ==
  ASSUME TablesInv, NEW sorting \in Sortings, NEW page \in Nat \ {0},
         NEW order \in Orders(sorting), NEW id \in Listed, Alone(id),
         id \notin ToSet(PageOf(order, page)),
         Rank(id, sorting) > (page - 1) * PageSize
  PROVE  Rank(id, sorting) > page * PageSize
<1> DEFINE n == Cardinality(Listed)
           low == (page - 1) * PageSize
<1>1. /\ IsFiniteSet(Listed) /\ Listed \subseteq DOMAIN articles
      /\ \A o \in DOMAIN articles : articles[o].date \in Nat
  BY Tables DEF TablesFacts
<1>2. order \in SetToSeqs(Listed)
      /\ \A i, j \in DOMAIN order :
           i < j => ~Before(articles[order[j]].date, articles[order[i]].date, sorting)
  BY DEF Orders
<1>3. /\ n \in Nat /\ order \in [1 .. n -> Listed]
      /\ \A i, j \in 1 .. n : i # j => order[i] # order[j]
      /\ \A o \in Listed : \E i \in 1 .. n : order[i] = o
  BY <1>1, <1>2, OrderIsOnto
<1> HIDE DEF n
<1>4. PICK i \in 1 .. n : order[i] = id
  BY <1>3
<1>5. {o \in Listed : Before(articles[o].date, articles[id].date, sorting)}
        = Above(order, i)
  <2>1. ASSUME NEW o \in Listed, Before(articles[o].date, articles[id].date, sorting)
        PROVE  \E j \in 1 .. i - 1 : o = order[j]
    <3>1. PICK j \in 1 .. n : order[j] = o
      BY <1>3
    <3>2. articles[id].date \in Nat /\ o # id
      BY <1>1, <2>1 DEF Before
    <3>3. ~(i < j) /\ i # j
      BY <1>2, <1>3, <1>4, <2>1, <3>1, <3>2
    <3>4. j \in 1 .. i - 1
      BY <1>3, <3>3
    <3> QED BY <3>1, <3>4
  <2>2. ASSUME NEW j \in 1 .. i - 1
        PROVE  order[j] \in Listed
               /\ Before(articles[order[j]].date, articles[id].date, sorting)
    <3>1. j \in 1 .. n /\ j < i /\ j # i
      BY <1>3
    <3>2. order[j] \in Listed /\ order[j] # id
      BY <1>3, <1>4, <3>1
    <3>3. ~Before(articles[id].date, articles[order[j]].date, sorting)
      BY <1>2, <1>3, <1>4, <3>1
    <3>4. articles[order[j]].date # articles[id].date
      BY <3>2 DEF Alone
    <3>5. articles[order[j]].date \in Nat /\ articles[id].date \in Nat
      BY <1>1, <3>2
    <3> QED BY <3>2, <3>3, <3>4, <3>5 DEF Before
  <2> QED BY <2>1, <2>2 DEF Above
<1>6. Cardinality(Above(order, i)) = i - 1
  <2>1. n \in Nat /\ order \in [1 .. n -> Listed]
        /\ \A k, j \in 1 .. n : k # j => order[k] # order[j]
    BY <1>3
  <2> HIDE DEF Listed
  <2> QED BY <2>1, CountAbove
<1>7. Rank(id, sorting) = i
  <2>1. Rank(id, sorting) = 1 + Cardinality(Above(order, i))
    BY <1>5 DEF Rank
  <2> QED BY <1>3, <1>6, <2>1
<1>8. order \in Seq(Listed) /\ DOMAIN order = 1 .. n
  BY <1>3
<1>9. /\ low \in Nat /\ page * PageSize = low + PageSize
      /\ \A k \in DOMAIN order :
           k > low /\ k <= low + PageSize => order[k] \in ToSet(PageOf(order, page))
  BY <1>8, PageIsCut
<1> HIDE DEF low
<1>10. i > low
  BY <1>7 DEF low
<1>11. ~(i <= low + PageSize)
  BY <1>4, <1>8, <1>9, <1>10
<1> QED BY <1>3, <1>7, <1>9, <1>11, PagesAssumption

\* What the reader of a new page knew before it.
Known(start, seen, sorting, page) ==
  /\ start \subseteq Listed /\ seen \subseteq Listed
  /\ \A id \in start \ seen : Alone(id) => Rank(id, sorting) > (page - 1) * PageSize

LEMMA KnownBefore ==
  ASSUME PagesInv, NEW r \in Readers, NEW sorting \in Sortings, NEW page \in IDs,
         NEW order \in Orders(sorting), NEW old,
         old = IF page = 1 THEN [NoSession EXCEPT !.start = Listed] ELSE session[r],
         \/ page = 1
         \/ page = session[r].page + 1 /\ sorting = session[r].sorting
  PROVE  Known(old.start, old.seen, sorting, page)
<1>1. TablesInv /\ SessionInv(r) /\ SkipsNothing(r) /\ session[r] \in Sessions
  BY DEF PagesInv
<1>2. CASE page = 1
  <2>1. old.start = Listed /\ old.seen = {}
    BY <1>2 DEF NoSession
  <2>2. ASSUME NEW id \in Listed PROVE Rank(id, sorting) > (page - 1) * PageSize
    <3> DEFINE above == {o \in Listed :
                           Before(articles[o].date, articles[id].date, sorting)}
    <3>1. IsFiniteSet(above)
      <4>1. IsFiniteSet(Listed)
        BY <1>1, Tables DEF TablesFacts
      <4> QED BY <4>1, FS_Subset
    <3>2. Cardinality(above) \in Nat
      BY <3>1, FS_CardinalityType
    <3>3. Rank(id, sorting) = 1 + Cardinality(above)
      BY DEF Rank
    <3> HIDE DEF above
    <3>4. page - 1 = 0 /\ 0 * PageSize = 0
      BY <1>2, PagesAssumption
    <3> QED BY <3>2, <3>3, <3>4
  <2> QED BY <2>1, <2>2 DEF Known
<1>3. CASE page # 1
  <2>1. old = session[r] /\ sorting = session[r].sorting /\ page - 1 = session[r].page
    <3>1. session[r].page \in Nat
      BY <1>1 DEF Sessions
    <3> QED BY <1>3, <3>1
  <2>2. \A id \in old.start \ old.seen :
          Alone(id) => Rank(id, sorting) > (page - 1) * PageSize
    BY <1>1, <2>1 DEF SkipsNothing
  <2>3. old.start \subseteq Listed /\ old.seen \subseteq Listed
    BY <1>1, <2>1 DEF SessionInv
  <2> QED BY <2>2, <2>3 DEF Known
<1> QED BY <1>2, <1>3

LEMMA GetArticlesStep ==
  ASSUME PagesInv, NEW r \in Readers, NEW sorting \in Sortings, NEW page \in IDs,
         GetArticles(r, sorting, page)
  PROVE  PagesInv'
<1>1. /\ TablesInv /\ TablesFacts /\ session \in [Readers -> Sessions]
      /\ opened \in [Readers -> Answers] /\ articles \in Seq(Counts)
      /\ \A q \in Readers : SessionInv(q) /\ SkipsNothing(q)
  BY Tables DEF PagesInv, TablesInv
<1>2. UNCHANGED <<articles, now>> /\ LookAway
  BY DEF GetArticles
<1>3. page \in Nat \ {0}
  BY DEF IDs
<1>4. PICK old : old = IF page = 1 THEN [NoSession EXCEPT !.start = Listed] ELSE session[r]
  OBVIOUS
<1>5. PICK order \in Orders(sorting) :
        LET ids == PageOf(order, page)
        IN  session' = [session EXCEPT ![r] =
              [sorting |-> sorting, page |-> page, start |-> old.start,
               rows |-> [i \in DOMAIN ids |-> [id |-> ids[i], view |-> ListView(ids[i])]],
               seen |-> old.seen \cup ToSet(ids)]]
  BY <1>4 DEF GetArticles
<1>6. Known(old.start, old.seen, sorting, page)
  <2>1. \/ page = 1
        \/ page = session[r].page + 1 /\ sorting = session[r].sorting
    BY DEF GetArticles
  <2> QED BY <1>4, <2>1, KnownBefore
<1>7. PICK ids : ids = PageOf(order, page)
  OBVIOUS
<1>8. PICK rows : rows = [i \in DOMAIN ids |-> [id |-> ids[i], view |-> ListView(ids[i])]]
  OBVIOUS
<1>9. PICK seen : seen = old.seen \cup ToSet(ids)
  OBVIOUS
<1>10. PICK s : s = [sorting |-> sorting, page |-> page, start |-> old.start,
                     rows |-> rows, seen |-> seen]
  OBVIOUS
<1>11. session' = [session EXCEPT ![r] = s]
  BY <1>5, <1>7, <1>8, <1>9, <1>10
<1>12. /\ ids \in Seq(Listed) /\ Len(ids) <= PageSize /\ Len(ids) \in Nat
       /\ ToSet(ids) \subseteq Listed /\ DOMAIN ids = 1 .. Len(ids)
  <2>1. order \in SetToSeqs(Listed) /\ IsFiniteSet(Listed)
    BY <1>1 DEF Orders, TablesFacts
  <2>2. Cardinality(Listed) \in Nat /\ order \in [1 .. Cardinality(Listed) -> Listed]
    <3>1. Cardinality(Listed) \in Nat
      BY <2>1, FS_CardinalityType
    <3> QED BY <2>1, <3>1 DEF SetToSeqs
  <2>3. order \in Seq(Listed)
    BY <2>2
  <2>4. /\ ids \in Seq(Listed) /\ Len(ids) <= PageSize /\ ToSet(ids) \subseteq Listed
        /\ DOMAIN ids = 1 .. Len(ids)
    BY <1>3, <1>7, <2>3, PageIsCut
  <2> QED BY <2>4, LenProperties
<1>13. ASSUME NEW i \in 1 .. Len(ids)
       PROVE  /\ rows[i].id = ids[i] /\ ids[i] \in ToSet(ids)
              /\ ids[i] \in Listed /\ ids[i] \in IDs
              /\ rows[i].view = ViewOf(articles[ids[i]].images)
              /\ articles[ids[i]].images \in 0 .. Images
  <2>1. rows[i] = [id |-> ids[i], view |-> ListView(ids[i])]
    BY <1>8, <1>12
  <2>2. ids[i] \in ToSet(ids) /\ ids[i] \in Listed
    <3>1. ids[i] \in ToSet(ids)
      BY <1>12 DEF ToSet
    <3> QED BY <1>12, <3>1
  <2>3. /\ ids[i] \in DOMAIN articles /\ ids[i] \in IDs
        /\ articles[ids[i]].images \in 0 .. Images
    BY <1>1, <2>2 DEF TablesFacts
  <2>4. ListView(ids[i]) = ViewOf(articles[ids[i]].images)
    BY <1>1, <2>3, ListSees
  <2> QED BY <2>1, <2>2, <2>3, <2>4
<1>14. rows \in Seq([id : IDs, view : Views]) /\ Len(rows) = Len(ids)
       /\ DOMAIN rows = 1 .. Len(ids)
  <2>1. ASSUME NEW i \in 1 .. Len(ids) PROVE rows[i] \in [id : IDs, view : Views]
    <3>1. rows[i] = [id |-> ids[i], view |-> ListView(ids[i])]
      BY <1>8, <1>12
    <3>2. rows[i].view = ListView(ids[i])
      BY <3>1
    <3>3. ids[i] \in IDs /\ rows[i].view \in Views
      BY <1>13, ViewIsView
    <3> QED BY <3>1, <3>2, <3>3
  <2>2. rows = [i \in 1 .. Len(ids) |-> rows[i]]
    BY <1>8, <1>12
  <2>3. rows \in [1 .. Len(ids) -> [id : IDs, view : Views]]
    BY <2>1, <2>2
  <2>4. rows \in Seq([id : IDs, view : Views])
    <3> DEFINE R == [id : IDs, view : Views]
    <3>1. Len(ids) \in Nat /\ rows \in [1 .. Len(ids) -> R]
      BY <1>12, <2>3
    <3> HIDE DEF R
    <3>2. rows \in Seq(R)
      BY <3>1
    <3> QED BY <3>2 DEF R
  <2>5. DOMAIN rows = 1 .. Len(ids)
    BY <2>2
  <2>6. Len(rows) \in Nat /\ DOMAIN rows = 1 .. Len(rows)
    BY <2>4, LenProperties
  <2> QED BY <1>12, <2>4, <2>5, <2>6
<1>15. old.start \subseteq Listed /\ old.seen \subseteq Listed /\ Listed \subseteq IDs
  BY <1>1, <1>6 DEF Known, TablesFacts
<1>16. s \in Sessions
  <2>1. seen \subseteq Listed
    BY <1>9, <1>12, <1>15
  <2> QED BY <1>3, <1>10, <1>14, <1>15, <2>1 DEF Sessions
<1>17. session' \in [Readers -> Sessions] /\ session'[r] = s
       /\ \A q \in Readers : q # r => session'[q] = session[q]
  BY <1>1, <1>11, <1>16
<1>18. ASSUME NEW q \in Readers PROVE SessionInv(q)'
  <2>1. CASE q # r
    BY <1>1, <1>2, <1>17, <2>1 DEF SessionInv, RowAgrees, Listed
  <2>2. CASE q = r
    <3>1. s.start \cup s.seen \subseteq Listed /\ Len(s.rows) <= PageSize
      BY <1>9, <1>10, <1>12, <1>14, <1>15
    <3>2. ASSUME NEW row \in ToSet(rows) PROVE row.id \in seen /\ RowAgrees(row)
      <4>1. PICK i \in 1 .. Len(ids) : row = rows[i]
        BY <1>14 DEF ToSet
      <4>2. row.id = ids[i] /\ row.id \in seen
        BY <1>9, <1>13, <4>1
      <4>3. articles[row.id].images \in 0 .. articles[row.id].images
            /\ row.view = ViewOf(articles[row.id].images)
        <5>1. row.view = ViewOf(articles[ids[i]].images)
              /\ articles[ids[i]].images \in Nat
          BY <1>13, <4>1
        <5>2. articles[ids[i]].images \in 0 .. articles[ids[i]].images
          BY <5>1
        <5> QED BY <4>2, <5>1, <5>2
      <4> QED BY <4>2, <4>3 DEF RowAgrees
    <3>3. s.rows = rows /\ s.seen = seen
      BY <1>10
    <3> QED BY <1>2, <1>17, <2>2, <3>1, <3>2, <3>3 DEF SessionInv, RowAgrees, Listed
  <2> QED BY <2>1, <2>2
<1>19. ASSUME NEW q \in Readers PROVE SkipsNothing(q)'
  <2>1. CASE q # r
    BY <1>1, <1>2, <1>17, <2>1 DEF SkipsNothing, Listed, Alone, Rank
  <2>2. CASE q = r
    <3>1. ASSUME NEW id \in old.start \ seen, Alone(id)
          PROVE  Rank(id, sorting) > page * PageSize
      <4>1. id \in Listed /\ id \notin ToSet(ids) /\ id \in old.start \ old.seen
        BY <1>9, <1>15
      <4>2. Rank(id, sorting) > (page - 1) * PageSize
        BY <1>6, <3>1, <4>1 DEF Known
      <4> QED BY <1>1, <1>3, <1>7, <3>1, <4>1, <4>2, PassedOverIsBelow
    <3>2. /\ s.start = old.start /\ s.seen = seen /\ s.page = page
          /\ s.sorting = sorting
      BY <1>10
    <3> QED BY <1>2, <1>17, <2>2, <3>1, <3>2 DEF SkipsNothing, Listed, Alone, Rank
  <2> QED BY <2>1, <2>2
<1>20. opened' \in [Readers -> Answers] /\ \A q \in Readers : AnswerInv(q)'
  <2>1. NoAnswer \in Answers /\ NoAnswer.id \notin DOMAIN articles
    <3>1. DOMAIN articles = 1 .. Len(articles)
      BY <1>1 DEF TablesFacts
    <3> QED BY <3>1, PagesAssumption DEF NoAnswer, Answers, NoView, Views, NoImage
  <2>2. \A q \in Readers : opened'[q] = NoAnswer
    BY <1>2 DEF LookAway, NoAnswers
  <2> QED BY <1>2, <2>1, <2>2 DEF LookAway, NoAnswers, AnswerInv
<1>21. TablesInv'
  BY <1>1, <1>2 DEF TablesInv
<1> QED BY <1>17, <1>18, <1>19, <1>20, <1>21 DEF PagesInv

-----------------------------------------------------------------------------
\* The invariant and the theorems.

LEMMA PagesInit == Init => PagesInv
<1> SUFFICES ASSUME Init PROVE PagesInv
  OBVIOUS
<1>1. /\ articles = <<>> /\ now = 1 /\ session = [r \in Readers |-> NoSession]
      /\ opened = [r \in Readers |-> NoAnswer]
  BY DEF Init
<1>2. TablesInv
  BY <1>1, PagesAssumption DEF TablesInv, Times
<1>3. DOMAIN articles = {} /\ Len(<<>>) = 0 /\ <<>> \in Seq([id : IDs, view : Views])
  BY <1>1
<1>4. NoSession \in Sessions /\ NoSession.rows = <<>> /\ NoSession.start = {}
      /\ NoSession.seen = {}
  BY <1>3 DEF NoSession, Sessions, Sortings
<1>5. NoAnswer \in Answers
  BY PagesAssumption DEF NoAnswer, Answers, NoView, Views, NoImage
<1>6. session \in [Readers -> Sessions] /\ opened \in [Readers -> Answers]
  BY <1>1, <1>4, <1>5
<1>7. ASSUME NEW r \in Readers PROVE SessionInv(r) /\ SkipsNothing(r) /\ AnswerInv(r)
  <2>1. session[r] = NoSession
    BY <1>1
  <2>2. ToSet(<<>>) = {}
    BY DEF ToSet
  <2>3. SessionInv(r)
    BY <1>3, <1>4, <2>1, <2>2, PagesAssumption DEF SessionInv
  <2>4. SkipsNothing(r)
    BY <1>4, <2>1 DEF SkipsNothing
  <2> QED BY <1>3, <2>3, <2>4 DEF AnswerInv
<1> QED BY <1>2, <1>6, <1>7 DEF PagesInv

LEMMA PagesStep == PagesInv /\ [Next]_vars => PagesInv'
<1> SUFFICES ASSUME PagesInv, [Next]_vars PROVE PagesInv'
  OBVIOUS
<1>1. ASSUME NEW date \in Times, NewArticle(date) PROVE PagesInv'
  BY <1>1, NewArticleStep
<1>2. ASSUME NEW id \in IDs, AttachArticleImage(id) PROVE PagesInv'
  BY <1>2, AttachArticleImageStep
<1>3. CASE Tick
  BY <1>3, TickStep
<1>4. ASSUME NEW r \in Readers, NEW sorting \in Sortings, NEW page \in IDs,
             GetArticles(r, sorting, page)
      PROVE  PagesInv'
  BY <1>4, GetArticlesStep
<1>5. ASSUME NEW r \in Readers, NEW id \in Clickable(r), GetArticleByID(r, id)
      PROVE  PagesInv'
  BY <1>5, GetArticleByIDStep
<1>6. ASSUME NEW r \in Readers,
             \/ \E id \in Clickable(r) : GetArticleByIDFails(r, id)
             \/ GetArticleByNoID(r)
      PROVE  PagesInv'
  BY <1>6, OtherAnswers
<1>7. CASE UNCHANGED vars
  BY <1>7 DEF vars, PagesInv, TablesInv, SessionInv, RowAgrees, SkipsNothing, AnswerInv,
              Listed, Alone, Rank
<1> QED BY <1>1, <1>2, <1>3, <1>4, <1>5, <1>6, <1>7 DEF Next

LEMMA PagesInvariant == Spec => []PagesInv
<1>1. Init => PagesInv
  BY PagesInit
<1>2. PagesInv /\ [Next]_vars => PagesInv'
  BY PagesStep
<1> QED BY <1>1, <1>2, PTL DEF Spec

LEMMA RowIsIn ==
  ASSUME PagesInv, NEW r \in Readers, NEW row \in ToSet(session[r].rows)
  PROVE  /\ row.view \in Views /\ row.id \in session[r].seen
         /\ row.id \in DOMAIN articles /\ RowAgrees(row)
         /\ articles[row.id].images \in 0 .. Images
<1>1. /\ TablesFacts /\ SessionInv(r) /\ session[r].rows \in Seq([id : IDs, view : Views])
  BY Tables DEF PagesInv, Sessions
<1>2. PICK i \in DOMAIN session[r].rows : row = session[r].rows[i]
  BY DEF ToSet
<1>3. row \in [id : IDs, view : Views]
  BY <1>1, <1>2, ElementOfSeq, LenProperties
<1>4. row.id \in session[r].seen /\ RowAgrees(row) /\ row.id \in DOMAIN articles
  BY <1>1 DEF SessionInv, TablesFacts
<1> QED BY <1>1, <1>3, <1>4 DEF TablesFacts

\* The variables keep their types; a page has at most the rows that were asked
\* for, of visible articles, each with one main image or none.
THEOREM TypeCorrect == Spec => []TypeOK
<1>1. PagesInv => TypeOK
  <2> SUFFICES ASSUME PagesInv PROVE TypeOK
    OBVIOUS
  <2>1. articles \in Seq([date : Times, images : 0 .. Images]) /\ now \in Times
    BY DEF PagesInv, TablesInv, Counts
  <2>2. ASSUME NEW r \in Readers
        PROVE  /\ session[r].sorting \in Sortings /\ session[r].page \in Nat
               /\ Len(session[r].rows) <= PageSize
               /\ session[r].start \cup session[r].seen \subseteq Listed
               /\ opened[r].id \in 0 .. MaxArticles + 1 /\ opened[r].view \in Views
               /\ opened[r].status \in {0, 200, 404, 428, 500}
    <3>1. session[r] \in Sessions /\ opened[r] \in Answers /\ SessionInv(r)
      BY DEF PagesInv
    <3> QED BY <3>1 DEF Sessions, Answers, SessionInv
  <2>3. \A r \in Readers : \A row \in ToSet(session[r].rows) :
          row.id \in session[r].seen /\ row.view \in Views
    BY RowIsIn
  <2> QED BY <2>1, <2>2, <2>3 DEF TypeOK
<1> QED BY <1>1, PagesInvariant, PTL

\* However the list grows while a reader turns its pages, an article that was
\* there when it started and has its date alone is either shown or still to come.
THEOREM PagesSkipNothing == Spec => []NothingSkipped
<1>1. PagesInv => NothingSkipped
  BY DEF PagesInv, SkipsNothing, NothingSkipped
<1> QED BY <1>1, PagesInvariant, PTL

\* Whatever happened since the list was read, opening an article of it answers
\* 200 with the main image listed and no fewer other images.
THEOREM ListedOpens == Spec => []OpensAsListed
<1>1. PagesInv => OpensAsListed
  <2> SUFFICES ASSUME PagesInv, NEW r \in Readers, NEW row \in ToSet(session[r].rows),
                      opened[r].id = row.id, ~opened[r].failed, row.view.main # NoImage
               PROVE  /\ opened[r].status = 200
                      /\ opened[r].view.main = row.view.main
                      /\ row.view.content \subseteq opened[r].view.content
    BY DEF OpensAsListed
  <2>1. /\ row.id \in DOMAIN articles /\ RowAgrees(row) /\ AnswerInv(r)
        /\ articles[row.id].images \in 0 .. Images
    BY RowIsIn DEF PagesInv
  <2>2. PICK m : m = articles[row.id].images
    OBVIOUS
  <2>3. PICK n \in 0 .. m : row.view = ViewOf(n)
    BY <2>1, <2>2 DEF RowAgrees
  <2>4. m \in Nat
    BY <2>1, <2>2
  <2>5. n # 0
    BY <2>3 DEF ViewOf
  <2>6. row.view.main = 1 /\ row.view.content = 2 .. n
    BY <2>3, <2>5 DEF ViewOf
  <2>7. m # 0 /\ 2 .. n \subseteq 2 .. m
    BY <2>4, <2>5
  <2>8. opened[r].status = 200 /\ opened[r].view = ViewOf(m)
    BY <2>1, <2>2, <2>7 DEF AnswerInv
  <2>9. opened[r].view.main = 1 /\ opened[r].view.content = 2 .. m
    BY <2>7, <2>8 DEF ViewOf
  <2> QED BY <2>6, <2>7, <2>8, <2>9
<1> QED BY <1>1, PagesInvariant, PTL
=============================================================================
