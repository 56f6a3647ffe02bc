------------------------- MODULE ArticleQuery_proofs -------------------------
(***************************************************************************)
(* GET /api/v1/articles for any number of readers, filters and articles,   *)
(* any page size and any failing calls: types, that links lead to          *)
(* articles, and the form of the views.                                    *)
(***************************************************************************)
EXTENDS ArticleQuery, FiniteSetTheorems, SequenceTheorems, TLAPS

-----------------------------------------------------------------------------
(***************************************************************************)
(* The views of paginationutils.go for every number of pages: what they    *)
(* link, and that what they leave out is marked.                           *)
(***************************************************************************)

\* A part of a view from link a to link z that leaves no page out unmarked.
Unbroken(s, a, z) ==
  /\ s \in Seq(Int) /\ s # <<>>
  /\ s[1] = a /\ s[Len(s)] = z
  /\ \A i \in 1 .. Len(s) - 1 :
       s[i] # Placeholder /\ s[i + 1] # Placeholder => s[i + 1] = s[i] + 1

-----------------------------------------------------------------------------
\* Parts of a view.

LEMMA RangeType ==
  ASSUME NEW a \in Int, NEW b \in Int, a <= b
  PROVE  /\ PageLinksRange(a, b) \in Seq(Int)
         /\ Len(PageLinksRange(a, b)) = b - a + 1
         /\ \A i \in 1 .. b - a + 1 : PageLinksRange(a, b)[i] = a + i - 1
<1>. DEFINE n == b - a + 1
<1>1. n \in Nat /\ PageLinksRange(a, b) = [i \in 1 .. n |-> a + i - 1]
  BY DEF PageLinksRange
<1>2. PageLinksRange(a, b) \in [1 .. n -> Int]
  BY <1>1
<1>3. Len(PageLinksRange(a, b)) = n
  BY <1>1
<1>. QED
  BY <1>1, <1>2, <1>3

LEMMA RangeUnbroken ==
  ASSUME NEW a \in Int, NEW b \in Int, a <= b
  PROVE  Unbroken(PageLinksRange(a, b), a, b)
<1>. SUFFICES ASSUME NEW s, s = PageLinksRange(a, b) PROVE Unbroken(s, a, b)
  OBVIOUS
<1>1. s \in Seq(Int) /\ Len(s) = b - a + 1 /\ \A i \in 1 .. b - a + 1 : s[i] = a + i - 1
  BY RangeType
<1>2. s # <<>> /\ s[1] = a /\ s[Len(s)] = b
  BY <1>1
<1>3. \A i \in 1 .. Len(s) - 1 : s[i + 1] = s[i] + 1
  BY <1>1
<1>. QED
  BY <1>1, <1>2, <1>3 DEF Unbroken

LEMMA OneUnbroken == ASSUME NEW a \in Int PROVE Unbroken(<<a>>, a, a)
  BY DEF Unbroken

LEMMA GapUnbroken == Unbroken(<<Placeholder>>, Placeholder, Placeholder)
  BY DEF Unbroken, Placeholder

LEMMA GapFirstUnbroken ==
  ASSUME NEW a \in Int PROVE Unbroken(<<Placeholder, a>>, Placeholder, a)
  BY DEF Unbroken, Placeholder

LEMMA GapLastUnbroken == Unbroken(<<1, Placeholder>>, 1, Placeholder)
  BY DEF Unbroken, Placeholder

LEMMA JoinUnbroken ==
  ASSUME NEW s, NEW t, NEW a, NEW y, NEW b, NEW z,
         Unbroken(s, a, y), Unbroken(t, b, z),
         y = Placeholder \/ b = Placeholder \/ b = y + 1
  PROVE  Unbroken(s \o t, a, z)
<1>1. /\ s \in Seq(Int) /\ t \in Seq(Int) /\ s # <<>> /\ t # <<>>
      /\ Len(s) \in Nat \ {0} /\ Len(t) \in Nat \ {0}
  BY DEF Unbroken
<1>2. SUFFICES ASSUME NEW v, v = s \o t PROVE Unbroken(v, a, z)
  OBVIOUS
<1>3. /\ v \in Seq(Int) /\ Len(v) = Len(s) + Len(t)
      /\ \A i \in 1 .. Len(s) + Len(t) : v[i] = IF i <= Len(s) THEN s[i] ELSE t[i - Len(s)]
  BY <1>1, <1>2, ConcatProperties
<1>4. /\ s[1] = a /\ s[Len(s)] = y /\ t[1] = b /\ t[Len(t)] = z
      /\ \A i \in 1 .. Len(s) - 1 :
           s[i] # Placeholder /\ s[i + 1] # Placeholder => s[i + 1] = s[i] + 1
      /\ \A i \in 1 .. Len(t) - 1 :
           t[i] # Placeholder /\ t[i + 1] # Placeholder => t[i + 1] = t[i] + 1
  BY DEF Unbroken
<1>5. \A i \in 1 .. Len(s) : v[i] = s[i]
  <2>. TAKE i \in 1 .. Len(s)
  <2>1. i \in 1 .. Len(s) + Len(t) /\ i <= Len(s)
    BY <1>1
  <2>. QED
    BY <1>1, <1>3, <2>1
<1>6. \A i \in 1 .. Len(t) : v[i + Len(s)] = t[i]
  <2>. TAKE i \in 1 .. Len(t)
  <2>1. i + Len(s) \in 1 .. Len(s) + Len(t) /\ i + Len(s) > Len(s) /\ (i + Len(s)) - Len(s) = i
    BY <1>1
  <2>2. v[i + Len(s)] = IF i + Len(s) <= Len(s) THEN s[i + Len(s)] ELSE t[(i + Len(s)) - Len(s)]
    BY <1>3, <2>1
  <2>3. ~(i + Len(s) <= Len(s))
    BY <1>1, <2>1
  <2>. QED
    BY <2>1, <2>2, <2>3
<1>7. v # <<>> /\ v[1] = a /\ v[Len(v)] = z
  <2>1. Len(v) # 0 /\ 1 \in 1 .. Len(s) /\ Len(t) \in 1 .. Len(t) /\ Len(v) = Len(t) + Len(s)
    BY <1>1, <1>3
  <2>2. v[1] = a
    BY <1>4, <1>5, <2>1
  <2>3. v[Len(v)] = z
    BY <1>4, <1>6, <2>1
  <2>4. v # <<>>
    BY <2>1
  <2>. QED
    BY <2>2, <2>3, <2>4
<1>8. ASSUME NEW i \in 1 .. Len(v) - 1, v[i] # Placeholder, v[i + 1] # Placeholder
      PROVE  v[i + 1] = v[i] + 1
  <2>1. CASE i < Len(s)
    <3>1. i \in 1 .. Len(s) - 1 /\ i \in 1 .. Len(s) /\ i + 1 \in 1 .. Len(s)
      BY <1>1, <1>3, <2>1
    <3>. QED
      BY <1>4, <1>5, <1>8, <3>1
  <2>2. CASE i = Len(s)
    <3>1. v[i] = y /\ v[i + 1] = b
      <4>1. i \in 1 .. Len(s) /\ 1 \in 1 .. Len(t) /\ i + 1 = 1 + Len(s)
        BY <1>1, <2>2
      <4>. QED
        BY <1>4, <1>5, <1>6, <2>2, <4>1
    <3>. QED
      BY <1>8, <3>1
  <2>3. CASE i > Len(s)
    <3>1. PICK j \in 1 .. Len(t) - 1 : i = j + Len(s) /\ i + 1 = (j + 1) + Len(s)
      <4>1. i - Len(s) \in 1 .. Len(t) - 1 /\ i = (i - Len(s)) + Len(s)
            /\ i + 1 = ((i - Len(s)) + 1) + Len(s)
        BY <1>1, <1>3, <2>3
      <4>. QED
        BY <4>1
    <3>2. j \in 1 .. Len(t) /\ j + 1 \in 1 .. Len(t)
      BY <1>1
    <3>3. v[i] = t[j] /\ v[i + 1] = t[j + 1]
      BY <1>6, <3>1, <3>2
    <3>. QED
      BY <1>4, <1>8, <3>3
  <2>. QED
    BY <1>1, <1>3, <2>1, <2>2, <2>3
<1>. QED
  BY <1>3, <1>7, <1>8 DEF Unbroken

-----------------------------------------------------------------------------
\* What the parts link.

LEMMA LinkedRange ==
  ASSUME NEW a \in Int, NEW b \in Int, a <= b
  PROVE  Linked(PageLinksRange(a, b)) = (a .. b) \ {Placeholder}
<1>. DEFINE s == PageLinksRange(a, b)
<1>1. DOMAIN s = 1 .. b - a + 1 /\ \A i \in 1 .. b - a + 1 : s[i] = a + i - 1
  BY DEF PageLinksRange
<1>. HIDE DEF s
<1>2. ASSUME NEW p \in a .. b PROVE \E i \in DOMAIN s : s[i] = p
  <2>1. p - a + 1 \in 1 .. b - a + 1 /\ a + (p - a + 1) - 1 = p
    OBVIOUS
  <2>. QED
    BY <1>1, <2>1
<1>3. {s[i] : i \in DOMAIN s} = a .. b
  BY <1>1, <1>2
<1>. QED
  BY <1>3 DEF Linked, s

LEMMA LinkedJoin ==
  ASSUME NEW s \in Seq(Int), NEW t \in Seq(Int)
  PROVE  Linked(s \o t) = Linked(s) \cup Linked(t)
<1>. SUFFICES ASSUME NEW v, v = s \o t PROVE Linked(v) = Linked(s) \cup Linked(t)
  OBVIOUS
<1>1. /\ DOMAIN v = 1 .. Len(s) + Len(t) /\ DOMAIN s = 1 .. Len(s) /\ DOMAIN t = 1 .. Len(t)
      /\ Len(s) \in Nat /\ Len(t) \in Nat
      /\ \A i \in 1 .. Len(s) + Len(t) : v[i] = IF i <= Len(s) THEN s[i] ELSE t[i - Len(s)]
  BY ConcatProperties
<1>2. \A i \in DOMAIN s : i \in DOMAIN v /\ v[i] = s[i]
  BY <1>1
<1>3. ASSUME NEW i \in DOMAIN t PROVE i + Len(s) \in DOMAIN v /\ v[i + Len(s)] = t[i]
  <2>1. (i + Len(s)) - Len(s) = i /\ i + Len(s) > Len(s) /\ i + Len(s) \in DOMAIN v
    BY <1>1
  <2>. QED
    BY <1>1, <2>1
<1>4. ASSUME NEW i \in DOMAIN v
      PROVE  (\E j \in DOMAIN s : v[i] = s[j]) \/ (\E j \in DOMAIN t : v[i] = t[j])
  <2>1. CASE i <= Len(s)
    BY <1>1, <2>1
  <2>2. CASE i > Len(s)
    <3>1. i - Len(s) \in DOMAIN t /\ v[i] = t[i - Len(s)]
      BY <1>1, <2>2
    <3>. QED
      BY <3>1
  <2>. QED
    BY <1>1, <2>1, <2>2
<1>5. ASSUME NEW x PROVE x \in Linked(v) <=> x \in Linked(s) \cup Linked(t)
  <2>1. (\E i \in DOMAIN v : v[i] = x) =>
          (\E i \in DOMAIN s : s[i] = x) \/ (\E i \in DOMAIN t : t[i] = x)
    BY <1>4
  <2>2. (\E i \in DOMAIN s : s[i] = x) => \E i \in DOMAIN v : v[i] = x
    BY <1>2
  <2>3. (\E i \in DOMAIN t : t[i] = x) => \E i \in DOMAIN v : v[i] = x
    BY <1>3
  <2>. QED
    BY <2>1, <2>2, <2>3 DEF Linked
<1>. QED
  BY <1>5

\* A part of a view and the pages it links.
Part(s, pages) == s \in Seq(Int) /\ Linked(s) = pages

LEMMA RangePart ==
  ASSUME NEW a \in Int, NEW b \in Int, 1 <= a, a <= b
  PROVE  Part(PageLinksRange(a, b), a .. b)
<1>1. (a .. b) \ {Placeholder} = a .. b
  BY DEF Placeholder
<1>. QED
  BY <1>1, RangeType, LinkedRange DEF Part

LEMMA OnePart == ASSUME NEW a \in Nat \ {0} PROVE Part(<<a>>, {a})
  BY DEF Part, Linked, Placeholder

LEMMA GapPart == Part(<<Placeholder>>, {})
  BY DEF Part, Linked, Placeholder

LEMMA GapFirstPart == ASSUME NEW a \in Nat \ {0} PROVE Part(<<Placeholder, a>>, {a})
  BY DEF Part, Linked, Placeholder

LEMMA GapLastPart == Part(<<1, Placeholder>>, {1})
  BY DEF Part, Linked, Placeholder

LEMMA JoinPart ==
  ASSUME NEW s, NEW t, NEW S, NEW T, Part(s, S), Part(t, T)
  PROVE  Part(s \o t, S \cup T)
  BY LinkedJoin, ConcatProperties DEF Part

-----------------------------------------------------------------------------
\* The shapes of a view of a valid page.

\* The view is whole, or it has links up to a window that ends before the last
\* page, or it has a window that goes to the end.
ViewIs(total, page, links) ==
  LET side == page - CursorPadding
  IN  \/ /\ total <= CursorPadding + 1
         /\ links = PageLinksRange(1, total)
      \/ /\ total > CursorPadding + 1 /\ page + CursorPadding < total
         /\ page + CursorPadding <= total - CursorPadding
         /\ links = LeftLinks(page) \o RightLinks(total, page)
      \/ /\ total > CursorPadding + 1
         /\ page + CursorPadding > total - CursorPadding \/ page + CursorPadding >= total
         /\ links = <<1, Placeholder>> \o
              PageLinksRange(IF page > CursorPadding THEN side ELSE 1,
                             IF page + CursorPadding < total THEN page + CursorPadding ELSE total)

LEMMA ViewShape ==
  ASSUME NEW total \in Nat, NEW page \in 1 .. total
  PROVE  ViewIs(total, page, PagesLinks(total, page))
  BY PaginationAssumption DEF ViewIs, PagesLinks

\* The links before and after the window lie within the pages.
LEMMA LeftPart ==
  ASSUME NEW page \in Nat \ {0}
  PROVE  \E pages \in SUBSET (1 .. page + CursorPadding) :
           /\ Part(LeftLinks(page), pages)
           /\ page .. page + CursorPadding \subseteq pages
           /\ CursorPadding = 1 /\ page > 1 => page - 1 \in pages
<1>. USE PaginationAssumption
<1>1. CASE page - CursorPadding <= 1
  <2>. DEFINE from == IF page = 1 THEN 1 ELSE page - 1
  <2>1. from \in 1 .. page /\ LeftLinks(page) = PageLinksRange(from, page + CursorPadding)
    BY <1>1 DEF LeftLinks
  <2>2. Part(LeftLinks(page), from .. page + CursorPadding)
    BY <2>1, RangePart
  <2>3. page > 1 => page - 1 \in from .. page + CursorPadding
    OBVIOUS
  <2>. QED
    BY <2>1, <2>2, <2>3
<1>2. CASE page - CursorPadding > 1
  <2>. DEFINE side == page - CursorPadding
              end == page + CursorPadding
              pages == (1 .. CursorPadding) \cup (side .. end)
  <2>1. Part(PageLinksRange(side, end), side .. end)
    BY <1>2, RangePart
  <2>2. Part(PageLinksRange(1, CursorPadding), 1 .. CursorPadding)
    BY RangePart
  <2>3. Part(PageLinksRange(1, CursorPadding) \o PageLinksRange(side, end), pages)
    BY <2>1, <2>2, JoinPart
  <2>4. Part(PageLinksRange(1, CursorPadding) \o <<Placeholder>>, (1 .. CursorPadding) \cup {})
    BY <2>2, GapPart, JoinPart
  <2>5. (1 .. CursorPadding) \cup {} = 1 .. CursorPadding
    OBVIOUS
  <2>6. Part(PageLinksRange(1, CursorPadding) \o <<Placeholder>> \o PageLinksRange(side, end), pages)
    BY <2>1, <2>4, <2>5, JoinPart
  <2>7. Part(LeftLinks(page), pages)
    BY <1>2, <2>3, <2>6 DEF LeftLinks
  <2>8. /\ pages \in SUBSET (1 .. end)
        /\ page .. end \subseteq pages
        /\ CursorPadding = 1 => page - 1 \in pages
    BY <1>2
  <2>. QED
    BY <2>7, <2>8
<1>. QED
  BY <1>1, <1>2

LEMMA RightPart ==
  ASSUME NEW total \in Nat \ {0}, NEW page
  PROVE  Part(RightLinks(total, page), {total})
  BY OnePart, GapFirstPart DEF RightLinks

\* No view links a page that is not there, whatever the padding; with the
\* padding of the program the last page and the pages around are linked.
LEMMA ViewPart ==
  ASSUME NEW total \in Nat, NEW page \in 1 .. total
  PROVE  \E pages \in SUBSET (1 .. total) :
           /\ Part(PagesLinks(total, page), pages)
           /\ CursorPadding = 1 =>
                /\ total \in pages
                /\ \A q \in page - 1 .. page + 1 : q \in 1 .. total => q \in pages
<1>. USE PaginationAssumption
<1>1. SUFFICES ASSUME NEW links, links = PagesLinks(total, page)
               PROVE  \E pages \in SUBSET (1 .. total) :
                        /\ Part(links, pages)
                        /\ CursorPadding = 1 =>
                             /\ total \in pages
                             /\ \A q \in page - 1 .. page + 1 : q \in 1 .. total => q \in pages
  OBVIOUS
<1>2. ViewIs(total, page, links)
  BY <1>1, ViewShape
<1>3. CASE links = PageLinksRange(1, total)
  <2>1. Part(links, 1 .. total)
    BY <1>3, RangePart
  <2>. QED
    BY <2>1
<1>4. CASE links = LeftLinks(page) \o RightLinks(total, page) /\ page + CursorPadding < total
  <2>1. PICK left \in SUBSET (1 .. page + CursorPadding) :
          /\ Part(LeftLinks(page), left)
          /\ page .. page + CursorPadding \subseteq left
          /\ CursorPadding = 1 /\ page > 1 => page - 1 \in left
    BY LeftPart
  <2>2. Part(links, left \cup {total})
    <3>1. Part(RightLinks(total, page), {total})
      BY RightPart
    <3>. QED
      BY <1>4, <2>1, <3>1, JoinPart
  <2>3. left \cup {total} \in SUBSET (1 .. total)
    BY <1>4, <2>1
  <2>4. CursorPadding = 1 =>
          \A q \in page - 1 .. page + 1 : q \in 1 .. total => q \in left \cup {total}
    <3>. SUFFICES ASSUME CursorPadding = 1, NEW q \in page - 1 .. page + 1, q \in 1 .. total
                  PROVE  q \in left
      OBVIOUS
    <3>1. page \in left /\ page + 1 \in left
      BY <2>1
    <3>2. q = page \/ q = page + 1 \/ (q = page - 1 /\ page > 1)
      OBVIOUS
    <3>. QED
      BY <2>1, <3>1, <3>2
  <2>. QED
    BY <2>2, <2>3, <2>4
<1>5. ASSUME NEW from \in 1 .. page, NEW to \in page .. total,
             links = <<1, Placeholder>> \o PageLinksRange(from, to),
             CursorPadding = 1 => to = total /\ from <= IF page = 1 THEN 1 ELSE page - 1
      PROVE  \E pages \in SUBSET (1 .. total) :
               /\ Part(links, pages)
               /\ CursorPadding = 1 =>
                    /\ total \in pages
                    /\ \A q \in page - 1 .. page + 1 : q \in 1 .. total => q \in pages
  <2>1. Part(PageLinksRange(from, to), from .. to)
    BY RangePart
  <2>2. Part(links, {1} \cup (from .. to))
    BY <1>5, <2>1, GapLastPart, JoinPart
  <2>3. {1} \cup (from .. to) \in SUBSET (1 .. total)
    OBVIOUS
  <2>4. CursorPadding = 1 => \A q \in page - 1 .. page + 1 : q \in 1 .. total => q \in from .. to
    BY <1>5
  <2>5. CursorPadding = 1 => total \in from .. to
    BY <1>5
  <2>. QED
    BY <2>2, <2>3, <2>4, <2>5
<1>6. CASE \E from \in 1 .. page, to \in page .. total :
             /\ links = <<1, Placeholder>> \o PageLinksRange(from, to)
             /\ CursorPadding = 1 => to = total /\ from <= IF page = 1 THEN 1 ELSE page - 1
  BY <1>5, <1>6
<1>7. \/ links = PageLinksRange(1, total)
      \/ links = LeftLinks(page) \o RightLinks(total, page) /\ page + CursorPadding < total
      \/ \E from \in 1 .. page, to \in page .. total :
            /\ links = <<1, Placeholder>> \o PageLinksRange(from, to)
            /\ CursorPadding = 1 => to = total /\ from <= IF page = 1 THEN 1 ELSE page - 1
  <2>. DEFINE from == IF page > CursorPadding THEN page - CursorPadding ELSE 1
              to == IF page + CursorPadding < total THEN page + CursorPadding ELSE total
  <2>1. from \in 1 .. page /\ to \in page .. total
    OBVIOUS
  <2>2. CursorPadding = 1 => from <= IF page = 1 THEN 1 ELSE page - 1
    OBVIOUS
  <2>3. CASE /\ page + CursorPadding > total - CursorPadding \/ page + CursorPadding >= total
             /\ links = <<1, Placeholder>> \o PageLinksRange(from, to)
    <3>1. CursorPadding = 1 => to = total
      BY <2>3
    <3>. QED
      BY <2>1, <2>2, <2>3, <3>1
  <2>. QED
    BY <1>2, <2>3 DEF ViewIs
<1>. QED
  BY <1>3, <1>4, <1>6, <1>7

\* ... and what is left out is marked.
LEMMA LeftUnbroken ==
  ASSUME CursorPadding = 1, NEW page \in Nat \ {0}
  PROVE  Unbroken(LeftLinks(page), 1, page + 1)
<1>1. CASE page <= 2
  <2>1. Unbroken(PageLinksRange(1, page + 1), 1, page + 1)
    BY RangeUnbroken
  <2>2. LeftLinks(page) = PageLinksRange(1, page + 1)
    BY <1>1 DEF LeftLinks
  <2>. QED
    BY <2>1, <2>2
<1>2. CASE page > 2
  <2>1. Unbroken(PageLinksRange(1, 1), 1, 1)
    BY RangeUnbroken
  <2>2. Unbroken(PageLinksRange(page - 1, page + 1), page - 1, page + 1)
    BY <1>2, RangeUnbroken
  <2>3. Unbroken(PageLinksRange(1, 1) \o <<Placeholder>>, 1, Placeholder)
    BY <2>1, GapUnbroken, JoinUnbroken
  <2>4. Unbroken(PageLinksRange(1, 1) \o <<Placeholder>> \o PageLinksRange(page - 1, page + 1),
                 1, page + 1)
    BY <2>2, <2>3, JoinUnbroken
  <2>5. page - 1 = 1 + 1 =>
          Unbroken(PageLinksRange(1, 1) \o PageLinksRange(page - 1, page + 1), 1, page + 1)
    BY <2>1, <2>2, JoinUnbroken
  <2>. QED
    BY <1>2, <2>4, <2>5 DEF LeftLinks
<1>. QED
  BY <1>1, <1>2

LEMMA ViewUnbroken ==
  ASSUME CursorPadding = 1, NEW total \in Nat, NEW page \in 1 .. total
  PROVE  Unbroken(PagesLinks(total, page), 1, total)
<1>1. SUFFICES ASSUME NEW links, links = PagesLinks(total, page)
               PROVE  Unbroken(links, 1, total)
  OBVIOUS
<1>2. ViewIs(total, page, links)
  BY <1>1, ViewShape
<1>3. CASE links = PageLinksRange(1, total)
  BY <1>3, RangeUnbroken
<1>4. CASE links = LeftLinks(page) \o RightLinks(total, page) /\ page + 1 < total
  <2>1. Unbroken(LeftLinks(page), 1, page + 1)
    BY LeftUnbroken
  <2>2. CASE page + 2 >= total
    <3>1. RightLinks(total, page) = <<total>> /\ total = (page + 1) + 1
      BY <1>4, <2>2 DEF RightLinks
    <3>2. Unbroken(<<total>>, total, total)
      BY OneUnbroken
    <3>. QED
      BY <1>4, <2>1, <3>1, <3>2, JoinUnbroken
  <2>3. CASE page + 2 < total
    <3>1. RightLinks(total, page) = <<Placeholder, total>>
      BY <2>3 DEF RightLinks
    <3>2. Unbroken(<<Placeholder, total>>, Placeholder, total)
      BY GapFirstUnbroken
    <3>. QED
      BY <1>4, <2>1, <3>1, <3>2, JoinUnbroken
  <2>. QED
    BY <2>2, <2>3
<1>5. CASE /\ total > 2 /\ page + 1 >= total
           /\ links = <<1, Placeholder>> \o PageLinksRange(page - 1, total)
  <2>1. Unbroken(PageLinksRange(page - 1, total), page - 1, total)
    BY <1>5, RangeUnbroken
  <2>. QED
    BY <1>5, <2>1, GapLastUnbroken, JoinUnbroken
<1>. QED
  BY <1>2, <1>3, <1>4, <1>5 DEF ViewIs

-----------------------------------------------------------------------------
\* The quotient rounded up: a page up to it begins before the last item.
LEMMA PageBeginsBefore ==
  ASSUME NEW count \in Int, NEW size \in Nat \ {0},
         NEW page \in 1 .. TotalPages(count, size)
  PROVE  (page - 1) * size < count
<1>. DEFINE total == TotalPages(count, size)
<1>1. total \in Int /\ total * size <= count + size - 1
  BY DEF TotalPages
<1>. HIDE DEF total
<1>2. page <= total /\ page \in Nat
  BY <1>1 DEF total
<1>3. page * size <= total * size
  BY <1>1, <1>2
<1>4. (page - 1) * size = page * size - size
  BY <1>2
<1>5. page * size \in Int /\ total * size \in Int /\ (page - 1) * size \in Int
  BY <1>1, <1>2
<1>. QED
  BY <1>1, <1>3, <1>4, <1>5

-----------------------------------------------------------------------------

\* The assumption the theorems about views take.

\* PaginationView.cursorPadding of the program.
ProgramPadding == CursorPadding = 1

-----------------------------------------------------------------------------
\* What was written: an error, or the view of a page that is not beyond the
\* limit, a number of articles.
Errors == {{}, {"ErrArticlesNotFound"}, UnsupportedValue, InvalidPage}
Answers == [status : Nat, err : Errors, total : Nat, links : Seq(Int)]

AnswerUpTo(answer, page, limit) ==
  IF answer.status = 200
  THEN /\ answer.total \in Nat
       /\ page \in 1 .. answer.total
       /\ (answer.total - 1) * PageSize < limit
       /\ answer.links = PagesLinks(answer.total, page)
  ELSE answer.links = <<>>

QueryTypes ==
  /\ articles \in Seq(Kinds) /\ Len(articles) <= MaxArticles
  /\ kv \in [CacheKeys -> NoCount .. MaxArticles]
  /\ pc \in [Readers -> {"idle", "rows", "get", "count", "put"}]
  /\ request \in [Readers -> [filter : Filters, page : Pages]]
  /\ articlesCount \in [Readers -> NoCount .. MaxArticles]
  /\ answers \in [Readers -> Seq(Answers)]

\* A request that is being handled has been answered once at most.
AnsweredOnce ==
  \A r \in Readers : Len(answers[r]) <= IF pc[r] = "idle" THEN 2 ELSE 1

AnswersBounded ==
  \A r \in Readers : \A i \in 1 .. Len(answers[r]) :
    AnswerUpTo(answers[r][i], request[r].page, MaxArticles)

QueryInv == QueryTypes /\ AnsweredOnce /\ AnswersBounded

Count(filter) == Cardinality(Matching(filter))

\* ... or beyond each of several limits.
AnswerWithin(answer, page, limits) == \E limit \in limits : AnswerUpTo(answer, page, limit)

\* A count of the filter in the cache is no more than the articles of some
\* filter it is confused with.
Behind(filter, count) == \E f \in Confusable(filter) : count <= Count(f)

\* The numbers of articles of the filters it is confused with.
Counts(filter) == {Count(f) : f \in Confusable(filter)}

\* No count, wherever it is kept, is above the number of articles it counts.
CountsBehind ==
  /\ \A f \in Filters : Behind(f, kv[GetCacheKey(f)])
  /\ \A r \in Readers : pc[r] = "put" => articlesCount[r] <= Count(request[r].filter)

AnswersBehind ==
  \A r \in Readers : \A i \in 1 .. Len(answers[r]) :
    AnswerWithin(answers[r][i], request[r].page, Counts(request[r].filter))

CountInv == QueryInv /\ CountsBehind /\ AnswersBehind

-----------------------------------------------------------------------------
\* The number of articles of a filter.

LEMMA MatchingFinite ==
  ASSUME articles \in Seq(Kinds), NEW f
  PROVE  IsFiniteSet(Matching(f)) /\ Count(f) \in Nat /\ Count(f) <= Len(articles)
<1>1. Len(articles) \in Nat /\ DOMAIN articles = 1 .. Len(articles)
  OBVIOUS
<1>2. IsFiniteSet(1 .. Len(articles)) /\ Cardinality(1 .. Len(articles)) = Len(articles)
  BY <1>1, FS_Interval
<1>3. Matching(f) \in SUBSET (1 .. Len(articles))
  BY <1>1 DEF Matching
<1>. QED
  BY <1>2, <1>3, FS_Subset, FS_CardinalityType DEF Count

\* An article that is stored takes none away.
LEMMA CountGrows ==
  ASSUME articles \in Seq(Kinds), NEW k \in Kinds, Insert(k), NEW f
  PROVE  articles' \in Seq(Kinds) /\ Count(f) <= Count(f)'
<1>1. /\ articles' = Append(articles, k) /\ articles' \in Seq(Kinds)
      /\ DOMAIN articles \subseteq DOMAIN articles'
      /\ \A id \in DOMAIN articles : articles'[id] = articles[id]
  BY AppendProperties DEF Insert
<1>2. Matching(f) \subseteq Matching(f)'
  BY <1>1 DEF Matching
<1>3. IsFiniteSet(Matching(f)')
  <2>1. Len(articles') \in Nat /\ DOMAIN articles' = 1 .. Len(articles')
    BY <1>1
  <2>2. Matching(f)' \in SUBSET (1 .. Len(articles'))
    BY <2>1 DEF Matching
  <2>3. IsFiniteSet(1 .. Len(articles'))
    BY <2>1, FS_Interval
  <2>. QED
    BY <2>2, <2>3, FS_Subset
<1>4. Cardinality(Matching(f)) <= Cardinality(Matching(f)')
  BY <1>2, <1>3, FS_Subset
<1>. QED
  BY <1>1, <1>4 DEF Count

-----------------------------------------------------------------------------
\* Answers.

LEMMA LimitGrows ==
  ASSUME NEW answer, NEW page, NEW low \in Int, NEW high \in Int, low <= high,
         AnswerUpTo(answer, page, low)
  PROVE  AnswerUpTo(answer, page, high)
<1>. USE QueryAssumption
<1>1. \A total \in Nat : (total - 1) * PageSize < low => (total - 1) * PageSize < high
  <2>. TAKE total \in Nat
  <2>1. (total - 1) * PageSize \in Int
    OBVIOUS
  <2>. QED
    BY <2>1
<1>. QED
  BY <1>1 DEF AnswerUpTo

LEMMA ErrorAnswer ==
  ASSUME NEW err \in Errors, NEW page, NEW limit
  PROVE  Error(err) \in Answers /\ AnswerUpTo(Error(err), page, limit)
  BY DEF Error, StatusOf, Answers, AnswerUpTo

\* What the handler answers when it has a count.
AnswerOf(count, page) ==
  IF IsInvalidPage(TotalPages(count, PageSize), page) THEN Error(InvalidPage)
  ELSE Page(TotalPages(count, PageSize), PagesLinks(TotalPages(count, PageSize), page))

LEMMA CountedAnswer ==
  ASSUME NEW count \in Int, NEW page \in Int, NEW limit \in Int, count <= limit
  PROVE  /\ AnswerOf(count, page) \in Answers
         /\ AnswerUpTo(AnswerOf(count, page), page, limit)
<1>. DEFINE total == TotalPages(count, PageSize)
<1>1. total \in Int
  BY QueryAssumption DEF TotalPages
<1>2. CASE IsInvalidPage(total, page)
  <2>1. InvalidPage \in Errors
    BY DEF Errors
  <2>. QED
    BY <1>2, <2>1, ErrorAnswer DEF AnswerOf
<1>3. CASE ~IsInvalidPage(total, page)
  <2>1. total \in Nat /\ page \in 1 .. total /\ total \in 1 .. total
    BY <1>1, <1>3 DEF IsInvalidPage
  <2>2. (total - 1) * PageSize < count
    BY <2>1, PageBeginsBefore, QueryAssumption
  <2>3. (total - 1) * PageSize \in Int
    BY <1>1, QueryAssumption
  <2>4. PagesLinks(total, page) \in Seq(Int)
    BY <2>1, ViewPart DEF Part
  <2>5. (total - 1) * PageSize < limit
    BY <2>2, <2>3
  <2>6. AnswerOf(count, page) = Page(total, PagesLinks(total, page))
    BY <1>3 DEF AnswerOf
  <2>7. Page(total, PagesLinks(total, page)) \in Answers
    BY <2>1, <2>4 DEF Page, Answers, Errors
  <2>8. AnswerUpTo(Page(total, PagesLinks(total, page)), page, limit)
    BY <2>1, <2>5 DEF Page, AnswerUpTo
  <2>. QED
    BY <2>6, <2>7, <2>8
<1>. QED
  BY <1>2, <1>3

\* One more answer is written.
LEMMA Written ==
  ASSUME answers \in [Readers -> Seq(Answers)], NEW r \in Readers,
         NEW answer \in Answers, Write(r, answer)
  PROVE  /\ answers' \in [Readers -> Seq(Answers)]
         /\ Len(answers'[r]) = Len(answers[r]) + 1
         /\ \A i \in 1 .. Len(answers[r]) : answers'[r][i] = answers[r][i]
         /\ answers'[r][Len(answers[r]) + 1] = answer
         /\ \A q \in Readers : q # r => answers'[q] = answers[q]
<1>1. /\ answers' = [answers EXCEPT ![r] = Append(answers[r], answer)]
      /\ answers[r] \in Seq(Answers)
  BY DEF Write
<1>2. /\ Append(answers[r], answer) \in Seq(Answers)
      /\ Len(Append(answers[r], answer)) = Len(answers[r]) + 1
      /\ \A i \in 1 .. Len(answers[r]) : Append(answers[r], answer)[i] = answers[r][i]
      /\ Append(answers[r], answer)[Len(answers[r]) + 1] = answer
  BY <1>1, AppendProperties
<1>3. answers'[r] = Append(answers[r], answer)
  BY <1>1
<1>. QED
  BY <1>1, <1>2, <1>3

LEMMA WrittenWithin ==
  ASSUME answers \in [Readers -> Seq(Answers)], NEW r \in Readers,
         NEW answer \in Answers, Write(r, answer), NEW page, NEW limits,
         AnswerWithin(answer, page, limits),
         \A i \in 1 .. Len(answers[r]) : AnswerWithin(answers[r][i], page, limits)
  PROVE  \A i \in 1 .. Len(answers'[r]) : AnswerWithin(answers'[r][i], page, limits)
<1>. TAKE i \in 1 .. Len(answers'[r])
<1>1. Len(answers[r]) \in Nat
  OBVIOUS
<1>2. i \in 1 .. Len(answers[r]) \/ i = Len(answers[r]) + 1
  BY <1>1, Written
<1>. QED
  BY <1>2, Written

-----------------------------------------------------------------------------
\* The beginning of a request.

LEMMA UpToOne ==
  ASSUME NEW e \in Answers, \A page, limit : AnswerUpTo(e, page, limit),
         NEW s, s \in {<<>>, <<e>>}
  PROVE  /\ s \in Seq(Answers) /\ Len(s) <= 1 /\ Len(s) \in Nat
         /\ \A i \in 1 .. Len(s) : s[i] = e
<1>1. CASE s = <<>>
  BY <1>1
<1>2. CASE s = <<e>>
  BY <1>2
<1>. QED
  BY <1>1, <1>2

\* One more error behind the answer a request begins with, or none.
LEMMA RefusedUpTo ==
  ASSUME NEW e \in Answers, \A page, limit : AnswerUpTo(e, page, limit),
         NEW s, s \in {<<>>, <<e>>}
  PROVE  /\ Append(s, e) \in Seq(Answers) /\ Len(Append(s, e)) <= 2
         /\ \A i \in 1 .. Len(Append(s, e)) : \A page, limit :
              AnswerUpTo(Append(s, e)[i], page, limit)
<1>1. /\ s \in Seq(Answers) /\ Len(s) <= 1 /\ Len(s) \in Nat
      /\ \A i \in 1 .. Len(s) : s[i] = e
  BY UpToOne
<1>2. /\ Append(s, e) \in Seq(Answers) /\ Len(Append(s, e)) = Len(s) + 1
      /\ \A i \in 1 .. Len(s) : Append(s, e)[i] = s[i]
      /\ Append(s, e)[Len(s) + 1] = e
  BY <1>1, AppendProperties
<1>3. ASSUME NEW i \in 1 .. Len(s) + 1 PROVE Append(s, e)[i] = e
  <2>1. i \in 1 .. Len(s) \/ i = Len(s) + 1
    BY <1>1
  <2>. QED
    BY <1>1, <1>2, <2>1
<1>. QED
  BY <1>1, <1>2, <1>3

-----------------------------------------------------------------------------
\* What a step of a request does to its answers: it goes on without one, or it
\* is answered and over.

CountsAtHand(r) ==
  {NoCount, kv[GetCacheKey(request[r].filter)]}
    \cup (IF pc[r] = "put" THEN {articlesCount[r]} ELSE {})

Answered(r) ==
  /\ Goto(r, "idle")
  /\ \/ Write(r, Error({"ErrArticlesNotFound"}))
     \/ \E count \in CountsAtHand(r) : Write(r, AnswerOf(count, request[r].page))

LEMMA RequestMoves ==
  ASSUME NEW r \in Readers, HandlerStep(r) \/ FailureStep(r)
  PROVE  /\ UNCHANGED <<articles, request>> /\ pc[r] # "idle"
         /\ \/ Answered(r)
            \/ UNCHANGED answers /\ \E there \in {"get", "count", "put"} : Goto(r, there)
<1>1. CASE GetArticles(r) \/ GetArticlesFails(r)
  BY <1>1 DEF GetArticles, GetArticlesFails, NotFound, Answered, At
<1>2. CASE KvGet(r)
  <2>1. CASE Answer(r, kv[GetCacheKey(request[r].filter)])
    BY <1>2, <2>1 DEF KvGet, Answer, AnswerOf, Answered, CountsAtHand, At
  <2>2. CASE ~Answer(r, kv[GetCacheKey(request[r].filter)])
    BY <1>2, <2>2 DEF KvGet, At
  <2>. QED
    BY <2>1, <2>2
<1>3. CASE KvGetFails(r) \/ GetArticleCount(r)
  BY <1>3 DEF KvGetFails, GetArticleCount, At
<1>4. CASE GetArticleCountFails(r)
  BY <1>4 DEF GetArticleCountFails, Answer, AnswerOf, Answered, CountsAtHand, At
<1>5. CASE KvPut(r) \/ KvPutFails(r)
  BY <1>5 DEF KvPut, KvPutFails, Answer, AnswerOf, Answered, CountsAtHand, At
<1>. QED
  BY <1>1, <1>2, <1>3, <1>4, <1>5 DEF HandlerStep, FailureStep

\* ... and to the counts.
LEMMA CountsMove ==
  ASSUME NEW r \in Readers, HandlerStep(r) \/ FailureStep(r)
  PROVE  /\ \/ kv' = kv
            \/ /\ pc[r] = "put"
               /\ kv' = [kv EXCEPT ![GetCacheKey(request[r].filter)] = articlesCount[r]]
         /\ \/ /\ articlesCount' = articlesCount
               /\ \E there \in {"idle", "get", "count"} : Goto(r, there)
            \/ articlesCount' = [articlesCount EXCEPT ![r] = NoCount] /\ Goto(r, "idle")
            \/ /\ articlesCount' = [articlesCount EXCEPT ![r] = Count(request[r].filter)]
               /\ Goto(r, "put")
  BY DEF HandlerStep, FailureStep, GetArticles, GetArticlesFails, NotFound, KvGet, KvGetFails,
         GetArticleCount, GetArticleCountFails, KvPut, KvPutFails, Answer, At, Count

\* A step of r leaves its answers within the limits that its counts are within.
LEMMA AnswersOfStep ==
  ASSUME QueryTypes, NEW r \in Readers, HandlerStep(r) \/ FailureStep(r),
         NEW limits \in SUBSET Nat, limits # {},
         \A count \in CountsAtHand(r) : \E limit \in limits : count <= limit,
         \A i \in 1 .. Len(answers[r]) : AnswerWithin(answers[r][i], request[r].page, limits)
  PROVE  /\ \A i \in 1 .. Len(answers'[r]) : AnswerWithin(answers'[r][i], request[r].page, limits)
         /\ answers' \in [Readers -> Seq(Answers)]
         /\ \A q \in Readers : q # r => answers'[q] = answers[q]
         /\ Len(answers'[r]) <= Len(answers[r]) + (IF pc'[r] = "idle" THEN 1 ELSE 0)
<1>1. answers \in [Readers -> Seq(Answers)] /\ Len(answers[r]) \in Nat
  BY DEF QueryTypes
<1>2. request[r].page \in Int
  BY QueryAssumption DEF QueryTypes, Pages
<1>3. CountsAtHand(r) \subseteq Int
  BY QueryAssumption DEF QueryTypes, CountsAtHand, CacheKeys, NoCount
<1>4. ASSUME NEW answer \in Answers, Write(r, answer), Goto(r, "idle"),
             AnswerWithin(answer, request[r].page, limits)
      PROVE  /\ \A i \in 1 .. Len(answers'[r]) :
                  AnswerWithin(answers'[r][i], request[r].page, limits)
             /\ answers' \in [Readers -> Seq(Answers)]
             /\ \A q \in Readers : q # r => answers'[q] = answers[q]
             /\ Len(answers'[r]) <= Len(answers[r]) + (IF pc'[r] = "idle" THEN 1 ELSE 0)
  <2>1. \A i \in 1 .. Len(answers'[r]) : AnswerWithin(answers'[r][i], request[r].page, limits)
    BY <1>1, <1>4, WrittenWithin
  <2>2. pc'[r] = "idle"
    BY <1>4 DEF QueryTypes, Goto
  <2>3. /\ answers' \in [Readers -> Seq(Answers)]
        /\ Len(answers'[r]) = Len(answers[r]) + 1
        /\ \A q \in Readers : q # r => answers'[q] = answers[q]
    BY <1>1, <1>4, Written
  <2>. QED
    BY <1>1, <2>1, <2>2, <2>3
<1>5. CASE Goto(r, "idle") /\ Write(r, Error({"ErrArticlesNotFound"}))
  <2>1. {"ErrArticlesNotFound"} \in Errors
    BY DEF Errors
  <2>2. /\ Error({"ErrArticlesNotFound"}) \in Answers
        /\ AnswerWithin(Error({"ErrArticlesNotFound"}), request[r].page, limits)
    BY <2>1, ErrorAnswer DEF AnswerWithin
  <2>. QED
    BY <1>4, <1>5, <2>2
<1>6. ASSUME Goto(r, "idle"), NEW count \in CountsAtHand(r),
             Write(r, AnswerOf(count, request[r].page))
      PROVE  /\ \A i \in 1 .. Len(answers'[r]) :
                  AnswerWithin(answers'[r][i], request[r].page, limits)
             /\ answers' \in [Readers -> Seq(Answers)]
             /\ \A q \in Readers : q # r => answers'[q] = answers[q]
             /\ Len(answers'[r]) <= Len(answers[r]) + (IF pc'[r] = "idle" THEN 1 ELSE 0)
  <2>1. PICK limit \in limits : count \in Int /\ limit \in Int /\ count <= limit
    BY <1>3
  <2>2. /\ AnswerOf(count, request[r].page) \in Answers
        /\ AnswerUpTo(AnswerOf(count, request[r].page), request[r].page, limit)
    BY <1>2, <2>1, CountedAnswer
  <2>3. AnswerWithin(AnswerOf(count, request[r].page), request[r].page, limits)
    BY <2>1, <2>2 DEF AnswerWithin
  <2>. QED
    BY <1>4, <1>6, <2>2, <2>3
<1>7. CASE UNCHANGED answers /\ \E there \in {"get", "count", "put"} : Goto(r, there)
  <2>1. pc'[r] # "idle"
    BY <1>7 DEF QueryTypes, Goto
  <2>. QED
    BY <1>1, <1>7, <2>1
<1>. QED
  BY <1>5, <1>6, <1>7, RequestMoves DEF Answered

-----------------------------------------------------------------------------
\* Types.

LEMMA QueryInvInit == Init => QueryInv
<1>. SUFFICES ASSUME Init PROVE QueryInv
  OBVIOUS
<1>. USE QueryAssumption
<1>1. \A r \in Readers : answers[r] = <<>>
  BY DEF Init
<1>2. answers \in [Readers -> Seq(Answers)]
  BY DEF Init
<1>3. articles \in Seq(Kinds) /\ Len(articles) = 0
  BY DEF Init
<1>4. /\ kv \in [CacheKeys -> NoCount .. MaxArticles]
      /\ articlesCount \in [Readers -> NoCount .. MaxArticles]
  BY DEF Init, NoCount
<1>5. request \in [Readers -> [filter : Filters, page : Pages]]
  <2>1. 1 \in Pages
    BY DEF Pages
  <2>2. \A q \in [filter : Filters, page : {1}] :
          q \in [filter : Filters, page : Pages]
    BY <2>1
  <2>. QED
    BY <2>2 DEF Init
<1>6. QueryTypes
  BY <1>2, <1>3, <1>4, <1>5 DEF QueryTypes, Init
<1>. QED
  BY <1>1, <1>6 DEF QueryInv, AnsweredOnce, AnswersBounded

LEMMA QueryInvEnvironment ==
  ASSUME QueryInv,
         (\E k \in Kinds : Insert(k)) \/ (\E key \in CacheKeys : CacheExpires(key))
  PROVE  QueryInv'
<1>1. UNCHANGED handlerVars
  BY DEF Insert, CacheExpires
<1>2. /\ articles' \in Seq(Kinds) /\ Len(articles') <= MaxArticles
      /\ kv' \in [CacheKeys -> NoCount .. MaxArticles]
  <2>1. articles \in Seq(Kinds) /\ kv \in [CacheKeys -> NoCount .. MaxArticles]
    BY DEF QueryInv, QueryTypes
  <2>2. ASSUME NEW k \in Kinds, Insert(k)
        PROVE  /\ articles' \in Seq(Kinds) /\ Len(articles') <= MaxArticles
               /\ kv' \in [CacheKeys -> NoCount .. MaxArticles]
    <3>1. Len(articles) \in Nat /\ Len(articles') = Len(articles) + 1 /\ articles' \in Seq(Kinds)
      BY <2>1, <2>2, AppendProperties DEF Insert
    <3>2. Len(articles) < MaxArticles /\ kv' = kv
      BY <2>2 DEF Insert
    <3>. QED
      BY <2>1, <3>1, <3>2, QueryAssumption
  <2>3. ASSUME NEW key \in CacheKeys, CacheExpires(key)
        PROVE  /\ articles' \in Seq(Kinds) /\ Len(articles') <= MaxArticles
               /\ kv' \in [CacheKeys -> NoCount .. MaxArticles]
    <3>1. NoCount \in NoCount .. MaxArticles
      BY QueryAssumption DEF NoCount
    <3>. QED
      BY <2>1, <2>3, <3>1 DEF CacheExpires, QueryInv, QueryTypes
  <2>. QED
    BY <2>2, <2>3
<1>. QED
  BY <1>1, <1>2
     DEF QueryInv, QueryTypes, AnsweredOnce, AnswersBounded, handlerVars

\* A request begins: answers that say no, and nobody else's change.
Begins(r) ==
  \/ \E f \in Filters, p \in Pages : GetArticlesWrapper(r, f, p)
  \/ UnreadableQuery(r)

LEMMA RequestBegins ==
  ASSUME QueryTypes, NEW r \in Readers, Begins(r)
  PROVE  /\ QueryTypes'
         /\ \A i \in 1 .. Len(answers'[r]) : \A page, limit :
             AnswerUpTo(answers'[r][i], page, limit)
         /\ Len(answers'[r]) <= IF pc'[r] = "idle" THEN 2 ELSE 1
         /\ pc'[r] \in {"idle", "rows"}
         /\ \A q \in Readers : q # r =>
              pc'[q] = pc[q] /\ request'[q] = request[q] /\ answers'[q] = answers[q]
         /\ UNCHANGED <<articles, kv, articlesCount>>
<1>. DEFINE error == Error(UnsupportedValue)
<1>1. error \in Answers /\ \A page, limit : AnswerUpTo(error, page, limit)
  BY ErrorAnswer DEF Errors
<1>2. \A sortable \in BOOLEAN : OnSorting(sortable) \in {<<>>, <<error>>}
  BY DEF OnSorting
<1>3. PICK s : /\ answers' = [answers EXCEPT ![r] = s]
               /\ \/ s \in {<<>>, <<error>>} /\ Goto(r, "rows")
                  \/ /\ \E e \in {<<>>, <<error>>} : s = Append(e, error)
                     /\ pc[r] = "idle" /\ UNCHANGED pc
  BY <1>2 DEF Begins, GetArticlesWrapper, UnreadableQuery, At
<1>. HIDE DEF error
<1>4. /\ s \in Seq(Answers) /\ Len(s) <= IF pc'[r] = "idle" THEN 2 ELSE 1
      /\ \A i \in 1 .. Len(s) : \A page, limit : AnswerUpTo(s[i], page, limit)
  <2>1. CASE s \in {<<>>, <<error>>} /\ Goto(r, "rows")
    <3>1. pc'[r] = "rows"
      BY <2>1 DEF QueryTypes, Goto
    <3>. QED
      BY <1>1, <2>1, <3>1, UpToOne
  <2>2. ASSUME NEW e \in {<<>>, <<error>>}, s = Append(e, error), pc[r] = "idle", UNCHANGED pc
        PROVE  /\ s \in Seq(Answers) /\ Len(s) <= IF pc'[r] = "idle" THEN 2 ELSE 1
               /\ \A i \in 1 .. Len(s) : \A page, limit : AnswerUpTo(s[i], page, limit)
    BY <1>1, <2>2, RefusedUpTo
  <2>. QED
    BY <1>3, <2>1, <2>2
<1>5. /\ answers' \in [Readers -> Seq(Answers)] /\ answers'[r] = s
      /\ \A q \in Readers : q # r => answers'[q] = answers[q]
  BY <1>3, <1>4 DEF QueryTypes
<1>6. /\ request' \in [Readers -> [filter : Filters, page : Pages]]
      /\ \A q \in Readers : q # r => request'[q] = request[q]
  <2>1. CASE UnreadableQuery(r)
    BY <2>1 DEF UnreadableQuery, QueryTypes
  <2>2. ASSUME NEW f \in Filters, NEW p \in Pages, GetArticlesWrapper(r, f, p)
        PROVE  /\ request' \in [Readers -> [filter : Filters, page : Pages]]
               /\ \A q \in Readers : q # r => request'[q] = request[q]
    BY <2>2 DEF GetArticlesWrapper, QueryTypes
  <2>. QED
    BY <2>1, <2>2 DEF Begins
<1>7. /\ pc' \in [Readers -> {"idle", "rows", "get", "count", "put"}]
      /\ pc'[r] \in {"idle", "rows"}
      /\ \A q \in Readers : q # r => pc'[q] = pc[q]
  BY <1>3 DEF QueryTypes, Goto
<1>8. UNCHANGED <<articles, kv, articlesCount>>
  BY DEF Begins, GetArticlesWrapper, UnreadableQuery
<1>. QED
  BY <1>4, <1>5, <1>6, <1>7, <1>8 DEF QueryTypes

LEMMA QueryInvStep == QueryInv /\ [Next]_vars => QueryInv'
<1>. SUFFICES ASSUME QueryInv, [Next]_vars PROVE QueryInv'
  OBVIOUS
<1>1. CASE UNCHANGED vars
  BY <1>1 DEF QueryInv, QueryTypes, AnsweredOnce, AnswersBounded, vars, handlerVars
<1>2. CASE (\E k \in Kinds : Insert(k)) \/ (\E key \in CacheKeys : CacheExpires(key))
  BY <1>2, QueryInvEnvironment
<1>3. ASSUME NEW r \in Readers, Begins(r)
      PROVE  QueryInv'
  BY <1>3, RequestBegins DEF QueryInv, AnsweredOnce, AnswersBounded
<1>4. ASSUME NEW r \in Readers, HandlerStep(r) \/ FailureStep(r)
      PROVE  QueryInv'
  <2>1. MaxArticles \in Nat
    BY QueryAssumption
  <2>2. GetCacheKey(request[r].filter) \in CacheKeys
    BY DEF QueryInv, QueryTypes, CacheKeys
  <2>3. \A count \in CountsAtHand(r) : \E limit \in {MaxArticles} : count <= limit
    BY <2>1, <2>2 DEF QueryInv, QueryTypes, CountsAtHand, NoCount
  <2>0. \A i \in 1 .. Len(answers[r]) :
          AnswerWithin(answers[r][i], request[r].page, {MaxArticles})
    BY DEF QueryInv, AnswersBounded, AnswerWithin
  <2>4. /\ \A i \in 1 .. Len(answers'[r]) :
             AnswerWithin(answers'[r][i], request[r].page, {MaxArticles})
        /\ answers' \in [Readers -> Seq(Answers)]
        /\ \A q \in Readers : q # r => answers'[q] = answers[q]
        /\ Len(answers'[r]) <= Len(answers[r]) + (IF pc'[r] = "idle" THEN 1 ELSE 0)
    BY <1>4, <2>0, <2>1, <2>3, AnswersOfStep DEF QueryInv
  <2>5. /\ UNCHANGED <<articles, request>> /\ pc[r] # "idle"
        /\ \E there \in {"idle", "get", "count", "put"} : Goto(r, there)
    BY <1>4, RequestMoves DEF Answered
  <2>6. Count(request[r].filter) \in NoCount .. MaxArticles
    BY <2>1, MatchingFinite DEF QueryInv, QueryTypes, NoCount
  <2>7. /\ kv' \in [CacheKeys -> NoCount .. MaxArticles]
        /\ articlesCount' \in [Readers -> NoCount .. MaxArticles]
    <3>1. NoCount \in NoCount .. MaxArticles
      BY <2>1 DEF NoCount
    <3>2. kv' = kv \/ kv' = [kv EXCEPT ![GetCacheKey(request[r].filter)] = articlesCount[r]]
      BY <1>4, CountsMove
    <3>3. \/ articlesCount' = articlesCount
          \/ articlesCount' = [articlesCount EXCEPT ![r] = NoCount]
          \/ articlesCount' = [articlesCount EXCEPT ![r] = Count(request[r].filter)]
      BY <1>4, CountsMove
    <3>. QED
      BY <2>2, <2>6, <3>1, <3>2, <3>3 DEF QueryInv, QueryTypes
  <2>8. /\ pc' \in [Readers -> {"idle", "rows", "get", "count", "put"}]
        /\ \A q \in Readers : q # r => pc'[q] = pc[q]
    BY <2>5 DEF QueryInv, QueryTypes, Goto
  <2>9. QueryTypes'
    BY <2>4, <2>5, <2>7, <2>8 DEF QueryInv, QueryTypes
  <2>10. AnsweredOnce'
    <3>1. Len(answers[r]) <= 1 /\ Len(answers[r]) \in Nat /\ Len(answers'[r]) \in Nat
      BY <2>4, <2>5 DEF QueryInv, QueryTypes, AnsweredOnce
    <3>2. Len(answers'[r]) <= IF pc'[r] = "idle" THEN 2 ELSE 1
      <4>1. CASE pc'[r] = "idle"
        BY <2>4, <3>1, <4>1
      <4>2. CASE pc'[r] # "idle"
        BY <2>4, <3>1, <4>2
      <4>. QED
        BY <4>1, <4>2
    <3>. QED
      BY <2>4, <2>8, <3>2 DEF QueryInv, AnsweredOnce
  <2>11. AnswersBounded'
    BY <2>4, <2>5 DEF QueryInv, AnswersBounded, AnswerWithin
  <2>. QED
    BY <2>9, <2>10, <2>11 DEF QueryInv
<1>. QED
  BY <1>1, <1>2, <1>3, <1>4 DEF Next, Begins

\* The pages of a view are no more than the articles.
LEMMA PagesWithin ==
  ASSUME NEW total \in Nat, NEW page \in 1 .. total, NEW limit \in Nat,
         (total - 1) * PageSize < limit
  PROVE  /\ total <= limit
         /\ page >= 1 /\ (page - 1) * PageSize < limit
<1>. USE QueryAssumption
<1>1. PageSize \in Nat /\ PageSize >= 1
  OBVIOUS
<1>2. \A n \in Nat : n <= n * PageSize /\ n * PageSize \in Nat
  BY <1>1
<1>3. \A m, n \in Nat : m <= n => m * PageSize <= n * PageSize
  BY <1>1
<1>4. total - 1 \in Nat /\ page - 1 \in Nat /\ page - 1 <= total - 1
  OBVIOUS
<1>5. total - 1 <= (total - 1) * PageSize /\ (total - 1) * PageSize \in Nat
  BY <1>2, <1>4
<1>6. (page - 1) * PageSize <= (total - 1) * PageSize /\ (page - 1) * PageSize \in Nat
  BY <1>2, <1>3, <1>4
<1>. QED
  BY <1>5, <1>6

\* Types, for any number of readers and articles; in particular a response
\* carries two answers at most, and no link beyond the page behind the last
\* article.
THEOREM QueryTypeCorrect == Spec => []TypeOK
<1>1. QueryInv => TypeOK
  <2>. SUFFICES ASSUME QueryInv PROVE TypeOK
    OBVIOUS
  <2>1. ASSUME NEW r \in Readers
        PROVE  Len(answers[r]) <= 2 /\
               \A i \in DOMAIN answers[r] : answers[r][i].links \in Seq(Pages)
    <3>1. answers[r] \in Seq(Answers) /\ DOMAIN answers[r] = 1 .. Len(answers[r])
      BY DEF QueryInv, QueryTypes
    <3>2. Len(answers[r]) <= 2
      BY <3>1 DEF QueryInv, AnsweredOnce
    <3>3. ASSUME NEW i \in 1 .. Len(answers[r]) PROVE answers[r][i].links \in Seq(Pages)
      <4>1. AnswerUpTo(answers[r][i], request[r].page, MaxArticles)
        BY DEF QueryInv, AnswersBounded
      <4>2. CASE answers[r][i].status # 200
        <5>1. answers[r][i].links = <<>>
          BY <4>1, <4>2 DEF AnswerUpTo
        <5>. QED
          BY <5>1
      <4>3. CASE answers[r][i].status = 200
        <5>1. PICK total \in Nat :
                /\ request[r].page \in 1 .. total
                /\ (total - 1) * PageSize < MaxArticles
                /\ answers[r][i].links = PagesLinks(total, request[r].page)
          BY <4>1, <4>3 DEF AnswerUpTo
        <5>2. PICK pages \in SUBSET (1 .. total) :
                Part(PagesLinks(total, request[r].page), pages)
          BY <5>1, ViewPart
        <5>3. total <= MaxArticles
          BY <5>1, PagesWithin, QueryAssumption
        <5>4. SUFFICES ASSUME NEW links \in Seq(Int), Linked(links) = pages
                       PROVE  links \in Seq(Pages)
          BY <5>1, <5>2 DEF Part
        <5>5. \A j \in DOMAIN links : links[j] = Placeholder \/ links[j] \in pages
          BY <5>4 DEF Linked
        <5>6. \A page \in 1 .. total : page \in Pages
          BY <5>3, QueryAssumption DEF Pages
        <5>7. \A j \in DOMAIN links : links[j] \in Pages
          <6>1. Placeholder \in Pages
            BY QueryAssumption DEF Pages, Placeholder
          <6>. QED
            BY <5>2, <5>5, <5>6, <6>1
        <5>. QED
          BY <5>4, <5>7
      <4>. QED
        BY <4>2, <4>3
    <3>. QED
      BY <3>1, <3>2, <3>3
  <2>. QED
    BY <2>1 DEF QueryInv, QueryTypes, TypeOK
<1>. QED
  BY <1>1, QueryInvInit, QueryInvStep, PTL DEF Spec

-----------------------------------------------------------------------------
\* Links lead to articles.

LEMMA CountsOf ==
  ASSUME QueryTypes
  PROVE  /\ \A f : Count(f) \in Nat
         /\ \A r \in Readers : request[r].filter \in Filters /\ articlesCount[r] \in Int
         /\ \A f \in Filters : GetCacheKey(f) \in CacheKeys /\ kv[GetCacheKey(f)] \in Int
  BY QueryAssumption, MatchingFinite DEF QueryTypes, CacheKeys, NoCount

\* A filter is confused with itself, and filters that share a key with one
\* another.
LEMMA ConfusableOf ==
  ASSUME NEW f \in Filters
  PROVE  /\ f \in Confusable(f)
         /\ \A g \in Filters : GetCacheKey(f) = GetCacheKey(g) => f \in Confusable(g)
  BY DEF Confusable, GetCacheKey

\* The counts of the filters a filter is confused with.
LEMMA CountsOfConfusable ==
  ASSUME QueryTypes, NEW f \in Filters
  PROVE  /\ Counts(f) \in SUBSET Nat /\ Counts(f) # {}
         /\ \A n \in Int : Behind(f, n) => \E limit \in Counts(f) : n <= limit
  BY CountsOf, ConfusableOf DEF Counts, Behind

\* What is counted does not change with what happens around the articles.
LEMMA SameCounts ==
  ASSUME UNCHANGED articles
  PROVE  \A f : Count(f)' = Count(f) /\ Counts(f)' = Counts(f)
  BY DEF Counts, Confusable, Count, Matching

\* Counts that stay behind what has been counted.
LEMMA StayBehind ==
  ASSUME UNCHANGED articles,
         \A f \in Filters : Behind(f, kv'[GetCacheKey(f)]),
         \A r \in Readers : pc'[r] = "put" => articlesCount'[r] <= Count(request'[r].filter)
  PROVE  CountsBehind'
<1>1. \A f : Count(f)' = Count(f)
  BY SameCounts
<1>2. \A f \in Filters : \E g \in Confusable(f) : kv'[GetCacheKey(f)] <= Count(g)
  BY DEF Behind
<1>3. (\A f \in Filters : Behind(f, kv[GetCacheKey(f)]))'
  BY <1>1, <1>2 DEF Behind, Confusable, GetCacheKey
<1>4. (\A r \in Readers : pc[r] = "put" => articlesCount[r] <= Count(request[r].filter))'
  BY <1>1
<1>. QED
  BY <1>3, <1>4 DEF CountsBehind

LEMMA StayAnswered ==
  ASSUME UNCHANGED articles,
         \A r \in Readers : \A i \in 1 .. Len(answers'[r]) :
           AnswerWithin(answers'[r][i], request'[r].page, Counts(request'[r].filter))
  PROVE  AnswersBehind'
<1>1. \A f : Counts(f)' = Counts(f)
  BY SameCounts
<1>. QED
  BY <1>1 DEF AnswersBehind

LEMMA CountInvInit == Init => CountInv
<1>. SUFFICES ASSUME Init PROVE CountInv
  OBVIOUS
<1>1. QueryInv
  BY QueryInvInit
<1>2. QueryTypes
  BY <1>1 DEF QueryInv
<1>3. \A f \in Filters : kv[GetCacheKey(f)] <= Count(f) /\ f \in Confusable(f)
  BY <1>2, CountsOf, ConfusableOf DEF Init, NoCount
<1>4. CountsBehind
  BY <1>3 DEF Init, CountsBehind, Behind
<1>5. AnswersBehind
  BY DEF Init, AnswersBehind
<1>. QED
  BY <1>1, <1>4, <1>5 DEF CountInv

\* A new article leaves every count behind, where it was.
LEMMA CountInvInsert ==
  ASSUME CountInv, NEW k \in Kinds, Insert(k)
  PROVE  CountsBehind' /\ AnswersBehind'
<1>1. UNCHANGED <<kv, pc, request, articlesCount, answers>>
  BY DEF Insert, handlerVars
<1>2. QueryTypes
  BY DEF CountInv, QueryInv
<1>3. \A f : Count(f) \in Nat /\ Count(f)' \in Int /\ Count(f) <= Count(f)'
  <2>. TAKE f
  <2>1. Count(f) \in Nat /\ Count(f) <= Count(f)' /\ articles' \in Seq(Kinds)
    BY <1>2, CountsOf, CountGrows DEF QueryTypes
  <2>2. Matching(f)' \in SUBSET (1 .. Len(articles'))
    BY <2>1 DEF Matching
  <2>3. Len(articles') \in Nat
    BY <2>1
  <2>4. IsFiniteSet(1 .. Len(articles'))
    BY <2>3, FS_Interval
  <2>5. Count(f)' \in Nat
    BY <2>2, <2>4, FS_Subset, FS_CardinalityType DEF Count
  <2>. QED
    BY <2>1, <2>5
<1>4. CountsBehind'
  <2>1. ASSUME NEW f \in Filters PROVE \E g \in Confusable(f) : kv[GetCacheKey(f)] <= Count(g)'
    <3>1. PICK g \in Confusable(f) : kv[GetCacheKey(f)] <= Count(g)
      BY DEF CountInv, CountsBehind, Behind
    <3>2. kv[GetCacheKey(f)] <= Count(g)'
      BY <1>2, <1>3, <3>1, CountsOf
    <3>. QED
      BY <3>2
  <2>2. ASSUME NEW r \in Readers, pc[r] = "put"
        PROVE  articlesCount[r] <= Count(request[r].filter)'
    <3>1. PICK f : f = request[r].filter /\ f = request'[r].filter
      BY <1>1
    <3>2. articlesCount[r] \in Int /\ articlesCount[r] <= Count(f)
      BY <1>2, <2>2, <3>1, CountsOf DEF CountInv, CountsBehind
    <3>3. articlesCount[r] <= Count(f)'
      BY <1>3, <3>2
    <3>. QED
      BY <3>1, <3>3 DEF Count, Matching
  <2>. QED
    BY <1>1, <2>1, <2>2 DEF CountsBehind, Behind, Confusable, GetCacheKey, Count, Matching
<1>5. AnswersBehind'
  <2>1. ASSUME NEW r \in Readers, NEW i \in 1 .. Len(answers[r])
        PROVE  AnswerWithin(answers[r][i], request[r].page, Counts(request[r].filter)')
    <3>1. PICK f : f = request[r].filter /\ f = request'[r].filter
      BY <1>1
    <3>2. PICK g \in Confusable(f) : AnswerUpTo(answers[r][i], request[r].page, Count(g))
      BY <3>1 DEF CountInv, AnswersBehind, AnswerWithin, Counts
    <3>3. AnswerUpTo(answers[r][i], request[r].page, Count(g)')
      BY <1>3, <3>2, LimitGrows
    <3>4. Counts(request[r].filter)' = {Count(h)' : h \in Confusable(f)}
      BY <3>1 DEF Counts, Confusable, Count, Matching
    <3>. QED
      BY <3>2, <3>3, <3>4 DEF AnswerWithin
  <2>. QED
    BY <1>1, <2>1 DEF AnswersBehind
<1>. QED
  BY <1>4, <1>5

\* Nor does anything else that happens around the requests.
LEMMA CountInvExpires ==
  ASSUME CountInv, NEW key \in CacheKeys, CacheExpires(key)
  PROVE  CountsBehind' /\ AnswersBehind'
<1>1. QueryTypes /\ UNCHANGED <<articles, pc, request, articlesCount, answers>>
  BY DEF CountInv, QueryInv, CacheExpires, handlerVars
<1>2. \A f \in Filters : \E g \in Confusable(f) : kv'[GetCacheKey(f)] <= Count(g)
  <2>. TAKE f \in Filters
  <2>1. kv'[GetCacheKey(f)] \in {NoCount, kv[GetCacheKey(f)]}
    BY <1>1, CountsOf DEF CacheExpires, QueryTypes
  <2>2. PICK g \in Confusable(f) : kv[GetCacheKey(f)] <= Count(g)
    BY DEF CountInv, CountsBehind, Behind
  <2>3. NoCount <= Count(g)
    BY <1>1, CountsOf DEF NoCount
  <2>. QED
    BY <2>1, <2>2, <2>3
<1>3. CountsBehind'
  BY <1>1, <1>2, StayBehind DEF CountInv, CountsBehind, Behind
<1>4. AnswersBehind'
  BY <1>1, StayAnswered DEF CountInv, AnswersBehind
<1>. QED
  BY <1>3, <1>4

LEMMA CountInvBegins ==
  ASSUME CountInv, NEW r \in Readers, Begins(r)
  PROVE  CountsBehind' /\ AnswersBehind'
<1>1. QueryTypes
  BY DEF CountInv, QueryInv
<1>2. /\ \A i \in 1 .. Len(answers'[r]) : \A page, limit :
             AnswerUpTo(answers'[r][i], page, limit)
      /\ pc'[r] \in {"idle", "rows"}
      /\ \A q \in Readers : q # r =>
           pc'[q] = pc[q] /\ request'[q] = request[q] /\ answers'[q] = answers[q]
      /\ UNCHANGED <<articles, kv, articlesCount>> /\ QueryTypes'
  BY <1>1, RequestBegins
<1>3. CountsBehind'
  <2>1. \A f \in Filters : Behind(f, kv'[GetCacheKey(f)])
    BY <1>2 DEF CountInv, CountsBehind
  <2>2. \A q \in Readers : pc'[q] = "put" => articlesCount'[q] <= Count(request'[q].filter)
    BY <1>2 DEF CountInv, CountsBehind
  <2>. QED
    BY <1>2, <2>1, <2>2, StayBehind
<1>4. ASSUME NEW i \in 1 .. Len(answers'[r])
      PROVE  AnswerWithin(answers'[r][i], request'[r].page, Counts(request'[r].filter))
  <2>1. request'[r].filter \in Filters
    BY <1>2 DEF QueryTypes
  <2>2. Counts(request'[r].filter) # {}
    BY <1>1, <2>1, CountsOfConfusable
  <2>. QED
    BY <1>2, <2>2 DEF AnswerWithin
<1>5. ASSUME NEW q \in Readers, q # r, NEW i \in 1 .. Len(answers'[q])
      PROVE  AnswerWithin(answers'[q][i], request'[q].page, Counts(request'[q].filter))
  BY <1>2, <1>5 DEF CountInv, AnswersBehind
<1>6. AnswersBehind'
  BY <1>2, <1>4, <1>5, StayAnswered
<1>. QED
  BY <1>3, <1>6

\* A count that is stored or shown is one that was counted for this filter, or
\* for one that is confused with it.
LEMMA CountInvRequest ==
  ASSUME CountInv, NEW r \in Readers, HandlerStep(r) \/ FailureStep(r)
  PROVE  CountsBehind' /\ AnswersBehind'
<1>. DEFINE filter == request[r].filter
<1>1. QueryTypes /\ filter \in Filters
  BY CountsOf DEF CountInv, QueryInv
<1>2. UNCHANGED <<articles, request>>
  BY RequestMoves
<1>3. pc[r] = "put" => Behind(filter, articlesCount[r])
  BY <1>1, ConfusableOf DEF CountInv, CountsBehind, Behind
<1>4. \A f \in Filters : Behind(f, kv'[GetCacheKey(f)])
  <2>. TAKE f \in Filters
  <2>1. CASE kv' = kv
    BY <2>1 DEF CountInv, CountsBehind
  <2>2. CASE pc[r] = "put" /\ kv' = [kv EXCEPT ![GetCacheKey(filter)] = articlesCount[r]]
    <3>1. CASE GetCacheKey(f) = GetCacheKey(filter)
      <4>1. kv'[GetCacheKey(f)] = articlesCount[r]
        BY <1>1, <2>2, <3>1, CountsOf DEF QueryTypes
      <4>2. articlesCount[r] <= Count(filter) /\ filter \in Confusable(f)
        BY <1>1, <2>2, <3>1, ConfusableOf DEF CountInv, CountsBehind
      <4>. QED
        BY <4>1, <4>2 DEF Behind
    <3>2. CASE GetCacheKey(f) # GetCacheKey(filter)
      <4>1. kv'[GetCacheKey(f)] = kv[GetCacheKey(f)]
        BY <1>1, <2>2, <3>2, CountsOf DEF QueryTypes
      <4>. QED
        BY <4>1 DEF CountInv, CountsBehind
    <3>. QED
      BY <3>1, <3>2
  <2>. QED
    BY <2>1, <2>2, CountsMove
<1>5. ASSUME NEW q \in Readers, pc'[q] = "put" PROVE articlesCount'[q] <= Count(request[q].filter)
  <2>0. articlesCount \in [Readers -> NoCount .. MaxArticles] /\ pc = [x \in Readers |-> pc[x]]
    BY <1>1 DEF QueryTypes
  <2>1. CASE q # r
    <3>1. pc[q] = "put" /\ articlesCount'[q] = articlesCount[q]
      <4>1. \E there \in {"idle", "get", "count", "put"} : Goto(r, there)
        BY CountsMove
      <4>2. \E n : articlesCount' = articlesCount \/ articlesCount' = [articlesCount EXCEPT ![r] = n]
        BY CountsMove
      <4>3. pc'[q] = pc[q]
        BY <2>0, <2>1, <4>1 DEF Goto
      <4>4. articlesCount'[q] = articlesCount[q]
        BY <2>0, <2>1, <4>2
      <4>. QED
        BY <1>5, <4>3, <4>4
    <3>. QED
      BY <3>1 DEF CountInv, CountsBehind
  <2>2. CASE q = r
    <3>1. articlesCount'[r] = Count(filter)
      <4>1. \A there : Goto(r, there) => there = "put"
        BY <1>5, <2>0, <2>2 DEF Goto
      <4>2. articlesCount' = [articlesCount EXCEPT ![r] = Count(filter)]
        BY <4>1, CountsMove
      <4>. QED
        BY <2>0, <4>2
    <3>. QED
      BY <1>1, <2>2, <3>1, CountsOf
  <2>. QED
    BY <2>1, <2>2
<1>6. CountsBehind'
  BY <1>2, <1>4, <1>5, StayBehind
<1>7. \A count \in CountsAtHand(r) : \E limit \in Counts(filter) : count <= limit
  <2>1. \A count \in CountsAtHand(r) : count \in Int /\ Behind(filter, count)
    <3>1. Behind(filter, kv[GetCacheKey(filter)]) /\ kv[GetCacheKey(filter)] \in Int
      BY <1>1, CountsOf DEF CountInv, CountsBehind
    <3>2. Behind(filter, NoCount) /\ NoCount \in Int
      BY <1>1, CountsOf, ConfusableOf DEF Behind, NoCount
    <3>3. articlesCount[r] \in Int
      BY <1>1, CountsOf
    <3>. QED
      BY <1>3, <3>1, <3>2, <3>3 DEF CountsAtHand
  <2>. QED
    BY <1>1, <2>1, CountsOfConfusable
<1>8. /\ \A i \in 1 .. Len(answers'[r]) :
            AnswerWithin(answers'[r][i], request[r].page, Counts(filter))
      /\ \A q \in Readers : q # r => answers'[q] = answers[q]
  <2>1. Counts(filter) \in SUBSET Nat /\ Counts(filter) # {}
    BY <1>1, CountsOfConfusable
  <2>2. \A i \in 1 .. Len(answers[r]) :
          AnswerWithin(answers[r][i], request[r].page, Counts(filter))
    BY DEF CountInv, AnswersBehind
  <2>. QED
    BY <1>1, <1>7, <2>1, <2>2, AnswersOfStep
<1>9. AnswersBehind'
  BY <1>2, <1>8, StayAnswered DEF CountInv, AnswersBehind
<1>. QED
  BY <1>6, <1>9

LEMMA CountInvStep == CountInv /\ [Next]_vars => CountInv'
<1>. SUFFICES ASSUME CountInv, [Next]_vars PROVE CountsBehind' /\ AnswersBehind'
  BY QueryInvStep DEF CountInv
<1>1. CASE UNCHANGED vars
  BY <1>1, StayBehind, StayAnswered DEF CountInv, CountsBehind, AnswersBehind, vars, handlerVars
<1>. QED
  BY <1>1, CountInvInsert, CountInvExpires, CountInvBegins, CountInvRequest DEF Next, Begins

\* Every link leads to a page that has articles, now and later, of its filter
\* or of one that is confused with it, however old the count behind it: for any
\* filters, those that share a key of the cache among them.
THEOREM LinksLead == Spec => []LinksLeadToArticles
<1>1. CountInv => LinksLeadToArticles
  <2>. SUFFICES ASSUME CountInv, NEW r \in Readers, NEW i \in PagesShown(r),
                       NEW page \in Linked(answers[r][i].links)
                PROVE  \E f \in Confusable(request[r].filter) : HasRows(f, page)
    BY DEF LinksLeadToArticles
  <2>1. QueryTypes
    BY DEF CountInv, QueryInv
  <2>2. i \in 1 .. Len(answers[r]) /\ answers[r][i].status = 200
    BY <2>1 DEF PagesShown, QueryTypes
  <2>3. PICK f \in Confusable(request[r].filter) :
          AnswerUpTo(answers[r][i], request[r].page, Count(f))
    BY <2>2 DEF CountInv, AnswersBehind, AnswerWithin, Counts
  <2>4. PICK total \in Nat :
          /\ request[r].page \in 1 .. total
          /\ (total - 1) * PageSize < Count(f)
          /\ answers[r][i].links = PagesLinks(total, request[r].page)
    BY <2>2, <2>3 DEF AnswerUpTo
  <2>5. page \in 1 .. total
    BY <2>4, ViewPart DEF Part
  <2>6. Count(f) \in Nat
    BY <2>1, CountsOf
  <2>7. page >= 1 /\ (page - 1) * PageSize < Count(f)
    BY <2>4, <2>5, <2>6, PagesWithin
  <2>. QED
    BY <2>3, <2>7 DEF HasRows, Count
<1>. QED
  BY <1>1, CountInvInit, CountInvStep, PTL DEF Spec

-----------------------------------------------------------------------------
\* The form of the views.

\* What is shown is the view of the number of pages noted beside it.
LEMMA ShownIsView ==
  ASSUME QueryInv, NEW r \in Readers, NEW i \in PagesShown(r)
  PROVE  /\ TotalShown(r, i) \in Nat /\ request[r].page \in 1 .. TotalShown(r, i)
         /\ answers[r][i].links = PagesLinks(TotalShown(r, i), request[r].page)
<1>1. i \in 1 .. Len(answers[r]) /\ answers[r][i].status = 200
  BY DEF PagesShown, QueryInv, QueryTypes
<1>. QED
  BY <1>1 DEF QueryInv, AnswersBounded, AnswerUpTo, TotalShown

\* The neighbours of every page shown are linked, for every number of pages.
THEOREM NeighboursLinked == ASSUME ProgramPadding PROVE Spec => []NeighboursAreLinked
<1>1. QueryInv => NeighboursAreLinked
  <2>. SUFFICES ASSUME QueryInv, NEW r \in Readers, NEW i \in PagesShown(r)
                PROVE  WindowLinked(answers[r][i].links, TotalShown(r, i), request[r].page)
    BY DEF NeighboursAreLinked
  <2>. DEFINE total == TotalShown(r, i)
  <2>1. /\ total \in Nat /\ request[r].page \in 1 .. total
        /\ answers[r][i].links = PagesLinks(total, request[r].page)
    BY ShownIsView
  <2>. HIDE DEF total
  <2>2. PICK pages \in SUBSET (1 .. total) :
          /\ Part(PagesLinks(total, request[r].page), pages)
          /\ \A q \in request[r].page - 1 .. request[r].page + 1 :
               q \in 1 .. total => q \in pages
    BY <2>1, ViewPart DEF ProgramPadding
  <2>3. Linked(answers[r][i].links) = pages
    BY <2>1, <2>2 DEF Part
  <2>. QED
    BY <2>2, <2>3 DEF WindowLinked, ProgramPadding, total
<1>. QED
  BY <1>1, QueryInvInit, QueryInvStep, PTL DEF Spec

\* A view goes from the first page to the last, and what it leaves out is
\* marked, for every number of pages.
THEOREM GapsMarkedInViews == ASSUME ProgramPadding PROVE Spec => []GapsAreMarked
<1>1. QueryInv => GapsAreMarked
  <2>. SUFFICES ASSUME QueryInv, NEW r \in Readers, NEW i \in PagesShown(r)
                PROVE  GapsMarked(answers[r][i].links, TotalShown(r, i))
    BY DEF GapsAreMarked
  <2>. DEFINE total == TotalShown(r, i)
  <2>1. /\ total \in Nat /\ request[r].page \in 1 .. total
        /\ answers[r][i].links = PagesLinks(total, request[r].page)
    BY ShownIsView
  <2>. HIDE DEF total
  <2>2. Unbroken(PagesLinks(total, request[r].page), 1, total)
    BY <2>1, ViewUnbroken DEF ProgramPadding
  <2>. QED
    BY <2>1, <2>2 DEF Unbroken, GapsMarked, total
<1>. QED
  BY <1>1, QueryInvInit, QueryInvStep, PTL DEF Spec
=============================================================================
