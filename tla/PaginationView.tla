--------------------------- MODULE PaginationView ---------------------------
(***************************************************************************)
(* pkg/paginationutils: which page links the answer of a page carries.     *)
(* A view is a sequence of page numbers and placeholders ("..."); the URL  *)
(* of a link is the request's own with another page number, so a link      *)
(* keeps the filter of the request.                                        *)
(***************************************************************************)
EXTENDS Integers, Sequences

CONSTANT CursorPadding   \* PaginationView.cursorPadding; 1 in the program

ASSUME PaginationAssumption == CursorPadding \in Nat \ {0}

Placeholder == 0   \* no page has this number

\* The quotient rounded up; 0 or less if the count is unknown (-1).
TotalPages(itemsCount, itemsPerPage) ==
  (itemsCount + itemsPerPage - 1) \div itemsPerPage

\* A variant: the last page of the range is left out.
PageLinksUpTo(start, end) == [i \in 1 .. end - start |-> start + i - 1]

PageLinksRange(start, end) == [i \in 1 .. end - start + 1 |-> start + i - 1]

IsInvalidPage(total, page) == page > total \/ page < 1

\* A variant: page 2 is taken to be no gap when it is not linked.
LeftLinksTight(page) ==
  LET leftSide == page - CursorPadding
      window   == PageLinksRange(leftSide, page + CursorPadding)
      first    == PageLinksRange(1, CursorPadding)
  IN  IF leftSide <= 1
      THEN PageLinksRange(IF page = 1 THEN 1 ELSE page - 1, page + CursorPadding)
      ELSE IF leftSide - 1 <= 2 THEN first \o window
      ELSE first \o <<Placeholder>> \o window

\* The links up to the window around the page.
LeftLinks(page) ==
  LET leftSide == page - CursorPadding
      window   == PageLinksRange(leftSide, page + CursorPadding)
      first    == PageLinksRange(1, CursorPadding)
  IN  IF leftSide <= 1
      THEN PageLinksRange(IF page = 1 THEN 1 ELSE page - 1, page + CursorPadding)
      ELSE IF leftSide - 1 = 1 THEN first \o window
      ELSE first \o <<Placeholder>> \o window

\* The links behind the window.
RightLinks(total, page) ==
  IF page + CursorPadding + 1 >= total THEN <<total>> ELSE <<Placeholder, total>>

\* The links of a valid page.
PagesLinks(total, page) ==
  LET leftBorder  == IF page > CursorPadding THEN page - CursorPadding ELSE 1
      rightBorder == IF page + CursorPadding < total THEN page + CursorPadding
                                                     ELSE total
  IN  IF CursorPadding >= total \/ total = CursorPadding + 1
      THEN PageLinksRange(1, total)
      ELSE IF leftBorder < total /\ rightBorder <= total - CursorPadding
      THEN LeftLinks(page) \o RightLinks(total, page)
      ELSE <<1, Placeholder>> \o PageLinksRange(leftBorder, rightBorder)

-----------------------------------------------------------------------------
\* What is said of a view.

\* The pages a view links.
Linked(links) == {links[i] : i \in DOMAIN links} \ {Placeholder}

\* The view starts at page 1 and ends at the last page, and where a page number
\* is left out between two links there is a placeholder.
GapsMarked(links, total) ==
  /\ links # <<>> /\ links[1] = 1 /\ links[Len(links)] = total
  /\ \A i \in 1 .. Len(links) - 1 :
       links[i] # Placeholder /\ links[i + 1] # Placeholder
         => links[i + 1] = links[i] + 1

\* The page is linked with the pages around it, as far as there are any.
WindowLinked(links, total, page) ==
  \A q \in page - CursorPadding .. page + CursorPadding :
    q \in 1 .. total => q \in Linked(links)
=============================================================================
