--------------------------- MODULE ArticleLedger ---------------------------
(***************************************************************************)
(* What the article pipeline promises to the readers of the table, without *)
(* deliveries, handlers, processes or statements: a ledger with one entry  *)
(* per article (title and origin), written at least once for every message *)
(* before the message is retired, and never holding anything that was not  *)
(* published for that article.                                             *)
(*                                                                         *)
(* It does not promise that the entry holds the newest statistics: a       *)
(* message may be recorded again after a later one, and after it retired.  *)
(***************************************************************************)
EXTENDS Naturals, Sequences

CONSTANTS
  Payloads,     \* what the articles published can be
  MaxMessages   \* bound: messages ever published

VARIABLES
  posted,    \* every message published, in order
  retired,   \* the messages that will never be seen again
  entries    \* the articles as readers see them

ledgerVars == <<posted, retired, entries>>

\* What identifies an article, and what a reader sees of it.
SameArticle(p, e) == p.title = e.title /\ p.origin = e.origin
Entry(p) == [title |-> p.title, origin |-> p.origin, viewers |-> p.viewers]

Init ==
  /\ posted = <<>>
  /\ retired = {}
  /\ entries = {}

Post(p) ==
  /\ Len(posted) < MaxMessages
  /\ posted' = Append(posted, p)
  /\ UNCHANGED <<retired, entries>>

\* The entry of the message's article is made or replaced.
Record(s) ==
  /\ entries' = {e \in entries : ~SameArticle(posted[s], e)} \cup {Entry(posted[s])}
  /\ UNCHANGED <<posted, retired>>

\* A message goes once its article has an entry, or because it was unreadable.
Retire(s) ==
  /\ posted[s].err \/ \E e \in entries : SameArticle(posted[s], e)
  /\ retired' = retired \cup {s}
  /\ UNCHANGED <<posted, entries>>

Next ==
  \/ \E p \in Payloads : Post(p)
  \/ \E s \in DOMAIN posted : Record(s) \/ Retire(s)

Spec == Init /\ [][Next]_ledgerVars

\* One entry per article, and every entry is what some message said.
OneEntryPerArticle ==
  /\ \A d, e \in entries : SameArticle(d, e) => d = e
  /\ \A e \in entries : \E s \in DOMAIN posted : e = Entry(posted[s])
=============================================================================
