--------------------------- MODULE TreeCollector ---------------------------
(***************************************************************************)
(* What a selector promises of a document, without stacks, counters and    *)
(* goroutines: it takes the tokens in order; from the first open tag with  *)
(* its class on it collects every open tag and every text, up to some      *)
(* close tag, where it hands over everything it collected, in document     *)
(* order, and starts over.                                                 *)
(***************************************************************************)
EXTENDS Naturals, Sequences

CONSTANTS
  Tokens,      \* what a document is made of
  MaxTokens,   \* bound: tokens read from a document
  Selected(_)  \* does this open tag have the selector's class?

VARIABLES
  doc,         \* the tokens read so far
  taken,       \* how many of them the selector has taken
  collected,   \* the nodes collected since the last tree
  trees        \* the trees handed over

collectorVars == <<doc, taken, collected, trees>>

Node(i) == [name |-> doc[i].name, at |-> i]

Init ==
  /\ doc = <<>>
  /\ taken = 0
  /\ collected = <<>>
  /\ trees = <<>>

\* The next token is read when the selector has taken the one before.
Read(t) ==
  /\ Len(doc) < MaxTokens
  /\ taken = Len(doc)
  /\ doc' = Append(doc, t)
  /\ UNCHANGED <<taken, collected, trees>>

Wanted(t) ==
  /\ t.kind # "close"
  /\ collected # <<>> \/ (t.kind = "open" /\ Selected(t))

Take ==
  /\ taken < Len(doc)
  /\ taken' = taken + 1
  /\ \/ /\ Wanted(doc[taken + 1])
        /\ collected' = Append(collected, Node(taken + 1))
        /\ UNCHANGED trees
     \/ /\ ~Wanted(doc[taken + 1])
        /\ UNCHANGED <<collected, trees>>
     \/ /\ doc[taken + 1].kind = "close"
        /\ collected # <<>>
        /\ trees' = Append(trees, collected)
        /\ collected' = <<>>
  /\ UNCHANGED doc

Next == Take \/ \E t \in Tokens : Read(t)

Spec == Init /\ [][Next]_collectorVars
=============================================================================
