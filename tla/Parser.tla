------------------------------- MODULE Parser -------------------------------
(***************************************************************************)
(* parser.Parse over class selectors: each token that the tokenizer gives  *)
(* is handed to every selector in a goroutine of its own, and the next one *)
(* is read when all of them are done (wg.Wait).  A selector owns an        *)
(* AstGenerator, which only its goroutine touches.                         *)
(*                                                                         *)
(* The document is any sequence of tokens.  A token says which selectors   *)
(* its class attribute satisfies (ContainsClass), and what ParseDateUA     *)
(* makes of its text: a date, an error, or a panic, for a time without a   *)
(* colon.  A node remembers the position of its token.  Comments reach no  *)
(* selector and are left out.                                              *)
(***************************************************************************)
EXTENDS AstGenerator, FiniteSets

CONSTANTS
  Selectors,   \* the selectors given to Parse
  Tokens,      \* the tokens documents are made of
  Icons,       \* other classes that an extractor looks for
  TextName,    \* string(TEXT_NODE)
  VoidNames,   \* the names of elements without a close tag
  MaxTokens    \* bound: tokens read from a document

ASSUME ParserAssumption ==
  /\ MaxTokens \in Nat
  /\ TextName \in Names
  /\ Tokens \subseteq [kind : {"open", "close", "text"}, name : Names,
                       classOf : SUBSET (Selectors \cup Icons),
                       date : {"read", "refused", "panics"}]
  /\ \A t \in Tokens :
       IF t.kind = "text" THEN t.name = TextName ELSE t.date = "refused"

VARIABLES
  doc,     \* the tokens read so far; the last one is being handled
  wg,      \* the selectors whose goroutine is still handling it
  ast,     \* per selector: its AstGenerator
  trees,   \* per selector: the trees given to its treeCompleteFn
  ended    \* Parse has returned

vars == <<doc, wg, ast, trees, ended>>

Node == [name : Names, at : 1 .. MaxTokens]

TypeOK ==
  /\ doc \in Seq(Tokens) /\ Len(doc) <= MaxTokens
  /\ wg \subseteq Selectors
  /\ ast \in [Selectors -> [tagNames : [Names -> Nat],
                            rootNode : Node \cup {NoNode},
                            nodes    : Seq(Seq(Node) \ {<<>>})]]
  /\ \A s \in Selectors :
       IF IsBuilding(ast[s]) THEN HasPendingNode(ast[s]) /\
                                  Head(ast[s].nodes[1]) = ast[s].rootNode
                             ELSE ast[s].nodes = <<>>
  /\ trees \in [Selectors -> Seq(Seq(Node))]
  /\ ended \in BOOLEAN

Init ==
  /\ doc = <<>>
  /\ wg = {}
  /\ ast = [s \in Selectors |-> EmptyAst]
  /\ trees = [s \in Selectors |-> <<>>]
  /\ ended = FALSE

\* tok.Next gives a token, and a goroutine is started for every selector.
NextToken(t) ==
  /\ ~ended /\ wg = {}
  /\ Len(doc) < MaxTokens
  /\ doc' = Append(doc, t)
  /\ wg' = Selectors
  /\ UNCHANGED <<ast, trees, ended>>

\* tok.Next sets tok.Err: a tree that is not complete is never handed over.
EndOfFile ==
  /\ ~ended /\ wg = {}
  /\ ended' = TRUE
  /\ UNCHANGED <<doc, wg, ast, trees>>

\* The goroutine of s has the current token, of this kind, to handle.
Handles(s, kind) ==
  /\ s \in wg
  /\ Last(doc).kind = kind
  /\ wg' = wg \ {s}
  /\ UNCHANGED <<doc, ended>>

CurrentNode == [name |-> Last(doc).name, at |-> Len(doc)]

\* An open tag: it starts a tree, if its class is selected, or adds to one.
OnOpen(s) ==
  /\ Handles(s, "open")
  /\ ast' = IF IsBuilding(ast[s]) \/ s \in Last(doc).classOf
            THEN [ast EXCEPT ![s] = AppendOpenTag(@, CurrentNode)]
            ELSE ast
  /\ UNCHANGED trees

\* A text is added to the tree as a node of its own, without a close tag.
OnText(s) ==
  /\ Handles(s, "text")
  /\ ast' = IF HasPendingNode(ast[s])
            THEN [ast EXCEPT ![s] = AppendOpenTag(@, CurrentNode)]
            ELSE ast
  /\ UNCHANGED trees

OnClose(s) ==
  /\ Handles(s, "close")
  /\ \/ /\ ~HasPendingNode(ast[s])
        /\ UNCHANGED <<ast, trees>>
     \/ /\ HasPendingNode(ast[s])
        /\ LET closed == CloseTag(ast[s], Last(doc).name) IN
             /\ ast' = [ast EXCEPT ![s] = closed.ast]
             /\ trees' = IF closed.tree = <<>> THEN trees
                         ELSE [trees EXCEPT ![s] = Append(@, closed.tree)]

Next ==
  \/ \E t \in Tokens : NextToken(t)
  \/ \E s \in Selectors : OnOpen(s) \/ OnText(s) \/ OnClose(s)
  \/ EndOfFile

Spec == Init /\ [][Next]_vars

-----------------------------------------------------------------------------
\* Properties.

\* Whatever the document, well formed or not, each selector is a collector:
\* the trees it hands over hold every open tag and every text since their
\* root, in document order.  Auto-closing lost tags and unlinked texts never
\* drops, repeats or reorders a node.
Collector(s) ==
  INSTANCE TreeCollector
    WITH Selected  <- LAMBDA t : s \in t.classOf,
         taken     <- IF s \in wg THEN Len(doc) - 1 ELSE Len(doc),
         collected <- FlattenSeq(ast[s].nodes),
         trees     <- trees[s]
CollectorSpec ==
  /\ \A s \in Selectors : Collector(s)!Init
  /\ [][\A s \in Selectors : [Collector(s)!Next]_(Collector(s)!collectorVars)]_vars

\* The counter of a name is never below the number of open elements of that
\* name: CloseTag never ignores the close tag of an element on the stack.
OpenTagsAreCounted ==
  \A s \in Selectors : \A n \in Names :
    Cardinality({k \in DOMAIN ast[s].nodes : Head(ast[s].nodes[k]).name = n})
      <= ast[s].tagNames[n]

\* The element that node opened is closed by the last token read: so many
\* elements of its name were opened and closed since.
ClosedBy(node, upTo) ==
  LET since(kind) == {i \in node.at .. upTo :
                        doc[i].kind = kind /\ doc[i].name = node.name}
  IN  Cardinality(since("open")) = Cardinality(since("close"))

\* The elements opened, and the close tags, from token i to token j.  Void elements
\* are never closed.
Opened(i, j) ==
  {k \in i .. j : doc[k].kind = "open" /\ doc[k].name \notin VoidNames}
Closed(i, j) == {k \in i .. j : doc[k].kind = "close"}

\* The element that token i opens ends with token j: the first one up to which
\* everything opened since i is closed.
EndsAt(i, j) ==
  /\ Cardinality(Opened(i, j)) = Cardinality(Closed(i, j))
  /\ \A k \in i .. j - 1 : Cardinality(Closed(i, k)) < Cardinality(Opened(i, k))

\* Each close tag has the name of the element that it ends.
WellFormed ==
  \A j \in DOMAIN doc : doc[j].kind = "close" =>
    \E i \in 1 .. j - 1 : doc[i].name = doc[j].name /\ EndsAt(i, j)

\* In a well-formed document a tree is handed over at the close tag of its root
\* element and not before: no text inside the element is lost.
CompletesAtRootClose ==
  [][\A s \in Selectors : WellFormed /\ trees[s] # trees'[s] =>
       ClosedBy(Head(Last(trees'[s])), Len(doc))]_vars

\* ... and not after: once the root element is closed, nothing is pending.
StopsAtRootClose ==
  WellFormed =>
    \A s \in Selectors \ wg :
      IsBuilding(ast[s]) => ~ClosedBy(ast[s].rootNode, Len(doc))
=============================================================================
