---------------------------- MODULE AstGenerator ----------------------------
(***************************************************************************)
(* ast_generator.go: the stack on which a selector builds the tree of the  *)
(* element it selected.                                                    *)
(*                                                                         *)
(* A Node is linked to one other by Next, so a tree is a chain; a stack    *)
(* entry is modelled by the chain that starts at its node (following Next  *)
(* from it, as LastChildOfNode does), and linking a node behind the last   *)
(* child of another one joins two chains.                                  *)
(***************************************************************************)
EXTENDS Naturals, Sequences, SequencesExt

CONSTANT Names   \* the names of tags, and TEXT_NODE for texts

NoNode == [name |-> "none", at |-> 0]

\* NewAstGenerator, and what Free resets.  A counter of 0 is a name that
\* tagNames does not hold.
EmptyAst == [tagNames |-> [n \in Names |-> 0], rootNode |-> NoNode, nodes |-> <<>>]

IsBuilding(ast) == ast.rootNode # NoNode

\* PendingNode returns a node, not nil.
HasPendingNode(ast) == ast.nodes # <<>>

\* A variant: the counter of a name that is open already starts over.
AppendCountsOnce(ast, node) ==
  [tagNames |-> [ast.tagNames EXCEPT ![node.name] = 1],
   rootNode |-> IF IsBuilding(ast) THEN ast.rootNode ELSE node,
   nodes    |-> Append(ast.nodes, <<node>>)]

AppendOpenTag(ast, node) ==
  [tagNames |-> [ast.tagNames EXCEPT ![node.name] = @ + 1],
   rootNode |-> IF IsBuilding(ast) THEN ast.rootNode ELSE node,
   nodes    |-> Append(ast.nodes, <<node>>)]

\* A variant: the outermost entry with the name.
OutermostTarget(ast, name) ==
  LET named == {k \in DOMAIN ast.nodes : Head(ast.nodes[k]).name = name}
  IN  IF named = {} THEN 1 ELSE Min(named)

\* The entry the loop of CloseTag stops at: the innermost one with the name of
\* the closing tag, or the bottom of the stack if there is none.
Target(ast, name) ==
  Max({1} \cup {k \in DOMAIN ast.nodes : Head(ast.nodes[k]).name = name})

\* A variant: the entries above the target are dropped, not linked to it.
DropSkipped(ast, name) == ast.nodes[Target(ast, name)]

\* The chain of the target, with every entry above it linked behind it.
LinkSkipped(ast, name) ==
  FlattenSeq(SubSeq(ast.nodes, Target(ast, name), Len(ast.nodes)))

\* A target with the closing name is linked behind its parent's last child.
LinkToParent(ast, name) ==
  LET k     == Target(ast, name)
      chain == LinkSkipped(ast, name)
      rest  == SubSeq(ast.nodes, 1, k - 1)
  IN  IF k > 1 /\ Head(chain).name = name
      THEN [rest EXCEPT ![k - 1] = @ \o chain]
      ELSE rest

\* A variant: the tree is complete only if nothing had to be closed above its
\* root.
CloseBareRoot(ast, name) ==
  IF ast.tagNames[name] = 0
  THEN [ast |-> ast, tree |-> <<>>]
  ELSE IF Head(LinkSkipped(ast, name)) = ast.rootNode /\ Len(ast.nodes) = 1
  THEN [ast |-> EmptyAst, tree |-> LinkSkipped(ast, name)]
  ELSE [ast  |-> [ast EXCEPT !.tagNames[name] = @ - 1,
                             !.nodes = LinkToParent(ast, name)],
        tree |-> <<>>]

\* CloseTag on a non-empty stack: the generator it leaves, and the tree it
\* hands to onTreeComplete (which frees the generator), if any.
CloseTag(ast, name) ==
  IF ast.tagNames[name] = 0
  THEN [ast |-> ast, tree |-> <<>>]
  ELSE IF Head(LinkSkipped(ast, name)) = ast.rootNode
  THEN [ast |-> EmptyAst, tree |-> LinkSkipped(ast, name)]
  ELSE [ast  |-> [ast EXCEPT !.tagNames[name] = @ - 1,
                             !.nodes = LinkToParent(ast, name)],
        tree |-> <<>>]
=============================================================================
