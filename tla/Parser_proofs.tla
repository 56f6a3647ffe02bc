---------------------------- MODULE Parser_proofs ----------------------------
(***************************************************************************)
(* Theorems about the selectors of parser.Parse and the extractors of an   *)
(* article page, for every document, every set of selectors and every      *)
(* bound: the stacks stay well formed, no close tag of an open element is  *)
(* ignored, each selector implements the collector of TreeCollector; in a  *)
(* well-formed document a tree is handed over at the close tag of its root *)
(* and neither before nor after, and only an element with too little in it *)
(* makes an extractor panic; in any document a field holds what is in the  *)
(* element its tree was made of.                                           *)
(*                                                                         *)
(* And about parser.Tokenizer, for every page and every way it arrives: no *)
(* offset leaves the buffer, the tokens are those of the page, from the    *)
(* first one on, and all of them if the end has a read of its own.         *)
(***************************************************************************)
EXTENDS Extractor, Tokenizer, SequenceLemmas, FiniteSetTheorems

\* The parts of TypeOK and of the invariants that are about one generator.
Entries == Seq(Node) \ {<<>>}

Generator == [tagNames : [Names -> Nat], rootNode : Node \cup {NoNode},
              nodes : Seq(Entries)]

RootedAtBottom(a) ==
  IF IsBuilding(a) THEN HasPendingNode(a) /\ Head(a.nodes[1]) = a.rootNode
                   ELSE a.nodes = <<>>

Named(a, n) == {k \in DOMAIN a.nodes : Head(a.nodes[k]).name = n}

Counted(a) == \A n \in Names : Cardinality(Named(a, n)) <= a.tagNames[n]

\* No entry but the bottom one starts with the root.
RootOnce(a) == \A k \in DOMAIN a.nodes : k > 1 => Head(a.nodes[k]) # a.rootNode

Sound(a) == a \in Generator /\ RootedAtBottom(a) /\ Counted(a) /\ RootOnce(a)

-----------------------------------------------------------------------------
\* Helpers on entries.

LEMMA EntriesAreSequences ==
  ASSUME NEW nodes \in Seq(Entries)
  PROVE  /\ nodes \in Seq(Seq(Node)) /\ Len(nodes) \in Nat
         /\ DOMAIN nodes = 1 .. Len(nodes)
         /\ \A k \in DOMAIN nodes : nodes[k] \in Seq(Node) /\ nodes[k] # <<>>
                                    /\ Head(nodes[k]) \in Node
<1>1. Entries \subseteq Seq(Node)
  BY DEF Entries
<1>2. nodes \in Seq(Seq(Node))
  BY <1>1, SeqMonotonic
<1>3. Len(nodes) \in Nat /\ DOMAIN nodes = 1 .. Len(nodes)
  BY LenProperties
<1>4. ASSUME NEW k \in DOMAIN nodes
      PROVE  nodes[k] \in Seq(Node) /\ nodes[k] # <<>> /\ Head(nodes[k]) \in Node
  <2>1. nodes[k] \in Entries
    BY <1>3, ElementOfSeq
  <2>2. nodes[k] \in Seq(Node) /\ nodes[k] # <<>>
    BY <2>1 DEF Entries
  <2> QED BY <2>2, HeadTailProperties
<1> QED BY <1>2, <1>3, <1>4

LEMMA NodesAreNotNone ==
  ASSUME NEW node \in Node
  PROVE  node # NoNode /\ node.name \in Names /\ node.at \in Nat /\ <<node>> \in Entries
<1>1. node.name \in Names /\ node.at \in 1 .. MaxTokens
  BY DEF Node
<1>2. node.at \in Nat /\ node.at # 0
  BY <1>1, ParserAssumption
<1>3. node # NoNode
  BY <1>2 DEF NoNode
<1>4. <<node>> \in Seq(Node) /\ <<node>> # <<>>
  OBVIOUS
<1> QED BY <1>1, <1>2, <1>3, <1>4 DEF Entries

LEMMA NamedIsFinite ==
  ASSUME NEW a \in Generator, NEW n
  PROVE  IsFiniteSet(Named(a, n)) /\ Cardinality(Named(a, n)) \in Nat
<1>1. a.nodes \in Seq(Entries)
  BY DEF Generator
<1>2. DOMAIN a.nodes = 1 .. Len(a.nodes) /\ Len(a.nodes) \in Nat
  BY <1>1, LenProperties
<1>3. IsFiniteSet(1 .. Len(a.nodes))
  BY <1>2, FS_Interval
<1>4. Named(a, n) \subseteq 1 .. Len(a.nodes)
  BY <1>2 DEF Named
<1> QED BY <1>3, <1>4, FS_Subset, FS_CardinalityType

\* NewAstGenerator.
LEMMA EmptyIsSound == Sound(EmptyAst) /\ FlattenSeq(EmptyAst.nodes) = <<>>
<1>1. EmptyAst \in Generator
  BY EmptySeq DEF EmptyAst, Generator
<1>2. RootedAtBottom(EmptyAst) /\ RootOnce(EmptyAst)
  BY DEF EmptyAst, RootedAtBottom, IsBuilding, RootOnce
<1>3. Counted(EmptyAst)
  <2>1. \A n : Named(EmptyAst, n) = {}
    BY DEF Named, EmptyAst
  <2>2. ASSUME NEW n \in Names
        PROVE  Cardinality(Named(EmptyAst, n)) = 0 /\ EmptyAst.tagNames[n] = 0
    BY <2>1, FS_EmptySet DEF EmptyAst
  <2> QED BY <2>2 DEF Counted
<1> QED BY <1>1, <1>2, <1>3, FlattenEmpty DEF Sound, EmptyAst

-----------------------------------------------------------------------------
\* AppendOpenTag.

LEMMA AppendOpenTagSound ==
  ASSUME NEW a, Sound(a), NEW node \in Node,
         IsBuilding(a) => a.rootNode # node
  PROVE  LET b == AppendOpenTag(a, node) IN
         /\ Sound(b) /\ IsBuilding(b)
         /\ b.rootNode = IF IsBuilding(a) THEN a.rootNode ELSE node
         /\ FlattenSeq(b.nodes) = Append(FlattenSeq(a.nodes), node)
<1> DEFINE k == Len(a.nodes)
           nodes == Append(a.nodes, <<node>>)
           b == AppendOpenTag(a, node)
<1>1. /\ a \in Generator /\ RootedAtBottom(a) /\ Counted(a) /\ RootOnce(a)
      /\ a.nodes \in Seq(Entries) /\ a.tagNames \in [Names -> Nat]
      /\ a.rootNode \in Node \cup {NoNode}
  BY DEF Sound, Generator
<1>2. /\ node # NoNode /\ node.name \in Names /\ <<node>> \in Entries
      /\ Head(<<node>>) = node
  BY NodesAreNotNone
<1>3. /\ k \in Nat /\ DOMAIN a.nodes = 1 .. k
      /\ nodes \in Seq(Entries) /\ DOMAIN nodes = 1 .. k + 1
      /\ \A i \in 1 .. k : nodes[i] = a.nodes[i]
      /\ nodes[k + 1] = <<node>>
  BY <1>1, <1>2, AppendProperties, LenProperties
<1>4. /\ b.nodes = nodes
      /\ b.rootNode = IF IsBuilding(a) THEN a.rootNode ELSE node
      /\ b.tagNames = [a.tagNames EXCEPT ![node.name] = @ + 1]
      /\ b = [tagNames |-> b.tagNames, rootNode |-> b.rootNode, nodes |-> b.nodes]
  BY DEF AppendOpenTag
<1> HIDE DEF k, nodes, b
<1>5. b \in Generator
  <2>1. b.tagNames \in [Names -> Nat]
    BY <1>1, <1>2, <1>4
  <2>2. b.rootNode \in Node \cup {NoNode}
    BY <1>1, <1>4
  <2> QED BY <1>3, <1>4, <2>1, <2>2 DEF Generator
<1>6. b.rootNode # NoNode
  BY <1>2, <1>4 DEF IsBuilding
<1>7. RootedAtBottom(b)
  <2>1. b.nodes # <<>>
    BY <1>3, <1>4, EmptySeq
  <2>2. CASE IsBuilding(a)
    <3>1. a.nodes # <<>> /\ Head(a.nodes[1]) = a.rootNode
      BY <1>1, <2>2 DEF RootedAtBottom, HasPendingNode
    <3>2. 1 \in 1 .. k
      BY <1>1, <1>3, <3>1, EmptySeq DEF k
    <3> QED BY <1>3, <1>4, <1>6, <2>1, <2>2, <3>1, <3>2
            DEF RootedAtBottom, IsBuilding, HasPendingNode
  <2>3. CASE ~IsBuilding(a)
    <3>1. a.nodes = <<>> /\ k = 0
      BY <1>1, <2>3 DEF RootedAtBottom, k
    <3>2. nodes[1] = <<node>>
      BY <1>3, <3>1
    <3> QED BY <1>2, <1>4, <1>6, <2>1, <2>3, <3>2
            DEF RootedAtBottom, IsBuilding, HasPendingNode
  <2> QED BY <2>2, <2>3
<1>8. Counted(b)
  <2>1. SUFFICES ASSUME NEW n \in Names PROVE Cardinality(Named(b, n)) <= b.tagNames[n]
    BY DEF Counted
  <2>2. /\ IsFiniteSet(Named(a, n)) /\ Cardinality(Named(a, n)) \in Nat
        /\ Cardinality(Named(a, n)) <= a.tagNames[n] /\ a.tagNames[n] \in Nat
    BY <1>1, NamedIsFinite DEF Counted
  <2>3. Named(b, n) = IF n = node.name THEN Named(a, n) \cup {k + 1} ELSE Named(a, n)
    <3>1. Head(nodes[k + 1]).name = node.name
      BY <1>2, <1>3
    <3> QED BY <1>3, <1>4, <3>1 DEF Named
  <2>4. k + 1 \notin Named(a, n)
    BY <1>3 DEF Named
  <2>5. CASE n = node.name
    <3>1. Cardinality(Named(b, n)) = Cardinality(Named(a, n)) + 1
      BY <2>2, <2>3, <2>4, <2>5, FS_AddElement
    <3>2. b.tagNames[n] = a.tagNames[n] + 1
      BY <1>1, <1>4, <2>5
    <3> QED BY <2>2, <3>1, <3>2
  <2>6. CASE n # node.name
    BY <1>1, <1>4, <2>2, <2>3, <2>6
  <2> QED BY <2>5, <2>6
<1>9. RootOnce(b)
  <2>1. SUFFICES ASSUME NEW i \in 1 .. k + 1, i > 1 PROVE Head(nodes[i]) # b.rootNode
    BY <1>3, <1>4 DEF RootOnce
  <2>2. IsBuilding(a)
    BY <1>1, <1>3, <2>1 DEF RootedAtBottom, k
  <2>3. CASE i = k + 1
    BY <1>2, <1>3, <1>4, <2>2, <2>3
  <2>4. CASE i \in 1 .. k
    BY <1>1, <1>3, <1>4, <2>1, <2>2, <2>4 DEF RootOnce
  <2> QED BY <1>3, <2>3, <2>4
<1>10. FlattenSeq(b.nodes) = Append(FlattenSeq(a.nodes), node)
  <2>1. a.nodes \in Seq(Seq(Node)) /\ <<node>> \in Seq(Node)
    BY <1>1, <1>2, EntriesAreSequences DEF Entries
  <2>2. FlattenSeq(nodes) = FlattenSeq(a.nodes) \o <<node>>
    BY <2>1, FlattenAppend DEF nodes
  <2>3. FlattenSeq(a.nodes) \in Seq(Node)
    BY <2>1, FlattenType
  <2> QED BY <1>4, <2>2, <2>3, AppendIsConcat
<1> QED BY <1>4, <1>5, <1>6, <1>7, <1>8, <1>9, <1>10 DEF Sound, IsBuilding, b

-----------------------------------------------------------------------------
\* CloseTag.

LEMMA TargetIsInnermost ==
  ASSUME NEW a, Sound(a), HasPendingNode(a), NEW name
  PROVE  /\ Target(a, name) \in 1 .. Len(a.nodes)
         /\ Target(a, name) > 1 => Target(a, name) \in Named(a, name)
         /\ \A i \in Named(a, name) : i <= Target(a, name)
<1> DEFINE k == Len(a.nodes)
           T == {1} \cup Named(a, name)
<1>1. a.nodes \in Seq(Entries) /\ a.nodes # <<>>
  BY DEF Sound, Generator, HasPendingNode
<1>2. k \in Nat /\ k > 0 /\ Named(a, name) \subseteq 1 .. k
  BY <1>1, LenProperties, EmptySeq DEF Named
<1>3. T \in SUBSET (0 .. k) /\ T # {} /\ T \subseteq 1 .. k
  BY <1>2
<1>4. Target(a, name) = Max(T)
  BY DEF Target, Named
<1> HIDE DEF T, k
<1>5. Max(T) \in T /\ \A y \in T : Max(T) >= y
  BY <1>2, <1>3, MaxIsGreatest
<1>6. T = {1} \cup Named(a, name) /\ \A y \in T : y \in Nat
  BY <1>2 DEF T
<1>7. Max(T) \in 1 .. k /\ (Max(T) > 1 => Max(T) \in Named(a, name))
  BY <1>2, <1>3, <1>5, <1>6
<1>8. \A i \in Named(a, name) : i <= Max(T)
  BY <1>5, <1>6
<1> QED BY <1>4, <1>7, <1>8 DEF k

\* The entries from k on are flattened into one that starts as the k-th does.
LEMMA SkippedEntries ==
  ASSUME NEW nodes \in Seq(Entries), NEW k \in 1 .. Len(nodes)
  PROVE  LET rest  == SubSeq(nodes, 1, k - 1)
             chain == FlattenSeq(SubSeq(nodes, k, Len(nodes)))
         IN  /\ rest \in Seq(Entries) /\ Len(rest) = k - 1
             /\ \A i \in 1 .. k - 1 : rest[i] = nodes[i]
             /\ chain \in Entries /\ Head(chain) = Head(nodes[k])
             /\ FlattenSeq(nodes) = FlattenSeq(rest) \o chain
<1> DEFINE rest == SubSeq(nodes, 1, k - 1)
           upper == SubSeq(nodes, k, Len(nodes))
<1>1. /\ nodes \in Seq(Seq(Node)) /\ Len(nodes) \in Nat /\ k \in Int
      /\ \A i \in 1 .. Len(nodes) : nodes[i] \in Entries /\ nodes[i] \in Seq(Node)
                                     /\ nodes[i] # <<>>
  BY EntriesAreSequences, ElementOfSeq
<1>2. /\ rest \in Seq(Entries) /\ Len(rest) = k - 1
      /\ \A i \in 1 .. k - 1 : rest[i] = nodes[i]
  <2>1. \A i \in 1 .. k - 1 : nodes[i] \in Entries
    BY <1>1
  <2>2. /\ rest \in Seq(Entries)
        /\ Len(rest) = IF 1 <= k - 1 THEN (k - 1) - 1 + 1 ELSE 0
        /\ \A i \in 1 .. (k - 1) - 1 + 1 : rest[i] = nodes[1 + i - 1]
    BY <1>1, <2>1, SubSeqProperties
  <2> QED BY <1>1, <2>2
<1>3. /\ upper \in Seq(Seq(Node)) /\ Len(upper) > 0 /\ upper[1] = nodes[k]
  <2>1. \A i \in k .. Len(nodes) : nodes[i] \in Seq(Node)
    BY <1>1
  <2>2. /\ upper \in Seq(Seq(Node))
        /\ Len(upper) = IF k <= Len(nodes) THEN Len(nodes) - k + 1 ELSE 0
        /\ \A i \in 1 .. Len(nodes) - k + 1 : upper[i] = nodes[k + i - 1]
    BY <1>1, <2>1, SubSeqProperties
  <2>3. 1 \in 1 .. Len(nodes) - k + 1 /\ k + 1 - 1 = k /\ Len(nodes) - k + 1 > 0
    BY <1>1
  <2> QED BY <2>2, <2>3
<1>4. rest \in Seq(Seq(Node))
  BY <1>2, EntriesAreSequences
<1>5. rest \o upper = nodes
  <2>1. 1 \in 1 .. Len(nodes) + 1 /\ k - 1 \in 1 - 1 .. Len(nodes)
        /\ Len(nodes) \in k - 1 .. Len(nodes)
    BY <1>1
  <2>2. SubSeq(nodes, 1, k - 1) \o SubSeq(nodes, (k - 1) + 1, Len(nodes))
          = SubSeq(nodes, 1, Len(nodes))
    BY <1>1, <2>1, ConcatAdjacentSubSeq
  <2>3. (k - 1) + 1 = k
    BY <1>1
  <2> QED BY <2>2, <2>3, SubSeqFull
<1> HIDE DEF rest, upper
<1>6. FlattenSeq(upper) \in Seq(Node) /\ FlattenSeq(upper) # <<>>
      /\ Head(FlattenSeq(upper)) = Head(nodes[k])
  BY <1>1, <1>3, FlattenType, FlattenHead
<1>7. FlattenSeq(rest \o upper) = FlattenSeq(rest) \o FlattenSeq(upper)
  BY <1>3, <1>4, FlattenConcat
<1> QED BY <1>2, <1>5, <1>6, <1>7 DEF rest, upper, Entries

\* What becomes of the stack and the counters: nothing, if the name is not
\* counted; else the target and the entries above it are taken off, or all that
\* the generator holds.
TakesOff(a, name, c) ==
  LET k == Target(a, name) IN
  \/ a.tagNames[name] = 0 /\ c.ast = a /\ c.tree = <<>>
  \/ a.tagNames[name] # 0 /\ k = 1 /\ c.ast = EmptyAst /\ c.tree # <<>>
  \/ /\ a.tagNames[name] # 0 /\ k > 1 /\ c.tree = <<>>
     /\ c.ast.tagNames = [a.tagNames EXCEPT ![name] = @ - 1]
     /\ c.ast.nodes \in Seq(Entries) /\ Len(c.ast.nodes) = k - 1
     /\ \A i \in 1 .. k - 1 : Head(c.ast.nodes[i]) = Head(a.nodes[i])

LEMMA CloseTagSound ==
  ASSUME NEW a, Sound(a), HasPendingNode(a), NEW name \in Names
  PROVE  LET c == CloseTag(a, name) IN
         /\ Sound(c.ast) /\ TakesOff(a, name, c)
         /\ \/ /\ c.tree = <<>> /\ c.ast.rootNode = a.rootNode
               /\ FlattenSeq(c.ast.nodes) = FlattenSeq(a.nodes)
            \/ /\ c.tree = FlattenSeq(a.nodes) /\ c.tree \in Entries
               /\ Head(c.tree) = a.rootNode
               /\ c.ast = EmptyAst
<1> DEFINE k == Target(a, name)
           chain == LinkSkipped(a, name)
           rest == SubSeq(a.nodes, 1, k - 1)
           c == CloseTag(a, name)
<1>1. /\ a \in Generator /\ RootedAtBottom(a) /\ Counted(a) /\ RootOnce(a)
      /\ a.nodes \in Seq(Entries) /\ a.nodes # <<>>
      /\ a.tagNames \in [Names -> Nat] /\ a.rootNode \in Node \cup {NoNode}
  BY DEF Sound, Generator, HasPendingNode
<1>2. /\ a.rootNode # NoNode /\ Head(a.nodes[1]) = a.rootNode
      /\ DOMAIN a.nodes = 1 .. Len(a.nodes) /\ Len(a.nodes) \in Nat
  BY <1>1, LenProperties DEF RootedAtBottom, IsBuilding
<1>3. /\ k \in 1 .. Len(a.nodes)
      /\ k > 1 => k \in Named(a, name)
      /\ \A i \in Named(a, name) : i <= k
  BY TargetIsInnermost
<1>4. /\ rest \in Seq(Entries) /\ Len(rest) = k - 1
      /\ \A i \in 1 .. k - 1 : rest[i] = a.nodes[i]
      /\ chain \in Entries /\ Head(chain) = Head(a.nodes[k])
      /\ FlattenSeq(a.nodes) = FlattenSeq(rest) \o chain
  BY <1>1, <1>3, SkippedEntries DEF LinkSkipped
<1>5. CASE a.tagNames[name] = 0
  <2>1. c = [ast |-> a, tree |-> <<>>]
    BY <1>5 DEF CloseTag
  <2> QED BY <1>5, <2>1 DEF TakesOff
<1>6. CASE a.tagNames[name] # 0 /\ Head(chain) = a.rootNode
  <2>1. c = [ast |-> EmptyAst, tree |-> chain]
    BY <1>6 DEF CloseTag
  <2>2. k = 1
    BY <1>1, <1>2, <1>3, <1>4, <1>6 DEF RootOnce
  <2>3. rest = <<>>
    BY <1>4, <2>2, EmptySeq
  <2>4. FlattenSeq(a.nodes) = chain
    <3>1. chain \in Seq(Node)
      BY <1>4 DEF Entries
    <3> QED BY <1>4, <2>3, <3>1, FlattenEmpty, ConcatEmptySeq
  <2>5. TakesOff(a, name, c)
    <3>1. chain # <<>>
      BY <1>4 DEF Entries
    <3> QED BY <1>6, <2>1, <2>2, <3>1 DEF TakesOff
  <2> QED BY <1>4, <1>6, <2>1, <2>4, <2>5, EmptyIsSound
<1>7. CASE a.tagNames[name] # 0 /\ Head(chain) # a.rootNode
  <2> DEFINE nodes == [rest EXCEPT ![k - 1] = @ \o chain]
             counters == [a.tagNames EXCEPT ![name] = @ - 1]
             b == [tagNames |-> counters, rootNode |-> a.rootNode, nodes |-> nodes]
  <2>1. k > 1 /\ k - 1 \in 1 .. Len(rest) /\ k \in Named(a, name)
    BY <1>2, <1>3, <1>4, <1>7
  <2>2. Head(chain).name = name
    BY <1>4, <2>1 DEF Named
  <2>3. LinkToParent(a, name) = nodes
    BY <2>1, <2>2 DEF LinkToParent
  <2>4. c = [ast |-> b, tree |-> <<>>]
    <3>1. PICK t, r, n : a = [tagNames |-> t, rootNode |-> r, nodes |-> n]
      BY <1>1 DEF Generator
    <3>2. [a EXCEPT !.tagNames[name] = @ - 1]
            = [tagNames |-> counters, rootNode |-> a.rootNode, nodes |-> a.nodes]
      BY <3>1
    <3> HIDE DEF counters, nodes
    <3>3. \A link, w : w = [tagNames |-> counters, rootNode |-> a.rootNode,
                             nodes |-> a.nodes]
                      => [w EXCEPT !.nodes = link]
                           = [tagNames |-> counters, rootNode |-> a.rootNode,
                              nodes |-> link]
      OBVIOUS
    <3>4. [a EXCEPT !.tagNames[name] = @ - 1, !.nodes = nodes] = b
      BY <3>2, <3>3
    <3> QED BY <1>7, <2>3, <3>4 DEF CloseTag
  <2>5. rest[k - 1] \in Entries /\ rest[k - 1] \o chain \in Entries
        /\ Head(rest[k - 1] \o chain) = Head(rest[k - 1])
    <3>1. PICK r \in Seq(Node) : r = rest[k - 1] /\ r # <<>>
      BY <1>4, <2>1, ElementOfSeq DEF Entries
    <3>2. PICK d \in Seq(Node) : d = chain
      BY <1>4 DEF Entries
    <3> HIDE DEF rest, chain
    <3>3. /\ r \o d \in Seq(Node) /\ Len(r \o d) = Len(r) + Len(d)
          /\ Len(r) \in Nat /\ Len(r) > 0 /\ Len(d) \in Nat /\ (r \o d)[1] = r[1]
      <4>1. Len(r) \in Nat /\ Len(r) > 0 /\ Len(d) \in Nat
        BY <3>1, LenProperties, EmptySeq
      <4>2. /\ r \o d \in Seq(Node) /\ Len(r \o d) = Len(r) + Len(d)
            /\ \A i \in 1 .. Len(r) + Len(d) :
                 (r \o d)[i] = IF i <= Len(r) THEN r[i] ELSE d[i - Len(r)]
        BY ConcatProperties
      <4>3. 1 \in 1 .. Len(r) + Len(d) /\ 1 <= Len(r)
        BY <4>1
      <4> QED BY <4>1, <4>2, <4>3
    <3>4. r \o d # <<>> /\ Head(r \o d) = Head(r)
      BY <3>3, EmptySeq
    <3> QED BY <1>4, <2>1, <3>1, <3>2, <3>3, <3>4, ElementOfSeq DEF Entries
  <2>6. /\ nodes \in Seq(Entries) /\ Len(nodes) = k - 1 /\ DOMAIN nodes = 1 .. k - 1
        /\ \A i \in 1 .. k - 1 : Head(nodes[i]) = Head(a.nodes[i])
    <3>1. PICK e \in Entries : e = rest[k - 1] \o chain /\ Head(e) = Head(rest[k - 1])
      BY <2>5
    <3>2. nodes = [rest EXCEPT ![k - 1] = e]
      BY <3>1
    <3> HIDE DEF nodes, rest, chain, k
    <3>3. /\ nodes \in Seq(Entries) /\ Len(nodes) = Len(rest)
          /\ \A i \in 1 .. Len(rest) : nodes[i] = IF i = k - 1 THEN e ELSE rest[i]
      BY <1>4, <2>1, <3>2, ExceptSeq
    <3>4. DOMAIN nodes = 1 .. Len(nodes)
      BY <3>3, LenProperties
    <3> QED BY <1>4, <3>1, <3>3, <3>4
  <2>7. FlattenSeq(nodes) = FlattenSeq(a.nodes)
    <3>1. rest # <<>> /\ k - 1 = Len(rest)
      <4> HIDE DEF rest, chain, k
      <4> QED BY <1>4, <2>1, EmptySeq
    <3>2. rest \in Seq(Seq(Node)) /\ chain \in Seq(Node)
      BY <1>4, EntriesAreSequences DEF Entries
    <3>3. FlattenSeq([rest EXCEPT ![Len(rest)] = @ \o chain]) = FlattenSeq(rest) \o chain
      <4> HIDE DEF rest, chain
      <4> QED BY <3>1, <3>2, FlattenLast
    <3> QED BY <1>4, <3>1, <3>3
  <2> HIDE DEF nodes, c, chain, rest, k
  <2>8. counters \in [Names -> Nat]
    BY <1>1, <1>7
  <2>9. b \in Generator
    BY <1>1, <2>6, <2>8 DEF Generator
  <2>10. RootedAtBottom(b)
    <3>1. nodes # <<>> /\ Head(nodes[1]) = a.rootNode
      BY <1>2, <2>1, <1>4, <2>6, EmptySeq
    <3> QED BY <1>2, <3>1 DEF RootedAtBottom, IsBuilding, HasPendingNode
  <2>11. RootOnce(b)
    BY <1>1, <1>2, <1>3, <2>6 DEF RootOnce
  <2>12. Counted(b)
    <3>1. SUFFICES ASSUME NEW n \in Names PROVE Cardinality(Named(b, n)) <= b.tagNames[n]
      BY DEF Counted
    <3>2. /\ IsFiniteSet(Named(a, n)) /\ Cardinality(Named(a, n)) \in Nat
          /\ Cardinality(Named(a, n)) <= a.tagNames[n] /\ a.tagNames[n] \in Nat
      BY <1>1, NamedIsFinite DEF Counted
    <3>3. Named(b, n) \subseteq Named(a, n) /\ k \notin Named(b, n)
      BY <1>2, <1>3, <2>6 DEF Named
    <3>4. CASE n = name
      <4>1. Named(b, n) \subseteq Named(a, n) \ {k} /\ k \in Named(a, n)
        BY <2>1, <3>3, <3>4
      <4>2. /\ IsFiniteSet(Named(a, n) \ {k})
            /\ Cardinality(Named(a, n) \ {k}) = Cardinality(Named(a, n)) - 1
        BY <3>2, <4>1, FS_RemoveElement
      <4>3. Cardinality(Named(b, n)) <= Cardinality(Named(a, n) \ {k})
            /\ Cardinality(Named(b, n)) \in Nat
        BY <4>1, <4>2, FS_Subset, FS_CardinalityType
      <4>4. b.tagNames[n] = a.tagNames[n] - 1
        BY <1>1, <3>4
      <4> QED BY <3>2, <4>2, <4>3, <4>4
    <3>5. CASE n # name
      <4>1. Cardinality(Named(b, n)) <= Cardinality(Named(a, n))
            /\ Cardinality(Named(b, n)) \in Nat
        BY <3>2, <3>3, FS_Subset, FS_CardinalityType
      <4>2. b.tagNames[n] = a.tagNames[n]
        BY <1>1, <3>5
      <4> QED BY <3>2, <4>1, <4>2
    <3> QED BY <3>4, <3>5
  <2>13. Sound(b)
    BY <2>9, <2>10, <2>11, <2>12 DEF Sound
  <2> HIDE DEF b
  <2>14. c.ast = b /\ c.tree = <<>> /\ b.rootNode = a.rootNode /\ b.nodes = nodes
         /\ b.tagNames = counters
    BY <2>4 DEF b
  <2>15. TakesOff(a, name, c)
    BY <1>7, <2>1, <2>6, <2>14 DEF TakesOff, k
  <2> QED BY <2>7, <2>13, <2>14, <2>15 DEF c
<1> QED BY <1>5, <1>6, <1>7

-----------------------------------------------------------------------------
\* The inductive invariant of Parser.

\* How many tokens the selector has taken.
Taken(s) == IF s \in wg THEN Len(doc) - 1 ELSE Len(doc)

DocumentInv ==
  /\ doc \in Seq(Tokens) /\ Len(doc) <= MaxTokens
  /\ wg \subseteq Selectors
  /\ wg # {} => doc # <<>>
  /\ ended \in BOOLEAN

\* What a selector holds was made of the tokens it has taken.
SelectorInv(s) ==
  /\ Sound(ast[s])
  /\ IsBuilding(ast[s]) => ast[s].rootNode.at <= Taken(s)

ParserInv ==
  /\ DocumentInv
  /\ ast \in [Selectors -> Generator]
  /\ trees \in [Selectors -> Seq(Seq(Node))]
  /\ \A s \in Selectors : SelectorInv(s)

\* The node of the token that is being handled.
LEMMA CurrentNodeType ==
  ASSUME ParserInv, NEW s \in wg
  PROVE  /\ s \in Selectors /\ Len(doc) \in 1 .. MaxTokens
         /\ Last(doc) \in Tokens /\ Last(doc) = doc[Len(doc)]
         /\ CurrentNode \in Node /\ CurrentNode.at = Len(doc)
         /\ Last(doc).name \in Names
<1>1. doc \in Seq(Tokens) /\ doc # <<>> /\ Len(doc) <= MaxTokens /\ s \in Selectors
  BY DEF ParserInv, DocumentInv
<1>2. Len(doc) \in 1 .. MaxTokens /\ doc[Len(doc)] \in Tokens
  BY <1>1, ElementOfSeq, LenProperties, EmptySeq, ParserAssumption
<1>3. Last(doc) = doc[Len(doc)]
  BY DEF Last
<1>4. Last(doc).name \in Names
  BY <1>2, <1>3, ParserAssumption
<1> QED BY <1>1, <1>2, <1>3, <1>4 DEF CurrentNode, Node

\* A goroutine touches what its own selector has, and no other.
LEMMA OwnSelector ==
  ASSUME ParserInv, NEW s \in wg, NEW g, NEW given \in Seq(Seq(Node)),
         Sound(g), IsBuilding(g) => g.rootNode.at <= Len(doc),
         ast' = [ast EXCEPT ![s] = g], trees' = [trees EXCEPT ![s] = given],
         wg' = wg \ {s}, UNCHANGED <<doc, ended>>
  PROVE  /\ ParserInv'
         /\ ast'[s] = g /\ trees'[s] = given /\ Taken(s)' = Taken(s) + 1
         /\ Taken(s) + 1 = Len(doc)
         /\ \A t \in Selectors \ {s} : UNCHANGED <<ast[t], trees[t], Taken(t)>>
<1>1. s \in Selectors /\ Len(doc) \in Nat
  BY CurrentNodeType
<1>2. /\ DocumentInv /\ ast \in [Selectors -> Generator]
      /\ trees \in [Selectors -> Seq(Seq(Node))]
      /\ \A t \in Selectors : SelectorInv(t)
  BY DEF ParserInv
<1>3. DocumentInv'
  BY <1>2 DEF DocumentInv
<1>4. g \in Generator
  BY DEF Sound
<1>5. ast' \in [Selectors -> Generator] /\ trees' \in [Selectors -> Seq(Seq(Node))]
  BY <1>2, <1>4
<1>6. ast'[s] = g /\ trees'[s] = given
  BY <1>1, <1>2
<1>7. Taken(s) = Len(doc) - 1 /\ Taken(s)' = Len(doc)
  BY DEF Taken
<1>8. ASSUME NEW t \in Selectors \ {s} PROVE UNCHANGED <<ast[t], trees[t], Taken(t)>>
  <2>1. t \in wg' <=> t \in wg
    OBVIOUS
  <2>2. ast'[t] = ast[t] /\ trees'[t] = trees[t]
    BY <1>2
  <2> QED BY <2>1, <2>2 DEF Taken
<1>9. ASSUME NEW t \in Selectors PROVE SelectorInv(t)'
  <2>1. CASE t = s
    BY <1>6, <1>7, <2>1 DEF SelectorInv
  <2>2. CASE t # s
    BY <1>2, <1>8, <2>2 DEF SelectorInv
  <2> QED BY <2>1, <2>2
<1> QED BY <1>1, <1>3, <1>5, <1>6, <1>7, <1>8, <1>9 DEF ParserInv

\* A generator that does not hold the current node yet can append it.
LEMMA AppendsCurrent ==
  ASSUME ParserInv, NEW s \in wg
  PROVE  LET b == AppendOpenTag(ast[s], CurrentNode) IN
         /\ Sound(b) /\ IsBuilding(b) /\ b.rootNode.at <= Len(doc)
         /\ FlattenSeq(b.nodes) = Append(FlattenSeq(ast[s].nodes), CurrentNode)
<1>1. s \in Selectors /\ CurrentNode \in Node /\ CurrentNode.at = Len(doc)
      /\ Len(doc) \in Nat
  BY CurrentNodeType
<1>2. SelectorInv(s)
  BY <1>1 DEF ParserInv
<1>3. Sound(ast[s]) /\ (IsBuilding(ast[s]) => ast[s].rootNode.at <= Len(doc) - 1)
  BY <1>2 DEF SelectorInv, Taken
<1>4. IsBuilding(ast[s]) => ast[s].rootNode # CurrentNode
                            /\ ast[s].rootNode.at <= Len(doc)
  <2>1. SUFFICES ASSUME IsBuilding(ast[s])
                 PROVE  ast[s].rootNode # CurrentNode /\ ast[s].rootNode.at <= Len(doc)
    OBVIOUS
  <2>2. ast[s].rootNode \in Node
    BY <1>3, <2>1 DEF Sound, Generator, IsBuilding
  <2>3. ast[s].rootNode.at \in Nat
    BY <2>2, NodesAreNotNone
  <2> QED BY <1>1, <1>3, <2>1, <2>3
<1>5. PICK b : b = AppendOpenTag(ast[s], CurrentNode)
  OBVIOUS
<1>6. /\ Sound(b) /\ IsBuilding(b)
      /\ b.rootNode = IF IsBuilding(ast[s]) THEN ast[s].rootNode ELSE CurrentNode
      /\ FlattenSeq(b.nodes) = Append(FlattenSeq(ast[s].nodes), CurrentNode)
  BY <1>1, <1>3, <1>4, <1>5, AppendOpenTagSound
<1>7. b.rootNode.at <= Len(doc)
  BY <1>1, <1>4, <1>6
<1> QED BY <1>5, <1>6, <1>7

-----------------------------------------------------------------------------
\* The steps of a goroutine: each keeps the invariant, takes the token for the
\* selector as the collector does, and leaves the other selectors alone.

LEMMA PendingIsCollected ==
  ASSUME NEW a, Sound(a)
  PROVE  /\ IsBuilding(a) <=> HasPendingNode(a)
         /\ IsBuilding(a) <=> FlattenSeq(a.nodes) # <<>>
         /\ FlattenSeq(a.nodes) \in Seq(Node)
<1>1. RootedAtBottom(a) /\ a.nodes \in Seq(Entries)
  BY DEF Sound, Generator
<1>2. IsBuilding(a) <=> a.nodes # <<>>
  BY <1>1 DEF RootedAtBottom, HasPendingNode
<1>3. CASE a.nodes = <<>>
  BY <1>2, <1>3, FlattenEmpty, EmptySeq DEF HasPendingNode
<1>4. CASE a.nodes # <<>>
  <2>1. a.nodes \in Seq(Seq(Node)) /\ Len(a.nodes) > 0 /\ a.nodes[1] # <<>>
    <3>1. Len(a.nodes) > 0 /\ 1 \in DOMAIN a.nodes
      BY <1>1, <1>4, EmptySeq, EntriesAreSequences
    <3> QED BY <1>1, <3>1, EntriesAreSequences
  <2>2. FlattenSeq(a.nodes) # <<>> /\ FlattenSeq(a.nodes) \in Seq(Node)
    BY <2>1, FlattenHead, FlattenType
  <2> QED BY <1>2, <1>4, <2>2 DEF HasPendingNode
<1> QED BY <1>3, <1>4

OthersStay(s) ==
  UNCHANGED doc /\ \A t \in Selectors \ {s} : UNCHANGED <<ast[t], trees[t], Taken(t)>>

\* The selector's own step is one of the collector.
CollectorTakes(s) ==
  LET token == doc[Len(doc)]
      held  == FlattenSeq(ast[s].nodes)
      wants == token.kind # "close" /\ (held # <<>> \/ (token.kind = "open" /\ s \in token.classOf))
  IN  /\ Len(doc) \in Nat /\ Taken(s) = Len(doc) - 1 /\ Taken(s)' = Len(doc)
      /\ UNCHANGED doc
      /\ \/ /\ wants
            /\ FlattenSeq(ast'[s].nodes) = Append(held, [name |-> token.name, at |-> Len(doc)])
            /\ trees'[s] = trees[s]
         \/ /\ ~wants
            /\ FlattenSeq(ast'[s].nodes) = held /\ trees'[s] = trees[s]
         \/ /\ token.kind = "close" /\ held # <<>>
            /\ trees'[s] = Append(trees[s], held) /\ FlattenSeq(ast'[s].nodes) = <<>>

LEMMA CollectorTakesTake ==
  ASSUME NEW s \in Selectors, CollectorTakes(s)
  PROVE  Collector(s)!Take
<1>1. /\ Len(doc) \in Nat /\ Taken(s) = Len(doc) - 1 /\ Taken(s)' = Len(doc)
      /\ Taken(s) + 1 = Len(doc) /\ Taken(s) < Len(doc)
  BY DEF CollectorTakes
<1>2. PICK n : n = Taken(s) /\ n < Len(doc) /\ n + 1 = Len(doc) /\ Taken(s)' = n + 1
  BY <1>1
<1>3. (IF s \in wg THEN Len(doc) - 1 ELSE Len(doc)) = n
      /\ (IF s \in wg THEN Len(doc) - 1 ELSE Len(doc))' = n + 1
  BY <1>2 DEF Taken
<1> QED BY <1>2, <1>3 DEF CollectorTakes, Collector!Take, Collector!Wanted, Collector!Node

LEMMA OnOpenStep ==
  ASSUME ParserInv, NEW s \in Selectors, OnOpen(s)
  PROVE  ParserInv' /\ CollectorTakes(s) /\ OthersStay(s)
<1> DEFINE b == AppendOpenTag(ast[s], CurrentNode)
           starts == IsBuilding(ast[s]) \/ s \in Last(doc).classOf
           g == IF starts THEN b ELSE ast[s]
<1>1. /\ s \in wg /\ Last(doc).kind = "open" /\ wg' = wg \ {s} /\ UNCHANGED <<doc, ended>>
      /\ ast' = IF starts THEN [ast EXCEPT ![s] = b] ELSE ast
      /\ trees' = trees
  BY DEF OnOpen, Handles
<1>2. /\ Len(doc) \in Nat /\ Last(doc) = doc[Len(doc)]
      /\ CurrentNode = [name |-> doc[Len(doc)].name, at |-> Len(doc)]
  BY <1>1, CurrentNodeType DEF CurrentNode
<1>3. /\ ast \in [Selectors -> Generator] /\ trees \in [Selectors -> Seq(Seq(Node))]
      /\ Sound(ast[s]) /\ (IsBuilding(ast[s]) => ast[s].rootNode.at <= Taken(s))
  BY DEF ParserInv, SelectorInv
<1>4. /\ Sound(b) /\ IsBuilding(b) /\ b.rootNode.at <= Len(doc)
      /\ FlattenSeq(b.nodes) = Append(FlattenSeq(ast[s].nodes), CurrentNode)
  BY <1>1, AppendsCurrent
<1> HIDE DEF b
<1>5. Sound(g) /\ (IsBuilding(g) => g.rootNode.at <= Len(doc))
  BY <1>1, <1>2, <1>3, <1>4
<1>6. ast' = [ast EXCEPT ![s] = g] /\ trees' = [trees EXCEPT ![s] = trees[s]]
      /\ trees[s] \in Seq(Seq(Node))
  BY <1>1, <1>3
<1>7. FlattenSeq(g.nodes) = IF starts THEN Append(FlattenSeq(ast[s].nodes), CurrentNode)
                            ELSE FlattenSeq(ast[s].nodes)
  BY <1>4
<1>8. IsBuilding(ast[s]) <=> FlattenSeq(ast[s].nodes) # <<>>
  BY <1>3, PendingIsCollected
<1> HIDE DEF g
<1>9. /\ ParserInv'
      /\ ast'[s] = g /\ trees'[s] = trees[s] /\ Taken(s)' = Taken(s) + 1
      /\ Taken(s) + 1 = Len(doc)
      /\ \A t \in Selectors \ {s} : UNCHANGED <<ast[t], trees[t], Taken(t)>>
  BY <1>1, <1>5, <1>6, OwnSelector
<1>10. OthersStay(s)
  BY <1>1, <1>9 DEF OthersStay
<1>11. Taken(s) = Len(doc) - 1 /\ Taken(s)' = Len(doc)
  BY <1>1, <1>2, <1>9 DEF Taken
<1>12. CollectorTakes(s)
  BY <1>1, <1>2, <1>7, <1>8, <1>9, <1>11 DEF CollectorTakes
<1> QED BY <1>9, <1>10, <1>12

LEMMA OnTextStep ==
  ASSUME ParserInv, NEW s \in Selectors, OnText(s)
  PROVE  ParserInv' /\ CollectorTakes(s) /\ OthersStay(s)
<1> DEFINE b == AppendOpenTag(ast[s], CurrentNode)
           adds == HasPendingNode(ast[s])
           g == IF adds THEN b ELSE ast[s]
<1>1. /\ s \in wg /\ Last(doc).kind = "text" /\ wg' = wg \ {s} /\ UNCHANGED <<doc, ended>>
      /\ ast' = IF adds THEN [ast EXCEPT ![s] = b] ELSE ast
      /\ trees' = trees
  BY DEF OnText, Handles
<1>2. /\ Len(doc) \in Nat /\ Last(doc) = doc[Len(doc)]
      /\ CurrentNode = [name |-> doc[Len(doc)].name, at |-> Len(doc)]
  BY <1>1, CurrentNodeType DEF CurrentNode
<1>3. /\ ast \in [Selectors -> Generator] /\ trees \in [Selectors -> Seq(Seq(Node))]
      /\ Sound(ast[s]) /\ (IsBuilding(ast[s]) => ast[s].rootNode.at <= Taken(s))
  BY DEF ParserInv, SelectorInv
<1>4. /\ Sound(b) /\ IsBuilding(b) /\ b.rootNode.at <= Len(doc)
      /\ FlattenSeq(b.nodes) = Append(FlattenSeq(ast[s].nodes), CurrentNode)
  BY <1>1, AppendsCurrent
<1>5. IsBuilding(ast[s]) <=> adds
  BY <1>3, PendingIsCollected
<1> HIDE DEF b
<1>6. Sound(g) /\ (IsBuilding(g) => g.rootNode.at <= Len(doc))
  BY <1>1, <1>2, <1>3, <1>4, <1>5
<1>7. ast' = [ast EXCEPT ![s] = g] /\ trees' = [trees EXCEPT ![s] = trees[s]]
      /\ trees[s] \in Seq(Seq(Node))
  BY <1>1, <1>3
<1>8. FlattenSeq(g.nodes) = IF adds THEN Append(FlattenSeq(ast[s].nodes), CurrentNode)
                            ELSE FlattenSeq(ast[s].nodes)
  BY <1>4
<1>9. adds <=> FlattenSeq(ast[s].nodes) # <<>>
  BY <1>3, PendingIsCollected
<1> HIDE DEF g
<1>10. /\ ParserInv'
       /\ ast'[s] = g /\ trees'[s] = trees[s] /\ Taken(s)' = Taken(s) + 1
       /\ Taken(s) + 1 = Len(doc)
       /\ \A t \in Selectors \ {s} : UNCHANGED <<ast[t], trees[t], Taken(t)>>
  BY <1>1, <1>6, <1>7, OwnSelector
<1>11. OthersStay(s)
  BY <1>1, <1>10 DEF OthersStay
<1>12. Taken(s) = Len(doc) - 1 /\ Taken(s)' = Len(doc)
  BY <1>1, <1>2, <1>10 DEF Taken
<1>13. CollectorTakes(s)
  BY <1>1, <1>2, <1>8, <1>9, <1>10, <1>12 DEF CollectorTakes
<1> QED BY <1>10, <1>11, <1>13

LEMMA OnCloseStep ==
  ASSUME ParserInv, NEW s \in Selectors, OnClose(s)
  PROVE  ParserInv' /\ CollectorTakes(s) /\ OthersStay(s)
<1> DEFINE c == CloseTag(ast[s], Last(doc).name)
           closes == HasPendingNode(ast[s])
           g == IF closes THEN c.ast ELSE ast[s]
           given == IF closes /\ c.tree # <<>> THEN Append(trees[s], c.tree) ELSE trees[s]
           held == FlattenSeq(ast[s].nodes)
<1>1. /\ s \in wg /\ Last(doc).kind = "close" /\ wg' = wg \ {s} /\ UNCHANGED <<doc, ended>>
      /\ ast' = IF closes THEN [ast EXCEPT ![s] = c.ast] ELSE ast
      /\ trees' = IF closes /\ c.tree # <<>> THEN [trees EXCEPT ![s] = Append(@, c.tree)]
                  ELSE trees
  BY DEF OnClose, Handles
<1>2. Len(doc) \in Nat /\ Last(doc) = doc[Len(doc)] /\ Last(doc).name \in Names
  BY <1>1, CurrentNodeType
<1>3. /\ ast \in [Selectors -> Generator] /\ trees \in [Selectors -> Seq(Seq(Node))]
      /\ Sound(ast[s]) /\ (IsBuilding(ast[s]) => ast[s].rootNode.at <= Taken(s))
      /\ trees[s] \in Seq(Seq(Node))
  BY DEF ParserInv, SelectorInv
<1>4. /\ IsBuilding(ast[s]) <=> closes
      /\ closes <=> held # <<>>
      /\ held \in Seq(Node)
  BY <1>3, PendingIsCollected
<1>5. Taken(s) = Len(doc) - 1
  BY <1>1 DEF Taken
<1>6. closes =>
        /\ Sound(c.ast)
        /\ \/ /\ c.tree = <<>> /\ c.ast.rootNode = ast[s].rootNode
              /\ FlattenSeq(c.ast.nodes) = held
           \/ c.tree = held /\ c.tree \in Entries /\ c.ast = EmptyAst
  BY <1>2, <1>3, CloseTagSound
<1>7. FlattenSeq(EmptyAst.nodes) = <<>> /\ ~IsBuilding(EmptyAst)
  BY EmptyIsSound DEF EmptyAst, IsBuilding
<1> HIDE DEF c, held, closes
<1>8. Sound(g) /\ (IsBuilding(g) => g.rootNode.at <= Len(doc))
  <2>1. IsBuilding(ast[s]) => ast[s].rootNode.at <= Len(doc)
    <3>1. SUFFICES ASSUME IsBuilding(ast[s]) PROVE ast[s].rootNode.at <= Len(doc)
      OBVIOUS
    <3>2. ast[s].rootNode \in Node
      BY <1>3, <3>1 DEF Sound, Generator, IsBuilding
    <3>3. ast[s].rootNode.at \in Nat
      BY <3>2, NodesAreNotNone
    <3> QED BY <1>2, <1>3, <1>5, <3>1, <3>3
  <2>2. CASE ~closes
    BY <1>3, <2>1, <2>2
  <2>3. CASE closes /\ c.ast = EmptyAst
    BY <1>6, <1>7, <2>3
  <2>4. CASE closes /\ c.ast.rootNode = ast[s].rootNode
    BY <1>6, <2>1, <2>4 DEF IsBuilding
  <2> QED BY <1>6, <2>2, <2>3, <2>4
<1>9. given \in Seq(Seq(Node))
  BY <1>3, <1>6, AppendProperties DEF Entries
<1>10. ast' = [ast EXCEPT ![s] = g] /\ trees' = [trees EXCEPT ![s] = given]
  BY <1>1, <1>3
<1>11. \/ FlattenSeq(g.nodes) = held /\ given = trees[s]
       \/ held # <<>> /\ given = Append(trees[s], held) /\ FlattenSeq(g.nodes) = <<>>
  <2>1. CASE ~closes
    BY <2>1 DEF held
  <2>2. CASE closes
    BY <1>4, <1>6, <1>7, <2>2
  <2> QED BY <2>1, <2>2
<1> HIDE DEF g, given
<1>12. /\ ParserInv'
       /\ ast'[s] = g /\ trees'[s] = given /\ Taken(s)' = Taken(s) + 1
       /\ Taken(s) + 1 = Len(doc)
       /\ \A t \in Selectors \ {s} : UNCHANGED <<ast[t], trees[t], Taken(t)>>
  BY <1>1, <1>8, <1>9, <1>10, OwnSelector
<1>13. OthersStay(s)
  BY <1>1, <1>12 DEF OthersStay
<1>14. Taken(s)' = Len(doc)
  BY <1>12
<1>15. CollectorTakes(s)
  BY <1>1, <1>2, <1>5, <1>11, <1>12, <1>14 DEF CollectorTakes, held
<1> QED BY <1>12, <1>13, <1>15

\* A selector that has taken every token waits for the next one.
LEMMA NextTokenStep ==
  ASSUME ParserInv, NEW t \in Tokens, NextToken(t)
  PROVE  ParserInv' /\ \A s \in Selectors : Collector(s)!Read(t)
<1>1. /\ wg = {} /\ Len(doc) < MaxTokens /\ doc' = Append(doc, t) /\ wg' = Selectors
      /\ UNCHANGED <<ast, trees, ended>>
  BY DEF NextToken
<1>2. /\ doc \in Seq(Tokens) /\ ended \in BOOLEAN
      /\ \A s \in Selectors : SelectorInv(s)
  BY DEF ParserInv, DocumentInv
<1>3. doc' \in Seq(Tokens) /\ Len(doc') = Len(doc) + 1 /\ doc' # <<>> /\ Len(doc) \in Nat
  BY <1>1, <1>2, AppendProperties, LenProperties, EmptySeq
<1>4. DocumentInv'
  BY <1>1, <1>2, <1>3, ParserAssumption DEF DocumentInv
<1>5. \A s \in Selectors : Taken(s) = Len(doc) /\ Taken(s)' = Len(doc)
  BY <1>1, <1>3 DEF Taken
<1>6. ASSUME NEW s \in Selectors PROVE SelectorInv(s)'
  BY <1>1, <1>2, <1>5 DEF SelectorInv
<1>7. ParserInv'
  BY <1>1, <1>4, <1>6 DEF ParserInv
<1>8. ASSUME NEW s \in Selectors PROVE Collector(s)!Read(t)
  BY <1>1, <1>5 DEF Collector!Read, Taken
<1> QED BY <1>7, <1>8

LEMMA EndOfFileStep ==
  ASSUME ParserInv, EndOfFile
  PROVE  ParserInv' /\ UNCHANGED <<doc, wg, ast, trees>>
BY DEF EndOfFile, ParserInv, DocumentInv, SelectorInv, Taken

LEMMA InitSound == Init => ParserInv
<1> SUFFICES ASSUME Init PROVE ParserInv
  OBVIOUS
<1>1. DocumentInv
  <2>1. <<>> \in Seq(Tokens) /\ Len(<<>>) = 0 /\ 0 <= MaxTokens
    BY ParserAssumption
  <2> QED BY <2>1 DEF Init, DocumentInv
<1>2. Sound(EmptyAst) /\ EmptyAst \in Generator /\ ~IsBuilding(EmptyAst)
  BY EmptyIsSound DEF Sound, EmptyAst, IsBuilding
<1>3. \A s \in Selectors : SelectorInv(s)
  BY <1>2 DEF Init, SelectorInv
<1> QED BY <1>1, <1>2, <1>3, EmptySeq DEF Init, ParserInv

\* Every step keeps the invariant and is one of every collector.
LEMMA StepSound ==
  ASSUME ParserInv, [Next]_vars
  PROVE  /\ ParserInv'
         /\ \A s \in Selectors : [Collector(s)!Next]_(Collector(s)!collectorVars)
<1> USE DEF Collector!Next, Collector!collectorVars
<1>1. CASE UNCHANGED vars
  BY <1>1 DEF vars, ParserInv, DocumentInv, SelectorInv, Taken
<1>2. ASSUME NEW t \in Tokens, NextToken(t)
      PROVE  /\ ParserInv'
             /\ \A s \in Selectors : [Collector(s)!Next]_(Collector(s)!collectorVars)
  BY <1>2, NextTokenStep
<1>3. ASSUME NEW s \in Selectors, OnOpen(s) \/ OnText(s) \/ OnClose(s)
      PROVE  /\ ParserInv'
             /\ \A u \in Selectors : [Collector(u)!Next]_(Collector(u)!collectorVars)
  <2>1. ParserInv' /\ CollectorTakes(s) /\ OthersStay(s)
    BY <1>3, OnOpenStep, OnTextStep, OnCloseStep
  <2>2. Collector(s)!Take
    BY <2>1, CollectorTakesTake
  <2>3. ASSUME NEW u \in Selectors, u # s PROVE UNCHANGED Collector(u)!collectorVars
    BY <2>1, <2>3 DEF OthersStay, Taken
  <2> QED BY <2>1, <2>2, <2>3
<1>4. CASE EndOfFile
  BY <1>4, EndOfFileStep
<1> QED BY <1>1, <1>2, <1>3, <1>4 DEF Next

-----------------------------------------------------------------------------
\* The theorems.

LEMMA ParserInvariant == Spec => []ParserInv
<1>1. ParserInv /\ [Next]_vars => ParserInv'
  BY StepSound
<1> QED BY <1>1, InitSound, PTL DEF Spec

\* The stacks of the generators stay well formed: a tree that is being built
\* has its root at the bottom, and nothing is pending without one.
THEOREM TypeCorrect == Spec => []TypeOK
<1>1. ParserInv => TypeOK
  BY DEF ParserInv, DocumentInv, SelectorInv, Sound, Generator, Entries,
         RootedAtBottom, TypeOK
<1> QED BY <1>1, ParserInvariant, PTL

\* CloseTag never ignores the close tag of an element on the stack.
THEOREM OpenTagsCounted == Spec => []OpenTagsAreCounted
<1>1. ParserInv => OpenTagsAreCounted
  BY DEF ParserInv, SelectorInv, Sound, Counted, Named, OpenTagsAreCounted
<1> QED BY <1>1, ParserInvariant, PTL

\* Each selector implements the collector: whatever the document, the trees it
\* hands over hold every open tag and every text since their root.
THEOREM ImplementsCollector == Spec => CollectorSpec
<1>1. Init => \A s \in Selectors : Collector(s)!Init
  BY FlattenEmpty DEF Init, Collector!Init, EmptyAst
<1>2. ParserInv /\ [Next]_vars =>
        [\A s \in Selectors : [Collector(s)!Next]_(Collector(s)!collectorVars)]_vars
  BY StepSound
<1> QED BY <1>1, <1>2, ParserInvariant, PTL DEF Spec, CollectorSpec

-----------------------------------------------------------------------------
\* Documents: which elements are open after so many tokens.

IsElement(d, k) == d[k].kind = "open" /\ d[k].name \notin VoidNames

Elements(d, i, j) == {k \in i .. j : IsElement(d, k)}
Closes(d, i, j) == {k \in i .. j : d[k].kind = "close"}
Depth(d, i, j) == Cardinality(Elements(d, i, j)) - Cardinality(Closes(d, i, j))

\* The elements that are open behind the n-th token.
StillOpen(d, n) ==
  {i \in 1 .. n : IsElement(d, i) /\ \A k \in i .. n : Depth(d, i, k) > 0}

\* The close tag at j ends the element at i.
EndsElement(d, i, j) ==
  /\ i \in 1 .. j - 1 /\ d[i].name = d[j].name
  /\ Depth(d, i, j) = 0 /\ \A k \in i .. j - 1 : Depth(d, i, k) > 0

WellFormedTo(d, n) ==
  \A j \in 1 .. n : d[j].kind = "close" => \E i \in 1 .. j - 1 : EndsElement(d, i, j)

\* Counting is additive.
LEMMA CountsAdd ==
  ASSUME NEW S, NEW T, IsFiniteSet(S), IsFiniteSet(T), S \cap T = {}
  PROVE  /\ IsFiniteSet(S \cup T)
         /\ Cardinality(S \cup T) = Cardinality(S) + Cardinality(T)
         /\ Cardinality(S) \in Nat /\ Cardinality(T) \in Nat
<1>1. Cardinality(S) \in Nat /\ Cardinality(T) \in Nat
  BY FS_CardinalityType
<1>2. Cardinality(S \cup T) = Cardinality(S) + Cardinality(T) - Cardinality(S \cap T)
      /\ IsFiniteSet(S \cup T)
  BY FS_Union
<1>3. Cardinality(S \cap T) = 0
  BY FS_EmptySet
<1> QED BY <1>1, <1>2, <1>3

LEMMA CountsFinite ==
  ASSUME NEW d, NEW i \in Int, NEW j \in Int
  PROVE  /\ IsFiniteSet(Elements(d, i, j)) /\ Cardinality(Elements(d, i, j)) \in Nat
         /\ IsFiniteSet(Closes(d, i, j)) /\ Cardinality(Closes(d, i, j)) \in Nat
<1>1. IsFiniteSet(i .. j)
  BY FS_Interval
<1>2. Elements(d, i, j) \subseteq i .. j /\ Closes(d, i, j) \subseteq i .. j
  BY DEF Elements, Closes
<1> QED BY <1>1, <1>2, FS_Subset, FS_CardinalityType

\* The depth at j is what the tokens up to k and those behind it add.
Adds(d, i, k, j) ==
  /\ Depth(d, i, j) = Depth(d, i, k) + Depth(d, k + 1, j)
  /\ Depth(d, i, j) \in Int /\ Depth(d, i, k) \in Int /\ Depth(d, k + 1, j) \in Int

LEMMA DepthAdds ==
  ASSUME NEW d, NEW i \in Int, NEW k \in Int, NEW j \in Int, i <= k + 1, k <= j
  PROVE  Adds(d, i, k, j)
<1> DEFINE E1 == Elements(d, i, k)
           E2 == Elements(d, k + 1, j)
           C1 == Closes(d, i, k)
           C2 == Closes(d, k + 1, j)
<1>1. Elements(d, i, j) = E1 \cup E2 /\ E1 \cap E2 = {}
  BY DEF Elements
<1>2. Closes(d, i, j) = C1 \cup C2 /\ C1 \cap C2 = {}
  BY DEF Closes
<1>3. k + 1 \in Int
  OBVIOUS
<1>4. IsFiniteSet(E1) /\ IsFiniteSet(E2) /\ IsFiniteSet(C1) /\ IsFiniteSet(C2)
  BY <1>3, CountsFinite
<1> HIDE DEF E1, E2, C1, C2
<1>5. /\ Cardinality(E1 \cup E2) = Cardinality(E1) + Cardinality(E2)
      /\ Cardinality(E1) \in Nat /\ Cardinality(E2) \in Nat
  BY <1>1, <1>4, CountsAdd
<1>6. /\ Cardinality(C1 \cup C2) = Cardinality(C1) + Cardinality(C2)
      /\ Cardinality(C1) \in Nat /\ Cardinality(C2) \in Nat
  BY <1>2, <1>4, CountsAdd
<1>7. /\ Depth(d, i, j) = Cardinality(E1 \cup E2) - Cardinality(C1 \cup C2)
      /\ Depth(d, i, k) = Cardinality(E1) - Cardinality(C1)
      /\ Depth(d, k + 1, j) = Cardinality(E2) - Cardinality(C2)
  BY <1>1, <1>2 DEF Depth, E1, E2, C1, C2
<1> QED BY <1>5, <1>6, <1>7 DEF Adds

\* One token opens or ends one element at most.
LEMMA DepthOfOne ==
  ASSUME NEW d, NEW i, i \in Int
  PROVE  Depth(d, i, i) = IF IsElement(d, i) THEN 1
                          ELSE IF d[i].kind = "close" THEN -1 ELSE 0
<1>1. Elements(d, i, i) = IF IsElement(d, i) THEN {i} ELSE {}
  BY DEF Elements
<1>2. Closes(d, i, i) = IF d[i].kind = "close" THEN {i} ELSE {}
  BY DEF Closes
<1>3. Cardinality({}) = 0 /\ Cardinality({i}) = 1
  BY FS_EmptySet, FS_Singleton
<1>4. IsElement(d, i) => d[i].kind # "close"
  BY DEF IsElement
<1> QED BY <1>1, <1>2, <1>3, <1>4 DEF Depth

LEMMA DepthNext ==
  ASSUME NEW d, NEW i, NEW n, i \in Nat, n \in Nat, i <= n + 1
  PROVE  /\ Depth(d, i, n) \in Int /\ Depth(d, i, n + 1) \in Int
         /\ Depth(d, i, n + 1) = Depth(d, i, n)
              + IF IsElement(d, n + 1) THEN 1
                ELSE IF d[n + 1].kind = "close" THEN -1 ELSE 0
<1>1. PICK m \in Nat : m = n + 1 /\ i <= n + 1 /\ n <= m
  OBVIOUS
<1>2. Adds(d, i, n, m)
  BY <1>1, DepthAdds
<1>3. Depth(d, m, m) = IF IsElement(d, m) THEN 1
                       ELSE IF d[m].kind = "close" THEN -1 ELSE 0
  BY <1>1, DepthOfOne
<1> QED BY <1>1, <1>2, <1>3 DEF Adds

\* A token that opens an element adds it to those that are open.
LEMMA OpenNext ==
  ASSUME NEW d, NEW n, n \in Nat, d[n + 1].kind # "close"
  PROVE  StillOpen(d, n + 1) = IF IsElement(d, n + 1) THEN StillOpen(d, n) \cup {n + 1}
                               ELSE StillOpen(d, n)
<1>1. ASSUME NEW i \in 1 .. n + 1
      PROVE  i \in StillOpen(d, n + 1) <=>
               IF i = n + 1 THEN IsElement(d, n + 1) ELSE i \in StillOpen(d, n)
  <2>1. i \in Nat /\ i <= n + 1 /\ n + 1 \in Nat
    OBVIOUS
  <2>2. /\ Depth(d, i, n) \in Int
        /\ Depth(d, i, n + 1) = Depth(d, i, n) + IF IsElement(d, n + 1) THEN 1 ELSE 0
    BY <2>1, DepthNext
  <2>3. CASE i = n + 1
    <3>1. IsElement(d, i) => Depth(d, i, i) > 0
      BY <2>1, DepthOfOne
    <3> QED BY <2>1, <2>3, <3>1 DEF StillOpen
  <2>4. CASE i # n + 1
    <3>1. n \in i .. n /\ i \in 1 .. n /\ \A k : k \in i .. n + 1 <=> k \in i .. n \/ k = n + 1
      BY <2>1, <2>4
    <3>2. Depth(d, i, n) > 0 => Depth(d, i, n + 1) > 0
      BY <2>2
    <3> QED BY <2>4, <3>1, <3>2 DEF StillOpen
  <2> QED BY <2>3, <2>4
<1>2. StillOpen(d, n + 1) \subseteq 1 .. n + 1 /\ StillOpen(d, n) \subseteq 1 .. n
  BY DEF StillOpen
<1>3. n + 1 \in 1 .. n + 1 /\ n + 1 \notin 1 .. n /\ 1 .. n \subseteq 1 .. n + 1
  OBVIOUS
<1> QED BY <1>1, <1>2, <1>3

\* The element that a close tag ends is the innermost one.
LEMMA CloseNext ==
  ASSUME NEW d, NEW n, NEW i, n \in Nat, d[n + 1].kind = "close", EndsElement(d, i, n + 1)
  PROVE  /\ i \in StillOpen(d, n) /\ \A x \in StillOpen(d, n) : x <= i
         /\ StillOpen(d, n + 1) = StillOpen(d, n) \ {i}
         /\ d[i].kind = "open" /\ d[i].name \notin VoidNames /\ d[i].name = d[n + 1].name
<1>1. /\ i \in 1 .. n /\ i \in Nat /\ n \in i .. n /\ i \in i .. n /\ n + 1 \in Nat
      /\ Depth(d, i, n + 1) = 0 /\ \A k \in i .. n : Depth(d, i, k) > 0
      /\ d[i].name = d[n + 1].name
  BY DEF EndsElement
<1>2. IsElement(d, i)
  BY <1>1, DepthOfOne
<1>3. ~ IsElement(d, n + 1)
  BY DEF IsElement
<1>4. i \in StillOpen(d, n)
  BY <1>1, <1>2 DEF StillOpen
<1>5. Depth(d, i, n) = 1 /\ Depth(d, i, n) \in Int
  <2>1. i <= n + 1
    BY <1>1
  <2>2. /\ Depth(d, i, n) \in Int
        /\ Depth(d, i, n + 1) = Depth(d, i, n) + IF IsElement(d, n + 1) THEN 1
             ELSE IF d[n + 1].kind = "close" THEN -1 ELSE 0
    BY <1>1, <2>1, DepthNext
  <2> QED BY <1>1, <1>3, <2>2
<1>6. ASSUME NEW x \in StillOpen(d, n), x > i PROVE FALSE
  <2>1. x \in 1 .. n /\ \A k \in x .. n : Depth(d, x, k) > 0
    BY DEF StillOpen
  <2>2. PICK y \in Nat : y = x - 1 /\ x = y + 1 /\ y \in i .. n
    BY <1>1, <1>6, <2>1
  <2>3. Depth(d, y + 1, n) > 0
    BY <2>1, <2>2
  <2>4. Adds(d, i, y, n)
    <3>1. i \in Int /\ y \in Int /\ n \in Int /\ i <= y + 1 /\ y <= n
      BY <1>1, <2>2
    <3> QED BY <3>1, DepthAdds
  <2>5. Depth(d, i, y) > 0
    BY <1>1, <2>2
  <2> QED BY <1>5, <2>3, <2>4, <2>5 DEF Adds
<1>7. \A x \in StillOpen(d, n) : x <= i
  <2>1. \A x \in StillOpen(d, n) : x \in Nat
    BY DEF StillOpen
  <2> QED BY <1>1, <1>6, <2>1
<1>8. ASSUME NEW x \in StillOpen(d, n), x # i
      PROVE  x \in StillOpen(d, n + 1)
  <2>1. x \in 1 .. n /\ IsElement(d, x) /\ \A k \in x .. n : Depth(d, x, k) > 0
    BY DEF StillOpen
  <2>2. PICK y \in Nat : y = i - 1 /\ i = y + 1 /\ y \in x .. n
    BY <1>1, <1>7, <1>8, <2>1
  <2>3. Adds(d, x, y, n + 1)
    <3>1. x \in Int /\ y \in Int /\ n + 1 \in Int /\ x <= y + 1 /\ y <= n + 1
      BY <1>1, <2>1, <2>2
    <3> QED BY <3>1, DepthAdds
  <2>4. Depth(d, x, n + 1) > 0
    BY <1>1, <2>1, <2>2, <2>3 DEF Adds
  <2>5. \A k \in x .. n + 1 : k \in x .. n \/ k = n + 1
    BY <2>1
  <2>6. x \in 1 .. n + 1
    BY <2>1
  <2> QED BY <2>1, <2>4, <2>5, <2>6 DEF StillOpen
<1>9. ASSUME NEW x \in StillOpen(d, n + 1)
      PROVE  x \in StillOpen(d, n) /\ x # i
  <2>1. x \in 1 .. n + 1 /\ IsElement(d, x) /\ \A k \in x .. n + 1 : Depth(d, x, k) > 0
    BY DEF StillOpen
  <2>2. x # n + 1 /\ x \in 1 .. n /\ x .. n \subseteq x .. n + 1 /\ n + 1 \in x .. n + 1
    BY <1>3, <2>1
  <2>3. x # i
    BY <1>1, <2>1, <2>2
  <2> QED BY <2>1, <2>2, <2>3 DEF StillOpen
<1>10. StillOpen(d, n + 1) = StillOpen(d, n) \ {i}
  BY <1>8, <1>9
<1> QED BY <1>1, <1>2, <1>4, <1>7, <1>10 DEF IsElement

-----------------------------------------------------------------------------
\* The stack and the document.  h are the nodes its m entries start with, and t
\* its counters.

\* No tag has the name of the texts.
TextApart == \A t \in Tokens : t.name = TextName => t.kind = "text"

\* The names of the elements that are closed.
Closable == Names \ (VoidNames \cup {TextName})

\* The first n tokens.
Document(d, n) ==
  \A j \in 1 .. n : /\ d[j].name \in Names
                    /\ d[j].kind \in {"open", "close", "text"}
                    /\ d[j].kind = "text" <=> d[j].name = TextName

Tags(d, kind, name, i, j) == {k \in i .. j : d[k].kind = kind /\ d[k].name = name}

HeadsNamed(h, m, name) == {k \in 1 .. m : h[k].name = name}

\* The entries are in document order, above an element or a void one.
InOrder(d, n, h, m) ==
  /\ \A k \in 1 .. m : /\ h[k].at \in 1 .. n /\ h[k].name = d[h[k].at].name
                       /\ d[h[k].at].kind # "close"
  /\ \A j, k \in 1 .. m : j < k => h[j].at < h[k].at
  /\ d[h[1].at].kind = "open"

\* The elements among them are those that are open, from the root on.
HoldsOpen(d, n, h, m) ==
  \A i \in h[1].at .. n :
    i \in StillOpen(d, n) <=> IsElement(d, i) /\ \E k \in 1 .. m : h[k].at = i

\* The counters are exact, but for the names that are never closed.
Exact(h, m, t) ==
  \A name \in Closable : t[name] = Cardinality(HeadsNamed(h, m, name))

\* The counter of the root's name is how many of them were opened and not closed
\* since the root was.
RootCounted(d, n, h, t) ==
  h[1].name \in Closable =>
    Cardinality(Tags(d, "open", h[1].name, h[1].at, n))
      = Cardinality(Tags(d, "close", h[1].name, h[1].at, n)) + t[h[1].name]

Mirrors(d, n, h, m, t) ==
  m > 0 /\ InOrder(d, n, h, m) /\ HoldsOpen(d, n, h, m) /\ Exact(h, m, t)
        /\ RootCounted(d, n, h, t)

\* The entries that two stacks start with, and one more or less of a name.
SameEntries(g, h, m) == \A k \in 1 .. m : g[k] = h[k]

CountUp(t, name) == [t EXCEPT ![name] = @ + 1]
CountDown(t, name) == [t EXCEPT ![name] = @ - 1]

\* One more token.
TagsGrow(d, kind, name, i, n) ==
  /\ Cardinality(Tags(d, kind, name, i, n)) \in Nat
  /\ Cardinality(Tags(d, kind, name, i, n + 1))
       = Cardinality(Tags(d, kind, name, i, n))
           + IF d[n + 1].kind = kind /\ d[n + 1].name = name THEN 1 ELSE 0

LEMMA TagsFinite ==
  ASSUME NEW d, NEW kind, NEW name, NEW i \in Nat, NEW n \in Nat
  PROVE  /\ IsFiniteSet(Tags(d, kind, name, i, n))
         /\ Cardinality(Tags(d, kind, name, i, n)) \in Nat
<1>1. IsFiniteSet(i .. n) /\ Tags(d, kind, name, i, n) \subseteq i .. n
  BY FS_Interval DEF Tags
<1> QED BY <1>1, FS_Subset, FS_CardinalityType

LEMMA TagsNext ==
  ASSUME NEW d, NEW kind, NEW name, NEW i \in Nat, NEW n \in Nat, i <= n + 1
  PROVE  TagsGrow(d, kind, name, i, n)
<1> DEFINE S == Tags(d, kind, name, i, n)
           hit == d[n + 1].kind = kind /\ d[n + 1].name = name
<1>1. IsFiniteSet(S) /\ Cardinality(S) \in Nat
  BY TagsFinite
<1>2. n + 1 \notin S
  BY DEF Tags
<1>3. Tags(d, kind, name, i, n + 1) = IF hit THEN S \cup {n + 1} ELSE S
  BY DEF Tags
<1> HIDE DEF S
<1>4. Cardinality(S \cup {n + 1}) = Cardinality(S) + 1
  BY <1>1, <1>2, FS_AddElement
<1> QED BY <1>1, <1>3, <1>4 DEF TagsGrow, S

LEMMA TagsNone ==
  ASSUME NEW d, NEW kind, NEW name, NEW n \in Nat
  PROVE  Cardinality(Tags(d, kind, name, n + 1, n)) = 0
<1>1. Tags(d, kind, name, n + 1, n) = {}
  BY DEF Tags
<1> QED BY <1>1, FS_EmptySet

LEMMA HeadsFinite ==
  ASSUME NEW h, NEW m \in Nat, NEW name
  PROVE  /\ IsFiniteSet(HeadsNamed(h, m, name))
         /\ Cardinality(HeadsNamed(h, m, name)) \in Nat
<1>1. IsFiniteSet(1 .. m) /\ HeadsNamed(h, m, name) \subseteq 1 .. m
  BY FS_Interval DEF HeadsNamed
<1> QED BY <1>1, FS_Subset, FS_CardinalityType

\* What is not closed behind the first n tokens is an element or a text, or void.
LEMMA ClosableAreElements ==
  ASSUME NEW d, NEW n \in Nat, Document(d, n), NEW i \in 1 .. n,
         d[i].kind # "close", d[i].name \in Closable
  PROVE  IsElement(d, i)
BY DEF Document, Closable, IsElement

\* A selected open tag starts the stack.
LEMMA StartMirrors ==
  ASSUME NEW d, NEW n \in Nat, Document(d, n + 1), d[n + 1].kind = "open",
         NEW h, h[1].at = n + 1, h[1].name = d[n + 1].name,
         NEW t, t = [[x \in Names |-> 0] EXCEPT ![d[n + 1].name] = 1]
  PROVE  Mirrors(d, n + 1, h, 1, t)
<1> DEFINE name == d[n + 1].name
<1>1. n + 1 \in 1 .. n + 1 /\ name \in Names /\ \A i \in n + 1 .. n + 1 : i = n + 1
  BY DEF Document
<1>2. InOrder(d, n + 1, h, 1)
  <2>1. \A k \in 1 .. 1 : k = 1
    OBVIOUS
  <2> QED BY <1>1, <2>1 DEF InOrder
<1>3. HoldsOpen(d, n + 1, h, 1)
  <2>1. n + 1 \in StillOpen(d, n + 1) <=> IsElement(d, n + 1)
    <3>1. n + 1 \notin StillOpen(d, n)
      BY DEF StillOpen
    <3> QED BY <3>1, OpenNext
  <2>2. 1 \in 1 .. 1
    OBVIOUS
  <2> QED BY <1>1, <2>1, <2>2 DEF HoldsOpen
<1>4. \A x \in Names : t[x] = IF x = name THEN 1 ELSE 0
  BY <1>1
<1>5. Exact(h, 1, t)
  <2>1. SUFFICES ASSUME NEW x \in Names PROVE t[x] = Cardinality(HeadsNamed(h, 1, x))
    BY DEF Exact, Closable
  <2>2. HeadsNamed(h, 1, x) = IF x = name THEN {1} ELSE {}
    BY DEF HeadsNamed
  <2>3. Cardinality({1}) = 1 /\ Cardinality({}) = 0
    BY FS_EmptySet, FS_Singleton
  <2> QED BY <1>4, <2>2, <2>3
<1>6. RootCounted(d, n + 1, h, t)
  <2>1. /\ TagsGrow(d, "open", name, n + 1, n) /\ TagsGrow(d, "close", name, n + 1, n)
        /\ Cardinality(Tags(d, "open", name, n + 1, n)) = 0
        /\ Cardinality(Tags(d, "close", name, n + 1, n)) = 0
    BY TagsNext, TagsNone
  <2>2. /\ Cardinality(Tags(d, "open", name, n + 1, n + 1)) = 1
        /\ Cardinality(Tags(d, "close", name, n + 1, n + 1)) = 0
    BY <2>1 DEF TagsGrow
  <2> QED BY <1>1, <1>4, <2>2 DEF RootCounted
<1> QED BY <1>2, <1>3, <1>5, <1>6 DEF Mirrors

\* An open tag or a text becomes an entry.
LEMMA PushMirrors ==
  ASSUME NEW d, NEW n \in Nat, Document(d, n + 1), d[n + 1].kind # "close",
         NEW h, NEW m \in Nat, NEW t \in [Names -> Nat], Mirrors(d, n, h, m, t),
         NEW g, SameEntries(g, h, m),
         g[m + 1].at = n + 1, g[m + 1].name = d[n + 1].name,
         NEW u, u = CountUp(t, d[n + 1].name)
  PROVE  Mirrors(d, n + 1, g, m + 1, u)
<1> DEFINE name == d[n + 1].name
<1>1. /\ m > 0 /\ InOrder(d, n, h, m) /\ HoldsOpen(d, n, h, m) /\ Exact(h, m, t)
      /\ RootCounted(d, n, h, t)
  BY DEF Mirrors
<1>2. /\ name \in Names /\ 1 \in 1 .. m /\ g[1] = h[1] /\ m + 1 \in 1 .. m + 1
      /\ \A k \in 1 .. m + 1 : k \in 1 .. m \/ k = m + 1
      /\ 1 .. m \subseteq 1 .. m + 1 /\ \A k \in 1 .. m : g[k] = h[k]
  BY <1>1 DEF Document, SameEntries
<1>3. /\ \A k \in 1 .. m : g[k].at \in 1 .. n /\ g[k].name = d[g[k].at].name
                           /\ d[g[k].at].kind # "close" /\ g[k].at < n + 1
      /\ \A j, k \in 1 .. m : j < k => g[j].at < g[k].at
      /\ d[g[1].at].kind = "open" /\ g[1].at \in 1 .. n
  BY <1>1, <1>2 DEF InOrder
<1>4. InOrder(d, n + 1, g, m + 1)
  <2>1. \A k \in 1 .. m + 1 : /\ g[k].at \in 1 .. n + 1 /\ g[k].name = d[g[k].at].name
                              /\ d[g[k].at].kind # "close"
    BY <1>2, <1>3
  <2>2. ASSUME NEW j \in 1 .. m + 1, NEW k \in 1 .. m + 1, j < k
        PROVE  g[j].at < g[k].at
    <3>1. j \in 1 .. m
      BY <1>2, <2>2
    <3> QED BY <1>2, <1>3, <2>2, <3>1
  <2> QED BY <1>3, <2>1, <2>2 DEF InOrder
<1>5. HoldsOpen(d, n + 1, g, m + 1)
  <2>1. SUFFICES ASSUME NEW i \in g[1].at .. n + 1
                 PROVE  i \in StillOpen(d, n + 1)
                          <=> IsElement(d, i) /\ \E k \in 1 .. m + 1 : g[k].at = i
    BY DEF HoldsOpen
  <2>2. StillOpen(d, n + 1) = IF IsElement(d, n + 1) THEN StillOpen(d, n) \cup {n + 1}
                              ELSE StillOpen(d, n)
    BY OpenNext
  <2>3. n + 1 \notin StillOpen(d, n)
    BY DEF StillOpen
  <2>4. CASE i = n + 1
    BY <1>2, <2>2, <2>3, <2>4
  <2>5. CASE i # n + 1
    <3>1. i \in h[1].at .. n
      BY <1>2, <1>3, <2>5
    <3>2. (\E k \in 1 .. m + 1 : g[k].at = i) <=> \E k \in 1 .. m : h[k].at = i
      BY <1>2, <2>5
    <3> QED BY <1>1, <2>2, <2>5, <3>1, <3>2 DEF HoldsOpen
  <2> QED BY <2>4, <2>5
<1>6. \A x \in Names : u[x] = IF x = name THEN t[x] + 1 ELSE t[x]
  BY <1>2 DEF CountUp
<1>7. Exact(g, m + 1, u)
  <2>1. SUFFICES ASSUME NEW x \in Closable
                 PROVE  u[x] = Cardinality(HeadsNamed(g, m + 1, x))
    BY DEF Exact
  <2> DEFINE S == HeadsNamed(h, m, x)
  <2>2. x \in Names /\ t[x] = Cardinality(S)
    BY <1>1 DEF Exact, Closable
  <2>3. IsFiniteSet(S) /\ Cardinality(S) \in Nat
    BY HeadsFinite
  <2>4. m + 1 \notin S
    BY DEF HeadsNamed
  <2>5. HeadsNamed(g, m + 1, x) = IF x = name THEN S \cup {m + 1} ELSE S
    BY <1>2 DEF HeadsNamed
  <2> HIDE DEF S
  <2>6. Cardinality(S \cup {m + 1}) = Cardinality(S) + 1
    BY <2>3, <2>4, FS_AddElement
  <2> QED BY <1>6, <2>2, <2>5, <2>6
<1>8. RootCounted(d, n + 1, g, u)
  <2>1. PICK r : r = g[1].name
    OBVIOUS
  <2>2. PICK p : p = g[1].at
    OBVIOUS
  <2>3. SUFFICES ASSUME r \in Closable
                 PROVE  Cardinality(Tags(d, "open", r, p, n + 1))
                          = Cardinality(Tags(d, "close", r, p, n + 1)) + u[r]
    BY <2>1, <2>2 DEF RootCounted
  <2>4. Cardinality(Tags(d, "open", r, p, n)) = Cardinality(Tags(d, "close", r, p, n)) + t[r]
    BY <1>1, <1>2, <2>1, <2>2, <2>3 DEF RootCounted
  <2>5. p \in Nat /\ p <= n + 1 /\ r \in Names /\ r # TextName
    BY <1>3, <2>2, <2>3 DEF Closable
  <2>6. TagsGrow(d, "open", r, p, n) /\ TagsGrow(d, "close", r, p, n)
    BY <2>5, TagsNext
  <2>7. t[r] \in Nat /\ u[r] = IF r = name THEN t[r] + 1 ELSE t[r]
    BY <1>6, <2>5
  <2>8. d[n + 1].kind = "open" \/ name = TextName
    BY DEF Document
  <2> QED BY <2>4, <2>5, <2>6, <2>7, <2>8 DEF TagsGrow
<1> QED BY <1>1, <1>4, <1>5, <1>7, <1>8 DEF Mirrors

-----------------------------------------------------------------------------
\* An entry with a name that is closed stands for an element that is open.
LEMMA EntryIsOpen ==
  ASSUME NEW d, NEW n \in Nat, Document(d, n),
         NEW h, NEW m \in Nat, InOrder(d, n, h, m), HoldsOpen(d, n, h, m),
         NEW k \in 1 .. m, h[k].name \in Closable
  PROVE  h[k].at \in StillOpen(d, n) /\ h[1].at <= h[k].at
<1>1. /\ h[k].at \in 1 .. n /\ h[1].at \in 1 .. n /\ h[k].name = d[h[k].at].name
      /\ d[h[k].at].kind # "close"
      /\ k > 1 => h[1].at < h[k].at
  <2>1. 1 \in 1 .. m
    OBVIOUS
  <2> QED BY <2>1 DEF InOrder
<1>2. IsElement(d, h[k].at)
  <2>1. PICK i \in 1 .. n : i = h[k].at
    BY <1>1
  <2> QED BY <1>1, <2>1, ClosableAreElements
<1>3. h[1].at <= h[k].at /\ h[k].at \in h[1].at .. n
  <2>1. CASE k = 1
    BY <1>1, <2>1
  <2>2. CASE k > 1
    BY <1>1, <2>2
  <2> QED BY <2>1, <2>2
<1> QED BY <1>2, <1>3 DEF HoldsOpen

\* A close tag that ends the element at i.
CloseAt(d, n, i) == Document(d, n + 1) /\ d[n + 1].kind = "close" /\ EndsElement(d, i, n + 1)

LEMMA CloseAtFacts ==
  ASSUME NEW d, NEW n \in Nat, NEW i, CloseAt(d, n, i)
  PROVE  /\ i \in 1 .. n /\ i \in StillOpen(d, n)
         /\ \A x \in StillOpen(d, n) : x \in 1 .. n /\ x <= i
         /\ StillOpen(d, n + 1) = StillOpen(d, n) \ {i}
         /\ IsElement(d, i) /\ d[i].name = d[n + 1].name /\ d[n + 1].name \in Closable
         /\ ~IsElement(d, n + 1) /\ Document(d, n)
<1>1. Document(d, n + 1) /\ d[n + 1].kind = "close" /\ EndsElement(d, i, n + 1)
  BY DEF CloseAt
<1>2. /\ i \in StillOpen(d, n) /\ \A x \in StillOpen(d, n) : x <= i
      /\ StillOpen(d, n + 1) = StillOpen(d, n) \ {i}
      /\ d[i].kind = "open" /\ d[i].name \notin VoidNames /\ d[i].name = d[n + 1].name
  BY <1>1, CloseNext
<1>3. i \in 1 .. n /\ \A x \in StillOpen(d, n) : x \in 1 .. n
  BY <1>2 DEF StillOpen
<1>4. Document(d, n)
  BY <1>1 DEF Document
<1>5. d[i].name \in Closable
  BY <1>2, <1>3, <1>4 DEF Document, Closable
<1> QED BY <1>1, <1>2, <1>3, <1>4, <1>5 DEF IsElement

\* One that began before the root does: the generator does not know its name.
LEMMA IgnoredMirrors ==
  ASSUME NEW d, NEW n \in Nat, NEW i, CloseAt(d, n, i),
         NEW h, NEW m \in Nat, NEW t \in [Names -> Nat], Mirrors(d, n, h, m, t),
         \A k \in 1 .. m : h[k].at # i
  PROVE  t[d[n + 1].name] = 0 /\ Mirrors(d, n + 1, h, m, t)
<1> DEFINE name == d[n + 1].name
<1>1. /\ m > 0 /\ InOrder(d, n, h, m) /\ HoldsOpen(d, n, h, m) /\ Exact(h, m, t)
  BY DEF Mirrors
<1>2. /\ i \in 1 .. n /\ i \in StillOpen(d, n)
      /\ \A x \in StillOpen(d, n) : x \in 1 .. n /\ x <= i
      /\ StillOpen(d, n + 1) = StillOpen(d, n) \ {i}
      /\ name \in Closable /\ ~IsElement(d, n + 1) /\ Document(d, n)
  BY CloseAtFacts
<1>3. 1 \in 1 .. m /\ h[1].at \in 1 .. n
  BY <1>1 DEF InOrder
<1>4. i < h[1].at
  <2>1. SUFFICES ASSUME i \in h[1].at .. n PROVE FALSE
    BY <1>2, <1>3
  <2> QED BY <1>1, <1>2, <2>1 DEF HoldsOpen
<1>5. ASSUME NEW k \in 1 .. m, h[k].name \in Closable PROVE FALSE
  <2>1. h[k].at \in StillOpen(d, n) /\ h[1].at <= h[k].at
    BY <1>1, <1>2, <1>5, EntryIsOpen
  <2>2. PICK x \in StillOpen(d, n) : x = h[k].at /\ h[1].at <= x
    BY <2>1
  <2> QED BY <1>2, <1>3, <1>4, <2>2
<1>6. t[name] = 0
  <2>1. HeadsNamed(h, m, name) = {}
    BY <1>2, <1>5 DEF HeadsNamed
  <2> QED BY <1>1, <1>2, <2>1, FS_EmptySet DEF Exact
<1>7. InOrder(d, n + 1, h, m)
  BY <1>1, <1>3 DEF InOrder
<1>8. HoldsOpen(d, n + 1, h, m)
  <2>1. SUFFICES ASSUME NEW x \in h[1].at .. n + 1
                 PROVE  x \in StillOpen(d, n + 1)
                          <=> IsElement(d, x) /\ \E k \in 1 .. m : h[k].at = x
    BY DEF HoldsOpen
  <2>2. CASE x = n + 1
    BY <1>2, <2>2
  <2>3. CASE x # n + 1
    <3>1. x \in h[1].at .. n /\ x # i
      BY <1>2, <1>3, <1>4, <2>3
    <3> QED BY <1>1, <1>2, <3>1 DEF HoldsOpen
  <2> QED BY <2>2, <2>3
<1>9. RootCounted(d, n + 1, h, t)
  BY <1>3, <1>5 DEF RootCounted
<1> QED BY <1>1, <1>6, <1>7, <1>8, <1>9 DEF Mirrors

\* One that the stack holds: it is the innermost of its name, and counted.
LEMMA InnermostMirrored ==
  ASSUME NEW d, NEW n \in Nat, NEW i, CloseAt(d, n, i),
         NEW h, NEW m \in Nat, NEW t \in [Names -> Nat], Mirrors(d, n, h, m, t),
         NEW j \in 1 .. m, h[j].at = i
  PROVE  /\ h[j].name = d[n + 1].name /\ t[d[n + 1].name] # 0
         /\ \A k \in 1 .. m : k > j => h[k].name \notin Closable
<1> DEFINE name == d[n + 1].name
<1>1. /\ m > 0 /\ InOrder(d, n, h, m) /\ HoldsOpen(d, n, h, m) /\ Exact(h, m, t)
  BY DEF Mirrors
<1>2. /\ \A x \in StillOpen(d, n) : x \in 1 .. n /\ x <= i
      /\ d[i].name = name /\ name \in Closable /\ Document(d, n) /\ i \in 1 .. n
  BY CloseAtFacts
<1>3. h[j].name = name
  BY <1>1, <1>2 DEF InOrder
<1>4. ASSUME NEW k \in 1 .. m, k > j, h[k].name \in Closable PROVE FALSE
  <2>1. h[k].at \in StillOpen(d, n)
    BY <1>1, <1>2, <1>4, EntryIsOpen
  <2>2. i < h[k].at
    BY <1>1, <1>4 DEF InOrder
  <2> QED BY <1>2, <2>1, <2>2
<1>5. t[name] # 0
  <2>1. j \in HeadsNamed(h, m, name)
    BY <1>3 DEF HeadsNamed
  <2>2. Cardinality(HeadsNamed(h, m, name)) # 0
    <3>1. PICK S : S = HeadsNamed(h, m, name)
      OBVIOUS
    <3>2. IsFiniteSet(S) /\ S # {}
      BY <2>1, <3>1, HeadsFinite
    <3> QED BY <3>1, <3>2, FS_EmptySet
  <2> QED BY <1>1, <1>2, <2>2 DEF Exact
<1> QED BY <1>3, <1>4, <1>5

\* It and the entries above it are taken off the stack.
LEMMA PopMirrors ==
  ASSUME NEW d, NEW n \in Nat, NEW i, CloseAt(d, n, i),
         NEW h, NEW m \in Nat, NEW t \in [Names -> Nat], Mirrors(d, n, h, m, t),
         NEW j \in 1 .. m, h[j].at = i, j > 1,
         NEW g, SameEntries(g, h, j - 1),
         NEW u, u = CountDown(t, d[n + 1].name)
  PROVE  Mirrors(d, n + 1, g, j - 1, u)
<1> DEFINE name == d[n + 1].name
<1>1. /\ m > 0 /\ InOrder(d, n, h, m) /\ HoldsOpen(d, n, h, m) /\ Exact(h, m, t)
      /\ RootCounted(d, n, h, t)
  BY DEF Mirrors
<1>2. /\ i \in 1 .. n /\ i \in StillOpen(d, n)
      /\ \A x \in StillOpen(d, n) : x \in 1 .. n /\ x <= i
      /\ StillOpen(d, n + 1) = StillOpen(d, n) \ {i}
      /\ name \in Closable /\ ~IsElement(d, n + 1) /\ Document(d, n)
      /\ d[n + 1].kind = "close"
  BY CloseAtFacts DEF CloseAt
<1>3. /\ h[j].name = name /\ t[name] # 0
      /\ \A k \in 1 .. m : k > j => h[k].name \notin Closable
  BY InnermostMirrored
<1>4. /\ 1 \in 1 .. j - 1 /\ g[1] = h[1] /\ h[1].at \in 1 .. n /\ j - 1 \in Nat
      /\ 1 .. j - 1 \subseteq 1 .. m /\ 1 \in 1 .. m
      /\ \A k \in 1 .. j - 1 : k < j /\ g[k] = h[k]
      /\ \A k \in 1 .. m : k \in 1 .. j - 1 \/ k = j \/ k > j
  <2>1. 1 \in 1 .. j - 1 /\ 1 \in 1 .. m
    OBVIOUS
  <2> QED BY <1>1, <2>1 DEF InOrder, SameEntries
<1>5. /\ \A k \in 1 .. m : /\ h[k].at \in 1 .. n /\ h[k].name = d[h[k].at].name
                           /\ d[h[k].at].kind # "close"
      /\ \A k, l \in 1 .. m : k < l => h[k].at < h[l].at
      /\ d[h[1].at].kind = "open"
  BY <1>1 DEF InOrder
<1>6. InOrder(d, n + 1, g, j - 1)
  <2>1. \A k \in 1 .. j - 1 : /\ g[k].at \in 1 .. n + 1 /\ g[k].name = d[g[k].at].name
                              /\ d[g[k].at].kind # "close"
    BY <1>4, <1>5
  <2>2. \A k, l \in 1 .. j - 1 : k < l => g[k].at < g[l].at
    BY <1>4, <1>5
  <2> QED BY <1>4, <1>5, <2>1, <2>2 DEF InOrder
<1>7. HoldsOpen(d, n + 1, g, j - 1)
  <2>1. SUFFICES ASSUME NEW x \in h[1].at .. n + 1
                 PROVE  x \in StillOpen(d, n + 1)
                          <=> IsElement(d, x) /\ \E k \in 1 .. j - 1 : h[k].at = x
    BY <1>4 DEF HoldsOpen
  <2>2. CASE x = n + 1
    BY <1>2, <2>2
  <2>3. CASE x # n + 1
    <3>1. x \in h[1].at .. n
      BY <1>4, <2>3
    <3>2. x \in StillOpen(d, n) <=> IsElement(d, x) /\ \E k \in 1 .. m : h[k].at = x
      BY <1>1, <3>1 DEF HoldsOpen
    <3>3. ASSUME x \in StillOpen(d, n), x # i
          PROVE  IsElement(d, x) /\ \E k \in 1 .. j - 1 : h[k].at = x
      <4>1. PICK k \in 1 .. m : h[k].at = x
        BY <3>2, <3>3
      <4>2. x < i
        BY <1>2, <3>3
      <4>3. ~ (k > j)
        <5>1. k > j => i < x
          BY <1>5, <4>1
        <5> QED BY <1>2, <3>1, <4>2, <5>1
      <4>4. k # j
        BY <3>3, <4>1
      <4> QED BY <1>4, <3>2, <3>3, <4>1, <4>3, <4>4
    <3>4. ASSUME IsElement(d, x), NEW k \in 1 .. j - 1, h[k].at = x
          PROVE  x \in StillOpen(d, n) /\ x # i
      <4>1. k \in 1 .. m /\ k < j
        BY <1>4
      <4>2. x < i
        BY <1>5, <3>4, <4>1
      <4> QED BY <1>2, <3>1, <3>2, <3>4, <4>1, <4>2
    <3> QED BY <1>2, <3>3, <3>4
  <2> QED BY <2>2, <2>3
<1>8. \A x \in Names : u[x] = IF x = name THEN t[x] - 1 ELSE t[x]
  BY <1>2 DEF Closable, CountDown
<1>9. Exact(g, j - 1, u)
  <2>1. SUFFICES ASSUME NEW x \in Closable
                 PROVE  u[x] = Cardinality(HeadsNamed(g, j - 1, x))
    BY DEF Exact
  <2> DEFINE S == HeadsNamed(h, m, x)
  <2>2. x \in Names /\ t[x] = Cardinality(S)
    BY <1>1 DEF Exact, Closable
  <2>3. IsFiniteSet(S) /\ Cardinality(S) \in Nat
    BY HeadsFinite
  <2>4. HeadsNamed(g, j - 1, x) = IF x = name THEN S \ {j} ELSE S
    BY <1>3, <1>4 DEF HeadsNamed
  <2>5. x = name => j \in S
    BY <1>3 DEF HeadsNamed
  <2> HIDE DEF S
  <2>6. j \in S => Cardinality(S \ {j}) = Cardinality(S) - 1
    BY <2>3, FS_RemoveElement
  <2> QED BY <1>8, <2>2, <2>4, <2>5, <2>6
<1>10. RootCounted(d, n + 1, g, u)
  <2>1. PICK r : r = g[1].name
    OBVIOUS
  <2>2. PICK p : p = g[1].at
    OBVIOUS
  <2>3. SUFFICES ASSUME r \in Closable
                 PROVE  Cardinality(Tags(d, "open", r, p, n + 1))
                          = Cardinality(Tags(d, "close", r, p, n + 1)) + u[r]
    BY <2>1, <2>2 DEF RootCounted
  <2>4. Cardinality(Tags(d, "open", r, p, n)) = Cardinality(Tags(d, "close", r, p, n)) + t[r]
    BY <1>1, <1>4, <2>1, <2>2, <2>3 DEF RootCounted
  <2>5. p \in Nat /\ p <= n + 1 /\ r \in Names
    BY <1>4, <2>2, <2>3 DEF Closable
  <2>6. TagsGrow(d, "open", r, p, n) /\ TagsGrow(d, "close", r, p, n)
    BY <2>5, TagsNext
  <2>7. t[r] \in Nat /\ u[r] = IF r = name THEN t[r] - 1 ELSE t[r]
    BY <1>8, <2>5
  <2> QED BY <1>2, <2>4, <2>6, <2>7 DEF TagsGrow
<1> QED BY <1>4, <1>6, <1>7, <1>9, <1>10 DEF Mirrors

\* The close tag of the root: as many of its name were closed as opened.
Balanced(d, node, n) ==
  Cardinality(Tags(d, "open", node.name, node.at, n))
    = Cardinality(Tags(d, "close", node.name, node.at, n))

LEMMA RootBalanced ==
  ASSUME NEW d, NEW n \in Nat, NEW i, CloseAt(d, n, i),
         NEW h, NEW m \in Nat, NEW t \in [Names -> Nat], Mirrors(d, n, h, m, t),
         h[1].at = i
  PROVE  Balanced(d, h[1], n + 1)
<1> DEFINE r == d[n + 1].name
<1>1. /\ m > 0 /\ Exact(h, m, t) /\ RootCounted(d, n, h, t) /\ 1 \in 1 .. m
  BY DEF Mirrors
<1>2. i \in 1 .. n /\ r \in Closable /\ d[n + 1].kind = "close"
  BY CloseAtFacts DEF CloseAt
<1>3. /\ h[1].name = r
      /\ \A k \in 1 .. m : k > 1 => h[k].name \notin Closable
  <2>1. PICK j \in 1 .. m : j = 1 /\ h[j].at = i
    BY <1>1
  <2>2. h[j].name = r /\ \A k \in 1 .. m : k > j => h[k].name \notin Closable
    BY <2>1, InnermostMirrored
  <2> QED BY <2>1, <2>2
<1>4. HeadsNamed(h, m, r) = {1}
  BY <1>1, <1>2, <1>3 DEF HeadsNamed
<1>5. t[r] = 1
  BY <1>1, <1>2, <1>4, FS_Singleton DEF Exact
<1>6. Cardinality(Tags(d, "open", r, i, n)) = Cardinality(Tags(d, "close", r, i, n)) + t[r]
  BY <1>1, <1>2, <1>3 DEF RootCounted
<1>7. TagsGrow(d, "open", r, i, n) /\ TagsGrow(d, "close", r, i, n)
  BY <1>2, TagsNext
<1>8. Cardinality(Tags(d, "open", r, i, n + 1)) = Cardinality(Tags(d, "close", r, i, n + 1))
  BY <1>2, <1>5, <1>6, <1>7 DEF TagsGrow
<1> QED BY <1>3, <1>8 DEF Balanced

\* While it is on the stack, one more was opened.
LEMMA RootNotBalanced ==
  ASSUME NEW d, NEW n \in Nat, Document(d, n), WellFormedTo(d, n),
         NEW h, NEW m \in Nat, NEW t \in [Names -> Nat], Mirrors(d, n, h, m, t)
  PROVE  ~Balanced(d, h[1], n)
<1> DEFINE r == h[1].name
           p == h[1].at
           opens == Tags(d, "open", r, p, n)
           closes == Tags(d, "close", r, p, n)
<1>1. /\ m > 0 /\ InOrder(d, n, h, m) /\ Exact(h, m, t) /\ RootCounted(d, n, h, t)
      /\ 1 \in 1 .. m
  BY DEF Mirrors
<1>2. p \in 1 .. n /\ d[p].name = r /\ d[p].kind = "open"
  BY <1>1 DEF InOrder
<1>3. /\ IsFiniteSet(opens) /\ Cardinality(opens) \in Nat /\ Cardinality(opens) # 0
  <2>1. p \in opens
    BY <1>2 DEF Tags
  <2>2. IsFiniteSet(opens)
    BY <1>2, TagsFinite
  <2> HIDE DEF opens
  <2>3. opens # {}
    BY <2>1
  <2> QED BY <2>2, <2>3, FS_EmptySet, FS_CardinalityType
<1>4. CASE r \in Closable
  <2>1. Cardinality(opens) = Cardinality(closes) + t[r]
    BY <1>1, <1>4 DEF RootCounted
  <2>2. t[r] = Cardinality(HeadsNamed(h, m, r))
    BY <1>1, <1>4 DEF Exact
  <2>3. t[r] # 0 /\ t[r] \in Nat
    <3>1. PICK S : S = HeadsNamed(h, m, r)
      OBVIOUS
    <3>2. IsFiniteSet(S) /\ 1 \in S
      <4>1. 1 \in HeadsNamed(h, m, r)
        BY <1>1 DEF HeadsNamed
      <4> QED BY <3>1, <4>1, HeadsFinite
    <3>3. r \in Names
      BY <1>4 DEF Closable
    <3> QED BY <2>2, <3>1, <3>2, <3>3, FS_EmptySet
  <2>4. Cardinality(closes) \in Nat
    BY <1>2, TagsFinite
  <2> QED BY <2>1, <2>3, <2>4 DEF Balanced
<1>5. CASE r \notin Closable
  <2>1. r \in VoidNames
    BY <1>2, <1>5 DEF Document, Closable
  <2>2. closes = {}
    <3>1. SUFFICES ASSUME NEW j \in closes PROVE FALSE
      OBVIOUS
    <3>2. j \in 1 .. n /\ d[j].kind = "close" /\ d[j].name = r
      BY <1>2, <3>1 DEF Tags
    <3>3. PICK i \in 1 .. j - 1 : EndsElement(d, i, j)
      BY <3>2 DEF WellFormedTo
    <3>4. PICK l \in Nat : l + 1 = j
      BY <3>2
    <3>5. d[l + 1].kind = "close" /\ EndsElement(d, i, l + 1) /\ d[l + 1].name = r
      BY <3>2, <3>3, <3>4
    <3>6. d[i].name \notin VoidNames /\ d[i].name = d[l + 1].name
      <4> HIDE DEF opens, closes, r, p
      <4> QED BY <3>4, <3>5, CloseNext
    <3> QED BY <2>1, <3>5, <3>6
  <2>3. Cardinality(closes) = 0
    BY <2>2, FS_EmptySet
  <2> QED BY <1>3, <2>3 DEF Balanced
<1> QED BY <1>4, <1>5

-----------------------------------------------------------------------------
\* The stack of a generator and the document.

Heads(a) == [k \in DOMAIN a.nodes |-> Head(a.nodes[k])]

Matches(a, d, n) == Mirrors(d, n, Heads(a), Len(a.nodes), a.tagNames)

LEMMA HeadsOfStack ==
  ASSUME NEW a, Sound(a)
  PROVE  /\ Len(a.nodes) \in Nat /\ a.tagNames \in [Names -> Nat]
         /\ \A k \in 1 .. Len(a.nodes) : Heads(a)[k] = Head(a.nodes[k])
         /\ DOMAIN a.nodes = 1 .. Len(a.nodes)
         /\ IsBuilding(a) => 1 \in 1 .. Len(a.nodes) /\ Heads(a)[1] = a.rootNode
<1>1. a.nodes \in Seq(Entries) /\ a.tagNames \in [Names -> Nat] /\ RootedAtBottom(a)
  BY DEF Sound, Generator
<1>2. Len(a.nodes) \in Nat /\ DOMAIN a.nodes = 1 .. Len(a.nodes)
  BY <1>1, LenProperties
<1>3. IsBuilding(a) => 1 \in 1 .. Len(a.nodes) /\ Head(a.nodes[1]) = a.rootNode
  BY <1>1, <1>2, EmptySeq DEF RootedAtBottom, HasPendingNode
<1> QED BY <1>1, <1>2, <1>3 DEF Heads

LEMMA AppendMatches ==
  ASSUME NEW a, Sound(a), NEW d, NEW n \in Nat, Document(d, n + 1),
         d[n + 1].kind # "close",
         NEW node \in Node, node.name = d[n + 1].name, node.at = n + 1,
         IF IsBuilding(a) THEN Matches(a, d, n)
                          ELSE a = EmptyAst /\ d[n + 1].kind = "open"
  PROVE  Matches(AppendOpenTag(a, node), d, n + 1)
<1> DEFINE m == Len(a.nodes)
           nodes == Append(a.nodes, <<node>>)
           b == AppendOpenTag(a, node)
<1>1. /\ a.nodes \in Seq(Entries) /\ a.tagNames \in [Names -> Nat] /\ m \in Nat
      /\ \A k \in 1 .. m : Heads(a)[k] = Head(a.nodes[k])
  BY HeadsOfStack DEF Sound, Generator
<1>2. <<node>> \in Entries /\ Head(<<node>>) = node
  BY NodesAreNotNone
<1>3. /\ Len(nodes) = m + 1 /\ DOMAIN nodes = 1 .. m + 1
      /\ \A k \in 1 .. m : nodes[k] = a.nodes[k]
      /\ nodes[m + 1] = <<node>>
  BY <1>1, <1>2, AppendProperties, LenProperties
<1>4. b.nodes = nodes /\ b.tagNames = [a.tagNames EXCEPT ![node.name] = @ + 1]
  BY DEF AppendOpenTag
<1> HIDE DEF b, nodes, m
<1>5. /\ \A k \in 1 .. m : Heads(b)[k] = Heads(a)[k]
      /\ Heads(b)[m + 1] = node /\ Len(b.nodes) = m + 1
  <2>1. \A k \in 1 .. m + 1 : Heads(b)[k] = Head(nodes[k])
    BY <1>3, <1>4 DEF Heads
  <2>2. 1 .. m \subseteq 1 .. m + 1 /\ m + 1 \in 1 .. m + 1
    BY <1>1
  <2> QED BY <1>1, <1>2, <1>3, <1>4, <2>1, <2>2
<1>6. CASE IsBuilding(a)
  <2>1. Mirrors(d, n, Heads(a), m, a.tagNames)
    BY <1>6 DEF Matches, m
  <2>2. PICK g, u : /\ g = Heads(b) /\ u = b.tagNames
                    /\ SameEntries(g, Heads(a), m)
                    /\ g[m + 1].at = n + 1 /\ g[m + 1].name = d[n + 1].name
                    /\ u = CountUp(a.tagNames, d[n + 1].name)
    BY <1>4, <1>5 DEF SameEntries, CountUp
  <2>3. Mirrors(d, n + 1, g, m + 1, u)
    BY <1>1, <2>1, <2>2, PushMirrors
  <2> QED BY <1>5, <2>2, <2>3 DEF Matches, b
<1>7. CASE ~IsBuilding(a)
  <2>1. a.tagNames = [x \in Names |-> 0] /\ m = 0 /\ m + 1 = 1
    BY <1>7 DEF EmptyAst, m
  <2>2. Mirrors(d, n + 1, Heads(b), 1, b.tagNames)
    BY <1>4, <1>5, <1>7, <2>1, StartMirrors
  <2> QED BY <1>5, <2>1, <2>2 DEF Matches, b
<1> QED BY <1>6, <1>7

LEMMA CloseMatches ==
  ASSUME NEW a, Sound(a), IsBuilding(a), NEW d, NEW n \in Nat, NEW i, CloseAt(d, n, i),
         Matches(a, d, n), NEW c, c = CloseTag(a, d[n + 1].name)
  PROVE  IF c.tree = <<>> THEN Matches(c.ast, d, n + 1)
         ELSE /\ c.ast = EmptyAst /\ Balanced(d, a.rootNode, n + 1)
              /\ a.rootNode.at = i
<1> DEFINE h == Heads(a)
           m == Len(a.nodes)
           t == a.tagNames
           name == d[n + 1].name
<1>1. /\ m \in Nat /\ t \in [Names -> Nat] /\ DOMAIN a.nodes = 1 .. m
      /\ \A k \in 1 .. m : h[k] = Head(a.nodes[k])
      /\ h[1] = a.rootNode
  BY HeadsOfStack
<1>2. Mirrors(d, n, h, m, t)
  BY DEF Matches
<1>3. name \in Names /\ name \in Closable
  BY CloseAtFacts DEF Closable
<1>4. HasPendingNode(a)
  BY DEF Sound, RootedAtBottom
<1>5. TakesOff(a, name, c)
  BY <1>3, <1>4, CloseTagSound
<1> HIDE DEF h, m, t
<1>6. CASE \A k \in 1 .. m : h[k].at # i
  <2>1. t[name] = 0 /\ Mirrors(d, n + 1, h, m, t)
    BY <1>1, <1>2, <1>6, IgnoredMirrors
  <2>2. c.ast = a /\ c.tree = <<>>
    BY <1>5, <2>1 DEF TakesOff, t
  <2> QED BY <2>1, <2>2 DEF Matches, h, m, t
<1>7. ASSUME NEW j \in 1 .. m, h[j].at = i
      PROVE  IF c.tree = <<>> THEN Matches(c.ast, d, n + 1)
             ELSE /\ c.ast = EmptyAst /\ Balanced(d, a.rootNode, n + 1)
                  /\ a.rootNode.at = i
  <2>1. h[j].name = name /\ t[name] # 0
    BY <1>1, <1>2, <1>7, InnermostMirrored
  <2>2. \A k \in 1 .. m : k > j => h[k].name \notin Closable
    BY <1>1, <1>2, <1>7, InnermostMirrored
  <2>3. Target(a, name) = j
    <3>1. PICK k : k = Target(a, name)
      OBVIOUS
    <3>2. /\ k \in 1 .. m /\ (k > 1 => k \in Named(a, name))
          /\ \A x \in Named(a, name) : x <= k
      BY <1>4, <3>1, TargetIsInnermost DEF m
    <3>3. j \in Named(a, name)
      BY <1>1, <2>1 DEF Named
    <3>4. ~ (k > j)
      <4>1. SUFFICES ASSUME k > j PROVE FALSE
        OBVIOUS
      <4>2. k \in Named(a, name)
        BY <1>1, <3>2, <4>1
      <4>3. h[k].name = name
        BY <1>1, <3>2, <4>2 DEF Named
      <4> QED BY <1>3, <2>2, <3>2, <4>1, <4>3
    <3> QED BY <1>1, <3>1, <3>2, <3>3, <3>4
  <2>4. CASE j = 1
    <3>1. c.ast = EmptyAst /\ c.tree # <<>>
      BY <1>5, <2>1, <2>3, <2>4 DEF TakesOff, t
    <3>2. Balanced(d, h[1], n + 1)
      BY <1>1, <1>2, <1>7, <2>4, RootBalanced
    <3> QED BY <1>1, <1>7, <2>4, <3>1, <3>2
  <2>5. CASE j > 1
    <3>1. /\ c.tree = <<>> /\ c.ast.tagNames = [t EXCEPT ![name] = @ - 1]
          /\ c.ast.nodes \in Seq(Entries) /\ Len(c.ast.nodes) = j - 1
          /\ \A k \in 1 .. j - 1 : Head(c.ast.nodes[k]) = Head(a.nodes[k])
      <4>1. PICK k : k = Target(a, name) /\ k = j /\ k # 1
        BY <2>3, <2>5
      <4> QED BY <1>5, <2>1, <4>1 DEF TakesOff, t
    <3>2. \A k \in 1 .. j - 1 : Heads(c.ast)[k] = h[k]
      <4>1. DOMAIN c.ast.nodes = 1 .. j - 1
        BY <3>1, LenProperties
      <4>2. 1 .. j - 1 \subseteq 1 .. m
        BY <1>1
      <4> QED BY <1>1, <3>1, <4>1, <4>2 DEF Heads
    <3>3. PICK g, u : /\ g = Heads(c.ast) /\ u = c.ast.tagNames
                      /\ SameEntries(g, h, j - 1)
                      /\ u = CountDown(t, d[n + 1].name)
      BY <3>1, <3>2 DEF SameEntries, CountDown
    <3>4. Mirrors(d, n + 1, g, j - 1, u)
      BY <1>1, <1>2, <1>7, <2>5, <3>3, PopMirrors
    <3> QED BY <3>1, <3>3, <3>4 DEF Matches
  <2> QED BY <1>1, <2>4, <2>5
<1> QED BY <1>6, <1>7

\* Two documents that start alike.
SameTokens(d, e, n) == \A k \in 1 .. n : d[k] = e[k]

LEMMA SameMatches ==
  ASSUME NEW d, NEW e, NEW n \in Nat, SameTokens(d, e, n)
  PROVE  /\ WellFormedTo(d, n) <=> WellFormedTo(e, n)
         /\ \A a : Len(a.nodes) \in Nat /\ Matches(a, d, n) => Matches(a, e, n)
<1>1. ASSUME NEW i \in 1 .. n, NEW j \in 1 .. n
      PROVE  Depth(d, i, j) = Depth(e, i, j)
  <2>1. Elements(d, i, j) = Elements(e, i, j) /\ Closes(d, i, j) = Closes(e, i, j)
    BY DEF Elements, Closes, SameTokens, IsElement
  <2> QED BY <2>1 DEF Depth
<1>2. ASSUME NEW i \in 1 .. n, NEW j \in 1 .. n PROVE EndsElement(d, i, j) <=> EndsElement(e, i, j)
  <2>1. \A k \in i .. j - 1 : Depth(d, i, k) = Depth(e, i, k)
    BY <1>1
  <2>2. Depth(d, i, j) = Depth(e, i, j)
    BY <1>1
  <2> QED BY <2>1, <2>2 DEF EndsElement, SameTokens
<1>3. WellFormedTo(d, n) <=> WellFormedTo(e, n)
  <2>1. \A j \in 1 .. n : d[j] = e[j] /\ 1 .. j - 1 \subseteq 1 .. n
    BY DEF SameTokens
  <2> QED BY <1>2, <2>1 DEF WellFormedTo
<1>4. StillOpen(d, n) = StillOpen(e, n)
  <2>1. \A i \in 1 .. n : IsElement(d, i) <=> IsElement(e, i)
    BY DEF SameTokens, IsElement
  <2>2. \A i \in 1 .. n : \A k \in i .. n : Depth(d, i, k) = Depth(e, i, k)
    BY <1>1
  <2> QED BY <2>1, <2>2 DEF StillOpen
<1>5. ASSUME NEW h, NEW m \in Nat, NEW t, Mirrors(d, n, h, m, t) PROVE Mirrors(e, n, h, m, t)
  <2>1. InOrder(d, n, h, m) /\ m > 0 /\ h[1].at \in 1 .. n
    BY <1>5 DEF Mirrors, InOrder
  <2>2. InOrder(e, n, h, m)
    BY <2>1 DEF InOrder, SameTokens
  <2>3. HoldsOpen(e, n, h, m)
    <3>1. \A i \in h[1].at .. n : IsElement(d, i) <=> IsElement(e, i)
      BY <2>1 DEF SameTokens, IsElement
    <3> QED BY <1>4, <1>5, <3>1 DEF HoldsOpen, Mirrors
  <2>4. RootCounted(e, n, h, t)
    <3>1. \A kind, name : Tags(d, kind, name, h[1].at, n) = Tags(e, kind, name, h[1].at, n)
      BY <2>1 DEF Tags, SameTokens
    <3> QED BY <1>5, <3>1 DEF RootCounted, Mirrors
  <2> QED BY <1>5, <2>1, <2>2, <2>3, <2>4 DEF Mirrors
<1> QED BY <1>3, <1>5 DEF Matches

-----------------------------------------------------------------------------
\* The inductive invariant of well-formed documents: a generator without a root
\* is as new, and the stack of one with a root matches the tokens it has taken.
MatchInv(s) ==
  /\ ~IsBuilding(ast[s]) => ast[s] = EmptyAst
  /\ WellFormedTo(doc, Taken(s)) /\ IsBuilding(ast[s])
       => Matches(ast[s], doc, Taken(s))

DocInv == ParserInv /\ \A s \in Selectors : MatchInv(s)

\* A tree is completed by the close tag of its root.
Completes(s) ==
  WellFormed /\ trees[s] # trees'[s] => ClosedBy(Head(Last(trees'[s])), Len(doc))

LEMMA DocumentTyped ==
  ASSUME TextApart, NEW d \in Seq(Tokens), NEW n \in Nat, n <= Len(d)
  PROVE  Document(d, n)
<1>1. SUFFICES ASSUME NEW j \in 1 .. n
               PROVE  /\ d[j].name \in Names /\ d[j].kind \in {"open", "close", "text"}
                      /\ d[j].kind = "text" <=> d[j].name = TextName
  BY DEF Document
<1>2. d[j] \in Tokens
  BY ElementOfSeq, LenProperties
<1>3. \A t \in Tokens : t.kind = "text" => t.name = TextName
  BY ParserAssumption
<1>4. d[j] \in [kind : {"open", "close", "text"}, name : Names,
                classOf : SUBSET (Selectors \cup Icons),
                date : {"read", "refused", "panics"}]
  BY <1>2, ParserAssumption
<1> QED BY <1>2, <1>3, <1>4 DEF TextApart

LEMMA WellFormedIs ==
  ASSUME WellFormed, doc \in Seq(Tokens), NEW n \in Nat, n <= Len(doc)
  PROVE  WellFormedTo(doc, n)
<1>1. SUFFICES ASSUME NEW j \in 1 .. n, doc[j].kind = "close"
               PROVE  \E i \in 1 .. j - 1 : EndsElement(doc, i, j)
  BY DEF WellFormedTo
<1>2. j \in DOMAIN doc
  BY LenProperties
<1>3. PICK i \in 1 .. j - 1 : doc[i].name = doc[j].name /\ EndsAt(i, j)
  BY <1>1, <1>2 DEF WellFormed
<1>4. ASSUME NEW k \in i .. j
      PROVE  /\ Opened(i, k) = Elements(doc, i, k) /\ Closed(i, k) = Closes(doc, i, k)
             /\ Cardinality(Opened(i, k)) \in Nat /\ Cardinality(Closed(i, k)) \in Nat
             /\ Depth(doc, i, k) = Cardinality(Opened(i, k)) - Cardinality(Closed(i, k))
  <2>1. Opened(i, k) = Elements(doc, i, k) /\ Closed(i, k) = Closes(doc, i, k)
    BY DEF Opened, Closed, Elements, Closes, IsElement
  <2> QED BY <2>1, CountsFinite DEF Depth
<1>5. Depth(doc, i, j) = 0
  <2>1. j \in i .. j
    OBVIOUS
  <2> QED BY <1>3, <1>4, <2>1 DEF EndsAt
<1>6. ASSUME NEW k \in i .. j - 1 PROVE Depth(doc, i, k) > 0
  <2>1. k \in i .. j
    OBVIOUS
  <2>2. Cardinality(Closed(i, k)) < Cardinality(Opened(i, k))
    BY <1>3 DEF EndsAt
  <2> QED BY <1>4, <2>1, <2>2
<1> QED BY <1>3, <1>5, <1>6 DEF EndsElement

LEMMA ClosedByIsBalanced ==
  ASSUME NEW node, NEW n
  PROVE  ClosedBy(node, n) <=> Balanced(doc, node, n)
BY DEF ClosedBy, Balanced, Tags

\* The token that a goroutine handles.
LEMMA HandledNode ==
  ASSUME ParserInv, NEW s \in wg
  PROVE  \E n \in Nat :
           /\ n + 1 = Len(doc) /\ Taken(s) = n /\ Last(doc) = doc[n + 1]
           /\ s \in Selectors /\ doc \in Seq(Tokens)
           /\ CurrentNode \in Node /\ CurrentNode.name = doc[n + 1].name
           /\ CurrentNode.at = n + 1
<1>1. /\ s \in Selectors /\ Len(doc) \in 1 .. MaxTokens /\ Last(doc) = doc[Len(doc)]
      /\ CurrentNode \in Node /\ CurrentNode.at = Len(doc) /\ doc \in Seq(Tokens)
  BY CurrentNodeType DEF ParserInv, DocumentInv
<1>2. PICK n \in Nat : n + 1 = Len(doc)
  <2>1. Len(doc) - 1 \in Nat /\ (Len(doc) - 1) + 1 = Len(doc)
    BY <1>1
  <2> QED BY <2>1
<1>3. Taken(s) = n
  BY <1>1, <1>2 DEF Taken
<1>4. CurrentNode.name = doc[n + 1].name
  BY <1>1, <1>2 DEF CurrentNode
<1> QED BY <1>1, <1>2, <1>3, <1>4

LEMMA HandledToken ==
  ASSUME TextApart, ParserInv, NEW s \in wg
  PROVE  \E n \in Nat :
           /\ n + 1 = Len(doc) /\ Taken(s) = n /\ Last(doc) = doc[n + 1]
           /\ Document(doc, n + 1) /\ s \in Selectors
           /\ CurrentNode \in Node /\ CurrentNode.name = doc[n + 1].name
           /\ CurrentNode.at = n + 1
           /\ WellFormedTo(doc, n + 1) =>
                /\ WellFormedTo(doc, n)
                /\ doc[n + 1].kind = "close" => \E i : CloseAt(doc, n, i)
<1>1. PICK n \in Nat :
        /\ n + 1 = Len(doc) /\ Taken(s) = n /\ Last(doc) = doc[n + 1]
        /\ s \in Selectors /\ doc \in Seq(Tokens)
        /\ CurrentNode \in Node /\ CurrentNode.name = doc[n + 1].name
        /\ CurrentNode.at = n + 1
  BY HandledNode
<1>2. Document(doc, n + 1)
  BY <1>1, DocumentTyped
<1>3. WellFormedTo(doc, n + 1) => WellFormedTo(doc, n)
  BY DEF WellFormedTo
<1>4. WellFormedTo(doc, n + 1) /\ doc[n + 1].kind = "close" => \E i : CloseAt(doc, n, i)
  <2>1. n + 1 \in 1 .. n + 1
    OBVIOUS
  <2> QED BY <1>2, <2>1 DEF WellFormedTo, CloseAt
<1> QED BY <1>1, <1>2, <1>3, <1>4

LEMMA SelectorMatches ==
  ASSUME TextApart, DocInv, NEW s \in Selectors, OnOpen(s) \/ OnText(s) \/ OnClose(s)
  PROVE  DocInv' /\ \A t \in Selectors : Completes(t)
<1>1. ParserInv /\ Sound(ast[s]) /\ MatchInv(s) /\ ast \in [Selectors -> Generator]
      /\ trees \in [Selectors -> Seq(Seq(Node))] /\ doc \in Seq(Tokens)
  BY DEF DocInv, ParserInv, SelectorInv, DocumentInv
<1>2. s \in wg /\ doc' = doc
  BY DEF OnOpen, OnText, OnClose, Handles
<1>3. /\ ParserInv' /\ Taken(s)' = Len(doc)
      /\ \A t \in Selectors \ {s} : UNCHANGED <<ast[t], trees[t], Taken(t)>>
  <2>1. ParserInv' /\ CollectorTakes(s) /\ OthersStay(s)
    BY <1>1, OnOpenStep, OnTextStep, OnCloseStep
  <2> QED BY <2>1 DEF CollectorTakes, OthersStay
<1>4. PICK n \in Nat :
        /\ n + 1 = Len(doc) /\ Taken(s) = n /\ Last(doc) = doc[n + 1]
        /\ Document(doc, n + 1)
        /\ CurrentNode \in Node /\ CurrentNode.name = doc[n + 1].name
        /\ CurrentNode.at = n + 1
        /\ WellFormedTo(doc, n + 1) =>
             /\ WellFormedTo(doc, n)
             /\ doc[n + 1].kind = "close" => \E i : CloseAt(doc, n, i)
  BY <1>1, <1>2, HandledToken
<1> DEFINE a == ast[s]
           GoesOn(b) == /\ ~IsBuilding(b) => b = EmptyAst
                        /\ WellFormedTo(doc, n + 1) /\ IsBuilding(b)
                             => Matches(b, doc, n + 1)
<1>5. /\ ~IsBuilding(a) => a = EmptyAst
      /\ WellFormedTo(doc, n) /\ IsBuilding(a) => Matches(a, doc, n)
      /\ IsBuilding(a) <=> HasPendingNode(a)
  BY <1>1, <1>4, PendingIsCollected DEF MatchInv
<1>6. ~IsBuilding(EmptyAst)
  BY DEF EmptyAst, IsBuilding
<1>7. GoesOn(ast'[s]) /\ Completes(s)
  <2> DEFINE b == AppendOpenTag(a, CurrentNode)
  <2>1. CASE OnOpen(s) \/ OnText(s)
    <3>1. /\ doc[n + 1].kind # "close" /\ trees' = trees
          /\ \/ ast'[s] = a /\ ~IsBuilding(a)
             \/ ast'[s] = b /\ (IsBuilding(a) \/ doc[n + 1].kind = "open")
      BY <1>1, <1>4, <1>5, <2>1 DEF OnOpen, OnText, Handles
    <3>2. CASE ast'[s] = a /\ ~IsBuilding(a)
      BY <1>5, <3>1, <3>2 DEF Completes
    <3>3. CASE ast'[s] = b /\ (IsBuilding(a) \/ doc[n + 1].kind = "open")
      <4>1. IsBuilding(b)
        BY <1>1, <1>2, AppendsCurrent
      <4>2. WellFormedTo(doc, n + 1) => Matches(b, doc, n + 1)
        <5>1. SUFFICES ASSUME WellFormedTo(doc, n + 1) PROVE Matches(b, doc, n + 1)
          OBVIOUS
        <5>2. IF IsBuilding(a) THEN Matches(a, doc, n)
                               ELSE a = EmptyAst /\ doc[n + 1].kind = "open"
          BY <1>4, <1>5, <3>3, <5>1
        <5> QED BY <1>1, <1>4, <3>1, <5>2, AppendMatches
      <4> QED BY <3>1, <3>3, <4>1, <4>2 DEF Completes
    <3> QED BY <3>1, <3>2, <3>3
  <2>2. CASE OnClose(s)
    <3> DEFINE c == CloseTag(a, doc[n + 1].name)
    <3>1. /\ doc[n + 1].kind = "close"
          /\ \/ ~IsBuilding(a) /\ ast'[s] = a /\ trees'[s] = trees[s]
             \/ /\ IsBuilding(a) /\ ast'[s] = c.ast
                /\ trees'[s] = IF c.tree = <<>> THEN trees[s] ELSE Append(trees[s], c.tree)
      BY <1>1, <1>4, <1>5, <2>2 DEF OnClose, Handles
    <3>2. CASE ~IsBuilding(a)
      BY <1>5, <3>1, <3>2 DEF Completes
    <3>3. CASE IsBuilding(a)
      <4>1. PICK e : e = c
        OBVIOUS
      <4>2. /\ TakesOff(a, doc[n + 1].name, e)
            /\ \/ e.tree = <<>> /\ e.ast.rootNode = a.rootNode
               \/ e.tree \in Entries /\ Head(e.tree) = a.rootNode /\ e.ast = EmptyAst
        <5>1. doc[n + 1].name \in Names
          BY <1>4, NodesAreNotNone
        <5> QED BY <1>1, <1>5, <3>3, <4>1, <5>1, CloseTagSound
      <4>3. WellFormedTo(doc, n + 1) =>
              IF e.tree = <<>> THEN Matches(e.ast, doc, n + 1)
              ELSE e.ast = EmptyAst /\ Balanced(doc, a.rootNode, n + 1)
        <5>1. SUFFICES ASSUME WellFormedTo(doc, n + 1)
                       PROVE  IF e.tree = <<>> THEN Matches(e.ast, doc, n + 1)
                              ELSE e.ast = EmptyAst /\ Balanced(doc, a.rootNode, n + 1)
          OBVIOUS
        <5>2. Matches(a, doc, n) /\ \E i : CloseAt(doc, n, i)
          BY <1>4, <1>5, <3>1, <3>3, <5>1
        <5>3. PICK i : CloseAt(doc, n, i)
          BY <5>2
        <5> QED BY <1>1, <3>3, <4>1, <5>2, <5>3, CloseMatches
      <4>4. GoesOn(e.ast)
        <5>1. CASE e.tree = <<>>
          BY <3>3, <4>2, <4>3, <5>1 DEF IsBuilding, Entries
        <5>2. CASE e.tree # <<>>
          BY <1>6, <4>2, <5>2
        <5> QED BY <5>1, <5>2
      <4>5. Completes(s)
        <5>1. SUFFICES ASSUME WellFormed, trees[s] # trees'[s]
                       PROVE  ClosedBy(Head(Last(trees'[s])), Len(doc))
          BY DEF Completes
        <5>2. trees'[s] = Append(trees[s], e.tree) /\ e.tree # <<>>
          BY <3>1, <3>3, <4>1, <5>1
        <5>3. Last(trees'[s]) = e.tree
          BY <1>1, <5>2, AppendProperties, LenProperties DEF Last
        <5>4. WellFormedTo(doc, n + 1)
          BY <1>1, <1>4, <5>1, WellFormedIs
        <5>5. Head(e.tree) = a.rootNode /\ Balanced(doc, a.rootNode, n + 1)
          BY <4>2, <4>3, <5>2, <5>4
        <5> QED BY <1>4, <5>3, <5>5, ClosedByIsBalanced
      <4> QED BY <3>1, <3>3, <4>1, <4>4, <4>5
    <3> QED BY <3>2, <3>3
  <2> QED BY <2>1, <2>2
<1>8. MatchInv(s)'
  BY <1>2, <1>3, <1>4, <1>7 DEF MatchInv
<1>9. ASSUME NEW t \in Selectors, t # s PROVE MatchInv(t)' /\ Completes(t)
  <2>1. MatchInv(t) /\ ast'[t] = ast[t] /\ trees'[t] = trees[t] /\ Taken(t)' = Taken(t)
    BY <1>3, <1>9 DEF DocInv
  <2> QED BY <1>2, <2>1 DEF MatchInv, Completes
<1>10. \A t \in Selectors : MatchInv(t)' /\ Completes(t)
  BY <1>7, <1>8, <1>9
<1> QED BY <1>3, <1>10 DEF DocInv

LEMMA NextTokenMatches ==
  ASSUME DocInv, NEW t \in Tokens, NextToken(t)
  PROVE  DocInv'
<1>1. /\ wg = {} /\ doc' = Append(doc, t) /\ wg' = Selectors /\ ast' = ast
      /\ doc \in Seq(Tokens) /\ ParserInv /\ ParserInv'
  BY NextTokenStep DEF DocInv, NextToken, ParserInv, DocumentInv
<1>2. PICK n \in Nat : n = Len(doc)
  BY <1>1, LenProperties
<1>3. PICK e : e = doc' /\ Len(e) = n + 1 /\ \A k \in 1 .. n : doc[k] = e[k]
  BY <1>1, <1>2, AppendProperties
<1>4. SameTokens(doc, e, n)
  BY <1>3 DEF SameTokens
<1>5. ASSUME NEW s \in Selectors PROVE MatchInv(s)'
  <2>1. Taken(s) = n /\ Taken(s)' = n
    BY <1>1, <1>2, <1>3 DEF Taken
  <2>2. Len(ast[s].nodes) \in Nat
    BY <1>1, HeadsOfStack DEF ParserInv, SelectorInv
  <2>3. MatchInv(s)
    BY DEF DocInv
  <2>4. /\ WellFormedTo(doc, n) <=> WellFormedTo(e, n)
        /\ Matches(ast[s], doc, n) => Matches(ast[s], e, n)
    BY <1>4, <2>2, SameMatches
  <2> QED BY <1>1, <1>3, <2>1, <2>3, <2>4 DEF MatchInv
<1> QED BY <1>1, <1>5 DEF DocInv

LEMMA DocStep ==
  ASSUME TextApart, DocInv, [Next]_vars
  PROVE  DocInv' /\ \A s \in Selectors : Completes(s)
<1>1. CASE UNCHANGED vars
  BY <1>1 DEF vars, DocInv, ParserInv, DocumentInv, SelectorInv, Taken, MatchInv, Completes
<1>2. ASSUME NEW t \in Tokens, NextToken(t)
      PROVE  DocInv' /\ \A s \in Selectors : Completes(s)
  <2>1. trees' = trees
    BY <1>2 DEF NextToken
  <2> QED BY <1>2, <2>1, NextTokenMatches DEF Completes
<1>3. ASSUME NEW s \in Selectors, OnOpen(s) \/ OnText(s) \/ OnClose(s)
      PROVE  DocInv' /\ \A t \in Selectors : Completes(t)
  BY <1>3, SelectorMatches
<1>4. CASE EndOfFile
  <2>1. ParserInv' /\ UNCHANGED <<doc, wg, ast, trees>>
    BY <1>4, EndOfFileStep DEF DocInv
  <2> QED BY <2>1 DEF DocInv, MatchInv, Taken, Completes
<1> QED BY <1>1, <1>2, <1>3, <1>4 DEF Next

LEMMA DocInvariant == ASSUME TextApart PROVE Spec => []DocInv
<1>1. Init => DocInv
  <2>1. \A s \in Selectors : Init => ast[s] = EmptyAst
    BY DEF Init
  <2>2. ~IsBuilding(EmptyAst)
    BY DEF EmptyAst, IsBuilding
  <2> QED BY <2>1, <2>2, InitSound DEF DocInv, MatchInv
<1>2. DocInv /\ [Next]_vars => DocInv'
  BY DocStep
<1> QED BY <1>1, <1>2, PTL DEF Spec

\* In a well-formed document a tree is handed over at the close tag of its root
\* element and not before.
THEOREM CompletesAtClose == ASSUME TextApart PROVE Spec => CompletesAtRootClose
<1>1. DocInv /\ [Next]_vars => [\A s \in Selectors : Completes(s)]_vars
  BY DocStep
<1>2. (\A s \in Selectors : Completes(s)) =>
        \A s \in Selectors : WellFormed /\ trees[s] # trees'[s] =>
          ClosedBy(Head(Last(trees'[s])), Len(doc))
  BY DEF Completes
<1> QED BY <1>1, <1>2, DocInvariant, PTL DEF Spec, CompletesAtRootClose

\* ... and not after: once the root element is closed, nothing is pending.
THEOREM StopsAtClose == ASSUME TextApart PROVE Spec => []StopsAtRootClose
<1>1. DocInv => StopsAtRootClose
  <2>1. SUFFICES ASSUME DocInv, WellFormed, NEW s \in Selectors \ wg, IsBuilding(ast[s])
                 PROVE  ~ClosedBy(ast[s].rootNode, Len(doc))
    BY DEF StopsAtRootClose
  <2>2. doc \in Seq(Tokens) /\ Sound(ast[s]) /\ MatchInv(s)
    BY <2>1 DEF DocInv, ParserInv, DocumentInv, SelectorInv
  <2>3. PICK n \in Nat : n = Len(doc) /\ Taken(s) = n
    BY <2>2, LenProperties DEF Taken
  <2>4. WellFormedTo(doc, n) /\ Document(doc, n)
    BY <2>1, <2>2, <2>3, WellFormedIs, DocumentTyped
  <2>5. Mirrors(doc, n, Heads(ast[s]), Len(ast[s].nodes), ast[s].tagNames)
    BY <2>1, <2>2, <2>3, <2>4 DEF MatchInv, Matches
  <2>6. /\ Len(ast[s].nodes) \in Nat /\ ast[s].tagNames \in [Names -> Nat]
        /\ Heads(ast[s])[1] = ast[s].rootNode
    BY <2>1, <2>2, HeadsOfStack
  <2>7. ~Balanced(doc, Heads(ast[s])[1], n)
    BY <2>4, <2>5, <2>6, RootNotBalanced
  <2> QED BY <2>3, <2>6, <2>7, ClosedByIsBalanced
<1> QED BY <1>1, DocInvariant, PTL

-----------------------------------------------------------------------------
\* The positions of the nodes of a name in a tree, and of its tokens in the first
\* n from the root on.
PlacesOf(tree, name) ==
  FlattenSeq([k \in DOMAIN tree |-> IF tree[k].name = name THEN <<tree[k].at>> ELSE <<>>])

Wanted(d, i, root, name) == i >= root /\ d[i].kind # "close" /\ d[i].name = name

SinceTo(d, n, root, name) ==
  FlattenSeq([i \in 1 .. n |-> IF Wanted(d, i, root, name) THEN <<i>> ELSE <<>>])

LEMMA PlacesNext ==
  ASSUME NEW tree \in Seq(Node), NEW node \in Node, NEW name
  PROVE  PlacesOf(Append(tree, node), name)
           = PlacesOf(tree, name) \o IF node.name = name THEN <<node.at>> ELSE <<>>
<1>1. PICK more : more = Append(tree, node)
  OBVIOUS
<1>2. PICK n \in Nat : n = Len(tree) /\ DOMAIN tree = 1 .. n
  BY LenProperties
<1>3. /\ more \in Seq(Node) /\ DOMAIN more = 1 .. n + 1 /\ more[n + 1] = node
      /\ \A k \in 1 .. n : more[k] = tree[k]
  BY <1>1, <1>2, AppendProperties, LenProperties
<1>4. PICK f : f = [k \in 1 .. n |-> IF tree[k].name = name THEN <<tree[k].at>> ELSE <<>>]
  OBVIOUS
<1>5. PICK g : g = [k \in 1 .. n + 1 |-> IF more[k].name = name THEN <<more[k].at>> ELSE <<>>]
  OBVIOUS
<1>6. f \in [1 .. n -> Seq(Nat)] /\ g \in [1 .. n + 1 -> Seq(Nat)]
  <2>1. \A x \in Node : <<x.at>> \in Seq(Nat)
    <3>1. \A x \in Node : x.at \in Nat
      BY NodesAreNotNone
    <3>2. \A k \in Nat : <<k>> \in Seq(Nat)
      OBVIOUS
    <3> QED BY <3>1, <3>2
  <2>2. /\ \A k \in 1 .. n : tree[k] \in Node
        /\ \A k \in 1 .. n + 1 : more[k] \in Node
        /\ <<>> \in Seq(Nat)
    BY <1>2, <1>3, ElementOfSeq, LenProperties, EmptySeq
  <2> QED BY <1>4, <1>5, <2>1, <2>2
<1>7. Agree(f, g, n) /\ g[n + 1] = IF node.name = name THEN <<node.at>> ELSE <<>>
  <2>1. n + 1 \in 1 .. n + 1 /\ 1 .. n \subseteq 1 .. n + 1
    OBVIOUS
  <2> QED BY <1>3, <1>4, <1>5, <2>1 DEF Agree
<1>8. FlattenSeq(g) = FlattenSeq(f) \o g[n + 1]
  BY <1>6, <1>7, FlattenNext
<1>9. PlacesOf(tree, name) = FlattenSeq(f)
  BY <1>2, <1>4 DEF PlacesOf
<1>10. PlacesOf(more, name) = FlattenSeq(g)
  BY <1>3, <1>5 DEF PlacesOf
<1> QED BY <1>1, <1>7, <1>8, <1>9, <1>10

LEMMA PlacesNone == ASSUME NEW name PROVE PlacesOf(<<>>, name) = <<>>
<1>1. [k \in DOMAIN <<>> |-> IF <<>>[k].name = name THEN <<<<>>[k].at>> ELSE <<>>] = <<>>
  OBVIOUS
<1> QED BY <1>1, FlattenEmpty DEF PlacesOf

LEMMA SinceNext ==
  ASSUME NEW d, NEW n \in Nat, NEW root, NEW name
  PROVE  SinceTo(d, n + 1, root, name)
           = SinceTo(d, n, root, name) \o IF Wanted(d, n + 1, root, name) THEN <<n + 1>> ELSE <<>>
<1>1. PICK f : f = [i \in 1 .. n |-> IF Wanted(d, i, root, name) THEN <<i>> ELSE <<>>]
  OBVIOUS
<1>2. PICK g : g = [i \in 1 .. n + 1 |-> IF Wanted(d, i, root, name) THEN <<i>> ELSE <<>>]
  OBVIOUS
<1>3. f \in [1 .. n -> Seq(Nat)] /\ g \in [1 .. n + 1 -> Seq(Nat)]
  <2>1. (\A i \in Nat : <<i>> \in Seq(Nat)) /\ <<>> \in Seq(Nat)
    BY EmptySeq
  <2> QED BY <1>1, <1>2, <2>1
<1>4. Agree(f, g, n) /\ g[n + 1] = IF Wanted(d, n + 1, root, name) THEN <<n + 1>> ELSE <<>>
  <2>1. n + 1 \in 1 .. n + 1 /\ 1 .. n \subseteq 1 .. n + 1
    OBVIOUS
  <2> QED BY <1>1, <1>2, <2>1 DEF Agree
<1>5. FlattenSeq(g) = FlattenSeq(f) \o g[n + 1]
  BY <1>3, <1>4, FlattenNext
<1> QED BY <1>1, <1>2, <1>4, <1>5 DEF SinceTo

LEMMA SinceNone ==
  ASSUME NEW d, NEW n \in Nat, NEW name
  PROVE  SinceTo(d, n, n + 1, name) = <<>>
<1>1. PICK f : f = [i \in 1 .. n |-> IF Wanted(d, i, n + 1, name) THEN <<i>> ELSE <<>>]
  OBVIOUS
<1>2. f \in [1 .. n -> {<<>>}]
  BY <1>1 DEF Wanted
<1> QED BY <1>1, <1>2, FlattenNothing DEF SinceTo

LEMMA SinceType ==
  ASSUME NEW d, NEW n \in Nat, NEW root, NEW name
  PROVE  SinceTo(d, n, root, name) \in Seq(Nat)
<1>1. PICK f : f = [i \in 1 .. n |-> IF Wanted(d, i, root, name) THEN <<i>> ELSE <<>>]
  OBVIOUS
<1>2. f \in Seq(Seq(Nat))
  <2>1. (\A i \in Nat : <<i>> \in Seq(Nat)) /\ <<>> \in Seq(Nat)
    BY EmptySeq
  <2>2. f \in [1 .. n -> Seq(Nat)]
    BY <1>1, <2>1
  <2> QED BY <2>2
<1> QED BY <1>1, <1>2, FlattenType DEF SinceTo

\* What a selector holds: every open tag and text of the first n tokens, from
\* that of its root on, in document order.
Collected(held, d, n, s) ==
  /\ \A k \in 1 .. Len(held) : held[k].at \in 1 .. n /\ held[k].name = d[held[k].at].name
  /\ \A k, l \in 1 .. Len(held) : k < l => held[k].at < held[l].at
  /\ \A j \in held[1].at .. n :
       d[j].kind # "close" <=> \E k \in 1 .. Len(held) : held[k].at = j
  /\ d[held[1].at].kind = "open" /\ s \in d[held[1].at].classOf
  /\ \A name : PlacesOf(held, name) = SinceTo(d, n, held[1].at, name)

LEMMA CollectedAppend ==
  ASSUME NEW d, NEW n \in Nat, NEW s, NEW held \in Seq(Node), NEW node \in Node,
         node.at = n + 1, node.name = d[n + 1].name, d[n + 1].kind # "close",
         IF held = <<>> THEN d[n + 1].kind = "open" /\ s \in d[n + 1].classOf
                        ELSE Collected(held, d, n, s)
  PROVE  Collected(Append(held, node), d, n + 1, s)
<1> DEFINE more == Append(held, node)
           m == Len(held)
<1>1. /\ m \in Nat /\ Len(more) = m + 1 /\ more[m + 1] = node
      /\ \A k \in 1 .. m : more[k] = held[k]
  BY AppendProperties, LenProperties
<1>2. /\ m + 1 \in 1 .. m + 1 /\ \A k \in 1 .. m + 1 : k \in 1 .. m \/ k = m + 1
      /\ 1 .. m \subseteq 1 .. m + 1 /\ n + 1 \in 1 .. n + 1
  BY <1>1
<1>3. \A name : PlacesOf(more, name)
                   = PlacesOf(held, name) \o IF d[n + 1].name = name THEN <<n + 1>> ELSE <<>>
  BY PlacesNext
<1> HIDE DEF more
<1>4. CASE held = <<>>
  <2>1. m = 0 /\ more[1] = node /\ Len(more) = 1
    BY <1>1, <1>4
  <2>2. \A k \in 1 .. 1 : k = 1
    OBVIOUS
  <2>3. \A j \in n + 1 .. n + 1 : j = n + 1
    OBVIOUS
  <2>4. ASSUME NEW name PROVE PlacesOf(more, name) = SinceTo(d, n + 1, n + 1, name)
    <3>1. PlacesOf(held, name) = <<>> /\ SinceTo(d, n, n + 1, name) = <<>>
      BY <1>4, PlacesNone, SinceNone
    <3>2. SinceTo(d, n + 1, n + 1, name)
            = SinceTo(d, n, n + 1, name) \o
                IF Wanted(d, n + 1, n + 1, name) THEN <<n + 1>> ELSE <<>>
      BY SinceNext
    <3>3. Wanted(d, n + 1, n + 1, name) <=> d[n + 1].name = name
      BY DEF Wanted
    <3> QED BY <1>3, <3>1, <3>2, <3>3
  <2> QED BY <1>2, <1>4, <2>1, <2>2, <2>3, <2>4 DEF Collected, more
<1>5. CASE held # <<>>
  <2>1. m > 0 /\ 1 \in 1 .. m /\ more[1] = held[1]
    BY <1>1, <1>5, EmptySeq
  <2>2. /\ \A k \in 1 .. m : held[k].at \in 1 .. n /\ held[k].name = d[held[k].at].name
        /\ \A k, l \in 1 .. m : k < l => held[k].at < held[l].at
        /\ d[held[1].at].kind = "open" /\ s \in d[held[1].at].classOf
    BY <1>5 DEF Collected
  <2>3. \A k \in 1 .. m + 1 : more[k].at \in 1 .. n + 1 /\ more[k].name = d[more[k].at].name
    BY <1>1, <1>2, <2>2
  <2>4. ASSUME NEW k \in 1 .. m + 1, NEW l \in 1 .. m + 1, k < l
        PROVE  more[k].at < more[l].at
    <3>1. k \in 1 .. m
      BY <1>1, <2>4
    <3>2. CASE l \in 1 .. m
      BY <1>1, <2>2, <2>4, <3>1, <3>2
    <3>3. CASE l = m + 1
      BY <1>1, <2>2, <3>1, <3>3
    <3> QED BY <1>2, <3>2, <3>3
  <2>5. ASSUME NEW j \in held[1].at .. n + 1
        PROVE  d[j].kind # "close" <=> \E k \in 1 .. m + 1 : more[k].at = j
    <3>1. CASE j = n + 1
      BY <1>1, <1>2, <3>1
    <3>2. CASE j # n + 1
      <4>1. j \in held[1].at .. n
        BY <2>1, <2>2, <3>2
      <4>2. d[j].kind # "close" <=> \E k \in 1 .. m : held[k].at = j
        BY <1>5, <4>1 DEF Collected
      <4> QED BY <1>1, <1>2, <3>2, <4>2
    <3> QED BY <3>1, <3>2
  <2>6. ASSUME NEW name PROVE PlacesOf(more, name) = SinceTo(d, n + 1, held[1].at, name)
    <3>1. PICK root \in 1 .. n : root = held[1].at
      BY <2>1, <2>2
    <3>2. PlacesOf(held, name) = SinceTo(d, n, root, name)
      BY <1>5, <3>1 DEF Collected
    <3>3. SinceTo(d, n + 1, root, name)
            = SinceTo(d, n, root, name) \o
                IF Wanted(d, n + 1, root, name) THEN <<n + 1>> ELSE <<>>
      BY SinceNext
    <3>4. Wanted(d, n + 1, root, name) <=> d[n + 1].name = name
      BY DEF Wanted
    <3> QED BY <1>3, <3>1, <3>2, <3>3, <3>4
  <2> QED BY <1>1, <2>1, <2>2, <2>3, <2>4, <2>5, <2>6 DEF Collected, more
<1> QED BY <1>4, <1>5

LEMMA CollectedClose ==
  ASSUME NEW d, NEW n \in Nat, NEW s, NEW held \in Seq(Node), held # <<>>,
         d[n + 1].kind = "close", Collected(held, d, n, s)
  PROVE  Collected(held, d, n + 1, s)
<1>1. 1 \in 1 .. Len(held)
  BY EmptySeq, LenProperties
<1>2. \A k \in 1 .. Len(held) : held[k].at \in 1 .. n
  BY DEF Collected
<1>3. ASSUME NEW j \in held[1].at .. n + 1
      PROVE  d[j].kind # "close" <=> \E k \in 1 .. Len(held) : held[k].at = j
  <2>1. CASE j = n + 1
    BY <1>2, <2>1
  <2>2. CASE j # n + 1
    <3>1. j \in held[1].at .. n
      BY <1>1, <1>2, <2>2
    <3> QED BY <3>1 DEF Collected
  <2> QED BY <2>1, <2>2
<1>4. \A k \in 1 .. Len(held) : held[k].at \in 1 .. n + 1
  BY <1>2
<1>5. ASSUME NEW name PROVE PlacesOf(held, name) = SinceTo(d, n + 1, held[1].at, name)
  <2>1. PICK root : root = held[1].at
    OBVIOUS
  <2>2. PlacesOf(held, name) = SinceTo(d, n, root, name)
    BY <2>1 DEF Collected
  <2>3. SinceTo(d, n + 1, root, name) = SinceTo(d, n, root, name) \o <<>>
    <3>1. ~ Wanted(d, n + 1, root, name)
      BY DEF Wanted
    <3>2. SinceTo(d, n + 1, root, name)
            = SinceTo(d, n, root, name) \o
                IF Wanted(d, n + 1, root, name) THEN <<n + 1>> ELSE <<>>
      BY SinceNext
    <3> QED BY <3>1, <3>2
  <2>4. SinceTo(d, n, root, name) \in Seq(Nat)
    BY SinceType
  <2> QED BY <2>1, <2>2, <2>3, <2>4, ConcatEmptySeq
<1> QED BY <1>3, <1>4, <1>5 DEF Collected

LEMMA CollectedSame ==
  ASSUME NEW d, NEW e, NEW n \in Nat, NEW s, NEW held \in Seq(Node), held # <<>>,
         SameTokens(d, e, n), Collected(held, d, n, s)
  PROVE  Collected(held, e, n, s)
<1>1. 1 \in 1 .. Len(held)
  BY EmptySeq, LenProperties
<1>2. /\ \A k \in 1 .. Len(held) : held[k].at \in 1 .. n
      /\ held[1].at .. n \subseteq 1 .. n
  BY <1>1 DEF Collected
<1>3. ASSUME NEW root, NEW name PROVE SinceTo(d, n, root, name) = SinceTo(e, n, root, name)
  <2>1. \A i \in 1 .. n : Wanted(d, i, root, name) <=> Wanted(e, i, root, name)
    BY DEF Wanted, SameTokens
  <2>2. [i \in 1 .. n |-> IF Wanted(d, i, root, name) THEN <<i>> ELSE <<>>]
          = [i \in 1 .. n |-> IF Wanted(e, i, root, name) THEN <<i>> ELSE <<>>]
    BY <2>1
  <2> QED BY <2>2 DEF SinceTo
<1> QED BY <1>1, <1>2, <1>3 DEF Collected, SameTokens

\* An element that is not over begins with an open tag or a text.
LEMMA FilledElement ==
  ASSUME NEW d, NEW n \in Nat, NEW i, CloseAt(d, n, i), i # n
  PROVE  i + 1 \in 1 .. n /\ d[i + 1].kind # "close"
<1>1. i \in 1 .. n /\ EndsElement(d, i, n + 1) /\ IsElement(d, i)
  BY CloseAtFacts DEF CloseAt
<1>2. i + 1 \in i .. n /\ i + 1 \in 1 .. n
  BY <1>1
<1>3. Depth(d, i, i) = 1
  BY <1>1, DepthOfOne
<1>4. d[i + 1].kind = "close" => Depth(d, i, i + 1) = 0
  <2>1. /\ Depth(d, i, i + 1) = Depth(d, i, i)
             + IF IsElement(d, i + 1) THEN 1 ELSE IF d[i + 1].kind = "close" THEN -1 ELSE 0
    BY <1>1, DepthNext
  <2> QED BY <1>3, <2>1 DEF IsElement
<1>5. Depth(d, i, i + 1) > 0
  <2>1. i + 1 \in i .. (n + 1) - 1
    BY <1>2
  <2> QED BY <1>1, <2>1 DEF EndsElement
<1> QED BY <1>2, <1>4, <1>5


\* Nothing is between the root and the close tag that ends its element.
LEMMA EmptyElement ==
  ASSUME NEW d, NEW n \in Nat, NEW s, NEW tree \in Seq(Node), Len(tree) = 1,
         Collected(tree, d, n, s), CloseAt(d, n, tree[1].at)
  PROVE  tree[1].at = n
<1>1. PICK i \in 1 .. n : i = tree[1].at
  BY CloseAtFacts
<1>2. SUFFICES ASSUME i < n PROVE FALSE
  BY <1>1
<1>3. i + 1 \in i .. n
  BY <1>1, <1>2
<1>4. d[i + 1].kind = "close"
  <2>1. \A k \in 1 .. Len(tree) : k = 1
    OBVIOUS
  <2>2. ~ \E k \in 1 .. Len(tree) : tree[k].at = i + 1
    BY <1>1, <2>1
  <2> QED BY <1>1, <1>3, <2>2 DEF Collected
<1> QED BY <1>1, <1>2, <1>4, FilledElement

\* The second node of a tree is the first open tag or text behind its root.
NextIn(d, root, n, node) ==
  /\ node.at \in root + 1 .. n /\ d[node.at].kind # "close"
  /\ node.name = d[node.at].name
  /\ \A j \in root + 1 .. node.at - 1 : d[j].kind = "close"

LEMMA SecondNode ==
  ASSUME NEW d, NEW n \in Nat, NEW s, NEW tree \in Seq(Node), Len(tree) >= 2,
         Collected(tree, d, n, s), NEW root \in Nat, root = tree[1].at
  PROVE  NextIn(d, root, n, tree[2])
<1>1. Len(tree) \in Nat /\ 1 \in 1 .. Len(tree) /\ 2 \in 1 .. Len(tree)
  BY LenProperties
<1>2. PICK m \in 1 .. n : m = tree[2].at
  BY <1>1 DEF Collected
<1>3. m \in root + 1 .. n /\ tree[2].name = d[m].name
  BY <1>1, <1>2 DEF Collected
<1>4. d[m].kind # "close"
  <2>1. m \in root .. n
    BY <1>3
  <2> QED BY <1>1, <1>2, <2>1 DEF Collected
<1>5. ASSUME NEW j \in root + 1 .. m - 1, d[j].kind # "close" PROVE FALSE
  <2>1. j \in root .. n /\ j \in Int
    BY <1>3
  <2>2. PICK k \in 1 .. Len(tree) : tree[k].at = j
    BY <1>5, <2>1 DEF Collected
  <2>3. k # 1 /\ k # 2
    BY <1>2, <2>2
  <2>4. 2 < k
    BY <1>1, <2>2, <2>3
  <2>5. m < j
    BY <1>1, <1>2, <2>2, <2>4 DEF Collected
  <2> QED BY <1>3, <2>5
<1> QED BY <1>2, <1>3, <1>4, <1>5 DEF NextIn

\* Few nodes behind one in the tree are few tokens behind its token.
LEMMA FewBehind ==
  ASSUME NEW d, NEW n \in Nat, NEW s, NEW tree \in Seq(Node),
         Collected(tree, d, n, s), d[n + 1].kind = "close",
         NEW m \in 1 .. Len(tree), Len(tree) - m < 3
  PROVE  Cardinality({j \in tree[m].at + 1 .. n + 1 : d[j].kind # "close"}) < 3
<1> DEFINE S == {j \in tree[m].at + 1 .. n + 1 : d[j].kind # "close"}
           x == tree[m + 1].at
           y == tree[m + 2].at
<1>1. /\ Len(tree) \in Nat /\ 1 \in 1 .. Len(tree) /\ tree[1].at <= tree[m].at
      /\ tree[m].at \in 1 .. n /\ tree[1].at \in 1 .. n
  <2>1. Len(tree) \in Nat /\ 1 \in 1 .. Len(tree)
    BY LenProperties
  <2>2. tree[m].at \in 1 .. n /\ tree[1].at \in 1 .. n /\ (1 < m => tree[1].at < tree[m].at)
    BY <2>1 DEF Collected
  <2>3. CASE m = 1
    BY <2>1, <2>2, <2>3
  <2>4. CASE 1 < m
    BY <2>1, <2>2, <2>4
  <2> QED BY <2>1, <2>3, <2>4
<1>2. ASSUME NEW j \in S PROVE j = x \/ j = y
  <2>1. j # n + 1 /\ j > tree[m].at /\ j \in tree[1].at .. n /\ d[j].kind # "close"
    <3>1. j \in tree[m].at + 1 .. n + 1 /\ d[j].kind # "close" /\ j # n + 1
      OBVIOUS
    <3>2. PICK p, q : p = tree[m].at /\ q = tree[1].at /\ p \in 1 .. n /\ q \in 1 .. n /\ q <= p
      BY <1>1
    <3>3. j \in q .. n /\ j > p
      BY <3>1, <3>2
    <3> QED BY <3>1, <3>2, <3>3
  <2>2. PICK k \in 1 .. Len(tree) : tree[k].at = j
    BY <2>1 DEF Collected
  <2>3. ~ (k < m) /\ k # m
    <3>1. k < m => tree[k].at < tree[m].at
      BY DEF Collected
    <3> QED BY <1>1, <2>1, <2>2, <3>1
  <2>4. k = m + 1 \/ k = m + 2
    <3>1. PICK len \in Nat : len = Len(tree)
      BY <1>1
    <3>2. k \in 1 .. len /\ m \in 1 .. len /\ len - m < 3
      BY <3>1
    <3>3. k > m /\ k < m + 3
      BY <2>3, <3>1, <3>2
    <3> QED BY <3>2, <3>3
  <2> QED BY <2>2, <2>4
<1>3. S \subseteq {x} \cup {y}
  BY <1>2
<1> HIDE DEF S, x, y
<1>4. PICK U : U = {x} \cup {y}
  OBVIOUS
<1>5. IsFiniteSet(U) /\ Cardinality(U) <= 2
  <2>1. PICK A : A = {x} /\ IsFiniteSet(A) /\ Cardinality(A) = 1
    BY FS_Singleton
  <2>2. U = A \cup {y}
    BY <1>4, <2>1
  <2>3. CASE y \in A
    <3>1. U = A
      BY <2>2, <2>3
    <3> QED BY <2>1, <3>1
  <2>4. CASE y \notin A
    <3>1. IsFiniteSet(U) /\ Cardinality(U) = Cardinality(A) + 1
      BY <2>1, <2>2, <2>4, FS_AddElement
    <3> QED BY <2>1, <3>1
  <2> QED BY <2>3, <2>4
<1>6. Cardinality(S) <= Cardinality(U) /\ Cardinality(S) \in Nat /\ Cardinality(U) \in Nat
  BY <1>3, <1>4, <1>5, FS_Subset, FS_CardinalityType
<1> QED BY <1>5, <1>6 DEF S

-----------------------------------------------------------------------------
\* The extractors: what a selector holds, and what made one panic.
HeldInv(s) ==
  LET held == FlattenSeq(ast[s].nodes)
  IN  held # <<>> => Collected(held, doc, Taken(s), s)

ExtractorInv ==
  DocInv /\ (\A s \in Selectors : HeldInv(s)) /\ OnlyMissingPartsPanic

LEMMA SelectorHolds ==
  ASSUME ParserInv, \A t \in Selectors : HeldInv(t),
         NEW s \in Selectors, OnOpen(s) \/ OnText(s) \/ OnClose(s)
  PROVE  \A t \in Selectors : HeldInv(t)'
<1> DEFINE held == FlattenSeq(ast[s].nodes)
           held2 == FlattenSeq(ast'[s].nodes)
<1>1. s \in wg /\ doc' = doc
  BY DEF OnOpen, OnText, OnClose, Handles
<1>2. CollectorTakes(s) /\ OthersStay(s)
  BY OnOpenStep, OnTextStep, OnCloseStep
<1>3. PICK n \in Nat :
        /\ n + 1 = Len(doc) /\ Taken(s) = n
        /\ CurrentNode \in Node /\ CurrentNode.name = doc[n + 1].name
        /\ CurrentNode.at = n + 1
  BY <1>1, HandledNode
<1>4. held \in Seq(Node) /\ (held # <<>> => Collected(held, doc, n, s))
  BY <1>3, PendingIsCollected DEF HeldInv, ParserInv, SelectorInv
<1>5. held2 # <<>> => Collected(held2, doc, n + 1, s)
  <2>1. PICK node : node = [name |-> doc[n + 1].name, at |-> n + 1]
    OBVIOUS
  <2>2. node = CurrentNode
    BY <1>1, <1>3, <2>1, CurrentNodeType DEF CurrentNode
  <2>3. \/ /\ doc[n + 1].kind # "close"
           /\ held # <<>> \/ (doc[n + 1].kind = "open" /\ s \in doc[n + 1].classOf)
           /\ held2 = Append(held, node)
        \/ /\ doc[n + 1].kind = "close" \/ held = <<>>
           /\ held2 = held
        \/ held2 = <<>>
    BY <1>2, <1>3, <2>1 DEF CollectorTakes
  <2> HIDE DEF held, held2
  <2>4. CASE /\ doc[n + 1].kind # "close"
             /\ held # <<>> \/ (doc[n + 1].kind = "open" /\ s \in doc[n + 1].classOf)
             /\ held2 = Append(held, node)
    <3>1. Collected(Append(held, node), doc, n + 1, s)
      BY <1>3, <1>4, <2>2, <2>4, CollectedAppend
    <3> QED BY <2>4, <3>1
  <2>5. CASE (doc[n + 1].kind = "close" \/ held = <<>>) /\ held2 = held
    BY <1>4, <2>5, CollectedClose
  <2> QED BY <2>3, <2>4, <2>5
<1>6. HeldInv(s)'
  <2>1. Taken(s)' = n + 1
    BY <1>2, <1>3 DEF CollectorTakes
  <2> QED BY <1>1, <1>5, <2>1 DEF HeldInv
<1>7. ASSUME NEW t \in Selectors, t # s PROVE HeldInv(t)'
  <2>1. HeldInv(t) /\ ast'[t] = ast[t] /\ Taken(t)' = Taken(t)
    BY <1>2, <1>7 DEF OthersStay
  <2> QED BY <1>1, <2>1 DEF HeldInv
<1> QED BY <1>6, <1>7

LEMMA NextTokenHolds ==
  ASSUME ParserInv, \A s \in Selectors : HeldInv(s), NEW t \in Tokens, NextToken(t)
  PROVE  \A s \in Selectors : HeldInv(s)'
<1>1. /\ wg = {} /\ doc' = Append(doc, t) /\ wg' = Selectors /\ ast' = ast
      /\ doc \in Seq(Tokens) /\ ParserInv
  BY DEF DocInv, NextToken, ParserInv, DocumentInv
<1>2. PICK n \in Nat : n = Len(doc)
  BY <1>1, LenProperties
<1>3. PICK e : e = doc' /\ Len(e) = n + 1 /\ \A k \in 1 .. n : doc[k] = e[k]
  BY <1>1, <1>2, AppendProperties
<1>4. SameTokens(doc, e, n)
  BY <1>3 DEF SameTokens
<1>5. ASSUME NEW s \in Selectors PROVE HeldInv(s)'
  <2>1. Taken(s) = n /\ Taken(s)' = n
    BY <1>1, <1>2, <1>3 DEF Taken
  <2>2. PICK held \in Seq(Node) : held = FlattenSeq(ast[s].nodes)
    BY <1>1, PendingIsCollected DEF ParserInv, SelectorInv
  <2>3. held # <<>> => Collected(held, e, n, s)
    BY <1>4, <2>1, <2>2, CollectedSame DEF HeldInv
  <2> QED BY <1>1, <1>3, <2>1, <2>2, <2>3 DEF HeldInv
<1> QED BY <1>5

\* A tree that an extractor panics at.
PanicsAt(s, i) ==
  /\ s \in doc[i].classOf /\ ClosedBy([name |-> doc[i].name, at |-> i], Len(doc))
  /\ \/ /\ Fields[s] \cap {"title", "preface", "published_at"} # {}
        /\ i = Len(doc) - 1
     \/ "published_at" \in Fields[s] /\ doc[i + 1].date = "panics"
     \/ /\ "info" \in Fields[s]
        /\ \E k \in i .. Len(doc) :
             /\ doc[k].classOf \cap Icons # {}
             /\ Cardinality({j \in k + 1 .. Len(doc) : doc[j].kind # "close"}) < 3

LEMMA SameDocument ==
  ASSUME doc' = doc
  PROVE  /\ WellFormed' <=> WellFormed
         /\ \A s, i : PanicsAt(s, i)' <=> PanicsAt(s, i)
<1>1. ASSUME NEW i, NEW j PROVE EndsAt(i, j)' <=> EndsAt(i, j)
  <2>1. \A k : Opened(i, k)' = Opened(i, k) /\ Closed(i, k)' = Closed(i, k)
    BY DEF Opened, Closed
  <2> QED BY <2>1 DEF EndsAt
<1>2. WellFormed' <=> WellFormed
  BY <1>1 DEF WellFormed
<1>3. ASSUME NEW s, NEW i PROVE PanicsAt(s, i)' <=> PanicsAt(s, i)
  BY DEF PanicsAt, ClosedBy
<1> QED BY <1>2, <1>3

\* The node of an icon, if it is less than three nodes from the end.
LEMMA IconOfTree ==
  ASSUME NEW tree \in Seq(Node), Len(FromIcon(tree)) \in 1 .. 3
  PROVE  \E m \in 1 .. Len(tree) :
           Len(tree) - m < 3 /\ doc[tree[m].at].classOf \cap Icons # {}
<1> DEFINE icons == {k \in DOMAIN tree : ~IsText(tree[k])
                                         /\ doc[tree[k].at].classOf \cap Icons # {}}
<1>1. DOMAIN tree = 1 .. Len(tree) /\ Len(tree) \in Nat
  BY LenProperties
<1>2. icons # {}
  <2>1. CASE icons = {}
    <3>1. FromIcon(tree) = <<>>
      BY <2>1 DEF FromIcon
    <3> QED BY <3>1
  <2> QED BY <2>1
<1>3. FromIcon(tree) = SubSeq(tree, Min(icons), Len(tree))
  BY <1>2 DEF FromIcon
<1>4. Min(icons) \in icons
  <2>1. icons \in SUBSET Nat
    BY <1>1
  <2> HIDE DEF icons
  <2> QED BY <1>2, <2>1, MinIsLeast
<1>5. PICK m : m = Min(icons)
  OBVIOUS
<1>6. m \in 1 .. Len(tree) /\ doc[tree[m].at].classOf \cap Icons # {}
  BY <1>1, <1>4, <1>5
<1>7. Len(SubSeq(tree, m, Len(tree))) = Len(tree) - m + 1
  <2>1. \A k \in m .. Len(tree) : tree[k] \in Node
    BY <1>1, <1>6, ElementOfSeq
  <2>2. Len(SubSeq(tree, m, Len(tree)))
          = IF m <= Len(tree) THEN Len(tree) - m + 1 ELSE 0
    BY <1>1, <1>6, <2>1, SubSeqProperties
  <2> QED BY <1>6, <2>2
<1> HIDE DEF icons
<1>8. Len(tree) - m < 3
  BY <1>1, <1>3, <1>5, <1>6, <1>7
<1> QED BY <1>6, <1>8

LEMMA PanicIsMissing ==
  ASSUME TextApart, DocInv, WellFormed, NEW s \in Selectors, HeldInv(s),
         OnClose(s), trees'[s] # trees[s],
         FollowsNil(s, Last(trees'[s])) \/ DatePanics(s, Last(trees'[s]))
  PROVE  \E i \in DOMAIN doc : PanicsAt(s, i)
<1> DEFINE a == ast[s]
           held == FlattenSeq(a.nodes)
<1>1. /\ ParserInv /\ Sound(a) /\ MatchInv(s) /\ doc \in Seq(Tokens)
      /\ trees \in [Selectors -> Seq(Seq(Node))]
  BY DEF DocInv, ParserInv, SelectorInv, DocumentInv
<1>2. s \in wg /\ Last(doc).kind = "close"
  BY DEF OnClose, Handles
<1>3. PICK n \in Nat :
        /\ n + 1 = Len(doc) /\ Taken(s) = n /\ Last(doc) = doc[n + 1]
        /\ CurrentNode \in Node /\ CurrentNode.name = doc[n + 1].name
        /\ WellFormedTo(doc, n + 1) =>
             /\ WellFormedTo(doc, n)
             /\ doc[n + 1].kind = "close" => \E i : CloseAt(doc, n, i)
  BY <1>1, <1>2, HandledToken
<1>4. WellFormedTo(doc, n + 1)
  BY <1>1, <1>3, WellFormedIs
<1>5. PICK i : CloseAt(doc, n, i)
  BY <1>2, <1>3, <1>4
<1>6. PICK c : c = CloseTag(a, doc[n + 1].name)
  OBVIOUS
<1>7. /\ HasPendingNode(a) /\ c.tree # <<>>
      /\ trees'[s] = Append(trees[s], c.tree)
  BY <1>1, <1>3, <1>6 DEF OnClose
<1>8. IsBuilding(a) /\ held # <<>> /\ held \in Seq(Node)
  BY <1>1, <1>7, PendingIsCollected
<1>9. c.tree = held /\ Head(held) = a.rootNode
  <2>1. doc[n + 1].name \in Names
    BY <1>3, NodesAreNotNone
  <2> QED BY <1>1, <1>6, <1>7, <2>1, CloseTagSound
<1>10. Balanced(doc, a.rootNode, n + 1) /\ a.rootNode.at = i
  <2>1. Matches(a, doc, n)
    BY <1>1, <1>3, <1>4, <1>8 DEF MatchInv
  <2> QED BY <1>1, <1>5, <1>6, <1>7, <1>8, <2>1, CloseMatches
<1>11. Last(trees'[s]) = held
  <2>1. trees[s] \in Seq(Seq(Node)) /\ c.tree \in Seq(Node)
    BY <1>1, <1>8, <1>9
  <2> QED BY <1>7, <1>9, <2>1, AppendProperties, LenProperties DEF Last
<1>12. Collected(held, doc, n, s)
  BY <1>3, <1>8 DEF HeldInv
<1> HIDE DEF held, a
<1>13. /\ Len(held) \in Nat /\ 1 \in 1 .. Len(held) /\ held[1] = a.rootNode
       /\ a.rootNode \in Node /\ i \in 1 .. n
  <2>1. Len(held) \in Nat /\ 1 \in 1 .. Len(held) /\ Head(held) = held[1] /\ held[1] \in Node
    BY <1>8, LenProperties, EmptySeq, ElementOfSeq
  <2> QED BY <1>5, <1>9, <2>1, CloseAtFacts
<1>14. doc[i].name = a.rootNode.name /\ s \in doc[i].classOf /\ i \in DOMAIN doc
  <2>1. DOMAIN doc = 1 .. n + 1
    BY <1>1, <1>3, LenProperties
  <2> QED BY <1>10, <1>12, <1>13, <2>1 DEF Collected
<1>15. ClosedBy([name |-> doc[i].name, at |-> i], Len(doc))
  <2>1. a.rootNode = [name |-> doc[i].name, at |-> i]
    BY <1>10, <1>13, <1>14 DEF Node
  <2> QED BY <1>3, <1>10, <2>1, ClosedByIsBalanced
<1>16. FollowsNil(s, held) \/ DatePanics(s, held)
  BY <1>11
<1>17. CASE Fields[s] \cap {"title", "preface", "published_at"} # {} /\ Len(held) < 2
  <2>1. Len(held) = 1 /\ held[1].at = i
    <3>1. \A l \in Nat : 1 \in 1 .. l /\ l < 2 => l = 1
      OBVIOUS
    <3> QED BY <1>10, <1>13, <1>17, <3>1
  <2>2. i = n
    BY <1>5, <1>8, <1>12, <2>1, EmptyElement
  <2>3. i = Len(doc) - 1
    BY <1>3, <2>2
  <2> QED BY <1>14, <1>15, <1>17, <2>3 DEF PanicsAt
<1>18. CASE "info" \in Fields[s] /\ Len(FromIcon(held)) \in 1 .. 3
  <2>1. PICK m \in 1 .. Len(held) :
          Len(held) - m < 3 /\ doc[held[m].at].classOf \cap Icons # {}
    BY <1>8, <1>18, IconOfTree
  <2>2. Cardinality({j \in held[m].at + 1 .. n + 1 : doc[j].kind # "close"}) < 3
    BY <1>2, <1>3, <1>8, <1>12, <2>1, FewBehind
  <2>3. held[m].at \in i .. Len(doc)
    <3>1. held[m].at \in 1 .. n /\ (m > 1 => held[1].at < held[m].at)
      BY <1>12, <1>13 DEF Collected
    <3>2. CASE m = 1
      BY <1>3, <1>10, <1>13, <3>1, <3>2
    <3>3. CASE m > 1
      BY <1>3, <1>10, <1>13, <3>1, <3>3
    <3> QED BY <1>13, <3>2, <3>3
  <2> QED BY <1>3, <1>14, <1>15, <1>18, <2>1, <2>2, <2>3 DEF PanicsAt
<1>19. CASE DatePanics(s, held)
  <2>1. "published_at" \in Fields[s] /\ Len(held) >= 2 /\ doc[held[2].at].date = "panics"
    BY <1>19 DEF DatePanics
  <2>2. i = held[1].at /\ i \in Nat
    BY <1>10, <1>13
  <2>3. PICK m : /\ m = held[2].at /\ m \in i + 1 .. n
                 /\ \A j \in i + 1 .. m - 1 : doc[j].kind = "close"
    <3>1. NextIn(doc, i, n, held[2])
      BY <1>8, <1>12, <2>1, <2>2, SecondNode
    <3> QED BY <3>1 DEF NextIn
  <2>4. i # n
    BY <1>13, <2>3
  <2>5. doc[i + 1].kind # "close"
    BY <1>5, <2>4, FilledElement
  <2>6. m = i + 1
    BY <2>2, <2>3, <2>5
  <2> QED BY <1>14, <1>15, <2>1, <2>3, <2>6 DEF PanicsAt
<1> QED BY <1>16, <1>17, <1>18, <1>19 DEF FollowsNil

LEMMA ExtractorInvariant == ASSUME TextApart PROVE ExtractorSpec => []ExtractorInv
<1>1. ExtractorInit => ExtractorInv
  <2>1. SUFFICES ASSUME ExtractorInit PROVE ExtractorInv
    OBVIOUS
  <2>2. Init /\ ~panicked
    BY <2>1 DEF ExtractorInit
  <2>3. DocInv
    BY <2>2, InitSound DEF DocInv, MatchInv, Init, EmptyAst, IsBuilding
  <2>4. \A s \in Selectors : HeldInv(s)
    BY <2>2, FlattenEmpty DEF Init, HeldInv, EmptyAst
  <2> QED BY <2>2, <2>3, <2>4 DEF ExtractorInv, OnlyMissingPartsPanic
<1>2. ExtractorInv /\ [ExtractorNext]_extractorVars => ExtractorInv'
  <2> SUFFICES ASSUME ExtractorInv, [ExtractorNext]_extractorVars PROVE ExtractorInv'
    OBVIOUS
  <2>1. DocInv /\ ParserInv /\ \A s \in Selectors : HeldInv(s)
    BY DEF ExtractorInv, DocInv
  <2>2. ASSUME DocInv', \A s \in Selectors : HeldInv(s)', ~panicked' PROVE ExtractorInv'
    BY <2>2 DEF ExtractorInv, OnlyMissingPartsPanic
  <2>3. CASE UNCHANGED extractorVars
    <3>1. UNCHANGED <<doc, wg, ast, trees, ended, panicked>>
      BY <2>3 DEF extractorVars, vars
    <3>2. DocInv' /\ \A s \in Selectors : HeldInv(s)'
      BY <2>1, <3>1 DEF DocInv, ParserInv, DocumentInv, SelectorInv, Taken, MatchInv, HeldInv
    <3>3. OnlyMissingPartsPanic'
      <4>1. panicked /\ WellFormed =>
              \E s \in Selectors, i \in DOMAIN doc : PanicsAt(s, i)
        BY DEF ExtractorInv, OnlyMissingPartsPanic, PanicsAt
      <4>2. panicked' /\ WellFormed' =>
              \E s \in Selectors, i \in DOMAIN doc' : PanicsAt(s, i)'
        BY <3>1, <4>1, SameDocument
      <4> QED BY <4>2 DEF OnlyMissingPartsPanic, PanicsAt
    <3> QED BY <3>2, <3>3 DEF ExtractorInv
  <2>4. ASSUME NEW t \in Tokens, NextToken(t), UNCHANGED panicked, ~panicked
        PROVE  ExtractorInv'
    BY <2>1, <2>2, <2>4, NextTokenMatches, NextTokenHolds
  <2>5. ASSUME NEW s \in Selectors, OnOpen(s) \/ OnText(s), UNCHANGED panicked, ~panicked
        PROVE  ExtractorInv'
    BY <2>1, <2>2, <2>5, SelectorMatches, SelectorHolds
  <2>6. CASE EndOfFile /\ UNCHANGED panicked /\ ~panicked
    <3>1. UNCHANGED <<doc, wg, ast, trees>> /\ ParserInv'
      BY <2>1, <2>6, EndOfFileStep
    <3>2. DocInv' /\ \A s \in Selectors : HeldInv(s)'
      BY <2>1, <3>1 DEF DocInv, MatchInv, Taken, HeldInv
    <3> QED BY <2>2, <2>6, <3>2
  <2>7. ASSUME NEW s \in Selectors, TreeComplete(s), ~panicked
        PROVE  ExtractorInv'
    <3>1. OnClose(s) /\ doc' = doc
      BY <2>7 DEF TreeComplete, OnClose, Handles
    <3>2. DocInv' /\ \A t \in Selectors : HeldInv(t)'
      BY <2>1, <3>1, SelectorMatches, SelectorHolds
    <3>3. CASE trees' = trees
      BY <2>2, <2>7, <3>2, <3>3 DEF TreeComplete
    <3>4. CASE trees' # trees
      <4>1. trees'[s] # trees[s]
        <5>1. trees \in [Selectors -> Seq(Seq(Node))] /\ trees' \in [Selectors -> Seq(Seq(Node))]
          BY <2>1, <3>2 DEF ParserInv, DocInv
        <5>2. \A t \in Selectors \ {s} : trees'[t] = trees[t]
          BY <2>1, <3>1, OnCloseStep DEF OthersStay
        <5> QED BY <3>4, <5>1, <5>2
      <4>2. panicked' = (FollowsNil(s, Last(trees'[s])) \/ DatePanics(s, Last(trees'[s])))
        BY <2>7, <3>4 DEF TreeComplete
      <4>3. panicked' /\ WellFormed => \E i \in DOMAIN doc : PanicsAt(s, i)
        BY <2>1, <3>1, <4>1, <4>2, PanicIsMissing
      <4>4. OnlyMissingPartsPanic'
        <5>1. panicked' /\ WellFormed' => \E i \in DOMAIN doc' : PanicsAt(s, i)'
          BY <3>1, <4>3, SameDocument
        <5> QED BY <5>1 DEF OnlyMissingPartsPanic, PanicsAt
      <4> QED BY <3>2, <4>4 DEF ExtractorInv
    <3> QED BY <3>3, <3>4
  <2> QED BY <2>3, <2>4, <2>5, <2>6, <2>7 DEF ExtractorNext
<1> QED BY <1>1, <1>2, PTL DEF ExtractorSpec

\* In a well-formed page an extractor panics only where a part is missing: at
\* the end of an element with nothing in it, at one with fewer than three nodes
\* behind its icon, or at one that begins with a date whose time has no colon.
THEOREM PanicsOnlyAtMissingParts ==
  ASSUME TextApart PROVE ExtractorSpec => []OnlyMissingPartsPanic
<1>1. ExtractorInv => OnlyMissingPartsPanic
  BY DEF ExtractorInv
<1> QED BY <1>1, ExtractorInvariant, PTL

\* The extractors do not change what the parser does.
LEMMA ExtractorParses == ExtractorSpec => Spec
<1>1. ExtractorInit => Init
  BY DEF ExtractorInit
<1>2. [ExtractorNext]_extractorVars => [Next]_vars
  BY DEF ExtractorNext, extractorVars, TreeComplete, Next
<1> QED BY <1>1, <1>2, PTL DEF ExtractorSpec, Spec

\* What the selectors hold, in any document.
TreesInv == ParserInv /\ \A s \in Selectors : HeldInv(s)

LEMMA TreesStep ==
  ASSUME TreesInv, [Next]_vars
  PROVE  TreesInv'
<1>1. ParserInv /\ ParserInv' /\ \A s \in Selectors : HeldInv(s)
  BY StepSound DEF TreesInv
<1>2. CASE UNCHANGED <<doc, wg, ast>>
  BY <1>1, <1>2 DEF TreesInv, HeldInv, Taken
<1>3. ASSUME NEW t \in Tokens, NextToken(t) PROVE TreesInv'
  BY <1>1, <1>3, NextTokenHolds DEF TreesInv
<1>4. ASSUME NEW s \in Selectors, OnOpen(s) \/ OnText(s) \/ OnClose(s) PROVE TreesInv'
  BY <1>1, <1>4, SelectorHolds DEF TreesInv
<1> QED BY <1>2, <1>3, <1>4 DEF Next, EndOfFile, vars

LEMMA TreesInvariant == Spec => []TreesInv
<1>1. Init => TreesInv
  BY InitSound, FlattenEmpty DEF TreesInv, Init, HeldInv, EmptyAst
<1>2. TreesInv /\ [Next]_vars => TreesInv'
  BY TreesStep
<1> QED BY <1>1, <1>2, PTL DEF Spec

\* The fields of a selector after it handed over a tree.
FieldsHold(s) ==
  LET root   == Head(Last(trees'[s])).at
      images == Since(root, "img")
      first  == FirstBehind(root)
  IN  /\ "content" \in Fields[s] => article'["content"] = Since(root, TextName)
      /\ "content_images" \in Fields[s] =>
           article'["content_images"] = article["content_images"] \o images
      /\ "main_image" \in Fields[s] /\ images # <<>> =>
           article'["main_image"] = <<Head(images)>>
      /\ \A f \in Fields[s] \cap {"title", "preface"} :
           article'[f] = IF doc[first].name = TextName THEN <<first>> ELSE <<>>
      /\ "published_at" \in Fields[s] =>
           article'["published_at"] = IF doc[first].date = "read" THEN <<first>> ELSE <<>>

LEMMA TreeHolds ==
  ASSUME TreesInv, NEW s \in Selectors, TreeComplete(s), trees'[s] # trees[s], ~panicked'
  PROVE  FieldsHold(s)
<1>1. /\ ParserInv /\ HeldInv(s) /\ OnClose(s) /\ s \in wg
      /\ doc \in Seq(Tokens) /\ trees \in [Selectors -> Seq(Seq(Node))]
  BY DEF TreesInv, TreeComplete, OnClose, Handles, ParserInv, DocumentInv
<1>2. CollectorTakes(s)
  BY <1>1, OnCloseStep
<1>3. PICK held \in Seq(Node) : held = FlattenSeq(ast[s].nodes)
  BY <1>1, PendingIsCollected DEF ParserInv, SelectorInv
<1>4. PICK n \in Nat : n + 1 = Len(doc) /\ Taken(s) = n
  BY <1>1, HandledNode
<1>5. doc[n + 1].kind = "close" /\ held # <<>> /\ trees'[s] = Append(trees[s], held)
  BY <1>2, <1>3, <1>4 DEF CollectorTakes
<1>6. Last(trees'[s]) = held /\ Head(held) = held[1]
  <2>1. trees[s] \in Seq(Seq(Node))
    BY <1>1
  <2> QED BY <1>5, <2>1, AppendProperties, LenProperties DEF Last
<1>7. PICK root : root = held[1].at
  OBVIOUS
<1>0. Collected(held, doc, n, s)
  BY <1>1, <1>3, <1>4, <1>5 DEF HeldInv
<1>8. \A name : PlacesOf(held, name) = SinceTo(doc, n + 1, root, name)
  <2>2. Collected(held, doc, n + 1, s)
    BY <1>0, <1>5, CollectedClose
  <2> QED BY <1>7, <2>2 DEF Collected
<1>9. \A name : Since(root, name) = SinceTo(doc, n + 1, root, name)
  <2>1. DOMAIN doc = 1 .. n + 1
    BY <1>1, <1>4, LenProperties
  <2> QED BY <2>1 DEF Since, SinceTo, Wanted
<1>10. Images(held) = Since(root, "img") /\ Contents(held) = Since(root, TextName)
  <2>1. Images(held) = PlacesOf(held, "img") /\ Contents(held) = PlacesOf(held, TextName)
    BY DEF Images, Contents, PlacesOf, Content, IsText
  <2> QED BY <1>8, <1>9, <2>1
<1>11. \A f \in Fields[s] : f \in FieldTypes /\ article'[f] = Extract(f, held)
  <2>1. Fields[s] \subseteq FieldTypes
    BY FieldsAssumption
  <2> QED BY <1>6, <2>1 DEF TreeComplete
<1>12. "content" \in Fields[s] => article'["content"] = Since(root, TextName)
  BY <1>10, <1>11 DEF Extract
<1>13. "content_images" \in Fields[s] =>
         article'["content_images"] = article["content_images"] \o Since(root, "img")
  BY <1>10, <1>11 DEF Extract
<1>14. "main_image" \in Fields[s] /\ Since(root, "img") # <<>> =>
         article'["main_image"] = <<Head(Since(root, "img"))>>
  BY <1>10, <1>11 DEF Extract
<1>15. ASSUME Fields[s] \cap {"title", "preface", "published_at"} # {}
       PROVE  FirstBehind(root) = held[2].at /\ held[2].name = doc[FirstBehind(root)].name
  <2>1. Len(held) >= 2
    <3>1. ~ FollowsNil(s, held)
      BY <1>6 DEF TreeComplete
    <3>2. Len(held) \in Nat
      BY LenProperties
    <3> QED BY <1>15, <3>1, <3>2 DEF FollowsNil
  <2>2. root \in Nat
    <3>1. 1 \in 1 .. Len(held)
      BY <1>5, LenProperties, EmptySeq
    <3> QED BY <1>0, <1>7, <3>1 DEF Collected
  <2>3. PICK m : /\ m = held[2].at /\ m \in root + 1 .. n /\ doc[m].kind # "close"
                 /\ held[2].name = doc[m].name
                 /\ \A j \in root + 1 .. m - 1 : doc[j].kind = "close"
    <3>1. NextIn(doc, root, n, held[2])
      BY <1>0, <1>3, <1>4, <1>7, <2>1, <2>2, SecondNode
    <3> QED BY <3>1 DEF NextIn
  <2>4. FirstBehind(root) = m
    <3> DEFINE S == {i \in root + 1 .. Len(doc) : doc[i].kind # "close"}
    <3>1. m \in S /\ S \in SUBSET Nat
      BY <1>4, <2>2, <2>3
    <3>2. \A i \in S : m <= i
      BY <1>4, <2>2, <2>3
    <3> HIDE DEF S
    <3>3. Min(S) \in S /\ \A i \in S : Min(S) <= i
      BY <3>1, MinIsLeast
    <3>4. Min(S) = m
      <4>1. Min(S) \in Nat /\ m \in Nat /\ Min(S) <= m /\ m <= Min(S)
        BY <3>1, <3>2, <3>3
      <4> QED BY <4>1
    <3> QED BY <3>4 DEF FirstBehind, S
  <2> QED BY <2>3, <2>4
<1>16. ASSUME NEW f \in Fields[s] \cap {"title", "preface"}
       PROVE  article'[f] = IF doc[FirstBehind(root)].name = TextName
                            THEN <<FirstBehind(root)>> ELSE <<>>
  <2>1. article'[f] = Content(held[2])
    BY <1>11, <1>16 DEF Extract
  <2> QED BY <1>15, <2>1 DEF Content, IsText
<1>17. "published_at" \in Fields[s] =>
         article'["published_at"] = IF doc[FirstBehind(root)].date = "read"
                                    THEN <<FirstBehind(root)>> ELSE <<>>
  <2>1. "published_at" \in Fields[s] => article'["published_at"] = DateRead(held[2])
    BY <1>11 DEF Extract
  <2> QED BY <1>15, <2>1 DEF DateRead
<1> QED BY <1>6, <1>7, <1>12, <1>13, <1>14, <1>16, <1>17 DEF FieldsHold

\* Whatever tags were lost or never closed, the content of an article is every
\* text between the open tag of the selected element and the close tag it ended
\* at, its images are the images there, and its title, preface and date are what
\* is right behind the open tag.
THEOREM FieldsOfAnyPage == ExtractorSpec => FieldsHoldTheElement
<1>1. TreesInv /\ [ExtractorNext]_extractorVars =>
        [\A s \in Selectors : trees[s] # trees'[s] /\ ~panicked' => FieldsHold(s)]_extractorVars
  <2> SUFFICES ASSUME TreesInv, ExtractorNext, NEW s \in Selectors,
                      trees[s] # trees'[s], ~panicked'
               PROVE  FieldsHold(s)
    OBVIOUS
  <2>1. PICK u \in Selectors : TreeComplete(u)
    BY DEF ExtractorNext, NextToken, OnOpen, OnText, EndOfFile
  <2>2. u = s
    <3>1. OthersStay(u)
      BY <2>1, OnCloseStep DEF TreesInv, TreeComplete
    <3> QED BY <3>1 DEF OthersStay
  <2> QED BY <2>1, <2>2, TreeHolds
<1>2. ExtractorSpec => Spec
  BY ExtractorParses
<1> QED BY <1>1, <1>2, TreesInvariant, PTL DEF ExtractorSpec, FieldsHoldTheElement, FieldsHold

-----------------------------------------------------------------------------
\* The bytes that pieces are made of.
Byte == UNION {ToSet(p.bytes) : p \in Pieces}

LEMMA PieceBytes ==
  ASSUME NEW p \in Pieces
  PROVE  p.bytes \in Seq(Byte) /\ Len(p.bytes) \in Nat \ {0}
<1>1. PICK S : S = ToSet(p.bytes)
  OBVIOUS
<1>2. p.bytes \in Seq(S) /\ p.bytes # <<>>
  BY <1>1, PiecesAssumption
<1>3. S \subseteq Byte
  BY <1>1 DEF Byte
<1> QED BY <1>2, <1>3, SeqMonotonic, EmptySeq

\* The bytes of the first k pieces.
BytesOf(pieces, k) == FlattenSeq([i \in 1 .. k |-> pieces[i].bytes])

Pos(pieces, k) == Len(BytesOf(pieces, k))

\* The bytes of the pieces, one piece more at a time.
LEMMA BytesNext ==
  ASSUME NEW pieces \in Seq(Pieces), NEW k \in Nat, k + 1 <= Len(pieces)
  PROVE  /\ BytesOf(pieces, k) \in Seq(Byte) /\ pieces[k + 1] \in Pieces
         /\ BytesOf(pieces, k + 1) = BytesOf(pieces, k) \o pieces[k + 1].bytes
<1>1. PICK f : f = [i \in 1 .. k |-> pieces[i].bytes]
  OBVIOUS
<1>2. PICK g : g = [i \in 1 .. k + 1 |-> pieces[i].bytes]
  OBVIOUS
<1>3. \A i \in 1 .. k + 1 : pieces[i] \in Pieces /\ pieces[i].bytes \in Seq(Byte)
  <2>1. \A i \in 1 .. k + 1 : i \in 1 .. Len(pieces)
    BY LenProperties
  <2> QED BY <2>1, ElementOfSeq, PieceBytes
<1>4. f \in [1 .. k -> Seq(Byte)] /\ g \in [1 .. k + 1 -> Seq(Byte)]
  BY <1>1, <1>2, <1>3
<1>5. Agree(f, g, k) /\ g[k + 1] = pieces[k + 1].bytes /\ k + 1 \in 1 .. k + 1
  BY <1>1, <1>2 DEF Agree
<1>6. FlattenSeq(g) = FlattenSeq(f) \o g[k + 1]
  BY <1>4, <1>5, FlattenNext
<1>7. f \in Seq(Seq(Byte))
  BY <1>4
<1> QED BY <1>1, <1>2, <1>3, <1>5, <1>6, <1>7, FlattenType DEF BytesOf

LEMMA BytesType ==
  ASSUME NEW pieces \in Seq(Pieces), NEW k \in 0 .. Len(pieces)
  PROVE  BytesOf(pieces, k) \in Seq(Byte) /\ Pos(pieces, k) \in Nat
<1>1. PICK f : f = [i \in 1 .. k |-> pieces[i].bytes]
  OBVIOUS
<1>2. k \in Nat /\ k <= Len(pieces)
  BY LenProperties
<1>3. \A i \in 1 .. k : pieces[i].bytes \in Seq(Byte)
  <2>1. \A i \in 1 .. k : i \in 1 .. Len(pieces)
    BY <1>2, LenProperties
  <2> QED BY <2>1, ElementOfSeq, PieceBytes
<1>4. f \in [1 .. k -> Seq(Byte)]
  BY <1>1, <1>3
<1>5. f \in Seq(Seq(Byte))
  BY <1>2, <1>4
<1> QED BY <1>1, <1>5, FlattenType, LenProperties DEF BytesOf, Pos

\* s is how t begins.
Begins(s, t) == Len(s) <= Len(t) /\ \A i \in 1 .. Len(s) : t[i] = s[i]

LEMMA BytesGrow ==
  ASSUME NEW pieces \in Seq(Pieces), NEW k \in Nat, NEW m \in Nat, k <= m, m <= Len(pieces)
  PROVE  Begins(BytesOf(pieces, k), BytesOf(pieces, m))
<1> DEFINE P(x) == x <= Len(pieces) /\ k <= x => Begins(BytesOf(pieces, k), BytesOf(pieces, x))
           N == {x \in Nat : P(x)}
<1>1. Len(pieces) \in Nat
  BY LenProperties
<1>2. ASSUME NEW x \in Nat, P(x) PROVE P(x + 1)
  <2>1. SUFFICES ASSUME x + 1 <= Len(pieces), k <= x + 1
                 PROVE  Begins(BytesOf(pieces, k), BytesOf(pieces, x + 1))
    OBVIOUS
  <2>2. CASE k = x + 1
    <3>1. BytesOf(pieces, k) \in Seq(Byte)
      BY <1>1, <2>1, <2>2, BytesType
    <3> QED BY <2>2, <3>1, LenProperties DEF Begins
  <2>3. CASE k <= x
    <3>1. PICK s \in Seq(Byte) : s = BytesOf(pieces, k)
      BY <1>1, <2>1, <2>3, BytesType
    <3>2. PICK t \in Seq(Byte) : t = BytesOf(pieces, x)
      BY <1>1, <2>1, <2>3, BytesType
    <3>3. PICK e \in Seq(Byte) : e = pieces[x + 1].bytes
      BY <2>1, BytesNext, PieceBytes
    <3>4. BytesOf(pieces, x + 1) = t \o e
      BY <2>1, <3>2, <3>3, BytesNext
    <3>5. Begins(s, t)
      BY <1>1, <1>2, <2>1, <2>3, <3>1, <3>2
    <3>6. Begins(s, t \o e)
      <4>1. Len(s) \in Nat /\ Len(t) \in Nat /\ Len(e) \in Nat
        BY LenProperties
      <4> QED BY <3>5, <4>1, ConcatProperties DEF Begins
    <3> QED BY <3>1, <3>4, <3>6
  <2> QED BY <2>1, <2>2, <2>3
<1>3. P(0)
  <2>1. SUFFICES ASSUME k <= 0 PROVE Begins(BytesOf(pieces, k), BytesOf(pieces, 0))
    OBVIOUS
  <2>2. k = 0 /\ BytesOf(pieces, 0) \in Seq(Byte)
    BY <1>1, <2>1, BytesType
  <2> QED BY <2>2, LenProperties DEF Begins
<1> HIDE DEF P
<1>4. N = Nat
  <2>1. N \in SUBSET Nat /\ 0 \in N /\ \A x \in N : x + 1 \in N
    BY <1>2, <1>3
  <2> HIDE DEF N
  <2> QED BY <2>1, SetInduction
<1>5. P(m)
  BY <1>4
<1> QED BY <1>5 DEF P

\* Where the pieces are in the page.
LEMMA Places ==
  ASSUME NEW pieces \in Seq(Pieces), NEW k \in 0 .. Len(pieces)
  PROVE  /\ Pos(pieces, 0) = 0
         /\ Pos(pieces, k) \in 0 .. Pos(pieces, Len(pieces))
         /\ k # Len(pieces) =>
              /\ k + 1 \in 1 .. Len(pieces) /\ pieces[k + 1] \in Pieces
              /\ Len(pieces[k + 1].bytes) \in Nat \ {0}
              /\ Pos(pieces, k + 1) = Pos(pieces, k) + Len(pieces[k + 1].bytes)
              /\ Pos(pieces, k + 1) <= Pos(pieces, Len(pieces))
              /\ \A j \in 1 .. Len(pieces[k + 1].bytes) :
                   BytesOf(pieces, Len(pieces))[Pos(pieces, k) + j] = pieces[k + 1].bytes[j]
<1>1. PICK n \in Nat : n = Len(pieces) /\ k \in Nat /\ k <= n
  BY LenProperties
<1>2. Pos(pieces, 0) = 0
  <2>1. [i \in 1 .. 0 |-> pieces[i].bytes] = <<>>
    OBVIOUS
  <2> QED BY <2>1, FlattenEmpty, EmptySeq DEF Pos, BytesOf
<1>3. Pos(pieces, k) \in 0 .. Pos(pieces, n)
  <2>1. Pos(pieces, k) \in Nat /\ Pos(pieces, n) \in Nat
    BY <1>1, BytesType
  <2>2. Begins(BytesOf(pieces, k), BytesOf(pieces, n))
    BY <1>1, BytesGrow
  <2> QED BY <2>1, <2>2 DEF Begins, Pos
<1>4. ASSUME k # n
      PROVE  /\ k + 1 \in 1 .. n /\ pieces[k + 1] \in Pieces
             /\ Len(pieces[k + 1].bytes) \in Nat \ {0}
             /\ Pos(pieces, k + 1) = Pos(pieces, k) + Len(pieces[k + 1].bytes)
             /\ Pos(pieces, k + 1) <= Pos(pieces, n)
             /\ \A j \in 1 .. Len(pieces[k + 1].bytes) :
                  BytesOf(pieces, n)[Pos(pieces, k) + j] = pieces[k + 1].bytes[j]
  <2>1. k + 1 <= n /\ k + 1 \in 1 .. n
    BY <1>1, <1>4
  <2>2. PICK s \in Seq(Byte) : s = BytesOf(pieces, k)
    BY <1>1, BytesType
  <2>3. PICK e \in Seq(Byte) : e = pieces[k + 1].bytes /\ Len(e) \in Nat \ {0}
    BY <1>1, <2>1, BytesNext, PieceBytes
  <2>4. BytesOf(pieces, k + 1) = s \o e /\ pieces[k + 1] \in Pieces
    BY <1>1, <2>1, <2>2, <2>3, BytesNext
  <2>5. Begins(s \o e, BytesOf(pieces, n))
    <3>1. PICK m \in Nat : m = k + 1 /\ m <= n
      BY <1>1, <2>1
    <3>2. Begins(BytesOf(pieces, m), BytesOf(pieces, n))
      BY <1>1, <3>1, BytesGrow
    <3> QED BY <2>4, <3>1, <3>2
  <2>6. /\ Len(s) \in Nat /\ Len(s \o e) = Len(s) + Len(e)
        /\ \A i \in 1 .. Len(s) + Len(e) :
             (s \o e)[i] = IF i <= Len(s) THEN s[i] ELSE e[i - Len(s)]
    BY <2>3, ConcatProperties, LenProperties
  <2>7. ASSUME NEW j \in 1 .. Len(e) PROVE BytesOf(pieces, n)[Len(s) + j] = e[j]
    <3>1. Len(s) + j \in 1 .. Len(s) + Len(e) /\ ~(Len(s) + j <= Len(s))
          /\ (Len(s) + j) - Len(s) = j
      BY <2>3, <2>6
    <3>2. (s \o e)[Len(s) + j] = e[j]
      BY <2>6, <3>1
    <3> QED BY <2>5, <2>6, <3>1, <3>2 DEF Begins
  <2> QED BY <2>1, <2>2, <2>3, <2>4, <2>5, <2>6, <2>7 DEF Begins, Pos
<1> QED BY <1>1, <1>2, <1>3, <1>4

-----------------------------------------------------------------------------
\* The buffer and its cursors.

Cursors == [start : Nat, end : Nat]

\* Inductive: between CallNext and the end of the token nothing was kept of it yet,
\* and a byte behind "<" is looked at only when there is a "<".
CursorInv ==
  /\ page \in Seq(Pieces)
  /\ buf \in Seq(Byte) /\ bufCap \in Nat \ {0}
  /\ reader \in Cursors /\ data \in Cursors
  /\ TokenizerTypeOK
  /\ pc \in {"scan", "ahead"} => data = [start |-> reader.start, end |-> reader.start]
  /\ pc = "ahead" => reader.start < reader.end

\* The page's bytes are those of all its pieces.
LEMMA PageBytes ==
  ASSUME page \in Seq(Pieces)
  PROVE  Bytes = BytesOf(page, Len(page)) /\ Bytes \in Seq(Byte) /\ Len(Bytes) \in Nat
<1>1. DOMAIN page = 1 .. Len(page) /\ Len(page) \in 0 .. Len(page)
  BY LenProperties
<1>2. Bytes = BytesOf(page, Len(page))
  BY <1>1 DEF Bytes, BytesOf
<1> QED BY <1>1, <1>2, BytesType, LenProperties

SamePage == page' = page /\ Bytes' = Bytes

LEMMA Same == ASSUME page' = page PROVE SamePage
BY DEF SamePage, Bytes

\* What a read of n bytes does to the buffer.
LEMMA RefillTypes ==
  ASSUME CursorInv, NEW n \in 0 .. Len(Bytes) - sent, Refill(n)
  PROVE  /\ SamePage /\ Reading /\ UNCHANGED <<state, tokens>>
         /\ NumElems \in Nat /\ NumElems = Len(buf) - reader.start /\ reader.end = Len(buf)
         /\ buf' \in Seq(Byte) /\ Len(buf') = NumElems + n
         /\ bufCap' \in Nat \ {0} /\ Len(buf') <= bufCap'
         /\ sent' = sent + n /\ sent' \in 0 .. Len(Bytes)
         /\ data' = [start |-> data.start - reader.start, end |-> data.end - reader.start]
         /\ data' \in Cursors /\ data'.start <= data'.end /\ data'.end <= NumElems
         /\ SubSeq(Bytes, sent + 1, sent + n) \in Seq(Byte)
         /\ Len(SubSeq(Bytes, sent + 1, sent + n)) = n
         /\ SubSeq(buf, reader.start + 1, reader.end) \in Seq(Byte)
         /\ Len(SubSeq(buf, reader.start + 1, reader.end)) = NumElems
<1>1. /\ Bytes \in Seq(Byte) /\ Len(Bytes) \in Nat /\ sent \in 0 .. Len(Bytes)
      /\ Len(buf) \in Nat /\ SamePage
  BY PageBytes, LenProperties, Same DEF CursorInv, TokenizerTypeOK, Refill
<1>2. PICK rs \in Nat, re \in Nat, ds \in Nat, de \in Nat :
        /\ reader.start = rs /\ reader.end = re /\ data.start = ds /\ data.end = de
        /\ rs <= re /\ re = Len(buf) /\ rs <= ds /\ ds <= de /\ de <= re
  BY DEF CursorInv, Cursors, TokenizerTypeOK, Refill
<1>3. NumElems = re - rs /\ NumElems \in Nat
  BY <1>2 DEF NumElems
<1>4. PICK a : a = SubSeq(buf, rs + 1, re)
  OBVIOUS
<1>5. a \in Seq(Byte) /\ Len(a) = re - rs
  <2>1. \A i \in rs + 1 .. re : buf[i] \in Byte
    BY <1>1, <1>2, ElementOfSeq DEF CursorInv
  <2> QED BY <1>2, <1>4, <2>1, SubSeqProperties
<1>6. PICK b : b = SubSeq(Bytes, sent + 1, sent + n)
  OBVIOUS
<1>7. b \in Seq(Byte) /\ Len(b) = n /\ sent + n \in 0 .. Len(Bytes)
  <2>4. PICK z \in Nat : z = Len(Bytes)
    BY <1>1
  <2>5. PICK x \in Nat : x = sent /\ x <= z
    BY <1>1, <2>4
  <2>6. n \in 0 .. z - x
    BY <2>4, <2>5
  <2>1. x = sent /\ z = Len(Bytes) /\ x <= z /\ n \in Nat /\ x + n <= z
    BY <2>4, <2>5, <2>6
  <2>2. \A i \in x + 1 .. x + n : Bytes[i] \in Byte
    BY <1>1, <2>1, ElementOfSeq
  <2>3. b \in Seq(Byte) /\ Len(b) = IF x + 1 <= x + n THEN (x + n) - (x + 1) + 1 ELSE 0
    BY <1>6, <2>1, <2>2, SubSeqProperties
  <2> QED BY <2>1, <2>3
<1>8. buf' = a \o b /\ buf' \in Seq(Byte) /\ Len(buf') = re - rs + n
  <2>1. buf' = a \o b
    BY <1>2, <1>4, <1>6 DEF Refill
  <2> QED BY <1>5, <1>7, <2>1, ConcatProperties
<1>9. bufCap' \in Nat \ {0} /\ Len(buf') <= bufCap'
  <2>1. PICK c \in Nat \ {0} : c = GetBuffer
    BY <1>3 DEF GetBuffer, CursorInv
  <2>2. n <= c - NumElems /\ bufCap' = c /\ n \in Nat
    BY <1>1, <2>1 DEF Refill
  <2> QED BY <1>2, <1>3, <1>8, <2>2
<1>10. /\ data' = [start |-> ds - rs, end |-> de - rs]
       /\ data' \in Cursors
  BY <1>2 DEF Refill, Rebased, Cursors
<1>11. SamePage /\ Reading /\ UNCHANGED <<state, tokens>> /\ sent' = sent + n
  BY <1>1 DEF Refill
<1>12. data'.start <= data'.end /\ data'.end <= NumElems
  BY <1>2, <1>3, <1>10
<1>13. data' = [start |-> data.start - reader.start, end |-> data.end - reader.start]
  BY <1>2, <1>10
<1>14. NumElems = Len(buf) - reader.start /\ reader.end = Len(buf)
  BY <1>2, <1>3
<1>15. Len(buf') = NumElems + n
  BY <1>3, <1>8
<1>16. SubSeq(buf, reader.start + 1, reader.end) = a
  BY <1>2, <1>4
<1> QED BY <1>3, <1>5, <1>6, <1>7, <1>8, <1>9, <1>10, <1>11, <1>12, <1>13, <1>14, <1>15, <1>16

\* A buffer that is as large as what is in it, or twice that if it is half full.
LEMMA RoomLeft ==
  ASSUME NEW z \in Nat \ {0}, NEW l \in Nat, NEW a \in Nat, NEW e \in Nat,
         a <= e, e <= l, l <= z
  PROVE  e - a < (IF 2 * (e - a) > z THEN 2 * z ELSE z)
<1>1. CASE 2 * (e - a) > z
  BY <1>1
<1>2. CASE ~ 2 * (e - a) > z
  BY <1>2
<1> QED BY <1>1, <1>2

LEMMA NotNegative == \A n \in Nat : 0 <= n
OBVIOUS

\* A number that is no greater than the distance of two others.
LEMMA Distance == \A z \in Nat : \A x \in 0 .. z : \A n \in 0 .. z - x : x \in Nat /\ n \in Nat
OBVIOUS

\* Where a step may leave Next, with the reader from as to ae and the data from bs to be.
LeftAt(as, ae, bs, be) ==
  \/ pc' \in {"next", "open", "close", "comment", "panic"}
  \/ pc' = "scan" /\ bs = as /\ be = as
  \/ pc' = "ahead" /\ bs = as /\ be = as /\ as < ae
  \/ pc' = "ended" /\ err' # "nil"

ErrorLeft == err' = "nil" \/ (pc' \in {"ended", "panic"} /\ err' \in {"bare", "with bytes"})

\* The invariant of what a step leaves.
LEMMA CursorsAre ==
  ASSUME page' \in Seq(Pieces), buf' \in Seq(Byte), bufCap' \in Nat \ {0}, Len(buf') <= bufCap',
         sent' \in 0 .. Len(Bytes)', state' \in {"NORMAL", "SCRIPT_CONTENT"},
         NEW as \in Nat, NEW ae \in Nat, NEW bs \in Nat, NEW be \in Nat,
         reader' = [start |-> as, end |-> ae], data' = [start |-> bs, end |-> be],
         as <= ae, ae <= Len(buf'), as <= bs, bs <= be, be <= ae,
         LeftAt(as, ae, bs, be), ErrorLeft
  PROVE  CursorInv'
<1>1. reader' \in Cursors /\ data' \in Cursors
  BY DEF Cursors
<1>2. TokenizerTypeOK'
  <2>1. reader'.start = as /\ reader'.end = ae
    OBVIOUS
  <2>2. data'.start = bs /\ data'.end = be
    OBVIOUS
  <2>3. 0 <= as
    BY NotNegative, Zenon
  <2>4. /\ pc' \in {"next", "scan", "ahead", "open", "close", "comment", "ended", "panic"}
        /\ err' \in {"nil", "bare", "with bytes"}
        /\ pc' = "ended" => err' # "nil"
        /\ err' # "nil" => pc' \in {"ended", "panic"}
    BY DEF LeftAt, ErrorLeft
  <2>5. PICK z \in Nat \ {0}, l \in Nat : z = bufCap' /\ l = Len(buf') /\ l <= z /\ ae <= l
    BY LenProperties
  <2>6. ae - as < (IF 2 * (ae - as) > z THEN 2 * z ELSE z)
    <3>1. as <= ae /\ ae <= l /\ l <= z
      BY <2>5
    <3> QED BY <2>5, <3>1, RoomLeft
  <2>7. (NumElems < GetBuffer)'
    BY <2>1, <2>5, <2>6 DEF NumElems, GetBuffer
  <2> QED BY <2>1, <2>2, <2>3, <2>4, <2>7 DEF TokenizerTypeOK
<1>3. pc' \in {"scan", "ahead"} => data' = [start |-> reader'.start, end |-> reader'.start]
  BY DEF LeftAt
<1>4. pc' = "ahead" => reader'.start < reader'.end
  BY DEF LeftAt
<1> QED BY <1>1, <1>2, <1>3, <1>4 DEF CursorInv

\* A read moves the buffer and keeps the cursors.
LEMMA ReadCursors ==
  ASSUME CursorInv, NEW n \in 0 .. Len(Bytes) - sent,
         ReadBytes(n) \/ ReadFails(n) \/ (n = 0 /\ ReadNothing)
  PROVE  CursorInv'
<1>1. Refill(n)
  BY DEF ReadBytes, ReadFails, ReadNothing
<1>2. PICK m \in Nat : m = NumElems
  BY <1>1, RefillTypes
<1>3. /\ Len(buf') = m + n /\ m = Len(buf) - reader.start
      /\ data'.end <= m /\ reader.end = Len(buf) /\ n \in Nat
  <2>1. n \in Nat
    <3>1. Len(Bytes) \in Nat /\ sent \in 0 .. Len(Bytes)
      BY PageBytes DEF CursorInv, TokenizerTypeOK
    <3> QED BY <3>1, Distance, Zenon
  <2> QED BY <1>1, <1>2, <2>1, RefillTypes
<1>4. /\ page' \in Seq(Pieces) /\ buf' \in Seq(Byte) /\ bufCap' \in Nat \ {0}
      /\ sent' \in 0 .. Len(Bytes)' /\ Len(buf') <= bufCap'
      /\ state' \in {"NORMAL", "SCRIPT_CONTENT"} /\ Reading
  <2>1. sent' \in 0 .. Len(Bytes) /\ SamePage /\ buf' \in Seq(Byte) /\ bufCap' \in Nat \ {0}
        /\ Len(buf') <= bufCap' /\ Reading /\ state' = state
    BY <1>1, RefillTypes
  <2> QED BY <2>1 DEF SamePage, CursorInv, TokenizerTypeOK
<1>5. PICK bs \in Nat, be \in Nat :
        data' = [start |-> bs, end |-> be] /\ bs <= be /\ be <= m
  BY <1>1, <1>2, RefillTypes DEF Cursors
<1>6. pc \in {"scan", "ahead"} => bs = 0 /\ be = 0
  <2>1. data' = [start |-> data.start - reader.start, end |-> data.end - reader.start]
    BY <1>1, RefillTypes
  <2> QED BY <1>5, <2>1 DEF CursorInv, Cursors
<1>7. pc = "ahead" => m # 0
  BY <1>3 DEF CursorInv, Cursors
<1>8. pc \in {"scan", "ahead", "open", "close", "comment"} /\ err = "nil"
  BY <1>4 DEF Reading, CursorInv, TokenizerTypeOK
<1>9. PICK l \in Nat : l = Len(buf') /\ l = m + n
  BY <1>2, <1>3
<1>10. ASSUME NEW ae \in Nat, reader' = [start |-> 0, end |-> ae], be <= ae, ae <= l,
              LeftAt(0, ae, bs, be), ErrorLeft
       PROVE  CursorInv'
  <2>1. PICK as \in Nat : as = 0
    OBVIOUS
  <2>2. as <= ae /\ as <= bs
    BY <2>1
  <2>3. reader' = [start |-> as, end |-> ae] /\ LeftAt(as, ae, bs, be)
    BY <1>10, <2>1
  <2>4. ae <= Len(buf')
    BY <1>9, <1>10
  <2> QED BY <1>4, <1>5, <1>10, <2>2, <2>3, <2>4, CursorsAre
<1>11. CASE ReadBytes(n)
  <2>1. reader' = [start |-> 0, end |-> m] /\ UNCHANGED <<pc, err>>
    BY <1>2, <1>11 DEF ReadBytes
  <2>2. m <= l
    BY <1>3, <1>9
  <2> QED BY <1>5, <1>6, <1>7, <1>8, <1>10, <2>1, <2>2 DEF LeftAt, ErrorLeft
<1>12. CASE n = 0 /\ ReadNothing
  <2>1. CASE pc = "ahead"
    <3>1. PICK e \in Nat : e = m - 1
      BY <1>7, <2>1
    <3>2. reader' = [start |-> 0, end |-> e] /\ pc' = "scan" /\ err' = err
      BY <1>2, <1>12, <2>1, <3>1 DEF ReadNothing
    <3>3. bs = 0 /\ be = 0 /\ be <= e /\ e <= l
      BY <1>6, <1>9, <1>12, <2>1, <3>1
    <3> QED BY <1>8, <1>10, <3>2, <3>3 DEF LeftAt, ErrorLeft
  <2>2. CASE pc # "ahead"
    <3>1. reader' = [start |-> 0, end |-> m] /\ pc' = pc /\ err' = err
      BY <1>2, <1>12, <2>2 DEF ReadNothing
    <3>2. m <= l
      BY <1>3, <1>9
    <3> QED BY <1>5, <1>6, <1>8, <1>10, <2>2, <3>1, <3>2 DEF LeftAt, ErrorLeft
  <2> QED BY <2>1, <2>2
<1>13. CASE ReadFails(n)
  <2>1. PICK e \in Nat : e = (IF n > 0 THEN m + 1 ELSE m) /\ m <= e /\ e <= l
    BY <1>3, <1>9
  <2>2. /\ reader' = [start |-> 0, end |-> e]
        /\ pc' \in {"panic", "ended"} /\ err' \in {"bare", "with bytes"}
    BY <1>2, <1>13, <2>1 DEF ReadFails
  <2>3. be <= e
    BY <1>2, <1>5, <2>1
  <2>4. pc' = "panic" \/ (pc' = "ended" /\ err' # "nil")
    BY <2>2
  <2> QED BY <1>10, <2>1, <2>2, <2>3, <2>4 DEF LeftAt, ErrorLeft
<1> QED BY <1>11, <1>12, <1>13

\* So does every step of Next, which moves them within what was read.
LEMMA TokenizeCursors ==
  ASSUME CursorInv, Tokenize
  PROVE  CursorInv'
<1>1. UNCHANGED <<page, sent, buf, bufCap, err>>
  BY DEF Tokenize, CallNext, Scan, NoTag, CommentAhead, TextAhead, TagAhead, Pass,
         EndOpenTag, EndCloseTag, EndComment, Bracket, TakeByte
<1>2. /\ page' \in Seq(Pieces) /\ buf' \in Seq(Byte) /\ bufCap' \in Nat \ {0}
      /\ sent' \in 0 .. Len(Bytes)' /\ Len(buf') = Len(buf) /\ Len(buf) <= Len(buf') /\ Len(buf') <= bufCap'
      /\ err' = err /\ err = "nil" /\ Len(buf) \in Nat
  <2>1. err = "nil"
    BY DEF CursorInv, TokenizerTypeOK, Tokenize, CallNext, Scan, NoTag, CommentAhead,
           TextAhead, TagAhead, Pass, EndOpenTag, EndCloseTag, EndComment, Bracket, TakeByte
  <2> QED BY <1>1, <2>1, Same, LenProperties DEF SamePage, CursorInv, TokenizerTypeOK
<1>3. PICK rs \in Nat, re \in Nat, ds \in Nat, de \in Nat :
        /\ reader = [start |-> rs, end |-> re] /\ data = [start |-> ds, end |-> de]
        /\ rs <= re /\ re <= Len(buf) /\ rs <= ds /\ ds <= de /\ de <= re
  BY DEF CursorInv, Cursors, TokenizerTypeOK
<1>4. ASSUME NEW as \in Nat, NEW ae \in Nat, NEW bs \in Nat, NEW be \in Nat,
             reader' = [start |-> as, end |-> ae], data' = [start |-> bs, end |-> be],
             as <= ae, ae <= Len(buf), as <= bs, bs <= be, be <= ae,
             state' \in {"NORMAL", "SCRIPT_CONTENT"},
             LeftAt(as, ae, bs, be)
      PROVE  CursorInv'
  BY <1>2, <1>4, CursorsAre DEF ErrorLeft
<1>5. state \in {"NORMAL", "SCRIPT_CONTENT"}
  BY DEF CursorInv, TokenizerTypeOK
<1>6. pc \in {"scan", "ahead"} => ds = rs /\ de = rs
  BY <1>3 DEF CursorInv
<1>7. pc = "ahead" => rs < re
  BY <1>3 DEF CursorInv
<1>8. CASE CallNext
  BY <1>3, <1>4, <1>5, <1>8 DEF LeftAt, CallNext
<1>9. CASE Scan
  BY <1>3, <1>4, <1>5, <1>6, <1>9 DEF LeftAt, Scan, TakeByte, MoveEnd
<1>10. CASE NoTag
  BY <1>3, <1>4, <1>5, <1>6, <1>10 DEF LeftAt, NoTag, TakeByte
<1>11. CASE CommentAhead
  <2>1. /\ reader' = [start |-> rs, end |-> re - 1] /\ data' = [start |-> re - 1, end |-> re - 1]
        /\ pc' = "comment" /\ state' = state /\ rs < re
    BY <1>3, <1>7, <1>11 DEF CommentAhead, TakeByte, MoveEnd
  <2>2. re - 1 \in Nat /\ rs <= re - 1 /\ re - 1 <= Len(buf)
    BY <1>2, <1>3, <2>1
  <2> QED BY <1>3, <1>4, <1>5, <2>1, <2>2 DEF LeftAt
<1>12. CASE TextAhead
  BY <1>3, <1>4, <1>5, <1>6, <1>7, <1>12 DEF LeftAt, TextAhead, TakeByte, MoveEnd, Hand
<1>13. CASE TagAhead
  BY <1>3, <1>4, <1>5, <1>6, <1>7, <1>13 DEF LeftAt, TagAhead, TakeByte, MoveEnd
<1>14. ASSUME NEW here \in {"open", "close", "comment"}, Pass(here) PROVE CursorInv'
  BY <1>3, <1>4, <1>5, <1>14 DEF LeftAt, Pass, TakeByte, MoveEnd
<1>15. CASE EndOpenTag
  <2>1. state' \in {"NORMAL", "SCRIPT_CONTENT"} /\ pc' \in {"next", "panic"}
    BY <1>5, <1>15 DEF EndOpenTag, Hand
  <2>2. /\ reader' = [start |-> rs, end |-> re + 1] /\ data' = [start |-> ds, end |-> re + 1]
        /\ re < Len(buf)
    BY <1>3, <1>15 DEF EndOpenTag, Bracket, TakeByte, MoveEnd
  <2>3. re + 1 \in Nat /\ rs <= re + 1 /\ re + 1 <= Len(buf) /\ ds <= re + 1 /\ re + 1 <= re + 1
    BY <1>2, <1>3, <2>2
  <2>4. LeftAt(rs, re + 1, ds, re + 1)
    BY <2>1 DEF LeftAt
  <2> QED BY <1>3, <1>4, <2>1, <2>2, <2>3, <2>4
<1>16. CASE EndCloseTag
  BY <1>3, <1>4, <1>16 DEF LeftAt, EndCloseTag, Bracket, TakeByte, MoveEnd, Hand
<1>17. CASE EndComment
  BY <1>3, <1>4, <1>5, <1>17 DEF LeftAt, EndComment, Bracket, TakeByte, MoveEnd
<1> QED BY <1>8, <1>9, <1>10, <1>11, <1>12, <1>13, <1>14, <1>15, <1>16, <1>17 DEF Tokenize

LEMMA CursorStep ==
  ASSUME CursorInv, [TokenizerNext]_tokenizerVars
  PROVE  CursorInv'
<1>1. CASE UNCHANGED tokenizerVars
  BY <1>1 DEF tokenizerVars, CursorInv, TokenizerTypeOK, Bytes, NumElems, GetBuffer
<1>2. Len(Bytes) \in Nat /\ sent \in 0 .. Len(Bytes)
  BY PageBytes DEF CursorInv, TokenizerTypeOK
<1>3. CASE ReadNothing
  BY <1>2, <1>3, ReadCursors
<1> QED BY <1>1, <1>3, TokenizeCursors, ReadCursors DEF TokenizerNext

LEMMA CursorsBegin == TokenizerInit => CursorInv
<1> SUFFICES ASSUME TokenizerInit PROVE CursorInv
  OBVIOUS
<1>1. page \in Seq(Pieces)
  <2>1. PICK n \in 1 .. MaxPieces : page \in [1 .. n -> Pieces]
    BY DEF TokenizerInit
  <2>2. n \in Nat
    BY TokenizerAssumption
  <2> QED BY <2>1, <2>2
<1> QED BY <1>1, PageBytes, EmptySeq, TokenizerAssumption
        DEF TokenizerInit, CursorInv, TokenizerTypeOK, Cursors, NumElems, GetBuffer

LEMMA CursorInvariant == TokenizerSpec => []CursorInv
<1>1. CursorInv /\ [TokenizerNext]_tokenizerVars => CursorInv'
  BY CursorStep
<1> QED BY <1>1, CursorsBegin, PTL DEF TokenizerSpec

\* The cursors stay in the buffer and the token within what was read of it, so
\* no slice expression of Next is out of range and a read always has room.
THEOREM TokenizerTypeCorrect == TokenizerSpec => []TokenizerTypeOK
<1>1. CursorInv => TokenizerTypeOK
  BY DEF CursorInv
<1> QED BY <1>1, CursorInvariant, PTL

\* What may be handed to the selectors, and what a reading of pieces is.
Token == {p.token : p \in Pieces}
         \cup {[kind |-> "text", data |-> RemoveNewLine(s)] : s \in Seq(Byte)}

ReadingsOf == [out : Seq(Token), text : Seq(Byte), script : BOOLEAN]

NothingRead == [out |-> <<>>, text |-> <<>>, script |-> FALSE]

\* The token of a tag, as it is read alone.
LEMMA TokenIs ==
  /\ \A p \in Pieces : p.token \in Token
  /\ \A s \in Seq(Byte) : [kind |-> "text", data |-> RemoveNewLine(s)] \in Token
BY DEF Token

LEMMA FlushedType ==
  ASSUME NEW r \in ReadingsOf
  PROVE  Flushed(r) \in Seq(Token)
<1>1. r.out \in Seq(Token) /\ r.text \in Seq(Byte)
  BY DEF ReadingsOf
<1>2. PICK t \in Token : t = [kind |-> "text", data |-> RemoveNewLine(r.text)]
  BY <1>1, TokenIs
<1>3. Append(r.out, t) \in Seq(Token)
  BY <1>1, <1>2, AppendProperties
<1> QED BY <1>1, <1>2, <1>3 DEF Flushed

\* A reading, field by field.
Reads(r, out, text, script) == r.out = out /\ r.text = text /\ r.script = script

\* What a piece of each kind does to the reading.
LEMMA ReadPieceIs ==
  ASSUME NEW r \in ReadingsOf, NEW p \in Pieces
  PROVE  /\ ReadPiece(r, p) \in ReadingsOf
         /\ p.kind = "text" => Reads(ReadPiece(r, p), r.out, r.text \o p.bytes, r.script)
         /\ p.kind = "comment" => Reads(ReadPiece(r, p), r.out, <<>>, r.script)
         /\ p.kind = "close" =>
              Reads(ReadPiece(r, p), Append(Flushed(r), p.token), <<>>, FALSE)
         /\ p.kind = "open" /\ r.script =>
              Reads(ReadPiece(r, p), Flushed(r), SubSeq(p.bytes, 3, Len(p.bytes)), TRUE)
         /\ p.kind = "open" /\ ~ r.script =>
              Reads(ReadPiece(r, p), Append(Flushed(r), p.token), <<>>,
                    p.token.name = Script)
<1>1. PICK fl \in Seq(Token) : fl = Flushed(r)
  BY FlushedType
<1>2. PICK out, text, script :
        r = [out |-> out, text |-> text, script |-> script]
        /\ out \in Seq(Token) /\ text \in Seq(Byte) /\ script \in BOOLEAN
        /\ r.out = out /\ r.text = text /\ r.script = script
  BY DEF ReadingsOf
<1>3. PICK b \in Seq(Byte) : b = p.bytes
  BY PieceBytes
<1>4. PICK longer \in Seq(Token) : longer = Append(Flushed(r), p.token)
  BY <1>1, TokenIs, AppendProperties
<1>5. <<>> \in Seq(Byte)
  BY EmptySeq
<1>6. CASE p.kind = "text"
  <2>1. PICK t \in Seq(Byte) : t = text \o b
    BY <1>2, <1>3, ConcatProperties
  <2>2. ReadPiece(r, p) = [out |-> out, text |-> t, script |-> script]
    BY <1>2, <1>3, <1>6, <2>1 DEF ReadPiece
  <2>7. PICK q : q = ReadPiece(r, p)
    OBVIOUS
  <2>6. q = [out |-> out, text |-> t, script |-> script]
    BY <2>1, <2>2, <2>7
  <2>8. q.out = out /\ q.text = t
    BY <2>6
  <2>9. q.script = script
    BY <2>6
  <2>10. q \in ReadingsOf
    BY <1>1, <1>2, <1>4, <1>5, <2>1, <2>6 DEF ReadingsOf
  <2> QED BY <1>2, <1>3, <1>6, <2>1, <2>7, <2>8, <2>9, <2>10 DEF Reads
<1>7. CASE p.kind = "comment"
  <2>1. ReadPiece(r, p) = [out |-> out, text |-> <<>>, script |-> script]
    BY <1>2, <1>7 DEF ReadPiece
  <2>7. PICK q : q = ReadPiece(r, p)
    OBVIOUS
  <2>6. q = [out |-> out, text |-> <<>>, script |-> script]
    BY <2>1, <2>7
  <2>8. q.out = out /\ q.text = <<>>
    BY <2>6
  <2>9. q.script = script
    BY <2>6
  <2>10. q \in ReadingsOf
    BY <1>1, <1>2, <1>4, <1>5, <2>1, <2>6 DEF ReadingsOf
  <2> QED BY <1>2, <1>7, <2>7, <2>8, <2>9, <2>10 DEF Reads
<1>8. CASE p.kind = "close"
  <2>1. ReadPiece(r, p) = [out |-> longer, text |-> <<>>, script |-> FALSE]
    BY <1>4, <1>8 DEF ReadPiece
  <2>7. PICK q : q = ReadPiece(r, p)
    OBVIOUS
  <2>6. q = [out |-> longer, text |-> <<>>, script |-> FALSE]
    BY <2>1, <2>7
  <2>8. q.out = longer /\ q.text = <<>>
    BY <2>6
  <2>9. q.script = FALSE
    BY <2>6
  <2>10. q \in ReadingsOf
    BY <1>1, <1>2, <1>4, <1>5, <2>1, <2>6 DEF ReadingsOf
  <2> QED BY <1>4, <1>8, <2>7, <2>8, <2>9, <2>10 DEF Reads
<1>9. CASE p.kind = "open" /\ r.script
  <2>1. PICK t \in Seq(Byte) : t = SubSeq(p.bytes, 3, Len(p.bytes))
    <3>1. PICK l \in Nat : l = Len(b)
      BY LenProperties
    <3>2. \A i \in 3 .. l : b[i] \in Byte
      <4>1. \A i \in 3 .. l : i \in 1 .. l
        OBVIOUS
      <4> QED BY <3>1, <4>1, ElementOfSeq
    <3>3. SubSeq(b, 3, l) \in Seq(Byte)
      BY <3>2, SubSeqProperties
    <3> QED BY <1>3, <3>1, <3>3
  <2>2. ReadPiece(r, p) = [out |-> fl, text |-> t, script |-> TRUE]
    BY <1>1, <1>2, <1>9, <2>1 DEF ReadPiece
  <2>7. PICK q : q = ReadPiece(r, p)
    OBVIOUS
  <2>6. q = [out |-> fl, text |-> t, script |-> TRUE]
    BY <2>1, <2>2, <2>7
  <2>8. q.out = fl /\ q.text = t
    BY <2>6
  <2>9. q.script = TRUE
    BY <2>6
  <2>10. q \in ReadingsOf
    BY <1>1, <1>2, <1>4, <1>5, <2>1, <2>6 DEF ReadingsOf
  <2> QED BY <1>1, <1>9, <2>1, <2>7, <2>8, <2>9, <2>10 DEF Reads
<1>10. CASE p.kind = "open" /\ ~ r.script
  <2>1. PICK s \in BOOLEAN : s = (p.token.name = Script)
    OBVIOUS
  <2>2. ReadPiece(r, p) = [out |-> longer, text |-> <<>>, script |-> s]
    BY <1>4, <1>10, <2>1 DEF ReadPiece
  <2>7. PICK q : q = ReadPiece(r, p)
    OBVIOUS
  <2>6. q = [out |-> longer, text |-> <<>>, script |-> s]
    BY <2>1, <2>2, <2>7
  <2>8. q.out = longer /\ q.text = <<>>
    BY <2>6
  <2>9. q.script = s
    BY <2>6
  <2>10. q \in ReadingsOf
    BY <1>1, <1>2, <1>4, <1>5, <2>1, <2>6 DEF ReadingsOf
  <2> QED BY <1>4, <1>10, <2>1, <2>7, <2>8, <2>9, <2>10 DEF Reads
<1>11. p.kind \in {"open", "close", "comment", "text"}
  BY PiecesAssumption
<1> QED BY <1>2, <1>6, <1>7, <1>8, <1>9, <1>10, <1>11

\* Readings are what its recursion says.
LEMMA ReadingsAre ==
  ASSUME NEW pieces \in Seq(Pieces)
  PROVE  /\ Readings(pieces)[0] = NothingRead
         /\ \A k \in 1 .. Len(pieces) :
              Readings(pieces)[k] = ReadPiece(Readings(pieces)[k - 1], pieces[k])
<1> DEFINE Def(f) == [k \in 0 .. Len(pieces) |->
                        IF k = 0 THEN NothingRead ELSE ReadPiece(f[k - 1], pieces[k])]
           F == CHOOSE f : f = Def(f)
<1>1. Readings(pieces) = F
  BY DEF Readings, NothingRead
<1>2. PICK n \in Nat : n = Len(pieces)
  BY LenProperties
<1>3. PICK step : step = [k \in 1 .. n |-> [r \in ReadingsOf |-> ReadPiece(r, pieces[k])]]
  OBVIOUS
<1>4. \A k \in 1 .. n : pieces[k] \in Pieces
  BY <1>2, ElementOfSeq
<1>5. step \in [1 .. n -> [ReadingsOf -> ReadingsOf]]
  BY <1>3, <1>4, ReadPieceIs
<1>6. NothingRead \in ReadingsOf
  BY EmptySeq DEF NothingRead, ReadingsOf
<1>7. PICK g \in [0 .. n -> ReadingsOf] : Iterates(g, step, NothingRead, n)
  BY <1>5, <1>6, Iteration
<1>8. g = Def(g)
  <2>1. ASSUME NEW k \in 0 .. n PROVE g[k] = Def(g)[k]
    <3>1. CASE k = 0
      BY <1>2, <1>7, <3>1 DEF Iterates
    <3>2. CASE k # 0
      <4>1. k \in 1 .. n /\ k - 1 \in 0 .. n
        BY <3>2
      <4>2. g[k - 1] \in ReadingsOf
        BY <4>1
      <4>3. g[k] = step[k][g[k - 1]]
        BY <1>7, <4>1 DEF Iterates
      <4>4. step[k][g[k - 1]] = ReadPiece(g[k - 1], pieces[k])
        BY <1>3, <4>1, <4>2
      <4> QED BY <1>2, <3>2, <4>3, <4>4
    <3> QED BY <3>1, <3>2
  <2>2. g = [k \in 0 .. n |-> g[k]]
    OBVIOUS
  <2> QED BY <1>2, <2>1, <2>2
<1>9. F = Def(F)
  BY <1>8
<1> HIDE DEF F
<1>10. F[0] = NothingRead
  BY <1>2, <1>9
<1>11. ASSUME NEW k \in 1 .. n PROVE F[k] = ReadPiece(F[k - 1], pieces[k])
  <2>1. k \in 0 .. n /\ k # 0
    OBVIOUS
  <2> QED BY <1>2, <1>9, <2>1
<1> QED BY <1>1, <1>2, <1>10, <1>11

\* The readings are the iterates of ReadPiece.
LEMMA ReadingsType ==
  ASSUME NEW pieces \in Seq(Pieces), NEW k \in 0 .. Len(pieces)
  PROVE  Readings(pieces)[k] \in ReadingsOf
<1> DEFINE P(m) == m <= Len(pieces) => Readings(pieces)[m] \in ReadingsOf
           N == {m \in Nat : P(m)}
<1>1. P(0)
  <2>1. NothingRead \in ReadingsOf
    BY EmptySeq DEF NothingRead, ReadingsOf
  <2> QED BY <2>1, ReadingsAre
<1>2. ASSUME NEW m \in Nat, P(m) PROVE P(m + 1)
  <2>1. SUFFICES ASSUME m + 1 <= Len(pieces) PROVE Readings(pieces)[m + 1] \in ReadingsOf
    OBVIOUS
  <2>2. PICK n \in Nat : n = Len(pieces)
    BY LenProperties
  <2>3. m + 1 \in 1 .. Len(pieces) /\ (m + 1) - 1 = m /\ m <= Len(pieces)
    BY <2>1, <2>2
  <2>4. pieces[m + 1] \in Pieces /\ Readings(pieces)[m] \in ReadingsOf
    BY <1>2, <2>3, ElementOfSeq
  <2>5. Readings(pieces)[m + 1] = ReadPiece(Readings(pieces)[m], pieces[m + 1])
    BY <2>3, ReadingsAre
  <2> QED BY <2>4, <2>5, ReadPieceIs
<1> HIDE DEF P
<1>3. N = Nat
  <2>1. N \in SUBSET Nat /\ 0 \in N /\ \A m \in N : m + 1 \in N
    BY <1>1, <1>2
  <2> HIDE DEF N
  <2> QED BY <2>1, SetInduction
<1>4. k \in Nat /\ k <= Len(pieces)
  BY LenProperties
<1>5. P(k)
  BY <1>3, <1>4
<1> QED BY <1>4, <1>5 DEF P

\* One piece more.
LEMMA ReadingsNext ==
  ASSUME NEW pieces \in Seq(Pieces), NEW k \in 0 .. Len(pieces), k # Len(pieces)
  PROVE  /\ pieces[k + 1] \in Pieces
         /\ Readings(pieces)[k] \in ReadingsOf
         /\ Readings(pieces)[k + 1] = ReadPiece(Readings(pieces)[k], pieces[k + 1])
<1>1. PICK n \in Nat : n = Len(pieces)
  BY LenProperties
<1>2. k + 1 \in 1 .. Len(pieces) /\ (k + 1) - 1 = k
  BY <1>1
<1> QED BY <1>2, ReadingsAre, ReadingsType, ElementOfSeq

LEMMA BeginsItself ==
  ASSUME NEW S, NEW s \in Seq(S)
  PROVE  Begins(s, s)
BY LenProperties DEF Begins

LEMMA BeginsAppended ==
  ASSUME NEW S, NEW s \in Seq(S), NEW e \in S
  PROVE  Append(s, e) \in Seq(S) /\ Begins(s, Append(s, e))
<1>1. Append(s, e) \in Seq(S) /\ Len(Append(s, e)) = Len(s) + 1 /\ Len(s) \in Nat
      /\ \A i \in 1 .. Len(s) : Append(s, e)[i] = s[i]
  BY AppendProperties, LenProperties
<1> QED BY <1>1 DEF Begins

LEMMA BeginsOn ==
  ASSUME NEW S, NEW r \in Seq(S), NEW s \in Seq(S), NEW t \in Seq(S), Begins(r, s), Begins(s, t)
  PROVE  Begins(r, t)
BY LenProperties DEF Begins

LEMMA BeginsIsPrefix ==
  ASSUME NEW S, NEW s \in Seq(S), NEW t \in Seq(S), Begins(s, t)
  PROVE  IsPrefix(s, t)
<1>1. PICK l \in Nat : l = Len(s) /\ l <= Len(t) /\ Len(t) \in Nat
  BY LenProperties DEF Begins
<1>2. PICK a : a = SubSeq(s, 1, l)
  OBVIOUS
<1>3. PICK b : b = SubSeq(t, 1, l)
  OBVIOUS
<1>4. a \in Seq(S) /\ Len(a) = l /\ \A i \in 1 .. l : a[i] = s[i]
  <2>1. \A i \in 1 .. l : s[i] \in S
    BY <1>1, ElementOfSeq
  <2>2. /\ a \in Seq(S) /\ Len(a) = IF 1 <= l THEN l - 1 + 1 ELSE 0
        /\ \A i \in 1 .. l - 1 + 1 : a[i] = s[1 + i - 1]
    BY <1>1, <1>2, <2>1, SubSeqProperties
  <2> QED BY <1>1, <2>2
<1>5. b \in Seq(S) /\ Len(b) = l /\ \A i \in 1 .. l : b[i] = t[i]
  <2>1. \A i \in 1 .. l : t[i] \in S
    <3>1. \A i \in 1 .. l : i \in 1 .. Len(t)
      BY <1>1
    <3> QED BY <3>1, ElementOfSeq
  <2>2. /\ b \in Seq(S) /\ Len(b) = IF 1 <= l THEN l - 1 + 1 ELSE 0
        /\ \A i \in 1 .. l - 1 + 1 : b[i] = t[1 + i - 1]
    BY <1>1, <1>3, <2>1, SubSeqProperties
  <2> QED BY <1>1, <2>2
<1>6. a = b
  BY <1>1, <1>4, <1>5, SeqEqual DEF Begins
<1> QED BY <1>1, <1>2, <1>3, <1>6 DEF IsPrefix

IsTag(p) == p.kind \in {"open", "close"}

\* A piece adds to what was handed, and a tag to what it flushes.
LEMMA OutNext ==
  ASSUME NEW pieces \in Seq(Pieces), NEW k \in 0 .. Len(pieces), k # Len(pieces)
  PROVE  /\ Begins(Readings(pieces)[k].out, Readings(pieces)[k + 1].out)
         /\ IsTag(pieces[k + 1]) =>
              Begins(Flushed(Readings(pieces)[k]), Readings(pieces)[k + 1].out)
<1>1. PICK r \in ReadingsOf : r = Readings(pieces)[k]
  BY ReadingsNext
<1>2. PICK p \in Pieces : p = pieces[k + 1]
  BY ReadingsNext
<1>3. PICK q : q = ReadPiece(r, p) /\ Readings(pieces)[k + 1] = q
  BY <1>1, <1>2, ReadingsNext
<1>4. PICK out \in Seq(Token) : out = r.out
  BY DEF ReadingsOf
<1>5. PICK fl \in Seq(Token) : fl = Flushed(r)
  BY FlushedType
<1>6. Begins(out, out) /\ Begins(fl, fl)
  BY BeginsItself
<1>7. Begins(out, fl)
  <2>1. CASE r.text = <<>>
    BY <1>4, <1>5, <1>6, <2>1 DEF Flushed
  <2>2. CASE r.text # <<>>
    <3>1. PICK e \in Token : e = [kind |-> "text", data |-> RemoveNewLine(r.text)]
      BY TokenIs DEF ReadingsOf
    <3>2. fl = Append(out, e)
      BY <1>4, <1>5, <2>2, <3>1 DEF Flushed
    <3> QED BY <3>2, BeginsAppended
  <2> QED BY <2>1, <2>2
<1>8. PICK longer \in Seq(Token) : longer = Append(fl, p.token) /\ Begins(fl, longer)
  BY TokenIs, BeginsAppended
<1>9. Begins(out, longer)
  BY <1>7, <1>8, BeginsOn
<1>10. CASE ~ IsTag(p)
  <2>1. q.out = out
    <3>1. p.kind \in {"comment", "text"}
      BY <1>10, PiecesAssumption DEF IsTag
    <3>2. Reads(q, r.out, <<>>, r.script) \/ Reads(q, r.out, r.text \o p.bytes, r.script)
      BY <1>3, <3>1, ReadPieceIs, Zenon
    <3> QED BY <1>4, <3>2 DEF Reads
  <2> QED BY <1>1, <1>2, <1>3, <1>4, <1>6, <1>10, <2>1
<1>11. CASE IsTag(p)
  <2>1. q.out = longer \/ q.out = fl
    <3>1. q.out = Append(Flushed(r), p.token) \/ q.out = Flushed(r)
      <4>1. CASE p.kind = "close"
        <5>1. Reads(q, Append(Flushed(r), p.token), <<>>, FALSE)
          BY <1>3, <4>1, ReadPieceIs
        <5> QED BY <5>1 DEF Reads
      <4>2. CASE p.kind = "open" /\ r.script
        <5>1. Reads(q, Flushed(r), SubSeq(p.bytes, 3, Len(p.bytes)), TRUE)
          BY <1>3, <4>2, ReadPieceIs
        <5> QED BY <5>1 DEF Reads
      <4>3. CASE p.kind = "open" /\ ~ r.script
        <5>1. Reads(q, Append(Flushed(r), p.token), <<>>, p.token.name = Script)
          BY <1>3, <4>3, ReadPieceIs
        <5> QED BY <5>1 DEF Reads
      <4> QED BY <1>11, <4>1, <4>2, <4>3 DEF IsTag
    <3> QED BY <1>5, <1>8, <3>1
  <2>2. Begins(out, q.out) /\ Begins(fl, q.out)
    BY <1>6, <1>7, <1>8, <1>9, <2>1
  <2> QED BY <1>1, <1>3, <1>4, <1>5, <2>2
<1> QED BY <1>10, <1>11

\* What was handed over stays handed over.
LEMMA OutGrows ==
  ASSUME NEW pieces \in Seq(Pieces), NEW k \in Nat, NEW m \in Nat, k <= m, m <= Len(pieces)
  PROVE  Begins(Readings(pieces)[k].out, Readings(pieces)[m].out)
<1> DEFINE P(x) == x <= Len(pieces) /\ k <= x =>
                     Begins(Readings(pieces)[k].out, Readings(pieces)[x].out)
           N == {x \in Nat : P(x)}
<1>1. PICK n \in Nat : n = Len(pieces)
  BY LenProperties
<1>2. \A x \in Nat : x <= n => Readings(pieces)[x].out \in Seq(Token)
  BY <1>1, ReadingsType DEF ReadingsOf
<1>3. ASSUME k <= n PROVE Begins(Readings(pieces)[k].out, Readings(pieces)[k].out)
  BY <1>2, <1>3, BeginsItself
<1>4. P(0)
  <2>1. ASSUME k <= 0 PROVE k = 0
    BY <2>1
  <2> QED BY <1>1, <1>3, <2>1
<1>5. ASSUME NEW x \in Nat, P(x) PROVE P(x + 1)
  <2>1. SUFFICES ASSUME x + 1 <= Len(pieces), k <= x + 1
                 PROVE  Begins(Readings(pieces)[k].out, Readings(pieces)[x + 1].out)
    OBVIOUS
  <2>2. CASE k = x + 1
    BY <1>1, <1>3, <2>1, <2>2
  <2>3. CASE k <= x
    <3>1. x \in 0 .. Len(pieces) /\ x # Len(pieces) /\ x <= n /\ k <= n /\ x + 1 <= n
      BY <1>1, <2>1, <2>3
    <3>2. PICK a \in Seq(Token) : a = Readings(pieces)[k].out
      BY <1>2, <3>1
    <3>3. PICK b \in Seq(Token) : b = Readings(pieces)[x].out
      BY <1>2, <3>1
    <3>4. PICK c \in Seq(Token) : c = Readings(pieces)[x + 1].out
      BY <1>2, <3>1
    <3>5. Begins(a, b)
      BY <1>1, <1>5, <2>3, <3>1, <3>2, <3>3
    <3>6. Begins(b, c)
      BY <3>1, <3>3, <3>4, OutNext
    <3> QED BY <3>2, <3>4, <3>5, <3>6, BeginsOn
  <2> QED BY <2>1, <2>2, <2>3
<1> HIDE DEF P
<1>6. N = Nat
  <2>1. N \in SUBSET Nat /\ 0 \in N /\ \A x \in N : x + 1 \in N
    BY <1>4, <1>5
  <2> HIDE DEF N
  <2> QED BY <2>1, SetInduction
<1>7. P(m)
  BY <1>6
<1> QED BY <1>7 DEF P

\* What was handed when the first k pieces were read, or these and the text before a tag.
Handed(pieces, k, toks) ==
  \/ toks = Readings(pieces)[k].out
  \/ k # Len(pieces) /\ IsTag(pieces[k + 1]) /\ toks = Flushed(Readings(pieces)[k])

\* What is handed over of the first pieces is the beginning of what is to be.
LEMMA HandedIsPrefix ==
  ASSUME NEW pieces \in Seq(Pieces), NEW k \in 0 .. Len(pieces), NEW toks,
         Handed(pieces, k, toks)
  PROVE  IsPrefix(toks, Readings(pieces)[Len(pieces)].out)
<1>1. PICK n \in Nat : n = Len(pieces)
  BY LenProperties
<1>2. PICK all \in Seq(Token) : all = Readings(pieces)[n].out
  <2>1. n \in 0 .. Len(pieces)
    BY <1>1
  <2> QED BY <1>1, <2>1, ReadingsType DEF ReadingsOf
<1>3. Readings(pieces)[k] \in ReadingsOf
  BY ReadingsType
<1>4. CASE toks = Readings(pieces)[k].out
  <2>1. toks \in Seq(Token)
    BY <1>3, <1>4 DEF ReadingsOf
  <2>2. Begins(toks, all)
    BY <1>1, <1>2, <1>4, OutGrows
  <2> QED BY <1>1, <1>2, <2>1, <2>2, BeginsIsPrefix
<1>5. CASE k # Len(pieces) /\ IsTag(pieces[k + 1]) /\ toks = Flushed(Readings(pieces)[k])
  <2>1. toks \in Seq(Token)
    BY <1>3, <1>5, FlushedType
  <2>2. PICK m \in Nat : m = k + 1 /\ m <= n
    BY <1>1, <1>5
  <2>3. PICK next \in Seq(Token) : next = Readings(pieces)[m].out
    BY <1>1, <2>2, ReadingsType DEF ReadingsOf
  <2>4. Begins(toks, next)
    BY <1>5, <2>2, <2>3, OutNext
  <2>5. Begins(next, all)
    BY <1>1, <1>2, <2>2, <2>3, OutGrows
  <2>6. Begins(toks, all)
    BY <2>1, <2>4, <2>5, BeginsOn
  <2> QED BY <1>1, <1>2, <2>1, <2>6, BeginsIsPrefix
<1> QED BY <1>4, <1>5 DEF Handed

Whole(pieces) == BytesOf(pieces, Len(pieces))

\* The bytes of the page from the i-th, which is left out, to the j-th.
Slice(pieces, i, j) == SubSeq(Whole(pieces), i + 1, j)

\* p is the piece behind the first k; its last bytes are those behind pos.
Located(pieces, k, p, pos, last) ==
  /\ p = pieces[k + 1] /\ k + 1 \in 0 .. Len(pieces)
  /\ last = Len(p.bytes) /\ pos = Pos(pieces, k)
  /\ Pos(pieces, k + 1) = pos + last /\ pos + last <= Len(Whole(pieces))
  /\ \A j \in 1 .. last : Whole(pieces)[pos + j] = p.bytes[j]

\* Where the next piece is in the page.
LEMMA Locate ==
  ASSUME NEW pieces \in Seq(Pieces), NEW k \in 0 .. Len(pieces), k # Len(pieces)
  PROVE  \E p \in Pieces, pos \in Nat, last \in Nat \ {0} : Located(pieces, k, p, pos, last)
<1>1. PICK n \in Nat : n = Len(pieces)
  BY LenProperties
<1>2. PICK all \in Nat : all = Pos(pieces, n) /\ all = Len(Whole(pieces))
  BY <1>1, BytesType DEF Pos, Whole
<1>3. PICK pos \in Nat : pos = Pos(pieces, k)
  BY BytesType
<1>4. PICK p \in Pieces : p = pieces[k + 1]
  BY Places
<1>5. PICK last \in Nat \ {0} : last = Len(p.bytes)
  BY PieceBytes
<1>6. Pos(pieces, k + 1) = pos + last /\ pos + last <= all
  BY <1>1, <1>2, <1>3, <1>4, <1>5, Places
<1>7. \A j \in 1 .. last : Whole(pieces)[pos + j] = p.bytes[j]
  BY <1>3, <1>4, <1>5, Places DEF Whole
<1>8. k + 1 \in 0 .. Len(pieces)
  BY <1>1
<1> QED BY <1>2, <1>3, <1>4, <1>5, <1>6, <1>7, <1>8 DEF Located

LEMMA TextPiece ==
  ASSUME NEW p \in Pieces, p.kind = "text", NEW i \in 1 .. Len(p.bytes) - 1,
         p.bytes[i] = "<"
  PROVE  p.bytes[i + 1] \notin Marks
BY PiecesAssumption

\* What PiecesAssumption says, one kind of piece at a time.
LEMMA TextsApart ==
  ASSUME NEW p \in Pieces, NEW q \in Pieces, p.kind = "text", q.kind = "text",
         p.bytes[Len(p.bytes)] = "<"
  PROVE  q.bytes[1] \notin Marks
BY PiecesAssumption

LEMMA TagPiece ==
  ASSUME NEW p \in Pieces, p.kind # "text"
  PROVE  /\ Len(p.bytes) > 2 /\ p.bytes[1] = "<"
         /\ \A i \in 1 .. Len(p.bytes) : p.bytes[i] = ">" <=> i = Len(p.bytes)
         /\ p.kind = "open" =>
              p.bytes[2] \in Letters /\ \A i \in 2 .. Len(p.bytes) : p.bytes[i] # "<"
         /\ p.kind = "close" => p.bytes[2] = "/"
         /\ p.kind = "comment" => p.bytes[2] \in CommentMarks
         /\ p.kind \in {"open", "close", "comment"}
BY PiecesAssumption

LEMMA MarksAre ==
  /\ "<" \notin Marks /\ "/" \notin Letters
  /\ CommentMarks \cap (Letters \cup {"/"}) = {}
BY TokenizerAssumption DEF Marks, CommentMarks

-----------------------------------------------------------------------------
\* Slices of the page, and how they are joined.

LEMMA WholeType ==
  ASSUME NEW pieces \in Seq(Pieces)
  PROVE  Whole(pieces) \in Seq(Byte) /\ Len(Whole(pieces)) \in Nat
         /\ Len(Whole(pieces)) = Pos(pieces, Len(pieces))
<1>1. Len(pieces) \in 0 .. Len(pieces)
  BY LenProperties
<1> QED BY <1>1, BytesType DEF Whole, Pos

\* A slice is a part of the page.
LEMMA SliceIs ==
  ASSUME NEW pieces \in Seq(Pieces), NEW i \in Nat, NEW n \in Nat, NEW j, j = i + n,
         j <= Len(Whole(pieces))
  PROVE  Slice(pieces, i, j) \in Seq(Byte) /\ IsPart(Slice(pieces, i, j), Whole(pieces), i, n)
BY WholeType, Part DEF Slice

LEMMA SliceEmpty ==
  ASSUME NEW pieces \in Seq(Pieces), NEW i \in Nat, NEW j \in Nat, i <= j,
         j <= Len(Whole(pieces))
  PROVE  Slice(pieces, i, j) = <<>> <=> i = j
<1>1. PICK n \in Nat : j = i + n
  <2>1. j - i \in Nat /\ j = i + (j - i)
    OBVIOUS
  <2> QED BY <2>1
<1>2. Slice(pieces, i, j) \in Seq(Byte) /\ Len(Slice(pieces, i, j)) = n
  BY <1>1, SliceIs DEF IsPart
<1>3. PICK s \in Seq(Byte) : s = Slice(pieces, i, j) /\ Len(s) = n
  BY <1>2
<1> QED BY <1>1, <1>3, EmptySeq

LEMMA SliceJoin ==
  ASSUME NEW pieces \in Seq(Pieces), NEW i \in Nat, NEW j \in Nat, NEW l \in Nat,
         i <= j, j <= l, l <= Len(Whole(pieces))
  PROVE  Slice(pieces, i, j) \o Slice(pieces, j, l) = Slice(pieces, i, l)
<1>1. PICK m \in Nat : j = i + m
  <2>1. j - i \in Nat /\ j = i + (j - i)
    OBVIOUS
  <2> QED BY <2>1
<1>2. PICK n \in Nat : l = j + n
  <2>1. l - j \in Nat /\ l = j + (l - j)
    OBVIOUS
  <2> QED BY <2>1
<1>3. PICK a : a = Slice(pieces, i, j)
  OBVIOUS
<1>4. PICK b : b = Slice(pieces, j, l)
  OBVIOUS
<1>5. PICK c : c = Slice(pieces, i, l)
  OBVIOUS
<1>6. a \in Seq(Byte) /\ IsPart(a, Whole(pieces), i, m)
  <2>1. j <= Len(Whole(pieces))
    BY WholeType
  <2> QED BY <1>1, <1>3, <2>1, SliceIs
<1>7. b \in Seq(Byte) /\ IsPart(b, Whole(pieces), j, n)
  BY <1>2, <1>4, SliceIs
<1>8. c \in Seq(Byte) /\ IsPart(c, Whole(pieces), i, m + n)
  <2>1. l = i + (m + n) /\ m + n \in Nat
    BY <1>1, <1>2
  <2> QED BY <1>5, <2>1, SliceIs
<1>9. a \o b \in Seq(Byte) /\ IsPart(a \o b, Whole(pieces), i, m + n)
  BY <1>1, <1>6, <1>7, PartsJoin
<1>10. a \o b = c
  <2>1. PICK d : d = a \o b
    OBVIOUS
  <2>2. PICK x \in Nat : x = m + n
    OBVIOUS
  <2> QED BY <1>8, <1>9, <2>1, <2>2, SameParts
<1> QED BY <1>3, <1>4, <1>5, <1>10

\* A piece is the slice at its place.
LEMMA SlicePiece ==
  ASSUME NEW pieces \in Seq(Pieces), NEW k \in 0 .. Len(pieces), NEW p \in Pieces,
         NEW pos \in Nat, NEW last \in Nat, Located(pieces, k, p, pos, last)
  PROVE  Slice(pieces, pos, pos + last) = p.bytes
<1>1. PICK b \in Seq(Byte) : b = p.bytes /\ last = Len(b)
  BY PieceBytes DEF Located
<1>2. PICK top \in Nat : top = pos + last
  OBVIOUS
<1>3. top <= Len(Whole(pieces)) /\ IsPart(b, Whole(pieces), pos, last)
  BY <1>1, <1>2 DEF Located, IsPart
<1>4. PICK s : s = Slice(pieces, pos, top)
  OBVIOUS
<1>5. s \in Seq(Byte) /\ IsPart(s, Whole(pieces), pos, last)
  BY <1>2, <1>3, <1>4, SliceIs
<1>6. s = b
  BY <1>1, <1>3, <1>5, SameParts
<1> QED BY <1>1, <1>2, <1>4, <1>6

\* What is left of a piece behind its first bytes.
LEMMA SliceRest ==
  ASSUME NEW pieces \in Seq(Pieces), NEW k \in 0 .. Len(pieces), NEW p \in Pieces,
         NEW pos \in Nat, NEW last \in Nat, Located(pieces, k, p, pos, last),
         NEW i \in Nat, i = pos + 2, last > 2
  PROVE  Slice(pieces, i, pos + last) = SubSeq(p.bytes, 3, last)
<1>1. PICK b \in Seq(Byte) : b = p.bytes /\ last = Len(b)
  BY PieceBytes DEF Located
<1>2. PICK top \in Nat : top = pos + last
  OBVIOUS
<1>3. top <= Len(Whole(pieces)) /\ IsPart(b, Whole(pieces), pos, last)
  BY <1>1, <1>2 DEF Located, IsPart
<1>4. PICK n \in Nat : last = 2 + n
  <2>1. last - 2 \in Nat /\ last = 2 + (last - 2)
    OBVIOUS
  <2> QED BY <2>1
<1>5. top = i + n
  BY <1>2, <1>4
<1>6. PICK t : t = Slice(pieces, i, top)
  OBVIOUS
<1>7. t \in Seq(Byte) /\ IsPart(t, Whole(pieces), i, n)
  BY <1>3, <1>4, <1>5, <1>6, SliceIs
<1>8. PICK u : u = SubSeq(b, 2 + 1, last)
  OBVIOUS
<1>9. u \in Seq(Byte) /\ IsPart(u, b, 2, n)
  <2>1. last <= Len(b) /\ 2 \in Nat
    BY <1>1
  <2> QED BY <1>1, <1>4, <1>8, <2>1, Part
<1>10. IsPart(u, Whole(pieces), i, n)
  <2>1. PICK two \in Nat : two = 2 /\ two + n <= last /\ pos + two = i
    BY <1>4
  <2> QED BY <1>1, <1>3, <1>4, <1>9, <2>1, PartOfPart
<1>11. t = u
  BY <1>7, <1>9, <1>10, SameParts
<1> QED BY <1>1, <1>2, <1>6, <1>8, <1>11

\* The first k pieces are handed over but for the text from from on, and the
\* reading is at their end or in the text behind them.
Gathers(pieces, k, from, at, toks) ==
  /\ from <= Pos(pieces, k) /\ Pos(pieces, k) <= at
  /\ at # Pos(pieces, k) =>
       k # Len(pieces) /\ pieces[k + 1].kind = "text" /\ at < Pos(pieces, k + 1)
  /\ toks = Readings(pieces)[k].out
  /\ Slice(pieces, from, Pos(pieces, k)) = Readings(pieces)[k].text

\* The text before a tag is handed over, and the reading is at the tag.
BeforeTag(pieces, k, from, at, toks) ==
  /\ k # Len(pieces) /\ IsTag(pieces[k + 1])
  /\ from = Pos(pieces, k) /\ at = from
  /\ toks = Flushed(Readings(pieces)[k])

\* The reading is in an open tag of a script, whose first two bytes are dropped.
InSkippedTag(pieces, k, from, at, toks) ==
  /\ k # Len(pieces) /\ pieces[k + 1].kind = "open" /\ Readings(pieces)[k].script
  /\ from = Pos(pieces, k) + 2 /\ from <= at /\ at < Pos(pieces, k + 1)
  /\ toks = Flushed(Readings(pieces)[k])

StateAt(pieces, k) == IF Readings(pieces)[k].script THEN "SCRIPT_CONTENT" ELSE "NORMAL"

\* Where Next scans for a tag, k pieces being read.
InText(pieces, k, from, at, st, toks) ==
  /\ st = StateAt(pieces, k)
  /\ \/ Gathers(pieces, k, from, at, toks)
     \/ BeforeTag(pieces, k, from, at, toks)
     \/ InSkippedTag(pieces, k, from, at, toks)

\* Where Next reads a tag or a comment to its bracket.
InTag(pieces, k, kind, kept, at, st, toks) ==
  /\ st = StateAt(pieces, k)
  /\ k # Len(pieces) /\ pieces[k + 1].kind = kind
  /\ Pos(pieces, k) <= at /\ at < Pos(pieces, k + 1)
  /\ kind = "open" => ~ Readings(pieces)[k].script
  /\ IF kind = "comment" THEN toks = Readings(pieces)[k].out
     ELSE kept = Pos(pieces, k) /\ toks = Flushed(Readings(pieces)[k])

\* In text, and in a tag, the tokens so far are those of the first pieces.
LEMMA InTextHanded ==
  ASSUME NEW pieces, NEW k, NEW from, NEW at, NEW st, NEW toks,
         InText(pieces, k, from, at, st, toks)
  PROVE  Handed(pieces, k, toks)
BY DEF InText, Gathers, BeforeTag, InSkippedTag, Handed, IsTag

LEMMA InTagHanded ==
  ASSUME NEW pieces, NEW k, NEW kind \in {"open", "close", "comment"}, NEW kept, NEW at,
         NEW st, NEW toks, InTag(pieces, k, kind, kept, at, st, toks)
  PROVE  Handed(pieces, k, toks)
BY DEF InTag, Handed, IsTag

\* Behind the last piece there is nothing.
LEMMA AtEnd ==
  ASSUME NEW pieces \in Seq(Pieces), NEW k \in 0 .. Len(pieces),
         Pos(pieces, k) = Len(Whole(pieces))
  PROVE  k = Len(pieces)
<1>1. SUFFICES ASSUME k # Len(pieces) PROVE FALSE
  OBVIOUS
<1>2. PICK p \in Pieces, pos \in Nat, last \in Nat \ {0} : Located(pieces, k, p, pos, last)
  BY <1>1, Locate
<1> QED BY <1>2, WholeType DEF Located

\* A byte more, in a text or one that is no "<".
LEMMA Advance ==
  ASSUME NEW pieces \in Seq(Pieces), NEW k \in 0 .. Len(pieces), NEW from \in Nat,
         NEW at \in Nat, NEW st, NEW toks, from <= at, at < Len(Whole(pieces)),
         InText(pieces, k, from, at, st, toks),
         \/ Whole(pieces)[at + 1] # "<"
         \/ k # Len(pieces) /\ pieces[k + 1].kind = "text"
  PROVE  \E m \in 0 .. Len(pieces) : InText(pieces, m, from, at + 1, st, toks)
<1>1. k # Len(pieces)
  <2>1. SUFFICES ASSUME k = Len(pieces) PROVE FALSE
    OBVIOUS
  <2>2. at = Len(Whole(pieces))
    BY <2>1, WholeType DEF InText, Gathers, BeforeTag, InSkippedTag
  <2> QED BY <2>2, WholeType
<1>2. PICK p \in Pieces, pos \in Nat, last \in Nat \ {0} : Located(pieces, k, p, pos, last)
  BY <1>1, Locate
<1>3. PICK m \in 0 .. Len(pieces) : m = k + 1
  BY <1>2 DEF Located
<1>4. /\ Pos(pieces, k) = pos /\ Pos(pieces, m) = pos + last
      /\ pos + last <= Len(Whole(pieces)) /\ pieces[k + 1] = p /\ last = Len(p.bytes)
      /\ \A j \in 1 .. last : Whole(pieces)[pos + j] = p.bytes[j]
  BY <1>2, <1>3 DEF Located
<1>5. PICK r \in ReadingsOf : r = Readings(pieces)[k]
  BY <1>1, ReadingsNext
<1>6. PICK q \in ReadingsOf : q = Readings(pieces)[m] /\ q = ReadPiece(r, p)
  BY <1>1, <1>3, <1>4, <1>5, ReadingsNext, ReadingsType
<1>7. st = StateAt(pieces, k)
  BY DEF InText
<1>8. CASE Gathers(pieces, k, from, at, toks)
  <2>1. p.kind = "text"
    <3>1. CASE at = pos
      <4>1. Whole(pieces)[at + 1] = p.bytes[1]
        BY <1>4, <3>1
      <4> QED BY <1>4, <4>1, TagPiece
    <3>2. CASE at # pos
      BY <1>4, <1>8, <3>2 DEF Gathers
    <3> QED BY <3>1, <3>2
  <2>2. Reads(q, r.out, r.text \o p.bytes, r.script)
    BY <1>6, <2>1, ReadPieceIs
  <2>3. from <= pos /\ pos <= at /\ at < pos + last
    <3>1. from <= pos /\ pos <= at /\ (at # pos => at < pos + last)
      BY <1>3, <1>4, <1>8 DEF Gathers
    <3> QED BY <3>1
  <2>4. toks = r.out /\ Slice(pieces, from, pos) = r.text
    BY <1>4, <1>5, <1>8 DEF Gathers
  <2>5. CASE at + 1 < pos + last
    <3>1. Gathers(pieces, k, from, at + 1, toks)
      BY <1>1, <1>3, <1>4, <1>5, <2>1, <2>3, <2>4, <2>5 DEF Gathers
    <3> QED BY <1>7, <3>1 DEF InText
  <2>6. CASE at + 1 = pos + last
    <3>1. StateAt(pieces, m) = StateAt(pieces, k)
      BY <1>5, <1>6, <2>2 DEF Reads, StateAt
    <3>2. Slice(pieces, pos, pos + last) = p.bytes
      BY <1>2, SlicePiece
    <3>3. PICK top \in Nat : top = pos + last /\ pos <= top /\ top <= Len(Whole(pieces)) /\ from <= top
      BY <1>4, <2>3
    <3>4. Slice(pieces, from, pos) \o Slice(pieces, pos, top) = Slice(pieces, from, top)
      <4>1. from <= pos /\ pos <= top /\ top <= Len(Whole(pieces))
        BY <2>3, <3>3
      <4> QED BY <4>1, SliceJoin
    <3>5. Slice(pieces, from, top) = q.text /\ toks = q.out
      BY <2>2, <2>4, <3>2, <3>3, <3>4 DEF Reads
    <3>6. Gathers(pieces, m, from, at + 1, toks)
      BY <1>4, <1>6, <2>6, <3>3, <3>5 DEF Gathers
    <3> QED BY <1>7, <3>1, <3>6 DEF InText
  <2> QED BY <2>3, <2>5, <2>6
<1>9. CASE BeforeTag(pieces, k, from, at, toks)
  <2>1. at = pos /\ p.kind # "text"
    BY <1>4, <1>9 DEF BeforeTag, IsTag
  <2>2. Whole(pieces)[at + 1] = p.bytes[1]
    BY <1>4, <2>1
  <2> QED BY <1>4, <2>1, <2>2, TagPiece
<1>10. CASE InSkippedTag(pieces, k, from, at, toks)
  <2>1. /\ p.kind = "open" /\ r.script /\ from = pos + 2 /\ at < pos + last
        /\ toks = Flushed(r)
    BY <1>3, <1>4, <1>5, <1>10 DEF InSkippedTag
  <2>2. Reads(q, Flushed(r), SubSeq(p.bytes, 3, Len(p.bytes)), TRUE)
    BY <1>6, <2>1, ReadPieceIs
  <2>3. CASE at + 1 < pos + last
    <3>1. InSkippedTag(pieces, k, from, at + 1, toks)
      BY <1>1, <1>3, <1>4, <1>5, <2>1, <2>3 DEF InSkippedTag
    <3> QED BY <1>7, <3>1 DEF InText
  <2>4. CASE at + 1 = pos + last
    <3>1. StateAt(pieces, m) = StateAt(pieces, k)
      BY <1>5, <1>6, <2>1, <2>2 DEF Reads, StateAt
    <3>2. last > 2
      BY <1>4, <2>1, TagPiece
    <3>3. Slice(pieces, pos + 2, pos + last) = SubSeq(p.bytes, 3, last)
      <4>1. PICK i \in Nat : i = pos + 2
        OBVIOUS
      <4>2. PICK l \in Nat : l = last /\ l > 2 /\ Located(pieces, k, p, pos, l)
        BY <1>2, <3>2
      <4>3. Slice(pieces, i, pos + l) = SubSeq(p.bytes, 3, l)
        BY <1>2, <4>1, <4>2, SliceRest
      <4> QED BY <4>1, <4>2, <4>3
    <3>4. Slice(pieces, from, at + 1) = q.text /\ toks = q.out
      BY <1>4, <2>1, <2>2, <2>4, <3>3 DEF Reads
    <3>5. Gathers(pieces, m, from, at + 1, toks)
      BY <1>4, <1>6, <2>4, <3>4 DEF Gathers
    <3> QED BY <1>7, <3>1, <3>5 DEF InText
  <2>5. at + 1 < pos + last \/ at + 1 = pos + last
    <3>1. at < pos + last
      BY <2>1
    <3> QED BY <3>1
  <2> QED BY <2>3, <2>4, <2>5
<1> QED BY <1>8, <1>9, <1>10 DEF InText

\* What a "<" is that has the byte x behind it: of a text, or the first of a tag or a comment.
LEMMA Bracketed ==
  ASSUME NEW pieces \in Seq(Pieces), NEW k \in 0 .. Len(pieces), NEW from \in Nat,
         NEW at \in Nat, NEW st, NEW toks, at < Len(Whole(pieces)),
         InText(pieces, k, from, at, st, toks), Whole(pieces)[at + 1] = "<"
  PROVE  /\ k # Len(pieces)
         /\ \/ /\ pieces[k + 1].kind = "text" /\ Gathers(pieces, k, from, at, toks)
               /\ at + 1 < Len(Whole(pieces)) => Whole(pieces)[at + 2] \notin Marks
            \/ /\ pieces[k + 1].kind # "text" /\ at = Pos(pieces, k)
               /\ at + 1 < Len(Whole(pieces))
               /\ Whole(pieces)[at + 2] = pieces[k + 1].bytes[2]
<1>1. k # Len(pieces)
  <2>1. SUFFICES ASSUME k = Len(pieces) PROVE FALSE
    OBVIOUS
  <2>2. at = Len(Whole(pieces))
    BY <2>1, WholeType DEF InText, Gathers, BeforeTag, InSkippedTag
  <2> QED BY <2>2, WholeType
<1>2. PICK p \in Pieces, pos \in Nat, last \in Nat \ {0} : Located(pieces, k, p, pos, last)
  BY <1>1, Locate
<1>3. /\ Pos(pieces, k) = pos /\ Pos(pieces, k + 1) = pos + last
      /\ pos + last <= Len(Whole(pieces)) /\ pieces[k + 1] = p /\ last = Len(p.bytes)
      /\ \A j \in 1 .. last : Whole(pieces)[pos + j] = p.bytes[j]
  BY <1>2 DEF Located
<1>4. CASE p.kind # "text" /\ at = pos
  <2>1. last > 2
    BY <1>3, <1>4, TagPiece
  <2>2. Whole(pieces)[at + 2] = p.bytes[2] /\ at + 1 < pos + last
    BY <1>3, <1>4, <2>1
  <2>3. at + 1 < Len(Whole(pieces))
    BY <1>3, <2>2, WholeType
  <2> QED BY <1>1, <1>3, <1>4, <2>2, <2>3
<1>5. CASE p.kind = "text"
  <2>1. Gathers(pieces, k, from, at, toks)
    BY <1>3, <1>5 DEF InText, BeforeTag, InSkippedTag, IsTag
  <2>2. pos <= at /\ at < pos + last
    BY <1>3, <2>1 DEF Gathers
  <2>3. PICK i \in 1 .. last : pos + i = at + 1
    BY <2>2
  <2>4. p.bytes[i] = "<"
    BY <1>3, <2>3
  <2>5. ASSUME at + 1 < Len(Whole(pieces)) PROVE Whole(pieces)[at + 2] \notin Marks
    <3>1. CASE i # last
      <4>1. i \in 1 .. Len(p.bytes) - 1 /\ i + 1 \in 1 .. last /\ pos + (i + 1) = at + 2
        BY <1>3, <2>3, <3>1
      <4>2. Whole(pieces)[at + 2] = p.bytes[i + 1]
        BY <1>3, <4>1
      <4> QED BY <1>5, <2>4, <4>1, <4>2, TextPiece
    <3>2. CASE i = last
      <4>1. PICK m \in 0 .. Len(pieces) : m = k + 1 /\ Pos(pieces, m) = at + 1
        BY <1>2, <1>3, <2>3, <3>2 DEF Located
      <4>2. m # Len(pieces)
        BY <2>5, <4>1, WholeType
      <4>3. PICK q \in Pieces, next \in Nat, size \in Nat \ {0} :
              Located(pieces, m, q, next, size)
        BY <4>2, Locate
      <4>4. Whole(pieces)[at + 2] = q.bytes[1]
        <5>1. next = at + 1 /\ Whole(pieces)[next + 1] = q.bytes[1]
          BY <4>1, <4>3 DEF Located
        <5>2. next + 1 = at + 2
          BY <5>1
        <5> QED BY <5>1, <5>2
      <4>5. CASE q.kind = "text"
        BY <1>3, <1>5, <2>4, <3>2, <4>4, <4>5, TextsApart
      <4>6. CASE q.kind # "text"
        BY <4>4, <4>6, TagPiece, MarksAre
      <4> QED BY <4>5, <4>6
    <3> QED BY <3>1, <3>2
  <2> QED BY <1>1, <1>3, <1>5, <2>1, <2>5
<1>6. CASE InSkippedTag(pieces, k, from, at, toks)
  <2>1. p.kind = "open" /\ pos + 2 <= at /\ at < pos + last
    BY <1>3, <1>6 DEF InSkippedTag
  <2>2. PICK i \in 2 .. last : pos + i = at + 1
    BY <2>1
  <2>3. p.bytes[i] = "<"
    <3>1. i \in 1 .. last
      OBVIOUS
    <3> QED BY <1>3, <2>2, <3>1
  <2> QED BY <1>3, <2>1, <2>2, <2>3, TagPiece
<1>7. ASSUME p.kind # "text", ~ InSkippedTag(pieces, k, from, at, toks)
      PROVE  at = pos
  BY <1>3, <1>7 DEF InText, Gathers, BeforeTag
<1> QED BY <1>4, <1>5, <1>6, <1>7

\* A tag or a comment: the reading is at its "<", and its kind is what the mark says.
LEMMA TagBegins ==
  ASSUME NEW pieces \in Seq(Pieces), NEW k \in 0 .. Len(pieces), NEW from \in Nat,
         NEW at \in Nat, NEW st, NEW toks, from <= at, at + 1 < Len(Whole(pieces)),
         InText(pieces, k, from, at, st, toks), Whole(pieces)[at + 1] = "<",
         Whole(pieces)[at + 2] \in Marks
  PROVE  /\ k # Len(pieces) /\ at = Pos(pieces, k) /\ pieces[k + 1] \in Pieces
         /\ pieces[k + 1].kind # "text"
         /\ Whole(pieces)[at + 2] = pieces[k + 1].bytes[2]
         /\ st = StateAt(pieces, k) /\ at + 2 < Pos(pieces, k + 1)
         /\ \/ Gathers(pieces, k, from, at, toks)
            \/ BeforeTag(pieces, k, from, at, toks)
<1>1. at < Len(Whole(pieces))
  BY WholeType
<1>2. /\ k # Len(pieces) /\ pieces[k + 1].kind # "text" /\ at = Pos(pieces, k)
      /\ Whole(pieces)[at + 2] = pieces[k + 1].bytes[2]
  BY <1>1, Bracketed
<1>3. PICK p \in Pieces, pos \in Nat, last \in Nat \ {0} : Located(pieces, k, p, pos, last)
  BY <1>2, Locate
<1>4. Pos(pieces, k) = pos /\ Pos(pieces, k + 1) = pos + last /\ pieces[k + 1] = p /\ last = Len(p.bytes)
  BY <1>3 DEF Located
<1>5. last > 2
  BY <1>2, <1>4, TagPiece
<1>6. at + 2 < Pos(pieces, k + 1)
  BY <1>2, <1>4, <1>5
<1>7. ~ InSkippedTag(pieces, k, from, at, toks)
  <2>1. SUFFICES ASSUME InSkippedTag(pieces, k, from, at, toks) PROVE FALSE
    OBVIOUS
  <2>2. pos + 2 <= at /\ at = pos
    BY <1>2, <1>4, <2>1 DEF InSkippedTag
  <2> QED BY <2>2
<1> QED BY <1>2, <1>4, <1>6, <1>7 DEF InText

\* A comment begins, and the text before it is left behind.
LEMMA CommentBegins ==
  ASSUME NEW pieces \in Seq(Pieces), NEW k \in 0 .. Len(pieces), NEW from \in Nat,
         NEW at \in Nat, NEW st, NEW toks, NEW kept, from <= at, at + 1 < Len(Whole(pieces)),
         InText(pieces, k, from, at, st, toks), Whole(pieces)[at + 1] = "<",
         Whole(pieces)[at + 2] \in CommentMarks
  PROVE  InTag(pieces, k, "comment", kept, at, st, toks)
<1>1. Whole(pieces)[at + 2] \in Marks
  BY DEF Marks
<1>2. /\ k # Len(pieces) /\ at = Pos(pieces, k) /\ pieces[k + 1] \in Pieces
      /\ pieces[k + 1].kind # "text"
      /\ Whole(pieces)[at + 2] = pieces[k + 1].bytes[2]
      /\ st = StateAt(pieces, k) /\ at + 2 < Pos(pieces, k + 1)
      /\ Gathers(pieces, k, from, at, toks) \/ BeforeTag(pieces, k, from, at, toks)
  BY <1>1, TagBegins
<1>3. pieces[k + 1].kind = "comment"
  BY <1>2, TagPiece, MarksAre
<1>4. toks = Readings(pieces)[k].out
  BY <1>2, <1>3 DEF Gathers, BeforeTag, IsTag
<1>5. Pos(pieces, k) <= at /\ at < Pos(pieces, k + 1)
  <2>1. PICK p \in Pieces, pos \in Nat, last \in Nat \ {0} : Located(pieces, k, p, pos, last)
    BY <1>2, Locate
  <2>2. Pos(pieces, k + 1) = pos + last
    BY <2>1 DEF Located
  <2> QED BY <1>2, <2>2
<1> QED BY <1>2, <1>3, <1>4, <1>5 DEF InTag

\* The text before a tag is handed over.
LEMMA TextBefore ==
  ASSUME NEW pieces \in Seq(Pieces), NEW k \in 0 .. Len(pieces), NEW from \in Nat,
         NEW at \in Nat, NEW st, NEW toks, from < at, at + 1 < Len(Whole(pieces)),
         InText(pieces, k, from, at, st, toks), Whole(pieces)[at + 1] = "<",
         Whole(pieces)[at + 2] \in Letters \cup {"/"}
  PROVE  InText(pieces, k, at, at, st,
                Append(toks, [kind |-> "text",
                              data |-> RemoveNewLine(Slice(pieces, from, at))]))
<1>1. Whole(pieces)[at + 2] \in Marks /\ from <= at
  BY DEF Marks
<1>2. /\ k # Len(pieces) /\ at = Pos(pieces, k) /\ pieces[k + 1] \in Pieces
      /\ pieces[k + 1].kind # "text"
      /\ Whole(pieces)[at + 2] = pieces[k + 1].bytes[2]
      /\ st = StateAt(pieces, k)
      /\ Gathers(pieces, k, from, at, toks) \/ BeforeTag(pieces, k, from, at, toks)
  BY <1>1, TagBegins
<1>3. IsTag(pieces[k + 1])
  BY <1>2, TagPiece, MarksAre DEF IsTag
<1>4. Gathers(pieces, k, from, at, toks)
  <2>1. ASSUME BeforeTag(pieces, k, from, at, toks) PROVE at = from
    BY <2>1 DEF BeforeTag
  <2> QED BY <1>2, <2>1
<1>5. toks = Readings(pieces)[k].out /\ Slice(pieces, from, at) = Readings(pieces)[k].text
  BY <1>2, <1>4 DEF Gathers
<1>6. Slice(pieces, from, at) # <<>>
  <2>1. at <= Len(Whole(pieces))
    BY WholeType
  <2> QED BY <1>1, <2>1, SliceEmpty
<1>7. Flushed(Readings(pieces)[k])
        = Append(toks, [kind |-> "text", data |-> RemoveNewLine(Slice(pieces, from, at))])
  BY <1>5, <1>6 DEF Flushed
<1>8. PICK new : new = Flushed(Readings(pieces)[k])
  OBVIOUS
<1>9. BeforeTag(pieces, k, at, at, new)
  BY <1>2, <1>3, <1>8 DEF BeforeTag
<1>10. InText(pieces, k, at, at, st, new)
  BY <1>2, <1>9 DEF InText
<1> QED BY <1>7, <1>8, <1>10

\* A tag with no text before it: it is read to its bracket, or its first two
\* bytes are dropped.
LEMMA TagTaken ==
  ASSUME NEW pieces \in Seq(Pieces), NEW k \in 0 .. Len(pieces), NEW from \in Nat,
         NEW at \in Nat, NEW st, NEW toks, from = at, at + 1 < Len(Whole(pieces)),
         InText(pieces, k, from, at, st, toks), Whole(pieces)[at + 1] = "<",
         Whole(pieces)[at + 2] \in Letters \cup {"/"}
  PROVE  /\ Whole(pieces)[at + 2] = "/" => InTag(pieces, k, "close", at, at + 2, st, toks)
         /\ Whole(pieces)[at + 2] # "/" /\ st = "NORMAL" =>
              InTag(pieces, k, "open", at, at + 2, st, toks)
         /\ Whole(pieces)[at + 2] # "/" /\ st # "NORMAL" =>
              InText(pieces, k, at + 2, at + 2, st, toks)
<1>1. Whole(pieces)[at + 2] \in Marks /\ from <= at
  BY DEF Marks
<1>2. /\ k # Len(pieces) /\ at = Pos(pieces, k) /\ pieces[k + 1] \in Pieces
      /\ pieces[k + 1].kind # "text"
      /\ Whole(pieces)[at + 2] = pieces[k + 1].bytes[2]
      /\ st = StateAt(pieces, k) /\ at + 2 < Pos(pieces, k + 1)
      /\ Gathers(pieces, k, from, at, toks) \/ BeforeTag(pieces, k, from, at, toks)
  BY <1>1, TagBegins
<1>3. toks = Flushed(Readings(pieces)[k])
  <2>1. CASE Gathers(pieces, k, from, at, toks)
    <3>1. toks = Readings(pieces)[k].out /\ Slice(pieces, from, at) = Readings(pieces)[k].text
      BY <1>2, <2>1 DEF Gathers
    <3>2. Slice(pieces, from, at) = <<>>
      <4>1. at <= Len(Whole(pieces))
        BY WholeType
      <4> QED BY <1>1, <4>1, SliceEmpty
    <3> QED BY <3>1, <3>2 DEF Flushed
  <2>2. CASE BeforeTag(pieces, k, from, at, toks)
    BY <2>2 DEF BeforeTag
  <2> QED BY <1>2, <2>1, <2>2
<1>4. PICK a \in Nat : a = at + 2 /\ at <= a
  OBVIOUS
<1>5. Whole(pieces)[at + 2] = "/" => pieces[k + 1].kind = "close"
  BY <1>2, TagPiece, MarksAre
<1>6. Whole(pieces)[at + 2] # "/" => pieces[k + 1].kind = "open"
  BY <1>2, TagPiece, MarksAre
<1>7. Pos(pieces, k) <= a /\ a < Pos(pieces, k + 1)
  BY <1>2, <1>4
<1>8. ASSUME Whole(pieces)[at + 2] = "/"
      PROVE  InTag(pieces, k, "close", at, a, st, toks)
  BY <1>2, <1>3, <1>5, <1>7, <1>8 DEF InTag
<1>9. ASSUME Whole(pieces)[at + 2] # "/", st = "NORMAL"
      PROVE  InTag(pieces, k, "open", at, a, st, toks)
  <2>1. ~ Readings(pieces)[k].script
    BY <1>2, <1>9 DEF StateAt
  <2> QED BY <1>2, <1>3, <1>6, <1>7, <1>9, <2>1 DEF InTag
<1>10. ASSUME Whole(pieces)[at + 2] # "/", st # "NORMAL"
       PROVE  InText(pieces, k, a, a, st, toks)
  <2>1. Readings(pieces)[k].script
    BY <1>2, <1>10 DEF StateAt
  <2>2. a <= a
    OBVIOUS
  <2>3. InSkippedTag(pieces, k, a, a, toks)
    BY <1>2, <1>3, <1>4, <1>6, <1>7, <1>10, <2>1, <2>2 DEF InSkippedTag
  <2> QED BY <1>2, <2>3 DEF InText
<1> QED BY <1>4, <1>8, <1>9, <1>10

\* In a tag the reading goes on to the first bracket, its last byte.
LEMMA TagPasses ==
  ASSUME NEW pieces \in Seq(Pieces), NEW k \in 0 .. Len(pieces), NEW kept, NEW at \in Nat,
         NEW kind \in {"open", "close", "comment"}, NEW st, NEW toks,
         InTag(pieces, k, kind, kept, at, st, toks)
  PROVE  /\ Whole(pieces)[at + 1] # ">" => InTag(pieces, k, kind, kept, at + 1, st, toks)
         /\ Whole(pieces)[at + 1] = ">" => at + 1 = Pos(pieces, k + 1)
<1>1. /\ k # Len(pieces) /\ pieces[k + 1].kind = kind
      /\ Pos(pieces, k) <= at /\ at < Pos(pieces, k + 1)
  BY DEF InTag
<1>2. PICK p \in Pieces, pos \in Nat, last \in Nat \ {0} : Located(pieces, k, p, pos, last)
  BY <1>1, Locate
<1>3. /\ Pos(pieces, k) = pos /\ Pos(pieces, k + 1) = pos + last
      /\ pieces[k + 1] = p /\ last = Len(p.bytes)
      /\ \A j \in 1 .. last : Whole(pieces)[pos + j] = p.bytes[j]
  BY <1>2 DEF Located
<1>4. PICK i \in 1 .. last : pos + i = at + 1
  <2>1. pos <= at /\ at < pos + last
    BY <1>1, <1>3
  <2>2. (at + 1) - pos \in 1 .. last /\ pos + ((at + 1) - pos) = at + 1
    BY <2>1
  <2> QED BY <2>2
<1>5. Whole(pieces)[at + 1] = ">" <=> i = last
  <2>1. Whole(pieces)[at + 1] = p.bytes[i]
    BY <1>3, <1>4
  <2>2. p.kind # "text"
    BY <1>1, <1>3
  <2>3. \A x \in 1 .. last : p.bytes[x] = ">" <=> x = last
    BY <1>3, <2>2, TagPiece
  <2> QED BY <2>1, <2>3
<1>6. i = last => at + 1 = pos + last
  BY <1>4
<1>7. i # last => pos <= at + 1 /\ at + 1 < pos + last
  BY <1>4
<1>8. ASSUME i # last PROVE InTag(pieces, k, kind, kept, at + 1, st, toks)
  BY <1>3, <1>7, <1>8 DEF InTag
<1> QED BY <1>3, <1>5, <1>6, <1>8

\* What is unmarshalled at the bracket is the piece.
LEMMA TagReads ==
  ASSUME NEW p \in Pieces
  PROVE  /\ p.kind = "open" => UnmarshalOpenTag(p.bytes) = [ok |-> TRUE, tag |-> p.token]
         /\ p.kind = "close" => UnmarshalCloseTag(p.bytes) = p.token
BY PiecesAssumption, Zenon

\* A tag or a comment is read to its bracket.
LEMMA TagEnds ==
  ASSUME NEW pieces \in Seq(Pieces), NEW k \in 0 .. Len(pieces), NEW kept, NEW at \in Nat,
         NEW kind \in {"open", "close", "comment"}, NEW st, NEW toks,
         InTag(pieces, k, kind, kept, at, st, toks), Whole(pieces)[at + 1] = ">"
  PROVE  /\ pieces[k + 1] \in Pieces
         /\ kind = "open" =>
              /\ UnmarshalOpenTag(Slice(pieces, kept, at + 1))
                   = [ok |-> TRUE, tag |-> pieces[k + 1].token]
              /\ \E m \in 0 .. Len(pieces) :
                   InText(pieces, m, at + 1, at + 1,
                          IF pieces[k + 1].token.name = Script THEN "SCRIPT_CONTENT" ELSE st,
                          Append(toks, pieces[k + 1].token))
         /\ kind = "close" =>
              /\ UnmarshalCloseTag(Slice(pieces, kept, at + 1)) = pieces[k + 1].token
              /\ \E m \in 0 .. Len(pieces) :
                   InText(pieces, m, at + 1, at + 1, "NORMAL",
                          Append(toks, pieces[k + 1].token))
         /\ kind = "comment" =>
              \E m \in 0 .. Len(pieces) : InText(pieces, m, at + 1, at + 1, st, toks)
<1>1. /\ k # Len(pieces) /\ pieces[k + 1].kind = kind /\ st = StateAt(pieces, k)
      /\ kind = "open" => ~ Readings(pieces)[k].script
      /\ kind = "comment" => toks = Readings(pieces)[k].out
      /\ kind # "comment" => kept = Pos(pieces, k) /\ toks = Flushed(Readings(pieces)[k])
  BY DEF InTag
<1>2. PICK p \in Pieces, pos \in Nat, last \in Nat \ {0} : Located(pieces, k, p, pos, last)
  BY <1>1, Locate
<1>3. /\ Pos(pieces, k) = pos /\ Pos(pieces, k + 1) = pos + last
      /\ pos + last <= Len(Whole(pieces)) /\ pieces[k + 1] = p
  BY <1>2 DEF Located
<1>4. PICK m \in 0 .. Len(pieces) : m = k + 1
  BY <1>2 DEF Located
<1>5. PICK top \in Nat : top = at + 1 /\ top = pos + last /\ Pos(pieces, m) = top
  <2>1. at + 1 = Pos(pieces, k + 1)
    BY TagPasses
  <2> QED BY <1>3, <1>4, <2>1
<1>6. PICK r \in ReadingsOf : r = Readings(pieces)[k]
  BY <1>1, ReadingsNext
<1>7. PICK q \in ReadingsOf : q = Readings(pieces)[m] /\ q = ReadPiece(r, p)
  BY <1>1, <1>3, <1>4, <1>6, ReadingsNext, ReadingsType
<1>8. ASSUME kind # "comment" PROVE Slice(pieces, kept, top) = p.bytes
  BY <1>1, <1>2, <1>3, <1>5, <1>8, SlicePiece
<1>9. ASSUME q.text = <<>> PROVE Gathers(pieces, m, top, top, q.out)
  <2>1. Slice(pieces, top, top) = <<>>
    <3>1. top <= Len(Whole(pieces)) /\ top <= top
      BY <1>3, <1>5
    <3> QED BY <3>1, SliceEmpty
  <2>2. top <= top
    OBVIOUS
  <2> QED BY <1>5, <1>7, <1>9, <2>1, <2>2 DEF Gathers
<1>10. ASSUME kind = "open"
       PROVE  /\ UnmarshalOpenTag(Slice(pieces, kept, top)) = [ok |-> TRUE, tag |-> p.token]
              /\ InText(pieces, m, top, top,
                        IF p.token.name = Script THEN "SCRIPT_CONTENT" ELSE st,
                        Append(toks, p.token))
  <2>1. UnmarshalOpenTag(Slice(pieces, kept, top)) = [ok |-> TRUE, tag |-> p.token]
    BY <1>1, <1>3, <1>8, <1>10, TagReads
  <2>2. Reads(q, Append(Flushed(r), p.token), <<>>, p.token.name = Script)
    BY <1>1, <1>3, <1>6, <1>7, <1>10, ReadPieceIs
  <2>3. q.text = <<>> /\ q.out = Append(toks, p.token)
    BY <1>1, <1>6, <1>10, <2>2 DEF Reads
  <2>4. StateAt(pieces, m) = IF p.token.name = Script THEN "SCRIPT_CONTENT" ELSE st
    <3>1. st = "NORMAL"
      BY <1>1, <1>10 DEF StateAt
    <3>2. Readings(pieces)[m].script = (p.token.name = Script)
      BY <1>7, <2>2 DEF Reads
    <3> QED BY <3>1, <3>2 DEF StateAt
  <2> QED BY <1>9, <2>1, <2>3, <2>4 DEF InText
<1>11. ASSUME kind = "close"
       PROVE  /\ UnmarshalCloseTag(Slice(pieces, kept, top)) = p.token
              /\ InText(pieces, m, top, top, "NORMAL", Append(toks, p.token))
  <2>1. UnmarshalCloseTag(Slice(pieces, kept, top)) = p.token
    BY <1>1, <1>3, <1>8, <1>11, TagReads
  <2>2. Reads(q, Append(Flushed(r), p.token), <<>>, FALSE)
    BY <1>1, <1>3, <1>7, <1>11, ReadPieceIs
  <2>3. q.text = <<>> /\ q.out = Append(toks, p.token)
    BY <1>1, <1>6, <1>11, <2>2 DEF Reads
  <2>4. StateAt(pieces, m) = "NORMAL"
    BY <1>7, <2>2 DEF Reads, StateAt
  <2> QED BY <1>9, <2>1, <2>3, <2>4 DEF InText
<1>12. ASSUME kind = "comment" PROVE InText(pieces, m, top, top, st, toks)
  <2>1. Reads(q, r.out, <<>>, r.script)
    BY <1>1, <1>3, <1>7, <1>12, ReadPieceIs
  <2>2. q.text = <<>> /\ q.out = toks
    BY <1>1, <1>6, <1>12, <2>1 DEF Reads
  <2>3. StateAt(pieces, m) = st
    BY <1>1, <1>6, <1>7, <2>1 DEF Reads, StateAt
  <2> QED BY <1>9, <2>2, <2>3 DEF InText
<1> QED BY <1>3, <1>5, <1>10, <1>11, <1>12

\* At the end of the page all of it is handed over.
LEMMA AllHanded ==
  ASSUME NEW pieces \in Seq(Pieces), NEW k \in 0 .. Len(pieces), NEW from \in Nat,
         NEW at \in Nat, NEW st, NEW toks, at = Len(Whole(pieces)),
         InText(pieces, k, from, at, st, toks)
  PROVE  toks = Readings(pieces)[Len(pieces)].out
<1>1. k = Len(pieces)
  <2>1. SUFFICES ASSUME k # Len(pieces) PROVE FALSE
    OBVIOUS
  <2>2. PICK p \in Pieces, pos \in Nat, last \in Nat \ {0} : Located(pieces, k, p, pos, last)
    BY <2>1, Locate
  <2>3. Pos(pieces, k) = pos /\ Pos(pieces, k + 1) = pos + last /\ pos + last <= at
    BY <2>2 DEF Located
  <2>4. at = pos \/ at < pos + last
    BY <2>3 DEF InText, Gathers, BeforeTag, InSkippedTag
  <2> QED BY <2>3, <2>4
<1> QED BY <1>1 DEF InText, Gathers, BeforeTag, InSkippedTag

\* So it is if its last byte is a "<".
LEMMA AllHandedAhead ==
  ASSUME NEW pieces \in Seq(Pieces), NEW k \in 0 .. Len(pieces), NEW from \in Nat,
         NEW at \in Nat, NEW st, NEW toks, from <= at, at + 1 = Len(Whole(pieces)),
         InText(pieces, k, from, at, st, toks), Whole(pieces)[at + 1] = "<"
  PROVE  toks = Readings(pieces)[Len(pieces)].out
<1>1. at < Len(Whole(pieces)) /\ ~ (at + 1 < Len(Whole(pieces)))
  OBVIOUS
<1>2. k # Len(pieces) /\ pieces[k + 1].kind = "text"
  BY <1>1, Bracketed
<1>3. PICK m \in 0 .. Len(pieces) : InText(pieces, m, from, at + 1, st, toks)
  BY <1>1, <1>2, Advance
<1> QED BY <1>3, AllHanded

\* Places in the page: that of the first byte of the buffer, of the reading, of
\* the first byte of the current token, and of the first it keeps.
Off == sent - Len(buf)
At == Off + reader.end
From == Off + reader.start
Kept == Off + data.start

\* The buffer holds the bytes of the page that were delivered last.
BufferInv == Off \in Nat /\ IsPart(buf, Whole(page), Off, Len(buf))

\* k pieces are read.
ReadingAt(k) ==
  /\ pc = "next" => InText(page, k, At, At, state, tokens)
  /\ pc = "scan" => InText(page, k, From, At, state, tokens)
  /\ pc = "ahead" => InText(page, k, From, At - 1, state, tokens) /\ Whole(page)[At] = "<"
  /\ pc \in {"open", "close", "comment"} => InTag(page, k, pc, Kept, At, state, tokens)
  /\ pc \in {"ended", "panic"} => Handed(page, k, tokens)

ReadingInv == \E k \in 0 .. Len(page) : ReadingAt(k)

TokensInv == CursorInv /\ BufferInv /\ ReadingInv /\ WholePage

LEMMA Within == \A z \in Nat : \A x \in 0 .. z : x \in Nat /\ x <= z
OBVIOUS

\* The buffer ends where the delivered bytes do.
LEMMA Delivered ==
  ASSUME CursorInv, BufferInv
  PROVE  /\ page \in Seq(Pieces) /\ Bytes = Whole(page) /\ Bytes \in Seq(Byte)
         /\ buf \in Seq(Byte) /\ Off \in Nat
         /\ Len(Bytes) \in Nat /\ sent \in Nat /\ sent <= Len(Bytes)
         /\ Len(buf) \in Nat /\ Off + Len(buf) = sent
<1>1. page \in Seq(Pieces) /\ Bytes = Whole(page) /\ Bytes \in Seq(Byte) /\ Len(Bytes) \in Nat
  BY PageBytes DEF CursorInv, Whole
<1>2. sent \in Nat /\ sent <= Len(Bytes)
  <2>1. sent \in 0 .. Len(Bytes)
    BY DEF CursorInv, TokenizerTypeOK
  <2> QED BY <1>1, <2>1, Within, Zenon
<1>3. buf \in Seq(Byte) /\ Len(buf) \in Nat /\ Off \in Nat
  BY LenProperties DEF CursorInv, BufferInv
<1>4. Off + Len(buf) = sent
  BY <1>2, <1>3 DEF Off
<1> QED BY <1>1, <1>2, <1>3, <1>4

\* Where the cursors are in the page.
LEMMA Where ==
  ASSUME CursorInv, BufferInv
  PROVE  /\ page \in Seq(Pieces) /\ Bytes = Whole(page)
         /\ From \in Nat /\ At \in Nat /\ Kept \in Nat
         /\ From <= At /\ At <= Len(Whole(page)) /\ Kept <= At
         /\ pc = "ahead" => From < At
         /\ pc \in {"scan", "ahead"} => Kept = From
         /\ reader.end = Len(buf) => At = sent
         /\ reader.end < Len(buf) => At < Len(Whole(page)) /\ Symbol = Whole(page)[At + 1]
<1>1. page \in Seq(Pieces) /\ Bytes = Whole(page)
  BY Delivered
<1>2. PICK off \in Nat : off = Off
  BY Delivered
<1>3. PICK w \in Nat : w = Len(Whole(page))
  BY Delivered
<1>4. PICK s \in Nat : s = sent /\ s <= w
  BY <1>3, Delivered
<1>5. PICK l \in Nat : l = Len(buf)
  BY Delivered
<1>6. off + l = s
  BY <1>2, <1>4, <1>5, Delivered
<1>7. PICK rs \in Nat, re \in Nat, ds \in Nat, de \in Nat :
        /\ reader.start = rs /\ reader.end = re /\ data.start = ds /\ data.end = de
        /\ rs <= re /\ re <= l /\ rs <= ds /\ ds <= de /\ de <= re
  BY <1>5 DEF CursorInv, Cursors, TokenizerTypeOK
<1>8. At = off + re /\ From = off + rs /\ Kept = off + ds
  BY <1>2, <1>7 DEF At, From, Kept
<1>9. /\ From \in Nat /\ At \in Nat /\ Kept \in Nat
      /\ From <= At /\ At <= w /\ Kept <= At
  BY <1>4, <1>6, <1>7, <1>8
<1>10. pc = "ahead" => From < At
  BY <1>7, <1>8 DEF CursorInv
<1>11. pc \in {"scan", "ahead"} => Kept = From
  BY <1>7, <1>8 DEF CursorInv
<1>12. re = l => At = s
  BY <1>6, <1>8
<1>13. ASSUME re < l PROVE At < w /\ Symbol = Whole(page)[At + 1]
  <2>1. re + 1 \in 1 .. l /\ off + (re + 1) = At + 1 /\ At < w
    BY <1>4, <1>6, <1>8, <1>13
  <2>2. buf[re + 1] = Whole(page)[off + (re + 1)]
    BY <1>2, <1>5, <2>1 DEF BufferInv, IsPart
  <2> QED BY <1>7, <2>1, <2>2 DEF Symbol
<1> QED BY <1>1, <1>3, <1>4, <1>5, <1>7, <1>9, <1>10, <1>11, <1>12, <1>13

\* What the token keeps is a slice of the page.
LEMMA DataIs ==
  ASSUME CursorInv, BufferInv, NEW e \in Nat, data.start <= e, e <= Len(buf)
  PROVE  DataUpTo(e) = Slice(page, Kept, Off + e)
<1>1. PICK ds \in Nat : ds = data.start /\ ds <= e
  BY DEF CursorInv, Cursors
<1>2. PICK n \in Nat : e = ds + n
  <2>1. e - ds \in Nat /\ e = ds + (e - ds)
    BY <1>1
  <2> QED BY <2>1
<1>3. PICK off \in Nat : off = Off
  BY Delivered
<1>4. PICK l \in Nat : l = Len(buf) /\ e <= l
  BY Delivered
<1>5. PICK a : a = SubSeq(buf, ds + 1, e)
  OBVIOUS
<1>6. a \in Seq(Byte) /\ IsPart(a, buf, ds, n)
  BY <1>2, <1>4, <1>5, Delivered, Part
<1>7. IsPart(buf, Whole(page), off, l)
  BY <1>3, <1>4 DEF BufferInv
<1>8. PICK i \in Nat : i = off + ds
  OBVIOUS
<1>9. IsPart(a, Whole(page), i, n)
  <2>1. ds + n <= l
    BY <1>2, <1>4
  <2> QED BY <1>6, <1>7, <1>8, <2>1, PartOfPart
<1>10. PICK b : b = SubSeq(Whole(page), i + 1, off + e)
  OBVIOUS
<1>11. b \in Seq(Byte) /\ IsPart(b, Whole(page), i, n)
  <2>1. off + e = i + n
    BY <1>2, <1>8
  <2>2. off + e <= Len(Whole(page))
    BY <1>3, <1>4, Delivered
  <2>3. Whole(page) \in Seq(Byte)
    BY Delivered
  <2> QED BY <1>10, <2>1, <2>2, <2>3, Part
<1>12. a = b
  BY <1>6, <1>9, <1>11, SameParts
<1>13. Kept = i
  BY <1>1, <1>3, <1>8 DEF Kept
<1> QED BY <1>1, <1>3, <1>5, <1>10, <1>12, <1>13 DEF DataUpTo, Slice

\* A read leaves the places where they are.
LEMMA RefillKeeps ==
  ASSUME CursorInv, BufferInv, NEW n \in 0 .. Len(Bytes) - sent, Refill(n)
  PROVE  /\ BufferInv' /\ Off' \in Nat /\ Off' = From /\ Kept' = Kept
         /\ NumElems \in Nat /\ Off' + NumElems = At
<1>1. /\ SamePage /\ NumElems \in Nat /\ NumElems = Len(buf) - reader.start
      /\ reader.end = Len(buf) /\ Len(buf') = NumElems + n /\ sent' = sent + n
      /\ data' = [start |-> data.start - reader.start, end |-> data.end - reader.start]
      /\ SubSeq(Bytes, sent + 1, sent + n) \in Seq(Byte)
      /\ Len(SubSeq(Bytes, sent + 1, sent + n)) = n
      /\ SubSeq(buf, reader.start + 1, reader.end) \in Seq(Byte)
      /\ Len(SubSeq(buf, reader.start + 1, reader.end)) = NumElems
  BY RefillTypes
<1>2. page \in Seq(Pieces) /\ Bytes = Whole(page) /\ Bytes' = Bytes /\ page' = page
      /\ Whole(page)' = Whole(page) /\ Bytes \in Seq(Byte)
  BY <1>1, PageBytes DEF CursorInv, Whole, SamePage
<1>3. PICK m \in Nat : m = NumElems
  BY <1>1
<1>4. PICK off \in Nat : off = Off
  BY DEF BufferInv
<1>5. PICK w \in Nat : w = Len(Bytes)
  BY Delivered
<1>6. PICK s \in Nat : s = sent /\ s <= w
  BY <1>5, Delivered
<1>7. n \in Nat /\ s + n <= w
  BY <1>5, <1>6
<1>8. PICK l \in Nat : l = Len(buf) /\ off + l = s
  BY <1>4, <1>6, Delivered
<1>9. PICK rs \in Nat : rs = reader.start /\ rs <= l /\ m = l - rs
  BY <1>1, <1>3, <1>8 DEF CursorInv, Cursors, TokenizerTypeOK
<1>10. PICK ds \in Nat : ds = data.start
  BY DEF CursorInv, Cursors
<1>11. PICK i \in Nat : i = off + rs /\ i + m = s
  <2>1. rs + m = l
    BY <1>9
  <2>2. PICK i \in Nat : i = off + rs
    OBVIOUS
  <2>3. i + m = s
    BY <1>8, <2>1, <2>2
  <2> QED BY <2>2, <2>3
<1>12. Off' = i
  <2>1. Off' = (s + n) - (m + n)
    BY <1>1, <1>3, <1>6 DEF Off
  <2> QED BY <1>7, <1>11, <2>1
<1>13. From = i /\ At = s
  BY <1>1, <1>4, <1>8, <1>9, <1>11 DEF From, At
<1>14. Kept' = Kept
  <2>1. data'.start = ds - rs
    BY <1>1, <1>9, <1>10
  <2>2. Kept' = i + (ds - rs) /\ Kept = off + ds
    BY <1>4, <1>10, <1>12, <2>1 DEF Kept
  <2> QED BY <1>11, <2>2
<1>15. PICK a : a = SubSeq(buf, rs + 1, l)
  OBVIOUS
<1>16. a \in Seq(Byte) /\ IsPart(a, Bytes, i, m)
  <2>1. a \in Seq(Byte) /\ IsPart(a, buf, rs, m)
    <3>1. l = rs + m /\ l <= Len(buf)
      BY <1>8, <1>9
    <3> QED BY <1>15, <3>1, Delivered, Part
  <2>2. IsPart(buf, Bytes, off, l) /\ rs + m <= l
    <3>1. rs + m <= l
      BY <1>9
    <3> QED BY <1>2, <1>4, <1>8, <3>1 DEF BufferInv
  <2> QED BY <1>11, <2>1, <2>2, PartOfPart
<1>17. PICK b : b = SubSeq(Bytes, s + 1, s + n)
  OBVIOUS
<1>18. b \in Seq(Byte) /\ IsPart(b, Bytes, s, n)
  BY <1>2, <1>5, <1>7, <1>17, Part
<1>19. buf' = a \o b
  BY <1>1, <1>6, <1>8, <1>9, <1>15, <1>17 DEF Refill
<1>20. IsPart(buf', Bytes, i, m + n)
  BY <1>7, <1>11, <1>16, <1>18, <1>19, PartsJoin
<1>21. BufferInv'
  BY <1>1, <1>2, <1>3, <1>12, <1>20 DEF BufferInv
<1> QED BY <1>3, <1>11, <1>12, <1>13, <1>14, <1>21

\* What a step leaves, by where it leaves Next.
LEMMA LeftNext ==
  ASSUME page' = page, NEW k \in 0 .. Len(page), pc' = "next", NEW at, At' = at,
         InText(page, k, at, at, state', tokens')
  PROVE  ReadingInv'
<1>1. ReadingAt(k)'
  BY DEF ReadingAt
<1> QED BY <1>1 DEF ReadingInv

\* One lemma for each place at which a step may leave the run of Next.
LEMMA LeftScan ==
  ASSUME page' = page, NEW k \in 0 .. Len(page), pc' = "scan", NEW at, At' = at,
         NEW from, From' = from, InText(page, k, from, at, state', tokens')
  PROVE  ReadingInv'
<1>1. ReadingAt(k)'
  BY DEF ReadingAt
<1> QED BY <1>1 DEF ReadingInv

LEMMA LeftAhead ==
  ASSUME page' = page, NEW k \in 0 .. Len(page), pc' = "ahead", NEW at, At' = at,
         NEW from, From' = from, InText(page, k, from, at - 1, state', tokens'),
         Whole(page)[at] = "<"
  PROVE  ReadingInv'
<1>1. ReadingAt(k)'
  BY DEF ReadingAt
<1> QED BY <1>1 DEF ReadingInv

LEMMA LeftTag ==
  ASSUME page' = page, NEW k \in 0 .. Len(page), NEW kind \in {"open", "close", "comment"},
         pc' = kind, NEW at, At' = at, NEW kept, Kept' = kept,
         InTag(page, k, kind, kept, at, state', tokens')
  PROVE  ReadingInv'
<1>1. ReadingAt(k)'
  BY DEF ReadingAt
<1> QED BY <1>1 DEF ReadingInv

LEMMA LeftAtEnd ==
  ASSUME page' = page, NEW k \in 0 .. Len(page), pc' \in {"ended", "panic"},
         Handed(page, k, tokens')
  PROVE  ReadingInv'
<1>1. ReadingAt(k)'
  BY DEF ReadingAt
<1> QED BY <1>1 DEF ReadingInv

\* Wherever the run of Next is, the tokens are those of the first pieces.
LEMMA ReadingHanded ==
  ASSUME TokensInv
  PROVE  \E k \in 0 .. Len(page) : Handed(page, k, tokens)
<1>1. PICK k \in 0 .. Len(page) : ReadingAt(k)
  BY DEF TokensInv, ReadingInv
<1>2. pc \in {"next", "scan", "ahead", "open", "close", "comment", "ended", "panic"}
  BY DEF TokensInv, CursorInv, TokenizerTypeOK
<1>3. CASE pc \in {"open", "close", "comment"}
  BY <1>1, <1>3, InTagHanded DEF ReadingAt
<1>4. CASE pc \in {"next", "scan", "ahead"}
  BY <1>1, <1>4, InTextHanded DEF ReadingAt
<1>5. CASE pc \in {"ended", "panic"}
  BY <1>1, <1>5 DEF ReadingAt
<1> QED BY <1>2, <1>3, <1>4, <1>5

LEMMA ExpectedIs ==
  ASSUME page \in Seq(Pieces)
  PROVE  Expected = Readings(page)[Len(page)].out
BY DEF Expected

\* The source ends when all its bytes are read: everything was handed over.
LEMMA EndsWhole ==
  ASSUME TokensInv, Reading, reader.end = Len(buf), sent = Len(Bytes)
  PROVE  tokens = Expected
<1>1. page \in Seq(Pieces) /\ Len(Whole(page)) \in Nat /\ At = Len(Whole(page))
      /\ From \in Nat /\ From <= At /\ (pc = "ahead" => From < At) /\ At \in Nat
  BY Where, Delivered DEF TokensInv
<1>2. PICK k \in 0 .. Len(page) : ReadingAt(k)
  BY DEF TokensInv, ReadingInv
<1>3. CASE pc = "scan"
  BY <1>1, <1>2, <1>3, AllHanded DEF ReadingAt, Expected
<1>4. CASE pc = "ahead"
  <2>1. PICK at \in Nat : at = At - 1 /\ From <= at /\ at + 1 = At
    BY <1>1, <1>4
  <2>2. InText(page, k, From, at, state, tokens) /\ Whole(page)[at + 1] = "<"
    BY <1>2, <1>4, <2>1 DEF ReadingAt
  <2> QED BY <1>1, <2>1, <2>2, AllHandedAhead DEF Expected
<1>5. CASE pc \in {"open", "close", "comment"}
  <2>1. k # Len(page) /\ At < Pos(page, k + 1)
    BY <1>2, <1>5 DEF ReadingAt, InTag
  <2>2. PICK p \in Pieces, pos \in Nat, last \in Nat \ {0} : Located(page, k, p, pos, last)
    BY <1>1, <2>1, Locate
  <2>3. Pos(page, k + 1) = pos + last /\ pos + last <= At
    BY <1>1, <2>2 DEF Located
  <2> QED BY <1>1, <2>1, <2>3
<1> QED BY <1>3, <1>4, <1>5 DEF Reading

\* A read changes where the buffer is, not where the reading is.
LEMMA ReadTokens ==
  ASSUME TokensInv, NEW n \in 0 .. Len(Bytes) - sent,
         ReadBytes(n) \/ ReadFails(n) \/ (n = 0 /\ ReadNothing)
  PROVE  TokensInv'
<1>1. Refill(n) /\ CursorInv /\ BufferInv
  BY DEF ReadBytes, ReadFails, ReadNothing, TokensInv
<1>2. /\ BufferInv' /\ Off' \in Nat /\ Off' = From /\ Kept' = Kept
      /\ NumElems \in Nat /\ Off' + NumElems = At
  BY <1>1, RefillKeeps
<1>3. SamePage /\ Reading /\ UNCHANGED <<state, tokens>> /\ reader.end = Len(buf) /\ sent' = sent + n
  BY <1>1, RefillTypes
<1>4. CursorInv'
  BY <1>1, ReadCursors
<1>5. page' = page /\ Bytes' = Bytes /\ Expected' = Expected
  BY <1>3 DEF SamePage, Expected
<1>6. PICK k \in 0 .. Len(page) : ReadingAt(k)
  BY DEF TokensInv, ReadingInv
<1>7. pc \in {"scan", "ahead", "open", "close", "comment"} /\ err = "nil"
  BY <1>1, <1>3 DEF Reading, CursorInv, TokenizerTypeOK
<1>8. ASSUME pc' = pc, reader' = [start |-> 0, end |-> NumElems] PROVE ReadingInv'
  <2>1. From' = From /\ At' = At
    BY <1>2, <1>8 DEF From, At
  <2>2. ReadingAt(k)'
    BY <1>2, <1>3, <1>5, <1>6, <1>7, <1>8, <2>1 DEF ReadingAt
  <2> QED BY <1>5, <2>2 DEF ReadingInv
<1>9. CASE ReadBytes(n)
  <2>1. ReadingInv'
    BY <1>8, <1>9 DEF ReadBytes
  <2>2. WholePage'
    BY <1>7, <1>9 DEF ReadBytes, WholePage
  <2> QED BY <1>2, <1>4, <2>1, <2>2 DEF TokensInv
<1>10. CASE n = 0 /\ ReadNothing
  <2>1. ASSUME pc = "ahead" PROVE ReadingInv'
    <3>1. PICK at \in Nat : at = At - 1
      BY <1>1, <2>1, Where
    <3>2. InText(page, k, From, at, state, tokens)
      BY <1>6, <2>1, <3>1 DEF ReadingAt
    <3>3. reader' = [start |-> 0, end |-> NumElems - 1] /\ pc' = "scan"
      BY <1>10, <2>1 DEF ReadNothing
    <3>4. From' = From
      BY <1>2, <3>3 DEF From
    <3>5. At' = at
      <4>1. At' = Off' + (NumElems - 1)
        BY <3>3 DEF At
      <4> QED BY <1>2, <3>1, <4>1
    <3> QED BY <1>3, <1>5, <3>2, <3>3, <3>4, <3>5, LeftScan
  <2>2. ASSUME pc # "ahead" PROVE ReadingInv'
    BY <1>8, <1>10, <2>2 DEF ReadNothing
  <2>3. WholePage'
    BY <1>7, <1>10 DEF ReadNothing, WholePage
  <2> QED BY <1>2, <1>4, <2>1, <2>2, <2>3 DEF TokensInv
<1>11. CASE ReadFails(n)
  <2>1. pc' \in {"ended", "panic"}
    BY <1>11 DEF ReadFails
  <2>2. PICK m \in 0 .. Len(page) : Handed(page, m, tokens)
    BY ReadingHanded
  <2>3. ReadingInv'
    BY <1>3, <1>5, <2>1, <2>2, LeftAtEnd
  <2>4. WholePage'
    <3>1. SUFFICES ASSUME err' = "bare", sent' = Len(Bytes) PROVE tokens = Expected
      BY <1>3, <1>5 DEF WholePage
    <3>2. n = 0
      BY <1>11, <3>1 DEF ReadFails
    <3>3. sent = Len(Bytes)
      BY <1>1, <1>3, <3>1, <3>2, Delivered
    <3> QED BY <1>3, <3>3, EndsWhole
  <2> QED BY <1>2, <1>4, <2>3, <2>4 DEF TokensInv
<1> QED BY <1>9, <1>10, <1>11

\* A step of Next: the buffer stays, the byte at the place is the symbol.
LEMMA TokenizeKeeps ==
  ASSUME TokensInv, Tokenize
  PROVE  /\ page' = page /\ Off' = Off /\ BufferInv' /\ err = "nil" /\ err' = "nil"
         /\ Off \in Nat
<1>1. UNCHANGED <<page, sent, buf, bufCap, err>>
  BY DEF Tokenize, CallNext, Scan, NoTag, CommentAhead, TextAhead, TagAhead, Pass,
         EndOpenTag, EndCloseTag, EndComment, Bracket, TakeByte
<1>2. err = "nil"
  BY DEF TokensInv, CursorInv, TokenizerTypeOK, Tokenize, CallNext, Scan, NoTag, CommentAhead,
         TextAhead, TagAhead, Pass, EndOpenTag, EndCloseTag, EndComment, Bracket, TakeByte
<1>3. Off' = Off /\ Off \in Nat
  BY <1>1 DEF Off, TokensInv, BufferInv
<1>4. Whole(page)' = Whole(page) /\ BufferInv
  BY <1>1 DEF Whole, TokensInv
<1>5. BufferInv'
  BY <1>1, <1>3, <1>4 DEF BufferInv
<1> QED BY <1>1, <1>2, <1>3, <1>5

\* The steps of Next, one by one.
LEMMA CallNextTokens ==
  ASSUME TokensInv, CallNext
  PROVE  ReadingInv'
<1>1. page' = page /\ Off' = Off
  BY TokenizeKeeps DEF Tokenize
<1>2. PICK k \in 0 .. Len(page) : ReadingAt(k)
  BY DEF TokensInv, ReadingInv
<1>3. From' = At /\ At' = At
  BY <1>1 DEF CallNext, From, At
<1>4. pc' = "scan" /\ InText(page, k, At, At, state', tokens')
  BY <1>2 DEF CallNext, ReadingAt
<1> QED BY <1>1, <1>3, <1>4, LeftScan

LEMMA ScanTokens ==
  ASSUME TokensInv, Scan
  PROVE  ReadingInv'
<1>1. page' = page /\ Off' = Off /\ Off \in Nat
  BY TokenizeKeeps DEF Tokenize
<1>2. PICK k \in 0 .. Len(page) : InText(page, k, From, At, state, tokens)
  BY DEF TokensInv, ReadingInv, ReadingAt, Scan, TakeByte
<1>3. PICK at \in Nat : at = At /\ at < Len(Whole(page)) /\ Symbol = Whole(page)[at + 1]
  BY Where DEF TokensInv, Scan, TakeByte
<1>4. PICK from \in Nat : from = From /\ from <= at /\ page \in Seq(Pieces)
  BY <1>3, Where DEF TokensInv
<1>5. From' = from /\ At' = at + 1
  <2>1. reader' = [reader EXCEPT !.end = @ + 1] /\ reader \in Cursors
    BY DEF Scan, MoveEnd, TokensInv, CursorInv
  <2>2. reader'.start = reader.start /\ reader'.end = reader.end + 1
    BY <2>1 DEF Cursors
  <2>3. PICK e \in Nat : e = reader.end
    BY <2>1 DEF Cursors
  <2> QED BY <1>1, <1>3, <1>4, <2>2, <2>3 DEF From, At
<1>6. UNCHANGED <<state, tokens>>
  BY DEF Scan
<1>7. CASE Symbol = "<"
  <2>1. pc' = "ahead"
    BY <1>7 DEF Scan
  <2>2. PICK next \in Nat : next = at + 1 /\ next - 1 = at
    OBVIOUS
  <2>3. Whole(page)[next] = "<"
    BY <1>3, <1>7, <2>2
  <2>4. InText(page, k, from, next - 1, state', tokens')
    BY <1>2, <1>3, <1>4, <1>6, <2>2
  <2> QED BY <1>1, <1>5, <2>1, <2>2, <2>3, <2>4, LeftAhead
<1>8. CASE Symbol # "<"
  <2>1. pc' = "scan"
    BY <1>8 DEF Scan
  <2>2. PICK m \in 0 .. Len(page) : InText(page, m, from, at + 1, state, tokens)
    BY <1>2, <1>3, <1>4, <1>8, Advance
  <2> QED BY <1>1, <1>5, <1>6, <2>1, <2>2, LeftScan
<1> QED BY <1>7, <1>8

\* Behind a "<": what the byte behind it is.
LEMMA Ahead ==
  ASSUME TokensInv, TakeByte("ahead")
  PROVE  \E k \in 0 .. Len(page), from \in Nat, at \in Nat :
           /\ page \in Seq(Pieces) /\ from = From /\ at + 1 = At /\ from <= at
           /\ at + 1 < Len(Whole(page))
           /\ InText(page, k, from, at, state, tokens)
           /\ Whole(page)[at + 1] = "<" /\ Symbol = Whole(page)[at + 2]
           /\ Kept = from
<1>1. pc = "ahead" /\ reader.end < Len(buf)
  BY DEF TakeByte
<1>2. PICK k \in 0 .. Len(page) :
        InText(page, k, From, At - 1, state, tokens) /\ Whole(page)[At] = "<"
  BY <1>1 DEF TokensInv, ReadingInv, ReadingAt
<1>3. /\ page \in Seq(Pieces) /\ From \in Nat /\ At \in Nat /\ From < At /\ Kept = From
      /\ At < Len(Whole(page)) /\ Symbol = Whole(page)[At + 1]
  BY <1>1, Where DEF TokensInv
<1>4. PICK from \in Nat : from = From
  BY <1>3
<1>5. PICK at \in Nat : at = At - 1 /\ at + 1 = At /\ at + 2 = At + 1 /\ from <= at
  BY <1>3, <1>4
<1> QED BY <1>2, <1>3, <1>4, <1>5

LEMMA NoTagTokens ==
  ASSUME TokensInv, NoTag
  PROVE  ReadingInv'
<1>1. page' = page /\ Off' = Off
  BY TokenizeKeeps DEF Tokenize
<1>2. PICK k \in 0 .. Len(page), from \in Nat, at \in Nat :
        /\ page \in Seq(Pieces) /\ from = From /\ at + 1 = At /\ from <= at
        /\ at + 1 < Len(Whole(page))
        /\ InText(page, k, from, at, state, tokens)
        /\ Whole(page)[at + 1] = "<" /\ Symbol = Whole(page)[at + 2]
  BY Ahead DEF NoTag
<1>3. Whole(page)[at + 2] \notin Marks
  BY <1>2 DEF NoTag, Marks
<1>4. at < Len(Whole(page))
  BY <1>2, WholeType
<1>5. k # Len(page) /\ page[k + 1].kind = "text"
  <2>1. SUFFICES ASSUME page[k + 1].kind # "text", k # Len(page) PROVE FALSE
    BY <1>2, <1>4, Bracketed
  <2>2. Whole(page)[at + 2] = page[k + 1].bytes[2] /\ page[k + 1] \in Pieces
    BY <1>2, <1>4, <2>1, Bracketed, ReadingsNext
  <2> QED BY <1>3, <2>1, <2>2, TagPiece DEF Marks
<1>6. PICK m \in 0 .. Len(page) : InText(page, m, from, at + 1, state, tokens)
  BY <1>2, <1>4, <1>5, Advance
<1>7. From' = from /\ At' = at + 1 /\ pc' = "scan" /\ UNCHANGED <<state, tokens>>
  BY <1>1, <1>2 DEF NoTag, From, At
<1> QED BY <1>1, <1>6, <1>7, LeftScan

LEMMA CommentAheadTokens ==
  ASSUME TokensInv, CommentAhead
  PROVE  ReadingInv'
<1>1. page' = page /\ Off' = Off /\ Off \in Nat
  BY TokenizeKeeps DEF Tokenize
<1>2. PICK k \in 0 .. Len(page), from \in Nat, at \in Nat :
        /\ page \in Seq(Pieces) /\ from = From /\ at + 1 = At /\ from <= at
        /\ at + 1 < Len(Whole(page))
        /\ InText(page, k, from, at, state, tokens)
        /\ Whole(page)[at + 1] = "<" /\ Symbol = Whole(page)[at + 2]
  BY Ahead DEF CommentAhead
<1>3. Whole(page)[at + 2] \in CommentMarks
  BY <1>2 DEF CommentAhead
<1>4. PICK kept : kept = Kept'
  OBVIOUS
<1>5. InTag(page, k, "comment", kept, at, state, tokens)
  BY <1>2, <1>3, CommentBegins
<1>6. At' = at
  <2>1. reader'.end = reader.end - 1 /\ reader.end \in Nat
    BY DEF CommentAhead, MoveEnd, TokensInv, CursorInv, Cursors
  <2>2. PICK e \in Nat : e = reader.end
    BY <2>1
  <2>3. At' = Off + (e - 1) /\ At = Off + e
    BY <1>1, <2>1, <2>2 DEF At
  <2> QED BY <1>1, <1>2, <2>3
<1>7. pc' = "comment" /\ UNCHANGED <<state, tokens>>
  BY DEF CommentAhead
<1> QED BY <1>1, <1>4, <1>5, <1>6, <1>7, LeftTag

LEMMA TextAheadTokens ==
  ASSUME TokensInv, TextAhead
  PROVE  ReadingInv'
<1>1. page' = page /\ Off' = Off /\ Off \in Nat
  BY TokenizeKeeps DEF Tokenize
<1>2. PICK k \in 0 .. Len(page), from \in Nat, at \in Nat :
        /\ page \in Seq(Pieces) /\ from = From /\ at + 1 = At /\ from <= at
        /\ at + 1 < Len(Whole(page))
        /\ InText(page, k, from, at, state, tokens)
        /\ Whole(page)[at + 1] = "<" /\ Symbol = Whole(page)[at + 2] /\ Kept = from
  BY Ahead DEF TextAhead
<1>3. Whole(page)[at + 2] \in Letters \cup {"/"}
  BY <1>2 DEF TextAhead
<1>4. PICK off \in Nat : off = Off
  BY <1>1
<1>5. PICK rs \in Nat, re \in Nat : /\ reader.start = rs /\ reader.end = re
                                    /\ off + re = at + 1 /\ off + rs = from
  BY <1>2, <1>4 DEF TokensInv, CursorInv, Cursors, At, From
<1>6. rs < re - 1
  BY <1>5 DEF TextAhead
<1>7. PICK e \in Nat : e = re - 1 /\ off + e = at /\ from < at
  BY <1>5, <1>6
<1>8. At' = at
  <2>1. reader'.end = re - 1
    BY <1>5 DEF TextAhead, MoveEnd, TokensInv, CursorInv, Cursors
  <2> QED BY <1>1, <1>4, <1>7, <2>1 DEF At
<1>9. DataUpTo(e) = Slice(page, from, at)
  <2>1. data.start <= e /\ e <= Len(buf)
    <3>1. data.start = rs /\ re < Len(buf)
      BY <1>5 DEF TextAhead, TakeByte, TokensInv, CursorInv
    <3>2. PICK l \in Nat : l = Len(buf)
      BY Delivered DEF TokensInv
    <3> QED BY <1>6, <1>7, <3>1, <3>2
  <2> QED BY <1>2, <1>4, <1>7, <2>1, DataIs DEF TokensInv
<1>10. /\ tokens' = Append(tokens, [kind |-> "text", data |-> RemoveNewLine(Slice(page, from, at))])
       /\ pc' = "next" /\ state' = state
  BY <1>5, <1>7, <1>9 DEF TextAhead, Hand
<1>11. InText(page, k, at, at, state', tokens')
  BY <1>2, <1>3, <1>7, <1>10, TextBefore
<1> QED BY <1>1, <1>8, <1>10, <1>11, LeftNext

LEMMA TagAheadTokens ==
  ASSUME TokensInv, TagAhead
  PROVE  ReadingInv'
<1>1. page' = page /\ Off' = Off /\ Off \in Nat
  BY TokenizeKeeps DEF Tokenize
<1>2. PICK k \in 0 .. Len(page), from \in Nat, at \in Nat :
        /\ page \in Seq(Pieces) /\ from = From /\ at + 1 = At /\ from <= at
        /\ at + 1 < Len(Whole(page))
        /\ InText(page, k, from, at, state, tokens)
        /\ Whole(page)[at + 1] = "<" /\ Symbol = Whole(page)[at + 2]
  BY Ahead DEF TagAhead
<1>3. Whole(page)[at + 2] \in Letters \cup {"/"}
  BY <1>2 DEF TagAhead
<1>4. PICK off \in Nat : off = Off
  BY <1>1
<1>5. PICK rs \in Nat, re \in Nat : /\ reader.start = rs /\ reader.end = re
                                    /\ off + re = at + 1 /\ off + rs = from
  BY <1>2, <1>4 DEF TokensInv, CursorInv, Cursors, At, From
<1>6. rs >= re - 1
  BY <1>5 DEF TagAhead
<1>7. from = at
  BY <1>2, <1>5, <1>6
<1>8. At' = at + 2
  <2>1. reader'.end = re + 1
    BY <1>5 DEF TagAhead, MoveEnd, TokensInv, CursorInv, Cursors
  <2> QED BY <1>1, <1>4, <1>5, <2>1 DEF At
<1>9. Kept' = at
  <2>1. data'.start = re - 1
    BY <1>5 DEF TagAhead
  <2> QED BY <1>1, <1>4, <1>5, <2>1 DEF Kept
<1>10. /\ Whole(page)[at + 2] = "/" => InTag(page, k, "close", at, at + 2, state, tokens)
       /\ Whole(page)[at + 2] # "/" /\ state = "NORMAL" =>
            InTag(page, k, "open", at, at + 2, state, tokens)
       /\ Whole(page)[at + 2] # "/" /\ state # "NORMAL" =>
            InText(page, k, at + 2, at + 2, state, tokens)
  BY <1>2, <1>3, <1>7, TagTaken
<1>11. UNCHANGED <<state, tokens>>
  BY DEF TagAhead
<1>12. CASE Symbol = "/"
  <2>1. pc' = "close"
    BY <1>12 DEF TagAhead
  <2> QED BY <1>1, <1>2, <1>8, <1>9, <1>10, <1>11, <1>12, <2>1, LeftTag
<1>13. CASE Symbol # "/" /\ state # "NORMAL"
  <2>1. pc' = "next"
    BY <1>13 DEF TagAhead
  <2> QED BY <1>1, <1>2, <1>8, <1>10, <1>11, <1>13, <2>1, LeftNext
<1>14. CASE Symbol # "/" /\ state = "NORMAL"
  <2>1. pc' = "open"
    BY <1>14 DEF TagAhead
  <2> QED BY <1>1, <1>2, <1>8, <1>9, <1>10, <1>11, <1>14, <2>1, LeftTag
<1> QED BY <1>12, <1>13, <1>14

\* In a tag or a comment: the byte at the place, and the places behind it.
LEMMA InTagTaken ==
  ASSUME TokensInv, NEW here \in {"open", "close", "comment"}, TakeByte(here), MoveEnd(1)
  PROVE  \E k \in 0 .. Len(page), at \in Nat :
           /\ page \in Seq(Pieces) /\ at = At /\ InTag(page, k, here, Kept, at, state, tokens)
           /\ Symbol = Whole(page)[at + 1]
           /\ Off \in Nat /\ Off + (reader.end + 1) = at + 1
           /\ Off' = Off => At' = at + 1
<1>1. pc = here /\ reader.end < Len(buf)
  BY DEF TakeByte
<1>2. PICK k \in 0 .. Len(page) : InTag(page, k, here, Kept, At, state, tokens)
  BY <1>1 DEF TokensInv, ReadingInv, ReadingAt
<1>3. PICK at \in Nat : at = At /\ page \in Seq(Pieces) /\ Symbol = Whole(page)[at + 1]
  BY <1>1, Where DEF TokensInv
<1>4. PICK e \in Nat : e = reader.end /\ reader'.end = e + 1
  BY DEF MoveEnd, TokensInv, CursorInv, Cursors
<1>5. PICK off \in Nat : off = Off
  BY DEF TokensInv, BufferInv
<1>6. off + (e + 1) = at + 1
  BY <1>3, <1>4, <1>5 DEF At
<1>7. Off' = Off => At' = at + 1
  BY <1>4, <1>5, <1>6 DEF At
<1> QED BY <1>2, <1>3, <1>4, <1>5, <1>6, <1>7

LEMMA PassTokens ==
  ASSUME TokensInv, NEW here \in {"open", "close", "comment"}, Pass(here)
  PROVE  ReadingInv'
<1>1. page' = page /\ Off' = Off
  BY TokenizeKeeps DEF Tokenize
<1>2. TakeByte(here) /\ MoveEnd(1) /\ Symbol # ">" /\ UNCHANGED <<data, state, pc, tokens>> /\ pc = here
  BY DEF Pass, TakeByte
<1>3. PICK k \in 0 .. Len(page), at \in Nat :
        /\ page \in Seq(Pieces) /\ InTag(page, k, here, Kept, at, state, tokens)
        /\ Symbol = Whole(page)[at + 1] /\ At' = at + 1
  BY <1>1, <1>2, InTagTaken
<1>4. InTag(page, k, here, Kept, at + 1, state', tokens')
  BY <1>2, <1>3, TagPasses
<1>5. Kept' = Kept
  BY <1>1, <1>2 DEF Kept
<1> QED BY <1>1, <1>2, <1>3, <1>4, <1>5, LeftTag

\* What a tag keeps, to its bracket.
LEMMA KeptToBracket ==
  ASSUME TokensInv, TakeByte(pc), NEW at \in Nat, Off + (reader.end + 1) = at + 1
  PROVE  DataUpTo(reader.end + 1) = Slice(page, Kept, at + 1)
<1>1. PICK e \in Nat : e = reader.end + 1
  BY DEF TokensInv, CursorInv, Cursors
<1>2. data.start <= e /\ e <= Len(buf)
  <2>1. PICK l \in Nat : l = Len(buf)
    BY Delivered DEF TokensInv
  <2>2. PICK rs \in Nat, re \in Nat, ds \in Nat, de \in Nat :
          /\ reader.end = re /\ data.start = ds /\ data.end = de
          /\ ds <= de /\ de <= re /\ re < l
    BY <2>1 DEF TokensInv, CursorInv, Cursors, TokenizerTypeOK, TakeByte
  <2> QED BY <1>1, <2>1, <2>2
<1> QED BY <1>1, <1>2, DataIs DEF TokensInv

LEMMA EndOpenTagTokens ==
  ASSUME TokensInv, EndOpenTag
  PROVE  ReadingInv'
<1>1. page' = page /\ Off' = Off
  BY TokenizeKeeps DEF Tokenize
<1>2. TakeByte("open") /\ MoveEnd(1) /\ Symbol = ">" /\ pc = "open"
  BY DEF EndOpenTag, Bracket, TakeByte
<1>3. PICK k \in 0 .. Len(page), at \in Nat :
        /\ page \in Seq(Pieces) /\ InTag(page, k, "open", Kept, at, state, tokens)
        /\ Symbol = Whole(page)[at + 1] /\ Off + (reader.end + 1) = at + 1 /\ At' = at + 1
  BY <1>1, <1>2, InTagTaken
<1>4. DataUpTo(reader.end + 1) = Slice(page, Kept, at + 1)
  BY <1>2, <1>3, KeptToBracket
<1>5. PICK token : token = page[k + 1].token
  OBVIOUS
<1>6. PICK st : st = IF token.name = Script THEN "SCRIPT_CONTENT" ELSE state
  OBVIOUS
<1>7. /\ UnmarshalOpenTag(Slice(page, Kept, at + 1)) = [ok |-> TRUE, tag |-> token]
      /\ \E m \in 0 .. Len(page) : InText(page, m, at + 1, at + 1, st, Append(tokens, token))
  BY <1>2, <1>3, <1>5, <1>6, TagEnds
<1>8. PICK read : read = UnmarshalOpenTag(DataUpTo(reader.end + 1))
                  /\ read.ok = TRUE /\ read.tag = token
  BY <1>4, <1>7
<1>9. tokens' = Append(tokens, token) /\ pc' = "next" /\ state' = st
  BY <1>6, <1>8 DEF EndOpenTag, Hand
<1> QED BY <1>1, <1>3, <1>7, <1>9, LeftNext

LEMMA EndCloseTagTokens ==
  ASSUME TokensInv, EndCloseTag
  PROVE  ReadingInv'
<1>1. page' = page /\ Off' = Off
  BY TokenizeKeeps DEF Tokenize
<1>2. TakeByte("close") /\ MoveEnd(1) /\ Symbol = ">" /\ pc = "close"
  BY DEF EndCloseTag, Bracket, TakeByte
<1>3. PICK k \in 0 .. Len(page), at \in Nat :
        /\ page \in Seq(Pieces) /\ InTag(page, k, "close", Kept, at, state, tokens)
        /\ Symbol = Whole(page)[at + 1] /\ Off + (reader.end + 1) = at + 1 /\ At' = at + 1
  BY <1>1, <1>2, InTagTaken
<1>4. DataUpTo(reader.end + 1) = Slice(page, Kept, at + 1)
  BY <1>2, <1>3, KeptToBracket
<1>5. PICK token : token = page[k + 1].token
  OBVIOUS
<1>6. /\ UnmarshalCloseTag(Slice(page, Kept, at + 1)) = token
      /\ \E m \in 0 .. Len(page) :
           InText(page, m, at + 1, at + 1, "NORMAL", Append(tokens, token))
  BY <1>2, <1>3, <1>5, TagEnds
<1>7. tokens' = Append(tokens, token) /\ pc' = "next" /\ state' = "NORMAL"
  BY <1>4, <1>6 DEF EndCloseTag, Hand
<1> QED BY <1>1, <1>3, <1>6, <1>7, LeftNext

LEMMA EndCommentTokens ==
  ASSUME TokensInv, EndComment
  PROVE  ReadingInv'
<1>1. page' = page /\ Off' = Off
  BY TokenizeKeeps DEF Tokenize
<1>2. TakeByte("comment") /\ MoveEnd(1) /\ Symbol = ">"
  BY DEF EndComment, Bracket
<1>3. PICK k \in 0 .. Len(page), at \in Nat :
        /\ page \in Seq(Pieces) /\ InTag(page, k, "comment", Kept, at, state, tokens)
        /\ Symbol = Whole(page)[at + 1] /\ At' = at + 1
  BY <1>1, <1>2, InTagTaken
<1>4. PICK m \in 0 .. Len(page) : InText(page, m, at + 1, at + 1, state, tokens)
  BY <1>2, <1>3, TagEnds
<1>5. pc' = "next" /\ UNCHANGED <<state, tokens>>
  BY DEF EndComment
<1> QED BY <1>1, <1>3, <1>4, <1>5, LeftNext

\* Every step keeps the invariant.
LEMMA TokensStep ==
  ASSUME TokensInv, [TokenizerNext]_tokenizerVars
  PROVE  TokensInv'
<1>1. CASE UNCHANGED tokenizerVars
  <2>1. CursorInv'
    BY <1>1, CursorStep DEF TokensInv
  <2>2. Off' = Off /\ From' = From /\ At' = At /\ Kept' = Kept /\ Whole(page)' = Whole(page)
        /\ Bytes' = Bytes /\ Expected' = Expected
    BY <1>1 DEF tokenizerVars, Off, From, At, Kept, Whole, Bytes, Expected
  <2>3. BufferInv'
    BY <1>1, <2>2 DEF tokenizerVars, TokensInv, BufferInv
  <2>4. ReadingInv'
    <3>1. PICK k \in 0 .. Len(page) : ReadingAt(k)
      BY DEF TokensInv, ReadingInv
    <3>2. ReadingAt(k)'
      BY <1>1, <2>2, <3>1 DEF tokenizerVars, ReadingAt
    <3> QED BY <1>1, <3>2 DEF tokenizerVars, ReadingInv
  <2>5. WholePage'
    BY <1>1, <2>2 DEF tokenizerVars, TokensInv, WholePage
  <2> QED BY <2>1, <2>3, <2>4, <2>5 DEF TokensInv
<1>2. ASSUME NEW n \in 0 .. Len(Bytes) - sent, ReadBytes(n) \/ ReadFails(n) PROVE TokensInv'
  BY <1>2, ReadTokens
<1>3. CASE ReadNothing
  <2>1. 0 \in 0 .. Len(Bytes) - sent
    BY Delivered DEF TokensInv
  <2> QED BY <1>3, <2>1, ReadTokens
<1>4. CASE Tokenize
  <2>1. ReadingInv'
    BY <1>4, CallNextTokens, ScanTokens, NoTagTokens, CommentAheadTokens, TextAheadTokens,
       TagAheadTokens, PassTokens, EndOpenTagTokens, EndCloseTagTokens, EndCommentTokens
       DEF Tokenize
  <2>2. BufferInv' /\ err' = "nil"
    BY <1>4, TokenizeKeeps
  <2>3. CursorInv'
    BY <1>4, TokenizeCursors DEF TokensInv
  <2> QED BY <2>1, <2>2, <2>3 DEF TokensInv, WholePage
<1> QED BY <1>1, <1>2, <1>3, <1>4 DEF TokenizerNext

LEMMA TokensInvariant == TokenizerSpec => []TokensInv
<1>1. TokenizerInit => CursorInv
  BY CursorsBegin
<1>2. TokenizerInit => TokensInv
  <2> SUFFICES ASSUME TokenizerInit PROVE TokensInv
    OBVIOUS
  <2>1. CursorInv /\ page \in Seq(Pieces)
    BY <1>1 DEF CursorInv
  <2>2. sent = 0 /\ buf = <<>> /\ reader.start = 0 /\ reader.end = 0 /\ data.start = 0
        /\ state = "NORMAL" /\ pc = "next" /\ err = "nil" /\ tokens = <<>>
    BY DEF TokenizerInit
  <2>9. Len(buf) = 0
    BY <2>2
  <2>10. Off = 0 /\ At = 0
    <3>1. Off = 0 - 0
      BY <2>2, <2>9, Zenon DEF Off
    <3>2. Off = 0
      BY <3>1
    <3> QED BY <2>2, <3>2 DEF At
  <2>11. IsPart(buf, Whole(page), Off, 0)
    BY <2>9 DEF IsPart
  <2>3. Off = 0 /\ At = 0 /\ BufferInv
    BY <2>9, <2>10, <2>11 DEF BufferInv
  <2>4. Pos(page, 0) = 0 /\ 0 \in 0 .. Len(page) /\ Readings(page)[0] = NothingRead
    BY <2>1, Places, ReadingsAre, LenProperties
  <2>5. Slice(page, 0, 0) = <<>>
    <3>1. Len(Whole(page)) \in Nat
      BY <2>1, WholeType
    <3> QED BY <2>1, <3>1, SliceEmpty
  <2>6. InText(page, 0, 0, 0, "NORMAL", <<>>)
    <3>1. Gathers(page, 0, 0, 0, <<>>)
      BY <2>4, <2>5 DEF Gathers, NothingRead
    <3>2. StateAt(page, 0) = "NORMAL"
      BY <2>4 DEF StateAt, NothingRead
    <3> QED BY <3>1, <3>2 DEF InText
  <2>7. ReadingAt(0)
    BY <2>2, <2>3, <2>6 DEF ReadingAt
  <2>8. ReadingInv /\ WholePage
    BY <2>2, <2>4, <2>7 DEF ReadingInv, WholePage
  <2> QED BY <2>1, <2>3, <2>8 DEF TokensInv
<1>3. TokensInv /\ [TokenizerNext]_tokenizerVars => TokensInv'
  BY TokensStep
<1> QED BY <1>2, <1>3, PTL DEF TokenizerSpec

\* However the page is cut into reads, wherever the buffer is moved meanwhile and
\* wherever the page breaks off, the selectors were handed the tokens of the page
\* from the first one on, in order and with their attributes.
THEOREM TokensArePages == TokenizerSpec => []TokensOfThePage
<1>1. TokensInv => TokensOfThePage
  <2> SUFFICES ASSUME TokensInv PROVE TokensOfThePage
    OBVIOUS
  <2>1. page \in Seq(Pieces)
    BY DEF TokensInv, CursorInv
  <2>2. PICK k \in 0 .. Len(page) : Handed(page, k, tokens)
    BY ReadingHanded
  <2> QED BY <2>1, <2>2, HandedIsPrefix DEF TokensOfThePage, Expected
<1> QED BY <1>1, TokensInvariant, PTL

\* A page whose end is reported by a read of its own has been handed over entirely
\* when Parse returns, but for text behind its last tag.
THEOREM WholePageRead == TokenizerSpec => []WholePage
<1>1. TokensInv => WholePage
  BY DEF TokensInv
<1> QED BY <1>1, TokensInvariant, PTL
=============================================================================
