------------------------------ MODULE MCParser ------------------------------
\* Instances of Extractor: the tokens documents are made of, and the fields.
EXTENDS Extractor, TLC

CONSTANTS S1, S2

MCNames == {"div", "b", "img", "TEXT_NODE"}

Tag(kind, name, classOf) ==
  [kind |-> kind, name |-> name, classOf |-> classOf, date |-> "refused"]
Open(name, classOf) == Tag("open", name, classOf)
Close(name) == Tag("close", name, {})
Text(date) == [kind |-> "text", name |-> "TEXT_NODE", classOf |-> {}, date |-> date]

\* Two selectors, whose elements may contain each other, and texts that are dates
\* or would be.
TwoClasses == {Open("div", {S1}), Open("b", {S2}), Open("img", Icons),
               Close("div"), Close("b"), Text("read"), Text("refused"), Text("panics")}

\* What is made of the elements of each.
SevenFields == (S1 :> {"title", "content", "content_images"})
          @@ (S2 :> {"preface", "published_at", "info", "main_image"})
=============================================================================
