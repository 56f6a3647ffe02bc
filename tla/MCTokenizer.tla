---------------------------- MODULE MCTokenizer ----------------------------
\* Instances of Tokenizer: the pieces pages are made of.
EXTENDS Tokenizer, TLC

\* An open tag as a site writes it: attributes in quotes, a space before each.
Open(name, attrs) ==
  [kind |-> "open",
   bytes |-> <<"<">> \o name
             \o FlattenSeq([i \in DOMAIN attrs |->
                  <<" ">> \o attrs[i][1] \o <<"=", "'">> \o attrs[i][2] \o <<"'">>])
             \o <<">">>,
   token |-> [kind |-> "open", name |-> name,
              attr |-> [k \in {attrs[i][1] : i \in DOMAIN attrs} |->
                          Last(SelectSeq(attrs, LAMBDA a : a[1] = k))[2]]]]

Close(name) ==
  [kind |-> "close", bytes |-> <<"<", "/">> \o name \o <<">">>,
   token |-> [kind |-> "close", name |-> name]]

Other(kind, bytes) == [kind |-> kind, bytes |-> bytes]

MCScript == <<"s">>
MCPieces ==
  { Open(<<"a">>, <<>>),
    Open(<<"a">>, << <<<<"k">>, <<"v", " ", "/">>>>, <<<<"h">>, <<"=">>>> >>),
    Open(<<"s">>, <<>>), Close(<<"a">>),
    Other("comment", <<"<", "!", "a", ">">>),
    Other("text", <<"1", " ", " ">>), Other("text", <<"<">>) }
=============================================================================
