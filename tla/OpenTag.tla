------------------------------ MODULE OpenTag ------------------------------
(***************************************************************************)
(* The tags of the tokenizer: token.OpenTag and token.CloseTag unmarshal   *)
(* the bytes between the brackets with a cursor.  A byte is a symbol, and  *)
(* "\n" stands for the white space that is not SPACE.  Byte() indexes the  *)
(* data before it compares the cursor with its length, so a reader that    *)
(* runs off the end panics: Nowhere is the position it would reach.        *)
(***************************************************************************)
EXTENDS Integers, Sequences, SequencesExt, TLC

Space == {" ", "\n"}
Quote == {"'", "\""}
Nowhere == 0

\* Where a reader that takes bytes from i on meets one of the symbols.
Find(data, i, symbols) ==
  SelectInSubSeq(data, i, Len(data), LAMBDA c : c \in symbols)

RemoveNewLine(source) ==
  LET Add(kept, c) == IF c = " " /\ kept # <<>> /\ Last(kept) = " "
                      THEN Front(kept) ELSE Append(kept, c)
  IN  SelectSeq(FoldLeft(Add, <<>>, source), LAMBDA c : c # "\n")

Between(data, from, to) == RemoveNewLine(SubSeq(data, from, to - 1))

Unreadable == [ok |-> FALSE]
EmptyAttr == [key \in {} |-> <<>>]

\* The value of the attribute whose key ends before position key: what is in
\* the next quotes, however far they are, or all up to the bracket; and where
\* the reader goes on.
AttrValue(data, key) ==
  LET From[i \in key .. Len(data) + 1] ==
        LET quote == IF i <= Len(data) /\ data[i] = "=" THEN i + 1 ELSE i
            close == Find(data, quote + 1, {data[quote]})
        IN  IF quote > Len(data) THEN Unreadable
            ELSE IF data[quote] = ">"
            THEN [ok |-> TRUE, value |-> Between(data, key, quote), next |-> quote]
            ELSE IF data[quote] \notin Quote THEN From[quote + 1]
            ELSE IF close = Nowhere THEN Unreadable
            ELSE [ok |-> TRUE, value |-> Between(data, quote + 1, close), next |-> close + 1]
  IN  From[key]

\* The attributes behind the name: a key may begin with any byte, the last of
\* two with one key counts, and one without a key or a value is left out.
Attrs(data, name) ==
  LET From[i \in name .. Len(data) + 1] ==
        LET end  == Find(data, i + 1, Space \cup {"/", "=", ">"})
            val  == AttrValue(data, end)
            key  == Between(data, IF data[i] = " " THEN i + 1 ELSE i, end)
            rest == From[val.next]
        IN  IF i > Len(data) THEN Unreadable
            ELSE IF data[i] = ">" THEN [ok |-> TRUE, attr |-> EmptyAttr]
            ELSE IF end = Nowhere \/ ~val.ok THEN Unreadable
            ELSE IF key = <<>> \/ val.value = <<>> \/ ~rest.ok THEN rest
            ELSE [ok |-> TRUE, attr |-> rest.attr @@ (key :> val.value)]
  IN  From[name]

\* OpenTag.Unmarshal of "<", a name, attributes and ">".
UnmarshalOpenTag(data) ==
  LET end  == Find(data, 2, Space \cup {"/", ">"})
      rest == Attrs(data, end)
  IN  IF end = Nowhere \/ ~rest.ok THEN Unreadable
      ELSE [ok |-> TRUE, tag |-> [kind |-> "open", attr |-> rest.attr,
                                  name |-> SubSeq(data, 2, end - 1)]]

\* CloseTag.Unmarshal: all between "</" and ">" is the name.
UnmarshalCloseTag(data) ==
  [kind |-> "close", name |-> SubSeq(data, 3, Find(data, 3, {">"}) - 1)]
=============================================================================
