----------------------------- MODULE Tokenizer -----------------------------
(***************************************************************************)
(* parser.Tokenizer over an io.Reader, as Parse drives it: the buffer that *)
(* readByte fills and moves, and the state machine of Next.  A Read gives  *)
(* any number of bytes, none included, with or without an error; an error  *)
(* before the end is a connection that broke.                              *)
(*                                                                         *)
(* A page is made of Pieces, each a record of what was written (kind) and  *)
(* its bytes.  What the selectors are handed depends on the page alone and *)
(* not on how it arrives: Expected is that reading, made piece by piece.   *)
(*                                                                         *)
(* Offsets are counted as in the code: bytes before the position.          *)
(***************************************************************************)
EXTENDS OpenTag, FiniteSetsExt

CONSTANTS
  Letters,    \* the bytes a tag name may start with
  Script,     \* the name of script elements
  Pieces,     \* what pages are made of
  MaxPieces,  \* bound: pieces of a page
  InitialCap  \* the capacity of the first buffer

\* The bytes that make a comment, or a tag or a comment, of a "<" before them.
CommentMarks == {"!", "?"}
Marks == Letters \cup {"/"} \cup CommentMarks

ASSUME TokenizerAssumption ==
  /\ MaxPieces \in Nat
  /\ InitialCap \in Nat \ {0}
  /\ Letters \cap ({"/", "<", ">"} \cup CommentMarks) = {}

\* The pieces are what pages are written with: a tag or a comment from its "<" to
\* the only ">" in it, a tag that reads as its token when it is read alone, and
\* text in which no "<" makes a tag, be the text before it and behind it as it may.
ASSUME PiecesAssumption ==
  \A p \in Pieces : LET last == Len(p.bytes) IN
    /\ p.kind \in {"open", "close", "comment", "text"}
    /\ p.bytes \in Seq(ToSet(p.bytes)) /\ p.bytes # <<>>
    /\ p.kind = "text" =>
         /\ \A i \in 1 .. last - 1 : p.bytes[i] = "<" => p.bytes[i + 1] \notin Marks
         /\ \A q \in Pieces : q.kind = "text" /\ p.bytes[last] = "<" => q.bytes[1] \notin Marks
    /\ p.kind # "text" =>
         /\ last > 2 /\ p.bytes[1] = "<"
         /\ \A i \in 1 .. last : p.bytes[i] = ">" <=> i = last
    /\ p.kind = "open" =>
         /\ p.bytes[2] \in Letters /\ \A i \in 2 .. last : p.bytes[i] # "<"
         /\ UnmarshalOpenTag(p.bytes) = [ok |-> TRUE, tag |-> p.token]
    /\ p.kind = "close" =>
         p.bytes[2] = "/" /\ UnmarshalCloseTag(p.bytes) = p.token
    /\ p.kind = "comment" => p.bytes[2] \in CommentMarks

VARIABLES
  page,    \* the pieces of the page
  sent,    \* how many of its bytes the source has delivered
  buf,     \* the buffer up to its length
  bufCap,  \* its capacity
  reader,  \* the cursor of the current token's bytes
  data,    \* the cursor of what the token keeps of them
  state,   \* NORMAL or SCRIPT_CONTENT
  pc,      \* where the run of Next is
  err,     \* tok.Err: none, or whether bytes came with the error
  tokens   \* what Parse handed to the selectors

tokenizerVars == <<page, sent, buf, bufCap, reader, data, state, pc, err, tokens>>

Bytes == FlattenSeq([i \in DOMAIN page |-> page[i].bytes])
Reading == pc \in {"scan", "ahead", "open", "close", "comment"}

TokenizerInit ==
  /\ page \in UNION {[1 .. n -> Pieces] : n \in 1 .. MaxPieces}
  /\ sent = 0
  /\ buf = <<>>
  /\ bufCap = InitialCap
  /\ reader = [start |-> 0, end |-> 0]
  /\ data = [start |-> 0, end |-> 0]
  /\ state = "NORMAL"
  /\ pc = "next"
  /\ err = "nil"
  /\ tokens = <<>>

-----------------------------------------------------------------------------
\* readByte.

\* The token's bytes, were it to end at the end-th one of the buffer.
DataUpTo(end) == SubSeq(buf, data.start + 1, end)

NumElems == reader.end - reader.start

\* A variant: a new buffer only when the bytes do not fit.
GetBufferIfFull == IF NumElems > bufCap THEN 2 * bufCap ELSE bufCap

\* GetBuffer moves the bytes of the current token to the front, into a new
\* buffer if they fill more than half of this one.
GetBuffer == IF 2 * NumElems > bufCap THEN 2 * bufCap ELSE bufCap

\* A variant: only if there is a new buffer; in this one an offset stays where
\* it is, as far as there are bytes.
RebasedIfCopied(offset) ==
  IF GetBuffer = bufCap THEN Min({offset, NumElems}) ELSE offset - reader.start

\* A variant: the cursors are left as they are.
OffsetKept(offset) == offset

\* An offset of the current token in the buffer it was moved to.
Rebased(offset) == offset - reader.start

\* The buffer has no byte left: the source is asked for as many as fit.
Refill(n) ==
  /\ Reading
  /\ reader.end = Len(buf)
  /\ n <= GetBuffer - NumElems
  /\ bufCap' = GetBuffer
  /\ buf' = SubSeq(buf, reader.start + 1, reader.end)
            \o SubSeq(Bytes, sent + 1, sent + n)
  /\ sent' = sent + n
  /\ data' = [start |-> Rebased(data.start), end |-> Rebased(data.end)]
  /\ UNCHANGED <<page, state, tokens>>

ReadBytes(n) ==
  /\ n > 0
  /\ Refill(n)
  /\ reader' = [start |-> 0, end |-> NumElems]
  /\ UNCHANGED <<pc, err>>

\* A read of nothing gives the byte 0, which every caller skips; as a look-ahead
\* it is put back although it was not taken, so the "<" is read again.
ReadNothing ==
  /\ Refill(0)
  /\ reader' = [start |-> 0, end |-> IF pc = "ahead" THEN NumElems - 1 ELSE NumElems]
  /\ pc' = IF pc = "ahead" THEN "scan" ELSE pc
  /\ UNCHANGED err

\* Every caller tests tok.Err before it looks at the byte, so bytes that come
\* with an error are lost.  Parse drops the token and returns; but an open tag
\* that was begun is unmarshalled first, two bytes without an end.
ReadFails(n) ==
  /\ Refill(n)
  /\ reader' = [start |-> 0, end |-> IF n > 0 THEN NumElems + 1 ELSE NumElems]
  /\ err' = IF n = 0 THEN "bare" ELSE "with bytes"
  /\ pc' = IF pc = "open" /\ ~UnmarshalOpenTag(DataUpTo(data.end)).ok
           THEN "panic" ELSE "ended"

\* The run of Next at this place takes the next byte of the buffer.
TakeByte(here) ==
  /\ pc = here
  /\ reader.end < Len(buf)
  /\ UNCHANGED <<page, sent, buf, bufCap, err>>

Symbol == buf[reader.end + 1]
MoveEnd(k) == reader' = [reader EXCEPT !.end = @ + k]

-----------------------------------------------------------------------------
\* Next.

\* Next returns a token, and Parse hands it to the selectors.
Hand(token) == tokens' = Append(tokens, token) /\ pc' = "next"

CallNext ==
  /\ pc = "next"
  /\ pc' = "scan"
  /\ reader' = [start |-> reader.end, end |-> reader.end]
  /\ data' = [start |-> reader.end, end |-> reader.end]
  /\ UNCHANGED <<page, sent, buf, bufCap, state, err, tokens>>

Scan ==
  /\ TakeByte("scan")
  /\ MoveEnd(1)
  /\ pc' = IF Symbol = "<" THEN "ahead" ELSE "scan"
  /\ UNCHANGED <<data, state, tokens>>

\* A variant: the byte is not put back.
NoTagTaken ==
  /\ TakeByte("ahead")
  /\ Symbol \notin Marks
  /\ MoveEnd(1)
  /\ pc' = "scan"
  /\ UNCHANGED <<data, state, tokens>>

\* The byte behind "<" decides.  Neither a tag nor a comment: it is put back.
NoTag ==
  /\ TakeByte("ahead")
  /\ Symbol \notin Marks
  /\ pc' = "scan"
  /\ UNCHANGED <<reader, data, state, tokens>>

\* A comment begins at its "<"; the text before it is left behind.
CommentAhead ==
  /\ TakeByte("ahead")
  /\ Symbol \in CommentMarks
  /\ MoveEnd(-1)
  /\ data' = [data EXCEPT !.start = reader.end - 1, !.end = reader.end - 1]
  /\ pc' = "comment"
  /\ UNCHANGED <<state, tokens>>

\* A tag with text before it: the text is returned and the tag read again.
TextAhead ==
  /\ TakeByte("ahead")
  /\ Symbol \in Letters \cup {"/"}
  /\ reader.start < reader.end - 1
  /\ MoveEnd(-1)
  /\ data' = [data EXCEPT !.end = reader.end - 1]
  /\ Hand([kind |-> "text", data |-> RemoveNewLine(DataUpTo(reader.end - 1))])
  /\ UNCHANGED state

\* An open tag in a script is skipped, its first letter with it; others, and
\* close tags, are read to their bracket.
TagAhead ==
  /\ TakeByte("ahead")
  /\ Symbol \in Letters \cup {"/"}
  /\ reader.start >= reader.end - 1
  /\ MoveEnd(1)
  /\ data' = [start |-> reader.end - 1, end |-> reader.end + 1]
  /\ pc' = IF Symbol = "/" THEN "close" ELSE IF state = "NORMAL" THEN "open" ELSE "next"
  /\ UNCHANGED <<state, tokens>>

\* tag and readUntilCloseBracket pass over every byte that is no bracket ...
Pass(here) ==
  /\ TakeByte(here)
  /\ Symbol # ">"
  /\ MoveEnd(1)
  /\ UNCHANGED <<data, state, pc, tokens>>

\* ... and end the token at the bracket.
Bracket(here) ==
  /\ TakeByte(here)
  /\ Symbol = ">"
  /\ MoveEnd(1)
  /\ data' = [data EXCEPT !.end = reader.end + 1]

EndOpenTag ==
  /\ Bracket("open")
  /\ LET read == UnmarshalOpenTag(DataUpTo(reader.end + 1))
     IN  IF read.ok
         THEN /\ Hand(read.tag)
              /\ state' = IF read.tag.name = Script THEN "SCRIPT_CONTENT" ELSE state
         ELSE pc' = "panic" /\ UNCHANGED <<state, tokens>>

EndCloseTag ==
  /\ Bracket("close")
  /\ Hand(UnmarshalCloseTag(DataUpTo(reader.end + 1)))
  /\ state' = "NORMAL"

EndComment ==
  /\ Bracket("comment")
  /\ pc' = "next"
  /\ UNCHANGED <<state, tokens>>

Tokenize ==
  \/ CallNext \/ Scan \/ NoTag \/ CommentAhead \/ TextAhead \/ TagAhead
  \/ \E here \in {"open", "close", "comment"} : Pass(here)
  \/ EndOpenTag \/ EndCloseTag \/ EndComment

TokenizerNext ==
  \/ Tokenize
  \/ \E n \in 0 .. Len(Bytes) - sent : ReadBytes(n) \/ ReadFails(n)
  \/ ReadNothing

TokenizerSpec == TokenizerInit /\ [][TokenizerNext]_tokenizerVars

\* A source that is read again and again delivers its bytes and then its end.
Fairness ==
  /\ WF_tokenizerVars(Tokenize)
  /\ SF_tokenizerVars(\E n \in 1 .. Len(Bytes) - sent : ReadBytes(n))
  /\ SF_tokenizerVars(sent = Len(Bytes) /\ ReadFails(0))

FairSpec == TokenizerSpec /\ Fairness

-----------------------------------------------------------------------------
\* Properties.

\* No slice expression of Next is out of range, and the buffer a read would go
\* into has room for a byte, how long the current token may be.
TokenizerTypeOK ==
  /\ sent \in 0 .. Len(Bytes)
  /\ 0 <= reader.start /\ reader.start <= reader.end /\ reader.end <= Len(buf)
  /\ reader.start <= data.start /\ data.start <= data.end
  /\ data.end <= reader.end
  /\ Len(buf) <= bufCap /\ NumElems < GetBuffer
  /\ state \in {"NORMAL", "SCRIPT_CONTENT"}
  /\ pc \in {"next", "scan", "ahead", "open", "close", "comment", "ended", "panic"}
  /\ err \in {"nil", "bare", "with bytes"}
  /\ pc = "ended" => err # "nil"
  /\ err # "nil" => pc \in {"ended", "panic"}

\* What the selectors are to be handed of a page, piece by piece: text is one
\* token up to the next tag; a comment takes the text before it along; in a
\* script an open tag loses its first two bytes and is text.
Flushed(r) ==
  IF r.text = <<>> THEN r.out
  ELSE Append(r.out, [kind |-> "text", data |-> RemoveNewLine(r.text)])

ReadPiece(r, p) ==
  CASE p.kind = "text" -> [r EXCEPT !.text = @ \o p.bytes]
    [] p.kind = "comment" -> [r EXCEPT !.text = <<>>]
    [] p.kind = "close" ->
         [out |-> Append(Flushed(r), p.token), text |-> <<>>, script |-> FALSE]
    [] p.kind = "open" /\ r.script ->
         [r EXCEPT !.out = Flushed(r), !.text = SubSeq(p.bytes, 3, Len(p.bytes))]
    [] p.kind = "open" /\ ~r.script ->
         [out |-> Append(Flushed(r), p.token), text |-> <<>>,
          script |-> p.token.name = Script]

\* The readings of the first k pieces.
Readings(pieces) ==
  LET UpTo[k \in 0 .. Len(pieces)] ==
        IF k = 0 THEN [out |-> <<>>, text |-> <<>>, script |-> FALSE]
        ELSE ReadPiece(UpTo[k - 1], pieces[k])
  IN  UpTo

Expected == Readings(page)[Len(page)].out

\* However the page is cut into reads, and wherever it breaks off, the
\* selectors are handed tokens of the page, from the first one on, in order
\* and with their attributes: moving the buffer never garbles one.
TokensOfThePage == IsPrefix(tokens, Expected)

\* A page whose end is reported by a read of its own is handed over entirely,
\* but for text behind its last tag.
WholePage == pc = "ended" /\ sent = Len(Bytes) /\ err = "bare" => tokens = Expected

\* Next never waits for a byte it has no room for, and never goes over the
\* same bytes for ever.
Ends == <>(pc \in {"ended", "panic"})
=============================================================================
