--------------------------- MODULE ArticleStream ---------------------------
(***************************************************************************)
(* The JetStream stream ARTICLES and its one durable push consumer, as     *)
(* pkg/natsinfo/streams.go configures them: a work queue (a message is     *)
(* removed when it is acknowledged, and only then), explicit               *)
(* acknowledgement, an AckWait after which an unacknowledged message is    *)
(* delivered again, and at most MaxAckPending messages out at a time.  The *)
(* queue group hands each delivery to one of the subscribed backends, in   *)
(* whose subscription buffer (inbox) it waits for the handler.             *)
(*                                                                         *)
(* Messages are named by their stream sequence number, the index in        *)
(* stream.  The wall clock is abstracted: the AckWait of a message that is *)
(* out may expire at any moment, because nothing bounds the time a handler *)
(* or the buffer in front of it takes.                                     *)
(***************************************************************************)
EXTENDS Naturals, Sequences, FiniteSets

CONSTANTS
  Backends,       \* members of the queue group backend-articles-consumer
  Payloads,       \* what the articles published can be
  MaxAckPending,  \* ConsumerConfig.MaxAckPending
  MaxMessages,    \* bound: messages ever published
  MaxInbox        \* bound: messages buffered in one subscription

ASSUME StreamAssumption ==
  /\ MaxAckPending \in Nat \ {0}
  /\ MaxMessages \in Nat
  /\ MaxInbox \in Nat \ {0}

VARIABLES
  stream,     \* every message the stream accepted, in sequence order
  acked,      \* sequence numbers acknowledged, hence removed
  delivered,  \* the last sequence number delivered for the first time
  expired,    \* sequence numbers whose AckWait ran out, due for redelivery
  inbox       \* per backend: sequence numbers delivered and not yet handled

streamVars == <<stream, acked, delivered, expired, inbox>>

\* Out for delivery and not acknowledged: what MaxAckPending counts.
AckPending == (1 .. delivered) \ acked

StreamTypeOK ==
  /\ stream \in Seq(Payloads)
  /\ delivered \in 0 .. Len(stream)
  /\ acked \subseteq 1 .. delivered
  /\ expired \subseteq AckPending
  /\ inbox \in [Backends -> Seq(1 .. delivered)]

StreamInit ==
  /\ stream = <<>>
  /\ acked = {}
  /\ delivered = 0
  /\ expired = {}
  /\ inbox = [b \in Backends |-> <<>>]

\* js.Publish was accepted: the message is in the stream.
StreamPublish(p) ==
  /\ Len(stream) < MaxMessages
  /\ stream' = Append(stream, p)
  /\ UNCHANGED <<acked, delivered, expired, inbox>>

Buffer(b, s) ==
  /\ Len(inbox[b]) < MaxInbox
  /\ inbox' = [inbox EXCEPT ![b] = Append(@, s)]

\* The next message never delivered before goes out: only when nothing waits
\* for redelivery, and only below MaxAckPending.
DeliverNew(b) ==
  /\ expired = {}
  /\ delivered < Len(stream)
  /\ Cardinality(AckPending) < MaxAckPending
  /\ Buffer(b, delivered + 1)
  /\ delivered' = delivered + 1
  /\ UNCHANGED <<stream, acked, expired>>

\* A message whose AckWait expired goes out again, to any member of the group.
Redeliver(b, s) ==
  /\ s \in expired
  /\ Buffer(b, s)
  /\ expired' = expired \ {s}
  /\ UNCHANGED <<stream, acked, delivered>>

\* AckWait of s runs out before its acknowledgement arrives.
AckWaitExpires(s) ==
  /\ s \in AckPending \ expired
  /\ expired' = expired \cup {s}
  /\ UNCHANGED <<stream, acked, delivered, inbox>>

\* A variant: the acknowledgement leaves the timer of s running.
RemoveKeepsTimer(s) ==
  /\ acked' = acked \cup {s}
  /\ UNCHANGED <<stream, delivered, expired>>

\* The acknowledgement of s arrives: the work queue removes the message.
\* The acknowledgement of a message already removed changes nothing.
Remove(s) ==
  /\ acked' = acked \cup {s}
  /\ expired' = expired \ {s}
  /\ UNCHANGED <<stream, delivered>>
=============================================================================
