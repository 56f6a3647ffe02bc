-------------------------- MODULE ArticleConsumer --------------------------
(***************************************************************************)
(* The backend's article consumer: the handler that each member of the     *)
(* queue group runs for every delivered message (article_consumer.go), the *)
(* service methods it calls (service/article.go) and the transaction       *)
(* wrapper around the creation (txutils.go), over the stream and the       *)
(* tables.  A subscription runs its handler for one message at a time; the *)
(* handler stops between any two calls that leave the process, so one      *)
(* action is one such call with what the code does on its result.          *)
(*                                                                         *)
(* The transaction opened by WithTransaction is never used: the closure    *)
(* ignores its queries argument and calls s.queries, which is bound to the *)
(* *sql.DB.  Commit and Rollback therefore change no table, and their only *)
(* effect is on the error that NewArticle returns.                         *)
(*                                                                         *)
(* Faults says which calls may fail, so that a run can ask what holds when *)
(* one kind of failure is left out.                                        *)
(***************************************************************************)
EXTENDS ArticleStream, ArticleStore, Functions

CONSTANT Faults

\* The calls that can return an error, and the crash of a backend.
FaultKinds == {"lookup", "begin", "insert", "image", "attach", "commit",
               "rollback", "update", "ack", "crash"}

ASSUME ConsumerAssumption ==
  /\ Faults \subseteq FaultKinds
  /\ Payloads \subseteq [err : BOOLEAN, title : Text, origin : Text,
                         viewers : Nat, main : Text, content : Seq(Text)]

VARIABLES
  pc,         \* per backend: the call its handler is about to make
  cur,        \* per backend: the message it handles
  articleID,  \* per backend: the article the handler works on, 0 if none
  imageID,    \* per backend: the image NewImage returned last
  done        \* per backend: images attached so far in this creation

handlerVars == <<pc, cur, articleID, imageID, done>>
vars == <<streamVars, storeVars, handlerVars>>

PCs == {"down", "idle", "reject", "lookup", "begin", "insert", "image",
        "attach", "commit", "rollback", "update", "ack"}

TypeOK ==
  /\ StreamTypeOK
  /\ StoreTypeOK
  /\ pc \in [Backends -> PCs]
  /\ cur \in [Backends -> 0 .. delivered]
  /\ articleID \in [Backends -> 0 .. Len(articles)]
  /\ imageID \in [Backends -> 0 .. Len(images)]
  /\ done \in [Backends -> Nat]

Init ==
  /\ StreamInit
  /\ StoreInit
  /\ pc = [b \in Backends |-> "down"]
  /\ cur = [b \in Backends |-> 0]
  /\ articleID = [b \in Backends |-> 0]
  /\ imageID = [b \in Backends |-> 0]
  /\ done = [b \in Backends |-> 0]

-----------------------------------------------------------------------------
\* Helpers.

\* The article the handler of b holds.
Article(b) == stream[cur[b]]

\* The URLs NewArticle creates images for, the main image first.
ImageURLs(p) == <<p.main>> \o p.content

Up(b) == pc[b] # "down"

At(b, here) == pc[b] = here

Goto(b, there) == pc' = [pc EXCEPT ![b] = there]

\* The handler returns: its local variables are gone.
Return(b, there) ==
  /\ Goto(b, there)
  /\ cur' = [cur EXCEPT ![b] = 0]
  /\ articleID' = [articleID EXCEPT ![b] = 0]
  /\ imageID' = [imageID EXCEPT ![b] = 0]
  /\ done' = [done EXCEPT ![b] = 0]

CanFail(call) == call \in Faults

-----------------------------------------------------------------------------
\* The queue group, the publisher and the life of a backend process.

Publish(p) == StreamPublish(p) /\ UNCHANGED <<storeVars, handlerVars>>

Deliver(b) ==
  /\ Up(b)
  /\ DeliverNew(b) \/ \E s \in expired : Redeliver(b, s)
  /\ UNCHANGED <<storeVars, handlerVars>>

Expire(s) == AckWaitExpires(s) /\ UNCHANGED <<storeVars, handlerVars>>

\* start: stream and consumer are set up (again), QueueSubscribe succeeds.
Start(b) ==
  /\ At(b, "down")
  /\ Goto(b, "idle")
  /\ UNCHANGED <<streamVars, storeVars, cur, articleID, imageID, done>>

\* The process dies: the handler and the buffered deliveries are lost.
Crash(b) ==
  /\ CanFail("crash")
  /\ Up(b)
  /\ Return(b, "down")
  /\ inbox' = [inbox EXCEPT ![b] = <<>>]
  /\ UNCHANGED <<stream, acked, delivered, expired, storeVars>>

-----------------------------------------------------------------------------
\* The handler.

\* A variant: an unreadable message is skipped without an ack.
ReceiveSkips(b) ==
  /\ At(b, "idle")
  /\ inbox[b] # <<>>
  /\ LET s == Head(inbox[b]) IN
       /\ cur' = [cur EXCEPT ![b] = IF stream[s].err THEN 0 ELSE s]
       /\ Goto(b, IF stream[s].err THEN "idle" ELSE "lookup")
  /\ inbox' = [inbox EXCEPT ![b] = Tail(@)]
  /\ UNCHANGED <<stream, acked, delivered, expired, storeVars,
                 articleID, imageID, done>>

\* The next buffered message is unmarshalled.
Receive(b) ==
  /\ At(b, "idle")
  /\ inbox[b] # <<>>
  /\ LET s == Head(inbox[b]) IN
       /\ cur' = [cur EXCEPT ![b] = s]
       /\ Goto(b, IF stream[s].err THEN "reject" ELSE "lookup")
  /\ inbox' = [inbox EXCEPT ![b] = Tail(@)]
  /\ UNCHANGED <<stream, acked, delivered, expired, storeVars,
                 articleID, imageID, done>>

\* Unmarshal failed: the message is acknowledged, and the handler goes on
\* with whatever fields Unmarshal left in the article.
Reject(b) ==
  /\ At(b, "reject")
  /\ Remove(cur[b])
  /\ Goto(b, "lookup")
  /\ UNCHANGED <<inbox, storeVars, cur, articleID, imageID, done>>

\* msg.Ack is a publication without an answer; its error is dropped.
RejectAckLost(b) ==
  /\ CanFail("ack")
  /\ At(b, "reject")
  /\ Goto(b, "lookup")
  /\ UNCHANGED <<streamVars, storeVars, cur, articleID, imageID, done>>

GetArticleIDByTitleAndOrigin(b) ==
  /\ At(b, "lookup")
  /\ LET ids == MatchingIDs(Article(b).title, Article(b).origin) IN
       \/ /\ ids = {}
          /\ Goto(b, "begin")
          /\ UNCHANGED articleID
       \/ \E id \in ids :
            /\ articleID' = [articleID EXCEPT ![b] = id]
            /\ Goto(b, "update")
  /\ UNCHANGED <<streamVars, storeVars, cur, imageID, done>>

\* Variants of LookupFails: the test for ErrNoRows taken for a test for any
\* error; an ack on the way out of the error branch.
LookupFailsCreates(b) ==
  /\ CanFail("lookup")
  /\ At(b, "lookup")
  /\ Goto(b, "begin")
  /\ UNCHANGED <<streamVars, storeVars, cur, articleID, imageID, done>>

LookupFailsAcks(b) ==
  /\ CanFail("lookup")
  /\ At(b, "lookup")
  /\ Remove(cur[b])
  /\ Return(b, "idle")
  /\ UNCHANGED <<inbox, storeVars>>

\* An error other than ErrNoRows: the handler returns without an ack.
LookupFails(b) ==
  /\ CanFail("lookup")
  /\ At(b, "lookup")
  /\ Return(b, "idle")
  /\ UNCHANGED <<streamVars, storeVars>>

\* WithTransaction: db.Begin.  If it fails NewArticle returns its error and
\* the handler falls through to the update with the id it never got.
Begin(b) ==
  /\ At(b, "begin")
  /\ Goto(b, "insert")
  /\ UNCHANGED <<streamVars, storeVars, cur, articleID, imageID, done>>

BeginFails(b) ==
  /\ CanFail("begin")
  /\ At(b, "begin")
  /\ Goto(b, "update")
  /\ UNCHANGED <<streamVars, storeVars, cur, articleID, imageID, done>>

NewArticle(b) ==
  /\ At(b, "insert")
  /\ InsertArticle(Article(b))
  /\ articleID' = [articleID EXCEPT ![b] = Len(articles) + 1]
  /\ Goto(b, "image")
  /\ UNCHANGED <<streamVars, cur, imageID, done>>

\* The insert returns an error, before or after the row is in the table.
NewArticleFails(b) ==
  /\ CanFail("insert")
  /\ At(b, "insert")
  /\ InsertArticle(Article(b)) \/ UNCHANGED storeVars
  /\ Goto(b, "rollback")
  /\ UNCHANGED <<streamVars, cur, articleID, imageID, done>>

NewImage(b) ==
  /\ At(b, "image")
  /\ InsertImage(ImageURLs(Article(b))[done[b] + 1])
  /\ imageID' = [imageID EXCEPT ![b] = Len(images) + 1]
  /\ Goto(b, "attach")
  /\ UNCHANGED <<streamVars, cur, articleID, done>>

NewImageFails(b) ==
  /\ CanFail("image")
  /\ At(b, "image")
  /\ InsertImage(ImageURLs(Article(b))[done[b] + 1]) \/ UNCHANGED storeVars
  /\ Goto(b, "rollback")
  /\ UNCHANGED <<streamVars, cur, articleID, imageID, done>>

\* A variant: every image is attached as the main one.
AttachAllAsMain(b) ==
  /\ At(b, "attach")
  /\ InsertAttachment(articleID[b], imageID[b], TRUE)
  /\ done' = [done EXCEPT ![b] = @ + 1]
  /\ Goto(b, IF done[b] + 1 < Len(ImageURLs(Article(b))) THEN "image"
                                                         ELSE "commit")
  /\ UNCHANGED <<streamVars, cur, articleID, imageID>>

\* newArticleImage attaches the image; the first one is the main image.
AttachArticleImage(b) ==
  /\ At(b, "attach")
  /\ InsertAttachment(articleID[b], imageID[b], done[b] = 0)
  /\ done' = [done EXCEPT ![b] = @ + 1]
  /\ Goto(b, IF done[b] + 1 < Len(ImageURLs(Article(b))) THEN "image"
                                                         ELSE "commit")
  /\ UNCHANGED <<streamVars, cur, articleID, imageID>>

\* A variant: newArticleImage starts over when the attachment fails.
AttachFailsStartsOver(b) ==
  /\ CanFail("attach")
  /\ At(b, "attach")
  /\ Goto(b, "image")
  /\ UNCHANGED <<streamVars, storeVars, cur, articleID, imageID, done>>

AttachArticleImageFails(b) ==
  /\ CanFail("attach")
  /\ At(b, "attach")
  /\ \/ InsertAttachment(articleID[b], imageID[b], done[b] = 0)
     \/ UNCHANGED storeVars
  /\ Goto(b, "rollback")
  /\ UNCHANGED <<streamVars, cur, articleID, imageID, done>>

\* The deferred function of WithTransaction overwrites the closure's error
\* with the result of Commit or Rollback.  A rollback that works therefore
\* turns a failed creation into success, and the handler acknowledges; if the
\* call fails, the handler falls through to the update with id 0.
EndTransaction(b) ==
  /\ pc[b] \in {"commit", "rollback"}
  /\ Goto(b, "ack")
  /\ UNCHANGED <<streamVars, storeVars, cur, articleID, imageID, done>>

EndTransactionFails(b) ==
  /\ CanFail(pc[b])
  /\ pc[b] \in {"commit", "rollback"}
  /\ articleID' = [articleID EXCEPT ![b] = 0]
  /\ Goto(b, "update")
  /\ UNCHANGED <<streamVars, storeVars, cur, imageID, done>>

UpdateArticleStats(b) ==
  /\ At(b, "update")
  /\ SetViewers(articleID[b], Article(b).viewers)
  /\ Goto(b, "ack")
  /\ UNCHANGED <<streamVars, cur, articleID, imageID, done>>

\* The update returns an error, before or after the row has changed: the
\* handler returns without an ack.
UpdateFails(b) ==
  /\ CanFail("update")
  /\ At(b, "update")
  /\ SetViewers(articleID[b], Article(b).viewers) \/ UNCHANGED storeVars
  /\ Return(b, "idle")
  /\ UNCHANGED streamVars

\* The last statement of the handler.  The message may have been removed
\* before: by Reject, or because another delivery of it was acknowledged.
Ack(b) ==
  /\ At(b, "ack")
  /\ Remove(cur[b])
  /\ Return(b, "idle")
  /\ UNCHANGED <<inbox, storeVars>>

AckLost(b) ==
  /\ CanFail("ack")
  /\ At(b, "ack")
  /\ Return(b, "idle")
  /\ UNCHANGED <<streamVars, storeVars>>

-----------------------------------------------------------------------------
\* The handler's steps when no call fails, and the failures.

HandlerStep(b) ==
  \/ Receive(b) \/ Reject(b) \/ GetArticleIDByTitleAndOrigin(b)
  \/ Begin(b) \/ NewArticle(b) \/ NewImage(b) \/ AttachArticleImage(b)
  \/ EndTransaction(b) \/ UpdateArticleStats(b) \/ Ack(b)

FailureStep(b) ==
  \/ LookupFails(b) \/ BeginFails(b) \/ NewArticleFails(b) \/ NewImageFails(b)
  \/ AttachArticleImageFails(b) \/ EndTransactionFails(b) \/ UpdateFails(b)
  \/ RejectAckLost(b) \/ AckLost(b) \/ Crash(b)

Next ==
  \/ \E p \in Payloads : Publish(p)
  \/ \E s \in 1 .. MaxMessages : Expire(s)
  \/ \E b \in Backends : Deliver(b) \/ Start(b) \/ HandlerStep(b) \/ FailureStep(b)

Spec == Init /\ [][Next]_vars

\* The server keeps delivering and keeps its AckWait timers, and a handler
\* that is running goes on.  Nothing makes a process start, a publisher
\* publish or a call fail.
Fairness ==
  /\ WF_vars(\E b \in Backends : Deliver(b))
  /\ \A s \in 1 .. MaxMessages : WF_vars(Expire(s))
  /\ \A b \in Backends : WF_vars(HandlerStep(b))

FairSpec == Spec /\ Fairness

-----------------------------------------------------------------------------
\* Properties.

Stored(p) == \E id \in DOMAIN articles :
               articles[id].title = p.title /\ articles[id].origin = p.origin

\* Whatever crashes, failed calls and redeliveries happen, one backend never
\* stores the same article (title and origin) twice: the handler looks the
\* article up and inserts it in two statements with nothing to hold them
\* together, and no UNIQUE constraint stands behind them.
NoDuplicateArticle ==
  \A i, j \in DOMAIN articles :
    /\ articles[i].title = articles[j].title
    /\ articles[i].origin = articles[j].origin
    => i = j

\* A message leaves the work queue only when its article is in the table:
\* an acknowledged message can never be delivered again, so an article missing
\* at that moment is lost.
AckedIsStored == \A s \in acked : ~stream[s].err => Stored(stream[s])

\* Readers find the images of an article in article_images; an article that
\* has any image there has exactly one main image, at every moment of its
\* creation and after any failure in the middle of it.
MainImageFirst ==
  \A id \in DOMAIN articles :
    ImagesOf(id) # {} =>
      \E first \in ImagesOf(id) : \A r \in ImagesOf(id) : r.main <=> r = first

\* A creation that stops half way leaves at most one image row that no
\* article has; a redelivery never adds another one.
OneOrphanPerCreation == Cardinality(Orphans) <= Len(articles)

\* Readers see a ledger of articles: one entry per article, holding what some
\* message said of it, made before any message of that article is retired.
\* That is what one backend gives as long as no call inside NewArticle fails.
Ledger == INSTANCE ArticleLedger
            WITH posted <- stream, retired <- acked, entries <- Range(articles)
LedgerSpec == Ledger!Spec

\* service/article.go declares that an article requires at least the main
\* image: an article that no handler is still working on has one.
MainImageRequired ==
  \A id \in DOMAIN articles :
    (\A b \in Backends : articleID[b] # id) => \E r \in ImagesOf(id) : r.main

\* Every message accepted by the stream is acknowledged in the end, if from
\* some moment on no call fails and some backend stays up.
EveryMessageRetired ==
  /\ <>[][\A b \in Backends : ~FailureStep(b)]_vars
  /\ <>[](\E b \in Backends : Up(b))
  => \A s \in 1 .. MaxMessages : (s \in DOMAIN stream) ~> (s \in acked)
=============================================================================
