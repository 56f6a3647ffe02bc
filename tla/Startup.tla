------------------------------ MODULE Startup ------------------------------
(***************************************************************************)
(* The start of the backends and the worker (backend/main.go,              *)
(* worker/main.go, pkg/natsinfo/config.go and utils.go): each process      *)
(* waits for NATS, then creates what it needs there.  A backend opens its  *)
(* HTTP port while a goroutine of its own sets up the consumer; the worker *)
(* sets up the stream and calls BatchExec over its feeds.  All of them do  *)
(* so at once, NATS comes and goes, and what they find there may be the    *)
(* work of an earlier version of the program.                              *)
(***************************************************************************)
EXTENDS BatchExec

CONSTANTS
  Backends,  \* the backend processes
  Worker     \* the worker process

ASSUME WorkerAssumption == Worker \notin Backends

VARIABLES
  natsUp,  \* the NATS server runs, and whoever tries is connected
  found,   \* what is on the server: the stream, the consumer, the bucket
  at       \* where each routine of a process is

startVars == <<natsUp, found, at>>
vars == <<startVars, batchVars>>

Processes == Backends \cup {Worker}
Main(p) == <<p, "main">>
Starter(b) == <<b, "start">>  \* the goroutine of articleConsumerWorker.start
Routines == {Main(p) : p \in Processes} \cup {Starter(b) : b \in Backends}

Places == {"down", "connect", "bucket", "createBucket", "listen", "serving",
           "stream", "updateStream", "consumer", "updateConsumer",
           "subscribe", "consuming", "batch", "signal"}

\* "other" is the same name with another configuration.
Things == {"stream", "consumer", "bucket"}
Configs == {"none", "other", "ours"}

Init ==
  /\ natsUp \in BOOLEAN
  /\ found \in [Things -> Configs]
  /\ found["consumer"] # "none" => found["stream"] # "none"
  /\ at = [r \in Routines |-> "down"]
  /\ BatchInit

(***************************************************************************)
(* NATS and the processes.                                                 *)
(***************************************************************************)
NatsStarts ==
  /\ ~natsUp /\ natsUp' = TRUE
  /\ UNCHANGED <<found, at, batchVars>>

\* The server keeps its files (docker-compose.yaml).
NatsStops ==
  /\ natsUp /\ natsUp' = FALSE
  /\ UNCHANGED <<found, at, batchVars>>

Start(p) ==
  /\ at[Main(p)] = "down"
  /\ at' = [at EXCEPT ![Main(p)] = "connect"]
  /\ UNCHANGED <<natsUp, found, batchVars>>

\* A start that gets an error of nats.Connect or conn.JetStream: a backend's Run
\* ends for it, and the backend is down again; the worker has no Run, and waits
\* for a signal with no feed started.
StartRefused(p) ==
  /\ at[Main(p)] = "down"
  /\ at' = [at EXCEPT ![Main(p)] = IF p = Worker THEN "signal" ELSE "down"]
  /\ UNCHANGED <<natsUp, found, batchVars>>

\* A variant: the goroutines of the process outlive it.
DiesInMain(p) ==
  /\ at' = [at EXCEPT ![Main(p)] = "down"]
  /\ IF p = Worker THEN BatchGone ELSE UNCHANGED batchVars
  /\ UNCHANGED <<natsUp, found>>

\* A panic, a signal, or an error that ends a backend's Run: every routine is
\* gone.
Dies(p) ==
  /\ at' = [r \in Routines |-> IF r[1] = p THEN "down" ELSE at[r]]
  /\ IF p = Worker THEN BatchGone ELSE UNCHANGED batchVars
  /\ UNCHANGED <<natsUp, found>>

Stop(p) == at[Main(p)] # "down" /\ Dies(p)

Goes(r, place) ==
  /\ at' = [at EXCEPT ![r] = place]
  /\ UNCHANGED natsUp

(***************************************************************************)
(* NewNatsConnection: the select between the ticker and the timer of 30    *)
(* seconds, which may be taken although the connection is there.  A status *)
(* that lags behind the server is a tick not taken, or a call that fails.  *)
(***************************************************************************)
SelectTicker(p) ==
  /\ at[Main(p)] = "connect" /\ natsUp
  /\ Goes(Main(p), IF p = Worker THEN "stream" ELSE "bucket")
  /\ UNCHANGED <<found, batchVars>>

\* A variant: the timer is never read.
TimerIgnored(p) == at[Main(p)] = "connect" /\ UNCHANGED vars

SelectTimer(p) == at[Main(p)] = "connect" /\ Dies(p)

(***************************************************************************)
(* The calls to JetStream.  One that fails ends the process: the worker    *)
(* panics, a backend panics or has its Run end.                            *)
(***************************************************************************)
CallPlaces == {"bucket", "createBucket", "stream", "updateStream", "consumer",
               "updateConsumer", "subscribe"}

\* A variant: a routine that fails ends alone.
CallFailsAlone(r) ==
  at[r] \in CallPlaces /\ Goes(r, "down") /\ UNCHANGED <<found, batchVars>>

CallFails(r) == at[r] \in CallPlaces /\ Dies(r[1])

\* AddStream and AddConsumer change nothing when they find their own
\* configuration, and refuse another one.
\* A variant: what exists is taken as it is.
AddOrAttach(r, thing, update, next) ==
  /\ at[r] = thing /\ natsUp
  /\ found' = IF found[thing] = "none" THEN [found EXCEPT ![thing] = "ours"] ELSE found
  /\ Goes(r, next)

Add(r, thing, update, next) ==
  /\ at[r] = thing /\ natsUp
  /\ IF found[thing] = "other" THEN Goes(r, update) /\ UNCHANGED found
     ELSE Goes(r, next) /\ found' = [found EXCEPT ![thing] = "ours"]

Update(r, thing, update, next) ==
  /\ at[r] = update /\ natsUp
  /\ found' = [found EXCEPT ![thing] = "ours"]
  /\ Goes(r, next)

CreateOrUpdate(r, thing, update, next) ==
  Add(r, thing, update, next) \/ Update(r, thing, update, next)

CreateOrUpdateStream(r) ==
  /\ CreateOrUpdate(r, "stream", "updateStream",
                    IF r = Main(Worker) THEN "batch" ELSE "consumer")
  /\ UNCHANGED batchVars

CreateOrUpdateConsumer(b) ==
  /\ CreateOrUpdate(Starter(b), "consumer", "updateConsumer", "subscribe")
  /\ UNCHANGED batchVars

QueueSubscribe(b) ==
  /\ at[Starter(b)] = "subscribe" /\ natsUp
  /\ Goes(Starter(b), "consuming")
  /\ UNCHANGED <<found, batchVars>>

\* StartArticleConsumerWorker runs once its parameters are there.
Built(b) ==
  /\ at' = [at EXCEPT ![Main(b)] = "listen", ![Starter(b)] = "stream"]
  /\ UNCHANGED <<natsUp, batchVars>>

\* CreateOrAttachKeyValue takes a bucket it finds as it is, one of an earlier
\* version with another TTL included.
AttachBucket(b) ==
  /\ at[Main(b)] = "bucket" /\ natsUp
  /\ IF found["bucket"] = "none"
     THEN Goes(Main(b), "createBucket") /\ UNCHANGED batchVars
     ELSE Built(b)
  /\ UNCHANGED found

CreateBucket(b) ==
  /\ at[Main(b)] = "createBucket" /\ natsUp
  /\ found' = [found EXCEPT !["bucket"] = "ours"]
  /\ Built(b)

(***************************************************************************)
(* StartHttpServer.                                                        *)
(***************************************************************************)
Listen(b) ==
  /\ at[Main(b)] = "listen"
  /\ Goes(Main(b), "serving")
  /\ UNCHANGED <<found, batchVars>>

ListenFails(b) == at[Main(b)] = "listen" /\ Dies(b)

Batch ==
  /\ at[Main(Worker)] = "batch"
  /\ CallBatchExec \/ BatchStep
  /\ UNCHANGED startVars

\* One step of a routine: the select, a call that returns, or the listener.
RoutineStep(r) ==
  \/ \E p \in Processes :
       /\ r = Main(p)
       /\ SelectTicker(p) \/ SelectTimer(p)
  \/ \E b \in Backends :
       \/ /\ r = Main(b)
          /\ AttachBucket(b) \/ CreateBucket(b) \/ Listen(b) \/ ListenFails(b)
       \/ /\ r = Starter(b)
          /\ CreateOrUpdateConsumer(b) \/ QueueSubscribe(b)
  \/ CreateOrUpdateStream(r)
  \/ CallFails(r)

Next ==
  \/ NatsStarts \/ NatsStops \/ Batch
  \/ \E p \in Processes : Start(p) \/ StartRefused(p) \/ Stop(p)
  \/ \E r \in Routines : RoutineStep(r)

\* A timer runs out, a call returns and a goroutine runs; whether NATS or a
\* process is ever started, and whether fn ever returns, is left open.
Fairness ==
  /\ \A r \in Routines : WF_vars(RoutineStep(r))
  /\ WF_vars(Batch /\ (CallBatchExec \/ SendIndex))
  /\ WF_vars(Batch /\ (TakeIndex \/ TakeToken))

Spec == Init /\ [][Next]_vars /\ Fairness
-----------------------------------------------------------------------------
TypeOK ==
  /\ natsUp \in BOOLEAN
  /\ found \in [Things -> Configs]
  /\ at \in [Routines -> Places]
  /\ \A b \in Backends :
       at[Starter(b)] # "down" <=> at[Main(b)] \in {"listen", "serving"}
  /\ caller # "off" => at[Main(Worker)] = "batch"
  /\ BatchTypeOK

\* Whatever was found and whoever created it, a consumer that subscribed and a
\* feed that runs have the stream, and the consumer, as streams.go declares
\* them: nobody works with those of an earlier version (utils.go:9-29).
\* Of the bucket this says only that it is there for a backend that serves: one
\* of an earlier version stays as it was found (utils.go:31-38).
WorksOnWhatItSetUp ==
  /\ \A b \in Backends :
       /\ at[Starter(b)] = "consuming" =>
            found["stream"] = "ours" /\ found["consumer"] = "ours"
       /\ at[Main(b)] = "serving" => found["bucket"] # "none"
  /\ caller # "off" => found["stream"] = "ours"

\* No goroutine of BatchExec sends its token on a channel the caller closed:
\* the caller waits until all of them have put it back (batch_exec.go:22-23).
NoSendOnClosed == \A i \in 1 .. N : calls[i] # "panic"

\* No process that was given a connection waits for NATS for ever
\* (config.go:52-69).
NothingWaitsForever ==
  \A p \in Processes : at[Main(p)] = "connect" ~> at[Main(p)] # "connect"

\* A backend that answers HTTP does not stay without its consumer: it comes to
\* consume or it dies, although the two start independently of each other.
NoHalfStart ==
  \A b \in Backends :
    at[Main(b)] = "serving" ~> at[Starter(b)] = "consuming" \/ at[Main(b)] = "down"

\* Every feed is started, although no callback ever returns: there are as many
\* tokens as feeds (batch_exec.go:8-12).
AllFeedsStart ==
  at[Main(Worker)] = "batch" ~> at[Main(Worker)] = "down"
                             \/ \A i \in 1 .. N : calls[i] # "none"
=============================================================================
