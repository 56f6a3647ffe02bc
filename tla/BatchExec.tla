----------------------------- MODULE BatchExec -----------------------------
(***************************************************************************)
(* pkg/executils: one call of BatchExec(vals, fn).  The caller sends the   *)
(* indices on a channel; a dispatcher takes each of them, waits for a      *)
(* token of the pool and starts a goroutine that calls fn, puts the token  *)
(* back and tells the wait group; the caller waits for the group, and on   *)
(* its return the deferred functions close both channels.                  *)
(***************************************************************************)
EXTENDS Integers, Sequences, FiniteSets

CONSTANT N  \* len(vals)

ASSUME BatchAssumption == N \in Nat

VARIABLES
  caller,      \* where the caller is
  sent,        \* how many indices it has sent
  idxCh,       \* the channel of indices
  taken,       \* the index the dispatcher holds, 0 if none
  workerPool,  \* the tokens in the channel workerPool
  closed,      \* the channels are closed
  calls,       \* per value: how far its goroutine is
  wg           \* the counter of the wait group

batchVars == <<caller, sent, idxCh, taken, workerPool, closed, calls, wg>>

CallStates == {"none", "fn", "put", "done", "gone", "panic"}

\* The values whose goroutine has not told the wait group yet.
Active == {i \in 1 .. N : calls[i] \in {"fn", "put", "done"}}

BatchTypeOK ==
  /\ caller \in {"off", "send", "wait", "returned"}
  /\ sent \in 0 .. N /\ idxCh \in Seq(1 .. N) /\ taken \in 0 .. N
  /\ workerPool \in 0 .. N /\ closed \in BOOLEAN
  /\ calls \in [1 .. N -> CallStates]
  /\ wg = Cardinality(Active)
          + Len(idxCh) + (IF taken = 0 THEN 0 ELSE 1)

BatchInit ==
  /\ caller = "off" /\ sent = 0 /\ idxCh = <<>> /\ taken = 0 /\ workerPool = 0
  /\ closed = FALSE /\ calls = [i \in 1 .. N |-> "none"] /\ wg = 0

\* A variant: the pool is one token short.
CallWithFewer ==
  /\ caller = "off"
  /\ caller' = "send"
  /\ workerPool' = N - 1
  /\ UNCHANGED <<sent, idxCh, taken, closed, calls, wg>>

\* Both channels are made, and the pool is filled.
CallBatchExec ==
  /\ caller = "off"
  /\ caller' = "send"
  /\ workerPool' = N
  /\ UNCHANGED <<sent, idxCh, taken, closed, calls, wg>>

\* wg.Add(1), and the next index is sent; after the last one the caller waits.
SendIndex ==
  /\ caller = "send"
  /\ IF sent = N THEN caller' = "wait" /\ UNCHANGED <<sent, idxCh, wg>>
     ELSE /\ sent' = sent + 1
          /\ idxCh' = Append(idxCh, sent + 1)
          /\ wg' = wg + 1
          /\ UNCHANGED caller
  /\ UNCHANGED <<taken, workerPool, closed, calls>>

TakeIndex ==
  /\ idxCh # <<>> /\ taken = 0
  /\ taken' = Head(idxCh)
  /\ idxCh' = Tail(idxCh)
  /\ UNCHANGED <<caller, sent, workerPool, closed, calls, wg>>

TakeToken ==
  /\ taken # 0 /\ workerPool > 0
  /\ workerPool' = workerPool - 1
  /\ calls' = [calls EXCEPT ![taken] = "fn"]
  /\ taken' = 0
  /\ UNCHANGED <<caller, sent, idxCh, closed, wg>>

\* fn may return at any time, or never: the worker's ranges over a channel
\* nobody closes.
FnReturns(i) ==
  /\ calls[i] = "fn"
  /\ calls' = [calls EXCEPT ![i] = "put"]
  /\ UNCHANGED <<caller, sent, idxCh, taken, workerPool, closed, wg>>

\* A token sent on a closed channel is a panic.
PutToken(i) ==
  /\ calls[i] = "put"
  /\ calls' = [calls EXCEPT ![i] = IF closed THEN "panic" ELSE "done"]
  /\ workerPool' = IF closed THEN workerPool ELSE workerPool + 1
  /\ UNCHANGED <<caller, sent, idxCh, taken, closed, wg>>

WgDone(i) ==
  /\ calls[i] = "done"
  /\ calls' = [calls EXCEPT ![i] = "gone"]
  /\ wg' = wg - 1
  /\ UNCHANGED <<caller, sent, idxCh, taken, workerPool, closed>>

\* A variant: the caller does not wait for the group.
ReturnsAtOnce ==
  /\ caller = "wait"
  /\ caller' = "returned"
  /\ closed' = TRUE
  /\ UNCHANGED <<sent, idxCh, taken, workerPool, calls, wg>>

BatchExecReturns ==
  /\ caller = "wait" /\ wg = 0
  /\ caller' = "returned"
  /\ closed' = TRUE
  /\ UNCHANGED <<sent, idxCh, taken, workerPool, calls, wg>>

\* The process dies, and all of it is gone.
BatchGone ==
  /\ caller' = "off" /\ sent' = 0 /\ idxCh' = <<>> /\ taken' = 0 /\ workerPool' = 0
  /\ closed' = FALSE /\ calls' = [i \in 1 .. N |-> "none"] /\ wg' = 0

BatchStep ==
  \/ SendIndex \/ TakeIndex \/ TakeToken \/ BatchExecReturns
  \/ \E i \in 1 .. N : FnReturns(i) \/ PutToken(i) \/ WgDone(i)
=============================================================================
