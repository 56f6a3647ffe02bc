--------------------------- MODULE Startup_proofs ---------------------------
(***************************************************************************)
(* The start of any number of backends and a worker with any number of     *)
(* feeds: types, nobody works with a stream or a consumer of an earlier    *)
(* version, and BatchExec never sends on a closed channel, NATS and the    *)
(* processes coming and going as they please.                              *)
(***************************************************************************)
EXTENDS Startup, FiniteSetTheorems, SequenceTheorems, TLAPS

-----------------------------------------------------------------------------
(***************************************************************************)
(* One call of BatchExec, for every number of values: the wait group counts *)
(* what is under way, the tokens are never more than the values, and no     *)
(* goroutine is left when the channels are closed.  The lemmas are about    *)
(* its steps alone; the theorems below are about the worker's run of it.    *)
(***************************************************************************)

\* The goroutines that hold a token.
Holders == {i \in 1 .. N : calls[i] \in {"fn", "put"}}

\* The last index the dispatcher took.
LastTaken == sent - Len(idxCh)

BatchTypes ==
  /\ caller \in {"off", "send", "wait", "returned"}
  /\ sent \in 0 .. N /\ idxCh \in Seq(1 .. N) /\ taken \in 0 .. N
  /\ workerPool \in Int /\ closed \in BOOLEAN
  /\ calls \in [1 .. N -> CallStates]
  /\ wg \in Int

\* The indices are taken in the order they are sent, and every index before
\* the one in the dispatcher's hands has its goroutine.
InOrder ==
  /\ Len(idxCh) <= sent
  /\ \A k \in 1 .. Len(idxCh) : idxCh[k] = LastTaken + k
  /\ taken \in {0, LastTaken}
  /\ \A i \in 1 .. N : calls[i] = "none" <=> i > LastTaken \/ i = taken

\* The wait group counts the values sent whose goroutine is not through.
GroupCounts ==
  wg = Cardinality(Active) + Len(idxCh) + (IF taken = 0 THEN 0 ELSE 1)

\* A token is in the pool or with a goroutine.
TokensKept ==
  IF caller = "off" THEN workerPool = 0 /\ Holders = {}
  ELSE workerPool + Cardinality(Holders) = N

\* When the channels are closed nothing is under way.
ClosedAtTheEnd ==
  /\ closed <=> caller = "returned"
  /\ closed => Active = {} /\ idxCh = <<>> /\ taken = 0
  /\ \A i \in 1 .. N : calls[i] # "panic"

BatchInv == BatchTypes /\ InOrder /\ GroupCounts /\ TokensKept /\ ClosedAtTheEnd

-----------------------------------------------------------------------------
LEMMA ActiveFinite ==
  /\ IsFiniteSet(Active) /\ Cardinality(Active) \in Nat
  /\ IsFiniteSet(Holders) /\ Cardinality(Holders) \in Nat
<1>1. IsFiniteSet(1 .. N)
  BY FS_Interval, BatchAssumption
<1>2. Active \in SUBSET (1 .. N) /\ Holders \in SUBSET (1 .. N)
  BY DEF Active, Holders
<1>. QED
  BY <1>1, <1>2, FS_Subset, FS_CardinalityType

LEMMA BatchInvInit == BatchInit => BatchInv
<1>. SUFFICES ASSUME BatchInit PROVE BatchInv
  OBVIOUS
<1>1. Active = {} /\ Holders = {}
  BY DEF BatchInit, Active, Holders
<1>2. Cardinality({}) = 0
  BY FS_EmptySet
<1>3. BatchTypes
  <2>1. idxCh \in Seq(1 .. N) /\ 0 \in 0 .. N /\ 0 \in Int
    BY BatchAssumption DEF BatchInit
  <2>2. calls \in [1 .. N -> CallStates]
    BY DEF BatchInit, CallStates
  <2>. QED
    BY <2>1, <2>2 DEF BatchTypes, BatchInit
<1>4. InOrder
  BY BatchAssumption DEF InOrder, LastTaken, BatchInit
<1>. QED
  BY <1>1, <1>2, <1>3, <1>4
     DEF BatchInv, BatchInit, GroupCounts, TokensKept, ClosedAtTheEnd

\* A process that dies leaves what BatchInit starts from.
LEMMA BatchInvGone == BatchGone => BatchInv'
<1>. SUFFICES ASSUME BatchGone PROVE BatchInv'
  OBVIOUS
<1>1. Active' = {} /\ Holders' = {}
  BY DEF BatchGone, Active, Holders
<1>2. Cardinality({}) = 0
  BY FS_EmptySet
<1>3. BatchTypes'
  <2>1. idxCh' \in Seq(1 .. N) /\ 0 \in 0 .. N /\ 0 \in Int
    BY BatchAssumption DEF BatchGone
  <2>2. calls' \in [1 .. N -> CallStates]
    BY DEF BatchGone, CallStates
  <2>. QED
    BY <2>1, <2>2 DEF BatchTypes, BatchGone
<1>4. InOrder'
  BY BatchAssumption DEF InOrder, LastTaken, BatchGone
<1>. QED
  BY <1>1, <1>2, <1>3, <1>4
     DEF BatchInv, BatchGone, GroupCounts, TokensKept, ClosedAtTheEnd

LEMMA BatchInvSame == BatchInv /\ UNCHANGED batchVars => BatchInv'
  BY DEF BatchInv, batchVars, BatchTypes, InOrder, LastTaken, GroupCounts, TokensKept,
         ClosedAtTheEnd, Active, Holders

-----------------------------------------------------------------------------
\* The steps of the caller.

LEMMA CallStep == BatchInv /\ CallBatchExec => BatchInv'
<1>. SUFFICES ASSUME BatchInv, CallBatchExec PROVE BatchInv'
  OBVIOUS
<1>. USE DEF BatchInv, CallBatchExec
<1>1. Active' = Active /\ Holders' = Holders
  BY DEF Active, Holders
<1>2. Cardinality({}) = 0
  BY FS_EmptySet
<1>3. BatchTypes'
  BY BatchAssumption DEF BatchTypes
<1>4. InOrder'
  BY DEF InOrder, LastTaken
<1>5. GroupCounts' /\ ClosedAtTheEnd'
  BY <1>1 DEF GroupCounts, ClosedAtTheEnd
<1>6. TokensKept'
  BY <1>1, <1>2, BatchAssumption DEF TokensKept
<1>. QED
  BY <1>3, <1>4, <1>5, <1>6

LEMMA SendStep == BatchInv /\ SendIndex => BatchInv'
<1>. SUFFICES ASSUME BatchInv, SendIndex PROVE BatchInv'
  OBVIOUS
<1>. USE DEF BatchInv, SendIndex
<1>1. Active' = Active /\ Holders' = Holders
  BY DEF Active, Holders
<1>2. CASE sent = N
  BY <1>1, <1>2 DEF BatchTypes, InOrder, LastTaken, GroupCounts, TokensKept, ClosedAtTheEnd
<1>3. CASE sent # N
  <2>1. idxCh' = Append(idxCh, sent + 1) /\ sent + 1 \in 1 .. N /\ sent' = sent + 1
    BY <1>3, BatchAssumption DEF BatchTypes
  <2>2. /\ idxCh' \in Seq(1 .. N) /\ Len(idxCh') = Len(idxCh) + 1
        /\ \A k \in 1 .. Len(idxCh) : idxCh'[k] = idxCh[k]
        /\ idxCh'[Len(idxCh) + 1] = sent + 1
    BY <2>1 DEF BatchTypes
  <2>3. BatchTypes'
    BY <1>3, <2>1, <2>2 DEF BatchTypes
  <2>4. LastTaken' = LastTaken /\ Len(idxCh) \in Nat
    BY <2>1, <2>2 DEF LastTaken, BatchTypes
  <2>5. \A k \in 1 .. Len(idxCh') : idxCh'[k] = LastTaken' + k
    <3>. TAKE k \in 1 .. Len(idxCh')
    <3>1. CASE k \in 1 .. Len(idxCh)
      BY <2>2, <2>4, <3>1 DEF InOrder
    <3>2. CASE k = Len(idxCh) + 1
      BY <2>1, <2>2, <2>4, <3>2 DEF LastTaken, BatchTypes
    <3>. QED
      BY <2>2, <2>4, <3>1, <3>2
  <2>6. InOrder'
    BY <2>1, <2>2, <2>4, <2>5 DEF InOrder, BatchTypes
  <2>7. GroupCounts'
    BY <1>1, <1>3, <2>2, ActiveFinite DEF GroupCounts, BatchTypes
  <2>8. TokensKept' /\ ClosedAtTheEnd'
    BY <1>1, <1>3 DEF TokensKept, ClosedAtTheEnd
  <2>. QED
    BY <2>3, <2>6, <2>7, <2>8
<1>. QED
  BY <1>2, <1>3

LEMMA ReturnStep == BatchInv /\ BatchExecReturns => BatchInv'
<1>. SUFFICES ASSUME BatchInv, BatchExecReturns PROVE BatchInv'
  OBVIOUS
<1>. USE DEF BatchInv, BatchExecReturns
<1>1. Active' = Active /\ Holders' = Holders
  BY DEF Active, Holders
<1>2. Len(idxCh) \in Nat /\ Cardinality(Active) \in Nat
  BY ActiveFinite DEF BatchTypes
<1>3. Cardinality(Active) = 0 /\ Len(idxCh) = 0 /\ taken = 0
  BY <1>2 DEF GroupCounts
<1>4. Active = {} /\ idxCh = <<>>
  BY <1>3, ActiveFinite, FS_EmptySet DEF BatchTypes
<1>. QED
  BY <1>1, <1>3, <1>4
     DEF BatchTypes, InOrder, LastTaken, GroupCounts, TokensKept, ClosedAtTheEnd

-----------------------------------------------------------------------------
\* The steps of the dispatcher.

LEMMA TakeIndexStep == BatchInv /\ TakeIndex => BatchInv'
<1>. SUFFICES ASSUME BatchInv, TakeIndex PROVE BatchInv'
  OBVIOUS
<1>. USE DEF BatchInv, TakeIndex
<1>1. Active' = Active /\ Holders' = Holders
  BY DEF Active, Holders
<1>2. Len(idxCh) \in Nat /\ Len(idxCh) > 0
  BY DEF BatchTypes
<1>3. /\ idxCh' \in Seq(1 .. N) /\ Len(idxCh') = Len(idxCh) - 1
      /\ \A k \in 1 .. Len(idxCh') : idxCh'[k] = idxCh[k + 1]
      /\ taken' = idxCh[1] /\ taken' \in 1 .. N
  <2>1. idxCh \in Seq(1 .. N) /\ idxCh # <<>>
    BY DEF BatchTypes
  <2>2. Head(idxCh) = idxCh[1]
    BY <2>1
  <2>. QED
    BY <2>1, <2>2, HeadTailProperties
<1>4. LastTaken' = LastTaken + 1 /\ taken' = LastTaken'
  BY <1>2, <1>3 DEF LastTaken, InOrder, BatchTypes
<1>5. BatchTypes'
  BY <1>3, BatchAssumption DEF BatchTypes
<1>6. InOrder'
  <2>1. \A k \in 1 .. Len(idxCh') : idxCh'[k] = LastTaken' + k
    BY <1>2, <1>3, <1>4 DEF InOrder, LastTaken, BatchTypes
  <2>2. \A i \in 1 .. N : calls'[i] = "none" <=> i > LastTaken' \/ i = taken'
    BY <1>2, <1>4, BatchAssumption DEF InOrder, LastTaken, BatchTypes
  <2>. QED
    BY <1>2, <1>3, <1>4, <2>1, <2>2 DEF InOrder, BatchTypes
<1>7. GroupCounts'
  BY <1>1, <1>2, <1>3, ActiveFinite DEF GroupCounts, BatchTypes
<1>8. TokensKept' /\ ClosedAtTheEnd'
  BY <1>1 DEF TokensKept, ClosedAtTheEnd
<1>. QED
  BY <1>5, <1>6, <1>7, <1>8

LEMMA TakeTokenStep == BatchInv /\ TakeToken => BatchInv'
<1>. SUFFICES ASSUME BatchInv, TakeToken PROVE BatchInv'
  OBVIOUS
<1>. USE DEF BatchInv, TakeToken
<1>1. taken \in 1 .. N /\ taken = LastTaken /\ calls[taken] = "none"
  BY BatchAssumption DEF BatchTypes, InOrder
<1>2. BatchTypes'
  BY <1>1, BatchAssumption DEF BatchTypes, CallStates
<1>3. LastTaken' = LastTaken /\ LastTaken \in Int
  BY DEF LastTaken, BatchTypes
<1>4. InOrder'
  <2>1. \A i \in 1 .. N : calls'[i] = "none" <=> i > LastTaken' \/ i = taken'
    BY <1>1, <1>3, BatchAssumption DEF InOrder, BatchTypes
  <2>. QED
    BY <1>3, <2>1 DEF InOrder
<1>5. /\ Active' = Active \cup {taken} /\ taken \notin Active
      /\ Holders' = Holders \cup {taken} /\ taken \notin Holders
  BY <1>1 DEF Active, Holders, BatchTypes
<1>6. /\ Cardinality(Active') = Cardinality(Active) + 1
      /\ Cardinality(Holders') = Cardinality(Holders) + 1
  BY <1>5, ActiveFinite, FS_AddElement
<1>7. Len(idxCh) \in Nat
  BY DEF BatchTypes
<1>8. GroupCounts'
  BY <1>6, <1>7, ActiveFinite DEF GroupCounts
<1>9. TokensKept'
  BY <1>6, ActiveFinite, BatchAssumption DEF TokensKept, BatchTypes
<1>10. ClosedAtTheEnd'
  BY <1>1 DEF ClosedAtTheEnd, BatchTypes
<1>. QED
  BY <1>2, <1>4, <1>8, <1>9, <1>10

-----------------------------------------------------------------------------
\* The steps of the goroutine of one value.

\* They change calls[i] to another place that is not "none".
LEMMA PlaceOfCall ==
  ASSUME BatchInv, NEW i \in 1 .. N, NEW place \in CallStates \ {"none", "panic"},
         calls[i] # "none", calls' = [calls EXCEPT ![i] = place],
         UNCHANGED <<caller, sent, idxCh, taken, closed>>
  PROVE  /\ calls' \in [1 .. N -> CallStates]
         /\ InOrder'
         /\ \A j \in 1 .. N : calls'[j] # "panic"
  BY DEF BatchInv, BatchTypes, InOrder, LastTaken, ClosedAtTheEnd

LEMMA FnStep == ASSUME NEW i \in 1 .. N PROVE BatchInv /\ FnReturns(i) => BatchInv'
<1>. SUFFICES ASSUME BatchInv, FnReturns(i) PROVE BatchInv'
  OBVIOUS
<1>. USE DEF FnReturns
<1>1. Active' = Active /\ Holders' = Holders
  BY DEF Active, Holders, BatchInv, BatchTypes
<1>2. calls' \in [1 .. N -> CallStates] /\ InOrder' /\ \A j \in 1 .. N : calls'[j] # "panic"
  BY PlaceOfCall DEF CallStates
<1>. QED
  BY <1>1, <1>2 DEF BatchInv, BatchTypes, GroupCounts, TokensKept, ClosedAtTheEnd

LEMMA PutStep == ASSUME NEW i \in 1 .. N PROVE BatchInv /\ PutToken(i) => BatchInv'
<1>. SUFFICES ASSUME BatchInv, PutToken(i) PROVE BatchInv'
  OBVIOUS
<1>1. i \in Active /\ i \in Holders
  BY DEF PutToken, Active, Holders
<1>2. ~closed
  BY <1>1 DEF BatchInv, ClosedAtTheEnd
<1>3. /\ calls' = [calls EXCEPT ![i] = "done"] /\ workerPool' = workerPool + 1
      /\ calls[i] = "put" /\ UNCHANGED <<caller, sent, idxCh, taken, closed, wg>>
  BY <1>2 DEF PutToken
<1>4. Active' = Active /\ Holders' = Holders \ {i}
  BY <1>3 DEF Active, Holders, BatchInv, BatchTypes
<1>5. calls' \in [1 .. N -> CallStates] /\ InOrder' /\ \A j \in 1 .. N : calls'[j] # "panic"
  BY <1>3, PlaceOfCall DEF CallStates
<1>6. Cardinality(Holders') = Cardinality(Holders) - 1
  BY <1>1, <1>4, ActiveFinite, FS_RemoveElement
<1>7. TokensKept'
  <2>1. workerPool \in Int /\ Holders # {} /\ N \in Nat
    BY <1>1, BatchAssumption DEF BatchInv, BatchTypes
  <2>2. caller # "off" /\ workerPool + Cardinality(Holders) = N
    BY <2>1 DEF BatchInv, TokensKept
  <2>3. workerPool' + Cardinality(Holders') = N
    BY <1>3, <1>6, <2>1, <2>2, ActiveFinite
  <2>. QED
    BY <1>3, <2>2, <2>3 DEF TokensKept
<1>. QED
  BY <1>3, <1>4, <1>5, <1>7 DEF BatchInv, BatchTypes, GroupCounts, ClosedAtTheEnd

LEMMA DoneStep == ASSUME NEW i \in 1 .. N PROVE BatchInv /\ WgDone(i) => BatchInv'
<1>. SUFFICES ASSUME BatchInv, WgDone(i) PROVE BatchInv'
  OBVIOUS
<1>. USE DEF WgDone
<1>1. i \in Active /\ Active' = Active \ {i} /\ Holders' = Holders
  BY DEF Active, Holders, BatchInv, BatchTypes
<1>2. calls' \in [1 .. N -> CallStates] /\ InOrder' /\ \A j \in 1 .. N : calls'[j] # "panic"
  BY PlaceOfCall DEF CallStates
<1>3. Cardinality(Active') = Cardinality(Active) - 1
  BY <1>1, ActiveFinite, FS_RemoveElement
<1>4. GroupCounts' /\ wg' \in Int
  <2>1. Len(idxCh) \in Nat /\ wg \in Int
    BY DEF BatchInv, BatchTypes
  <2>. QED
    BY <1>3, <2>1, ActiveFinite DEF BatchInv, GroupCounts
<1>. QED
  BY <1>1, <1>2, <1>4 DEF BatchInv, BatchTypes, TokensKept, ClosedAtTheEnd

\* A step of a batch keeps what it started from.
LEMMA BatchInvStep == BatchInv /\ (CallBatchExec \/ BatchStep) => BatchInv'
  BY CallStep, SendStep, ReturnStep, TakeIndexStep, TakeTokenStep, FnStep, PutStep, DoneStep
     DEF BatchStep

\* The invariant gives the types, the counter and the pool among them.
LEMMA BatchInvTypes == BatchInv => BatchTypeOK
<1>. SUFFICES ASSUME BatchInv PROVE BatchTypeOK
  OBVIOUS
<1>1. workerPool \in 0 .. N
  <2>1. CASE caller = "off"
    BY <2>1, BatchAssumption DEF BatchInv, TokensKept
  <2>2. CASE caller # "off"
    <3>1. Holders \in SUBSET (1 .. N)
      BY DEF Holders
    <3>2. IsFiniteSet(1 .. N) /\ Cardinality(1 .. N) = N
      BY FS_Interval, BatchAssumption
    <3>3. Cardinality(Holders) <= N
      BY <3>1, <3>2, FS_Subset
    <3>. QED
      BY <2>2, <3>3, ActiveFinite, BatchAssumption DEF BatchInv, BatchTypes, TokensKept
  <2>. QED
    BY <2>1, <2>2
<1>. QED
  BY <1>1 DEF BatchInv, BatchTypes, GroupCounts, BatchTypeOK

-----------------------------------------------------------------------------

StartTypes ==
  /\ natsUp \in BOOLEAN
  /\ found \in [Things -> Configs]
  /\ at \in [Routines -> Places]
  /\ caller # "off" => at[Main(Worker)] = "batch"

\* Both routines of a backend live and die together.
HalvesTogether ==
  \A b \in Backends :
    at[Starter(b)] # "down" <=> at[Main(b)] \in {"listen", "serving"}

\* What a routine has been through is on the server.
HasPassed ==
  /\ \A b \in Backends :
       /\ at[Starter(b)] \in {"consumer", "updateConsumer", "subscribe", "consuming"} =>
            found["stream"] = "ours"
       /\ at[Starter(b)] \in {"subscribe", "consuming"} => found["consumer"] = "ours"
       /\ at[Main(b)] \in {"listen", "serving"} => found["bucket"] # "none"
  /\ at[Main(Worker)] = "batch" => found["stream"] = "ours"

StartInv == StartTypes /\ HalvesTogether /\ HasPassed

-----------------------------------------------------------------------------
LEMMA RoutinesApart ==
  /\ \A p \in Processes : Main(p) \in Routines
  /\ \A b \in Backends : Starter(b) \in Routines
  /\ \A p, q \in Processes : Main(p) = Main(q) => p = q
  /\ \A a, b \in Backends : Starter(a) = Starter(b) => a = b
  /\ \A p \in Processes, b \in Backends : Main(p) # Starter(b)
  /\ \A p : Main(p)[1] = p /\ Starter(p)[1] = p
  /\ Worker \in Processes /\ Backends \subseteq Processes /\ Worker \notin Backends
  BY WorkerAssumption DEF Routines, Main, Starter, Processes

LEMMA StartInvInit == Init => StartInv
<1>. SUFFICES ASSUME Init PROVE StartInv
  OBVIOUS
<1>1. at \in [Routines -> Places] /\ \A r \in Routines : at[r] = "down"
  BY DEF Init, Places
<1>2. at[Main(Worker)] = "down" /\ \A b \in Backends : at[Main(b)] = "down" /\ at[Starter(b)] = "down"
  BY <1>1, RoutinesApart
<1>3. caller = "off"
  BY DEF Init, BatchInit
<1>. QED
  BY <1>1, <1>2, <1>3 DEF Init, StartInv, StartTypes, HalvesTogether, HasPassed

\* Nothing that was set up is taken away.
Grows == \A t \in Things : found'[t] = found[t] \/ found'[t] = "ours"

LEMMA ThingsOf == "stream" \in Things /\ "consumer" \in Things /\ "bucket" \in Things
  BY DEF Things

-----------------------------------------------------------------------------
\* The steps.

LEMMA DiesStep ==
  ASSUME StartInv, NEW p \in Processes, Dies(p)
  PROVE  StartInv'
<1>1. /\ at' \in [Routines -> Places]
      /\ \A r \in Routines : at'[r] = IF r[1] = p THEN "down" ELSE at[r]
  BY DEF StartInv, StartTypes, Dies, Places
<1>2. \A q \in Processes : at'[Main(q)] = IF q = p THEN "down" ELSE at[Main(q)]
  BY <1>1, RoutinesApart
<1>3. \A b \in Backends : at'[Starter(b)] = IF b = p THEN "down" ELSE at[Starter(b)]
  BY <1>1, RoutinesApart
<1>4. caller' = IF p = Worker THEN "off" ELSE caller
  BY DEF Dies, BatchGone, batchVars
<1>5. natsUp' = natsUp /\ found' = found
  BY DEF Dies
<1>6. StartTypes'
  BY <1>1, <1>2, <1>4, <1>5, RoutinesApart DEF StartInv, StartTypes
<1>7. HalvesTogether'
  BY <1>2, <1>3, RoutinesApart DEF StartInv, HalvesTogether
<1>8. HasPassed'
  BY <1>2, <1>3, <1>5, RoutinesApart DEF StartInv, HasPassed
<1>. QED
  BY <1>6, <1>7, <1>8 DEF StartInv

\* A routine that goes somewhere else, what it created being there; the places
\* a backend's main routine and its starter need each other in are left out.
LEMMA GoesStep ==
  ASSUME StartInv, NEW r \in Routines, NEW place \in Places, Goes(r, place),
         caller' = caller, r # Main(Worker) \/ at[r] # "batch" \/ place = "batch",
         found' \in [Things -> Configs], Grows
  PROVE  /\ StartTypes'
         /\ \A q \in Routines : at'[q] = IF q = r THEN place ELSE at[q]
<1>1. /\ at' \in [Routines -> Places] /\ natsUp' = natsUp
      /\ \A q \in Routines : at'[q] = IF q = r THEN place ELSE at[q]
  BY DEF StartInv, StartTypes, Goes
<1>2. caller' # "off" => at'[Main(Worker)] = "batch"
  BY <1>1, RoutinesApart DEF StartInv, StartTypes
<1>. QED
  BY <1>1, <1>2 DEF StartInv, StartTypes

\* The main routine of p before it builds anything, and the listener.
LEMMA MainStep ==
  ASSUME StartInv, NEW p \in Processes, NEW place \in Places, Goes(Main(p), place),
         caller' = caller, found' \in [Things -> Configs], Grows,
         at[Main(p)] # "batch",
         IF at[Main(p)] = "listen" THEN place = "serving"
         ELSE at[Main(p)] # "serving" /\ place \notin {"listen", "serving"},
         place = "batch" => p # Worker \/ found'["stream"] = "ours"
  PROVE  StartInv'
<1>1. Main(p) \in Routines
  BY RoutinesApart
<1>2. StartTypes' /\ \A q \in Routines : at'[q] = IF q = Main(p) THEN place ELSE at[q]
  BY <1>1, GoesStep
<1>3. \A q \in Processes : at'[Main(q)] = IF q = p THEN place ELSE at[Main(q)]
  BY <1>2, RoutinesApart
<1>4. \A b \in Backends : at'[Starter(b)] = at[Starter(b)]
  BY <1>2, RoutinesApart
<1>5. HalvesTogether'
  BY <1>3, <1>4, RoutinesApart DEF StartInv, HalvesTogether
<1>6. HasPassed'
  <2>1. /\ found["stream"] = "ours" => found'["stream"] = "ours"
        /\ found["consumer"] = "ours" => found'["consumer"] = "ours"
        /\ found["bucket"] # "none" => found'["bucket"] # "none"
    BY ThingsOf DEF Grows
  <2>2. \A b \in Backends : at'[Main(b)] \in {"listen", "serving"} => at[Main(b)] \in {"listen", "serving"}
    BY <1>3, RoutinesApart
  <2>3. at'[Main(Worker)] = "batch" => found'["stream"] = "ours"
    BY <1>3, <2>1, RoutinesApart DEF StartInv, HasPassed
  <2>. QED
    BY <1>4, <2>1, <2>2, <2>3 DEF StartInv, HasPassed
<1>. QED
  BY <1>2, <1>5, <1>6 DEF StartInv

\* The starter of b after it began.
LEMMA StarterStep ==
  ASSUME StartInv, NEW b \in Backends, NEW place \in Places \ {"down"},
         Goes(Starter(b), place), at[Starter(b)] # "down",
         caller' = caller, found' \in [Things -> Configs], Grows,
         place \in {"consumer", "updateConsumer", "subscribe", "consuming"} =>
           found'["stream"] = "ours",
         place \in {"subscribe", "consuming"} => found'["consumer"] = "ours"
  PROVE  StartInv'
<1>1. Starter(b) \in Routines /\ Starter(b) # Main(Worker)
  BY RoutinesApart
<1>2. StartTypes' /\ \A q \in Routines : at'[q] = IF q = Starter(b) THEN place ELSE at[q]
  BY <1>1, GoesStep
<1>3. \A q \in Processes : at'[Main(q)] = at[Main(q)]
  BY <1>2, RoutinesApart
<1>4. \A a \in Backends : at'[Starter(a)] = IF a = b THEN place ELSE at[Starter(a)]
  BY <1>2, RoutinesApart
<1>5. HalvesTogether'
  BY <1>3, <1>4, RoutinesApart DEF StartInv, HalvesTogether
<1>6. HasPassed'
  <2>1. /\ found["stream"] = "ours" => found'["stream"] = "ours"
        /\ found["consumer"] = "ours" => found'["consumer"] = "ours"
        /\ found["bucket"] # "none" => found'["bucket"] # "none"
    BY ThingsOf DEF Grows
  <2>2. Worker \in Processes /\ Backends \subseteq Processes
    BY RoutinesApart
  <2>. QED
    BY <1>3, <1>4, <2>1, <2>2 DEF StartInv, HasPassed
<1>. QED
  BY <1>2, <1>5, <1>6 DEF StartInv

LEMMA BuiltStep ==
  ASSUME StartInv, NEW b \in Backends, Built(b), at[Main(b)] \in {"bucket", "createBucket"},
         found' \in [Things -> Configs], Grows, found'["bucket"] # "none"
  PROVE  StartInv'
<1>1. /\ at' \in [Routines -> Places]
      /\ \A r \in Routines : at'[r] = IF r = Starter(b) THEN "stream"
                                      ELSE IF r = Main(b) THEN "listen" ELSE at[r]
  BY RoutinesApart DEF StartInv, StartTypes, Built, Places
<1>2. /\ \A q \in Processes : at'[Main(q)] = IF q = b THEN "listen" ELSE at[Main(q)]
      /\ \A a \in Backends : at'[Starter(a)] = IF a = b THEN "stream" ELSE at[Starter(a)]
  BY <1>1, RoutinesApart
<1>3. at'[Main(Worker)] = at[Main(Worker)] /\ caller' = caller /\ natsUp' = natsUp
  BY <1>2, RoutinesApart DEF Built, batchVars
<1>4. StartTypes'
  BY <1>1, <1>3 DEF StartInv, StartTypes
<1>5. HalvesTogether'
  BY <1>2, RoutinesApart DEF StartInv, HalvesTogether
<1>6. HasPassed'
  <2>1. /\ found["stream"] = "ours" => found'["stream"] = "ours"
        /\ found["consumer"] = "ours" => found'["consumer"] = "ours"
        /\ found["bucket"] # "none" => found'["bucket"] # "none"
    BY ThingsOf DEF Grows
  <2>. QED
    BY <1>2, <1>3, <2>1, RoutinesApart DEF StartInv, HasPassed
<1>. QED
  BY <1>4, <1>5, <1>6 DEF StartInv

-----------------------------------------------------------------------------
LEMMA ThingAdded ==
  ASSUME StartInv, NEW r, NEW thing \in Things, NEW update, NEW next,
         CreateOrUpdate(r, thing, update, next)
  PROVE  /\ found' \in [Things -> Configs] /\ Grows
         /\ \/ at[r] = thing /\ Goes(r, update)
            \/ at[r] \in {thing, update} /\ Goes(r, next) /\ found'[thing] = "ours"
  BY DEF StartInv, StartTypes, CreateOrUpdate, Add, Update, Grows, Configs

LEMMA StreamStep ==
  ASSUME StartInv, NEW r \in Routines, CreateOrUpdateStream(r)
  PROVE  StartInv'
<1>. DEFINE next == IF r = Main(Worker) THEN "batch" ELSE "consumer"
<1>1. /\ found' \in [Things -> Configs] /\ Grows
      /\ \/ at[r] = "stream" /\ Goes(r, "updateStream")
         \/ at[r] \in {"stream", "updateStream"} /\ Goes(r, next) /\ found'["stream"] = "ours"
  BY ThingAdded, ThingsOf DEF CreateOrUpdateStream
<1>2. caller' = caller
  BY DEF CreateOrUpdateStream, batchVars
<1>3. {"updateStream", "consumer", "batch"} \subseteq Places
  BY DEF Places
<1>4. ASSUME NEW p \in Processes, r = Main(p) PROVE StartInv'
  <2>1. CASE at[r] = "stream" /\ Goes(r, "updateStream")
    BY <1>1, <1>2, <1>3, <1>4, <2>1, MainStep
  <2>2. CASE at[r] \in {"stream", "updateStream"} /\ Goes(r, next) /\ found'["stream"] = "ours"
    BY <1>1, <1>2, <1>3, <1>4, <2>2, MainStep
  <2>. QED
    BY <1>1, <2>1, <2>2
<1>5. ASSUME NEW b \in Backends, r = Starter(b) PROVE StartInv'
  <2>1. next = "consumer"
    BY <1>5, RoutinesApart
  <2>2. CASE at[r] = "stream" /\ Goes(r, "updateStream")
    BY <1>1, <1>2, <1>3, <1>5, <2>2, StarterStep
  <2>3. CASE at[r] \in {"stream", "updateStream"} /\ Goes(r, next) /\ found'["stream"] = "ours"
    BY <1>1, <1>2, <1>3, <1>5, <2>1, <2>3, StarterStep
  <2>. QED
    BY <1>1, <2>2, <2>3
<1>. QED
  BY <1>4, <1>5 DEF Routines

LEMMA ConsumerStep ==
  ASSUME StartInv, NEW b \in Backends, CreateOrUpdateConsumer(b)
  PROVE  StartInv'
<1>1. /\ found' \in [Things -> Configs] /\ Grows
      /\ \/ at[Starter(b)] = "consumer" /\ Goes(Starter(b), "updateConsumer")
         \/ /\ at[Starter(b)] \in {"consumer", "updateConsumer"}
            /\ Goes(Starter(b), "subscribe") /\ found'["consumer"] = "ours"
  BY ThingAdded, ThingsOf DEF CreateOrUpdateConsumer
<1>2. found'["stream"] = "ours"
  BY <1>1, ThingsOf DEF StartInv, HasPassed, Grows
<1>3. caller' = caller
  BY DEF CreateOrUpdateConsumer, batchVars
<1>4. {"updateConsumer", "subscribe"} \subseteq Places
  BY DEF Places
<1>. QED
  BY <1>1, <1>2, <1>3, <1>4, StarterStep

LEMMA SubscribeStep ==
  ASSUME StartInv, NEW b \in Backends, QueueSubscribe(b)
  PROVE  StartInv'
<1>1. /\ at[Starter(b)] = "subscribe" /\ Goes(Starter(b), "consuming")
      /\ found' = found /\ caller' = caller
  BY DEF QueueSubscribe, batchVars
<1>2. found["stream"] = "ours" /\ found["consumer"] = "ours"
  BY <1>1 DEF StartInv, HasPassed
<1>3. found' \in [Things -> Configs] /\ Grows /\ "consuming" \in Places
  BY <1>1 DEF StartInv, StartTypes, Grows, Places
<1>. QED
  BY <1>1, <1>2, <1>3, StarterStep

LEMMA BucketStep ==
  ASSUME StartInv, NEW b \in Backends, AttachBucket(b) \/ CreateBucket(b)
  PROVE  StartInv'
<1>1. b \in Processes /\ b # Worker
  BY RoutinesApart
<1>2. CASE AttachBucket(b) /\ found["bucket"] = "none"
  <2>1. /\ at[Main(b)] = "bucket" /\ Goes(Main(b), "createBucket")
        /\ found' = found /\ caller' = caller
    BY <1>2 DEF AttachBucket, batchVars
  <2>2. found' \in [Things -> Configs] /\ Grows /\ "createBucket" \in Places
    BY <2>1 DEF StartInv, StartTypes, Grows, Places
  <2>. QED
    BY <1>1, <2>1, <2>2, MainStep
<1>3. CASE AttachBucket(b) /\ found["bucket"] # "none"
  <2>1. at[Main(b)] = "bucket" /\ Built(b) /\ found' = found
    BY <1>3 DEF AttachBucket
  <2>2. found' \in [Things -> Configs] /\ Grows /\ found'["bucket"] # "none"
    BY <1>3, <2>1 DEF StartInv, StartTypes, Grows
  <2>. QED
    BY <2>1, <2>2, BuiltStep
<1>4. CASE CreateBucket(b)
  <2>1. at[Main(b)] = "createBucket" /\ Built(b) /\ found' = [found EXCEPT !["bucket"] = "ours"]
    BY <1>4 DEF CreateBucket
  <2>2. found' \in [Things -> Configs] /\ Grows /\ found'["bucket"] # "none"
    BY <2>1, ThingsOf DEF StartInv, StartTypes, Grows, Configs
  <2>. QED
    BY <2>1, <2>2, BuiltStep
<1>. QED
  BY <1>2, <1>3, <1>4

LEMMA ConnectStep ==
  ASSUME StartInv, NEW p \in Processes, Start(p) \/ StartRefused(p) \/ SelectTicker(p)
  PROVE  StartInv'
<1>1. PICK next \in {"down", "connect", "signal", "stream", "bucket"} :
        /\ at[Main(p)] \in {"down", "connect"} /\ Goes(Main(p), next)
        /\ found' = found /\ caller' = caller
  BY DEF Start, StartRefused, SelectTicker, Goes, batchVars
<1>2. found' \in [Things -> Configs] /\ Grows /\ next \in Places
  BY <1>1 DEF StartInv, StartTypes, Grows, Places
<1>. QED
  BY <1>1, <1>2, MainStep

LEMMA ListenStep ==
  ASSUME StartInv, NEW b \in Backends, Listen(b)
  PROVE  StartInv'
<1>1. /\ at[Main(b)] = "listen" /\ Goes(Main(b), "serving")
      /\ found' = found /\ caller' = caller
  BY DEF Listen, batchVars
<1>2. found' \in [Things -> Configs] /\ Grows /\ "serving" \in Places /\ b \in Processes
  BY <1>1, RoutinesApart DEF StartInv, StartTypes, Grows, Places
<1>. QED
  BY <1>1, <1>2, MainStep

\* The steps of the batch happen only at "batch", and the caller is never off
\* after one.
LEMMA InBatch ==
  ASSUME StartInv, Batch
  PROVE  StartInv'
<1>1. at' = at /\ found' = found /\ natsUp' = natsUp /\ at[Main(Worker)] = "batch"
  BY DEF Batch, startVars
<1>. QED
  BY <1>1 DEF StartInv, StartTypes, HalvesTogether, HasPassed

LEMMA Unmoved ==
  ASSUME StartInv, UNCHANGED <<found, at, batchVars>>, natsUp' \in BOOLEAN
  PROVE  StartInv'
  BY DEF StartInv, StartTypes, HalvesTogether, HasPassed, batchVars

\* What one routine does by itself.
LEMMA RoutineInv ==
  ASSUME StartInv, NEW r \in Routines, RoutineStep(r)
  PROVE  StartInv'
<1>1. \A q \in Routines : q[1] \in Processes
  BY RoutinesApart DEF Routines
<1>2. ASSUME CallFails(r) PROVE StartInv'
  BY <1>1, <1>2, DiesStep DEF CallFails
<1>3. ASSUME NEW p \in Processes, SelectTicker(p) \/ SelectTimer(p)
      PROVE  StartInv'
  BY <1>3, ConnectStep, DiesStep DEF SelectTimer
<1>4. ASSUME NEW b \in Backends,
             AttachBucket(b) \/ CreateBucket(b) \/ Listen(b) \/ ListenFails(b)
      PROVE  StartInv'
  BY <1>4, BucketStep, ListenStep, DiesStep, RoutinesApart DEF ListenFails
<1>5. ASSUME NEW b \in Backends, CreateOrUpdateConsumer(b) \/ QueueSubscribe(b)
      PROVE  StartInv'
  BY <1>5, ConsumerStep, SubscribeStep
<1>. QED
  BY <1>2, <1>3, <1>4, <1>5, StreamStep DEF RoutineStep

LEMMA StartInvStep == StartInv /\ [Next]_vars => StartInv'
<1>. SUFFICES ASSUME StartInv, [Next]_vars PROVE StartInv'
  OBVIOUS
<1>1. CASE NatsStarts \/ NatsStops \/ UNCHANGED vars
  BY <1>1, Unmoved DEF NatsStarts, NatsStops, vars, startVars, StartInv, StartTypes
<1>2. CASE Batch
  BY <1>2, InBatch
<1>3. ASSUME NEW p \in Processes, Start(p) \/ StartRefused(p) \/ Stop(p) PROVE StartInv'
  BY <1>3, ConnectStep, DiesStep DEF Stop
<1>4. ASSUME NEW r \in Routines, RoutineStep(r) PROVE StartInv'
  BY <1>4, RoutineInv
<1>. QED
  BY <1>1, <1>2, <1>3, <1>4 DEF Next

\* Only the batch and the death of the worker touch the batch.
LEMMA BatchInvNext == BatchInv /\ [Next]_vars => BatchInv'
<1>. SUFFICES ASSUME BatchInv, [Next]_vars PROVE BatchInv'
  OBVIOUS
<1>1. \/ UNCHANGED batchVars \/ BatchGone \/ CallBatchExec \/ BatchStep
  BY DEF Next, vars, NatsStarts, NatsStops, Start, Stop, Dies, Batch, RoutineStep,
         SelectTicker, SelectTimer, StartRefused, CallFails, CreateOrUpdateStream,
         CreateOrUpdateConsumer, QueueSubscribe, AttachBucket, CreateBucket, Built,
         Listen, ListenFails
<1>. QED
  BY <1>1, BatchInvSame, BatchInvGone, BatchInvStep

-----------------------------------------------------------------------------
\* Types: the wait group's counter and the pool's tokens among them, and the
\* two routines of a backend that live and die together.
THEOREM StartTypeCorrect == Spec => []TypeOK
<1>1. StartInv /\ BatchInv => TypeOK
  BY BatchInvTypes DEF StartInv, StartTypes, HalvesTogether, TypeOK
<1>2. Init => BatchInv
  BY BatchInvInit DEF Init
<1>. QED
  BY <1>1, <1>2, StartInvInit, StartInvStep, BatchInvNext, PTL DEF Spec

\* Whatever was found on the server, a stream, a consumer and a bucket of an
\* earlier version included, a consumer that subscribed and a feed that runs
\* have the stream they declare, and the consumer its own configuration; a
\* backend that serves has a bucket, its own or the one that was found.
THEOREM SetUpBeforeUse == Spec => []WorksOnWhatItSetUp
<1>1. StartInv => WorksOnWhatItSetUp
  BY DEF StartInv, StartTypes, HasPassed, WorksOnWhatItSetUp
<1>. QED
  BY <1>1, StartInvInit, StartInvStep, PTL DEF Spec

\* BatchExec closes its channels when the last goroutine has put its token back.
THEOREM ChannelsCloseLast == Spec => []NoSendOnClosed
<1>1. BatchInv => NoSendOnClosed
  BY DEF BatchInv, ClosedAtTheEnd, NoSendOnClosed
<1>2. Init => BatchInv
  BY BatchInvInit DEF Init
<1>. QED
  BY <1>1, <1>2, BatchInvNext, PTL DEF Spec
=============================================================================
