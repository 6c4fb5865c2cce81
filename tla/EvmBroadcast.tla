---------------------------- MODULE EvmBroadcast ----------------------------
(***************************************************************************)
(* The asynchronous broadcaster of promoted EVM transactions               *)
(* (app/evm_broadcast.go).  The mempool calls broadcastEVMTransactions     *)
(* when it promotes transactions, mostly from inside Insert() and with the *)
(* mempool's mutex held; the call reserves the hashes it has not seen,     *)
(* hands them to a bounded queue and returns.  One worker submits them to  *)
(* CheckTx, which calls Insert() again, on the worker's own goroutine.     *)
(* App.Close stops the worker.                                             *)
(*                                                                         *)
(* A transaction is its hash.  The mempool and CheckTx are external: which *)
(* transactions a call promotes, and whether a submission fails before it  *)
(* reaches Insert(), is open.  Offline calls, duplicates within a batch, a *)
(* full queue, a panic of the worker and a Close in the middle of any call *)
(* are all modelled.                                                       *)
(***************************************************************************)
EXTENDS Integers, Sequences, Functions

CONSTANTS
  TxHashes,      \* transactions
  Callers,     \* goroutines that insert transactions or reset the mempool
  Worker,      \* the worker's goroutine, which inserts through CheckTx
  Nobody,        \* no goroutine: a free mutex
  QueueSize,   \* evmBroadcastQueueSize
  MaxBatch     \* bound: transactions promoted by one call

Threads == Callers \cup {Worker}

(* What one promotion may deliver.                                         *)
Batches == UNION {[1..n -> TxHashes] : n \in 1..MaxBatch}

ASSUME BroadcastAssumption ==
  /\ Worker \notin Callers /\ Nobody \notin Threads
  /\ QueueSize \in Nat \ {0} /\ MaxBatch \in Nat

VARIABLES
  mempoolMtx,   \* holder of the mempool's mutex (external)
  mtx,          \* holder of the dispatcher's mutex
  pending,      \* hashes reserved by the dispatcher
  queue,        \* channel of batches
  pc,           \* where each goroutine is in broadcastEVMTransactions
  txs,          \* transactions its call has still to look at
  filtered,     \* transactions its call has reserved
  worker,       \* "select", "process", "panicking" or "exited"
  batch,        \* batch the worker processes
  left,         \* transactions of it that are still to be submitted
  online,       \* has RegisterTxService set the client?
  stopping      \* Close: "no", "requested", or "returned" (dispatcher nil)

threadVars == <<pc, txs, filtered>>
workerVars == <<worker, batch, left>>
appVars    == <<online, stopping>>
broadcastVars == <<mempoolMtx, mtx, pending, queue, pc, txs, filtered, worker, batch,
          left, online, stopping>>

InitBroadcast ==
  /\ mempoolMtx = Nobody /\ mtx = Nobody
  /\ pending = {} /\ queue = <<>>
  /\ pc = [t \in Threads |-> "idle"]
  /\ txs = [t \in Threads |-> <<>>]
  /\ filtered = [t \in Threads |-> <<>>]
  /\ worker = "select" /\ batch = <<>> /\ left = <<>>
  /\ online = FALSE /\ stopping = "no"

(* A nil dereference in a goroutine of the mempool ends the process.       *)
Crashed == \E t \in Threads : pc[t] = "crashed"

Goto(t, l) == pc' = [pc EXCEPT ![t] = l]

-----------------------------------------------------------------------------
(* The mempool (external).                                                 *)

(* Insert() promotes the transactions b while it holds the mutex.          *)
Insert(c, b) ==
  /\ pc[c] = "idle" /\ mempoolMtx = Nobody
  /\ mempoolMtx' = c
  /\ Goto(c, "call") /\ txs' = [txs EXCEPT ![c] = b]
  /\ UNCHANGED <<mtx, pending, queue, filtered, workerVars, appVars>>

(* A reset after a new block promotes them without it.                     *)
Reset(c, b) ==
  /\ pc[c] = "idle"
  /\ Goto(c, "call") /\ txs' = [txs EXCEPT ![c] = b]
  /\ UNCHANGED <<mempoolMtx, mtx, pending, queue, filtered, workerVars, appVars>>

(* The callback is over; Insert() releases the mutex.                      *)
Return(t) ==
  /\ pc[t] = "return"
  /\ Goto(t, "idle")
  /\ mempoolMtx' = IF mempoolMtx = t THEN Nobody ELSE mempoolMtx
  /\ UNCHANGED <<mtx, pending, queue, txs, filtered, workerVars, appVars>>

-----------------------------------------------------------------------------
(* broadcastEVMTransactions and enqueue.                                   *)

(* The checks before enqueue: no client, or no dispatcher any more.        *)
Call(t) ==
  /\ pc[t] = "call"
  /\ Goto(t, IF ~online THEN "return"
             ELSE IF stopping = "returned" THEN "sync" ELSE "checked")
  /\ txs' = IF online THEN txs ELSE [txs EXCEPT ![t] = <<>>]
  /\ UNCHANGED <<mempoolMtx, mtx, pending, queue, filtered, workerVars, appVars>>

(* The fallback submits in the caller's goroutine.  A submission that      *)
(* reaches Insert() needs the mempool's mutex, which this goroutine may    *)
(* hold: nothing obliges this step to happen.                              *)
SyncTx(t) ==
  /\ pc[t] = "sync" /\ txs[t] # <<>>
  /\ txs' = [txs EXCEPT ![t] = Tail(@)]
  /\ Goto(t, IF Len(txs[t]) = 1 THEN "return" ELSE "sync")
  /\ UNCHANGED <<mempoolMtx, mtx, pending, queue, filtered, workerVars, appVars>>

(* The pointer is read a second time for enqueue, unsynchronised with      *)
(* Close: the build may reuse the first read or see nil.                   *)
NilDispatcher(t) ==
  /\ pc[t] = "checked" /\ stopping = "returned"
  /\ Goto(t, "crashed")
  /\ UNCHANGED <<mempoolMtx, mtx, pending, queue, txs, filtered, workerVars, appVars>>

Lock(t) ==
  /\ pc[t] = "checked" /\ mtx = Nobody
  /\ mtx' = t /\ Goto(t, "dedupe")
  /\ UNCHANGED <<mempoolMtx, pending, queue, txs, filtered, workerVars, appVars>>

(* Mutant: only the queue is searched for the hash.                        *)
DedupeQueued(t) ==
  /\ pc[t] = "dedupe" /\ txs[t] # <<>>
  /\ LET h == Head(txs[t])
         dup == \/ h \in Range(filtered[t])
                \/ \E i \in DOMAIN queue : h \in Range(queue[i])
     IN  /\ pending' = pending \cup {h}
         /\ filtered' = IF dup THEN filtered
                        ELSE [filtered EXCEPT ![t] = Append(@, h)]
  /\ txs' = [txs EXCEPT ![t] = Tail(@)]
  /\ UNCHANGED <<mempoolMtx, mtx, queue, pc, workerVars, appVars>>

(* One iteration of the loop: a reserved hash is dropped, another one is   *)
(* reserved.                                                               *)
Dedupe(t) ==
  /\ pc[t] = "dedupe" /\ txs[t] # <<>>
  /\ LET h == Head(txs[t])
     IN  /\ pending' = pending \cup {h}
         /\ filtered' = IF h \in pending THEN filtered
                        ELSE [filtered EXCEPT ![t] = Append(@, h)]
  /\ txs' = [txs EXCEPT ![t] = Tail(@)]
  /\ UNCHANGED <<mempoolMtx, mtx, queue, pc, workerVars, appVars>>

Unlock(t) ==
  /\ pc[t] = "dedupe" /\ txs[t] = <<>>
  /\ mtx' = Nobody
  /\ Goto(t, IF filtered[t] = <<>> THEN "return" ELSE "push")
  /\ UNCHANGED <<mempoolMtx, pending, queue, txs, filtered, workerVars, appVars>>

(* Mutant: a plain send, which waits for room.                             *)
PushWaits(t) ==
  /\ pc[t] = "push" /\ Len(queue) < QueueSize
  /\ queue' = Append(queue, filtered[t])
  /\ filtered' = [filtered EXCEPT ![t] = <<>>]
  /\ Goto(t, "return")
  /\ UNCHANGED <<mempoolMtx, mtx, pending, txs, workerVars, appVars>>

(* The send with a default case.                                           *)
Push(t) ==
  /\ pc[t] = "push"
  /\ \/ /\ Len(queue) < QueueSize
        /\ queue' = Append(queue, filtered[t])
        /\ filtered' = [filtered EXCEPT ![t] = <<>>]
        /\ Goto(t, "return")
     \/ /\ Len(queue) = QueueSize
        /\ Goto(t, "full") /\ UNCHANGED <<queue, filtered>>
  /\ UNCHANGED <<mempoolMtx, mtx, pending, txs, workerVars, appVars>>

(* releasePending after a full queue.                                      *)
ReleaseFull(t) ==
  /\ pc[t] = "full" /\ mtx = Nobody
  /\ pending' = pending \ Range(filtered[t])
  /\ filtered' = [filtered EXCEPT ![t] = <<>>]
  /\ Goto(t, "return")
  /\ UNCHANGED <<mempoolMtx, mtx, queue, txs, workerVars, appVars>>

-----------------------------------------------------------------------------
(* run: the worker.                                                        *)

Receive ==
  /\ worker = "select" /\ queue # <<>>
  /\ worker' = "process" /\ batch' = Head(queue) /\ left' = Head(queue)
  /\ queue' = Tail(queue)
  /\ UNCHANGED <<mempoolMtx, mtx, pending, threadVars, appVars>>

(* Mutant: an error starts the batch again.                                *)
SubmitRetries ==
  /\ worker = "process" /\ pc[Worker] = "idle" /\ left # <<>>
  /\ left' = batch
  /\ UNCHANGED <<mempoolMtx, mtx, pending, queue, threadVars, worker, batch, appVars>>

(* broadcastEVMTransactionsSync: an error of one transaction is collected  *)
(* and the next one is tried.                                              *)
SubmitFails ==
  /\ worker = "process" /\ pc[Worker] = "idle" /\ left # <<>>
  /\ left' = Tail(left)
  /\ UNCHANGED <<mempoolMtx, mtx, pending, queue, threadVars, worker, batch, appVars>>

(* CheckTx inserts the transaction, which may promote others.              *)
CheckTx(b) ==
  /\ worker = "process" /\ pc[Worker] = "idle" /\ left # <<>>
  /\ mempoolMtx = Nobody
  /\ left' = Tail(left)
  /\ IF b = <<>> THEN UNCHANGED <<mempoolMtx, pc, txs>>
     ELSE /\ mempoolMtx' = Worker
          /\ Goto(Worker, "call") /\ txs' = [txs EXCEPT ![Worker] = b]
  /\ UNCHANGED <<mtx, pending, queue, filtered, worker, batch, appVars>>

Panic ==
  /\ worker = "process" /\ pc[Worker] = "idle"
  /\ worker' = "panicking"
  /\ UNCHANGED <<mempoolMtx, mtx, pending, queue, threadVars, batch, left, appVars>>

(* The deferred releasePending, at the end of the batch or after a panic,  *)
(* which also ends the worker.                                             *)
Finish ==
  /\ \/ worker = "process" /\ pc[Worker] = "idle" /\ left = <<>>
     \/ worker = "panicking"
  /\ mtx = Nobody
  /\ pending' = pending \ Range(batch)
  /\ batch' = <<>> /\ left' = <<>>
  /\ worker' = IF worker = "panicking" THEN "exited" ELSE "select"
  /\ UNCHANGED <<mempoolMtx, mtx, queue, threadVars, appVars>>

Exit ==
  /\ worker = "select" /\ stopping # "no"
  /\ worker' = "exited"
  /\ UNCHANGED <<mempoolMtx, mtx, pending, queue, threadVars, batch, left, appVars>>

-----------------------------------------------------------------------------
(* The application.                                                        *)

RegisterTxService ==
  /\ ~online /\ online' = TRUE
  /\ UNCHANGED <<mempoolMtx, mtx, pending, queue, threadVars, workerVars, stopping>>

Close ==
  /\ stopping = "no" /\ stopping' = "requested"
  /\ UNCHANGED <<mempoolMtx, mtx, pending, queue, threadVars, workerVars, online>>

(* stop returns once the worker is done, or after the timeout; then the    *)
(* dispatcher is set to nil.                                               *)
StopReturns ==
  /\ stopping = "requested" /\ stopping' = "returned"
  /\ UNCHANGED <<mempoolMtx, mtx, pending, queue, threadVars, workerVars, online>>

-----------------------------------------------------------------------------
Enqueueing(t) == Call(t) \/ Lock(t) \/ Dedupe(t) \/ Unlock(t) \/ Push(t)
                 \/ ReleaseFull(t) \/ Return(t)

Thread(t) == Enqueueing(t) \/ SyncTx(t) \/ NilDispatcher(t)

Mempool == \E c \in Callers, b \in Batches : Insert(c, b) \/ Reset(c, b)

Submit == \E b \in Batches \cup {<<>>} : CheckTx(b)

Run == Receive \/ SubmitFails \/ Submit \/ Panic \/ Finish \/ Exit

NextBroadcast == /\ ~Crashed
        /\ \/ Mempool \/ Run
           \/ \E t \in Threads : Thread(t)
           \/ RegisterTxService \/ Close \/ StopReturns

(* Goroutines are scheduled and Go's mutexes do not starve a waiter; no    *)
(* one is obliged to insert, fail, panic or close.                         *)
BroadcastFairness ==
  /\ \A t \in Threads : WF_broadcastVars(Enqueueing(t)) /\ SF_broadcastVars(Lock(t))
                        /\ SF_broadcastVars(ReleaseFull(t))
  /\ WF_broadcastVars(Receive) /\ SF_broadcastVars(Finish) /\ SF_broadcastVars(Submit)

SpecBroadcast == InitBroadcast /\ [][NextBroadcast]_broadcastVars /\ BroadcastFairness

-----------------------------------------------------------------------------
BroadcastTypeOK ==
  /\ mempoolMtx \in Threads \cup {Nobody} /\ mtx \in Threads \cup {Nobody}
  /\ pending \subseteq TxHashes
  /\ queue \in Seq(Seq(TxHashes))
  /\ pc \in [Threads -> {"idle", "call", "checked", "dedupe", "push", "full",
                         "return", "sync", "crashed"}]
  /\ txs \in [Threads -> Seq(TxHashes)] /\ filtered \in [Threads -> Seq(TxHashes)]
  /\ worker \in {"select", "process", "panicking", "exited"}
  /\ batch \in Seq(TxHashes) /\ left \in Seq(TxHashes)
  /\ online \in BOOLEAN /\ stopping \in {"no", "requested", "returned"}

(* Where a reserved hash can be: in a call, in the queue or at the worker. *)
Distinct(s) == \A i, j \in DOMAIN s : s[i] = s[j] => i = j
Disjoint(s, u) == Range(s) \cap Range(u) = {}

(* A hash is reserved exactly while one call, one queued batch or the      *)
(* worker holds it, once: enqueue never admits a transaction that is       *)
(* queued or being broadcast, not even twice within a batch, and neither   *)
(* a full queue, a failed batch nor a panic leaves a reservation behind.   *)
ReservationsExact ==
  /\ \A h \in TxHashes :
       h \in pending <=> \/ \E t \in Threads : h \in Range(filtered[t])
                         \/ \E i \in DOMAIN queue : h \in Range(queue[i])
                         \/ h \in Range(batch)
  /\ Distinct(batch)
  /\ \A i \in DOMAIN queue : Distinct(queue[i]) /\ Disjoint(queue[i], batch)
  /\ \A i, j \in DOMAIN queue : i # j => Disjoint(queue[i], queue[j])
  /\ \A t \in Threads :
       /\ Distinct(filtered[t]) /\ Disjoint(filtered[t], batch)
       /\ \A i \in DOMAIN queue : Disjoint(filtered[t], queue[i])
       /\ \A u \in Threads \ {t} : Disjoint(filtered[t], filtered[u])

(* Promotion never waits for CheckTx: as long as Close has not cleared the *)
(* dispatcher, every call of broadcastEVMTransactions returns, also when   *)
(* the queue is full, the worker is gone or the caller is the worker, so   *)
(* that Insert() gives the mempool's mutex back.                           *)
InsertReturns ==
  []<>(mempoolMtx = Nobody) \/ <>(stopping = "returned")

(* While the worker lives, a reservation ends: a transaction dropped as a  *)
(* duplicate can be broadcast again by a later promotion.                  *)
ReservationsEnd ==
  \A h \in TxHashes : []<>(h \notin pending \/ worker = "exited"
                         \/ stopping = "returned")
=============================================================================
