------------------------- MODULE PipelineLifecycle --------------------------
(***************************************************************************)
(* Pipeline with its in-memory queue: the bounded channel, the worker      *)
(* goroutines, the alert channel with its one alertWorker, and Stop, which *)
(* runs beside requests that are still enqueueing. (With a durable queue   *)
(* the items are in a table instead: JobQueue and AppendOnlyQueue.)        *)
(* A select with several ready cases takes any of them.                    *)
(***************************************************************************)
EXTENDS Naturals, Sequences, FiniteSets

CONSTANTS Items,          \* one request each
          NoItem,
          Workers,
          QueueSize,      \* capacity of the item channel
          AlertQueueSize  \* alertQueueSize

\* Channels have a capacity.
ASSUME PipelineAssumption == QueueSize \in Nat /\ AlertQueueSize \in Nat

VARIABLES stop,      \* how far Stop is
          req,       \* req[i]: how far the request for item i is
          queue,     \* the item channel
          wk,        \* wk[w]: a worker's step and its item
          alertQueue,\* the alert channel
          alerter,   \* the alertWorker's step and its invocation
          plHandled, \* history: items whose processing ended
          alerts     \* history: alerts[i] is what became of the alert of item i

plVars == <<stop, req, queue, wk, alertQueue, alerter, plHandled, alerts>>

StopSteps == {"running", "marked", "closed", "cancelled", "waited", "returned"}
StopClosed == stop \in {"closed", "cancelled", "waited", "returned"}
ContextDone == stop \in {"cancelled", "waited", "returned"}
AlertStopClosed == stop \in {"waited", "returned"}

\* Where a worker is: at the first or the second select of worker, in
\* drainQueue, in processItem or at the select of dispatchAlert, the last two
\* called from the loop or from drainQueue.
At(pc, item, from) == [pc |-> pc, item |-> item, from |-> from]

PLInit ==
  /\ stop = "running"
  /\ req = [i \in Items |-> "none"]
  /\ queue = <<>>
  /\ wk = [w \in Workers |-> At("top", NoItem, "top")]
  /\ alertQueue = <<>>
  /\ alerter = [pc |-> "loop", item |-> NoItem, from |-> "loop"]
  /\ plHandled = {}
  /\ alerts = [i \in Items |-> "none"]

-----------------------------------------------------------------------------
\* Requests: EnqueueContext and EnqueueNonBlocking

\* isStopped and inMemoryQueue, both under lifecycleMu; then the channel is held.
CheckStopped(i) ==
  /\ req[i] = "none"
  /\ req' = [req EXCEPT ![i] = IF stop = "running" THEN "sending" ELSE "rejected"]
  /\ UNCHANGED <<stop, queue, wk, alertQueue, alerter, plHandled, alerts>>

\* Variants: the channel takes any number of items; a full channel is not noticed.
SendUnbounded(i) ==
  /\ req[i] = "sending"
  /\ queue' = Append(queue, i)
  /\ req' = [req EXCEPT ![i] = "accepted"]
  /\ UNCHANGED <<stop, wk, alertQueue, alerter, plHandled, alerts>>
SendIgnoresFull(i) ==
  /\ req[i] = "sending"
  /\ queue' = IF Len(queue) < QueueSize THEN Append(queue, i) ELSE queue
  /\ req' = [req EXCEPT ![i] = "accepted"]
  /\ UNCHANGED <<stop, wk, alertQueue, alerter, plHandled, alerts>>

\* The non-blocking send, after the lock is given up.
Send(i) ==
  /\ req[i] = "sending"
  /\ IF Len(queue) < QueueSize
     THEN /\ queue' = Append(queue, i)
          /\ req' = [req EXCEPT ![i] = "accepted"]
     ELSE /\ req' = [req EXCEPT ![i] = "rejected"]
          /\ UNCHANGED queue
  /\ UNCHANGED <<stop, wk, alertQueue, alerter, plHandled, alerts>>

-----------------------------------------------------------------------------
\* Workers

\* The first select: a closed stopCh is noticed before anything else.
CheckStop(w) ==
  /\ wk[w].pc = "top"
  /\ wk' = [wk EXCEPT ![w] =
              At(IF StopClosed THEN "drain" ELSE "select", NoItem, "top")]
  /\ UNCHANGED <<stop, req, queue, alertQueue, alerter, plHandled, alerts>>

\* Receiving an item, in the second select or in drainQueue.
Take(w) ==
  /\ wk[w].pc \in {"select", "drain"} /\ queue # <<>>
  /\ queue' = Tail(queue)
  /\ wk' = [wk EXCEPT ![w] = At("process", Head(queue),
                                IF wk[w].pc = "drain" THEN "drain" ELSE "top")]
  /\ UNCHANGED <<stop, req, alertQueue, alerter, plHandled, alerts>>

\* The stop cases of the second select: stopCh drains, a done context returns.
SelectStop(w) ==
  /\ wk[w].pc = "select"
  /\ \/ StopClosed /\ wk' = [wk EXCEPT ![w] = At("drain", NoItem, "top")]
     \/ ContextDone /\ wk' = [wk EXCEPT ![w] = At("exited", NoItem, "top")]
  /\ UNCHANGED <<stop, req, queue, alertQueue, alerter, plHandled, alerts>>

Drained(w) ==
  /\ wk[w].pc = "drain" /\ queue = <<>>
  /\ wk' = [wk EXCEPT ![w] = At("exited", NoItem, "top")]
  /\ UNCHANGED <<stop, req, queue, alertQueue, alerter, plHandled, alerts>>

\* processItem: fails (logged), ends without a result to alert on (a duplicate,
\* a filtered event), or goes on to dispatchAlert.
Process(w) ==
  /\ wk[w].pc = "process"
  /\ plHandled' = plHandled \cup {wk[w].item}
  /\ wk' = [wk EXCEPT ![w] = At(wk[w].from, NoItem, wk[w].from)]
  /\ UNCHANGED <<stop, req, queue, alertQueue, alerter, alerts>>

ProcessAlerting(w) ==
  /\ wk[w].pc = "process"
  /\ plHandled' = plHandled \cup {wk[w].item}
  /\ wk' = [wk EXCEPT ![w].pc = "dispatch"]
  /\ UNCHANGED <<stop, req, queue, alertQueue, alerter, alerts>>

\* The select of dispatchAlert: queued, or dropped when the timer fires on a full
\* queue, the alert worker is stopped or the context is done.
DispatchAlert(w) ==
  LET i == wk[w].item IN
  /\ wk[w].pc = "dispatch"
  /\ \/ /\ Len(alertQueue) < AlertQueueSize
        /\ alertQueue' = Append(alertQueue, i)
        /\ alerts' = [alerts EXCEPT ![i] = "queued"]
     \/ /\ Len(alertQueue) >= AlertQueueSize \/ AlertStopClosed \/ ContextDone
        /\ alerts' = [alerts EXCEPT ![i] = "dropped"]
        /\ UNCHANGED alertQueue
  /\ wk' = [wk EXCEPT ![w] = At(wk[w].from, NoItem, wk[w].from)]
  /\ UNCHANGED <<stop, req, queue, alerter, plHandled>>

-----------------------------------------------------------------------------
\* alertWorker

TakeAlert ==
  /\ alerter.pc \in {"loop", "drain"} /\ alertQueue # <<>>
  /\ alertQueue' = Tail(alertQueue)
  /\ alerter' = [pc |-> "call", item |-> Head(alertQueue), from |-> alerter.pc]
  /\ UNCHANGED <<stop, req, queue, wk, plHandled, alerts>>

\* The callback returns.
Callback ==
  /\ alerter.pc = "call"
  /\ alerts' = [alerts EXCEPT ![alerter.item] = "delivered"]
  /\ alerter' = [pc |-> alerter.from, item |-> NoItem, from |-> alerter.from]
  /\ UNCHANGED <<stop, req, queue, wk, alertQueue, plHandled>>

\* Variant: returns on alertStopCh without draining.
AlertStopNoDrain ==
  /\ alerter.pc = "loop" /\ AlertStopClosed
  /\ alerter' = [pc |-> "exited", item |-> NoItem, from |-> "loop"]
  /\ UNCHANGED <<stop, req, queue, wk, alertQueue, plHandled, alerts>>

AlertStop ==
  /\ alerter.pc = "loop" /\ AlertStopClosed
  /\ alerter' = [pc |-> "drain", item |-> NoItem, from |-> "drain"]
  /\ UNCHANGED <<stop, req, queue, wk, alertQueue, plHandled, alerts>>

AlertDrained ==
  /\ alerter.pc = "drain" /\ alertQueue = <<>>
  /\ alerter' = [pc |-> "exited", item |-> NoItem, from |-> "drain"]
  /\ UNCHANGED <<stop, req, queue, wk, alertQueue, plHandled, alerts>>

-----------------------------------------------------------------------------
\* Stop

\* The state is set under the lock, then stopCh is closed, then the context is
\* cancelled; a second call returns at once.
StopStep(from, to) ==
  /\ stop = from
  /\ stop' = to
  /\ UNCHANGED <<req, queue, wk, alertQueue, alerter, plHandled, alerts>>

\* workerWG.Wait, then alertStopCh is closed.
StopWait ==
  /\ \A w \in Workers : wk[w].pc = "exited"
  /\ StopStep("cancelled", "waited")

\* alertWG.Wait.
StopReturn ==
  /\ alerter.pc = "exited"
  /\ StopStep("waited", "returned")

StopProgress ==
  \/ StopStep("marked", "closed") \/ StopStep("closed", "cancelled")
  \/ StopWait \/ StopReturn

PLWorkerStep(w) ==
  \/ CheckStop(w) \/ Take(w) \/ SelectStop(w) \/ Drained(w)
  \/ Process(w) \/ ProcessAlerting(w) \/ DispatchAlert(w)

AlertStep == TakeAlert \/ Callback \/ AlertStop \/ AlertDrained

PLNext ==
  \/ \E i \in Items : CheckStopped(i) \/ Send(i)
  \/ \E w \in Workers : PLWorkerStep(w)
  \/ AlertStep
  \/ StopStep("running", "marked")
  \/ StopProgress

PLSpec == PLInit /\ [][PLNext]_plVars

\* Goroutines run and callbacks return; nobody has to call Stop or Enqueue.
PLFairSpec ==
  /\ PLSpec
  /\ \A w \in Workers : WF_plVars(PLWorkerStep(w))
  /\ WF_plVars(AlertStep)
  /\ WF_plVars(StopProgress)

-----------------------------------------------------------------------------
\* Properties

\* Every variable has its type.
PLTypeOK ==
  /\ stop \in StopSteps
  /\ req \in [Items -> {"none", "sending", "accepted", "rejected"}]
  /\ queue \in Seq(Items) /\ Len(queue) <= QueueSize
  /\ wk \in [Workers -> [pc : {"top", "select", "drain", "process", "dispatch", "exited"},
                         item : Items \cup {NoItem}, from : {"top", "drain"}]]
  /\ alertQueue \in Seq(Items) /\ Len(alertQueue) <= AlertQueueSize
  /\ alerter \in [pc : {"loop", "call", "drain", "exited"},
                  item : Items \cup {NoItem}, from : {"loop", "drain"}]
  /\ plHandled \subseteq Items
  /\ alerts \in [Items -> {"none", "queued", "dropped", "delivered"}]

\* When Stop returns, every alert that was put into the alert queue has been
\* delivered, whatever the workers were doing when Stop was called.
AlertsDrained ==
  stop = "returned" => \A i \in Items : alerts[i] # "queued"

\* An accepted item is in the channel once, held by exactly one worker, or handled.
AcceptedAccounted ==
  \A i \in Items : req[i] = "accepted" =>
    LET Held == {w \in Workers : wk[w].pc = "process" /\ wk[w].item = i}
        Queued == {n \in 1..Len(queue) : queue[n] = i}
    IN  \/ i \in plHandled /\ Held = {} /\ Queued = {}
        \/ i \notin plHandled /\ Held = {} /\ \E n \in 1..Len(queue) : Queued = {n}
        \/ i \notin plHandled /\ Queued = {} /\ \E w \in Workers : Held = {w}

\* The in-memory channel neither loses nor doubles what it took, nor its alerts.
ChannelKeepsItems == AcceptedAccounted /\ AlertsDrained

\* Stop returns once it is called, with workers blocked in a select, in the
\* middle of an item or waiting for a full alert queue.
NotStopping == stop \in {"running", "returned"}

\* What Stop's comment says: the workers drain the accepted items before exiting.
DrainedWhenStopped ==
  stop = "returned" => \A i \in Items : req[i] = "accepted" => i \in plHandled

=============================================================================
