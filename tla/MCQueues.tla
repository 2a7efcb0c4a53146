------------------------------ MODULE MCQueues ------------------------------
(***************************************************************************)
(* The queue behind the pipeline is chosen once, at start-up: the          *)
(* in-memory channel, the append-only log of Tiny mode, the jobs table or  *)
(* JetStream. "backend" is that choice; only the chosen queue moves. The   *)
(* slots hold the variables of the jobs table.                             *)
(***************************************************************************)
EXTENDS PipelineLifecycle, AppendOnlyQueue, JetStreamQueue, TLC

CONSTANTS w1, w2, w3, e1, n1, p1, p2, none

VARIABLES backend, s1, s2, s3, s4, s5, s6, s7, s8, s9, s10, s11

slots == <<s1, s2, s3, s4, s5, s6, s7, s8, s9, s10, s11>>
All == <<backend, vars, plVars, jsVars, slots>>

\* An event that may be permanently bad next to a native job that may fail for ever.
Table == INSTANCE JobQueue WITH
  Jobs <- {e1, n1}, KindOf <- (e1 :> "event") @@ (n1 :> "native_stackwalk"),
  Outcomes <- (e1 :> {"ok", "permanent"}) @@ (n1 :> {"ok", "transient"}),
  NativeConfigured <- TRUE, Workers <- {w1}, QueueSize <- 2, LeaseTicks <- 2,
  BusyTicks <- 1, MaxDelay <- 2, AttemptCap <- 2, MaxFaults <- 2,
  row <- s1, req <- s2, wk <- s3, up <- s4, completed <- s5,
  faults <- s6, verdict <- s7, counted <- s8, alerted <- s9,
  cut <- s10, overrun <- s11

\* An event that always fails, another one, and a native job submitted twice.
Submit(kind, key, n) == [kind |-> kind, key |-> key, n |-> n]
Bad == Submit("event", none, 1)
MCRequests == {Bad, Submit("native_stackwalk", "crash", 1), Submit("native_stackwalk", "crash", 2)}
MCPoison == {Bad}
MCKinds == <<"event", "native_stackwalk">>
MCJSWorkers == (p1 :> {w1, w2}) @@ (p2 :> {w3})

-----------------------------------------------------------------------------

Empty == /\ s1 = 0 /\ s2 = 0 /\ s3 = 0 /\ s4 = 0 /\ s5 = 0 /\ s6 = 0
         /\ s7 = 0 /\ s8 = 0 /\ s9 = 0 /\ s10 = 0 /\ s11 = 0

MCInit ==
  /\ Init /\ PLInit /\ JSInit
  /\ \/ backend \in {"channel", "log", "stream"} /\ Empty
     \/ backend = "table" /\ Table!Init

\* The queue b moves; the variables it does not use stay.
Only(b) ==
  /\ backend = b /\ UNCHANGED backend
  /\ b # "channel" => UNCHANGED plVars
  /\ b # "log" => UNCHANGED vars
  /\ b # "stream" => UNCHANGED jsVars
  /\ b # "table" => UNCHANGED slots

\* A pipeline that was stopped stays stopped.
Stopped == stop = "returned" /\ UNCHANGED plVars

MCNext ==
  \/ Only("channel") /\ (PLNext \/ Stopped)
  \/ Only("log") /\ Next
  \/ Only("table") /\ Table!Next
  \/ Only("stream") /\ JSNext

\* Goroutines run, callbacks return, the scheduler ticks, time passes and a stopped
\* process is started again; requests and faults need not happen.
Fairness ==
  /\ \A w \in Workers : WF_All(Only("channel") /\ PLWorkerStep(w))
  /\ WF_All(Only("channel") /\ AlertStep)
  /\ WF_All(Only("channel") /\ StopProgress)
  /\ WF_All(Only("log") /\ WorkerStep)
  /\ SF_All(Only("log") /\ ClaimHealthy)
  /\ \A s \in Seqs : WF_All(Only("log") /\ BecomeDue(s))
  /\ WF_All(Only("table") /\ Table!WorkerStep(w1))
  /\ WF_All(Only("table") /\ Table!RequeueExpiredProcessing)
  /\ WF_All(Only("table") /\ Table!Terminate /\ s4 = "stopping")
  /\ WF_All(Only("table") /\ Table!Start)
  /\ WF_All(Only("table") /\ Table!Tick)
  /\ \A w \in AllWorkers : WF_All(Only("stream") /\ JSWorkerStep(w))
  /\ WF_All(Only("stream") /\ TimePasses)

MCSpec == MCInit /\ [][MCNext]_All /\ Fairness

-----------------------------------------------------------------------------
\* Properties, beside those of the queues

\* Every variable of the queues has its type.
QueueTypes == PLTypeOK /\ TypeOK /\ JSTypeOK

\* Every accepted item is eventually off its queue. In the log it is processed or
\* passed by the watermark, also behind events that fail for ever. In the jobs table an
\* item that processing does not always fail is done, next to one that is retried for
\* ever, and through every crash and shutdown. In JetStream it is acknowledged or has
\* used up its deliveries: the rotation over the subscriptions starves no kind. And Stop
\* of the in-memory queue returns once it is called, with workers blocked in a select, in
\* the middle of an item or waiting for a full alert queue.
QueuesProgress ==
  []<>(/\ backend = "log" => Passed
       /\ backend = "table" => Table!Finished
       /\ backend = "stream" => AllSettled
       /\ backend = "channel" => NotStopping)

=============================================================================
