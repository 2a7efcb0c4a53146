---------------------------- MODULE QueuesProofs -----------------------------
(***************************************************************************)
(* The append-only log, the in-memory channel and JetStream, for any       *)
(* number of clients, processes, workers and items and any limits. The     *)
(* log: every row past the watermark is still there, every row up to it    *)
(* was processed or requeued, and the rows that a claim steps over were    *)
(* requeued before. The channel: an accepted item is in exactly one place, *)
(* and an alert that was queued is with the alert queue or its worker.     *)
(* JetStream: a message that nothing crossed is out with at most one       *)
(* worker, whose process keeps it pending until it is settled.             *)
(***************************************************************************)
EXTENDS PipelineLifecycle, AppendOnlyQueue, JetStreamQueue, FiniteSetTheorems, TLAPS

-----------------------------------------------------------------------------
\* JetStream

LogEntry ==
  [req : Requests, state : {"ready", "delayed", "out", "gone"}, n : 0..MaxDeliver]
WorkerState ==
  [pc : {"idle", "fetch", "got", "claimed", "done", "retry", "ack", "nak"},
   i : 0..Len(ClaimedKinds) - 1, msg : Messages \cup {NoMsg}]

StreamType ==
  /\ jsLog \in [KindSet -> Seq(LogEntry)]
  /\ jsPending \in [Procs -> SUBSET [id : Messages, msg : Messages]]
  /\ jsNextSub \in [Procs -> 0..Len(ClaimedKinds) - 1]
  /\ jsWk \in [AllWorkers -> WorkerState]
  /\ jsHandled \subseteq Messages /\ jsSettled \subseteq Messages /\ jsCrossed \subseteq Messages

\* A worker holds a message from the fetch on until it is idle again.
HoldsWhileBusy ==
  \A w \in AllWorkers : jsWk[w].msg = NoMsg <=> jsWk[w].pc \in {"idle", "fetch"}
\* The pending map files every message under its own job.
FiledUnderOwnJob == \A p \in Procs : \A e \in jsPending[p] : e.msg = e.id
\* Only a message that was processed is about to be acknowledged.
AckedWasHandled ==
  \A w \in AllWorkers : jsWk[w].pc \in {"done", "ack"} => jsWk[w].msg \in jsHandled

\* A message that nothing crossed is out with at most one worker, whose process
\* keeps it pending until it is taken, and once reported done it is gone.
HeldIsOut(m) == \A w \in AllWorkers : jsWk[w].msg = m => Entry(m).state = "out"
OneHolder(m) == \A v, w \in AllWorkers : jsWk[v].msg = m /\ jsWk[w].msg = m => v = w
ClaimIsPending(m) ==
  \A w \in AllWorkers :
    jsWk[w].msg = m /\ jsWk[w].pc \in {"claimed", "done", "retry"}
      => \E e \in jsPending[ProcOf(w)] : e.id = m
SettledIsGone(m) == m \in jsSettled => Entry(m).state = "gone"
Uncrossed(m) == HeldIsOut(m) /\ OneHolder(m) /\ ClaimIsPending(m) /\ SettledIsGone(m)

StreamInv ==
  /\ StreamType /\ HoldsWhileBusy /\ FiledUnderOwnJob /\ AckedWasHandled /\ GoneWasHandled
  /\ \A m \in Messages \ jsCrossed : Uncrossed(m)

\* There is a subscription to rotate over.
LEMMA SubscriptionCount == Len(ClaimedKinds) \in Nat \ {0}
BY StreamAssumption

\* A message is a place in the log of its kind, and its entry is an entry.
LEMMA MessageHasEntry ==
  ASSUME StreamType, NEW m \in Messages
  PROVE  /\ m = <<m[1], m[2]>> /\ m[1] \in KindSet /\ m[2] \in 1..Len(jsLog[m[1]])
         /\ Entry(m) \in LogEntry /\ m # NoMsg
<1>a. PICK k \in KindSet : \E n \in DOMAIN jsLog[k] : m = <<k, n>>
  BY Zenon DEF Messages
<1>1. PICK n \in DOMAIN jsLog[k] : m = <<k, n>>
  BY <1>a, Zenon
<1>2. jsLog[k] \in Seq(LogEntry)
  BY Zenon DEF StreamType
<1>3. n \in 1..Len(jsLog[k]) /\ jsLog[k][n] \in LogEntry
  BY <1>2
<1>4. m[1] = k /\ m[2] = n
  BY <1>1, Zenon
<1> QED BY <1>1, <1>3, <1>4 DEF Entry, NoMsg

\* Rewriting an entry leaves the other messages alone.
LEMMA Rewritten ==
  ASSUME StreamType, NEW m \in Messages, NEW e \in LogEntry, jsLog' = With(m, e)
  PROVE  /\ jsLog' \in [KindSet -> Seq(LogEntry)] /\ Messages' = Messages
         /\ Entry(m)' = e
         /\ \A x \in Messages : x # m => Entry(x)' = Entry(x)
<1> DEFINE k == m[1]
           s == [jsLog[k] EXCEPT ![m[2]] = e]
<1>1. /\ m = <<m[1], m[2]>> /\ k \in KindSet /\ m[2] \in 1..Len(jsLog[k])
  BY MessageHasEntry, Zenon
<1>2. jsLog \in [KindSet -> Seq(LogEntry)] /\ jsLog[k] \in Seq(LogEntry)
  BY <1>1, Zenon DEF StreamType
<1>3. s \in Seq(LogEntry) /\ Len(s) = Len(jsLog[k]) /\ DOMAIN s = DOMAIN jsLog[k]
  BY <1>1, <1>2
<1>4. jsLog' = [jsLog EXCEPT ![k] = s]
  BY Zenon DEF With
<1> HIDE DEF k
<1>5. jsLog' \in [KindSet -> Seq(LogEntry)]
  BY <1>2, <1>3, <1>4, Zenon
<1>6. \A j \in KindSet : DOMAIN jsLog'[j] = DOMAIN jsLog[j]
  BY <1>1, <1>2, <1>3, <1>4, Zenon
<1>7. Messages' = Messages
  BY <1>6 DEF Messages
<1>8. Entry(m)' = e
  BY <1>1, <1>2, <1>4 DEF Entry, k
<1>9. ASSUME NEW x \in Messages, x # m PROVE Entry(x)' = Entry(x)
  <2>1. x = <<x[1], x[2]>> /\ x[1] \in KindSet
    BY MessageHasEntry, Zenon
  <2>2. CASE x[1] # k
    BY <2>1, <2>2, <1>2, <1>4, Zenon DEF Entry
  <2>3. CASE x[1] = k
    <3>1. x[2] # m[2]
      BY <2>1, <2>3, <1>1, <1>9, Zenon DEF k
    <3>2. jsLog'[x[1]] = s
      BY <2>3, <1>1, <1>2, <1>4, Zenon
    <3>3. x[2] \in DOMAIN jsLog[k]
      BY <2>3, MessageHasEntry, <1>2
    <3> QED BY <3>1, <3>2, <3>3, <2>3, Zenon DEF Entry
  <2> QED BY <2>2, <2>3, Zenon
<1> QED BY <1>5, <1>7, <1>8, <1>9, Zenon

\* A change of an entry's state, and a delivery, make it another entry.
LEMMA EntryChanges ==
  ASSUME NEW e \in LogEntry, NEW st \in {"ready", "delayed", "out", "gone"}
  PROVE  /\ [e EXCEPT !.state = st] \in LogEntry /\ [e EXCEPT !.state = st].state = st
         /\ e.n < MaxDeliver => [req |-> e.req, state |-> st, n |-> e.n + 1] \in LogEntry
<1>1. e.n < MaxDeliver => e.n + 1 \in 0..MaxDeliver
  BY StreamAssumption DEF LogEntry
<1> QED BY <1>1, Zenon DEF LogEntry

\* PublishMsg only adds messages, and nobody holds or has settled a new one.
LEMMA Published ==
  ASSUME StreamType, NEW r \in Requests, PublishMsg(r)
  PROVE  /\ jsLog' \in [KindSet -> Seq(LogEntry)] /\ Messages \subseteq Messages'
         /\ \A x \in Messages : Entry(x)' = Entry(x)
         /\ \A x \in Messages' : x \notin Messages => Entry(x)'.state = "ready"
<1>1. CASE UNCHANGED jsLog
  BY <1>1 DEF StreamType, Messages, Entry
<1>2. CASE jsLog' = [jsLog EXCEPT ![r.kind] = Append(@, [req |-> r, state |-> "ready", n |-> 0])]
  <2> DEFINE e == [req |-> r, state |-> "ready", n |-> 0]
             k == r.kind
  <2>1. k \in KindSet /\ e \in LogEntry /\ e.state = "ready"
    BY StreamAssumption DEF LogEntry
  <2>2. jsLog \in [KindSet -> Seq(LogEntry)] /\ jsLog[k] \in Seq(LogEntry)
    BY <2>1, Zenon DEF StreamType
  <2>3. jsLog' = [jsLog EXCEPT ![k] = Append(jsLog[k], e)]
    BY <1>2, Zenon
  <2> HIDE DEF e, k
  <2>4. /\ Append(jsLog[k], e) \in Seq(LogEntry) /\ Len(Append(jsLog[k], e)) = Len(jsLog[k]) + 1
        /\ \A i \in 1..Len(jsLog[k]) : Append(jsLog[k], e)[i] = jsLog[k][i]
        /\ Append(jsLog[k], e)[Len(jsLog[k]) + 1] = e
    BY <2>1, <2>2
  <2>5. jsLog' \in [KindSet -> Seq(LogEntry)]
    BY <2>2, <2>3, <2>4, Zenon
  <2>6. \A j \in KindSet : \A n \in DOMAIN jsLog[j] : n \in DOMAIN jsLog'[j] /\ jsLog'[j][n] = jsLog[j][n]
    BY <2>2, <2>3, <2>4
  <2>7. \A j \in KindSet : \A n \in DOMAIN jsLog'[j] : n \notin DOMAIN jsLog[j] => jsLog'[j][n] = e
    BY <2>2, <2>3, <2>4
  <2>8. Messages \subseteq Messages'
    BY <2>6 DEF Messages
  <2>9. ASSUME NEW x \in Messages PROVE Entry(x)' = Entry(x)
    <3>a. PICK j \in KindSet : \E n \in DOMAIN jsLog[j] : x = <<j, n>>
      BY Zenon DEF Messages
    <3>1. PICK n \in DOMAIN jsLog[j] : x = <<j, n>>
      BY <3>a, Zenon
    <3> QED BY <3>1, <2>6, Zenon DEF Entry
  <2>10. ASSUME NEW x \in Messages', x \notin Messages PROVE Entry(x)'.state = "ready"
    <3>a. PICK j \in KindSet : \E n \in DOMAIN jsLog'[j] : x = <<j, n>>
      BY Zenon DEF Messages
    <3>1. PICK n \in DOMAIN jsLog'[j] : x = <<j, n>>
      BY <3>a, Zenon
    <3>2. n \notin DOMAIN jsLog[j]
      BY <3>1, <2>10 DEF Messages
    <3>3. Entry(x)' = e
      BY <3>1, <3>2, <2>7, Zenon DEF Entry
    <3> QED BY <3>3, <2>1, Zenon
  <2> QED BY <2>5, <2>8, <2>9, <2>10, Zenon
<1> QED BY <1>1, <1>2, Zenon DEF PublishMsg, serverVars

\* Initially nothing was published.
LEMMA StreamInvInit == JSInit => StreamInv
<1> SUFFICES ASSUME JSInit PROVE StreamInv
  OBVIOUS
<1>1. Messages = {}
  BY DEF JSInit, Messages
<1>2. \A w \in AllWorkers : jsWk[w] = Idle
  BY Zenon DEF JSInit
<1>3. Idle \in WorkerState
  BY SubscriptionCount DEF Idle, WorkerState
<1>4. StreamType
  BY <1>1, <1>3, SubscriptionCount DEF JSInit, StreamType
<1> QED BY <1>1, <1>2, <1>4, Zenon DEF JSInit, StreamInv, HoldsWhileBusy, Idle, FiledUnderOwnJob,
      AckedWasHandled, GoneWasHandled

\* Publishing, with or without an error, keeps the invariant.
LEMMA PublishKeeps ==
  ASSUME StreamInv, NEW r \in Requests, EnqueueKeyed(r) \/ EnqueueFails(r)
  PROVE  StreamInv'
<1>1. /\ jsLog' \in [KindSet -> Seq(LogEntry)] /\ Messages \subseteq Messages'
      /\ \A x \in Messages : Entry(x)' = Entry(x)
      /\ \A x \in Messages' : x \notin Messages => Entry(x)'.state = "ready"
  <2>1. CASE PublishMsg(r)
    BY <2>1, Published, Zenon DEF StreamInv
  <2>2. CASE UNCHANGED serverVars
    BY <2>2 DEF serverVars, StreamInv, StreamType, Messages, Entry
  <2> QED BY <2>1, <2>2, Zenon DEF EnqueueKeyed, EnqueueFails
<1>2. UNCHANGED <<jsPending, jsNextSub, jsWk, jsHandled, jsSettled, jsCrossed>>
  BY Zenon DEF EnqueueKeyed, EnqueueFails
<1>3. StreamType'
  BY <1>1, <1>2 DEF StreamInv, StreamType, WorkerState
<1>4. (HoldsWhileBusy /\ FiledUnderOwnJob /\ AckedWasHandled)'
  BY <1>2, Zenon DEF StreamInv, HoldsWhileBusy, FiledUnderOwnJob, AckedWasHandled
<1>5. GoneWasHandled'
  BY <1>1, <1>2, Zenon DEF StreamInv, GoneWasHandled
<1>6. ASSUME NEW m \in Messages', m \notin jsCrossed' PROVE Uncrossed(m)'
  <2>1. CASE m \in Messages
    BY <2>1, <1>1, <1>2, <1>6 DEF StreamInv, Uncrossed, HeldIsOut, OneHolder, ClaimIsPending, SettledIsGone
  <2>2. CASE m \notin Messages
    <3>1. \A w \in AllWorkers : jsWk'[w].msg # m
      <4>1. m # NoMsg
        BY <1>1 DEF Messages, NoMsg
      <4> QED BY <4>1, <2>2, <1>2, Zenon DEF StreamInv, StreamType, WorkerState
    <3>2. m \notin jsSettled'
      BY <2>2, <1>2, Zenon DEF StreamInv, StreamType
    <3> QED BY <3>1, <3>2, Zenon DEF Uncrossed, HeldIsOut, OneHolder, ClaimIsPending, SettledIsGone
  <2> QED BY <2>1, <2>2, SMTT(30)
<1> QED BY <1>3, <1>4, <1>5, <1>6, Zenon DEF StreamInv

\* Fetch: an uncrossed message that is ready has no holder, so the worker is the only one.
LEMMA FetchKeeps ==
  ASSUME StreamInv, NEW w \in AllWorkers, Fetch(w) PROVE StreamInv'
<1>1. PICK m \in Deliverable(Subscription(w)) :
        /\ jsLog' = With(m, [req |-> Entry(m).req, state |-> "out", n |-> Entry(m).n + 1])
        /\ jsWk' = [jsWk EXCEPT ![w].pc = "got", ![w].msg = m]
  BY Zenon DEF Fetch
<1>2. m \in Messages /\ Entry(m).state = "ready" /\ Entry(m).n < MaxDeliver
  BY Zenon DEF Deliverable
<1>3. StreamType /\ Entry(m) \in LogEntry /\ m # NoMsg
  BY <1>2, MessageHasEntry, Zenon DEF StreamInv
<1>4. /\ jsLog' \in [KindSet -> Seq(LogEntry)] /\ Messages' = Messages
      /\ Entry(m)'.state = "out" /\ \A x \in Messages : x # m => Entry(x)' = Entry(x)
  <2>1. [req |-> Entry(m).req, state |-> "out", n |-> Entry(m).n + 1] \in LogEntry
    BY <1>2, <1>3, EntryChanges, Zenon
  <2> QED BY <2>1, <1>1, <1>2, <1>3, Rewritten
<1>5. UNCHANGED <<jsPending, jsNextSub, jsHandled, jsSettled, jsCrossed>>
  BY Zenon DEF Fetch
<1>6. /\ jsWk' \in [AllWorkers -> WorkerState]
      /\ jsWk'[w].pc = "got" /\ jsWk'[w].msg = m
      /\ \A v \in AllWorkers : v # w => jsWk'[v] = jsWk[v]
  BY <1>1, <1>2, <1>3, Zenon DEF StreamType, WorkerState
<1>7. StreamType'
  BY <1>3, <1>4, <1>5, <1>6, Zenon DEF StreamType, WorkerState
<1>8. (HoldsWhileBusy /\ FiledUnderOwnJob /\ AckedWasHandled)'
  BY <1>3, <1>5, <1>6, Zenon DEF StreamInv, HoldsWhileBusy, FiledUnderOwnJob, AckedWasHandled
<1>9. GoneWasHandled'
  BY <1>4, <1>5, Zenon DEF StreamInv, GoneWasHandled
<1>10. ASSUME NEW x \in Messages', x \notin jsCrossed' PROVE Uncrossed(x)'
  <2>1. x \in Messages /\ Uncrossed(x)
    BY <1>4, <1>5, <1>10, Zenon DEF StreamInv
  <2>2. CASE x # m
    BY <2>1, <2>2, <1>4, <1>5, <1>6, Zenon DEF Uncrossed, HeldIsOut, OneHolder, ClaimIsPending, SettledIsGone
  <2>3. CASE x = m
    <3>1. (\A v \in AllWorkers : jsWk[v].msg # m) /\ m \notin jsSettled
      BY <2>1, <2>3, <1>2, Zenon DEF Uncrossed, HeldIsOut, SettledIsGone
    <3>2. \A v \in AllWorkers : jsWk'[v].msg = m => v = w
      BY <3>1, <1>6, Zenon
    <3> QED BY <3>1, <3>2, <2>3, <1>4, <1>5, <1>6, Zenon
          DEF Uncrossed, HeldIsOut, OneHolder, ClaimIsPending, SettledIsGone
  <2> QED BY <2>2, <2>3, Zenon
<1> QED BY <1>7, <1>8, <1>9, <1>10, Zenon DEF StreamInv

\* A fetch that times out holds no message.
LEMMA FetchEmptyKeeps ==
  ASSUME StreamInv, NEW w \in AllWorkers, FetchEmpty(w) PROVE StreamInv'
<1>1. /\ UNCHANGED <<jsLog, jsPending, jsNextSub, jsHandled, jsSettled, jsCrossed>>
      /\ jsWk[w].pc \in {"idle", "fetch"} /\ StreamType
  BY Zenon DEF FetchEmpty, StreamInv, serverVars
<1>2. Messages' = Messages /\ \A x \in Messages : Entry(x)' = Entry(x)
  BY <1>1 DEF Messages, Entry
<1>3. /\ jsWk' \in [AllWorkers -> WorkerState]
      /\ jsWk'[w].pc \in {"idle", "fetch"} /\ jsWk'[w].msg = NoMsg
      /\ \A v \in AllWorkers : v # w => jsWk'[v] = jsWk[v]
  <2>1. jsWk[w].i \in 0..Len(ClaimedKinds) - 1 /\ jsWk \in [AllWorkers -> WorkerState]
    BY <1>1, Zenon DEF StreamType, WorkerState
  <2>2. Idle \in WorkerState
    BY SubscriptionCount DEF Idle, WorkerState
  <2>3. jsWk[w].i + 1 < Len(ClaimedKinds) => [pc |-> "fetch", i |-> jsWk[w].i + 1, msg |-> NoMsg] \in WorkerState
    BY <2>1, SubscriptionCount DEF WorkerState
  <2> QED BY <2>1, <2>2, <2>3, Zenon DEF FetchEmpty, Idle
<1>4. StreamType'
  BY <1>1, <1>2, <1>3, SMTT(30) DEF StreamType, WorkerState
<1>5. (HoldsWhileBusy /\ FiledUnderOwnJob /\ AckedWasHandled /\ GoneWasHandled)'
  BY <1>1, <1>2, <1>3, SMTT(30) DEF StreamInv, HoldsWhileBusy, FiledUnderOwnJob, AckedWasHandled, GoneWasHandled
<1>6. ASSUME NEW x \in Messages', x \notin jsCrossed' PROVE Uncrossed(x)'
  <2>1. x \in Messages /\ Uncrossed(x) /\ x # NoMsg
    BY <1>1, <1>2, <1>6, MessageHasEntry, Zenon DEF StreamInv
  <2> QED BY <2>1, <1>1, <1>2, <1>3, Zenon DEF Uncrossed, HeldIsOut, OneHolder, ClaimIsPending, SettledIsGone
<1> QED BY <1>4, <1>5, <1>6, Zenon DEF StreamInv

\* Every worker is a worker of its process.
LEMMA WorkerOfItsProcess ==
  ASSUME NEW w \in AllWorkers PROVE ProcOf(w) \in Procs /\ w \in JSWorkers[ProcOf(w)]
BY Zenon DEF AllWorkers, ProcOf

\* Claim files the message under its own job, and other jobs stay filed.
LEMMA FileKeeps ==
  ASSUME StreamInv, NEW w \in AllWorkers, Claim(w) PROVE StreamInv'
<1> DEFINE p == ProcOf(w)
           m == jsWk[w].msg
<1>1. /\ UNCHANGED <<jsLog, jsHandled, jsSettled, jsCrossed>>
      /\ jsWk[w].pc = "got" /\ StreamType /\ p \in Procs
  BY WorkerOfItsProcess, Zenon DEF Claim, StreamInv, serverVars
<1>2. Messages' = Messages /\ \A x \in Messages : Entry(x)' = Entry(x)
  BY <1>1 DEF Messages, Entry
<1>3. m \in Messages
  BY <1>1, Zenon DEF StreamInv, StreamType, WorkerState, HoldsWhileBusy
<1>4. /\ jsWk' \in [AllWorkers -> WorkerState]
      /\ jsWk'[w].pc = "claimed" /\ jsWk'[w].msg = m
      /\ \A v \in AllWorkers : v # w => jsWk'[v] = jsWk[v]
  <2>2. jsWk[w] \in WorkerState /\ 0 \in 0..Len(ClaimedKinds) - 1
    BY <1>1, SubscriptionCount DEF StreamType
  <2>3. jsWk' = [jsWk EXCEPT ![w] = [pc |-> "claimed", i |-> 0, msg |-> m]]
    BY Zenon DEF Claim
  <2>4. [pc |-> "claimed", i |-> 0, msg |-> m] \in WorkerState
    BY <2>2, Zenon DEF WorkerState
  <2> HIDE DEF m
  <2> QED BY <2>3, <2>4, <1>1, Zenon DEF StreamType
<1>5. jsNextSub' \in [Procs -> 0..Len(ClaimedKinds) - 1]
  <2>1. /\ jsNextSub \in [Procs -> 0..Len(ClaimedKinds) - 1] /\ jsWk[w].i \in 0..Len(ClaimedKinds) - 1
    BY <1>1, Zenon DEF StreamType, WorkerState
  <2>2. (jsNextSub[p] + jsWk[w].i + 1) % Len(ClaimedKinds) \in 0..Len(ClaimedKinds) - 1
    BY <2>1, <1>1, SubscriptionCount
  <2>3. jsNextSub' = [jsNextSub EXCEPT ![p] = (jsNextSub[p] + jsWk[w].i + 1) % Len(ClaimedKinds)]
    BY Zenon DEF Claim
  <2> HIDE DEF p
  <2> QED BY <2>1, <2>2, <2>3, Zenon
<1>6. /\ jsPending' = [jsPending EXCEPT ![p] = Others(p, m) \cup {[id |-> m, msg |-> m]}]
      /\ jsPending \in [Procs -> SUBSET [id : Messages, msg : Messages]]
  BY <1>1, Zenon DEF Claim, JobID, StreamType
<1> HIDE DEF p, m
<1>7. /\ jsPending'[p] = {e \in jsPending[p] : e.id # m} \cup {[id |-> m, msg |-> m]}
      /\ \A q \in Procs : q # p => jsPending'[q] = jsPending[q]
      /\ jsPending' \in [Procs -> SUBSET [id : Messages, msg : Messages]]
  BY <1>1, <1>3, <1>6 DEF Others
<1>8. StreamType'
  BY <1>1, <1>2, <1>4, <1>5, <1>7, Zenon DEF StreamType, WorkerState
<1>9. (HoldsWhileBusy /\ AckedWasHandled /\ GoneWasHandled)'
  <2>1. m # NoMsg
    BY <1>1, <1>3, MessageHasEntry, Zenon
  <2> QED BY <2>1, <1>1, <1>2, <1>4, Zenon DEF StreamInv, HoldsWhileBusy, AckedWasHandled, GoneWasHandled
<1>10. FiledUnderOwnJob'
  <2> SUFFICES ASSUME NEW q \in Procs, NEW e \in jsPending'[q] PROVE e.msg = e.id
    BY SMTT(30) DEF FiledUnderOwnJob
  <2> QED BY <1>7 DEF StreamInv, FiledUnderOwnJob
<1>11. ASSUME NEW x \in Messages', x \notin jsCrossed' PROVE Uncrossed(x)'
  <2>1. x \in Messages /\ Uncrossed(x)
    BY <1>1, <1>2, <1>11, SMTT(30) DEF StreamInv
  <2>2. (HeldIsOut(x) /\ OneHolder(x) /\ SettledIsGone(x))'
    BY <2>1, <1>1, <1>2, <1>4 DEF Uncrossed, HeldIsOut, OneHolder, SettledIsGone, m
  <2>3. ASSUME NEW v \in AllWorkers, jsWk'[v].msg = x, jsWk'[v].pc \in {"claimed", "done", "retry"}
        PROVE  \E e \in jsPending'[ProcOf(v)] : e.id = x
    <3>1. CASE x = m
      <4>1. jsWk[v].msg = m
        BY <2>3, <3>1, <1>4, Zenon DEF m
      <4>2. v = w
        BY <4>1, <3>1, <2>1, Zenon DEF Uncrossed, OneHolder, m
      <4>3. [id |-> m, msg |-> m] \in jsPending'[ProcOf(v)]
        BY <4>2, <1>7, Zenon DEF p
      <4> QED BY <4>3, <3>1, Zenon
    <3>2. CASE x # m
      <4>1. jsWk[v].msg = x /\ jsWk[v].pc \in {"claimed", "done", "retry"}
        BY <2>3, <3>2, <1>4, Zenon
      <4>2. PICK e \in jsPending[ProcOf(v)] : e.id = x
        BY <4>1, <2>1, Zenon DEF Uncrossed, ClaimIsPending
      <4>3. e \in jsPending'[ProcOf(v)]
        BY <4>2, <3>2, <1>7, WorkerOfItsProcess, Zenon
      <4> QED BY <4>2, <4>3, Zenon
    <3> QED BY <3>1, <3>2, Zenon
  <2> QED BY <2>2, <2>3, Zenon DEF Uncrossed, ClaimIsPending
<1> QED BY <1>8, <1>9, <1>10, <1>11, Zenon DEF StreamInv

\* Processing: what is about to be acknowledged was processed.
LEMMA DeliveryKeeps ==
  ASSUME StreamInv, NEW w \in AllWorkers, JSProcess(w) PROVE StreamInv'
<1>1. /\ UNCHANGED <<jsLog, jsPending, jsNextSub, jsSettled, jsCrossed>>
      /\ jsWk[w].pc = "claimed" /\ StreamType
  BY Zenon DEF JSProcess, StreamInv, serverVars
<1>2. Messages' = Messages /\ \A x \in Messages : Entry(x)' = Entry(x)
  BY <1>1 DEF Messages, Entry
<1>3. jsWk[w].msg \in Messages /\ jsWk[w].msg # NoMsg
  BY <1>1, Zenon DEF StreamInv, StreamType, WorkerState, HoldsWhileBusy
<1>4. /\ jsWk' \in [AllWorkers -> WorkerState]
      /\ jsWk'[w].pc \in {"done", "retry"} /\ jsWk'[w].msg = jsWk[w].msg
      /\ \A v \in AllWorkers : v # w => jsWk'[v] = jsWk[v]
  BY <1>1, ZenonT(60) DEF JSProcess, StreamType, WorkerState
<1>5. /\ jsHandled \subseteq jsHandled' /\ jsHandled' \subseteq jsHandled \cup {jsWk[w].msg}
      /\ jsWk'[w].pc = "done" => jsWk[w].msg \in jsHandled'
  BY <1>1, Zenon DEF JSProcess, StreamType, WorkerState
<1>6. StreamType'
  BY <1>1, <1>2, <1>3, <1>4, <1>5, Zenon DEF StreamType, WorkerState
<1>7. (HoldsWhileBusy /\ FiledUnderOwnJob /\ AckedWasHandled /\ GoneWasHandled)'
  BY <1>1, <1>2, <1>3, <1>4, <1>5, Zenon
    DEF StreamInv, HoldsWhileBusy, FiledUnderOwnJob, AckedWasHandled, GoneWasHandled
<1>8. ASSUME NEW x \in Messages', x \notin jsCrossed' PROVE Uncrossed(x)'
  <2>1. x \in Messages /\ Uncrossed(x)
    BY <1>1, <1>2, <1>8, Zenon DEF StreamInv
  <2> QED BY <2>1, <1>1, <1>2, <1>4 DEF Uncrossed, HeldIsOut, OneHolder, ClaimIsPending, SettledIsGone
<1> QED BY <1>6, <1>7, <1>8, Zenon DEF StreamInv

\* takePending: the worker of an uncrossed message finds its entry, so that MarkDone
\* reports it done only with the acknowledgement.
LEMMA TakePendingKeeps ==
  ASSUME StreamInv, NEW w \in AllWorkers, TakePending(w) PROVE StreamInv'
<1> DEFINE p == ProcOf(w)
           m == jsWk[w].msg
<1>1. /\ UNCHANGED <<jsLog, jsNextSub, jsHandled, jsCrossed>>
      /\ jsWk[w].pc \in {"done", "retry"} /\ StreamType /\ p \in Procs
  BY WorkerOfItsProcess, Zenon DEF TakePending, StreamInv, serverVars
<1>2. Messages' = Messages /\ \A x \in Messages : Entry(x)' = Entry(x)
  BY <1>1 DEF Messages, Entry
<1>3. m \in Messages /\ m # NoMsg
  BY <1>1, Zenon DEF StreamInv, StreamType, WorkerState, HoldsWhileBusy
<1>4. /\ jsPending' = [jsPending EXCEPT ![p] = Others(p, m)]
      /\ jsPending \in [Procs -> SUBSET [id : Messages, msg : Messages]]
  BY <1>1, Zenon DEF TakePending, JobID, StreamType
<1>5. \/ /\ Pending(p, m) = {} /\ jsWk' = [jsWk EXCEPT ![w] = Idle]
         /\ jsSettled' = jsSettled \cup {m} \/ jsSettled' = jsSettled
      \/ /\ \E e \in Pending(p, m) :
              jsWk' = [jsWk EXCEPT ![w] = [pc |-> IF jsWk[w].pc = "done" THEN "ack" ELSE "nak",
                                           i |-> 0, msg |-> e.msg]]
         /\ jsSettled' = jsSettled
  BY Zenon DEF TakePending, JobID
<1>a. jsWk[w].pc = "done" => m \in jsHandled
  BY SMTT(30) DEF StreamInv, AckedWasHandled
<1>b. \A e \in Pending(p, m) : e.msg = m
  BY <1>1, Zenon DEF StreamInv, FiledUnderOwnJob, Pending
<1>6. /\ jsWk' \in [AllWorkers -> WorkerState]
      /\ \A v \in AllWorkers : v # w => jsWk'[v] = jsWk[v]
      /\ \/ jsWk'[w] = Idle
         \/ jsWk'[w].pc \in {"ack", "nak"} /\ jsWk'[w].msg = m /\ (jsWk'[w].pc = "ack" => m \in jsHandled)
  <2>1. jsWk \in [AllWorkers -> WorkerState] /\ 0 \in 0..Len(ClaimedKinds) - 1 /\ Idle \in WorkerState
    BY <1>1, SubscriptionCount, SMTT(30) DEF StreamType, Idle, WorkerState
  <2>2. PICK s : jsWk' = [jsWk EXCEPT ![w] = s]
            /\ s \in {Idle, [pc |-> IF jsWk[w].pc = "done" THEN "ack" ELSE "nak", i |-> 0, msg |-> m]}
    BY <1>5, <1>b, Zenon
  <2>3. /\ s \in WorkerState
        /\ s = Idle \/ (s.pc \in {"ack", "nak"} /\ s.msg = m /\ (s.pc = "ack" => m \in jsHandled))
    BY <2>1, <2>2, <1>3, <1>a DEF WorkerState
  <2> HIDE DEF m
  <2> QED BY <2>1, <2>2, <2>3, Zenon
<1>c. jsSettled' \subseteq jsSettled \cup {m} /\ (jsSettled' # jsSettled => Pending(p, m) = {})
  BY <1>5, Zenon
<1> HIDE DEF p, m
<1>7. /\ jsPending'[p] = {e \in jsPending[p] : e.id # m}
      /\ \A q \in Procs : q # p => jsPending'[q] = jsPending[q]
      /\ jsPending' \in [Procs -> SUBSET [id : Messages, msg : Messages]]
  BY <1>1, <1>3, <1>4, Zenon DEF Others
<1>8. StreamType'
  BY <1>1, <1>2, <1>3, <1>6, <1>7, <1>c, SMTT(30) DEF StreamType, WorkerState
<1>9. (HoldsWhileBusy /\ AckedWasHandled /\ GoneWasHandled)'
  BY <1>1, <1>2, <1>3, <1>6 DEF StreamInv, HoldsWhileBusy, AckedWasHandled, GoneWasHandled, Idle
<1>10. FiledUnderOwnJob'
  BY <1>7, SMTT(30) DEF StreamInv, FiledUnderOwnJob
<1>11. ASSUME NEW x \in Messages', x \notin jsCrossed' PROVE Uncrossed(x)'
  <2>1. x \in Messages /\ Uncrossed(x) /\ x # NoMsg
    BY <1>1, <1>2, <1>11, MessageHasEntry, SMTT(30) DEF StreamInv
  <2>2. \A v \in AllWorkers : jsWk'[v].msg = x =>
          jsWk[v].msg = x /\ (v # w => jsWk'[v] = jsWk[v]) /\ (v = w => x = m /\ jsWk'[v].pc \in {"ack", "nak"})
    BY <2>1, <1>6, SMTT(30) DEF Idle, m
  <2>3. (HeldIsOut(x) /\ OneHolder(x))'
    BY <2>1, <2>2, <1>2, Zenon DEF Uncrossed, HeldIsOut, OneHolder
  <2>4. SettledIsGone(x)'
    <3>1. x = m => Pending(p, m) # {}
      BY <2>1, <1>1, Zenon DEF Uncrossed, ClaimIsPending, Pending, m, p
    <3> QED BY <3>1, <2>1, <1>2, <1>c, SMTT(30) DEF Uncrossed, SettledIsGone
  <2>5. ASSUME NEW v \in AllWorkers, jsWk'[v].msg = x, jsWk'[v].pc \in {"claimed", "done", "retry"}
        PROVE  \E e \in jsPending'[ProcOf(v)] : e.id = x
    <3>1. v # w /\ jsWk'[v] = jsWk[v] /\ jsWk[v].msg = x
      BY <2>2, <2>5, SMTT(30)
    <3>2. x # m
      BY <3>1, <2>1, Zenon DEF Uncrossed, OneHolder, m
    <3>3. PICK e \in jsPending[ProcOf(v)] : e.id = x
      BY <3>1, <2>1, <2>5, SMTT(30) DEF Uncrossed, ClaimIsPending
    <3>4. e \in jsPending'[ProcOf(v)]
      BY <3>2, <3>3, <1>7, WorkerOfItsProcess, Zenon
    <3> QED BY <3>3, <3>4, Zenon
  <2> QED BY <2>3, <2>4, <2>5, Zenon DEF Uncrossed, ClaimIsPending
<1> QED BY <1>8, <1>9, <1>10, <1>11, Zenon DEF StreamInv

\* A worker lets its message go. What the server makes of it, and whether MarkDone
\* reported it done, is up to Ack, AckLost and Nak.
LEMMA LetGo ==
  ASSUME StreamInv, NEW w \in AllWorkers, NEW m, m = jsWk[w].msg, jsWk[w].pc \in {"ack", "nak"},
         jsWk' = [jsWk EXCEPT ![w] = Idle], UNCHANGED <<jsPending, jsNextSub, jsHandled>>,
         jsLog' \in [KindSet -> Seq(LogEntry)], Messages' = Messages,
         \A x \in Messages : x # m => Entry(x)' = Entry(x),
         Entry(m)'.state = "gone" => m \in jsHandled,
         jsSettled' \subseteq jsSettled \cup {m}, jsCrossed \subseteq jsCrossed',
         jsCrossed' \subseteq jsCrossed \cup {m},
         m \in jsSettled' => m \in jsCrossed' \/ Entry(m)'.state = "gone"
  PROVE  StreamInv'
<1>1. StreamType /\ m \in Messages /\ m # NoMsg /\ jsWk \in [AllWorkers -> WorkerState]
  BY Zenon DEF StreamInv, StreamType, WorkerState, HoldsWhileBusy
<1>2. /\ jsWk' \in [AllWorkers -> WorkerState] /\ jsWk'[w] = Idle
      /\ \A v \in AllWorkers : v # w => jsWk'[v] = jsWk[v]
  <2>1. Idle \in WorkerState
    BY SubscriptionCount DEF Idle, WorkerState
  <2> QED BY <2>1, <1>1, Zenon
<1>3. StreamType'
  BY <1>1, <1>2, SMTT(30) DEF StreamType, WorkerState
<1>4. (HoldsWhileBusy /\ FiledUnderOwnJob /\ AckedWasHandled)'
  BY <1>2, Zenon DEF StreamInv, HoldsWhileBusy, FiledUnderOwnJob, AckedWasHandled, Idle
<1>5. GoneWasHandled'
  BY <1>1, Zenon DEF StreamInv, GoneWasHandled
<1>6. ASSUME NEW x \in Messages', x \notin jsCrossed' PROVE Uncrossed(x)'
  <2>1. x \in Messages /\ Uncrossed(x) /\ x # NoMsg
    BY <1>1, <1>6, MessageHasEntry, Zenon DEF StreamInv
  <2>2. \A v \in AllWorkers : jsWk'[v].msg = x => v # w /\ jsWk'[v] = jsWk[v]
    BY <2>1, <1>2, SMTT(30) DEF Idle
  <2>3. CASE x = m
    <3>1. \A v \in AllWorkers : jsWk'[v].msg # x
      BY <2>1, <2>2, <2>3, SMTT(30) DEF Uncrossed, OneHolder
    <3> QED BY <3>1, <2>3, <1>6, SMTT(30) DEF Uncrossed, HeldIsOut, OneHolder, ClaimIsPending, SettledIsGone
  <2>4. CASE x # m
    BY <2>1, <2>2, <2>4 DEF Uncrossed, HeldIsOut, OneHolder, ClaimIsPending, SettledIsGone
  <2> QED BY <2>3, <2>4, SMTT(30)
<1> QED BY <1>3, <1>4, <1>5, <1>6, Zenon DEF StreamInv

\* Acknowledged, without or with the acknowledgement lost, or put back with a delay.
LEMMA SettleKeeps ==
  ASSUME StreamInv, NEW w \in AllWorkers, Ack(w) \/ AckLost(w) \/ Nak(w) PROVE StreamInv'
<1>1. PICK m : m = jsWk[w].msg
  OBVIOUS
<1>2. /\ jsWk[w].pc \in {"ack", "nak"} /\ jsWk' = [jsWk EXCEPT ![w] = Idle]
      /\ UNCHANGED <<jsPending, jsNextSub, jsHandled>>
  BY Zenon DEF Ack, AckLost, Nak
<1>3. StreamType /\ m \in Messages
  BY <1>1, <1>2, Zenon DEF StreamInv, StreamType, WorkerState, HoldsWhileBusy
<1>4. Entry(m) \in LogEntry /\ jsLog \in [KindSet -> Seq(LogEntry)]
  BY <1>3, MessageHasEntry, Zenon DEF StreamType
<1>5. CASE Ack(w)
  <2>1. /\ jsLog' = With(m, [Entry(m) EXCEPT !.state = "gone"]) /\ jsWk[w].pc = "ack"
        /\ jsSettled' = jsSettled \cup {m} /\ jsCrossed' = jsCrossed
    BY <1>1, <1>5, Zenon DEF Ack
  <2>2. [Entry(m) EXCEPT !.state = "gone"] \in LogEntry /\ [Entry(m) EXCEPT !.state = "gone"].state = "gone"
    BY <1>4, EntryChanges, Zenon
  <2>3. /\ jsLog' \in [KindSet -> Seq(LogEntry)] /\ Messages' = Messages /\ Entry(m)'.state = "gone"
        /\ \A x \in Messages : x # m => Entry(x)' = Entry(x)
    BY <2>1, <2>2, <1>3, Rewritten, Zenon
  <2>4. m \in jsHandled
    BY <2>1, <1>1, Zenon DEF StreamInv, AckedWasHandled
  <2> QED BY <2>1, <2>3, <2>4, <1>1, <1>2, LetGo, Zenon
<1>6. CASE AckLost(w)
  <2>1. /\ UNCHANGED jsLog /\ jsCrossed' = jsCrossed \cup {m}
        /\ jsSettled' = jsSettled \cup {m}
    BY <1>1, <1>6, Zenon DEF AckLost, serverVars
  <2>2. Messages' = Messages /\ \A x \in Messages : Entry(x)' = Entry(x)
    BY <2>1 DEF Messages, Entry
  <2>3. Entry(m)'.state = "gone" => m \in jsHandled
    BY <2>2, <1>3, Zenon DEF StreamInv, GoneWasHandled
  <2> QED BY <2>1, <2>2, <2>3, <1>1, <1>2, <1>4, LetGo, Zenon
<1>7. CASE Nak(w)
  <2>1. UNCHANGED <<jsSettled, jsCrossed>>
    BY <1>7, Zenon DEF Nak
  <2>2. CASE Entry(m).state = "out"
    <3>1. jsLog' = With(m, [Entry(m) EXCEPT !.state = "delayed"])
      BY <2>2, <1>1, <1>7, Zenon DEF Nak
    <3>2. [Entry(m) EXCEPT !.state = "delayed"] \in LogEntry /\ [Entry(m) EXCEPT !.state = "delayed"].state = "delayed"
      BY <1>4, EntryChanges, Zenon
    <3>3. /\ jsLog' \in [KindSet -> Seq(LogEntry)] /\ Messages' = Messages /\ Entry(m)'.state = "delayed"
          /\ \A x \in Messages : x # m => Entry(x)' = Entry(x)
      BY <3>1, <3>2, <1>3, Rewritten, Zenon
    <3>4. m \in jsSettled' => m \in jsCrossed'
      BY <2>1, <2>2, <1>3, Zenon DEF StreamInv, Uncrossed, SettledIsGone
    <3> QED BY <3>3, <3>4, <2>1, <1>1, <1>2, LetGo, Zenon
  <2>3. CASE Entry(m).state # "out"
    <3>1. jsLog' = jsLog
      BY <2>3, <1>1, <1>7, Zenon DEF Nak
    <3>2. Messages' = Messages /\ \A x \in Messages : Entry(x)' = Entry(x)
      BY <3>1 DEF Messages, Entry
    <3>3. Entry(m)'.state = "gone" => m \in jsHandled
      BY <3>2, <1>3, Zenon DEF StreamInv, GoneWasHandled
    <3>4. m \in jsSettled' => m \in jsCrossed' \/ Entry(m)'.state = "gone"
      BY <3>2, <2>1, <1>3, Zenon DEF StreamInv, Uncrossed, SettledIsGone
    <3> QED BY <3>1, <3>2, <3>3, <3>4, <2>1, <1>1, <1>2, <1>4, LetGo, Zenon
  <2> QED BY <2>2, <2>3, Zenon
<1> QED BY <1>5, <1>6, <1>7, Zenon

\* A delay or an ack wait ends: an uncrossed message that comes back has no holder.
LEMMA TimeKeeps ==
  ASSUME StreamInv, NEW m \in Messages, DelayEnds(m) \/ AckWaitEnds(m) PROVE StreamInv'
<1>1. /\ jsLog' = With(m, [Entry(m) EXCEPT !.state = "ready"]) /\ StreamType
      /\ Entry(m).state \in {"delayed", "out"}
      /\ UNCHANGED <<jsPending, jsNextSub, jsWk, jsHandled, jsSettled>>
      /\ jsCrossed' \in {jsCrossed, jsCrossed \cup {m}}
      /\ Entry(m).state = "out" => m \in jsCrossed' \/ \A w \in AllWorkers : jsWk[w].msg # m
  BY Zenon DEF DelayEnds, AckWaitEnds, Holders, StreamInv
<1>2. Entry(m) \in LogEntry
  BY <1>1, MessageHasEntry, Zenon
<1>3. [Entry(m) EXCEPT !.state = "ready"] \in LogEntry /\ [Entry(m) EXCEPT !.state = "ready"].state = "ready"
  BY <1>2, EntryChanges, Zenon
<1>4. /\ jsLog' \in [KindSet -> Seq(LogEntry)] /\ Messages' = Messages /\ Entry(m)'.state = "ready"
      /\ \A x \in Messages : x # m => Entry(x)' = Entry(x)
  BY <1>1, <1>3, Rewritten, Zenon
<1>5. StreamType'
  BY <1>1, <1>4, Zenon DEF StreamType, WorkerState
<1>6. (HoldsWhileBusy /\ FiledUnderOwnJob /\ AckedWasHandled /\ GoneWasHandled)'
  BY <1>1, <1>4, Zenon DEF StreamInv, HoldsWhileBusy, FiledUnderOwnJob, AckedWasHandled, GoneWasHandled
<1>7. ASSUME NEW x \in Messages', x \notin jsCrossed' PROVE Uncrossed(x)'
  <2>1. x \in Messages /\ Uncrossed(x)
    BY <1>1, <1>4, <1>7, Zenon DEF StreamInv
  <2>2. CASE x = m
    <3>1. (\A w \in AllWorkers : jsWk[w].msg # m) /\ m \notin jsSettled
      BY <2>1, <2>2, <1>1, <1>7, Zenon DEF Uncrossed, HeldIsOut, SettledIsGone
    <3> QED BY <3>1, <2>2, <1>1, Zenon DEF Uncrossed, HeldIsOut, OneHolder, ClaimIsPending, SettledIsGone
  <2>3. CASE x # m
    BY <2>1, <2>3, <1>1, <1>4, Zenon DEF Uncrossed, HeldIsOut, OneHolder, ClaimIsPending, SettledIsGone
  <2> QED BY <2>2, <2>3, Zenon
<1> QED BY <1>5, <1>6, <1>7, Zenon DEF StreamInv

\* A crash takes a process's workers with its pending map.
LEMMA ProcessDiesKeeps ==
  ASSUME StreamInv, NEW p \in Procs, ProcessDies(p) PROVE StreamInv'
<1>1. /\ UNCHANGED <<jsLog, jsHandled, jsSettled, jsCrossed>> /\ StreamType
      /\ jsPending' = [jsPending EXCEPT ![p] = {}] /\ jsNextSub' = [jsNextSub EXCEPT ![p] = 0]
      /\ jsWk' = [w \in AllWorkers |-> IF w \in JSWorkers[p] THEN Idle ELSE jsWk[w]]
  BY Zenon DEF ProcessDies, StreamInv, serverVars
<1>2. Messages' = Messages /\ \A x \in Messages : Entry(x)' = Entry(x)
  BY <1>1 DEF Messages, Entry
<1>3. /\ jsWk' \in [AllWorkers -> WorkerState]
      /\ \A w \in AllWorkers : jsWk'[w] = Idle \/ (jsWk'[w] = jsWk[w] /\ ProcOf(w) # p)
  <2>1. Idle \in WorkerState
    BY SubscriptionCount DEF Idle, WorkerState
  <2>2. \A w \in AllWorkers : w \notin JSWorkers[p] => ProcOf(w) # p
    BY WorkerOfItsProcess, SMTT(30)
  <2> QED BY <2>1, <2>2, <1>1, Zenon DEF StreamType
<1>4. StreamType'
  BY <1>1, <1>2, <1>3, SubscriptionCount, SMTT(30) DEF StreamType, WorkerState
<1>5. (HoldsWhileBusy /\ FiledUnderOwnJob /\ AckedWasHandled /\ GoneWasHandled)'
  BY <1>1, <1>2, <1>3, ZenonT(60)
    DEF StreamInv, StreamType, HoldsWhileBusy, FiledUnderOwnJob, AckedWasHandled, GoneWasHandled, Idle
<1>6. ASSUME NEW x \in Messages', x \notin jsCrossed' PROVE Uncrossed(x)'
  <2>1. x \in Messages /\ Uncrossed(x) /\ x # NoMsg
    BY <1>1, <1>2, <1>6, MessageHasEntry, SMTT(30) DEF StreamInv
  <2>2. \A w \in AllWorkers : jsWk'[w].msg = x => /\ jsWk'[w] = jsWk[w]
                                                 /\ jsPending'[ProcOf(w)] = jsPending[ProcOf(w)]
    BY <2>1, <1>1, <1>3, WorkerOfItsProcess, Zenon DEF Idle, StreamType
  <2> QED BY <2>1, <2>2, <1>1, <1>2 DEF Uncrossed, HeldIsOut, OneHolder, ClaimIsPending, SettledIsGone
<1> QED BY <1>4, <1>5, <1>6, Zenon DEF StreamInv

\* The invariant is inductive.
LEMMA StreamInvNext == StreamInv /\ [JSNext]_jsVars => StreamInv'
<1> SUFFICES ASSUME StreamInv, [JSNext]_jsVars PROVE StreamInv'
  OBVIOUS
<1>1. CASE \E r \in Requests : EnqueueKeyed(r) \/ EnqueueFails(r)
  BY <1>1, PublishKeeps, Zenon
<1>2. CASE \E w \in AllWorkers : JSWorkerStep(w) \/ AckLost(w)
  BY <1>2, FetchKeeps, FetchEmptyKeeps, FileKeeps, DeliveryKeeps, TakePendingKeeps, SettleKeeps, Zenon
    DEF JSWorkerStep
<1>3. CASE \E m \in Messages : DelayEnds(m) \/ AckWaitEnds(m)
  BY <1>3, TimeKeeps, Zenon
<1>4. CASE \E p \in Procs : ProcessDies(p)
  BY <1>4, ProcessDiesKeeps, Zenon
<1>5. CASE UNCHANGED jsVars
  <2>1. UNCHANGED <<jsLog, jsPending, jsNextSub, jsWk, jsHandled, jsSettled, jsCrossed>>
    BY <1>5, Zenon DEF jsVars
  <2>2. Messages' = Messages /\ \A x : Entry(x)' = Entry(x)
    BY <2>1, SMTT(30) DEF Messages, Entry
  <2>3. (StreamType /\ HoldsWhileBusy /\ FiledUnderOwnJob /\ AckedWasHandled /\ GoneWasHandled)'
    BY <2>1, <2>2, SMTT(30) DEF StreamInv, StreamType, WorkerState, HoldsWhileBusy, FiledUnderOwnJob,
      AckedWasHandled, GoneWasHandled
  <2>4. ASSUME NEW x \in Messages', x \notin jsCrossed' PROVE Uncrossed(x)'
    BY <2>1, <2>2, <2>4 DEF StreamInv, Uncrossed, HeldIsOut, OneHolder, ClaimIsPending, SettledIsGone
  <2> QED BY <2>3, <2>4, Zenon DEF StreamInv
<1> QED BY <1>1, <1>2, <1>3, <1>4, <1>5, Zenon DEF JSNext

\* JetStream's MarkDone settles the job it was called for: a message leaves the queue
\* only after a worker processed it, and a job reported done is never delivered again
\* unless an ack wait ended under a worker or an acknowledgement was lost.
THEOREM StreamAlwaysSettlesOwnJob == JSSpec => []StreamSettlesOwnJob
<1>1. StreamInv => StreamSettlesOwnJob
  BY SMTT(30) DEF StreamInv, StreamType, StreamSettlesOwnJob, DoneIsGoneUnlessCrossed, Uncrossed, SettledIsGone
<1> QED BY <1>1, StreamInvInit, StreamInvNext, PTL DEF JSSpec

\* Every variable of the JetStream queue keeps its type.
THEOREM StreamTypeAlways == JSSpec => []JSTypeOK
<1>1. StreamInv => JSTypeOK
  <2> SUFFICES ASSUME StreamInv PROVE JSTypeOK
    OBVIOUS
  <2>1. \A m \in Messages : Entry(m) \in LogEntry
    BY MessageHasEntry, Zenon DEF StreamInv
  <2> QED BY <2>1, SubscriptionCount DEF JSTypeOK, StreamInv, StreamType, WorkerState, LogEntry
<1> QED BY <1>1, StreamInvInit, StreamInvNext, PTL DEF JSSpec

-----------------------------------------------------------------------------
\* The append-only log

USE LogAssumption

LogType ==
  /\ nextSeq \in Nat \ {0} /\ lastSeq \in 0..nextSeq - 1
  /\ log \subseteq 1..nextSeq - 1
  /\ retry \in [Seqs -> {"none", "delayed", "due"}]
  /\ appending \subseteq Clients
  /\ nextSeq + Cardinality(appending) <= MaxEvents + 1
  /\ pc \in {"idle", "claimed", "done", "trim", "retry"}

\* Every row past the watermark is in the log.
LogKept == \A s \in lastSeq + 1..nextSeq - 1 : s \in log
\* Every row up to the watermark was processed or requeued.
Consumed == \A s \in 1..lastSeq : s \in handled \/ s \in requeued
DelayedWereRequeued == \A s \in Seqs : retry[s] # "none" => s \in requeued
\* The rows that the claimed one has overtaken were requeued.
Claimed ==
  pc # "idle" =>
    /\ cur \in 1..nextSeq - 1
    /\ \A s \in lastSeq + 1..cur - 1 : s \in requeued
    /\ pc = "done" => cur \in handled
    /\ pc = "trim" => cur <= lastSeq
\* Each client that is about to append has a place of its own past the limit.
Places == nextSeq - 1 - lastSeq + Cardinality(appending) <= Limit - 1 + Cardinality(Clients)

QInv == LogType /\ LogKept /\ Consumed /\ DelayedWereRequeued /\ Claimed /\ Places

\* The clients that are appending are finitely many.
LEMMA Appending ==
  ASSUME LogType
  PROVE  /\ IsFiniteSet(appending) /\ Cardinality(Clients) \in Nat
         /\ Cardinality(appending) \in Nat /\ Cardinality(appending) <= Cardinality(Clients)
         /\ \A c \in Clients \ appending :
              /\ Cardinality(appending \cup {c}) = Cardinality(appending) + 1
              /\ Cardinality(appending) + 1 <= Cardinality(Clients)
         /\ \A c \in appending :
              /\ Cardinality(appending \ {c}) = Cardinality(appending) - 1
              /\ Cardinality(appending) > 0
<1>1. IsFiniteSet(Clients) /\ appending \subseteq Clients
  BY Zenon DEF LogType
<1>2. /\ IsFiniteSet(appending) /\ Cardinality(appending) <= Cardinality(Clients)
  BY <1>1, FS_Subset, Zenon
<1>3. Cardinality(Clients) \in Nat /\ Cardinality(appending) \in Nat
  BY <1>1, <1>2, FS_CardinalityType, Zenon
<1>4. ASSUME NEW c \in Clients \ appending
      PROVE  /\ Cardinality(appending \cup {c}) = Cardinality(appending) + 1
             /\ Cardinality(appending) + 1 <= Cardinality(Clients)
  <2>1. Cardinality(appending \cup {c}) = Cardinality(appending) + 1
    BY <1>2, FS_AddElement, Zenon
  <2>2. appending \cup {c} \subseteq Clients
    BY <1>1, Zenon
  <2>3. Cardinality(appending \cup {c}) <= Cardinality(Clients)
    BY <1>1, <2>2, FS_Subset, Zenon
  <2> QED BY <2>1, <2>3, Zenon
<1>5. ASSUME NEW c \in appending
      PROVE  /\ Cardinality(appending \ {c}) = Cardinality(appending) - 1
             /\ Cardinality(appending) > 0
  <2>1. IsFiniteSet(appending \ {c}) /\ Cardinality(appending \ {c}) = Cardinality(appending) - 1
    BY <1>2, FS_RemoveElement, Zenon
  <2>2. Cardinality(appending \ {c}) \in Nat
    BY <2>1, FS_CardinalityType, Zenon
  <2> QED BY <1>3, <2>1, <2>2
<1> QED BY <1>2, <1>3, <1>4, <1>5, Zenon

\* appendOnlyBacklog counts the rows past the watermark, unless there are none.
LEMMA BacklogCounts ==
  ASSUME LogType, LogKept, Backlog < Limit
  PROVE  nextSeq - 1 - lastSeq < Limit
<1>1. CASE lastSeq = nextSeq - 1
  BY <1>1 DEF LogType
<1>2. CASE lastSeq # nextSeq - 1
  <2>1. nextSeq - 1 \in log /\ \A t \in log : t <= nextSeq - 1
    BY <1>2 DEF LogType, LogKept
  <2>2. \A s \in log : (\A t \in log : t <= s) => s = nextSeq - 1
    BY <2>1 DEF LogType
  <2>3. MaxSeq = nextSeq - 1
    BY <2>1, <2>2, Zenon DEF MaxSeq
  <2> QED BY <2>3, Zenon DEF Backlog
<1> QED BY <1>1, <1>2, Zenon

\* An empty log.
LEMMA QInvInit == Init => QInv
<1> SUFFICES ASSUME Init PROVE QInv
  OBVIOUS
<1>1. Cardinality({}) = 0
  BY FS_EmptySet, Zenon
<1>2. Cardinality(Clients) \in Nat
  BY FS_CardinalityType, Zenon
<1> QED
  BY <1>1, <1>2
  DEF Init, QInv, LogType, LogKept, Consumed, DelayedWereRequeued, Claimed, Places

\* Requests keep the invariant.
LEMMA RequestsKeep ==
  ASSUME QInv, NEW c \in Clients, CountBacklog(c) \/ AppendRow(c)
  PROVE  QInv'
<1> USE DEF QInv
<1>1. CASE CountBacklog(c)
  <2>1. /\ c \in Clients \ appending /\ appending' = appending \cup {c}
        /\ nextSeq + Cardinality(appending) <= MaxEvents
        /\ UNCHANGED <<log, nextSeq, lastSeq, retry, pc, cur, handled, requeued>>
    BY <1>1, Zenon DEF CountBacklog, Room, storeVars
  <2>2. nextSeq - 1 - lastSeq < Limit
    BY <1>1, BacklogCounts, Zenon DEF CountBacklog
  <2>3. LogType' /\ Places'
    BY <2>1, <2>2, Appending DEF LogType, Places
  <2>4. LogKept' /\ Consumed' /\ DelayedWereRequeued' /\ Claimed'
    BY <2>1, Zenon DEF LogKept, Consumed, DelayedWereRequeued, Claimed
  <2> QED BY <2>3, <2>4, Zenon
<1>2. CASE AppendRow(c)
  <2>1. /\ c \in appending /\ appending' = appending \ {c}
        /\ log' = log \cup {nextSeq} /\ nextSeq' = nextSeq + 1
        /\ UNCHANGED <<lastSeq, retry, pc, cur, handled, requeued>>
    BY <1>2, Zenon DEF AppendRow
  <2>2. LogType'
    <3>1. Cardinality(appending') = Cardinality(appending) - 1 /\ Cardinality(appending) \in Nat
      BY <2>1, Appending, Zenon
    <3>2. nextSeq' + Cardinality(appending') <= MaxEvents + 1
      BY <2>1, <3>1 DEF LogType
    <3>3. nextSeq' \in Nat \ {0} /\ lastSeq' \in 0..nextSeq' - 1 /\ log' \subseteq 1..nextSeq' - 1
      BY <2>1 DEF LogType
    <3> QED BY <2>1, <3>2, <3>3, Zenon DEF LogType
  <2>3. Places'
    <3>1. Cardinality(appending') = Cardinality(appending) - 1 /\ Cardinality(appending) \in Nat
      BY <2>1, Appending, Zenon
    <3>2. Cardinality(Clients) \in Nat /\ nextSeq \in Nat /\ lastSeq \in Nat
      BY Appending DEF LogType
    <3> QED BY <2>1, <3>1, <3>2 DEF Places
  <2>4. LogKept'
    BY <2>1 DEF LogKept, LogType
  <2>5. Claimed'
    BY <2>1 DEF Claimed, LogType
  <2>6. Consumed' /\ DelayedWereRequeued'
    BY <2>1, Zenon DEF Consumed, DelayedWereRequeued
  <2> QED BY <2>2, <2>3, <2>4, <2>5, <2>6, Zenon
<1> QED BY <1>1, <1>2, Zenon

\* The claim is the smallest row that is not delayed: those it steps over are.
LEMMA ClaimKeeps ==
  ASSUME QInv, ClaimNext PROVE QInv'
<1> USE DEF QInv
<1>1. /\ cur' \in log /\ cur' > lastSeq
      /\ \A t \in log : t > lastSeq /\ retry[t] # "delayed" => cur' <= t
      /\ pc' = "claimed"
      /\ UNCHANGED <<log, nextSeq, lastSeq, retry, appending, handled, requeued>>
  BY Zenon DEF ClaimNext, Claimable, storeVars
<1>2. ASSUME NEW s \in lastSeq + 1..cur' - 1 PROVE s \in requeued
  <2> DEFINE t == cur'
  <2>0. t \in 1..nextSeq - 1 /\ lastSeq \in Nat /\ nextSeq \in Nat
    BY <1>1 DEF LogType
  <2> HIDE DEF t
  <2>5. s \in lastSeq + 1..t - 1
    BY <1>2, Zenon DEF t
  <2>1. s \in log /\ s > lastSeq /\ ~(t <= s)
    BY <2>0, <2>5 DEF LogKept
  <2>2. retry[s] = "delayed"
    BY <1>1, <2>1, Zenon DEF t
  <2>3. nextSeq - 1 <= MaxEvents
    BY Appending DEF LogType
  <2>4. s \in Seqs
    BY <2>1, <2>3 DEF Seqs, LogType
  <2> QED BY <2>2, <2>4, Zenon DEF DelayedWereRequeued
<1>3. Claimed'
  BY <1>1, <1>2, Zenon DEF Claimed, LogType
<1>4. LogType' /\ LogKept' /\ Consumed' /\ DelayedWereRequeued' /\ Places'
  BY <1>1, Zenon DEF LogType, LogKept, Consumed, DelayedWereRequeued, Places
<1> QED BY <1>3, <1>4, Zenon

\* The other steps of the worker, a crash, and the end of a delay.
LEMMA WorkerKeeps ==
  ASSUME QInv,
         \/ ProcessOk \/ ProcessFails \/ MarkDone \/ Trim \/ Requeue \/ Interrupt
         \/ \E s \in Seqs : BecomeDue(s)
  PROVE  QInv'
<1> USE DEF QInv
<1>0. nextSeq - 1 <= MaxEvents
  BY Appending DEF LogType
<1>1. CASE ProcessOk
  BY <1>1, Zenon DEF ProcessOk, storeVars, LogType, LogKept, Consumed, DelayedWereRequeued, Claimed, Places
<1>2. CASE ProcessFails
  BY <1>2, Zenon DEF ProcessFails, storeVars, LogType, LogKept, Consumed, DelayedWereRequeued, Claimed, Places
<1>3. CASE MarkDone
  <2>1. /\ pc = "done" /\ pc' = "trim" /\ lastSeq' = IF cur > lastSeq THEN cur ELSE lastSeq
        /\ UNCHANGED <<log, nextSeq, retry, appending, cur, handled, requeued>>
    BY <1>3, Zenon DEF MarkDone
  <2>2. cur \in 1..nextSeq - 1 /\ cur \in handled
    BY <2>1, Zenon DEF Claimed
  <2>3. lastSeq \in Nat /\ nextSeq \in Nat
    BY DEF LogType
  <2>4. LogType' /\ LogKept'
    BY <2>1, <2>2, <2>3 DEF LogType, LogKept
  <2>7. Places'
    <3>1. Cardinality(Clients) \in Nat /\ Cardinality(appending) \in Nat
      BY Appending, Zenon
    <3>2. lastSeq' >= lastSeq /\ lastSeq' \in Nat
      BY <2>1, <2>2, <2>3
    <3> QED BY <2>1, <2>3, <3>1, <3>2 DEF Places
  <2>5. Consumed'
    <3> SUFFICES ASSUME NEW s \in 1..lastSeq' PROVE s \in handled \/ s \in requeued
      BY <2>1, Zenon DEF Consumed
    <3>1. s <= lastSeq \/ s \in lastSeq + 1..cur - 1 \/ s = cur
      BY <2>1, <2>2, <2>3
    <3> QED BY <2>1, <2>2, <2>3, <3>1 DEF Consumed, Claimed
  <2>6. DelayedWereRequeued' /\ Claimed'
    BY <2>1, <2>2, <2>3 DEF DelayedWereRequeued, Claimed
  <2> QED BY <2>4, <2>5, <2>6, <2>7, Zenon
<1>4. CASE Trim
  <2> DEFINE Cut == IF cur % TrimInterval = 0 THEN 1..cur ELSE {}
  <2>1. /\ pc = "trim" /\ log' = log \ Cut /\ pc' = "idle"
        /\ retry' = [s \in Seqs |-> IF s = cur \/ s \in Cut THEN "none" ELSE retry[s]]
        /\ UNCHANGED <<nextSeq, lastSeq, appending, handled, requeued>>
    BY <1>4, Zenon DEF Trim
  <2>2. \A s \in Cut : s <= lastSeq
    BY <2>1 DEF Claimed, LogType
  <2> HIDE DEF Cut
  <2>3. retry' \in [Seqs -> {"none", "delayed", "due"}]
    BY <2>1, Zenon DEF LogType
  <2>5. LogType'
    BY <2>1, <2>3, Zenon DEF LogType
  <2>6. LogKept'
    BY <2>1, <2>2 DEF LogType, LogKept
  <2>4. Consumed' /\ Claimed' /\ Places' /\ DelayedWereRequeued'
    BY <2>1, Zenon DEF Consumed, Claimed, Places, DelayedWereRequeued
  <2> QED BY <2>4, <2>5, <2>6, Zenon
<1>5. CASE Requeue
  <2>1. /\ pc' = "idle" /\ retry' = [retry EXCEPT ![cur] = "delayed"]
        /\ requeued' = requeued \cup {cur}
        /\ UNCHANGED <<log, nextSeq, lastSeq, appending, handled>>
    BY <1>5, Zenon DEF Requeue
  <2>2. LogType' /\ DelayedWereRequeued'
    BY <2>1, Zenon DEF LogType, DelayedWereRequeued
  <2>3. LogKept' /\ Consumed' /\ Claimed' /\ Places'
    BY <2>1, Zenon DEF LogKept, Consumed, Claimed, Places
  <2> QED BY <2>2, <2>3, Zenon
<1>6. CASE Interrupt
  BY <1>6, Zenon DEF Interrupt, storeVars, LogType, LogKept, Consumed, DelayedWereRequeued, Claimed, Places
<1>7. ASSUME NEW s \in Seqs, BecomeDue(s) PROVE QInv'
  <2>1. /\ retry[s] = "delayed" /\ retry' = [retry EXCEPT ![s] = "due"]
        /\ UNCHANGED <<log, nextSeq, lastSeq, appending, pc, cur, handled, requeued>>
    BY <1>7, Zenon DEF BecomeDue
  <2>2. LogType' /\ DelayedWereRequeued'
    BY <2>1, Zenon DEF LogType, DelayedWereRequeued
  <2>3. LogKept' /\ Consumed' /\ Claimed' /\ Places'
    BY <2>1, Zenon DEF LogKept, Consumed, Claimed, Places
  <2> QED BY <2>2, <2>3, Zenon
<1> QED BY <1>1, <1>2, <1>3, <1>4, <1>5, <1>6, <1>7, Zenon

\* Every step of Next keeps the invariant.
LEMMA QInvNext == QInv /\ [Next]_vars => QInv'
<1> SUFFICES ASSUME QInv, [Next]_vars PROVE QInv'
  OBVIOUS
<1>1. CASE UNCHANGED vars
  BY <1>1, Zenon DEF vars, QInv, LogType, LogKept, Consumed, DelayedWereRequeued, Claimed, Places
<1>2. CASE IdlePoll
  BY <1>1, <1>2, Zenon DEF IdlePoll
<1> QED BY <1>1, <1>2, RequestsKeep, ClaimKeeps, WorkerKeeps, Zenon DEF Next, WorkerStep

\* Crashes, failed statements and concurrent appends lose nothing of the log: the
\* watermark and the trim pass an unprocessed row only when it failed and was requeued.
THEOREM OnlyRequeuedSkipped == Spec => []SkippedOnlyAfterRequeue
<1>1. QInv => SkippedOnlyAfterRequeue
  BY DEF QInv, SkippedOnlyAfterRequeue, LogType, LogKept, Consumed
<1> QED BY <1>1, QInvInit, QInvNext, PTL DEF Spec

\* Whatever the clients and the limit, concurrent requests of Enqueue pass the limit by
\* fewer rows than there are clients.
THEOREM BacklogStaysBounded == Spec => []BacklogBounded
<1>1. QInv => BacklogBounded
  BY Appending DEF QInv, BacklogBounded, LogType, Places
<1> QED BY <1>1, QInvInit, QInvNext, PTL DEF Spec

\* The rows that the worker has in hand, and those it is done with, are rows of the log.
LogRanges ==
  /\ cur \in 0..MaxEvents /\ faults \in 0..MaxFaults
  /\ handled \subseteq Seqs /\ requeued \subseteq Seqs

LEMMA LogRangesNext == QInv /\ LogRanges /\ [Next]_vars => LogRanges'
<1> SUFFICES ASSUME QInv, LogRanges, [Next]_vars PROVE LogRanges'
  OBVIOUS
<1>1. log \subseteq Seqs
  <2>1. Cardinality(appending) \in Nat
    BY Appending, Zenon DEF QInv
  <2> QED BY <2>1 DEF QInv, LogType, Seqs
<1>2. pc # "idle" => cur \in Seqs
  <2>1. Cardinality(appending) \in Nat
    BY Appending, Zenon DEF QInv
  <2> QED BY <2>1 DEF QInv, LogType, Claimed, Seqs
<1>3. cur' \in {cur, 0} \cup Seqs
  BY <1>1, Zenon DEF Next, vars, CountBacklog, AppendRow, WorkerStep, ClaimNext, Claimable, ProcessOk,
    ProcessFails, MarkDone, Trim, Requeue, Interrupt, BecomeDue, IdlePoll
<1>4. faults' = faults \/ (faults < MaxFaults /\ faults' = faults + 1)
  BY Zenon DEF Next, vars, CountBacklog, AppendRow, WorkerStep, ClaimNext, ProcessOk,
    ProcessFails, MarkDone, Trim, Requeue, Interrupt, BecomeDue, IdlePoll
<1>5. handled' \subseteq handled \cup Seqs /\ requeued' \subseteq requeued \cup Seqs
  BY <1>2, Zenon DEF Next, vars, CountBacklog, AppendRow, WorkerStep, ClaimNext, ProcessOk,
    ProcessFails, MarkDone, Trim, Requeue, Interrupt, BecomeDue, IdlePoll
<1> QED BY <1>3, <1>4, <1>5 DEF LogRanges, Seqs

\* Every variable of the log has its type: its sequence numbers stay within those handed out.
THEOREM LogTypeAlways == Spec => []TypeOK
<1>1. Init => LogRanges
  BY DEF Init, LogRanges
<1>2. QInv /\ LogRanges => TypeOK
  <2> SUFFICES ASSUME QInv, LogRanges PROVE TypeOK
    OBVIOUS
  <2>1. Cardinality(appending) \in Nat
    BY Appending, Zenon DEF QInv
  <2> QED BY <2>1 DEF QInv, LogType, LogRanges, TypeOK, Seqs
<1> QED BY <1>1, <1>2, QInvInit, QInvNext, LogRangesNext, PTL DEF Spec

-----------------------------------------------------------------------------
\* The channel

Elems(q) == {q[n] : n \in 1..Len(q)}
InQueue == Elems(queue)
InAlerts == Elems(alertQueue)
Busy == {"process", "dispatch"}

ChannelType ==
  /\ stop \in StopSteps
  /\ req \in [Items -> {"none", "sending", "accepted", "rejected"}]
  /\ queue \in Seq(Items) /\ alertQueue \in Seq(Items)
  /\ wk \in [Workers -> [pc : {"top", "select", "drain", "process", "dispatch", "exited"},
                         item : Items \cup {NoItem}, from : {"top", "drain"}]]
  /\ \A w \in Workers : wk[w].pc \in Busy => wk[w].item \in Items
  /\ alerter \in [pc : {"loop", "call", "drain", "exited"},
                  item : Items \cup {NoItem}, from : {"loop", "drain"}]
  /\ plHandled \subseteq Items
  /\ alerts \in [Items -> {"none", "queued", "dropped", "delivered"}]

Holds(w, i) == wk[w].pc = "process" /\ wk[w].item = i

\* An item that was accepted is in one place, any other in none.
OnePlace ==
  /\ \A m, n \in 1..Len(queue) : queue[m] = queue[n] => m = n
  /\ \A w, x \in Workers, i \in Items : Holds(w, i) /\ Holds(x, i) => w = x
  /\ \A i \in Items : i \in InQueue => i \notin plHandled /\ \A w \in Workers : ~Holds(w, i)
  /\ \A w \in Workers, i \in Items : Holds(w, i) => i \notin plHandled
  /\ \A i \in Items :
       req[i] = "accepted" <=> i \in InQueue \/ i \in plHandled \/ \E w \in Workers : Holds(w, i)

\* A queued alert is with the alert queue or with its worker. Once the alert worker may
\* stop, no worker is left to dispatch, and it leaves an empty queue.
AlertsKept ==
  /\ \A i \in Items : alerts[i] = "queued" => i \in InAlerts \/ (alerter.pc = "call" /\ alerter.item = i)
  /\ AlertStopClosed => \A w \in Workers : wk[w].pc = "exited"
  /\ alerter.pc \in {"drain", "exited"} \/ alerter.from = "drain" => AlertStopClosed
  /\ alerter.pc = "exited" => alertQueue = <<>>
  /\ stop = "returned" => alerter.pc = "exited"

CInv == ChannelType /\ OnePlace /\ AlertsKept

\* What sending to a channel makes of it.
LEMMA SendTo ==
  ASSUME NEW q \in Seq(Items), NEW x \in Items, NEW r, r = Append(q, x)
  PROVE  /\ r \in Seq(Items) /\ Len(r) = Len(q) + 1 /\ Len(q) \in Nat
         /\ \A n \in 1..Len(q) : r[n] = q[n]
         /\ r[Len(q) + 1] = x
         /\ Elems(r) = Elems(q) \cup {x}
<1>1. r \in Seq(Items) /\ Len(r) = Len(q) + 1 /\ Len(q) \in Nat
  OBVIOUS
<1>2. (\A n \in 1..Len(q) : r[n] = q[n]) /\ r[Len(q) + 1] = x
  OBVIOUS
<1>3. 1..Len(r) = 1..Len(q) \cup {Len(q) + 1}
  BY <1>1
<1> QED BY <1>1, <1>2, <1>3 DEF Elems

\* What receiving from a channel makes of it.
LEMMA ReceiveFrom ==
  ASSUME NEW q \in Seq(Items), q # <<>>, NEW r, r = Tail(q)
  PROVE  /\ r \in Seq(Items) /\ Len(q) = Len(r) + 1 /\ Len(r) \in Nat
         /\ \A n \in 1..Len(r) : r[n] = q[n + 1]
         /\ Head(q) = q[1] /\ Head(q) \in Items
         /\ Elems(q) = Elems(r) \cup {Head(q)}
<1>1. r \in Seq(Items) /\ Len(q) = Len(r) + 1 /\ Len(r) \in Nat
  OBVIOUS
<1>2. (\A n \in 1..Len(r) : r[n] = q[n + 1]) /\ Head(q) = q[1] /\ Head(q) \in Items
  BY <1>1
<1>3. ASSUME NEW n \in 1..Len(q) PROVE q[n] \in {r[k] : k \in 1..Len(r)} \cup {Head(q)}
  <2>1. CASE n = 1
    BY <1>2, <2>1, Zenon
  <2>2. CASE n # 1
    <3>1. n - 1 \in 1..Len(r) /\ (n - 1) + 1 = n
      BY <1>1, <2>2
    <3>2. r[n - 1] = q[n]
      BY <1>2, <3>1, Zenon
    <3> QED BY <3>1, <3>2, Zenon
  <2> QED BY <2>1, <2>2, Zenon
<1>4. ASSUME NEW k \in 1..Len(r) PROVE r[k] \in {q[n] : n \in 1..Len(q)}
  BY <1>1, <1>2
<1>5. Head(q) \in {q[n] : n \in 1..Len(q)}
  BY <1>1, <1>2
<1> QED BY <1>1, <1>2, <1>3, <1>4, <1>5 DEF Elems

\* Nothing is in the channel and everybody runs.
LEMMA CInvInit == PLInit => CInv
<1> SUFFICES ASSUME PLInit PROVE CInv
  OBVIOUS
<1>1. InQueue = {} /\ InAlerts = {} /\ queue = <<>> /\ alertQueue = <<>>
  BY DEF PLInit, InQueue, InAlerts, Elems
<1>2. \A w \in Workers : wk[w] = [pc |-> "top", item |-> NoItem, from |-> "top"]
  BY Zenon DEF PLInit, At
<1>3. ChannelType
  BY <1>1, <1>2 DEF PLInit, ChannelType, StopSteps, At, Busy
<1>4. OnePlace
  BY <1>1, <1>2 DEF PLInit, OnePlace, Holds
<1>5. AlertsKept
  BY Zenon DEF PLInit, AlertsKept, AlertStopClosed
<1> QED BY <1>3, <1>4, <1>5, Zenon DEF CInv

\* What leaves the channel and the workers alone leaves every item where it was.
LEMMA PlacesKept ==
  ASSUME OnePlace, UNCHANGED <<req, queue, wk, plHandled>>
  PROVE  OnePlace'
<1>1. InQueue' = InQueue /\ \A w, i : Holds(w, i)' <=> Holds(w, i)
  BY Zenon DEF InQueue, Holds
<1>2. req' = req /\ queue' = queue /\ plHandled' = plHandled
  BY Zenon
<1>3. \A m, n \in 1..Len(queue') : queue'[m] = queue'[n] => m = n
  BY ONLY <1>2, OnePlace, Zenon DEF OnePlace
<1> QED BY ONLY <1>1, <1>2, <1>3, OnePlace, Zenon DEF OnePlace

\* A request that is checked or sent.
LEMMA RequestKeeps ==
  ASSUME CInv, NEW i \in Items, CheckStopped(i) \/ Send(i)
  PROVE  CInv'
<1> USE DEF CInv
<1>1. UNCHANGED <<stop, wk, alertQueue, alerter, plHandled, alerts>>
  BY Zenon DEF CheckStopped, Send
<1>2. AlertsKept'
  BY <1>1, Zenon DEF AlertsKept, AlertStopClosed, InAlerts
<1>3. CASE queue' = queue /\ \E r \in {"sending", "rejected"} : req' = [req EXCEPT ![i] = r]
  <2>0. req[i] # "accepted"
    BY <1>3, Zenon DEF CheckStopped, Send
  <2>1. ChannelType'
    BY <1>1, <1>3, SMTT(30) DEF ChannelType
  <2>2. InQueue' = InQueue /\ \A w \in Workers, j \in Items : Holds(w, j)' <=> Holds(w, j)
    BY <1>1, <1>3, Zenon DEF InQueue, Holds
  <2>3. \A j \in Items : req'[j] = "accepted" <=> req[j] = "accepted"
    BY <1>3, <2>0, Zenon DEF ChannelType
  <2>4. OnePlace'
    BY <1>1, <1>3, <2>2, <2>3 DEF OnePlace
  <2> QED BY <1>2, <2>1, <2>4, Zenon
<1>4. CASE /\ queue' = Append(queue, i) /\ req[i] # "accepted"
           /\ req' = [req EXCEPT ![i] = "accepted"]
  <2>1. queue \in Seq(Items)
    BY Zenon DEF ChannelType
  <2>2. /\ queue' \in Seq(Items) /\ Len(queue') = Len(queue) + 1 /\ Len(queue) \in Nat
        /\ \A n \in 1..Len(queue) : queue'[n] = queue[n]
        /\ queue'[Len(queue) + 1] = i
        /\ InQueue' = InQueue \cup {i}
    <3>1. queue' = Append(queue, i)
      BY <1>4, Zenon
    <3>2. queue' \in Seq(Items) /\ InQueue' = InQueue \cup {i}
      BY ONLY <2>1, <3>1, i \in Items, SendTo, Zenon DEF InQueue
    <3>3. /\ Len(queue') = Len(queue) + 1 /\ Len(queue) \in Nat
          /\ \A n \in 1..Len(queue) : queue'[n] = queue[n]
          /\ queue'[Len(queue) + 1] = i
      BY ONLY <2>1, <3>1, i \in Items, SMT
    <3> QED BY <3>2, <3>3, Zenon
  <2>3. ChannelType'
    BY <1>1, <1>4, <2>2, Zenon DEF ChannelType
  <2>4. i \notin InQueue /\ i \notin plHandled /\ \A w \in Workers : ~Holds(w, i)
    BY <1>4, Zenon DEF OnePlace
  <2>5. \A m, n \in 1..Len(queue') : queue'[m] = queue'[n] => m = n
    <3>1. \A n \in 1..Len(queue) : queue[n] # i
      BY <2>4, Zenon DEF InQueue, Elems
    <3> QED BY <2>2, <3>1 DEF OnePlace
  <2>6. \A w \in Workers, j \in Items : Holds(w, j)' <=> Holds(w, j)
    BY <1>1, Zenon DEF Holds
  <2>7. \A j \in Items : req'[j] = "accepted" <=> req[j] = "accepted" \/ j = i
    BY <1>4, ZenonT(60) DEF ChannelType
  <2>8. OnePlace'
    BY <1>1, <2>2, <2>4, <2>5, <2>6, <2>7 DEF OnePlace
  <2> QED BY <1>2, <2>3, <2>8, Zenon
<1>5. \/ queue' = queue /\ \E r \in {"sending", "rejected"} : req' = [req EXCEPT ![i] = r]
      \/ /\ queue' = Append(queue, i) /\ req[i] # "accepted"
         /\ req' = [req EXCEPT ![i] = "accepted"]
  BY Zenon DEF CheckStopped, Send
<1> QED BY <1>3, <1>4, <1>5, Zenon

\* A worker moves between selects, or leaves.
LEMMA WorkerMoves ==
  ASSUME CInv, NEW w \in Workers, CheckStop(w) \/ SelectStop(w) \/ Drained(w)
  PROVE  CInv'
<1> USE DEF CInv
<1>1. /\ UNCHANGED <<stop, req, queue, alertQueue, alerter, plHandled, alerts>>
      /\ wk[w].pc \in {"top", "select", "drain"}
      /\ \E p \in {"drain", "select", "exited"} :
           wk' = [wk EXCEPT ![w] = [pc |-> p, item |-> NoItem, from |-> "top"]]
  BY Zenon DEF CheckStop, SelectStop, Drained, At
<1>2. /\ wk'[w].pc \in {"drain", "select", "exited"}
      /\ \A x \in Workers \ {w} : wk'[x] = wk[x]
  BY <1>1 DEF ChannelType
<1>3. ChannelType'
  BY <1>1, <1>2 DEF ChannelType, Busy
<1>4. InQueue' = InQueue /\ \A x \in Workers, j \in Items : Holds(x, j)' <=> Holds(x, j)
  BY <1>1, <1>2, Zenon DEF InQueue, Holds
<1>5. OnePlace'
  BY <1>1, <1>4, ZenonT(60) DEF OnePlace
<1>6. ~AlertStopClosed
  BY <1>1, Zenon DEF AlertsKept
<1>7. AlertsKept'
  BY <1>1, <1>6, Zenon DEF AlertsKept, AlertStopClosed, InAlerts
<1> QED BY <1>3, <1>5, <1>7, Zenon

\* A worker takes the first item.
LEMMA TakeKeeps ==
  ASSUME CInv, NEW w \in Workers, Take(w)
  PROVE  CInv'
<1> USE DEF CInv
<1>1. /\ UNCHANGED <<stop, req, alertQueue, alerter, plHandled, alerts>>
      /\ wk[w].pc \in {"select", "drain"} /\ queue # <<>> /\ queue' = Tail(queue)
      /\ \E f \in {"top", "drain"} :
           wk' = [wk EXCEPT ![w] = [pc |-> "process", item |-> Head(queue), from |-> f]]
  BY Zenon DEF Take, At
<1>2. queue \in Seq(Items)
  BY Zenon DEF ChannelType
<1>3. /\ queue' \in Seq(Items) /\ Len(queue) = Len(queue') + 1 /\ Len(queue') \in Nat
      /\ \A n \in 1..Len(queue') : queue'[n] = queue[n + 1]
      /\ Head(queue) = queue[1] /\ Head(queue) \in Items
      /\ InQueue = InQueue' \cup {Head(queue)}
  BY <1>1, <1>2, ReceiveFrom, ZenonT(60) DEF InQueue
<1>4. /\ wk'[w].pc = "process" /\ wk'[w].item = Head(queue)
      /\ \A x \in Workers \ {w} : wk'[x] = wk[x]
  BY <1>1 DEF ChannelType
<1>5. ChannelType'
  BY <1>1, <1>3, <1>4 DEF ChannelType, Busy
<1>6. Head(queue) \notin InQueue'
  <2>1. \A n \in 1..Len(queue') : queue'[n] # Head(queue)
    BY <1>3 DEF OnePlace
  <2> QED BY <2>1, Zenon DEF InQueue, Elems
<1>7. \A x \in Workers, j \in Items :
        Holds(x, j)' <=> Holds(x, j) \/ (x = w /\ j = Head(queue))
  BY <1>1, <1>4, Zenon DEF Holds
<1>8. \A m, n \in 1..Len(queue') : queue'[m] = queue'[n] => m = n
  <2>1. \A m, n \in 1..Len(queue) : queue[m] = queue[n] => m = n
    BY Zenon DEF OnePlace
  <2> QED BY ONLY <1>3, <2>1, SMTT(30)
<1>9. Head(queue) \notin plHandled /\ \A x \in Workers : ~Holds(x, Head(queue))
  BY <1>3, Zenon DEF OnePlace
<1>10. OnePlace'
  BY <1>1, <1>3, <1>6, <1>7, <1>8, <1>9, SMTT(30) DEF OnePlace
<1>11. ~AlertStopClosed
  BY <1>1, Zenon DEF AlertsKept
<1>12. AlertsKept'
  BY <1>1, <1>11, Zenon DEF AlertsKept, AlertStopClosed, InAlerts
<1> QED BY <1>5, <1>10, <1>12, Zenon

\* A worker is through with its item.
LEMMA ProcessKeeps ==
  ASSUME CInv, NEW w \in Workers, Process(w) \/ ProcessAlerting(w)
  PROVE  CInv'
<1> USE DEF CInv
<1> DEFINE i == wk[w].item
<1>1. /\ UNCHANGED <<stop, req, queue, alertQueue, alerter, alerts>>
      /\ wk[w].pc = "process" /\ plHandled' = plHandled \cup {i}
      /\ \/ wk' = [wk EXCEPT ![w] = [pc |-> wk[w].from, item |-> NoItem, from |-> wk[w].from]]
         \/ wk' = [wk EXCEPT ![w].pc = "dispatch"]
  BY Zenon DEF Process, ProcessAlerting, At
<1>2. i \in Items /\ wk[w].from \in {"top", "drain"}
  BY <1>1, Zenon DEF ChannelType, Busy
<1>3. /\ wk'[w].pc \in {"top", "drain", "dispatch"}
      /\ wk'[w].pc = "dispatch" => wk'[w].item = i
      /\ \A x \in Workers \ {w} : wk'[x] = wk[x]
      /\ wk' \in [Workers -> [pc : {"top", "select", "drain", "process", "dispatch", "exited"},
                              item : Items \cup {NoItem}, from : {"top", "drain"}]]
  <2>1. CASE wk' = [wk EXCEPT ![w] = [pc |-> wk[w].from, item |-> NoItem, from |-> wk[w].from]]
    BY <1>2, <2>1, Zenon DEF ChannelType
  <2>2. CASE wk' = [wk EXCEPT ![w].pc = "dispatch"]
    <3>1. wk[w] \in [pc : {"top", "select", "drain", "process", "dispatch", "exited"},
                     item : Items \cup {NoItem}, from : {"top", "drain"}]
      BY Zenon DEF ChannelType
    <3>2. wk' = [wk EXCEPT ![w] = [wk[w] EXCEPT !.pc = "dispatch"]]
      BY <2>2, Zenon
    <3>3. [wk[w] EXCEPT !.pc = "dispatch"] = [pc |-> "dispatch", item |-> i, from |-> wk[w].from]
      BY <3>1
    <3> QED BY <1>2, <3>2, <3>3, Zenon DEF ChannelType
  <2> QED BY <1>1, <2>1, <2>2, Zenon
<1>4. ChannelType'
  BY <1>1, <1>2, <1>3, ZenonT(60) DEF ChannelType, Busy
<1>5. \A x \in Workers, j \in Items : Holds(x, j)' <=> Holds(x, j) /\ x # w
  BY <1>3, Zenon DEF Holds
<1>6. InQueue' = InQueue /\ Holds(w, i) /\ \A j \in Items : Holds(w, j) => j = i
  BY <1>1, Zenon DEF InQueue, Holds
<1> HIDE DEF i
<1>7. OnePlace'
  BY <1>1, <1>2, <1>5, <1>6, SMTT(30) DEF OnePlace
<1>8. ~AlertStopClosed
  BY <1>1, Zenon DEF AlertsKept
<1>9. AlertsKept'
  BY <1>1, <1>8, Zenon DEF AlertsKept, AlertStopClosed, InAlerts
<1> QED BY <1>4, <1>7, <1>9, Zenon

\* A worker hands the alert of its item over, or drops it.
LEMMA DispatchKeeps ==
  ASSUME CInv, NEW w \in Workers, DispatchAlert(w)
  PROVE  CInv'
<1> USE DEF CInv
<1> DEFINE i == wk[w].item
<1>1. /\ UNCHANGED <<stop, req, queue, alerter, plHandled>>
      /\ wk[w].pc = "dispatch"
      /\ wk' = [wk EXCEPT ![w] = [pc |-> wk[w].from, item |-> NoItem, from |-> wk[w].from]]
      /\ \/ alertQueue' = Append(alertQueue, i) /\ alerts' = [alerts EXCEPT ![i] = "queued"]
         \/ alertQueue' = alertQueue /\ alerts' = [alerts EXCEPT ![i] = "dropped"]
  BY Zenon DEF DispatchAlert, At
<1>2. i \in Items /\ wk[w].from \in {"top", "drain"}
  BY <1>1, Zenon DEF ChannelType, Busy
<1>3. /\ wk'[w].pc \in {"top", "drain"}
      /\ \A x \in Workers \ {w} : wk'[x] = wk[x]
      /\ wk' \in [Workers -> [pc : {"top", "select", "drain", "process", "dispatch", "exited"},
                              item : Items \cup {NoItem}, from : {"top", "drain"}]]
  BY <1>1, <1>2, Zenon DEF ChannelType
<1>4. alertQueue \in Seq(Items) /\ alerts \in [Items -> {"none", "queued", "dropped", "delivered"}]
  BY Zenon DEF ChannelType
<1>5. ~AlertStopClosed /\ ~AlertStopClosed'
  BY <1>1, Zenon DEF AlertsKept, AlertStopClosed
<1>6. InQueue' = InQueue /\ \A x \in Workers, j \in Items : Holds(x, j)' <=> Holds(x, j)
  BY <1>1, <1>3, Zenon DEF InQueue, Holds
<1>7. OnePlace'
  BY <1>1, <1>6 DEF OnePlace
<1> HIDE DEF i
<1>8. alertQueue' \in Seq(Items) /\ InAlerts \subseteq InAlerts'
      /\ (alerts'[i] = "queued" => i \in InAlerts')
  <2>1. CASE alertQueue' = Append(alertQueue, i)
    <3>1. alertQueue' \in Seq(Items) /\ InAlerts' = InAlerts \cup {i}
      BY ONLY <1>2, <1>4, <2>1, SendTo, Zenon DEF InAlerts
    <3> QED BY <3>1, Zenon
  <2>2. CASE alertQueue' = alertQueue /\ alerts' = [alerts EXCEPT ![i] = "dropped"]
    BY <1>2, <1>4, <2>2, Zenon DEF InAlerts
  <2> QED BY <1>1, <2>1, <2>2, Zenon
<1>9. /\ alerts' \in [Items -> {"none", "queued", "dropped", "delivered"}]
      /\ \A j \in Items \ {i} : alerts'[j] = alerts[j]
  BY <1>1, <1>2, <1>4, Zenon
<1>10. ChannelType'
  BY <1>1, <1>3, <1>8, <1>9 DEF ChannelType, Busy
<1>11. AlertsKept'
  <2>1. \A j \in Items : alerts'[j] = "queued" =>
          j \in InAlerts' \/ (alerter.pc = "call" /\ alerter.item = j)
    BY <1>8, <1>9, Zenon DEF AlertsKept
  <2>2. alerter.pc # "exited" /\ stop # "returned"
    BY <1>5, Zenon DEF AlertsKept, AlertStopClosed
  <2> QED BY <1>1, <1>5, <2>1, <2>2, Zenon DEF AlertsKept
<1> QED BY <1>7, <1>10, <1>11, Zenon

\* The alert worker.
LEMMA AlertKeeps ==
  ASSUME CInv, AlertStep
  PROVE  CInv'
<1> USE DEF CInv
<1>1. UNCHANGED <<stop, req, queue, wk, plHandled>>
  <2>1. TakeAlert => UNCHANGED <<stop, req, queue, wk, plHandled>>
    BY ONLY Zenon DEF TakeAlert
  <2>2. Callback => UNCHANGED <<stop, req, queue, wk, plHandled>>
    BY ONLY Zenon DEF Callback
  <2>3. AlertStop \/ AlertDrained => UNCHANGED <<stop, req, queue, wk, plHandled>>
    BY ONLY Zenon DEF AlertStop, AlertDrained
  <2> QED BY ONLY AlertStep, <2>1, <2>2, <2>3, Zenon DEF AlertStep
<1>2. OnePlace'
  BY <1>1, PlacesKept, Zenon
<1>3. AlertStopClosed' <=> AlertStopClosed
  BY <1>1, Zenon DEF AlertStopClosed
<1>4. CASE TakeAlert
  <2>1. alertQueue \in Seq(Items) /\ alertQueue # <<>> /\ alertQueue' = Tail(alertQueue)
    BY <1>4, Zenon DEF TakeAlert, ChannelType
  <2>2. alertQueue' \in Seq(Items) /\ Head(alertQueue) \in Items
        /\ InAlerts = InAlerts' \cup {Head(alertQueue)}
    BY ONLY <2>1, ReceiveFrom, ZenonT(60) DEF InAlerts
  <2>3. /\ alerter.pc \in {"loop", "drain"} /\ alerts' = alerts
        /\ alerter' = [pc |-> "call", item |-> Head(alertQueue), from |-> alerter.pc]
    BY <1>4, Zenon DEF TakeAlert
  <2>4. ChannelType'
    BY <1>1, <2>2, <2>3, Zenon DEF ChannelType
  <2>5. AlertsKept'
    <3>1. stop # "returned"
      BY <2>3, Zenon DEF AlertsKept
    <3> QED BY <1>1, <1>3, <2>2, <2>3, <3>1, Zenon DEF AlertsKept
  <2> QED BY <1>2, <2>4, <2>5, Zenon
<1>5. CASE Callback
  <2>1. /\ alerter.pc = "call" /\ alertQueue' = alertQueue
        /\ alerts' = [alerts EXCEPT ![alerter.item] = "delivered"]
        /\ alerter' = [pc |-> alerter.from, item |-> NoItem, from |-> alerter.from]
    BY <1>5, Zenon DEF Callback
  <2>2. ChannelType'
    BY <1>1, <2>1, Zenon DEF ChannelType
  <2>3. \A j \in Items : alerts'[j] = "queued" => alerts[j] = "queued" /\ j # alerter.item
    BY <2>1, Zenon DEF ChannelType
  <2>4. alerter.from \in {"loop", "drain"} /\ InAlerts' = InAlerts /\ stop # "returned"
    BY <2>1, Zenon DEF ChannelType, InAlerts, AlertsKept
  <2>5. AlertsKept'
    BY <1>1, <1>3, <2>1, <2>3, <2>4, SMTT(30) DEF AlertsKept
  <2> QED BY <1>2, <2>2, <2>5, Zenon
<1>6. CASE AlertStop \/ AlertDrained
  <2>1. /\ alerter.pc \in {"loop", "drain"} /\ UNCHANGED <<alertQueue, alerts>>
        /\ \E p \in {"drain", "exited"} :
             /\ alerter' = [pc |-> p, item |-> NoItem, from |-> "drain"]
             /\ p = "exited" => alertQueue = <<>>
        /\ AlertStopClosed
    BY <1>6 DEF AlertStop, AlertDrained, AlertsKept
  <2>2. ChannelType'
    BY <1>1, <2>1, SMTT(30) DEF ChannelType
  <2>3. AlertsKept'
    BY <1>1, <1>3, <2>1 DEF AlertsKept, InAlerts
  <2> QED BY <1>2, <2>2, <2>3, Zenon
<1> QED BY <1>4, <1>5, <1>6, Zenon DEF AlertStep

\* Stop moves on.
LEMMA StopKeeps ==
  ASSUME CInv, StopStep("running", "marked") \/ StopProgress
  PROVE  CInv'
<1> USE DEF CInv
<1>1. /\ UNCHANGED <<req, queue, wk, alertQueue, alerter, plHandled, alerts>>
      /\ stop' \in StopSteps
      /\ AlertStopClosed => AlertStopClosed'
      /\ AlertStopClosed' /\ ~AlertStopClosed => \A w \in Workers : wk[w].pc = "exited"
      /\ stop' = "returned" => alerter.pc = "exited"
  BY Zenon DEF StopProgress, StopWait, StopReturn, StopStep, StopSteps, AlertStopClosed
<1>2. ChannelType'
  BY <1>1, Zenon DEF ChannelType
<1>3. OnePlace'
  BY <1>1, PlacesKept, Zenon
<1>4. AlertsKept'
  BY <1>1, Zenon DEF AlertsKept, InAlerts
<1> QED BY <1>2, <1>3, <1>4, Zenon

\* Nothing moves.
LEMMA StutterKeeps == CInv /\ UNCHANGED plVars => CInv'
<1> SUFFICES ASSUME CInv, UNCHANGED plVars PROVE CInv'
  OBVIOUS
<1>1. UNCHANGED <<stop, req, queue, wk, alertQueue, alerter, plHandled, alerts>>
  BY Zenon DEF plVars
<1>2. ChannelType'
  BY ONLY <1>1, CInv, Zenon DEF CInv, ChannelType
<1>3. OnePlace'
  BY ONLY <1>1, CInv, PlacesKept, Zenon DEF CInv
<1>4. AlertsKept'
  BY ONLY <1>1, CInv, Zenon DEF CInv, AlertsKept, AlertStopClosed, InAlerts
<1> QED BY <1>2, <1>3, <1>4, Zenon DEF CInv

\* The invariant says what becomes of the items and of their alerts.
LEMMA CInvKeepsItems == CInv => ChannelKeepsItems
<1> SUFFICES ASSUME CInv PROVE ChannelKeepsItems
  BY Zenon
<1> USE DEF CInv
<1>1. AcceptedAccounted
  <2> SUFFICES ASSUME NEW i \in Items, req[i] = "accepted"
               PROVE  LET Held == {w \in Workers : wk[w].pc = "process" /\ wk[w].item = i}
                          Queued == {n \in 1..Len(queue) : queue[n] = i}
                      IN  \/ i \in plHandled /\ Held = {} /\ Queued = {}
                          \/ i \notin plHandled /\ Held = {} /\ \E n \in 1..Len(queue) : Queued = {n}
                          \/ i \notin plHandled /\ Queued = {} /\ \E w \in Workers : Held = {w}
    BY Zenon DEF AcceptedAccounted
  <2> DEFINE Held == {w \in Workers : wk[w].pc = "process" /\ wk[w].item = i}
             Queued == {n \in 1..Len(queue) : queue[n] = i}
  <2>1. Held = {w \in Workers : Holds(w, i)}
    BY Zenon DEF Holds
  <2>2. i \in InQueue <=> Queued # {}
    BY Zenon DEF InQueue, Elems
  <2>3. \A m, n \in Queued : m = n
    BY Zenon DEF OnePlace
  <2>4. \A w, x \in Held : w = x
    BY <2>1, Zenon DEF OnePlace
  <2>5. CASE i \in plHandled
    BY <2>1, <2>2, <2>5, Zenon DEF OnePlace
  <2>6. CASE i \in InQueue
    <3>1. PICK n \in Queued : TRUE
      BY <2>2, <2>6, Zenon
    <3>2. Queued = {n} /\ n \in 1..Len(queue)
      BY <2>3, <3>1, Zenon
    <3>3. i \notin plHandled /\ Held = {}
      BY <2>1, <2>6, Zenon DEF OnePlace
    <3> QED BY <3>2, <3>3, Zenon
  <2>7. CASE \E w \in Workers : Holds(w, i)
    <3>1. PICK w \in Workers : Holds(w, i)
      BY <2>7, Zenon
    <3>2. Held = {w}
      BY <2>1, <2>4, <3>1, Zenon
    <3>3. i \notin plHandled /\ Queued = {}
      BY <2>2, <3>1, Zenon DEF OnePlace
    <3> QED BY <3>1, <3>2, <3>3, Zenon
  <2> QED BY <2>5, <2>6, <2>7, ZenonT(60) DEF OnePlace
<1>2. AlertsDrained
  BY DEF AlertsDrained, AlertsKept, InAlerts, Elems
<1> QED BY <1>1, <1>2, Zenon DEF ChannelKeepsItems

\* The invariant is inductive.
LEMMA CInvNext == CInv /\ [PLNext]_plVars => CInv'
<1> SUFFICES ASSUME CInv, [PLNext]_plVars PROVE CInv'
  OBVIOUS
<1>1. ASSUME NEW i \in Items, CheckStopped(i) \/ Send(i) PROVE CInv'
  BY <1>1, RequestKeeps, Zenon
<1>2. ASSUME NEW w \in Workers, PLWorkerStep(w) PROVE CInv'
  BY <1>2, WorkerMoves, TakeKeeps, ProcessKeeps, DispatchKeeps, Zenon DEF PLWorkerStep
<1>3. CASE AlertStep
  BY <1>3, AlertKeeps, Zenon
<1>4. CASE StopStep("running", "marked") \/ StopProgress
  BY <1>4, StopKeeps, Zenon
<1>5. CASE UNCHANGED plVars
  BY <1>5, StutterKeeps, Zenon
<1> QED BY <1>1, <1>2, <1>3, <1>4, <1>5, Zenon DEF PLNext

\* The in-memory channel of pipeline.go, for any number of workers and items and any
\* sizes of its channels: an accepted item is in the channel, with exactly one worker, or
\* handled, and Stop returns with no alert left in the alert queue.
THEOREM ChannelAlwaysKeepsItems == PLSpec => []ChannelKeepsItems
BY CInvInit, CInvNext, CInvKeepsItems, PTL DEF PLSpec

\* Neither channel ever holds more than its capacity.
Capacities == Len(queue) <= QueueSize /\ Len(alertQueue) <= AlertQueueSize

LEMMA CapacitiesNext == CInv /\ Capacities /\ [PLNext]_plVars => Capacities'
<1> SUFFICES ASSUME CInv, Capacities, [PLNext]_plVars PROVE Capacities'
  OBVIOUS
<1>1. queue \in Seq(Items) /\ alertQueue \in Seq(Items)
  BY Zenon DEF CInv, ChannelType
<1>2. \/ queue' = queue
      \/ queue' = Tail(queue) /\ queue # <<>>
      \/ Len(queue) < QueueSize /\ \E i \in Items : queue' = Append(queue, i)
  <2>1. ASSUME NEW i \in Items, CheckStopped(i) \/ Send(i)
        PROVE  \/ queue' = queue \/ (Len(queue) < QueueSize /\ queue' = Append(queue, i))
    BY <2>1, Zenon DEF CheckStopped, Send
  <2>2. ASSUME NEW w \in Workers, PLWorkerStep(w)
        PROVE  \/ queue' = queue \/ (queue' = Tail(queue) /\ queue # <<>>)
    BY <2>2, Zenon DEF PLWorkerStep, CheckStop, Take, SelectStop, Drained, Process, ProcessAlerting, DispatchAlert
  <2>3. CASE AlertStep \/ StopStep("running", "marked") \/ StopProgress \/ UNCHANGED plVars
    BY <2>3, Zenon DEF AlertStep, TakeAlert, Callback, AlertStop, AlertDrained, StopStep, StopProgress,
      StopWait, StopReturn, plVars
  <2> QED BY <2>1, <2>2, <2>3, Zenon DEF PLNext
<1>3. \/ alertQueue' = alertQueue
      \/ alertQueue' = Tail(alertQueue) /\ alertQueue # <<>>
      \/ /\ Len(alertQueue) < AlertQueueSize
         /\ \E w \in Workers : wk[w].pc = "dispatch" /\ alertQueue' = Append(alertQueue, wk[w].item)
  <2>1. ASSUME NEW i \in Items, CheckStopped(i) \/ Send(i) PROVE alertQueue' = alertQueue
    BY <2>1, Zenon DEF CheckStopped, Send
  <2>2. ASSUME NEW w \in Workers, PLWorkerStep(w)
        PROVE  \/ alertQueue' = alertQueue
               \/ /\ Len(alertQueue) < AlertQueueSize
                  /\ wk[w].pc = "dispatch" /\ alertQueue' = Append(alertQueue, wk[w].item)
    BY <2>2, Zenon DEF PLWorkerStep, CheckStop, Take, SelectStop, Drained, Process, ProcessAlerting, DispatchAlert
  <2>3. CASE AlertStep
    BY <2>3, Zenon DEF AlertStep, TakeAlert, Callback, AlertStop, AlertDrained
  <2>4. CASE StopStep("running", "marked") \/ StopProgress \/ UNCHANGED plVars
    BY <2>4, Zenon DEF StopStep, StopProgress, StopWait, StopReturn, plVars
  <2> QED BY <2>1, <2>2, <2>3, <2>4, Zenon DEF PLNext
<1>4. Len(queue') <= QueueSize
  BY <1>1, <1>2, PipelineAssumption DEF Capacities
<1>5. \A w \in Workers : wk[w].pc = "dispatch" => wk[w].item \in Items
  BY Zenon DEF CInv, ChannelType, Busy
<1>6. Len(alertQueue') <= AlertQueueSize
  BY <1>1, <1>3, <1>5, PipelineAssumption DEF Capacities
<1> QED BY <1>4, <1>6, Zenon DEF Capacities

\* Every variable of the pipeline has its type: no channel holds more than its capacity.
THEOREM ChannelTypeAlways == PLSpec => []PLTypeOK
<1>1. PLInit => Capacities
  BY PipelineAssumption DEF PLInit, Capacities
<1>2. CInv /\ Capacities => PLTypeOK
  BY Zenon DEF CInv, ChannelType, Capacities, PLTypeOK
<1> QED BY <1>1, <1>2, CInvInit, CInvNext, CapacitiesNext, PTL DEF PLSpec

=============================================================================
