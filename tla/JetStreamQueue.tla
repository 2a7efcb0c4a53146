--------------------------- MODULE JetStreamQueue ---------------------------
(***************************************************************************)
(* runtimeasync.JetStreamQueue, the queue of serious mode. Each kind has   *)
(* its own subject, here a log of its own; a process keeps the message of  *)
(* every claimed job in its pending map, under an id made of the stream    *)
(* and the sequence number, until MarkDone or Requeue takes it out again.  *)
(* The JetStream server is external: a delivery that is not settled within *)
(* the ack wait is repeated, up to MaxDeliver times, by any process.       *)
(***************************************************************************)
EXTENDS Integers, Sequences, FiniteSets

CONSTANTS ClaimedKinds, \* a sequence: one subscription each
          Requests,    \* calls of EnqueueKeyed: records with kind and key
          NoKey,       \* the dedupe key of a call without one
          Procs,
          JSWorkers,   \* JSWorkers[p]: the workers of process p
          JSPoison,    \* requests whose processing always fails
          MaxDeliver,  \* defaultMaxDeliver
          JSMaxFaults

VARIABLES jsLog,     \* jsLog[k]: the messages of kind k, by sequence number
          jsSeen,    \* the message ids the server remembers
          jsReq,     \* jsReq[r]: "none", "accepted" or "failed"
          jsPending, \* jsPending[p]: job id -> message, JetStreamQueue.pending
          jsNextSub, \* jsNextSub[p]: JetStreamQueue.nextSub
          jsWk,      \* jsWk[w]: a worker's step, its subscription offset and its message
          jsFaults,
          jsHandled, \* history: messages some worker processed
          jsSettled, \* history: messages MarkDone reported done
          jsCrossed  \* history: messages with two deliveries out at once or a lost ack

jsVars == <<jsLog, jsSeen, jsReq, jsPending, jsNextSub, jsWk, jsFaults, jsHandled,
            jsSettled, jsCrossed>>
serverVars == <<jsLog, jsSeen>>

AllWorkers == UNION {JSWorkers[p] : p \in Procs}
ProcOf(w) == CHOOSE p \in Procs : w \in JSWorkers[p]
KindSet == {ClaimedKinds[k] : k \in DOMAIN ClaimedKinds}

\* There is a subscription, and every request is of a claimed kind.
ASSUME StreamAssumption ==
  /\ ClaimedKinds \in Seq(KindSet) /\ ClaimedKinds # <<>>
  /\ \A r \in Requests : r.kind \in KindSet
  /\ MaxDeliver \in Nat

\* A message is known by its kind and its place in the log.
NoMsg == <<"none", 0>>
Messages == UNION {{<<k, n>> : n \in DOMAIN jsLog[k]} : k \in KindSet}
Entry(m) == jsLog[m[1]][m[2]]
With(m, e) == [jsLog EXCEPT ![m[1]][m[2]] = e]

Idle == [pc |-> "idle", i |-> 0, msg |-> NoMsg]

JobID(m) == m

JSInit ==
  /\ jsLog = [k \in KindSet |-> <<>>]
  /\ jsSeen = {}
  /\ jsReq = [r \in Requests |-> "none"]
  /\ jsPending = [p \in Procs |-> {}]
  /\ jsNextSub = [p \in Procs |-> 0]
  /\ jsWk = [w \in AllWorkers |-> Idle]
  /\ jsFaults = 0
  /\ jsHandled = {} /\ jsSettled = {} /\ jsCrossed = {}

-----------------------------------------------------------------------------
\* EnqueueKeyed. Native jobs carry their key as the message id, which the server
\* stores once; every other message gets an id of its own.

DedupeID(r) == IF r.kind = "native_stackwalk" /\ r.key # NoKey THEN {r.key} ELSE {}

PublishMsg(r) ==
  IF DedupeID(r) # {} /\ DedupeID(r) \subseteq jsSeen
  THEN UNCHANGED serverVars
  ELSE /\ jsLog' = [jsLog EXCEPT ![r.kind] = Append(@, [req |-> r, state |-> "ready", n |-> 0])]
       /\ jsSeen' = jsSeen \cup DedupeID(r)

EnqueueKeyed(r) ==
  /\ jsReq[r] = "none"
  /\ PublishMsg(r)
  /\ jsReq' = [jsReq EXCEPT ![r] = "accepted"]
  /\ UNCHANGED <<jsPending, jsNextSub, jsWk, jsFaults, jsHandled, jsSettled, jsCrossed>>

\* PublishMsg returns an error, having reached the server or not.
EnqueueFails(r) ==
  /\ jsReq[r] = "none" /\ jsFaults < JSMaxFaults
  /\ PublishMsg(r) \/ UNCHANGED serverVars
  /\ jsReq' = [jsReq EXCEPT ![r] = "failed"]
  /\ jsFaults' = jsFaults + 1
  /\ UNCHANGED <<jsPending, jsNextSub, jsWk, jsHandled, jsSettled, jsCrossed>>

-----------------------------------------------------------------------------
\* ClaimNext asks the subscriptions in turn, starting at jsNextSub, which the
\* workers of a process read and write without a lock.

Deliverable(k) ==
  {m \in Messages : m[1] = k /\ Entry(m).state = "ready" /\ Entry(m).n < MaxDeliver}

\* Variant: every round starts at the first subscription and ends with it.
SubscriptionFirstOnly(w) == ClaimedKinds[1]

Subscription(w) == ClaimedKinds[((jsNextSub[ProcOf(w)] + jsWk[w].i) % Len(ClaimedKinds)) + 1]

Fetch(w) ==
  /\ jsWk[w].pc \in {"idle", "fetch"}
  /\ \E m \in Deliverable(Subscription(w)) :
       /\ jsLog' = With(m, [req |-> Entry(m).req, state |-> "out", n |-> Entry(m).n + 1])
       /\ jsWk' = [jsWk EXCEPT ![w].pc = "got", ![w].msg = m]
  /\ UNCHANGED <<jsSeen, jsReq, jsPending, jsNextSub, jsFaults, jsHandled, jsSettled, jsCrossed>>

\* The fetch times out: on to the next subscription, or there is no job.
FetchEmpty(w) ==
  /\ jsWk[w].pc \in {"idle", "fetch"}
  /\ Deliverable(Subscription(w)) = {}
  /\ jsWk' = [jsWk EXCEPT ![w] = IF jsWk[w].i + 1 < Len(ClaimedKinds)
                               THEN [pc |-> "fetch", i |-> jsWk[w].i + 1, msg |-> NoMsg] ELSE Idle]
  /\ UNCHANGED <<serverVars, jsReq, jsPending, jsNextSub, jsFaults, jsHandled, jsSettled, jsCrossed>>

Others(p, id) == {e \in jsPending[p] : e.id # id}
Pending(p, id) == {e \in jsPending[p] : e.id = id}

\* Variant: the message is not remembered.
ClaimForgetsMessage(w) ==
  /\ jsWk[w].pc = "got"
  /\ jsWk' = [jsWk EXCEPT ![w] = [pc |-> "claimed", i |-> 0, msg |-> @.msg]]
  /\ UNCHANGED <<serverVars, jsReq, jsPending, jsNextSub, jsFaults, jsHandled, jsSettled, jsCrossed>>

\* The rest of ClaimNext: the rotation, and the message goes into pending, over
\* an earlier delivery of the same job.
Claim(w) ==
  LET p == ProcOf(w)
      id == JobID(jsWk[w].msg) IN
  /\ jsWk[w].pc = "got"
  /\ jsNextSub' = [jsNextSub EXCEPT ![p] = (@ + jsWk[w].i + 1) % Len(ClaimedKinds)]
  /\ jsPending' = [jsPending EXCEPT ![p] = Others(p, id) \cup {[id |-> id, msg |-> jsWk[w].msg]}]
  /\ jsWk' = [jsWk EXCEPT ![w] = [pc |-> "claimed", i |-> 0, msg |-> @.msg]]
  /\ UNCHANGED <<serverVars, jsReq, jsFaults, jsHandled, jsSettled, jsCrossed>>

-----------------------------------------------------------------------------
\* The durableWorker around the queue, and MarkDone and Requeue

JSProcess(w) ==
  /\ jsWk[w].pc = "claimed"
  /\ LET m == jsWk[w].msg IN
     \/ /\ Entry(m).req \notin JSPoison
        /\ jsHandled' = jsHandled \cup {m}
        /\ jsWk' = [jsWk EXCEPT ![w].pc = "done"]
        /\ UNCHANGED jsFaults
     \/ /\ Entry(m).req \in JSPoison \/ jsFaults < JSMaxFaults
        /\ jsFaults' = IF Entry(m).req \in JSPoison THEN jsFaults ELSE jsFaults + 1
        /\ jsWk' = [jsWk EXCEPT ![w].pc = "retry"]
        /\ UNCHANGED jsHandled
  /\ UNCHANGED <<serverVars, jsReq, jsPending, jsNextSub, jsSettled, jsCrossed>>

\* takePending: the entry is taken before the message is settled; without an
\* entry the call reports success.
TakePending(w) ==
  LET p == ProcOf(w)
      id == JobID(jsWk[w].msg) IN
  /\ jsWk[w].pc \in {"done", "retry"}
  /\ jsPending' = [jsPending EXCEPT ![p] = Others(p, id)]
  /\ IF Pending(p, id) = {}
     THEN /\ jsSettled' = IF jsWk[w].pc = "done" THEN jsSettled \cup {jsWk[w].msg} ELSE jsSettled
          /\ jsWk' = [jsWk EXCEPT ![w] = Idle]
     ELSE /\ \E e \in Pending(p, id) :
               jsWk' = [jsWk EXCEPT ![w] = [pc |-> IF jsWk[w].pc = "done" THEN "ack" ELSE "nak",
                                          i |-> 0, msg |-> e.msg]]
          /\ UNCHANGED jsSettled
  /\ UNCHANGED <<serverVars, jsReq, jsNextSub, jsFaults, jsHandled, jsCrossed>>

\* Ack removes the message from the work queue, whichever delivery it answers.
Ack(w) ==
  LET m == jsWk[w].msg IN
  /\ jsWk[w].pc = "ack"
  /\ jsLog' = With(m, [Entry(m) EXCEPT !.state = "gone"])
  /\ jsSettled' = jsSettled \cup {m}
  /\ jsWk' = [jsWk EXCEPT ![w] = Idle]
  /\ UNCHANGED <<jsSeen, jsReq, jsPending, jsNextSub, jsFaults, jsHandled, jsCrossed>>

\* Ack is not confirmed: it may be lost although MarkDone returns nil.
AckLost(w) ==
  /\ jsWk[w].pc = "ack" /\ jsFaults < JSMaxFaults
  /\ jsFaults' = jsFaults + 1
  /\ jsSettled' = jsSettled \cup {jsWk[w].msg}
  /\ jsCrossed' = jsCrossed \cup {jsWk[w].msg}
  /\ jsWk' = [jsWk EXCEPT ![w] = Idle]
  /\ UNCHANGED <<serverVars, jsReq, jsPending, jsNextSub, jsHandled>>

\* Variant: the delivery is terminated.
NakTerminates(w) ==
  LET m == jsWk[w].msg IN
  /\ jsWk[w].pc = "nak"
  /\ jsLog' = With(m, [Entry(m) EXCEPT !.state = "gone"])
  /\ jsWk' = [jsWk EXCEPT ![w] = Idle]
  /\ UNCHANGED <<jsSeen, jsReq, jsPending, jsNextSub, jsFaults, jsHandled, jsSettled, jsCrossed>>

\* NakWithDelay brings a delivery back after the delay; of a message that is not
\* out it is ignored.
Nak(w) ==
  LET m == jsWk[w].msg IN
  /\ jsWk[w].pc = "nak"
  /\ jsLog' = IF Entry(m).state = "out" THEN With(m, [Entry(m) EXCEPT !.state = "delayed"]) ELSE jsLog
  /\ jsWk' = [jsWk EXCEPT ![w] = Idle]
  /\ UNCHANGED <<jsSeen, jsReq, jsPending, jsNextSub, jsFaults, jsHandled, jsSettled, jsCrossed>>

-----------------------------------------------------------------------------
\* Time and faults

DelayEnds(m) ==
  /\ Entry(m).state = "delayed"
  /\ jsLog' = With(m, [Entry(m) EXCEPT !.state = "ready"])
  /\ UNCHANGED <<jsSeen, jsReq, jsPending, jsNextSub, jsWk, jsFaults, jsHandled, jsSettled, jsCrossed>>

Holders(m) == {w \in AllWorkers : jsWk[w].msg = m}

\* The ack wait ends: of a delivery nobody works on with time, otherwise as a fault.
AckWaitEnds(m) ==
  /\ Entry(m).state = "out"
  /\ Holders(m) # {} => jsFaults < JSMaxFaults
  /\ jsFaults' = IF Holders(m) # {} THEN jsFaults + 1 ELSE jsFaults
  /\ jsCrossed' = IF Holders(m) # {} THEN jsCrossed \cup {m} ELSE jsCrossed
  /\ jsLog' = With(m, [Entry(m) EXCEPT !.state = "ready"])
  /\ UNCHANGED <<jsSeen, jsReq, jsPending, jsNextSub, jsWk, jsHandled, jsSettled>>

\* A process dies: its workers and its pending map are gone, the deliveries are not.
ProcessDies(p) ==
  /\ jsFaults < JSMaxFaults
  /\ jsFaults' = jsFaults + 1
  /\ jsPending' = [jsPending EXCEPT ![p] = {}]
  /\ jsNextSub' = [jsNextSub EXCEPT ![p] = 0]
  /\ jsWk' = [w \in AllWorkers |-> IF w \in JSWorkers[p] THEN Idle ELSE jsWk[w]]
  /\ UNCHANGED <<serverVars, jsReq, jsHandled, jsSettled, jsCrossed>>

JSWorkerStep(w) ==
  \/ Fetch(w) \/ FetchEmpty(w) \/ Claim(w) \/ JSProcess(w)
  \/ TakePending(w) \/ Ack(w) \/ Nak(w)

JSNext ==
  \/ \E r \in Requests : EnqueueKeyed(r) \/ EnqueueFails(r)
  \/ \E w \in AllWorkers : JSWorkerStep(w) \/ AckLost(w)
  \/ \E m \in Messages : DelayEnds(m) \/ AckWaitEnds(m)
  \/ \E p \in Procs : ProcessDies(p)

TimePasses == \E m \in Messages : DelayEnds(m) \/ (AckWaitEnds(m) /\ jsFaults' = jsFaults)

JSSpec == JSInit /\ [][JSNext]_jsVars

-----------------------------------------------------------------------------
\* Properties

\* Every variable has its type.
JSTypeOK ==
  /\ \A m \in Messages : /\ Entry(m).state \in {"ready", "delayed", "out", "gone"}
                         /\ Entry(m).n \in 0..MaxDeliver
  /\ \A p \in Procs : jsNextSub[p] \in 0..Len(ClaimedKinds) - 1
  /\ \A w \in AllWorkers : jsWk[w].msg \in Messages \cup {NoMsg} /\ jsWk[w].i < Len(ClaimedKinds)
  /\ jsHandled \cup jsSettled \cup jsCrossed \subseteq Messages

\* A message leaves the queue only after some worker processed it: late workers,
\* overwritten pending entries and crashes never make MarkDone acknowledge a
\* message of another job.
GoneWasHandled == \A m \in Messages : Entry(m).state = "gone" => m \in jsHandled

\* A job MarkDone reported done is never delivered again, except after an ack
\* wait that ended under a worker or an acknowledgement that was lost: then the
\* pending entry of one delivery serves the worker of the other.
DoneIsGoneUnlessCrossed ==
  \A m \in jsSettled \ jsCrossed : Entry(m).state = "gone"

\* MarkDone settles the job it was called for: both of the above.
StreamSettlesOwnJob == GoneWasHandled /\ DoneIsGoneUnlessCrossed

\* Again and again every accepted message is acknowledged or has used up its
\* deliveries; the rotation over the subscriptions starves no kind.
Spent(m) == Entry(m).n = MaxDeliver /\ Entry(m).state # "out"
AllSettled == \A m \in Messages : Entry(m).state = "gone" \/ Spent(m)
PublishedIsSettled == []<>AllSettled

=============================================================================
