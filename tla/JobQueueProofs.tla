--------------------------- MODULE JobQueueProofs ---------------------------
(* Proofs about JobQueue, for every set of jobs and workers.               *)
EXTENDS JobQueue, FiniteSetTheorems, TLAPS

\* A worker without a job is a worker.
LEMMA FreeType == \A pc \in WorkerSteps : Free(pc) \in Worker
<1>1. (CHOOSE j \in Jobs : TRUE) \in Jobs
  BY ConstantsAssumption, Zenon
<1>2. QED
  BY <1>1, ConstantsAssumption DEF Free, Worker

\* The delay before a retry is a number.
LEMMA RetryDelayType == \A n \in 0..AttemptCap : RetryDelay(n) \in Int
<1> SUFFICES ASSUME NEW n \in 0..AttemptCap PROVE RetryDelay(n) \in Int
  OBVIOUS
<1>1. n \in Int /\ MaxDelay \in Int
  BY ConstantsAssumption
<1> DEFINE a == IF n < 1 THEN 1 ELSE n
<1>2. Min2(a, 6) \in 1..6
  BY <1>1 DEF Min2
<1>3. Shifts[Min2(a, 6)] \in Int
  BY <1>2 DEF Shifts
<1>4. QED
  BY <1>1, <1>3, Zenon DEF RetryDelay, Min2

\* The order of the jobs is by numbers.
LEMMA RankType == \A j \in Jobs : Rank(j) \in Int
<1> SUFFICES ASSUME NEW j \in Jobs PROVE Rank(j) \in Int
  OBVIOUS
<1> DEFINE S == {i \in Jobs : Overdue(i) /\ row[i].due >= row[j].due}
<1>1. IsFiniteSet(S)
  BY FS_Subset, ConstantsAssumption, Zenon
<1>2. Cardinality(S) \in Nat
  BY <1>1, FS_CardinalityType, Zenon
<1>3. QED
  BY <1>2 DEF Rank

\* A row that Enqueue writes is a row.
LEMMA PendingRowType ==
  TypeOK => \A j \in Jobs : \A d \in Int : PendingRow(j, d) \in Row
BY DEF TypeOK, PendingRow, Row, RowStatus

\* The types hold at the start.
LEMMA InitType == Init => TypeOK
BY FreeType, ConstantsAssumption
DEF Init, TypeOK, NewRow, Row, RowStatus, WorkerSteps, Verdicts

\* A worker that goes on to its next step keeps its type.
LEMMA MoveType ==
  TypeOK => \A w \in Workers : /\ wk[w].job \in Jobs
                               /\ \A pc \in WorkerSteps :
                                    [wk EXCEPT ![w] = At(w, pc)] \in [Workers -> Worker]
<1> SUFFICES ASSUME TypeOK, NEW w \in Workers
             PROVE  /\ wk[w].job \in Jobs
                    /\ \A pc \in WorkerSteps :
                         [wk EXCEPT ![w] = At(w, pc)] \in [Workers -> Worker]
  OBVIOUS
<1>1. wk[w].job \in Jobs
  BY Zenon DEF TypeOK, Worker
<1>2. \A pc \in WorkerSteps : At(w, pc) \in Worker
  BY Zenon DEF TypeOK, Worker, At
<1>3. QED
  BY <1>1, <1>2, Zenon DEF TypeOK

\* Time changes neither the status of a row nor what a worker is doing.
LEMMA TickKeeps ==
  TypeOK /\ Tick => /\ \A j \in Jobs : row'[j].status = row[j].status
                    /\ \A w \in Workers : /\ wk'[w].pc = wk[w].pc
                                          /\ wk'[w].job = wk[w].job
<1> SUFFICES ASSUME TypeOK, Tick
             PROVE  /\ \A j \in Jobs : row'[j].status = row[j].status
                    /\ \A w \in Workers : /\ wk'[w].pc = wk[w].pc
                                          /\ wk'[w].job = wk[w].job
  OBVIOUS
<1>2. ASSUME NEW x \in Worker, NEW l
      PROVE  [x EXCEPT !.left = l].pc = x.pc /\ [x EXCEPT !.left = l].job = x.job
  BY Zenon DEF Worker
<1>3. \A j \in Jobs : row'[j].status = row[j].status
  BY Zenon DEF Tick, Aged
<1>4. \A w \in Workers : wk'[w].pc = wk[w].pc /\ wk'[w].job = wk[w].job
  BY <1>2, Zenon DEF TypeOK, Tick
<1>5. QED
  BY <1>3, <1>4, Zenon

\* Every variable keeps its type under every action of the queue, its workers
\* and its scheduler.
THEOREM TypeCorrect == Spec => []TypeOK
<1>1. Init => TypeOK
  BY InitType, ZenonT(60)
<1>2. TypeOK /\ [Next]_vars => TypeOK'
  <2> SUFFICES ASSUME TypeOK, [Next]_vars PROVE TypeOK'
    OBVIOUS
  <2> USE ConstantsAssumption DEF TypeOK, storeVars, effectVars, historyVars
  <2>1. ASSUME NEW j \in Jobs, Submit(j) PROVE TypeOK'
    BY <2>1, Zenon DEF Submit
  <2>2. ASSUME NEW j \in Jobs, Enqueue(j) PROVE TypeOK'
    BY <2>2, SMTT(30) DEF Enqueue, Row, RowStatus
  <2>3. ASSUME NEW j \in Jobs, GiveUp(j) PROVE TypeOK'
    BY <2>3, Zenon DEF GiveUp
  <2>4. ASSUME NEW w \in Workers, NEW j \in Jobs, ClaimNext(w, j) PROVE TypeOK'
    <3>1. Min2(row[j].attempts + 1, AttemptCap) \in 0..AttemptCap
      BY DEF Row, Min2
    <3> DEFINE n == Min2(row[j].attempts + 1, AttemptCap)
    <3>2. PICK waited \in 0..BusyTicks :
            /\ row' = [row EXCEPT ![j] = [status |-> "processing", attempts |-> n,
                                          due |-> row[j].due, lease |-> LeaseTicks - waited]]
            /\ wk' = [wk EXCEPT ![w] = [pc |-> "claimed", job |-> j, attempts |-> n,
                                        left |-> LeaseTicks - waited]]
            /\ overrun' \in {overrun, overrun \cup {j}}
      BY <2>4, Zenon DEF ClaimNext
    <3>3. LeaseTicks - waited \in Int
      OBVIOUS
    <3>4. [status |-> "processing", attempts |-> n, due |-> row[j].due,
           lease |-> LeaseTicks - waited] \in Row
      BY <3>1, <3>3, Zenon DEF Row, RowStatus
    <3>5. [pc |-> "claimed", job |-> j, attempts |-> n, left |-> LeaseTicks - waited] \in Worker
      BY <3>1, <3>3, Zenon DEF Worker, WorkerSteps
    <3>6. UNCHANGED <<req, up, completed, faults, verdict, effectVars>>
      BY <2>4, Zenon DEF ClaimNext
    <3> HIDE DEF n
    <3>7. QED
      BY <3>2, <3>4, <3>5, <3>6, Zenon
  <2>5. ASSUME NEW w \in Workers, Discard(w) PROVE TypeOK'
    BY <2>5, MoveType, Zenon DEF Discard, WorkerSteps, Verdicts
  <2>6. ASSUME NEW w \in Workers, CheckDuplicate(w) PROVE TypeOK'
    BY <2>6, MoveType, Zenon DEF CheckDuplicate, WorkerSteps, Verdicts
  <2>6a. ASSUME NEW w \in Workers, CheckDuplicateFails(w) PROVE TypeOK'
    BY <2>6a, MoveType DEF CheckDuplicateFails, WorkerSteps, Verdicts
  <2>7. ASSUME NEW w \in Workers, ProcessNativeJob(w) PROVE TypeOK'
    BY <2>7, MoveType DEF ProcessNativeJob, WorkerSteps, Verdicts
  <2>7a. ASSUME NEW w \in Workers, UpsertGroup(w) PROVE TypeOK'
    BY <2>7a, MoveType DEF UpsertGroup, Min2, WorkerSteps, Verdicts
  <2>7b. ASSUME NEW w \in Workers, SaveEvent(w) PROVE TypeOK'
    BY <2>7b, MoveType DEF SaveEvent, WorkerSteps, Verdicts
  <2>7c. ASSUME NEW w \in Workers, Dispatch(w) PROVE TypeOK'
    BY <2>7c, MoveType DEF Dispatch, Min2, WorkerSteps, Verdicts
  <2>8. ASSUME NEW w \in Workers, DropFiltered(w) PROVE TypeOK'
    BY <2>8, MoveType, Zenon DEF DropFiltered, WorkerSteps, Verdicts
  <2>8a. ASSUME NEW w \in Workers, ProcessPermanent(w) PROVE TypeOK'
    BY <2>8a, MoveType, Zenon DEF ProcessPermanent, WorkerSteps, Verdicts
  <2>9. ASSUME NEW w \in Workers, ProcessTransient(w) PROVE TypeOK'
    BY <2>9, MoveType DEF ProcessTransient, WorkerSteps, Verdicts
  <2>10. ASSUME NEW w \in Workers, MarkDone(w) PROVE TypeOK'
    BY <2>10, FreeType DEF MarkDone, NewRow, Row, RowStatus, Worker, WorkerSteps
  <2>11. ASSUME NEW w \in Workers, Requeue(w) PROVE TypeOK'
    <3>1. RetryDelay(wk[w].attempts) \in Int
      BY RetryDelayType, Zenon DEF Worker
    <3>2. wk[w].job \in Jobs
      BY Zenon DEF Worker
    <3>3. PendingRow(wk[w].job, RetryDelay(wk[w].attempts)) \in Row
      BY <3>1, <3>2, PendingRowType, Zenon
    <3>4. row' \in [Jobs -> Row]
      BY <2>11, <3>2, <3>3, Zenon DEF Requeue
    <3>5. QED
      BY <2>11, <3>4, FreeType, Zenon DEF Requeue, WorkerSteps
  <2>12. ASSUME NEW w \in Workers, SettleFails(w) PROVE TypeOK'
    BY <2>12, FreeType DEF SettleFails, WorkerSteps
  <2>13. ASSUME NEW w \in Workers, Exit(w) PROVE TypeOK'
    BY <2>13, FreeType, Zenon DEF Exit, WorkerSteps
  <2>14. CASE RequeueExpiredProcessing
    BY <2>14, PendingRowType DEF RequeueExpiredProcessing
  <2>15. CASE Stop
    BY <2>15 DEF Stop
  <2>16. CASE Terminate
    <3>1. cut' \in SUBSET Jobs
      BY <2>16 DEF Terminate, Worker
    <3>2. QED
      BY <2>16, <3>1, FreeType DEF Terminate, WorkerSteps
  <2>17. CASE Start
    BY <2>17, FreeType, Zenon DEF Start, WorkerSteps
  <2>18. CASE Tick
    <3>1. row' \in [Jobs -> Row]
      <4>1. \A j \in Jobs : /\ Max2(row[j].due - 1, 0) \in Int
                            /\ Max2(row[j].lease - 1, 0) \in Int
        BY DEF Row, Max2
      <4>2. \A j \in Jobs : Aged(j) \in Row
        BY <4>1, RankType, Zenon DEF Aged, Row
      <4>3. QED
        BY <2>18, <4>2, Zenon DEF Tick
    <3>2. wk' \in [Workers -> Worker]
      <4>1. \A w \in Workers : Max2(wk[w].left - 1, 0) \in Int
        BY DEF Worker, Max2
      <4>2. \A w \in Workers : [wk[w] EXCEPT !.left = Max2(wk[w].left - 1, 0)] \in Worker
        BY <4>1 DEF Worker
      <4>3. QED
        BY <2>18, <4>2, Zenon DEF Tick
    <3>3. overrun' \in SUBSET Jobs
      BY <2>18, Zenon DEF Tick
    <3>4. QED
      BY <2>18, <3>1, <3>2, <3>3, Zenon DEF Tick
  <2>19. CASE UNCHANGED vars
    BY <2>19, Zenon DEF vars
  <2> HIDE DEF TypeOK
  <2>20. ASSUME NEW w \in Workers, WorkerStep(w) PROVE TypeOK'
    BY ONLY <2>20, <2>4, <2>5, <2>6, <2>6a, <2>7, <2>7a, <2>7b, <2>7c, <2>8, <2>8a, <2>9,
       <2>10, <2>11, <2>12, <2>13, ZenonT(60) DEF WorkerStep
  <2>21. QED
    BY ONLY [Next]_vars, <2>1, <2>2, <2>3, <2>14, <2>15, <2>16, <2>17, <2>18, <2>19, <2>20,
       ZenonT(60) DEF Next
<1>3. QED
  BY <1>1, <1>2, PTL DEF Spec

-----------------------------------------------------------------------------

\* What a worker about to settle has found out is on record, and an event that
\* is stored as completed has been processed.
SettledOnRecord ==
  /\ \A w \in Workers : wk[w].pc \in {"saved", "done"} => verdict[wk[w].job] # "none"
  /\ \A j \in completed : verdict[j] # "none"

NotLostInv == TypeOK /\ AcceptedNotLost /\ SettledOnRecord

\* No accepted item leaves the table before a worker has processed it, found it
\* permanently bad or discarded its kind, whatever crashes, shutdowns and
\* failed MarkDone or Requeue calls come in between.
THEOREM AcceptedItemsAreNotLost == Spec => []AcceptedNotLost
<1>1. Init => NotLostInv
  BY InitType, SMTT(30) DEF Init, NotLostInv, AcceptedNotLost, SettledOnRecord, Free
<1>2. NotLostInv /\ TypeOK' /\ [Next]_vars => NotLostInv'
  <2> SUFFICES ASSUME NotLostInv, TypeOK', [Next]_vars
               PROVE  AcceptedNotLost' /\ SettledOnRecord'
    BY Zenon DEF NotLostInv
  <2> USE DEF NotLostInv, TypeOK, AcceptedNotLost, SettledOnRecord, Active,
              storeVars, effectVars, historyVars
  <2>1. ASSUME NEW j \in Jobs, Submit(j) \/ Enqueue(j) \/ GiveUp(j)
        PROVE  AcceptedNotLost' /\ SettledOnRecord'
    BY <2>1 DEF Submit, Enqueue, GiveUp, Row
  <2>2. ASSUME NEW w \in Workers, NEW j \in Jobs, ClaimNext(w, j)
        PROVE  AcceptedNotLost' /\ SettledOnRecord'
    BY <2>2 DEF ClaimNext, Oldest, Claimable
  <2>3. ASSUME NEW w \in Workers, Discard(w) \/ DropFiltered(w) \/ ProcessPermanent(w)
        PROVE  AcceptedNotLost' /\ SettledOnRecord'
    <3>1. CASE Discard(w)
      BY <3>1 DEF Discard, At, Worker
    <3>2. CASE ProcessPermanent(w)
      BY <3>2 DEF ProcessPermanent, At, Worker
    <3>3. CASE DropFiltered(w)
      BY <3>3 DEF DropFiltered, At, Worker
    <3>4. QED
      BY <2>3, <3>1, <3>2, <3>3, Zenon
  <2>4. ASSUME NEW w \in Workers, CheckDuplicate(w)
        PROVE  AcceptedNotLost' /\ SettledOnRecord'
    BY <2>4 DEF CheckDuplicate, At, Worker
  <2>5. ASSUME NEW w \in Workers, ProcessNativeJob(w) \/ SaveEvent(w)
        PROVE  AcceptedNotLost' /\ SettledOnRecord'
    <3>1. CASE ProcessNativeJob(w)
      BY <3>1 DEF ProcessNativeJob, At, Worker
    <3>2. CASE SaveEvent(w)
      BY <3>2 DEF SaveEvent, At, Worker
    <3>3. QED
      BY <2>5, <3>1, <3>2, Zenon
  <2>5a. ASSUME NEW w \in Workers, CheckDuplicateFails(w) \/ UpsertGroup(w)
         PROVE  AcceptedNotLost' /\ SettledOnRecord'
    BY <2>5a, SMTT(30) DEF CheckDuplicateFails, UpsertGroup, At, Worker
  <2>5b. ASSUME NEW w \in Workers, Dispatch(w)
         PROVE  AcceptedNotLost' /\ SettledOnRecord'
    BY <2>5b DEF Dispatch, At, Worker
  <2>6. ASSUME NEW w \in Workers, ProcessTransient(w)
        PROVE  AcceptedNotLost' /\ SettledOnRecord'
    BY <2>6 DEF ProcessTransient, At, Worker
  <2>7. ASSUME NEW w \in Workers, MarkDone(w)
        PROVE  AcceptedNotLost' /\ SettledOnRecord'
    BY <2>7, Zenon DEF MarkDone, Free, Worker
  <2>8. ASSUME NEW w \in Workers, Requeue(w)
        PROVE  AcceptedNotLost' /\ SettledOnRecord'
    BY <2>8, Zenon DEF Requeue, PendingRow, Free, Worker
  <2>9. ASSUME NEW w \in Workers, SettleFails(w) \/ Exit(w)
        PROVE  AcceptedNotLost' /\ SettledOnRecord'
    BY <2>9 DEF SettleFails, Exit, Free
  <2>10. CASE RequeueExpiredProcessing
    BY <2>10, Zenon DEF RequeueExpiredProcessing, PendingRow
  <2>11. CASE Stop
    BY <2>11, Zenon DEF Stop
  <2>12. CASE Terminate
    BY <2>12, Zenon DEF Terminate, Free
  <2>13. CASE Start
    BY <2>13, Zenon DEF Start, Free
  <2>14. CASE Tick
    <3>1. UNCHANGED <<req, completed, verdict>>
      BY <2>14, Zenon DEF Tick
    <3>2. QED
      BY <2>14, <3>1, TickKeeps, Zenon
  <2>15. CASE UNCHANGED vars
    BY <2>15, Zenon DEF vars
  <2>16. QED
    BY <2>1, <2>2, <2>3, <2>4, <2>5, <2>5a, <2>5b, <2>6, <2>7, <2>8, <2>9, <2>10,
       <2>11, <2>12, <2>13, <2>14, <2>15, Zenon
    DEF Next, WorkerStep
<1>3. NotLostInv => AcceptedNotLost
  BY Zenon DEF NotLostInv
<1>4. QED
  BY <1>1, <1>2, <1>3, TypeCorrect, PTL DEF Spec

-----------------------------------------------------------------------------

\* What a worker does between claiming a job and settling it.
WorkOn(w) ==
  \/ Discard(w) \/ CheckDuplicate(w) \/ CheckDuplicateFails(w)
  \/ ProcessNativeJob(w) \/ UpsertGroup(w) \/ SaveEvent(w) \/ Dispatch(w)
  \/ DropFiltered(w) \/ ProcessPermanent(w) \/ ProcessTransient(w)

\* Working on a claimed job touches neither the table nor the claim.
LEMMA WorkStep ==
  ASSUME TypeOK, NEW w \in Workers, WorkOn(w)
  PROVE  /\ UNCHANGED <<row, req, overrun>>
         /\ \A v \in Workers : /\ wk'[v].job = wk[v].job
                               /\ wk'[v].left = wk[v].left
                               /\ wk'[v].pc \in Holding => wk[v].pc \in Holding
<1>1. UNCHANGED <<row, req, overrun>>
  BY Zenon DEF WorkOn, Discard, CheckDuplicate, CheckDuplicateFails, ProcessNativeJob, UpsertGroup,
         SaveEvent, Dispatch, DropFiltered, ProcessPermanent, ProcessTransient,
         storeVars, effectVars, historyVars
<1>2. /\ wk[w].pc \in Holding
      /\ \E pc \in Holding : wk' = [wk EXCEPT ![w] = At(w, pc)]
  BY Zenon DEF WorkOn, Discard, CheckDuplicate, CheckDuplicateFails, ProcessNativeJob, UpsertGroup,
         SaveEvent, Dispatch, DropFiltered, ProcessPermanent, ProcessTransient,
         Processable, Holding, WorkerSteps
<1>3. \A pc : /\ At(w, pc).job = wk[w].job
              /\ At(w, pc).left = wk[w].left
  BY Zenon DEF At, TypeOK, Worker
<1>4. QED
  BY <1>1, <1>2, <1>3, Zenon DEF TypeOK

\* A worker that never overran its lease holds a row that is still processing
\* under that very lease, so nobody else can have claimed it.
LeaseCovers ==
  \A w \in Workers : wk[w].pc \in Holding /\ wk[w].job \notin overrun =>
    /\ row[wk[w].job].status = "processing"
    /\ row[wk[w].job].lease = wk[w].left
    /\ wk[w].left > 0

\* The row of an item that was not accepted does not exist yet, and only
\* accepted items are held.
OnlyAccepted ==
  /\ \A j \in Jobs : req[j] # "accepted" => row[j].status = "new"
  /\ \A w \in Workers : wk[w].pc \in Holding => req[wk[w].job] = "accepted"

\* Only accepted jobs have rows: every step keeps that.
LEMMA OnlyAcceptedStep == TypeOK /\ OnlyAccepted /\ [Next]_vars => OnlyAccepted'
<1> SUFFICES ASSUME TypeOK, OnlyAccepted, [Next]_vars PROVE OnlyAccepted'
  OBVIOUS
<1> USE DEF OnlyAccepted, Holding, WorkerSteps, storeVars, effectVars, historyVars
<1>t. \A w \in Workers : wk[w].job \in Jobs
  BY Zenon DEF TypeOK, Worker
<1>1. ASSUME NEW j \in Jobs, Submit(j) \/ Enqueue(j) \/ GiveUp(j)
      PROVE  OnlyAccepted'
  BY <1>1, <1>t, SMTT(30) DEF Submit, Enqueue, GiveUp, TypeOK
<1>2. ASSUME NEW w \in Workers, NEW j \in Jobs, ClaimNext(w, j)
      PROVE  OnlyAccepted'
  BY <1>2, <1>t, SMTT(30) DEF ClaimNext, Oldest, Claimable, TypeOK
<1>3. ASSUME NEW w \in Workers, WorkOn(w)
      PROVE  OnlyAccepted'
  <2>1. /\ UNCHANGED <<row, req, overrun>>
        /\ \A v \in Workers : /\ wk'[v].job = wk[v].job
                              /\ wk'[v].left = wk[v].left
                              /\ wk'[v].pc \in Holding => wk[v].pc \in Holding
    BY <1>3, WorkStep, Zenon
  <2>2. QED
    BY <2>1, <1>t, Zenon
<1>4. ASSUME NEW w \in Workers, MarkDone(w)
      PROVE  OnlyAccepted'
  BY <1>4, <1>t, Zenon DEF MarkDone, Free, TypeOK
<1>5. ASSUME NEW w \in Workers, Requeue(w)
      PROVE  OnlyAccepted'
  BY <1>5, <1>t, Zenon DEF Requeue, Free, TypeOK
<1>6. ASSUME NEW w \in Workers, SettleFails(w) \/ Exit(w)
      PROVE  OnlyAccepted'
  BY <1>6 DEF SettleFails, Exit, Free, TypeOK
<1>7. CASE RequeueExpiredProcessing
  BY <1>7, <1>t, Zenon DEF RequeueExpiredProcessing, TypeOK
<1>8. CASE Stop
  BY <1>8, Zenon DEF Stop
<1>9. CASE Terminate \/ Start
  BY <1>9, SMTT(30) DEF Terminate, Start, Free, TypeOK
<1>10. CASE Tick
  <2>1. UNCHANGED req
    BY <1>10, Zenon DEF Tick
  <2>2. QED
    BY <1>10, <2>1, TickKeeps, Zenon
<1>11. CASE UNCHANGED vars
  BY <1>11, Zenon DEF vars
<1>12. QED
  BY <1>1, <1>2, <1>3, <1>4, <1>5, <1>6, <1>7, <1>8, <1>9, <1>10, <1>11, Zenon
  DEF Next, WorkerStep, WorkOn

ExclusiveInv == LeaseCovers /\ ExclusiveUnlessOverrun

\* Every step keeps the claims apart.
LEMMA ExclusiveStep ==
  TypeOK /\ OnlyAccepted /\ ExclusiveInv /\ [Next]_vars => ExclusiveInv'
<1> SUFFICES ASSUME TypeOK, OnlyAccepted, ExclusiveInv, [Next]_vars
             PROVE  ExclusiveInv'
  OBVIOUS
<1> USE DEF ExclusiveInv, LeaseCovers, ExclusiveUnlessOverrun, Holders, Holding, WorkerSteps,
            storeVars, effectVars, historyVars
<1>t. \A w \in Workers : wk[w].job \in Jobs
  BY Zenon DEF TypeOK, Worker
<1>1. ASSUME NEW j \in Jobs, Submit(j) \/ Enqueue(j) \/ GiveUp(j)
      PROVE  ExclusiveInv'
  <2>1. CASE Submit(j) \/ GiveUp(j)
    BY <2>1 DEF Submit, GiveUp
  <2>2. CASE Enqueue(j)
    BY <2>2, <1>t, SMTT(30) DEF Enqueue, OnlyAccepted, TypeOK
  <2>3. QED
    BY <1>1, <2>1, <2>2, Zenon
<1>2. ASSUME NEW w \in Workers, NEW j \in Jobs, ClaimNext(w, j)
      PROVE  ExclusiveInv'
  BY <1>2, <1>t, ConstantsAssumption, SMTT(30) DEF ClaimNext, Oldest, Claimable, TypeOK
<1>3. ASSUME NEW w \in Workers, WorkOn(w)
      PROVE  ExclusiveInv'
  <2>1. /\ UNCHANGED <<row, req, overrun>>
        /\ \A v \in Workers : /\ wk'[v].job = wk[v].job
                              /\ wk'[v].left = wk[v].left
                              /\ wk'[v].pc \in Holding => wk[v].pc \in Holding
    BY <1>3, WorkStep, Zenon
  <2>2. LeaseCovers'
    BY <2>1, Zenon
  <2>3. ExclusiveUnlessOverrun'
    BY <2>1
  <2>4. QED
    BY <2>2, <2>3, Zenon
<1>4. ASSUME NEW w \in Workers, MarkDone(w) \/ Requeue(w)
      PROVE  ExclusiveInv'
  <2> DEFINE j == wk[w].job
  <2>1. /\ wk[w].pc \in Holding
        /\ wk' = [wk EXCEPT ![w] = Free("idle")]
        /\ UNCHANGED overrun
        /\ \A i \in Jobs : i # j => row'[i] = row[i]
    BY <1>4, <1>t, Zenon DEF MarkDone, Requeue, TypeOK
  <2>2. Free("idle").pc \notin Holding
    BY Zenon DEF Free
  <2>3. LeaseCovers'
    BY <2>1, <2>2, <1>t, SMTT(30) DEF TypeOK
  <2>4. ExclusiveUnlessOverrun'
    BY <2>1, <2>2, <1>t, SMTT(30) DEF TypeOK
  <2>5. QED
    BY <2>3, <2>4, Zenon
<1>5. ASSUME NEW w \in Workers, SettleFails(w) \/ Exit(w)
      PROVE  ExclusiveInv'
  <2>1. /\ UNCHANGED <<row, overrun>>
        /\ \E q \in {"idle", "exited"} : wk' = [wk EXCEPT ![w] = Free(q)]
    BY ONLY <1>5, Zenon DEF SettleFails, Exit, storeVars, effectVars, historyVars
  <2>2. \A q \in {"idle", "exited"} : Free(q).pc \notin Holding
    BY ONLY Zenon DEF Free, Holding
  <2>3. \A v \in Workers : wk'[v].pc \in Holding => wk'[v] = wk[v]
    BY ONLY <2>1, <2>2, TypeOK, Zenon DEF TypeOK
  <2>4. \A v \in Workers : wk'[v].pc \in Holding => wk[v].pc \in Holding /\ wk'[v].job = wk[v].job
    BY ONLY <2>3, Zenon
  <2>5. LeaseCovers'
    BY ONLY <2>1, <2>3, <2>4, ExclusiveInv, Zenon DEF ExclusiveInv, LeaseCovers
  <2>6. ExclusiveUnlessOverrun'
    BY ONLY <2>1, <2>4, ExclusiveInv, SMTT(30) DEF ExclusiveInv, ExclusiveUnlessOverrun, Holders
  <2>7. QED
    BY ONLY <2>5, <2>6, Zenon DEF ExclusiveInv
<1>6. CASE RequeueExpiredProcessing
  BY <1>6, <1>t, SMTT(30) DEF RequeueExpiredProcessing, TypeOK, Worker
<1>7. CASE Stop
  BY <1>7, SMTT(30) DEF Stop
<1>8. CASE Terminate \/ Start
  BY <1>8, SMTT(30) DEF Terminate, Start, Free
<1>9. CASE Tick
  <2>1. ASSUME NEW w \in Workers PROVE wk'[w].left = Max2(wk[w].left - 1, 0)
    BY <1>9 DEF Tick, TypeOK, Worker
  <2>2. ASSUME NEW j \in Jobs PROVE row'[j].lease = Max2(row[j].lease - 1, 0)
    BY <1>9, Zenon DEF Tick, Aged
  <2>3. overrun \subseteq overrun'
    BY <1>9, Zenon DEF Tick
  <2>4. \A w \in Workers : wk[w].pc \in Holding /\ wk[w].job \notin overrun' => wk[w].left > 1
    BY <1>9, <1>t, SMTT(30) DEF Tick, TypeOK, Worker
  <2>5. LeaseCovers'
    BY <1>9, <2>1, <2>2, <2>3, <2>4, <1>t, TickKeeps, SMTT(30) DEF TypeOK, Worker, Max2
  <2>6. ExclusiveUnlessOverrun'
    BY <1>9, <2>3, TickKeeps, SMTT(30)
  <2>7. QED
    BY <2>5, <2>6, Zenon
<1>10. CASE UNCHANGED vars
  BY <1>10 DEF vars
<1>11. QED
  BY <1>1, <1>2, <1>3, <1>4, <1>5, <1>6, <1>7, <1>8, <1>9, <1>10, Zenon
  DEF Next, WorkerStep, WorkOn

\* Two workers handle one job at the same time only if one of them kept it past
\* the end of its lease: the claim is exclusive although MarkDone and Requeue
\* never check who holds the row.
THEOREM ClaimsAreExclusive == Spec => []ExclusiveUnlessOverrun
<1>1. Init => ExclusiveInv
  BY DEF Init, ExclusiveInv, LeaseCovers, ExclusiveUnlessOverrun, Holders, Holding, WorkerSteps, Free
<1>2. ExclusiveInv => ExclusiveUnlessOverrun
  BY Zenon DEF ExclusiveInv
<1>3. Init => OnlyAccepted
  BY DEF Init, OnlyAccepted, Holding, WorkerSteps, Free, NewRow
<1>4. QED
  BY <1>1, <1>2, <1>3, ExclusiveStep, OnlyAcceptedStep, TypeCorrect, PTL DEF Spec

-----------------------------------------------------------------------------

\* The jobs that count against the limit are finitely many.
LEMMA ActiveFinite ==
  /\ IsFiniteSet(ActiveJobs) /\ Cardinality(ActiveJobs) \in Nat
  /\ \A S \in SUBSET ActiveJobs : Cardinality(S) \in Nat /\ Cardinality(S) <= Cardinality(ActiveJobs)
  /\ \A j : Cardinality(ActiveJobs \cup {j}) <= Cardinality(ActiveJobs) + 1
<1>1. IsFiniteSet(ActiveJobs)
  BY FS_Subset, ConstantsAssumption, Zenon DEF ActiveJobs
<1>2. Cardinality(ActiveJobs) \in Nat
  BY <1>1, FS_CardinalityType, Zenon
<1>3. \A S \in SUBSET ActiveJobs : Cardinality(S) \in Nat /\ Cardinality(S) <= Cardinality(ActiveJobs)
  BY <1>1, FS_Subset, FS_CardinalityType, Zenon
<1>4. \A j : Cardinality(ActiveJobs \cup {j}) <= Cardinality(ActiveJobs) + 1
  BY <1>1, <1>2, FS_AddElement
<1>5. QED
  BY <1>1, <1>2, <1>3, <1>4, Zenon

\* Only Enqueue adds to the pending and processing rows, and it does so one row
\* at a time and below the limit: the table never outgrows queueSize.
THEOREM QueueNeverOverflows == Spec => []QueueBounded
<1>1. Init => QueueBounded
  <2> SUFFICES ASSUME Init PROVE QueueBounded
    OBVIOUS
  <2>1. ActiveJobs = {}
    BY Zenon DEF Init, ActiveJobs, Active, NewRow
  <2>2. QED
    BY <2>1, FS_EmptySet, ConstantsAssumption DEF QueueBounded
<1>2. TypeOK /\ QueueBounded /\ [Next]_vars => QueueBounded'
  <2> SUFFICES ASSUME TypeOK, QueueBounded, [Next]_vars
               PROVE  QueueBounded'
    OBVIOUS
  <2> USE DEF ActiveJobs, Active, storeVars, effectVars, historyVars
  <2>1. ASSUME ActiveJobs' \subseteq ActiveJobs PROVE QueueBounded'
    BY <2>1, ActiveFinite, ConstantsAssumption, SMTT(30) DEF QueueBounded
  <2>2. ASSUME NEW j \in Jobs, Enqueue(j) PROVE QueueBounded'
    <3>1. ActiveJobs' = ActiveJobs \cup {j}
      BY <2>2, Zenon DEF Enqueue, TypeOK, Row
    <3>2. Cardinality(ActiveJobs) < QueueSize
      BY <2>2, Zenon DEF Enqueue
    <3>3. Cardinality(ActiveJobs') <= Cardinality(ActiveJobs) + 1
      BY <3>1, ActiveFinite, Zenon
    <3>4. Cardinality(ActiveJobs') \in Nat
      BY <3>1, ActiveFinite, FS_AddElement, FS_CardinalityType, Zenon
    <3>5. QED
      BY <3>2, <3>3, <3>4, ActiveFinite, ConstantsAssumption DEF QueueBounded
  <2>3. ASSUME NEW j \in Jobs, Submit(j) \/ GiveUp(j)
        PROVE  ActiveJobs' \subseteq ActiveJobs
    BY <2>3, Zenon DEF Submit, GiveUp
  <2>4. ASSUME NEW w \in Workers, NEW j \in Jobs, ClaimNext(w, j)
        PROVE  ActiveJobs' \subseteq ActiveJobs
    BY <2>4, Zenon DEF ClaimNext, Oldest, Claimable, TypeOK
  <2>5. ASSUME NEW w \in Workers,
               WorkOn(w) \/ SettleFails(w) \/ Exit(w)
        PROVE  ActiveJobs' \subseteq ActiveJobs
    <3>1. UNCHANGED row
      BY <2>5, WorkStep, Zenon DEF SettleFails, Exit
    <3>2. QED
      BY <3>1, Zenon
  <2>6. ASSUME NEW w \in Workers, MarkDone(w) \/ Requeue(w)
        PROVE  ActiveJobs' \subseteq ActiveJobs
    BY <2>6, SMTT(30) DEF MarkDone, Requeue, PendingRow, NewRow, TypeOK, Worker
  <2>7. ASSUME RequeueExpiredProcessing PROVE ActiveJobs' \subseteq ActiveJobs
    BY <2>7, Zenon DEF RequeueExpiredProcessing
  <2>8. ASSUME Stop \/ Terminate \/ Start PROVE ActiveJobs' \subseteq ActiveJobs
    BY <2>8, Zenon DEF Stop, Terminate, Start
  <2>9. ASSUME Tick PROVE ActiveJobs' \subseteq ActiveJobs
    BY <2>9, TickKeeps, Zenon
  <2>10. ASSUME UNCHANGED vars PROVE ActiveJobs' \subseteq ActiveJobs
    BY <2>10, Zenon DEF vars
  <2>11. QED
    BY <2>1, <2>2, <2>3, <2>4, <2>5, <2>6, <2>7, <2>8, <2>9, <2>10, Zenon
    DEF Next, WorkerStep, WorkOn
<1>3. QED
  BY <1>1, <1>2, TypeCorrect, PTL DEF Spec

-----------------------------------------------------------------------------

\* A row that MarkDone deleted is never seen again: the UPDATEs of a late
\* Requeue and of the expiry sweep find nothing, and ids are not reused.
THEOREM DeletedRowsStayDeleted == Spec => DeletedStaysDeleted
<1>1. TypeOK /\ OnlyAccepted /\ [Next]_vars =>
        [\A j \in Jobs : row[j].status = "deleted" => row'[j].status = "deleted"]_vars
  <2> SUFFICES ASSUME TypeOK, OnlyAccepted, [Next]_vars, NEW i \in Jobs,
                      row[i].status = "deleted"
               PROVE  row'[i].status = "deleted"
    OBVIOUS
  <2> USE DEF storeVars, effectVars, historyVars
  <2>1. ASSUME NEW j \in Jobs, Submit(j) \/ Enqueue(j) \/ GiveUp(j)
        PROVE  row'[i].status = "deleted"
    BY <2>1, Zenon DEF Submit, Enqueue, GiveUp, OnlyAccepted, TypeOK
  <2>2. ASSUME NEW w \in Workers, NEW j \in Jobs, ClaimNext(w, j)
        PROVE  row'[i].status = "deleted"
    BY <2>2, Zenon DEF ClaimNext, Oldest, Claimable, TypeOK
  <2>3. ASSUME NEW w \in Workers,
               WorkOn(w) \/ SettleFails(w) \/ Exit(w)
        PROVE  row'[i].status = "deleted"
    <3>1. UNCHANGED row
      BY <2>3, WorkStep, Zenon DEF SettleFails, Exit
    <3>2. QED
      BY <3>1, ZenonT(60)
  <2>4. ASSUME NEW w \in Workers, MarkDone(w)
        PROVE  row'[i].status = "deleted"
    BY <2>4, Zenon DEF MarkDone, NewRow, TypeOK
  <2>5. ASSUME NEW w \in Workers, Requeue(w)
        PROVE  row'[i].status = "deleted"
    BY <2>5, Zenon DEF Requeue, Active, TypeOK
  <2>6. CASE RequeueExpiredProcessing
    BY <2>6, Zenon DEF RequeueExpiredProcessing
  <2>7. CASE Stop \/ Terminate \/ Start
    BY <2>7, Zenon DEF Stop, Terminate, Start
  <2>8. CASE Tick
    BY <2>8, TickKeeps, Zenon
  <2>9. CASE UNCHANGED vars
    BY <2>9, Zenon DEF vars
  <2>10. QED
    BY <2>1, <2>2, <2>3, <2>4, <2>5, <2>6, <2>7, <2>8, <2>9, Zenon
    DEF Next, WorkerStep, WorkOn
<1>2. Init => OnlyAccepted
  BY DEF Init, OnlyAccepted, Holding, WorkerSteps, Free, NewRow
<1>3. QED
  BY <1>1, <1>2, OnlyAcceptedStep, TypeCorrect, PTL DEF Spec, DeletedStaysDeleted

-----------------------------------------------------------------------------
\* The effects of an event happen once unless they were cut: the counters of an
\* event that no fault and no overrun touched are the ones that the place of
\* its only holder in processItem implies.

\* An event that no fault, no dropped alert and no overrun lease touched.
Fine(j) == KindOf[j] = "event" /\ j \notin overrun \cup cut
AtStep(w, pc, j) == wk[w].pc = pc /\ wk[w].job = j

\* The effects an event has had are the ones its place in processItem implies: it
\* is counted once a worker is past the group or the event is stored, and alerted
\* once the event is stored and no worker is still to hand it over.
EffectsOf(j) ==
  /\ counted[j] = 1 \/ (counted[j] = 0 /\ j \notin completed)
  /\ alerted[j] = 0 \/ (alerted[j] = 1 /\ j \in completed)
  /\ verdict[j] = "processed" => j \in completed
  /\ j \notin completed /\ (\A w \in Workers : ~AtStep(w, "counted", j)) => counted[j] = 0
  /\ j \in completed /\ (\A w \in Workers : ~AtStep(w, "saved", j)) => alerted[j] = 1

PlaceOf(w) ==
  /\ wk[w].pc \in {"checked", "counted"} => wk[w].job \notin completed
  /\ wk[w].pc = "counted" => counted[wk[w].job] = 1
  /\ wk[w].pc = "saved" => wk[w].job \in completed /\ alerted[wk[w].job] = 0

EffectsInv ==
  /\ \A w \in Workers : wk[w].pc \in {"checked", "counted", "saved"} =>
       KindOf[wk[w].job] = "event"
  /\ \A j \in Jobs : Fine(j) => EffectsOf(j)
  /\ \A w \in Workers : Fine(wk[w].job) => PlaceOf(w)

\* A step that leaves the stored effects alone, moves no worker into or out of the
\* middle of an event, and only adds to the exceptions.
LEMMA EffectsKept ==
  ASSUME TypeOK, EffectsInv, UNCHANGED <<completed, verdict, counted, alerted>>,
         overrun \subseteq overrun', cut \subseteq cut',
         \A w \in Workers : wk[w].pc \in {"counted", "saved"} \/ wk'[w].pc \in {"checked", "counted", "saved"} =>
           wk'[w].pc = wk[w].pc /\ wk'[w].job = wk[w].job
  PROVE  EffectsInv'
<1>t. \A w \in Workers : wk[w].job \in Jobs
  BY Zenon DEF TypeOK, Worker
<1>1. \A j : Fine(j)' => Fine(j)
  BY Zenon DEF Fine
<1>2. \A w \in Workers : \A j : \A pc \in {"counted", "saved"} : AtStep(w, pc, j)' <=> AtStep(w, pc, j)
  BY Zenon DEF AtStep
<1>3. \A j \in Jobs : Fine(j)' => EffectsOf(j)'
  BY <1>1, <1>2, Zenon DEF EffectsInv, EffectsOf
<1>4. \A w \in Workers : Fine(wk[w].job)' => PlaceOf(w)'
  BY <1>1, <1>t, Zenon DEF EffectsInv, PlaceOf
<1>5. QED
  BY <1>3, <1>4, <1>t, Zenon DEF EffectsInv

\* Two workers are never in the middle of one event that is Fine.
LEMMA AloneOnFine ==
  ASSUME ExclusiveInv, TypeOK, NEW v \in Workers, NEW w \in Workers, v # w,
         wk[v].pc \in Holding, wk[w].pc \in Holding, wk[v].job = wk[w].job
  PROVE  ~Fine(wk[w].job)
BY Zenon DEF ExclusiveInv, ExclusiveUnlessOverrun, Holders, Fine, TypeOK, Worker

\* No worker runs while the process is down.
DownIsIdle == up = "down" => \A w \in Workers : wk[w].pc = "exited"

\* A stopped process has idle workers: every step keeps that.
LEMMA DownIsIdleStep == TypeOK /\ DownIsIdle /\ [Next]_vars => DownIsIdle'
<1> SUFFICES ASSUME TypeOK, DownIsIdle, [Next]_vars PROVE DownIsIdle'
  OBVIOUS
<1> USE DEF DownIsIdle, storeVars, effectVars, historyVars
<1>1. ASSUME NEW j \in Jobs, Submit(j) \/ Enqueue(j) \/ GiveUp(j) PROVE DownIsIdle'
  BY <1>1, Zenon DEF Submit, Enqueue, GiveUp
<1>2. ASSUME NEW w \in Workers, WorkerStep(w) PROVE DownIsIdle'
  <2>1. UNCHANGED up /\ wk[w].pc # "exited"
    BY <1>2, Zenon DEF WorkerStep, ClaimNext, Discard, CheckDuplicate, CheckDuplicateFails,
                ProcessNativeJob, UpsertGroup, SaveEvent, Dispatch, DropFiltered,
                ProcessPermanent, ProcessTransient, Processable, MarkDone, Requeue, SettleFails, Exit
  <2>2. QED
    BY <2>1, Zenon
<1>3. CASE RequeueExpiredProcessing \/ Stop \/ Start
  BY <1>3, Zenon DEF RequeueExpiredProcessing, Stop, Start
<1>4. CASE Terminate
  BY <1>4, Zenon DEF Terminate, Free
<1>5. CASE Tick
  BY <1>5, TickKeeps, Zenon DEF Tick
<1>6. CASE UNCHANGED vars
  BY <1>6, Zenon DEF vars
<1>7. QED
  BY <1>1, <1>2, <1>3, <1>4, <1>5, <1>6, Zenon DEF Next

\* Every step keeps the effects and their causes together.
LEMMA EffectsStep ==
  TypeOK /\ DownIsIdle /\ ExclusiveInv /\ EffectsInv /\ [Next]_vars => EffectsInv'
<1> SUFFICES ASSUME TypeOK, DownIsIdle, ExclusiveInv, EffectsInv, [Next]_vars
             PROVE  EffectsInv'
  OBVIOUS
<1> USE DEF storeVars, effectVars, historyVars
<1>t. \A w \in Workers : wk[w].job \in Jobs
  BY Zenon DEF TypeOK, Worker
<1>a. \A w \in Workers : \A pc : At(w, pc).pc = pc /\ At(w, pc).job = wk[w].job
  BY Zenon DEF At, TypeOK, Worker
<1>1. ASSUME NEW j \in Jobs, Submit(j) \/ Enqueue(j) \/ GiveUp(j)
      PROVE  EffectsInv'
  <2>1. UNCHANGED <<completed, verdict, counted, alerted, overrun, cut, wk>>
    BY <1>1, Zenon DEF Submit, Enqueue, GiveUp
  <2>2. QED
    BY <2>1, EffectsKept, Zenon
<1>2. ASSUME NEW w \in Workers, NEW j \in Jobs, ClaimNext(w, j)
      PROVE  EffectsInv'
  <2>1. /\ UNCHANGED <<completed, verdict, counted, alerted, cut>>
        /\ overrun \subseteq overrun'
        /\ wk[w].pc = "idle" /\ wk'[w].pc = "claimed"
        /\ \A v \in Workers : v # w => wk'[v] = wk[v]
    BY <1>2, SMTT(30) DEF ClaimNext, TypeOK
  <2>2. QED
    BY <2>1, EffectsKept, Zenon
<1>3. ASSUME NEW w \in Workers, Discard(w) \/ DropFiltered(w) \/ ProcessPermanent(w)
      PROVE  EffectsInv'
  <2> DEFINE j == wk[w].job
  <2>1. /\ UNCHANGED <<completed, counted, alerted, overrun, cut>>
        /\ wk' = [wk EXCEPT ![w] = At(w, "done")]
        /\ wk[w].pc \notin {"counted", "saved"}
        /\ \E x \in Verdicts \ {"processed"} : verdict' = [verdict EXCEPT ![j] = x]
    BY <1>3, Zenon DEF Discard, DropFiltered, ProcessPermanent, Processable, Verdicts
  <2>2. QED
    BY <2>1, <1>t, <1>a, SMTT(30) DEF EffectsInv, EffectsOf, PlaceOf, Fine, AtStep, TypeOK
<1>4. ASSUME NEW w \in Workers, CheckDuplicate(w)
      PROVE  EffectsInv'
  <2> DEFINE j == wk[w].job
  <2>1. /\ UNCHANGED <<completed, verdict, counted, alerted, overrun, cut>>
        /\ wk' = [wk EXCEPT ![w] = At(w, IF j \in completed THEN "done" ELSE "checked")]
        /\ wk[w].pc = "claimed" /\ KindOf[j] = "event"
    BY <1>4, Zenon DEF CheckDuplicate
  <2>2. QED
    BY <2>1, <1>t, <1>a, SMTT(30) DEF EffectsInv, EffectsOf, PlaceOf, Fine, AtStep, TypeOK
<1>5. ASSUME NEW w \in Workers, CheckDuplicateFails(w)
      PROVE  EffectsInv'
  <2> DEFINE j == wk[w].job
  <2>1. /\ UNCHANGED <<completed, verdict, counted, alerted, overrun>>
        /\ cut' = cut \cup {j}
        /\ wk' = [wk EXCEPT ![w] = At(w, "checked")]
        /\ wk[w].pc = "claimed" /\ KindOf[j] = "event"
    BY <1>5, Zenon DEF CheckDuplicateFails
  <2>2. QED
    BY <2>1, <1>t, <1>a, SMTT(30) DEF EffectsInv, EffectsOf, PlaceOf, Fine, AtStep, TypeOK
<1>6. ASSUME NEW w \in Workers, ProcessNativeJob(w)
      PROVE  EffectsInv'
  <2> DEFINE j == wk[w].job
  <2>1. /\ UNCHANGED <<counted, alerted, overrun, cut>>
        /\ completed' = completed \cup {j}
        /\ verdict' = [verdict EXCEPT ![j] = "processed"]
        /\ wk' = [wk EXCEPT ![w] = At(w, "done")]
        /\ wk[w].pc = "claimed" /\ KindOf[j] # "event"
    BY <1>6, Zenon DEF ProcessNativeJob
  <2>2. QED
    BY <2>1, <1>t, <1>a, SMTT(30) DEF EffectsInv, EffectsOf, PlaceOf, Fine, AtStep, TypeOK
<1>7. ASSUME NEW w \in Workers, UpsertGroup(w)
      PROVE  EffectsInv'
  <2> DEFINE j == wk[w].job
  <2>1. /\ UNCHANGED <<completed, verdict, alerted, overrun, cut>>
        /\ counted' = [counted EXCEPT ![j] = Min2(@ + 1, 2)]
        /\ wk' = [wk EXCEPT ![w] = At(w, "counted")]
        /\ wk[w].pc = "checked"
    BY <1>7, Zenon DEF UpsertGroup
  <2>2. Fine(j) => \A v \in Workers : ~AtStep(v, "counted", j)
    BY <2>1, AloneOnFine, Zenon DEF AtStep, Holding, WorkerSteps
  <2>3. Fine(j) => counted[j] = 0 /\ j \notin completed
    BY <2>1, <2>2, <1>t, Zenon DEF EffectsInv, EffectsOf, PlaceOf
  <2>4. /\ \A v \in Workers : wk'[v].job = wk[v].job /\ (v # w => wk'[v].pc = wk[v].pc)
        /\ wk'[w].pc = "counted"
    BY <2>1, <1>t, <1>a DEF TypeOK
  <2>5. /\ \A i \in Jobs : i # j => counted'[i] = counted[i]
        /\ Fine(j) => counted'[j] = 1
    BY <2>1, <2>3, <1>t DEF TypeOK, Min2
  <2>6. \A i : Fine(i)' => Fine(i)
    BY <2>1, Zenon DEF Fine
  <2>7. ASSUME NEW i \in Jobs, Fine(i)' PROVE EffectsOf(i)'
    <3>1. EffectsOf(i)
      BY <2>6, <2>7, Zenon DEF EffectsInv
    <3>2. CASE i = j
      BY <2>1, <2>3, <2>4, <2>5, <2>6, <2>7, <3>1, <3>2, Zenon
      DEF EffectsInv, PlaceOf, EffectsOf, AtStep
    <3>3. CASE i # j
      BY <2>1, <2>4, <2>5, <3>1, <3>3 DEF EffectsOf, AtStep
    <3>4. QED
      BY <3>2, <3>3, Zenon
  <2>8. ASSUME NEW v \in Workers, Fine(wk[v].job)' PROVE PlaceOf(v)'
    <3>1. wk'[v].job = wk[v].job /\ wk[v].job \in Jobs
      BY <2>4, <1>t, Zenon
    <3>2. Fine(wk[v].job) /\ PlaceOf(v)
      BY <2>6, <2>8, <3>1, Zenon DEF EffectsInv, Fine
    <3>3. CASE v = w
      BY <2>1, <2>3, <2>4, <2>5, <3>1, <3>2, <3>3, SMTT(30) DEF PlaceOf
    <3>4. CASE v # w /\ wk[v].job = j
      BY <2>1, <2>4, <2>5, <3>1, <3>2, <3>4, SMTT(30) DEF PlaceOf
    <3>5. CASE v # w /\ wk[v].job # j
      BY <2>1, <2>4, <2>5, <3>1, <3>2, <3>5, SMTT(30) DEF PlaceOf
    <3>6. QED
      BY <3>3, <3>4, <3>5, Zenon
  <2>9. QED
    BY <2>1, <2>4, <2>7, <2>8, Zenon DEF EffectsInv
<1>8. ASSUME NEW w \in Workers, SaveEvent(w)
      PROVE  EffectsInv'
  <2> DEFINE j == wk[w].job
  <2>1. /\ UNCHANGED <<counted, alerted, overrun, cut>>
        /\ completed' = completed \cup {j}
        /\ verdict' = [verdict EXCEPT ![j] = "processed"]
        /\ wk' = [wk EXCEPT ![w] = At(w, "saved")]
        /\ wk[w].pc = "counted"
    BY <1>8, Zenon DEF SaveEvent
  <2>2. Fine(j) => \A v \in Workers : v # w /\ wk[v].pc \in Holding => wk[v].job # j
    BY <2>1, AloneOnFine, Zenon DEF Holding, WorkerSteps
  <2>3. /\ \A v \in Workers : wk'[v].job = wk[v].job /\ (v # w => wk'[v].pc = wk[v].pc)
        /\ wk'[w].pc = "saved"
    BY <2>1, <1>t, <1>a DEF TypeOK
  <2>4. \A i \in Jobs : i # j => verdict'[i] = verdict[i]
    BY <2>1, <1>t, Zenon DEF TypeOK
  <2>5. \A i : Fine(i)' => Fine(i)
    BY <2>1, Zenon DEF Fine
  <2>6. ASSUME NEW i \in Jobs, Fine(i)' PROVE EffectsOf(i)'
    <3>1. EffectsOf(i)
      BY <2>5, <2>6, Zenon DEF EffectsInv
    <3>2. CASE i = j
      BY <2>1, <2>2, <2>3, <2>4, <2>5, <2>6, <3>1, <3>2, Zenon DEF EffectsInv, PlaceOf, EffectsOf, AtStep
    <3>3. CASE i # j
      BY <2>1, <2>3, <2>4, <3>1, <3>3 DEF EffectsOf, AtStep
    <3>4. QED
      BY <3>2, <3>3, Zenon
  <2>7. ASSUME NEW v \in Workers, Fine(wk[v].job)' PROVE PlaceOf(v)'
    <3>1. wk'[v].job = wk[v].job /\ wk[v].job \in Jobs
      BY <2>3, <1>t, Zenon
    <3>2. Fine(wk[v].job) /\ PlaceOf(v) /\ EffectsOf(wk[v].job)
      BY <2>5, <2>7, <3>1, Zenon DEF EffectsInv, Fine
    <3>3. CASE v = w
      BY <2>1, <2>3, <3>1, <3>2, <3>3, SMTT(30) DEF PlaceOf, EffectsOf
    <3>4. CASE v # w
      BY <2>1, <2>2, <2>3, <3>1, <3>2, <3>4, SMTT(30) DEF PlaceOf, Holding, WorkerSteps
    <3>5. QED
      BY <3>3, <3>4, Zenon
  <2>8. QED
    BY <2>1, <2>3, <2>6, <2>7, Zenon DEF EffectsInv
<1>9. ASSUME NEW w \in Workers, Dispatch(w)
      PROVE  EffectsInv'
  <2> DEFINE j == wk[w].job
  <2>1. /\ UNCHANGED <<completed, verdict, counted, overrun>>
        /\ \/ alerted' = [alerted EXCEPT ![j] = Min2(@ + 1, 2)] /\ UNCHANGED cut
           \/ cut' = cut \cup {j} /\ UNCHANGED alerted
        /\ wk' = [wk EXCEPT ![w] = At(w, "done")]
        /\ wk[w].pc = "saved"
    BY <1>9, Zenon DEF Dispatch
  <2>2. Fine(j) => \A v \in Workers : v # w /\ wk[v].pc \in Holding => wk[v].job # j
    BY <2>1, AloneOnFine, Zenon DEF Holding, WorkerSteps
  <2>3. /\ \A v \in Workers : wk'[v].job = wk[v].job /\ (v # w => wk'[v].pc = wk[v].pc)
        /\ wk'[w].pc = "done"
    BY <2>1, <1>t, <1>a DEF TypeOK
  <2>4. /\ \A i \in Jobs : i # j => alerted'[i] = alerted[i]
        /\ \A i : Fine(i)' /\ i = j /\ alerted[j] = 0 => alerted'[j] = 1
    BY <2>1, <1>t DEF TypeOK, Min2, Fine
  <2>5. \A i : Fine(i)' => Fine(i)
    BY <2>1, Zenon DEF Fine
  <2>6. ASSUME NEW i \in Jobs, Fine(i)' PROVE EffectsOf(i)'
    <3>1. EffectsOf(i)
      BY <2>5, <2>6, Zenon DEF EffectsInv
    <3>2. CASE i = j
      <4>1. Fine(j) /\ PlaceOf(w)
        BY <2>5, <2>6, <3>2, Zenon DEF EffectsInv
      <4>2. j \in completed /\ alerted[j] = 0
        BY <2>1, <4>1, Zenon DEF PlaceOf
      <4>3. alerted'[j] = 1
        BY <2>4, <2>6, <3>2, <4>2, Zenon
      <4>4. counted'[j] = counted[j] /\ verdict'[j] = verdict[j] /\ completed' = completed
        BY <2>1, Zenon
      <4>5. QED
        BY <3>1, <3>2, <4>2, <4>3, <4>4, Zenon DEF EffectsOf
    <3>3. CASE i # j
      BY <2>1, <2>3, <2>4, <3>1, <3>3 DEF EffectsOf, AtStep
    <3>4. QED
      BY <3>2, <3>3, Zenon
  <2>7. ASSUME NEW v \in Workers, Fine(wk[v].job)' PROVE PlaceOf(v)'
    <3>1. wk'[v].job = wk[v].job /\ wk[v].job \in Jobs
      BY <2>3, <1>t, Zenon
    <3>2. Fine(wk[v].job) /\ PlaceOf(v)
      BY <2>5, <2>7, <3>1, Zenon DEF EffectsInv
    <3>3. CASE v = w
      BY <2>1, <2>3, <3>1, <3>2, <3>3, Zenon DEF PlaceOf
    <3>4. CASE v # w
      BY <2>1, <2>2, <2>3, <2>4, <3>1, <3>2, <3>4, SMTT(30) DEF PlaceOf, Holding, WorkerSteps
    <3>5. QED
      BY <3>3, <3>4, Zenon
  <2>8. QED
    BY <2>1, <2>3, <2>6, <2>7, Zenon DEF EffectsInv
<1>10. ASSUME NEW w \in Workers, ProcessTransient(w)
      PROVE  EffectsInv'
  <2> DEFINE j == wk[w].job
  <2>1. /\ UNCHANGED <<completed, verdict, counted, alerted, overrun>>
        /\ wk[w].pc = "counted" => cut' = cut \cup {j}
        /\ wk[w].pc # "counted" => cut' = cut
        /\ wk' = [wk EXCEPT ![w] = At(w, "retry")]
        /\ wk[w].pc # "saved"
    BY <1>10, Zenon DEF ProcessTransient, Processable
  <2>2. /\ \A v \in Workers : wk'[v].job = wk[v].job /\ (v # w => wk'[v].pc = wk[v].pc)
        /\ wk'[w].pc = "retry"
    BY <2>1, <1>t, <1>a DEF TypeOK
  <2>3. \A i : Fine(i)' => Fine(i) /\ ~AtStep(w, "counted", i)
    BY <2>1, Zenon DEF Fine, AtStep
  <2>4. ASSUME NEW i \in Jobs, Fine(i)' PROVE EffectsOf(i)'
    <3>1. EffectsOf(i) /\ ~AtStep(w, "counted", i)
      BY <2>3, <2>4, Zenon DEF EffectsInv
    <3>2. \A v \in Workers : \A pc \in {"counted", "saved"} : AtStep(v, pc, i)' <=> AtStep(v, pc, i)
      BY <2>1, <2>2, <3>1, Zenon DEF AtStep
    <3>3. QED
      BY <2>1, <3>1, <3>2, Zenon DEF EffectsOf
  <2>5. ASSUME NEW v \in Workers, Fine(wk[v].job)' PROVE PlaceOf(v)'
    <3>1. wk'[v].job = wk[v].job
      BY <2>2, Zenon
    <3>2. PlaceOf(v)
      BY <2>3, <2>5, <3>1, Zenon DEF EffectsInv
    <3>3. QED
      BY <2>1, <2>2, <3>1, <3>2 DEF PlaceOf
  <2>6. \A v \in Workers : wk'[v].pc \in {"checked", "counted", "saved"} => KindOf[wk'[v].job] = "event"
    BY <2>2, Zenon DEF EffectsInv
  <2>7. QED
    BY <2>4, <2>5, <2>6, Zenon DEF EffectsInv
<1>11. ASSUME NEW w \in Workers, MarkDone(w) \/ Requeue(w) \/ SettleFails(w) \/ Exit(w)
      PROVE  EffectsInv'
  <2>1. /\ UNCHANGED <<completed, verdict, counted, alerted, overrun, cut>>
        /\ wk[w].pc \notin {"counted", "saved"}
        /\ wk'[w].pc \in {"idle", "exited"}
        /\ \A v \in Workers : v # w => wk'[v] = wk[v]
    BY <1>11 DEF MarkDone, Requeue, SettleFails, Exit, Free, TypeOK
  <2>2. QED
    BY <2>1, EffectsKept, Zenon
<1>12. CASE RequeueExpiredProcessing \/ Stop
  <2>1. UNCHANGED <<completed, verdict, counted, alerted, overrun, cut, wk>>
    BY <1>12, Zenon DEF RequeueExpiredProcessing, Stop
  <2>2. QED
    BY <2>1, EffectsKept, Zenon
<1>13. CASE Terminate
  <2>1. /\ UNCHANGED <<completed, verdict, counted, alerted, overrun>>
        /\ \A w \in Workers : wk'[w].pc = "exited"
        /\ cut \subseteq cut'
        /\ \A w \in Workers : wk[w].pc \in {"counted", "saved"} => wk[w].job \in cut'
    BY <1>13, Zenon DEF Terminate, Free
  <2>2. \A j \in Jobs : Fine(j)' => EffectsOf(j)'
    BY <2>1, Zenon DEF EffectsInv, EffectsOf, Fine, AtStep
  <2>3. QED
    BY <2>1, <2>2, Zenon DEF EffectsInv, PlaceOf
<1>14. CASE Start
  <2>1. /\ UNCHANGED <<completed, verdict, counted, alerted, overrun, cut>>
        /\ \A w \in Workers : wk[w].pc = "exited" /\ wk'[w].pc = "idle"
    BY <1>14, Zenon DEF Start, Free, DownIsIdle
  <2>2. QED
    BY <2>1, EffectsKept, Zenon
<1>15. CASE Tick
  <2>1. /\ UNCHANGED <<completed, verdict, counted, alerted, cut>>
        /\ overrun \subseteq overrun'
    BY <1>15, Zenon DEF Tick
  <2>2. QED
    BY <1>15, <2>1, TickKeeps, EffectsKept, Zenon
<1>16. CASE UNCHANGED vars
  <2>1. UNCHANGED <<completed, verdict, counted, alerted, overrun, cut, wk>>
    BY <1>16, Zenon DEF vars
  <2>2. QED
    BY <2>1, EffectsKept, Zenon
<1>17. QED
  BY <1>1, <1>2, <1>3, <1>4, <1>5, <1>6, <1>7, <1>8, <1>9, <1>10, <1>11, <1>12,
     <1>13, <1>14, <1>15, <1>16, Zenon
  DEF Next, WorkerStep

\* An event is counted and alerted on exactly once, however often it is delivered,
\* except where a lease ended under its worker or its processing was cut short:
\* isDuplicateCompleted stops every redelivery that comes after SaveEvent.
THEOREM EffectsHappenOnce == Spec => []EffectsOnceUnlessCut
<1>1. Init => EffectsInv
  <2> SUFFICES ASSUME Init PROVE EffectsInv
    OBVIOUS
  <2>1. \A w \in Workers : wk[w].pc = "idle"
    BY Zenon DEF Init, Free
  <2>2. ASSUME NEW j \in Jobs PROVE EffectsOf(j)
    <3>1. counted[j] = 0 /\ alerted[j] = 0 /\ verdict[j] = "none" /\ j \notin completed
      BY Zenon DEF Init
    <3>2. QED
      BY <3>1, Zenon DEF EffectsOf
  <2>3. QED
    BY <2>1, <2>2, Zenon DEF EffectsInv, PlaceOf
<1>1a. Init => ExclusiveInv /\ OnlyAccepted /\ DownIsIdle
  BY SMTT(30) DEF Init, ExclusiveInv, LeaseCovers, ExclusiveUnlessOverrun, OnlyAccepted,
         DownIsIdle, Holders, Holding, WorkerSteps, Free, NewRow
<1>2. TypeOK /\ ExclusiveInv /\ EffectsInv => EffectsOnceUnlessCut
  <2> SUFFICES ASSUME TypeOK, ExclusiveInv, EffectsInv, NEW j \in Jobs, Fine(j)
               PROVE  /\ counted[j] <= 1 /\ alerted[j] <= 1
                      /\ row[j].status = "deleted" /\ verdict[j] = "processed" =>
                           counted[j] = 1 /\ alerted[j] = 1
    BY Zenon DEF EffectsOnceUnlessCut, Fine
  <2>1. row[j].status = "deleted" => \A w \in Workers : ~AtStep(w, "saved", j)
    BY Zenon DEF AtStep, Fine, ExclusiveInv, LeaseCovers, Holding, WorkerSteps
  <2>2. EffectsOf(j)
    BY Zenon DEF EffectsInv
  <2>3. QED
    BY <2>1, <2>2 DEF EffectsOf
<1>3. QED
  BY <1>1, <1>1a, <1>2, EffectsStep, DownIsIdleStep, ExclusiveStep, OnlyAcceptedStep, TypeCorrect, PTL
  DEF Spec

=============================================================================
