------------------------- MODULE BackfillWorkProofs -------------------------
(***************************************************************************)
(* The work of a run: every event is counted once, and a completed run has *)
(* passed all it counted. A worker that holds the lease has an accurate    *)
(* copy of its run, and the events of the count up to the cursor are       *)
(* passed or gone. Events that were not counted have higher row ids than   *)
(* all that were, because rows are only appended; so a run that passed one *)
(* of them is through with the count.                                      *)
(***************************************************************************)
EXTENDS Backfill, FiniteSetTheorems, TLAPS

Steps == {"idle", "count", "total", "select", "apply", "advance", "fail"}
JobType == [pc : Steps, run : Nat, cursor : Nat, total : Nat, processed : Nat, row : Nat]

WorkType ==
  /\ scope = [i \in Ids |-> scope[i]]
  /\ status \in [Ids -> Statuses]
  /\ owner \in [Ids -> Workers \cup {NoWorker}]
  /\ left \in [Ids -> Nat]
  /\ prog \in [Ids -> [cursor : Nat, total : Nat, processed : Nat]]
  /\ event \in [Rows -> {"absent", "receipt", "native", "gone"}]
  /\ job \in [Workers -> JobType]
  /\ counted \in [Ids -> SUBSET Rows] /\ passed \in [Ids -> SUBSET Rows]
  /\ matured \in [Ids -> BOOLEAN]

InOrder == \A d, e \in Rows : d < e /\ event[d] = "absent" => event[e] = "absent"

\* What run i has counted, and what is left of it.
Uncounted(i) == Candidates(scope[i]) \ counted[i]
Advanced(i) ==
  /\ \A e \in counted[i] : e <= prog[i].cursor => e \in passed[i] \/ event[e] = "gone"
  /\ \A p \in passed[i] \ counted[i], e \in counted[i] : e < p
  /\ \A d \in Uncounted(i), e \in counted[i] : e < d

RunOK(i) ==
  /\ status[i] = "none" => counted[i] = {} /\ passed[i] = {} /\ prog[i].cursor = 0
  /\ prog[i].processed = Cardinality(passed[i])
  /\ Active(i) => prog[i].cursor \in {0} \cup passed[i] /\ \A e \in passed[i] : e <= prog[i].cursor
  /\ prog[i].total > 0 => prog[i].total = Cardinality(counted[i])
  /\ \A e \in counted[i] : event[e] \in {"native", "gone"} /\ Matches(Events[e], scope[i])
  /\ Active(i) /\ ~matured[i] => Advanced(i)
  /\ status[i] = "completed" /\ ~matured[i] => Covered(i)

\* The row r that a worker selected behind cursor k, or 0 when it found none.
RowOK(i, k, r) ==
  /\ r = 0 \/ (r \in Rows /\ k < r)
  /\ ~matured[i] =>
       /\ \A e \in counted[i] : k < e /\ (r = 0 \/ e < r) => event[e] = "gone"
       /\ r = 0 \/ r \in counted[i] \/ \A d \in counted[i] : d < r

\* The copy of run i that the worker in step p works with.
CopyOK(p, i, k, t, n, r) ==
  /\ k = prog[i].cursor /\ n = prog[i].processed
  /\ p = "count" => prog[i].total = 0 /\ prog[i].processed = 0
  /\ p = "total" => t = Cardinality(counted[i])
  /\ p \in {"select", "apply", "advance"} => t = prog[i].total
  /\ p \in {"apply", "advance"} => RowOK(i, k, r)

JobOK(w) ==
  job[w].pc # "idle" =>
    /\ job[w].run \in Ids
    /\ Held(w) => CopyOK(job[w].pc, job[w].run, job[w].cursor, job[w].total, job[w].processed, job[w].row)

WInv == WorkType /\ InOrder /\ (\A i \in Ids : RunOK(i)) /\ \A w \in Workers : JobOK(w)

\* Sets of rows are finite, and natural numbers.
LEMMA RowSets ==
  ASSUME NEW S \in SUBSET Rows
  PROVE  IsFiniteSet(S) /\ Cardinality(S) \in Nat /\ \A e \in S : e \in Nat /\ e # 0
<1>1. IsFiniteSet(Rows) /\ Rows \subseteq Nat \ {0}
  BY ConstantsAssumption, Zenon DEF ConstantsTyped
<1>2. IsFiniteSet(S)
  BY <1>1, FS_Subset, Zenon
<1> QED BY <1>1, <1>2, FS_CardinalityType, Zenon

\* Min of a set of numbers is its smallest element.
LEMMA MinOf ==
  ASSUME NEW S \in SUBSET Nat, S # {}
  PROVE  Min(S) \in S /\ \A y \in S : Min(S) <= y
<1> DEFINE R == OpToRel(<, Nat)
<1>1. IsWellFoundedOn(R, Nat)
  BY NatLessThanWellFounded, Zenon
<1>2. \A x, y \in Nat : <<x, y>> \in R <=> x < y
  BY Zenon DEF OpToRel
<1> HIDE DEF R
<1>3. PICK x \in S : \A y \in S : ~(<<y, x>> \in R)
  BY <1>1, WFMin, Zenon
<1>4. ASSUME NEW y \in S PROVE x <= y
  <2>1. x \in Nat /\ y \in Nat
    OBVIOUS
  <2>2. ~(y < x)
    BY <1>2, <1>3, <2>1, Zenon
  <2> QED BY <2>1, <2>2
<1>5. \E z \in S : \A y \in S : z <= y
  BY <1>4, Zenon
<1> QED BY <1>5, Zenon DEF Min

\* What keeps a worker's copy accurate: nobody else changes the run while it is held.
LEMMA JobKept ==
  ASSUME NEW w \in Workers, JobOK(w),
         \/ job'[w].pc = "idle"
         \/ /\ job[w].pc # "idle"
            /\ \/ job'[w].pc \in {job[w].pc, "fail"}
               \/ job[w].pc = "apply" /\ job'[w].pc = "advance"
            /\ job'[w].run = job[w].run /\ job'[w].cursor = job[w].cursor
            /\ job'[w].total = job[w].total /\ job'[w].processed = job[w].processed
            /\ job'[w].row = job[w].row
            /\ LET i == job[w].run
               IN Held(w)' => /\ Held(w) /\ prog'[i] = prog[i] /\ counted'[i] = counted[i]
                              /\ ~matured'[i] => ~matured[i],
         \A i \in Ids : counted[i] \subseteq Rows,
         \A e \in Rows : event[e] = "gone" => event'[e] = "gone"
  PROVE  JobOK(w)'
<1> DEFINE i == job[w].run
<1>1. CASE job'[w].pc = "idle"
  BY <1>1, Zenon DEF JobOK
<1>2. CASE job'[w].pc # "idle"
  <2>1. /\ job[w].pc # "idle" /\ i \in Ids
        /\ job'[w].run = i /\ job'[w].cursor = job[w].cursor
        /\ job'[w].total = job[w].total /\ job'[w].processed = job[w].processed
        /\ job'[w].row = job[w].row
    BY <1>2, Zenon DEF JobOK
  <2> SUFFICES ASSUME Held(w)'
               PROVE  CopyOK(job[w].pc, job[w].run, job[w].cursor, job[w].total, job[w].processed, job[w].row)'
    BY <2>1, Zenon DEF JobOK
  <2>2. /\ prog'[i] = prog[i] /\ counted'[i] = counted[i] /\ (~matured'[i] => ~matured[i])
        /\ CopyOK(job[w].pc, i, job[w].cursor, job[w].total, job[w].processed, job[w].row)
    BY <1>2, Zenon DEF JobOK
  <2>3. (job[w].run)' = job[w].run /\ (job[w].cursor)' = job[w].cursor /\ (job[w].row)' = job[w].row
    BY <2>1, Zenon
  <2>4. ASSUME RowOK(i, job[w].cursor, job[w].row) PROVE RowOK(job[w].run, job[w].cursor, job[w].row)'
    <3>1. \A e \in counted[i] : event[e] = "gone" => event'[e] = "gone"
      BY <2>1, Zenon
    <3> QED BY <2>2, <2>3, <2>4, <3>1, Zenon DEF RowOK
  <2> QED BY <1>2, <2>1, <2>2, <2>4, Zenon DEF CopyOK
<1> QED BY <1>1, <1>2, Zenon

\* What keeps a run in order when no event moves.
LEMMA RunKept ==
  ASSUME NEW i \in Ids, RunOK(i), event' = event, scope'[i] = scope[i], prog'[i] = prog[i],
         counted'[i] = counted[i], passed'[i] = passed[i], matured'[i] = matured[i],
         Active(i)' => Active(i),
         status'[i] = "completed" => status[i] = "completed",
         status'[i] = "none" => status[i] = "none"
  PROVE  RunOK(i)'
<1>1. Uncounted(i)' = Uncounted(i)
  BY Zenon DEF Uncounted, Candidates
<1>2. Advanced(i) => Advanced(i)'
  BY <1>1, Zenon DEF Advanced
<1>3. Covered(i) => Covered(i)'
  BY Zenon DEF Covered
<1>4. /\ status'[i] = "none" => counted'[i] = {} /\ passed'[i] = {} /\ prog'[i].cursor = 0
      /\ prog'[i].processed = Cardinality(passed'[i])
      /\ Active(i)' => prog'[i].cursor \in {0} \cup passed'[i] /\ \A e \in passed'[i] : e <= prog'[i].cursor
      /\ prog'[i].total > 0 => prog'[i].total = Cardinality(counted'[i])
      /\ \A e \in counted'[i] : event'[e] \in {"native", "gone"} /\ Matches(Events[e], scope'[i])
  BY Zenon DEF RunOK
<1>5. /\ Active(i)' /\ ~matured'[i] => Advanced(i)'
      /\ status'[i] = "completed" /\ ~matured'[i] => Covered(i)'
  BY <1>2, <1>3, Zenon DEF RunOK
<1> QED BY <1>4, <1>5, Zenon DEF RunOK

\* Steps that touch neither the events nor the progress of a run, in which no worker
\* gains a run.
LEMMA WorkKept ==
  ASSUME WInv, UNCHANGED <<scope, prog, event, counted, passed, matured>>,
         status' \in [Ids -> Statuses], owner' \in [Ids -> Workers \cup {NoWorker}],
         left' \in [Ids -> Nat], job' \in [Workers -> JobType],
         \A i \in Ids : /\ Active(i)' => Active(i)
                        /\ status'[i] = "completed" => status[i] = "completed"
                        /\ status'[i] = "none" => status[i] = "none",
         \A w \in Workers :
           \/ job'[w].pc = "idle"
           \/ /\ job[w].pc # "idle"
              /\ \/ job'[w].pc \in {job[w].pc, "fail"}
                 \/ job[w].pc = "apply" /\ job'[w].pc = "advance"
              /\ job'[w].run = job[w].run /\ job'[w].cursor = job[w].cursor
              /\ job'[w].total = job[w].total /\ job'[w].processed = job[w].processed
              /\ job'[w].row = job[w].row
              /\ Held(w)' => Held(w)
  PROVE  WInv'
<1>1. WorkType'
  BY Zenon DEF WInv, WorkType
<1>2. InOrder'
  BY Zenon DEF WInv, InOrder
<1>3. ASSUME NEW i \in Ids PROVE RunOK(i)'
  BY RunKept, Zenon DEF WInv
<1>4. ASSUME NEW w \in Workers PROVE JobOK(w)'
  BY JobKept, Zenon DEF WInv, WorkType
<1> QED BY <1>1, <1>2, <1>3, <1>4, Zenon DEF WInv

\* Nothing was done.
LEMMA WInvInit == Init => WInv
<1> SUFFICES ASSUME Init PROVE WInv
  OBVIOUS
<1>1. WorkType
  <2>1. job \in [Workers -> JobType]
    BY Zenon DEF Init, Idle, JobType, Steps
  <2>2. prog \in [Ids -> [cursor : Nat, total : Nat, processed : Nat]]
    BY Zenon DEF Init, Fresh
  <2> QED BY <2>1, <2>2 DEF Init, WorkType, Statuses
<1>2. InOrder
  BY Zenon DEF Init, InOrder
<1>3. ASSUME NEW i \in Ids PROVE RunOK(i)
  <2>1. /\ status[i] = "none" /\ prog[i] = Fresh /\ counted[i] = {} /\ passed[i] = {}
    BY Zenon DEF Init
  <2>2. Cardinality({}) = 0
    BY FS_EmptySet, Zenon
  <2> QED BY <2>1, <2>2 DEF RunOK, Active, Fresh
<1>4. ASSUME NEW w \in Workers PROVE JobOK(w)
  BY Zenon DEF Init, Idle, JobOK
<1> QED BY <1>1, <1>2, <1>3, <1>4, Zenon DEF WInv

\* An event arrives, matures or is deleted.
LEMMA WInvEvents ==
  ASSUME WInv, NEW e \in Rows, Arrive(e) \/ Mature(e) \/ Delete(e)
  PROVE  WInv'
<1>1. /\ UNCHANGED <<scope, status, owner, left, prog, job, counted, passed>>
      /\ \E k \in {"receipt", "native", "gone"} : event' = [event EXCEPT ![e] = k]
  BY Zenon DEF Arrive, Mature, Delete, runs
<1>2. event \in [Rows -> {"absent", "receipt", "native", "gone"}] /\ InOrder
      /\ matured \in [Ids -> BOOLEAN] /\ counted \in [Ids -> SUBSET Rows]
  BY Zenon DEF WInv, WorkType
<1>3. /\ event' \in [Rows -> {"absent", "receipt", "native", "gone"}]
      /\ \A d \in Rows \ {e} : event'[d] = event[d]
      /\ event'[e] # "absent" /\ event[e] # "gone"
  BY <1>1, <1>2, Zenon DEF Arrive, Mature, Delete
<1>4. matured' \in [Ids -> BOOLEAN] /\ \A i \in Ids : ~matured'[i] => ~matured[i]
  BY <1>2, ZenonT(60) DEF Arrive, Mature, Delete
<1>5. WorkType'
  BY <1>1, <1>3, <1>4, Zenon DEF WInv, WorkType
<1>6. InOrder'
  <2> SUFFICES ASSUME NEW c \in Rows, NEW d \in Rows, c < d, event'[c] = "absent"
               PROVE  event'[d] = "absent"
    BY Zenon DEF InOrder
  <2>1. event[c] = "absent" /\ event[d] = "absent"
    BY <1>2, <1>3, Zenon DEF InOrder
  <2>2. d # e
    BY <2>1, Zenon DEF Arrive, Mature, Delete
  <2> QED BY <1>3, <2>1, <2>2, Zenon
<1>7. ASSUME NEW w \in Workers PROVE JobOK(w)'
  <2>1. Held(w)' => Held(w)
    BY <1>1, Zenon DEF Held
  <2>2. JobOK(w) /\ (job[w].pc # "idle" => job[w].run \in Ids)
    BY Zenon DEF WInv, JobOK
  <2>3. \A d \in Rows : event[d] = "gone" => event'[d] = "gone"
    BY <1>3, Zenon
  <2>4. \A i \in Ids : counted[i] \subseteq Rows
    BY <1>2, Zenon
  <2> QED BY <1>1, <1>4, <2>1, <2>2, <2>3, <2>4, JobKept, Zenon
<1>8. ASSUME NEW i \in Ids PROVE RunOK(i)'
  <2>1. RunOK(i) /\ counted[i] \subseteq Rows
    BY <1>2, Zenon DEF WInv
  <2>2. \A d \in counted[i] : event'[d] \in {"native", "gone"} /\ (event[d] = "gone" => event'[d] = "gone")
    BY <1>3, <2>1, Zenon DEF RunOK, Arrive, Mature, Delete
  <2>3. ASSUME Active(i), ~matured'[i] PROVE Advanced(i)'
    <3>1. Advanced(i) /\ ~Mature(e)
      BY <1>4, <2>1, <2>3, Zenon DEF RunOK, Mature
    <3>2. ASSUME NEW d \in Uncounted(i)', NEW c \in counted[i] PROVE c < d
      <4>1. d \in Rows /\ event'[d] = "native" /\ Matches(Events[d], scope[i]) /\ d \notin counted[i]
        BY <1>1, <3>2, Zenon DEF Uncounted, Candidates
      <4>2. CASE d # e
        <5>1. d \in Uncounted(i)
          BY <1>3, <4>1, <4>2, Zenon DEF Uncounted, Candidates
        <5> QED BY <3>1, <5>1, Zenon DEF Advanced
      <4>3. CASE d = e
        <5>1. event[e] = "absent" /\ event[c] # "absent" /\ c \in Rows
          <6>1. ~Delete(e)
            BY <1>2, <4>1, <4>3, Zenon DEF Delete
          <6>2. event[e] = "absent"
            BY <3>1, <6>1, Zenon DEF Arrive
          <6> QED BY <2>1, <6>2, Zenon DEF RunOK
        <5>2. ~(d < c) /\ c # d
          BY <1>2, <4>3, <5>1, Zenon DEF InOrder
        <5>3. c \in Nat /\ d \in Nat
          BY <5>1, <4>1, RowSets, Zenon
        <5> QED BY <5>2, <5>3, SMTT(30)
      <4> QED BY <4>2, <4>3, Zenon
    <3> QED BY <1>1, <2>2, <3>1, <3>2, Zenon DEF Advanced
  <2>4. Covered(i) => Covered(i)'
    BY <1>1, <2>2, Zenon DEF Covered
  <2>5. Active(i)' <=> Active(i)
    BY <1>1, Zenon DEF Active
  <2>6. /\ status'[i] = "none" => counted'[i] = {} /\ passed'[i] = {} /\ prog'[i].cursor = 0
        /\ prog'[i].processed = Cardinality(passed'[i])
        /\ Active(i)' => prog'[i].cursor \in {0} \cup passed'[i] /\ \A d \in passed'[i] : d <= prog'[i].cursor
        /\ prog'[i].total > 0 => prog'[i].total = Cardinality(counted'[i])
    BY <1>1, <2>1, <2>5, Zenon DEF RunOK
  <2>7. \A d \in counted'[i] : event'[d] \in {"native", "gone"} /\ Matches(Events[d], scope'[i])
    BY <1>1, <2>1, <2>2, Zenon DEF RunOK
  <2>8. status'[i] = "completed" /\ ~matured'[i] => Covered(i)'
    BY <1>1, <1>4, <2>1, <2>4, Zenon DEF RunOK
  <2> QED BY <2>3, <2>5, <2>6, <2>7, <2>8, Zenon DEF RunOK
<1> QED BY <1>5, <1>6, <1>7, <1>8, Zenon DEF WInv

\* The insert makes a run of a row that had none.
LEMMA WInvInsert ==
  ASSUME WInv, NEW c \in Clients, NEW j \in Ids, Insert(c, j)
  PROVE  WInv'
<1> DEFINE q == Stored(asked[c])
<1>1. /\ UNCHANGED <<owner, left, prog, event, job, counted, passed, matured>>
      /\ status[j] = "none" /\ status' = [status EXCEPT ![j] = "pending"]
      /\ scope' = [scope EXCEPT ![j] = q]
  BY Zenon DEF Insert
<1> HIDE DEF q
<1>2. WorkType
  BY Zenon DEF WInv
<1>3. WorkType'
  <2>1. scope' = [i \in Ids |-> scope'[i]]
    BY <1>1, <1>2, Zenon DEF WorkType
  <2>2. status' \in [Ids -> Statuses]
    BY <1>1, <1>2, Zenon DEF WorkType, Statuses
  <2> QED BY <1>1, <1>2, <2>1, <2>2, Zenon DEF WorkType
<1>4. InOrder'
  BY <1>1, Zenon DEF WInv, InOrder
<1>5. \A i \in Ids : i # j => scope'[i] = scope[i] /\ status'[i] = status[i]
  BY <1>1, <1>2, Zenon DEF WorkType
<1>6. scope'[j] = q /\ status'[j] = "pending"
  BY <1>1, <1>2, Zenon DEF WorkType
<1>7. ASSUME NEW i \in Ids PROVE RunOK(i)'
  <2>1. RunOK(i)
    BY Zenon DEF WInv
  <2>2. CASE i # j
    BY <1>1, <1>5, <2>1, <2>2, RunKept, Zenon DEF Active
  <2>3. CASE i = j
    <3>1. counted[i] = {} /\ passed[i] = {} /\ prog[i].cursor = 0
          /\ prog[i].processed = Cardinality(passed[i])
          /\ (prog[i].total > 0 => prog[i].total = Cardinality(counted[i]))
      BY <1>1, <2>1, <2>3, Zenon DEF RunOK
    <3>2. counted'[i] = {} /\ passed'[i] = {} /\ prog'[i] = prog[i] /\ status'[i] = "pending"
      BY <1>1, <1>6, <2>3, <3>1, Zenon
    <3>3. Advanced(i)'
      BY <3>2, Zenon DEF Advanced
    <3> QED BY <3>1, <3>2, <3>3, Zenon DEF RunOK
  <2> QED BY <2>2, <2>3, Zenon
<1>8. ASSUME NEW w \in Workers PROVE JobOK(w)'
  <2>1. JobOK(w) /\ (job[w].pc # "idle" => job[w].run \in Ids)
    BY Zenon DEF WInv, JobOK
  <2>2. job[w].pc # "idle" /\ Held(w)' => Held(w)
    BY <1>1, <1>5, <1>6, <2>1, Zenon DEF Held
  <2> QED BY <1>1, <1>2, <2>1, <2>2, JobKept, Zenon DEF WorkType
<1> QED BY <1>3, <1>4, <1>7, <1>8, Zenon DEF WInv

\* A worker's claim: it has the run and a fresh copy, and nobody else holds the run.
LEMMA WInvClaim ==
  ASSUME WInv, NEW w \in Workers, NEW j \in Ids, Claim(w, j)
  PROVE  WInv'
<1> DEFINE p == IF prog[j].total = 0 /\ prog[j].processed = 0 THEN "count" ELSE "select"
           copy == [pc |-> p, run |-> j, cursor |-> prog[j].cursor, total |-> prog[j].total,
                    processed |-> prog[j].processed, row |-> 0]
<1>1. /\ UNCHANGED <<scope, prog, event, counted, passed, matured>>
      /\ status[j] \in {"pending", "running"} /\ status' = [status EXCEPT ![j] = "running"]
      /\ owner' = [owner EXCEPT ![j] = w] /\ left' = [left EXCEPT ![j] = LeaseTicks]
      /\ job' = [job EXCEPT ![w] = copy]
  BY Zenon DEF Claim, Runnable
<1>2. WorkType
  BY Zenon DEF WInv
<1>3. copy \in JobType /\ prog[j] \in [cursor : Nat, total : Nat, processed : Nat]
  <2>1. prog[j] \in [cursor : Nat, total : Nat, processed : Nat]
    BY <1>2, Zenon DEF WorkType
  <2>2. p \in Steps /\ j \in Nat
    BY SMTT(30) DEF Steps, Ids
  <2> HIDE DEF p
  <2> QED BY <2>1, <2>2, Zenon DEF JobType
<1>4. WorkType'
  <2>1. left' \in [Ids -> Nat] /\ status' \in [Ids -> Statuses]
        /\ owner' \in [Ids -> Workers \cup {NoWorker}]
    BY <1>1, <1>2, ConstantsAssumption, Zenon DEF WorkType, ConstantsTyped, Statuses
  <2> HIDE DEF copy
  <2>2. job' \in [Workers -> JobType]
    BY <1>1, <1>2, <1>3, Zenon DEF WorkType
  <2> QED BY <1>1, <1>2, <2>1, <2>2, Zenon DEF WorkType
<1>5. InOrder'
  BY <1>1, Zenon DEF WInv, InOrder
<1>6. \A i \in Ids : i # j => status'[i] = status[i] /\ owner'[i] = owner[i] /\ left'[i] = left[i]
  BY <1>1, <1>2, Zenon DEF WorkType
<1>7. status'[j] = "running" /\ owner'[j] = w
  BY <1>1, <1>2, Zenon DEF WorkType
<1>8. ASSUME NEW i \in Ids PROVE RunOK(i)'
  <2>1. RunOK(i)
    BY Zenon DEF WInv
  <2> QED BY <1>1, <1>6, <1>7, <2>1, RunKept, Zenon DEF Active
<1>9. ASSUME NEW x \in Workers PROVE JobOK(x)'
  <2>1. CASE x = w
    <3>1. job'[x] = copy
      BY <1>1, <1>2, <2>1, Zenon DEF WorkType
    <3>2. CopyOK(p, j, prog[j].cursor, prog[j].total, prog[j].processed, 0)'
      BY <1>1, Zenon DEF CopyOK
    <3>3. prog' = prog /\ p' = p
      BY <1>1, Zenon
    <3>4. /\ job'[x].pc = p /\ job'[x].run = j /\ job'[x].cursor = prog[j].cursor
          /\ job'[x].total = prog[j].total /\ job'[x].processed = prog[j].processed /\ job'[x].row = 0
      BY <3>1, SMTT(30)
    <3> HIDE DEF p, copy
    <3> QED BY <3>2, <3>3, <3>4, Zenon DEF JobOK
  <2>2. CASE x # w
    <3>1. job'[x] = job[x]
      BY <1>1, <1>2, <2>2, Zenon DEF WorkType
    <3>2. JobOK(x) /\ (job[x].pc # "idle" => job[x].run \in Ids)
      BY Zenon DEF WInv, JobOK
    <3>3. job[x].pc # "idle" /\ Held(x)' => Held(x)
      BY <1>6, <1>7, <2>2, <3>1, <3>2, Zenon DEF Held
    <3> QED BY <1>1, <1>2, <3>1, <3>2, <3>3, JobKept, Zenon DEF WorkType
  <2> QED BY <2>1, <2>2, Zenon
<1> QED BY <1>4, <1>5, <1>8, <1>9, Zenon DEF WInv

\* While worker w holds its run no other worker does.
LEMMA HoldsAlone ==
  ASSUME NEW w \in Workers, NEW x \in Workers, x # w, Held(w), Held(x)
  PROVE  job[x].run # job[w].run
  BY Zenon DEF Held

\* The count becomes the events of the run only as long as nothing was passed.
LEMMA WInvCount ==
  ASSUME WInv, NEW w \in Workers, Count(w)
  PROVE  WInv'
<1> DEFINE j == job[w].run
           found == Candidates(scope[j])
           n == Cardinality(found)
<1>1. /\ UNCHANGED <<scope, status, owner, left, prog, event, passed, matured>>
      /\ job[w].pc = "count" /\ job' = [job EXCEPT ![w] = [job[w] EXCEPT !.pc = "total", !.total = n]]
      /\ counted' = IF Held(w) THEN [counted EXCEPT ![j] = found] ELSE counted
  BY Zenon DEF Count, runs
<1>2. WorkType /\ JobOK(w)
  BY Zenon DEF WInv
<1>3. j \in Ids /\ found \in SUBSET Rows
  BY <1>1, <1>2, Zenon DEF JobOK, Candidates
<1>4. n \in Nat
  BY <1>3, RowSets, Zenon
<1> HIDE DEF n, found
<1>5. job[w] \in JobType /\ job \in [Workers -> JobType]
  BY <1>2, Zenon DEF WorkType
<1>6. /\ job'[w] = [job[w] EXCEPT !.pc = "total", !.total = n]
      /\ \A x \in Workers \ {w} : job'[x] = job[x]
  BY <1>1, <1>5, Zenon
<1>7. /\ job'[w] \in JobType /\ job'[w].pc = "total" /\ job'[w].run = j
      /\ job'[w].cursor = job[w].cursor /\ job'[w].total = n
      /\ job'[w].processed = job[w].processed
  <2> DEFINE d == job'[w]
             c == job[w]
  <2>1. c \in JobType /\ n \in Nat /\ d = [c EXCEPT !.pc = "total", !.total = n]
    BY <1>4, <1>5, <1>6, Zenon
  <2> HIDE DEF c, d
  <2>2. /\ d \in JobType /\ d.pc = "total" /\ d.run = c.run /\ d.cursor = c.cursor
        /\ d.total = n /\ d.processed = c.processed /\ d.row = c.row
    BY ONLY <2>1, Zenon DEF JobType, Steps
  <2> QED BY <2>2, Zenon DEF c, d
<1>8. job' \in [Workers -> JobType]
  <2>1. job' = [x \in Workers |-> job'[x]]
    BY <1>1, <1>5, Zenon
  <2> QED BY <1>5, <1>6, <1>7, <2>1, Zenon
<1>9. /\ counted' \in [Ids -> SUBSET Rows]
      /\ \A i \in Ids \ {j} : counted'[i] = counted[i]
      /\ counted'[j] = IF Held(w) THEN found ELSE counted[j]
  BY <1>1, <1>2, <1>3, Zenon DEF WorkType
<1>10. WorkType' /\ InOrder'
  <2>1. InOrder'
    BY <1>1, Zenon DEF WInv, InOrder
  <2> QED BY <1>1, <1>2, <1>8, <1>9, <2>1, Zenon DEF WorkType
<1>11. \A x \in Workers : Held(x)' <=> Held(x)
  BY <1>1, <1>6, <1>7 DEF Held
<1>12. ASSUME NEW x \in Workers PROVE JobOK(x)'
  <2>1. CASE x = w
    <3>1. /\ job'[w].pc = "total" /\ job'[w].run = j /\ job'[w].cursor = job[w].cursor
          /\ job'[w].total = n /\ job'[w].processed = job[w].processed
      BY <1>7, Zenon
    <3> SUFFICES ASSUME Held(w) PROVE CopyOK(job[w].pc, job[w].run, job[w].cursor, job[w].total, job[w].processed, job[w].row)'
      BY <1>3, <1>11, <2>1, <3>1, Zenon DEF JobOK
    <3>2. job[w].cursor = prog[j].cursor /\ job[w].processed = prog[j].processed
      BY <1>1, <1>2, Zenon DEF JobOK, CopyOK
    <3>3. n = Cardinality(counted'[j])
      BY <1>9, Zenon DEF n
    <3> QED BY <1>1, <3>1, <3>2, <3>3, Zenon DEF CopyOK
  <2>2. CASE x # w
    <3>1. job'[x] = job[x] /\ JobOK(x) /\ (job[x].pc # "idle" => job[x].run \in Ids)
      BY <1>6, <2>2, Zenon DEF WInv, JobOK
    <3>2. job[x].pc # "idle" /\ Held(x) => counted'[job[x].run] = counted[job[x].run]
      <4>1. CASE Held(w)
        BY <1>9, <2>2, <3>1, <4>1, HoldsAlone, Zenon
      <4>2. CASE ~Held(w)
        BY <1>1, <4>2, Zenon
      <4> QED BY <4>1, <4>2, Zenon
    <3> QED BY <1>1, <1>2, <1>11, <3>1, <3>2, JobKept, Zenon DEF WorkType
  <2> QED BY <2>1, <2>2, Zenon
<1>13. ASSUME NEW i \in Ids PROVE RunOK(i)'
  <2>1. RunOK(i)
    BY Zenon DEF WInv
  <2>2. CASE i # j \/ ~Held(w)
    <3>1. counted'[i] = counted[i]
      BY <1>9, <2>2, Zenon
    <3> QED BY <1>1, <2>1, <3>1, RunKept, Zenon DEF Active
  <2>3. CASE i = j /\ Held(w)
    <3>1. status[i] = "running" /\ prog[i].total = 0 /\ prog[i].processed = 0
      BY <1>1, <1>2, <2>3, Zenon DEF JobOK, CopyOK, Held
    <3>2. passed[i] = {}
      <4>1. passed[i] \in SUBSET Rows /\ Cardinality(passed[i]) = 0
        BY <1>2, <2>1, <3>1, Zenon DEF WorkType, RunOK
      <4> QED BY <4>1, RowSets, FS_EmptySet, Zenon
    <3>3. prog[i].cursor = 0
      BY <2>1, <3>1, <3>2, ZenonT(60) DEF RunOK, Active
    <3>4. counted'[i] = found /\ found = Candidates(scope[i])
      BY <1>9, <2>3, Zenon DEF found
    <3>5. \A e \in found : e \in Nat /\ e # 0 /\ event[e] = "native" /\ Matches(Events[e], scope[i])
      BY <1>3, <3>4, RowSets, Zenon DEF Candidates
    <3>6. Uncounted(i)' = {}
      BY <1>1, <3>4, Zenon DEF Uncounted, Candidates
    <3>7. Advanced(i)'
      BY <1>1, <3>2, <3>3, <3>4, <3>5, <3>6, SMTT(30) DEF Advanced
    <3>8. prog'[i] = prog[i] /\ passed'[i] = {} /\ status'[i] = "running" /\ event' = event /\ scope' = scope
      BY <1>1, <3>1, <3>2, Zenon
    <3>9. prog'[i].processed = Cardinality(passed'[i])
      BY <2>1, <3>2, <3>8, Zenon DEF RunOK
    <3>10. \A e \in counted'[i] : event'[e] \in {"native", "gone"} /\ Matches(Events[e], scope'[i])
      BY <3>4, <3>5, <3>8, Zenon
    <3> QED BY <3>1, <3>3, <3>7, <3>8, <3>9, <3>10, SMTT(30) DEF RunOK
  <2> QED BY <2>2, <2>3, Zenon
<1> QED BY <1>10, <1>12, <1>13, Zenon DEF WInv

\* SetTotalItems of a worker that holds its run.
LEMMA WInvTotal ==
  ASSUME WInv, NEW w \in Workers, SetTotalItems(w), Held(w)
  PROVE  WInv'
<1> DEFINE j == job[w].run
           t == job[w].total
<1>1. /\ UNCHANGED <<scope, status, owner, left, event, counted, passed, matured>>
      /\ job[w].pc = "total" /\ job' = [job EXCEPT ![w].pc = "select"]
      /\ prog' = [prog EXCEPT ![j].total = t]
  BY Zenon DEF SetTotalItems
<1>2. WorkType /\ JobOK(w)
  BY Zenon DEF WInv
<1>3. /\ j \in Ids /\ t = Cardinality(counted[j]) /\ t \in Nat
      /\ job[w].cursor = prog[j].cursor /\ job[w].processed = prog[j].processed
  BY <1>1, <1>2, Zenon DEF JobOK, CopyOK, WorkType, JobType
<1> HIDE DEF t
<1>4. job \in [Workers -> JobType] /\ prog \in [Ids -> [cursor : Nat, total : Nat, processed : Nat]]
  BY <1>2, Zenon DEF WorkType
<1>5. /\ job' \in [Workers -> JobType] /\ \A x \in Workers \ {w} : job'[x] = job[x]
  BY <1>1, <1>4 DEF JobType, Steps
<1>6. /\ job'[w].pc = "select" /\ job'[w].run = j /\ job'[w].cursor = job[w].cursor
      /\ job'[w].total = t /\ job'[w].processed = job[w].processed
  BY <1>1, <1>4, Zenon DEF JobType, t
<1>7. /\ prog' \in [Ids -> [cursor : Nat, total : Nat, processed : Nat]]
      /\ \A i \in Ids \ {j} : prog'[i] = prog[i]
  BY <1>1, <1>3, <1>4, Zenon
<1>8. prog'[j].cursor = prog[j].cursor /\ prog'[j].processed = prog[j].processed /\ prog'[j].total = t
  BY <1>1, <1>3, <1>4, Zenon
<1>9. WorkType' /\ InOrder'
  <2>1. InOrder'
    BY <1>1, Zenon DEF WInv, InOrder
  <2> QED BY <1>1, <1>2, <1>5, <1>7, <2>1, Zenon DEF WorkType
<1>10. \A x \in Workers : Held(x)' <=> Held(x)
  BY <1>1, <1>5, <1>6, Zenon DEF Held
<1>11. ASSUME NEW x \in Workers PROVE JobOK(x)'
  <2>1. CASE x = w
    BY <1>3, <1>6, <1>8, <2>1, Zenon DEF JobOK, CopyOK
  <2>2. CASE x # w
    <3>1. job'[x] = job[x] /\ JobOK(x) /\ (job[x].pc # "idle" => job[x].run \in Ids)
      BY <1>5, <2>2, Zenon DEF WInv, JobOK
    <3>2. job[x].pc # "idle" /\ Held(x) => prog'[job[x].run] = prog[job[x].run]
      BY <1>7, <2>2, <3>1, HoldsAlone, Zenon
    <3> QED BY <1>1, <1>2, <1>10, <3>1, <3>2, JobKept, Zenon DEF WorkType
  <2> QED BY <2>1, <2>2, Zenon
<1>12. ASSUME NEW i \in Ids PROVE RunOK(i)'
  <2>1. RunOK(i)
    BY Zenon DEF WInv
  <2>2. CASE i # j
    BY <1>1, <1>7, <2>1, <2>2, RunKept, Zenon DEF Active
  <2>3. CASE i = j
    <3>1. /\ prog'[i].cursor = prog[i].cursor /\ prog'[i].processed = prog[i].processed
          /\ prog'[i].total = Cardinality(counted'[i])
      BY <1>1, <1>3, <1>8, <2>3, Zenon
    <3>2. Uncounted(i)' = Uncounted(i)
      BY <1>1, Zenon DEF Uncounted, Candidates
    <3>3. Advanced(i) => Advanced(i)'
      BY <1>1, <3>1, <3>2, Zenon DEF Advanced
    <3>4. Covered(i) => Covered(i)'
      BY <1>1, Zenon DEF Covered
    <3>5. /\ status'[i] = "none" => counted'[i] = {} /\ passed'[i] = {} /\ prog'[i].cursor = 0
          /\ prog'[i].processed = Cardinality(passed'[i])
          /\ Active(i)' => prog'[i].cursor \in {0} \cup passed'[i] /\ \A e \in passed'[i] : e <= prog'[i].cursor
      BY <1>1, <2>1, <3>1, Zenon DEF RunOK, Active
    <3>6. /\ \A e \in counted'[i] : event'[e] \in {"native", "gone"} /\ Matches(Events[e], scope'[i])
          /\ Active(i)' /\ ~matured'[i] => Advanced(i)'
          /\ status'[i] = "completed" /\ ~matured'[i] => Covered(i)'
      BY <1>1, <2>1, <3>3, <3>4, Zenon DEF RunOK, Active
    <3> QED BY <3>1, <3>5, <3>6, Zenon DEF RunOK
  <2> QED BY <2>2, <2>3, Zenon
<1> QED BY <1>9, <1>11, <1>12, Zenon DEF WInv

\* The next candidate behind the cursor: what was counted before it is gone.
LEMMA WInvSelect ==
  ASSUME WInv, NEW w \in Workers, Select(w)
  PROVE  WInv'
<1> DEFINE j == job[w].run
           k == job[w].cursor
           found == {e \in Candidates(scope[j]) : e > k}
           p == IF found = {} THEN "advance" ELSE "apply"
           r == IF found = {} THEN 0 ELSE Min(found)
<1>1. /\ UNCHANGED <<scope, status, owner, left, prog, event, counted, passed, matured>>
      /\ job[w].pc = "select" /\ job' = [job EXCEPT ![w] = [job[w] EXCEPT !.pc = p, !.row = r]]
  BY Zenon DEF Select, runs
<1>2. WorkType /\ JobOK(w)
  BY Zenon DEF WInv
<1>3. job \in [Workers -> JobType] /\ job[w] \in JobType /\ j \in Ids /\ k \in Nat
  BY <1>1, <1>2, Zenon DEF WorkType, JobOK, JobType
<1>4. found \subseteq Rows /\ \A e \in Rows : e \in Nat /\ e # 0
  BY RowSets, Zenon DEF Candidates
<1>5. found # {} => r \in found /\ \A e \in found : r <= e
  <2>1. found \in SUBSET Nat
    BY <1>4, Zenon
  <2> HIDE DEF found
  <2> QED BY <2>1, MinOf, Zenon
<1>6. r \in Nat /\ p \in {"apply", "advance"} /\ (found = {} => r = 0)
  BY <1>4, <1>5, Zenon
<1>7. \A e \in found : event[e] = "native" /\ Matches(Events[e], scope[j]) /\ k < e
  BY <1>3, <1>4, Zenon DEF Candidates
<1>8. \A e \in Rows : event[e] = "native" /\ Matches(Events[e], scope[j]) /\ k < e => e \in found
  BY <1>3, <1>4, Zenon DEF Candidates
<1> HIDE DEF found, p, r
<1>9. ASSUME Held(w) PROVE RowOK(j, k, r)
  <2>1. RunOK(j) /\ Active(j) /\ counted[j] \subseteq Rows
    BY <1>2, <1>3, <1>9, Zenon DEF WInv, WorkType, Held, Active
  <2>2. r = 0 \/ (r \in Rows /\ k < r)
    BY <1>4, <1>5, <1>6, <1>7, Zenon
  <2> SUFFICES ASSUME ~matured[j]
               PROVE  /\ \A e \in counted[j] : k < e /\ (r = 0 \/ e < r) => event[e] = "gone"
                      /\ r = 0 \/ r \in counted[j] \/ \A d \in counted[j] : d < r
    BY <2>2, Zenon DEF RowOK
  <2>3. ASSUME NEW e \in counted[j], k < e, r = 0 \/ e < r PROVE event[e] = "gone"
    <3>1. e \in Rows /\ event[e] \in {"native", "gone"} /\ Matches(Events[e], scope[j])
      BY <2>1, Zenon DEF RunOK
    <3>2. e \notin found
      <4>1. CASE r = 0
        BY <1>4, <1>5, <4>1, Zenon
      <4>2. CASE e < r
        BY <1>4, <1>5, <1>6, <3>1, <4>2, SMTT(30)
      <4> QED BY <2>3, <4>1, <4>2, Zenon
    <3> QED BY <1>8, <2>3, <3>1, <3>2, Zenon
  <2>4. ASSUME r # 0, r \notin counted[j], NEW d \in counted[j] PROVE d < r
    <3>1. r \in Uncounted(j)
      BY <1>4, <1>5, <1>6, <1>7, <2>4, Zenon DEF Uncounted, Candidates
    <3> QED BY <2>1, <2>4, <3>1, ZenonT(60) DEF RunOK, Advanced
  <2> QED BY <2>3, <2>4, Zenon
<1>10. /\ job'[w] = [job[w] EXCEPT !.pc = p, !.row = r]
       /\ \A x \in Workers \ {w} : job'[x] = job[x]
       /\ job' = [x \in Workers |-> job'[x]]
  BY <1>1, <1>3, Zenon
<1>11. /\ job'[w] \in JobType /\ job'[w].pc = p /\ job'[w].run = j /\ job'[w].cursor = k
       /\ job'[w].total = job[w].total /\ job'[w].processed = job[w].processed /\ job'[w].row = r
  <2> DEFINE d == job'[w]
             c == job[w]
  <2>1. c \in JobType /\ r \in Nat /\ p \in {"apply", "advance"} /\ d = [c EXCEPT !.pc = p, !.row = r]
    BY <1>3, <1>6, <1>10, Zenon
  <2> HIDE DEF c, d
  <2>2. /\ d \in JobType /\ d.pc = p /\ d.run = c.run /\ d.cursor = c.cursor
        /\ d.total = c.total /\ d.processed = c.processed /\ d.row = r
    BY ONLY <2>1, Zenon DEF JobType, Steps
  <2> QED BY <2>2, Zenon DEF c, d
<1>12. job' \in [Workers -> JobType]
  BY <1>3, <1>10, <1>11, Zenon
<1>13. WorkType' /\ InOrder'
  <2>1. InOrder'
    BY <1>1, Zenon DEF WInv, InOrder
  <2> QED BY <1>1, <1>2, <1>12, <2>1, Zenon DEF WorkType
<1>14. \A x \in Workers : Held(x)' <=> Held(x)
  BY <1>1, <1>10, <1>11, SMTT(30) DEF Held
<1>15. ASSUME NEW x \in Workers PROVE JobOK(x)'
  <2>1. CASE x = w
    <3> SUFFICES ASSUME Held(w) PROVE CopyOK(job[w].pc, job[w].run, job[w].cursor, job[w].total, job[w].processed, job[w].row)'
      BY <1>3, <1>11, <1>14, <2>1, Zenon DEF JobOK
    <3>1. RowOK(j, k, r)
      BY <1>9, Zenon
    <3>2. RowOK(job[w].run, job[w].cursor, job[w].row)'
      BY <1>1, <1>11, <3>1, Zenon DEF RowOK
    <3>3. k = prog[j].cursor /\ job[w].processed = prog[j].processed /\ job[w].total = prog[j].total
      BY <1>1, <1>2, Zenon DEF JobOK, CopyOK
    <3> QED BY <1>1, <1>6, <1>11, <3>2, <3>3, Zenon DEF CopyOK
  <2>2. CASE x # w
    <3>1. job'[x] = job[x] /\ JobOK(x)
      BY <1>10, <2>2, Zenon DEF WInv
    <3> QED BY <1>1, <1>2, <1>14, <3>1, JobKept, ZenonT(60) DEF WorkType
  <2> QED BY <2>1, <2>2, Zenon
<1>16. ASSUME NEW i \in Ids PROVE RunOK(i)'
  BY <1>1, RunKept, Zenon DEF WInv, Active
<1> QED BY <1>13, <1>15, <1>16, Zenon DEF WInv

\* When as many events have been passed as were counted, the counted ones are passed or gone.
LEMMA CountReached ==
  ASSUME NEW C \in SUBSET Rows, NEW P \in SUBSET Rows, Cardinality(P) >= Cardinality(C), P \subseteq C
  PROVE  P = C
<1>1. IsFiniteSet(C) /\ Cardinality(C) \in Nat /\ Cardinality(P) \in Nat
  BY RowSets, Zenon
<1>2. Cardinality(P) <= Cardinality(C) /\ (Cardinality(C) = Cardinality(P) => C = P)
  BY <1>1, FS_Subset, Zenon
<1> QED BY <1>1, <1>2

\* What AdvanceRun of worker w does to its run j when it got to row r.
AdvancesTo(w, j, r) ==
  /\ UNCHANGED <<scope, event, counted, matured>>
  /\ status'[j] = IF Done(w) THEN "completed" ELSE "pending"
  /\ prog'[j].cursor = r /\ prog'[j].total = prog[j].total
  /\ prog'[j].processed = prog[j].processed + (IF r = 0 THEN 0 ELSE 1)
  /\ passed'[j] = passed[j] \cup ({r} \ {0})

\* AdvanceRun of a worker that holds its run, seen from that run.
LEMMA AdvancedRun ==
  ASSUME WInv, NEW w \in Workers, job[w].pc = "advance", Held(w), NEW j \in Ids, j = job[w].run,
         NEW r \in Nat, r = job[w].row, AdvancesTo(w, j, r)
  PROVE  RunOK(j)'
<1> DEFINE k == prog[j].cursor
           C == counted[j]
           P == passed[j]
           Q == passed'[j]
<1>1. /\ RunOK(j) /\ Active(j) /\ k \in Nat /\ C \in SUBSET Rows /\ P \in SUBSET Rows
      /\ prog[j].total \in Nat /\ prog[j].processed \in Nat
  BY Zenon DEF WInv, WorkType, Held, Active
<1>2. RowOK(j, k, r) /\ job[w].total = prog[j].total /\ job[w].processed = prog[j].processed
  BY Zenon DEF WInv, JobOK, CopyOK
<1>3. r = 0 \/ (r \in Rows /\ k < r)
  BY <1>2, Zenon DEF RowOK
<1>4. \A e \in Rows : e \in Nat /\ e # 0
  BY RowSets, Zenon
<1>5. /\ scope' = scope /\ event' = event /\ counted' = counted /\ matured' = matured
      /\ status'[j] = IF Done(w) THEN "completed" ELSE "pending"
      /\ prog'[j].cursor = r /\ prog'[j].total = prog[j].total
      /\ prog'[j].processed = prog[j].processed + (IF r = 0 THEN 0 ELSE 1)
  BY Zenon DEF AdvancesTo
<1>6. (r = 0 => Q = P) /\ (r # 0 => Q = P \cup {r})
  BY Zenon DEF AdvancesTo
<1>7. Q \in SUBSET Rows
  BY <1>1, <1>3, <1>6, Zenon
<1>8. \A e \in P : e <= k
  BY <1>1, Zenon DEF RunOK
<1>9. prog[j].processed = Cardinality(P) /\ IsFiniteSet(P) /\ Cardinality(P) \in Nat
  BY <1>1, RowSets, Zenon DEF RunOK
<1>10. (prog[j].total > 0 => prog[j].total = Cardinality(C)) /\ (~matured[j] => Advanced(j))
  BY <1>1, Zenon DEF RunOK
<1> HIDE DEF k, C, P, Q
<1>11. ASSUME r # 0 PROVE Q = P \cup {r} /\ r \in Rows /\ k < r /\ r \in Q
  BY ONLY <1>3, <1>6, <1>11, Zenon
<1>12. prog'[j].processed = Cardinality(Q)
  <2>1. CASE r = 0
    BY ONLY <1>5, <1>6, <1>9, <2>1
  <2>2. CASE r # 0
    <3>1. r \notin P
      BY ONLY <1>1, <1>8, <1>11, <2>2, r \in Nat
    <3>2. Cardinality(P \cup {r}) = Cardinality(P) + 1
      BY ONLY <1>9, <3>1, FS_AddElement, Zenon
    <3> QED BY ONLY <1>5, <1>9, <1>11, <2>2, <3>2, Zenon
  <2> QED BY ONLY <2>1, <2>2, Zenon
<1>13. ASSUME r # 0, NEW e \in Q PROVE e <= r
  <2>1. e \in P \/ e = r
    BY ONLY <1>11, <1>13, Zenon
  <2>2. CASE e \in P
    <3>1. e \in Nat /\ e <= k
      BY ONLY <1>1, <1>4, <1>8, <2>2, Zenon
    <3> QED BY ONLY <1>1, <1>11, <1>13, <3>1, r \in Nat
  <2> QED BY ONLY <2>1, <2>2, r \in Nat
<1>14. ASSUME ~matured[j], r # 0, NEW e \in C, e <= r PROVE e \in Q \/ event[e] = "gone"
  <2>1. e \in Nat
    BY ONLY <1>1, <1>4, <1>14, Zenon
  <2>2. e <= k \/ (k < e /\ e < r) \/ e = r
    BY ONLY <1>1, <1>14, <2>1, r \in Nat
  <2>3. CASE e <= k
    BY ONLY <1>10, <1>11, <1>14, <2>3, Zenon DEF Advanced, k, C, P
  <2>4. CASE k < e /\ e < r
    BY ONLY <1>2, <1>14, <2>4, Zenon DEF RowOK, C
  <2>5. CASE e = r
    BY ONLY <1>11, <1>14, <2>5, Zenon
  <2> QED BY ONLY <2>2, <2>3, <2>4, <2>5, Zenon
<1>15. ASSUME ~matured[j], r # 0, NEW p \in Q \ C, NEW e \in C PROVE e < p
  <2>1. p = r \/ p \in P
    BY ONLY <1>11, <1>15, Zenon
  <2>2. CASE p = r
    BY ONLY <1>2, <1>15, <2>2, Zenon DEF RowOK, C
  <2>3. CASE p \in P
    BY ONLY <1>10, <1>15, <2>3, Zenon DEF Advanced, C, P
  <2> QED BY ONLY <2>1, <2>2, <2>3, Zenon
<1>16. Active(j)' => r # 0
  <2>1. r = 0 => Done(w)
    BY Zenon DEF Done
  <2> QED BY ONLY <1>5, <2>1, Zenon DEF Active
<1>17. Active(j)' /\ ~matured'[j] => Advanced(j)'
  <2> SUFFICES ASSUME Active(j)', ~matured'[j] PROVE Advanced(j)'
    BY Zenon
  <2>1. r # 0 /\ ~matured[j]
    BY ONLY <1>5, <1>16, Active(j)', ~matured'[j], Zenon
  <2>2. Uncounted(j)' = Uncounted(j)
    BY ONLY <1>5, Zenon DEF Uncounted, Candidates
  <2>3. \A d \in Uncounted(j), e \in C : e < d
    BY ONLY <1>10, <2>1, Zenon DEF Advanced, C
  <2>4. \A e \in counted'[j] : e <= prog'[j].cursor => e \in passed'[j] \/ event'[e] = "gone"
    BY ONLY <1>5, <1>14, <2>1, Zenon DEF C, Q
  <2>5. \A p \in passed'[j] \ counted'[j], e \in counted'[j] : e < p
    BY ONLY <1>5, <1>15, <2>1, Zenon DEF C, Q
  <2>6. \A d \in Uncounted(j)', e \in counted'[j] : e < d
    BY ONLY <1>5, <2>2, <2>3, Zenon DEF C
  <2> QED BY ONLY <2>4, <2>5, <2>6, Zenon DEF Advanced
<1>18. ASSUME Done(w), ~matured[j], NEW e \in C PROVE event[e] = "gone" \/ e \in Q
  <2>0. e \in Nat
    BY ONLY <1>1, <1>4, <1>18, Zenon
  <2>1. CASE r = 0
    <3>1. CASE e <= k
      BY ONLY <1>6, <1>10, <1>18, <2>1, <3>1, Zenon DEF Advanced, k, C, P
    <3>2. CASE k < e
      BY ONLY <1>2, <1>18, <2>1, <3>2, Zenon DEF RowOK, C
    <3> QED BY ONLY <1>1, <2>0, <3>1, <3>2
  <2>2. CASE r # 0
    <3>1. prog[j].total > 0 /\ prog[j].processed + 1 >= prog[j].total
      BY ONLY <1>2, <1>18, <2>2, r = job[w].row, Zenon DEF Done
    <3>2. Cardinality(Q) >= Cardinality(C)
      BY ONLY <1>5, <1>10, <1>12, <2>2, <3>1, Zenon
    <3>3. CASE Q \subseteq C
      <4>1. Q = C
        BY ONLY <1>1, <1>7, <3>2, <3>3, CountReached, Zenon
      <4> QED BY ONLY <1>18, <4>1, Zenon
    <3>4. CASE ~(Q \subseteq C)
      <4>1. PICK p \in Q : p \notin C
        BY ONLY <3>4, Zenon
      <4>2. e < p /\ p <= r
        BY ONLY <1>13, <1>15, <1>18, <2>2, <4>1, Zenon
      <4>3. p \in Nat
        BY ONLY <1>4, <1>7, <4>1, Zenon
      <4>4. e <= r
        BY ONLY <2>0, <4>2, <4>3, r \in Nat
      <4> QED BY ONLY <1>14, <1>18, <2>2, <4>4, Zenon
    <3> QED BY ONLY <3>3, <3>4, Zenon
  <2> QED BY ONLY <2>1, <2>2, Zenon
<1>19. status'[j] = "completed" /\ ~matured'[j] => Covered(j)'
  <2>1. status'[j] = "completed" => Done(w)
    BY ONLY <1>5, Zenon
  <2> QED BY ONLY <1>5, <1>18, <2>1, Zenon DEF Covered, C, Q
<1>20. prog'[j].total > 0 => prog'[j].total = Cardinality(counted'[j])
  BY ONLY <1>5, <1>10, Zenon DEF C
<1>21. \A e \in counted'[j] : event'[e] \in {"native", "gone"} /\ Matches(Events[e], scope'[j])
  BY ONLY <1>1, <1>5, Zenon DEF RunOK
<1>22. status'[j] # "none"
  BY ONLY <1>5, Zenon
<1>23. Active(j)' => prog'[j].cursor \in {0} \cup passed'[j] /\ \A e \in passed'[j] : e <= prog'[j].cursor
  BY ONLY <1>5, <1>11, <1>13, <1>16, Zenon DEF Q
<1> QED BY ONLY <1>12, <1>17, <1>19, <1>20, <1>21, <1>22, <1>23, Zenon DEF RunOK, Q

\* AdvanceRun of a worker that holds its run.
LEMMA WInvAdvance ==
  ASSUME WInv, NEW w \in Workers, AdvanceRun(w), Held(w)
  PROVE  WInv'
<1> DEFINE j == job[w].run
           r == job[w].row
           n == IF r = 0 THEN 0 ELSE 1
           s == IF Done(w) THEN "completed" ELSE "pending"
<1>1. /\ UNCHANGED <<scope, event, counted, matured>>
      /\ job[w].pc = "advance" /\ job' = [job EXCEPT ![w] = Idle]
      /\ status' = [status EXCEPT ![j] = s]
      /\ owner' = [owner EXCEPT ![j] = NoWorker] /\ left' = [left EXCEPT ![j] = 0]
      /\ prog' = [prog EXCEPT ![j] = [prog[j] EXCEPT !.cursor = r, !.processed = prog[j].processed + n]]
      /\ passed' = [passed EXCEPT ![j] = passed[j] \cup ({r} \ {0})]
  <2>1. /\ UNCHANGED <<scope, event, counted, matured>>
        /\ job[w].pc = "advance" /\ job' = [job EXCEPT ![w] = Idle]
        /\ status' = [status EXCEPT ![j] = s]
        /\ owner' = [owner EXCEPT ![j] = NoWorker] /\ left' = [left EXCEPT ![j] = 0]
    BY Zenon DEF AdvanceRun, Release
  <2>2. prog' = [prog EXCEPT ![j] = [prog[j] EXCEPT !.cursor = r, !.processed = prog[j].processed + n]]
    BY Zenon DEF AdvanceRun
  <2>3. passed' = [passed EXCEPT ![j] = passed[j] \cup ({r} \ {0})]
    BY Zenon DEF AdvanceRun
  <2> QED BY <2>1, <2>2, <2>3, Zenon
<1>2. WorkType /\ JobOK(w)
  BY Zenon DEF WInv
<1>3. j \in Ids /\ r \in Nat
  BY <1>1, <1>2, Zenon DEF JobOK, WorkType, JobType
<1>4. r = 0 \/ r \in Rows
  BY <1>1, <1>2, Zenon DEF JobOK, CopyOK, RowOK
<1>5. n \in Nat /\ s \in Statuses /\ s \in {"completed", "pending"}
  BY Zenon DEF Statuses
<1>6. /\ prog[j] \in [cursor : Nat, total : Nat, processed : Nat]
      /\ prog \in [Ids -> [cursor : Nat, total : Nat, processed : Nat]]
      /\ passed \in [Ids -> SUBSET Rows] /\ status \in [Ids -> Statuses] /\ job \in [Workers -> JobType]
      /\ owner \in [Ids -> Workers \cup {NoWorker}] /\ left \in [Ids -> Nat]
  BY <1>2, <1>3, Zenon DEF WorkType
<1> HIDE DEF r, n, s
<1>7. /\ prog'[j] = [prog[j] EXCEPT !.cursor = r, !.processed = prog[j].processed + n]
      /\ \A i \in Ids \ {j} : prog'[i] = prog[i]
      /\ prog' = [i \in Ids |-> prog'[i]]
  BY <1>1, <1>3, <1>6, Zenon
<1>8. /\ prog'[j] \in [cursor : Nat, total : Nat, processed : Nat]
      /\ prog'[j].cursor = r /\ prog'[j].total = prog[j].total
      /\ prog'[j].processed = prog[j].processed + n
  <2> DEFINE d == prog'[j]
             c == prog[j]
             m == prog[j].processed + n
  <2>1. c \in [cursor : Nat, total : Nat, processed : Nat] /\ r \in Nat
        /\ d = [c EXCEPT !.cursor = r, !.processed = m]
    BY <1>3, <1>6, <1>7, Zenon
  <2>2. m \in Nat
    BY <1>5, <1>6
  <2> HIDE DEF c, d, m
  <2>3. /\ d \in [cursor : Nat, total : Nat, processed : Nat]
        /\ d.cursor = r /\ d.total = c.total /\ d.processed = m
    BY ONLY <2>1, <2>2, Zenon
  <2> QED BY <2>3, Zenon DEF c, d, m
<1>9. prog' \in [Ids -> [cursor : Nat, total : Nat, processed : Nat]]
  BY <1>6, <1>7, <1>8, Zenon
<1>10. /\ passed' \in [Ids -> SUBSET Rows] /\ \A i \in Ids \ {j} : passed'[i] = passed[i]
  BY <1>1, <1>3, <1>4, <1>6, Zenon
<1>11. passed'[j] = passed[j] \cup ({r} \ {0})
  BY <1>1, <1>3, <1>6, Zenon
<1>12. /\ status' \in [Ids -> Statuses] /\ status'[j] = s
       /\ \A i \in Ids \ {j} : status'[i] = status[i] /\ owner'[i] = owner[i] /\ left'[i] = left[i]
  BY <1>1, <1>3, <1>5, <1>6, Zenon
<1>13. owner' \in [Ids -> Workers \cup {NoWorker}] /\ left' \in [Ids -> Nat] /\ left'[j] = 0
  BY <1>1, <1>3, <1>6, Zenon
<1>14. /\ job' \in [Workers -> JobType] /\ job'[w].pc = "idle"
       /\ \A x \in Workers \ {w} : job'[x] = job[x]
  <2>1. Idle \in JobType /\ Idle.pc = "idle"
    BY Zenon DEF Idle, JobType, Steps
  <2> QED BY <1>1, <1>6, <2>1, Zenon
<1>15. WorkType' /\ InOrder'
  <2>1. InOrder'
    BY <1>1, Zenon DEF WInv, InOrder
  <2> QED BY <1>1, <1>2, <1>9, <1>10, <1>12, <1>13, <1>14, <2>1, Zenon DEF WorkType
<1>16. ASSUME NEW x \in Workers PROVE JobOK(x)'
  <2>1. CASE x = w
    BY <1>14, <2>1, Zenon DEF JobOK
  <2>2. CASE x # w
    <3>1. job'[x] = job[x] /\ JobOK(x) /\ (job[x].pc # "idle" => job[x].run \in Ids)
      BY <1>14, <2>2, Zenon DEF WInv, JobOK
    <3>2. job[x].pc # "idle" /\ Held(x)' => Held(x) /\ job[x].run # j
      BY <1>12, <1>13, <3>1, SMTT(30) DEF Held
    <3> QED BY <1>1, <1>2, <1>7, <3>1, <3>2, JobKept, Zenon DEF WorkType
  <2> QED BY <2>1, <2>2, Zenon
<1>17. ASSUME NEW i \in Ids PROVE RunOK(i)'
  <2>1. CASE i = j
    <3>1. i = job[w].run /\ r \in Nat /\ r = job[w].row /\ job[w].pc = "advance"
      BY <1>1, <1>3, <2>1, Zenon DEF r
    <3>2. AdvancesTo(w, i, r)
      BY ONLY <1>1, <1>8, <1>11, <1>12, <2>1, Zenon DEF AdvancesTo, n, s
    <3> HIDE DEF r
    <3> QED BY <3>1, <3>2, AdvancedRun, Zenon
  <2>2. CASE i # j
    BY <1>1, <1>7, <1>10, <1>12, <2>2, RunKept, Zenon DEF WInv, Active
  <2> QED BY <2>1, <2>2, Zenon
<1> QED BY <1>15, <1>16, <1>17, Zenon DEF WInv

\* A worker that ends its step without a result, or moves on inside it.
LEMMA WInvSteps ==
  ASSUME WInv, NEW w \in Workers,
         \/ Apply(w) \/ Error(w) \/ Crash(w) \/ MarkFailed(w)
         \/ ~Held(w) /\ (SetTotalItems(w) \/ AdvanceRun(w))
  PROVE  WInv'
<1>1. WorkType /\ NoWorker \notin Workers
  BY ConstantsAssumption, ZenonT(60) DEF WInv, ConstantsTyped
<1>2. /\ UNCHANGED <<scope, prog, event, counted, passed, matured>> /\ job[w].pc # "idle"
      /\ \/ job' = [job EXCEPT ![w] = Idle]
         \/ job' = [job EXCEPT ![w].pc = "fail"]
         \/ job[w].pc = "apply" /\ job' = [job EXCEPT ![w].pc = "advance"]
  BY Zenon DEF Apply, Error, Crash, MarkFailed, SetTotalItems, AdvanceRun, runs
<1>3. job \in [Workers -> JobType]
  BY <1>1, Zenon DEF WorkType
<1>4. job' \in [Workers -> JobType]
  <2>1. CASE job' = [job EXCEPT ![w] = Idle]
    BY <1>3, <2>1, Zenon DEF Idle, JobType, Steps
  <2>2. CASE job' = [job EXCEPT ![w].pc = "fail"]
    BY <1>3, <2>2, Zenon DEF JobType, Steps
  <2>3. CASE job' = [job EXCEPT ![w].pc = "advance"]
    BY <1>3, <2>3 DEF JobType, Steps
  <2> QED BY <1>2, <2>1, <2>2, <2>3, Zenon
<1>5. \/ job'[w].pc = "idle"
      \/ /\ job'[w].pc = "fail" \/ (job[w].pc = "apply" /\ job'[w].pc = "advance")
         /\ job'[w].run = job[w].run /\ job'[w].cursor = job[w].cursor
         /\ job'[w].total = job[w].total /\ job'[w].processed = job[w].processed
         /\ job'[w].row = job[w].row
  BY <1>2, <1>3 DEF Idle, JobType
<1>6. \A x \in Workers \ {w} : job'[x] = job[x]
  BY <1>2, <1>3, Zenon
<1>7. \A i \in Ids : /\ status'[i] = status[i] \/ (status[i] = "running" /\ status'[i] = "failed")
                     /\ owner'[i] = owner[i] \/ owner'[i] = NoWorker
                     /\ left'[i] = left[i] \/ left'[i] = 0
  <2>1. CASE MarkFailed(w) /\ Held(w)
    BY <1>1, <2>1, SMTT(30) DEF MarkFailed, Release, Held, WorkType
  <2>2. CASE ~(MarkFailed(w) /\ Held(w))
    BY <1>1, <2>2, Zenon DEF Apply, Error, Crash, MarkFailed, SetTotalItems, AdvanceRun, runs, WorkType
  <2> QED BY <2>1, <2>2, ZenonT(60)
<1>8. /\ status' \in [Ids -> Statuses] /\ owner' \in [Ids -> Workers \cup {NoWorker}]
      /\ left' \in [Ids -> Nat]
  <2>1. CASE MarkFailed(w) /\ Held(w)
    <3>1. \E i : /\ status' = [status EXCEPT ![i] = "failed"]
                 /\ owner' = [owner EXCEPT ![i] = NoWorker] /\ left' = [left EXCEPT ![i] = 0]
      BY <2>1, Zenon DEF MarkFailed, Release
    <3>2. PICK i : /\ status' = [status EXCEPT ![i] = "failed"]
                   /\ owner' = [owner EXCEPT ![i] = NoWorker] /\ left' = [left EXCEPT ![i] = 0]
      BY <3>1, Zenon
    <3>3. status' \in [Ids -> Statuses]
      BY <1>1, <3>2, Zenon DEF WorkType, Statuses
    <3>4. owner' \in [Ids -> Workers \cup {NoWorker}] /\ left' \in [Ids -> Nat]
      BY <1>1, <3>2, ZenonT(60) DEF WorkType
    <3> QED BY <3>3, <3>4, Zenon
  <2>2. CASE Crash(w)
    BY <1>1, <2>2, Zenon DEF Crash, WorkType
  <2>3. CASE ~(MarkFailed(w) /\ Held(w)) /\ ~Crash(w)
    <3>1. UNCHANGED <<status, owner, left>>
      BY <2>3, Zenon DEF Apply, Error, MarkFailed, SetTotalItems, AdvanceRun, runs
    <3> QED BY <1>1, <3>1, Zenon DEF WorkType
  <2> QED BY <2>1, <2>2, <2>3, Zenon
<1>9. \A x \in Workers : job'[x].pc # "idle" /\ Held(x)' => Held(x)
  <2> SUFFICES ASSUME NEW x \in Workers, job'[x].pc # "idle", Held(x)' PROVE Held(x)
    OBVIOUS
  <2>1. job'[x].run = job[x].run /\ job[x].pc # "idle"
    BY <1>2, <1>5, <1>6, Zenon
  <2>2. job[x].run \in Ids
    BY <2>1, Zenon DEF WInv, JobOK
  <2> QED BY <1>1, <1>7, <2>1, <2>2 DEF Held
<1>10. \A i \in Ids : /\ Active(i)' => Active(i)
                      /\ status'[i] = "completed" => status[i] = "completed"
                      /\ status'[i] = "none" => status[i] = "none"
  BY <1>7, Zenon DEF Active
<1>11. \A x \in Workers :
         \/ job'[x].pc = "idle"
         \/ /\ job[x].pc # "idle"
            /\ \/ job'[x].pc \in {job[x].pc, "fail"}
               \/ job[x].pc = "apply" /\ job'[x].pc = "advance"
            /\ job'[x].run = job[x].run /\ job'[x].cursor = job[x].cursor
            /\ job'[x].total = job[x].total /\ job'[x].processed = job[x].processed
            /\ job'[x].row = job[x].row
            /\ Held(x)' => Held(x)
  BY <1>2, <1>5, <1>6, <1>9, Zenon
<1> QED BY <1>2, <1>4, <1>8, <1>10, <1>11, WorkKept, Zenon

\* Every step of the clients, the workers, the events and time.
LEMMA WInvNext == WInv /\ [Next]_vars => WInv'
<1> SUFFICES ASSUME WInv, [Next]_vars PROVE WInv'
  OBVIOUS
<1>0. WorkType
  BY Zenon DEF WInv
<1>1. ASSUME NEW c \in Clients, NEW i \in Ids, Insert(c, i) PROVE WInv'
  BY <1>1, WInvInsert, Zenon
<1>2. ASSUME NEW i \in Ids, CancelRun(i) PROVE WInv'
  <2>1. /\ UNCHANGED <<scope, prog, event, job, counted, passed, matured>>
        /\ status[i] = "pending" /\ status' = [status EXCEPT ![i] = "cancelled"]
        /\ owner' = [owner EXCEPT ![i] = NoWorker] /\ left' = [left EXCEPT ![i] = 0]
    BY <1>2, Zenon DEF CancelRun, Release
  <2>2. /\ status' \in [Ids -> Statuses] /\ owner' \in [Ids -> Workers \cup {NoWorker}]
        /\ left' \in [Ids -> Nat] /\ job' \in [Workers -> JobType]
    BY <1>0, <2>1, Zenon DEF WorkType, Statuses
  <2>3. \A k \in Ids : /\ Active(k)' => Active(k)
                       /\ status'[k] = "completed" => status[k] = "completed"
                       /\ status'[k] = "none" => status[k] = "none"
                       /\ status'[k] = "running" => /\ status[k] = "running"
                                                    /\ owner'[k] = owner[k] /\ left'[k] = left[k]
    BY <1>0, <2>1, Zenon DEF WorkType, Active
  <2>4. \A w \in Workers : job[w].pc # "idle" /\ Held(w)' => Held(w)
    <3> SUFFICES ASSUME NEW w \in Workers, job[w].pc # "idle", Held(w)' PROVE Held(w)
      BY Zenon
    <3>1. job[w].run \in Ids
      BY Zenon DEF WInv, JobOK
    <3> QED BY <2>1, <2>3, <3>1, Zenon DEF Held
  <2> QED BY <2>1, <2>2, <2>3, <2>4, WorkKept, Zenon
<1>3. ASSUME NEW w \in Workers, NEW i \in Ids, Claim(w, i) PROVE WInv'
  BY <1>3, WInvClaim, Zenon
<1>4. ASSUME NEW w \in Workers, Count(w) PROVE WInv'
  BY <1>4, WInvCount, Zenon
<1>5. ASSUME NEW w \in Workers, SetTotalItems(w) PROVE WInv'
  BY <1>5, WInvTotal, WInvSteps, Zenon
<1>6. ASSUME NEW w \in Workers, Select(w) PROVE WInv'
  BY <1>6, WInvSelect, Zenon
<1>7. ASSUME NEW w \in Workers, AdvanceRun(w) PROVE WInv'
  BY <1>7, WInvAdvance, WInvSteps, Zenon
<1>8. ASSUME NEW w \in Workers, Apply(w) \/ Error(w) \/ Crash(w) \/ MarkFailed(w) PROVE WInv'
  BY <1>8, WInvSteps, Zenon
<1>9. ASSUME NEW e \in Rows, Arrive(e) \/ Mature(e) \/ Delete(e) PROVE WInv'
  BY <1>9, WInvEvents, Zenon
<1>10. CASE Tick
  <2>1. /\ UNCHANGED <<scope, status, owner, prog, event, job, counted, passed, matured>>
        /\ left' = [i \in Ids |-> IF left[i] = 0 THEN 0 ELSE left[i] - 1]
    BY <1>10, ZenonT(60) DEF Tick
  <2>2. left' \in [Ids -> Nat] /\ \A i \in Ids : left'[i] > 0 => left[i] > 0
    BY <1>0, <2>1, SMTT(30) DEF WorkType
  <2>3. \A w \in Workers : job[w].pc # "idle" /\ Held(w)' => Held(w)
    <3> SUFFICES ASSUME NEW w \in Workers, job[w].pc # "idle", Held(w)' PROVE Held(w)
      BY Zenon
    <3>1. job[w].run \in Ids
      BY Zenon DEF WInv, JobOK
    <3> QED BY <2>1, <2>2, <3>1, Zenon DEF Held
  <2> QED BY <1>0, <2>1, <2>2, <2>3, WorkKept, Zenon DEF WorkType, Active
<1>11. CASE UNCHANGED <<runs, event, job, counted, passed, matured>>
  BY <1>0, <1>11, WorkKept, Zenon DEF runs, WorkType, Active, Held
<1> QED
  BY <1>1, <1>2, <1>3, <1>4, <1>5, <1>6, <1>7, <1>8, <1>9, <1>10, <1>11, Zenon
     DEF Next, ClientStep, WorkerStep, Request, InsertRefused, FindAgain, FindConflict, IdlePoll, vars

\* processed_items is the number of events the run has passed, for any number of workers
\* and leases lost, because only the holder of the lease advances the run, from an
\* accurate copy, and to a row behind the cursor.
THEOREM EventsAreCountedOnce == Spec => []ProcessedCountsEvents
<1>1. WInv => ProcessedCountsEvents
  BY Zenon DEF WInv, RunOK, ProcessedCountsEvents
<1> QED BY <1>1, WInvInit, WInvNext, PTL DEF Spec

\* A run that ends as completed, by an empty batch or by its count, has passed every event
\* it counted and that still exists, unless a receipt matured while it was active.
THEOREM CompletedRunsCover == Spec => []CompletedCoversUnlessMatured
<1>1. WInv => CompletedCoversUnlessMatured
  BY Zenon DEF WInv, RunOK, CompletedCoversUnlessMatured
<1> QED BY <1>1, WInvInit, WInvNext, PTL DEF Spec

=============================================================================
