---------------------------- MODULE RuntimeProofs ----------------------------
(***************************************************************************)
(* Two parts of the runtime, for any number of nodes and Projectors.       *)
(*                                                                         *)
(* The bridge projection: no place of a Projector is past a row that the   *)
(* bridge misses, but for the scope of a rebuild from the moment it begins *)
(* to empty it. While it does so, the other controllers rest and a family  *)
(* it has emptied is covered again; from its count on, the places of its   *)
(* scope are covered, those of the other scope as far as they are past the *)
(* counted rows, and a family its controllers take for done has them all.  *)
(*                                                                         *)
(* The SQLite lease of the scheduler implements the abstract lease: its    *)
(* row backs every running claim, with the claimer as its holder and an    *)
(* end no earlier. Since a stale time only makes the row look longer to    *)
(* others and last shorter for its owner, age never breaks it.             *)
(***************************************************************************)
EXTENDS Scheduler, Rebuild, TLAPS

-----------------------------------------------------------------------------
\* The bridge

\* The rows after n up to v are in F.
Filled(F, n, v) == \A r \in (n + 1)..v : r \in F

\* A Projector in the state a is about to go on from a place in family f of scope s, or to
\* store one.
InHand(a, s, f) == a.scope = s /\ a.fam = f /\ a.pc \in {"copy", "cursor"}

\* The rows up to that place are there.
HandFilled(a, F, n) == Filled(F, n, IF a.pc = "copy" THEN a.from ELSE a.upto)

\* No place of scope s in family f, stored, cached or in hand, is past a row after n that
\* the bridge misses.
Covered(n, s, f) ==
  /\ Filled(rbFacts[f], n, rbCursor[s][f])
  /\ \A p \in Projectors : /\ Filled(rbFacts[f], n, rbCache[p][s][f])
                           /\ InHand(rbAt[p], s, f) => HandFilled(rbAt[p], rbFacts[f], n)

AllCovered(n) == \A s \in Scopes, f \in Family : Covered(n, s, f)

\* All the rows the run counted are there.
Complete(g) == Filled(rbFacts[g], 0, rbRun.total)

Stepping == {"read", "copy", "cursor", "stepped", "finished"}

\* Controller p takes family g for done.
Passed(p, g) ==
  \/ g < rbStepMap[p][rbRun.scope]
  \/ rbAt[p].pc \in {"read", "copy", "cursor"} /\ g < rbAt[p].fam
  \/ rbAt[p].pc = "cursor" /\ g = rbAt[p].fam /\ rbAt[p].upto - rbAt[p].from < Batch
  \/ rbAt[p].pc = "finished"

\* The reset of the run is over.
Rebuilding ==
  \/ rbRun.status \in {"pending", "running"} /\ ~NothingDone
  \/ \E p \in Controllers : HoldsRun(p) /\ rbAt[p].pc \in Stepping

\* Until its end: the places of its scope are covered, and those of the other one as far as
\* they are past the counted rows; and what a controller takes for done is.
OnCourse(p) ==
  /\ rbAt[p].pc = "idle" \/ (rbAt[p].pc \in Stepping /\ rbAt[p].scope = rbRun.scope)
  /\ \A g \in Family : Passed(p, g) => Complete(g)
RunOnCourse ==
  /\ AllCovered(rbRun.total)
  /\ \A f \in Family : Covered(0, rbRun.scope, f)
  /\ \A p \in Controllers : OnCourse(p)

\* Controller p has begun to empty the scope: the other ones rest and start with the first
\* family; what it has emptied is covered again, and where it is between deleting rows and
\* cursors nobody else has a place.
Emptying(p) == rbAt[p].pc \in {"clear", "count"} \/ (rbAt[p].pc = "delete" /\ rbAt[p].fam > 1)

ResetAlone(p) ==
  \A q \in Controllers \ {p} : rbAt[q].pc = "idle" /\ rbStepMap[q][rbRun.scope] = 1
ResetCovers(p) ==
  \A g \in Family : rbAt[p].pc = "count" \/ g < rbAt[p].fam => Covered(0, rbRun.scope, g)
ResetUnseen(p) ==
  rbAt[p].pc = "clear" => \A q \in Projectors \ {p} :
    rbCache[q][rbRun.scope][rbAt[p].fam] = 0 /\ ~InHand(rbAt[q], rbRun.scope, rbAt[p].fam)
ResetOnCourse(p) ==
  /\ ResetAlone(p) /\ ResetCovers(p) /\ ResetUnseen(p)
  /\ rbAt[p].pc = "count" => rbStepMap[p][rbRun.scope] = 1

\* Before the first run and after a completed one everything is covered.
NoRun == rbRun.status \in {"none", "completed"}
NoReset == \A p \in Controllers : rbAt[p].pc \in Stepping \cup {"idle"}
BridgeComplete ==
  /\ NoReset
  /\ AllCovered(0)
  /\ \A g \in Family : Complete(g)

Places ==
  /\ \A p \in Appliers : rbAt[p].pc \in Stepping \cup {"idle"}
  /\ \A p \in Controllers : HoldsRun(p) /\ rbAt[p].pc # "idle" => rbAt[p].scope = rbRun.scope

BridgeInv ==
  /\ RBTypeOK /\ Places
  /\ ~rbCrossed => /\ Rebuilding => RunOnCourse
                   /\ \A p \in Controllers : HoldsRun(p) /\ Emptying(p) => ResetOnCourse(p)
                   /\ NoRun => BridgeComplete

-----------------------------------------------------------------------------

\* Nothing is after n up to n.
LEMMA FilledNothing ==
  ASSUME NEW F, NEW n \in Nat, NEW v \in Nat, v <= n PROVE Filled(F, n, v)
  BY DEF Filled

\* More rows fill as much.
LEMMA FilledMore ==
  ASSUME NEW F, NEW G, F \subseteq G, NEW n, NEW v, Filled(F, n, v) PROVE Filled(G, n, v)
  BY Zenon DEF Filled

\* The next rows are added.
LEMMA FilledOn ==
  ASSUME NEW F, NEW G, F \subseteq G, NEW n \in Nat, NEW v \in Nat, NEW w \in Nat,
         Filled(F, n, v), (v + 1)..w \subseteq G
  PROVE  Filled(G, n, w)
  BY DEF Filled

\* Up to n, and after it.
LEMMA FilledBoth ==
  ASSUME NEW F, NEW n \in Nat, NEW v \in Nat, Filled(F, 0, n), Filled(F, n, v)
  PROVE  Filled(F, 0, v)
  BY DEF Filled

\* No further than v.
LEMMA FilledLess ==
  ASSUME NEW F, NEW n \in Nat, NEW v \in Nat, NEW w \in Nat, w <= v, Filled(F, n, v)
  PROVE  Filled(F, n, w)
  BY DEF Filled

\* Filled from the first row is filled after any.
LEMMA FilledAfter ==
  ASSUME NEW F, NEW n \in Nat, NEW v \in Nat, Filled(F, 0, v)
  PROVE  Filled(F, n, v)
  BY DEF Filled

-----------------------------------------------------------------------------

\* What a Projector's caller may be doing with m rows in the source.
AtType(m) ==
  [pc : {"idle", "read", "copy", "cursor", "stepped", "finished", "delete", "clear", "count"},
   scope : Scopes, fam : Family, from : 0..m, upto : 0..m]

\* And the run.
RunType(m) ==
  [status : {"none", "pending", "running", "completed", "failed"}, scope : Scopes,
   total : 0..m, begun : BOOLEAN, owner : Controllers \cup {NoController}, leased : BOOLEAN]

LEMMA AtTyped ==
  ASSUME NEW m, NEW doing \in {"idle", "read", "copy", "cursor", "stepped", "finished",
                            "delete", "clear", "count"},
         NEW s \in Scopes, NEW f \in Family, NEW from \in 0..m, NEW upto \in 0..m
  PROVE  At(doing, s, f, from, upto) \in AtType(m)
  BY Zenon DEF At, AtType

LEMMA AtFields ==
  ASSUME NEW doing, NEW s, NEW f, NEW from, NEW upto
  PROVE  /\ At(doing, s, f, from, upto).pc = doing /\ At(doing, s, f, from, upto).scope = s
         /\ At(doing, s, f, from, upto).fam = f /\ At(doing, s, f, from, upto).from = from
         /\ At(doing, s, f, from, upto).upto = upto
  BY Zenon DEF At

LEMMA RestFields == AtRest.pc = "idle" /\ AtRest.from = 0 /\ AtRest.upto = 0
  BY Zenon DEF AtRest, At

LEMMA RestTyped == ASSUME NEW m \in Nat PROVE AtRest \in AtType(m)
  BY ProjectorsAssumption DEF AtRest, At, AtType, Scopes, Family

LEMMA RunTyped ==
  ASSUME NEW m, NEW st \in {"none", "pending", "running", "completed", "failed"},
         NEW s \in Scopes, NEW t \in 0..m, NEW b \in BOOLEAN,
         NEW o \in Controllers \cup {NoController}, NEW l \in BOOLEAN
  PROVE  RunRow(st, s, t, b, o, l) \in RunType(m)
  BY Zenon DEF RunRow, RunType

LEMMA RunFields ==
  ASSUME NEW st, NEW s, NEW t, NEW b, NEW o, NEW l
  PROVE  /\ RunRow(st, s, t, b, o, l).status = st /\ RunRow(st, s, t, b, o, l).scope = s
         /\ RunRow(st, s, t, b, o, l).total = t /\ RunRow(st, s, t, b, o, l).begun = b
         /\ RunRow(st, s, t, b, o, l).owner = o /\ RunRow(st, s, t, b, o, l).leased = l
  BY Zenon DEF RunRow

LEMMA AtTypeGrows ==
  ASSUME NEW m \in Nat PROVE AtType(m) \subseteq AtType(m + 1)
  BY DEF AtType
LEMMA RunTypeGrows ==
  ASSUME NEW m \in Nat PROVE RunType(m) \subseteq RunType(m + 1)
  BY DEF RunType

\* The type invariant with these names.
LEMMA TypeNamed ==
  RBTypeOK <=> /\ rbSrc \in 0..MaxRow /\ rbJobs \in 0..rbSrc
               /\ rbFacts \in [Family -> SUBSET (1..rbSrc)]
               /\ rbCursor \in [Scopes -> [Family -> 0..rbSrc]]
               /\ rbCache \in [Projectors -> [Scopes -> [Family -> 0..rbSrc]]]
               /\ rbStepMap \in [Projectors -> [Scopes -> Family]]
               /\ rbAt \in [Projectors -> AtType(rbSrc)]
               /\ rbRun \in RunType(rbSrc)
               /\ rbRun.leased => rbRun.status = "running" /\ rbRun.owner \in Controllers
               /\ rbCrossed \in BOOLEAN
  BY Zenon DEF RBTypeOK, AtType, RunType

\* The same after a step.
LEMMA TypeAfter ==
  ASSUME rbSrc' \in 0..MaxRow, rbJobs' \in 0..rbSrc',
         rbFacts' \in [Family -> SUBSET (1..rbSrc')],
         rbCursor' \in [Scopes -> [Family -> 0..rbSrc']],
         rbCache' \in [Projectors -> [Scopes -> [Family -> 0..rbSrc']]],
         rbStepMap' \in [Projectors -> [Scopes -> Family]],
         rbAt' \in [Projectors -> AtType(rbSrc')],
         rbRun' \in RunType(rbSrc'),
         rbRun'.leased => rbRun'.status = "running" /\ rbRun'.owner \in Controllers,
         rbCrossed' \in BOOLEAN
  PROVE  RBTypeOK'
  BY Zenon DEF RBTypeOK, AtType, RunType

LEMMA FieldsTyped ==
  ASSUME RBTypeOK
  PROVE  /\ \A p \in Projectors : /\ rbAt[p].scope \in Scopes /\ rbAt[p].fam \in Family
                                  /\ rbAt[p].from \in 0..rbSrc /\ rbAt[p].upto \in 0..rbSrc
                                  /\ rbAt[p].pc \in {"idle", "read", "copy", "cursor", "stepped",
                                                     "finished", "delete", "clear", "count"}
         /\ rbRun.scope \in Scopes /\ rbRun.total \in 0..rbSrc /\ rbRun.begun \in BOOLEAN
         /\ rbRun.owner \in Controllers \cup {NoController} /\ rbRun.leased \in BOOLEAN
         /\ rbRun.status \in {"none", "pending", "running", "completed", "failed"}
         /\ rbSrc \in Nat /\ MaxRow \in Nat
  <1>1. \A p \in Projectors : rbAt[p] \in AtType(rbSrc)
    BY TypeNamed, Zenon
  <1>2. rbRun \in RunType(rbSrc)
    BY TypeNamed, Zenon
  <1>3. rbSrc \in 0..MaxRow
    BY TypeNamed, Zenon
  <1> QED BY <1>1, <1>2, <1>3, ProjectorsAssumption DEF AtType, RunType

-----------------------------------------------------------------------------

\* Initially there is nothing, and no run.
LEMMA BridgeInitTyped == RBInit => RBTypeOK
<1> SUFFICES ASSUME RBInit PROVE RBTypeOK
  OBVIOUS
<1> USE ProjectorsAssumption DEF RBInit, Family, Scopes
<1>1. rbAt \in [Projectors -> AtType(rbSrc)]
  <2>1. AtRest \in AtType(rbSrc)
    BY RestTyped, Zenon
  <2> QED BY <2>1, Zenon
<1>2. rbRun = RunRow("none", "project", 0, FALSE, NoController, FALSE) /\ rbSrc = 0
  OBVIOUS
<1>3. rbRun \in RunType(rbSrc) /\ ~rbRun.leased
  BY <1>2 DEF RunRow, RunType
<1>4. rbCursor \in [Scopes -> [Family -> 0..rbSrc]] /\ rbSrc \in 0..MaxRow /\ rbJobs \in 0..rbSrc
  OBVIOUS
<1>5. rbCache \in [Projectors -> [Scopes -> [Family -> 0..rbSrc]]]
  BY <1>4, Zenon
<1>6. rbStepMap \in [Projectors -> [Scopes -> Family]]
  OBVIOUS
<1>7. rbFacts \in [Family -> SUBSET (1..rbSrc)]
  OBVIOUS
<1> QED BY <1>1, <1>3, <1>4, <1>5, <1>6, <1>7, TypeNamed, Zenon

\* A new row leaves room in all types.
LEMMA TypeWriteRow == RBTypeOK /\ WriteRow => RBTypeOK'
<1> SUFFICES ASSUME RBTypeOK, WriteRow PROVE RBTypeOK'
  OBVIOUS
<1>0. rbSrc \in Nat /\ MaxRow \in Nat /\ rbSrc' = rbSrc + 1 /\ rbSrc' \in 0..MaxRow
  BY FieldsTyped, TypeNamed DEF WriteRow
<1>1. rbAt' \in [Projectors -> AtType(rbSrc')]
  BY <1>0, AtTypeGrows, TypeNamed, Zenon DEF WriteRow
<1>2. rbRun' \in RunType(rbSrc')
  BY <1>0, RunTypeGrows, TypeNamed, Zenon DEF WriteRow
<1>3. [Family -> 0..rbSrc] \subseteq [Family -> 0..rbSrc']
  BY <1>0
<1>4. rbCursor' \in [Scopes -> [Family -> 0..rbSrc']]
  BY <1>3, TypeNamed, Zenon DEF WriteRow
<1>5. [Scopes -> [Family -> 0..rbSrc]] \subseteq [Scopes -> [Family -> 0..rbSrc']]
  BY <1>3, Zenon
<1>6. rbCache' \in [Projectors -> [Scopes -> [Family -> 0..rbSrc']]]
  BY <1>5, TypeNamed, Zenon DEF WriteRow
<1>7. rbFacts' \in [Family -> SUBSET (1..rbSrc')]
  BY <1>0, TypeNamed DEF WriteRow
<1>8. rbJobs' \in 0..rbSrc'
  BY <1>0, TypeNamed DEF WriteRow
<1> QED BY <1>0, <1>1, <1>2, <1>4, <1>6, <1>7, <1>8, TypeNamed, TypeAfter, Zenon DEF WriteRow

\* The places that a step of a Projector stores are within the source.
LEMMA TypeReadCursor ==
  ASSUME RBTypeOK, NEW p \in Projectors, ReadCursor(p) PROVE RBTypeOK'
<1> DEFINE s == rbAt[p].scope
           f == rbAt[p].fam
           c == IF rbCache[p][s][f] > 0 THEN rbCache[p][s][f] ELSE rbCursor[s][f]
<1>1. s \in Scopes /\ f \in Family /\ rbAt[p].upto \in 0..rbSrc
  BY FieldsTyped, Zenon
<1>2. c \in 0..rbSrc
  BY <1>1, TypeNamed
<1>3. rbCache' = [rbCache EXCEPT ![p][s][f] = c] /\ rbAt' = [rbAt EXCEPT ![p] = At("copy", s, f, c, @.upto)]
  BY Zenon DEF ReadCursor
<1> HIDE DEF c, s, f
<1>4. rbCache' \in [Projectors -> [Scopes -> [Family -> 0..rbSrc]]]
  BY <1>1, <1>2, <1>3, TypeNamed, Zenon
<1>5. At("copy", s, f, c, rbAt[p].upto) \in AtType(rbSrc)
  BY <1>1, <1>2, AtTyped, Zenon
<1>6. rbAt' \in [Projectors -> AtType(rbSrc)]
  BY <1>3, <1>5, TypeNamed, Zenon
<1>7. rbCrossed' \in BOOLEAN
  BY Zenon DEF ReadCursor
<1> QED BY <1>4, <1>6, <1>7, TypeNamed, TypeAfter, Zenon DEF ReadCursor

\* Where StepFamilies goes next is a family and a place.
LEMMA TypeAfterBatch ==
  ASSUME RBTypeOK, NEW p \in Projectors, NEW done \in BOOLEAN, AfterBatch(p, done)
  PROVE  /\ rbStepMap' \in [Projectors -> [Scopes -> Family]]
         /\ rbAt' \in [Projectors -> AtType(rbSrc)]
<1> DEFINE s == rbAt[p].scope
           f == rbAt[p].fam
           fwd == IF ~done THEN f ELSE IF f = Families THEN 1 ELSE f + 1
           to == IF done /\ f # Families THEN At("read", s, fwd, rbAt[p].from, rbAt[p].upto)
                 ELSE At(IF done /\ p \in Controllers THEN "finished" ELSE "stepped", s, f,
                         rbAt[p].from, rbAt[p].upto)
<1>1. s \in Scopes /\ f \in Family /\ rbAt[p].upto \in 0..rbSrc /\ rbAt[p].from \in 0..rbSrc
  BY FieldsTyped, Zenon
<1>2. fwd \in Family
  BY <1>1, ProjectorsAssumption DEF Family
<1>3. rbStepMap' = [rbStepMap EXCEPT ![p][s] = fwd] /\ rbAt' = [rbAt EXCEPT ![p] = to]
  BY Zenon DEF AfterBatch
<1>4. to \in AtType(rbSrc)
  BY <1>1, <1>2, AtTyped, Zenon
<1> HIDE DEF fwd, to, s, f
<1>5. rbStepMap' \in [Projectors -> [Scopes -> Family]]
  BY <1>1, <1>2, <1>3, TypeNamed, Zenon
<1> QED BY <1>3, <1>4, <1>5, TypeNamed, Zenon

\* The end of a batch is past its start, and within the source.
LEMMA BatchEndTyped ==
  ASSUME RBTypeOK, NEW p \in Projectors
  PROVE  /\ BatchEnd(p) \in 0..rbSrc /\ BatchEnd(p) <= rbAt[p].from + Batch
         /\ BatchEnd(p) < rbAt[p].from + Batch => BatchEnd(p) = rbSrc
  BY FieldsTyped, ProjectorsAssumption DEF BatchEnd, Smaller

\* Rows that are added to a family are rows of the source.
LEMMA FactsTyped ==
  ASSUME RBTypeOK, NEW f \in Family, NEW a \in 0..rbSrc, NEW b \in 0..rbSrc
  PROVE  [rbFacts EXCEPT ![f] = @ \cup (a + 1)..b] \in [Family -> SUBSET (1..rbSrc)]
<1>1. (a + 1)..b \subseteq 1..rbSrc
  BY FieldsTyped
<1> QED BY <1>1, TypeNamed, Zenon

LEMMA TypeCopyBatch ==
  ASSUME RBTypeOK, NEW p \in Projectors, CopyBatch(p) PROVE RBTypeOK'
<1>1. /\ rbAt[p].scope \in Scopes /\ rbAt[p].fam \in Family
      /\ rbAt[p].upto \in 0..rbSrc /\ rbAt[p].from \in 0..rbSrc
  BY FieldsTyped, Zenon
<1>2. BatchEnd(p) \in 0..rbSrc
  BY BatchEndTyped, Zenon
<1>3. rbFacts' \in [Family -> SUBSET (1..rbSrc)]
  BY <1>1, <1>2, FactsTyped, Zenon DEF CopyBatch
<1>4. /\ rbStepMap' \in [Projectors -> [Scopes -> Family]]
      /\ rbAt' \in [Projectors -> AtType(rbSrc)]
  <2>1. CASE BatchEnd(p) <= rbAt[p].from
    BY <2>1, TypeAfterBatch, Zenon DEF CopyBatch
  <2>2. CASE ~(BatchEnd(p) <= rbAt[p].from)
    <3>1. At("cursor", rbAt[p].scope, rbAt[p].fam, rbAt[p].from, BatchEnd(p)) \in AtType(rbSrc)
      BY <1>1, <1>2, AtTyped, Zenon
    <3>2. rbAt' = [rbAt EXCEPT ![p] = At("cursor", rbAt[p].scope, rbAt[p].fam, rbAt[p].from, BatchEnd(p))]
      BY <2>2, Zenon DEF CopyBatch
    <3>3. rbStepMap' = rbStepMap
      BY <2>2, Zenon DEF CopyBatch
    <3> QED BY <3>1, <3>2, <3>3, TypeNamed, Zenon
  <2> QED BY <2>1, <2>2, Zenon
<1> QED BY <1>3, <1>4, TypeNamed, TypeAfter, Zenon DEF CopyBatch

LEMMA TypeSetCursor ==
  ASSUME RBTypeOK, NEW p \in Projectors, SetCursor(p) PROVE RBTypeOK'
<1> DEFINE s == rbAt[p].scope
           f == rbAt[p].fam
           u == rbAt[p].upto
<1>1. s \in Scopes /\ f \in Family /\ u \in 0..rbSrc
  BY FieldsTyped, Zenon
<1>2. rbCursor' = [rbCursor EXCEPT ![s][f] = u] /\ rbCache' = [rbCache EXCEPT ![p][s][f] = u]
  BY Zenon DEF SetCursor
<1>3. AfterBatch(p, rbAt[p].upto - rbAt[p].from < Batch)
  BY Zenon DEF SetCursor
<1>4. /\ rbStepMap' \in [Projectors -> [Scopes -> Family]]
      /\ rbAt' \in [Projectors -> AtType(rbSrc)]
  <2>1. (rbAt[p].upto - rbAt[p].from < Batch) \in BOOLEAN
    BY FieldsTyped, ProjectorsAssumption
  <2> QED BY <1>3, <2>1, TypeAfterBatch, Zenon
<1> HIDE DEF s, f, u
<1>5. rbCursor' \in [Scopes -> [Family -> 0..rbSrc]]
  BY <1>1, <1>2, TypeNamed, Zenon
<1>6. rbCache' \in [Projectors -> [Scopes -> [Family -> 0..rbSrc]]]
  BY <1>1, <1>2, TypeNamed, Zenon
<1> QED BY <1>4, <1>5, <1>6, TypeNamed, TypeAfter, Zenon DEF SetCursor

\* A Projector that moves on to a place that exists keeps the types of the rest.
LEMMA MovesTyped ==
  ASSUME RBTypeOK, NEW p \in Projectors, NEW a \in AtType(rbSrc), rbAt' = [rbAt EXCEPT ![p] = a]
  PROVE  rbAt' \in [Projectors -> AtType(rbSrc)]
  BY TypeNamed, Zenon

\* The run in one of its states.
LEMMA RunMovesTyped ==
  ASSUME RBTypeOK, NEW st \in {"none", "pending", "running", "completed", "failed"},
         NEW s \in Scopes, NEW t \in 0..rbSrc, NEW b \in BOOLEAN,
         NEW o \in Controllers \cup {NoController}, NEW l \in BOOLEAN,
         l => st = "running" /\ o \in Controllers, rbRun' = RunRow(st, s, t, b, o, l)
  PROVE  /\ rbRun' \in RunType(rbSrc)
         /\ rbRun'.leased => rbRun'.status = "running" /\ rbRun'.owner \in Controllers
  BY RunTyped, RunFields

\* The job of a projection worker moves it through the families.
LEMMA TypeJob ==
  ASSUME RBTypeOK, NEW p \in Projectors, ClaimJob(p) \/ NextScope(p) PROVE RBTypeOK'
<1>0. \A s \in Scopes : rbStepMap[p][s] \in Family
  BY TypeNamed
<1>1. \A s \in Scopes : At("read", s, rbStepMap[p][s], 0, 0) \in AtType(rbSrc)
  <2>1. 0 \in 0..rbSrc
    BY FieldsTyped
  <2> QED BY <1>0, <2>1, AtTyped, Zenon
<1>2. AtRest \in AtType(rbSrc) /\ "project" \in Scopes /\ "organization" \in Scopes
  BY RestTyped, FieldsTyped, Zenon DEF Scopes
<1>3. rbAt' \in [Projectors -> AtType(rbSrc)]
  <2>1. CASE ClaimJob(p)
    BY <1>1, <1>2, <2>1, MovesTyped, Zenon DEF ClaimJob
  <2>2. CASE NextScope(p)
    BY <1>1, <1>2, <2>2, MovesTyped, Zenon DEF NextScope
  <2> QED BY <2>1, <2>2, Zenon
<1>4. rbJobs' \in 0..rbSrc
  BY FieldsTyped, TypeNamed DEF ClaimJob, NextScope
<1> QED BY <1>3, <1>4, TypeNamed, TypeAfter, Zenon DEF ClaimJob, NextScope

\* A run is created with nothing done.
LEMMA TypeCreateRun ==
  ASSUME RBTypeOK, NEW s \in Scopes, CreateRun(s) PROVE RBTypeOK'
<1>1. /\ rbRun' \in RunType(rbSrc)
      /\ rbRun'.leased => rbRun'.status = "running" /\ rbRun'.owner \in Controllers
  <2>1. rbRun' = RunRow("pending", s, 0, FALSE, NoController, FALSE) /\ 0 \in 0..rbSrc
    BY FieldsTyped DEF CreateRun
  <2>2. NoController \in Controllers \cup {NoController}
    OBVIOUS
  <2> QED BY <2>1, <2>2, RunMovesTyped, Zenon
<1> QED BY <1>1, TypeNamed, TypeAfter, Zenon DEF CreateRun

\* A claim makes its controller the owner.
LEMMA TypeClaimRebuild ==
  ASSUME RBTypeOK, NEW p \in Projectors, ClaimRebuild(p) PROVE RBTypeOK'
<1>1. /\ rbRun' \in RunType(rbSrc)
      /\ rbRun'.leased => rbRun'.status = "running" /\ rbRun'.owner \in Controllers
  <2>1. p \in Controllers /\ rbRun' = RunRow("running", rbRun.scope, rbRun.total, rbRun.begun, p, TRUE)
    BY Zenon DEF ClaimRebuild
  <2> QED BY <2>1, RunMovesTyped, FieldsTyped, Zenon
<1>2. rbAt' \in [Projectors -> AtType(rbSrc)]
  <2>1. rbRun.scope \in Scopes /\ 0 \in 0..rbSrc /\ 1 \in Family
    BY FieldsTyped, ProjectorsAssumption DEF Family
  <2>2. rbStepMap[p][rbRun.scope] \in Family
    BY <2>1, TypeNamed
  <2>3. /\ At("delete", rbRun.scope, 1, 0, 0) \in AtType(rbSrc)
        /\ At("read", rbRun.scope, rbStepMap[p][rbRun.scope], 0, 0) \in AtType(rbSrc)
    BY <2>1, <2>2, AtTyped, Zenon
  <2> QED BY <2>3, MovesTyped, Zenon DEF ClaimRebuild
<1> QED BY <1>1, <1>2, TypeNamed, TypeAfter, Zenon DEF ClaimRebuild

\* The reset deletes rows ...
LEMMA TypeDeleteFamily ==
  ASSUME RBTypeOK, NEW p \in Projectors, DeleteFamily(p) PROVE RBTypeOK'
<1>1. rbFacts' \in [Family -> SUBSET (1..rbSrc)]
  BY TypeNamed, Zenon DEF DeleteFamily
<1>2. rbAt' \in [Projectors -> AtType(rbSrc)]
  <2>1. rbAt[p] \in AtType(rbSrc)
    BY TypeNamed, Zenon
  <2>2. [rbAt[p] EXCEPT !.pc = "clear"] \in AtType(rbSrc)
    BY <2>1, Zenon DEF AtType
  <2>3. rbAt' = [rbAt EXCEPT ![p] = [rbAt[p] EXCEPT !.pc = "clear"]]
    BY Zenon DEF DeleteFamily
  <2> QED BY <2>2, <2>3, MovesTyped, Zenon
<1>3. rbCrossed' \in BOOLEAN
  BY Zenon DEF DeleteFamily
<1> QED BY <1>1, <1>2, <1>3, TypeNamed, TypeAfter, Zenon DEF DeleteFamily

\* ... and cursors.
LEMMA TypeClearCursors ==
  ASSUME RBTypeOK, NEW p \in Projectors, ClearCursors(p) PROVE RBTypeOK'
<1> DEFINE s == rbAt[p].scope
           f == rbAt[p].fam
           Without(c) == [t \in Scopes |-> IF t \in Cleared(s) THEN [c[t] EXCEPT ![f] = 0] ELSE c[t]]
<1>1. /\ s \in Scopes /\ f \in Family /\ rbAt[p].upto \in 0..rbSrc /\ rbAt[p].from \in 0..rbSrc
      /\ 0 \in 0..rbSrc
  BY FieldsTyped
<1>2. \A c \in [Scopes -> [Family -> 0..rbSrc]] : Without(c) \in [Scopes -> [Family -> 0..rbSrc]]
  BY <1>1, Zenon
<1>3. rbCursor' = Without(rbCursor) /\ rbCache' = [rbCache EXCEPT ![p] = Without(rbCache[p])]
  BY Zenon DEF ClearCursors
<1>4. rbAt' \in [Projectors -> AtType(rbSrc)]
  <2>1. 1 \in Family /\ (f # Families => f + 1 \in Family)
    BY <1>1, ProjectorsAssumption DEF Family
  <2>2. /\ At("count", s, 1, rbAt[p].from, rbAt[p].upto) \in AtType(rbSrc)
        /\ f # Families => At("delete", s, f + 1, rbAt[p].from, rbAt[p].upto) \in AtType(rbSrc)
    BY <1>1, <2>1, AtTyped, Zenon
  <2> QED BY <2>2, MovesTyped, Zenon DEF ClearCursors
<1>5. rbStepMap' \in [Projectors -> [Scopes -> Family]]
  <2>1. 1 \in Family
    BY ProjectorsAssumption DEF Family
  <2>2. rbStepMap' = [rbStepMap EXCEPT ![p][s] = 1] \/ rbStepMap' = rbStepMap
    BY Zenon DEF ClearCursors
  <2> HIDE DEF s, f
  <2>3. [rbStepMap EXCEPT ![p][s] = 1] \in [Projectors -> [Scopes -> Family]]
    BY <1>1, <2>1, TypeNamed, Zenon
  <2> QED BY <2>2, <2>3, TypeNamed, Zenon
<1> HIDE DEF Without, s, f
<1>6. rbCursor' \in [Scopes -> [Family -> 0..rbSrc]]
  BY <1>2, <1>3, TypeNamed, Zenon
<1>7. rbCache' \in [Projectors -> [Scopes -> [Family -> 0..rbSrc]]]
  BY <1>2, <1>3, TypeNamed, Zenon
<1> QED BY <1>4, <1>5, <1>6, <1>7, TypeNamed, TypeAfter, Zenon DEF ClearCursors

\* The controller counts, and hands the run back.
LEMMA TypeCountRows ==
  ASSUME RBTypeOK, NEW p \in Projectors, CountRows(p) PROVE RBTypeOK'
<1>1. /\ rbAt[p].scope \in Scopes /\ rbAt[p].upto \in 0..rbSrc /\ rbAt[p].from \in 0..rbSrc
      /\ rbSrc \in 0..rbSrc
  BY FieldsTyped
<1>2. rbStepMap[p][rbAt[p].scope] \in Family
  BY <1>1, TypeNamed
<1>3. At("read", rbAt[p].scope, rbStepMap[p][rbAt[p].scope], rbAt[p].from, rbAt[p].upto) \in AtType(rbSrc)
  BY <1>1, <1>2, AtTyped, Zenon
<1>4. AtRest \in AtType(rbSrc)
  BY RestTyped, FieldsTyped, Zenon
<1>5. rbAt' \in [Projectors -> AtType(rbSrc)]
  BY <1>3, <1>4, MovesTyped, Zenon DEF CountRows
<1>6. /\ rbRun' \in RunType(rbSrc)
      /\ rbRun'.leased => rbRun'.status = "running" /\ rbRun'.owner \in Controllers
  <2>1. rbRun \in RunType(rbSrc) /\ (rbRun.leased => rbRun.status = "running" /\ rbRun.owner \in Controllers)
    BY TypeNamed, Zenon
  <2>2. rbRun' = [rbRun EXCEPT !.total = rbSrc] \/ rbRun' = rbRun
    BY Zenon DEF CountRows
  <2> QED BY <1>1, <2>1, <2>2, Zenon DEF RunType
<1> QED BY <1>5, <1>6, TypeNamed, TypeAfter, Zenon DEF CountRows

LEMMA TypeAdvanceRebuild ==
  ASSUME RBTypeOK, NEW p \in Projectors, AdvanceRebuild(p) PROVE RBTypeOK'
<1>1. rbAt' \in [Projectors -> AtType(rbSrc)]
  BY RestTyped, FieldsTyped, MovesTyped, Zenon DEF AdvanceRebuild
<1>2. /\ rbRun' \in RunType(rbSrc)
      /\ rbRun'.leased => rbRun'.status = "running" /\ rbRun'.owner \in Controllers
  <2>1. CASE HoldsRun(p)
    <3>1. rbRun' = RunRow(IF rbAt[p].pc = "finished" THEN "completed" ELSE "pending", rbRun.scope,
                          rbRun.total, rbRun.begun \/ rbAt[p].upto > 0, NoController, FALSE)
      BY <2>1, Zenon DEF AdvanceRebuild
    <3>2. (rbRun.begun \/ rbAt[p].upto > 0) \in BOOLEAN
      OBVIOUS
    <3> QED BY <3>1, <3>2, RunMovesTyped, FieldsTyped, Zenon
  <2>2. CASE ~HoldsRun(p)
    BY <2>2, TypeNamed, Zenon DEF AdvanceRebuild
  <2> QED BY <2>1, <2>2, Zenon
<1> QED BY <1>1, <1>2, TypeNamed, TypeAfter, Zenon DEF AdvanceRebuild

\* An error gives up, with part of the batch copied.
LEMMA TypeError ==
  ASSUME RBTypeOK, NEW p \in Projectors, RBError(p) PROVE RBTypeOK'
<1>1. rbAt' \in [Projectors -> AtType(rbSrc)]
  BY RestTyped, FieldsTyped, MovesTyped, Zenon DEF RBError
<1>2. /\ rbRun' \in RunType(rbSrc)
      /\ rbRun'.leased => rbRun'.status = "running" /\ rbRun'.owner \in Controllers
  <2>1. CASE HoldsRun(p)
    <3>1. rbRun' = RunRow("failed", rbRun.scope, rbRun.total, rbRun.begun, NoController, FALSE)
      BY <2>1, Zenon DEF RBError
    <3> QED BY <3>1, RunMovesTyped, FieldsTyped, Zenon
  <2>2. CASE ~HoldsRun(p)
    BY <2>2, TypeNamed, Zenon DEF RBError
  <2> QED BY <2>1, <2>2, Zenon
<1>3. rbFacts' \in [Family -> SUBSET (1..rbSrc)]
  <2>1. rbAt[p].fam \in Family /\ rbAt[p].from \in 0..rbSrc
    BY FieldsTyped, Zenon
  <2>2. PICK m \in rbAt[p].from..BatchEnd(p) \cup {rbAt[p].from} :
          rbFacts' = IF rbAt[p].pc = "copy"
                     THEN [rbFacts EXCEPT ![rbAt[p].fam] = @ \cup (rbAt[p].from + 1)..m] ELSE rbFacts
    BY Zenon DEF RBError
  <2>3. m \in 0..rbSrc
    BY <2>1, BatchEndTyped, FieldsTyped
  <2> QED BY <2>1, <2>2, <2>3, FactsTyped, TypeNamed, Zenon
<1> QED BY <1>1, <1>2, <1>3, TypeNamed, TypeAfter, Zenon DEF RBError

\* A crash forgets.
LEMMA TypeCrash ==
  ASSUME RBTypeOK, NEW p \in Projectors, RBCrash(p) PROVE RBTypeOK'
<1>1. rbAt' \in [Projectors -> AtType(rbSrc)]
  BY RestTyped, FieldsTyped, MovesTyped, Zenon DEF RBCrash
<1>2. rbCache' \in [Projectors -> [Scopes -> [Family -> 0..rbSrc]]]
  BY FieldsTyped, TypeNamed DEF RBCrash
<1>3. rbStepMap' \in [Projectors -> [Scopes -> Family]]
  BY TypeNamed, ProjectorsAssumption DEF RBCrash, Family
<1> QED BY <1>1, <1>2, <1>3, TypeNamed, TypeAfter, Zenon DEF RBCrash

\* The end of a lease.
LEMMA TypeLeaseEnds ==
  ASSUME RBTypeOK, DeadLeaseEnds \/ LeaseOutlived PROVE RBTypeOK'
<1>1. /\ rbRun' \in RunType(rbSrc)
      /\ rbRun'.leased => rbRun'.status = "running" /\ rbRun'.owner \in Controllers
  <2>1. rbRun \in RunType(rbSrc)
    BY TypeNamed, Zenon
  <2>2. rbRun' = [rbRun EXCEPT !.leased = FALSE]
    BY Zenon DEF DeadLeaseEnds, LeaseOutlived
  <2> QED BY <2>1, <2>2, Zenon DEF RunType
<1> QED BY <1>1, TypeNamed, TypeAfter, Zenon DEF DeadLeaseEnds, LeaseOutlived

\* Every step keeps the types.
LEMMA BridgeTyped == RBTypeOK /\ [RBNext]_rbVars => RBTypeOK'
<1> SUFFICES ASSUME RBTypeOK, [RBNext]_rbVars PROVE RBTypeOK'
  OBVIOUS
<1>1. CASE UNCHANGED rbVars
  BY <1>1, TypeNamed, TypeAfter, Zenon DEF rbVars
<1>2. ASSUME NEW p \in Projectors, Work(p) PROVE RBTypeOK'
  BY <1>2, TypeJob, TypeReadCursor, TypeCopyBatch, TypeSetCursor, TypeClaimRebuild,
     TypeDeleteFamily, TypeClearCursors, TypeCountRows, TypeAdvanceRebuild, Zenon DEF Work
<1> QED BY <1>1, <1>2, TypeWriteRow, TypeCreateRun, TypeError, TypeCrash, TypeLeaseEnds, Zenon
        DEF RBNext, RBPoll

-----------------------------------------------------------------------------
\* Places stay covered as long as nobody deletes the family's rows

NotDeleting(f) == \A p \in Projectors : ~(rbAt[p].pc = "delete" /\ rbAt[p].fam = f)

\* Then rows are only added.
LEMMA FactsGrow ==
  ASSUME RBTypeOK, [RBNext]_rbVars, NEW f \in Family, NotDeleting(f)
  PROVE  rbFacts[f] \subseteq rbFacts'[f]
<1>0. rbFacts \in [Family -> SUBSET (1..rbSrc)] /\ \A p \in Projectors : rbAt[p].fam \in Family
  BY FieldsTyped, TypeNamed, Zenon
<1>1. ASSUME NEW p \in Projectors, CopyBatch(p) PROVE rbFacts[f] \subseteq rbFacts'[f]
  BY <1>0, <1>1, Zenon DEF CopyBatch
<1>2. ASSUME NEW p \in Projectors, RBError(p) PROVE rbFacts[f] \subseteq rbFacts'[f]
  BY <1>0, <1>2, Zenon DEF RBError
<1>3. ASSUME NEW p \in Projectors, DeleteFamily(p) PROVE rbFacts[f] \subseteq rbFacts'[f]
  <2>1. rbAt[p].fam # f
    BY <1>3, Zenon DEF NotDeleting, DeleteFamily
  <2> QED BY <1>0, <1>3, <2>1, Zenon DEF DeleteFamily
<1>4. ASSUME NEW p \in Projectors, Work(p) PROVE rbFacts[f] \subseteq rbFacts'[f]
  BY <1>1, <1>3, <1>4, Zenon DEF Work, ClaimJob, NextScope, ReadCursor, SetCursor, ClaimRebuild,
     ClearCursors, CountRows, AdvanceRebuild
<1> QED BY <1>2, <1>4, Zenon DEF RBNext, WriteRow, CreateRun, RBCrash, DeadLeaseEnds, LeaseOutlived, RBPoll, rbVars

\* Every place is an old one, or the rows up to it are there.
LEMMA CoveredAfter ==
  ASSUME NEW n, NEW s, NEW f, Covered(n, s, f), rbFacts[f] \subseteq rbFacts'[f],
         rbCursor'[s][f] = rbCursor[s][f] \/ Filled(rbFacts'[f], n, rbCursor'[s][f]),
         \A q \in Projectors :
           /\ rbCache'[q][s][f] = rbCache[q][s][f] \/ Filled(rbFacts'[f], n, rbCache'[q][s][f])
           /\ \/ rbAt'[q] = rbAt[q]
              \/ InHand(rbAt'[q], s, f) => HandFilled(rbAt'[q], rbFacts'[f], n)
  PROVE  Covered(n, s, f)'
<1>1. Filled(rbFacts'[f], n, rbCursor'[s][f])
  BY FilledMore, Zenon DEF Covered
<1>2. ASSUME NEW q \in Projectors PROVE Filled(rbFacts'[f], n, rbCache'[q][s][f])
  BY FilledMore, Zenon DEF Covered
<1>3. ASSUME NEW q \in Projectors, InHand(rbAt'[q], s, f) PROVE HandFilled(rbAt'[q], rbFacts'[f], n)
  <2>1. CASE rbAt'[q] = rbAt[q]
    BY <1>3, <2>1, FilledMore, Zenon DEF Covered, HandFilled
  <2> QED BY <1>3, <2>1, Zenon
<1> QED BY <1>1, <1>2, <1>3, Zenon DEF Covered

\* Nothing in hand.
LEMMA NotInHand ==
  ASSUME NEW a, a.pc \notin {"copy", "cursor"}, NEW s, NEW f PROVE ~InHand(a, s, f)
  BY Zenon DEF InHand

LEMMA CoveredReadCursor ==
  ASSUME RBTypeOK, NEW p \in Projectors, ReadCursor(p),
         NEW n \in Nat, NEW s \in Scopes, NEW f \in Family, Covered(n, s, f)
  PROVE  Covered(n, s, f)'
<1> DEFINE ps == rbAt[p].scope
           pf == rbAt[p].fam
           c == IF rbCache[p][ps][pf] > 0 THEN rbCache[p][ps][pf] ELSE rbCursor[ps][pf]
           a == At("copy", ps, pf, c, rbAt[p].upto)
<1>1. ps \in Scopes /\ pf \in Family
  BY FieldsTyped, Zenon
<1>2. rbCache' = [rbCache EXCEPT ![p][ps][pf] = c] /\ rbAt' = [rbAt EXCEPT ![p] = a]
  BY Zenon DEF ReadCursor
<1>3. rbFacts' = rbFacts /\ rbCursor' = rbCursor
  BY Zenon DEF ReadCursor
<1>4. ps = s /\ pf = f => Filled(rbFacts[f], n, c)
  BY DEF Covered
<1> HIDE DEF c, ps, pf
<1>5. a.pc = "copy" /\ a.from = c /\ a.scope = ps /\ a.fam = pf
  BY DEF At
<1>6. rbCache \in [Projectors -> [Scopes -> [Family -> 0..rbSrc]]] /\ rbAt \in [Projectors -> AtType(rbSrc)]
  BY TypeNamed, Zenon
<1> HIDE DEF a
<1>7. ASSUME NEW q \in Projectors
      PROVE  rbCache'[q][s][f] = rbCache[q][s][f] \/ Filled(rbFacts'[f], n, rbCache'[q][s][f])
  <2>1. CASE q = p /\ s = ps /\ f = pf
    <3>1. rbCache'[q][s][f] = c
      BY <1>1, <1>2, <1>6, <2>1, Zenon
    <3> QED BY <1>3, <1>4, <2>1, <3>1, Zenon
  <2>2. CASE ~(q = p /\ s = ps /\ f = pf)
    BY <1>1, <1>2, <1>6, <2>2
  <2> QED BY <2>1, <2>2, Zenon
<1>8. ASSUME NEW q \in Projectors, rbAt'[q] # rbAt[q], InHand(rbAt'[q], s, f)
      PROVE  HandFilled(rbAt'[q], rbFacts'[f], n)
  <2>1. rbAt'[q] = a
    BY <1>2, <1>6, <1>8, Zenon
  <2> QED BY <1>3, <1>4, <1>5, <1>8, <2>1, Zenon DEF InHand, HandFilled
<1> QED BY <1>3, <1>7, <1>8, CoveredAfter, Zenon

\* The states after a batch have nothing in hand.
LEMMA AfterBatchNoHand ==
  ASSUME RBTypeOK, NEW p \in Projectors, NEW done, AfterBatch(p, done)
  PROVE  /\ rbAt'[p].pc \in {"read", "finished", "stepped"}
         /\ \A q \in Projectors \ {p} : rbAt'[q] = rbAt[q]
<1>1. rbAt \in [Projectors -> AtType(rbSrc)]
  BY TypeNamed, Zenon
<1> QED BY <1>1, AtFields DEF AfterBatch

LEMMA CoveredCopyBatch ==
  ASSUME RBTypeOK, NEW p \in Projectors, CopyBatch(p),
         NEW n \in Nat, NEW s \in Scopes, NEW f \in Family, Covered(n, s, f)
  PROVE  Covered(n, s, f)'
<1>0. rbFacts \in [Family -> SUBSET (1..rbSrc)] /\ rbAt \in [Projectors -> AtType(rbSrc)]
  BY TypeNamed, Zenon
<1>1. rbFacts[f] \subseteq rbFacts'[f]
  BY <1>0, Zenon DEF CopyBatch
<1>2. rbCache' = rbCache /\ rbCursor' = rbCursor
  BY Zenon DEF CopyBatch
<1>3. ASSUME NEW q \in Projectors, rbAt'[q] # rbAt[q], InHand(rbAt'[q], s, f)
      PROVE  HandFilled(rbAt'[q], rbFacts'[f], n)
  <2>1. CASE BatchEnd(p) <= rbAt[p].from
    <3>1. AfterBatch(p, TRUE)
      BY <2>1, Zenon DEF CopyBatch
    <3> QED BY <1>3, <3>1, AfterBatchNoHand, NotInHand, Zenon
  <2>2. CASE ~(BatchEnd(p) <= rbAt[p].from)
    <3> DEFINE a == At("cursor", rbAt[p].scope, rbAt[p].fam, rbAt[p].from, BatchEnd(p))
    <3>1. rbAt' = [rbAt EXCEPT ![p] = a]
      BY <2>2, Zenon DEF CopyBatch
    <3>2. q = p /\ rbAt'[q] = a
      BY <1>0, <1>3, <3>1, Zenon
    <3>3. a.pc = "cursor" /\ a.upto = BatchEnd(p) /\ a.scope = rbAt[p].scope /\ a.fam = rbAt[p].fam
      BY AtFields
    <3> HIDE DEF a
    <3>4. rbAt[p].scope = s /\ rbAt[p].fam = f /\ rbAt[p].pc = "copy"
      BY <1>3, <3>2, <3>3, Zenon DEF InHand, CopyBatch
    <3>5. Filled(rbFacts[f], n, rbAt[p].from)
      BY <3>4, Zenon DEF Covered, InHand, HandFilled
    <3>6. (rbAt[p].from + 1)..BatchEnd(p) \subseteq rbFacts'[f]
      BY <1>0, <3>4, Zenon DEF CopyBatch
    <3>7. rbAt[p].from \in Nat /\ BatchEnd(p) \in Nat
      BY FieldsTyped, BatchEndTyped
    <3>8. Filled(rbFacts'[f], n, BatchEnd(p))
      BY <1>1, <3>5, <3>6, <3>7, FilledOn
    <3> QED BY <3>2, <3>3, <3>8, Zenon DEF HandFilled
  <2> QED BY <2>1, <2>2, Zenon
<1> QED BY <1>1, <1>2, <1>3, CoveredAfter, Zenon

LEMMA CoveredSetCursor ==
  ASSUME RBTypeOK, NEW p \in Projectors, SetCursor(p),
         NEW n \in Nat, NEW s \in Scopes, NEW f \in Family, Covered(n, s, f)
  PROVE  Covered(n, s, f)'
<1> DEFINE ps == rbAt[p].scope
           pf == rbAt[p].fam
           u == rbAt[p].upto
<1>1. ps \in Scopes /\ pf \in Family
  BY FieldsTyped, Zenon
<1>2. rbCursor' = [rbCursor EXCEPT ![ps][pf] = u] /\ rbCache' = [rbCache EXCEPT ![p][ps][pf] = u]
  BY Zenon DEF SetCursor
<1>3. rbFacts' = rbFacts /\ AfterBatch(p, rbAt[p].upto - rbAt[p].from < Batch)
  BY Zenon DEF SetCursor
<1>4. ps = s /\ pf = f => Filled(rbFacts[f], n, u)
  BY Zenon DEF Covered, SetCursor, InHand, HandFilled
<1>5. /\ rbCache \in [Projectors -> [Scopes -> [Family -> 0..rbSrc]]]
      /\ rbCursor \in [Scopes -> [Family -> 0..rbSrc]]
  BY TypeNamed, Zenon
<1> HIDE DEF ps, pf, u
<1>6. rbCursor'[s][f] = rbCursor[s][f] \/ Filled(rbFacts'[f], n, rbCursor'[s][f])
  <2>1. CASE s = ps /\ f = pf
    <3>1. rbCursor'[s][f] = u
      BY <1>1, <1>2, <1>5, <2>1, Zenon
    <3> QED BY <1>3, <1>4, <2>1, <3>1, Zenon
  <2>2. CASE ~(s = ps /\ f = pf)
    BY <1>1, <1>2, <1>5, <2>2, Zenon
  <2> QED BY <2>1, <2>2, Zenon
<1>7. ASSUME NEW q \in Projectors
      PROVE  rbCache'[q][s][f] = rbCache[q][s][f] \/ Filled(rbFacts'[f], n, rbCache'[q][s][f])
  <2>1. CASE q = p /\ s = ps /\ f = pf
    <3>1. rbCache'[q][s][f] = u
      BY <1>1, <1>2, <1>5, <2>1, Zenon
    <3> QED BY <1>3, <1>4, <2>1, <3>1, Zenon
  <2>2. CASE ~(q = p /\ s = ps /\ f = pf)
    BY <1>1, <1>2, <1>5, <2>2
  <2> QED BY <2>1, <2>2, Zenon
<1>8. ASSUME NEW q \in Projectors PROVE rbAt'[q] = rbAt[q] \/ ~InHand(rbAt'[q], s, f)
  BY <1>3, AfterBatchNoHand, NotInHand, Zenon
<1> QED BY <1>3, <1>6, <1>7, <1>8, CoveredAfter, Zenon

\* ClearCursors sets places to 0, or leaves them.
LEMMA ClearedPlaces ==
  ASSUME RBTypeOK, NEW p \in Projectors, ClearCursors(p), NEW s \in Scopes, NEW f \in Family
  PROVE  /\ rbCursor'[s][f] = IF s \in Cleared(rbAt[p].scope) /\ f = rbAt[p].fam THEN 0 ELSE rbCursor[s][f]
         /\ \A q \in Projectors :
              rbCache'[q][s][f] = IF q = p /\ s \in Cleared(rbAt[p].scope) /\ f = rbAt[p].fam
                                  THEN 0 ELSE rbCache[q][s][f]
<1> DEFINE ps == rbAt[p].scope
           pf == rbAt[p].fam
           Without(c) == [t \in Scopes |-> IF t \in Cleared(ps) THEN [c[t] EXCEPT ![pf] = 0] ELSE c[t]]
<1>1. ps \in Scopes /\ pf \in Family
  BY FieldsTyped, Zenon
<1>2. rbCursor' = Without(rbCursor) /\ rbCache' = [rbCache EXCEPT ![p] = Without(rbCache[p])]
  BY Zenon DEF ClearCursors
<1>3. ASSUME NEW c \in [Scopes -> [Family -> 0..rbSrc]]
      PROVE  Without(c)[s][f] = IF s \in Cleared(ps) /\ f = pf THEN 0 ELSE c[s][f]
  <2> HIDE DEF ps, pf
  <2> QED BY <1>1, Zenon
<1>4. /\ rbCache \in [Projectors -> [Scopes -> [Family -> 0..rbSrc]]]
      /\ rbCursor \in [Scopes -> [Family -> 0..rbSrc]]
  BY TypeNamed, Zenon
<1>5. rbCursor'[s][f] = IF s \in Cleared(ps) /\ f = pf THEN 0 ELSE rbCursor[s][f]
  BY <1>2, <1>3, <1>4, Zenon
<1>6. ASSUME NEW q \in Projectors
      PROVE rbCache'[q][s][f] = IF q = p /\ s \in Cleared(ps) /\ f = pf THEN 0 ELSE rbCache[q][s][f]
  <2>1. rbCache[q] \in [Scopes -> [Family -> 0..rbSrc]]
    BY <1>4, Zenon
  <2>2. rbCache'[q] = IF q = p THEN Without(rbCache[q]) ELSE rbCache[q]
    BY <1>2, <1>4, Zenon
  <2> HIDE DEF Without
  <2> QED BY <1>3, <2>1, <2>2, Zenon
<1> QED BY <1>5, <1>6, Zenon

\* The places of nobody but p change; p has nothing in hand afterwards.
Steps(p) ==
  /\ rbAt'[p].pc \notin {"copy", "cursor"}
  /\ \A q \in Projectors \ {p} : rbAt'[q] = rbAt[q]

LEMMA OtherStepsInHand ==
  ASSUME RBTypeOK, NEW p \in Projectors,
         \/ ClaimJob(p) \/ NextScope(p) \/ ClaimRebuild(p) \/ DeleteFamily(p) \/ ClearCursors(p)
         \/ CountRows(p) \/ AdvanceRebuild(p) \/ RBError(p) \/ RBCrash(p)
  PROVE  Steps(p)
<1>1. rbAt \in [Projectors -> AtType(rbSrc)] /\ rbAt[p] \in AtType(rbSrc)
  BY TypeNamed, Zenon
<1>2. CASE ClaimJob(p) \/ NextScope(p)
  BY <1>1, <1>2, AtFields, RestFields DEF ClaimJob, NextScope, Steps
<1>3. CASE ClaimRebuild(p)
  BY <1>1, <1>3, AtFields DEF ClaimRebuild, Steps
<1>4. CASE DeleteFamily(p)
  BY <1>1, <1>4, Zenon DEF DeleteFamily, Steps, AtType
<1>5. CASE ClearCursors(p)
  BY <1>1, <1>5, AtFields DEF ClearCursors, Steps
<1>6. CASE CountRows(p)
  BY <1>1, <1>6, AtFields, RestFields DEF CountRows, Steps
<1>7. CASE AdvanceRebuild(p) \/ RBError(p) \/ RBCrash(p)
  BY <1>1, <1>7, RestFields, Zenon DEF AdvanceRebuild, RBError, RBCrash, Steps
<1> QED BY <1>2, <1>3, <1>4, <1>5, <1>6, <1>7, Zenon

\* Every step keeps a place covered.
LEMMA CoveredStep ==
  ASSUME RBTypeOK, [RBNext]_rbVars, NEW f \in Family, NotDeleting(f),
         NEW n \in Nat, NEW s \in Scopes, Covered(n, s, f)
  PROVE  Covered(n, s, f)'
<1>0. rbFacts[f] \subseteq rbFacts'[f]
  BY FactsGrow, Zenon
<1>1. Filled(rbFacts'[f], n, 0)
  BY FilledNothing
<1>2. ASSUME NEW p \in Projectors, ClearCursors(p) PROVE Covered(n, s, f)'
  <2>1. Steps(p)
    BY <1>2, OtherStepsInHand, Zenon
  <2> QED BY <1>0, <1>1, <1>2, <2>1, ClearedPlaces, NotInHand, CoveredAfter DEF Steps
<1>3. ASSUME NEW p \in Projectors, RBCrash(p) PROVE Covered(n, s, f)'
  <2>1. Steps(p) /\ rbCursor' = rbCursor
    BY <1>3, OtherStepsInHand, Zenon DEF RBCrash
  <2>2. \A q \in Projectors : rbCache'[q][s][f] = rbCache[q][s][f] \/ rbCache'[q][s][f] = 0
    BY <1>3, TypeNamed, Zenon DEF RBCrash
  <2> QED BY <1>0, <1>1, <2>1, <2>2, NotInHand, CoveredAfter, Zenon DEF Steps
<1>4. ASSUME NEW p \in Projectors, \/ ClaimJob(p) \/ NextScope(p) \/ ClaimRebuild(p)
             \/ DeleteFamily(p) \/ CountRows(p) \/ AdvanceRebuild(p) \/ RBError(p)
      PROVE  Covered(n, s, f)'
  <2>1. Steps(p)
    BY <1>4, OtherStepsInHand, Zenon
  <2>2. rbCursor' = rbCursor /\ rbCache' = rbCache
    BY <1>4, Zenon DEF ClaimJob, NextScope, ClaimRebuild, DeleteFamily, CountRows, AdvanceRebuild, RBError
  <2> QED BY <1>0, <2>1, <2>2, NotInHand, CoveredAfter, Zenon DEF Steps
<1>5. ASSUME NEW p \in Projectors, Work(p) PROVE Covered(n, s, f)'
  BY <1>2, <1>4, <1>5, CoveredReadCursor, CoveredCopyBatch, CoveredSetCursor, Zenon DEF Work
<1>6. ASSUME UNCHANGED <<rbFacts, rbCursor, rbCache, rbAt>> PROVE Covered(n, s, f)'
  BY <1>6, CoveredAfter, Zenon
<1> QED BY <1>3, <1>4, <1>5, <1>6, Zenon DEF RBNext, WriteRow, CreateRun, DeadLeaseEnds, LeaseOutlived, RBPoll, rbVars

-----------------------------------------------------------------------------
\* The steps of a run

\* While no controller is about to reset, nobody resets.
LEMMA NobodyResets ==
  ASSUME RBTypeOK, Places, NoReset
  PROVE  /\ \A p \in Projectors : ~DeleteFamily(p) /\ ~ClearCursors(p) /\ ~CountRows(p)
         /\ \A f \in Family : NotDeleting(f)
<1>1. \A p \in Projectors : rbAt[p].pc \notin {"delete", "clear", "count"}
  BY Zenon DEF Places, NoReset, Stepping, Projectors
<1> QED BY <1>1, Zenon DEF DeleteFamily, ClearCursors, CountRows, NotDeleting

\* Then the run stays what it is for, unless there is a new one.
LEMMA RunKept ==
  ASSUME RBTypeOK, [RBNext]_rbVars, \A p \in Projectors : ~CountRows(p), \A s \in Scopes : ~CreateRun(s)
  PROVE  rbRun'.total = rbRun.total /\ rbRun'.scope = rbRun.scope
<1>0. rbRun \in RunType(rbSrc)
  BY TypeNamed, Zenon
<1>1. ASSUME NEW p \in Projectors, ClaimRebuild(p) \/ AdvanceRebuild(p) \/ RBError(p)
      PROVE  rbRun'.total = rbRun.total /\ rbRun'.scope = rbRun.scope
  <2>1. rbRun' = rbRun \/ \E st, b, o, l : rbRun' = RunRow(st, rbRun.scope, rbRun.total, b, o, l)
    BY <1>1, Zenon DEF ClaimRebuild, AdvanceRebuild, RBError
  <2> QED BY <2>1, RunFields
<1>2. ASSUME DeadLeaseEnds \/ LeaseOutlived
      PROVE  rbRun'.total = rbRun.total /\ rbRun'.scope = rbRun.scope
  BY <1>0, <1>2, Zenon DEF DeadLeaseEnds, LeaseOutlived, RunType
<1>3. ASSUME UNCHANGED rbRun PROVE rbRun'.total = rbRun.total /\ rbRun'.scope = rbRun.scope
  BY <1>3, Zenon
<1>4. ASSUME NEW p \in Projectors, Work(p) PROVE rbRun'.total = rbRun.total /\ rbRun'.scope = rbRun.scope
  BY <1>1, <1>3, <1>4, Zenon DEF Work, ClaimJob, NextScope, ReadCursor, CopyBatch, SetCursor, DeleteFamily, ClearCursors
<1> QED BY <1>1, <1>2, <1>3, <1>4, Zenon DEF RBNext, WriteRow, RBCrash, RBPoll, rbVars

\* What is complete stays so.
LEMMA CompleteStep ==
  ASSUME RBTypeOK, [RBNext]_rbVars, NEW g \in Family, NotDeleting(g), rbRun'.total = rbRun.total, Complete(g)
  PROVE  Complete(g)'
  BY FactsGrow, FilledMore, Zenon DEF Complete

\* A Projector's step leaves the others where they are.
LEMMA OthersStay ==
  ASSUME RBTypeOK, NEW q \in Projectors, Work(q) \/ RBError(q) \/ RBCrash(q), NEW p \in Projectors \ {q}
  PROVE  rbAt'[p] = rbAt[p] /\ rbStepMap'[p] = rbStepMap[p]
<1>1. rbAt \in [Projectors -> AtType(rbSrc)] /\ rbStepMap \in [Projectors -> [Scopes -> Family]]
  BY TypeNamed, Zenon
<1>2. ASSUME NEW done, AfterBatch(q, done) PROVE rbAt'[p] = rbAt[p] /\ rbStepMap'[p] = rbStepMap[p]
  BY <1>1, <1>2, Zenon DEF AfterBatch
<1>3. CASE ClaimJob(q) \/ NextScope(q) \/ ReadCursor(q)
  BY <1>1, <1>3, Zenon DEF ClaimJob, NextScope, ReadCursor
<1>4. CASE CopyBatch(q)
  BY <1>1, <1>2, <1>4, Zenon DEF CopyBatch
<1>5. CASE SetCursor(q)
  BY <1>2, <1>5, Zenon DEF SetCursor
<1>6. CASE ClaimRebuild(q) \/ DeleteFamily(q) \/ CountRows(q) \/ AdvanceRebuild(q) \/ RBError(q)
  BY <1>1, <1>6, Zenon DEF ClaimRebuild, DeleteFamily, CountRows, AdvanceRebuild, RBError
<1>7. CASE ClearCursors(q)
  BY <1>1, <1>7, Zenon DEF ClearCursors
<1>8. CASE RBCrash(q)
  BY <1>1, <1>8, Zenon DEF RBCrash
<1> QED BY <1>3, <1>4, <1>5, <1>6, <1>7, <1>8, Zenon DEF Work

\* The family that a controller is done with after a batch, and those before it, are
\* what it takes for done.
LEMMA PassedAfterBatch ==
  ASSUME RBTypeOK, NEW p \in Controllers, NEW done \in BOOLEAN, AfterBatch(p, done),
         rbAt[p].scope = rbRun.scope, rbAt[p].pc \in {"copy", "cursor"}, rbRun'.scope = rbRun.scope,
         NEW g \in Family, Passed(p, g)'
  PROVE  Passed(p, g) \/ (done /\ g = rbAt[p].fam)
<1> DEFINE s == rbAt[p].scope
           f == rbAt[p].fam
           fwd == IF ~done THEN f ELSE IF f = Families THEN 1 ELSE f + 1
           to == IF done /\ f # Families THEN At("read", s, fwd, rbAt[p].from, rbAt[p].upto)
                 ELSE At(IF done THEN "finished" ELSE "stepped", s, f, rbAt[p].from, rbAt[p].upto)
<1>1. f \in 1..Families /\ g \in 1..Families /\ Families \in Nat /\ s \in Scopes /\ p \in Projectors
  BY FieldsTyped, ProjectorsAssumption, Zenon DEF Family, Projectors
<1>2. rbStepMap'[p][s] = fwd /\ rbAt'[p] = to
  <2>1. rbStepMap' = [rbStepMap EXCEPT ![p][s] = fwd] /\ rbAt' = [rbAt EXCEPT ![p] = to]
    BY Zenon DEF AfterBatch
  <2> HIDE DEF fwd, to, s
  <2> QED BY <1>1, <2>1, TypeNamed, Zenon
<1>3. /\ to.fam = IF done /\ f # Families THEN fwd ELSE f
      /\ to.pc = IF done THEN IF f # Families THEN "read" ELSE "finished" ELSE "stepped"
  BY AtFields
<1>4. g < fwd \/ (to.pc = "read" /\ g < to.fam) \/ to.pc = "finished"
  BY <1>2, <1>3, Zenon DEF Passed
<1>5. g < f \/ (done /\ g = f)
  BY <1>1, <1>3, <1>4
<1> QED BY <1>5, Zenon DEF Passed

\* A controller that steps, claims, gives the run back or fails keeps to what is complete.
LEMMA OnCourseActs ==
  ASSUME RBTypeOK, Places, RunOnCourse, [RBNext]_rbVars, NEW p \in Controllers,
         \/ ReadCursor(p) \/ CopyBatch(p) \/ SetCursor(p) \/ (ClaimRebuild(p) /\ ~NothingDone)
         \/ AdvanceRebuild(p) \/ RBError(p) \/ RBCrash(p),
         rbRun'.total = rbRun.total, rbRun'.scope = rbRun.scope
  PROVE  OnCourse(p)'
<1>0. p \in Projectors /\ OnCourse(p) /\ rbRun.total \in Nat /\ rbSrc \in Nat /\ rbRun.total <= rbSrc
  BY FieldsTyped DEF Projectors, RunOnCourse
<1>a. rbAt[p].fam \in Family /\ rbAt[p].scope \in Scopes /\ rbAt[p].from \in Nat /\ rbAt[p].upto \in Nat
  BY <1>0, FieldsTyped
<1>b. \A g \in Family : NotDeleting(g)
  <2>1. NoReset
    BY Zenon DEF RunOnCourse, OnCourse, NoReset
  <2> QED BY <2>1, NobodyResets, Zenon
<1>c. \A g \in Family : Complete(g) => Complete(g)'
  BY <1>b, CompleteStep, Zenon
<1>d. rbAt \in [Projectors -> AtType(rbSrc)] /\ rbStepMap \in [Projectors -> [Scopes -> Family]]
  BY TypeNamed, Zenon
<1>e. SUFFICES ASSUME TRUE
               PROVE  /\ rbAt'[p].pc = "idle" \/ (rbAt'[p].pc \in Stepping /\ rbAt'[p].scope = rbRun'.scope)
                      /\ \A g \in Family : Passed(p, g)' => Passed(p, g) \/ Complete(g)'
  BY <1>0, <1>c, Zenon DEF OnCourse
<1>1. CASE ReadCursor(p)
  <2>1. PICK c : rbAt'[p] = At("copy", rbAt[p].scope, rbAt[p].fam, c, rbAt[p].upto)
    BY <1>0, <1>1, <1>d, Zenon DEF ReadCursor
  <2>2. rbAt'[p].pc = "copy" /\ rbAt'[p].fam = rbAt[p].fam /\ rbAt'[p].scope = rbAt[p].scope
    BY <2>1 DEF At
  <2>3. rbStepMap' = rbStepMap /\ rbAt[p].pc = "read"
    BY <1>1, Zenon DEF ReadCursor
  <2>4. rbAt'[p].pc = "idle" \/ (rbAt'[p].pc \in Stepping /\ rbAt'[p].scope = rbRun'.scope)
    BY <1>0, <2>2, <2>3, Zenon DEF OnCourse, Stepping
  <2>5. \A g \in Family : Passed(p, g)' => Passed(p, g)
    BY <1>0, <2>2, <2>3, Zenon DEF Passed
  <2> QED BY <2>4, <2>5, Zenon
<1>2. CASE CopyBatch(p)
  <2>0. PICK f \in Family : f = rbAt[p].fam
    BY <1>a, Zenon
  <2>1. rbAt[p].pc = "copy" /\ rbAt[p].scope = rbRun.scope
    BY <1>0, <1>2, Zenon DEF CopyBatch, OnCourse
  <2>2. Filled(rbFacts[rbAt[p].fam], 0, rbAt[p].from)
    BY <1>0, <1>a, <2>1, Zenon DEF RunOnCourse, Covered, InHand, HandFilled
  <2>3. CASE BatchEnd(p) <= rbAt[p].from
    <3>1. AfterBatch(p, TRUE)
      BY <1>2, <2>3, Zenon DEF CopyBatch
    <3>2. rbRun.total <= rbAt[p].from
      BY <1>0, <1>a, <2>3, BatchEndTyped, ProjectorsAssumption
    <3>3. Complete(f)'
      <4>1. Filled(rbFacts[f], 0, rbRun.total)
        BY <1>0, <1>a, <2>0, <2>2, <3>2, FilledLess, Zenon
      <4> QED BY <1>c, <4>1, Zenon DEF Complete
    <3>4. rbAt'[p].scope = rbAt[p].scope /\ rbAt'[p].pc \in Stepping
      BY <1>0, <1>d, <3>1, AtFields DEF AfterBatch, Stepping
    <3> QED BY <2>0, <2>1, <3>1, <3>3, <3>4, PassedAfterBatch, Zenon
  <2>4. CASE ~(BatchEnd(p) <= rbAt[p].from)
    <3>1. /\ rbAt'[p].pc = "cursor" /\ rbAt'[p].scope = rbAt[p].scope /\ rbAt'[p].fam = rbAt[p].fam
          /\ rbAt'[p].from = rbAt[p].from /\ rbAt'[p].upto = BatchEnd(p) /\ rbStepMap' = rbStepMap
      BY <1>0, <1>2, <1>d, <2>4, AtFields DEF CopyBatch
    <3>2. ASSUME BatchEnd(p) - rbAt[p].from < Batch PROVE Complete(f)'
      <4>1. BatchEnd(p) = rbSrc
        BY <1>0, <1>a, <3>2, BatchEndTyped, ProjectorsAssumption
      <4>2. rbFacts[f] \subseteq rbFacts'[f]
        BY <1>b, FactsGrow, Zenon
      <4>3. (rbAt[p].from + 1)..BatchEnd(p) \subseteq rbFacts'[f]
        BY <1>2, <2>0, TypeNamed, Zenon DEF CopyBatch
      <4>4. Filled(rbFacts'[f], 0, rbSrc)
        BY <1>0, <1>a, <2>0, <2>2, <4>1, <4>2, <4>3, FilledOn
      <4> QED BY <1>0, <4>4, FilledLess, Zenon DEF Complete
    <3> QED BY <2>0, <2>1, <3>1, <3>2, Zenon DEF Passed, Stepping
  <2> QED BY <2>3, <2>4, Zenon
<1>3. CASE SetCursor(p)
  <2>1. rbAt[p].pc = "cursor" /\ rbAt[p].scope = rbRun.scope
    BY <1>0, <1>3, Zenon DEF SetCursor, OnCourse
  <2>2. AfterBatch(p, rbAt[p].upto - rbAt[p].from < Batch)
    BY <1>3, Zenon DEF SetCursor
  <2>3. (rbAt[p].upto - rbAt[p].from < Batch) \in BOOLEAN
    BY <1>a, ProjectorsAssumption
  <2>4. rbAt'[p].scope = rbAt[p].scope /\ rbAt'[p].pc \in Stepping
    BY <1>0, <1>d, <2>2, AtFields DEF AfterBatch, Stepping
  <2>5. ASSUME NEW g \in Family, Passed(p, g)' PROVE Passed(p, g)
    <3>1. Passed(p, g) \/ ((rbAt[p].upto - rbAt[p].from < Batch) /\ g = rbAt[p].fam)
      BY <2>1, <2>2, <2>3, <2>5, PassedAfterBatch, Zenon
    <3> QED BY <2>1, <3>1, Zenon DEF Passed
  <2> QED BY <2>1, <2>4, <2>5, Zenon
<1>4. CASE ClaimRebuild(p) /\ ~NothingDone
  <2>1. /\ rbAt'[p].pc = "read" /\ rbAt'[p].fam = rbStepMap[p][rbRun.scope] /\ rbAt'[p].scope = rbRun.scope
        /\ rbStepMap' = rbStepMap
    BY <1>0, <1>4, <1>d, AtFields DEF ClaimRebuild
  <2> QED BY <2>1, Zenon DEF Passed, Stepping
<1>5. CASE AdvanceRebuild(p) \/ RBError(p)
  <2>1. rbAt'[p].pc = "idle" /\ rbStepMap' = rbStepMap
    BY <1>0, <1>5, <1>d, RestFields, Zenon DEF AdvanceRebuild, RBError
  <2> QED BY <2>1, Zenon DEF Passed
<1>6. CASE RBCrash(p)
  <2>1. rbAt'[p].pc = "idle" /\ rbStepMap'[p] = [s \in Scopes |-> 1]
    BY <1>0, <1>6, <1>d, RestFields, Zenon DEF RBCrash
  <2>2. rbStepMap'[p][rbRun'.scope] = 1
    BY <2>1, FieldsTyped, Zenon
  <2> QED BY <2>1, <2>2 DEF Passed, Family
<1> QED BY <1>1, <1>2, <1>3, <1>4, <1>5, <1>6, Zenon

\* A step that leaves a controller where it is.
LEMMA OnCourseStays ==
  ASSUME RBTypeOK, Places, RunOnCourse, [RBNext]_rbVars, NEW p \in Controllers,
         rbAt'[p] = rbAt[p], rbStepMap'[p] = rbStepMap[p],
         rbRun'.total = rbRun.total, rbRun'.scope = rbRun.scope
  PROVE  OnCourse(p)'
<1>1. NoReset /\ OnCourse(p)
  BY Zenon DEF RunOnCourse, OnCourse, NoReset
<1>2. \A g \in Family : Complete(g) => Complete(g)'
  BY <1>1, NobodyResets, CompleteStep, Zenon
<1>3. \A g \in Family : Passed(p, g)' => Passed(p, g)
  BY Zenon DEF Passed
<1> QED BY <1>1, <1>2, <1>3, Zenon DEF OnCourse

\* A claim of a run on its way finds something done.
LEMMA ClaimFindsWork ==
  ASSUME RBTypeOK, Rebuilding, NEW p \in Projectors, ClaimRebuild(p) PROVE ~NothingDone
  BY FieldsTyped, Zenon DEF Rebuilding, ClaimRebuild, RebuildRunnable, HoldsRun

\* Every step keeps a run on its way, until a new one is created.
LEMMA RunOnCourseStep ==
  ASSUME RBTypeOK, Places, Rebuilding, RunOnCourse, [RBNext]_rbVars
  PROVE  RunOnCourse' /\ rbRun'.total = rbRun.total /\ rbRun'.scope = rbRun.scope
<1>0. NoReset
  BY Zenon DEF RunOnCourse, OnCourse, NoReset
<1>1. \A s \in Scopes : ~CreateRun(s)
  BY Zenon DEF Rebuilding, CreateRun, HoldsRun
<1>2. rbRun'.total = rbRun.total /\ rbRun'.scope = rbRun.scope
  BY <1>0, <1>1, NobodyResets, RunKept, Zenon
<1>3. rbRun.total \in Nat /\ rbRun.scope \in Scopes
  BY FieldsTyped
<1>4. ASSUME NEW s \in Scopes, NEW f \in Family PROVE Covered(rbRun.total, s, f)'
  <2>1. PICK n \in Nat : n = rbRun.total
    BY <1>3, Zenon
  <2>2. Covered(n, s, f)'
    <3>1. Covered(n, s, f)
      BY <2>1, Zenon DEF RunOnCourse, AllCovered, Covered
    <3> QED BY <1>0, <3>1, NobodyResets, CoveredStep, Zenon
  <2>3. n = rbRun'.total
    BY <1>2, <2>1, Zenon
  <2> QED BY <2>2, <2>3, Zenon DEF Covered
<1>5. ASSUME NEW f \in Family PROVE Covered(0, rbRun.scope, f)'
  <2>1. PICK s \in Scopes : s = rbRun.scope
    BY <1>3, Zenon
  <2>2. Covered(0, s, f)'
    <3>1. Covered(0, s, f)
      BY <2>1, Zenon DEF RunOnCourse, Covered
    <3> QED BY <1>0, <3>1, NobodyResets, CoveredStep, Zenon
  <2>3. s = rbRun'.scope
    BY <1>2, <2>1, Zenon
  <2> QED BY <2>2, <2>3, Zenon DEF Covered
<1>6. ASSUME NEW p \in Controllers PROVE OnCourse(p)'
  <2>0. p \in Projectors /\ p \notin Appliers
    BY ProjectorsAssumption, Zenon DEF Projectors
  <2>1. ASSUME NEW q \in Projectors, Work(q) \/ RBError(q) \/ RBCrash(q) PROVE OnCourse(p)'
    <3>1. CASE q # p
      BY <1>2, <2>0, <2>1, <3>1, OthersStay, OnCourseStays, Zenon
    <3>2. CASE q = p
      <4>1. \/ ReadCursor(p) \/ CopyBatch(p) \/ SetCursor(p) \/ (ClaimRebuild(p) /\ ~NothingDone)
            \/ AdvanceRebuild(p) \/ RBError(p) \/ RBCrash(p)
        BY <1>0, <2>0, <2>1, <3>2, NobodyResets, ClaimFindsWork, Zenon DEF Work, ClaimJob, NextScope
      <4> QED BY <1>2, <4>1, OnCourseActs, Zenon
    <3> QED BY <3>1, <3>2, Zenon
  <2>2. CASE UNCHANGED <<rbAt, rbStepMap>>
    BY <1>2, <2>2, OnCourseStays, Zenon
  <2> QED BY <1>1, <2>1, <2>2, Zenon DEF RBNext, WriteRow, DeadLeaseEnds, LeaseOutlived, RBPoll, rbVars
<1> QED BY <1>2, <1>4, <1>5, <1>6, Zenon DEF RunOnCourse, AllCovered

-----------------------------------------------------------------------------
\* Who holds the run

\* A holder is its last claimer; the scope of the run and the fact that it was crossed stay.
LEMMA HeldBefore ==
  ASSUME RBTypeOK, [RBNext]_rbVars, NEW p \in Controllers, HoldsRun(p)'
  PROVE  /\ HoldsRun(p) \/ ClaimRebuild(p)
         /\ rbRun'.scope = rbRun.scope /\ (rbCrossed => rbCrossed')
<1> DEFINE Goal == /\ HoldsRun(p) \/ ClaimRebuild(p)
                   /\ rbRun'.scope = rbRun.scope /\ (rbCrossed => rbCrossed')
<1>0. rbRun \in RunType(rbSrc)
  BY TypeNamed, Zenon
<1>1. ASSUME NEW q \in Projectors, ClaimRebuild(q) PROVE Goal
  <2>1. rbRun'.owner = q /\ rbRun'.scope = rbRun.scope
    BY <1>1, Zenon DEF ClaimRebuild, RunRow
  <2> QED BY <1>1, <2>1, Zenon DEF HoldsRun, ClaimRebuild
<1>2. ASSUME NEW q \in Projectors, AdvanceRebuild(q) \/ RBError(q) PROVE Goal
  <2>1. ~HoldsRun(q)
    <3>1. ASSUME HoldsRun(q)
          PROVE  \E st, s, t, b, o : rbRun' = RunRow(st, s, t, b, o, FALSE)
      BY <1>2, <3>1, Zenon DEF AdvanceRebuild, RBError
    <3>2. ASSUME HoldsRun(q) PROVE rbRun'.leased = FALSE
      BY <3>1, <3>2 DEF RunRow
    <3> QED BY <3>2, Zenon DEF HoldsRun
  <2>2. UNCHANGED <<rbRun, rbCrossed>>
    BY <1>2, <2>1, Zenon DEF AdvanceRebuild, RBError
  <2> QED BY <2>2, Zenon DEF HoldsRun
<1>3. ASSUME NEW q \in Projectors, CountRows(q) PROVE Goal
  BY <1>0, <1>3, Zenon DEF CountRows, HoldsRun, RunType
<1>4. ASSUME DeadLeaseEnds \/ LeaseOutlived PROVE Goal
  BY <1>0, <1>4, Zenon DEF DeadLeaseEnds, LeaseOutlived, HoldsRun, RunType
<1>5. ASSUME NEW s \in Scopes, CreateRun(s) PROVE Goal
  <2>1. rbRun'.status = "pending"
    BY <1>5, Zenon DEF CreateRun, RunRow
  <2> QED BY <2>1, Zenon DEF HoldsRun
<1>6. ASSUME UNCHANGED rbRun, rbCrossed => rbCrossed' PROVE Goal
  BY <1>6, Zenon DEF HoldsRun
<1> HIDE DEF Goal
<1>7. ASSUME NEW q \in Projectors, Work(q) PROVE Goal
  BY <1>1, <1>2, <1>3, <1>6, <1>7, Zenon
     DEF Work, ClaimJob, NextScope, ReadCursor, CopyBatch, SetCursor, DeleteFamily, ClearCursors
<1>8. Goal
  BY <1>2, <1>4, <1>5, <1>6, <1>7 DEF RBNext, WriteRow, RBCrash, RBPoll, rbVars
<1> QED BY <1>8, Zenon DEF Goal

\* A Projector that goes on stays in its scope, and among the steps.
LEMMA StepsOn ==
  ASSUME RBTypeOK, NEW p \in Projectors, ReadCursor(p) \/ CopyBatch(p) \/ SetCursor(p)
  PROVE  /\ rbAt[p].pc \in Stepping /\ rbAt'[p].pc \in Stepping /\ rbAt'[p].scope = rbAt[p].scope
<1>0. rbAt \in [Projectors -> AtType(rbSrc)]
  BY TypeNamed, Zenon
<1>1. ASSUME NEW done, AfterBatch(p, done)
      PROVE  rbAt'[p].pc \in Stepping /\ rbAt'[p].scope = rbAt[p].scope
  BY <1>0, <1>1, AtFields DEF AfterBatch, Stepping
<1>2. CASE ReadCursor(p)
  <2>1. \E c : rbAt'[p] = At("copy", rbAt[p].scope, rbAt[p].fam, c, rbAt[p].upto)
    BY <1>0, <1>2, Zenon DEF ReadCursor
  <2>2. rbAt[p].pc = "read"
    BY <1>2, Zenon DEF ReadCursor
  <2> QED BY <2>1, <2>2, AtFields DEF Stepping
<1>3. CASE CopyBatch(p)
  <2>1. \/ AfterBatch(p, TRUE)
        \/ rbAt'[p] = At("cursor", rbAt[p].scope, rbAt[p].fam, rbAt[p].from, BatchEnd(p))
    BY <1>0, <1>3, Zenon DEF CopyBatch
  <2>2. rbAt[p].pc = "copy"
    BY <1>3, Zenon DEF CopyBatch
  <2>3. CASE AfterBatch(p, TRUE)
    BY <1>1, <2>2, <2>3, Zenon DEF Stepping
  <2>4. CASE rbAt'[p] = At("cursor", rbAt[p].scope, rbAt[p].fam, rbAt[p].from, BatchEnd(p))
    BY <2>2, <2>4, AtFields DEF Stepping
  <2> QED BY <2>1, <2>3, <2>4, Zenon
<1>4. CASE SetCursor(p)
  BY <1>1, <1>4, Zenon DEF SetCursor, Stepping
<1> QED BY <1>2, <1>3, <1>4, Zenon

\* The reset as well.
LEMMA ResetsOn ==
  ASSUME RBTypeOK, NEW p \in Projectors, DeleteFamily(p) \/ ClearCursors(p) \/ CountRows(p)
  PROVE  /\ rbAt[p].pc \in {"delete", "clear", "count"}
         /\ rbAt'[p].pc # "idle" => rbAt'[p].scope = rbAt[p].scope
         /\ rbAt'[p].pc \in Stepping => CountRows(p) /\ HoldsRun(p)
<1>0. rbAt \in [Projectors -> AtType(rbSrc)] /\ rbAt[p] \in AtType(rbSrc)
  BY TypeNamed, Zenon
<1>1. CASE DeleteFamily(p)
  BY <1>0, <1>1, Zenon DEF DeleteFamily, AtType, Stepping
<1>2. CASE ClearCursors(p)
  BY <1>0, <1>2, AtFields DEF ClearCursors, Stepping
<1>3. CASE CountRows(p)
  BY <1>0, <1>3, AtFields, RestFields DEF CountRows, Stepping
<1> QED BY <1>1, <1>2, <1>3, Zenon

\* What ends at rest.
LEMMA GivesUp ==
  ASSUME RBTypeOK, NEW p \in Projectors, AdvanceRebuild(p) \/ RBError(p) \/ RBCrash(p)
  PROVE  rbAt'[p].pc = "idle"
  BY TypeNamed, RestFields, Zenon DEF AdvanceRebuild, RBError, RBCrash

\* A claim.
LEMMA ClaimsAt ==
  ASSUME RBTypeOK, NEW p \in Projectors, ClaimRebuild(p)
  PROVE  /\ rbAt[p].pc = "idle" /\ rbAt'[p].scope = rbRun.scope
         /\ IF NothingDone THEN rbAt'[p].pc = "delete" /\ rbAt'[p].fam = 1 ELSE rbAt'[p].pc = "read"
  BY TypeNamed, AtFields DEF ClaimRebuild

\* Projection workers never reset, and the holder is in the scope of its run.
LEMMA PlacesStep == RBTypeOK /\ Places /\ [RBNext]_rbVars => Places'
<1> SUFFICES ASSUME RBTypeOK, Places, [RBNext]_rbVars PROVE Places'
  OBVIOUS
<1>1. ASSUME NEW p \in Appliers PROVE rbAt'[p].pc \in Stepping \cup {"idle"}
  <2>0. p \in Projectors /\ p \notin Controllers /\ rbAt[p].pc \in Stepping \cup {"idle"}
    BY ProjectorsAssumption, Zenon DEF Projectors, Places
  <2>1. ASSUME NEW q \in Projectors, Work(q) \/ RBError(q) \/ RBCrash(q)
        PROVE  rbAt'[p].pc \in Stepping \cup {"idle"}
    <3>1. CASE q # p
      BY <2>0, <2>1, <3>1, OthersStay, Zenon
    <3>2. CASE q = p
      <4>1. ASSUME ClaimJob(p) \/ NextScope(p) PROVE rbAt'[p].pc \in {"read", "idle"}
        BY <2>0, <4>1, TypeNamed, AtFields, RestFields DEF ClaimJob, NextScope
      <4>2. ~(DeleteFamily(p) \/ ClearCursors(p) \/ CountRows(p))
        BY <2>0, ResetsOn, Zenon DEF Stepping
      <4> QED BY <2>0, <2>1, <3>2, <4>1, <4>2, StepsOn, GivesUp, Zenon
              DEF Work, ClaimRebuild, AdvanceRebuild, Stepping
    <3> QED BY <3>1, <3>2, Zenon
  <2> QED BY <2>0, <2>1, Zenon DEF RBNext, WriteRow, CreateRun, DeadLeaseEnds, LeaseOutlived, RBPoll, rbVars
<1>2. ASSUME NEW p \in Controllers, HoldsRun(p)', rbAt'[p].pc # "idle" PROVE rbAt'[p].scope = rbRun'.scope
  <2>0. p \in Projectors /\ p \notin Appliers
    BY ProjectorsAssumption, Zenon DEF Projectors
  <2>1. (HoldsRun(p) \/ ClaimRebuild(p)) /\ rbRun'.scope = rbRun.scope
    BY <1>2, HeldBefore, Zenon
  <2>2. CASE ClaimRebuild(p)
    BY <2>0, <2>1, <2>2, ClaimsAt, Zenon
  <2>3. CASE HoldsRun(p) /\ ~ClaimRebuild(p)
    <3>1. rbAt[p].pc # "idle" => rbAt[p].scope = rbRun.scope
      BY <2>3, Zenon DEF Places
    <3>2. ASSUME NEW q \in Projectors, Work(q) \/ RBError(q) \/ RBCrash(q)
          PROVE  rbAt'[p].scope = rbRun'.scope
      <4>1. CASE q # p
        BY <1>2, <2>0, <2>1, <3>1, <3>2, <4>1, OthersStay, Zenon
      <4>2. CASE q = p
        BY <1>2, <2>0, <2>1, <2>3, <3>1, <3>2, <4>2, StepsOn, ResetsOn, GivesUp, Zenon
           DEF Work, ClaimJob, NextScope, Stepping
      <4> QED BY <4>1, <4>2, Zenon
    <3>3. ASSUME UNCHANGED rbAt PROVE rbAt'[p].scope = rbRun'.scope
      BY <1>2, <2>1, <3>1, <3>3, Zenon
    <3> QED BY <3>2, <3>3, Zenon DEF RBNext, WriteRow, CreateRun, DeadLeaseEnds, LeaseOutlived, RBPoll, rbVars
  <2> QED BY <2>1, <2>2, <2>3, Zenon
<1> QED BY <1>1, <1>2, Zenon DEF Places

-----------------------------------------------------------------------------
\* The reset

\* The steps after which a controller is emptying the scope.
LEMMA EmptyingBefore ==
  ASSUME RBTypeOK, NEW p \in Controllers, Work(p) \/ RBError(p) \/ RBCrash(p), Emptying(p)'
  PROVE  DeleteFamily(p) \/ ClearCursors(p)
<1>0. p \in Projectors /\ p \notin Appliers
  BY ProjectorsAssumption, Zenon DEF Projectors
<1>1. ASSUME CountRows(p) PROVE rbAt'[p].pc \in {"read", "idle"}
  BY <1>0, <1>1, TypeNamed, AtFields, RestFields DEF CountRows
<1> QED BY <1>0, <1>1, StepsOn, GivesUp, ClaimsAt
        DEF Work, ClaimJob, NextScope, Emptying, Stepping

\* The rows of a family go, unless the reset crossed somebody.
LEMMA ResetDeletes ==
  ASSUME RBTypeOK, Places, [RBNext]_rbVars, NEW p \in Controllers, DeleteFamily(p), HoldsRun(p),
         ~rbCrossed', Emptying(p) => ResetOnCourse(p)
  PROVE  ResetOnCourse(p)'
<1>1. PICK s \in Scopes, f \in Family : s = rbRun.scope /\ f = rbAt[p].fam
  BY FieldsTyped, Zenon DEF Projectors
<1>2. /\ rbRun' = rbRun /\ rbStepMap' = rbStepMap /\ rbCache' = rbCache
      /\ rbAt[p].pc = "delete" /\ p \in Projectors
  BY Zenon DEF DeleteFamily, Projectors
<1>3. rbAt[p].scope = s /\ s \in Cleared(s)
  BY <1>1, <1>2, Zenon DEF Places, Cleared, Scopes
<1>4. ~Stale(p, s, f)
  BY <1>1, <1>3, Zenon DEF DeleteFamily
<1>5. rbAt'[p].pc = "clear" /\ rbAt'[p].fam = f /\ \A q \in Projectors \ {p} : rbAt'[q] = rbAt[q]
  BY <1>1, <1>2, TypeNamed, Zenon DEF DeleteFamily, AtType
<1>6. ASSUME NEW q \in Controllers \ {p} PROVE rbAt[q].pc = "idle" /\ rbStepMap[q][s] = 1
  <2>1. q \in Projectors \ {p}
    BY Zenon DEF Projectors
  <2>2. rbAt[q].pc = "idle" /\ ~(rbStepMap[q][s] > f)
    BY <1>3, <1>4, <2>1, Zenon DEF Stale
  <2>3. CASE f = 1
    <3>1. rbStepMap[q][s] \in 1..Families
      BY <2>1, TypeNamed DEF Family
    <3> QED BY <2>2, <2>3, <3>1, ProjectorsAssumption
  <2>4. CASE f # 1
    BY <1>1, <1>2, <2>2, <2>4, ProjectorsAssumption DEF Emptying, ResetOnCourse, ResetAlone, Family
  <2> QED BY <2>3, <2>4, Zenon
<1>7. ASSUME NEW q \in Projectors \ {p} PROVE rbCache[q][s][f] = 0 /\ ~InHand(rbAt[q], s, f)
  <2>1. ~(rbCache[q][s][f] > 0) /\ ~InHand(rbAt[q], s, f)
    BY <1>3, <1>4, Zenon DEF Stale, InHand
  <2>2. rbCache[q][s][f] \in 0..rbSrc
    BY TypeNamed
  <2> QED BY <2>1, <2>2
<1>8. ASSUME NEW g \in Family, g < f PROVE Covered(0, s, g)'
  <2>1. Covered(0, s, g)
    <3>1. Emptying(p)
      BY <1>1, <1>2, <1>8, ProjectorsAssumption DEF Emptying, Family
    <3> QED BY <1>1, <1>8, <3>1, Zenon DEF ResetOnCourse, ResetCovers, Covered
  <2>2. NotDeleting(g)
    <3>1. ASSUME NEW q \in Projectors, rbAt[q].pc = "delete" PROVE q = p
      BY <1>6, <3>1, Zenon DEF Projectors, Places, Stepping
    <3>2. g # f
      BY <1>8, ProjectorsAssumption DEF Family
    <3> QED BY <1>1, <3>1, <3>2, Zenon DEF NotDeleting
  <2> QED BY <2>1, <2>2, CoveredStep, Zenon
<1>9. ResetCovers(p)'
  BY <1>1, <1>2, <1>5, <1>8, Zenon DEF ResetCovers, Covered
<1>10. ResetAlone(p)' /\ ResetUnseen(p)'
  BY <1>1, <1>2, <1>5, <1>6, <1>7, Zenon DEF ResetAlone, ResetUnseen, Projectors
<1> QED BY <1>5, <1>9, <1>10, Zenon DEF ResetOnCourse

\* The cursors go: nobody has a place in the family, and no row is missing before it.
LEMMA ResetClears ==
  ASSUME RBTypeOK, Places, [RBNext]_rbVars, NEW p \in Controllers, ClearCursors(p), HoldsRun(p),
         ResetOnCourse(p)
  PROVE  ResetOnCourse(p)'
<1>1. PICK s \in Scopes, f \in Family : s = rbRun.scope /\ f = rbAt[p].fam
  BY FieldsTyped, Zenon DEF Projectors
<1>2. rbRun' = rbRun /\ rbFacts' = rbFacts /\ rbAt[p].pc = "clear" /\ p \in Projectors
  BY Zenon DEF ClearCursors, Projectors
<1>3. rbAt[p].scope = s /\ s \in Cleared(s)
  BY <1>1, <1>2, Zenon DEF Places, Cleared, Scopes
<1>4. \A q \in Projectors \ {p} : rbAt'[q] = rbAt[q] /\ rbStepMap'[q] = rbStepMap[q]
  BY <1>2, OthersStay, Zenon DEF Work
<1>5. rbAt'[p] = IF f = Families THEN At("count", s, 1, rbAt[p].from, rbAt[p].upto)
                 ELSE At("delete", s, f + 1, rbAt[p].from, rbAt[p].upto)
  BY <1>1, <1>2, <1>3, TypeNamed, Zenon DEF ClearCursors
<1>6. IF f = Families THEN rbAt'[p].pc = "count" ELSE rbAt'[p].pc = "delete" /\ rbAt'[p].fam = f + 1
  BY <1>5, AtFields
<1>7. f = Families => rbStepMap'[p][s] = 1
  BY <1>1, <1>2, <1>3, TypeNamed, Zenon DEF ClearCursors
<1>8. ASSUME NEW g \in Family, g < f PROVE Covered(0, s, g)'
  <2>1. Covered(0, s, g)
    BY <1>1, <1>8, Zenon DEF ResetOnCourse, ResetCovers, Covered
  <2>2. NotDeleting(g)
    BY <1>2, Zenon DEF NotDeleting, Projectors, Places, Stepping, ResetOnCourse, ResetAlone
  <2> QED BY <2>1, <2>2, CoveredStep, Zenon
<1>9. Covered(0, s, f)'
  <2>1. rbCursor'[s][f] = 0 /\ \A q \in Projectors : rbCache'[q][s][f] = 0
    BY <1>1, <1>2, <1>3, ClearedPlaces DEF ResetOnCourse, ResetUnseen
  <2>2. \A q \in Projectors : ~InHand(rbAt'[q], s, f)
    BY <1>1, <1>2, <1>4, <1>6, Zenon DEF ResetOnCourse, ResetUnseen, InHand
  <2>3. Filled(rbFacts'[f], 0, 0)
    BY FilledNothing
  <2> QED BY <2>1, <2>2, <2>3, Zenon DEF Covered
<1>10. ASSUME NEW g \in Family, rbAt'[p].pc = "count" \/ g < rbAt'[p].fam PROVE Covered(0, s, g)'
  <2>1. g < f \/ g = f
    BY <1>6, <1>10, ProjectorsAssumption DEF Family
  <2> QED BY <1>8, <1>9, <2>1, Zenon
<1>11. ResetCovers(p)'
  BY <1>1, <1>2, <1>10, Zenon DEF ResetCovers, Covered
<1>12. ResetAlone(p)' /\ ResetUnseen(p)'
  BY <1>1, <1>2, <1>4, <1>6, Zenon DEF ResetAlone, ResetUnseen, Projectors, ResetOnCourse
<1> QED BY <1>1, <1>2, <1>6, <1>7, <1>11, <1>12, Zenon DEF ResetOnCourse

\* Somebody else moves: another controller rests, a projection worker that reads the
\* cursor before it is cleared crosses the reset.
LEMMA ResetUndisturbed ==
  ASSUME RBTypeOK, Places, [RBNext]_rbVars, NEW p \in Controllers, HoldsRun(p), ResetOnCourse(p), Emptying(p),
         rbRun'.scope = rbRun.scope, ~rbCrossed', rbAt'[p] = rbAt[p], rbStepMap'[p] = rbStepMap[p],
         \/ \E q \in Projectors \ {p} : (Work(q) /\ ~ClaimRebuild(q)) \/ RBError(q) \/ RBCrash(q)
         \/ UNCHANGED <<rbCache, rbAt, rbStepMap>>
  PROVE  ResetOnCourse(p)'
<1>1. PICK s \in Scopes, f \in Family : s = rbRun.scope /\ f = rbAt[p].fam
  BY FieldsTyped, Zenon DEF Projectors
<1>2. p \in Projectors /\ rbAt[p].scope = s /\ s \in Cleared(s)
  BY <1>1, Zenon DEF Places, Cleared, Scopes, Projectors, Emptying
<1>3. \A q \in Controllers \ {p} : rbAt[q].pc = "idle" /\ rbStepMap[q][s] = 1
  BY <1>1, Zenon DEF ResetOnCourse, ResetAlone
<1>4. ASSUME NEW q \in Controllers \ {p} PROVE rbAt'[q].pc = "idle" /\ rbStepMap'[q][s] = 1
  <2>0. q \in Projectors /\ q \notin Appliers
    BY ProjectorsAssumption, Zenon DEF Projectors
  <2>1. ASSUME NEW r \in Projectors, (Work(r) /\ ~ClaimRebuild(r)) \/ RBError(r) \/ RBCrash(r)
        PROVE  rbAt'[q].pc = "idle" /\ rbStepMap'[q][s] = 1
    <3>1. CASE r # q
      BY <1>3, <2>0, <2>1, <3>1, OthersStay
    <3>2. CASE r = q
      <4>1. RBCrash(q)
        BY <1>3, <2>0, <2>1, <3>2, Zenon DEF Work, ClaimJob, NextScope, ReadCursor, CopyBatch, SetCursor,
           DeleteFamily, ClearCursors, CountRows, AdvanceRebuild, RBError
      <4> QED BY <2>0, <4>1, GivesUp, TypeNamed, Zenon DEF RBCrash
    <3> QED BY <3>1, <3>2, Zenon
  <2> QED BY <1>3, <2>1, Zenon
<1>5. ASSUME NEW g \in Family, rbAt[p].pc = "count" \/ g < f PROVE Covered(0, s, g)'
  <2>1. Covered(0, s, g)
    BY <1>1, <1>5, Zenon DEF ResetOnCourse, ResetCovers, Covered
  <2>2. NotDeleting(g)
    <3>1. ASSUME NEW q \in Projectors, rbAt[q].pc = "delete" PROVE q = p
      BY <1>3, <3>1, Zenon DEF Projectors, Places, Stepping
    <3>2. rbAt[p].pc = "delete" => g # f
      BY <1>5, ProjectorsAssumption DEF Family
    <3> QED BY <1>1, <3>1, <3>2, Zenon DEF NotDeleting
  <2> QED BY <2>1, <2>2, CoveredStep, Zenon
<1>6. ASSUME rbAt[p].pc = "clear", NEW q \in Projectors \ {p}
      PROVE  rbCache'[q][s][f] = 0 /\ ~InHand(rbAt'[q], s, f)
  <2>1. rbCache[q][s][f] = 0 /\ ~InHand(rbAt[q], s, f)
    BY <1>1, <1>6, Zenon DEF ResetOnCourse, ResetUnseen
  <2>2. /\ rbCache \in [Projectors -> [Scopes -> [Family -> 0..rbSrc]]]
        /\ rbAt \in [Projectors -> AtType(rbSrc)] /\ rbAt[q].scope \in Scopes /\ rbAt[q].fam \in Family
    BY FieldsTyped, TypeNamed, Zenon
  <2>3. ASSUME NEW r \in Projectors \ {p}, ReadCursor(r) PROVE rbCache'[q][s][f] = 0 /\ ~InHand(rbAt'[q], s, f)
    <3>1. ~(rbAt[r].scope = s /\ rbAt[r].fam = f)
      <4>1. ~Resetting(r, rbAt[r].scope, rbAt[r].fam)
        BY <2>3, Zenon DEF ReadCursor
      <4> QED BY <1>1, <1>2, <1>6, <4>1, Zenon DEF Resetting
    <3>2. CASE r = q
      <4>1. \E c : /\ rbCache' = [rbCache EXCEPT ![q][rbAt[q].scope][rbAt[q].fam] = c]
                   /\ rbAt'[q] = At("copy", rbAt[q].scope, rbAt[q].fam, c, rbAt[q].upto)
        BY <2>2, <2>3, <3>2, Zenon DEF ReadCursor
      <4>2. rbCache'[q][s][f] = 0
        BY <2>1, <2>2, <3>1, <3>2, <4>1
      <4>3. ~InHand(rbAt'[q], s, f)
        BY <3>1, <3>2, <4>1, AtFields DEF InHand
      <4> QED BY <4>2, <4>3, Zenon
    <3>3. CASE r # q
      <4>1. rbAt'[q] = rbAt[q]
        BY <2>3, <3>3, OthersStay, Zenon DEF Work
      <4>2. rbCache'[q] = rbCache[q]
        BY <2>2, <2>3, <3>3, Zenon DEF ReadCursor
      <4> QED BY <2>1, <4>1, <4>2, Zenon
    <3> QED BY <3>2, <3>3, Zenon
  <2>4. ASSUME NEW r \in Projectors \ {p}, CopyBatch(r) PROVE rbCache'[q][s][f] = 0 /\ ~InHand(rbAt'[q], s, f)
    <3>1. rbCache' = rbCache
      BY <2>4, Zenon DEF CopyBatch
    <3>2. CASE r = q
      <4>1. ~(rbAt[q].scope = s /\ rbAt[q].fam = f)
        BY <2>1, <2>4, <3>2, Zenon DEF CopyBatch, InHand
      <4>2. \/ AfterBatch(q, TRUE)
            \/ rbAt'[q] = At("cursor", rbAt[q].scope, rbAt[q].fam, rbAt[q].from, BatchEnd(q))
        BY <2>2, <2>4, <3>2, Zenon DEF CopyBatch
      <4>3. CASE AfterBatch(q, TRUE)
        BY <2>1, <3>1, <4>3, AfterBatchNoHand, NotInHand, Zenon
      <4>4. CASE rbAt'[q] = At("cursor", rbAt[q].scope, rbAt[q].fam, rbAt[q].from, BatchEnd(q))
        BY <2>1, <3>1, <4>1, <4>4, AtFields DEF InHand
      <4> QED BY <4>2, <4>3, <4>4, Zenon
    <3>3. CASE r # q
      BY <2>1, <2>4, <3>1, <3>3, OthersStay, Zenon DEF Work
    <3> QED BY <3>2, <3>3, Zenon
  <2>5. ASSUME NEW r \in Projectors \ {p}, SetCursor(r) PROVE rbCache'[q][s][f] = 0 /\ ~InHand(rbAt'[q], s, f)
    <3>1. CASE r = q
      <4>1. ~(rbAt[q].scope = s /\ rbAt[q].fam = f)
        BY <2>1, <2>5, <3>1, Zenon DEF SetCursor, InHand
      <4>2. rbCache' = [rbCache EXCEPT ![q][rbAt[q].scope][rbAt[q].fam] = rbAt[q].upto]
        BY <2>5, <3>1, Zenon DEF SetCursor
      <4>3. rbCache'[q][s][f] = 0
        BY <2>1, <2>2, <4>1, <4>2
      <4> QED BY <2>5, <3>1, <4>3, AfterBatchNoHand, NotInHand, Zenon DEF SetCursor
    <3>2. CASE r # q
      <4>1. rbAt'[q] = rbAt[q]
        BY <2>5, <3>2, OthersStay, Zenon DEF Work
      <4>2. rbCache'[q] = rbCache[q]
        BY <2>2, <2>5, <3>2, Zenon DEF SetCursor
      <4> QED BY <2>1, <4>1, <4>2, Zenon
    <3> QED BY <3>1, <3>2, Zenon
  <2>6. ASSUME NEW r \in Projectors \ {p}, RBCrash(r) PROVE rbCache'[q][s][f] = 0 /\ ~InHand(rbAt'[q], s, f)
    <3>1. Steps(r)
      BY <2>6, OtherStepsInHand, Zenon
    <3>2. rbCache'[q][s][f] = 0
      BY <2>1, <2>2, <2>6, Zenon DEF RBCrash
    <3> QED BY <2>1, <3>1, <3>2, NotInHand, Zenon DEF Steps
  <2>7. ASSUME NEW r \in Projectors \ {p}, ClaimJob(r) \/ NextScope(r) \/ RBError(r)
        PROVE  rbCache'[q][s][f] = 0 /\ ~InHand(rbAt'[q], s, f)
    <3>1. Steps(r)
      BY <2>7, OtherStepsInHand, Zenon
    <3>2. rbCache' = rbCache
      BY <2>7, Zenon DEF ClaimJob, NextScope, RBError
    <3> QED BY <2>1, <3>1, <3>2, NotInHand, Zenon DEF Steps
  <2>8. ASSUME NEW r \in Projectors \ {p}, Work(r), ~ClaimRebuild(r)
        PROVE  rbCache'[q][s][f] = 0 /\ ~InHand(rbAt'[q], s, f)
    <3>1. rbAt[r].pc \in Stepping \cup {"idle"} /\ (r \in Controllers => rbAt[r].pc = "idle")
      BY <1>3, Zenon DEF Projectors, Places
    <3>2. \/ ReadCursor(r) \/ CopyBatch(r) \/ SetCursor(r) \/ ClaimJob(r) \/ NextScope(r)
      BY <2>8, <3>1, Zenon DEF Work, DeleteFamily, ClearCursors, CountRows, AdvanceRebuild, Stepping
    <3> QED BY <2>3, <2>4, <2>5, <2>7, <3>2, Zenon
  <2> QED BY <2>1, <2>6, <2>7, <2>8, Zenon
<1>7. ResetCovers(p)'
  BY <1>1, <1>5, Zenon DEF ResetCovers, Covered
<1>8. ResetAlone(p)' /\ ResetUnseen(p)'
  BY <1>1, <1>4, <1>6, Zenon DEF ResetAlone, ResetUnseen
<1> QED BY <1>7, <1>8, Zenon DEF ResetOnCourse

\* A reset stays on its course, or has crossed somebody.
LEMMA ResetStep ==
  ASSUME BridgeInv, [RBNext]_rbVars, ~rbCrossed', NEW p \in Controllers, HoldsRun(p)', Emptying(p)'
  PROVE  ResetOnCourse(p)'
<1>0. p \in Projectors /\ RBTypeOK /\ Places /\ rbAt \in [Projectors -> AtType(rbSrc)]
  BY TypeNamed, Zenon DEF BridgeInv, Projectors
<1>1. ~ClaimRebuild(p)
  BY <1>0, ClaimsAt, ProjectorsAssumption DEF Emptying
<1>2. HoldsRun(p) /\ rbRun'.scope = rbRun.scope /\ ~rbCrossed
  BY <1>0, <1>1, HeldBefore, Zenon
<1>3. Emptying(p) => ResetOnCourse(p)
  BY <1>2, Zenon DEF BridgeInv
<1>4. CASE DeleteFamily(p)
  BY <1>0, <1>2, <1>3, <1>4, ResetDeletes, Zenon
<1>5. CASE ClearCursors(p)
  <2>1. Emptying(p)
    BY <1>5, Zenon DEF ClearCursors, Emptying
  <2> QED BY <1>0, <1>2, <1>3, <1>5, <2>1, ResetClears, Zenon
<1>6. CASE \E q \in Projectors : Work(q) \/ RBError(q) \/ RBCrash(q)
  <2>1. PICK q \in Projectors : Work(q) \/ RBError(q) \/ RBCrash(q)
    BY <1>6, Zenon
  <2>2. CASE q = p
    BY <1>0, <1>4, <1>5, <2>1, <2>2, EmptyingBefore, Zenon
  <2>3. CASE q # p
    <3>1. rbAt'[p] = rbAt[p] /\ rbStepMap'[p] = rbStepMap[p]
      BY <1>0, <2>1, <2>3, OthersStay, Zenon
    <3>2. Emptying(p)
      BY <3>1, Zenon DEF Emptying
    <3>3. ~ClaimRebuild(q)
      BY <1>2, Zenon DEF ClaimRebuild, RebuildRunnable, HoldsRun
    <3> QED BY <1>0, <1>2, <1>3, <2>1, <2>3, <3>1, <3>2, <3>3, ResetUndisturbed, Zenon
  <2> QED BY <2>2, <2>3, Zenon
<1>7. CASE UNCHANGED <<rbCache, rbAt, rbStepMap>>
  <2>0. rbAt' = rbAt
    BY <1>7, Zenon
  <2>1. Emptying(p)
    BY <2>0, Zenon DEF Emptying
  <2> QED BY <1>0, <1>2, <1>3, <1>7, <2>1, ResetUndisturbed, Zenon
<1> QED BY <1>6, <1>7, Zenon DEF RBNext, WriteRow, CreateRun, DeadLeaseEnds, LeaseOutlived, RBPoll, rbVars

-----------------------------------------------------------------------------
\* The run

\* Nobody forgets a crossing before the next run.
LEMMA CrossingKept ==
  ASSUME RBTypeOK, [RBNext]_rbVars, \A s \in Scopes : ~CreateRun(s) PROVE rbCrossed => rbCrossed'
  BY ZenonT(30) DEF RBNext, Work, WriteRow, ClaimJob, NextScope, ReadCursor, CopyBatch, SetCursor, ClaimRebuild,
         DeleteFamily, ClearCursors, CountRows, AdvanceRebuild, RBError, RBCrash, DeadLeaseEnds,
         LeaseOutlived, RBPoll, rbVars

\* A new run has done nothing yet.
LEMMA NewRunResets ==
  ASSUME NEW s \in Scopes, CreateRun(s) PROVE ~Rebuilding' /\ ~NoRun'
<1>1. rbRun'.status = "pending" /\ rbRun'.total = 0 /\ rbRun'.begun = FALSE
  BY Zenon DEF CreateRun, RunRow
<1> QED BY <1>1, Zenon DEF Rebuilding, NothingDone, HoldsRun, NoRun

\* The steps after which a run with counts is active.
LEMMA CountedBefore ==
  ASSUME RBTypeOK, [RBNext]_rbVars, rbRun'.status \in {"pending", "running"}, ~NothingDone'
  PROVE  Rebuilding \/ \E p \in Controllers : CountRows(p) /\ HoldsRun(p)
<1>0. rbRun \in RunType(rbSrc)
  BY TypeNamed, Zenon
<1>1. CASE rbRun' = rbRun
  BY <1>1, Zenon DEF Rebuilding, NothingDone
<1>2. CASE \E s \in Scopes : CreateRun(s)
  BY <1>2 DEF CreateRun, RunRow, NothingDone
<1>3. CASE \E p \in Projectors : ClaimRebuild(p)
  BY <1>0, <1>3 DEF ClaimRebuild, RebuildRunnable, RunRow, NothingDone, Rebuilding
<1>4. CASE \E p \in Projectors : CountRows(p)
  <2>1. PICK p \in Projectors : CountRows(p)
    BY <1>4, Zenon
  <2>2. CASE HoldsRun(p)
    <3>1. p \in Controllers
      BY <2>2, TypeNamed, Zenon DEF HoldsRun
    <3> QED BY <2>1, <2>2, <3>1, Zenon
  <2>3. CASE ~HoldsRun(p)
    BY <1>1, <2>1, <2>3, Zenon DEF CountRows
  <2> QED BY <2>2, <2>3, Zenon
<1>5. CASE \E p \in Projectors : AdvanceRebuild(p)
  <2>1. PICK p \in Controllers : AdvanceRebuild(p)
    BY <1>5, Zenon DEF AdvanceRebuild
  <2>2. CASE HoldsRun(p)
    BY <2>1, <2>2, Zenon DEF AdvanceRebuild, Rebuilding, Stepping
  <2>3. CASE ~HoldsRun(p)
    BY <1>1, <2>1, <2>3, Zenon DEF AdvanceRebuild
  <2> QED BY <2>2, <2>3, Zenon
<1>6. CASE \E p \in Projectors : RBError(p)
  <2>1. rbRun' = rbRun \/ rbRun'.status = "failed"
    BY <1>6 DEF RBError, RunRow
  <2> QED BY <1>1, <2>1, Zenon
<1>7. CASE DeadLeaseEnds \/ LeaseOutlived
  BY <1>0, <1>7, Zenon DEF DeadLeaseEnds, LeaseOutlived, LeaseRunning, RunType, NothingDone, Rebuilding
<1>8. ASSUME NEW p \in Projectors, Work(p)
      PROVE  rbRun' = rbRun \/ ClaimRebuild(p) \/ CountRows(p) \/ AdvanceRebuild(p)
  BY <1>8, Zenon DEF Work, ClaimJob, NextScope, ReadCursor, CopyBatch, SetCursor, DeleteFamily, ClearCursors
<1> QED BY <1>1, <1>2, <1>3, <1>4, <1>5, <1>6, <1>7, <1>8, Zenon DEF RBNext, WriteRow, RBCrash, RBPoll, rbVars

\* The reset of the run ends with its count.
LEMMA RebuildingBefore ==
  ASSUME RBTypeOK, Places, [RBNext]_rbVars, Rebuilding'
  PROVE  Rebuilding \/ \E p \in Controllers : CountRows(p) /\ HoldsRun(p)
<1>1. CASE rbRun'.status \in {"pending", "running"} /\ ~NothingDone'
  BY <1>1, CountedBefore, Zenon
<1>2. CASE \E p \in Controllers : HoldsRun(p)' /\ rbAt'[p].pc \in Stepping
  <2>1. PICK p \in Controllers : HoldsRun(p)' /\ rbAt'[p].pc \in Stepping
    BY <1>2, Zenon
  <2>2. p \in Projectors /\ p \notin Appliers
    BY ProjectorsAssumption, Zenon DEF Projectors
  <2>3. CASE ClaimRebuild(p)
    <3>1. ~NothingDone
      BY <2>1, <2>2, <2>3, ClaimsAt, Zenon DEF Stepping
    <3> QED BY <2>3, <3>1, Zenon DEF ClaimRebuild, RebuildRunnable, Rebuilding
  <2>4. CASE ~ClaimRebuild(p)
    <3>1. HoldsRun(p)
      BY <2>1, <2>4, HeldBefore, Zenon
    <3>2. CASE rbAt'[p] = rbAt[p]
      BY <2>1, <3>1, <3>2, Zenon DEF Rebuilding
    <3>3. CASE Work(p) \/ RBError(p) \/ RBCrash(p)
      BY <2>1, <2>2, <2>4, <3>1, <3>3, StepsOn, ResetsOn, GivesUp, Zenon
         DEF Work, ClaimJob, NextScope, Rebuilding, Stepping
    <3>4. CASE \E q \in Projectors \ {p} : Work(q) \/ RBError(q) \/ RBCrash(q)
      BY <2>2, <3>2, <3>4, OthersStay, Zenon
    <3> QED BY <3>2, <3>3, <3>4, Zenon DEF RBNext, WriteRow, CreateRun, DeadLeaseEnds, LeaseOutlived, RBPoll, rbVars
  <2> QED BY <2>3, <2>4, Zenon
<1> QED BY <1>1, <1>2, Zenon DEF Rebuilding

\* The count puts the run on its way.
LEMMA CountOnCourse ==
  ASSUME RBTypeOK, Places, RBTypeOK', [RBNext]_rbVars, NEW p \in Controllers, CountRows(p), HoldsRun(p),
         ResetOnCourse(p)
  PROVE  RunOnCourse'
<1>0. p \in Projectors /\ rbAt[p].pc = "count" /\ rbStepMap' = rbStepMap /\ rbSrc' = rbSrc
  BY Zenon DEF CountRows, Projectors
<1>1. PICK s \in Scopes, n \in Nat : s = rbRun.scope /\ n = rbSrc
  BY FieldsTyped, ProjectorsAssumption, Zenon
<1>2. rbRun'.total = n /\ rbRun'.scope = s
  BY <1>1, TypeNamed, Zenon DEF CountRows, RunType
<1>3. rbAt[p].scope = s
  BY <1>0, <1>1, Zenon DEF Places
<1>4. rbAt'[p].pc = "read" /\ rbAt'[p].scope = s /\ rbAt'[p].fam = 1
  <2>1. rbAt'[p] = At("read", s, rbStepMap[p][s], rbAt[p].from, rbAt[p].upto)
    BY <1>0, <1>3, TypeNamed, Zenon DEF CountRows
  <2>2. rbStepMap[p][s] = 1
    BY <1>0, <1>1, Zenon DEF ResetOnCourse
  <2> QED BY <2>1, <2>2, AtFields
<1>5. ASSUME NEW t \in Scopes, NEW f \in Family PROVE Covered(n, t, f)'
  <2>1. /\ rbCursor'[t][f] \in 0..n
        /\ \A q \in Projectors : /\ rbCache'[q][t][f] \in 0..n
                                 /\ rbAt'[q].from \in 0..n /\ rbAt'[q].upto \in 0..n
    BY <1>0, <1>1 DEF RBTypeOK
  <2>2. \A F : \A v \in 0..n : Filled(F, n, v)
    BY FilledNothing
  <2> QED BY <2>1, <2>2, Zenon DEF Covered, HandFilled
<1>6. AllCovered(rbRun.total)'
  BY <1>2, <1>5, Zenon DEF AllCovered, Covered
<1>7. ASSUME NEW f \in Family PROVE Covered(0, s, f)'
  <2>1. Covered(0, s, f)
    BY <1>0, <1>1, Zenon DEF ResetOnCourse, ResetCovers, Covered
  <2>2. NotDeleting(f)
    BY <1>0, Zenon DEF NotDeleting, Projectors, Places, Stepping, ResetOnCourse, ResetAlone
  <2> QED BY <2>1, <2>2, CoveredStep, Zenon
<1>8. \A f \in Family : Covered(0, rbRun.scope, f)'
  BY <1>2, <1>7, Zenon DEF Covered
<1>9. ASSUME NEW q \in Controllers PROVE OnCourse(q)'
  <2>1. rbStepMap'[q][s] = 1
    BY <1>0, <1>1, Zenon DEF ResetOnCourse, ResetAlone
  <2>2. CASE q = p
    <3>1. \A g \in Family : ~Passed(q, g)'
      BY <1>2, <1>4, <2>1, <2>2, ProjectorsAssumption DEF Passed, Family
    <3> QED BY <1>2, <1>4, <2>2, <3>1, Zenon DEF OnCourse, Stepping
  <2>3. CASE q # p
    <3>1. rbAt'[q].pc = "idle"
      <4>1. rbAt'[q] = rbAt[q]
        BY <1>0, <2>3, OthersStay, Zenon DEF Work, Projectors
      <4> QED BY <2>3, <4>1, Zenon DEF ResetOnCourse, ResetAlone
    <3>2. \A g \in Family : ~Passed(q, g)'
      BY <1>2, <2>1, <3>1, ProjectorsAssumption DEF Passed, Family
    <3> QED BY <3>1, <3>2, Zenon DEF OnCourse
  <2> QED BY <2>2, <2>3, Zenon
<1> QED BY <1>6, <1>8, <1>9, Zenon DEF RunOnCourse

\* From the count to the end the run is on its way.
LEMMA RunStep ==
  ASSUME BridgeInv, RBTypeOK', [RBNext]_rbVars, ~rbCrossed', Rebuilding' PROVE RunOnCourse'
<1>0. RBTypeOK /\ Places
  BY Zenon DEF BridgeInv
<1>1. ~rbCrossed
  BY <1>0, NewRunResets, CrossingKept, Zenon
<1>2. CASE Rebuilding
  BY <1>0, <1>1, <1>2, RunOnCourseStep, Zenon DEF BridgeInv
<1>3. CASE \E p \in Controllers : CountRows(p) /\ HoldsRun(p)
  <2>1. PICK p \in Controllers : CountRows(p) /\ HoldsRun(p)
    BY <1>3, Zenon
  <2>2. Emptying(p)
    BY <2>1, Zenon DEF CountRows, Emptying
  <2>3. ResetOnCourse(p)
    BY <1>1, <2>1, <2>2, Zenon DEF BridgeInv
  <2> QED BY <1>0, <2>1, <2>3, CountOnCourse, Zenon
<1> QED BY <1>0, <1>2, <1>3, RebuildingBefore, Zenon

\* A run ends as completed when its controller has come to the end.
LEMMA CompletedBefore ==
  ASSUME RBTypeOK, [RBNext]_rbVars, NoRun'
  PROVE  NoRun \/ \E p \in Controllers : AdvanceRebuild(p) /\ HoldsRun(p) /\ rbAt[p].pc = "finished"
<1>0. rbRun \in RunType(rbSrc)
  BY TypeNamed, Zenon
<1>1. CASE rbRun' = rbRun
  BY <1>1, Zenon DEF NoRun
<1>2. ASSUME rbRun'.status \in {"pending", "running", "failed"} PROVE FALSE
  BY <1>2, Zenon DEF NoRun
<1>3. ASSUME NEW p \in Projectors, Work(p)
      PROVE  rbRun' = rbRun \/ rbRun'.status = "running" \/ AdvanceRebuild(p)
  <2>1. CASE ClaimRebuild(p)
    BY <2>1, Zenon DEF ClaimRebuild, RunRow
  <2>2. CASE CountRows(p)
    BY <1>0, <2>2, Zenon DEF CountRows, HoldsRun, RunType
  <2> QED BY <1>3, <2>1, <2>2, Zenon DEF Work, ClaimJob, NextScope, ReadCursor, CopyBatch, SetCursor, DeleteFamily,
             ClearCursors
<1>4. ASSUME NEW p \in Projectors, AdvanceRebuild(p)
      PROVE  \/ rbRun' = rbRun \/ rbRun'.status = "pending"
             \/ p \in Controllers /\ HoldsRun(p) /\ rbAt[p].pc = "finished"
  BY <1>4, Zenon DEF AdvanceRebuild, RunRow
<1>5. ASSUME NEW p \in Projectors, RBError(p) PROVE rbRun' = rbRun \/ rbRun'.status = "failed"
  BY <1>5, Zenon DEF RBError, RunRow
<1>6. ASSUME DeadLeaseEnds \/ LeaseOutlived PROVE rbRun'.status = "running"
  BY <1>0, <1>6, Zenon DEF DeadLeaseEnds, LeaseOutlived, LeaseRunning, RunType
<1>7. ASSUME NEW s \in Scopes, CreateRun(s) PROVE FALSE
  BY <1>7, NewRunResets, Zenon
<1> QED BY <1>1, <1>2, <1>3, <1>4, <1>5, <1>6, <1>7, Zenon DEF RBNext, WriteRow, RBCrash, RBPoll, rbVars

\* Without a run nobody begins a reset.
LEMMA NoResetStep ==
  ASSUME RBTypeOK, Places, [RBNext]_rbVars, NoReset, NoRun PROVE NoReset'
<1>1. ASSUME NEW p \in Controllers, NEW q \in Projectors, Work(q) \/ RBError(q) \/ RBCrash(q)
      PROVE  rbAt'[p].pc \in Stepping \cup {"idle"}
  <2>0. p \in Projectors /\ p \notin Appliers
    BY ProjectorsAssumption, Zenon DEF Projectors
  <2>1. CASE q # p
    BY <1>1, <2>0, <2>1, OthersStay, Zenon DEF NoReset
  <2>2. CASE q = p
    <3>1. ~ClaimRebuild(p)
      BY Zenon DEF ClaimRebuild, RebuildRunnable, NoRun
    <3> QED BY <1>1, <2>0, <2>2, <3>1, NobodyResets, StepsOn, GivesUp, Zenon DEF Work, ClaimJob, NextScope
  <2> QED BY <2>1, <2>2, Zenon
<1> QED BY <1>1, Zenon DEF RBNext, WriteRow, CreateRun, DeadLeaseEnds, LeaseOutlived, RBPoll, rbVars, NoReset

\* What is past the counted rows is covered altogether when they are there.
LEMMA CompleteCoversAfter ==
  ASSUME RBTypeOK', NEW n \in Nat, AllCovered(n)', \A g \in Family : Filled(rbFacts'[g], 0, n)
  PROVE  AllCovered(0)'
<1>1. SUFFICES ASSUME NEW s \in Scopes, NEW f \in Family PROVE Covered(0, s, f)'
  BY Zenon DEF AllCovered
<1>2. /\ rbCursor'[s][f] \in Nat
      /\ \A q \in Projectors : rbCache'[q][s][f] \in Nat /\ rbAt'[q].from \in Nat /\ rbAt'[q].upto \in Nat
  <2>1. \A v \in 0..rbSrc' : v \in Nat
    BY DEF RBTypeOK
  <2> QED BY <2>1 DEF RBTypeOK
<1>3. \A v \in Nat : Filled(rbFacts'[f], n, v) => Filled(rbFacts'[f], 0, v)
  BY FilledBoth, Zenon
<1>4. Covered(n, s, f)'
  BY Zenon DEF AllCovered
<1> QED BY <1>2, <1>3, <1>4, Zenon DEF Covered, HandFilled

\* Before the first run and after a completed one nothing is missing.
LEMMA NoRunStep ==
  ASSUME BridgeInv, RBTypeOK', [RBNext]_rbVars, ~rbCrossed', NoRun' PROVE BridgeComplete'
<1>0. RBTypeOK /\ Places
  BY Zenon DEF BridgeInv
<1>1. ~rbCrossed /\ \A s \in Scopes : ~CreateRun(s)
  BY <1>0, NewRunResets, CrossingKept, Zenon
<1>2. CASE NoRun
  <2>1. NoReset /\ AllCovered(0) /\ \A g \in Family : Complete(g)
    BY <1>1, <1>2, Zenon DEF BridgeInv, BridgeComplete
  <2>2. rbRun'.total = rbRun.total /\ \A f \in Family : NotDeleting(f)
    BY <1>0, <1>1, <2>1, NobodyResets, RunKept, Zenon
  <2>3. NoReset'
    BY <1>0, <1>2, <2>1, NoResetStep, Zenon
  <2>4. ASSUME NEW s \in Scopes, NEW f \in Family PROVE Covered(0, s, f)'
    BY <1>0, <2>1, <2>2, CoveredStep, Zenon DEF AllCovered
  <2>5. \A g \in Family : Complete(g)'
    BY <1>0, <2>1, <2>2, CompleteStep, Zenon
  <2> QED BY <2>3, <2>4, <2>5, Zenon DEF BridgeComplete, AllCovered
<1>3. ASSUME NEW p \in Controllers, AdvanceRebuild(p), HoldsRun(p), rbAt[p].pc = "finished"
      PROVE  BridgeComplete'
  <2>1. Rebuilding
    BY <1>3, Zenon DEF Rebuilding, Stepping
  <2>2. RunOnCourse /\ RunOnCourse' /\ rbRun'.total = rbRun.total
    BY <1>0, <1>1, <2>1, RunOnCourseStep, Zenon DEF BridgeInv
  <2>3. \A g \in Family : Complete(g)
    BY <1>3, <2>2, Zenon DEF RunOnCourse, OnCourse, Passed
  <2>4. NoReset /\ NoReset'
    BY <2>2, Zenon DEF RunOnCourse, OnCourse, NoReset
  <2>5. \A g \in Family : Complete(g)'
    BY <1>0, <2>2, <2>3, <2>4, NobodyResets, CompleteStep, Zenon
  <2>6. AllCovered(0)'
    <3>1. PICK n \in Nat : n = rbRun.total
      BY <1>0, FieldsTyped
    <3>2. AllCovered(n)' /\ \A g \in Family : Filled(rbFacts'[g], 0, n)
      BY <2>2, <2>5, <3>1, Zenon DEF RunOnCourse, AllCovered, Covered, Complete
    <3> QED BY <3>2, CompleteCoversAfter, Zenon
  <2> QED BY <2>4, <2>5, <2>6, Zenon DEF BridgeComplete
<1> QED BY <1>0, <1>2, <1>3, CompletedBefore, Zenon

-----------------------------------------------------------------------------

LEMMA BridgeInitInv == RBInit => BridgeInv
<1> SUFFICES ASSUME RBInit PROVE BridgeInv
  OBVIOUS
<1>2. RBTypeOK
  BY BridgeInitTyped, Zenon
<1>3. /\ \A p \in Projectors : rbAt[p] = AtRest /\ rbAt[p].pc = "idle"
      /\ rbRun.status = "none" /\ rbRun.total = 0 /\ rbRun.begun = FALSE
  BY RestFields, Zenon DEF RBInit, RunRow
<1>4. ~Rebuilding /\ \A p \in Controllers : ~HoldsRun(p)
  BY <1>3, Zenon DEF Rebuilding, HoldsRun
<1>5. BridgeComplete
  <2>1. ASSUME NEW s \in Scopes, NEW f \in Family PROVE Covered(0, s, f)
    <3>1. rbCursor[s][f] = 0 /\ \A p \in Projectors : rbCache[p][s][f] = 0
      BY Zenon DEF RBInit
    <3>2. \A p \in Projectors : ~InHand(rbAt[p], s, f)
      BY <1>3, NotInHand, Zenon
    <3>3. Filled(rbFacts[f], 0, 0)
      BY FilledNothing
    <3> QED BY <3>1, <3>2, <3>3, Zenon DEF Covered
  <2>2. \A g \in Family : Complete(g)
    BY <1>3, FilledNothing DEF Complete
  <2> QED BY <1>3, <2>1, <2>2, Zenon DEF BridgeComplete, NoReset, AllCovered, Projectors
<1> QED BY <1>2, <1>3, <1>4, <1>5, Zenon DEF BridgeInv, Places, Projectors

LEMMA BridgeNextInv == BridgeInv /\ [RBNext]_rbVars => BridgeInv'
<1> SUFFICES ASSUME BridgeInv, [RBNext]_rbVars PROVE BridgeInv'
  OBVIOUS
<1>2. RBTypeOK' /\ Places'
  BY BridgeTyped, PlacesStep, Zenon DEF BridgeInv
<1> QED BY <1>2, RunStep, ResetStep, NoRunStep, Zenon DEF BridgeInv

\* What the invariant says of the rows.
LEMMA BridgeInvRestores == BridgeInv => BridgeRestored
<1>1. SUFFICES ASSUME BridgeInv, ~rbCrossed, NoRun
               PROVE  /\ \A f \in Family : 1..rbRun.total \subseteq rbFacts[f]
                      /\ \A s \in Scopes, f \in Family :
                           /\ 1..rbCursor[s][f] \subseteq rbFacts[f]
                           /\ \A p \in Projectors : 1..rbCache[p][s][f] \subseteq rbFacts[f]
  BY Zenon DEF BridgeRestored, RebuildRestoresUnlessCrossed, RebuildRestores, CursorsCovered, NoRun
<1>2. BridgeComplete
  BY <1>1, Zenon DEF BridgeInv
<1>3. \A F, v : Filled(F, 0, v) => 1..v \subseteq F
  BY DEF Filled
<1> QED BY <1>2, <1>3, Zenon DEF BridgeComplete, AllCovered, Covered, Complete

\* Every variable of the bridge projection always has its type, and only the owner of a
\* running rebuild has a lease on it.
THEOREM BridgeTypeAlways == RBSpec => []RBTypeOK
<1>1. RBInit => BridgeInv
  BY BridgeInitInv, Zenon
<1>2. BridgeInv /\ [RBNext]_rbVars => BridgeInv'
  BY BridgeNextInv, Zenon
<1>3. BridgeInv => RBTypeOK
  BY Zenon DEF BridgeInv
<1> QED BY <1>1, <1>2, <1>3, PTL DEF RBSpec

\* Whatever the number of Projectors, rows, families, runs and faults and the size of a
\* batch: no cursor gets past a row that the bridge misses while no rebuild is under way,
\* and a rebuild that crossed no Projector with older state has brought back every row it
\* counted, through crashes, failed statements, takeovers and projection jobs beside it.
THEOREM BridgeAlwaysRestored == RBSpec => []BridgeRestored
<1>1. RBInit => BridgeInv
  BY BridgeInitInv, Zenon
<1>2. BridgeInv /\ [RBNext]_rbVars => BridgeInv'
  BY BridgeNextInv, Zenon
<1>3. BridgeInv => BridgeRestored
  BY BridgeInvRestores, Zenon
<1> QED BY <1>1, <1>2, <1>3, PTL DEF RBSpec

-----------------------------------------------------------------------------
\* The scheduler's lease

\* The part of the type invariant the argument needs.
LeaseTypeOK ==
  /\ until \in Int
  /\ pc \in [Nodes -> {"idle", "acquire", "work"}]
  /\ age \in [Nodes -> Nat]
  /\ claim \in [Nodes -> 0..TTL]

RowBacksClaim ==
  \A n \in Nodes : claim[n] > 0 => holder = n /\ claim[n] <= until

LInv == LeaseTypeOK /\ RowBacksClaim

USE ConstantsAssumption

\* Initially there is no claim.
LEMMA LInvInit == Init => LInv
  BY DEF Init, LInv, LeaseTypeOK, RowBacksClaim

\* Every step of a node, crash or tick keeps the row behind the running claims.
LEMMA LInvNext == LInv /\ [Next]_vars => LInv'
<1> SUFFICES ASSUME LInv, [Next]_vars PROVE LInv'
  OBVIOUS
<1> USE DEF LInv, LeaseTypeOK, RowBacksClaim
<1>1. ASSUME NEW n \in Nodes, Begin(n) PROVE LInv'
  BY <1>1 DEF Begin, row
<1>2. ASSUME NEW n \in Nodes, Upsert(n) PROVE LInv'
  <2>1. \A g \in Nodes \ {n} : claim[g] = 0
    BY <1>2 DEF Upsert, Free
  <2>2. Max2(TTL - age[n], 0) \in 0..TTL
    BY DEF Max2
  <2>3. Max2(TTL - age[n], 0) > 0 => Max2(TTL - age[n], 0) <= TTL - age[n]
    BY DEF Max2
  <2>4. LeaseTypeOK'
    BY <1>2, <2>2 DEF Upsert
  <2>5. RowBacksClaim'
    BY <1>2, <2>1, <2>2, <2>3 DEF Upsert
  <2> QED BY <2>4, <2>5
<1>3. ASSUME NEW n \in Nodes, NotAcquired(n) PROVE LInv'
  BY <1>3 DEF NotAcquired, row
<1>4. ASSUME NEW n \in Nodes, AcquireFails(n) PROVE LInv'
  BY <1>4 DEF AcquireFails, row
<1>5. ASSUME NEW n \in Nodes, DutyDone(n) PROVE LInv'
  BY <1>5 DEF DutyDone, Advance, row
<1>6. ASSUME NEW n \in Nodes, DutyFails(n) PROVE LInv'
  <2>1. pc' \in [Nodes -> {"idle", "acquire", "work"}]
    BY <1>6, Zenon DEF DutyFails, Advance
  <2> QED BY <1>6, <2>1 DEF DutyFails, row
<1>7. ASSUME NEW n \in Nodes, Crash(n) PROVE LInv'
  BY <1>7 DEF Crash
<1>8. ASSUME Tick PROVE LInv'
  BY <1>8 DEF Tick, Max2
<1>9. CASE UNCHANGED vars
  BY <1>9 DEF vars
<1> QED
  BY <1>1, <1>2, <1>3, <1>4, <1>5, <1>6, <1>7, <1>8, <1>9 DEF Next, NodeStep

\* A step of the scheduler is a step of the abstract lease or leaves the claims
\* alone: only the upsert acquires, and only when no other claim runs.
LEMMA StepImplements == LInv /\ [Next]_vars => [L!Next]_claim
<1> SUFFICES ASSUME LInv, [Next]_vars PROVE L!Next \/ claim' = claim
  OBVIOUS
<1>1. ASSUME NEW n \in Nodes, Upsert(n) PROVE L!Next
  <2>1. \A g \in Nodes \ {n} : claim[g] = 0
    BY <1>1 DEF Upsert, Free, LInv, LeaseTypeOK, RowBacksClaim
  <2>2. Max2(TTL - age[n], 0) \in 0..TTL
    BY DEF Max2, LInv, LeaseTypeOK
  <2>3. L!Acquire(n)
    BY <1>1, <2>1, <2>2, Zenon DEF Upsert, L!Acquire
  <2> QED BY <2>3 DEF L!Next
<1>2. ASSUME NEW n \in Nodes, Crash(n) PROVE L!Next
  BY <1>2, Zenon DEF Crash, L!Next, L!Forget
<1>3. ASSUME Tick PROVE L!Next
  <2>1. \A n \in Nodes : Max2(claim[n] - 1, 0) = IF claim[n] = 0 THEN 0 ELSE claim[n] - 1
    BY DEF Max2, LInv, LeaseTypeOK
  <2>2. L!Elapse
    BY <1>3, <2>1 DEF Tick, L!Elapse
  <2> QED BY <2>2 DEF L!Next
<1>4. ASSUME NEW n \in Nodes, Begin(n) \/ NotAcquired(n) \/ AcquireFails(n)
                                \/ DutyDone(n) \/ DutyFails(n)
      PROVE claim' = claim
  BY <1>4 DEF Begin, NotAcquired, AcquireFails, DutyDone, DutyFails
<1>5. CASE UNCHANGED vars
  BY <1>5 DEF vars
<1> QED
  BY <1>1, <1>2, <1>3, <1>4, <1>5 DEF Next, NodeStep

\* JobStore.AcquireLease keeps the promise of LeaseStore, however long the upsert
\* waits after the clock was read.
THEOREM LeaseImplemented == Spec => LeaseSpec
<1>1. Init => L!Init
  BY DEF Init, L!Init
<1> QED
  BY <1>1, LInvInit, LInvNext, StepImplements, PTL DEF Spec, LeaseSpec, L!Spec

\* runOnce never runs on two nodes at once while both their leases last.
THEOREM RoundsAreExclusive == Spec => []RoundsExclusive
<1>1. LInv => RoundsExclusive
  BY DEF LInv, RowBacksClaim, RoundsExclusive
<1> QED
  BY <1>1, LInvInit, LInvNext, PTL DEF Spec

=============================================================================
