---------------------------- MODULE MCReprocess ----------------------------
(***************************************************************************)
(* Backfill runs and their work, in three parts: "scopes" for clients that *)
(* ask for runs beside each other, "native" for workers that reprocess the *)
(* events of one run, "rebuild" for Projectors that rebuild the bridge.    *)
(***************************************************************************)
EXTENDS Backfill, Rebuild, Sequences, TLC

CONSTANTS w1, w2, c1, c2

VARIABLE part

All == <<part, vars, rbVars>>

\* Enough events to compare the two ways of counting.
E(t) == [project |-> "p1", release |-> "r", time |-> t]
MCEvents == <<E(4), E(4), E(4)>>

\* A whole project; and a project with windows of a release that overlap, stay apart,
\* or begin within the second in which another one ends.
Q(p, r, from, to) == [project |-> p, release |-> r, from |-> from, to |-> to]
Whole == Q("p1", "", 0, 0)
Windows == {Q("p1", "", 4, 4), Q("", "r", 3, 6), Q("", "r", 0, 2)}
MCRequests == {Whole} \cup Windows

-----------------------------------------------------------------------------

\* One event, one worker and no faults, for two runs of the windows.
ScopesOnly ==
  /\ event = [e \in Rows |-> IF e = 1 THEN "native" ELSE "absent"]
  /\ job[w2] = Idle /\ faults = 0
  /\ \A c \in Clients : step[c] # "idle" => asked[c] \in Windows

\* One run of the whole project, which one client asks for until it has it.
NativeOnly ==
  /\ status[2] = "none" /\ (status[1] # "none" => step[c1] = "done")
  /\ step[c2] = "idle" /\ (step[c1] # "idle" => asked[c1] = Whole)

\* A part that does not move is in its first state.
MCInit ==
  /\ Init /\ RBInit
  /\ \/ part = "scopes" /\ ScopesOnly
     \/ part = "native" /\ NativeOnly
     \/ part = "rebuild" /\ event = [e \in Rows |-> "absent"]

Only(p) == part = p /\ UNCHANGED part /\ IF p = "rebuild" THEN UNCHANGED vars ELSE UNCHANGED rbVars

MCNext ==
  \/ Only("scopes") /\ Next /\ ScopesOnly'
  \/ Only("native") /\ Next /\ NativeOnly'
  \/ Only("rebuild") /\ RBNext

\* Workers poll and work on, time passes and leases end with it.
MCSpec ==
  /\ MCInit /\ [][MCNext]_All
  /\ WF_All(Only("native") /\ Tick)
  /\ \A w \in {w1, w2} : WF_All(Only("native") /\ WorkerStep(w))
  /\ \A p \in Projectors : WF_All(Only("rebuild") /\ Work(p))
  /\ WF_All(Only("rebuild") /\ DeadLeaseEnds)

-----------------------------------------------------------------------------
\* Properties, beside those of Backfill and Rebuild

\* Every reprocessing run and every rebuild ends.
RunsEnd == []<>(/\ part = "native" => Settled
                /\ part = "rebuild" => RebuildSettled)

=============================================================================
