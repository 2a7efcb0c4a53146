----------------------------- MODULE MCJobQueue -----------------------------
(* The instance of JobQueue whose safety TLC checks.                       *)
EXTENDS JobQueue, TLC

CONSTANTS e1, n1, p1

\* An event that ends in any way, a native job, and a bridge projection job that
\* reached the shared queue.
MixedJobs == {e1, n1, p1}
MixedKinds == (e1 :> "event") @@ (n1 :> "native_stackwalk") @@ (p1 :> "bridge_projection")
MixedOutcomes == (e1 :> {"ok", "transient", "filtered", "permanent"}) @@ (n1 :> {"ok", "transient"})
                   @@ (p1 :> {"ok"})

\* The workers are interchangeable.
WorkerSymmetry == Permutations(Workers)
=============================================================================
