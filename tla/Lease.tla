------------------------------- MODULE Lease --------------------------------
(***************************************************************************)
(* What runtimeasync.LeaseStore promises: a named lease is a singleton. A  *)
(* successful AcquireLease gives its caller a claim for at most the time   *)
(* to live, and only while nobody else's claim is running.                 *)
(***************************************************************************)
EXTENDS Integers

CONSTANTS Holders, TTL

VARIABLE claim   \* claim[h]: how long the claim of h still runs, 0 for none

Init == claim = [h \in Holders |-> 0]

Acquire(h) ==
  /\ \A g \in Holders \ {h} : claim[g] = 0
  /\ \E t \in 0..TTL : claim' = [claim EXCEPT ![h] = t]

Elapse ==
  claim' = [h \in Holders |-> IF claim[h] = 0 THEN 0 ELSE claim[h] - 1]

\* A holder that goes away forgets its claim.
Forget(h) == claim' = [claim EXCEPT ![h] = 0]

Next == Elapse \/ \E h \in Holders : Acquire(h) \/ Forget(h)

Spec == Init /\ [][Next]_claim

\* "LeaseStore owns singleton runtime leases": two claims never run at once.
Singleton == \A g, h \in Holders : claim[g] > 0 /\ claim[h] > 0 => g = h

=============================================================================
