----------------------------- MODULE ValkeyLease ----------------------------
(***************************************************************************)
(* ValkeyLeaseStore.AcquireLease: GET, then SET NX with the time to live   *)
(* when there is no key, or EXPIRE when the key is the caller's own. Each  *)
(* command is atomic on the server, the three together are not, and the    *)
(* key expires on the server's clock in between.                           *)
(***************************************************************************)
EXTENDS Integers

CONSTANTS Holders, NoHolder, TTL

ASSUME HoldersAssumption == NoHolder \notin Holders /\ TTL \in Nat \ {0}

VARIABLES key, left,  \* the key's value (NoHolder: no key) and what is left of its TTL
          pc,         \* pc[h]: "idle", "setnx" or "expire"
          claim,      \* claim[h]: what is left of the lease h was told it has
          late        \* history: holders whose EXPIRE met a key not theirs

vlVars == <<key, left, pc, claim, late>>

VLInit ==
  /\ key = NoHolder /\ left = 0
  /\ pc = [h \in Holders |-> "idle"]
  /\ claim = [h \in Holders |-> 0]
  /\ late = {}

Get(h) ==
  /\ pc[h] = "idle"
  /\ pc' = [pc EXCEPT ![h] = CASE key = NoHolder -> "setnx"
                               [] key = h -> "expire"
                               [] OTHER -> "idle"]
  /\ UNCHANGED <<key, left, claim, late>>

\* Variant: SET without NX.
SetOverwrites(h) ==
  /\ pc[h] = "setnx"
  /\ key' = h /\ left' = TTL /\ claim' = [claim EXCEPT ![h] = TTL]
  /\ pc' = [pc EXCEPT ![h] = "idle"]
  /\ UNCHANGED late

\* SET NX: OK when there is no key, nil when somebody was faster.
SetNX(h) ==
  /\ pc[h] = "setnx"
  /\ IF key = NoHolder
     THEN key' = h /\ left' = TTL /\ claim' = [claim EXCEPT ![h] = TTL]
     ELSE UNCHANGED <<key, left, claim>>
  /\ pc' = [pc EXCEPT ![h] = "idle"]
  /\ UNCHANGED late

\* EXPIRE sets the time to live of whatever key is there now; only its error is
\* looked at, and a missing key is no error.
Expire(h) ==
  /\ pc[h] = "expire"
  /\ left' = IF key = NoHolder THEN 0 ELSE TTL
  /\ claim' = [claim EXCEPT ![h] = TTL]
  /\ late' = IF key = h THEN late ELSE late \cup {h}
  /\ pc' = [pc EXCEPT ![h] = "idle"]
  /\ UNCHANGED key

\* A command fails, or its answer is lost after the server carried it out: the
\* caller reports an error and claims nothing.
Fail(h) ==
  /\ pc[h] # "idle"
  /\ \/ UNCHANGED <<key, left>>
     \/ pc[h] = "setnx" /\ key = NoHolder /\ key' = h /\ left' = TTL
     \/ pc[h] = "expire" /\ key # NoHolder /\ left' = TTL /\ UNCHANGED key
  /\ pc' = [pc EXCEPT ![h] = "idle"]
  /\ UNCHANGED <<claim, late>>

Tick ==
  /\ left' = IF left = 0 THEN 0 ELSE left - 1
  /\ key' = IF left <= 1 THEN NoHolder ELSE key
  /\ claim' = [h \in Holders |-> IF claim[h] = 0 THEN 0 ELSE claim[h] - 1]
  /\ UNCHANGED <<pc, late>>

VLNext == Tick \/ \E h \in Holders : Get(h) \/ SetNX(h) \/ Expire(h) \/ Fail(h)

VLSpec == VLInit /\ [][VLNext]_vlVars

-----------------------------------------------------------------------------
\* Properties

\* Every variable has its type.
VLTypeOK ==
  /\ key \in Holders \cup {NoHolder} /\ left \in 0..TTL
  /\ (key = NoHolder) = (left = 0)
  /\ pc \in [Holders -> {"idle", "setnx", "expire"}]
  /\ claim \in [Holders -> 0..TTL]
  /\ late \subseteq Holders

\* Until some EXPIRE comes too late, a running claim is backed by the key, so
\* that nobody else has one: SET NX alone elects one holder.
BackedUntilLate ==
  late = {} => \A h \in Holders : claim[h] > 0 => key = h /\ claim[h] <= left

=============================================================================
