----------------------------- MODULE RateLimits -----------------------------
(***************************************************************************)
(* The two RateLimiters of package auth, for one key. FixedWindow counts   *)
(* in one process, in a window that starts with a request of its own;      *)
(* ValkeyRateLimiter shares a counter per clock window between nodes and   *)
(* takes grants in batches, of which it keeps the rest in the process.     *)
(* A caller reads the clock and is at work some time later.                *)
(***************************************************************************)
EXTENDS Integers, FiniteSets, FiniteSetsExt

CONSTANTS Nodes, Callers,  \* Callers[n]: the requests at work on node n
          Limit,           \* the limit of the key, above 0
          Batch,           \* reservationBatch(Limit)
          Window,          \* the window, in ticks
          MaxDelay,        \* the longest time between reading the clock and the lock or script
          MaxTime,         \* bound: the run ends here
          MaxFaults

AllCallers == UNION {Callers[n] : n \in Nodes}
NodeOf(c) == CHOOSE n \in Nodes : c \in Callers[n]
Times == 0..MaxTime

VARIABLES rlNow,
          rlCall,     \* rlCall[c]: a caller's step, the time it read and its grant
          rlBucket,   \* the bucket of FixedWindowRateLimiter
          rlAdmitted, \* history: rlAdmitted[t]: admitted by FixedWindow at time t
          rlKey,      \* rlKey[w]: the counter of clock window w and when it expires
          rlLocal,    \* rlLocal[n][w]: ValkeyRateLimiter.local
          rlAllowed,  \* history: rlAllowed[w]: admitted by Valkey for window w
          rlFaults,
          rlKind      \* the limiter of this deployment

vars == <<rlNow, rlCall, rlBucket, rlAdmitted, rlKey, rlLocal, rlAllowed, rlFaults, rlKind>>
fixedVars == <<rlBucket, rlAdmitted>>
valkeyVars == <<rlKey, rlLocal, rlAllowed, rlFaults>>

Windows == 0..MaxTime \div Window
WindowOf(t) == t \div Window
Idle == [pc |-> "idle", t |-> 0, grant |-> 0]

Init ==
  /\ rlNow = 0
  /\ rlCall = [c \in AllCallers |-> Idle]
  /\ rlBucket = [start |-> -Window, count |-> 0]
  /\ rlAdmitted = [t \in Times |-> 0]
  /\ rlKey = [w \in Windows |-> [count |-> 0, expires |-> 0]]
  /\ rlLocal = [n \in Nodes |-> [w \in Windows |-> 0]]
  /\ rlAllowed = [w \in Windows |-> 0]
  /\ rlFaults = 0
  /\ rlKind \in {"fixed", "local"}

\* time.Now().UTC() in the middleware; then the limiter is called.
ReadClock(c) ==
  /\ rlCall[c].pc = "idle"
  /\ rlCall' = [rlCall EXCEPT ![c] = [pc |-> rlKind, t |-> rlNow, grant |-> 0]]
  /\ UNCHANGED <<rlNow, fixedVars, valkeyVars, rlKind>>

Done(c) == rlCall' = [rlCall EXCEPT ![c] = Idle]

-----------------------------------------------------------------------------
\* FixedWindowRateLimiter.Allow, under the mutex

\* Variant: the comparison admits one more.
FixedAdmitsOneMore(c) ==
  LET over == rlCall[c].t - rlBucket.start >= Window IN
  /\ rlCall[c].pc = "fixed" /\ Done(c)
  /\ over \/ rlBucket.count <= Limit
  /\ rlBucket' = IF over THEN [start |-> rlCall[c].t, count |-> 1]
                 ELSE [rlBucket EXCEPT !.count = @ + 1]
  /\ rlAdmitted' = [rlAdmitted EXCEPT ![rlNow] = @ + 1]
  /\ UNCHANGED <<rlNow, valkeyVars, rlKind>>

FixedAdmits(c) ==
  LET over == rlCall[c].t - rlBucket.start >= Window IN
  /\ rlCall[c].pc = "fixed" /\ Done(c)
  /\ over \/ rlBucket.count < Limit
  /\ rlBucket' = IF over THEN [start |-> rlCall[c].t, count |-> 1]
                 ELSE [rlBucket EXCEPT !.count = @ + 1]
  /\ rlAdmitted' = [rlAdmitted EXCEPT ![rlNow] = @ + 1]
  /\ UNCHANGED <<rlNow, valkeyVars, rlKind>>

FixedDenies(c) ==
  /\ rlCall[c].pc = "fixed" /\ Done(c)
  /\ rlCall[c].t - rlBucket.start < Window /\ rlBucket.count >= Limit
  /\ UNCHANGED <<rlNow, fixedVars, valkeyVars, rlKind>>

-----------------------------------------------------------------------------
\* ValkeyRateLimiter.Allow

W(c) == WindowOf(rlCall[c].t)

\* consumeLocalReservation
ConsumeLocal(c) ==
  LET n == NodeOf(c) IN
  /\ rlCall[c].pc = "local"
  /\ IF rlLocal[n][W(c)] > 0
     THEN /\ rlLocal' = [rlLocal EXCEPT ![n][W(c)] = @ - 1]
          /\ rlAllowed' = [rlAllowed EXCEPT ![W(c)] = @ + 1]
          /\ Done(c)
     ELSE /\ rlCall' = [rlCall EXCEPT ![c].pc = "eval"]
          /\ UNCHANGED <<rlLocal, rlAllowed>>
  /\ UNCHANGED <<rlNow, fixedVars, rlKey, rlFaults, rlKind>>

Counter(w) == IF rlKey[w].expires <= rlNow THEN 0 ELSE rlKey[w].count

\* Variant: the batch is granted whole.
GrantWholeBatch(w) == IF Counter(w) >= Limit THEN 0 ELSE Batch
Grant(w) == IF Counter(w) >= Limit THEN 0 ELSE Min({Batch, Limit - Counter(w)})

\* EXPIRE with window + 1 when the counter was created.
Expiry(w) == IF Counter(w) = 0 THEN rlNow + Window + 1 ELSE rlKey[w].expires

\* The script, atomic on the server.
RunScript(w) ==
  rlKey' = IF Grant(w) = 0 THEN rlKey
           ELSE [rlKey EXCEPT ![w] = [count |-> Counter(w) + Grant(w), expires |-> Expiry(w)]]

Eval(c) ==
  LET w == W(c) IN
  /\ rlCall[c].pc = "eval"
  /\ RunScript(w)
  /\ IF Grant(w) = 0 THEN Done(c)
     ELSE rlCall' = [rlCall EXCEPT ![c].pc = "store", ![c].grant = Grant(w)]
  /\ UNCHANGED <<rlNow, fixedVars, rlLocal, rlAllowed, rlFaults, rlKind>>

\* The call fails, after the server ran the script or before: denied.
EvalFails(c) ==
  /\ rlCall[c].pc = "eval" /\ Done(c) /\ rlFaults < MaxFaults
  /\ rlFaults' = rlFaults + 1
  /\ UNCHANGED rlKey \/ RunScript(W(c))
  /\ UNCHANGED <<rlNow, fixedVars, rlLocal, rlAllowed, rlKind>>

\* Variant: the reservation is the whole grant, the admitted request included.
StoreLocalWholeGrant(c) ==
  LET n == NodeOf(c) IN
  /\ rlCall[c].pc = "store" /\ Done(c)
  /\ rlAllowed' = [rlAllowed EXCEPT ![W(c)] = @ + 1]
  /\ rlLocal' = [rlLocal EXCEPT ![n][W(c)] = rlCall[c].grant]
  /\ UNCHANGED <<rlNow, fixedVars, rlKey, rlFaults, rlKind>>

\* storeLocalReservation: what another caller stored meanwhile is overwritten.
StoreLocal(c) ==
  LET rest == rlCall[c].grant - 1 IN
  /\ rlCall[c].pc = "store" /\ Done(c)
  /\ rlAllowed' = [rlAllowed EXCEPT ![W(c)] = @ + 1]
  /\ rlLocal' = IF rest > 0 THEN [rlLocal EXCEPT ![NodeOf(c)][W(c)] = rest] ELSE rlLocal
  /\ UNCHANGED <<rlNow, fixedVars, rlKey, rlFaults, rlKind>>

Tick ==
  /\ rlNow < MaxTime
  /\ \A c \in AllCallers : rlCall[c].pc # "idle" => rlNow - rlCall[c].t < MaxDelay
  /\ rlNow' = rlNow + 1
  /\ UNCHANGED <<rlCall, fixedVars, valkeyVars, rlKind>>

\* The bounded run is over.
Over == rlNow = MaxTime /\ UNCHANGED vars

Next ==
  \/ \E c \in AllCallers :
       \/ ReadClock(c) \/ FixedAdmits(c) \/ FixedDenies(c)
       \/ ConsumeLocal(c) \/ Eval(c) \/ EvalFails(c) \/ StoreLocal(c)
  \/ Tick \/ Over

-----------------------------------------------------------------------------
\* Properties

\* Every variable has its type.
TypeOK ==
  /\ rlNow \in Times /\ rlFaults \in 0..MaxFaults /\ rlKind \in {"fixed", "local"}
  /\ rlCall \in [AllCallers -> [pc : {"idle", "fixed", "local", "eval", "store"}, t : Times, grant : 0..Batch]]
  /\ rlBucket \in [start : -Window..MaxTime, count : Nat]
  /\ rlAdmitted \in [Times -> Nat] /\ rlAllowed \in [Windows -> Nat]
  /\ rlKey \in [Windows -> [count : 0..Limit, expires : Nat]]
  /\ rlLocal \in [Nodes -> [Windows -> 0..Batch]]

\* FixedWindow admits at most twice the limit in any stretch of time as long as
\* the window, also when requests reach the mutex in another order than the clock.
BurstAtMostDouble ==
  \A s \in Times :
    MapThenSumSet(LAMBDA t : rlAdmitted[t], {t \in Times : s <= t /\ t < s + Window})
      <= 2 * Limit

InHand(w) == MapThenSumSet(LAMBDA c : rlCall[c].grant,
                           {c \in AllCallers : rlCall[c].pc = "store" /\ W(c) = w})
Reserved(w) == MapThenSumSet(LAMBDA n : rlLocal[n][w], Nodes)

\* All nodes together admit no more than the limit for a clock window: neither the
\* batches, nor lost answers, nor the expiry of the shared counter, nor requests
\* that reach the server after their window make room for one more.
SharedLimitHolds == \A w \in Windows : rlAllowed[w] + InHand(w) + Reserved(w) <= Limit

=============================================================================
