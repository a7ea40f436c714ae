----------------------------- MODULE NonceStore -----------------------------
(***************************************************************************)
(* The nonce store of the feedback server (feedback/auth.py 48-81).        *)
(* check_and_record runs under a lock, so a call is one step.              *)
(***************************************************************************)
EXTENDS Integers, FiniteSets

CONSTANTS
  Nonce,     \* the nonces of requests
  Ttl,       \* how long a nonce is remembered, 600 s in the code
  Capacity   \* the number of nonces kept, 10,000 in the code

VARIABLES
  now,       \* time.time()
  store,     \* the expiry of each nonce kept
  evicted    \* history variable: a nonce was dropped before its expiry

Live_Mutant ==   \* a nonce is already gone at its expiry
  {n \in DOMAIN store : store[n] > now}

\* Expired nonces go first; one that expires now is still there.
Live == {n \in DOMAIN store : store[n] >= now}

IsReplay(n) == n \in Live

Kept_Mutant ==   \* makes room one nonce early
  IF Cardinality(Live) + 1 < Capacity
  THEN {Live}
  ELSE {Live \ {o} : o \in {m \in Live : \A k \in Live : store[m] <= store[k]}}

\* The capacity makes room by dropping a nonce that expires first.
Kept ==
  IF Cardinality(Live) < Capacity
  THEN {Live}
  ELSE {Live \ {o} : o \in {m \in Live : \A k \in Live : store[m] <= store[k]}}

RejectReplay(n) ==
  /\ IsReplay(n)
  /\ store' = [m \in Live |-> store[m]]
  /\ UNCHANGED evicted

RecordNonce(n) ==
  /\ ~IsReplay(n)
  /\ \E kept \in Kept :
       /\ store' = [m \in kept \union {n} |-> IF m = n THEN now + Ttl ELSE store[m]]
       /\ evicted' = (evicted \/ kept # Live)

StoreReset == store' = [n \in {} |-> 0] /\ evicted' = FALSE

StoreInit == store = [n \in {} |-> 0] /\ evicted = FALSE
=============================================================================
