--------------------------- MODULE FeedbackServer ---------------------------
(***************************************************************************)
(* The feedback webhook server (feedback/server.py): one request at a time *)
(* goes through the rate limiter, the authentication, the nonce store, the *)
(* validation and the feedback store (feedback/store.py).                  *)
(*                                                                         *)
(* A client signs a message, its timestamp and body, once.  The nonce is a  *)
(* header beside it that the signature does not cover: the message may     *)
(* come any number of times, early or late, under any nonce.  The server   *)
(* may be restarted between any two steps and then forgets its windows and *)
(* nonces.                                                                 *)
(* The server's clock is not stepped back here; RateLimiter.tla has that.  *)
(***************************************************************************)
EXTENDS Integers, Sequences, FiniteSets

CONSTANTS
  Message,     \* the signed messages
  Nonce,       \* the values of the nonce header
  Valid,       \* those whose body passes the validation
  Ip, PerIpLimit, Burst, GlobalLimit, Window, EvictionWindow,
  Fresh,       \* max_age_seconds of verify_timestamp
  Ttl, Capacity,
  SourceIp,    \* the address of each message
  Skew,        \* how far a client's clock may be off
  MaxPause,    \* the time between the two clock readings of one request's
               \* authentication, in verify_timestamp and in the nonce store
  MaxLife,     \* bound: the number of the last life of the server
  MaxTime,     \* bound: the last instant of a behaviour
  Nil          \* no timestamp, no request

ASSUME FeedbackAssumption ==
  /\ Valid \subseteq Message
  /\ SourceIp \in [Message -> Ip]
  /\ PerIpLimit \in Nat \ {0} /\ Burst \in Nat /\ GlobalLimit \in Nat \ {0}
  /\ Window \in Nat /\ EvictionWindow \in Nat /\ Window <= EvictionWindow
  /\ Ttl \in Nat /\ Capacity \in Nat \ {0}
  /\ Fresh \in Nat /\ Skew \in Nat /\ MaxPause \in Nat
  /\ MaxLife \in Nat \ {0} /\ MaxTime \in Nat
  /\ Nil \notin [message : Message, nonce : Nonce]

VARIABLES
  now,
  ipWindows, globalWindow, answer, admitted,   \* the rate limiter
  store, evicted,                              \* the nonce store
  timestamp,   \* the timestamp each message was signed with, or Nil
  step,        \* where the handler is
  current,     \* the request being handled
  verifiedAt,  \* when its timestamp was verified
  life,        \* how often the server has been started
  saved,       \* the feedback files written, oldest first
  acked        \* history variable: the requests answered 200

Limiter == INSTANCE RateLimiter WITH lag <- 0, MaxLag <- 0
Nonces == INSTANCE NonceStore

limiter == <<ipWindows, globalWindow, answer, admitted>>
nonces == <<store, evicted>>
handler == <<step, current, verifiedAt>>
vars == <<now, limiter, nonces, timestamp, handler, life, saved, acked>>

\* A message with the nonce it comes under.
Request == [message : Message, nonce : Nonce]

-----------------------------------------------------------------------------
(* The client and the clock *)

\* The client signs the message with its own clock.
Sign(m) ==
  /\ timestamp[m] = Nil
  /\ \E ts \in (now - Skew)..(now + Skew) : timestamp' = [timestamp EXCEPT ![m] = ts]
  /\ UNCHANGED <<now, limiter, nonces, handler, life, saved, acked>>

Tick ==
  /\ now < MaxTime
  /\ step = "nonce" => now < verifiedAt + MaxPause
  /\ now' = now + 1
  /\ UNCHANGED <<limiter, nonces, timestamp, handler, life, saved, acked>>

-----------------------------------------------------------------------------
(* _handle_feedback, step by step *)

GoStep(s) == step' = s /\ UNCHANGED <<current, verifiedAt>>

Reply_Mutant(r, code) ==   \* the request stays around after its answer
  /\ acked' = IF code = 200 THEN acked \union {r} ELSE acked
  /\ step' = "idle"
  /\ verifiedAt' = 0
  /\ UNCHANGED current

Reply(r, code) ==
  /\ acked' = IF code = 200 THEN acked \union {r} ELSE acked
  /\ step' = "idle"
  /\ current' = Nil
  /\ verifiedAt' = 0

\* Step 1: a request, or a copy of it, arrives and passes the rate limiter.
Receive(r) ==
  /\ step = "idle"
  /\ timestamp[r.message] # Nil
  /\ Limiter!Allowed(SourceIp[r.message])
  /\ step' = "authenticate" /\ current' = r /\ UNCHANGED verifiedAt
  /\ UNCHANGED <<now, nonces, timestamp, life, saved, acked>>

\* It is refused with 429 or 503.
Throttle(r) ==
  /\ step = "idle"
  /\ timestamp[r.message] # Nil
  /\ Limiter!Refused(SourceIp[r.message])
  /\ UNCHANGED <<now, nonces, timestamp, handler, life, saved, acked>>

\* verify_timestamp
IsFresh(m) == now - timestamp[m] <= Fresh /\ timestamp[m] - now <= Fresh

\* Steps 2 to 4: headers and signature are in order, the timestamp decides.
Authenticate ==
  /\ step = "authenticate"
  /\ IF IsFresh(current.message)
     THEN /\ step' = "nonce" /\ verifiedAt' = now
          /\ UNCHANGED <<current, acked>>
     ELSE Reply(current, 401)
  /\ UNCHANGED <<now, limiter, nonces, timestamp, life, saved>>

\* Step 5
CheckNonce ==
  /\ step = "nonce"
  /\ \/ Nonces!RecordNonce(current.nonce) /\ GoStep("validate") /\ UNCHANGED acked
     \/ Nonces!RejectReplay(current.nonce) /\ Reply(current, 409)
  /\ UNCHANGED <<now, limiter, timestamp, life, saved>>

\* Step 6: the JSON body and its fields.
Validate ==
  /\ step = "validate"
  /\ IF current.message \in Valid
     THEN GoStep("persist") /\ UNCHANGED acked
     ELSE Reply(current, 400)
  /\ UNCHANGED <<now, limiter, nonces, timestamp, life, saved>>

\* Step 7, save_feedback: the file of a new feedback_id is opened ...
OpenFile ==
  /\ step = "persist"
  /\ saved' = Append(saved, [request |-> current, life |-> life, whole |-> FALSE])
  /\ GoStep("write")
  /\ UNCHANGED <<now, limiter, nonces, timestamp, life, acked>>

\* ... and written.
WriteFile ==
  /\ step = "write"
  /\ saved' = [saved EXCEPT ![Len(saved)].whole = TRUE]
  /\ GoStep("acknowledge")
  /\ UNCHANGED <<now, limiter, nonces, timestamp, life, acked>>

\* An exception anywhere in the handler, such as a failed mkdir, chmod or
\* write_text: 500, and what has been done so far stays done.
HandlerFails ==
  /\ step # "idle"
  /\ Reply(current, 500)
  /\ UNCHANGED <<now, limiter, nonces, timestamp, life, saved>>

Acknowledge_Mutant ==   \* answers before the file is written
  /\ step = "write"
  /\ Reply(current, 200)
  /\ UNCHANGED <<now, limiter, nonces, timestamp, life, saved>>

Acknowledge ==
  /\ step = "acknowledge"
  /\ Reply(current, 200)
  /\ UNCHANGED <<now, limiter, nonces, timestamp, life, saved>>

\* The process is killed and started again: only the files remain.
Restart ==
  /\ life < MaxLife
  /\ life' = life + 1
  /\ Limiter!LimiterReset
  /\ Nonces!StoreReset
  /\ step' = "idle" /\ current' = Nil /\ verifiedAt' = 0
  /\ UNCHANGED <<now, timestamp, saved, acked>>

Init ==
  /\ now = 0
  /\ Limiter!LimiterInit
  /\ Nonces!StoreInit
  /\ timestamp = [m \in Message |-> Nil]
  /\ step = "idle" /\ current = Nil /\ verifiedAt = 0
  /\ life = 1
  /\ saved = <<>>
  /\ acked = {}

Handle ==
  \/ Authenticate \/ CheckNonce \/ Validate
  \/ OpenFile \/ WriteFile \/ HandlerFails \/ Acknowledge

Next ==
  \/ Tick \/ Restart \/ Handle
  \/ \E m \in Message : Sign(m)
  \/ \E r \in Request : Receive(r) \/ Throttle(r)

Spec == Init /\ [][Next]_vars

-----------------------------------------------------------------------------
(* Properties *)

Steps == {"idle", "authenticate", "nonce", "validate", "persist", "write", "acknowledge"}

TypeOK ==
  /\ now \in 0..MaxTime
  /\ timestamp \in [Message -> (0 - Skew)..(MaxTime + Skew) \union {Nil}]
  /\ step \in Steps
  /\ current \in Request \union {Nil}
  /\ verifiedAt \in 0..now
  /\ (step = "idle") = (current = Nil)
  /\ life \in 1..MaxLife
  /\ DOMAIN store \subseteq Nonce
  /\ \A n \in DOMAIN store : store[n] \in Ttl..now + Ttl
  /\ saved \in Seq([request : Request, life : 1..MaxLife, whole : BOOLEAN])
  /\ acked \subseteq Request

\* However often a request is sent again under its nonce, one life of the
\* server saves it at most once: its nonce is remembered to the last instant at
\* which a copy can pass, the pause between the two clock readings included, as
\* long as Ttl covers the Fresh seconds after the timestamp, that pause and
\* what the client's clock is ahead (feedback/auth.py 36-81).  The same message
\* under another nonce is another request.
SavedOncePerLife ==
  \A i, j \in DOMAIN saved :
    saved[i].request = saved[j].request /\ saved[i].life = saved[j].life => i = j

\* A 200 is never given for a request whose file is not complete
\* (feedback/server.py 276-295).
AckedIsSaved ==
  \A r \in acked : \E i \in DOMAIN saved : saved[i].request = r /\ saved[i].whole

\* The rate limiter lets too few requests through for the store to drop a
\* nonce before its expiry (feedback/ratelimit.py 25-29, auth.py 76-78).
NeverEvictsLive == ~evicted
=============================================================================
