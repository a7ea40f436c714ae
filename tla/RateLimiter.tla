---------------------------- MODULE RateLimiter ----------------------------
(***************************************************************************)
(* The sliding-window rate limiter of the feedback server                  *)
(* (feedback/ratelimit.py).  check runs under a lock, so a call is one      *)
(* step.  now is the real time; the clock the server reads may be stepped   *)
(* back and then lags behind it.  The fail-open handler has no error to    *)
(* catch here.                                                             *)
(***************************************************************************)
EXTENDS Integers, Sequences, FiniteSets

CONSTANTS
  Ip,              \* the source addresses
  PerIpLimit,      \* _PER_IP_LIMIT
  Burst,           \* _PER_IP_BURST
  GlobalLimit,     \* _GLOBAL_LIMIT
  Window,          \* _WINDOW
  EvictionWindow,  \* _EVICTION_WINDOW
  MaxLag,          \* by how much the clock may be stepped back in all
  MaxTime          \* bound: the last instant of a behaviour

ASSUME RateLimiterAssumption ==
  /\ PerIpLimit \in Nat \ {0} /\ Burst \in Nat /\ GlobalLimit \in Nat \ {0}
  /\ Window \in Nat /\ EvictionWindow \in Nat /\ Window <= EvictionWindow
  /\ MaxLag \in Nat /\ MaxTime \in Nat

VARIABLES
  now,           \* the real time
  lag,           \* by how much the clock has been stepped back
  ipWindows,     \* the clock readings of the admitted requests of each tracked address
  globalWindow,  \* the clock readings of all admitted requests
  answer,        \* the last answer of check
  admitted       \* history variable: every admitted request, in real time

limiter == <<ipWindows, globalWindow, answer, admitted>>
vars == <<now, lag, limiter>>

\* time.time()
Clock == now - lag

-----------------------------------------------------------------------------
Purge_Mutant(w, cutoff) ==   \* drops the instant at the cutoff as well
  SelectSeq(w, LAMBDA t : t > cutoff)

\* _purge_window pops from the left while the head is before the cutoff.
Purge(w, cutoff) ==
  LET kept == {i \in DOMAIN w : w[i] >= cutoff} IN
    IF kept = {} THEN <<>>
    ELSE SubSeq(w, CHOOSE i \in kept : \A j \in kept : i <= j, Len(w))

PurgeStaleIps_Mutant(cutoff) ==   \* purges, but forgets to delete the empty ones
  [ip \in DOMAIN ipWindows |-> Purge(ipWindows[ip], cutoff)]

\* _purge_stale_ips also deletes the addresses left without an instant.
PurgeStaleIps(cutoff) ==
  [ip \in {i \in DOMAIN ipWindows : Purge(ipWindows[i], cutoff) # <<>>}
     |-> Purge(ipWindows[ip], cutoff)]

\* A missing address has an empty window (defaultdict).
WindowOf(windows, ip) == IF ip \in DOMAIN windows THEN windows[ip] ELSE <<>>

Put(windows, ip, w) ==
  [i \in DOMAIN windows \union {ip} |-> IF i = ip THEN w ELSE windows[i]]

CallerWindow_Mutant(ip) ==   \* only the eviction purge
  WindowOf(PurgeStaleIps(Clock - EvictionWindow), ip)

CallerWindow(ip) ==
  Purge(WindowOf(PurgeStaleIps(Clock - EvictionWindow), ip), Clock - Window)

RecentGlobal == Purge(globalWindow, Clock - Window)

Answer(ip, outcome) == answer' = [ip |-> ip, outcome |-> outcome, at |-> now]

\* The circuit breaker answers first and touches no address.
GlobalExceeded(ip) ==
  /\ Len(RecentGlobal) >= GlobalLimit
  /\ globalWindow' = RecentGlobal
  /\ Answer(ip, "global_exceeded")
  /\ UNCHANGED <<ipWindows, admitted>>

PerIpExceeded(ip) ==
  /\ Len(RecentGlobal) < GlobalLimit
  /\ Len(CallerWindow(ip)) >= PerIpLimit + Burst
  /\ globalWindow' = RecentGlobal
  /\ ipWindows' = Put(PurgeStaleIps(Clock - EvictionWindow), ip, CallerWindow(ip))
  /\ Answer(ip, "per_ip_exceeded")
  /\ UNCHANGED admitted

Allowed_Mutant(ip) ==   \* the global window is not charged
  /\ Len(RecentGlobal) < GlobalLimit
  /\ Len(CallerWindow(ip)) < PerIpLimit + Burst
  /\ globalWindow' = RecentGlobal
  /\ ipWindows' = Put(PurgeStaleIps(Clock - EvictionWindow), ip, Append(CallerWindow(ip), Clock))
  /\ Answer(ip, "allowed")
  /\ admitted' = Append(admitted, [ip |-> ip, at |-> now])

Allowed_Expiry_Mutant(ip) ==   \* stores when the request expires, not when it came
  /\ Len(RecentGlobal) < GlobalLimit
  /\ Len(CallerWindow(ip)) < PerIpLimit + Burst
  /\ globalWindow' = Append(RecentGlobal, Clock + Window)
  /\ ipWindows' = Put(PurgeStaleIps(Clock - EvictionWindow), ip, Append(CallerWindow(ip), Clock))
  /\ Answer(ip, "allowed")
  /\ admitted' = Append(admitted, [ip |-> ip, at |-> now])

Allowed(ip) ==
  /\ Len(RecentGlobal) < GlobalLimit
  /\ Len(CallerWindow(ip)) < PerIpLimit + Burst
  /\ globalWindow' = Append(RecentGlobal, Clock)
  /\ ipWindows' = Put(PurgeStaleIps(Clock - EvictionWindow), ip, Append(CallerWindow(ip), Clock))
  /\ Answer(ip, "allowed")
  /\ admitted' = Append(admitted, [ip |-> ip, at |-> now])

Refused(ip) == GlobalExceeded(ip) \/ PerIpExceeded(ip)

Check(ip) == Refused(ip) \/ Allowed(ip)

Tick ==
  /\ now < MaxTime
  /\ now' = now + 1
  /\ UNCHANGED <<lag, limiter>>

\* The clock is set back; it never jumps forward.
StepBack ==
  /\ lag < MaxLag
  /\ lag' = lag + 1
  /\ UNCHANGED <<now, limiter>>

LimiterInit ==
  /\ ipWindows = [ip \in {} |-> <<>>]
  /\ globalWindow = <<>>
  /\ answer = [ip |-> "none", outcome |-> "none", at |-> 0]
  /\ admitted = <<>>

\* A new process starts with empty windows.
LimiterReset ==
  /\ ipWindows' = [ip \in {} |-> <<>>]
  /\ globalWindow' = <<>>
  /\ answer' = [ip |-> "none", outcome |-> "none", at |-> 0]
  /\ admitted' = <<>>

Init == now = 0 /\ lag = 0 /\ LimiterInit

Next == Tick \/ StepBack \/ \E ip \in Ip : Check(ip) /\ UNCHANGED <<now, lag>>

Spec == Init /\ [][Next]_vars

-----------------------------------------------------------------------------
(* Properties *)

Outcome == {"none", "allowed", "per_ip_exceeded", "global_exceeded"}

Reading == (0 - MaxLag)..MaxTime

TypeOK ==
  /\ now \in 0..MaxTime
  /\ lag \in 0..MaxLag
  /\ DOMAIN ipWindows \subseteq Ip
  /\ \A ip \in DOMAIN ipWindows : ipWindows[ip] \in Seq(Reading)
  /\ globalWindow \in Seq(Reading)
  /\ answer.outcome \in Outcome
  /\ admitted \in Seq([ip : Ip, at : 0..now])

\* The admitted requests of some addresses in the closed interval [from, to].
Between(ips, from, to) ==
  {k \in DOMAIN admitted :
     admitted[k].ip \in ips /\ from <= admitted[k].at /\ admitted[k].at <= to}

\* No address gets more than its limit and burst through in any interval of
\* Window seconds of real time, both ends included, also when the clock is
\* stepped back within it (feedback/ratelimit.py 41-56).
PerIpLimited ==
  \A ip \in Ip, t \in 0..now :
    Cardinality(Between({ip}, t - Window, t)) <= PerIpLimit + Burst

\* The circuit breaker bounds all addresses together in the same sense
\* (feedback/ratelimit.py 44-46).
GlobalLimited ==
  \A t \in 0..now : Cardinality(Between(Ip, t - Window, t)) <= GlobalLimit

\* A refusal is never the leftover of an older interval: the address, or all
\* of them, really is at its limit.  A clock that was stepped back can
\* prolong a refusal, by no more than the step (feedback/ratelimit.py 41-52).
RefusalJustified ==
  LET since == answer.at - Window - lag IN
    /\ answer.outcome = "per_ip_exceeded"
         => Cardinality(Between({answer.ip}, since, answer.at)) >= PerIpLimit + Burst
    /\ answer.outcome = "global_exceeded"
         => Cardinality(Between(Ip, since, answer.at)) >= GlobalLimit

\* Memory is bounded by the recent traffic: an address without an admitted
\* request in the last EvictionWindow seconds, and as many as the clock was
\* stepped back by, is forgotten by the next check that passes the circuit
\* breaker (feedback/ratelimit.py 48, 66-73).
TrackedIpsActive ==
  answer.outcome \in {"allowed", "per_ip_exceeded"}
    => \A ip \in DOMAIN ipWindows :
         Between({ip}, answer.at - EvictionWindow - lag, answer.at) # {}
=============================================================================
