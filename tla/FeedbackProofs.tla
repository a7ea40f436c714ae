--------------------------- MODULE FeedbackProofs ---------------------------
(***************************************************************************)
(* Proofs about FeedbackServer for any messages, limits and times.         *)
(***************************************************************************)
EXTENDS FeedbackServer, FiniteSetTheorems, SequenceTheorems, TLAPS

\* What is proved about the rate limiter on its own, with a clock that is never
\* stepped back.
Limits == INSTANCE RateLimiterProofs WITH lag <- 0, MaxLag <- 0

SavedFile == [request : Request, life : 1..MaxLife, whole : BOOLEAN]

\* What the rest reads off the types.
LEMMA FeedbackFacts ==
  ASSUME TypeOK
  PROVE  /\ now \in Nat /\ life \in Nat /\ verifiedAt \in Nat
         /\ \A m \in Message : timestamp[m] # Nil => timestamp[m] \in Int
         /\ step # "idle" => current \in Request
         /\ current \in Request => current.message \in Message /\ current.nonce \in Nonce
         /\ saved \in Seq(SavedFile) /\ Len(saved) \in Nat /\ DOMAIN saved = 1..Len(saved)
         /\ \A i \in DOMAIN saved : saved[i] \in SavedFile /\ saved[i].life \in Nat
         /\ \A n \in DOMAIN store : n \in Nonce /\ store[n] \in Int
<1> USE FeedbackAssumption
<1>1. saved \in Seq(SavedFile)
  BY DEF TypeOK, SavedFile
<1>2. Len(saved) \in Nat /\ DOMAIN saved = 1..Len(saved) /\ saved \in [1..Len(saved) -> SavedFile]
  BY <1>1, LenProperties
<1>3. \A i \in DOMAIN saved : saved[i] \in SavedFile /\ saved[i].life \in Nat
  BY <1>2 DEF SavedFile
<1>4. \A m \in Message : timestamp[m] # Nil => timestamp[m] \in Int
  BY DEF TypeOK
<1>5. now \in Nat /\ life \in Nat /\ verifiedAt \in Nat
  BY DEF TypeOK
<1>6. step # "idle" => current \in Request
  BY DEF TypeOK
<1>7. \A n \in DOMAIN store : n \in Nonce /\ store[n] \in Int
  BY <1>5 DEF TypeOK
<1>8. current \in Request => current.message \in Message /\ current.nonce \in Nonce
  BY DEF Request
<1> QED
  BY <1>1, <1>2, <1>3, <1>4, <1>5, <1>6, <1>7, <1>8

\* What happens to the files in a step.
LEMMA FilesStep ==
  ASSUME TypeOK, [Next]_vars
  PROVE  \/ saved' = saved
         \/ step = "persist" /\ OpenFile
         \/ step = "write" /\ WriteFile
<1> USE DEF vars
<1>1. /\ \A m \in Message : Sign(m) => saved' = saved
      /\ \A r \in Request : Receive(r) \/ Throttle(r) => saved' = saved
  BY DEF Sign, Receive, Throttle
<1>2. CASE Tick \/ Restart
  BY <1>2 DEF Tick, Restart
<1>3. CASE Handle
  BY <1>3 DEF Handle, Authenticate, CheckNonce, Validate, OpenFile, WriteFile, HandlerFails, Acknowledge
<1> QED
  BY <1>1, <1>2, <1>3 DEF Next

\* The file that is opened comes last.
LEMMA OpenFacts ==
  ASSUME TypeOK, OpenFile
  PROVE  /\ saved' \in Seq(SavedFile)
         /\ Len(saved') = Len(saved) + 1 /\ DOMAIN saved' = 1..Len(saved) + 1
         /\ saved'[Len(saved) + 1] = [request |-> current, life |-> life, whole |-> FALSE]
         /\ \A i \in DOMAIN saved : i \in DOMAIN saved' /\ saved'[i] = saved[i]
         /\ current \in Request
<1> DEFINE file == [request |-> current, life |-> life, whole |-> FALSE]
<1>1. current \in Request /\ life \in 1..MaxLife /\ saved' = Append(saved, file)
  BY FeedbackFacts DEF OpenFile, TypeOK
<1>2. file \in SavedFile
  BY <1>1 DEF SavedFile
<1>3. saved \in Seq(SavedFile) /\ Len(saved) \in Nat /\ DOMAIN saved = 1..Len(saved)
  BY FeedbackFacts
<1> HIDE DEF file
<1>4. /\ saved' \in Seq(SavedFile) /\ Len(saved') = Len(saved) + 1
      /\ \A i \in 1..Len(saved) : saved'[i] = saved[i]
      /\ saved'[Len(saved) + 1] = file
  BY <1>1, <1>2, <1>3, AppendProperties
<1>5. DOMAIN saved' = 1..Len(saved) + 1
  BY <1>4, LenProperties
<1> QED
  BY <1>1, <1>3, <1>4, <1>5 DEF file

\* Writing completes the last file and leaves the others alone.
LEMMA WriteFacts ==
  ASSUME TypeOK, WriteFile
  PROVE  /\ saved' \in Seq(SavedFile) /\ Len(saved') = Len(saved) /\ DOMAIN saved' = DOMAIN saved
         /\ \A i \in DOMAIN saved :
              /\ saved'[i].request = saved[i].request /\ saved'[i].life = saved[i].life
              /\ saved[i].whole => saved'[i].whole
              /\ i = Len(saved) => saved'[i].whole
<1>1. /\ saved \in Seq(SavedFile) /\ Len(saved) \in Nat /\ DOMAIN saved = 1..Len(saved)
      /\ \A i \in DOMAIN saved : saved[i] \in SavedFile
  BY FeedbackFacts
<1>2. saved' = [saved EXCEPT ![Len(saved)].whole = TRUE]
  BY DEF WriteFile
<1>3. DOMAIN saved' = DOMAIN saved
  BY <1>2
<1>4. ASSUME NEW i \in DOMAIN saved
      PROVE  /\ saved'[i] = IF i = Len(saved) THEN [saved[i] EXCEPT !.whole = TRUE] ELSE saved[i]
             /\ saved'[i] \in SavedFile
             /\ saved'[i].request = saved[i].request /\ saved'[i].life = saved[i].life
             /\ saved[i].whole => saved'[i].whole
             /\ i = Len(saved) => saved'[i].whole
  <2>1. saved'[i] = IF i = Len(saved) THEN [saved[i] EXCEPT !.whole = TRUE] ELSE saved[i]
    BY <1>2
  <2>2. saved[i] \in SavedFile
    BY <1>1
  <2> QED
    BY <2>1, <2>2 DEF SavedFile
<1>5. saved' \in [1..Len(saved) -> SavedFile]
  BY <1>1, <1>2, <1>3, <1>4
<1>6. saved' \in Seq(SavedFile)
  BY <1>1, <1>5, SeqDef
<1>7. Len(saved') = Len(saved)
  BY <1>1, <1>3, <1>6, LenProperties
<1> QED
  BY <1>3, <1>4, <1>6, <1>7

-----------------------------------------------------------------------------
(***************************************************************************)
(* Types.                                                                  *)
(***************************************************************************)

LEMMA FeedbackTypeStart ==
  Init => TypeOK
<1> SUFFICES ASSUME Init PROVE TypeOK
  OBVIOUS
<1> USE FeedbackAssumption
<1>1. saved = <<>> /\ saved \in Seq(SavedFile)
  BY EmptySeq DEF Init
<1>2. DOMAIN store = {}
  BY DEF Init, Nonces!StoreInit
<1>3. timestamp \in [Message -> (0 - Skew)..(MaxTime + Skew) \union {Nil}]
  BY DEF Init
<1> QED
  BY <1>1, <1>2, <1>3 DEF Init, TypeOK, Steps, SavedFile

\* The nonce store keeps its type.
LEMMA NonceTypes ==
  ASSUME TypeOK, NEW m \in Nonce, Nonces!RecordNonce(m) \/ Nonces!RejectReplay(m)
  PROVE  DOMAIN store' \subseteq Nonce /\ \A n \in DOMAIN store' : store'[n] \in Ttl..now + Ttl
<1> USE FeedbackAssumption
<1>0. now \in Nat /\ DOMAIN store \subseteq Nonce /\ \A n \in DOMAIN store : store[n] \in Ttl..now + Ttl
  BY DEF TypeOK
<1>1. Nonces!Live \subseteq DOMAIN store
  BY DEF Nonces!Live
<1>2. CASE Nonces!RejectReplay(m)
  BY <1>0, <1>1, <1>2 DEF Nonces!RejectReplay
<1>3. CASE Nonces!RecordNonce(m)
  <2>1. PICK kept \in Nonces!Kept :
          store' = [n \in kept \union {m} |-> IF n = m THEN now + Ttl ELSE store[n]]
    BY <1>3 DEF Nonces!RecordNonce
  <2>2. kept \subseteq Nonces!Live
    BY DEF Nonces!Kept
  <2>3. now + Ttl \in Ttl..now + Ttl
    BY <1>0
  <2> QED
    BY <1>0, <1>1, <2>1, <2>2, <2>3
<1> QED
  BY <1>2, <1>3

LEMMA FeedbackTypeStep ==
  TypeOK /\ [Next]_vars => TypeOK'
<1> SUFFICES ASSUME TypeOK, [Next]_vars PROVE TypeOK'
  OBVIOUS
<1> USE FeedbackAssumption
<1>0. saved' \in Seq(SavedFile)
  BY FilesStep, OpenFacts, WriteFacts, FeedbackFacts
<1>1. CASE UNCHANGED vars
  BY <1>1 DEF vars, nonces, handler, TypeOK
<1>2. CASE Tick
  BY <1>2 DEF Tick, nonces, handler, TypeOK
<1>3. CASE Restart
  <2>1. DOMAIN store' = {}
    BY <1>3 DEF Restart, Nonces!StoreReset
  <2> QED
    BY <1>0, <1>3, <2>1 DEF Restart, TypeOK, Steps, SavedFile
<1>4. CASE Authenticate \/ Validate \/ HandlerFails \/ Acknowledge
  BY <1>4 DEF Authenticate, Validate, HandlerFails, Acknowledge, Reply, GoStep, nonces, TypeOK, Steps
<1>5. CASE OpenFile \/ WriteFile
  BY <1>0, <1>5 DEF OpenFile, WriteFile, GoStep, nonces, TypeOK, Steps, SavedFile
<1>6. CASE CheckNonce
  <2>1. step = "nonce" /\ current \in Request /\ current.nonce \in Nonce
    BY <1>6, FeedbackFacts DEF CheckNonce
  <2>2. DOMAIN store' \subseteq Nonce /\ \A n \in DOMAIN store' : store'[n] \in Ttl..now + Ttl
    BY <1>6, <2>1, NonceTypes DEF CheckNonce
  <2> QED
    BY <1>6, <2>1, <2>2 DEF CheckNonce, Reply, GoStep, TypeOK, Steps
<1>7. ASSUME NEW m \in Message, Sign(m)
      PROVE  TypeOK'
  <2>1. timestamp' \in [Message -> (0 - Skew)..(MaxTime + Skew) \union {Nil}]
    <3>1. PICK ts \in (now - Skew)..(now + Skew) : timestamp' = [timestamp EXCEPT ![m] = ts]
      BY <1>7 DEF Sign
    <3>2. ts \in (0 - Skew)..(MaxTime + Skew)
      BY DEF TypeOK
    <3> QED
      BY <3>1, <3>2 DEF TypeOK
  <2> QED
    BY <1>7, <2>1 DEF Sign, nonces, handler, TypeOK
<1>8. ASSUME NEW r \in Request, Receive(r) \/ Throttle(r)
      PROVE  TypeOK'
  <2>1. /\ step' \in Steps /\ current' \in Request \union {Nil} /\ verifiedAt' = verifiedAt
        /\ (step' = "idle") = (current' = Nil)
    <3>1. CASE Throttle(r)
      BY <3>1 DEF Throttle, handler, TypeOK
    <3>2. CASE Receive(r)
      <4>1. step' = "authenticate" /\ current' = r /\ verifiedAt' = verifiedAt
        BY <3>2 DEF Receive
      <4>2. r # Nil
        BY DEF Request
      <4> QED
        BY <4>1, <4>2 DEF Steps
    <3> QED
      BY <1>8, <3>1, <3>2
  <2>2. UNCHANGED <<now, store, timestamp, life, saved, acked>>
    BY <1>8 DEF Receive, Throttle, nonces
  <2> QED
    BY <2>1, <2>2 DEF TypeOK
<1> QED
  BY <1>1, <1>2, <1>3, <1>4, <1>5, <1>6, <1>7, <1>8 DEF Next, Handle

\* The server's variables keep their types (feedback/server.py 92-300).
THEOREM FeedbackTypeCorrect ==
  Spec => []TypeOK
BY FeedbackTypeStart, FeedbackTypeStep, PTL DEF Spec

-----------------------------------------------------------------------------
(***************************************************************************)
(* A 200 is given for a complete file only: the file opened last is the    *)
(* one of the request that is being handled, and whole before the answer.  *)
(***************************************************************************)

LastIsCurrent ==
  step \in {"write", "acknowledge"}
    => /\ saved # <<>> /\ saved[Len(saved)].request = current
       /\ step = "acknowledge" => saved[Len(saved)].whole

LEMMA AckStep ==
  ASSUME TypeOK, LastIsCurrent, AckedIsSaved, [Next]_vars
  PROVE  LastIsCurrent' /\ AckedIsSaved'
<1>0. /\ saved \in Seq(SavedFile) /\ Len(saved) \in Nat /\ DOMAIN saved = 1..Len(saved)
      /\ step # "idle" => current \in Request
  BY FeedbackFacts
<1>1. \/ saved' = saved
      \/ step = "persist" /\ OpenFile
      \/ step = "write" /\ WriteFile
  BY FilesStep
<1>2. \A r \in acked : \E i \in DOMAIN saved' : saved'[i].request = r /\ saved'[i].whole
  <2> SUFFICES ASSUME NEW r \in acked
               PROVE  \E i \in DOMAIN saved' : saved'[i].request = r /\ saved'[i].whole
    OBVIOUS
  <2>1. PICK i \in DOMAIN saved : saved[i].request = r /\ saved[i].whole
    BY DEF AckedIsSaved
  <2>2. CASE saved' = saved
    BY <2>1, <2>2
  <2>3. CASE OpenFile
    BY <2>1, <2>3, OpenFacts
  <2>4. CASE WriteFile
    BY <2>1, <2>4, WriteFacts
  <2> QED
    BY <1>1, <2>2, <2>3, <2>4
<1>3. CASE acked' = acked
  <2>1. AckedIsSaved'
    BY <1>2, <1>3 DEF AckedIsSaved
  <2>2. CASE step' \notin {"write", "acknowledge"}
    BY <2>1, <2>2 DEF LastIsCurrent
  <2>3. CASE OpenFile
    <3>1. /\ saved'[Len(saved')].request = current /\ Len(saved') # 0 /\ saved' \in Seq(SavedFile)
      BY <1>0, <2>3, OpenFacts
    <3>2. step' = "write" /\ current' = current
      BY <2>3 DEF OpenFile, GoStep
    <3> QED
      BY <2>1, <3>1, <3>2, EmptySeq DEF LastIsCurrent
  <2>4. CASE WriteFile
    <3>1. /\ step = "write" /\ step' = "acknowledge" /\ current' = current
      BY <2>4 DEF WriteFile, GoStep
    <3>2. saved # <<>> /\ saved[Len(saved)].request = current
      BY <3>1 DEF LastIsCurrent
    <3>3. Len(saved) \in DOMAIN saved
      BY <1>0, <3>2, EmptySeq
    <3>4. /\ saved'[Len(saved')].request = current /\ saved'[Len(saved')].whole
          /\ saved' \in Seq(SavedFile) /\ Len(saved') # 0
      BY <1>0, <2>4, <3>2, <3>3, WriteFacts
    <3> QED
      BY <2>1, <3>1, <3>4, EmptySeq DEF LastIsCurrent
  <2>5. CASE step' = step /\ current' = current /\ saved' = saved
    BY <2>1, <2>5 DEF LastIsCurrent
  <2>6. ASSUME Tick \/ UNCHANGED vars \/ (\E m \in Message : Sign(m))
               \/ (\E r \in Request : Throttle(r))
        PROVE  step' = step /\ current' = current /\ saved' = saved
    BY <2>6 DEF Tick, Sign, Throttle, handler, vars
  <2>7. ASSUME Restart \/ Authenticate \/ CheckNonce \/ Validate \/ HandlerFails \/ Acknowledge
               \/ \E r \in Request : Receive(r)
        PROVE  step' \notin {"write", "acknowledge"}
    BY <2>7 DEF Restart, Authenticate, CheckNonce, Validate, HandlerFails, Acknowledge, Receive,
                Reply, GoStep
  <2> QED
    BY <2>2, <2>3, <2>4, <2>5, <2>6, <2>7 DEF Next, Handle
<1>4. CASE acked' # acked
  <2>1. Acknowledge
    BY <1>4 DEF Next, Handle, Tick, Restart, Authenticate, CheckNonce, Validate, OpenFile,
                WriteFile, HandlerFails, Sign, Receive, Throttle, Reply, GoStep, vars
  <2>2. /\ step = "acknowledge" /\ step' = "idle" /\ acked' = acked \union {current} /\ saved' = saved
    BY <2>1 DEF Acknowledge, Reply
  <2>3. saved # <<>> /\ saved[Len(saved)].request = current /\ saved[Len(saved)].whole
    BY <2>2 DEF LastIsCurrent
  <2>4. Len(saved) \in DOMAIN saved
    BY <1>0, <2>3, EmptySeq
  <2>5. AckedIsSaved'
    BY <1>2, <2>2, <2>3, <2>4 DEF AckedIsSaved
  <2> QED
    BY <2>2, <2>5 DEF LastIsCurrent
<1> QED
  BY <1>3, <1>4

\* No request is answered 200 before its file is complete, for any messages
\* and whatever fails (feedback/server.py 276-295).
THEOREM AcknowledgedIsSaved ==
  Spec => []AckedIsSaved
<1>1. Init => LastIsCurrent /\ AckedIsSaved
  BY DEF Init, LastIsCurrent, AckedIsSaved
<1>2. TypeOK /\ LastIsCurrent /\ AckedIsSaved /\ [Next]_vars => LastIsCurrent' /\ AckedIsSaved'
  BY AckStep
<1> QED
  BY <1>1, <1>2, FeedbackTypeCorrect, PTL DEF Spec

-----------------------------------------------------------------------------
(***************************************************************************)
(* One life of the server saves a request once.                            *)
(***************************************************************************)

SavedNow(r) == \E i \in DOMAIN saved : saved[i].request = r /\ saved[i].life = life

\* The nonce of r has been recorded in this life, and r may have been saved.
Spent(r) == SavedNow(r) \/ (current = r /\ step \in {"validate", "persist"})

\* The last instant at which a copy of r can reach the nonce store.
LastChance(r) == timestamp[r.message] + Fresh + MaxPause

Remembered ==
  \A r \in Request :
    Spent(r) => /\ timestamp[r.message] # Nil
                /\ (r.nonce \in DOMAIN store /\ store[r.nonce] >= LastChance(r)) \/ now > LastChance(r)

\* A client's clock is ahead by Skew at most.
SignedInTime == \A m \in Message : timestamp[m] # Nil => timestamp[m] <= now + Skew

HandlerTimes ==
  step # "idle"
    => /\ timestamp[current.message] # Nil
       /\ step = "nonce" => /\ verifiedAt <= now /\ now <= verifiedAt + MaxPause
                            /\ verifiedAt - timestamp[current.message] <= Fresh
                            /\ timestamp[current.message] - verifiedAt <= Fresh

NotYetSaved == step \in {"validate", "persist"} => ~SavedNow(current)

PastLives == \A i \in DOMAIN saved : saved[i].life <= life

OnceInv ==
  TypeOK /\ Remembered /\ HandlerTimes /\ NotYetSaved /\ PastLives /\ SavedOncePerLife
  /\ SignedInTime

LEMMA SignedInTimeStep ==
  ASSUME TypeOK, SignedInTime, [Next]_vars
  PROVE  SignedInTime'
<1> USE FeedbackAssumption
<1>0. now \in Nat /\ \A m \in Message : timestamp[m] # Nil => timestamp[m] \in Int
  BY FeedbackFacts
<1>1. ASSUME NEW m \in Message, Sign(m)
      PROVE  SignedInTime'
  <2>1. PICK ts \in (now - Skew)..(now + Skew) : timestamp' = [timestamp EXCEPT ![m] = ts]
    BY <1>1 DEF Sign
  <2>2. now' = now /\ ts <= now + Skew
    BY <1>0, <1>1 DEF Sign
  <2>3. ASSUME NEW n \in Message, timestamp'[n] # Nil
        PROVE  timestamp'[n] <= now' + Skew
    <3>1. timestamp'[n] = IF n = m THEN ts ELSE timestamp[n]
      BY <2>1 DEF TypeOK
    <3> QED
      BY <2>2, <2>3, <3>1 DEF SignedInTime
  <2> QED
    BY <2>3 DEF SignedInTime
<1>2. ASSUME timestamp' = timestamp, now' = now \/ now' = now + 1
      PROVE  SignedInTime'
  <2> SUFFICES ASSUME NEW m \in Message, timestamp[m] # Nil
               PROVE  timestamp[m] <= now' + Skew
    BY <1>2 DEF SignedInTime
  <2>1. timestamp[m] <= now + Skew /\ timestamp[m] \in Int
    BY <1>0 DEF SignedInTime
  <2> QED
    BY <1>0, <1>2, <2>1
<1>3. ASSUME ~ \E m \in Message : Sign(m)
      PROVE  timestamp' = timestamp /\ (now' = now \/ now' = now + 1)
  BY <1>3 DEF Next, Handle, Tick, Restart, Authenticate, CheckNonce, Validate, OpenFile, WriteFile,
              HandlerFails, Acknowledge, Receive, Throttle, vars
<1> QED
  BY <1>1, <1>2, <1>3

\* The handler's times: a request gets to the nonce store in time.
LEMMA HandlerTimesStep ==
  ASSUME TypeOK, HandlerTimes, [Next]_vars
  PROVE  HandlerTimes'
<1> USE FeedbackAssumption
<1>0. /\ now \in Nat /\ verifiedAt \in Nat /\ MaxPause \in Nat
      /\ step # "idle" => current \in Request /\ current.message \in Message
  BY FeedbackFacts
<1>1. CASE step' = "idle"
  BY <1>1 DEF HandlerTimes
<1>2. CASE UNCHANGED vars \/ \E r \in Request : Throttle(r)
  BY <1>2 DEF vars, Throttle, handler, HandlerTimes
<1>3. CASE Tick
  <2>1. step' = step /\ current' = current /\ timestamp' = timestamp /\ verifiedAt' = verifiedAt
    BY <1>3 DEF Tick, handler
  <2>2. step = "nonce" => now' <= verifiedAt + MaxPause /\ verifiedAt <= now'
    BY <1>0, <1>3 DEF Tick, HandlerTimes
  <2> QED
    BY <2>1, <2>2 DEF HandlerTimes
<1>4. ASSUME NEW m \in Message, Sign(m)
      PROVE  HandlerTimes'
  <2>1. /\ timestamp[m] = Nil /\ step' = step /\ current' = current /\ verifiedAt' = verifiedAt /\ now' = now
        /\ \A n \in Message : n # m => timestamp'[n] = timestamp[n]
    BY <1>4 DEF Sign, handler, TypeOK
  <2>2. step # "idle" => timestamp'[current.message] = timestamp[current.message]
    BY <1>0, <2>1 DEF HandlerTimes
  <2> QED
    BY <2>1, <2>2 DEF HandlerTimes
<1>5. ASSUME NEW r \in Request, Receive(r)
      PROVE  HandlerTimes'
  BY <1>5 DEF Receive, HandlerTimes
<1>6. CASE Authenticate
  <2>1. CASE step' = "nonce"
    <3>1. /\ IsFresh(current.message) /\ verifiedAt' = now /\ now' = now /\ current' = current
          /\ timestamp' = timestamp /\ step = "authenticate"
      BY <1>6, <2>1 DEF Authenticate, Reply
    <3> QED
      BY <1>0, <3>1 DEF HandlerTimes, IsFresh
  <2>2. CASE step' # "nonce"
    BY <1>1, <1>6, <2>2 DEF Authenticate, Reply
  <2> QED
    BY <2>1, <2>2
<1>7. CASE CheckNonce \/ Validate \/ OpenFile \/ WriteFile
  <2>1. step # "idle" /\ timestamp' = timestamp
    BY <1>7 DEF CheckNonce, Validate, OpenFile, WriteFile
  <2>2. step' = "idle" \/ (current' = current /\ step' # "nonce")
    BY <1>7 DEF CheckNonce, Validate, OpenFile, WriteFile, GoStep, Reply
  <2> QED
    BY <1>1, <2>1, <2>2 DEF HandlerTimes
<1>8. ASSUME HandlerFails \/ Acknowledge \/ Restart
      PROVE  step' = "idle"
  BY <1>8 DEF HandlerFails, Acknowledge, Restart, Reply
<1> QED
  BY <1>1, <1>2, <1>3, <1>4, <1>5, <1>6, <1>7, <1>8 DEF Next, Handle

\* A request that passes the nonce store has not been saved in this life.
LEMMA PassesOnce ==
  ASSUME OnceInv, step = "nonce", Nonces!RecordNonce(current.nonce)
  PROVE  ~SavedNow(current)
<1> USE FeedbackAssumption
<1> SUFFICES ASSUME SavedNow(current) PROVE FALSE
  OBVIOUS
<1>0. TypeOK /\ Remembered /\ HandlerTimes
  BY DEF OnceInv
<1>1. /\ now \in Nat /\ verifiedAt \in Nat /\ current \in Request
      /\ \A n \in DOMAIN store : store[n] \in Int
  BY <1>0, FeedbackFacts
<1>2. timestamp[current.message] # Nil /\ timestamp[current.message] \in Int
  BY <1>0, <1>1, FeedbackFacts DEF HandlerTimes
<1>3. now <= verifiedAt + MaxPause /\ verifiedAt - timestamp[current.message] <= Fresh
  BY <1>0 DEF HandlerTimes
<1>4. LastChance(current) \in Int /\ now <= LastChance(current)
  BY <1>1, <1>2, <1>3 DEF LastChance
<1>5. (current.nonce \in DOMAIN store /\ store[current.nonce] >= LastChance(current)) \/ now > LastChance(current)
  BY <1>0, <1>1 DEF Remembered, Spent
<1>6. current.nonce \in DOMAIN store /\ store[current.nonce] >= now
  BY <1>1, <1>4, <1>5
<1>7. current.nonce \in Nonces!Live
  BY <1>6 DEF Nonces!Live
<1> QED
  BY <1>7 DEF Nonces!RecordNonce, Nonces!IsReplay

\* Only the opening of a file makes a message saved.
LEMMA SavedNowStep ==
  ASSUME TypeOK, PastLives, [Next]_vars, NEW r
  PROVE  /\ SavedNow(r)' => SavedNow(r) \/ (OpenFile /\ step = "persist" /\ r = current)
         /\ PastLives'
<1>0. life \in Nat /\ DOMAIN saved = 1..Len(saved) /\ \A i \in DOMAIN saved : saved[i].life \in Nat
  BY FeedbackFacts
<1>1. CASE Restart
  <2>1. life' = life + 1 /\ saved' = saved
    BY <1>1 DEF Restart
  <2>2. \A i \in DOMAIN saved : saved[i].life <= life /\ saved[i].life \in Nat
    BY <1>0 DEF PastLives
  <2>3. \A i \in DOMAIN saved : saved[i].life # life' /\ saved[i].life <= life'
    BY <1>0, <2>1, <2>2
  <2> QED
    BY <2>1, <2>3 DEF SavedNow, PastLives
<1>2. CASE ~Restart
  <2>1. life' = life
    BY <1>2 DEF Next, Handle, Tick, Authenticate, CheckNonce, Validate, OpenFile, WriteFile,
                HandlerFails, Acknowledge, Sign, Receive, Throttle, vars
  <2>2. CASE saved' = saved
    BY <2>1, <2>2 DEF SavedNow, PastLives
  <2>3. CASE OpenFile /\ step = "persist"
    <3>1. /\ DOMAIN saved' = 1..Len(saved) + 1 /\ Len(saved) \in Nat
          /\ saved'[Len(saved) + 1] = [request |-> current, life |-> life, whole |-> FALSE]
          /\ \A i \in DOMAIN saved : saved'[i] = saved[i]
      BY <2>3, OpenFacts, FeedbackFacts
    <3>2. \A i \in DOMAIN saved' : i \in DOMAIN saved \/ i = Len(saved) + 1
      BY <1>0, <3>1
    <3>3. saved'[Len(saved) + 1].request = current /\ saved'[Len(saved) + 1].life = life
      BY <3>1
    <3>4. SavedNow(r)' => SavedNow(r) \/ r = current
      BY <2>1, <3>1, <3>2, <3>3 DEF SavedNow
    <3>5. PastLives'
      BY <1>0, <2>1, <3>1, <3>2, <3>3 DEF PastLives
    <3> QED
      BY <2>3, <3>4, <3>5
  <2>4. CASE WriteFile
    BY <2>1, <2>4, WriteFacts DEF SavedNow, PastLives
  <2> QED
    BY <2>2, <2>3, <2>4, FilesStep
<1> QED
  BY <1>1, <1>2

\* A nonce that is recorded is remembered long enough, and as long as none is
\* evicted, the others stay.
LEMMA StoreRemembers ==
  ASSUME OnceInv, Skew + Fresh + MaxPause <= Ttl, step = "nonce", ~evicted',
         Nonces!RecordNonce(current.nonce) \/ Nonces!RejectReplay(current.nonce),
         NEW r \in Request, timestamp[r.message] # Nil, timestamp[r.message] \in Int,
         \/ r.nonce \in DOMAIN store /\ store[r.nonce] >= LastChance(r)
         \/ now > LastChance(r)
         \/ r = current /\ Nonces!RecordNonce(current.nonce)
  PROVE  (r.nonce \in DOMAIN store' /\ store'[r.nonce] >= LastChance(r)) \/ now > LastChance(r)
<1> USE FeedbackAssumption
<1>0. TypeOK /\ SignedInTime
  BY DEF OnceInv
<1>1. /\ now \in Nat /\ current \in Request /\ r.message \in Message
      /\ \A n \in DOMAIN store : store[n] \in Int
  BY <1>0, FeedbackFacts DEF Request
<1>2. LastChance(r) \in Int
  BY DEF LastChance
<1>3. CASE now > LastChance(r)
  BY <1>3
<1>4. CASE ~(now > LastChance(r)) /\ ~(r = current /\ Nonces!RecordNonce(current.nonce))
  <2>1. r.nonce \in DOMAIN store /\ store[r.nonce] >= LastChance(r) /\ store[r.nonce] \in Int
    BY <1>1, <1>4
  <2>2. r.nonce \in Nonces!Live
    <3>1. store[r.nonce] >= now
      BY <1>1, <1>2, <1>4, <2>1
    <3> QED
      BY <2>1, <3>1 DEF Nonces!Live
  <2>3. CASE Nonces!RejectReplay(current.nonce)
    BY <2>1, <2>2, <2>3 DEF Nonces!RejectReplay
  <2>4. CASE Nonces!RecordNonce(current.nonce)
    <3>1. PICK kept \in Nonces!Kept :
            /\ store' = [n \in kept \union {current.nonce} |-> IF n = current.nonce THEN now + Ttl ELSE store[n]]
            /\ evicted' = (evicted \/ kept # Nonces!Live)
      BY <2>4 DEF Nonces!RecordNonce
    <3>2. kept = Nonces!Live
      BY <3>1
    <3>3. r.nonce # current.nonce
      BY <2>2, <2>4 DEF Nonces!RecordNonce, Nonces!IsReplay
    <3>4. r.nonce \in DOMAIN store' /\ store'[r.nonce] = store[r.nonce]
      BY <2>2, <3>1, <3>2, <3>3
    <3> QED
      BY <2>1, <3>4
  <2> QED
    BY <2>3, <2>4
<1>5. CASE r = current /\ Nonces!RecordNonce(current.nonce)
  <2>1. PICK kept \in Nonces!Kept :
          store' = [n \in kept \union {current.nonce} |-> IF n = current.nonce THEN now + Ttl ELSE store[n]]
    BY <1>5 DEF Nonces!RecordNonce
  <2>2. r.nonce \in DOMAIN store' /\ store'[r.nonce] = now + Ttl
    BY <1>5, <2>1
  <2>3. timestamp[r.message] <= now + Skew
    BY <1>0, <1>1, <1>5 DEF SignedInTime
  <2>4. now + Ttl >= LastChance(r)
    BY <1>1, <2>3 DEF LastChance
  <2> QED
    BY <2>2, <2>4
<1> QED
  BY <1>3, <1>4, <1>5

LEMMA OnceStep ==
  ASSUME OnceInv, Skew + Fresh + MaxPause <= Ttl, NeverEvictsLive', [Next]_vars
  PROVE  OnceInv'
<1> USE FeedbackAssumption
<1>0. /\ TypeOK /\ Remembered /\ HandlerTimes /\ NotYetSaved /\ PastLives /\ SavedOncePerLife
      /\ SignedInTime
  BY DEF OnceInv
<1>1. TypeOK' /\ HandlerTimes' /\ PastLives' /\ SignedInTime'
  BY <1>0, FeedbackTypeStep, HandlerTimesStep, SavedNowStep, SignedInTimeStep
<1>2. /\ now \in Nat
      /\ step # "idle" => current \in Request
      /\ \A n \in DOMAIN store : store[n] \in Int
      /\ DOMAIN saved = 1..Len(saved) /\ Len(saved) \in Nat
      /\ \A m \in Message : timestamp[m] # Nil => timestamp[m] \in Int
  BY <1>0, FeedbackFacts DEF TypeOK
<1>3. \A r : SavedNow(r)' => SavedNow(r) \/ (OpenFile /\ step = "persist" /\ r = current)
  BY <1>0, SavedNowStep
<1>4. ASSUME NEW r \in Request, Spent(r)'
      PROVE  Spent(r) \/ (step = "nonce" /\ r = current /\ Nonces!RecordNonce(current.nonce))
  <2>1. CASE SavedNow(r)'
    BY <1>3, <2>1 DEF Spent
  <2>2. CASE current' = r /\ step' \in {"validate", "persist"}
    <3>1. CASE CheckNonce
      BY <2>2, <3>1 DEF CheckNonce, GoStep, Reply
    <3>2. CASE ~CheckNonce
      <4>1. current = r /\ step \in {"validate", "persist"}
        BY <2>2, <3>2 DEF Next, Handle, Tick, Restart, Authenticate, Validate, OpenFile, WriteFile,
                  HandlerFails, Acknowledge, Sign, Receive, Throttle, Reply, GoStep, handler, vars
      <4> QED
        BY <4>1 DEF Spent
    <3> QED
      BY <3>1, <3>2
  <2> QED
    BY <1>4, <2>1, <2>2 DEF Spent
<1>5. Remembered'
  <2> SUFFICES ASSUME NEW r \in Request, Spent(r)'
               PROVE  /\ timestamp'[r.message] # Nil
                      /\ (r.nonce \in DOMAIN store' /\ store'[r.nonce] >= LastChance(r)') \/ now' > LastChance(r)'
    BY DEF Remembered
  <2>1. Spent(r) \/ (step = "nonce" /\ r = current /\ Nonces!RecordNonce(current.nonce))
    BY <1>4
  <2>2. timestamp[r.message] # Nil /\ timestamp[r.message] \in Int /\ r.message \in Message
    <3>1. r.message \in Message
      BY DEF Request
    <3>2. timestamp[r.message] # Nil
      BY <1>0, <2>1 DEF Remembered, HandlerTimes
    <3> QED
      BY <1>2, <3>1, <3>2
  <2>3. timestamp'[r.message] = timestamp[r.message]
    <3>1. ASSUME NEW n \in Message, Sign(n)
          PROVE  timestamp'[r.message] = timestamp[r.message]
      BY <1>0, <2>2, <3>1 DEF Sign, TypeOK
    <3>2. ASSUME ~ \E n \in Message : Sign(n)
          PROVE  timestamp' = timestamp
      BY <3>2 DEF Next, Handle, Tick, Restart, Authenticate, CheckNonce, Validate, OpenFile, WriteFile,
                  HandlerFails, Acknowledge, Receive, Throttle, vars
    <3> QED
      BY <3>1, <3>2
  <2>4. LastChance(r)' = LastChance(r) /\ LastChance(r) \in Int
    BY <2>2, <2>3 DEF LastChance
  <2>5. CASE CheckNonce
    <3>1. Nonces!RecordNonce(current.nonce) \/ Nonces!RejectReplay(current.nonce)
      BY <2>5 DEF CheckNonce
    <3>2. step = "nonce" /\ now' = now /\ ~evicted'
      BY <2>5 DEF CheckNonce, NeverEvictsLive
    <3>3. \/ r.nonce \in DOMAIN store /\ store[r.nonce] >= LastChance(r)
          \/ now > LastChance(r)
          \/ r = current /\ Nonces!RecordNonce(current.nonce)
      BY <1>0, <2>1 DEF Remembered
    <3>4. (r.nonce \in DOMAIN store' /\ store'[r.nonce] >= LastChance(r)) \/ now > LastChance(r)
      BY <2>2, <3>1, <3>2, <3>3, StoreRemembers
    <3> QED
      BY <2>2, <2>3, <2>4, <3>2, <3>4
  <2>6. CASE Restart
    <3>1. ~SavedNow(r)'
      <4>1. life' = life + 1 /\ saved' = saved /\ life \in Nat
        BY <1>0, <2>6, FeedbackFacts DEF Restart
      <4>2. \A i \in DOMAIN saved : saved[i].life <= life /\ saved[i].life \in Nat
        BY <1>0, FeedbackFacts DEF PastLives
      <4>3. \A i \in DOMAIN saved : saved[i].life # life'
        BY <4>1, <4>2
      <4> QED
        BY <4>1, <4>3 DEF SavedNow
    <3>2. step' = "idle"
      BY <2>6 DEF Restart
    <3> QED
      BY <3>1, <3>2 DEF Spent
  <2>7. CASE ~CheckNonce /\ ~Restart
    <3>1. store' = store /\ (now' = now \/ now' = now + 1)
      BY <2>7 DEF Next, Handle, Tick, Authenticate, Validate, OpenFile, WriteFile,
                  HandlerFails, Acknowledge, Sign, Receive, Throttle, nonces, vars
    <3>2. Spent(r)
      <4>1. CASE SavedNow(r)'
        BY <1>3, <4>1 DEF Spent
      <4>2. CASE ~SavedNow(r)'
        <5>1. current' = r /\ step' \in {"validate", "persist"}
          BY <4>2 DEF Spent
        <5>2. current = r /\ step \in {"validate", "persist"}
          BY <2>7, <5>1 DEF Next, Handle, Tick, Authenticate, Validate, OpenFile, WriteFile,
                  HandlerFails, Acknowledge, Sign, Receive, Throttle, Reply, GoStep, handler, vars
        <5> QED
          BY <5>2 DEF Spent
      <4> QED
        BY <4>1, <4>2
    <3>3. (r.nonce \in DOMAIN store /\ store[r.nonce] >= LastChance(r)) \/ now > LastChance(r)
      BY <1>0, <3>2 DEF Remembered
    <3>4. now > LastChance(r) => now' > LastChance(r)
      BY <1>2, <2>4, <3>1
    <3> QED
      BY <2>2, <2>3, <2>4, <3>1, <3>3, <3>4
  <2> QED
    BY <2>5, <2>6, <2>7
<1>6. NotYetSaved'
  <2> SUFFICES ASSUME step' \in {"validate", "persist"}, SavedNow(current)'
               PROVE  FALSE
    BY DEF NotYetSaved
  <2>1. CASE step = "nonce" /\ Nonces!RecordNonce(current.nonce) /\ current' = current
    <3>1. ~SavedNow(current)
      BY <2>1, PassesOnce
    <3>2. SavedNow(current') \/ step = "persist"
      BY <1>3, <2>1 DEF SavedNow
    <3> QED
      BY <2>1, <3>1, <3>2
  <2>2. CASE step \in {"validate", "persist"} /\ current' = current /\ ~OpenFile
    <3>1. ~SavedNow(current)
      BY <1>0, <2>2 DEF NotYetSaved
    <3>2. SavedNow(current)' => SavedNow(current)
      BY <1>3, <2>2 DEF SavedNow
    <3> QED
      BY <3>1, <3>2
  <2>3. \/ step = "nonce" /\ Nonces!RecordNonce(current.nonce) /\ current' = current
        \/ step \in {"validate", "persist"} /\ current' = current /\ ~OpenFile
    BY DEF Next, Handle, Tick, Restart, Authenticate, CheckNonce, Validate, OpenFile, WriteFile,
           HandlerFails, Acknowledge, Sign, Receive, Throttle, Reply, GoStep, handler, vars
  <2> QED
    BY <2>1, <2>2, <2>3
<1>7. SavedOncePerLife'
  <2>1. CASE saved' = saved
    BY <1>0, <2>1 DEF SavedOncePerLife
  <2>2. CASE OpenFile /\ step = "persist"
    <3>1. /\ DOMAIN saved' = 1..Len(saved) + 1
          /\ saved'[Len(saved) + 1] = [request |-> current, life |-> life, whole |-> FALSE]
          /\ \A i \in DOMAIN saved : saved'[i] = saved[i]
      BY <1>0, <2>2, OpenFacts
    <3>2. \A i \in DOMAIN saved' : i \in DOMAIN saved \/ i = Len(saved) + 1
      BY <1>2, <3>1
    <3>3. \A i \in DOMAIN saved : ~(saved[i].request = current /\ saved[i].life = life)
      BY <1>0, <2>2 DEF NotYetSaved, SavedNow
    <3>4. saved'[Len(saved) + 1].request = current /\ saved'[Len(saved) + 1].life = life
      BY <3>1
    <3> SUFFICES ASSUME NEW i \in DOMAIN saved', NEW j \in DOMAIN saved',
                        saved'[i].request = saved'[j].request, saved'[i].life = saved'[j].life
                 PROVE  i = j
      BY DEF SavedOncePerLife
    <3>5. CASE i \in DOMAIN saved /\ j \in DOMAIN saved
      BY <1>0, <3>1, <3>5 DEF SavedOncePerLife
    <3>6. CASE i = Len(saved) + 1 /\ j = Len(saved) + 1
      BY <3>6
    <3>7. CASE i \in DOMAIN saved /\ j = Len(saved) + 1
      BY <3>1, <3>3, <3>4, <3>7
    <3>8. CASE i = Len(saved) + 1 /\ j \in DOMAIN saved
      BY <3>1, <3>3, <3>4, <3>8
    <3> QED
      BY <3>2, <3>5, <3>6, <3>7, <3>8
  <2>3. CASE WriteFile
    <3>1. DOMAIN saved' = DOMAIN saved
          /\ \A i \in DOMAIN saved : saved'[i].request = saved[i].request /\ saved'[i].life = saved[i].life
      BY <1>0, <2>3, WriteFacts
    <3> QED
      BY <1>0, <3>1 DEF SavedOncePerLife
  <2> QED
    BY <1>0, <2>1, <2>2, <2>3, FilesStep
<1> QED
  BY <1>1, <1>5, <1>6, <1>7 DEF OnceInv

\* One life of the server saves a request at most once, however often it is
\* sent again under its nonce and however the times fall, provided the nonces
\* live for the Fresh seconds after its timestamp, what the client's clock is
\* ahead and the pause between the two clock readings, and no live nonce is
\* evicted (feedback/auth.py 36-81).  With the code's 300 and 600 seconds the
\* lead and the pause may be 300 seconds together.
THEOREM SavesOnce ==
  ASSUME Skew + Fresh + MaxPause <= Ttl
  PROVE  Spec /\ []NeverEvictsLive => []SavedOncePerLife
<1>1. Init => OnceInv
  <2> SUFFICES ASSUME Init PROVE OnceInv
    OBVIOUS
  <2>1. DOMAIN saved = {} /\ step = "idle"
    BY DEF Init
  <2>2. \A r : ~Spent(r)
    BY <2>1 DEF Spent, SavedNow
  <2> QED
    BY <2>1, <2>2, FeedbackTypeStart
       DEF OnceInv, Init, Remembered, HandlerTimes, NotYetSaved, PastLives, SavedOncePerLife,
           SignedInTime
<1>2. OnceInv /\ NeverEvictsLive' /\ [Next]_vars => OnceInv'
  BY OnceStep
<1>3. OnceInv => SavedOncePerLife
  BY DEF OnceInv
<1> QED
  BY <1>1, <1>2, <1>3, PTL DEF Spec

-----------------------------------------------------------------------------
(***************************************************************************)
(* The store never drops a live nonce: a nonce belongs to an admitted      *)
(* request of its own, and the limiter admits few.                         *)
(***************************************************************************)

\* The server's steps are steps of the limiter, which the server restarts now
\* and then.
LimiterHolds == Limits!LimiterInv /\ Limits!GlobalLimited

LEMMA LimiterAssumption == Limits!RateLimiterAssumption
BY FeedbackAssumption DEF Limits!RateLimiterAssumption

\* The same definitions under the server's name and under that of the proofs.
LEMMA SameCheck ==
  ASSUME NEW i
  PROVE  /\ Limiter!Allowed(i) => Limits!Check(i)
         /\ Limiter!Refused(i) => Limits!Check(i)
BY DEF Limiter!Allowed, Limiter!Refused, Limiter!GlobalExceeded, Limiter!PerIpExceeded,
       Limiter!RecentGlobal, Limiter!CallerWindow, Limiter!WindowOf, Limiter!PurgeStaleIps,
       Limiter!Purge, Limiter!Put, Limiter!Answer, Limiter!Clock,
       Limits!Check, Limits!Allowed, Limits!Refused, Limits!GlobalExceeded, Limits!PerIpExceeded,
       Limits!RecentGlobal, Limits!CallerWindow, Limits!WindowOf, Limits!PurgeStaleIps,
       Limits!Purge, Limits!Put, Limits!Answer, Limits!Clock

LEMMA LimiterSteps ==
  ASSUME TypeOK, [Next]_vars
  PROVE  [Limits!Next]_Limits!vars \/ (Limits!LimiterInit' /\ now' = now)
<1> USE DEF Limits!vars, Limits!limiter
<1>1. ASSUME NEW r \in Request, Receive(r) \/ Throttle(r)
      PROVE  Limits!Next
  <2>1. SourceIp[r.message] \in Ip
    BY FeedbackAssumption DEF Request
  <2>2. Limits!Check(SourceIp[r.message]) /\ now' = now
    BY <1>1, SameCheck DEF Receive, Throttle
  <2> QED
    BY <2>1, <2>2 DEF Limits!Next
<1>2. CASE Tick
  BY <1>2 DEF Tick, limiter, Limits!Next, Limits!Tick
<1>3. CASE Restart
  BY <1>3 DEF Restart, Limiter!LimiterReset, Limits!LimiterInit
<1>4. CASE Handle
  BY <1>4 DEF Handle, Authenticate, CheckNonce, Validate, OpenFile, WriteFile, HandlerFails,
              Acknowledge, limiter
<1>5. ASSUME NEW m \in Message, Sign(m)
      PROVE  UNCHANGED Limits!vars
  BY <1>5 DEF Sign, limiter
<1>6. CASE UNCHANGED vars
  BY <1>6 DEF vars, limiter
<1> QED
  BY <1>1, <1>2, <1>3, <1>4, <1>5, <1>6 DEF Next

\* A limiter that has just started, in a server whose variables have their types.
LEMMA LimiterRestarts == TypeOK /\ Limits!LimiterInit => LimiterHolds
<1> SUFFICES ASSUME TypeOK, Limits!LimiterInit
             PROVE  LimiterHolds
  OBVIOUS
<1>1. now \in 0..MaxTime /\ 0 \in 0..0
  BY DEF TypeOK
<1> QED
  BY <1>1, LimiterAssumption, Limits!LimiterFresh, Limits!FreshLimits DEF LimiterHolds

LEMMA LimiterHoldsStep == TypeOK /\ TypeOK' /\ LimiterHolds /\ [Next]_vars => LimiterHolds'
<1> SUFFICES ASSUME TypeOK, TypeOK', LimiterHolds, [Next]_vars
             PROVE  LimiterHolds'
  OBVIOUS
<1>1. CASE [Limits!Next]_Limits!vars
  <2>1. Limits!LimiterInv /\ Limits!GlobalLimited
    BY DEF LimiterHolds
  <2>2. Limits!LimiterInv'
    BY <1>1, <2>1, LimiterAssumption, Limits!LimiterStep
  <2>3. Limits!GlobalLimited'
    BY <1>1, <2>1, <2>2, LimiterAssumption, Limits!LimitedStep
  <2> QED
    BY <2>2, <2>3 DEF LimiterHolds
<1>2. CASE Limits!LimiterInit'
  BY <1>2, LimiterRestarts, PTL
<1> QED
  BY <1>1, <1>2, LimiterSteps

\* The request in hand has been admitted and its nonce is not recorded.
InHand == step \in {"authenticate", "nonce"}

\* When the nonce was recorded.
RecordedAt(n) == store[n] - Ttl

\* Each nonce belongs to a request of its own, admitted no later than the nonce
\* was recorded; every later request was admitted no earlier than that.
AdmittedAs(g) ==
  /\ g \in [DOMAIN store -> DOMAIN admitted]
  /\ \A m, n \in DOMAIN store : g[m] = g[n] => m = n
  /\ \A m \in DOMAIN store :
       /\ admitted[g[m]].at <= RecordedAt(m) /\ RecordedAt(m) <= now
       /\ \A k \in DOMAIN admitted : g[m] < k => RecordedAt(m) <= admitted[k].at
       /\ InHand => g[m] # Len(admitted)

NonceTrace == (InHand => admitted # <<>>) /\ \E g : AdmittedAs(g)

\* The three instances of FiniteSets count alike.
LEMMA SameCount ==
  ASSUME NEW S
  PROVE  Limits!Cardinality(S) = Cardinality(S) /\ Nonces!Cardinality(S) = Cardinality(S)
<1>1. Limits!Cardinality(S) = Cardinality(S)
  BY DEF Limits!Cardinality, Cardinality
<1>2. Nonces!Cardinality(S) = Cardinality(S)
  BY DEF Nonces!Cardinality, Cardinality
<1> QED
  BY <1>1, <1>2

LEMMA TrafficFacts ==
  ASSUME TypeOK, LimiterHolds
  PROVE  /\ now \in Nat /\ Ttl \in Nat
         /\ admitted \in Seq(Limits!Request)
         /\ Len(admitted) \in Nat /\ DOMAIN admitted = 1..Len(admitted)
         /\ \A k \in DOMAIN admitted :
              admitted[k].ip \in Ip /\ admitted[k].at \in Nat /\ admitted[k].at <= now
         /\ \A n \in DOMAIN store : n \in Nonce /\ store[n] \in Int
         /\ \A t \in 0..now :
              Limits!Cardinality(Limits!During(admitted, Ip, t - Window, t)) <= GlobalLimit
<1>1. Limits!LimiterInv /\ Limits!GlobalLimited
  BY DEF LimiterHolds
<1>2. admitted \in Seq(Limits!Request) /\ \A k \in DOMAIN admitted : admitted[k].at <= now
  BY <1>1, LimiterAssumption, Limits!NowFacts
<1>3. /\ Len(admitted) \in Nat /\ DOMAIN admitted = 1..Len(admitted)
      /\ \A k \in DOMAIN admitted : admitted[k] \in Limits!Request /\ admitted[k].at \in Nat
  BY <1>2, LimiterAssumption, Limits!LogFacts
<1>4. \A k \in DOMAIN admitted : admitted[k].ip \in Ip
  BY <1>3 DEF Limits!Request
<1>5. \A t \in 0..now :
        Limits!Cardinality(Limits!During(admitted, Ip, t - Window, t)) <= GlobalLimit
  BY <1>1, LimiterAssumption, Limits!BetweenIsDuring DEF Limits!GlobalLimited
<1> QED
  BY <1>2, <1>3, <1>4, <1>5, FeedbackFacts, FeedbackAssumption

\* What a step does to the log of admitted requests, as far as nonces go.
LEMMA AdmittedStep ==
  ASSUME TypeOK, [Next]_vars
  PROVE  \/ /\ UNCHANGED <<admitted, store>>
            /\ InHand' => InHand
            /\ now' = now \/ now' = now + 1
         \/ \E m \in Message :
              /\ admitted' = Append(admitted, [ip |-> SourceIp[m], at |-> now])
              /\ UNCHANGED <<store, now>>
         \/ /\ InHand /\ ~InHand' /\ UNCHANGED <<admitted, now>>
            /\ current \in Request
            /\ Nonces!RecordNonce(current.nonce) \/ Nonces!RejectReplay(current.nonce)
         \/ admitted' = <<>> /\ DOMAIN store' = {} /\ ~InHand'
<1> USE DEF InHand
<1>1. ASSUME NEW r \in Request, Receive(r)
      PROVE  /\ r.message \in Message
             /\ admitted' = Append(admitted, [ip |-> SourceIp[r.message], at |-> now])
             /\ UNCHANGED <<store, now>>
  BY <1>1 DEF Request, Receive, Limiter!Allowed, nonces
<1>2. ASSUME NEW r \in Request, Throttle(r)
      PROVE  UNCHANGED <<admitted, store, step, now>>
  BY <1>2 DEF Throttle, Limiter!Refused, Limiter!GlobalExceeded, Limiter!PerIpExceeded, nonces, handler
<1>3. ASSUME NEW m \in Message, Sign(m)
      PROVE  UNCHANGED <<admitted, store, step, now>>
  BY <1>3 DEF Sign, limiter, nonces, handler
<1>4. CASE Tick
  BY <1>4 DEF Tick, limiter, nonces, handler
<1>5. CASE Restart
  BY <1>5 DEF Restart, Limiter!LimiterReset, Nonces!StoreReset
<1>6. CASE CheckNonce
  BY <1>6, FeedbackFacts DEF CheckNonce, Reply, GoStep, limiter
<1>7. CASE Authenticate \/ Validate \/ OpenFile \/ WriteFile \/ HandlerFails \/ Acknowledge
  BY <1>7 DEF Authenticate, Validate, OpenFile, WriteFile, HandlerFails, Acknowledge, Reply, GoStep,
              limiter, nonces
<1>8. CASE UNCHANGED vars
  BY <1>8 DEF vars, limiter, nonces, handler
<1> QED
  BY <1>1, <1>2, <1>3, <1>4, <1>5, <1>6, <1>7, <1>8 DEF Next, Handle

LEMMA NonceTraceStep ==
  ASSUME TypeOK, LimiterHolds, LimiterHolds', NonceTrace, [Next]_vars
  PROVE  NonceTrace'
<1>0. /\ now \in Nat /\ Ttl \in Nat
      /\ admitted \in Seq(Limits!Request)
      /\ Len(admitted) \in Nat /\ DOMAIN admitted = 1..Len(admitted)
      /\ \A k \in DOMAIN admitted : admitted[k].at \in Nat /\ admitted[k].at <= now
      /\ \A n \in DOMAIN store : n \in Nonce /\ store[n] \in Int
  BY TrafficFacts
<1>1. PICK g : AdmittedAs(g)
  BY DEF NonceTrace
<1>2. InHand => admitted # <<>>
  BY DEF NonceTrace
<1>3. CASE UNCHANGED <<admitted, store>> /\ (InHand' => InHand) /\ (now' = now \/ now' = now + 1)
  <2>1. AdmittedAs(g)'
    BY <1>0, <1>1, <1>3 DEF AdmittedAs, RecordedAt
  <2> QED
    BY <1>2, <1>3, <2>1 DEF NonceTrace
<1>4. ASSUME NEW m \in Message,
             admitted' = Append(admitted, [ip |-> SourceIp[m], at |-> now]),
             UNCHANGED <<store, now>>
      PROVE  NonceTrace'
  <2> DEFINE e == [ip |-> SourceIp[m], at |-> now]
  <2>1. e \in Limits!Request
    BY <1>0, FeedbackAssumption DEF Limits!Request
  <2>2. /\ Len(admitted') = Len(admitted) + 1
        /\ \A k \in 1..Len(admitted) : admitted'[k] = admitted[k]
        /\ admitted'[Len(admitted) + 1] = e
        /\ admitted' \in Seq(Limits!Request)
    BY <1>0, <1>4, <2>1, AppendProperties
  <2>3. DOMAIN admitted' = 1..Len(admitted) + 1 /\ admitted' # <<>>
    BY <1>0, <2>2, LenProperties, EmptySeq
  <2>4. admitted'[Len(admitted) + 1].at = now
    BY <2>2
  <2> HIDE DEF e
  <2>5. g \in [DOMAIN store' -> DOMAIN admitted']
    BY <1>0, <1>1, <1>4, <2>3 DEF AdmittedAs
  <2>6. \A n, o \in DOMAIN store' : g[n] = g[o] => n = o
    BY <1>1, <1>4 DEF AdmittedAs
  <2>7. ASSUME NEW n \in DOMAIN store'
        PROVE  /\ admitted'[g[n]].at <= RecordedAt(n)' /\ RecordedAt(n)' <= now'
               /\ \A k \in DOMAIN admitted' : g[n] < k => RecordedAt(n)' <= admitted'[k].at
               /\ g[n] # Len(admitted')
    <3>1. /\ n \in DOMAIN store /\ g[n] \in 1..Len(admitted) /\ RecordedAt(n)' = RecordedAt(n)
          /\ admitted[g[n]].at <= RecordedAt(n) /\ RecordedAt(n) <= now
          /\ \A k \in DOMAIN admitted : g[n] < k => RecordedAt(n) <= admitted[k].at
      BY <1>0, <1>1, <1>4 DEF AdmittedAs, RecordedAt
    <3>2. \A k \in DOMAIN admitted' : k \in 1..Len(admitted) \/ k = Len(admitted) + 1
      BY <1>0, <2>3
    <3> QED
      BY <1>0, <1>4, <2>2, <2>4, <3>1, <3>2
  <2>8. AdmittedAs(g)'
    BY <2>5, <2>6, <2>7 DEF AdmittedAs
  <2> QED
    BY <2>3, <2>8 DEF NonceTrace
<1>5. ASSUME InHand, ~InHand', UNCHANGED <<admitted, now>>, current \in Request,
             Nonces!RejectReplay(current.nonce)
      PROVE  NonceTrace'
  <2>1. store' = [n \in Nonces!Live |-> store[n]]
    BY <1>5 DEF Nonces!RejectReplay
  <2>2. DOMAIN store' \subseteq DOMAIN store /\ \A n \in DOMAIN store' : store'[n] = store[n]
    BY <2>1 DEF Nonces!Live
  <2> PICK f : f = [n \in DOMAIN store' |-> g[n]]
    OBVIOUS
  <2>3. f \in [DOMAIN store' -> DOMAIN admitted']
    BY <1>1, <1>5, <2>2 DEF AdmittedAs
  <2>4. AdmittedAs(f)'
    BY <1>1, <1>5, <2>2, <2>3 DEF AdmittedAs, RecordedAt
  <2> QED
    BY <1>5, <2>4 DEF NonceTrace
<1>6. ASSUME InHand, ~InHand', UNCHANGED <<admitted, now>>, current \in Request,
             Nonces!RecordNonce(current.nonce)
      PROVE  NonceTrace'
  <2>1. PICK kept \in Nonces!Kept :
          store' = [n \in kept \union {current.nonce} |-> IF n = current.nonce THEN now + Ttl ELSE store[n]]
    BY <1>6 DEF Nonces!RecordNonce
  <2>2. kept \subseteq DOMAIN store /\ current.nonce \notin kept
    BY <1>6 DEF Nonces!Kept, Nonces!Live, Nonces!RecordNonce, Nonces!IsReplay
  <2>3. /\ DOMAIN store' = kept \union {current.nonce}
        /\ store'[current.nonce] = now + Ttl
        /\ \A n \in kept : store'[n] = store[n]
    BY <2>1, <2>2
  <2>4. Len(admitted) \in DOMAIN admitted
    BY <1>0, <1>2, <1>6, EmptySeq
  <2> PICK f : f = [n \in DOMAIN store' |-> IF n = current.nonce THEN Len(admitted) ELSE g[n]]
    OBVIOUS
  <2>5. /\ f[current.nonce] = Len(admitted)
        /\ \A n \in kept : f[n] = g[n] /\ g[n] \in DOMAIN admitted /\ g[n] # Len(admitted)
    BY <1>1, <1>6, <2>2, <2>3 DEF AdmittedAs
  <2>6. f \in [DOMAIN store' -> DOMAIN admitted]
    BY <2>3, <2>4, <2>5
  <2>7. \A n, o \in DOMAIN store' : f[n] = f[o] => n = o
    BY <1>1, <2>2, <2>3, <2>5 DEF AdmittedAs
  <2>8. ASSUME NEW n \in DOMAIN store'
        PROVE  /\ admitted[f[n]].at <= RecordedAt(n)' /\ RecordedAt(n)' <= now
               /\ \A k \in DOMAIN admitted : f[n] < k => RecordedAt(n)' <= admitted[k].at
    <3>1. CASE n = current.nonce
      <4>1. RecordedAt(n)' = now
        BY <1>0, <2>3, <3>1 DEF RecordedAt
      <4>2. \A k \in DOMAIN admitted : ~(f[n] < k)
        BY <1>0, <2>5, <3>1
      <4>3. admitted[f[n]].at <= now
        BY <1>0, <2>4, <2>5, <3>1
      <4> QED
        BY <1>0, <4>1, <4>2, <4>3
    <3>2. CASE n \in kept
      <4>1. RecordedAt(n)' = RecordedAt(n) /\ f[n] = g[n] /\ n \in DOMAIN store
        BY <2>2, <2>3, <2>5, <3>2 DEF RecordedAt
      <4> QED
        BY <1>1, <4>1 DEF AdmittedAs
    <3> QED
      BY <2>3, <3>1, <3>2
  <2>9. AdmittedAs(f)'
    BY <1>6, <2>6, <2>7, <2>8 DEF AdmittedAs
  <2> QED
    BY <1>6, <2>9 DEF NonceTrace
<1>7. CASE admitted' = <<>> /\ DOMAIN store' = {} /\ ~InHand'
  <2> DEFINE f == [n \in {} |-> 0]
  <2>1. f \in [DOMAIN store' -> DOMAIN admitted']
    BY <1>7
  <2> HIDE DEF f
  <2>2. AdmittedAs(f)'
    BY <1>7, <2>1 DEF AdmittedAs
  <2> QED
    BY <1>7, <2>2 DEF NonceTrace
<1> QED
  BY <1>3, <1>4, <1>5, <1>6, <1>7, AdmittedStep

\* In Ttl seconds the limiter admits fewer requests than the store has places.
\* With the code's numbers ten windows of 60 seconds, both ends included, cover
\* the 600, and ten times 100 requests are fewer than 10,000.
TrafficFits == \E n \in Nat : Ttl < n * (Window + 1) /\ n * GlobalLimit < Capacity

\* The requests admitted in the last Ttl seconds.
RecentRequests == Limits!During(admitted, Ip, now - Ttl, now)

LEMMA FewRequests ==
  ASSUME TypeOK, LimiterHolds, TrafficFits
  PROVE  /\ IsFiniteSet(RecentRequests)
         /\ Cardinality(RecentRequests) \in Nat
         /\ Cardinality(RecentRequests) < Capacity
<1>0. /\ now \in Nat /\ Ttl \in Nat /\ Window \in Nat /\ GlobalLimit \in Nat /\ Capacity \in Nat
      /\ admitted \in Seq(Limits!Request)
      /\ Len(admitted) \in Nat /\ DOMAIN admitted = 1..Len(admitted)
      /\ \A t \in 0..now :
           Limits!Cardinality(Limits!During(admitted, Ip, t - Window, t)) <= GlobalLimit
  BY TrafficFacts, FeedbackAssumption
<1>1. PICK n \in Nat : Ttl < n * (Window + 1) /\ n * GlobalLimit < Capacity
  BY DEF TrafficFits
<1> DEFINE from == now + 1 - n * (Window + 1)
           span == n * (Window + 1)
           most == n * GlobalLimit
<1>2. Limits!Cardinality(Limits!During(admitted, Ip, from, now)) <= most
  BY <1>0, LimiterAssumption, Limits!ManyWindows
<1>3. span \in Nat /\ most \in Nat /\ Ttl < span /\ most < Capacity /\ from = now + 1 - span
  BY <1>0, <1>1
<1> HIDE DEF from, span, most
<1>4. from \in Int /\ now - Ttl \in Int /\ from <= now - Ttl
  BY <1>0, <1>3
<1>5. /\ RecentRequests \subseteq Limits!During(admitted, Ip, from, now)
      /\ Limits!During(admitted, Ip, from, now) \subseteq 1..Len(admitted)
  BY <1>0, <1>4, LimiterAssumption, Limits!EarlierStart, Limits!DuringFinite DEF RecentRequests
<1>6. IsFiniteSet(1..Len(admitted))
  BY <1>0, FS_Interval
<1>7. /\ IsFiniteSet(Limits!During(admitted, Ip, from, now))
      /\ IsFiniteSet(RecentRequests)
      /\ Cardinality(RecentRequests) <= Cardinality(Limits!During(admitted, Ip, from, now))
  BY <1>5, <1>6, FS_Subset
<1>8. /\ Cardinality(RecentRequests) \in Nat
      /\ Cardinality(Limits!During(admitted, Ip, from, now)) \in Nat
      /\ Cardinality(Limits!During(admitted, Ip, from, now)) <= most
  BY <1>2, <1>7, FS_CardinalityType, SameCount
<1> QED
  BY <1>0, <1>3, <1>7, <1>8

\* A live nonce was recorded within the last Ttl seconds, and so all but the
\* first of them belong to requests of that time, as does the one in hand.
LEMMA FewLive ==
  ASSUME TypeOK, LimiterHolds, NonceTrace, InHand, TrafficFits
  PROVE  Cardinality(Nonces!Live) < Capacity
<1> DEFINE live == Nonces!Live
<1>0. /\ now \in Nat /\ Ttl \in Nat
      /\ Len(admitted) \in Nat /\ DOMAIN admitted = 1..Len(admitted)
      /\ \A k \in DOMAIN admitted :
           admitted[k].ip \in Ip /\ admitted[k].at \in Nat /\ admitted[k].at <= now
      /\ \A n \in DOMAIN store : n \in Nonce /\ store[n] \in Int
  BY TrafficFacts
<1>1. PICK g : AdmittedAs(g)
  BY DEF NonceTrace
<1>2. /\ Len(admitted) \in DOMAIN admitted
      /\ \A m \in live : m \in DOMAIN store /\ g[m] \in DOMAIN admitted /\ g[m] # Len(admitted)
      /\ \A m \in live : RecordedAt(m) \in Int /\ now - Ttl <= RecordedAt(m)
      /\ \A m, n \in live : g[m] = g[n] => m = n
  <2>1. Len(admitted) \in DOMAIN admitted
    BY <1>0, EmptySeq DEF NonceTrace
  <2>2. \A m \in live : m \in DOMAIN store /\ store[m] >= now
    BY DEF Nonces!Live
  <2>3. \A m \in DOMAIN store : g[m] \in DOMAIN admitted /\ g[m] # Len(admitted)
    BY <1>1 DEF AdmittedAs
  <2>4. \A m, n \in DOMAIN store : g[m] = g[n] => m = n
    BY <1>1 DEF AdmittedAs
  <2>5. ASSUME NEW m \in live
        PROVE  RecordedAt(m) \in Int /\ now - Ttl <= RecordedAt(m)
    BY <1>0, <2>2 DEF RecordedAt
  <2> HIDE DEF live
  <2> QED
    BY <2>1, <2>2, <2>3, <2>4, <2>5
<1> HIDE DEF live
<1>3. CASE live = {}
  BY <1>3, FS_EmptySet, FeedbackAssumption DEF live
<1>4. CASE live # {}
  <2>1. PICK first \in live : \A m \in live : g[first] <= g[m]
    <3> DEFINE S == {g[m] : m \in live}
    <3>1. S \in SUBSET Nat /\ S # {}
      BY <1>0, <1>2, <1>4
    <3>2. PICK i \in S : \A j \in S : i <= j
      BY <3>1, LimiterAssumption, Limits!Smallest
    <3> QED
      BY <3>2
  <2> PICK f : f = [m \in live |-> IF m = first THEN Len(admitted) ELSE g[m]]
    OBVIOUS
  <2>2. ASSUME NEW m \in live
        PROVE  f[m] \in RecentRequests
    <3>1. f[m] \in DOMAIN admitted /\ g[first] < f[m]
      <4>1. CASE m = first
        BY <1>0, <1>2, <4>1
      <4>2. CASE m # first
        <5>1. g[m] # g[first] /\ g[first] <= g[m] /\ g[m] \in Nat /\ g[first] \in Nat
          BY <1>0, <1>2, <2>1, <4>2
        <5> QED
          BY <1>2, <4>2, <5>1
      <4> QED
        BY <4>1, <4>2
    <3>2. RecordedAt(first) <= admitted[f[m]].at
      BY <1>1, <1>2, <3>1 DEF AdmittedAs
    <3>3. /\ admitted[f[m]].at \in Nat /\ admitted[f[m]].at <= now /\ admitted[f[m]].ip \in Ip
          /\ RecordedAt(first) \in Int /\ now - Ttl <= RecordedAt(first)
      BY <1>0, <1>2, <3>1
    <3>4. now - Ttl <= admitted[f[m]].at
      BY <1>0, <3>2, <3>3
    <3> QED
      BY <3>1, <3>3, <3>4 DEF RecentRequests, Limits!During
  <2>3. \A m, n \in live : f[m] = f[n] => m = n
    BY <1>2
  <2>4. f \in Injection(live, RecentRequests)
    BY <2>2, <2>3 DEF Injection, IsInjective
  <2>5. /\ IsFiniteSet(RecentRequests) /\ Cardinality(RecentRequests) \in Nat
        /\ Cardinality(RecentRequests) < Capacity
    BY FewRequests
  <2>6. IsFiniteSet(live) /\ Cardinality(live) <= Cardinality(RecentRequests)
    BY <2>4, <2>5, FS_Injection
  <2>7. Cardinality(live) \in Nat
    BY <2>6, FS_CardinalityType
  <2>8. Cardinality(live) < Capacity
    BY <2>5, <2>6, <2>7, FeedbackAssumption
  <2> QED
    BY <2>8 DEF live
<1> QED
  BY <1>3, <1>4

StoreInv == TypeOK /\ LimiterHolds /\ NonceTrace

LEMMA StoreStart == Init => StoreInv
<1> SUFFICES ASSUME Init PROVE StoreInv
  OBVIOUS
<1>1. TypeOK
  BY FeedbackTypeStart
<1>2. Limits!LimiterInit
  BY DEF Init, Limiter!LimiterInit, Limits!LimiterInit
<1>3. LimiterHolds
  BY <1>1, <1>2, LimiterRestarts
<1>4. NonceTrace
  <2> DEFINE g == [m \in {} |-> 0]
  <2>1. DOMAIN store = {} /\ ~InHand
    BY DEF Init, Nonces!StoreInit, InHand
  <2>2. g \in [DOMAIN store -> DOMAIN admitted]
    BY <2>1
  <2> HIDE DEF g
  <2>3. AdmittedAs(g)
    BY <2>1, <2>2 DEF AdmittedAs
  <2> QED
    BY <2>1, <2>3 DEF NonceTrace
<1> QED
  BY <1>1, <1>3, <1>4 DEF StoreInv

LEMMA StoreStep == StoreInv /\ [Next]_vars => StoreInv'
<1>1. TypeOK /\ [Next]_vars => TypeOK'
  BY FeedbackTypeStep
<1>2. TypeOK /\ TypeOK' /\ LimiterHolds /\ [Next]_vars => LimiterHolds'
  BY LimiterHoldsStep
<1>3. TypeOK /\ LimiterHolds /\ LimiterHolds' /\ NonceTrace /\ [Next]_vars => NonceTrace'
  BY NonceTraceStep
<1> QED
  BY <1>1, <1>2, <1>3 DEF StoreInv

LEMMA NothingEvicted ==
  ASSUME TrafficFits, StoreInv, NeverEvictsLive, [Next]_vars
  PROVE  NeverEvictsLive'
<1>1. CASE CheckNonce
  <2>1. CASE Nonces!RecordNonce(current.nonce)
    <3>1. InHand
      BY <1>1 DEF CheckNonce, InHand
    <3>2. Nonces!Cardinality(Nonces!Live) < Capacity
      BY <3>1, FewLive, SameCount DEF StoreInv
    <3>3. Nonces!Kept = {Nonces!Live}
      BY <3>2 DEF Nonces!Kept
    <3> QED
      BY <2>1, <3>3 DEF Nonces!RecordNonce, NeverEvictsLive
  <2>2. CASE Nonces!RejectReplay(current.nonce)
    BY <2>2 DEF Nonces!RejectReplay, NeverEvictsLive
  <2> QED
    BY <1>1, <2>1, <2>2 DEF CheckNonce
<1>2. CASE Restart
  BY <1>2 DEF Restart, Nonces!StoreReset, NeverEvictsLive
<1>3. /\ \A m \in Message : Sign(m) => evicted' = evicted
      /\ \A r \in Request : Receive(r) \/ Throttle(r) => evicted' = evicted
  BY DEF Sign, Receive, Throttle, nonces
<1>4. CASE Authenticate \/ Validate \/ OpenFile \/ WriteFile \/ HandlerFails \/ Acknowledge
  BY <1>4 DEF Authenticate, Validate, OpenFile, WriteFile, HandlerFails, Acknowledge, nonces,
              NeverEvictsLive
<1>5. CASE Tick \/ UNCHANGED vars
  BY <1>5 DEF Tick, vars, nonces, NeverEvictsLive
<1> QED
  BY <1>1, <1>2, <1>3, <1>4, <1>5 DEF Next, Handle, NeverEvictsLive

\* As long as the limiter's windows admit fewer requests in Ttl seconds than the
\* store has places, no nonce is dropped before its expiry, whatever arrives,
\* fails or is restarted (feedback/ratelimit.py 25-29, auth.py 76-78).
THEOREM StoreNeverFull ==
  ASSUME TrafficFits
  PROVE  Spec => []NeverEvictsLive
<1>1. Init => StoreInv /\ NeverEvictsLive
  BY StoreStart DEF Init, Nonces!StoreInit, NeverEvictsLive
<1>2. StoreInv /\ NeverEvictsLive /\ [Next]_vars => StoreInv' /\ NeverEvictsLive'
  BY StoreStep, NothingEvicted
<1> QED
  BY <1>1, <1>2, PTL DEF Spec

\* With the limiter, the nonces and the timestamps working together, a life of
\* the server saves a request once, however often it is sent again under its
\* nonce (feedback/server.py 164-215).  The code's numbers meet both conditions
\* as long as lead and pause stay below 300 seconds together.
THEOREM SavesAtMostOnce ==
  ASSUME TrafficFits, Skew + Fresh + MaxPause <= Ttl
  PROVE  Spec => []SavedOncePerLife
BY StoreNeverFull, SavesOnce, PTL
=============================================================================
