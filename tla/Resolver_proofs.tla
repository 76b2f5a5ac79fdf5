---------------------------- MODULE Resolver_proofs --------------------------
(***************************************************************************)
(* Proofs about Resolver, for any number of retries and any timeout.  A    *)
(* resolution is, between two callbacks, not begun (Idle), waiting (Waits, *)
(* with no close under way) or ended (Ended); inside a callback it waits   *)
(* or is answered, and MgCloseConn takes either to the end.                *)
(***************************************************************************)
EXTENDS Resolver, TLAPS

\* What k waits of Timeout seconds take.
Due(k) == k * Timeout

\* The send buffer holds at most the queries made, the DNS connection can send
\* them, and the budget of retries is kept.
Budget(r) == /\ r.queued <= r.retries /\ r.retries <= MaxRetries + 1
             /\ r.sock /\ r.queued > 0 => r.ww
             /\ r.ww => r.sock

\* Every query but the first waited for the one before it; when the connection
\* is no longer connecting one more of them may have been sent at once.
Timing(r, now) ==
  /\ r.lastTime <= now /\ r.lastIo <= now
  /\ r.retries = 0 => r.lastTime = -Timeout /\ r.connecting
  /\ r.retries > 0 =>
       /\ r.lastTime = r.lastIo
       /\ r.connecting  => Due(r.retries - 1) <= r.lastTime
       /\ ~r.connecting => Due(r.retries - 2) <= r.lastTime

Waits(r, now) ==
  /\ r \in Resolution /\ r.life = "live" /\ now \in Nat
  /\ r.pending /\ r.calls = 0 /\ r.client = "resolving"
  /\ Budget(r) /\ Timing(r, now)
  /\ r.err = "TIMEOUT" => r.retries > MaxRetries

\* A close is under way exactly when the callback has a reason to be given.
Reasoned(r) == r.closing <=> r.err # "OK"

Answered(r) ==
  /\ r \in Resolution /\ r.life = "live" /\ r.closing
  /\ ~r.pending /\ r.calls = 1 /\ r.client \in {"connecting", "gone"}
  /\ r.got \in {"A", "OTHER"} /\ r.retries <= MaxRetries + 1

Ended(r, now) ==
  /\ r \in Resolution /\ r.life = "freed"
  /\ ~r.pending /\ r.calls = 1 /\ r.client \in {"connecting", "gone"}
  /\ r.retries <= MaxRetries + 1
  /\ r.got = "TIMEOUT" => Due(MaxRetries - 1) <= now

IInv ==
  /\ clock \in Nat /\ mgr \in {"running", "freed"}
  /\ \/ res = Idle
     \/ Waits(res, clock) /\ ~res.closing /\ res.err = "OK" /\ mgr = "running"
     \/ Ended(res, clock)

\* The part of the invariant that needs the timeout not to exceed the time a
\* connection may take.
Silence == res.life = "freed" /\ res.got = "OK" => mgr = "freed"

-----------------------------------------------------------------------------
(* Arithmetic                                                              *)

LEMMA DueStep ==
  ASSUME NEW k \in Int
  PROVE  /\ Due(k) \in Int
         /\ Due(k + 1) = Due(k) + Timeout
         /\ Due(k - 1) = Due(k) - Timeout
         /\ k <= 0 => Due(k) <= 0
<1>1. Timeout \in Nat  BY ResolverAssumption
<1>2. Due(k) \in Int  BY <1>1 DEF Due
<1>3. (k + 1) * Timeout = k * Timeout + Timeout  BY <1>1
<1>4. (k - 1) * Timeout = k * Timeout - Timeout  BY <1>1
<1>5. k <= 0 => k * Timeout <= 0  BY <1>1
<1> QED  BY <1>2, <1>3, <1>4, <1>5 DEF Due

LEMMA IdleType == Idle \in Resolution
BY ResolverAssumption DEF Idle, Resolution, Errors

-----------------------------------------------------------------------------
(* The event handler                                                       *)

LEMMA QueryType ==
  ASSUME NEW r \in Resolution, NEW now \in Nat, r.queued <= MaxRetries,
         r.retries <= MaxRetries
  PROVE  /\ Query(r, now) \in Resolution
         /\ Query(r, now).retries = r.retries + 1
         /\ Query(r, now).queued = r.queued + 1
         /\ Query(r, now).lastTime = now /\ Query(r, now).lastIo = now
         /\ Query(r, now).ww = r.sock /\ Query(r, now).sock = r.sock
         /\ Query(r, now).connecting = r.connecting
         /\ Query(r, now).closing = r.closing /\ Query(r, now).err = r.err
         /\ Query(r, now).life = r.life /\ Query(r, now).client = r.client
         /\ Query(r, now).pending = r.pending /\ Query(r, now).calls = r.calls
<1>1. MaxRetries \in Nat /\ r.queued + 1 \in 0..(MaxRetries + 1) /\ r.retries + 1 \in Nat
  BY ResolverAssumption DEF Resolution
<1>2. r.sock \in BOOLEAN /\ now \in Int  BY DEF Resolution
<1>3. Query(r, now) \in Resolution  BY <1>1, <1>2 DEF Query, Resolution
<1>4. /\ Query(r, now).retries = r.retries + 1
      /\ Query(r, now).queued = r.queued + 1
      /\ Query(r, now).lastTime = now /\ Query(r, now).lastIo = now
      /\ Query(r, now).ww = r.sock
  BY DEF Query, Resolution
<1>5. /\ Query(r, now).sock = r.sock
      /\ Query(r, now).connecting = r.connecting
      /\ Query(r, now).closing = r.closing /\ Query(r, now).err = r.err
      /\ Query(r, now).life = r.life /\ Query(r, now).client = r.client
      /\ Query(r, now).pending = r.pending /\ Query(r, now).calls = r.calls
  BY DEF Query, Resolution
<1> QED  BY <1>3, <1>4, <1>5

LEMMA GiveUpType ==
  ASSUME NEW r \in Resolution,
         NEW p, p = [r EXCEPT !.err = "TIMEOUT", !.closing = TRUE]
  PROVE  /\ p \in Resolution
         /\ p.retries = r.retries /\ p.queued = r.queued
         /\ p.lastTime = r.lastTime /\ p.lastIo = r.lastIo
         /\ p.ww = r.ww /\ p.sock = r.sock /\ p.connecting = r.connecting
         /\ p.err = "TIMEOUT" /\ p.closing /\ p.life = r.life /\ p.client = r.client
         /\ p.pending = r.pending /\ p.calls = r.calls
<1>1. "TIMEOUT" \in Errors  BY DEF Errors
<1>2. p \in Resolution  BY <1>1 DEF Resolution
<1>3. /\ p.retries = r.retries /\ p.queued = r.queued
      /\ p.lastTime = r.lastTime /\ p.lastIo = r.lastIo
      /\ p.ww = r.ww /\ p.sock = r.sock /\ p.connecting = r.connecting
      /\ p.err = "TIMEOUT" /\ p.closing /\ p.life = r.life /\ p.client = r.client
      /\ p.pending = r.pending /\ p.calls = r.calls
  BY DEF Resolution
<1> QED  BY <1>2, <1>3

LEMMA EvPollWaits ==
  ASSUME NEW r, NEW now, Waits(r, now), Reasoned(r)
  PROVE  LET p == EvPoll(r, now) IN
         /\ Waits(p, now) /\ Reasoned(p) /\ p.connecting = r.connecting
         /\ p.connecting /\ Timeout <= ConnectTimeout + 1
              => now - p.lastIo <= ConnectTimeout \/ p.retries > MaxRetries
<1> DEFINE p == EvPoll(r, now)
<1> USE ResolverAssumption
<1>1. r \in Resolution /\ now \in Nat /\ r.pending  BY DEF Waits
<1>2. /\ r.retries \in Nat /\ r.queued \in Nat /\ r.lastTime \in Int /\ r.lastIo \in Nat
      /\ r.connecting \in BOOLEAN /\ r.retries - 1 \in Int /\ r.retries - 2 \in Int
  BY <1>1 DEF Resolution
<1>3. CASE r.retries > MaxRetries
  <2>1. p = [r EXCEPT !.err = "TIMEOUT", !.closing = TRUE]
    BY <1>1, <1>2, <1>3 DEF EvPoll, AskOrGiveUp
  <2> QED  BY ZenonT(40), <1>1, <1>2, <1>3, <2>1
           DEF Waits, Budget, Timing, Reasoned, Resolution, Errors
<1>4. CASE r.retries <= MaxRetries /\ now - r.lastTime >= Timeout
  <2>1. p = Query(r, now)
    BY <1>1, <1>2, <1>4 DEF EvPoll, AskOrGiveUp
  <2>2. r.queued <= MaxRetries  BY <1>2, <1>4 DEF Waits, Budget
  <2>3. p.retries = r.retries + 1  BY <2>1, <2>2, <1>1, <1>4, QueryType
  <2>4. Budget(p)  BY <1>1, <1>2, <1>4, <2>1, <2>2, QueryType DEF Waits, Budget
  <2>5. r.connecting  => Due(r.retries) <= now
    <3>1. SUFFICES ASSUME r.connecting PROVE Due(r.retries) <= now  OBVIOUS
    <3>2. CASE r.retries = 0  BY <3>2, <1>1, <1>2, DueStep
    <3>3. CASE r.retries > 0
      <4>1. Due(r.retries - 1) <= r.lastTime  BY <3>1, <3>3 DEF Waits, Timing
      <4>2. Due(r.retries - 1) = Due(r.retries) - Timeout /\ Due(r.retries) \in Int
        BY SMTT(30), <1>2, DueStep
      <4> QED  BY <4>1, <4>2, <1>1, <1>2, <1>4
    <3> QED  BY <3>2, <3>3, <1>2
  <2>6. ~r.connecting => Due(r.retries - 1) <= now
    <3>1. SUFFICES ASSUME ~r.connecting PROVE Due(r.retries - 1) <= now  OBVIOUS
    <3>2. Due(r.retries - 2) <= r.lastTime
      BY <3>1, <1>2 DEF Waits, Timing
    <3>3. Due(r.retries - 2) = Due(r.retries - 1) - Timeout /\ Due(r.retries - 1) \in Int
      <4>1. (r.retries - 1) - 1 = r.retries - 2  BY <1>2
      <4> QED  BY <4>1, <1>2, DueStep
    <3> QED  BY <3>2, <3>3, <1>1, <1>2, <1>4
  <2>7. Timing(p, now)
    <3>1. p.retries - 1 = r.retries /\ p.retries - 2 = r.retries - 1  BY <2>3, <1>2
    <3>2. p.connecting = r.connecting /\ p.lastTime = now /\ p.lastIo = now
      BY <2>1, <2>2, <1>1, <1>4, QueryType
    <3> QED  BY <2>3, <2>5, <2>6, <3>1, <3>2, <1>1, <1>2 DEF Timing
  <2>8. /\ p \in Resolution /\ p.life = "live" /\ p.pending /\ p.calls = 0
        /\ p.client = "resolving" /\ p.err = r.err /\ p.closing = r.closing
        /\ p.lastIo = now /\ p.connecting = r.connecting
    BY <1>1, <1>4, <2>1, <2>2, QueryType DEF Waits
  <2>9. p.err = "TIMEOUT" => p.retries > MaxRetries
    BY <2>3, <2>8, <1>2, <1>4 DEF Waits
  <2>10. now - p.lastIo <= ConnectTimeout  BY <2>8, <1>1
  <2> QED  BY <2>4, <2>7, <2>8, <2>9, <2>10, <1>1 DEF Waits, Reasoned
<1>5. CASE r.retries <= MaxRetries /\ ~(now - r.lastTime >= Timeout)
  <2>1. p = r  BY <1>1, <1>2, <1>5 DEF EvPoll, AskOrGiveUp
  <2>2. now - r.lastTime < Timeout  BY <1>1, <1>2, <1>5
  <2>3. r.retries > 0 /\ r.lastTime = r.lastIo
    BY <1>1, <1>2, <2>2 DEF Waits, Timing
  <2> QED  BY <1>1, <1>2, <2>1, <2>2, <2>3
<1> QED  BY <1>3, <1>4, <1>5, <1>2

LEMMA MgIfConnectCbWaits ==
  ASSUME NEW r, NEW now, Waits(r, now), Reasoned(r), r.connecting, NEW ok \in BOOLEAN
  PROVE  LET p == MgIfConnectCb(r, now, ok) IN
         Waits(p, now) /\ (ok \/ r.retries > MaxRetries => Reasoned(p))
<1> DEFINE s == [r EXCEPT !.connecting = FALSE, !.closing = @ \/ ~ok]
           p == MgIfConnectCb(r, now, ok)
<1> USE ResolverAssumption
<1>1. r \in Resolution /\ now \in Nat /\ r.pending  BY DEF Waits
<1>2. /\ r.retries \in Nat /\ r.queued \in Nat /\ r.lastTime \in Int /\ r.lastIo \in Nat
      /\ r.closing \in BOOLEAN /\ r.retries - 1 \in Int /\ r.retries - 2 \in Int
  BY <1>1 DEF Resolution
<1>3. /\ s \in Resolution /\ s.retries = r.retries /\ s.queued = r.queued
      /\ s.lastTime = r.lastTime /\ s.lastIo = r.lastIo /\ s.ww = r.ww /\ s.sock = r.sock
      /\ ~s.connecting /\ s.closing = (r.closing \/ ~ok) /\ s.err = r.err
      /\ s.life = r.life /\ s.client = r.client /\ s.pending = r.pending
      /\ s.calls = r.calls
  BY <1>1, <1>2 DEF Resolution
<1>4. p = AskOrGiveUp(s, now, TRUE)  BY DEF MgIfConnectCb, EvConnect
<1>5. CASE r.retries > MaxRetries
  <2>1. p = [s EXCEPT !.err = "TIMEOUT", !.closing = TRUE]
    BY <1>1, <1>2, <1>3, <1>4, <1>5 DEF AskOrGiveUp
  <2>2. /\ p \in Resolution /\ p.retries = r.retries /\ p.queued = r.queued
        /\ p.lastTime = r.lastTime /\ p.lastIo = r.lastIo /\ p.ww = r.ww
        /\ p.sock = r.sock /\ ~p.connecting /\ p.err = "TIMEOUT" /\ p.closing /\ p.life = r.life
        /\ p.client = r.client /\ p.pending = r.pending /\ p.calls = r.calls
    <3> HIDE DEF s, p
    <3>1. /\ p \in Resolution /\ p.retries = s.retries /\ p.queued = s.queued
          /\ p.lastTime = s.lastTime /\ p.lastIo = s.lastIo /\ p.ww = s.ww
          /\ p.sock = s.sock /\ p.connecting = s.connecting /\ p.err = "TIMEOUT"
          /\ p.closing /\ p.life = s.life
          /\ p.client = s.client /\ p.pending = s.pending /\ p.calls = s.calls
      BY ZenonT(40), <2>1, <1>3, GiveUpType
    <3> QED  BY <3>1, <1>3
  <2>3. Due(r.retries - 2) <= r.lastTime
    <3>1. Due(r.retries - 1) <= r.lastTime  BY <1>2, <1>5 DEF Waits, Timing
    <3>2. (r.retries - 1) - 1 = r.retries - 2  BY <1>2
    <3>3. Due(r.retries - 2) = Due(r.retries - 1) - Timeout /\ Due(r.retries - 1) \in Int
      BY <3>2, <1>2, DueStep
    <3> QED  BY <3>1, <3>3, <1>2
  <2>4. Timing(p, now)  BY <2>2, <2>3, <1>2, <1>5 DEF Waits, Timing
  <2>5. Budget(p)  BY <2>2 DEF Waits, Budget
  <2> QED  BY <2>2, <2>4, <2>5, <1>1, <1>5 DEF Waits, Reasoned
<1>6. CASE r.retries <= MaxRetries
  <2>1. p = Query(s, now)  BY <1>1, <1>2, <1>3, <1>4, <1>6 DEF AskOrGiveUp
  <2>2. s.queued <= MaxRetries /\ s.retries <= MaxRetries
    BY <1>2, <1>3, <1>6 DEF Waits, Budget
  <2>3. /\ p \in Resolution /\ p.retries = r.retries + 1 /\ p.queued = r.queued + 1
        /\ p.lastTime = now /\ p.lastIo = now /\ p.ww = r.sock
        /\ p.sock = r.sock /\ ~p.connecting /\ p.err = r.err /\ p.life = r.life
        /\ p.closing = (r.closing \/ ~ok)
        /\ p.client = r.client /\ p.pending = r.pending /\ p.calls = r.calls
    <3> HIDE DEF s, p
    <3>1. /\ p \in Resolution /\ p.retries = s.retries + 1 /\ p.queued = s.queued + 1
          /\ p.lastTime = now /\ p.lastIo = now /\ p.ww = s.sock
      BY <2>1, <2>2, <1>1, <1>3, QueryType
    <3>2. /\ p.sock = s.sock /\ p.connecting = s.connecting /\ p.err = s.err
          /\ p.life = s.life /\ p.closing = s.closing
          /\ p.client = s.client /\ p.pending = s.pending /\ p.calls = s.calls
      BY <2>1, <2>2, <1>1, <1>3, QueryType
    <3> QED  BY <3>1, <3>2, <1>3
  <2>4. Due(r.retries - 1) <= now
    <3>1. CASE r.retries = 0  BY <3>1, <1>1, <1>2, DueStep
    <3>2. CASE r.retries > 0
      <4>1. Due(r.retries - 1) <= r.lastTime /\ r.lastTime <= now
        BY <3>2 DEF Waits, Timing
      <4> QED  BY <4>1, <1>1, <1>2, DueStep
    <3> QED  BY <3>1, <3>2, <1>2
  <2>5. Timing(p, now)
    <3>1. p.retries - 2 = r.retries - 1  BY <2>3, <1>2
    <3> QED  BY <3>1, <2>3, <2>4, <1>1, <1>2 DEF Timing
  <2>6. Budget(p)  BY <2>3, <1>1, <1>2, <1>6 DEF Waits, Budget
  <2> QED  BY <2>3, <2>5, <2>6, <1>1, <1>2, <1>6 DEF Waits, Reasoned
<1> QED  BY <1>5, <1>6, <1>2

LEMMA ConnectStepWaits ==
  ASSUME NEW r, NEW now, Waits(r, now), Reasoned(r)
  PROVE  Waits(ConnectStep(r, now), now) /\ Reasoned(ConnectStep(r, now))
<1>1. CASE r.connecting
  <2>1. ConnectStep(r, now) = MgIfConnectCb(r, now, TRUE)  BY <1>1 DEF ConnectStep
  <2> QED  BY <1>1, <2>1, MgIfConnectCbWaits
<1>2. CASE ~r.connecting  BY <1>2 DEF ConnectStep
<1> QED  BY <1>1, <1>2

\* What a step in the middle of a callback leaves behind.
Mid(r, now) == Waits(r, now) \/ Answered(r)

LEMMA CallbackFields ==
  ASSUME NEW r \in Resolution, NEW what \in {"A", "OTHER"} \cup Errors
  PROVE  LET c == Callback(r, what) IN
         /\ c \in Resolution /\ ~c.pending /\ c.calls = r.calls + 1 /\ c.got = what
         /\ c.client \in {"connecting", "gone"} /\ c.life = r.life
         /\ c.retries = r.retries /\ c.queued = r.queued /\ c.err = r.err
         /\ c.closing = r.closing
<1>1. r.calls + 1 \in Nat  BY DEF Resolution
<1>2. Callback(r, what) \in Resolution  BY ZenonT(40), <1>1 DEF Callback, Resolution
<1>3. /\ Callback(r, what).calls = r.calls + 1 /\ Callback(r, what).got = what
      /\ Callback(r, what).client \in {"connecting", "gone"}
      /\ ~Callback(r, what).pending
  BY DEF Callback, Resolution
<1>4. /\ Callback(r, what).life = r.life /\ Callback(r, what).closing = r.closing
      /\ Callback(r, what).retries = r.retries /\ Callback(r, what).queued = r.queued
      /\ Callback(r, what).err = r.err
  BY DEF Callback, Resolution
<1> QED  BY <1>2, <1>3, <1>4

LEMMA ReadStepMid ==
  ASSUME NEW r, NEW now, Waits(r, now), Reasoned(r), NEW reply \in Replies
  PROVE  \/ Waits(ReadStep(r, reply), now) /\ Reasoned(ReadStep(r, reply))
         \/ Answered(ReadStep(r, reply))
<1> DEFINE c == Callback(r, reply)
           e == [r EXCEPT !.err = "NO_ANSWERS"]
           p == ReadStep(r, reply)
<1>1. r \in Resolution /\ r.pending /\ now \in Nat  BY DEF Waits
<1>2. CASE r.closing  BY <1>2 DEF ReadStep, Mid
<1>3. CASE ~r.closing /\ reply = "NONE"
  <2>1. p = [e EXCEPT !.closing = TRUE]
    BY <1>1, <1>3 DEF ReadStep, EvRecv, Resolution
  <2>2. p = [r EXCEPT !.err = "NO_ANSWERS", !.closing = TRUE]
    BY <2>1, <1>1 DEF Resolution
  <2>3. p \in Resolution  BY <2>2, <1>1 DEF Resolution, Errors
  <2>4. /\ p.err = "NO_ANSWERS" /\ p.closing /\ p.life = r.life /\ p.pending = r.pending
        /\ p.calls = r.calls /\ p.client = r.client
        /\ p.queued = r.queued /\ p.retries = r.retries /\ p.sock = r.sock
        /\ p.connecting = r.connecting /\ p.ww = r.ww
        /\ p.lastTime = r.lastTime /\ p.lastIo = r.lastIo
    BY <2>2, <1>1 DEF Resolution
  <2> HIDE DEF p
  <2>5. Waits(p, now)  BY <2>3, <2>4 DEF Waits, Budget, Timing
  <2>6. Reasoned(p)  BY <2>3, <2>4, <1>3 DEF Reasoned, Waits
  <2> QED  BY <2>5, <2>6 DEF Mid, p
<1>4. CASE ~r.closing /\ reply # "NONE"
  <2>1. reply \in {"A", "OTHER"}  BY <1>4 DEF Replies
  <2>2. p = [c EXCEPT !.closing = TRUE]
    BY <1>1, <1>4 DEF ReadStep, EvRecv, Callback, Resolution
  <2>3. /\ c \in Resolution /\ ~c.pending /\ c.calls = 1 /\ c.got = reply
        /\ c.client \in {"connecting", "gone"} /\ c.life = "live"
        /\ c.retries <= MaxRetries + 1
    BY <1>1, <2>1, CallbackFields DEF Waits, Budget
  <2> HIDE DEF c
  <2>4. p \in Resolution  BY <2>2, <2>3 DEF Resolution
  <2>5. /\ p.closing /\ p.pending = c.pending /\ p.calls = c.calls /\ p.got = c.got
        /\ p.client = c.client /\ p.life = c.life /\ p.retries = c.retries
    BY <2>2, <2>3 DEF Resolution
  <2> HIDE DEF p
  <2>6. Answered(p)  BY <2>1, <2>3, <2>4, <2>5 DEF Answered
  <2> QED  BY <2>6 DEF p
<1> QED  BY <1>1, <1>2, <1>3, <1>4

LEMMA WriteStepMid ==
  ASSUME NEW r, NEW now, NEW w \in WriteStep(r)
  PROVE  /\ Waits(r, now) => Waits(w, now) /\ (Reasoned(r) => Reasoned(w))
         /\ Answered(r) => w = r
<1> DEFINE p == EvSend([r EXCEPT !.queued = 0, !.sent = TRUE])
<1>1. Answered(r) => w = r  BY DEF Answered, WriteStep
<1>2. w = r \/ (w = p /\ ~r.closing)  BY DEF WriteStep
<1>3. ASSUME Waits(r, now), w = p, ~r.closing
      PROVE  Waits(p, now) /\ (Reasoned(r) => Reasoned(p))
  <2>1. r \in Resolution /\ r.pending  BY <1>3 DEF Waits
  <2>2. p = [r EXCEPT !.queued = 0, !.sent = TRUE, !.closing = FALSE]
    BY <2>1 DEF EvSend, Resolution
  <2>3. p \in Resolution
    <3>1. 0 \in 0..(MaxRetries + 1)  BY ResolverAssumption
    <3> HIDE DEF p
    <3> QED  BY <2>1, <2>2, <3>1 DEF Resolution
  <2>4. /\ p.queued = 0 /\ ~p.closing /\ p.err = r.err /\ p.life = r.life
        /\ p.pending = r.pending /\ p.calls = r.calls /\ p.client = r.client
        /\ p.retries = r.retries /\ p.sock = r.sock
        /\ p.connecting = r.connecting /\ p.ww = r.ww
        /\ p.lastTime = r.lastTime /\ p.lastIo = r.lastIo
    BY <2>2, <2>1 DEF Resolution
  <2>5. r.retries \in Nat  BY <2>1 DEF Resolution
  <2> HIDE DEF p
  <2> QED  BY <2>3, <2>4, <2>5, <1>3 DEF Waits, Budget, Timing, Reasoned
<1> QED  BY <1>1, <1>2, <1>3

LEMMA MgCloseConnEnds ==
  ASSUME NEW r, NEW now \in Nat, Mid(r, now)
  PROVE  LET f == MgCloseConn(r) IN
         Ended(f, now) /\ ((Reasoned(r) \/ Answered(r)) /\ r.closing => f.got # "OK")
<1> DEFINE s == [r EXCEPT !.sock = FALSE, !.ww = FALSE]
           e == EvClose(s)
           f == MgCloseConn(r)
<1>1. r \in Resolution  BY DEF Mid, Waits, Answered
<1>2. s \in Resolution  BY <1>1 DEF Resolution
<1>3. /\ s.pending = r.pending /\ s.calls = r.calls /\ s.client = r.client
      /\ s.got = r.got /\ s.err = r.err /\ s.retries = r.retries
  BY <1>1 DEF Resolution
<1>4. f = [e EXCEPT !.life = "freed"]  BY DEF MgCloseConn
<1>5. CASE Waits(r, now)
  <2>1. s.pending /\ s.err \in Errors  BY <1>5, <1>1, <1>3 DEF Waits, Resolution
  <2>2. e = Callback(s, s.err)  BY <2>1 DEF EvClose
  <2>3. /\ e \in Resolution /\ ~e.pending /\ e.calls = 1 /\ e.got = r.err
        /\ e.client \in {"connecting", "gone"} /\ e.retries = r.retries
    <3> HIDE DEF s, e
    <3>1. s.err \in {"A", "OTHER"} \cup Errors  BY <2>1
    <3>2. /\ e \in Resolution /\ ~e.pending /\ e.calls = s.calls + 1 /\ e.got = s.err
          /\ e.client \in {"connecting", "gone"} /\ e.retries = s.retries
      BY <2>2, <3>1, <1>2, CallbackFields
    <3>3. s.calls = 0  BY <1>3, <1>5 DEF Waits
    <3> QED  BY <3>2, <3>3, <1>3
  <2> HIDE DEF e
  <2>4. /\ f \in Resolution /\ f.life = "freed" /\ ~f.pending /\ f.calls = 1
        /\ f.got = r.err /\ f.client \in {"connecting", "gone"}
        /\ f.retries = r.retries
    BY <2>3, <1>4 DEF Resolution
  <2>5. r.err = "TIMEOUT" => Due(MaxRetries - 1) <= now
    <3>1. SUFFICES ASSUME r.err = "TIMEOUT" PROVE Due(MaxRetries - 1) <= now  OBVIOUS
    <3>2. /\ r.retries = MaxRetries + 1 /\ r.lastTime <= now
          /\ MaxRetries \in Nat /\ r.lastTime \in Int /\ r.connecting \in BOOLEAN
      BY <3>1, <1>1, <1>5, ResolverAssumption DEF Waits, Budget, Timing, Resolution
    <3>3. /\ r.retries - 1 = MaxRetries /\ r.retries - 2 = MaxRetries - 1
          /\ MaxRetries - 1 \in Int
      BY <3>2
    <3>4. Due(MaxRetries - 1) <= r.lastTime
      <4>1. CASE r.connecting
        <5>1. Due(MaxRetries) <= r.lastTime  BY <4>1, <1>5, <3>2, <3>3 DEF Waits, Timing
        <5>2. Due(MaxRetries - 1) = Due(MaxRetries) - Timeout /\ Due(MaxRetries) \in Int
              /\ Timeout \in Nat
          BY <3>2, DueStep, ResolverAssumption
        <5> QED  BY <5>1, <5>2, <3>2
      <4>2. CASE ~r.connecting  BY <4>2, <1>5, <3>2, <3>3 DEF Waits, Timing
      <4> QED  BY <4>1, <4>2
    <3>5. Due(MaxRetries - 1) \in Int  BY <3>3, DueStep
    <3> QED  BY <3>2, <3>4, <3>5
  <2>6. r.retries <= MaxRetries + 1 /\ ~Answered(r)
    BY <1>5 DEF Waits, Budget, Answered
  <2> HIDE DEF f
  <2>7. Ended(f, now)  BY <2>4, <2>5, <2>6 DEF Ended
  <2>8. Reasoned(r) /\ r.closing => f.got # "OK"  BY <2>4 DEF Reasoned
  <2> QED  BY <2>6, <2>7, <2>8 DEF f
<1>6. CASE Answered(r)
  <2>1. e = s  BY <1>3, <1>6 DEF EvClose, Answered
  <2>2. f = [r EXCEPT !.sock = FALSE, !.ww = FALSE, !.life = "freed"]
    BY <2>1, <1>1, <1>4 DEF Resolution
  <2>3. f \in Resolution  BY <2>2, <1>1 DEF Resolution
  <2>4. /\ f.life = "freed" /\ f.pending = r.pending /\ f.calls = r.calls
        /\ f.client = r.client /\ f.retries = r.retries /\ f.got = r.got
    BY <2>2, <1>1 DEF Resolution
  <2> HIDE DEF f
  <2>5. Ended(f, now) /\ f.got # "OK"  BY <2>3, <2>4, <1>6 DEF Answered, Ended
  <2> QED  BY <2>5 DEF f
<1> QED  BY <1>5, <1>6 DEF Mid

\* How a callback leaves a resolution: waiting, or ended for a reason.
Left(r, now) == \/ Waits(r, now) /\ ~r.closing /\ r.err = "OK"
                \/ Ended(r, now) /\ r.got # "OK"

LEMMA CloseIfDueLeft ==
  ASSUME NEW r, NEW now \in Nat, (Waits(r, now) /\ Reasoned(r)) \/ Answered(r)
  PROVE  Left(CloseIfDue(r), now)
<1>1. r.closing \in BOOLEAN /\ Mid(r, now)
  BY DEF Mid, Waits, Answered, Resolution
<1>2. CASE r.closing
  <2>1. CloseIfDue(r) = MgCloseConn(r)  BY <1>2 DEF CloseIfDue
  <2> QED  BY <1>1, <1>2, <2>1, MgCloseConnEnds DEF Left
<1>3. CASE ~r.closing
  BY <1>3 DEF CloseIfDue, Answered, Reasoned, Left
<1> QED  BY <1>1, <1>2, <1>3

LEMMA EvReadCbLeft ==
  ASSUME NEW r, NEW now, Waits(r, now), Reasoned(r), NEW reply \in Replies
  PROVE  Left(EvReadCb(r, now, reply), now)
<1> DEFINE c == ConnectStep(r, now)
           p == ReadStep(c, reply)
<1>1. Waits(c, now) /\ Reasoned(c)  BY ConnectStepWaits
<1> HIDE DEF c
<1>2. (Waits(p, now) /\ Reasoned(p)) \/ Answered(p)  BY <1>1, ReadStepMid DEF Mid
<1>3. now \in Nat  BY DEF Waits
<1> HIDE DEF p
<1>4. Left(CloseIfDue(p), now)  BY <1>2, <1>3, CloseIfDueLeft
<1> QED  BY <1>4 DEF EvReadCb, c, p

LEMMA EvWriteCbLeft ==
  ASSUME NEW r, NEW now, Waits(r, now), Reasoned(r), NEW w \in EvWriteCb(r, now)
  PROVE  Left(w, now)
<1> DEFINE c == ConnectStep(r, now)
<1>1. PICK p \in WriteStep(c) : w = StopIfDrained(CloseIfDue(p))  BY DEF EvWriteCb
<1>2. Waits(c, now) /\ Reasoned(c)  BY ConnectStepWaits
<1> HIDE DEF c
<1>3. Waits(p, now) /\ Reasoned(p)  BY <1>1, <1>2, WriteStepMid
<1>4. now \in Nat  BY DEF Waits
<1> DEFINE d == CloseIfDue(p)
<1>5. Left(d, now)  BY <1>3, <1>4, CloseIfDueLeft
<1> HIDE DEF d
<1>6. CASE w = d  BY <1>5, <1>6
<1>7. CASE /\ d.life = "live" /\ d.queued = 0 /\ w = [d EXCEPT !.ww = FALSE]
  <2>1. Waits(d, now) /\ ~d.closing /\ d.err = "OK"  BY <1>5, <1>7 DEF Left, Ended
  <2>2. d \in Resolution  BY <2>1 DEF Waits
  <2>3. w \in Resolution  BY <1>7, <2>2 DEF Resolution
  <2>4. /\ w.queued = 0 /\ ~w.ww /\ w.closing = d.closing /\ w.err = d.err
        /\ w.life = d.life /\ w.pending = d.pending /\ w.calls = d.calls
        /\ w.client = d.client /\ w.retries = d.retries
        /\ w.connecting = d.connecting /\ w.lastTime = d.lastTime
        /\ w.lastIo = d.lastIo
    BY <1>7, <2>2 DEF Resolution
  <2>5. d.retries \in Nat  BY <2>2 DEF Resolution
  <2>6. Budget(w)  BY <1>7, <2>1, <2>4, <2>5 DEF Waits, Budget
  <2>7. Timing(w, now)  BY <2>1, <2>4 DEF Waits, Timing
  <2> QED  BY <2>1, <2>3, <2>4, <2>6, <2>7 DEF Waits, Left
<1> QED  BY <1>1, <1>6, <1>7 DEF StopIfDrained, d

LEMMA TimerCbLeft ==
  ASSUME NEW r, NEW now, Waits(r, now), Reasoned(r)
  PROVE  LET f == MgConnectionTimerCb(r, now) IN
         /\ (Waits(f, now) /\ ~f.closing /\ f.err = "OK") \/ Ended(f, now)
         /\ Timeout <= ConnectTimeout + 1 => Left(f, now)
<1> DEFINE p == EvPoll(r, now)
           g == GiveUpConnect(p, now)
           f == CloseIfDue(g)
<1>1. /\ Waits(p, now) /\ Reasoned(p)
      /\ p.connecting /\ Timeout <= ConnectTimeout + 1
           => now - p.lastIo <= ConnectTimeout \/ p.retries > MaxRetries
  BY EvPollWaits
<1>2. now \in Nat  BY DEF Waits
<1> HIDE DEF p
<1>3. p.lastIo \in Nat /\ ConnectTimeout \in Nat
  BY <1>1, ResolverAssumption DEF Waits, Resolution
<1>4. Waits(g, now) /\ (Timeout <= ConnectTimeout + 1 => Reasoned(g))
  <2>1. CASE p.connecting /\ now - p.lastIo > ConnectTimeout
    <3>1. g = MgIfConnectCb(p, now, FALSE)  BY <2>1 DEF GiveUpConnect
    <3>2. Timeout <= ConnectTimeout + 1 => p.retries > MaxRetries
      BY <1>1, <1>2, <1>3, <2>1
    <3>3. Waits(MgIfConnectCb(p, now, FALSE), now)
          /\ (p.retries > MaxRetries => Reasoned(MgIfConnectCb(p, now, FALSE)))
      BY <1>1, <2>1, MgIfConnectCbWaits
    <3> HIDE DEF g
    <3> QED  BY <3>1, <3>2, <3>3
  <2>2. CASE ~(p.connecting /\ now - p.lastIo > ConnectTimeout)
    <3>1. g = p  BY <2>2 DEF GiveUpConnect
    <3> HIDE DEF g
    <3> QED  BY <3>1, <1>1
  <2> QED  BY <2>1, <2>2
<1>5. CASE Reasoned(g)
  <2>1. Left(f, now)
    <3> HIDE DEF g
    <3> QED  BY <1>2, <1>4, <1>5, CloseIfDueLeft
  <2> HIDE DEF f
  <2>2. (Waits(f, now) /\ ~f.closing /\ f.err = "OK") \/ Ended(f, now)
    BY <2>1 DEF Left
  <2> QED  BY <2>1, <2>2 DEF f, p, MgConnectionTimerCb
<1>6. CASE ~Reasoned(g)
  <2>1. ~(Timeout <= ConnectTimeout + 1)  BY <1>4, <1>6
  <2>2. p.connecting /\ now - p.lastIo > ConnectTimeout
    BY <1>1, <1>6 DEF GiveUpConnect
  <2>3. g.closing
    <3>1. g = EvConnect([p EXCEPT !.connecting = FALSE, !.closing = TRUE], now)
      <4>1. p.closing \in BOOLEAN /\ p \in Resolution  BY <1>1 DEF Waits, Resolution
      <4>2. [p EXCEPT !.connecting = FALSE, !.closing = @ \/ ~FALSE]
              = [p EXCEPT !.connecting = FALSE, !.closing = TRUE]
        BY <4>1 DEF Resolution
      <4> QED  BY <2>2, <4>2 DEF GiveUpConnect, MgIfConnectCb
    <3>2. p \in Resolution  BY <1>1 DEF Waits
    <3> DEFINE s == [p EXCEPT !.connecting = FALSE, !.closing = TRUE]
    <3>3. s \in Resolution /\ s.closing  BY <3>2 DEF Resolution
    <3>4. g = AskOrGiveUp(s, now, TRUE)  BY <3>1 DEF EvConnect
    <3> HIDE DEF s, g
    <3>5. s.pending \in BOOLEAN /\ s.retries \in Nat /\ MaxRetries \in Nat
      BY <3>3, ResolverAssumption DEF Resolution
    <3>6. \/ g = s \/ g = [s EXCEPT !.err = "TIMEOUT", !.closing = TRUE]
          \/ g = Query(s, now)
      BY <3>4, <3>5 DEF AskOrGiveUp
    <3> QED  BY <3>3, <3>6 DEF Query, Resolution
  <2>4. f = MgCloseConn(g)  BY <2>3 DEF CloseIfDue
  <2>5. Mid(g, now)  BY <1>4 DEF Mid
  <2> HIDE DEF g
  <2>6. Ended(f, now)  BY <1>2, <2>4, <2>5, MgCloseConnEnds
  <2> HIDE DEF f
  <2> QED  BY <2>1, <2>6 DEF f, g, p, MgConnectionTimerCb
<1> QED  BY <1>5, <1>6

LEMMA LastPollMid ==
  ASSUME NEW r, NEW now, Waits(r, now), Reasoned(r), NEW p \in LastPoll(r, now)
  PROVE  Mid(p, now)
<1> DEFINE c == ConnectStep(r, now)
           read == {ReadStep(c, reply) : reply \in {x \in Replies : r.sent}}
<1>1. CASE ~r.sock
  <2>1. CASE r.connecting
    <3>1. p = MgIfConnectCb(r, now, FALSE)  BY <1>1, <2>1 DEF LastPoll
    <3> QED  BY <2>1, <3>1, MgIfConnectCbWaits DEF Mid
  <2>2. CASE ~r.connecting
    <3>1. p = r  BY <1>1, <2>2 DEF LastPoll
    <3> QED  BY <3>1 DEF Mid
  <2> QED  BY <2>1, <2>2
<1>2. CASE r.sock
  <2>1. Waits(c, now) /\ Reasoned(c)  BY ConnectStepWaits
  <2>2. \A q \in read : (Waits(q, now) /\ Reasoned(q)) \/ Answered(q)
    <3> HIDE DEF c
    <3> QED  BY <2>1, ReadStepMid
  <2>3. \/ p = r \/ p = c \/ p \in read
        \/ \E q \in {c} \cup read : p \in WriteStep(q)
    BY <1>2 DEF LastPoll
  <2> HIDE DEF c, read
  <2>4. ASSUME NEW q \in {c} \cup read, p \in WriteStep(q) PROVE Mid(p, now)
    BY <2>1, <2>2, <2>4, WriteStepMid DEF Mid
  <2> QED  BY <2>1, <2>2, <2>3, <2>4 DEF Mid
<1> QED  BY <1>1, <1>2

-----------------------------------------------------------------------------
(* The invariant                                                           *)

LEMMA MgResolveAsyncWaits ==
  ASSUME NEW now \in Nat, NEW r \in MgResolveAsync(now)
  PROVE  Waits(r, now) /\ ~r.closing /\ r.err = "OK"
<1>1. PICK sock \in BOOLEAN :
        r = [Idle EXCEPT !.life = "live", !.sock = sock, !.connecting = TRUE,
                         !.ww = sock, !.lastIo = now, !.pending = TRUE,
                         !.client = "resolving"]
  BY DEF MgResolveAsync
<1>2. r \in Resolution  BY <1>1, IdleType DEF Resolution
<1>3. /\ r.life = "live" /\ r.sock = sock /\ r.connecting /\ r.ww = sock
      /\ r.lastIo = now /\ r.pending /\ r.client = "resolving" /\ ~r.closing
      /\ r.queued = 0 /\ r.retries = 0 /\ r.lastTime = -Timeout /\ r.err = "OK"
      /\ r.calls = 0
  BY <1>1 DEF Idle
<1>4. Timing(r, now)  BY <1>3, ResolverAssumption DEF Timing
<1>5. Budget(r)  BY <1>3, ResolverAssumption DEF Budget
<1> QED  BY <1>2, <1>3, <1>4, <1>5 DEF Waits

LEMMA InitInv == Init => IInv
BY DEF Init, IInv

LEMMA NextInv ==
  ASSUME IInv, [Next]_vars
  PROVE  IInv' /\ (Timeout <= ConnectTimeout + 1 /\ Silence => Silence')
<1>1. clock \in Nat /\ mgr \in {"running", "freed"}  BY DEF IInv
<1>2. ASSUME Running
      PROVE  Waits(res, clock) /\ Reasoned(res) /\ ~res.closing /\ res.err = "OK"
  BY <1>2 DEF IInv, Running, Idle, Ended, Reasoned
<1>3. ASSUME Left(res', clock), UNCHANGED <<clock, mgr>>, Running
      PROVE  IInv' /\ Silence'
  BY <1>1, <1>3 DEF Left, IInv, Silence, Running, Waits
<1>4. CASE ResolveAsync
  <2>1. Waits(res', clock) /\ ~res'.closing /\ res'.err = "OK"
    BY <1>1, <1>4, MgResolveAsyncWaits DEF ResolveAsync
  <2> QED  BY <1>1, <1>4, <2>1 DEF ResolveAsync, IInv, Silence, Waits
<1>5. CASE WriteCb
  <2>1. Left(res', clock)  BY <1>2, <1>5, EvWriteCbLeft DEF WriteCb
  <2> QED  BY <1>3, <1>5, <2>1 DEF WriteCb
<1>6. CASE ReadCb
  <2>1. PICK reply \in Replies : res' = EvReadCb(res, clock, reply)  BY <1>6 DEF ReadCb
  <2>2. Left(res', clock)  BY <1>2, <1>6, <2>1, EvReadCbLeft DEF ReadCb
  <2> QED  BY <1>3, <1>6, <2>2 DEF ReadCb
<1>7. CASE TimerCb
  <2>1. PICK d \in 1..Lag : clock' = clock + d
                            /\ res' = MgConnectionTimerCb(res, clock + d)
    BY <1>7 DEF TimerCb
  <2>2. clock + d \in Nat /\ clock <= clock + d
    BY <1>1, <2>1, ResolverAssumption
  <2>3. Waits(res, clock + d) /\ Reasoned(res)
    <3>1. Waits(res, clock) /\ Reasoned(res)  BY <1>2, <1>7 DEF TimerCb
    <3>2. res.lastTime \in Int /\ res.lastIo \in Nat  BY <3>1 DEF Waits, Resolution
    <3> QED  BY <1>1, <2>2, <3>1, <3>2 DEF Waits, Timing
  <2>4. /\ (Waits(res', clock') /\ ~res'.closing /\ res'.err = "OK") \/ Ended(res', clock')
        /\ Timeout <= ConnectTimeout + 1 => Left(res', clock')
    BY <2>1, <2>3, TimerCbLeft
  <2>5. mgr' = mgr /\ mgr = "running"  BY <1>7 DEF TimerCb, Running
  <2>6. IInv'  BY <2>1, <2>2, <2>4, <2>5 DEF IInv
  <2>7. Timeout <= ConnectTimeout + 1 => Silence'
    BY <2>4 DEF Left, Silence, Waits
  <2> QED  BY <2>6, <2>7
<1>8. CASE MgrFree
  <2>1. mgr' = "freed" /\ clock' = clock  BY <1>8 DEF MgrFree
  <2>2. CASE res.life = "live"
    <3>1. PICK p \in LastPoll(res, clock) : res' = MgCloseConn(p)
      BY <1>8, <2>2 DEF MgrFree
    <3>2. Waits(res, clock) /\ Reasoned(res)
      BY <1>2, <1>8, <2>2 DEF MgrFree, Running
    <3>3. Ended(res', clock)  BY <1>1, <3>1, <3>2, LastPollMid, MgCloseConnEnds
    <3> QED  BY <1>1, <2>1, <3>3 DEF IInv, Silence
  <2>3. CASE res.life # "live"
    <3>1. res' = res  BY <1>8, <2>3 DEF MgrFree
    <3> QED  BY <1>1, <2>1, <2>3, <3>1 DEF IInv, Silence, Waits
  <2> QED  BY <2>2, <2>3
<1>9. CASE UNCHANGED vars
  BY <1>9 DEF vars, IInv, Silence
<1> QED
  BY <1>4, <1>5, <1>6, <1>7, <1>8, <1>9 DEF Next, Stopped

\* Every behaviour of the resolver keeps the invariant that the rest follows
\* from: nothing yet, waiting with a sound budget and clock, or ended once.
THEOREM ResolverInductive == Spec => []IInv
<1>1. IInv /\ [Next]_vars => IInv'  BY NextInv
<1> QED  BY <1>1, InitInv, PTL DEF Spec

\* The variables keep their types; in particular the buffer of the DNS
\* connection never holds more than MaxRetries + 1 queries.
THEOREM ResolverTypes == Spec => []TypeOK
<1>1. IInv => TypeOK
  BY IdleType DEF IInv, TypeOK, Waits, Ended
<1> QED  BY <1>1, ResolverInductive, PTL

\* mg_resolve_async's callback runs exactly once, for every number of retries
\* and every timeout, and no client waits for a request that is gone.
THEOREM CallbackOnce == Spec => []CalledOnce
<1>1. IInv => CalledOnce
  BY DEF IInv, CalledOnce, Idle, Waits, Ended, Running
<1> QED  BY <1>1, ResolverInductive, PTL

\* No more than MaxRetries queries follow the first.
THEOREM QueriesBounded == Spec => []RetriesBounded
<1>1. IInv => RetriesBounded
  BY ResolverAssumption DEF IInv, RetriesBounded, Idle, Waits, Ended, Budget
<1> QED  BY <1>1, ResolverInductive, PTL

\* A timeout is reported no sooner than MaxRetries - 1 waits after the start.
THEOREM TimeoutTakesTime == Spec => []TimeoutIsEarned
<1>1. IInv => TimeoutIsEarned
  BY DEF IInv, TimeoutIsEarned, Idle, Waits, Ended, Due
<1> QED  BY <1>1, ResolverInductive, PTL

\* A query that is queued on an open socket is watched.
THEOREM QueriesArePushed == Spec => []QueryIsPushed
<1>1. IInv => QueryIsPushed
  BY DEF IInv, QueryIsPushed, Running, Idle, Waits, Ended, Budget
<1> QED  BY <1>1, ResolverInductive, PTL

\* As long as the resolver's timeout is not above the connection's own (both
\* are 5 s by default), only mg_mgr_free ends a request without a reason.
THEOREM SilenceOnlyAtFree ==
  ASSUME Timeout <= ConnectTimeout + 1
  PROVE  Spec => []SilentOnlyAtFree
<1>1. Init => Silence  BY DEF Init, Silence, Idle
<1>2. IInv /\ Silence /\ [Next]_vars => Silence'  BY NextInv
<1>3. Spec => []Silence  BY <1>1, <1>2, ResolverInductive, PTL DEF Spec
<1>4. IInv /\ Silence => SilentOnlyAtFree
  BY DEF IInv, Silence, SilentOnlyAtFree, Idle, Waits, Ended
<1> QED  BY <1>3, <1>4, ResolverInductive, PTL
=============================================================================
