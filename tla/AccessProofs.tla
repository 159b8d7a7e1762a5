---------------------------- MODULE AccessProofs ----------------------------
(***************************************************************************)
(* Proofs about Access: what is known of the session when a request is     *)
(* answered, for any number of requests and any validation interval.       *)
(***************************************************************************)
EXTENDS Access, TLAPS

-----------------------------------------------------------------------------
(* Types *)

Header == Oidc \cup {"token", "badToken"}
Kind == Privileged \cup {"read", "socket"}
Verdict == {"none", "member", "user", "rejected", "unavailable"}
Answer == {"none", "session", "credential", "503", "401", "anonymous"}

RequestState ==
  [kind : Kind, sent : SUBSET Header, todo : SUBSET Header,
   failed : SUBSET {"unavailable", "rejected"},
   stage : {"idle", "walk", "asking", "told", "answered"},
   header : Header \cup {"none"}, start : Nat, asked : Nat,
   verdict : Verdict, answer : Answer]

Types ==
  /\ now \in Nat /\ downTill \in Nat
  /\ session \in {"member", "user", "revoked"}
  /\ since \in [valid : Nat, member : Nat]
  /\ up \in BOOLEAN
  /\ cache \in [verdict : Verdict, expires : Nat]
  /\ req \in [Req -> RequestState]

LEMMA Numbers ==
  /\ Interval \in Nat /\ NegativeTTL \in Nat /\ RoundTrip \in Nat /\ Expiry \in Nat
  /\ Shorter(Interval, NegativeTTL) \in Nat
  /\ Shorter(Interval, NegativeTTL) <= Interval
BY AccessAssumption DEF Shorter

LEMMA IdleTyped == Idle \in RequestState
BY DEF Idle, RequestState, Kind, Privileged, Verdict, Answer

(* A request that is answered keeps nothing.                                *)
LEMMA WithFields ==
  ASSUME NEW answer \in Answer
  PROVE  /\ With(answer) \in RequestState
         /\ With(answer).stage = "answered" /\ With(answer).answer = answer
         /\ With(answer).failed = {} /\ With(answer).start = 0
BY IdleTyped DEF With, Idle, RequestState

(* A request that goes on remembers that it failed, and with what.          *)
Failed(q, h, verdict) ==
  [q EXCEPT !.stage = "walk", !.header = "none", !.verdict = "none",
            !.failed = @ \cup {IF verdict = "unavailable" THEN verdict ELSE "rejected"},
            !.todo = IF q.kind = "lock" THEN {} ELSE @ \ {h}]

LEMMA JudgedFields ==
  ASSUME NEW q \in RequestState, NEW h \in Header, NEW verdict \in Verdict
  PROVE  /\ Judged(q, h, verdict) \in RequestState
         /\ Judged(q, h, verdict) =
              IF Accepts(q.kind, verdict) THEN With(IF h \in Oidc THEN "session" ELSE "credential")
              ELSE Failed(q, h, verdict)
<1>1. With("session") \in RequestState /\ With("credential") \in RequestState
  BY WithFields DEF Answer
<1>2. Failed(q, h, verdict) \in RequestState
  BY DEF Failed, RequestState, Verdict
<1> QED
  BY <1>1, <1>2 DEF Judged, Failed

LEMMA FailedFields ==
  ASSUME NEW q \in RequestState, NEW h \in Header, NEW verdict \in Verdict
  PROVE  LET f == Failed(q, h, verdict) IN
         /\ f.stage = "walk" /\ f.kind = q.kind /\ f.sent = q.sent /\ f.start = q.start
         /\ f.asked = q.asked
         /\ f.failed = q.failed \cup {IF verdict = "unavailable" THEN verdict ELSE "rejected"}
         /\ q.kind # "lock" => f.todo = q.todo \ {h}
         /\ f.todo \subseteq q.todo
BY DEF Failed, RequestState

LEMMA FailureTyped ==
  ASSUME NEW q \in RequestState PROVE Failure(q) \in Answer \ {"none", "session", "credential"}
BY DEF Failure, Answer

-----------------------------------------------------------------------------
(* The inductive invariant *)

(* What the verdict of the provider on a request still says of the session. *)
Judgement(q) ==
  /\ q.verdict \in {"member", "user"} =>
       q.asked <= Expiry /\ (session = "revoked" => q.asked <= since.valid)
  /\ q.verdict = "member" => session = "member" \/ q.start <= since.member
  /\ q.verdict = "rejected" => ~Valid \/ q.asked <= since.valid

Asks(q) ==
  q.stage \in {"asking", "told"} =>
    /\ q.header \in Oidc \cap q.sent
    /\ q.start <= q.asked /\ q.asked <= now /\ now <= q.asked + RoundTrip
    /\ q.stage = "told" => q.verdict # "none"

(* A failure that is not the request's own happened during the request.     *)
Unavailable(q) ==
  (q.stage = "told" /\ q.verdict = "unavailable") \/ "unavailable" \in q.failed =>
    ~up \/ q.start <= downTill

Tried(q) == (q.sent \ q.todo) \cap Oidc

(* A session that was tried and rejected by all was so a moment ago.        *)
Rejected(q) ==
  q.stage = "walk" /\ q.kind \notin Privileged =>
    /\ Tried(q) # {} /\ "unavailable" \notin q.failed =>
         ~Valid \/ now <= since.valid + Shorter(Interval, NegativeTTL) + RoundTrip
    /\ q.failed # {} /\ "badToken" \notin q.sent => Tried(q) # {}

Sound(q) ==
  /\ q.start <= now /\ q.todo \subseteq q.sent
  /\ Asks(q) /\ Unavailable(q) /\ Rejected(q)
  /\ q.stage = "told" => Judgement(q)

(* The cache holds decisions, and none for longer than it may.              *)
Remembered ==
  /\ cache.verdict # "unavailable"
  /\ cache.verdict \in {"member", "user"} =>
       /\ cache.expires <= Expiry /\ cache.expires <= now + Interval
       /\ session = "revoked" => cache.expires <= since.valid + Interval + RoundTrip
  /\ cache.verdict = "rejected" =>
       /\ cache.expires <= now + Shorter(Interval, NegativeTTL)
       /\ ~Valid \/ cache.expires <= since.valid + Shorter(Interval, NegativeTTL) + RoundTrip

AccessInv ==
  /\ Types
  /\ downTill <= now
  /\ Remembered
  /\ \A r \in Req : Sound(req[r])

LEMMA IdleSound == ASSUME Types PROVE Sound(Idle)
BY DEF Types, Sound, Idle, Asks, Unavailable, Rejected

LEMMA WithSound ==
  ASSUME Types, NEW answer \in Answer PROVE Sound(With(answer))
BY DEF Types, Sound, With, Idle, Asks, Unavailable, Rejected

LEMMA InitAccessInv == Init => AccessInv
<1> SUFFICES ASSUME Init PROVE AccessInv
  OBVIOUS
<1>1. Types
  BY IdleTyped DEF Init, Types, NoEntry, Verdict
<1>2. downTill <= now
  BY DEF Init
<1>3. Remembered
  BY DEF Init, NoEntry, Remembered
<1>4. \A r \in Req : Sound(req[r])
  BY <1>1, IdleSound DEF Init
<1> QED
  BY <1>1, <1>2, <1>3, <1>4 DEF AccessInv

-----------------------------------------------------------------------------
(* Steps of the provider and of the clock *)

LEMMA BecomesInv ==
  ASSUME AccessInv, NEW s \in {"member", "user", "revoked"}, Becomes(s)
  PROVE  AccessInv'
<1> USE DEF AccessInv, Types, Becomes
<1>1. Types'
  OBVIOUS
<1>2. /\ session # "revoked" => session' # "revoked" \/ since'.valid = now
      /\ session = "revoked" => session' # "revoked" /\ since'.valid = now
      /\ session # "member" => since'.member = now \/ since'.member = since.member
      /\ session = "member" => since'.member = now
      /\ session' = "revoked" => since'.valid = now
  OBVIOUS
<1>3. UNCHANGED <<now, up, downTill, cache, req>>
  OBVIOUS
<1>4. Remembered'
  BY <1>2, <1>3, Numbers DEF Remembered, Valid
<1>5. ASSUME NEW r \in Req PROVE Sound(req[r])'
  <2> DEFINE q == req[r]
  <2>1. Sound(q) /\ q' = q /\ q \in RequestState
    BY <1>3
  <2> HIDE DEF q
  <2>2. (q.stage = "told" => Judgement(q))'
    <3> SUFFICES ASSUME q.stage = "told" PROVE Judgement(q)'
      BY <2>1
    <3>1. /\ Judgement(q) /\ q.asked <= now /\ q.start <= now
          /\ q.asked \in Nat /\ q.start \in Nat
      BY <2>1 DEF Sound, Asks, RequestState
    <3> QED
      BY <1>2, <1>3, <2>1, <3>1 DEF Judgement, Valid
  <2>3. Rejected(q)'
    BY <1>2, <1>3, <2>1, Numbers DEF Sound, Rejected, Valid, Tried, RequestState
  <2>4. (q.start <= now /\ q.todo \subseteq q.sent /\ Asks(q) /\ Unavailable(q))'
    BY <1>3, <2>1 DEF Sound, Asks, Unavailable
  <2> QED
    BY <2>2, <2>3, <2>4 DEF Sound, q
<1> QED
  BY <1>1, <1>3, <1>4, <1>5

LEMMA OutageInv == ASSUME AccessInv, Outage PROVE AccessInv'
<1> USE DEF AccessInv, Types, Outage
<1>1. UNCHANGED <<now, session, since, cache, req>> /\ downTill' = now
  OBVIOUS
<1>2. Remembered'
  BY <1>1 DEF Remembered, Valid
<1>3. ASSUME NEW r \in Req PROVE Sound(req[r])'
  BY <1>1 DEF Sound, Asks, Unavailable, Rejected, Tried, Judgement, Valid
<1> QED
  BY <1>1, <1>2, <1>3

LEMMA TickInv == ASSUME AccessInv, Tick PROVE AccessInv'
<1> USE DEF AccessInv, Types, Tick
<1>1. /\ UNCHANGED <<session, since, up, cache, req>> /\ now' = now + 1
      /\ downTill' = IF up THEN downTill ELSE now + 1
  OBVIOUS
<1>2. Remembered'
  BY <1>1, Numbers DEF Remembered, Valid
<1>3. ASSUME NEW r \in Req PROVE Sound(req[r])'
  <2> DEFINE q == req[r]
  <2>1. Sound(q) /\ q' = q /\ q \in RequestState
    BY <1>1
  <2>2. /\ q.stage \in {"asking", "told"} => now < q.asked + RoundTrip
        /\ q.stage # "walk"
    OBVIOUS
  <2> HIDE DEF q
  <2>3. (q.start <= now /\ q.todo \subseteq q.sent)'
    BY <1>1, <2>1 DEF Sound, RequestState
  <2>4. Asks(q)'
    BY <1>1, <2>1, <2>2, Numbers DEF Sound, Asks, RequestState
  <2>5. Unavailable(q)'
    BY <1>1, <2>1 DEF Sound, Unavailable, RequestState
  <2>6. Rejected(q)'
    BY <2>1, <2>2 DEF Rejected
  <2>7. (q.stage = "told" => Judgement(q))'
    BY <1>1, <2>1, Numbers DEF Sound, Judgement, Valid, RequestState
  <2> QED
    BY <2>3, <2>4, <2>5, <2>6, <2>7 DEF Sound, q
<1> QED
  BY <1>1, <1>2, <1>3

-----------------------------------------------------------------------------
(* Steps of requests *)

(* A step of one request need only be looked at for that request.           *)
LEMMA OneRequest ==
  ASSUME AccessInv, NEW r \in Req, NEW x \in RequestState, Sound(x),
         UNCHANGED <<now, provider>>, req' = [req EXCEPT ![r] = x],
         cache' \in [verdict : Verdict, expires : Nat], Remembered'
  PROVE  AccessInv'
<1> USE DEF AccessInv, Types, provider
<1>1. Types'
  OBVIOUS
<1>2. \A q \in RequestState : Sound(q) => Sound(q)'
  BY DEF Sound, Asks, Unavailable, Rejected, Tried, Judgement, Valid
<1>3. ASSUME NEW p \in Req PROVE Sound(req[p])'
  BY <1>2
<1> QED
  BY <1>1, <1>3

LEMMA SameCache ==
  ASSUME AccessInv, UNCHANGED <<now, provider>>, cache' \in {cache, NoEntry}
  PROVE  cache' \in [verdict : Verdict, expires : Nat] /\ Remembered'
BY DEF AccessInv, Types, provider, Remembered, Valid, NoEntry, Verdict

(* A header that is not accepted is one more failure of the walk.           *)
LEMMA JudgedSound ==
  ASSUME AccessInv, NEW q \in RequestState, Sound(q), NEW h \in Header \cap q.sent,
         NEW verdict \in Verdict,
         q.stage # "answered" /\ q.stage # "idle",
         "unavailable" \in q.failed \/ verdict = "unavailable" => ~up \/ q.start <= downTill,
         h \in Oidc /\ verdict = "rejected" =>
           ~Valid \/ now <= since.valid + Shorter(Interval, NegativeTTL) + RoundTrip,
         h \in Oidc => verdict # "none",
         h \notin Oidc => /\ q.stage = "walk"
                         /\ verdict = IF h = "token" THEN "member" ELSE "rejected"
  PROVE  Judged(q, h, verdict) \in RequestState /\ Sound(Judged(q, h, verdict))
<1>1. CASE Accepts(q.kind, verdict)
  BY <1>1, JudgedFields, WithSound DEF AccessInv, Answer
<1>2. CASE ~Accepts(q.kind, verdict)
  <2> DEFINE f == Failed(q, h, verdict)
  <2>1. Judged(q, h, verdict) = f /\ f \in RequestState
    BY <1>2, JudgedFields
  <2>2. /\ f.stage = "walk" /\ f.kind = q.kind /\ f.sent = q.sent /\ f.start = q.start
        /\ f.failed = q.failed \cup {IF verdict = "unavailable" THEN verdict ELSE "rejected"}
        /\ q.kind # "lock" => f.todo = q.todo \ {h}
        /\ f.todo \subseteq q.todo
    BY FailedFields
  <2> HIDE DEF f
  <2>3. f.start <= now /\ f.todo \subseteq f.sent /\ Asks(f)
    BY <2>2 DEF Sound, Asks
  <2>4. Unavailable(f)
    BY <2>2 DEF Unavailable
  <2>5. Rejected(f)
    <3> SUFFICES ASSUME q.kind \notin Privileged PROVE Rejected(f)
      BY <2>2 DEF Rejected
    <3>1. f.todo = q.todo \ {h} /\ f.sent = q.sent
      BY <2>2 DEF Privileged
    <3>2. CASE h \in Oidc
      <4>1. verdict \notin {"member", "user"}
        BY <1>2 DEF Accepts
      <4>2. verdict \in {"rejected", "unavailable"}
        BY <3>2, <4>1 DEF Verdict
      <4>3. h \in Tried(f)
        BY <3>1, <3>2 DEF Tried
      <4> QED
        BY <2>2, <3>2, <4>2, <4>3 DEF Rejected
    <3>3. CASE h \notin Oidc
      <4>1. h = "badToken" /\ Tried(f) = Tried(q)
        BY <1>2, <3>1, <3>3 DEF Accepts, Header, Tried, Oidc
      <4> QED
        BY <2>2, <3>1, <3>3, <4>1 DEF Sound, Rejected
    <3> QED
      BY <3>2, <3>3
  <2> QED
    BY <2>1, <2>2, <2>3, <2>4, <2>5 DEF Sound
<1> QED
  BY <1>1, <1>2

LEMMA ReceiveInv ==
  ASSUME AccessInv, NEW r \in Req, NEW request \in Requests, Receive(r, request)
  PROVE  AccessInv'
<1> DEFINE x == [Idle EXCEPT !.kind = request.kind, !.sent = request.headers, !.start = now,
                            !.stage = "walk",
                            !.todo = request.headers \ IF request.kind = "lock" THEN {"token", "badToken"}
                                                       ELSE {}]
<1>1. request.kind \in Kind /\ request.headers \subseteq Header
  BY RequestsAssumption DEF Kind, Header
<1>2. /\ x.kind = request.kind /\ x.sent = request.headers /\ x.start = now
      /\ x.stage = "walk" /\ x.failed = {} /\ x.todo \subseteq x.sent
      /\ x.kind # "lock" => x.todo = x.sent
  BY DEF Idle
<1>3. x \in RequestState
  BY <1>1, IdleTyped DEF Idle, RequestState, AccessInv, Types
<1>4. req' = [req EXCEPT ![r] = x] /\ UNCHANGED <<now, provider, cache>>
  BY DEF Receive
<1> HIDE DEF x
<1>5. Sound(x)
  BY <1>2 DEF Sound, Asks, Unavailable, Rejected, Tried, Privileged, AccessInv, Types
<1> QED
  BY <1>3, <1>4, <1>5, OneRequest, SameCache

(* The headers a request tries are among those it came with.                *)
LEMMA CandidatesSent ==
  ASSUME NEW q \in RequestState PROVE Candidates(q) \subseteq q.todo
BY DEF Candidates, RequestState

LEMMA TryTokenInv ==
  ASSUME AccessInv, NEW r \in Req, TryToken(r) PROVE AccessInv'
<1> DEFINE q == req[r]
<1>1. q \in RequestState /\ Sound(q) /\ q.stage = "walk"
  BY DEF AccessInv, Types, TryToken
<1>2. PICK h \in Candidates(q) \ Oidc :
        req' = [req EXCEPT ![r] = Judged(q, h, IF h = "token" THEN "member" ELSE "rejected")]
  BY DEF TryToken
<1> DEFINE v == IF h = "token" THEN "member" ELSE "rejected"
<1>3. h \in Header \cap q.sent /\ v \in Verdict
  BY <1>1, <1>2, CandidatesSent DEF Sound, RequestState, Verdict
<1>4. UNCHANGED <<now, provider, cache>>
  BY DEF TryToken
<1>5. "unavailable" \in q.failed \/ v = "unavailable" => ~up \/ q.start <= downTill
  BY <1>1 DEF Sound, Unavailable
<1> HIDE DEF q
<1>6. Judged(q, h, v) \in RequestState /\ Sound(Judged(q, h, v))
  <2>1. h \notin Oidc
    BY <1>2
  <2> QED
    BY <1>1, <1>3, <1>5, <2>1, JudgedSound
<1> QED
  BY <1>2, <1>4, <1>6, OneRequest, SameCache

(* What the cache answers with is still good.                               *)
LEMMA Got ==
  ASSUME AccessInv
  PROVE  /\ get \in {cache, NoEntry} /\ get.verdict \in Verdict \ {"unavailable"}
         /\ get.verdict \in {"member", "user"} =>
              /\ now <= Expiry
              /\ session = "revoked" => now <= since.valid + Interval + RoundTrip
         /\ get.verdict = "rejected" =>
              ~Valid \/ now <= since.valid + Shorter(Interval, NegativeTTL) + RoundTrip
BY Numbers DEF AccessInv, Types, get, NoEntry, Remembered, Verdict

LEMMA resolveIdentityInv ==
  ASSUME AccessInv, NEW r \in Req, resolveIdentity(r) PROVE AccessInv'
<1> DEFINE q == req[r]
<1>1. q \in RequestState /\ Sound(q) /\ q.stage = "walk"
  BY DEF AccessInv, Types, resolveIdentity
<1>2. PICK h \in Candidates(q) \cap Oidc :
        req' = [req EXCEPT ![r] = IF reusable(q.kind, get.verdict) THEN Judged(q, h, get.verdict)
                                  ELSE [q EXCEPT !.stage = "asking", !.header = h, !.asked = now]]
  BY DEF resolveIdentity
<1>3. h \in Header \cap q.sent
  BY <1>1, <1>2, CandidatesSent DEF Sound, RequestState
<1>4. UNCHANGED <<now, provider>> /\ cache' = get
  BY DEF resolveIdentity
<1>5. cache' \in [verdict : Verdict, expires : Nat] /\ Remembered'
  BY <1>4, Got, SameCache
<1>6. "unavailable" \in q.failed => ~up \/ q.start <= downTill
  BY <1>1 DEF Sound, Unavailable
<1> HIDE DEF q
<1>7. CASE reusable(q.kind, get.verdict)
  <2>1. get.verdict # "none"
    BY <1>7 DEF reusable
  <2>2. Judged(q, h, get.verdict) \in RequestState /\ Sound(Judged(q, h, get.verdict))
    BY <1>1, <1>2, <1>3, <1>6, <2>1, Got, JudgedSound
  <2> QED
    BY <1>2, <1>4, <1>5, <1>7, <2>2, OneRequest
<1>8. CASE ~reusable(q.kind, get.verdict)
  <2> DEFINE x == [q EXCEPT !.stage = "asking", !.header = h, !.asked = now]
  <2>1. x \in RequestState
    BY <1>1, <1>3 DEF RequestState, AccessInv, Types
  <2>2. /\ x.stage = "asking" /\ x.header = h /\ x.asked = now /\ x.start = q.start
        /\ x.sent = q.sent /\ x.todo = q.todo /\ x.failed = q.failed
    BY <1>1 DEF RequestState
  <2> HIDE DEF x
  <2>3. Sound(x)
    BY <1>1, <1>2, <1>3, <1>6, <2>2, Numbers
    DEF Sound, Asks, Unavailable, Rejected, AccessInv, Types
  <2> QED
    BY <1>2, <1>4, <1>5, <1>8, <2>1, <2>3, OneRequest DEF x
<1> QED
  BY <1>7, <1>8

(* The verdict of the provider says what the session is as it is given.     *)
LEMMA TellsInv ==
  ASSUME AccessInv, NEW r \in Req, NEW verdict \in Verdict \ {"none"},
         req[r].stage = "asking", Tells(r, verdict), UNCHANGED <<now, provider, cache>>,
         verdict = "unavailable" => ~up,
         verdict \in {"member", "user"} => Valid /\ session = verdict,
         verdict = "rejected" => ~Valid
  PROVE  AccessInv'
<1> DEFINE q == req[r]
           x == [q EXCEPT !.stage = "told", !.verdict = verdict]
<1>1. q \in RequestState /\ Sound(q) /\ q.stage = "asking"
  BY DEF AccessInv, Types
<1>2. req' = [req EXCEPT ![r] = x]
  BY DEF Tells, AccessInv, Types
<1>3. x \in RequestState
  BY <1>1 DEF RequestState
<1>4. /\ x.stage = "told" /\ x.verdict = verdict
      /\ x.header = q.header /\ x.asked = q.asked /\ x.start = q.start
      /\ x.sent = q.sent /\ x.todo = q.todo /\ x.failed = q.failed
  BY <1>1 DEF RequestState
<1> HIDE DEF q, x
<1>5. Judgement(x)
  <2>1. q.asked <= now /\ q.asked \in Nat
    BY <1>1 DEF Sound, Asks, RequestState
  <2> QED
    BY <1>4, <2>1, Numbers DEF Judgement, Valid, AccessInv, Types
<1>6. Sound(x)
  BY <1>1, <1>4, <1>5 DEF Sound, Asks, Unavailable, Rejected
<1> QED
  BY <1>2, <1>3, <1>6, OneRequest, SameCache

LEMMA resolveUserinfoURLInv ==
  ASSUME AccessInv, NEW r \in Req, resolveUserinfoURL(r) PROVE AccessInv'
<1>1. CASE up
  BY <1>1 DEF resolveUserinfoURL, AccessInv, Types, provider, Remembered, Sound, Asks,
              Unavailable, Rejected, Tried, Judgement, Valid
<1>2. CASE ~up
  BY <1>2, TellsInv DEF resolveUserinfoURL, Verdict
<1> QED
  BY <1>1, <1>2

LEMMA fetchUserInfoInv ==
  ASSUME AccessInv, NEW r \in Req, fetchUserInfo(r) PROVE AccessInv'
<1> DEFINE v == IF ~up THEN "unavailable" ELSE IF Valid THEN session ELSE "rejected"
<1>1. /\ v \in Verdict \ {"none"}
      /\ v = "unavailable" => ~up
      /\ v \in {"member", "user"} => Valid /\ session = v
      /\ v = "rejected" => ~Valid
  BY DEF AccessInv, Types, Valid, Verdict
<1>2. req[r].stage = "asking" /\ Tells(r, v) /\ UNCHANGED <<now, provider, cache>>
  BY DEF fetchUserInfo
<1> QED
  BY <1>1, <1>2, TellsInv

(* A verdict is remembered for no longer than it may be used.               *)
LEMMA PutRemembered ==
  ASSUME AccessInv, NEW q \in RequestState, Sound(q), q.stage = "told", q.verdict # "none",
         put(q.verdict), UNCHANGED <<now, provider>>
  PROVE  cache' \in [verdict : Verdict, expires : Nat] /\ Remembered'
<1> DEFINE v == q.verdict
           ttl == entryTTL(v)
<1>1. CASE v = "unavailable" \/ ttl = 0
  BY <1>1, SameCache DEF put
<1>2. CASE v # "unavailable" /\ ttl # 0
  <2>1. cache' = [verdict |-> v, expires |-> now + ttl]
    BY <1>2 DEF put
  <2>2. /\ ttl \in Nat
        /\ v = "rejected" => ttl = Shorter(Interval, NegativeTTL)
        /\ v # "rejected" => ttl <= Interval /\ now + ttl <= Expiry
    BY <1>2, Numbers DEF entryTTL, cacheTTL, Shorter, AccessInv, Types
  <2>3. /\ v \in Verdict \ {"none", "unavailable"} /\ now \in Nat
        /\ q.asked \in Nat /\ now <= q.asked + RoundTrip /\ since.valid \in Nat
    BY <1>2 DEF Sound, Asks, RequestState, AccessInv, Types
  <2>4. Judgement(q)
    BY DEF Sound
  <2> HIDE DEF v, ttl
  <2>5. v = q.verdict
    BY DEF v
  <2>6. cache' \in [verdict : Verdict, expires : Nat]
    BY <2>1, <2>2, <2>3
  <2>7. Remembered'
    <3>1. cache'.verdict = v /\ cache'.expires = now + ttl
      BY <2>1
    <3>2. UNCHANGED <<now, session, since>>
      BY DEF provider
    <3> QED
      BY <2>2, <2>3, <2>4, <2>5, <3>1, <3>2, Numbers DEF Remembered, Judgement, Valid
  <2> QED
    BY <2>6, <2>7
<1> QED
  BY <1>1, <1>2

LEMMA FailInv ==
  ASSUME AccessInv, NEW r \in Req, Fail(r) PROVE AccessInv'
<1>1. Failure(req[r]) \in Answer
  BY FailureTyped DEF AccessInv, Types
<1> QED
  BY <1>1, WithFields, WithSound, OneRequest, SameCache DEF Fail, AccessInv

LEMMA ToldInv ==
  ASSUME AccessInv, NEW r \in Req, Told(r) PROVE AccessInv'
<1> DEFINE q == req[r]
<1>1. q \in RequestState /\ Sound(q) /\ q.stage = "told"
  BY DEF AccessInv, Types, Told
<1>2. /\ req' = [req EXCEPT ![r] = Judged(q, q.header, q.verdict)]
      /\ put(q.verdict) /\ UNCHANGED <<now, provider>>
  BY DEF Told
<1> HIDE DEF q
<1>3. /\ q.header \in Oidc \cap q.sent /\ q.header \in Header
      /\ q.verdict \in Verdict \ {"none"}
      /\ q.asked \in Nat /\ now <= q.asked + RoundTrip
  BY <1>1 DEF Sound, Asks, RequestState, Header
<1>4. "unavailable" \in q.failed \/ q.verdict = "unavailable" => ~up \/ q.start <= downTill
  BY <1>1 DEF Sound, Unavailable
<1>5. q.verdict = "rejected" =>
        ~Valid \/ now <= since.valid + Shorter(Interval, NegativeTTL) + RoundTrip
  <2>1. q.verdict = "rejected" => ~Valid \/ q.asked <= since.valid
    BY <1>1 DEF Sound, Judgement
  <2> QED
    BY <1>3, <2>1, Numbers DEF AccessInv, Types
<1>6. Judged(q, q.header, q.verdict) \in RequestState /\ Sound(Judged(q, q.header, q.verdict))
  BY <1>1, <1>3, <1>4, <1>5, JudgedSound
<1>7. cache' \in [verdict : Verdict, expires : Nat] /\ Remembered'
  BY <1>1, <1>2, <1>3, PutRemembered
<1> QED
  BY <1>2, <1>6, <1>7, OneRequest

LEMMA EvictInv == ASSUME AccessInv, evictOneLocked PROVE AccessInv'
<1>1. cache' \in [verdict : Verdict, expires : Nat] /\ Remembered'
  BY SameCache DEF evictOneLocked
<1> QED
  BY <1>1
  DEF evictOneLocked, AccessInv, Types, provider, Sound, Asks, Unavailable, Rejected, Tried,
      Judgement, Valid

LEMMA StepAccessInv == AccessInv /\ [Next]_vars => AccessInv'
<1> SUFFICES ASSUME AccessInv, [Next]_vars PROVE AccessInv'
  OBVIOUS
<1>1. CASE UNCHANGED vars
  BY <1>1
  DEF vars, provider, AccessInv, Types, Remembered, Sound, Asks, Unavailable, Rejected, Tried,
      Judgement, Valid
<1> QED
  BY <1>1, BecomesInv, OutageInv, TickInv, EvictInv, ReceiveInv, TryTokenInv,
     resolveIdentityInv, resolveUserinfoURLInv, fetchUserInfoInv, ToldInv, FailInv DEF Next

-----------------------------------------------------------------------------
(* Answers *)

(* The step in which a request is answered is its own: the provider's       *)
(* verdict or the cache's, a token's, or the failure of the walk.           *)
LEMMA AnsweringStep ==
  ASSUME AccessInv, [Next]_vars, NEW r \in Req,
         req[r].stage # "answered", req'[r].stage = "answered"
  PROVE  Told(r) \/ resolveIdentity(r) \/ TryToken(r) \/ Fail(r)
<1> USE DEF AccessInv, Types
<1>1. ASSUME req' = req PROVE FALSE
  BY <1>1
<1>2. ASSUME NEW p \in Req, p # r,
             \/ \E request \in Requests : Receive(p, request)
             \/ TryToken(p) \/ resolveIdentity(p) \/ resolveUserinfoURL(p) \/ fetchUserInfo(p)
             \/ Told(p) \/ Fail(p)
      PROVE  req'[r] = req[r]
  BY <1>2
  DEF Receive, TryToken, resolveIdentity, resolveUserinfoURL, fetchUserInfo, Tells, Told, Fail
<1>3. ASSUME NEW request \in Requests, Receive(r, request) PROVE FALSE
  BY <1>3 DEF Receive, Idle
<1>4. ASSUME resolveUserinfoURL(r) \/ fetchUserInfo(r) PROVE FALSE
  BY <1>4 DEF resolveUserinfoURL, fetchUserInfo, Tells, RequestState
<1> QED
  BY <1>1, <1>2, <1>3, <1>4 DEF Next, Becomes, Outage, evictOneLocked, Tick, vars

(* A session is accepted on a verdict of the provider, or on one remembered *)
(* if the request may use it.                                               *)
LEMMA SessionAccepted ==
  ASSUME AccessInv, [Next]_vars, NEW r \in Req, Answered(r, "session")
  PROVE  \/ req[r].stage = "told" /\ Accepts(req[r].kind, req[r].verdict)
         \/ /\ get.verdict \in {"member", "user"} /\ req[r].kind \notin Privileged
<1> DEFINE q == req[r]
<1>1. q \in RequestState /\ req \in [Req -> RequestState] /\ q.stage # "answered"
  BY DEF AccessInv, Types, Answered
<1>2. req'[r].stage = "answered" /\ req'[r].answer = "session"
  BY DEF Answered
<1>3. CASE Told(r)
  <2>1. req'[r] = Judged(q, q.header, q.verdict) /\ q.stage = "told"
    BY <1>1, <1>3 DEF Told
  <2>2. q.header \in Header /\ q.verdict \in Verdict
    BY <1>1, <2>1 DEF AccessInv, Sound, Asks, RequestState, Header
  <2> QED
    BY <1>1, <1>2, <2>1, <2>2, JudgedFields, FailedFields
<1>4. CASE resolveIdentity(r)
  <2>1. PICK h \in Candidates(q) \cap Oidc :
          req'[r] = IF reusable(q.kind, get.verdict) THEN Judged(q, h, get.verdict)
                    ELSE [q EXCEPT !.stage = "asking", !.header = h, !.asked = now]
    BY <1>1, <1>4 DEF resolveIdentity
  <2>2. reusable(q.kind, get.verdict)
    BY <1>1, <1>2, <2>1 DEF RequestState
  <2>3. h \in Header /\ get.verdict \in Verdict
    BY <2>1, Got DEF Header
  <2>4. Accepts(q.kind, get.verdict)
    BY <1>1, <1>2, <2>1, <2>2, <2>3, JudgedFields, FailedFields
  <2> QED
    BY <2>2, <2>4 DEF reusable, Accepts
<1>5. CASE TryToken(r)
  <2>1. PICK h \in Candidates(q) \ Oidc :
          req'[r] = Judged(q, h, IF h = "token" THEN "member" ELSE "rejected")
    BY <1>1, <1>5 DEF TryToken
  <2>2. h \in Header /\ (IF h = "token" THEN "member" ELSE "rejected") \in Verdict
    BY <1>1, <2>1, CandidatesSent DEF RequestState, Verdict
  <2> QED
    BY <1>1, <1>2, <2>1, <2>2, JudgedFields, FailedFields, WithFields DEF Answer
<1>6. CASE Fail(r)
  <2>1. req'[r] = With(Failure(q))
    BY <1>1, <1>6 DEF Fail
  <2> QED
    BY <1>1, <1>2, <2>1, FailureTyped, WithFields
<1> QED
  BY <1>1, <1>2, <1>3, <1>4, <1>5, <1>6, AnsweringStep

(* A request fails when no header is left to be tried.                      *)
LEMMA WalkFailed ==
  ASSUME AccessInv, [Next]_vars, NEW r \in Req, NEW answer \in {"401", "503"},
         Answered(r, answer)
  PROVE  req[r].stage = "walk" /\ Candidates(req[r]) = {} /\ Failure(req[r]) = answer
<1> DEFINE q == req[r]
<1>1. q \in RequestState /\ req \in [Req -> RequestState] /\ q.stage # "answered"
  BY DEF AccessInv, Types, Answered
<1>2. req'[r].stage = "answered" /\ req'[r].answer = answer
  BY DEF Answered
<1>3. ASSUME NEW h \in Header, NEW v \in Verdict, req'[r] = Judged(q, h, v) PROVE FALSE
  BY <1>1, <1>2, <1>3, JudgedFields, FailedFields, WithFields DEF Answer
<1>4. CASE Told(r)
  <2>1. req'[r] = Judged(q, q.header, q.verdict) /\ q.stage = "told"
    BY <1>1, <1>4 DEF Told
  <2>2. q.header \in Header /\ q.verdict \in Verdict
    BY <1>1, <2>1 DEF AccessInv, Sound, Asks, RequestState, Header
  <2> QED
    BY <1>3, <2>1, <2>2
<1>5. CASE resolveIdentity(r)
  <2>1. PICK h \in Candidates(q) \cap Oidc :
          \/ req'[r] = Judged(q, h, get.verdict)
          \/ req'[r] = [q EXCEPT !.stage = "asking", !.header = h, !.asked = now]
    BY <1>1, <1>5 DEF resolveIdentity
  <2>2. h \in Header /\ get.verdict \in Verdict
    BY <2>1, Got DEF Header
  <2> QED
    BY <1>1, <1>2, <1>3, <2>1, <2>2 DEF RequestState
<1>6. CASE TryToken(r)
  <2>1. PICK h \in Candidates(q) \ Oidc :
          req'[r] = Judged(q, h, IF h = "token" THEN "member" ELSE "rejected")
    BY <1>1, <1>6 DEF TryToken
  <2>2. h \in Header /\ (IF h = "token" THEN "member" ELSE "rejected") \in Verdict
    BY <1>1, <2>1, CandidatesSent DEF RequestState, Verdict
  <2> QED
    BY <1>3, <2>1, <2>2
<1>7. CASE Fail(r)
  <2>1. req'[r] = With(Failure(q)) /\ q.stage = "walk" /\ Candidates(q) = {}
    BY <1>1, <1>7 DEF Fail
  <2> QED
    BY <1>1, <1>2, <2>1, FailureTyped, WithFields
<1> QED
  BY <1>1, <1>2, <1>4, <1>5, <1>6, <1>7, AnsweringStep

-----------------------------------------------------------------------------
(* Theorems *)

(* For any number of concurrent requests and any intervals: a session is    *)
(* accepted no longer than the validation interval and a round trip after   *)
(* its revocation, and a token than a round trip after its expiry.          *)
THEOREM StalenessIsBounded == Spec => StalenessBounded
<1>1. ASSUME AccessInv, [Next]_vars, NEW r \in Req, Answered(r, "session")
      PROVE  /\ session = "revoked" => now <= since.valid + Interval + RoundTrip
             /\ now <= Expiry + RoundTrip
  <2>1. now \in Nat /\ since.valid \in Nat /\ req[r] \in RequestState /\ Sound(req[r])
    BY <1>1 DEF AccessInv, Types
  <2>2. CASE req[r].stage = "told" /\ Accepts(req[r].kind, req[r].verdict)
    BY <2>1, <2>2, Numbers DEF Accepts, Sound, Asks, Judgement, RequestState
  <2>3. CASE get.verdict \in {"member", "user"}
    BY <1>1, <2>1, <2>3, Got, Numbers
  <2> QED
    BY <1>1, <2>2, <2>3, SessionAccepted
<1>2. AccessInv /\ [Next]_vars =>
        [\A r \in Req : Answered(r, "session") =>
           /\ session = "revoked" => now <= since.valid + Interval + RoundTrip
           /\ now <= Expiry + RoundTrip]_vars
  BY <1>1
<1> QED
  BY <1>2, InitAccessInv, StepAccessInv, PTL DEF Spec, StalenessBounded

(* No interval and no race of requests lets a session pass for a privileged *)
(* action whose user was not privileged at any time since the request.      *)
THEOREM PrivilegesAreCurrent == Spec => PrivilegeIsCurrent
<1>1. ASSUME AccessInv, [Next]_vars, NEW r \in Req,
             Answered(r, "session"), req[r].kind \in Privileged
      PROVE  Member \/ (IF session = "member" THEN Expiry ELSE since.member) >= req[r].start
  <2>1. req[r].stage = "told" /\ req[r].verdict = "member"
    BY <1>1, SessionAccepted DEF Accepts
  <2>2. req[r] \in RequestState /\ Sound(req[r]) /\ since.member \in Nat
    BY <1>1 DEF AccessInv, Types
  <2> QED
    BY <2>1, <2>2, Numbers DEF Sound, Asks, Judgement, RequestState
<1>2. AccessInv /\ [Next]_vars =>
        [\A r \in Req :
           Answered(r, "session") /\ req[r].kind \in Privileged =>
             Member \/ (IF session = "member" THEN Expiry ELSE since.member) >= req[r].start]_vars
  BY <1>1
<1> QED
  BY <1>2, InitAccessInv, StepAccessInv, PTL DEF Spec, PrivilegeIsCurrent

(* 503 is never the memory of an outage that was over when the request      *)
(* began.                                                                   *)
THEOREM OutagesAreForgotten == Spec => OutageForgotten
<1>1. ASSUME AccessInv, [Next]_vars, NEW r \in Req, Answered(r, "503")
      PROVE  ~up \/ downTill >= req[r].start
  <2>1. "unavailable" \in req[r].failed
    BY <1>1, WalkFailed DEF Failure
  <2>2. Sound(req[r]) /\ req[r].start \in Nat /\ downTill \in Nat
    BY <1>1 DEF AccessInv, Types, RequestState
  <2> QED
    BY <2>1, <2>2 DEF Sound, Unavailable
<1>2. AccessInv /\ [Next]_vars =>
        [\A r \in Req : Answered(r, "503") => ~up \/ downTill >= req[r].start]_vars
  BY <1>1
<1> QED
  BY <1>2, InitAccessInv, StepAccessInv, PTL DEF Spec, OutageForgotten

(* In whatever order the strategies are tried, and whatever else a read or  *)
(* a handshake carries, a session valid for long enough is not signed out.  *)
THEOREM ValidSessionsStay == Spec => ValidSessionNotRejected
<1> DEFINE Told401(r) ==
      /\ Answered(r, "401") /\ req[r].kind \notin Privileged
      /\ Valid /\ now > since.valid + Shorter(Interval, NegativeTTL) + RoundTrip
           Given(q) == q.sent \cap (IF "badToken" \in q.sent THEN Oidc \ {"subprotocol"} ELSE Oidc)
<1>1. ASSUME AccessInv, [Next]_vars, NEW r \in Req, Told401(r)
      PROVE  Given(req[r]) = {}
  <2> DEFINE q == req[r]
  <2>1. /\ q \in RequestState /\ Sound(q) /\ now \in Nat /\ since.valid \in Nat
    BY <1>1 DEF AccessInv, Types
  <2>2. q.stage = "walk" /\ Candidates(q) = {} /\ Failure(q) = "401" /\ q.kind \notin Privileged
    BY <1>1, WalkFailed
  <2>3. "unavailable" \notin q.failed
    BY <2>2 DEF Failure, Privileged
  <2>4. Tried(q) = {}
    BY <1>1, <2>1, <2>2, <2>3, Numbers DEF Sound, Rejected
  <2>5. q.todo \ {"subprotocol"} = {} /\ (q.failed = {} => q.todo = {})
    BY <2>2 DEF Candidates, Privileged
  <2>6. "badToken" \notin q.sent => q.failed = {}
    BY <2>1, <2>2, <2>4 DEF Sound, Rejected
  <2> HIDE DEF q
  <2> QED
    BY <2>4, <2>5, <2>6 DEF Tried, q
<1>2. AccessInv /\ [Next]_vars => [\A r \in Req : Told401(r) => Given(req[r]) = {}]_vars
  BY <1>1
<1> QED
  BY <1>2, InitAccessInv, StepAccessInv, PTL DEF Spec, ValidSessionNotRejected
=============================================================================
