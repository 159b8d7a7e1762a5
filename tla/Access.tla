------------------------------- MODULE Access -------------------------------
(***************************************************************************)
(* Requests with an OIDC session, and what the provider says of it         *)
(* (internal/auth/auth.go, oidc.go, oidc_cache.go, and the gates of        *)
(* internal/server/handlers.go and websocket.go), with OIDC enabled.       *)
(*                                                                         *)
(* Reads and WebSocket handshakes ask whether a session is valid, and may  *)
(* be answered from the cache; setting or releasing the deploy lock, and a *)
(* deployment, ask the provider whether its user is privileged.  There is  *)
(* one session, whose token a request carries under one or two headers,    *)
(* beside another credential.  Requests ask concurrently, and the answer   *)
(* of the provider comes up to RoundTrip later.                            *)
(***************************************************************************)
EXTENDS Naturals

CONSTANTS
  Req,
  Requests,    \* what clients send: records of a kind and a set of headers
  Interval,    \* OIDC_TOKEN_VALIDATION_INTERVAL
  NegativeTTL, \* negativeCacheTTL
  RoundTrip,   \* bound on the discovery and the userinfo request
  Expiry,      \* when the token expires
  MaxTime, MaxChanges \* bounds

ASSUME AccessAssumption ==
  {Interval, NegativeTTL, RoundTrip, Expiry, MaxTime, MaxChanges} \subseteq Nat

(* "token" and "badToken" are deploy tokens or CI tokens, good and bad.     *)
Oidc == {"oidc", "legacy", "subprotocol"}
Privileged == {"lock", "deploy"}

ASSUME RequestsAssumption ==
  \A q \in Requests :
    /\ q.kind \in Privileged \cup {"read", "socket"}
    /\ q.headers \subseteq Oidc \cup {"token", "badToken"}
    /\ "subprotocol" \in q.headers => q.kind = "socket"

VARIABLES
  now,
  session,  \* at the provider: "member" of a privileged group, "user", "revoked"
  since,    \* when the session last began or ceased to be valid, and privileged
  up,       \* whether the provider can be consulted
  downTill, \* the last time it could not
  changes,  \* of session and up (bound)
  discovered, \* whether the userinfo endpoint is known
  cache,    \* the decision remembered for the token: its verdict and expiry
  req       \* [Req -> the request: its kind, the headers it came with and those
            \* still to be tried, the failures so far, the fetch under way, the answer]

provider == <<session, since, up, downTill, changes>>
vars == <<now, provider, discovered, cache, req>>

NoEntry == [verdict |-> "none", expires |-> 0]
Idle == [kind |-> "read", sent |-> {}, todo |-> {}, failed |-> {}, stage |-> "idle",
         header |-> "none", start |-> 0, asked |-> 0, verdict |-> "none", answer |-> "none"]

Init ==
  /\ now = 0
  /\ session \in {"member", "user", "revoked"}
  /\ since = [valid |-> 0, member |-> 0]
  /\ up \in BOOLEAN /\ downTill = 0
  /\ changes = 0
  /\ discovered = FALSE
  /\ cache = NoEntry
  /\ req = [r \in Req |-> Idle]

-----------------------------------------------------------------------------
(* The provider.                                                            *)

Valid == session # "revoked" /\ now <= Expiry
Member == session = "member" /\ now <= Expiry

Becomes(s) ==
  /\ s # session /\ changes < MaxChanges
  /\ session' = s
  /\ changes' = changes + 1
  /\ since' = [valid |-> IF (s = "revoked") # (session = "revoked") THEN now ELSE since.valid,
               member |-> IF (s = "member") # (session = "member") THEN now ELSE since.member]
  /\ UNCHANGED <<now, up, downTill, discovered, cache, req>>

Outage ==
  /\ changes < MaxChanges
  /\ changes' = changes + 1
  /\ up' = ~up /\ downTill' = now
  /\ UNCHANGED <<now, session, since, discovered, cache, req>>

-----------------------------------------------------------------------------
(* The cache.                                                               *)

(* Faulty variant: an entry is good for as long as it is there.            *)
getUnexpired == cache

get == IF cache.verdict # "none" /\ now > cache.expires THEN NoEntry ELSE cache

Shorter(a, b) == IF a <= b THEN a ELSE b

cacheTTL == IF now > Expiry THEN 0 ELSE Shorter(Interval, Expiry - now)

(* Faulty variant: rejections are remembered like acceptances.             *)
entryTTLUniform(verdict) == cacheTTL

entryTTL(verdict) == IF verdict = "rejected" THEN Shorter(Interval, NegativeTTL) ELSE cacheTTL

(* Faulty variant: a failure of the provider is remembered too.            *)
putAlways(verdict) ==
  cache' = [verdict |-> verdict, expires |-> now + Interval]

(* put: a decision of the provider is remembered; what is not one is not.   *)
put(verdict) ==
  cache' = IF verdict = "unavailable" \/ entryTTL(verdict) = 0 THEN cache
           ELSE [verdict |-> verdict, expires |-> now + entryTTL(verdict)]

(* The entry is dropped for the sake of other tokens.                       *)
evictOneLocked ==
  /\ cache # NoEntry
  /\ cache' = NoEntry
  /\ UNCHANGED <<now, provider, discovered, req>>

-----------------------------------------------------------------------------
(* A request, and the walk over its headers.                                *)

Receive(r, request) ==
  /\ req[r].stage \in {"idle", "answered"}
  /\ req' = [req EXCEPT ![r] =
               [Idle EXCEPT !.kind = request.kind, !.sent = request.headers, !.start = now,
                            !.stage = "walk",
                            !.todo = request.headers \ IF request.kind = "lock" THEN {"token", "badToken"}
                                                       ELSE {}]]
  /\ UNCHANGED <<now, provider, discovered, cache>>

(* The header tried next.  walk goes over a map, in any order;              *)
(* requireOIDCAuth knows the order of its two; authorizeWebSocket turns to  *)
(* the subprotocol when no header was there to be rejected.                 *)
Candidates(q) ==
  LET headers == q.todo \ {"subprotocol"}
  IN IF q.kind = "lock" /\ "oidc" \in headers THEN {"oidc"}
     ELSE IF headers # {} THEN headers
     ELSE IF q.failed = {} THEN q.todo ELSE {}

(* Faulty variant: a cached acceptance authorizes a privileged action.     *)
reusableAlways(kind, verdict) == verdict # "none"

(* A cached acceptance is for reads; a cached rejection for all.            *)
reusable(kind, verdict) == verdict = "rejected" \/ (verdict # "none" /\ kind \notin Privileged)

Accepts(kind, verdict) == verdict \in IF kind \in Privileged THEN {"member"} ELSE {"member", "user"}

(* "session" and "credential" say what the request was accepted for.        *)
With(answer) == [Idle EXCEPT !.stage = "answered", !.answer = answer]

(* The request goes on with a verdict on one of its headers.  Only walk     *)
(* goes on after a failure.                                                 *)
Judged(q, h, verdict) ==
  IF Accepts(q.kind, verdict) THEN With(IF h \in Oidc THEN "session" ELSE "credential")
  ELSE [q EXCEPT !.stage = "walk", !.header = "none", !.verdict = "none",
                 !.failed = @ \cup {IF verdict = "unavailable" THEN verdict ELSE "rejected"},
                 !.todo = IF q.kind = "lock" THEN {} ELSE @ \ {h}]

TryToken(r) ==
  /\ req[r].stage = "walk"
  /\ \E h \in Candidates(req[r]) \ Oidc :
       req' = [req EXCEPT ![r] = Judged(@, h, IF h = "token" THEN "member" ELSE "rejected")]
  /\ UNCHANGED <<now, provider, discovered, cache>>

(* resolveIdentity: from the cache, or from the provider.                   *)
resolveIdentity(r) ==
  /\ req[r].stage = "walk"
  /\ \E h \in Candidates(req[r]) \cap Oidc :
       req' = [req EXCEPT ![r] =
                 IF reusable(@.kind, get.verdict) THEN Judged(@, h, get.verdict)
                 ELSE [@ EXCEPT !.stage = "asking", !.header = h, !.asked = now]]
  /\ cache' = get
  /\ UNCHANGED <<now, provider, discovered>>

Tells(r, verdict) ==
  req' = [req EXCEPT ![r].stage = "told", ![r].verdict = verdict]

(* The endpoint is asked for first, until the provider has told it once.    *)
resolveUserinfoURL(r) ==
  /\ req[r].stage = "asking" /\ ~discovered
  /\ discovered' = up
  /\ IF up THEN UNCHANGED req ELSE Tells(r, "unavailable")
  /\ UNCHANGED <<now, provider, cache>>

(* The provider answers: 200, 401 or 403, or nothing of use.                *)
fetchUserInfo(r) ==
  /\ req[r].stage = "asking" /\ discovered
  /\ Tells(r, IF ~up THEN "unavailable" ELSE IF Valid THEN session ELSE "rejected")
  /\ UNCHANGED <<now, provider, discovered, cache>>

(* The answer arrives, and is remembered.                                   *)
Told(r) ==
  /\ req[r].stage = "told"
  /\ put(req[r].verdict)
  /\ req' = [req EXCEPT ![r] = Judged(@, @.header, @.verdict)]
  /\ UNCHANGED <<now, provider, discovered>>

(* Faulty variant: the walk answers with a rejection if it met one.        *)
FailureRejecting(q) ==
  IF "unavailable" \in q.failed /\ "rejected" \notin q.failed THEN "503" ELSE "401"

(* No header accepted: 503 if one could not be judged, 401 otherwise; a     *)
(* deployment is anonymous without a credential, and 401 with a bad one.    *)
Failure(q) ==
  IF q.kind = "deploy" THEN IF q.failed = {} THEN "anonymous" ELSE "401"
  ELSE IF "unavailable" \in q.failed THEN "503" ELSE "401"

Fail(r) ==
  /\ req[r].stage = "walk" /\ Candidates(req[r]) = {}
  /\ req' = [req EXCEPT ![r] = With(Failure(@))]
  /\ UNCHANGED <<now, provider, discovered, cache>>

Tick ==
  /\ now < MaxTime
  /\ \A r \in Req :
       /\ req[r].stage \in {"asking", "told"} => now < req[r].asked + RoundTrip
       /\ req[r].stage # "walk"
  /\ now' = now + 1
  /\ downTill' = IF up THEN downTill ELSE now'
  /\ UNCHANGED <<session, since, up, changes, discovered, cache, req>>

Next ==
  \/ \E s \in {"member", "user", "revoked"} : Becomes(s)
  \/ Outage
  \/ evictOneLocked
  \/ \E r \in Req :
       \/ \E request \in Requests : Receive(r, request)
       \/ TryToken(r) \/ resolveIdentity(r) \/ resolveUserinfoURL(r) \/ fetchUserInfo(r)
       \/ Told(r) \/ Fail(r)
  \/ Tick

Spec == Init /\ [][Next]_vars

-----------------------------------------------------------------------------
(* Properties, of the step in which a request is answered.                  *)

Answered(r, answer) == req[r].stage # "answered" /\ req'[r].stage = "answered" /\ req'[r].answer = answer

(* A read or a handshake is accepted for a session that was valid, at the   *)
(* latest, one validation interval and one round trip ago, and for a token  *)
(* that had not expired a round trip ago: whatever the order in which       *)
(* concurrent requests replace each other's decisions (oidc.go: "it bounds  *)
(* how stale an authorization decision can be").                            *)
StalenessBounded ==
  [][\A r \in Req : Answered(r, "session") =>
       /\ session = "revoked" => now <= since.valid + Interval + RoundTrip
       /\ now <= Expiry + RoundTrip]_vars

(* A privileged action is accepted for a session only if its user was       *)
(* privileged at some time since the request began (oidc.go: "keeps group   *)
(* removal and session revocation immediate").                              *)
PrivilegeIsCurrent ==
  [][\A r \in Req :
       Answered(r, "session") /\ req[r].kind \in Privileged =>
         Member \/ (IF session = "member" THEN Expiry ELSE since.member) >= req[r].start]_vars

(* 503 means that the provider could not be consulted during the request:   *)
(* an outage is forgotten as soon as it is over (resolveIdentity: a failure *)
(* "is never cached").                                                      *)
OutageForgotten ==
  [][\A r \in Req : Answered(r, "503") => ~up \/ downTill >= req[r].start]_vars

(* A valid session is not signed out: a read or a handshake that carries it *)
(* gets no 401, even when the provider is down and another credential is    *)
(* rejected, once the session has been valid for as long as a rejection is  *)
(* remembered (walk: "so when outcomes disagree ErrProviderUnavailable      *)
(* wins"; oidc.go: "the frontend discards its session on a 401").  A        *)
(* handshake whose other credential is rejected is the exception.           *)
ValidSessionNotRejected ==
  [][\A r \in Req :
       /\ Answered(r, "401") /\ req[r].kind \notin Privileged
       /\ Valid /\ now > since.valid + Shorter(Interval, NegativeTTL) + RoundTrip
       => req[r].sent \cap (IF "badToken" \in req[r].sent THEN Oidc \ {"subprotocol"} ELSE Oidc) = {}]_vars
=============================================================================
