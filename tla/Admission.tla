------------------------------ MODULE Admission ------------------------------
(***************************************************************************)
(* What a request meets before its handler: the CSRF header check          *)
(* (core/csrf.py), owner or guest and the guests' daily allowances         *)
(* (core/auth.py), and the per-minute limit of its tier                    *)
(* (core/rate_limit.py); and the login routes (features/auth/router.py).   *)
(* The allowance is taken in the middleware, the hit counted in a          *)
(* dependency that runs after the body was read: other requests come in    *)
(* between. All of it is memory of one process, and a restart forgets it.  *)
(***************************************************************************)
EXTENDS Integers, Sequences

CONSTANTS
  Clients,      \* client addresses
  TurnLimit,    \* GUEST_DAILY_LIMIT
  RateLimit,    \* tier -> hits a minute: settings.RATE_LIMIT_...
  Window,       \* _WINDOW_SECONDS, in clock units
  Day,          \* _DAY
  SessionLen,   \* SESSION_DAYS
  SweepEvery,   \* _SWEEP_EVERY
  Settings,     \* the settings considered, each with the routes called under it
  Horizon,      \* bound on the clock
  MaxRestarts   \* bound on restarts

Tiers == {"expensive", "research", "login"}
Allowances == {"turn", "research"}

(* The validators of core/config.py for these settings. *)
ASSUME RateLimitAssumption == RateLimit \in [Tiers -> Nat \ {0}]
ASSUME TurnLimitAssumption == TurnLimit \in Nat \ {0}
ASSUME TimeAssumption ==
  Window \in Nat \ {0} /\ Day \in Nat \ {0} /\ SessionLen \in Nat \ {0}
ASSUME SweepAssumption == SweepEvery \in Nat \ {0}

(* One route of each kind the policy tells apart (PUBLIC_ROUTES,           *)
(* GUEST_ROUTES, the owner's, and the tier in rate_limit(...) of each).    *)
RouteOf(name, unsafe, for, spends, tier) ==
  [name |-> name, unsafe |-> unsafe, for |-> for, spends |-> spends, tier |-> tier]
Routes ==
  { RouteOf("me",       FALSE, "anyone", "nothing",  "none"),
    RouteOf("logout",   TRUE,  "anyone", "nothing",  "none"),
    RouteOf("login",    TRUE,  "anyone", "nothing",  "login"),
    RouteOf("chat",     TRUE,  "guest",  "turn",     "expensive"),
    RouteOf("research", TRUE,  "guest",  "research", "research"),
    RouteOf("coding",   TRUE,  "owner",  "nothing",  "expensive") }

(* auth_enabled, GUEST_ENABLED, GUEST_RESEARCH_DAILY_LIMIT, and whether     *)
(* SESSION_SECRET is set.                                                  *)
ASSUME SettingsAssumption ==
  Settings \subseteq [auth : BOOLEAN, guests : BOOLEAN, research : Nat,
                      fixedSecret : BOOLEAN, calls : SUBSET Routes]

NoCookie == [expires |-> 0, secret |-> 0]
NoRoute == RouteOf("none", FALSE, "anyone", "nothing", "none")
Never == -1

VARIABLES
  conf,        \* the settings of this deployment
  now,         \* the monotonic and the wall clock
  hits,        \* SlidingWindowLimiter._hits, <<>> for an absent key
  calls,       \* _calls, modulo SweepEvery
  turns,       \* GuestQuota._turns of each allowance, <<>> for an absent client
  inflight,    \* the route of a request past the middleware
  secret,      \* the version of _secret()
  cookie,      \* the session cookie in each client's browser
  restarts,
  hitLog,      \* history: every accepted hit of a key
  turnLog,     \* history: every turn taken
  hitPromise,  \* history: the time a refused client was told to come back
  turnPromise

admission == <<conf, now, hits, calls, turns, inflight, secret, cookie,
               restarts, hitLog, turnLog, hitPromise, turnPromise>>

Buckets == Clients \X Tiers
Purses == Clients \X Allowances
Limit(p) == IF p[2] = "research" THEN conf.research ELSE TurnLimit

AdmissionInit ==
  /\ conf \in Settings
  /\ now = 0
  /\ hits = [k \in Buckets |-> <<>>]
  /\ calls = 0
  /\ turns = [p \in Purses |-> <<>>]
  /\ inflight = [c \in Clients |-> NoRoute]
  /\ secret = 1
  /\ cookie = [c \in Clients |-> NoCookie]
  /\ restarts = 0
  /\ hitLog = hits
  /\ turnLog = turns
  /\ hitPromise = [k \in Buckets |-> Never]
  /\ turnPromise = [p \in Purses |-> Never]

-----------------------------------------------------------------------------
(* Mutant: a time is dropped one clock unit early. *)
PrunesEarly(s, drop, gap) ==
  /\ \A i \in 1 .. drop : s[i] + gap <= now + 1
  /\ drop < Len(s) => s[drop + 1] + gap > now + 1

(* The pruning loops: the first `drop` times are gap or more old, the next *)
(* is not.                                                                 *)
Prunes(s, drop, gap) ==
  /\ \A i \in 1 .. drop : s[i] + gap <= now
  /\ drop < Len(s) => s[drop + 1] + gap > now
From(s, drop) == SubSeq(s, drop + 1, Len(s))

(* _sweep: the keys whose last hit has left the window. *)
Swept == [k \in Buckets |-> IF hits[k] # <<>> /\ hits[k][Len(hits[k])] + Window <= now
                         THEN <<>> ELSE hits[k]]
Table == IF (calls + 1) % SweepEvery = 0 THEN Swept ELSE hits

(* verify_token and role_for_cookie. *)
Verified(c) == /\ cookie[c] # NoCookie
               /\ cookie[c].secret = secret
               /\ cookie[c].expires > now
Owner(c) == ~conf.auth \/ Verified(c)

(* _match, with the research routes shut while their limit is 0. *)
GuestMay(r) == /\ conf.guests
               /\ r.for = "guest"
               /\ ~(r.spends = "research" /\ conf.research = 0)

-----------------------------------------------------------------------------
(* The middleware                                                          *)

(* A state-changing call without the client header, or one that needs the  *)
(* owner: 403 or 401 and nothing else.                                     *)
Refuse(c, r) ==
  /\ inflight[c] = NoRoute
  /\ r.unsafe \/ (~Owner(c) /\ r.for # "anyone" /\ ~GuestMay(r))
  /\ UNCHANGED admission

Enter(c, r) ==
  /\ inflight[c] = NoRoute
  /\ Owner(c) \/ r.for = "anyone" \/ (GuestMay(r) /\ r.spends = "nothing")
  /\ inflight' = [inflight EXCEPT ![c] = r]
  /\ UNCHANGED <<conf, now, hits, calls, turns, secret, cookie, restarts,
                 hitLog, turnLog, hitPromise, turnPromise>>

(* GuestQuota.spend: a turn taken, *)
SpendTurn(c, r) ==
  /\ inflight[c] = NoRoute
  /\ ~Owner(c) /\ GuestMay(r) /\ r.spends # "nothing"
  /\ LET p == <<c, r.spends>> IN
     \E drop \in 0 .. Len(turns[p]) :
       /\ Prunes(turns[p], drop, Day)
       /\ Len(turns[p]) - drop < Limit(p)
       /\ turns' = [turns EXCEPT ![p] = Append(From(@, drop), now)]
       /\ turnLog' = [turnLog EXCEPT ![p] = Append(@, now)]
       /\ turnPromise' = [turnPromise EXCEPT ![p] = Never]
  /\ inflight' = [inflight EXCEPT ![c] = r]
  /\ UNCHANGED <<conf, now, hits, calls, secret, cookie, restarts, hitLog,
                 hitPromise>>

(* or none left, and the time until the oldest one frees up. *)
RefuseTurn(c, r) ==
  /\ inflight[c] = NoRoute
  /\ ~Owner(c) /\ GuestMay(r) /\ r.spends # "nothing"
  /\ LET p == <<c, r.spends>> IN
     \E drop \in 0 .. Len(turns[p]) :
       /\ Prunes(turns[p], drop, Day)
       /\ Len(turns[p]) - drop >= Limit(p)
       /\ turns' = [turns EXCEPT ![p] = From(@, drop)]
       /\ turnPromise' = [turnPromise EXCEPT ![p] = turns[p][drop + 1] + Day]
  /\ UNCHANGED <<conf, now, hits, calls, inflight, secret, cookie, restarts,
                 hitLog, turnLog, hitPromise>>

-----------------------------------------------------------------------------
(* The rate limit dependency, then the handler                             *)

(* Mutant: a refused hit is recorded too. *)
RefusedHitCounted(kept) == Append(kept, now)
RefusedHit(kept) == kept

HitRefused(c) ==
  LET r == inflight[c]
      k == <<c, r.tier>> IN
  /\ r.tier \in Tiers
  /\ \E drop \in 0 .. Len(Table[k]) :
       /\ Prunes(Table[k], drop, Window)
       /\ Len(Table[k]) - drop >= RateLimit[r.tier]
       /\ hits' = [Table EXCEPT ![k] = RefusedHit(From(@, drop))]
       /\ hitPromise' = [hitPromise EXCEPT ![k] = Table[k][drop + 1] + Window]
  /\ calls' = (calls + 1) % SweepEvery
  /\ inflight' = [inflight EXCEPT ![c] = NoRoute]
  /\ UNCHANGED <<conf, now, turns, secret, cookie, restarts, hitLog, turnLog,
                 turnPromise>>

HitAccepted(c) ==
  LET k == <<c, inflight[c].tier>> IN
  /\ inflight[c].tier \in Tiers
  /\ \E drop \in 0 .. Len(Table[k]) :
       /\ Prunes(Table[k], drop, Window)
       /\ Len(Table[k]) - drop < RateLimit[k[2]]
       /\ hits' = [Table EXCEPT ![k] = Append(From(@, drop), now)]
       /\ hitLog' = [hitLog EXCEPT ![k] = Append(@, now)]
       /\ hitPromise' = [hitPromise EXCEPT ![k] = Never]
  /\ calls' = (calls + 1) % SweepEvery

Unlimited(c) ==
  /\ inflight[c] # NoRoute
  /\ inflight[c].tier = "none"
  /\ UNCHANGED <<hits, calls, hitLog, hitPromise>>

(* The handler of a tool. *)
Run(c) ==
  /\ inflight[c].for # "anyone"
  /\ HitAccepted(c)
  /\ inflight' = [inflight EXCEPT ![c] = NoRoute]
  /\ UNCHANGED <<conf, now, turns, secret, cookie, restarts, turnLog, turnPromise>>

(* _me: telling a client what remains prunes the turns it counts. *)
LookAtTurns(c) ==
  IF conf.auth /\ conf.guests
  THEN \E drop \in [Allowances -> 0 .. Limit(<<c, "turn">>) + Limit(<<c, "research">>)] :
         /\ \A a \in Allowances :
              drop[a] <= Len(turns[<<c, a>>]) /\ Prunes(turns[<<c, a>>], drop[a], Day)
         /\ turns' = [p \in Purses |-> IF p[1] = c THEN From(turns[p], drop[p[2]])
                                       ELSE turns[p]]
  ELSE UNCHANGED turns

(* login: a wrong password, or a token for SESSION_DAYS. In open mode it   *)
(* answers without one.                                                    *)
Login(c, right) ==
  /\ inflight[c].name = "login"
  /\ HitAccepted(c)
  /\ inflight' = [inflight EXCEPT ![c] = NoRoute]
  /\ cookie' = IF conf.auth /\ right
               THEN [cookie EXCEPT ![c] = [expires |-> now + SessionLen, secret |-> secret]]
               ELSE cookie
  /\ IF right THEN LookAtTurns(c) ELSE UNCHANGED turns
  /\ UNCHANGED <<conf, now, secret, restarts, turnLog, turnPromise>>

Logout(c) ==
  /\ inflight[c].name = "logout"
  /\ Unlimited(c)
  /\ inflight' = [inflight EXCEPT ![c] = NoRoute]
  /\ cookie' = [cookie EXCEPT ![c] = NoCookie]
  /\ LookAtTurns(c)
  /\ UNCHANGED <<conf, now, secret, restarts, turnLog, turnPromise>>

Me(c) ==
  /\ inflight[c].name = "me"
  /\ Unlimited(c)
  /\ LookAtTurns(c)
  /\ inflight' = [inflight EXCEPT ![c] = NoRoute]
  /\ UNCHANGED <<conf, now, secret, cookie, restarts, turnLog, turnPromise>>

-----------------------------------------------------------------------------
Pass == /\ now < Horizon
        /\ now' = now + 1
        /\ UNCHANGED <<conf, hits, calls, turns, inflight, secret, cookie,
                       restarts, hitLog, turnLog, hitPromise, turnPromise>>

(* The process starts again, with another owner password: the signing key  *)
(* changes with it unless SESSION_SECRET is set. The browsers keep their   *)
(* cookies, the counts start from nothing.                                 *)
Restart ==
  /\ restarts < MaxRestarts
  /\ restarts' = restarts + 1
  /\ secret' = IF conf.fixedSecret THEN secret ELSE secret + 1
  /\ hits' = [k \in Buckets |-> <<>>] /\ hitLog' = hits'
  /\ turns' = [p \in Purses |-> <<>>] /\ turnLog' = turns'
  /\ calls' = 0
  /\ inflight' = [c \in Clients |-> NoRoute]
  /\ UNCHANGED <<conf, now, cookie, hitPromise, turnPromise>>

AdmissionNext ==
  \/ \E c \in Clients, r \in conf.calls :
       Refuse(c, r) \/ Enter(c, r) \/ SpendTurn(c, r) \/ RefuseTurn(c, r)
  \/ \E c \in Clients : HitRefused(c) \/ Run(c) \/ Logout(c) \/ Me(c)
  \/ \E c \in Clients, right \in BOOLEAN : Login(c, right)
  \/ Pass
  \/ Restart

AdmissionSpec == AdmissionInit /\ [][AdmissionNext]_admission

-----------------------------------------------------------------------------
(* More than limit times in one half-open span of length gap would put two *)
(* of them, limit apart in the log, closer than gap.                       *)
Spaced(log, limit, gap) ==
  \A i \in 1 .. Len(log) - limit : log[i + limit] - log[i] >= gap

(* No client is let through more often than its limits, in any minute or   *)
(* any 24 hours whatever moment they start at: not by a hit pruned a       *)
(* moment early, a sweep of a key still counting, or a look at the         *)
(* remaining turns (SlidingWindowLimiter.hit, GuestQuota.spend).           *)
WindowsHold ==
  /\ \A k \in Buckets : Spaced(hitLog[k], RateLimit[k[2]], Window)
  /\ \A p \in Purses : Spaced(turnLog[p], Limit(p), Day)

(* There is room for one more once the limit-th newest time is gap old.    *)
Room(s, limit, gap) == Len(s) < limit \/ s[Len(s) - limit + 1] + gap <= now

(* The Retry-After a refused client gets is honest: once that time has     *)
(* passed there is room for it, however often it knocked in between        *)
(* (SlidingWindowLimiter.hit, GuestQuota.spend).                           *)
RetryHonest ==
  /\ \A k \in Buckets : hitPromise[k] # Never /\ now >= hitPromise[k] =>
       Room(hits[k], RateLimit[k[2]], Window)
  /\ \A p \in Purses : turnPromise[p] # Never /\ now >= turnPromise[p] =>
       Room(turns[p], Limit(p), Day)
=============================================================================
