--------------------------- MODULE TokenTrustProofs ---------------------------
(***************************************************************************)
(* Proofs about tokens, keys and mappings, for every length of a second,   *)
(* every width of a Duration, and all requests, mapping files and foreign  *)
(* tokens.                                                                 *)
(***************************************************************************)
EXTENDS TokenTrust, FiniteSetTheorems, TLAPS

----------------------------------------------------------------------------
(* Arithmetic of lifetimes.                                                *)

\* A quotient is at most what multiplies back to no more than the dividend.
LEMMA QuotientBound ==
  ASSUME NEW m \in Nat, NEW s \in Nat \ {0}, NEW n \in Nat, n <= m \div s
  PROVE  n * s <= m
<1>1. m \div s \in Nat /\ (m \div s) * s <= m
  BY SMT
<1>2. n * s <= (m \div s) * s
  BY <1>1, SMT
<1> QED BY <1>1, <1>2, SMT

\* The conversion of an accepted lifetime does not wrap around.
LEMMA AcceptedTTL ==
  ASSUME NEW seconds \in Int, ~TTLRefused(seconds)
  PROVE  /\ TTL(seconds) \in 1..MaxTTL
         /\ seconds # 0 => TTL(seconds) = seconds * Second
<1>1. seconds \in Nat /\ seconds <= MaxDuration \div Second
  BY DurationAssumption, SMT DEF TTLRefused
<1>2. seconds * Second \in Nat /\ seconds * Second <= MaxDuration
  BY <1>1, QuotientBound, DurationAssumption, SMT
<1>3. Wrap(seconds * Second) = seconds * Second
  <2> DEFINE n == seconds * Second
  <2>1. n \in Nat /\ n <= MaxDuration
    BY <1>2
  <2>2. MaxDuration \in Nat
    BY DurationAssumption
  <2>3. Wrap(n) = n
    <3> HIDE DEF n
    <3>1. (n + MaxDuration + 1) % (2 * (MaxDuration + 1)) = n + MaxDuration + 1
      BY <2>1, <2>2, SMT
    <3> QED BY <3>1, <2>1, <2>2, SMT DEF Wrap
  <2> QED BY <2>3
<1>4. seconds * Second <= MaxTTL
  BY <1>2, <1>3, DurationAssumption, SMT DEF TTLRefused
<1>5. seconds = 0 <=> seconds * Second = 0
  BY DurationAssumption, <1>1, SMT
<1>6. TTL(seconds) = IF seconds * Second = 0 THEN DefaultTTL ELSE seconds * Second
  BY <1>3 DEF TTL
<1> QED BY <1>2, <1>4, <1>5, <1>6, DurationAssumption, SMT

\* Dropping the fraction of a second loses less than a second.
LEMMA UnixBound ==
  ASSUME NEW time \in Nat
  PROVE  Unix(time) \in Nat /\ Unix(time) <= time /\ time - Unix(time) < Second
BY DurationAssumption, SMT DEF Unix
----------------------------------------------------------------------------
(* The services.                                                           *)

Devs == [at: {"off", "up"}, key: Nat, start: Nat]
Vaults == [at: {"off", "up", "draining"}, mapping: Documents \cup {NoMapping},
           keys: SUBSET Nat, since: Nat]

\* A key belongs to one start, and a service that runs holds the key of the
\* start it fetched its key set from and a mapping that was accepted.
ServiceInv ==
  /\ now \in 0..MaxTime
  /\ dev \in Devs
  /\ dev.key = dev.start /\ dev.start <= MaxKeys
  /\ dev.at = "up" => dev.start # 0
  /\ file \in Documents
  /\ vault \in Vaults
  /\ IF vault.at = "off" THEN vault = Down /\ check = NoCheck
     ELSE /\ vault.since \in 1..dev.start
          /\ vault.keys = {vault.since}
          /\ vault.mapping \in Documents
          /\ MappingAccepted(vault.mapping)

LEMMA ServiceInit == Init => ServiceInv
BY BoundAssumption DEF Init, ServiceInv, Devs, Vaults, Down

\* A key set that is fetched is the key of the running development service.
LEMMA FetchedKeys ==
  ASSUME ServiceInv, Served
  PROVE  /\ Fetched \in Vaults
         /\ Fetched.at = vault.at /\ Fetched.mapping = vault.mapping
         /\ Fetched.keys = {Fetched.since} /\ Fetched.since \in 1..dev.start
<1>1. dev.start \in Nat /\ dev.start \in 1..dev.start /\ dev.key = dev.start
  BY SMT DEF ServiceInv, Served, Devs
<1>2. vault \in Vaults
  BY DEF ServiceInv
<1>3. Fetched = [vault EXCEPT !.keys = {dev.start}, !.since = dev.start]
  BY <1>1 DEF Fetched, KeySet
<1>4. {dev.start} \in SUBSET Nat
  BY <1>1
<1> QED BY <1>1, <1>2, <1>3, <1>4 DEF Vaults

LEMMA ServiceStep == ServiceInv /\ [Next]_vars => ServiceInv'
<1> SUFFICES ASSUME ServiceInv, [Next]_vars PROVE ServiceInv'
  OBVIOUS
<1>1. ASSUME NEW args \in DevCommandLines, DevStart(args) PROVE ServiceInv'
  BY <1>1, BoundAssumption DEF ServiceInv, DevStart, NewMinter, Devs, Vaults
<1>2. CASE DevStop
  BY <1>2 DEF ServiceInv, DevStop, Devs, Vaults
<1>3. ASSUME NEW request \in Requests, Mint(request) PROVE ServiceInv'
  BY <1>3 DEF ServiceInv, Mint
<1>4. CASE VaultStart
  <2>1. /\ vault' \in Vaults /\ vault'.at = "up" /\ vault'.mapping = file
        /\ vault'.keys = {vault'.since} /\ vault'.since \in 1..dev.start
    BY <1>4, FetchedKeys DEF VaultStart, Vaults, ServiceInv
  <2> QED BY <1>4, <2>1 DEF ServiceInv, VaultStart
<1>5. CASE VaultSignal
  BY <1>5 DEF ServiceInv, VaultSignal, Vaults
<1>6. CASE VaultExit
  BY <1>6 DEF ServiceInv, VaultExit, Vaults, Down
<1>7. CASE Refresh
  BY <1>7, FetchedKeys DEF ServiceInv, Refresh
<1>8. CASE FindKey \/ Verify \/ EndContext
  BY <1>8 DEF ServiceInv, FindKey, Verify, EndContext, UnderWay, NoCheck
<1>9. CASE FetchKey
  <2>1. vault.at # "off"
    BY <1>9 DEF ServiceInv, FetchKey, NoCheck
  <2>2. CASE vault.at = "up" /\ Served /\ vault' = Fetched
    BY <1>9, <2>1, <2>2, FetchedKeys DEF ServiceInv, FetchKey
  <2>3. CASE UNCHANGED vault
    BY <1>9, <2>1, <2>3 DEF ServiceInv, FetchKey
  <2> QED BY <1>9, <2>2, <2>3 DEF FetchKey
<1>10. CASE Resolve
  BY <1>10 DEF ServiceInv, Resolve, NoCheck
<1>11. CASE Tick
  BY <1>11, BoundAssumption DEF ServiceInv, Tick
<1>12. ASSUME NEW document \in Documents, Edit(document) PROVE ServiceInv'
  BY <1>12 DEF ServiceInv, Edit
<1>13. ASSUME NEW token \in minted \cup ForeignTokens, Arrive(token) PROVE ServiceInv'
  BY <1>13 DEF ServiceInv, Arrive
<1>14. CASE UNCHANGED vars
  BY <1>14 DEF ServiceInv, vars
<1> QED BY <1>1, <1>2, <1>3, <1>4, <1>5, <1>6, <1>7, <1>8, <1>9, <1>10, <1>11, <1>12,
             <1>13, <1>14 DEF Next, DevNext, VaultNext, CheckNext

\* A service that runs has keys to authenticate with, however the issuer comes
\* and goes.
THEOREM RunningHasKeys == Spec => []ReadyHasKeys
<1>1. ServiceInv => ReadyHasKeys
  BY DEF ServiceInv, ReadyHasKeys
<1> QED BY <1>1, ServiceInit, ServiceStep, PTL DEF Spec

----------------------------------------------------------------------------
(* Minting.                                                                *)

\* What is true of a token that was minted when the service had started at most
\* starts times, no later than time.
Genuine(token, starts, time) ==
  /\ token.request \in Requests /\ ~MintRefused(token.request)
  /\ token.start \in 1..starts /\ token.key = token.start
  /\ token.method = "EdDSA" /\ token.signed /\ token.iss = Issuer
  /\ token.sub = TrimSpace(token.request.subject)
  /\ token.aud = Audiences(token.request)
  /\ token.issued \in 0..time
  /\ token.told = token.issued + TTL(token.request.ttl)
  /\ token.exp = {Unix(token.told)}

MintInv == \A token \in minted : Genuine(token, dev.start, now)

LEMMA MintedGenuine ==
  ASSUME ServiceInv, NEW request \in Requests, Mint(request)
  PROVE  Genuine(Token(request), dev.start, now)
<1>1. dev.start \in 1..dev.start /\ dev.key = dev.start
  BY SMT DEF ServiceInv, Mint, Devs
<1>2. now \in 0..now
  BY BoundAssumption, SMT DEF ServiceInv
<1> QED BY <1>1, <1>2 DEF Genuine, Token, Mint

LEMMA MintStep == ServiceInv /\ MintInv /\ [Next]_vars => MintInv'
<1> SUFFICES ASSUME ServiceInv, MintInv, [Next]_vars, NEW token \in minted'
             PROVE  Genuine(token, dev.start, now)'
  BY DEF MintInv
<1>1. /\ dev.start \in Nat /\ dev'.start \in Nat /\ dev.start <= dev'.start
      /\ now \in Nat /\ now' \in Nat /\ now <= now'
  <2>1. ServiceInv'
    BY ServiceStep
  <2>2. /\ dev' = dev \/ dev' = NewMinter \/ dev' = [dev EXCEPT !.at = "off"]
        /\ now' = now \/ now' = now + 1
    BY DEF Next, DevNext, VaultNext, CheckNext, DevStart, DevStop, Mint, VaultStart,
           VaultSignal, VaultExit, Refresh, FindKey, FetchKey, Resolve, Tick, Edit, Arrive,
           Verify, EndContext, vars
  <2>3. dev \in Devs /\ now \in Nat
    BY BoundAssumption DEF ServiceInv
  <2>4. dev.start <= dev'.start /\ now <= now'
    BY <2>2, <2>3, SMT DEF Devs, NewMinter
  <2> QED BY <2>1, <2>3, <2>4, BoundAssumption, SMT DEF ServiceInv, Devs
<1>2. ASSUME token \in minted PROVE Genuine(token, dev.start, now)'
  <2>1. Genuine(token, dev.start, now)
    BY <1>2 DEF MintInv
  <2>2. token.start \in 1..dev'.start /\ token.issued \in 0..now'
    BY <2>1, <1>1, SMT DEF Genuine
  <2> QED BY <2>1, <2>2 DEF Genuine
<1>3. ASSUME NEW request \in Requests, Mint(request), token \notin minted
      PROVE  Genuine(token, dev.start, now)'
  <2>1. token = Token(request) /\ dev' = dev /\ now' = now
    BY <1>3 DEF Mint
  <2>2. Genuine(Token(request), dev.start, now)
    BY <1>3, MintedGenuine
  <2> QED BY <2>1, <2>2 DEF Genuine
<1>4. token \in minted \/ \E request \in Requests : Mint(request)
  BY DEF Next, DevNext, VaultNext, CheckNext, DevStart, DevStop, VaultStart, VaultSignal,
         VaultExit, Refresh, FindKey, FetchKey, Resolve, Tick, Edit, Arrive, Verify,
         EndContext, vars
<1> QED BY <1>2, <1>3, <1>4

\* How long a genuine token lives.
LEMMA GenuineLifetime ==
  ASSUME NEW token, NEW starts, NEW time \in Nat, Genuine(token, starts, time)
  PROVE  /\ token.issued \in Nat /\ token.told \in Nat
         /\ token.told - token.issued <= MaxTTL
         /\ token.request.ttl # 0 => token.told - token.issued = token.request.ttl * Second
         /\ Unix(token.told) \in Nat
         /\ Unix(token.told) <= token.told /\ token.told - Unix(token.told) < Second
<1>1. token.request.ttl \in Int /\ ~TTLRefused(token.request.ttl)
  BY RequestAssumption DEF Genuine, MintRefused
<1>2. /\ TTL(token.request.ttl) \in 1..MaxTTL
      /\ token.request.ttl # 0 => TTL(token.request.ttl) = token.request.ttl * Second
  BY <1>1, AcceptedTTL
<1>3. token.issued \in Nat /\ token.told = token.issued + TTL(token.request.ttl)
  BY DEF Genuine
<1>4. token.told \in Nat /\ token.told - token.issued = TTL(token.request.ttl)
  BY <1>2, <1>3, DurationAssumption, SMT
<1> QED BY <1>2, <1>3, <1>4, UnixBound, DurationAssumption, SMT

\* A token lives as long as was asked for, to the second, whatever number of
\* seconds was asked for.
THEOREM LifetimesAreTrue == Spec => []LivesAsAsked
<1>1. Init => MintInv
  BY DEF Init, MintInv
<1>2. ServiceInv /\ MintInv => LivesAsAsked
  <2> SUFFICES ASSUME ServiceInv, MintInv, NEW token \in minted
               PROVE  /\ token.request.ttl # 0
                           => token.told - token.issued = token.request.ttl * Second
                      /\ \A exp \in token.exp : exp <= token.told /\ token.told - exp < Second
    BY DEF LivesAsAsked
  <2>1. Genuine(token, dev.start, now) /\ now \in Nat
    BY DEF MintInv, ServiceInv
  <2>2. token.exp = {Unix(token.told)}
    BY <2>1 DEF Genuine
  <2> QED BY <2>1, <2>2, GenuineLifetime
<1> QED BY <1>1, <1>2, ServiceInit, ServiceStep, MintStep, PTL DEF Spec

----------------------------------------------------------------------------
(* Requests.                                                               *)

\* The claims were verified with a key the service had fetched.
Verified(token) == /\ token.method \in Methods /\ token.signed
                   /\ token.key = check.since /\ check.since \in 1..MaxKeys

CallerKey(token) == <<TrimSpace(token.iss), TrimSpace(token.sub)>>

\* Why a token was let in ...
LetIn(token) ==
  /\ Verified(token) /\ check.when \in Nat
  /\ Audience \in token.aud
  /\ \A exp \in token.exp : ~(check.when >= exp)
  /\ CallerKey(token) \in DOMAIN Lookup(vault.mapping)
  /\ check.scopes = Lookup(vault.mapping)[CallerKey(token)]

\* ... and why a genuine one was not.
Excused(token) == \/ check.ended /\ check.verdict = "canceled"
                  \/ check.when > token.told - Second
                  \/ Audience \notin token.aud
                  \/ <<Issuer, token.sub>> \notin DOMAIN Lookup(vault.mapping)

CheckOf(token) ==
  /\ check.at = "claims" => Verified(token)
  /\ check.at = "done" /\ Accepted => LetIn(token)
  /\ check.at = "done" /\ ~Accepted /\ ~check.missed /\ token \notin ForeignTokens
       => Excused(token)

Shape(c) == c = [at |-> c.at, token |-> c.token, verdict |-> c.verdict, scopes |-> c.scopes,
                 when |-> c.when, missed |-> c.missed, since |-> c.since, ended |-> c.ended]

CheckInv ==
  /\ Shape(check) /\ check.ended \in BOOLEAN
  /\ check.at \in {"idle", "done"} \cup UnderWay
  /\ check.verdict \in Reasons \cup {"accepted", "none"}
  /\ check.at = "done" <=> check.verdict # "none"
  /\ IF check.at = "idle" THEN check.token = {}
     ELSE \E token \in minted \cup ForeignTokens : check.token = {token} /\ CheckOf(token)

LEMMA TheTokenIs ==
  ASSUME NEW token, check.token = {token}
  PROVE  TheToken = token
BY DEF TheToken

\* A genuine token is not a foreign one.
LEMMA GenuineNotForeign ==
  ASSUME ServiceInv, NEW token, Genuine(token, dev.start, now)
  PROVE  token \notin ForeignTokens
<1>1. token.signed /\ token.method \in Methods /\ token.key \in 1..dev.start
  BY DEF Genuine, Methods
<1>2. 1..dev.start \subseteq 1..MaxKeys
  BY BoundAssumption, SMT DEF ServiceInv, Devs
<1> QED BY <1>1, <1>2, ForeignAssumption

\* A text that has been trimmed is not changed by being trimmed again.
LEMMA TrimTwice ==
  ASSUME NEW text \in Texts
  PROVE  TrimSpace(TrimSpace(text)) = TrimSpace(text) /\ TrimSpace(text) \in Texts
BY DEF TrimSpace, Texts

LEMMA IssuerTrimmed == TrimSpace(Issuer) = Issuer
<1> DEFINE Named(name) == [name: {name}, padded: BOOLEAN]
<1>1. ASSUME NEW name PROVE Text(name) \in Named(name) /\ Text(name).padded = FALSE
  BY DEF Text
<1>2. ASSUME NEW name, NEW text \in Named(name), text.padded = FALSE
      PROVE  TrimSpace(text) = text
  BY <1>2 DEF TrimSpace
<1> HIDE DEF Named
<1> QED BY <1>1, <1>2 DEF Issuer

LEMMA GenuineNames ==
  ASSUME NEW token, NEW starts, NEW time, Genuine(token, starts, time)
  PROVE  CallerKey(token) = <<Issuer, token.sub>>
<1>1. token.request.subject \in Texts
  BY RequestAssumption DEF Genuine
<1>2. TrimSpace(token.sub) = token.sub
  BY <1>1, TrimTwice DEF Genuine
<1> QED BY <1>2, IssuerTrimmed DEF Genuine, CallerKey

\* What is known of a request stays true while it waits.
LEMMA CheckFrame ==
  ASSUME CheckInv, check' = check, minted \subseteq minted',
         check.at # "idle" => vault'.mapping = vault.mapping
  PROVE  CheckInv'
<1>1. CASE check.at = "idle"
  BY <1>1 DEF CheckInv, Shape
<1>2. CASE check.at # "idle"
  <2>1. PICK token \in minted \cup ForeignTokens : check.token = {token} /\ CheckOf(token)
    BY <1>2 DEF CheckInv
  <2>2. vault'.mapping = vault.mapping
    BY <1>2
  <2>3. CheckOf(token)'
    BY <2>1, <2>2 DEF CheckOf, Accepted, LetIn, Verified, Excused, Lookup
  <2> QED BY <1>2, <2>1, <2>3 DEF CheckInv, Shape
<1> QED BY <1>1, <1>2

LEMMA VerifyStep ==
  ASSUME CheckInv, Verify
  PROVE  CheckInv'
<1>1. PICK token \in minted \cup ForeignTokens : check.token = {token}
  BY DEF CheckInv, Verify
<1>2. check'.token = {token} /\ check'.ended = check.ended /\ Shape(check)'
  BY <1>1 DEF CheckInv, Verify, Shape, Refused
<1>3. CASE check.ended
  <2>1. check'.at = "done" /\ check'.verdict = "canceled"
    BY <1>3 DEF Verify, Refused, CheckInv, Shape
  <2>2. CheckOf(token)'
    BY <1>2, <1>3, <2>1 DEF CheckOf, Accepted, Excused
  <2> QED BY <1>1, <1>2, <2>1, <2>2 DEF CheckInv, Verify, Reasons
<1>4. CASE ~check.ended
  <2>1. check'.at = "keys" /\ check'.verdict = check.verdict
    BY <1>4 DEF Verify, CheckInv, Shape
  <2>2. CheckOf(token)'
    BY <2>1 DEF CheckOf
  <2> QED BY <1>1, <1>2, <2>1, <2>2 DEF CheckInv, Verify, UnderWay
<1> QED BY <1>3, <1>4

\* What is known of a request does not depend on its context, as long as it has
\* no verdict.
LEMMA EndContextStep ==
  ASSUME CheckInv, EndContext
  PROVE  CheckInv'
<1>1. PICK token \in minted \cup ForeignTokens : check.token = {token} /\ CheckOf(token)
  BY DEF CheckInv, EndContext, UnderWay
<1>2. /\ check'.token = {token} /\ check'.at = check.at /\ check'.verdict = check.verdict
      /\ check'.since = check.since /\ check'.ended /\ Shape(check)'
  BY <1>1 DEF CheckInv, EndContext, Shape
<1>3. CheckOf(token)'
  BY <1>1, <1>2 DEF EndContext, UnderWay, CheckOf, Verified
<1> QED BY <1>1, <1>2, <1>3 DEF CheckInv, EndContext, UnderWay

LEMMA FindKeyStep ==
  ASSUME ServiceInv, MintInv, CheckInv, FindKey
  PROVE  CheckInv'
<1>1. PICK token \in minted \cup ForeignTokens : check.token = {token}
  BY DEF CheckInv, FindKey
<1>2. TheToken = token
  BY <1>1, TheTokenIs
<1>3. check'.token = {token} /\ check'.ended = check.ended /\ Shape(check)'
  BY <1>1 DEF CheckInv, FindKey, Shape, Refused
<1>4. CASE token.method \in Methods /\ token.signed
  <2>1. check' = [check EXCEPT !.at = "claims", !.since = vault.since]
    BY <1>2, <1>4 DEF FindKey
  <2>2. vault.since \in 1..dev.start /\ vault.keys = {vault.since}
    BY DEF ServiceInv, FindKey, NoCheck
  <2>3. vault.since \in 1..MaxKeys
    BY <2>2, BoundAssumption, SMT DEF ServiceInv, Devs
  <2>4. token.key = vault.since
    BY <1>2, <1>4, <2>2 DEF FindKey
  <2>5. check'.at = "claims" /\ check'.since = vault.since /\ check'.verdict = check.verdict
    BY <2>1 DEF CheckInv, Shape
  <2>6. CheckOf(token)'
    BY <1>4, <2>3, <2>4, <2>5 DEF CheckOf, Verified
  <2> QED BY <1>1, <1>3, <2>5, <2>6 DEF CheckInv, FindKey, UnderWay
<1>5. CASE ~(token.method \in Methods /\ token.signed)
  <2>1. check' = Refused("invalid_signature")
    BY <1>2, <1>5 DEF FindKey
  <2>2. check'.at = "done" /\ check'.verdict = "invalid_signature"
    BY <2>1 DEF Refused, CheckInv, Shape
  <2>3. token \in ForeignTokens
    BY <1>5 DEF MintInv, Genuine, Methods
  <2>4. CheckOf(token)'
    BY <2>2, <2>3 DEF CheckOf, Accepted
  <2> QED BY <1>1, <1>3, <2>2, <2>4 DEF CheckInv, FindKey, Reasons, UnderWay
<1> QED BY <1>4, <1>5

LEMMA FetchKeyStep ==
  ASSUME ServiceInv, CheckInv, FetchKey
  PROVE  CheckInv'
<1>1. PICK token \in minted \cup ForeignTokens : check.token = {token} /\ CheckOf(token)
  BY DEF CheckInv, FetchKey
<1>2. vault'.mapping = vault.mapping
  BY FetchedKeys DEF FetchKey
<1>3. CASE check' = check
  BY <1>2, <1>3, CheckFrame DEF FetchKey
<1>4. CASE check' = [Refused("principal_resolution_failed") EXCEPT !.missed = TRUE]
  <2>1. /\ check'.at = "done" /\ check'.verdict = "principal_resolution_failed"
        /\ check'.token = {token} /\ check'.missed /\ check'.ended = check.ended
        /\ Shape(check)'
    BY <1>1, <1>4 DEF Refused, CheckInv, Shape
  <2>2. CheckOf(token)'
    BY <2>1 DEF CheckOf, Accepted
  <2> QED BY <1>1, <2>1, <2>2 DEF CheckInv, FetchKey, Reasons, UnderWay
<1> QED BY <1>3, <1>4 DEF FetchKey

\* Why the claims of a genuine token may be refused.
LEMMA GenuineReason ==
  ASSUME NEW token, NEW starts, Genuine(token, starts, now), now \in Nat,
         ClaimsReason(token) # "none"
  PROVE  now > token.told - Second \/ Audience \notin token.aud
<1>1. CASE Expired(token)
  <2>1. now >= Unix(token.told)
    BY <1>1 DEF Expired, Genuine
  <2>2. /\ token.told \in Nat /\ Unix(token.told) \in Nat
        /\ token.told - Unix(token.told) < Second
    BY GenuineLifetime
  <2> QED BY <2>1, <2>2, DurationAssumption, SMT
<1>2. CASE ~Expired(token)
  <2>1. token.iss = Issuer /\ token.exp # {}
    BY DEF Genuine
  <2>2. token.request.subject \in Texts /\ ~IsBlank(token.request.subject)
    BY RequestAssumption DEF Genuine, MintRefused
  <2>3. ~IsBlank(token.sub)
    BY <2>2 DEF Genuine, IsBlank, TrimSpace, Texts
  <2> QED BY <1>2, <2>1, <2>3 DEF ClaimsReason
<1> QED BY <1>1, <1>2

LEMMA ClaimsVerdict ==
  ASSUME NEW token, ClaimsReason(token) # "none"
  PROVE  ClaimsReason(token) \in Reasons
BY DEF ClaimsReason, Reasons

LEMMA ResolveStep ==
  ASSUME ServiceInv, MintInv, CheckInv, Resolve
  PROVE  CheckInv'
<1>1. PICK token \in minted \cup ForeignTokens : check.token = {token} /\ CheckOf(token)
  BY DEF CheckInv, Resolve
<1>2. TheToken = token
  BY <1>1, TheTokenIs
<1>3. Verified(token)
  BY <1>1 DEF CheckOf, Resolve
<1>4. now \in Nat
  BY DEF ServiceInv
<1>5. check'.token = {token} /\ check'.ended = check.ended /\ Shape(check)'
  BY <1>1 DEF CheckInv, Resolve, Shape, Refused
<1>6. CASE /\ ClaimsReason(token) = "none" /\ ~check.ended
           /\ CallerKey(token) \in DOMAIN Lookup(vault.mapping)
  <2>1. check' = [check EXCEPT !.at = "done", !.verdict = "accepted", !.when = now,
                               !.scopes = Lookup(vault.mapping)[CallerKey(token)]]
    BY <1>2, <1>6 DEF Resolve, CallerKey
  <2>2. /\ check'.at = "done" /\ check'.verdict = "accepted" /\ check'.when = now
        /\ check'.scopes = Lookup(vault.mapping)[CallerKey(token)]
        /\ check'.since = check.since
    BY <2>1 DEF CheckInv, Shape
  <2>3. Audience \in token.aud /\ ~Expired(token)
    BY <1>6 DEF ClaimsReason
  <2>4. LetIn(token)'
    <3>1. vault' = vault
      BY DEF Resolve
    <3>2. Verified(token)'
      BY <1>3, <2>2 DEF Verified
    <3>3. \A exp \in token.exp : ~(check'.when >= exp)
      BY <2>2, <2>3 DEF Expired
    <3>4. /\ CallerKey(token) \in DOMAIN Lookup(vault'.mapping)
          /\ check'.scopes = Lookup(vault'.mapping)[CallerKey(token)]
      BY <3>1, <1>6, <2>2
    <3> QED BY <1>4, <2>2, <2>3, <3>2, <3>3, <3>4 DEF LetIn
  <2>5. CheckOf(token)'
    BY <2>2, <2>4 DEF CheckOf, Accepted
  <2> QED BY <1>1, <1>5, <2>2, <2>5 DEF CheckInv, Resolve, UnderWay
<1>7. ASSUME NEW reason \in Reasons, check' = Refused(reason),
             token \notin ForeignTokens => Excused(token)'
      PROVE  CheckInv'
  <2>1. check'.at = "done" /\ check'.verdict = reason
    BY <1>7 DEF Refused, CheckInv, Shape
  <2>2. reason # "accepted" /\ reason # "none"
    BY <1>7 DEF Reasons
  <2>3. CheckOf(token)'
    BY <1>7, <2>1, <2>2 DEF CheckOf, Accepted
  <2> QED BY <1>1, <1>5, <1>7, <2>1, <2>2, <2>3 DEF CheckInv, Resolve, UnderWay
<1>8. ASSUME NEW reason, check' = Refused(reason) PROVE check'.when = now
  BY <1>8 DEF Refused, CheckInv, Shape
<1>9. CASE ClaimsReason(token) # "none"
  <2>1. check' = Refused(ClaimsReason(token))
    BY <1>2, <1>9 DEF Resolve
  <2>2. ASSUME token \notin ForeignTokens PROVE Excused(token)'
    <3>1. Genuine(token, dev.start, now)
      BY <1>1, <2>2 DEF MintInv
    <3>2. now > token.told - Second \/ Audience \notin token.aud
      BY <3>1, <1>4, <1>9, GenuineReason
    <3> QED BY <3>2, <2>1, <1>8 DEF Excused
  <2> QED BY <1>7, <1>9, <2>1, <2>2, ClaimsVerdict
<1>10. CASE /\ ClaimsReason(token) = "none" /\ ~check.ended
            /\ CallerKey(token) \notin DOMAIN Lookup(vault.mapping)
  <2>1. check' = Refused("principal_resolution_failed")
    BY <1>2, <1>10 DEF Resolve, CallerKey
  <2>2. ASSUME token \notin ForeignTokens PROVE Excused(token)'
    <3>1. Genuine(token, dev.start, now)
      BY <1>1, <2>2 DEF MintInv
    <3>2. <<Issuer, token.sub>> \notin DOMAIN Lookup(vault.mapping)
      BY <3>1, <1>10, GenuineNames
    <3>3. vault' = vault
      BY DEF Resolve
    <3> QED BY <3>2, <3>3 DEF Excused, Lookup
  <2>3. "principal_resolution_failed" \in Reasons
    BY DEF Reasons
  <2> QED BY <1>7, <2>1, <2>2, <2>3
<1>11. CASE ClaimsReason(token) = "none" /\ check.ended
  <2>1. check' = Refused("canceled")
    BY <1>2, <1>11 DEF Resolve
  <2>2. check'.ended /\ check'.verdict = "canceled"
    BY <1>11, <2>1 DEF Refused, CheckInv, Shape
  <2>3. "canceled" \in Reasons
    BY DEF Reasons
  <2> QED BY <1>7, <2>1, <2>2, <2>3 DEF Excused
<1> QED BY <1>6, <1>9, <1>10, <1>11

LEMMA ArriveStep ==
  ASSUME NEW token \in minted \cup ForeignTokens, Arrive(token)
  PROVE  CheckInv'
<1>1. /\ check' = [NoCheck EXCEPT !.at = "arrived", !.token = {token}]
      /\ minted' = minted
  BY DEF Arrive
<1>2. /\ Shape(check)' /\ check'.ended = FALSE /\ check'.at = "arrived"
      /\ check'.verdict = "none" /\ check'.token = {token}
  BY <1>1 DEF NoCheck, Shape
<1>3. CheckOf(token)'
  BY <1>2 DEF CheckOf
<1> QED BY <1>1, <1>2, <1>3 DEF CheckInv, UnderWay

LEMMA NothingToCheck == check' = NoCheck => CheckInv'
BY DEF CheckInv, NoCheck, Shape

LEMMA CheckStep == ServiceInv /\ MintInv /\ CheckInv /\ [Next]_vars => CheckInv'
<1> SUFFICES ASSUME ServiceInv, MintInv, CheckInv, [Next]_vars PROVE CheckInv'
  OBVIOUS
<1>1. ASSUME NEW args \in DevCommandLines, DevStart(args) PROVE CheckInv'
  BY <1>1, CheckFrame DEF DevStart
<1>2. CASE DevStop
  BY <1>2, CheckFrame DEF DevStop
<1>3. ASSUME NEW request \in Requests, Mint(request) PROVE CheckInv'
  BY <1>3, CheckFrame DEF Mint
<1>4. CASE VaultStart
  BY <1>4, NothingToCheck DEF VaultStart, ServiceInv
<1>5. CASE VaultSignal
  BY <1>5, CheckFrame DEF VaultSignal, ServiceInv, Vaults
<1>6. CASE VaultExit
  BY <1>6, NothingToCheck DEF VaultExit
<1>7. CASE Refresh
  BY <1>7, CheckFrame, FetchedKeys DEF Refresh
<1>8. CASE FindKey \/ Verify \/ EndContext
  BY <1>8, FindKeyStep, VerifyStep, EndContextStep
<1>9. CASE FetchKey
  BY <1>9, FetchKeyStep
<1>10. CASE Resolve
  BY <1>10, ResolveStep
<1>11. CASE Tick
  BY <1>11, CheckFrame DEF Tick
<1>12. ASSUME NEW document \in Documents, Edit(document) PROVE CheckInv'
  BY <1>12, CheckFrame DEF Edit
<1>13. ASSUME NEW token \in minted \cup ForeignTokens, Arrive(token) PROVE CheckInv'
  BY <1>13, ArriveStep
<1>14. CASE UNCHANGED vars
  BY <1>14, CheckFrame DEF vars
<1> QED BY <1>1, <1>2, <1>3, <1>4, <1>5, <1>6, <1>7, <1>8, <1>9, <1>10, <1>11, <1>12,
             <1>13, <1>14 DEF Next, DevNext, VaultNext, CheckNext

----------------------------------------------------------------------------
(* What follows of a request.                                              *)

IInv == ServiceInv /\ MintInv /\ CheckInv

LEMMA Invariance == Spec => []IInv
<1>1. Init => IInv
  <2>1. Init => MintInv
    BY DEF Init, MintInv
  <2>2. Init => CheckInv
    BY DEF Init, CheckInv, NoCheck, Shape
  <2> QED BY <2>1, <2>2, ServiceInit DEF IInv
<1>2. IInv /\ [Next]_vars => IInv'
  BY ServiceStep, MintStep, CheckStep DEF IInv
<1> QED BY <1>1, <1>2, PTL DEF Spec

\* A token that was let in was minted by the development service.
LEMMA LetInIsGenuine ==
  ASSUME IInv, check.at = "done", Accepted
  PROVE  \E token \in minted : /\ TheToken = token /\ check.token = {token}
                               /\ LetIn(token) /\ Genuine(token, dev.start, now)
<1>1. PICK token \in minted \cup ForeignTokens : check.token = {token} /\ CheckOf(token)
  BY DEF IInv, CheckInv
<1>2. LetIn(token)
  BY <1>1 DEF CheckOf
<1>3. token \notin ForeignTokens
  BY <1>2, ForeignAssumption DEF LetIn, Verified
<1> QED BY <1>1, <1>2, <1>3, TheTokenIs DEF IInv, MintInv

\* Only a token of the development service is let in, for this audience, within
\* its lifetime, and of the start whose key set the vault service held.
THEOREM AcceptedIsMinted == Spec => []AcceptedWasMinted
<1>1. IInv => AcceptedWasMinted
  <2> SUFFICES ASSUME IInv, check.at = "done", Accepted
               PROVE  /\ Minted /\ Audience \in TheToken.aud
                      /\ check.when < TheToken.told
                      /\ check.when - TheToken.issued < MaxTTL
                      /\ check.since = TheToken.start
    BY DEF AcceptedWasMinted
  <2>1. PICK token \in minted : /\ TheToken = token /\ check.token = {token}
                                /\ LetIn(token) /\ Genuine(token, dev.start, now)
    BY LetInIsGenuine
  <2>2. now \in Nat
    BY DEF IInv, ServiceInv
  <2>3. /\ token.issued \in Nat /\ token.told \in Nat /\ Unix(token.told) \in Nat
        /\ token.told - token.issued <= MaxTTL /\ Unix(token.told) <= token.told
    BY <2>1, <2>2, GenuineLifetime
  <2>4. check.when \in Nat /\ ~(check.when >= Unix(token.told))
    BY <2>1 DEF LetIn, Genuine
  <2>5. check.when < token.told /\ check.when - token.issued < MaxTTL
    BY <2>3, <2>4, DurationAssumption, SMT
  <2>6. check.since = token.start
    BY <2>1 DEF LetIn, Verified, Genuine
  <2> QED BY <2>1, <2>5, <2>6 DEF LetIn, Minted
<1> QED BY <1>1, Invariance, PTL

\* The entries of an accepted mapping that name a caller agree on its scopes.
LEMMA OneEntryPerKey ==
  ASSUME NEW document \in Documents, MappingAccepted(document),
         NEW i \in DOMAIN document.entries, NEW j \in DOMAIN document.entries,
         Key(document.entries[i]) = Key(document.entries[j])
  PROVE  i = j
<1>1. i \in Nat /\ j \in Nat /\ 1 <= i /\ 1 <= j
  BY DocumentAssumption, SMT
<1>2. ASSUME NEW m \in DOMAIN document.entries, NEW n \in 1..(m - 1)
      PROVE  Key(document.entries[n]) # Key(document.entries[m])
  BY <1>2 DEF MappingAccepted
<1>3. CASE j < i
  BY <1>1, <1>2, <1>3, SMT
<1>4. CASE i < j
  BY <1>1, <1>2, <1>4, SMT
<1> QED BY <1>1, <1>3, <1>4, SMT

\* What the lookup table holds for a caller is what its entry says.
LEMMA LookupIsTheEntry ==
  ASSUME NEW document \in Documents, MappingAccepted(document),
         NEW key \in DOMAIN Lookup(document)
  PROVE  \E i \in DOMAIN document.entries :
           /\ Key(document.entries[i]) = key
           /\ Lookup(document)[key] = document.entries[i].scopes
<1>1. PICK i \in DOMAIN document.entries : Key(document.entries[i]) = key
  BY DEF Lookup
<1>2. i \in Nat
  BY DocumentAssumption, SMT
<1> DEFINE Last(l) == /\ Key(document.entries[l]) = key
                      /\ \A j \in DOMAIN document.entries :
                           Key(document.entries[j]) = key => j <= l
<1>3. Last(i)
  BY <1>1, <1>2, OneEntryPerKey, SMT
<1>4. \A l \in DOMAIN document.entries : Last(l) => l = i
  BY <1>1, OneEntryPerKey
<1>5. (CHOOSE l \in DOMAIN document.entries : Last(l)) = i
  <2> HIDE DEF Last
  <2> QED BY <1>3, <1>4
<1>6. key \in {Key(document.entries[n]) : n \in DOMAIN document.entries}
  BY <1>1
<1>7. Lookup(document)[key] = document.entries[i].scopes
  BY <1>5, <1>6 DEF Lookup
<1> QED BY <1>1, <1>7

\* The scopes of a caller are those of the one entry that names it.
THEOREM GrantsAreUnambiguous == Spec => []GrantIsUnambiguous
<1>1. IInv => GrantIsUnambiguous
  <2> SUFFICES ASSUME IInv, check.at = "done", Accepted
               PROVE  \E entry \in Entries :
                        /\ Key(entry) = <<TheToken.iss, TheToken.sub>>
                        /\ check.scopes = entry.scopes
                        /\ \A other \in Entries :
                             Key(other) = Key(entry) => other.scopes = entry.scopes
    BY DEF GrantIsUnambiguous
  <2>1. PICK token \in minted : /\ TheToken = token /\ check.token = {token}
                                /\ LetIn(token) /\ Genuine(token, dev.start, now)
    BY LetInIsGenuine
  <2> DEFINE document == vault.mapping
  <2>2. document \in Documents /\ MappingAccepted(document)
    BY DEF IInv, ServiceInv, NoCheck
  <2>3. <<token.iss, token.sub>> = CallerKey(token)
    BY <2>1, GenuineNames DEF Genuine
  <2>4. PICK i \in DOMAIN document.entries :
          /\ Key(document.entries[i]) = CallerKey(token)
          /\ Lookup(document)[CallerKey(token)] = document.entries[i].scopes
    BY <2>1, <2>2, LookupIsTheEntry DEF LetIn
  <2>5. check.scopes = document.entries[i].scopes
    BY <2>1, <2>4 DEF LetIn
  <2>6. ASSUME NEW other \in Entries, Key(other) = Key(document.entries[i])
        PROVE  other.scopes = document.entries[i].scopes
    <3>1. PICK j \in DOMAIN document.entries : other = document.entries[j]
      BY DEF Entries
    <3> QED BY <2>2, <2>6, <3>1, OneEntryPerKey
  <2> QED BY <2>1, <2>3, <2>4, <2>5, <2>6 DEF Entries
<1> QED BY <1>1, Invariance, PTL

\* A token that was minted for this audience, whose subject is mapped, is only
\* refused within a second of its end, for want of its key or because the
\* context of its request has ended.
THEOREM GoodTokensPass == Spec => []GoodTokenPasses
<1>1. IInv => GoodTokenPasses
  <2> SUFFICES ASSUME IInv, check.at = "done", Minted, ~Accepted, ~check.missed
               PROVE  \/ check.ended /\ check.verdict = "canceled"
                      \/ check.when > TheToken.told - Second
                      \/ \A audience \in TheToken.request.audiences :
                           TrimSpace(audience) # Audience
                      \/ <<Issuer, TrimSpace(TheToken.request.subject)>>
                           \notin DOMAIN Lookup(vault.mapping)
    BY DEF GoodTokenPasses
  <2>1. PICK token \in minted \cup ForeignTokens : check.token = {token} /\ CheckOf(token)
    BY DEF IInv, CheckInv
  <2>2. token \in minted /\ TheToken = token
    BY <2>1, TheTokenIs DEF Minted
  <2>3. Genuine(token, dev.start, now)
    BY <2>2 DEF IInv, MintInv
  <2>4. token \notin ForeignTokens
    BY <2>3, GenuineNotForeign DEF IInv
  <2>5. Excused(token)
    BY <2>1, <2>4 DEF CheckOf
  <2>6. /\ token.sub = TrimSpace(token.request.subject)
        /\ token.aud = Audiences(token.request)
    BY <2>3 DEF Genuine
  <2> QED BY <2>2, <2>5, <2>6 DEF Excused, Audiences
<1> QED BY <1>1, Invariance, PTL

\* Types, and that a service that is off holds nothing and authenticates nobody.
THEOREM TypeCorrect == Spec => []TypeOK
<1>1. IInv => TypeOK
  <2> SUFFICES ASSUME IInv PROVE TypeOK
    OBVIOUS
  <2>1. /\ now \in 0..MaxTime /\ file \in Documents
        /\ dev.at \in {"off", "up"} /\ vault.at \in {"off", "up", "draining"}
        /\ vault.at = "off" => vault = Down /\ check = NoCheck
    BY DEF IInv, ServiceInv, Devs, Vaults
  <2>2. dev.start \in 0..MaxKeys /\ dev.key \in 0..dev.start
    BY BoundAssumption, SMT DEF IInv, ServiceInv, Devs
  <2>3. vault.keys \subseteq 1..dev.key
    BY DEF IInv, ServiceInv, Down
  <2>4. Cardinality(check.token) <= 1 /\ (check.at = "idle" <=> check.token = {})
    <3>1. CASE check.at = "idle"
      <4>1. check.token = {}
        BY <3>1 DEF IInv, CheckInv
      <4> QED BY <3>1, <4>1, FS_EmptySet
    <3>2. CASE check.at # "idle"
      <4>1. PICK token : check.token = {token}
        BY <3>2 DEF IInv, CheckInv
      <4>2. Cardinality(check.token) = 1
        BY <4>1, FS_Singleton
      <4> QED BY <3>2, <4>1, <4>2
    <3> QED BY <3>1, <3>2
  <2>5. /\ check.at \in {"idle", "done"} \cup UnderWay /\ check.ended \in BOOLEAN
        /\ check.verdict \in Reasons \cup {"accepted", "none"}
        /\ check.at = "done" <=> check.verdict # "none"
    BY DEF IInv, CheckInv
  <2> QED BY <2>1, <2>2, <2>3, <2>4, <2>5 DEF TypeOK
<1> QED BY <1>1, Invariance, PTL
=============================================================================
