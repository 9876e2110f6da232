------------------------------ MODULE TokenTrust ------------------------------
(***************************************************************************)
(* Where a caller's identity comes from: the development authentication    *)
(* service mints tokens and serves the key that verifies them, a new key   *)
(* after every start; the vault service loads the scope mapping and a key  *)
(* set when it starts, refreshes the keys, and resolves the bearer token of*)
(* a request to a principal or to a reason why not.                        *)
(*                                                                         *)
(* The clock counts ticks, of which a second has several; a Duration is a  *)
(* number of ticks, as it is a number of nanoseconds in the code.          *)
(***************************************************************************)
EXTENDS Integers, Sequences, FiniteSets

CONSTANTS Second,         \* ticks of a second
          MaxDuration,      \* the largest Duration, one less than a power of two
          MaxTTL, DefaultTTL,
          Requests,         \* what MintToken is asked for
          Documents,        \* contents of the mapping file
          ForeignTokens,    \* tokens of other issuers
          MaxKeys,          \* bound: starts of the development service
          MaxTokens,        \* bound: tokens it mints
          MaxTime           \* bound: ticks

ASSUME DurationAssumption == /\ Second \in Nat \ {0} /\ MaxDuration \in Nat /\ MaxTTL \in Nat
                             /\ DefaultTTL \in 1..MaxTTL /\ MaxTTL <= MaxDuration

\* A text with or without white space around it.
Texts == [name: STRING, padded: BOOLEAN]

ASSUME BoundAssumption == MaxKeys \in Nat /\ MaxTokens \in Nat /\ MaxTime \in Nat
ASSUME RequestAssumption == Requests \subseteq [subject: Texts, audiences: SUBSET Texts, ttl: Int]
ASSUME DocumentAssumption ==
  \A document \in Documents : DOMAIN document.entries = 1..Len(document.entries)

\* The allowed methods, and that nobody else signs with them and a key of the
\* development service.
Methods == {"EdDSA", "ES256"}

ASSUME ForeignAssumption ==
  \A token \in ForeignTokens :
    token.signed /\ token.method \in Methods => token.key \notin 1..MaxKeys

VARIABLES now,      \* the clock
          dev,      \* the development service: its place and its key
          minted,   \* tokens it has minted
          file,     \* the mapping file
          vault,    \* the vault service: its place, mapping and cached keys
          check     \* the request that is being authenticated

vars == <<now, dev, minted, file, vault, check>>

----------------------------------------------------------------------------
(* Texts and durations.                                                    *)

Text(name) == [name |-> name, padded |-> FALSE]
TrimSpace(text) == [text EXCEPT !.padded = FALSE]
IsBlank(text) == text.name = ""

Issuer == Text("devauth")       \* DEV_AUTH_ISSUER, VAULT_SERVICE_AUTH_ISSUER
Audience == Text("vault")       \* VAULT_SERVICE_AUTH_AUDIENCE

\* Durations wrap around.
Wrap(n) == ((n + MaxDuration + 1) % (2 * (MaxDuration + 1))) - (MaxDuration + 1)

\* time.Time.Unix drops what is less than a second.
Unix(time) == (time \div Second) * Second

----------------------------------------------------------------------------
(* Minting.                                                                *)

\* Mutant of TTLRefused: only the duration is looked at.
TTLRefusedMutant(seconds) == Wrap(seconds * Second) < 0 \/ Wrap(seconds * Second) > MaxTTL

\* mintOptionsFromProto guards the conversion, expiryForTTL the policy.
TTLRefused(seconds) == \/ seconds < 0
                       \/ seconds > MaxDuration \div Second
                       \/ Wrap(seconds * Second) > MaxTTL

TTL(seconds) == LET ttl == Wrap(seconds * Second) IN IF ttl = 0 THEN DefaultTTL ELSE ttl

\* Mutant of Audiences: audiences are taken as they come.
AudiencesMutant(request) == request.audiences

\* Every audience is trimmed; a blank one refuses the request.
Audiences(request) == {TrimSpace(a) : a \in request.audiences}

MintRefused(request) ==
  \/ TTLRefused(request.ttl)
  \/ IsBlank(request.subject)
  \/ request.audiences = {} \/ \E a \in request.audiences : IsBlank(a)

\* A signed JWT, with what the response says of it and, for the history, what
\* was asked for and which start of the service minted it.
Token(request) ==
  [key |-> dev.key, method |-> "EdDSA", signed |-> TRUE, iss |-> Issuer,
   sub |-> TrimSpace(request.subject), aud |-> Audiences(request),
   exp |-> {Unix(now + TTL(request.ttl))},
   told |-> now + TTL(request.ttl), issued |-> now, start |-> dev.start,
   request |-> request]

Mint(request) ==
  /\ dev.at = "up"
  /\ Cardinality(minted) < MaxTokens
  /\ ~MintRefused(request)
  /\ minted' = minted \cup {Token(request)}
  /\ UNCHANGED <<now, dev, file, vault, check>>

----------------------------------------------------------------------------
(* The development service.                                                *)

\* runArgs: unlike the other binaries it has no default command.
DevOutcome(args) ==
  CASE args.command \in {"-h", "--help", "help"} -> "ok"
    [] args.command # "serve" \/ ~args.dotenv -> "error"
    [] args.help -> "ok"
    [] args.extra \/ IsBlank(args.addr) \/ IsBlank(args.issuer) -> "error"
    [] OTHER -> "serve"

DevCommandLines ==
  [command: {"none", "help", "serve"}, dotenv: BOOLEAN, help: BOOLEAN, extra: BOOLEAN,
   addr: {Text(""), Text("host")}, issuer: {Text(""), Issuer}]

\* Mutant of NewMinter: the key is the same after every start.
NewMinterMutant == [at |-> "up", key |-> 1, start |-> dev.start + 1]

\* NewMinter generates a key; its identifier is a hash of it.
NewMinter == [at |-> "up", key |-> dev.key + 1, start |-> dev.start + 1]

DevStart(args) ==
  /\ dev.at = "off"
  /\ dev.start < MaxKeys
  /\ DevOutcome(args) = "serve"
  /\ dev' = NewMinter
  /\ UNCHANGED <<now, minted, file, vault, check>>

DevStop ==
  /\ dev.at = "up"
  /\ dev' = [dev EXCEPT !.at = "off"]
  /\ UNCHANGED <<now, minted, file, vault, check>>

\* What the key set endpoint answers: the one key, or nobody is there.
KeySet == {dev.key}
Served == dev.at = "up"

----------------------------------------------------------------------------
(* The mapping.                                                            *)

\* LoadMapping: the file is TOML with known keys and valid scopes.
Parses(document) == document.toml

Key(entry) == <<TrimSpace(entry.issuer), TrimSpace(entry.subject)>>

\* Mutant of MappingAccepted: entries are compared before they are trimmed.
MappingAcceptedMutant(document) ==
  /\ Parses(document)
  /\ \A i \in DOMAIN document.entries :
       /\ document.entries[i].scopes # {}
       /\ \A j \in 1..(i - 1) : <<document.entries[j].issuer, document.entries[j].subject>>
                                  # <<document.entries[i].issuer, document.entries[i].subject>>

\* NewScopeMapper: no blank names, no pair twice, no entry without scopes.
MappingAccepted(document) ==
  /\ Parses(document)
  /\ \A i \in DOMAIN document.entries :
       LET entry == document.entries[i]
       IN  /\ ~IsBlank(entry.issuer) /\ ~IsBlank(entry.subject)
           /\ entry.scopes # {}
           /\ \A j \in 1..(i - 1) : Key(document.entries[j]) # Key(entry)

\* The lookup table, as the entries set it one after the other.
Lookup(document) ==
  [key \in {Key(document.entries[i]) : i \in DOMAIN document.entries} |->
     LET last == CHOOSE i \in DOMAIN document.entries :
                   /\ Key(document.entries[i]) = key
                   /\ \A j \in DOMAIN document.entries : Key(document.entries[j]) = key => j <= i
     IN  document.entries[last].scopes]

\* Somebody edits the file.
Edit(document) ==
  /\ file' = document
  /\ UNCHANGED <<now, dev, minted, vault, check>>

----------------------------------------------------------------------------
(* The vault service.                                                      *)

NoMapping == [toml |-> FALSE, entries |-> <<>>]
Down == [at |-> "off", mapping |-> NoMapping, keys |-> {}, since |-> 0]

\* A key set that was fetched; since is the history of where it came from.
Fetched == [vault EXCEPT !.keys = KeySet, !.since = dev.start]

\* Mutant of VaultStart: the first key set may fail to load.
VaultStartMutant ==
  /\ vault.at = "off" /\ MappingAccepted(file)
  /\ vault' = [at |-> "up", mapping |-> file,
               keys |-> IF Served THEN KeySet ELSE {}, since |-> dev.start]
  /\ UNCHANGED <<now, dev, minted, file, check>>

\* The mapping and the first key set are loaded, or the service does not start.
VaultStart ==
  /\ vault.at = "off"
  /\ MappingAccepted(file)
  /\ Served
  /\ vault' = [Fetched EXCEPT !.at = "up", !.mapping = file]
  /\ UNCHANGED <<now, dev, minted, file, check>>

\* The signal cancels the context the key function was made with; requests
\* that are under way are still authenticated.
VaultSignal ==
  /\ vault.at = "up"
  /\ vault' = [vault EXCEPT !.at = "draining"]
  /\ UNCHANGED <<now, dev, minted, file, check>>

NoCheck == [at |-> "idle", token |-> {}, verdict |-> "none", scopes |-> {}, when |-> 0,
            missed |-> FALSE, since |-> 0, ended |-> FALSE]

\* Mutant of VaultExit: a request outlives the process.
VaultExitMutant == vault.at # "off" /\ vault' = Down /\ UNCHANGED <<now, dev, minted, file, check>>

VaultExit ==
  /\ vault.at # "off"
  /\ vault' = Down
  /\ check' = NoCheck
  /\ UNCHANGED <<now, dev, minted, file>>

\* Mutant of Refresh: the key function lives as long as the start of serve.
RefreshMutant == vault.at = "starting" /\ UNCHANGED vars

\* keyfunc fetches the key set again and replaces what it has.
Refresh ==
  /\ vault.at = "up"
  /\ Served
  /\ vault' = Fetched
  /\ UNCHANGED <<now, dev, minted, file, check>>

----------------------------------------------------------------------------
(* A request.                                                              *)

UnderWay == {"arrived", "keys", "claims"}

\* A token reaches the authenticator of a service that runs.
Arrive(token) ==
  /\ vault.at = "up"
  /\ check.at \notin UnderWay
  /\ check' = [NoCheck EXCEPT !.at = "arrived", !.token = {token}]
  /\ UNCHANGED <<now, dev, minted, file, vault>>

\* The caller cancels or disconnects, or the deadline of the request passes.
EndContext ==
  /\ check.at \in UnderWay /\ ~check.ended
  /\ check' = [check EXCEPT !.ended = TRUE]
  /\ UNCHANGED <<now, dev, minted, file, vault>>

TheToken == CHOOSE token \in check.token : TRUE

Refused(reason) == [check EXCEPT !.at = "done", !.verdict = reason, !.when = now]

\* Authenticate and VerifyToken look at the context before the token is parsed.
\* The parser and the key function do not: they have no context of the request.
Verify ==
  /\ check.at = "arrived"
  /\ check' = IF check.ended THEN Refused("canceled") ELSE [check EXCEPT !.at = "keys"]
  /\ UNCHANGED <<now, dev, minted, file, vault>>

\* The parser has split the token; its method is allowed and its key is known.
FindKey ==
  /\ check.at = "keys"
  /\ TheToken.method \in Methods => TheToken.key \in vault.keys
  /\ check' = IF TheToken.method \in Methods /\ TheToken.signed
              THEN [check EXCEPT !.at = "claims", !.since = vault.since]
              ELSE Refused("invalid_signature")
  /\ UNCHANGED <<now, dev, minted, file, vault>>

\* An unknown key: keyfunc fetches the set once more.  Its rate limit, the
\* context after the signal and the network may each prevent that.
FetchKey ==
  /\ check.at = "keys"
  /\ TheToken.method \in Methods
  /\ TheToken.key \notin vault.keys
  /\ \/ /\ vault.at = "up"
        /\ Served
        /\ vault' = Fetched
        /\ check' = IF TheToken.key \in KeySet THEN check
                    ELSE [Refused("principal_resolution_failed") EXCEPT !.missed = TRUE]
     \/ /\ check' = [Refused("principal_resolution_failed") EXCEPT !.missed = TRUE]
        /\ UNCHANGED vault
  /\ UNCHANGED <<now, dev, minted, file>>

Expired(token) == \E exp \in token.exp : now >= exp

\* classifyTokenError: of several defects the first one here is the reason.
ClaimsReason(token) ==
  CASE Expired(token) -> "expired_token"
    [] token.iss # Issuer -> "wrong_issuer"
    [] Audience \notin token.aud -> "wrong_audience"
    [] token.exp = {} -> "malformed_jwt"
    [] IsBlank(token.sub) -> "missing_subject"
    [] OTHER -> "none"

\* The claims are validated and, unless the context has ended by now, the subject
\* is looked up.
Resolve ==
  LET key == <<TrimSpace(TheToken.iss), TrimSpace(TheToken.sub)>>
  IN  /\ check.at = "claims"
      /\ check' = IF ClaimsReason(TheToken) # "none" THEN Refused(ClaimsReason(TheToken))
                  ELSE IF check.ended THEN Refused("canceled")
                  ELSE IF key \notin DOMAIN Lookup(vault.mapping)
                  THEN Refused("principal_resolution_failed")
                  ELSE [check EXCEPT !.at = "done", !.verdict = "accepted", !.when = now,
                                     !.scopes = Lookup(vault.mapping)[key]]
      /\ UNCHANGED <<now, dev, minted, file, vault>>

Tick ==
  /\ now < MaxTime
  /\ now' = now + 1
  /\ UNCHANGED <<dev, minted, file, vault, check>>

----------------------------------------------------------------------------
Init ==
  /\ now = 0
  /\ dev = [at |-> "off", key |-> 0, start |-> 0]
  /\ minted = {}
  /\ file \in Documents
  /\ vault = Down
  /\ check = NoCheck

DevNext == (\E args \in DevCommandLines : DevStart(args)) \/ DevStop
             \/ \E request \in Requests : Mint(request)
VaultNext == VaultStart \/ VaultSignal \/ VaultExit \/ Refresh
CheckNext == Verify \/ FindKey \/ FetchKey \/ Resolve

Next == \/ DevNext \/ VaultNext \/ CheckNext \/ EndContext \/ Tick
        \/ \E document \in Documents : Edit(document)
        \/ \E token \in minted \cup ForeignTokens : Arrive(token)

Fairness == WF_vars(Refresh) /\ WF_vars(CheckNext)

Spec == Init /\ [][Next]_vars /\ Fairness

----------------------------------------------------------------------------
(* Properties.                                                             *)

Reasons == {"invalid_signature", "principal_resolution_failed", "expired_token", "wrong_issuer",
            "wrong_audience", "malformed_jwt", "missing_subject", "canceled"}
Accepted == check.verdict = "accepted"
Minted == check.token \subseteq minted
Entries == {vault.mapping.entries[i] : i \in DOMAIN vault.mapping.entries}

\* The type invariant.  A service holds keys that were generated, a mapping and
\* keys come together, and a request has a verdict exactly when it is done.
TypeOK ==
  /\ now \in 0..MaxTime
  /\ dev.at \in {"off", "up"} /\ dev.start \in 0..MaxKeys /\ dev.key \in 0..dev.start
  /\ file \in Documents
  /\ vault.at \in {"off", "up", "draining"}
  /\ vault.keys \subseteq 1..dev.key
  /\ vault.at = "off" => vault = Down /\ check = NoCheck
  /\ check.at \in {"idle", "done"} \cup UnderWay /\ check.ended \in BOOLEAN
  /\ Cardinality(check.token) <= 1 /\ (check.at = "idle" <=> check.token = {})
  /\ check.verdict \in Reasons \cup {"accepted", "none"}
  /\ check.at = "done" <=> check.verdict # "none"

\* A service that runs can authenticate somebody: without a first key set it
\* does not come up, and no failure to fetch a later one takes the keys away.
ReadyHasKeys == vault.at # "off" => vault.keys # {}

\* A token that is accepted was minted by the development service, for this
\* audience, no longer ago than the longest lifetime, and it has not expired.
\* The start that minted it is the one whose key set the vault service held: a
\* token from before a restart does not verify against the new key.
AcceptedWasMinted ==
  check.at = "done" /\ Accepted =>
    /\ Minted
    /\ Audience \in TheToken.aud
    /\ check.when < TheToken.told
    /\ check.when - TheToken.issued < MaxTTL
    /\ check.since = TheToken.start

\* The scopes of a caller are those of the one entry that names it: no other
\* entry of the mapping does, however the names are spelled.
GrantIsUnambiguous ==
  check.at = "done" /\ Accepted =>
    \E entry \in Entries :
      /\ Key(entry) = <<TheToken.iss, TheToken.sub>>
      /\ check.scopes = entry.scopes
      /\ \A other \in Entries : Key(other) = Key(entry) => other.scopes = entry.scopes

\* A token lives as long as was asked for, to the second: its lifetime is no
\* other value that the conversion of a large number has wrapped around to.
LivesAsAsked ==
  \A token \in minted :
    /\ token.request.ttl # 0 => token.told - token.issued = token.request.ttl * Second
    /\ \A exp \in token.exp : exp <= token.told /\ token.told - exp < Second

\* A good token is not refused: minted for this audience, its subject mapped,
\* at least a second before it expires, it is refused only for want of its key or
\* because the context of its request has ended.
GoodTokenPasses ==
  check.at = "done" /\ Minted /\ ~Accepted /\ ~check.missed =>
    \/ check.ended /\ check.verdict = "canceled"
    \/ check.when > TheToken.told - Second
    \/ \A audience \in TheToken.request.audiences : TrimSpace(audience) # Audience
    \/ <<Issuer, TrimSpace(TheToken.request.subject)>> \notin DOMAIN Lookup(vault.mapping)

\* Keys catch up: when neither service stops any more, the vault service ends
\* up with the key of the running development service.
KeysCatchUp ==
  <>[](dev.at = "up" /\ vault.at = "up") => <>[](vault.keys = {dev.key})
=============================================================================
