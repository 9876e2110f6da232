----------------------------- MODULE CommandLine -----------------------------
(***************************************************************************)
(* The command lines of the mcp-server and vault-service binaries: how a   *)
(* command is dispatched, how its settings come together from defaults, the*)
(* environment and flags, which are refused, and the exit status.          *)
(*                                                                         *)
(* A setting that may be absent is a set of at most one value.  A URL is   *)
(* the record that url.Parse makes of it.                                  *)
(***************************************************************************)
EXTENDS Integers

CONSTANT ProbeTimeout     \* defaultHealthTimeout

ASSUME ProbeTimeoutAssumption == ProbeTimeout \in Nat \ {0}

Binaries == {"mcp", "vault"}
Blank == [scheme |-> "", host |-> "", user |-> FALSE, query |-> FALSE, path |-> ""]
Plain(host, path) == [Blank EXCEPT !.scheme = "http", !.host = host, !.path = path]

Unset == {}
Setting(value, default) == IF value = Unset THEN default ELSE CHOOSE v \in value : TRUE

----------------------------------------------------------------------------
(* Settings of the serve command.                                          *)

Acceptable(url) == /\ url.scheme \in {"http", "https"}
                   /\ url.host # ""
                   /\ ~url.user /\ ~url.query

\* normalizeBaseURL: a base URL has no path.
BaseURL(url) == Acceptable(url) /\ url.path \in {"", "/"}

\* HMACKey.Decode: a base64 text of at least 32 bytes.
KeyDecodes(key) == key = "long"

\* What the environment of the vault service must have; the others default.
Required == {"root", "audit root", "audit key", "issuer", "audience", "JWKS URL", "mapping file"}

MCPSettingsAccepted(s) ==
  /\ ~s.argument
  /\ s.parses              \* the request timeout is a duration
  /\ Setting(s.addr, "mcp") # ""
  /\ BaseURL(Setting(s.base, Plain("vault", "")))
  /\ s.timeout > 0

VaultSettingsAccepted(s) ==
  /\ ~s.argument
  /\ Required \subseteq s.set
  /\ KeyDecodes(s.key)
  /\ Setting(s.addr, "vault") # ""

ServeSettingsAccepted(binary, s) ==
  IF binary = "mcp" THEN MCPSettingsAccepted(s) ELSE VaultSettingsAccepted(s)

----------------------------------------------------------------------------
(* Settings of the healthcheck command.                                    *)

\* The probe of the gateway asks its own liveness endpoint, that of the vault
\* service the health service at its base URL.
DefaultURL(binary, addr) == Plain(addr, IF binary = "mcp" THEN "/health/live" ELSE "")

\* A variable that is set and blank does not unset the default URL.
EnvironmentURL(binary, addr, value) ==
  LET url == Setting(value, DefaultURL(binary, addr))
  IN  IF url = Blank THEN DefaultURL(binary, addr) ELSE url

HealthcheckURL(l) ==
  Setting(l.flags.url, EnvironmentURL(l.binary, Setting(l.env.addr, l.binary), l.env.url))

HealthcheckTimeout(l) == Setting(l.flags.timeout, Setting(l.env.timeout, ProbeTimeout))

\* normalizeHealthURL of the gateway, normalizeBaseURL of the vault service.
URLAccepted(binary, url) == IF binary = "mcp" THEN Acceptable(url) ELSE BaseURL(url)

HealthcheckAccepted(l) ==
  /\ ~l.flags.argument
  /\ URLAccepted(l.binary, HealthcheckURL(l))
  /\ HealthcheckTimeout(l) > 0

\* The environment is read first; a flag that does not parse is refused like an
\* argument.
HealthcheckSettings(l) ==
  IF Setting(l.env.addr, l.binary) = "" \/ ~l.env.parses THEN "refused"
  ELSE IF l.flags.help THEN "help"
  ELSE IF HealthcheckAccepted(l) THEN "accepted" ELSE "refused"

----------------------------------------------------------------------------
(* cliapp.Application: what becomes of a command line before a command runs*)
(* and what the exit status is after it.                                   *)

Command(l) == IF l.command = "none" THEN "serve" ELSE l.command

\* "run", or how the process ends at once.
Dispatch(l) ==
  IF Command(l) = "help" THEN "help"
  ELSE IF Command(l) \in {"serve", "healthcheck"} /\ l.dotenv THEN "run" ELSE "refused"

ExitStatus(outcome) == IF outcome \in {"ok", "help"} THEN 0 ELSE 1
=============================================================================
