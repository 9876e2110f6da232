-------------------------- MODULE MCServiceLifecycle --------------------------
(* Instances of ServiceLifecycle for TLC.                                  *)
EXTENDS ServiceLifecycle

CONSTANTS c1

MCCalls == {c1}
MCMaxStarts == [p \in Binaries |-> IF p = "mcp" THEN 1 ELSE 2]

Good == [mcp |-> [argument |-> FALSE, parses |-> TRUE, addr |-> Unset, base |-> Unset,
                  timeout |-> RequestTimeout],
         vault |-> [argument |-> FALSE, set |-> Required, addr |-> Unset, key |-> "long"]]

\* Settings that are refused each for one reason.
MCServeSettings ==
  [p \in Binaries |->
     IF p = "mcp"
     THEN {Good.mcp, [Good.mcp EXCEPT !.timeout = 0], [Good.mcp EXCEPT !.addr = {""}],
           [Good.mcp EXCEPT !.base = {Plain("vault", "/v1")}], [Good.mcp EXCEPT !.parses = FALSE]}
     ELSE {Good.vault, [Good.vault EXCEPT !.key = "short"],
           [Good.vault EXCEPT !.set = Required \ {"mapping file"}]}]

Line(binary) ==
  [binary |-> binary, command |-> "healthcheck", dotenv |-> TRUE,
   env |-> [addr |-> Unset, url |-> Unset, timeout |-> Unset, parses |-> TRUE],
   flags |-> [url |-> Unset, timeout |-> Unset, help |-> FALSE, argument |-> FALSE]]

MCCommandLines ==
  {Line("vault"),
   [Line("mcp") EXCEPT !.env.url = {Blank}],
   [Line("mcp") EXCEPT !.flags.url = {Plain("mcp", "/health/ready")}, !.flags.timeout = {2}],
   [Line("mcp") EXCEPT !.env.url = {Plain("vault", "/health/live")}],
   [Line("vault") EXCEPT !.flags.timeout = {0}, !.env.timeout = {1}],
   [Line("vault") EXCEPT !.flags.url = {Plain("vault", "/health")}],
   [Line("vault") EXCEPT !.env.addr = {"mcp"}],
   [Line("vault") EXCEPT !.env.parses = FALSE],
   [Line("mcp") EXCEPT !.flags.help = TRUE],
   [Line("mcp") EXCEPT !.command = "other"]}
=============================================================================
