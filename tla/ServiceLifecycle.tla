--------------------------- MODULE ServiceLifecycle ---------------------------
(***************************************************************************)
(* The mcp-server and vault-service processes from their start to their    *)
(* exit, with what they do for others while they live: MCP tool calls that *)
(* the gateway forwards to the vault service, and one run of a healthcheck *)
(* command against either of them.                                         *)
(*                                                                         *)
(* Time passes in ticks: a tick waits for whatever is due.  RequestTimeout *)
(* and Grace are numbers of ticks, so are the timeouts of a command line.  *)
(***************************************************************************)
EXTENDS CommandLine, HealthStatus

CONSTANTS Calls,          \* MCP tool calls
          RequestTimeout, \* MCP_SERVER_VAULT_REQUEST_TIMEOUT
          Grace,          \* shutdownGracePeriod
          ServeSettings,  \* binary -> settings the serve command is started with
          CommandLines,   \* command lines of the healthcheck run
          MaxStarts       \* bound: binary -> how often the container is started

ASSUME TimeoutAssumption == RequestTimeout \in Nat \ {0} /\ Grace \in Nat \ {0}
ASSUME StartsAssumption == MaxStarts \in [Binaries -> Nat]

\* A command line names a host that one of the two binaries listens at, or none.
ASSUME CommandLineAssumption ==
  \A l \in CommandLines : /\ HealthcheckURL(l).host \in Binaries \cup {""}
                          /\ HealthcheckTimeout(l) \in Int

VARIABLES proc,     \* binary -> its process
          starts,   \* binary -> how often it was started
          call,     \* call -> the request as the gateway sees it
          work,     \* call -> the handler of its RPC at the vault service
          probe,    \* the run of a healthcheck command
          seen      \* history: who served at some time since the probe was sent

vars == <<proc, starts, call, work, probe, seen>>

----------------------------------------------------------------------------
(* Processes.                                                              *)

\* at: "selecting" is the select of serve, "withdrawn" lies between its
\* SetNotServing and its Shutdown.  exit tells why a process has ended.
Off == [at |-> "off", bound |-> "no", status |-> "not_serving", signalled |-> FALSE,
        timer |-> 0, exit |-> "none"]

Is(p, place) == proc[p].at = place
Running(p) == proc[p].at \notin {"off", "exited"}

\* New connections are accepted.
Listening(p) == Running(p) /\ proc[p].bound = "yes"

Serves(p) == Is(p, "selecting") /\ Listening(p)

InGateway(c) == call[c].at \in {"accepted", "waiting", "replying"}
ProbesGateway == probe.at \in {"sent", "asking"} /\ probe.target = "mcp"
ProbesVault == probe.at = "sent" /\ probe.target = "vault"

NoProbe == [at |-> "none", target |-> "none", path |-> "none", help |-> FALSE,
            status |-> "unknown", timer |-> 0, exit |-> 0]

\* What was asked matters only for a probe that succeeds.
ProbeExited(status) ==
  IF status = 0
  THEN [probe EXCEPT !.at = "exited", !.status = "unknown", !.timer = 0]
  ELSE [NoProbe EXCEPT !.at = "exited", !.exit = status]

\* Connections that Shutdown waits for.
Busy(p) == IF p = "mcp" THEN (\E c \in Calls : InGateway(c)) \/ ProbesGateway
           ELSE (\E c \in Calls : work[c] # "none") \/ ProbesVault

\* early: forwarded before the gateway began to drain.
NoCall == [at |-> "none", kind |-> "none", timer |-> 0, early |-> FALSE]
Replying == [NoCall EXCEPT !.at = "replying"]

\* The end of a process closes its connections: its peers see an error.  A call
\* that waits when the grace period is over is cut off.
CallsAfter(p, why) ==
  [c \in Calls |->
     IF p = "mcp" /\ call[c].at = "waiting" /\ why = "grace"
     THEN [NoCall EXCEPT !.at = "cut", !.early = call[c].early]
     ELSE IF p = "mcp" /\ InGateway(c) THEN [NoCall EXCEPT !.at = "ended"]
     ELSE IF p = "vault" /\ work[c] = "running" THEN Replying
     ELSE call[c]]

WorkAfter(p) ==
  [c \in Calls |-> IF p = "vault" THEN "none"
                   ELSE IF work[c] = "running" THEN "orphan" ELSE work[c]]

Exit(p, why) ==
  /\ proc' = [proc EXCEPT ![p].at = "exited", ![p].exit = why, ![p].bound = "closed",
                          ![p].status = "not_serving"]
  /\ call' = CallsAfter(p, why)
  /\ work' = WorkAfter(p)
  /\ probe' = IF (p = "mcp" /\ ProbesGateway) \/ (p = "vault" /\ ProbesVault)
              THEN ProbeExited(ExitStatus("failed")) ELSE probe
  /\ UNCHANGED starts

\* The container is started; the serve command is dispatched, no signal is
\* handled yet.
Start(p) ==
  /\ Is(p, "off")
  /\ starts[p] < MaxStarts[p]
  /\ proc' = [proc EXCEPT ![p].at = "boot"]
  /\ starts' = [starts EXCEPT ![p] = @ + 1]
  /\ UNCHANGED <<call, work, probe>>

\* loadServeConfig refuses the settings, or serve begins: NotifyContext.  The
\* gateway initializes without I/O, its static checker serves from the start.
Configure(p, s) ==
  /\ Is(p, "boot")
  /\ IF ServeSettingsAccepted(p, s)
     THEN /\ proc' = [proc EXCEPT ![p].at = IF p = "mcp" THEN "selecting" ELSE "init",
                                  ![p].status = IF p = "mcp" THEN "serving" ELSE @]
          /\ UNCHANGED <<starts, call, work, probe>>
     ELSE Exit(p, "refused")

\* newVaultServer has loaded the mapping and the first key set: setServing.
Load ==
  /\ Is("vault", "init")
  /\ proc' = [proc EXCEPT !["vault"].at = "selecting", !["vault"].status = "serving"]
  /\ UNCHANGED <<starts, call, work, probe>>

\* A dependency does not initialize, or the signal has cancelled it.
LoadFails == Is("vault", "init") /\ Exit("vault", "failed")

\* Mutant of Bind: ListenAndServe does not know of an earlier Shutdown.
BindMutant(p) ==
  /\ proc[p].at \in {"selecting", "withdrawn", "draining"}
  /\ proc[p].bound \in {"no", "closed"}
  /\ proc' = [proc EXCEPT ![p].bound = "yes"]
  /\ UNCHANGED <<starts, call, work, probe>>

\* The goroutine of serve binds the listener, unless Shutdown came first.
Bind(p) ==
  /\ proc[p].at \in {"selecting", "withdrawn"}
  /\ proc[p].bound = "no"
  /\ \E bound \in {"yes", "failed"} : proc' = [proc EXCEPT ![p].bound = bound]
  /\ UNCHANGED <<starts, call, work, probe>>

\* Mutant of ServeFails: an error of ListenAndServe ends serve without one.
ServeFailsMutant(p) == Is(p, "selecting") /\ proc[p].bound = "failed" /\ Exit(p, "ok")

\* The select takes the error of ListenAndServe.
ServeFails(p) == Is(p, "selecting") /\ proc[p].bound = "failed" /\ Exit(p, "failed")

\* SIGTERM or SIGINT: it ends a process that has not asked for it yet.
Signal(p) ==
  /\ Running(p)
  /\ ~proc[p].signalled
  /\ IF Is(p, "boot")
     THEN Exit(p, "killed")
     ELSE /\ proc' = [proc EXCEPT ![p].signalled = TRUE]
          /\ UNCHANGED <<starts, call, work, probe>>

\* Mutant of Withdraw: the status stays what it was.
WithdrawMutant(p) ==
  /\ Is(p, "selecting") /\ proc[p].signalled
  /\ proc' = [proc EXCEPT ![p].at = "withdrawn"]
  /\ UNCHANGED <<starts, call, work, probe>>

\* The select takes ctx.Done: SetNotServing.
Withdraw(p) ==
  /\ Is(p, "selecting")
  /\ proc[p].signalled
  /\ proc' = [proc EXCEPT ![p].at = "withdrawn", ![p].status = "not_serving"]
  /\ UNCHANGED <<starts, call, work, probe>>

\* Mutant of Shutdown: the grace period is over at once.
ShutdownMutant(p) ==
  /\ Is(p, "withdrawn")
  /\ proc' = [proc EXCEPT ![p].at = "draining", ![p].bound = "closed", ![p].timer = 0]
  /\ UNCHANGED <<starts, call, work, probe>>

\* http.Server.Shutdown closes the listener and begins to wait.
Shutdown(p) ==
  /\ Is(p, "withdrawn")
  /\ proc' = [proc EXCEPT ![p].at = "draining", ![p].bound = "closed", ![p].timer = Grace]
  /\ UNCHANGED <<starts, call, work, probe>>

Drained(p) == Is(p, "draining") /\ ~Busy(p) /\ Exit(p, "ok")

\* Mutant of GraceEnds: Shutdown waits for as long as it takes.
GraceEndsMutant(p) ==
  Is(p, "draining") /\ proc[p].timer = 0 /\ ~Busy(p) /\ Exit(p, "grace")

\* The shutdown context expires: what is still open is cut off.
GraceEnds(p) == Is(p, "draining") /\ proc[p].timer = 0 /\ Exit(p, "grace")

Crash(p) == Running(p) /\ Exit(p, "crash")

\* The container is restarted on failure, unless it was told to stop.
Restart(p) ==
  /\ Is(p, "exited")
  /\ proc[p].exit \in {"refused", "failed", "crash"} /\ ~proc[p].signalled
  /\ starts[p] < MaxStarts[p]
  /\ proc' = [proc EXCEPT ![p] = Off]
  /\ UNCHANGED <<starts, call, work, probe>>

----------------------------------------------------------------------------
(* Tool calls.                                                             *)

\* "bare": not exactly one bearer token; "hidden": a tool that is not exposed;
\* "malformed": arguments that do not decode.
Kinds == {"bare", "hidden", "malformed", "good"}

\* requireBearer answers 401 before anything is read of the body.
Accept(c, kind) ==
  /\ call[c].at = "none"
  /\ Listening("mcp")
  /\ call' = [call EXCEPT ![c] = IF kind = "bare" THEN Replying
                                 ELSE [@ EXCEPT !.at = "accepted", !.kind = kind]]
  /\ UNCHANGED <<proc, starts, work, probe>>

\* The body has arrived and no RPC comes of it.
Refuse(c) ==
  /\ call[c].at = "accepted"
  /\ call[c].kind \in {"hidden", "malformed"}
  /\ call' = [call EXCEPT ![c] = Replying]
  /\ UNCHANGED <<proc, starts, work, probe>>

\* The RPC is sent with the caller's token.  A vault service that does not
\* listen is refused at once or never heard of.
Forward(c) ==
  /\ call[c].at = "accepted"
  /\ call[c].kind = "good"
  /\ \/ /\ call' = [call EXCEPT ![c].at = "waiting", ![c].kind = "none", ![c].timer = RequestTimeout,
                                ![c].early = ~Is("mcp", "draining")]
        /\ work' = [work EXCEPT ![c] = IF Listening("vault") THEN "running" ELSE "none"]
     \/ /\ ~Listening("vault")
        /\ call' = [call EXCEPT ![c] = Replying]
        /\ UNCHANGED work
  /\ UNCHANGED <<proc, starts, probe>>

\* The vault service answers: a result or an error.
Answer(c) ==
  /\ work[c] = "running"
  /\ work' = [work EXCEPT ![c] = "none"]
  /\ call' = [call EXCEPT ![c] = Replying]
  /\ UNCHANGED <<proc, starts, probe>>

Abandoned(c) == IF work[c] = "running" THEN "orphan" ELSE work[c]

\* Mutant of TimeOut: the timer of a request stops with a signal.
TimeOutMutant(c) ==
  /\ call[c].at = "waiting" /\ call[c].timer = 0 /\ ~proc["mcp"].signalled
  /\ call' = [call EXCEPT ![c] = Replying]
  /\ work' = [work EXCEPT ![c] = Abandoned(c)]
  /\ UNCHANGED <<proc, starts, probe>>

\* The deadline of the RPC passes: a tool error.  Its handler runs on.
TimeOut(c) ==
  /\ call[c].at = "waiting"
  /\ call[c].timer = 0
  /\ call' = [call EXCEPT ![c] = Replying]
  /\ work' = [work EXCEPT ![c] = Abandoned(c)]
  /\ UNCHANGED <<proc, starts, probe>>

\* The client has read the answer, or goes away before: that cancels the RPC.
Finish(c) ==
  /\ call[c].at = "replying"
  /\ call' = [call EXCEPT ![c] = [NoCall EXCEPT !.at = "ended"]]
  /\ UNCHANGED <<proc, starts, work, probe>>

HangUp(c) ==
  /\ InGateway(c)
  /\ call' = [call EXCEPT ![c] = [NoCall EXCEPT !.at = "ended"]]
  /\ work' = [work EXCEPT ![c] = Abandoned(c)]
  /\ UNCHANGED <<proc, starts, probe>>

\* A handler whose caller has gone comes to its end.
OrphanEnds(c) ==
  /\ work[c] = "orphan"
  /\ work' = [work EXCEPT ![c] = "none"]
  /\ UNCHANGED <<proc, starts, call, probe>>

----------------------------------------------------------------------------
(* The healthcheck command.                                                *)

\* The command succeeds on Serving alone.
Conclude(status) ==
  probe' = ProbeExited(ExitStatus(IF Healthy(status) THEN "ok" ELSE "failed"))

\* run: the command line is read and the request goes out, if anyone listens.
Probe(l) ==
  LET settings == IF Dispatch(l) = "run" THEN HealthcheckSettings(l) ELSE Dispatch(l)
      url == HealthcheckURL(l)
  IN  /\ probe.at = "none"
      /\ Command(l) # "serve"
      /\ probe' = IF settings # "accepted"
                  THEN [ProbeExited(ExitStatus(settings))
                          EXCEPT !.help = Command(l) = "help" \/ l.flags.help]
                  ELSE IF ~Listening(url.host) THEN ProbeExited(ExitStatus("failed"))
                  ELSE [probe EXCEPT !.at = "sent", !.target = url.host,
                                     !.path = IF l.binary = "vault" THEN "grpc" ELSE url.path,
                                     !.timer = HealthcheckTimeout(l)]
      /\ UNCHANGED <<proc, starts, call, work>>

\* The gateway's handler asks its static checker; readiness goes on to the
\* vault service unless that has said NotServing.
CheckGateway ==
  /\ probe.at = "sent"
  /\ probe.target = "mcp"
  /\ CASE probe.path = "/health/ready" /\ Undecided(proc["mcp"].status) ->
            probe' = [probe EXCEPT !.at = "asking", !.status = proc["mcp"].status]
       [] probe.path = "/health/live" \/ (probe.path = "/health/ready"
                                            /\ ~Undecided(proc["mcp"].status)) ->
            Conclude(FromHTTP(HTTPAnswer(Resolve("serving", proc["mcp"].status))))
       [] OTHER -> Conclude(FromHTTP(NotFound))
  /\ UNCHANGED <<proc, starts, call, work>>

\* What the gateway's gRPC health client may return: an error at any time.
VaultStatuses == (IF Listening("vault") THEN {FromGRPC(proc["vault"].status)} ELSE {})
                   \cup {Unanswered}

CheckVaultForGateway ==
  /\ probe.at = "asking"
  /\ \E status \in VaultStatuses :
       Conclude(FromHTTP(HTTPAnswer(Resolve(probe.status, Known(status)))))
  /\ UNCHANGED <<proc, starts, call, work>>

\* The vault service answers its own healthcheck command; it serves no paths.
CheckVault ==
  /\ probe.at = "sent"
  /\ probe.target = "vault"
  /\ Conclude(IF probe.path = "grpc" THEN FromGRPC(proc["vault"].status)
              ELSE FromHTTP(NotFound))
  /\ UNCHANGED <<proc, starts, call, work>>

\* Mutant of ProbeTimesOut: the deadline is that of sending the request.
ProbeTimesOutMutant ==
  /\ probe.at = "sent" /\ probe.timer = 0
  /\ Conclude(Unanswered)
  /\ UNCHANGED <<proc, starts, call, work>>

\* The deadline of the command, also that of its HTTP client.
ProbeTimesOut ==
  /\ probe.at \in {"sent", "asking"}
  /\ probe.timer = 0
  /\ Conclude(Unanswered)
  /\ UNCHANGED <<proc, starts, call, work>>

----------------------------------------------------------------------------
(* Time.                                                                   *)

ProbePending == probe.at \in {"sent", "asking"}
Timed == {proc[p].timer : p \in {q \in Binaries : Is(q, "draining")}}
           \cup {call[c].timer : c \in {d \in Calls : call[d].at = "waiting"}}
           \cup (IF ProbePending THEN {probe.timer} ELSE {})

\* One tick: some timer runs and none is due.
Tick ==
  /\ Timed # {} /\ 0 \notin Timed
  /\ proc' = [p \in Binaries |-> IF Is(p, "draining") THEN [proc[p] EXCEPT !.timer = @ - 1]
                                 ELSE proc[p]]
  /\ call' = [c \in Calls |-> IF call[c].at = "waiting" THEN [call[c] EXCEPT !.timer = @ - 1]
                              ELSE call[c]]
  /\ probe' = IF ProbePending THEN [probe EXCEPT !.timer = @ - 1] ELSE probe
  /\ UNCHANGED <<starts, work>>

----------------------------------------------------------------------------
Init ==
  /\ proc = [p \in Binaries |-> Off]
  /\ starts = [p \in Binaries |-> 0]
  /\ call = [c \in Calls |-> NoCall]
  /\ work = [c \in Calls |-> "none"]
  /\ probe = NoProbe
  /\ seen = {}

Process(p) ==
  \/ \E s \in ServeSettings[p] : Configure(p, s)
  \/ p = "vault" /\ (Load \/ LoadFails)
  \/ Bind(p) \/ ServeFails(p) \/ Withdraw(p) \/ Shutdown(p) \/ Drained(p) \/ GraceEnds(p)

Operator(p) == Start(p) \/ Signal(p) \/ Crash(p) \/ Restart(p)

Client(c) == (\E kind \in Kinds : Accept(c, kind)) \/ Finish(c) \/ HangUp(c)

Gateway(c) == Refuse(c) \/ Forward(c) \/ TimeOut(c)

Healthcheck == CheckGateway \/ CheckVaultForGateway \/ CheckVault \/ ProbeTimesOut

\* History: who has served since the probe was sent.
Witness == seen' = IF probe'.at \in {"sent", "asking"}
                   THEN seen \cup {p \in Binaries : Serves(p)'}
                   ELSE IF probe'.exit = 0 THEN seen ELSE {}

Step == \/ \E p \in Binaries : Process(p) \/ Operator(p)
        \/ \E c \in Calls : Client(c) \/ Gateway(c) \/ Answer(c) \/ OrphanEnds(c)
        \/ \E l \in CommandLines : Probe(l)
        \/ Healthcheck
        \/ Tick

Next == Step /\ Witness

Fairness == /\ \A p \in Binaries : WF_vars(Process(p) /\ Witness)
            /\ \A c \in Calls : WF_vars(TimeOut(c) /\ Witness)
            /\ WF_vars(ProbeTimesOut /\ Witness)
            /\ WF_vars(Tick /\ Witness)

Spec == Init /\ [][Next]_vars /\ Fairness

----------------------------------------------------------------------------
(* Properties.                                                             *)

Places == {"off", "boot", "init", "selecting", "withdrawn", "draining", "exited"}
Ends == {"none", "refused", "failed", "killed", "crash", "grace", "ok"}

\* The type invariant.  Among other things a process that is about to be asked
\* for its health has a status, only the vault service is ever loading, and the
\* grace period runs while a process is draining.
TypeOK ==
  /\ proc \in [Binaries -> [at: Places, bound: {"no", "yes", "failed", "closed"},
                            status: Statuses, signalled: BOOLEAN, timer: 0..Grace, exit: Ends]]
  /\ starts \in [Binaries -> Nat]
  /\ call \in [Calls -> [at: {"none", "accepted", "waiting", "replying", "ended", "cut"},
                         kind: Kinds \cup {"none"}, timer: 0..RequestTimeout, early: BOOLEAN]]
  /\ work \in [Calls -> {"none", "running", "orphan"}]
  /\ probe.at \in {"none", "sent", "asking", "exited"}
  /\ probe.status \in Statuses \cup {Unanswered}
  /\ probe.timer \in Nat
  /\ probe.exit \in {0, 1}
  /\ seen \subseteq Binaries
  /\ \A p \in Binaries :
       /\ Is(p, "exited") <=> proc[p].exit # "none"
       /\ proc[p].exit # "none" => proc[p].bound = "closed"
       /\ Listening(p) => proc[p].at \in {"selecting", "withdrawn"}
  /\ ~Is("mcp", "init")

\* An exit status of zero keeps a container down: it is not restarted.  So a
\* server exits with zero only after it was told to stop.
ZeroWasAskedFor ==
  \A p \in Binaries : proc[p].exit = "ok" => proc[p].signalled

\* A request timeout below the grace period does what it is for: a call that
\* was forwarded before the gateway began to drain is never cut off by the end
\* of the grace period while it waits for the vault service.
ForwardedInTimeIsNotCut ==
  RequestTimeout < Grace => \A c \in Calls : call[c].early => call[c].at # "cut"

\* A healthcheck that succeeds is true: whom it was to vouch for has served at
\* some time since the request was sent, and had not begun to stop before it.
\* For readiness this is the gateway and the vault service behind it.
SuccessIsWitnessed ==
  probe.at = "exited" /\ probe.exit = 0 /\ ~probe.help
    => IF probe.path = "/health/ready" THEN seen = Binaries ELSE probe.target \in seen

\* During graceful shutdown readiness short-circuits: the vault service is not
\* asked on behalf of a gateway that did not serve when it was asked.
ShutdownShortCircuits == probe.at = "asking" => "mcp" \in seen

\* A signal is enough: a server that was told to stop exits, whatever its
\* clients, its dependencies and its handlers do.
StopsWhenTold == \A p \in Binaries : proc[p].signalled ~> Is(p, "exited")

\* A call does not wait for the vault service for ever, even if it hangs.
WaitingEnds == \A c \in Calls : call[c].at = "waiting" ~> call[c].at # "waiting"

\* A healthcheck ends, whatever state the servers are in.
HealthcheckEnds == probe.at = "sent" ~> probe.at = "exited"
=============================================================================
