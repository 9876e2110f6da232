----------------------------- MODULE HealthStatus -----------------------------
(***************************************************************************)
(* Health statuses: how those of several checkers resolve to one, and how  *)
(* one travels over HTTP and over the gRPC health protocol.                *)
(***************************************************************************)

Statuses == {"serving", "not_serving", "unknown"}
Unanswered == "error"     \* a checker failed

\* A checker that fails counts as unknown.
Known(status) == IF status = Unanswered THEN "unknown" ELSE status

\* Mutant of Resolve: what nobody denies is serving.
ResolveMutant(status, next) ==
  IF "not_serving" \in {status, next} THEN "not_serving" ELSE "serving"

\* NotServing takes precedence, then Unknown, then Serving.
Resolve(status, next) ==
  IF "not_serving" \in {status, next} THEN "not_serving"
  ELSE IF {status, next} = {"serving"} THEN "serving" ELSE "unknown"

\* Service.Check asks the next checker only while nothing has said NotServing.
Undecided(status) == status # "not_serving"

\* What ServeHTTP answers.  The 408 of a request whose context has ended is left
\* out: the context ends with the connection of the one who asked, or when serve
\* returns and the process exits, so nobody is left to read it.
HTTPAnswer(status) == [code |-> IF status = "serving" THEN 200 ELSE 503, body |-> status]

\* What the HTTP checker makes of an answer: code and body must agree.
FromHTTP(answer) ==
  IF /\ answer.body \in Statuses
     /\ \/ answer.code = 200 /\ answer.body = "serving"
        \/ answer.code = 503 /\ answer.body # "serving"
  THEN answer.body ELSE Unanswered

NotFound == [code |-> 404, body |-> "text"]

\* What the gRPC checker makes of the status of a service.
FromGRPC(status) == IF status \in Statuses THEN status ELSE Unanswered

\* HealthService.Serving: the healthcheck command succeeds on Serving alone.
Healthy(status) == Resolve("serving", Known(status)) = "serving"
=============================================================================
