------------------------------ MODULE SyncWorker ------------------------------
(***************************************************************************)
(* The sync worker: runWorker runs one `ob` command after the other and    *)
(* then the continuous sync; ProcessSupervisor owns the child and the      *)
(* shutdown; HealthReporter writes the health file that the container's    *)
(* probe reads.  One worker process is followed from its start to its end, *)
(* with the health file that an earlier one may have left behind.          *)
(*                                                                         *)
(* JavaScript runs to completion: an action is one macrotask together with *)
(* every promise reaction it leads to.  The asynchronous boundaries are    *)
(* the completion of a file write, the exit of a child, its close event, a *)
(* signal and a timer.  A child is named by the command it runs.           *)
(***************************************************************************)
EXTENDS Naturals, Sequences

CONSTANT MaxQueue         \* bound: health writes queued when a heartbeat adds one

ASSUME QueueAssumption == MaxQueue \in Nat \ {0}

VARIABLES main,           \* where runWorker is suspended
          reason,         \* why runWorker ends: how the process will exit
          mem,            \* HealthReporter.#state
          queue,          \* the writes chained on #pendingWrite, oldest first
          poisoned,       \* #pendingWrite is rejected: no later write runs
          file,           \* the health file
          child,          \* the `ob` process, from spawn to its close event
          shutdown,       \* where ProcessSupervisor.shutdown and its timer are
          synced          \* history: the one-time sync of this worker succeeded

vars == <<main, reason, mem, queue, poisoned, file, child, shutdown, synced>>

----------------------------------------------------------------------------
(* Processes and health states.                                            *)

Commands == {"sync-status", "sync-setup", "sync", "continuous"}
Codes == {"zero", "three", "other"}
NoChild == [command |-> "none", state |-> "none", signal |-> "none"]
Child(command, state) == [command |-> command, state |-> state, signal |-> "none"]
ChildRuns == child.state = "running"

\* Operators named ...Mutant are deliberate bugs: each stands for a mistake one
\* could make in the definition that follows it, and refutes a property.

\* Mutant of Signalled: the child is signalled whether or not it runs.
SignalledMutant(signal) == [child EXCEPT !.signal = signal]

\* A signal reaches the child only while it runs.
Signalled(signal) == IF ChildRuns THEN [child EXCEPT !.signal = signal] ELSE child

\* workerPid is "self" also for a file of an earlier worker with the same pid.
Phases == {"initializing", "initial-sync", "continuous-sync", "failed", "shutting-down"}
Initializing == [worker |-> "self", phase |-> "initializing", child |-> "null",
                 complete |-> FALSE]
Stale == [worker: {"self", "gone"}, phase: Phases, child: {"null", "gone"}, complete: BOOLEAN]
Absent == [worker |-> "none", phase |-> "none", child |-> "null", complete |-> FALSE]

\* The awaits of runWorker at which it listens to signals and beats.
AwaitsRun == [at \in {"status", "setup", "initial", "continuous"} |->
                CASE at = "status"     -> "sync-status"
                  [] at = "setup"      -> "sync-setup"
                  [] at = "initial"    -> "sync"
                  [] at = "continuous" -> "continuous"]
Awaiting == DOMAIN AwaitsRun
Listening == Awaiting \cup {"token", "phase1", "phase2", "phase3", "catch"}
Ends == {"stop", "settled", "exited"}

ShuttingDown == shutdown # "no"

\* evaluateHealth, for a heartbeat that is fresh.
WorkerAlive(f) == f.worker = "self" /\ main # "exited"
ChildAlive(f) == ChildRuns /\ f.child = child.command
Live(f) == /\ f.phase \in {"initializing", "initial-sync", "continuous-sync"}
           /\ WorkerAlive(f)
           /\ f.child # "null" => ChildAlive(f)
Ready(f) == /\ Live(f)
            /\ f.phase = "continuous-sync" /\ f.complete
            /\ f.child # "null" /\ ChildAlive(f)

----------------------------------------------------------------------------
(* What runWorker does between two awaits.  q is the queue and m the state *)
(* as the macrotask has left them so far.                                  *)

\* Mutant of Enqueue: what nobody awaits is not written.
EnqueueMutant(q, m, waiters) ==
  IF waiters = {} THEN q ELSE Append(q, [state |-> m, waiters |-> waiters])

\* HealthReporter.#write: a snapshot joins the chain; waiters are resumed
\* when it has landed.
Enqueue(q, m, waiters) == Append(q, [state |-> m, waiters |-> waiters])

\* The finally block: the timer is cleared, then stop awaits the last write.
Finish(why, q, m) ==
  /\ mem' = m
  /\ reason' = IF poisoned THEN "error" ELSE why
  /\ shutdown' = IF shutdown = "armed" THEN "cleared" ELSE shutdown
  /\ IF q = <<>>
     THEN main' = "settled" /\ queue' = q
     ELSE main' = "stop" /\ queue' = [q EXCEPT ![Len(q)].waiters = @ \cup {"main"}]

\* Mutant of Throw: a failure is reported over the shutdown.
ThrowMutant(why, q, m) ==
  LET failed == [m EXCEPT !.phase = "failed", !.child = "null"]
  IN  IF poisoned THEN Finish(why, q, failed)
      ELSE /\ main' = "catch" /\ reason' = why /\ mem' = failed
           /\ queue' = Enqueue(q, failed, {"main"})
           /\ UNCHANGED shutdown

\* The catch block: a failure is reported, a shutdown was reported already.
Throw(why, q, m) ==
  LET failed == [m EXCEPT !.phase = "failed", !.child = "null"]
  IN  IF ShuttingDown THEN Finish(why, q, m)
      ELSE IF poisoned THEN Finish(why, q, failed)
      ELSE /\ main' = "catch"
           /\ reason' = why
           /\ mem' = failed
           /\ queue' = Enqueue(q, failed, {"main"})
           /\ UNCHANGED shutdown

\* await reporter.update(...)
Update(at, q, m) ==
  IF poisoned THEN Throw("error", q, m)
  ELSE /\ main' = at
       /\ mem' = m
       /\ queue' = Enqueue(q, m, {"main"})
       /\ UNCHANGED <<reason, shutdown>>

\* await supervisor.run(...): the spawn event reports the child's pid, and a
\* report that is rejected rejects the run although the child lives.
Run(at, q, m) ==
  LET command == AwaitsRun[at]
      spawned == [m EXCEPT !.child = command]
  IN  \/ /\ ShuttingDown
         /\ Throw("signal", q, m)
         /\ child' = NoChild
      \/ /\ ~ShuttingDown
         /\ child' = Child(command, "running")
         /\ IF poisoned THEN Throw("error", q, spawned)
            ELSE /\ main' = at
                 /\ mem' = spawned
                 /\ queue' = Enqueue(q, spawned, {"spawn"})
                 /\ UNCHANGED <<reason, shutdown>>
      \/ /\ ~ShuttingDown
         /\ child' = Child(command, "nospawn")
         /\ main' = at /\ mem' = m /\ queue' = q
         /\ UNCHANGED <<reason, shutdown>>

\* The process is gone at once: an unhandled rejection, or a signal that no
\* handler takes.
Die(why) == /\ main' = "exited"
            /\ reason' = why
            /\ queue' = <<>>

----------------------------------------------------------------------------
Init == /\ main = "boot" /\ reason = "none"
        /\ mem = Initializing
        /\ queue = <<>> /\ poisoned = FALSE
        /\ file \in Stale \cup {Absent}
        /\ child = NoChild
        /\ shutdown = "no"
        /\ synced = FALSE

\* The file of an earlier worker is removed, the configuration is validated,
\* and the reporter starts.
Boot ==
  /\ main = "boot"
  /\ \/ /\ file' = Absent
        /\ main' = "start"
        /\ queue' = Enqueue(queue, mem, {"main"})
        /\ UNCHANGED reason
     \/ /\ file' = Absent
        /\ main' = "settled" /\ reason' = "config"
        /\ UNCHANGED queue
     \/ /\ main' = "settled" /\ reason' = "error"
        /\ UNCHANGED <<file, queue>>
  /\ UNCHANGED <<mem, poisoned, child, shutdown, synced>>

\* Mutant of StartContinuous: the continuous run is not awaited.
StartContinuousMutant(q) ==
  /\ child' = Child("continuous", "running")
  /\ Finish("none", q, [mem EXCEPT !.child = "continuous"])

\* What the worker does next when the write it awaits has landed.
StartContinuous(q) ==
  LET phased == [mem EXCEPT !.phase = "continuous-sync"]
      spawned == [phased EXCEPT !.child = "continuous"]
  IN  \/ /\ ShuttingDown                    \* run throws and nobody awaits it yet
         /\ Die("unhandled")
         /\ mem' = phased
         /\ UNCHANGED <<child, shutdown>>
      \/ /\ ~ShuttingDown
         /\ main' = "phase3"
         /\ mem' = spawned
         /\ queue' = Enqueue(Enqueue(q, phased, {"main"}), spawned, {"spawn"})
         /\ child' = Child("continuous", "running")
         /\ UNCHANGED <<reason, shutdown>>
      \/ /\ ~ShuttingDown                   \* the spawn fails: the same
         /\ Die("unhandled")
         /\ mem' = phased
         /\ UNCHANGED <<child, shutdown>>

Resume(q) ==
  \/ /\ main \in {"start", "phase3"}
     /\ main' = IF main = "start" THEN "token" ELSE "continuous"
     /\ queue' = q
     /\ UNCHANGED <<mem, reason, shutdown, child>>
  \/ /\ main = "phase1" /\ Run("initial", q, mem)
  \/ /\ main = "phase2" /\ StartContinuous(q)
  \/ /\ main = "catch" /\ Finish(reason, q, mem)
     /\ UNCHANGED child
  \/ /\ main = "stop"
     /\ main' = "settled" /\ queue' = q
     /\ UNCHANGED <<mem, reason, shutdown, child>>

\* The oldest write has been renamed into place; its waiters go on.
WriteLands ==
  LET write == Head(queue)
      q == Tail(queue)
  IN  /\ main # "exited" /\ queue # <<>>
      /\ file' = write.state
      /\ \/ /\ write.waiters \subseteq {"spawn"}
            /\ queue' = q
            /\ UNCHANGED <<main, reason, mem, child, shutdown>>
         \/ /\ "shutdown" \in write.waiters
            /\ child' = Signalled("soft")
            /\ shutdown' = "armed"
            /\ main' = IF "main" \in write.waiters THEN "settled" ELSE main
            /\ queue' = q
            /\ UNCHANGED <<reason, mem>>
         \/ /\ "main" \in write.waiters /\ "shutdown" \notin write.waiters
            /\ Resume(q)
      /\ UNCHANGED <<poisoned, synced>>

\* The oldest write fails, and with it every write that is queued now or later.
Waiters == UNION {queue[i].waiters : i \in DOMAIN queue}
Rejected == "main" \in Waiters \/ ("spawn" \in Waiters /\ main \in Awaiting)

WriteFails ==
  /\ main # "exited" /\ queue # <<>>
  /\ poisoned' = TRUE
  /\ child' = IF "shutdown" \in Waiters THEN Signalled("soft") ELSE child
  /\ \/ /\ main = "phase3"                  \* the spawn report fails as well
        /\ Die("unhandled")
        /\ UNCHANGED <<mem, shutdown>>
     \/ /\ main # "phase3"
        /\ queue' = <<>>
        /\ main' = IF Rejected THEN "settled" ELSE main
        /\ reason' = IF Rejected THEN "error" ELSE reason
        /\ mem' = IF Rejected /\ ~ShuttingDown /\ main \in Listening \ {"catch"}
                  THEN [mem EXCEPT !.phase = "failed", !.child = "null"]
                  ELSE mem
        /\ shutdown' \in
             CASE "shutdown" \in Waiters -> {"armed"} \cup
                    (IF Rejected /\ main \in Listening THEN {"cleared"} ELSE {})
               [] "shutdown" \notin Waiters /\ Rejected /\ shutdown = "armed" -> {"cleared"}
               [] OTHER -> {shutdown}
  /\ UNCHANGED <<file, synced>>

\* writeAuthToken returns or fails.
TokenWritten ==
  /\ main = "token"
  /\ \/ Run("status", queue, mem)
     \/ Throw("error", queue, mem) /\ UNCHANGED child
  /\ UNCHANGED <<poisoned, file, synced>>

\* The exit codes that let runWorker go on.
\* Mutant of Accepted: rejectOnError is off for every run.
AcceptedMutant(at, code) == at # "continuous" /\ code # "nospawn"
Accepted(at, code) == \/ at = "status" /\ code \in {"zero", "three"}
                      \/ at \in {"setup", "initial"} /\ code = "zero"

\* The close event of the child: its pid is forgotten, and the run that still
\* awaits it is resolved or rejected.
Closed(q, m) ==
  LET code == child.state
  IN  \/ /\ ShuttingDown
         /\ Throw(IF code = "nospawn" THEN "error" ELSE "signal", q, m)
         /\ child' = NoChild
      \/ /\ ~ShuttingDown
         /\ ~Accepted(main, code)
         /\ Throw("error", q, m)
         /\ child' = NoChild
      \/ /\ ~ShuttingDown
         /\ main = "status" /\ code = "three"
         /\ Run("setup", q, m)
      \/ /\ ~ShuttingDown
         /\ main \in {"status", "setup"} /\ code # "three" /\ Accepted(main, code)
         /\ Update("phase1", q, [m EXCEPT !.phase = "initial-sync"])
         /\ child' = NoChild
      \/ /\ ~ShuttingDown
         /\ main = "initial" /\ Accepted(main, code)
         /\ Update("phase2", q, [m EXCEPT !.complete = TRUE])
         /\ child' = NoChild

ChildClosed ==
  LET m == [mem EXCEPT !.child = "null"]
      q == IF poisoned THEN queue ELSE Enqueue(queue, m, {})
  IN  /\ main # "exited" /\ child # NoChild /\ ~ChildRuns
      /\ \/ /\ main \in Awaiting
            /\ Closed(q, m)
         \/ /\ main = "phase3"              \* continuous is rejected, unawaited
            /\ Die("unhandled")
            /\ mem' = m /\ child' = NoChild
            /\ UNCHANGED shutdown
         \/ /\ main \in Ends \cup {"catch"} \* the run was rejected before
            /\ child' = NoChild /\ mem' = m /\ queue' = q
            /\ UNCHANGED <<main, reason, shutdown>>
      /\ synced' = (synced \/ (main = "initial" /\ child.state = "zero"))
      /\ UNCHANGED <<poisoned, file>>

----------------------------------------------------------------------------
(* Signals, timers, and processes.                                         *)

\* Mutant of Signal: the report is not awaited.
SignalMutant ==
  /\ main \in Listening /\ ~ShuttingDown
  /\ mem' = [mem EXCEPT !.phase = "shutting-down"]
  /\ child' = Signalled("soft")
  /\ shutdown' = "armed"
  /\ queue' = Enqueue(queue, mem', {})
  /\ UNCHANGED <<main, reason, poisoned, file, synced>>

\* SIGTERM or SIGINT while a handler is registered.
Signal ==
  /\ main \in Listening
  /\ \/ /\ ~ShuttingDown
        /\ mem' = [mem EXCEPT !.phase = "shutting-down"]
        /\ IF poisoned
           THEN /\ child' = Signalled("soft")
                /\ shutdown' = "armed"
                /\ UNCHANGED queue
           ELSE /\ shutdown' = "reporting"
                /\ queue' = Enqueue(queue, mem', {"shutdown"})
                /\ UNCHANGED child
     \/ /\ ShuttingDown
        /\ child' = Signalled("kill")
        /\ UNCHANGED <<mem, queue, shutdown>>
  /\ UNCHANGED <<main, reason, poisoned, file, synced>>

\* Mutant of ForceTimer: the child is asked once more.
ForceTimerMutant ==
  /\ main # "exited" /\ shutdown = "armed"
  /\ shutdown' = "fired"
  /\ UNCHANGED <<main, reason, mem, queue, poisoned, file, child, synced>>

\* The shutdown timeout has passed.
ForceTimer ==
  /\ main # "exited" /\ shutdown = "armed"
  /\ shutdown' = "fired"
  /\ child' = Signalled("kill")
  /\ UNCHANGED <<main, reason, mem, queue, poisoned, file, synced>>

Heartbeat ==
  /\ main \in Listening /\ ~poisoned /\ Len(queue) < MaxQueue
  /\ queue' = Enqueue(queue, mem, {})
  /\ UNCHANGED <<main, reason, mem, poisoned, file, child, shutdown, synced>>

\* runWorker is over and nothing keeps the event loop alive.
ProcessEnds ==
  /\ main = "settled"
  /\ child = NoChild /\ queue = <<>> /\ shutdown # "armed"
  /\ main' = "exited"
  /\ UNCHANGED <<reason, mem, queue, poisoned, file, child, shutdown, synced>>

\* SIGKILL, out of memory, or a signal before or after the handlers are there.
WorkerKilled ==
  /\ main # "exited"
  /\ Die("killed")
  /\ UNCHANGED <<mem, poisoned, file, child, shutdown, synced>>

ChildExits ==
  /\ ChildRuns
  /\ \E code \in Codes : child' = [child EXCEPT !.state = code]
  /\ UNCHANGED <<main, reason, mem, queue, poisoned, file, shutdown, synced>>

ChildDies == child.signal = "kill" /\ ChildExits

Next == \/ Boot \/ WriteLands \/ WriteFails \/ TokenWritten \/ ChildClosed
        \/ Signal \/ ForceTimer \/ Heartbeat \/ ProcessEnds \/ WorkerKilled
        \/ ChildExits

Spec == Init /\ [][Next]_vars

\* The event loop serves what is due, and SIGKILL cannot be ignored.
FairSpec == /\ Spec
            /\ WF_vars(Boot) /\ WF_vars(WriteLands \/ WriteFails) /\ WF_vars(TokenWritten)
            /\ WF_vars(ChildClosed) /\ WF_vars(ForceTimer) /\ WF_vars(ProcessEnds)
            /\ WF_vars(ChildDies)

----------------------------------------------------------------------------
(* Properties.                                                             *)

States == [worker: {"self"}, phase: Phases, child: {"null"} \cup Commands, complete: BOOLEAN]

\* Every variable holds a value of its type.
TypeOK ==
  /\ main \in Listening \cup Ends \cup {"boot", "start"}
  /\ reason \in {"none", "signal", "error", "config", "unhandled", "killed"}
  /\ mem \in States
  /\ queue \in Seq([state: States, waiters: SUBSET {"main", "spawn", "shutdown"}])
  /\ poisoned \in BOOLEAN
  /\ file \in States \cup Stale \cup {Absent}
  /\ child \in [command: Commands, state: Codes \cup {"running", "nospawn"},
                signal: {"none", "soft", "kill"}] \cup {NoChild}
  /\ shutdown \in {"no", "reporting", "armed", "fired", "cleared"}
  /\ synced \in BOOLEAN

\* The readiness contract, as a probe sees it at any moment, also right after a
\* restart, during a shutdown and with writes still queued: "ready" means that
\* the one-time sync of this worker has succeeded and its continuous child runs.
ReadySound == Ready(file) => /\ synced
                             /\ ChildRuns /\ child.command = "continuous"

\* The health file tells a story that only goes forward: a phase is never
\* overwritten by an earlier one and a completed sync stays completed, although
\* heartbeats, child events, failures and the shutdown all write snapshots.
Rank(f) == CASE f.phase = "initializing"    -> 1
             [] f.phase = "initial-sync"    -> 2
             [] f.phase = "continuous-sync" -> 3
             [] f.phase = "failed"          -> 4
             [] f.phase = "shutting-down"   -> 5
             [] OTHER                       -> 0
FileGoesForward == [][main # "boot" => /\ Rank(file) <= Rank(file')
                                       /\ file.complete => file'.complete]_vars

\* When no write is outstanding the file says what the worker knows.
FileCatchesUp ==
  /\ main \in Listening \/ (main = "settled" /\ mem.phase \in {"failed", "shutting-down"})
  /\ queue = <<>> /\ ~poisoned
  => file = mem

\* Unless a health write has failed, the child gets SIGTERM only when a probe
\* can no longer find the worker live.
ReportsBeforeForwarding == ChildRuns /\ child.signal = "soft" /\ ~poisoned => ~Live(file)

\* Unless a health write has failed, the worker that started an `ob` child is
\* there to take a signal and forward it for as long as the child runs, or was
\* killed from outside: no failure of its own leaves an orphan.
NoOrphan == ChildRuns /\ ~poisoned => main \in Listening \/ reason = "killed"

\* Unless a health write fails, a shutdown or a failure ends the process with no
\* child left behind, whatever the child does about SIGTERM.
StopsWhenAsked == (ShuttingDown \/ main = "catch") ~>
                    \/ main = "exited" /\ (reason # "killed" => child = NoChild)
                    \/ poisoned

----------------------------------------------------------------------------
(* Claims of the documentation and the tests about the same code.          *)

\* README.md: "On SIGTERM or SIGINT, the worker ... forwards the signal to
\* `ob`": as long as a child runs the worker that started it is listening.
SignalsAreForwarded == ChildRuns => main \in Listening \/ reason = "killed"

\* worker.test.js: runWorker is rejected with "Received SIGTERM", and exits with
\* the signal's status, once it has handled a signal (unless it had failed).
SignalIsTheStatus ==
  main = "exited" /\ ShuttingDown => reason \in {"signal", "error", "killed"}

===============================================================================
