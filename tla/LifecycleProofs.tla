---------------------------- MODULE LifecycleProofs ----------------------------
(***************************************************************************)
(* Proofs about the two processes, for any numbers of calls and starts, any*)
(* timeouts and all command lines.                                         *)
(***************************************************************************)
EXTENDS ServiceLifecycle, TLAPS

----------------------------------------------------------------------------
(* Processes.                                                              *)

Procs == [at: Places, bound: {"no", "yes", "failed", "closed"},
          status: {"serving", "not_serving"}, signalled: BOOLEAN, timer: 0..Grace, exit: Ends]

\* What is true of one process, whatever its peers do: it says that it serves
\* only at its select, it listens from there until Shutdown, and it leaves the
\* select for Shutdown only after a signal.
Sound(p, process) ==
  /\ process \in Procs
  /\ process.at = "exited" <=> process.exit # "none"
  /\ process.exit # "none" => process.bound = "closed"
  /\ process.bound = "yes" => process.at \in {"selecting", "withdrawn"}
  /\ process.bound = "closed" => process.at \in {"draining", "exited"}
  /\ process.status = "serving" => process.at = "selecting"
  /\ process.at \in {"withdrawn", "draining"} => process.signalled
  /\ process.exit = "ok" => process.signalled
  /\ p = "mcp" => process.at # "init"

ProcInv == /\ proc \in [Binaries -> Procs]
           /\ \A p \in Binaries : Sound(p, proc[p])

LEMMA ProcInit == Init => ProcInv
BY TimeoutAssumption, SMT DEF Init, ProcInv, Sound, Procs, Off, Places, Ends

\* A process may change when it stays sound.
LEMMA OneProc ==
  ASSUME ProcInv, NEW p \in Binaries, NEW process, Sound(p, process),
         proc' = [proc EXCEPT ![p] = process]
  PROVE  ProcInv'
<1>1. process \in Procs
  BY DEF Sound
<1>2. \A q \in Binaries : proc'[q] = IF q = p THEN process ELSE proc[q]
  BY DEF ProcInv
<1> QED BY <1>1, <1>2 DEF ProcInv

LEMMA ExitProc ==
  ASSUME ProcInv, NEW p \in Binaries, NEW why \in Ends \ {"none"}, Exit(p, why),
         why = "ok" => proc[p].signalled
  PROVE  ProcInv'
<1> DEFINE process == [proc[p] EXCEPT !.at = "exited", !.exit = why, !.bound = "closed",
                                      !.status = "not_serving"]
<1>1. Sound(p, proc[p]) /\ proc[p] \in Procs
  BY DEF ProcInv
<1>2. Sound(p, process)
  BY <1>1 DEF Sound, Procs, Places
<1>3. proc' = [proc EXCEPT ![p] = process]
  BY DEF Exit, ProcInv
<1> QED BY <1>2, <1>3, OneProc

LEMMA ProcStep ==
  ASSUME ProcInv, NEW p \in Binaries, Process(p) \/ Operator(p)
  PROVE  ProcInv'
<1>0. Sound(p, proc[p]) /\ proc[p] \in Procs
  BY DEF ProcInv
<1> USE DEF Sound, Procs, Places, Ends, Is
<1>1. ASSUME NEW s \in ServeSettings[p], Configure(p, s) PROVE ProcInv'
  <2>1. CASE ServeSettingsAccepted(p, s)
    <3> DEFINE process == [proc[p] EXCEPT !.at = IF p = "mcp" THEN "selecting" ELSE "init",
                                          !.status = IF p = "mcp" THEN "serving" ELSE @]
    <3>1. Sound(p, process)
      BY <1>0, <1>1 DEF Configure
    <3>2. proc' = [proc EXCEPT ![p] = process]
      BY <1>1, <2>1 DEF Configure
    <3> HIDE DEF Sound
    <3> QED BY <3>1, <3>2, OneProc
  <2>2. CASE ~ServeSettingsAccepted(p, s)
    BY <1>1, <2>2, ExitProc DEF Configure
  <2> QED BY <2>1, <2>2
<1>2. CASE p = "vault" /\ Load
  <2> DEFINE process == [proc[p] EXCEPT !.at = "selecting", !.status = "serving"]
  <2>1. Sound(p, process)
    BY <1>0, <1>2 DEF Load
  <2>2. proc' = [proc EXCEPT ![p] = process]
    BY <1>2 DEF Load
  <2> HIDE DEF Sound
  <2> QED BY <2>1, <2>2, OneProc
<1>3. CASE p = "vault" /\ LoadFails
  BY <1>3, ExitProc DEF LoadFails
<1>4. CASE Bind(p)
  <2>1. PICK bound \in {"yes", "failed"} : proc' = [proc EXCEPT ![p].bound = bound]
    BY <1>4 DEF Bind
  <2> DEFINE process == [proc[p] EXCEPT !.bound = bound]
  <2>2. Sound(p, process)
    BY <1>0, <1>4 DEF Bind
  <2>3. proc' = [proc EXCEPT ![p] = process]
    BY <2>1
  <2> HIDE DEF Sound
  <2> QED BY <2>2, <2>3, OneProc
<1>5. CASE ServeFails(p)
  BY <1>5, ExitProc DEF ServeFails
<1>6. CASE Withdraw(p)
  <2> DEFINE process == [proc[p] EXCEPT !.at = "withdrawn", !.status = "not_serving"]
  <2>1. Sound(p, process)
    BY <1>0, <1>6 DEF Withdraw
  <2>2. proc' = [proc EXCEPT ![p] = process]
    BY <1>6 DEF Withdraw
  <2> HIDE DEF Sound
  <2> QED BY <2>1, <2>2, OneProc
<1>7. CASE Shutdown(p)
  <2> DEFINE process == [proc[p] EXCEPT !.at = "draining", !.bound = "closed", !.timer = Grace]
  <2>1. Grace \in 0..Grace
    BY TimeoutAssumption, SMT
  <2>2. Sound(p, process)
    BY <1>0, <1>7, <2>1 DEF Shutdown
  <2>3. proc' = [proc EXCEPT ![p] = process]
    BY <1>7 DEF Shutdown
  <2> HIDE DEF Sound
  <2> QED BY <2>2, <2>3, OneProc
<1>8. CASE Drained(p)
  BY <1>0, <1>8, ExitProc DEF Drained
<1>9. CASE GraceEnds(p)
  BY <1>9, ExitProc DEF GraceEnds
<1>10. CASE Start(p)
  <2> DEFINE process == [proc[p] EXCEPT !.at = "boot"]
  <2>1. Sound(p, process)
    BY <1>0, <1>10 DEF Start
  <2>2. proc' = [proc EXCEPT ![p] = process]
    BY <1>10 DEF Start
  <2> HIDE DEF Sound
  <2> QED BY <2>1, <2>2, OneProc
<1>11. CASE Signal(p)
  <2>1. CASE proc[p].at = "boot"
    BY <1>11, <2>1, ExitProc DEF Signal
  <2>2. CASE proc[p].at # "boot"
    <3> DEFINE process == [proc[p] EXCEPT !.signalled = TRUE]
    <3>1. Sound(p, process)
      BY <1>0, <1>11
    <3>2. proc' = [proc EXCEPT ![p] = process]
      BY <1>11, <2>2 DEF Signal
    <3> HIDE DEF Sound
    <3> QED BY <3>1, <3>2, OneProc
  <2> QED BY <2>1, <2>2
<1>12. CASE Crash(p)
  BY <1>12, ExitProc DEF Crash
<1>13. CASE Restart(p)
  <2>1. Sound(p, Off)
    BY TimeoutAssumption, SMT DEF Off
  <2>2. proc' = [proc EXCEPT ![p] = Off]
    BY <1>13 DEF Restart
  <2> HIDE DEF Sound
  <2> QED BY <2>1, <2>2, OneProc
<1> QED BY <1>1, <1>2, <1>3, <1>4, <1>5, <1>6, <1>7, <1>8, <1>9, <1>10, <1>11, <1>12, <1>13
        DEF Process, Operator

\* A tick runs the timers of the processes that drain, none of which is due.
LEMMA ProcTick ==
  ASSUME ProcInv, Tick
  PROVE  ProcInv'
<1>1. \A p \in Binaries : proc'[p] = IF Is(p, "draining") THEN [proc[p] EXCEPT !.timer = @ - 1]
                                     ELSE proc[p]
  BY DEF Tick
<1>2. ASSUME NEW p \in Binaries PROVE Sound(p, proc'[p])
  <2>1. Sound(p, proc[p]) /\ proc[p] \in Procs
    BY DEF ProcInv
  <2>2. CASE Is(p, "draining")
    <3>1. proc[p].timer # 0
      BY <2>2 DEF Tick, Timed
    <3>2. proc[p].timer - 1 \in 0..Grace
      BY <2>1, <3>1, TimeoutAssumption, SMT DEF Procs
    <3>3. proc'[p] = [proc[p] EXCEPT !.timer = proc[p].timer - 1]
      BY <1>1, <2>1, <2>2
    <3> QED BY <2>1, <3>2, <3>3 DEF Sound, Procs
  <2>3. CASE ~Is(p, "draining")
    BY <1>1, <2>1, <2>3
  <2> QED BY <2>2, <2>3
<1>3. \A p \in Binaries : proc'[p] \in Procs
  BY <1>2 DEF Sound
<1>4. proc' \in [Binaries -> Procs]
  BY <1>3 DEF Tick
<1> QED BY <1>2, <1>4 DEF ProcInv

\* Nothing else changes a process.
Others == \/ \E c \in Calls : Client(c) \/ Gateway(c) \/ Answer(c) \/ OrphanEnds(c)
          \/ \E l \in CommandLines : Probe(l)
          \/ Healthcheck

LEMMA ProcOthers == Others => UNCHANGED <<proc, starts>>
BY DEF Others, Client, Gateway, Healthcheck, Accept, Finish, HangUp, Refuse, Forward, TimeOut,
       Answer, OrphanEnds, Probe, CheckGateway, CheckVaultForGateway, CheckVault, ProbeTimesOut

LEMMA ProcNext == ProcInv /\ [Next]_vars => ProcInv'
<1> SUFFICES ASSUME ProcInv, [Next]_vars PROVE ProcInv'
  OBVIOUS
<1>1. ASSUME NEW p \in Binaries, Process(p) \/ Operator(p) PROVE ProcInv'
  BY <1>1, ProcStep
<1>2. CASE Tick
  BY <1>2, ProcTick
<1>3. CASE Others
  BY <1>3, ProcOthers DEF ProcInv
<1>4. CASE UNCHANGED vars
  BY <1>4 DEF ProcInv, vars
<1> QED BY <1>1, <1>2, <1>3, <1>4 DEF Next, Step, Others

\* A server exits with zero only after it was told to stop.
THEOREM ZeroIsAskedFor == Spec => []ZeroWasAskedFor
<1>1. ProcInv => ZeroWasAskedFor
  BY DEF ProcInv, Sound, ZeroWasAskedFor
<1> QED BY <1>1, ProcInit, ProcNext, PTL DEF Spec

----------------------------------------------------------------------------
(* Calls.                                                                  *)

CallSet == [at: {"none", "accepted", "waiting", "replying", "ended", "cut"},
            kind: Kinds \cup {"none"}, timer: 0..RequestTimeout, early: BOOLEAN]

\* A call that was forwarded before the gateway began to drain is due before the
\* grace period is over.
InTime(r, gateway) ==
  r.early => /\ r.at \in {"waiting", "cut"}
             /\ RequestTimeout < Grace =>
                  r.at # "cut" /\ (gateway.at = "draining" => r.timer < gateway.timer)

CallInv == /\ call \in [Calls -> CallSet]
           /\ work \in [Calls -> {"none", "running", "orphan"}]
           /\ \A c \in Calls : InTime(call[c], proc["mcp"])

LEMMA Plain0 ==
  ASSUME NEW gateway
  PROVE  /\ NoCall \in CallSet /\ Replying \in CallSet
         /\ [NoCall EXCEPT !.at = "ended"] \in CallSet
         /\ InTime(NoCall, gateway) /\ InTime(Replying, gateway)
         /\ InTime([NoCall EXCEPT !.at = "ended"], gateway)
<1>1. 0 \in 0..RequestTimeout
  BY TimeoutAssumption, SMT
<1> QED BY <1>1 DEF NoCall, Replying, CallSet, InTime, Kinds

LEMMA CallInit == Init => CallInv
BY Plain0 DEF Init, CallInv

\* One call may change when it stays in time.
LEMMA OneCall ==
  ASSUME CallInv, proc' = proc, NEW c \in Calls, NEW r \in CallSet, InTime(r, proc["mcp"]),
         call' = [call EXCEPT ![c] = r], work' \in [Calls -> {"none", "running", "orphan"}]
  PROVE  CallInv'
<1>1. \A d \in Calls : call'[d] = IF d = c THEN r ELSE call[d]
  BY DEF CallInv
<1>2. ASSUME NEW d \in Calls PROVE InTime(call'[d], proc'["mcp"])
  BY <1>1 DEF CallInv
<1>3. call' \in [Calls -> CallSet]
  BY DEF CallInv
<1> QED BY <1>2, <1>3 DEF CallInv

\* No call changes when the gateway does not begin to drain.
LEMMA NoCallChanges ==
  ASSUME CallInv, UNCHANGED <<call, work>>,
         \/ proc'["mcp"].at = proc["mcp"].at /\ proc'["mcp"].timer = proc["mcp"].timer
         \/ proc'["mcp"].at # "draining"
  PROVE  CallInv'
BY DEF CallInv, InTime

LEMMA ExitCalls ==
  ASSUME ProcInv, CallInv, NEW p \in Binaries, NEW why, Exit(p, why),
         why = "grace" => Is(p, "draining") /\ proc[p].timer = 0
  PROVE  CallInv'
<1>1. work' \in [Calls -> {"none", "running", "orphan"}]
  BY DEF Exit, WorkAfter, CallInv
<1>2. "mcp" \in Binaries /\ proc["mcp"] \in Procs
  BY DEF Binaries, ProcInv
<1>3. /\ p = "mcp" => proc'["mcp"].at = "exited"
      /\ p # "mcp" => proc'["mcp"] = proc["mcp"]
  BY <1>2 DEF Exit, ProcInv, Procs
<1>4. ASSUME NEW c \in Calls
      PROVE  call'[c] \in CallSet /\ InTime(call'[c], proc'["mcp"])
  <2>1. call[c] \in CallSet /\ InTime(call[c], proc["mcp"])
    BY DEF CallInv
  <2>2. CASE p = "mcp" /\ call[c].at = "waiting" /\ why = "grace"
    <3>1. call'[c] = [NoCall EXCEPT !.at = "cut", !.early = call[c].early]
      BY <2>2 DEF Exit, CallsAfter
    <3>2. call[c].timer \in 0..RequestTimeout /\ call[c].early \in BOOLEAN
      BY <2>1 DEF CallSet
    <3>3. RequestTimeout < Grace => ~call[c].early
      BY <2>1, <2>2, <3>2, TimeoutAssumption, SMT DEF InTime, Is
    <3>4. call'[c] \in CallSet /\ call'[c].at = "cut" /\ call'[c].early = call[c].early
      BY <3>1, <3>2, Plain0 DEF NoCall, CallSet
    <3> QED BY <3>3, <3>4 DEF InTime
  <2>3. CASE call'[c] = call[c]
    BY <1>3, <2>1, <2>3 DEF InTime
  <2>4. CASE call'[c] \in {[NoCall EXCEPT !.at = "ended"], Replying}
    BY <2>4, Plain0
  <2>5. \/ p = "mcp" /\ call[c].at = "waiting" /\ why = "grace"
        \/ call'[c] = call[c]
        \/ call'[c] \in {[NoCall EXCEPT !.at = "ended"], Replying}
    BY DEF Exit, CallsAfter
  <2> QED BY <2>2, <2>3, <2>4, <2>5
<1>5. call' \in [Calls -> CallSet]
  BY <1>4 DEF Exit, CallsAfter
<1> QED BY <1>1, <1>4, <1>5 DEF CallInv

LEMMA CallProcStep ==
  ASSUME ProcInv, CallInv, NEW p \in Binaries, Process(p) \/ Operator(p)
  PROVE  CallInv'
<1>0. /\ "mcp" \in Binaries /\ proc["mcp"] \in Procs
      /\ proc \in [Binaries -> Procs] /\ Sound(p, proc[p])
  BY DEF Binaries, ProcInv
<1>1. ASSUME NEW s \in ServeSettings[p], Configure(p, s) PROVE CallInv'
  <2>1. CASE ServeSettingsAccepted(p, s)
    BY <1>0, <1>1, <2>1, NoCallChanges DEF Configure, Procs
  <2>2. CASE ~ServeSettingsAccepted(p, s)
    BY <1>1, <2>2, ExitCalls DEF Configure
  <2> QED BY <2>1, <2>2
<1>2. CASE p = "vault" /\ Load
  BY <1>0, <1>2, NoCallChanges DEF Load, Procs
<1>3. CASE p = "vault" /\ LoadFails
  BY <1>3, ExitCalls DEF LoadFails
<1>4. CASE Bind(p)
  BY <1>0, <1>4, NoCallChanges DEF Bind, Procs
<1>5. CASE ServeFails(p)
  BY <1>5, ExitCalls DEF ServeFails
<1>6. CASE Withdraw(p)
  BY <1>0, <1>6, NoCallChanges DEF Withdraw, Procs
<1>7. CASE Shutdown(p)
  <2>1. CASE p = "mcp"
    <3>1. proc'["mcp"].timer = Grace /\ UNCHANGED <<call, work>>
      BY <1>0, <1>7, <2>1 DEF Shutdown, Procs
    <3>2. ASSUME NEW c \in Calls PROVE InTime(call[c], proc'["mcp"])
      <4>1. call[c].timer \in 0..RequestTimeout /\ InTime(call[c], proc["mcp"])
        BY DEF CallInv, CallSet
      <4>2. RequestTimeout < Grace => call[c].timer < Grace
        BY <4>1, TimeoutAssumption, SMT
      <4> QED BY <3>1, <4>1, <4>2 DEF InTime
    <3> QED BY <3>1, <3>2 DEF CallInv
  <2>2. CASE p # "mcp"
    BY <1>0, <1>7, <2>2, NoCallChanges DEF Shutdown
  <2> QED BY <2>1, <2>2
<1>8. CASE Drained(p)
  BY <1>8, ExitCalls DEF Drained
<1>9. CASE GraceEnds(p)
  BY <1>9, ExitCalls DEF GraceEnds
<1>10. CASE Start(p)
  BY <1>0, <1>10, NoCallChanges DEF Start, Procs
<1>11. CASE Signal(p)
  <2>1. CASE Is(p, "boot")
    BY <1>11, <2>1, ExitCalls DEF Signal
  <2>2. CASE ~Is(p, "boot")
    BY <1>0, <1>11, <2>2, NoCallChanges DEF Signal, Procs
  <2> QED BY <2>1, <2>2
<1>12. CASE Crash(p)
  BY <1>12, ExitCalls DEF Crash
<1>13. CASE Restart(p)
  BY <1>0, <1>13, NoCallChanges DEF Restart, Off
<1> QED BY <1>1, <1>2, <1>3, <1>4, <1>5, <1>6, <1>7, <1>8, <1>9, <1>10, <1>11, <1>12, <1>13
        DEF Process, Operator

LEMMA CallTick ==
  ASSUME ProcInv, CallInv, Tick
  PROVE  CallInv'
<1>0. "mcp" \in Binaries /\ proc["mcp"] \in Procs
  BY DEF Binaries, ProcInv
<1>1. /\ proc["mcp"].at = "draining" => proc'["mcp"] = [proc["mcp"] EXCEPT !.timer = @ - 1]
      /\ proc["mcp"].at # "draining" => proc'["mcp"] = proc["mcp"]
  BY <1>0 DEF Tick, Is
<1>2. ASSUME NEW c \in Calls
      PROVE  call'[c] \in CallSet /\ InTime(call'[c], proc'["mcp"])
  <2>1. call[c] \in CallSet /\ InTime(call[c], proc["mcp"])
    BY DEF CallInv
  <2>2. CASE call[c].at = "waiting"
    <3>1. call[c].timer # 0
      BY <2>2 DEF Tick, Timed
    <3>2. call'[c] = [call[c] EXCEPT !.timer = call[c].timer - 1]
      BY <2>1, <2>2 DEF Tick
    <3>3. call[c].timer \in 0..RequestTimeout /\ call[c].timer - 1 \in 0..RequestTimeout
      BY <2>1, <3>1, TimeoutAssumption, SMT DEF CallSet
    <3>4. /\ call'[c] \in CallSet /\ call'[c].at = "waiting"
          /\ call'[c].early = call[c].early /\ call'[c].timer = call[c].timer - 1
      BY <2>1, <2>2, <3>2, <3>3 DEF CallSet
    <3>5. /\ proc'["mcp"].at = proc["mcp"].at /\ proc["mcp"].timer \in 0..Grace
          /\ proc["mcp"].at = "draining" => proc'["mcp"].timer = proc["mcp"].timer - 1
      BY <1>0, <1>1 DEF Procs
    <3>6. call[c].timer < proc["mcp"].timer => call[c].timer - 1 < proc["mcp"].timer - 1
      BY <3>3, <3>5, TimeoutAssumption, SMT
    <3> QED BY <2>1, <3>4, <3>5, <3>6 DEF InTime
  <2>3. CASE call[c].at # "waiting"
    <3>1. call'[c] = call[c]
      BY <2>3 DEF Tick
    <3>2. proc'["mcp"].at = proc["mcp"].at
      BY <1>0, <1>1 DEF Procs
    <3> QED BY <2>1, <2>3, <3>1, <3>2 DEF InTime
  <2> QED BY <2>2, <2>3
<1>3. call' \in [Calls -> CallSet]
  BY <1>2 DEF Tick
<1>4. work' \in [Calls -> {"none", "running", "orphan"}]
  BY DEF Tick, CallInv
<1> QED BY <1>2, <1>3, <1>4 DEF CallInv

LEMMA CallOthers ==
  ASSUME ProcInv, CallInv, Others
  PROVE  CallInv'
<1>0. proc' = proc
  BY ProcOthers
<1>1. ASSUME NEW c \in Calls, Client(c) \/ Gateway(c) \/ Answer(c) \/ OrphanEnds(c)
      PROVE  CallInv'
  <2>0. call[c] \in CallSet /\ InTime(call[c], proc["mcp"])
    BY DEF CallInv
  <2>1. ASSUME NEW kind \in Kinds, Accept(c, kind) PROVE CallInv'
    <3>1. work' = work
      BY <2>1 DEF Accept
    <3>2. CASE kind = "bare"
      BY <1>0, <2>1, <3>1, <3>2, OneCall, Plain0 DEF Accept, CallInv
    <3>3. CASE kind # "bare"
      <4> DEFINE r == [call[c] EXCEPT !.at = "accepted", !.kind = kind]
      <4>1. call' = [call EXCEPT ![c] = r]
        BY <2>1, <3>3 DEF Accept
      <4>2. r \in CallSet /\ InTime(r, proc["mcp"])
        BY <2>0, <2>1 DEF Accept, CallSet, InTime
      <4> HIDE DEF r
      <4> QED BY <1>0, <3>1, <4>1, <4>2, OneCall DEF CallInv
    <3> QED BY <3>2, <3>3
  <2>2. CASE Finish(c) \/ HangUp(c)
    <3>1. work' \in [Calls -> {"none", "running", "orphan"}]
      BY <2>2 DEF Finish, HangUp, Abandoned, CallInv
    <3>2. call' = [call EXCEPT ![c] = [NoCall EXCEPT !.at = "ended"]]
      BY <2>2 DEF Finish, HangUp
    <3> QED BY <1>0, <3>1, <3>2, OneCall, Plain0
  <2>3. CASE Refuse(c) \/ TimeOut(c) \/ Answer(c)
    <3>1. work' \in [Calls -> {"none", "running", "orphan"}]
      BY <2>3 DEF Refuse, TimeOut, Answer, Abandoned, CallInv
    <3>2. call' = [call EXCEPT ![c] = Replying]
      BY <2>3 DEF Refuse, TimeOut, Answer
    <3> QED BY <1>0, <3>1, <3>2, OneCall, Plain0
  <2>4. CASE Forward(c)
    <3>1. work' \in [Calls -> {"none", "running", "orphan"}]
      BY <2>4 DEF Forward, CallInv
    <3>2. CASE call' = [call EXCEPT ![c] = Replying]
      BY <1>0, <3>1, <3>2, OneCall, Plain0
    <3>3. CASE call' # [call EXCEPT ![c] = Replying]
      <4> DEFINE r == [call[c] EXCEPT !.at = "waiting", !.kind = "none",
                                      !.timer = RequestTimeout, !.early = ~Is("mcp", "draining")]
      <4>1. call' = [call EXCEPT ![c] = r]
        BY <2>4, <3>3 DEF Forward
      <4>2. RequestTimeout \in 0..RequestTimeout /\ Is("mcp", "draining") \in BOOLEAN
        BY TimeoutAssumption, SMT DEF Is
      <4>3. r \in CallSet /\ InTime(r, proc["mcp"])
        BY <2>0, <4>2 DEF CallSet, InTime, Is
      <4> HIDE DEF r
      <4> QED BY <1>0, <3>1, <4>1, <4>3, OneCall
    <3> QED BY <3>2, <3>3
  <2>5. CASE OrphanEnds(c)
    BY <1>0, <2>5 DEF OrphanEnds, CallInv
  <2> QED BY <1>1, <2>1, <2>2, <2>3, <2>4, <2>5 DEF Client, Gateway
<1>2. CASE Healthcheck \/ \E l \in CommandLines : Probe(l)
  BY <1>0, <1>2, NoCallChanges DEF Healthcheck, Probe, CheckGateway, CheckVaultForGateway,
     CheckVault, ProbeTimesOut
<1> QED BY <1>1, <1>2 DEF Others

LEMMA CallNext == ProcInv /\ CallInv /\ [Next]_vars => CallInv'
<1> SUFFICES ASSUME ProcInv, CallInv, [Next]_vars PROVE CallInv'
  OBVIOUS
<1>1. ASSUME NEW p \in Binaries, Process(p) \/ Operator(p) PROVE CallInv'
  BY <1>1, CallProcStep
<1>2. CASE Tick
  BY <1>2, CallTick
<1>3. CASE Others
  BY <1>3, CallOthers
<1>4. CASE UNCHANGED vars
  BY <1>4, NoCallChanges DEF vars
<1> QED BY <1>1, <1>2, <1>3, <1>4 DEF Next, Step, Others

\* A call that was forwarded in time is not cut off by the end of the grace
\* period, when the request timeout is below it.
THEOREM ForwardedCallsFinish == Spec => []ForwardedInTimeIsNotCut
<1>1. CallInv => ForwardedInTimeIsNotCut
  BY DEF CallInv, InTime, ForwardedInTimeIsNotCut
<1> QED BY <1>1, ProcInit, CallInit, ProcNext, CallNext, PTL DEF Spec

----------------------------------------------------------------------------
(* The healthcheck.                                                        *)

Form(r) == r = [at |-> r.at, target |-> r.target, path |-> r.path, help |-> r.help,
                status |-> r.status, timer |-> r.timer, exit |-> r.exit]

\* What is true of the run of the command itself, and of whom it waits for.
ProbeInv ==
  /\ Form(probe)
  /\ probe.at \in {"none", "sent", "asking", "exited"}
  /\ probe.status \in Statuses \cup {Unanswered}
  /\ probe.timer \in Nat
  /\ probe.exit \in {0, 1}
  /\ probe.at \in {"none", "sent", "asking"} => probe.exit = 0
  /\ probe.at \in {"sent", "asking"} => /\ probe.target \in Binaries
                                        /\ proc[probe.target].bound \in {"yes", "closed"}
                                        /\ Running(probe.target)
  /\ probe.at = "asking" => probe.target = "mcp" /\ probe.path = "/health/ready"

\* Whom a run that succeeded vouches for.
Vouched(r) == IF r.path = "/health/ready" THEN Binaries ELSE {r.target}
Succeeded(r) == r.at = "exited" /\ r.exit = 0 /\ ~r.help

\* Whoever has served while the run waits has been seen.
SeenInv ==
  /\ seen \subseteq Binaries
  /\ ProbePending => \A p \in Binaries : Serves(p) => p \in seen
  /\ probe.at = "asking" => "mcp" \in seen
  /\ Succeeded(probe) => Vouched(probe) \subseteq seen

LEMMA ProbeInit == Init => ProbeInv /\ SeenInv
BY DEF Init, ProbeInv, SeenInv, NoProbe, Form, Statuses, Unanswered, ProbePending, Succeeded

\* A status of zero or not.
LEMMA ProbeEnds ==
  ASSUME ProbeInv, probe.at # "exited", NEW outcome,
         probe' = ProbeExited(ExitStatus(outcome))
  PROVE  /\ ProbeInv' /\ probe'.at = "exited"
         /\ IF outcome \in {"ok", "help"}
            THEN /\ probe'.exit = 0 /\ probe'.path = probe.path
                 /\ probe'.target = probe.target /\ probe'.help = probe.help
            ELSE probe'.exit = 1
<1>1. CASE outcome \in {"ok", "help"}
  <2>1. probe' = [probe EXCEPT !.at = "exited", !.status = "unknown", !.timer = 0]
    BY <1>1 DEF ProbeExited, ExitStatus
  <2>2. /\ Form(probe)' /\ probe'.at = "exited" /\ probe'.status = "unknown"
        /\ probe'.timer = 0 /\ probe'.exit = probe.exit /\ probe'.path = probe.path
        /\ probe'.target = probe.target /\ probe'.help = probe.help
    BY <2>1 DEF ProbeInv, Form
  <2>3. probe'.exit = 0
    BY <2>2 DEF ProbeInv
  <2> QED BY <1>1, <2>2, <2>3 DEF ProbeInv, Statuses
<1>2. CASE outcome \notin {"ok", "help"}
  <2>1. probe' = [NoProbe EXCEPT !.at = "exited", !.exit = 1]
    BY <1>2 DEF ProbeExited, ExitStatus
  <2>2. /\ Form(probe)' /\ probe'.at = "exited" /\ probe'.status = "unknown"
        /\ probe'.timer = 0 /\ probe'.exit = 1
    BY <2>1 DEF NoProbe, Form
  <2> QED BY <1>2, <2>2 DEF ProbeInv, Statuses
<1> QED BY <1>1, <1>2

\* What a step owes the history.
Promise == /\ probe'.at = "asking" => "mcp" \in seen
           /\ Succeeded(probe') => Vouched(probe') \subseteq seen

LEMMA Seeing ==
  ASSUME SeenInv, Witness, Promise
  PROVE  SeenInv'
<1>1. CASE probe'.at \in {"sent", "asking"}
  <2>1. seen' = seen \cup {p \in Binaries : Serves(p)'}
    BY <1>1 DEF Witness
  <2> QED BY <1>1, <2>1 DEF SeenInv, Promise, Succeeded, ProbePending
<1>2. CASE probe'.at \notin {"sent", "asking"}
  <2>1. seen' = IF probe'.exit = 0 THEN seen ELSE {}
    BY <1>2 DEF Witness
  <2> QED BY <1>2, <2>1 DEF SeenInv, Promise, Succeeded, Vouched, ProbePending
<1> QED BY <1>1, <1>2

LEMMA SameProbe ==
  ASSUME ProbeInv, SeenInv, probe' = probe,
         ProbePending => /\ proc'[probe.target].bound \in {"yes", "closed"}
                         /\ Running(probe.target)'
  PROVE  ProbeInv' /\ Promise
<1>1. ProbeInv'
  BY DEF ProbeInv, Form, ProbePending, Running
<1>2. Promise
  BY DEF SeenInv, Promise, Succeeded, Vouched
<1> QED BY <1>1, <1>2

\* A step of a process ends it, or leaves whoever listens or has listened as
\* they are.
LEMMA KeepsOrExits ==
  ASSUME ProcInv, NEW p \in Binaries, Process(p) \/ Operator(p)
  PROVE  \/ \E why \in Ends : Exit(p, why)
         \/ /\ probe' = probe
            /\ \A q \in Binaries : Running(q) /\ proc[q].bound \in {"yes", "closed"}
                 => Running(q)' /\ proc'[q].bound \in {"yes", "closed"}
<1>0. proc \in [Binaries -> Procs]
  BY DEF ProcInv
<1> USE <1>0 DEF Procs, Running, Is
<1>1. ASSUME NEW s \in ServeSettings[p], Configure(p, s), ServeSettingsAccepted(p, s)
      PROVE  /\ probe' = probe
             /\ \A q \in Binaries : Running(q) /\ proc[q].bound \in {"yes", "closed"}
                  => Running(q)' /\ proc'[q].bound \in {"yes", "closed"}
  BY <1>1 DEF Configure
<1>2. ASSUME NEW s \in ServeSettings[p], Configure(p, s), ~ServeSettingsAccepted(p, s)
      PROVE  Exit(p, "refused")
  BY <1>2 DEF Configure
<1>3. CASE p = "vault" /\ Load
  BY <1>3 DEF Load
<1>4. CASE Bind(p)
  <2>1. PICK bound \in {"yes", "failed"} : proc' = [proc EXCEPT ![p].bound = bound]
    BY <1>4 DEF Bind
  <2> QED BY <1>4, <2>1 DEF Bind
<1>5. CASE Withdraw(p)
  BY <1>5 DEF Withdraw
<1>6. CASE Shutdown(p)
  BY <1>6 DEF Shutdown
<1>7. CASE Start(p)
  BY <1>7 DEF Start
<1>8. CASE Signal(p)
  BY <1>8 DEF Signal, Ends
<1>9. CASE Restart(p)
  BY <1>9 DEF Restart
<1>10. CASE (p = "vault" /\ LoadFails) \/ ServeFails(p) \/ Drained(p) \/ GraceEnds(p) \/ Crash(p)
  BY <1>10 DEF LoadFails, ServeFails, Drained, GraceEnds, Crash, Ends
<1>11. "refused" \in Ends
  BY DEF Ends
<1> QED BY <1>1, <1>2, <1>3, <1>4, <1>5, <1>6, <1>7, <1>8, <1>9, <1>10, <1>11
        DEF Process, Operator

LEMMA ExitProbe ==
  ASSUME ProcInv, ProbeInv, SeenInv, NEW p \in Binaries, NEW why, Exit(p, why)
  PROVE  ProbeInv' /\ Promise
<1>1. CASE (p = "mcp" /\ ProbesGateway) \/ (p = "vault" /\ ProbesVault)
  <2>1. probe' = ProbeExited(ExitStatus("failed"))
    BY <1>1 DEF Exit
  <2>2. probe.at # "exited"
    BY <1>1 DEF ProbesGateway, ProbesVault
  <2>3. ProbeInv' /\ probe'.at = "exited" /\ probe'.exit = 1
    BY <2>1, <2>2, ProbeEnds
  <2> QED BY <2>3 DEF Promise, Succeeded
<1>2. CASE ~((p = "mcp" /\ ProbesGateway) \/ (p = "vault" /\ ProbesVault))
  <2>1. probe' = probe
    BY <1>2 DEF Exit
  <2>2. ProbePending => probe.target # p
    BY <1>2 DEF ProbePending, ProbesGateway, ProbesVault, ProbeInv, Binaries
  <2>3. \A q \in Binaries : q # p => proc'[q] = proc[q]
    BY DEF Exit, ProcInv
  <2>4. ProbePending => /\ proc'[probe.target].bound \in {"yes", "closed"}
                        /\ Running(probe.target)'
    BY <2>1, <2>2, <2>3 DEF ProbeInv, ProbePending, Running
  <2> QED BY <2>1, <2>4, SameProbe
<1> QED BY <1>1, <1>2

LEMMA ProbeProcStep ==
  ASSUME ProcInv, ProbeInv, SeenInv, NEW p \in Binaries, Process(p) \/ Operator(p)
  PROVE  ProbeInv' /\ Promise
<1>1. ASSUME NEW why \in Ends, Exit(p, why) PROVE ProbeInv' /\ Promise
  BY <1>1, ExitProbe
<1>2. ASSUME probe' = probe,
             \A q \in Binaries : Running(q) /\ proc[q].bound \in {"yes", "closed"}
               => Running(q)' /\ proc'[q].bound \in {"yes", "closed"}
      PROVE  ProbeInv' /\ Promise
  <2>1. ProbePending => /\ proc'[probe.target].bound \in {"yes", "closed"}
                        /\ Running(probe.target)'
    BY <1>2 DEF ProbeInv, ProbePending
  <2> QED BY <1>2, <2>1, SameProbe
<1> QED BY <1>1, <1>2, KeepsOrExits

LEMMA ProbeTick ==
  ASSUME ProcInv, ProbeInv, SeenInv, Tick
  PROVE  ProbeInv' /\ Promise
<1>1. \A q \in Binaries : proc'[q].at = proc[q].at /\ proc'[q].bound = proc[q].bound
  BY DEF Tick, ProcInv, Procs
<1>2. CASE ProbePending
  <2>1. probe.timer # 0
    BY <1>2 DEF Tick, Timed
  <2>2. probe.timer - 1 \in Nat
    BY <2>1, SMT DEF ProbeInv
  <2>3. probe' = [probe EXCEPT !.timer = probe.timer - 1]
    BY <1>2 DEF Tick
  <2>4. /\ Form(probe)' /\ probe'.at = probe.at /\ probe'.target = probe.target
        /\ probe'.path = probe.path /\ probe'.status = probe.status
        /\ probe'.exit = probe.exit /\ probe'.timer \in Nat
    BY <2>2, <2>3 DEF ProbeInv, Form
  <2>5. ProbeInv'
    BY <1>1, <2>4 DEF ProbeInv, Running, Is
  <2> QED BY <1>2, <2>4, <2>5 DEF Promise, Succeeded, SeenInv, ProbePending
<1>3. CASE ~ProbePending
  BY <1>3, SameProbe DEF Tick
<1> QED BY <1>2, <1>3

----------------------------------------------------------------------------
(* Answers.                                                                *)

\* A target that says it serves has been seen.
LEMMA ServingIsSeen ==
  ASSUME ProcInv, SeenInv, ProbePending, NEW p \in Binaries,
         proc[p].bound \in {"yes", "closed"}, proc[p].status = "serving"
  PROVE  p \in seen
<1>1. proc[p].at = "selecting" /\ proc[p].bound = "yes"
  BY DEF ProcInv, Sound
<1>2. Serves(p)
  BY <1>1 DEF Serves, Listening, Running, Is
<1> QED BY <1>2 DEF SeenInv

\* Only "serving" passes for healthy, on either way a status travels.
LEMMA HealthyOnly ==
  ASSUME NEW status, Healthy(status)
  PROVE  status = "serving"
BY DEF Healthy, Resolve, Known, Unanswered

LEMMA HealthyResolved ==
  ASSUME NEW one, NEW other, Healthy(FromHTTP(HTTPAnswer(Resolve(one, other))))
  PROVE  one = "serving" /\ other = "serving"
<1>1. FromHTTP(HTTPAnswer(Resolve(one, other))) = "serving"
  BY HealthyOnly
<1>2. Resolve(one, other) = "serving"
  BY <1>1 DEF FromHTTP, HTTPAnswer, Unanswered, Statuses
<1>3. {one, other} = {"serving"}
  BY <1>2 DEF Resolve
<1> QED BY <1>3

LEMMA NobodyHealthy == ~Healthy(FromHTTP(NotFound)) /\ ~Healthy(Unanswered)
<1>1. FromHTTP(NotFound) = Unanswered
  BY DEF FromHTTP, NotFound, Statuses
<1>2. ~Healthy(Unanswered)
  BY HealthyOnly DEF Unanswered
<1> QED BY <1>1, <1>2

\* A run that concludes keeps its promise when a healthy answer is vouched for.
LEMMA Concluded ==
  ASSUME ProbeInv, SeenInv, ProbePending, NEW status, Conclude(status),
         Healthy(status) => Vouched(probe) \subseteq seen
  PROVE  ProbeInv' /\ Promise
<1> DEFINE outcome == IF Healthy(status) THEN "ok" ELSE "failed"
<1>1. probe' = ProbeExited(ExitStatus(outcome)) /\ probe.at # "exited"
  BY DEF Conclude, ProbePending
<1>2. /\ ProbeInv' /\ probe'.at = "exited"
      /\ IF outcome \in {"ok", "help"}
         THEN /\ probe'.exit = 0 /\ probe'.path = probe.path
              /\ probe'.target = probe.target /\ probe'.help = probe.help
         ELSE probe'.exit = 1
  BY <1>1, ProbeEnds
<1> QED BY <1>2 DEF Promise, Succeeded, Vouched

LEMMA GatewayAnswers ==
  ASSUME ProcInv, ProbeInv, SeenInv, CheckGateway
  PROVE  ProbeInv' /\ Promise
<1> DEFINE status == proc["mcp"].status
<1>1. /\ ProbePending /\ probe.target = "mcp" /\ "mcp" \in Binaries /\ proc' = proc
      /\ proc["mcp"].bound \in {"yes", "closed"} /\ Running("mcp") /\ probe.exit = 0
      /\ status \in {"serving", "not_serving"}
  BY DEF CheckGateway, ProbePending, ProbeInv, Binaries, ProcInv, Procs
<1>2. status = "serving" => "mcp" \in seen
  BY <1>1, ServingIsSeen
<1>3. CASE probe.path = "/health/ready" /\ Undecided(status)
  <2>1. probe' = [probe EXCEPT !.at = "asking", !.status = status]
    BY <1>3 DEF CheckGateway
  <2>2. /\ Form(probe)' /\ probe'.at = "asking" /\ probe'.status = status
        /\ probe'.target = "mcp" /\ probe'.path = "/health/ready"
        /\ probe'.timer = probe.timer /\ probe'.exit = probe.exit
    BY <1>1, <1>3, <2>1 DEF ProbeInv, Form
  <2>3. ProbeInv'
    BY <1>1, <2>2 DEF ProbeInv, Statuses, Running, Is
  <2>4. status = "serving"
    BY <1>1, <1>3 DEF Undecided
  <2> QED BY <1>2, <2>2, <2>3, <2>4 DEF Promise, Succeeded
<1>4. CASE probe.path = "/health/live"
             \/ (probe.path = "/health/ready" /\ ~Undecided(status))
  <2>1. Conclude(FromHTTP(HTTPAnswer(Resolve("serving", status))))
    BY <1>4 DEF CheckGateway, Undecided
  <2>2. Healthy(FromHTTP(HTTPAnswer(Resolve("serving", status)))) => status = "serving"
    BY HealthyResolved
  <2>3. status = "serving" => Vouched(probe) \subseteq seen
    BY <1>1, <1>2, <1>4 DEF Undecided, Vouched
  <2> QED BY <1>1, <2>1, <2>2, <2>3, Concluded
<1>5. CASE /\ ~(probe.path = "/health/ready" /\ Undecided(status))
           /\ probe.path # "/health/live"
           /\ ~(probe.path = "/health/ready" /\ ~Undecided(status))
  <2>1. Conclude(FromHTTP(NotFound))
    BY <1>5 DEF CheckGateway
  <2> QED BY <1>1, <2>1, NobodyHealthy, Concluded
<1> QED BY <1>3, <1>4, <1>5

LEMMA VaultAnswersGateway ==
  ASSUME ProcInv, ProbeInv, SeenInv, CheckVaultForGateway
  PROVE  ProbeInv' /\ Promise
<1>1. /\ ProbePending /\ probe.at = "asking" /\ "mcp" \in seen
      /\ probe.path = "/health/ready" /\ "vault" \in Binaries
  BY DEF CheckVaultForGateway, ProbePending, ProbeInv, SeenInv, Binaries
<1>2. PICK status \in VaultStatuses :
        Conclude(FromHTTP(HTTPAnswer(Resolve(probe.status, Known(status)))))
  BY DEF CheckVaultForGateway
<1>3. ASSUME Known(status) = "serving" PROVE Vouched(probe) \subseteq seen
  <2>1. status = "serving"
    BY <1>3 DEF Known
  <2>2. Listening("vault") /\ FromGRPC(proc["vault"].status) = "serving"
    BY <2>1 DEF VaultStatuses, Unanswered
  <2>3. proc["vault"].status = "serving" /\ proc["vault"].bound = "yes"
    BY <2>2 DEF FromGRPC, Unanswered, Listening
  <2>4. "vault" \in seen
    BY <1>1, <2>3, ServingIsSeen
  <2> QED BY <1>1, <2>4 DEF Vouched, Binaries
<1>4. Healthy(FromHTTP(HTTPAnswer(Resolve(probe.status, Known(status)))))
        => Known(status) = "serving"
  BY HealthyResolved
<1> QED BY <1>1, <1>2, <1>3, <1>4, Concluded

LEMMA VaultAnswers ==
  ASSUME ProcInv, ProbeInv, SeenInv, CheckVault
  PROVE  ProbeInv' /\ Promise
<1>1. /\ ProbePending /\ probe.target = "vault" /\ "vault" \in Binaries
      /\ proc["vault"].bound \in {"yes", "closed"}
  BY DEF CheckVault, ProbePending, ProbeInv, Binaries
<1>2. CASE probe.path = "grpc"
  <2>1. Conclude(FromGRPC(proc["vault"].status))
    BY <1>2 DEF CheckVault
  <2>2. ASSUME Healthy(FromGRPC(proc["vault"].status)) PROVE Vouched(probe) \subseteq seen
    <3>1. proc["vault"].status = "serving"
      BY <2>2, HealthyOnly DEF FromGRPC, Unanswered
    <3>2. "vault" \in seen
      BY <1>1, <3>1, ServingIsSeen
    <3> QED BY <1>1, <1>2, <3>2 DEF Vouched
  <2> QED BY <1>1, <2>1, <2>2, Concluded
<1>3. CASE probe.path # "grpc"
  <2>1. Conclude(FromHTTP(NotFound))
    BY <1>3 DEF CheckVault
  <2> QED BY <1>1, <2>1, NobodyHealthy, Concluded
<1> QED BY <1>2, <1>3

LEMMA NoAnswer ==
  ASSUME ProbeInv, SeenInv, ProbeTimesOut
  PROVE  ProbeInv' /\ Promise
<1>1. ProbePending /\ Conclude(Unanswered)
  BY DEF ProbeTimesOut, ProbePending
<1> QED BY <1>1, NobodyHealthy, Concluded

LEMMA ProbeStarts ==
  ASSUME ProcInv, ProbeInv, SeenInv, NEW l \in CommandLines, Probe(l)
  PROVE  ProbeInv' /\ Promise
<1> DEFINE settings == IF Dispatch(l) = "run" THEN HealthcheckSettings(l) ELSE Dispatch(l)
           url == HealthcheckURL(l)
           help == Command(l) = "help" \/ l.flags.help
<1>1. probe.at = "none" /\ probe.exit = 0 /\ proc' = proc
  BY DEF Probe, ProbeInv
<1>2. CASE settings # "accepted"
  <2> DEFINE r == ProbeExited(ExitStatus(settings))
  <2>1. probe' = [r EXCEPT !.help = help]
    BY <1>2 DEF Probe
  <2>2. /\ Form(r) /\ r.at = "exited" /\ r.status = "unknown" /\ r.timer = 0
        /\ r.exit \in {0, 1} /\ (r.exit = 0 => settings \in {"ok", "help"})
    <3>1. CASE settings \in {"ok", "help"}
      <4>1. r = [probe EXCEPT !.at = "exited", !.status = "unknown", !.timer = 0]
        BY <3>1 DEF ProbeExited, ExitStatus
      <4> HIDE DEF r
      <4> QED BY <1>1, <3>1, <4>1 DEF ProbeInv, Form
    <3>2. CASE settings \notin {"ok", "help"}
      <4>1. r = [NoProbe EXCEPT !.at = "exited", !.exit = 1]
        BY <3>2 DEF ProbeExited, ExitStatus
      <4> HIDE DEF r
      <4>2. /\ Form(r) /\ r.at = "exited" /\ r.status = "unknown" /\ r.timer = 0
            /\ r.exit = 1
        BY <4>1 DEF NoProbe, Form
      <4> QED BY <4>2
    <3> QED BY <3>1, <3>2
  <2> HIDE DEF r
  <2>3. /\ Form(probe)' /\ probe'.at = "exited" /\ probe'.status = "unknown"
        /\ probe'.timer = 0 /\ probe'.exit = r.exit /\ probe'.help = help
    BY <2>1, <2>2 DEF Form
  <2>4. ProbeInv'
    BY <2>2, <2>3 DEF ProbeInv, Statuses
  <2>5. settings \in {"ok", "help"} => help
    BY DEF Dispatch, HealthcheckSettings
  <2> QED BY <2>2, <2>3, <2>4, <2>5 DEF Promise, Succeeded
<1>3. CASE settings = "accepted" /\ ~Listening(url.host)
  <2>1. probe' = ProbeExited(ExitStatus("failed"))
    BY <1>3 DEF Probe
  <2>2. ProbeInv' /\ probe'.at = "exited" /\ probe'.exit = 1
    BY <1>1, <2>1, ProbeEnds
  <2> QED BY <2>2 DEF Promise, Succeeded
<1>4. CASE settings = "accepted" /\ Listening(url.host)
  <2>1. probe' = [probe EXCEPT !.at = "sent", !.target = url.host,
                               !.path = IF l.binary = "vault" THEN "grpc" ELSE url.path,
                               !.timer = HealthcheckTimeout(l)]
    BY <1>4 DEF Probe
  <2>2. HealthcheckAccepted(l)
    BY <1>4 DEF Dispatch, HealthcheckSettings
  <2>3. url.host \in Binaries /\ HealthcheckTimeout(l) \in Nat
    <3>1. url.host # "" /\ HealthcheckTimeout(l) > 0
      BY <2>2 DEF HealthcheckAccepted, URLAccepted, BaseURL, Acceptable
    <3>2. url.host \in Binaries \cup {""} /\ HealthcheckTimeout(l) \in Int
      BY CommandLineAssumption
    <3> HIDE DEF url
    <3>3. \A t \in Int : t > 0 => t \in Nat
      BY SMT
    <3> QED BY <3>1, <3>2, <3>3
  <2>4. Running(url.host) /\ proc[url.host].bound = "yes"
    BY <1>4 DEF Listening
  <2>5. /\ Form(probe)' /\ probe'.at = "sent" /\ probe'.target = url.host
        /\ probe'.timer = HealthcheckTimeout(l) /\ probe'.exit = 0
        /\ probe'.status = probe.status
    BY <1>1, <2>1 DEF ProbeInv, Form
  <2> HIDE DEF url
  <2>6. ProbeInv'
    BY <1>1, <2>3, <2>4, <2>5 DEF ProbeInv, Running, Is
  <2> QED BY <2>5, <2>6 DEF Promise, Succeeded
<1> QED BY <1>2, <1>3, <1>4

----------------------------------------------------------------------------
(* What follows of a healthcheck.                                          *)

LEMMA ProbeNext == ProcInv /\ ProbeInv /\ SeenInv /\ [Next]_vars => ProbeInv' /\ SeenInv'
<1> SUFFICES ASSUME ProcInv, ProbeInv, SeenInv, [Next]_vars PROVE ProbeInv' /\ SeenInv'
  OBVIOUS
<1>1. ASSUME Step PROVE ProbeInv' /\ Promise
  <2>1. ASSUME NEW p \in Binaries, Process(p) \/ Operator(p) PROVE ProbeInv' /\ Promise
    BY <2>1, ProbeProcStep
  <2>2. CASE \E c \in Calls : Client(c) \/ Gateway(c) \/ Answer(c) \/ OrphanEnds(c)
    <3>1. probe' = probe /\ proc' = proc
      BY <2>2 DEF Client, Gateway, Accept, Finish, HangUp, Refuse, Forward, TimeOut, Answer,
         OrphanEnds
    <3>2. ProbePending => /\ proc'[probe.target].bound \in {"yes", "closed"}
                          /\ Running(probe.target)'
      BY <3>1 DEF ProbeInv, ProbePending, Running
    <3> QED BY <3>1, <3>2, SameProbe
  <2>3. ASSUME NEW l \in CommandLines, Probe(l) PROVE ProbeInv' /\ Promise
    BY <2>3, ProbeStarts
  <2>4. CASE Healthcheck
    BY <2>4, GatewayAnswers, VaultAnswersGateway, VaultAnswers, NoAnswer DEF Healthcheck
  <2>5. CASE Tick
    BY <2>5, ProbeTick
  <2> QED BY <1>1, <2>1, <2>2, <2>3, <2>4, <2>5 DEF Step
<1>2. CASE Next
  BY <1>1, <1>2, Seeing DEF Next
<1>3. CASE UNCHANGED vars
  <2>1. UNCHANGED <<proc, probe, seen>>
    BY <1>3 DEF vars
  <2>2. ProbeInv'
    BY <2>1 DEF ProbeInv, Form, Running
  <2>3. SeenInv'
    BY <2>1 DEF SeenInv, ProbePending, Serves, Listening, Running, Is, Succeeded, Vouched
  <2> QED BY <2>2, <2>3
<1> QED BY <1>2, <1>3

\* A healthcheck that succeeds is true of whom it vouches for.
THEOREM SuccessIsTrue == Spec => []SuccessIsWitnessed
<1>1. SeenInv => SuccessIsWitnessed
  BY DEF SeenInv, Succeeded, Vouched, SuccessIsWitnessed
<1> QED BY <1>1, ProcInit, ProbeInit, ProcNext, ProbeNext, PTL DEF Spec

\* The vault service is not asked for a gateway that did not serve.
THEOREM StoppingShortCircuits == Spec => []ShutdownShortCircuits
<1>1. SeenInv => ShutdownShortCircuits
  BY DEF SeenInv, ShutdownShortCircuits
<1> QED BY <1>1, ProcInit, ProbeInit, ProcNext, ProbeNext, PTL DEF Spec

\* Types, and that a process that has ended says why and listens no more.
THEOREM TypeCorrect == Spec => []TypeOK
<1> DEFINE StartsInv == starts \in [Binaries -> Nat]
<1>1. Init => StartsInv
  BY DEF Init
<1>2. StartsInv /\ [Next]_vars => StartsInv'
  <2> SUFFICES ASSUME StartsInv, [Next]_vars PROVE StartsInv'
    OBVIOUS
  <2>1. ASSUME NEW p \in Binaries, Process(p) \/ Operator(p) PROVE StartsInv'
    BY <2>1 DEF Process, Operator, Configure, Load, LoadFails, Bind, ServeFails, Withdraw,
       Shutdown, Drained, GraceEnds, Start, Signal, Crash, Restart, Exit
  <2>2. CASE Tick
    BY <2>2 DEF Tick
  <2>3. CASE Others
    BY <2>3, ProcOthers
  <2>4. CASE UNCHANGED vars
    BY <2>4 DEF vars
  <2> QED BY <2>1, <2>2, <2>3, <2>4 DEF Next, Step, Others
<1>3. ProcInv /\ CallInv /\ ProbeInv /\ SeenInv /\ StartsInv => TypeOK
  <2> SUFFICES ASSUME ProcInv, CallInv, ProbeInv, SeenInv, StartsInv PROVE TypeOK
    OBVIOUS
  <2>1. proc \in [Binaries -> [at: Places, bound: {"no", "yes", "failed", "closed"},
                              status: Statuses, signalled: BOOLEAN, timer: 0..Grace, exit: Ends]]
    BY DEF ProcInv, Procs, Statuses
  <2>2. \A p \in Binaries : /\ Is(p, "exited") <=> proc[p].exit # "none"
                            /\ proc[p].exit # "none" => proc[p].bound = "closed"
                            /\ Listening(p) => proc[p].at \in {"selecting", "withdrawn"}
    BY DEF ProcInv, Sound, Is, Listening
  <2>3. ~Is("mcp", "init")
    BY DEF ProcInv, Sound, Is, Binaries
  <2> QED BY <2>1, <2>2, <2>3 DEF TypeOK, CallInv, CallSet, ProbeInv, SeenInv
<1> QED BY <1>1, <1>2, <1>3, ProcInit, CallInit, ProbeInit, ProcNext, CallNext, ProbeNext, PTL
        DEF Spec
=============================================================================
