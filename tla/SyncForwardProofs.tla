-------------------------- MODULE SyncForwardProofs --------------------------
(***************************************************************************)
(* The proof that the health file only goes forward: the file, the queued  *)
(* snapshots in their order and the reporter's state never fall back, and  *)
(* neither does what a step makes of them.                                 *)
(***************************************************************************)
EXTENDS SyncWorkerProofs

\* One snapshot is no step back from another.
Below(s, t) == Rank(s) <= Rank(t) /\ (s.complete => t.complete)

\* The file, the writes in their order, the state of the reporter.
Rising(q, m, f) ==
  /\ Below(f, m)
  /\ \A i \in 1..Len(q) : Below(f, q[i].state) /\ Below(q[i].state, m)
  /\ \A i \in 1..Len(q), j \in 1..Len(q) : i <= j => Below(q[i].state, q[j].state)

\* Nothing happens to a worker that ended before it had a reporter, and phases
\* go with the places of runWorker.
Quiet ==
  /\ main \in {"boot", "start"} \/ Silent => child = NoChild
  /\ Silent \/ poisoned => queue = <<>>
  /\ main = "boot" => ~poisoned
  /\ main \in {"catch", "stop"} => mem.phase \in {"failed", "shutting-down"}
  /\ mem.phase = "failed" => main \in {"catch", "stop", "settled", "exited"}
  /\ mem.phase = "shutting-down" => shutdown # "no"

Ahead == main \notin {"boot", "exited"} /\ ~poisoned /\ ~Silent => Rising(queue, mem, file)

Forward == IInv /\ Quiet /\ Ahead

----------------------------------------------------------------------------
(* The order.                                                              *)

LEMMA Ranks ==
  /\ \A s : Rank(s) \in 0..5
  /\ \A s, t : s.phase = t.phase => Rank(s) = Rank(t)
  /\ \A s : s.phase = "initializing" => Rank(s) = 1
  /\ \A s : s.phase = "initial-sync" => Rank(s) = 2
  /\ \A s : s.phase = "continuous-sync" => Rank(s) = 3
  /\ \A s : s.phase = "failed" => Rank(s) = 4
  /\ \A s : s.phase = "shutting-down" => Rank(s) = 5
BY SMT DEF Rank

LEMMA BelowIsOrder ==
  /\ \A s : Below(s, s)
  /\ \A s, t, u : Below(s, t) /\ Below(t, u) => Below(s, u)
<1>1. \A s : Rank(s) \in Nat
  BY Ranks, SMT
<1> QED BY <1>1, SMT DEF Below

\* The phases in their order.
LEMMA BelowBy ==
  ASSUME NEW s \in States, NEW t \in States, s.complete => t.complete,
         \/ s.phase = t.phase
         \/ t.phase = "shutting-down"
         \/ t.phase = "failed" /\ s.phase # "shutting-down"
         \/ t.phase = "continuous-sync" /\ s.phase \notin {"failed", "shutting-down"}
         \/ t.phase = "initial-sync" /\ s.phase \in {"initializing", "initial-sync"}
  PROVE  Below(s, t)
<1>1. s.phase \in Phases
  BY DEF States
<1>2. Rank(s) <= Rank(t)
  BY <1>1, Ranks, SMT DEF Phases
<1> QED BY <1>2 DEF Below

\* A snapshot joins the queue.
LEMMA EnqueueRises ==
  ASSUME NEW q \in Seq(Writes), NEW m, NEW f, Rising(q, m, f), NEW n \in States, Below(m, n),
         NEW waiters \in SUBSET {"main", "spawn", "shutdown"}
  PROVE  Rising(Enqueue(q, n, waiters), n, f)
<1> DEFINE r == Enqueue(q, n, waiters)
<1>1. /\ r \in Seq(Writes) /\ Len(r) = Len(q) + 1 /\ Len(q) \in Nat /\ r # <<>>
      /\ \A i \in 1..Len(q) : r[i] = q[i]
      /\ r[Len(r)] = [state |-> n, waiters |-> waiters]
      /\ \A i \in 1..Len(r) : i \in 1..Len(q) \/ i = Len(r)
  BY Enqueued
<1> HIDE DEF r
<1>2. r[Len(r)].state = n
  BY <1>1
<1>3. \A i \in 1..Len(q), j \in {Len(r)} : ~(j <= i)
  BY <1>1, SMT
<1>4. \A i \in 1..Len(r) : Below(f, r[i].state) /\ Below(r[i].state, n)
  BY <1>1, <1>2, BelowIsOrder DEF Rising
<1>5. ASSUME NEW i \in 1..Len(r), NEW j \in 1..Len(r), i <= j
      PROVE  Below(r[i].state, r[j].state)
  <2>1. CASE j = Len(r)
    BY <1>2, <1>4, <2>1
  <2>2. CASE j # Len(r)
    BY <1>1, <1>3, <1>5, <2>2 DEF Rising
  <2> QED BY <2>1, <2>2
<1> QED BY <1>4, <1>5, BelowIsOrder DEF Rising, r

\* The oldest write lands.
LEMMA LandRises ==
  ASSUME NEW q \in Seq(Writes), NEW m, NEW f, Rising(q, m, f), q # <<>>
  PROVE  Rising(Tail(q), m, Head(q).state) /\ Below(f, Head(q).state)
<1> DEFINE r == Tail(q)
<1>1. /\ Len(q) \in Nat /\ 1 \in 1..Len(q) /\ Head(q) = q[1]
      /\ Len(r) = Len(q) - 1
      /\ \A i \in 1..Len(r) : r[i] = q[i + 1]
  BY SMT
<1> HIDE DEF r
<1>2. /\ \A i \in 1..Len(r) : i + 1 \in 1..Len(q) /\ 1 <= i + 1
      /\ \A i \in 1..Len(r), j \in 1..Len(r) : i <= j => i + 1 <= j + 1
  BY <1>1, SMT
<1>3. \A i \in 1..Len(r) : Below(q[1].state, r[i].state) /\ Below(r[i].state, m)
  BY <1>1, <1>2 DEF Rising
<1>4. \A i \in 1..Len(r), j \in 1..Len(r) : i <= j => Below(r[i].state, r[j].state)
  BY <1>1, <1>2 DEF Rising
<1> QED BY <1>1, <1>3, <1>4 DEF Rising, r

\* Somebody awaits the last write.
LEMMA AwaitRises ==
  ASSUME NEW q \in Seq(Writes), NEW m, NEW f, Rising(q, m, f), q # <<>>
  PROVE  Rising([q EXCEPT ![Len(q)].waiters = @ \cup {"main"}], m, f)
<1> DEFINE n == Len(q)
           last == [q[n] EXCEPT !.waiters = @ \cup {"main"}]
           r == [q EXCEPT ![n] = last]
<1>1. n \in Nat /\ n \in 1..n /\ q[n] \in Writes
  BY SMT
<1>2. last \in Writes /\ last.state = q[n].state
  BY <1>1 DEF Writes
<1> HIDE DEF last
<1>3. Len(r) = n /\ \A i \in 1..n : r[i] = IF i = n THEN last ELSE q[i]
  BY <1>1, <1>2
<1> HIDE DEF r
<1>4. \A i \in 1..n : r[i].state = q[i].state
  BY <1>2, <1>3
<1> QED BY <1>3, <1>4 DEF Rising, r, last

----------------------------------------------------------------------------
(* What runWorker does between two awaits.                                 *)

\* What a macrotask finds, beside what SyncWorkerProofs says of it.
Climbs(q, m) == /\ q \in Seq(Writes) /\ m \in States
                /\ ~poisoned => Rising(q, m, file')
                /\ poisoned => q = <<>>
                /\ shutdown # "no" <=> m.phase = "shutting-down"
                /\ poisoned' = poisoned

\* What it leaves when it takes runWorker to its end.
Landed == /\ ~poisoned' => Rising(queue', mem', file')
          /\ poisoned' => queue' = <<>>
          /\ mem'.phase \in {"failed", "shutting-down"}
          /\ mem'.phase = "shutting-down" => shutdown' # "no"
          /\ main' \in {"stop", "settled", "catch"}

LEMMA FinishRises ==
  ASSUME NEW q, NEW m, Climbs(q, m), NEW why, Finish(why, q, m),
         m.phase \in {"failed", "shutting-down"}
  PROVE  Landed
<1>1. mem' = m /\ main' \in {"stop", "settled"}
      /\ shutdown' = IF shutdown = "armed" THEN "cleared" ELSE shutdown
  BY DEF Finish
<1>2. CASE q = <<>>
  <2>1. queue' = q
    BY <1>2 DEF Finish
  <2> QED BY <1>1, <2>1 DEF Climbs, Landed
<1>3. CASE q # <<>>
  <2>1. queue' = [q EXCEPT ![Len(q)].waiters = @ \cup {"main"}] /\ ~poisoned
    BY <1>3 DEF Finish, Climbs
  <2>2. Rising(queue', m, file')
    BY <1>3, <2>1, AwaitRises DEF Climbs
  <2> QED BY <1>1, <2>1, <2>2 DEF Climbs, Landed
<1> QED BY <1>2, <1>3

LEMMA ThrowRises ==
  ASSUME NEW q, NEW m, Climbs(q, m), NEW why, Throw(why, q, m)
  PROVE  Landed
<1> DEFINE failed == [m EXCEPT !.phase = "failed", !.child = "null"]
<1>1. failed \in States /\ failed.phase = "failed" /\ failed.complete = m.complete
  BY DEF Climbs, States, Phases
<1> HIDE DEF failed
<1>2. m.phase # "shutting-down" => Below(m, failed)
  <2>1. m \in States
    BY DEF Climbs
  <2> QED BY <1>1, <2>1, BelowBy
<1>3. CASE ShuttingDown
  <2>1. Finish(why, q, m) /\ m.phase = "shutting-down"
    BY <1>3 DEF Throw, ShuttingDown, Climbs
  <2> QED BY <2>1, FinishRises
<1>4. CASE ~ShuttingDown /\ poisoned
  <2>1. Finish(why, q, failed)
    BY <1>4 DEF Throw, failed
  <2>2. Climbs(q, failed)
    BY <1>1, <1>4 DEF Climbs, ShuttingDown
  <2> QED BY <1>1, <2>1, <2>2, FinishRises
<1>5. CASE ~ShuttingDown /\ ~poisoned
  <2>1. /\ main' = "catch" /\ mem' = failed /\ queue' = Enqueue(q, failed, {"main"})
    BY <1>5 DEF Throw, failed
  <2>2. {"main"} \in SUBSET {"main", "spawn", "shutdown"}
    OBVIOUS
  <2>3. Rising(queue', mem', file')
    BY <1>1, <1>2, <1>5, <2>1, <2>2, EnqueueRises DEF Climbs, ShuttingDown
  <2> QED BY <1>1, <1>5, <2>1, <2>3 DEF Climbs, Landed
<1> QED BY <1>3, <1>4, <1>5

\* After that the invariant holds again.
LEMMA LandedHolds ==
  ASSUME Landed
  PROVE  Quiet' /\ Ahead'
<1>1. ~Silent'
  BY DEF Landed, Silent
<1>2. Quiet'
  BY <1>1 DEF Landed, Quiet
<1>3. Ahead'
  BY DEF Landed, Ahead, Rising, Below, Rank
<1> QED BY <1>2, <1>3

\* After a spawn, or an attempt at one.
LEMMA RunRises ==
  ASSUME NEW q, NEW m, Climbs(q, m), m.phase # "failed",
         NEW at \in {"status", "setup", "initial"}, Run(at, q, m)
  PROVE  Quiet' /\ Ahead'
<1> DEFINE command == AwaitsRun[at]
           spawned == [m EXCEPT !.child = command]
<1>1. at \in Awaiting /\ command \in Commands /\ at \notin {"boot", "start", "settled", "catch", "stop"}
  BY AwaitingIs
<1>0. m \in States /\ spawned \in States /\ spawned.phase = m.phase /\ spawned.complete = m.complete
  BY <1>1 DEF Climbs, States
<1> HIDE DEF command, spawned
<1>2. spawned \in States /\ spawned.phase = m.phase /\ Below(m, spawned)
  BY <1>0, BelowBy
<1>3. CASE Landed
  BY <1>3, LandedHolds
<1>4. ASSUME main' = at, mem'.phase = m.phase, shutdown' = shutdown,
             ~poisoned' => Rising(queue', mem', file'), poisoned' => queue' = <<>>
      PROVE  Quiet' /\ Ahead'
  <2>1. Quiet'
    BY <1>1, <1>4 DEF Quiet, Silent, Climbs
  <2>2. Ahead'
    BY <1>4 DEF Ahead, Rising, Below, Rank
  <2> QED BY <2>1, <2>2
<1>5. CASE ShuttingDown
  <2>1. Throw("signal", q, m)
    BY <1>5 DEF Run
  <2> QED BY <1>3, <2>1, ThrowRises
<1>6. CASE ~ShuttingDown /\ child' = Child(command, "running") /\ poisoned
  <2>1. Throw("error", q, spawned)
    BY <1>6 DEF Run, command, spawned, Child
  <2>2. Climbs(q, spawned)
    BY <1>2, <1>6 DEF Climbs
  <2> QED BY <1>3, <2>1, <2>2, ThrowRises
<1>7. CASE ~ShuttingDown /\ child' = Child(command, "running") /\ ~poisoned
  <2>1. /\ main' = at /\ mem' = spawned /\ queue' = Enqueue(q, spawned, {"spawn"})
        /\ UNCHANGED <<reason, shutdown>>
    BY <1>7 DEF Run, command, spawned, Child
  <2>2. {"spawn"} \in SUBSET {"main", "spawn", "shutdown"}
    OBVIOUS
  <2>3. Rising(queue', mem', file')
    BY <1>2, <1>7, <2>1, <2>2, EnqueueRises DEF Climbs
  <2> QED BY <1>2, <1>4, <1>7, <2>1, <2>3 DEF Climbs
<1>8. CASE ~ShuttingDown /\ child' = Child(command, "nospawn")
  <2>1. /\ main' = at /\ mem' = m /\ queue' = q /\ UNCHANGED <<reason, shutdown>>
    BY <1>8 DEF Run, command, Child
  <2> QED BY <1>4, <2>1 DEF Climbs
<1> QED BY <1>5, <1>6, <1>7, <1>8 DEF Run, command

\* After an update.
LEMMA UpdateRises ==
  ASSUME NEW q, NEW m, Climbs(q, m), NEW n \in States, Below(m, n),
         n.phase \notin {"failed", "shutting-down"}, ~ShuttingDown,
         NEW at \in {"phase1", "phase2"}, Update(at, q, n)
  PROVE  Quiet' /\ Ahead'
<1>1. CASE poisoned
  <2>1. Throw("error", q, n)
    BY <1>1 DEF Update
  <2>2. Climbs(q, n)
    BY <1>1 DEF Climbs, ShuttingDown
  <2> QED BY <2>1, <2>2, ThrowRises, LandedHolds
<1>2. CASE ~poisoned
  <2>1. /\ main' = at /\ mem' = n /\ queue' = Enqueue(q, n, {"main"})
        /\ UNCHANGED <<reason, shutdown>>
    BY <1>2 DEF Update
  <2>2. {"main"} \in SUBSET {"main", "spawn", "shutdown"}
    OBVIOUS
  <2>3. Rising(queue', mem', file')
    BY <1>2, <2>1, <2>2, EnqueueRises DEF Climbs
  <2>4. Quiet'
    BY <1>2, <2>1 DEF Quiet, Silent, Climbs
  <2>5. Ahead'
    BY <2>3 DEF Ahead, Rising, Below, Rank
  <2> QED BY <2>4, <2>5
<1> QED BY <1>1, <1>2

----------------------------------------------------------------------------
(* The steps.                                                              *)

\* What the invariants say of a macrotask that does not write the file.
LEMMA Standing ==
  ASSUME Forward, main \notin {"boot", "exited"}, ~Silent, file' = file, poisoned' = poisoned
  PROVE  Climbs(queue, mem)
BY Typed DEF Forward, IInv, Quiet, Ahead, Climbs, Coherent

LEMMA ForwardInit == Init => Forward
<1>1. Init => Quiet /\ Ahead
  BY DEF Init, Quiet, Ahead, Silent, Initializing
<1> QED BY <1>1, InitInv DEF Forward

LEMMA BootRises == Forward /\ Boot => Quiet' /\ Ahead'
<1> SUFFICES ASSUME Forward, Boot PROVE Quiet' /\ Ahead'
  OBVIOUS
<1>1. /\ main = "boot" /\ child = NoChild /\ ~poisoned /\ queue = <<>> /\ shutdown = "no"
      /\ mem.phase = "initializing" /\ mem \in States
      /\ UNCHANGED <<mem, poisoned, child, shutdown, synced>>
  BY Typed DEF Boot, Forward, IInv, Quiet, MainInv
<1>2. CASE file' = Absent /\ main' = "start" /\ queue' = Enqueue(queue, mem, {"main"})
  <2>1. Below(Absent, mem)
    <3>1. Rank(Absent) = 0 /\ ~Absent.complete
      BY DEF Rank, Absent
    <3> QED BY <1>1, <3>1, Ranks, SMT DEF Below
  <2>2. queue \in Seq(Writes) /\ 1..Len(queue) = {}
    BY <1>1, EmptySeq, SMT
  <2>3. Rising(queue, mem, Absent)
    BY <2>1, <2>2 DEF Rising
  <2>4. {"main"} \in SUBSET {"main", "spawn", "shutdown"}
    OBVIOUS
  <2>5. Rising(queue', mem', file')
    BY <1>1, <1>2, <2>2, <2>3, <2>4, BelowIsOrder, EnqueueRises
  <2>6. Quiet'
    BY <1>1, <1>2 DEF Quiet, Silent
  <2>7. Ahead'
    BY <2>5 DEF Ahead, Rising, Below, Rank
  <2> QED BY <2>6, <2>7
<1>3. CASE main' = "settled" /\ queue' = queue
  BY <1>1, <1>3 DEF Quiet, Ahead, Silent
<1> QED BY <1>2, <1>3 DEF Boot

LEMMA TokenRises == Forward /\ TokenWritten => Quiet' /\ Ahead'
<1> SUFFICES ASSUME Forward, TokenWritten PROVE Quiet' /\ Ahead'
  OBVIOUS
<1>1. main = "token" /\ ~Silent /\ UNCHANGED <<poisoned, file, synced>>
  BY DEF TokenWritten, Silent
<1>2. Climbs(queue, mem) /\ mem.phase # "failed"
  BY <1>1, Standing DEF Forward, Quiet
<1>3. CASE Run("status", queue, mem)
  BY <1>2, <1>3, RunRises
<1>4. CASE Throw("error", queue, mem)
  BY <1>2, <1>4, ThrowRises, LandedHolds
<1> QED BY <1>3, <1>4 DEF TokenWritten

LEMMA SignalRises == Forward /\ Signal => Quiet' /\ Ahead'
<1> SUFFICES ASSUME Forward, Signal PROVE Quiet' /\ Ahead'
  OBVIOUS
<1> DEFINE n == [mem EXCEPT !.phase = "shutting-down"]
<1>1. main \notin {"boot", "start", "settled", "stop", "exited"}
      /\ UNCHANGED <<main, reason, poisoned, file, synced>>
  BY ListeningIs DEF Signal
<1>2. Climbs(queue, mem) /\ Quiet
  BY <1>1, Standing DEF Forward, Silent
<1>0. mem \in States /\ n \in States /\ n.phase = "shutting-down" /\ n.complete = mem.complete
  BY <1>2 DEF Climbs, States, Phases
<1> HIDE DEF n
<1>3. n \in States /\ n.phase = "shutting-down" /\ Below(mem, n)
  BY <1>0, BelowBy
<1>4. CASE ~ShuttingDown /\ poisoned
  <2>1. mem' = n /\ shutdown' = "armed" /\ queue' = queue
    BY <1>4 DEF Signal, n
  <2> QED BY <1>1, <1>2, <1>3, <1>4, <2>1 DEF Quiet, Ahead, Silent
<1>5. CASE ~ShuttingDown /\ ~poisoned
  <2>1. mem' = n /\ shutdown' = "reporting" /\ queue' = Enqueue(queue, n, {"shutdown"})
    BY <1>5 DEF Signal, n
  <2>2. {"shutdown"} \in SUBSET {"main", "spawn", "shutdown"}
    OBVIOUS
  <2>3. Rising(queue', mem', file')
    BY <1>2, <1>3, <1>5, <2>1, <2>2, EnqueueRises DEF Climbs
  <2>4. Quiet'
    BY <1>1, <1>3, <1>5, <2>1 DEF Quiet, Silent
  <2>5. Ahead'
    BY <2>3 DEF Ahead, Rising, Below, Rank
  <2> QED BY <2>4, <2>5
<1>6. CASE ShuttingDown
  <2>1. UNCHANGED <<mem, queue, shutdown>>
    BY <1>6 DEF Signal
  <2>2. Quiet'
    BY <1>1, <1>2, <2>1 DEF Quiet, Silent
  <2>3. Ahead'
    BY <1>1, <2>1 DEF Forward, Ahead, Silent, Rising, Below, Rank
  <2> QED BY <2>2, <2>3
<1> QED BY <1>4, <1>5, <1>6

LEMMA HeartbeatRises == Forward /\ Heartbeat => Quiet' /\ Ahead'
<1> SUFFICES ASSUME Forward, Heartbeat PROVE Quiet' /\ Ahead'
  OBVIOUS
<1>1. /\ main \notin {"boot", "start", "settled", "stop", "exited"} /\ ~poisoned
      /\ queue' = Enqueue(queue, mem, {})
      /\ UNCHANGED <<main, reason, mem, poisoned, file, child, shutdown, synced>>
  BY ListeningIs DEF Heartbeat
<1>2. Climbs(queue, mem) /\ Quiet
  BY <1>1, Standing DEF Forward, Silent
<1>3. {} \in SUBSET {"main", "spawn", "shutdown"}
  OBVIOUS
<1>4. Rising(queue', mem', file')
  BY <1>1, <1>2, <1>3, BelowIsOrder, EnqueueRises DEF Climbs
<1>5. Quiet'
  BY <1>1, <1>2 DEF Quiet, Silent
<1>6. Ahead'
  BY <1>4 DEF Ahead, Rising, Below, Rank
<1> QED BY <1>5, <1>6

LEMMA FailureRises == Forward /\ WriteFails => Quiet' /\ Ahead'
<1> SUFFICES ASSUME Forward, WriteFails PROVE Quiet' /\ Ahead'
  OBVIOUS
<1>1. /\ main # "exited" /\ queue # <<>> /\ poisoned' = TRUE
      /\ child' = IF "shutdown" \in Waiters THEN Signalled("soft") ELSE child
  BY DEF WriteFails
<1>2. /\ Quiet /\ MainInv /\ main # "boot" /\ ~Silent /\ mem \in States
      /\ Coherent(queue, mem, file, synced, shutdown, poisoned)
  BY <1>1, Typed DEF Forward, IInv, Quiet, MainInv
<1>3. Ahead'
  BY <1>1 DEF Ahead
<1>4. child = NoChild => child' = NoChild
  BY <1>1 DEF Signalled, ChildRuns, NoChild
<1>5. CASE main = "phase3"
  <2>1. main' = "exited" /\ queue' = <<>> /\ UNCHANGED <<mem, shutdown>>
    BY <1>5 DEF WriteFails, Die
  <2> QED BY <1>2, <1>3, <2>1 DEF Quiet, Silent
<1>6. CASE main # "phase3"
  <2>1. /\ queue' = <<>>
        /\ main' = IF Rejected THEN "settled" ELSE main
        /\ mem' = IF Rejected /\ ~ShuttingDown /\ main \in Listening \ {"catch"}
                  THEN [mem EXCEPT !.phase = "failed", !.child = "null"]
                  ELSE mem
    BY <1>6 DEF WriteFails
  <2>2. shutdown # "no" => shutdown' # "no"
    <3>1. shutdown' \in
             CASE "shutdown" \in Waiters -> {"armed"} \cup
                    (IF Rejected /\ main \in Listening THEN {"cleared"} ELSE {})
               [] "shutdown" \notin Waiters /\ Rejected /\ shutdown = "armed" -> {"cleared"}
               [] OTHER -> {shutdown}
      BY <1>6 DEF WriteFails
    <3> QED BY <3>1
  <2>3. CASE Rejected /\ ~ShuttingDown /\ main \in Listening \ {"catch"}
    <3>1. main' = "settled" /\ mem'.phase = "failed"
      BY <1>2, <2>1, <2>3 DEF States
    <3> QED BY <1>1, <1>3, <2>1, <3>1 DEF Quiet, Silent
  <2>4. CASE ~(Rejected /\ ~ShuttingDown /\ main \in Listening \ {"catch"})
    <3>1. mem' = mem /\ main' \in {main, "settled"}
      BY <2>1, <2>4
    <3>2. Silent' => main = "start"
      <4>1. CASE ~Rejected
        BY <1>2, <2>1, <3>1, <4>1 DEF Silent
      <4>2. CASE Rejected
        <5>1. mem.phase = "initializing" => shutdown = "no"
          BY <1>2 DEF Coherent
        <5>2. main \in Places
          BY Typed DEF Forward, IInv
        <5>3. main \in Listening \ {"catch"} => shutdown # "no"
          BY <2>4, <4>2 DEF ShuttingDown
        <5> QED BY <1>1, <1>2, <3>1, <5>1, <5>2, <5>3 DEF Places, Ends, Quiet, Silent
      <4> QED BY <4>1, <4>2
    <3>3. Silent' => child' = NoChild
      BY <1>2, <1>4, <3>2 DEF Quiet
    <3> QED BY <1>1, <1>2, <1>3, <1>4, <2>1, <2>2, <3>1, <3>3 DEF Quiet
  <2> QED BY <2>3, <2>4
<1> QED BY <1>5, <1>6

LEMMA ClosedRises == Forward /\ ChildClosed => Quiet' /\ Ahead'
<1> SUFFICES ASSUME Forward, ChildClosed PROVE Quiet' /\ Ahead'
  OBVIOUS
<1> DEFINE m == [mem EXCEPT !.child = "null"]
           q == IF poisoned THEN queue ELSE Enqueue(queue, m, {})
<1>1. main # "exited" /\ child # NoChild /\ UNCHANGED <<poisoned, file>>
  BY DEF ChildClosed
<1>2. /\ main # "boot" /\ ~Silent /\ Quiet /\ MainInv
      /\ main \in Awaiting => mem.phase \notin {"failed"}
  BY <1>1, AwaitingIs DEF Forward, IInv, Quiet
<1>3. Climbs(queue, mem)
  BY <1>1, <1>2, Standing
<1>4. mem \in States /\ m \in States /\ m.phase = mem.phase /\ m.complete = mem.complete
  BY <1>3 DEF Climbs, States
<1> DEFINE Rest == \/ /\ main \in Awaiting
                      /\ Closed(q, m)
                   \/ /\ main = "phase3"
                      /\ Die("unhandled")
                      /\ mem' = m /\ child' = NoChild
                      /\ UNCHANGED shutdown
                   \/ /\ main \in Ends \cup {"catch"}
                      /\ child' = NoChild /\ mem' = m /\ queue' = q
                      /\ UNCHANGED <<main, reason, shutdown>>
<1>5. Rest
  BY DEF ChildClosed
<1> HIDE DEF m
<1>6. Below(mem, m)
  BY <1>4, BelowBy
<1>7. Climbs(q, m)
  <2>1. CASE poisoned
    BY <1>3, <1>4, <2>1 DEF Climbs
  <2>2. CASE ~poisoned
    <3>1. {} \in SUBSET {"main", "spawn", "shutdown"} /\ q = Enqueue(queue, m, {})
      BY <2>2
    <3>2. q \in Seq(Writes)
      BY <1>3, <1>4, <3>1, Enqueued DEF Climbs
    <3>3. Rising(q, m, file')
      BY <1>3, <1>4, <1>6, <2>2, <3>1, EnqueueRises DEF Climbs
    <3> QED BY <1>3, <1>4, <2>2, <3>2, <3>3 DEF Climbs
  <2> QED BY <2>1, <2>2
<1> HIDE DEF q
<1>8. ASSUME NEW why, Throw(why, q, m) PROVE Quiet' /\ Ahead'
  BY <1>7, <1>8, ThrowRises, LandedHolds
<1>9. CASE main \in Awaiting /\ Closed(q, m)
  <2>1. CASE \E why : Throw(why, q, m)
    BY <1>8, <2>1
  <2>2. CASE Run("setup", q, m)
    BY <1>2, <1>4, <1>7, <1>9, <2>2, RunRises
  <2>3. CASE ~ShuttingDown /\ main \in {"status", "setup"}
             /\ Update("phase1", q, [m EXCEPT !.phase = "initial-sync"])
    <3> DEFINE n == [m EXCEPT !.phase = "initial-sync"]
    <3>1. n \in States /\ n.phase = "initial-sync" /\ n.complete = m.complete
      BY <1>4 DEF States, Phases
    <3>2. m.phase \in {"initializing", "initial-sync"}
      <4>1. m.phase # "continuous-sync" /\ m.phase # "failed" /\ m.phase # "shutting-down"
        BY <1>2, <1>4, <1>9, <2>3 DEF MainInv, Quiet, ShuttingDown
      <4> QED BY <1>4, <4>1 DEF States, Phases
    <3> HIDE DEF n
    <3>3. Below(m, n)
      BY <1>4, <3>1, <3>2, BelowBy
    <3>4. Update("phase1", q, n)
      BY <2>3 DEF n
    <3> QED BY <1>7, <2>3, <3>1, <3>3, <3>4, UpdateRises
  <2>4. CASE ~ShuttingDown /\ main = "initial"
             /\ Update("phase2", q, [m EXCEPT !.complete = TRUE])
    <3> DEFINE n == [m EXCEPT !.complete = TRUE]
    <3>1. n \in States /\ n.phase = m.phase /\ n.complete = TRUE
      BY <1>4 DEF States
    <3>2. n.phase \notin {"failed", "shutting-down"}
      BY <1>2, <1>4, <1>9, <2>4, <3>1 DEF Quiet, ShuttingDown
    <3> HIDE DEF n
    <3>3. Below(m, n)
      BY <1>4, <3>1, BelowBy
    <3>4. Update("phase2", q, n)
      BY <2>4 DEF n
    <3> QED BY <1>7, <2>4, <3>1, <3>2, <3>3, <3>4, UpdateRises
  <2> QED BY <1>9, <2>1, <2>2, <2>3, <2>4 DEF Closed
<1>10. CASE main = "phase3" /\ Die("unhandled") /\ mem' = m /\ UNCHANGED shutdown
  <2>1. main' = "exited" /\ queue' = <<>>
    BY <1>10 DEF Die
  <2> QED BY <1>1, <1>2, <1>4, <1>10, <2>1 DEF Quiet, Ahead, Silent
<1>11. CASE main \in Ends \cup {"catch"} /\ child' = NoChild /\ mem' = m /\ queue' = q
            /\ UNCHANGED <<main, reason, shutdown>>
  <2>1. ~Silent'
    BY <1>2, <1>4, <1>11 DEF Silent
  <2>2. Quiet'
    BY <1>1, <1>2, <1>4, <1>7, <1>11, <2>1 DEF Quiet, Climbs
  <2>3. Ahead'
    BY <1>1, <1>7, <1>11 DEF Ahead, Climbs, Rising, Below, Rank
  <2> QED BY <2>2, <2>3
<1> QED BY <1>5, <1>9, <1>10, <1>11

LEMMA LandingRises ==
  Forward /\ WriteLands => Quiet' /\ Ahead' /\ Below(file, file')
<1> SUFFICES ASSUME Forward, WriteLands PROVE Quiet' /\ Ahead' /\ Below(file, file')
  OBVIOUS
<1> DEFINE q == Tail(queue)
<1>1. /\ main # "exited" /\ queue # <<>> /\ file' = Head(queue).state
      /\ UNCHANGED <<poisoned, synced>>
  BY DEF WriteLands
<1>2. /\ main # "boot" /\ ~Silent /\ ~poisoned /\ Quiet /\ MainInv
      /\ mem \in States /\ queue \in Seq(Writes)
      /\ Coherent(queue, mem, file, synced, shutdown, poisoned)
  BY <1>1, Typed DEF Forward, IInv, Quiet, MainInv
<1>3. Rising(queue, mem, file)
  BY <1>1, <1>2 DEF Forward, Ahead
<1>4. Rising(q, mem, file') /\ Below(file, file')
  BY <1>1, <1>2, <1>3, LandRises
<1>5. q \in Seq(Writes)
  BY <1>1, <1>2, SMT
<1>6. Climbs(q, mem)
  BY <1>1, <1>2, <1>4, <1>5 DEF Climbs, Quiet, Coherent
<1>7. ASSUME "shutdown" \in Head(queue).waiters PROVE mem.phase = "shutting-down"
  <2>1. Head(queue) = queue[1] /\ 1 \in 1..Len(queue)
    BY <1>1, <1>2, SMT
  <2> QED BY <1>2, <1>7, <2>1 DEF Coherent, AfterReport
<1> DEFINE Rest == \/ /\ Head(queue).waiters \subseteq {"spawn"}
                      /\ queue' = q
                      /\ UNCHANGED <<main, reason, mem, child, shutdown>>
                   \/ /\ "shutdown" \in Head(queue).waiters
                      /\ child' = Signalled("soft")
                      /\ shutdown' = "armed"
                      /\ main' = IF "main" \in Head(queue).waiters THEN "settled" ELSE main
                      /\ queue' = q
                      /\ UNCHANGED <<reason, mem>>
                   \/ Resume(q)
<1>8. Rest
  BY DEF WriteLands
<1> HIDE DEF q
<1>9. ASSUME mem' = mem, queue' = q, ~Silent', main' \notin {"boot", "start"} \/ UNCHANGED <<main, child>>,
             main' \in {"catch", "stop", "settled", "exited", main} \/ mem.phase # "failed",
             main' \in {"catch", "stop"} => main' = main,
             shutdown # "no" => shutdown' # "no"
      PROVE  Quiet' /\ Ahead'
  <2>1. Quiet'
    BY <1>1, <1>2, <1>9 DEF Quiet
  <2>2. Ahead'
    BY <1>4, <1>9 DEF Ahead, Rising, Below, Rank
  <2> QED BY <2>1, <2>2
<1>10. CASE queue' = q /\ UNCHANGED <<main, reason, mem, child, shutdown>>
  BY <1>2, <1>4, <1>9, <1>10 DEF Silent
<1>11. CASE /\ "shutdown" \in Head(queue).waiters
            /\ child' = Signalled("soft")
            /\ shutdown' = "armed"
            /\ main' = IF "main" \in Head(queue).waiters THEN "settled" ELSE main
            /\ queue' = q
            /\ UNCHANGED <<reason, mem>>
  <2>1. ~Silent'
    BY <1>7, <1>11 DEF Silent
  <2>2. main' \notin {"boot", "start"} \/ UNCHANGED <<main, child>>
    BY <1>2, <1>11 DEF Quiet, Signalled, ChildRuns, NoChild
  <2> QED BY <1>4, <1>9, <1>11, <2>1, <2>2
<1>12. CASE Resume(q)
  <2>1. main \in {"start", "phase1", "phase2", "phase3", "catch", "stop"}
        /\ (main \notin {"catch", "stop"} => mem.phase # "failed")
    BY <1>2, <1>12 DEF Resume, Quiet
  <2>2. CASE /\ queue' = q /\ UNCHANGED <<mem, reason, shutdown, child>>
             /\ \/ main = "start" /\ main' = "token"
                \/ main = "phase3" /\ main' = "continuous"
                \/ main = "stop" /\ main' = "settled"
    <3>1. ~Silent'
      BY <1>2, <2>2 DEF Silent, Quiet
    <3> QED BY <1>4, <1>9, <2>1, <2>2, <3>1
  <2>3. CASE main = "phase1" /\ Run("initial", q, mem)
    BY <1>4, <1>6, <2>1, <2>3, RunRises
  <2>4. CASE main = "phase2" /\ StartContinuous(q)
    <3> DEFINE phased == [mem EXCEPT !.phase = "continuous-sync"]
               spawned == [phased EXCEPT !.child = "continuous"]
    <3>1. /\ phased \in States /\ phased.phase = "continuous-sync" /\ phased.complete = mem.complete
          /\ spawned \in States /\ spawned.phase = "continuous-sync"
          /\ spawned.complete = phased.complete
      BY <1>2 DEF States, Phases, Commands
    <3> HIDE DEF phased, spawned
    <3>2. CASE Die("unhandled") /\ mem' = phased /\ UNCHANGED <<child, shutdown>>
      <4>1. main' = "exited" /\ queue' = <<>>
        BY <3>2 DEF Die
      <4> QED BY <1>1, <1>2, <1>4, <3>1, <3>2, <4>1 DEF Quiet, Ahead, Silent
    <3>3. CASE /\ ~ShuttingDown /\ main' = "phase3" /\ mem' = spawned
               /\ queue' = Enqueue(Enqueue(q, phased, {"main"}), spawned, {"spawn"})
      <4>1. mem.phase \notin {"failed", "shutting-down"}
        BY <1>2, <2>1, <2>4, <3>3 DEF Quiet, ShuttingDown
      <4>2. Below(mem, phased) /\ Below(phased, spawned)
        BY <1>2, <3>1, <4>1, BelowBy
      <4>3. {"main"} \in SUBSET {"main", "spawn", "shutdown"}
            /\ {"spawn"} \in SUBSET {"main", "spawn", "shutdown"}
        OBVIOUS
      <4>4. Enqueue(q, phased, {"main"}) \in Seq(Writes)
        BY <1>5, <3>1, <4>3, Enqueued
      <4>5. Rising(Enqueue(q, phased, {"main"}), phased, file')
        BY <1>4, <1>5, <3>1, <4>2, <4>3, EnqueueRises
      <4>6. Rising(queue', mem', file')
        BY <3>1, <3>3, <4>2, <4>3, <4>4, <4>5, EnqueueRises
      <4>7. Quiet'
        BY <1>1, <1>2, <3>1, <3>3 DEF Quiet, Silent
      <4>8. Ahead'
        BY <4>6 DEF Ahead, Rising, Below, Rank
      <4> QED BY <1>4, <4>7, <4>8
    <3> QED BY <2>4, <3>2, <3>3 DEF StartContinuous, phased, spawned
  <2>5. CASE main = "catch" /\ Finish(reason, q, mem)
    BY <1>2, <1>4, <1>6, <2>5, FinishRises, LandedHolds DEF Quiet
  <2> QED BY <1>12, <2>2, <2>3, <2>4, <2>5 DEF Resume
<1> QED BY <1>8, <1>10, <1>11, <1>12

\* The other steps touch neither the snapshots nor the phase.
LEMMA OtherRises ==
  ASSUME Forward,
         \/ ForceTimer \/ ProcessEnds \/ WorkerKilled \/ ChildExits \/ UNCHANGED vars
  PROVE  Quiet' /\ Ahead'
<1>1. CASE ForceTimer
  <2>1. /\ shutdown' = "fired" /\ child' = Signalled("kill")
        /\ UNCHANGED <<main, reason, mem, queue, poisoned, file, synced>>
    BY <1>1 DEF ForceTimer
  <2>2. child = NoChild => child' = NoChild
    BY <2>1 DEF Signalled, ChildRuns, NoChild
  <2> QED BY <2>1, <2>2 DEF Forward, Quiet, Ahead, Silent
<1>2. CASE ProcessEnds \/ WorkerKilled
  BY <1>2 DEF ProcessEnds, WorkerKilled, Die, Forward, Quiet, Ahead, Silent
<1>3. CASE ChildExits
  <2>1. child # NoChild /\ UNCHANGED <<main, reason, mem, queue, poisoned, file, shutdown, synced>>
    BY <1>3 DEF ChildExits, ChildRuns, NoChild
  <2> QED BY <2>1 DEF Forward, Quiet, Ahead, Silent
<1>4. CASE UNCHANGED vars
  BY <1>4 DEF Forward, Quiet, Ahead, Silent, vars
<1> QED BY <1>1, <1>2, <1>3, <1>4

LEMMA ForwardStep == Forward /\ [Next]_vars => Forward'
<1> SUFFICES ASSUME Forward, [Next]_vars PROVE Forward'
  OBVIOUS
<1>1. IInv'
  BY StepInv DEF Forward
<1>2. Quiet' /\ Ahead'
  BY BootRises, LandingRises, FailureRises, TokenRises, ClosedRises, SignalRises,
     HeartbeatRises, OtherRises DEF Next
<1> QED BY <1>1, <1>2 DEF Forward

----------------------------------------------------------------------------
(* The result.                                                             *)

\* Whatever writes were queued when, and in whatever order heartbeats, child
\* events, failures and the shutdown came: what the file says of the phase and of
\* the one-time sync is never taken back.
THEOREM FileOnlyGoesForward == Spec => FileGoesForward
<1> DEFINE Step == main # "boot" => Rank(file) <= Rank(file') /\ (file.complete => file'.complete)
<1>1. ASSUME Forward, Next, main # "boot"
      PROVE  Below(file, file')
  <2>1. CASE WriteLands
    BY <1>1, <2>1, LandingRises
  <2>2. CASE ~WriteLands
    <3>1. file' = file
      BY <1>1, <2>2 DEF Next, Boot, WriteFails, TokenWritten, ChildClosed, Signal, ForceTimer,
                        Heartbeat, ProcessEnds, WorkerKilled, ChildExits
    <3> QED BY <3>1, BelowIsOrder
  <2> QED BY <2>1, <2>2
<1>2. Forward /\ [Next]_vars => [Step]_vars
  BY <1>1 DEF Below
<1>3. Spec => []Forward
  BY ForwardInit, ForwardStep, PTL DEF Spec
<1> QED BY <1>2, <1>3, PTL DEF Spec, FileGoesForward
=============================================================================
