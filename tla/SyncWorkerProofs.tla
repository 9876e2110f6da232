--------------------------- MODULE SyncWorkerProofs ---------------------------
(***************************************************************************)
(* Proofs about the sync worker, for every length of the write queue: any  *)
(* number of heartbeats may be queued between the writes that matter.      *)
(***************************************************************************)
EXTENDS SyncWorker, SequenceTheorems, TLAPS

Writes == [state: States, waiters: SUBSET {"main", "spawn", "shutdown"}]
Forwarded == {"armed", "fired", "cleared"}     \* the signal has been passed on
Shutdowns == {"no", "reporting"} \cup Forwarded

\* A snapshot claims no sync that did not succeed, and no child of another phase.
Honest(s, done) == /\ s.complete => done
                   /\ s.phase = "continuous-sync" /\ s.child # "null" => s.child = "continuous"

\* From the report of a shutdown on, every snapshot is one of a shutdown.
AfterReport(q, stopping) ==
  \A i \in 1..Len(q) : "shutdown" \in q[i].waiters =>
    /\ stopping # "no"
    /\ \A j \in 1..Len(q) : i <= j => q[j].state.phase = "shutting-down"

\* How the writes q that are queued, the reporter's state m and the file f go
\* together when the shutdown is at stopping.
Coherent(q, m, f, done, stopping, broken) ==
  /\ q \in Seq(Writes) /\ m \in States
  /\ Honest(m, done)
  /\ \A i \in 1..Len(q) : Honest(q[i].state, done)
  /\ f \in Stale \cup {Absent} \/ (f \in States /\ Honest(f, done))
  /\ AfterReport(q, stopping)
  /\ stopping \in Shutdowns
  /\ stopping # "no" => m.phase = "shutting-down"
  /\ stopping \in Forwarded /\ ~broken =>
       /\ f.phase = "shutting-down"
       /\ \A i \in 1..Len(q) : q[i].state.phase = "shutting-down"

\* The last snapshot that was or will be written is the reporter's state.
Told(q, m, f) == m = IF q = <<>> THEN f ELSE q[Len(q)].state

----------------------------------------------------------------------------
(* The queue.                                                              *)

LEMMA Enqueued ==
  ASSUME NEW q \in Seq(Writes), NEW m \in States,
         NEW waiters \in SUBSET {"main", "spawn", "shutdown"}
  PROVE  LET r == Enqueue(q, m, waiters)
         IN  /\ r \in Seq(Writes) /\ Len(r) = Len(q) + 1 /\ Len(q) \in Nat /\ r # <<>>
             /\ \A i \in 1..Len(q) : r[i] = q[i]
             /\ r[Len(r)] = [state |-> m, waiters |-> waiters]
             /\ \A i \in 1..Len(r) : i \in 1..Len(q) \/ i = Len(r)
<1> DEFINE w == [state |-> m, waiters |-> waiters]
<1>1. w \in Writes
  BY DEF Writes
<1> HIDE DEF w
<1>2. /\ Append(q, w) \in Seq(Writes) /\ Len(Append(q, w)) = Len(q) + 1 /\ Len(q) \in Nat
      /\ \A i \in 1..Len(q) : Append(q, w)[i] = q[i]
      /\ Append(q, w)[Len(q) + 1] = w
  BY <1>1, SMT
<1>3. \A i \in 1..Len(Append(q, w)) : i \in 1..Len(q) \/ i = Len(Append(q, w))
  BY <1>2, SMT
<1>4. Append(q, w) # <<>>
  BY <1>2, SMT
<1> QED BY <1>2, <1>3, <1>4 DEF Enqueue, w

\* A snapshot joins the queue.
LEMMA EnqueueCoheres ==
  ASSUME NEW q, NEW m, NEW f, NEW done, NEW stopping, NEW broken,
         Coherent(q, m, f, done, stopping, broken),
         NEW n \in States, Honest(n, done), stopping # "no" => n.phase = "shutting-down",
         NEW waiters \in SUBSET {"main", "spawn"}
  PROVE  /\ Coherent(Enqueue(q, n, waiters), n, f, done, stopping, broken)
         /\ Told(Enqueue(q, n, waiters), n, f)
<1> DEFINE r == Enqueue(q, n, waiters)
<1>1. q \in Seq(Writes) /\ waiters \in SUBSET {"main", "spawn", "shutdown"}
  BY DEF Coherent
<1>2. /\ r \in Seq(Writes) /\ Len(r) = Len(q) + 1 /\ Len(q) \in Nat /\ r # <<>>
      /\ \A i \in 1..Len(q) : r[i] = q[i]
      /\ r[Len(r)] = [state |-> n, waiters |-> waiters]
      /\ \A i \in 1..Len(r) : i \in 1..Len(q) \/ i = Len(r)
  BY <1>1, Enqueued
<1> HIDE DEF r
<1>3. r[Len(r)].state = n /\ "shutdown" \notin r[Len(r)].waiters
  BY <1>2
<1>4. AfterReport(r, stopping)
  <2> SUFFICES ASSUME NEW i \in 1..Len(r), "shutdown" \in r[i].waiters, NEW j \in 1..Len(r), i <= j
               PROVE  stopping # "no" /\ r[j].state.phase = "shutting-down"
    BY DEF AfterReport
  <2>1. i \in 1..Len(q) /\ r[i] = q[i]
    BY <1>2, <1>3
  <2>2. stopping # "no"
    BY <2>1 DEF Coherent, AfterReport
  <2>3. CASE j \in 1..Len(q)
    BY <1>2, <2>1, <2>3 DEF Coherent, AfterReport
  <2>4. CASE j = Len(r)
    BY <1>3, <2>2, <2>4
  <2> QED BY <1>2, <2>2, <2>3, <2>4
<1>5. \A i \in 1..Len(r) : Honest(r[i].state, done)
  BY <1>2, <1>3 DEF Coherent
<1>6. stopping \in Forwarded /\ ~broken => \A i \in 1..Len(r) : r[i].state.phase = "shutting-down"
  BY <1>2, <1>3 DEF Coherent, Forwarded
<1>7. Coherent(r, n, f, done, stopping, broken)
  BY <1>2, <1>4, <1>5, <1>6 DEF Coherent
<1>8. Told(r, n, f)
  BY <1>2, <1>3 DEF Told
<1> QED BY <1>7, <1>8 DEF r

\* The state of the reporter moves on and nothing is written.
LEMMA StateCoheres ==
  ASSUME NEW q, NEW m, NEW f, NEW done, NEW stopping, NEW broken,
         Coherent(q, m, f, done, stopping, broken),
         NEW n \in States, Honest(n, done), stopping # "no" => n.phase = "shutting-down"
  PROVE  Coherent(q, n, f, done, stopping, broken)
BY DEF Coherent

\* Somebody awaits the last write.
LEMMA AwaitCoheres ==
  ASSUME NEW q, NEW m, NEW f, NEW done, NEW stopping, NEW broken,
         Coherent(q, m, f, done, stopping, broken), q # <<>>
  PROVE  LET r == [q EXCEPT ![Len(q)].waiters = @ \cup {"main"}]
         IN  /\ Coherent(r, m, f, done, stopping, broken)
             /\ Told(q, m, f) => Told(r, m, f)
<1> DEFINE n == Len(q)
           last == [q[n] EXCEPT !.waiters = @ \cup {"main"}]
           r == [q EXCEPT ![n] = last]
<1>1. q \in Seq(Writes) /\ n \in Nat /\ n \in 1..n
  BY SMT DEF Coherent
<1>2. q[n] \in Writes
  BY <1>1
<1>3. last \in Writes /\ last.state = q[n].state /\ last.waiters = q[n].waiters \cup {"main"}
  BY <1>2 DEF Writes
<1> HIDE DEF last
<1>4. r \in Seq(Writes) /\ Len(r) = n
  BY <1>1, <1>3
<1>5. \A i \in 1..n : r[i] = IF i = n THEN last ELSE q[i]
  BY <1>1
<1> HIDE DEF r
<1>6. \A i \in 1..n : /\ r[i].state = q[i].state
                      /\ "shutdown" \in r[i].waiters => "shutdown" \in q[i].waiters
  BY <1>3, <1>5
<1>7. AfterReport(r, stopping)
  BY <1>4, <1>6 DEF Coherent, AfterReport
<1>8. Coherent(r, m, f, done, stopping, broken)
  BY <1>4, <1>6, <1>7 DEF Coherent
<1>9. r # <<>>
  BY <1>1, <1>4, SMT
<1>10. Told(q, m, f) => Told(r, m, f)
  BY <1>1, <1>4, <1>6, <1>9 DEF Told
<1> QED BY <1>8, <1>10 DEF r, last

\* The oldest write lands.
LEMMA LandCoheres ==
  ASSUME NEW q, NEW m, NEW f, NEW done, NEW stopping, NEW broken,
         Coherent(q, m, f, done, stopping, broken), q # <<>>
  PROVE  /\ Coherent(Tail(q), m, Head(q).state, done, stopping, broken)
         /\ Told(q, m, f) => Told(Tail(q), m, Head(q).state)
         /\ "shutdown" \in Head(q).waiters
              => Coherent(Tail(q), m, Head(q).state, done, "armed", broken)
         /\ Head(q) \in Writes /\ Head(q) = q[1] /\ 1 \in 1..Len(q)
<1> DEFINE r == Tail(q)
<1>1. q \in Seq(Writes) /\ Len(q) \in Nat /\ 1 \in 1..Len(q) /\ Len(q) \in 1..Len(q)
  BY SMT DEF Coherent
<1>2. /\ Head(q) = q[1] /\ q[1] \in Writes /\ r \in Seq(Writes) /\ Len(r) = Len(q) - 1
      /\ \A i \in 1..Len(r) : r[i] = q[i + 1]
  BY <1>1, SMT
<1> HIDE DEF r
<1>3. /\ \A i \in 1..Len(r) : i + 1 \in 1..Len(q) /\ 1 <= i + 1
      /\ \A i \in 1..Len(r), j \in 1..Len(r) : i <= j => i + 1 <= j + 1
      /\ r = <<>> => Len(q) = 1
      /\ r # <<>> => Len(r) \in 1..Len(r) /\ Len(r) + 1 = Len(q)
  <2>1. Len(r) \in Nat /\ Len(r) = Len(q) - 1 /\ Len(q) \in Nat
    BY <1>1, <1>2
  <2>2. r = <<>> <=> Len(r) = 0
    BY <1>2, EmptySeq, SMT
  <2>3. \A i \in 1..Len(r) : i + 1 \in 1..Len(q) /\ 1 <= i + 1
    BY <2>1, SMT
  <2>4. \A i \in 1..Len(r), j \in 1..Len(r) : i <= j => i + 1 <= j + 1
    BY <2>1, SMT
  <2>5. Len(r) = 0 => Len(q) = 1
    BY <2>1, SMT
  <2>6. Len(r) # 0 => Len(r) \in 1..Len(r) /\ Len(r) + 1 = Len(q)
    BY <2>1, SMT
  <2> QED BY <2>2, <2>3, <2>4, <2>5, <2>6
<1>4. AfterReport(r, stopping)
  BY <1>2, <1>3 DEF Coherent, AfterReport
<1>5. q[1].state \in States /\ Honest(q[1].state, done)
  BY <1>1, <1>2 DEF Coherent, Writes
<1>6. \A i \in 1..Len(r) : Honest(r[i].state, done)
  BY <1>2, <1>3 DEF Coherent
<1>7. stopping \in Forwarded /\ ~broken => /\ q[1].state.phase = "shutting-down"
                                           /\ \A i \in 1..Len(r) : r[i].state.phase = "shutting-down"
  BY <1>1, <1>2, <1>3 DEF Coherent
<1>8. Coherent(r, m, Head(q).state, done, stopping, broken)
  BY <1>2, <1>4, <1>5, <1>6, <1>7 DEF Coherent
<1>9. ASSUME "shutdown" \in Head(q).waiters
      PROVE  Coherent(r, m, Head(q).state, done, "armed", broken)
  <2>1. /\ stopping # "no"
        /\ \A j \in 1..Len(q) : 1 <= j => q[j].state.phase = "shutting-down"
    BY <1>1, <1>2, <1>9 DEF Coherent, AfterReport
  <2>2. \A j \in 1..Len(q) : 1 <= j
    BY <1>1, SMT
  <2>3. /\ q[1].state.phase = "shutting-down"
        /\ \A i \in 1..Len(r) : r[i].state.phase = "shutting-down"
    BY <1>1, <1>2, <1>3, <2>1, <2>2
  <2>4. AfterReport(r, "armed")
    BY <2>3 DEF AfterReport
  <2> QED BY <1>2, <1>5, <1>6, <2>1, <2>3, <2>4 DEF Coherent, Shutdowns, Forwarded
<1>10. Told(q, m, f) => Told(r, m, Head(q).state)
  <2>1. CASE r = <<>>
    BY <1>1, <1>2, <1>3, <2>1 DEF Told
  <2>2. CASE r # <<>>
    BY <1>1, <1>2, <1>3, <2>2 DEF Told
  <2> QED BY <2>1, <2>2
<1> QED BY <1>1, <1>2, <1>8, <1>9, <1>10 DEF r

\* A shutdown is reported.
LEMMA ReportCoheres ==
  ASSUME NEW q, NEW m, NEW f, NEW done, NEW broken,
         Coherent(q, m, f, done, "no", broken),
         NEW n \in States, Honest(n, done), n.phase = "shutting-down"
  PROVE  /\ Coherent(Enqueue(q, n, {"shutdown"}), n, f, done, "reporting", broken)
         /\ Told(Enqueue(q, n, {"shutdown"}), n, f)
<1> DEFINE r == Enqueue(q, n, {"shutdown"})
<1>1. q \in Seq(Writes)
  BY DEF Coherent
<1>2. /\ r \in Seq(Writes) /\ Len(r) = Len(q) + 1 /\ Len(q) \in Nat /\ r # <<>>
      /\ \A i \in 1..Len(q) : r[i] = q[i]
      /\ r[Len(r)] = [state |-> n, waiters |-> {"shutdown"}]
      /\ \A i \in 1..Len(r) : i \in 1..Len(q) \/ i = Len(r)
  BY <1>1, Enqueued
<1> HIDE DEF r
<1>3. \A i \in 1..Len(r), j \in 1..Len(r) : i = Len(r) /\ i <= j => j = Len(r)
  BY <1>2, SMT
<1>4. \A i \in 1..Len(q) : "shutdown" \notin q[i].waiters
  BY DEF Coherent, AfterReport
<1>5. AfterReport(r, "reporting")
  BY <1>2, <1>3, <1>4 DEF AfterReport
<1>6. \A i \in 1..Len(r) : Honest(r[i].state, done)
  BY <1>2 DEF Coherent
<1>7. Coherent(r, n, f, done, "reporting", broken)
  BY <1>2, <1>5, <1>6 DEF Coherent, Shutdowns, Forwarded
<1>8. Told(r, n, f)
  BY <1>2 DEF Told
<1> QED BY <1>7, <1>8 DEF r

\* With the chain broken nothing is queued any more.
LEMMA BrokenCoheres ==
  ASSUME NEW q, NEW m, NEW f, NEW done, NEW stopping, NEW broken,
         Coherent(q, m, f, done, stopping, broken),
         NEW later \in Shutdowns, later # "no" => stopping # "no"
  PROVE  Coherent(<<>>, m, f, done, later, TRUE)
<1>1. <<>> \in Seq(Writes) /\ 1..Len(<<>>) = {}
  BY EmptySeq, SMT
<1> QED BY <1>1 DEF Coherent, AfterReport

----------------------------------------------------------------------------
(* What runWorker does between two awaits.                                 *)

\* The state a macrotask leaves.
Left(done) == /\ Coherent(queue', mem', file', done, shutdown', poisoned')
              /\ ~poisoned' => Told(queue', mem', file')

\* What it finds: q and m, as the macrotask has left them so far.
Found(q, m, done) == /\ Coherent(q, m, file', done, shutdown, poisoned)
                     /\ ~poisoned => Told(q, m, file')
                     /\ poisoned' = poisoned
                     /\ poisoned \in BOOLEAN

Whys == {"none", "signal", "error", "config", "unhandled", "killed"}

LEMMA Finishes ==
  ASSUME NEW q, NEW m, NEW done, Found(q, m, done), NEW why \in Whys \ {"killed"},
         Finish(why, q, m)
  PROVE  /\ Left(done) /\ main' \in {"stop", "settled"} /\ reason' \in Whys \ {"killed"}
         /\ mem' = m
         /\ shutdown' = shutdown \/ (shutdown \in Forwarded /\ shutdown' \in Forwarded)
<1>1. mem' = m /\ reason' \in Whys \ {"killed"}
  BY DEF Finish, Whys
<1>2. main' \in {"stop", "settled"}
  BY DEF Finish
<1>3. /\ Coherent(queue', m, file', done, shutdown, poisoned)
      /\ ~poisoned => Told(queue', m, file')
  <2>1. CASE q = <<>>
    BY <2>1 DEF Finish, Found
  <2>2. CASE q # <<>>
    <3>1. queue' = [q EXCEPT ![Len(q)].waiters = @ \cup {"main"}]
      BY <2>2 DEF Finish
    <3> QED BY <2>2, <3>1, AwaitCoheres DEF Found
  <2> QED BY <2>1, <2>2
<1>4. shutdown' = IF shutdown = "armed" THEN "cleared" ELSE shutdown
  BY DEF Finish
<1>5. Coherent(queue', m, file', done, shutdown', poisoned)
  <2>1. CASE shutdown = "armed"
    BY <1>3, <1>4, <2>1 DEF Coherent, AfterReport, Shutdowns, Forwarded
  <2>2. CASE shutdown # "armed"
    BY <1>3, <1>4, <2>2
  <2> QED BY <2>1, <2>2
<1> QED BY <1>1, <1>2, <1>3, <1>4, <1>5 DEF Left, Found, Forwarded

\* The catch block leaves a failure or a shutdown behind.
LEMMA Throws ==
  ASSUME NEW q, NEW m, NEW done, Found(q, m, done), NEW why \in Whys \ {"killed"},
         Throw(why, q, m)
  PROVE  /\ Left(done) /\ main' \in {"stop", "settled", "catch"}
         /\ reason' \in Whys \ {"killed"}
         /\ mem'.phase \in {"failed", "shutting-down"}
         /\ main' = "catch" => ~poisoned
         /\ shutdown' = shutdown \/ (shutdown \in Forwarded /\ shutdown' \in Forwarded)
<1> DEFINE failed == [m EXCEPT !.phase = "failed", !.child = "null"]
<1>1. m \in States /\ Honest(m, done)
  BY DEF Found, Coherent
<1>2. failed \in States /\ Honest(failed, done) /\ failed.phase = "failed"
  BY <1>1 DEF States, Honest, Phases
<1> HIDE DEF failed
<1>3. CASE ShuttingDown
  <2>1. Finish(why, q, m) /\ m.phase = "shutting-down"
    BY <1>3 DEF Throw, ShuttingDown, Found, Coherent
  <2> QED BY <2>1, Finishes
<1>4. CASE ~ShuttingDown /\ poisoned
  <2>1. Finish(why, q, failed)
    BY <1>4 DEF Throw, failed
  <2>2. Found(q, failed, done)
    BY <1>2, <1>4, StateCoheres DEF Found, ShuttingDown
  <2> QED BY <1>2, <2>1, <2>2, Finishes
<1>5. CASE ~ShuttingDown /\ ~poisoned
  <2>1. /\ main' = "catch" /\ reason' = why /\ mem' = failed
        /\ queue' = Enqueue(q, failed, {"main"}) /\ shutdown' = shutdown
    BY <1>5 DEF Throw, failed
  <2>2. Left(done)
    BY <1>2, <1>5, <2>1, EnqueueCoheres DEF Left, Found, ShuttingDown
  <2> QED BY <1>2, <1>5, <2>1, <2>2
<1> QED BY <1>3, <1>4, <1>5

----------------------------------------------------------------------------
(* The inductive invariant.                                                *)

Children == [command: Commands, state: Codes \cup {"running", "nospawn"},
             signal: {"none", "soft", "kill"}] \cup {NoChild}
Places == Listening \cup Ends \cup {"boot", "start"}

\* The state of the reporter is on its way to the file, unless runWorker ended
\* before there was a reporter.
Silent == main = "settled" /\ mem.phase = "initializing"
TellsAll == (main \notin {"boot", "exited"} /\ ~poisoned /\ ~Silent) => Told(queue, mem, file)

\* Where runWorker is, and what the child does meanwhile.
MainInv ==
  /\ mem.phase = "continuous-sync" => main \in {"phase3", "continuous", "exited"}
  /\ main = "phase2" => mem.child = "null"
  /\ ~poisoned /\ ChildRuns => main \in Awaiting \cup {"phase3"} \/ reason = "killed"
  /\ ~poisoned /\ child.signal = "soft" => shutdown \in Forwarded
  /\ reason = "killed" => main = "exited"
  /\ main = "boot" => queue = <<>> /\ shutdown = "no" /\ mem.phase = "initializing"
  /\ ~poisoned /\ ChildRuns /\ main # "exited" =>
       \A i \in 1..Len(queue) : ~({"main", "shutdown"} \subseteq queue[i].waiters)

IInv == /\ TypeOK
        /\ main # "exited" => Coherent(queue, mem, file, synced, shutdown, poisoned)
        /\ TellsAll
        /\ MainInv

\* The types follow from coherence.
LEMMA TypesOf ==
  ASSUME Coherent(queue, mem, file, synced, shutdown, poisoned),
         main \in Places, reason \in Whys, poisoned \in BOOLEAN, child \in Children,
         synced \in BOOLEAN
  PROVE  TypeOK
BY DEF TypeOK, Coherent, Writes, Shutdowns, Forwarded, Children, Places, Whys

LEMMA AwaitingIs ==
  /\ Awaiting = {"status", "setup", "initial", "continuous"}
  /\ \A at \in Awaiting : AwaitsRun[at] \in Commands
BY DEF Awaiting, AwaitsRun, Commands

LEMMA ListeningIs ==
  Listening = {"status", "setup", "initial", "continuous", "token", "phase1", "phase2",
               "phase3", "catch"}
BY AwaitingIs DEF Listening

\* After the catch block.
LEMMA Thrown ==
  ASSUME Left(synced'), main' \in {"stop", "settled", "catch"}, reason' \in Whys \ {"killed"},
         mem'.phase # "continuous-sync", child' \in Children,
         synced' \in BOOLEAN, poisoned' \in BOOLEAN,
         child'.state = "running" => poisoned',
         ~poisoned' /\ child'.signal = "soft" => shutdown' \in Forwarded
  PROVE  IInv'
<1>1. Coherent(queue', mem', file', synced', shutdown', poisoned')
  BY DEF Left
<1>2. main' \in Places
  BY DEF Places, Listening, Ends
<1>3. TypeOK'
  BY <1>1, <1>2, TypesOf DEF TypeOK, Coherent, Writes, Shutdowns, Forwarded, Children, Places, Whys
<1>4. TellsAll'
  BY DEF Left, TellsAll, Told, Silent
<1>5. MainInv'
  BY DEF MainInv, ChildRuns
<1> QED BY <1>1, <1>3, <1>4, <1>5 DEF IInv, Coherent, AfterReport, Honest

\* After a spawn, or an attempt at one.
LEMMA Runs ==
  ASSUME NEW q, NEW m, Found(q, m, synced'), m.phase # "continuous-sync",
         NEW at \in {"status", "setup", "initial"}, Run(at, q, m),
         synced' \in BOOLEAN, reason \in Whys \ {"killed"}
  PROVE  IInv'
<1> DEFINE command == AwaitsRun[at]
           spawned == [m EXCEPT !.child = command]
<1>1. at \in Awaiting /\ command \in Commands
  BY AwaitingIs
<1>2. m \in States /\ Honest(m, synced') /\ poisoned' = poisoned /\ poisoned \in BOOLEAN
  BY DEF Found, Coherent
<1>3. spawned \in States /\ Honest(spawned, synced') /\ spawned.phase = m.phase
  BY <1>1, <1>2 DEF States, Honest
<1>4. NoChild \in Children /\ NoChild.state # "running" /\ NoChild.signal = "none"
  BY DEF NoChild, Children
<1>5. \A state \in {"running", "nospawn"} : Child(command, state) \in Children
                                           /\ Child(command, state).signal = "none"
  BY <1>1 DEF Child, Children
<1> HIDE DEF command, spawned
<1>6. CASE ShuttingDown
  <2>1. Throw("signal", q, m) /\ child' = NoChild
    BY <1>6 DEF Run
  <2>2. "signal" \in Whys \ {"killed"}
    BY DEF Whys
  <2>3. /\ Left(synced') /\ main' \in {"stop", "settled", "catch"} /\ reason' \in Whys \ {"killed"}
        /\ mem'.phase \in {"failed", "shutting-down"}
    BY <2>1, <2>2, Throws
  <2> QED BY <1>2, <1>4, <2>1, <2>3, Thrown
<1>7. CASE ~ShuttingDown /\ child' = Child(command, "running") /\ poisoned
  <2>1. Throw("error", q, spawned)
    BY <1>7 DEF Run, command, spawned, Child
  <2>2. Found(q, spawned, synced')
    BY <1>3, <1>7, StateCoheres DEF Found, ShuttingDown
  <2>3. "error" \in Whys \ {"killed"}
    BY DEF Whys
  <2>4. /\ Left(synced') /\ main' \in {"stop", "settled", "catch"} /\ reason' \in Whys \ {"killed"}
        /\ mem'.phase \in {"failed", "shutting-down"}
    BY <2>1, <2>2, <2>3, Throws
  <2> QED BY <1>2, <1>5, <1>7, <2>4, Thrown
<1>8. ASSUME ~ShuttingDown, Left(synced'), main' = at, mem'.phase = m.phase, UNCHANGED <<reason, shutdown>>,
             child' \in Children, child'.signal = "none"
      PROVE  IInv'
  <2>1. Coherent(queue', mem', file', synced', shutdown', poisoned')
    BY <1>8 DEF Left
  <2>2. main' \in Places /\ main' \in Awaiting /\ main' \notin {"boot", "exited", "settled", "phase2"}
    BY <1>1, <1>8 DEF Places, Listening
  <2>3. TypeOK'
    BY <1>2, <1>8, <2>1, <2>2
       DEF TypeOK, Coherent, Writes, Shutdowns, Forwarded, Children, Places, Whys
  <2>4. TellsAll'
    BY <1>8 DEF Left, TellsAll, Told, Silent
  <2>5. \A i \in 1..Len(queue') : "shutdown" \notin queue'[i].waiters
    BY <1>8, <2>1 DEF Coherent, AfterReport, ShuttingDown
  <2>6. MainInv'
    BY <1>8, <2>2, <2>5 DEF MainInv, ChildRuns
  <2> QED BY <2>1, <2>3, <2>4, <2>6 DEF IInv, Coherent, AfterReport, Honest
<1>9. CASE ~ShuttingDown /\ child' = Child(command, "running") /\ ~poisoned
  <2>1. /\ main' = at /\ mem' = spawned /\ queue' = Enqueue(q, spawned, {"spawn"})
        /\ UNCHANGED <<reason, shutdown>>
    BY <1>9 DEF Run, command, spawned, Child
  <2>2. Left(synced')
    BY <1>2, <1>3, <1>9, <2>1, EnqueueCoheres DEF Left, Found, ShuttingDown
  <2> QED BY <1>3, <1>5, <1>8, <1>9, <2>1, <2>2
<1>10. CASE ~ShuttingDown /\ child' = Child(command, "nospawn")
  <2>1. /\ main' = at /\ mem' = m /\ queue' = q /\ UNCHANGED <<reason, shutdown>>
    BY <1>10 DEF Run, command, Child
  <2>2. Left(synced')
    BY <1>2, <2>1 DEF Left, Found
  <2> QED BY <1>5, <1>8, <1>10, <2>1, <2>2
<1> QED BY <1>6, <1>7, <1>9, <1>10 DEF Run, command

\* After a macrotask that leaves the worker where it is, or lets it go on.
LEMMA Stays ==
  ASSUME Coherent(queue', mem', file', synced', shutdown', poisoned'),
         main' \in Places, reason' \in Whys, poisoned' \in BOOLEAN, child' \in Children,
         synced' \in BOOLEAN, TellsAll', MainInv'
  PROVE  IInv'
<1>1. TypeOK'
  BY DEF TypeOK, Coherent, Writes, Shutdowns, Forwarded, Children, Places, Whys
<1> QED BY <1>1 DEF IInv, Coherent, AfterReport, Honest

\* After the end of the process.
LEMMA Exits ==
  ASSUME main' = "exited", queue' \in Seq(Writes), mem' \in States,
         file' \in States \cup Stale \cup {Absent}, reason' \in Whys,
         poisoned' \in BOOLEAN, child' \in Children, synced' \in BOOLEAN,
         shutdown' \in Shutdowns,
         ~poisoned' /\ child'.signal = "soft" => shutdown' \in Forwarded,
         child'.state = "running" /\ ~poisoned' => reason' = "killed"
  PROVE  IInv'
<1>1. TypeOK'
  BY DEF TypeOK, Writes, Shutdowns, Forwarded, Children, Places, Whys, Ends
<1>2. TellsAll'
  BY DEF TellsAll
<1>3. MainInv'
  BY DEF MainInv, ChildRuns
<1> QED BY <1>1, <1>2, <1>3 DEF IInv

\* The types, in the terms of this module.
LEMMA Typed ==
  ASSUME TypeOK
  PROVE  /\ main \in Places /\ reason \in Whys /\ poisoned \in BOOLEAN /\ child \in Children
         /\ synced \in BOOLEAN /\ mem \in States /\ queue \in Seq(Writes)
         /\ file \in States \cup Stale \cup {Absent} /\ shutdown \in Shutdowns
         /\ <<>> \in Seq(Writes)
BY EmptySeq DEF TypeOK, Places, Whys, Children, Writes, Shutdowns, Forwarded

\* What a signal does to the child.
LEMMA SignalledIs ==
  ASSUME child \in Children, NEW signal \in {"soft", "kill"}
  PROVE  /\ Signalled(signal) \in Children
         /\ Signalled(signal).state = child.state
         /\ Signalled(signal).signal \in {child.signal, signal}
<1>1. CASE ChildRuns
  <2>1. child \in [command: Commands, state: Codes \cup {"running", "nospawn"},
                   signal: {"none", "soft", "kill"}]
    BY <1>1 DEF ChildRuns, Children, NoChild
  <2> QED BY <1>1, <2>1 DEF Signalled, Children
<1>2. CASE ~ChildRuns
  BY <1>2 DEF Signalled
<1> QED BY <1>1, <1>2

\* A one-time sync that succeeds makes no snapshot less honest.
LEMMA DoneCoheres ==
  ASSUME NEW q, NEW m, NEW f, NEW done, NEW later, NEW stopping, NEW broken,
         Coherent(q, m, f, done, stopping, broken), done => later
  PROVE  Coherent(q, m, f, later, stopping, broken)
BY DEF Coherent, Honest

LEMMA InitialIs ==
  Initializing \in States /\ \A done : Honest(Initializing, done)
BY DEF Initializing, States, Honest, Phases

----------------------------------------------------------------------------
(* The steps.                                                              *)

LEMMA InitInv == Init => IInv
<1> SUFFICES ASSUME Init PROVE IInv
  OBVIOUS
<1>1. /\ <<>> \in Seq(Writes) /\ 1..Len(<<>>) = {}
  BY EmptySeq, SMT
<1>2. NoChild \in Children /\ NoChild.state = "none" /\ NoChild.signal = "none"
  BY DEF NoChild, Children
<1>3. Coherent(queue, mem, file, synced, shutdown, poisoned)
  BY <1>1, InitialIs DEF Init, Coherent, AfterReport, Shutdowns, Forwarded
<1>4. TypeOK
  BY <1>2, <1>3, TypesOf DEF Init, Places, Whys
<1>5. TellsAll /\ MainInv
  BY <1>2 DEF Init, TellsAll, MainInv, ChildRuns, Initializing
<1> QED BY <1>3, <1>4, <1>5 DEF IInv

LEMMA BootInv == IInv /\ Boot => IInv'
<1> SUFFICES ASSUME IInv, Boot PROVE IInv'
  OBVIOUS
<1>1. main = "boot" /\ UNCHANGED <<mem, poisoned, child, shutdown, synced>>
  BY DEF Boot
<1>2. Coherent(queue, mem, file, synced, shutdown, poisoned) /\ MainInv
  BY <1>1 DEF IInv
<1>3. /\ main \in Places /\ reason \in Whys /\ poisoned \in BOOLEAN /\ child \in Children
      /\ synced \in BOOLEAN
  BY Typed DEF IInv
<1>4. shutdown = "no" /\ queue = <<>> /\ mem.phase = "initializing" /\ mem \in States
      /\ Honest(mem, synced)
  BY <1>1, <1>2 DEF MainInv, Coherent
<1>5. Coherent(queue, mem, Absent, synced, shutdown, poisoned)
  BY <1>2, <1>4 DEF Coherent, Forwarded
<1>6. {"start", "settled"} \subseteq Places /\ {"config", "error"} \subseteq Whys
  BY DEF Places, Ends, Whys
<1>7. ~(~poisoned /\ ChildRuns)
  BY <1>1, <1>2, AwaitingIs DEF MainInv
<1>8. CASE file' = Absent /\ main' = "start" /\ queue' = Enqueue(queue, mem, {"main"})
           /\ UNCHANGED reason
  <2>1. /\ Coherent(queue', mem', file', synced', shutdown', poisoned')
        /\ Told(queue', mem', file')
    BY <1>1, <1>4, <1>5, <1>8, EnqueueCoheres
  <2>2. TellsAll'
    BY <2>1 DEF TellsAll, Told, Silent
  <2>3. MainInv'
    BY <1>1, <1>2, <1>4, <1>7, <1>8 DEF MainInv, ChildRuns
  <2> QED BY <1>1, <1>3, <1>6, <1>8, <2>1, <2>2, <2>3, Stays
<1>9. CASE main' = "settled" /\ queue' = queue
           /\ ((file' = Absent /\ reason' = "config") \/ (file' = file /\ reason' = "error"))
  <2>1. Coherent(queue', mem', file', synced', shutdown', poisoned')
    BY <1>1, <1>2, <1>5, <1>9
  <2>2. TellsAll'
    BY <1>1, <1>4, <1>9 DEF TellsAll, Silent
  <2>3. MainInv'
    BY <1>1, <1>2, <1>4, <1>7, <1>9 DEF MainInv, ChildRuns
  <2> QED BY <1>1, <1>3, <1>6, <1>9, <2>1, <2>2, <2>3, Stays
<1>10. \/ /\ file' = Absent /\ main' = "start" /\ queue' = Enqueue(queue, mem, {"main"})
          /\ UNCHANGED reason
       \/ /\ main' = "settled" /\ queue' = queue
          /\ ((file' = Absent /\ reason' = "config") \/ (file' = file /\ reason' = "error"))
  BY DEF Boot
<1> QED BY <1>8, <1>9, <1>10

LEMMA WorkerKilledInv == IInv /\ WorkerKilled => IInv'
<1> SUFFICES ASSUME IInv, WorkerKilled PROVE IInv'
  OBVIOUS
<1>1. /\ main' = "exited" /\ reason' = "killed" /\ queue' = <<>>
      /\ UNCHANGED <<mem, poisoned, file, child, shutdown, synced>>
  BY DEF WorkerKilled, Die
<1>2. ~poisoned /\ child.signal = "soft" => shutdown \in Forwarded
  BY DEF IInv, MainInv
<1> QED BY <1>1, <1>2, Typed, Exits DEF IInv, Whys

LEMMA ChildExitsInv == IInv /\ ChildExits => IInv'
<1> SUFFICES ASSUME IInv, ChildExits PROVE IInv'
  OBVIOUS
<1>1. /\ UNCHANGED <<main, reason, mem, queue, poisoned, file, shutdown, synced>>
      /\ \E code \in Codes : child' = [child EXCEPT !.state = code]
      /\ ChildRuns
  BY DEF ChildExits
<1>2. child' \in Children /\ child'.signal = child.signal /\ child'.state # "running"
  BY <1>1, Typed DEF IInv, Children, ChildRuns, NoChild, Codes
<1>3. MainInv'
  BY <1>1, <1>2 DEF IInv, MainInv, ChildRuns
<1>4. TellsAll'
  BY <1>1 DEF IInv, TellsAll, Silent
<1>5. CASE main = "exited"
  BY <1>1, <1>2, <1>3, <1>4, <1>5 DEF IInv, TypeOK, Children
<1>6. CASE main # "exited"
  BY <1>1, <1>2, <1>3, <1>4, <1>6, Typed, Stays DEF IInv
<1> QED BY <1>5, <1>6

LEMMA HeartbeatInv == IInv /\ Heartbeat => IInv'
<1> SUFFICES ASSUME IInv, Heartbeat PROVE IInv'
  OBVIOUS
<1>1. /\ main \in Listening /\ queue' = Enqueue(queue, mem, {})
      /\ UNCHANGED <<main, reason, mem, poisoned, file, child, shutdown, synced>>
  BY DEF Heartbeat
<1>2. main \notin {"boot", "exited"}
  BY <1>1, ListeningIs
<1>3. Coherent(queue, mem, file, synced, shutdown, poisoned) /\ mem \in States
      /\ Honest(mem, synced) /\ (shutdown # "no" => mem.phase = "shutting-down")
  BY <1>2 DEF IInv, Coherent
<1>4. /\ Coherent(queue', mem', file', synced', shutdown', poisoned')
      /\ Told(queue', mem', file')
  BY <1>1, <1>3, EnqueueCoheres
<1>5. TellsAll'
  BY <1>4 DEF TellsAll, Told, Silent
<1>6. ASSUME ~poisoned, ChildRuns, NEW i \in 1..Len(queue')
      PROVE  ~({"main", "shutdown"} \subseteq queue'[i].waiters)
  <2> DEFINE r == Enqueue(queue, mem, {})
  <2>1. /\ queue \in Seq(Writes)
        /\ \A j \in 1..Len(queue) : ~({"main", "shutdown"} \subseteq queue[j].waiters)
    BY <1>2, <1>3, <1>6 DEF IInv, MainInv, Coherent
  <2>2. {} \in SUBSET {"main", "spawn", "shutdown"}
    OBVIOUS
  <2>4. /\ r \in Seq(Writes) /\ Len(r) = Len(queue) + 1 /\ Len(queue) \in Nat /\ r # <<>>
        /\ \A j \in 1..Len(queue) : r[j] = queue[j]
        /\ r[Len(r)] = [state |-> mem, waiters |-> {}]
        /\ \A j \in 1..Len(r) : j \in 1..Len(queue) \/ j = Len(r)
    BY <1>3, <2>1, <2>2, Enqueued
  <2> HIDE DEF r
  <2>3. queue' = r /\ i \in 1..Len(r)
    BY <1>1, <1>6 DEF r
  <2> QED BY <2>1, <2>3, <2>4
<1>7. MainInv'
  BY <1>1, <1>2, <1>6 DEF IInv, MainInv, ChildRuns
<1> QED BY <1>1, <1>4, <1>5, <1>7, Typed, Stays DEF IInv

LEMMA ProcessEndsInv == IInv /\ ProcessEnds => IInv'
<1> SUFFICES ASSUME IInv, ProcessEnds PROVE IInv'
  OBVIOUS
<1>1. /\ main' = "exited" /\ child = NoChild
      /\ UNCHANGED <<reason, mem, queue, poisoned, file, child, shutdown, synced>>
  BY DEF ProcessEnds
<1>2. child.state = "none" /\ child.signal = "none"
  BY <1>1 DEF NoChild
<1> QED BY <1>1, <1>2, Typed, Exits DEF IInv

LEMMA ForceTimerInv == IInv /\ ForceTimer => IInv'
<1> SUFFICES ASSUME IInv, ForceTimer PROVE IInv'
  OBVIOUS
<1>1. /\ main # "exited" /\ shutdown = "armed" /\ shutdown' = "fired"
      /\ child' = Signalled("kill")
      /\ UNCHANGED <<main, reason, mem, queue, poisoned, file, synced>>
  BY DEF ForceTimer
<1>2. child' \in Children /\ child'.state = child.state
      /\ child'.signal \in {child.signal, "kill"}
  BY <1>1, Typed, SignalledIs DEF IInv
<1>3. Coherent(queue', mem', file', synced', shutdown', poisoned')
  BY <1>1 DEF IInv, Coherent, AfterReport, Shutdowns, Forwarded
<1>4. TellsAll'
  BY <1>1 DEF IInv, TellsAll, Silent
<1>5. MainInv'
  BY <1>1, <1>2 DEF IInv, MainInv, ChildRuns, Forwarded
<1> QED BY <1>1, <1>2, <1>3, <1>4, <1>5, Typed, Stays DEF IInv

LEMMA SignalInv == IInv /\ Signal => IInv'
<1> SUFFICES ASSUME IInv, Signal PROVE IInv'
  OBVIOUS
<1> DEFINE n == [mem EXCEPT !.phase = "shutting-down"]
<1>1. main \in Listening /\ main \notin {"boot", "exited"} /\ UNCHANGED <<main, reason, poisoned, file, synced>>
  BY ListeningIs DEF Signal
<1>2. Coherent(queue, mem, file, synced, shutdown, poisoned) /\ MainInv /\ TypeOK /\ TellsAll
  BY <1>1 DEF IInv
<1>3. n \in States /\ Honest(n, synced) /\ n.phase = "shutting-down" /\ n.child = mem.child
  BY <1>2 DEF Coherent, States, Honest, Phases
<1>4. /\ Signalled("soft") \in Children /\ Signalled("soft").state = child.state
      /\ Signalled("kill") \in Children /\ Signalled("kill").state = child.state
      /\ Signalled("kill").signal \in {child.signal, "kill"}
  BY <1>2, Typed, SignalledIs
<1> HIDE DEF n
<1>5. CASE ~ShuttingDown /\ poisoned
  <2>1. /\ mem' = n /\ child' = Signalled("soft") /\ shutdown' = "armed" /\ queue' = queue
    BY <1>5 DEF Signal, n
  <2>2. Coherent(queue', mem', file', synced', shutdown', poisoned')
    BY <1>1, <1>2, <1>3, <1>5, <2>1 DEF Coherent, AfterReport, Shutdowns, Forwarded, ShuttingDown
  <2>3. TellsAll'
    BY <1>1, <1>5 DEF TellsAll
  <2>4. MainInv'
    BY <1>1, <1>2, <1>3, <1>5, <2>1 DEF MainInv, ChildRuns, Forwarded
  <2> QED BY <1>1, <1>2, <1>4, <2>1, <2>2, <2>3, <2>4, Typed, Stays
<1>6. CASE ~ShuttingDown /\ ~poisoned
  <2>1. /\ mem' = n /\ child' = child /\ shutdown' = "reporting"
        /\ queue' = Enqueue(queue, n, {"shutdown"})
    BY <1>6 DEF Signal, n
  <2>2. shutdown = "no"
    BY <1>6 DEF ShuttingDown
  <2>3. /\ Coherent(queue', mem', file', synced', shutdown', poisoned')
        /\ Told(queue', mem', file')
    BY <1>1, <1>2, <1>3, <2>1, <2>2, ReportCoheres
  <2>4. TellsAll'
    BY <2>3 DEF TellsAll, Told, Silent
  <2>5. ASSUME NEW i \in 1..Len(queue')
        PROVE  ~({"main", "shutdown"} \subseteq queue'[i].waiters)
    <3> DEFINE r == Enqueue(queue, n, {"shutdown"})
    <3>1. /\ queue \in Seq(Writes)
          /\ \A j \in 1..Len(queue) : "shutdown" \notin queue[j].waiters
      BY <1>2, <2>2 DEF Coherent, AfterReport
    <3>2. {"shutdown"} \in SUBSET {"main", "spawn", "shutdown"}
      OBVIOUS
    <3>3. /\ r \in Seq(Writes) /\ Len(r) = Len(queue) + 1 /\ Len(queue) \in Nat /\ r # <<>>
          /\ \A j \in 1..Len(queue) : r[j] = queue[j]
          /\ r[Len(r)] = [state |-> n, waiters |-> {"shutdown"}]
          /\ \A j \in 1..Len(r) : j \in 1..Len(queue) \/ j = Len(r)
      BY <1>3, <3>1, <3>2, Enqueued
    <3> HIDE DEF r
    <3>4. queue' = r /\ i \in 1..Len(r)
      BY <2>1, <2>5 DEF r
    <3>5. CASE i \in 1..Len(queue)
      BY <3>1, <3>3, <3>4, <3>5
    <3>6. CASE i = Len(r)
      BY <3>3, <3>4, <3>6
    <3> QED BY <3>3, <3>4, <3>5, <3>6
  <2>6. MainInv'
    BY <1>1, <1>2, <1>3, <2>1, <2>2, <2>5 DEF MainInv, ChildRuns, Forwarded
  <2> QED BY <1>1, <1>2, <2>1, <2>3, <2>4, <2>6, Typed, Stays
<1>7. CASE ShuttingDown
  <2>1. child' = Signalled("kill") /\ UNCHANGED <<mem, queue, shutdown>>
    BY <1>7 DEF Signal
  <2>2. TellsAll'
    BY <1>1, <1>2, <2>1 DEF TellsAll, Silent
  <2>3. MainInv'
    BY <1>1, <1>2, <1>4, <2>1 DEF MainInv, ChildRuns
  <2> QED BY <1>1, <1>2, <1>4, <2>1, <2>2, <2>3, Typed, Stays
<1> QED BY <1>5, <1>6, <1>7

LEMMA TokenWrittenInv == IInv /\ TokenWritten => IInv'
<1> SUFFICES ASSUME IInv, TokenWritten PROVE IInv'
  OBVIOUS
<1>1. main = "token" /\ UNCHANGED <<poisoned, file, synced>>
  BY DEF TokenWritten
<1>2. Coherent(queue, mem, file, synced, shutdown, poisoned) /\ MainInv /\ TypeOK /\ TellsAll
  BY <1>1 DEF IInv
<1>3. /\ poisoned \in BOOLEAN /\ synced \in BOOLEAN /\ child \in Children
      /\ reason \in Whys \ {"killed"} /\ mem.phase # "continuous-sync"
      /\ ~(~poisoned /\ ChildRuns)
  BY <1>1, <1>2, Typed, AwaitingIs DEF MainInv
<1>4. Found(queue, mem, synced')
  BY <1>1, <1>2, <1>3 DEF Found, TellsAll, Silent
<1>5. CASE Run("status", queue, mem)
  BY <1>1, <1>3, <1>4, <1>5, Runs
<1>6. CASE Throw("error", queue, mem) /\ UNCHANGED child
  <2>1. "error" \in Whys \ {"killed"}
    BY DEF Whys
  <2>2. /\ Left(synced') /\ main' \in {"stop", "settled", "catch"} /\ reason' \in Whys \ {"killed"}
        /\ mem'.phase \in {"failed", "shutting-down"}
        /\ shutdown' = shutdown \/ (shutdown \in Forwarded /\ shutdown' \in Forwarded)
    BY <1>4, <1>6, <2>1, Throws
  <2>3. ~poisoned' /\ child'.signal = "soft" => shutdown' \in Forwarded
    BY <1>1, <1>2, <1>6, <2>2 DEF MainInv
  <2> QED BY <1>1, <1>3, <1>6, <2>2, <2>3, Thrown DEF ChildRuns
<1> QED BY <1>5, <1>6 DEF TokenWritten

LEMMA WriteFailsInv == IInv /\ WriteFails => IInv'
<1> SUFFICES ASSUME IInv, WriteFails PROVE IInv'
  OBVIOUS
<1>1. /\ main # "exited" /\ queue # <<>> /\ poisoned' = TRUE
      /\ child' = IF "shutdown" \in Waiters THEN Signalled("soft") ELSE child
      /\ UNCHANGED <<file, synced>>
  BY DEF WriteFails
<1>2. Coherent(queue, mem, file, synced, shutdown, poisoned) /\ MainInv /\ TypeOK
  BY <1>1 DEF IInv
<1>3. /\ child' \in Children
      /\ child'.signal = "soft" => "shutdown" \in Waiters \/ child.signal = "soft"
  BY <1>1, <1>2, Typed, SignalledIs
<1>4. "shutdown" \in Waiters => shutdown # "no"
  BY <1>2 DEF Waiters, Coherent, AfterReport
<1>5. CASE main = "phase3"
  <2>1. main' = "exited" /\ reason' = "unhandled" /\ queue' = <<>> /\ UNCHANGED <<mem, shutdown>>
    BY <1>5 DEF WriteFails, Die
  <2> QED BY <1>1, <1>2, <1>3, <2>1, Typed, Exits DEF Whys
<1>6. CASE main # "phase3"
  <2>1. /\ queue' = <<>>
        /\ main' = IF Rejected THEN "settled" ELSE main
        /\ reason' = IF Rejected THEN "error" ELSE reason
        /\ mem' = IF Rejected /\ ~ShuttingDown /\ main \in Listening \ {"catch"}
                  THEN [mem EXCEPT !.phase = "failed", !.child = "null"]
                  ELSE mem
    BY <1>6 DEF WriteFails
  <2>2. /\ shutdown' \in Shutdowns
        /\ shutdown' # "no" => shutdown # "no"
        /\ shutdown # "no" => shutdown' # "no"
    <3>1. shutdown' \in
             CASE "shutdown" \in Waiters -> {"armed"} \cup
                    (IF Rejected /\ main \in Listening THEN {"cleared"} ELSE {})
               [] "shutdown" \notin Waiters /\ Rejected /\ shutdown = "armed" -> {"cleared"}
               [] OTHER -> {shutdown}
      BY <1>6 DEF WriteFails
    <3> QED BY <1>2, <1>4, <3>1 DEF Coherent, Shutdowns, Forwarded
  <2>3. mem' \in States /\ Honest(mem', synced)
        /\ (shutdown # "no" => mem'.phase = "shutting-down")
    BY <1>2, <2>1 DEF Coherent, States, Honest, Phases, ShuttingDown
  <2>4. Coherent(queue', mem', file', synced', shutdown', poisoned')
    <3>1. Coherent(queue, mem', file, synced, shutdown, poisoned)
      BY <1>2, <2>3, StateCoheres
    <3> QED BY <1>1, <2>1, <2>2, <3>1, BrokenCoheres
  <2>5. main' \in Places /\ reason' \in Whys
    BY <1>2, <2>1, Typed DEF Places, Ends, Whys
  <2>6. TellsAll'
    BY <1>1 DEF TellsAll
  <2>7. main \notin {"exited", "boot"} /\ reason # "killed"
    BY <1>1, <1>2 DEF MainInv
  <2>8. mem'.phase = "continuous-sync" => main' \in {"phase3", "continuous"}
    <3>1. CASE mem.phase # "continuous-sync"
      BY <1>2, <2>1, <3>1 DEF TypeOK, States
    <3>2. CASE mem.phase = "continuous-sync"
      <4>1. main = "continuous" /\ shutdown = "no"
        BY <1>1, <1>2, <1>6, <3>2 DEF MainInv, Coherent
      <4>2. CASE Rejected
        <5>1. mem' = [mem EXCEPT !.phase = "failed", !.child = "null"]
          BY <2>1, <4>1, <4>2, ListeningIs DEF ShuttingDown
        <5> QED BY <1>2, <5>1 DEF TypeOK, States
      <4>3. CASE ~Rejected
        BY <2>1, <4>1, <4>3
      <4> QED BY <4>2, <4>3
    <3> QED BY <3>1, <3>2
  <2>9. main' = "phase2" => mem'.child = "null"
    BY <1>2, <2>1 DEF MainInv
  <2>10. MainInv'
    BY <1>1, <2>1, <2>7, <2>8, <2>9 DEF MainInv
  <2> QED BY <1>1, <1>2, <1>3, <2>4, <2>5, <2>6, <2>10, Typed, Stays
<1> QED BY <1>5, <1>6

\* An update that is awaited, with no child alive.
LEMMA Updates ==
  ASSUME NEW q, NEW m, Found(q, m, synced'), NEW n \in States, Honest(n, synced'),
         n.phase # "continuous-sync", n.child = "null", ~ShuttingDown,
         NEW at \in {"phase1", "phase2"}, Update(at, q, n), child' = NoChild,
         synced' \in BOOLEAN, reason \in Whys \ {"killed"}
  PROVE  IInv'
<1>1. NoChild \in Children /\ NoChild.state = "none" /\ NoChild.signal = "none"
  BY DEF NoChild, Children
<1>2. poisoned' = poisoned /\ poisoned \in BOOLEAN
  BY DEF Found
<1>3. CASE poisoned
  <2>1. Throw("error", q, n) /\ "error" \in Whys \ {"killed"}
    BY <1>3 DEF Update, Whys
  <2>2. Found(q, n, synced')
    BY <1>3, StateCoheres DEF Found, ShuttingDown
  <2>3. /\ Left(synced') /\ main' \in {"stop", "settled", "catch"} /\ reason' \in Whys \ {"killed"}
        /\ mem'.phase \in {"failed", "shutting-down"}
    BY <2>1, <2>2, Throws
  <2> QED BY <1>1, <1>2, <2>3, Thrown
<1>4. CASE ~poisoned
  <2>1. /\ main' = at /\ mem' = n /\ queue' = Enqueue(q, n, {"main"})
        /\ UNCHANGED <<reason, shutdown>>
    BY <1>4 DEF Update
  <2>2. /\ Coherent(queue', mem', file', synced', shutdown', poisoned')
        /\ Told(queue', mem', file')
    BY <1>2, <2>1, EnqueueCoheres DEF Found, ShuttingDown
  <2>3. main' \in Places
    BY <2>1, ListeningIs DEF Places
  <2>4. TellsAll'
    BY <2>2 DEF TellsAll, Told, Silent
  <2>5. MainInv'
    BY <1>1, <2>1 DEF MainInv, ChildRuns
  <2> QED BY <1>1, <1>2, <2>1, <2>2, <2>3, <2>4, <2>5, Stays
<1> QED BY <1>3, <1>4

LEMMA ChildClosedInv == IInv /\ ChildClosed => IInv'
<1> SUFFICES ASSUME IInv, ChildClosed PROVE IInv'
  OBVIOUS
<1> DEFINE m == [mem EXCEPT !.child = "null"]
           q == IF poisoned THEN queue ELSE Enqueue(queue, m, {})
<1>1. /\ main # "exited" /\ ~ChildRuns /\ UNCHANGED <<poisoned, file>>
      /\ synced' = (synced \/ (main = "initial" /\ child.state = "zero"))
  BY DEF ChildClosed
<1>2. Coherent(queue, mem, file, synced, shutdown, poisoned) /\ MainInv /\ TypeOK /\ TellsAll
  BY <1>1 DEF IInv
<1>3. /\ poisoned \in BOOLEAN /\ synced' \in BOOLEAN /\ main \in Places
      /\ reason \in Whys \ {"killed"}
  BY <1>1, <1>2, Typed DEF MainInv
<1>4. m \in States /\ Honest(m, synced') /\ m.child = "null" /\ m.phase = mem.phase
      /\ (shutdown # "no" => m.phase = "shutting-down")
  BY <1>1, <1>2 DEF Coherent, States, Honest
<1>5. NoChild \in Children /\ NoChild.state = "none" /\ NoChild.signal = "none"
  BY DEF NoChild, Children
<1>6. Coherent(queue, mem, file, synced', shutdown, poisoned)
  <2>1. synced => synced'
    BY <1>1
  <2> QED BY <1>2, <2>1, DoneCoheres, Zenon
<1> DEFINE Rest == \/ /\ main \in Awaiting
                      /\ Closed(q, m)
                   \/ /\ main = "phase3"
                      /\ Die("unhandled")
                      /\ mem' = m /\ child' = NoChild
                      /\ UNCHANGED shutdown
                   \/ /\ main \in Ends \cup {"catch"}
                      /\ child' = NoChild /\ mem' = m /\ queue' = q
                      /\ UNCHANGED <<main, reason, shutdown>>
<1>7. Rest
  BY DEF ChildClosed
<1> HIDE DEF m
<1>8. Found(q, m, synced')
  <2>1. CASE poisoned
    BY <1>1, <1>3, <1>4, <1>6, <2>1, StateCoheres DEF Found
  <2>2. CASE ~poisoned
    <3>1. {} \in SUBSET {"main", "spawn"} /\ q = Enqueue(queue, m, {})
      BY <2>2
    <3>2. Coherent(q, m, file, synced', shutdown, poisoned) /\ Told(q, m, file)
      BY <1>4, <1>6, <3>1, EnqueueCoheres
    <3> QED BY <1>1, <1>3, <3>2 DEF Found
  <2> QED BY <2>1, <2>2
<1> HIDE DEF q
<1>9. ASSUME NEW why \in Whys \ {"killed"}, Throw(why, q, m), child' = NoChild
      PROVE  IInv'
  <2>1. /\ Left(synced') /\ main' \in {"stop", "settled", "catch"} /\ reason' \in Whys \ {"killed"}
        /\ mem'.phase \in {"failed", "shutting-down"}
    BY <1>8, <1>9, Throws
  <2> QED BY <1>1, <1>3, <1>5, <1>9, <2>1, Thrown
<1>10. CASE main \in Awaiting /\ Closed(q, m)
  <2>1. "error" \in Whys \ {"killed"} /\ "signal" \in Whys \ {"killed"}
    BY DEF Whys
  <2>2. CASE ShuttingDown
    BY <1>9, <1>10, <2>1, <2>2 DEF Closed
  <2>3. CASE ~ShuttingDown /\ ~Accepted(main, child.state) /\ Throw("error", q, m)
             /\ child' = NoChild
    BY <1>9, <2>1, <2>3
  <2>4. CASE main = "status" /\ Run("setup", q, m)
    <3>1. m.phase # "continuous-sync"
      BY <1>2, <1>4, <2>4 DEF MainInv
    <3> QED BY <1>3, <1>8, <2>4, <3>1, Runs
  <2>5. CASE ~ShuttingDown /\ Update("phase1", q, [m EXCEPT !.phase = "initial-sync"])
             /\ child' = NoChild
    <3> DEFINE n == [m EXCEPT !.phase = "initial-sync"]
    <3>1. n \in States /\ Honest(n, synced') /\ n.phase # "continuous-sync" /\ n.child = "null"
      BY <1>4 DEF States, Honest, Phases
    <3> HIDE DEF n
    <3>2. Update("phase1", q, n)
      BY <2>5 DEF n
    <3> QED BY <1>3, <1>8, <2>5, <3>1, <3>2, Updates
  <2>6. CASE ~ShuttingDown /\ main = "initial" /\ Accepted(main, child.state)
             /\ Update("phase2", q, [m EXCEPT !.complete = TRUE]) /\ child' = NoChild
    <3> DEFINE n == [m EXCEPT !.complete = TRUE]
    <3>1. synced' = TRUE
      BY <1>1, <2>6 DEF Accepted
    <3>2. m.phase # "continuous-sync"
      BY <1>2, <1>4, <2>6 DEF MainInv
    <3>3. n \in States /\ Honest(n, synced') /\ n.phase # "continuous-sync" /\ n.child = "null"
      BY <1>4, <3>1, <3>2 DEF States, Honest
    <3> HIDE DEF n
    <3>4. Update("phase2", q, n)
      BY <2>6 DEF n
    <3> QED BY <1>3, <1>8, <2>6, <3>3, <3>4, Updates
  <2> QED BY <1>10, <2>2, <2>3, <2>4, <2>5, <2>6 DEF Closed
<1>11. CASE main = "phase3" /\ Die("unhandled") /\ mem' = m /\ child' = NoChild
            /\ UNCHANGED shutdown
  <2>1. main' = "exited" /\ reason' = "unhandled" /\ queue' = <<>>
    BY <1>11 DEF Die
  <2>2. file' \in States \cup Stale \cup {Absent} /\ shutdown' \in Shutdowns
        /\ queue' \in Seq(Writes) /\ poisoned' \in BOOLEAN /\ "unhandled" \in Whys
    BY <1>1, <1>2, <1>11, <2>1, Typed DEF Whys
  <2> QED BY <1>3, <1>4, <1>5, <1>11, <2>1, <2>2, Exits
<1>12. CASE main \in Ends \cup {"catch"} /\ child' = NoChild /\ mem' = m /\ queue' = q
            /\ UNCHANGED <<main, reason, shutdown>>
  <2>1. Coherent(queue', mem', file', synced', shutdown', poisoned')
    BY <1>1, <1>8, <1>12 DEF Found
  <2>2. TellsAll'
    BY <1>1, <1>8, <1>12 DEF Found, TellsAll, Silent
  <2>3. MainInv'
    BY <1>1, <1>2, <1>4, <1>5, <1>12 DEF MainInv, ChildRuns, Ends
  <2> QED BY <1>1, <1>3, <1>5, <1>12, <2>1, <2>2, <2>3, Stays
<1> QED BY <1>7, <1>10, <1>11, <1>12

LEMMA WriteLandsInv == IInv /\ WriteLands => IInv'
<1> SUFFICES ASSUME IInv, WriteLands PROVE IInv'
  OBVIOUS
<1> DEFINE q == Tail(queue)
<1>1. /\ main # "exited" /\ queue # <<>> /\ file' = Head(queue).state
      /\ UNCHANGED <<poisoned, synced>>
  BY DEF WriteLands
<1>2. Coherent(queue, mem, file, synced, shutdown, poisoned) /\ MainInv /\ TypeOK /\ TellsAll
  BY <1>1 DEF IInv
<1>3. /\ poisoned \in BOOLEAN /\ synced \in BOOLEAN /\ main \in Places /\ child \in Children
      /\ reason \in Whys \ {"killed"} /\ main # "boot" /\ mem \in States
  BY <1>1, <1>2, Typed DEF MainInv
<1>4. /\ Coherent(q, mem, file', synced, shutdown, poisoned)
      /\ Told(queue, mem, file) => Told(q, mem, file')
      /\ "shutdown" \in Head(queue).waiters
           => Coherent(q, mem, file', synced, "armed", poisoned)
      /\ Head(queue) \in Writes /\ Head(queue) = queue[1] /\ 1 \in 1..Len(queue)
  BY <1>1, <1>2, LandCoheres
<1>5. ~poisoned /\ ~Silent => Told(q, mem, file')
  BY <1>1, <1>2, <1>3, <1>4 DEF TellsAll
<1>6. ~poisoned /\ ChildRuns =>
        \A i \in 1..Len(q) : ~({"main", "shutdown"} \subseteq q[i].waiters)
  <2>1. queue \in Seq(Writes)
    BY <1>2 DEF Coherent
  <2>2. \A i \in 1..Len(q) : q[i] = queue[i + 1] /\ i + 1 \in 1..Len(queue)
    BY <1>1, <2>1, SMT
  <2> HIDE DEF q
  <2> QED BY <1>1, <1>2, <2>2 DEF MainInv
<1> DEFINE Rest == \/ /\ Head(queue).waiters \subseteq {"spawn"}
                      /\ queue' = q
                      /\ UNCHANGED <<main, reason, mem, child, shutdown>>
                   \/ /\ "shutdown" \in Head(queue).waiters
                      /\ child' = Signalled("soft")
                      /\ shutdown' = "armed"
                      /\ main' = IF "main" \in Head(queue).waiters THEN "settled" ELSE main
                      /\ queue' = q
                      /\ UNCHANGED <<reason, mem>>
                   \/ Resume(q)
<1>7. Rest
  BY DEF WriteLands
<1> HIDE DEF q
<1>8. CASE queue' = q /\ UNCHANGED <<main, reason, mem, child, shutdown>>
  <2>1. TellsAll'
    BY <1>1, <1>5, <1>8 DEF TellsAll, Silent
  <2>2. MainInv'
    BY <1>1, <1>2, <1>3, <1>6, <1>8 DEF MainInv, ChildRuns
  <2> QED BY <1>1, <1>3, <1>4, <1>8, <2>1, <2>2, Stays
<1>9. CASE /\ "shutdown" \in Head(queue).waiters
           /\ child' = Signalled("soft")
           /\ shutdown' = "armed"
           /\ main' = IF "main" \in Head(queue).waiters THEN "settled" ELSE main
           /\ queue' = q
           /\ UNCHANGED <<reason, mem>>
  <2>1. child' \in Children /\ child'.state = child.state
    BY <1>3, <1>9, SignalledIs
  <2>2. mem.phase = "shutting-down"
    BY <1>2, <1>4, <1>9 DEF Coherent, AfterReport
  <2>3. main' \in Places /\ main' \notin {"boot", "exited"}
    BY <1>1, <1>3, <1>9 DEF Places, Ends
  <2>5. TellsAll'
    BY <1>1, <1>5, <1>9, <2>2 DEF TellsAll, Silent
  <2>6. ~poisoned /\ ChildRuns => main' = main
    BY <1>1, <1>2, <1>4, <1>9 DEF MainInv
  <2>7. main' = "phase2" => main = "phase2"
    BY <1>9
  <2>8. MainInv'
    BY <1>1, <1>2, <1>3, <1>6, <1>9, <2>1, <2>2, <2>3, <2>6, <2>7
       DEF MainInv, ChildRuns, Forwarded
  <2> QED BY <1>1, <1>3, <1>4, <1>9, <2>1, <2>3, <2>5, <2>8, Stays
<1>10. CASE Resume(q)
  <2>1. main \in {"start", "phase1", "phase2", "phase3", "catch", "stop"} /\ ~Silent
    BY <1>10 DEF Resume, Silent
  <2>2. Found(q, mem, synced') /\ (~poisoned => Told(q, mem, file'))
    BY <1>1, <1>3, <1>4, <1>5, <2>1 DEF Found
  <2>3. main # "phase3" => ~(~poisoned /\ ChildRuns)
    BY <1>2, <1>3, <2>1, AwaitingIs DEF MainInv
  <2>4. main # "phase3" => mem.phase # "continuous-sync"
    BY <1>2, <2>1 DEF MainInv
  <2>5. CASE /\ queue' = q /\ UNCHANGED <<mem, reason, shutdown, child>>
             /\ \/ main = "start" /\ main' = "token"
                \/ main = "phase3" /\ main' = "continuous"
                \/ main = "stop" /\ main' = "settled"
    <3>1. main' \in Places /\ main' \notin {"boot", "exited", "phase2"}
      BY <2>5, ListeningIs DEF Places, Ends
    <3>2. TellsAll'
      BY <1>1, <2>2, <2>5 DEF TellsAll
    <3>3. ~poisoned /\ ChildRuns => main' = "continuous"
      BY <2>3, <2>5
    <3>4. MainInv'
      BY <1>1, <1>2, <1>3, <1>6, <2>4, <2>5, <3>1, <3>3, AwaitingIs DEF MainInv, ChildRuns
    <3> QED BY <1>1, <1>3, <1>4, <2>5, <3>1, <3>2, <3>4, Stays
  <2>6. CASE main = "phase1" /\ Run("initial", q, mem)
    BY <1>1, <1>3, <2>2, <2>4, <2>6, Runs
  <2>7. CASE main = "phase2" /\ StartContinuous(q)
    <3> DEFINE phased == [mem EXCEPT !.phase = "continuous-sync"]
               spawned == [phased EXCEPT !.child = "continuous"]
    <3>1. mem.child = "null"
      BY <1>2, <2>7 DEF MainInv
    <3>2. phased \in States /\ Honest(phased, synced)
      BY <1>4, <3>1 DEF Coherent, States, Honest, Phases
    <3>3. spawned \in States /\ Honest(spawned, synced)
      BY <3>2 DEF States, Honest, Commands
    <3> HIDE DEF phased, spawned
    <3>4. CASE Die("unhandled") /\ mem' = phased /\ UNCHANGED <<child, shutdown>>
      <4>1. main' = "exited" /\ reason' = "unhandled" /\ queue' = <<>>
        BY <3>4 DEF Die
      <4>2. file' \in States \cup Stale \cup {Absent} /\ shutdown' \in Shutdowns
            /\ queue' \in Seq(Writes) /\ "unhandled" \in Whys
            /\ (~poisoned' /\ child'.signal = "soft" => shutdown' \in Forwarded)
        BY <1>1, <1>2, <1>4, <3>4, <4>1, Typed DEF Coherent, MainInv, Whys
      <4>3. ~(child'.state = "running" /\ ~poisoned')
        BY <1>1, <2>3, <2>7, <3>4 DEF ChildRuns
      <4> QED BY <1>1, <1>3, <3>2, <3>4, <4>1, <4>2, <4>3, Exits
    <3>5. CASE /\ ~ShuttingDown /\ main' = "phase3" /\ mem' = spawned
               /\ queue' = Enqueue(Enqueue(q, phased, {"main"}), spawned, {"spawn"})
               /\ child' = Child("continuous", "running")
               /\ UNCHANGED <<reason, shutdown>>
      <4>1. shutdown = "no"
        BY <3>5 DEF ShuttingDown
      <4>2. Coherent(Enqueue(q, phased, {"main"}), phased, file', synced, shutdown, poisoned)
        BY <1>4, <3>2, <4>1, EnqueueCoheres
      <4>3. /\ Coherent(queue', mem', file', synced', shutdown', poisoned')
            /\ Told(queue', mem', file')
        BY <1>1, <3>3, <3>5, <4>1, <4>2, EnqueueCoheres
      <4>4. \A i \in 1..Len(queue') : "shutdown" \notin queue'[i].waiters
        BY <3>5, <4>1, <4>3 DEF Coherent, AfterReport
      <4>5. child' \in Children /\ child'.signal = "none" /\ main' \in Places
        BY <3>5, ListeningIs DEF Child, Children, Commands, Places
      <4>6. TellsAll'
        BY <4>3 DEF TellsAll, Told, Silent
      <4>7. MainInv'
        BY <1>3, <3>5, <4>4, <4>5 DEF MainInv, ChildRuns
      <4> QED BY <1>1, <1>3, <3>5, <4>3, <4>5, <4>6, <4>7, Stays
    <3> QED BY <2>7, <3>4, <3>5 DEF StartContinuous, phased, spawned
  <2>8. CASE main = "catch" /\ Finish(reason, q, mem) /\ UNCHANGED child
    <3>1. /\ Left(synced') /\ main' \in {"stop", "settled"} /\ reason' \in Whys \ {"killed"}
          /\ mem' = mem
          /\ shutdown' = shutdown \/ (shutdown \in Forwarded /\ shutdown' \in Forwarded)
      BY <1>3, <2>2, <2>8, Finishes
    <3>2. /\ child'.state = "running" => poisoned'
          /\ ~poisoned' /\ child'.signal = "soft" => shutdown' \in Forwarded
      BY <1>1, <1>2, <1>3, <2>3, <2>8, <3>1 DEF ChildRuns, MainInv
    <3> QED BY <1>1, <1>3, <2>4, <2>8, <3>1, <3>2, Thrown
  <2> QED BY <1>10, <2>5, <2>6, <2>7, <2>8 DEF Resume
<1> QED BY <1>7, <1>8, <1>9, <1>10

LEMMA StepInv == IInv /\ [Next]_vars => IInv'
<1> SUFFICES ASSUME IInv, [Next]_vars PROVE IInv'
  OBVIOUS
<1>1. CASE UNCHANGED vars
  <2>1. TypeOK'
    BY <1>1 DEF IInv, TypeOK, vars
  <2>2. TellsAll' /\ MainInv'
    BY <1>1 DEF IInv, TellsAll, Silent, MainInv, ChildRuns, vars
  <2>3. main' # "exited" => Coherent(queue', mem', file', synced', shutdown', poisoned')
    BY <1>1 DEF IInv, vars
  <2> QED BY <2>1, <2>2, <2>3 DEF IInv, Coherent, AfterReport, Honest
<1> QED BY <1>1, BootInv, WriteLandsInv, WriteFailsInv, TokenWrittenInv, ChildClosedInv,
           SignalInv, ForceTimerInv, HeartbeatInv, ProcessEndsInv, WorkerKilledInv,
           ChildExitsInv DEF Next

LEMMA Inductive == Spec => []IInv
<1>1. Init => IInv
  BY InitInv
<1>2. IInv /\ [Next]_vars => IInv'
  BY StepInv
<1> QED BY <1>1, <1>2, PTL DEF Spec

----------------------------------------------------------------------------
(* The results.                                                            *)

\* Every variable holds a value of its type.
THEOREM TypeCorrect == Spec => []TypeOK
<1>1. IInv => TypeOK
  BY DEF IInv
<1> QED BY <1>1, Inductive, PTL

\* The readiness contract holds of the file at any moment, whatever an earlier
\* worker left behind: ready is told only by a snapshot that was honest.
THEOREM ReadyIsSound == Spec => []ReadySound
<1>1. IInv => ReadySound
  <2> SUFFICES ASSUME IInv, Ready(file) PROVE synced /\ ChildRuns /\ child.command = "continuous"
    BY DEF ReadySound
  <2>1. main # "exited" /\ ChildRuns /\ file.child = child.command
    BY DEF Ready, Live, WorkerAlive, ChildAlive
  <2>2. file.complete /\ file.phase = "continuous-sync" /\ file.child # "null"
    BY DEF Ready
  <2>3. child.command \in Commands
    BY <2>1, Typed DEF IInv, ChildRuns, Children, NoChild
  <2>4. file \notin Stale \cup {Absent}
    BY <2>1, <2>2, <2>3 DEF Stale, Absent, Commands
  <2>5. Honest(file, synced)
    BY <2>1, <2>4 DEF IInv, Coherent
  <2> QED BY <2>1, <2>2, <2>5 DEF Honest
<1> QED BY <1>1, Inductive, PTL

\* When no write is outstanding the file says what the worker knows, whatever
\* order heartbeats, child events and signals queued their writes in.
THEOREM CatchesUp == Spec => []FileCatchesUp
<1>1. IInv => FileCatchesUp
  BY ListeningIs DEF IInv, FileCatchesUp, TellsAll, Silent, Told
<1> QED BY <1>1, Inductive, PTL

\* While health writes succeed, the child gets SIGTERM only after the file has
\* stopped saying that the worker is live.
THEOREM ReportsFirst == Spec => []ReportsBeforeForwarding
<1>1. IInv => ReportsBeforeForwarding
  BY DEF IInv, ReportsBeforeForwarding, MainInv, Coherent, Live, WorkerAlive
<1> QED BY <1>1, Inductive, PTL

\* While health writes succeed, no failure of the worker's own leaves a child
\* without a worker that listens.
THEOREM NoChildIsOrphaned == Spec => []NoOrphan
<1>1. IInv => NoOrphan
  BY ListeningIs, AwaitingIs DEF IInv, NoOrphan, MainInv
<1> QED BY <1>1, Inductive, PTL
=============================================================================
