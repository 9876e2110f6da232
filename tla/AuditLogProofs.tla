---------------------------- MODULE AuditLogProofs ----------------------------
(***************************************************************************)
(* Proofs about the audit recorder, for any numbers of calls and daily     *)
(* files, with crashes and short writes at any moment.                     *)
(***************************************************************************)
EXTENDS AuditLog, SequenceTheorems, TLAPS

\* What is known of a call: a line that was written has reached its end, one
\* that was synced or acknowledged is within the durable part of its file, and
\* a call that was acknowledged writes no more.
Ended(f, c) == \E i \in 1..Len(f) : f[i].call = c /\ f[i].part # "head"
Within(f, k, c) == \A i \in 1..Len(f) : f[i].call = c => i <= k

CallInv(c) ==
  /\ pc[c] \in {"written", "synced"} => Ended(files[DayOf[c]], c)
  /\ pc[c] = "synced" => Within(files[DayOf[c]], durable[DayOf[c]], c)
  /\ answer[c] = "ok" => /\ pc[c] = "returned"
                         /\ Ended(files[DayOf[c]], c)
                         /\ Within(files[DayOf[c]], durable[DayOf[c]], c)

IInv == TypeOK /\ \A c \in Calls : CallInv(c)

----------------------------------------------------------------------------
(* Appending.                                                              *)

LEMMA Appended ==
  ASSUME NEW f \in Seq(Parts), NEW p \in Parts
  PROVE  /\ Append(f, p) \in Seq(Parts)
         /\ Len(Append(f, p)) = Len(f) + 1
         /\ \A i \in 1..Len(f) : Append(f, p)[i] = f[i]
         /\ Append(f, p)[Len(f) + 1] = p
         /\ Len(f) \in Nat
BY SMT

\* The line of a call stays whole when somebody appends, and stays within the
\* durable part when somebody else does.
LEMMA AppendKeeps ==
  ASSUME NEW f \in Seq(Parts), NEW p \in Parts, NEW c \in Calls, NEW k \in Nat
  PROVE  /\ Ended(f, c) => Ended(Append(f, p), c)
         /\ p.call # c /\ Within(f, k, c) => Within(Append(f, p), k, c)
         /\ p.call = c /\ p.part # "head" => Ended(Append(f, p), c)
<1> DEFINE g == Append(f, p)
<1>1. /\ Len(g) = Len(f) + 1 /\ Len(f) \in Nat
      /\ \A i \in 1..Len(f) : g[i] = f[i]
      /\ g[Len(f) + 1] = p
  BY Appended
<1> HIDE DEF g
<1>2. 1..Len(f) \subseteq 1..Len(g) /\ Len(f) + 1 \in 1..Len(g)
  BY <1>1, SMT
<1>3. \A i \in 1..Len(g) : i \in 1..Len(f) \/ i = Len(f) + 1
  BY <1>1, SMT
<1>4. Ended(f, c) => Ended(g, c)
  BY <1>1, <1>2 DEF Ended
<1>5. p.call # c /\ Within(f, k, c) => Within(g, k, c)
  BY <1>1, <1>3 DEF Within
<1>6. p.call = c /\ p.part # "head" => Ended(g, c)
  BY <1>1, <1>2 DEF Ended
<1> QED BY <1>4, <1>5, <1>6 DEF g

----------------------------------------------------------------------------
(* Crashing.                                                               *)

\* What remains of a file is a beginning of it, perhaps with a head after it.
LEMMA RemainsOf ==
  ASSUME NEW f \in Seq(Parts), NEW k \in Nat, k <= Len(f), NEW g \in Remains(f, k)
  PROVE  /\ g \in Seq(Parts) /\ k <= Len(g)
         /\ \A i \in 1..k : g[i] = f[i]
         /\ \A i \in 1..Len(g) :
              /\ i \in 1..Len(f) /\ g[i].call = f[i].call
              /\ g[i] = f[i] \/ (i = Len(g) /\ g[i].part = "head" /\ g[i].call \in Cut)
<1>0. Len(f) \in Nat
  OBVIOUS
<1>1. ASSUME NEW n \in k..Len(f), g = SubSeq(f, 1, n)
      PROVE  /\ g \in Seq(Parts) /\ Len(g) = n /\ \A i \in 1..n : g[i] = f[i]
  BY <1>0, <1>1, SMT
<1>2. CASE \E n \in k..Len(f) : g = SubSeq(f, 1, n)
  BY <1>0, <1>1, <1>2, SMT
<1>3. CASE \E n \in k..Len(f) - 1 : /\ g = Append(SubSeq(f, 1, n), Part(f[n + 1].call, "head"))
                                   /\ f[n + 1].call \in Cut
  <2>1. PICK n \in k..Len(f) - 1 : /\ g = Append(SubSeq(f, 1, n), Part(f[n + 1].call, "head"))
                                  /\ f[n + 1].call \in Cut
    BY <1>3
  <2>2. n \in Nat /\ n \in 0..Len(f) /\ k <= n /\ n + 1 \in 1..Len(f)
    BY <1>0, SMT
  <2> DEFINE h == SubSeq(f, 1, n)
             p == Part(f[n + 1].call, "head")
  <2>3. h \in Seq(Parts) /\ Len(h) = n /\ \A i \in 1..n : h[i] = f[i]
    BY <2>2, SMT
  <2>4. f[n + 1] \in Parts
    BY <2>2
  <2>5. p \in Parts /\ p.call = f[n + 1].call /\ p.part = "head" /\ p.call \in Cut
    BY <2>1, <2>4 DEF Parts, Part
  <2> HIDE DEF h, p
  <2>6. g = Append(h, p)
    BY <2>1 DEF h, p
  <2>7. /\ g \in Seq(Parts) /\ Len(g) = n + 1
        /\ \A i \in 1..n : g[i] = f[i]
        /\ g[n + 1] = p
    BY <2>3, <2>5, <2>6, Appended
  <2>8. \A i \in 1..Len(g) :
          /\ i \in 1..Len(f) /\ g[i].call = f[i].call
          /\ g[i] = f[i] \/ (i = Len(g) /\ g[i].part = "head" /\ g[i].call \in Cut)
    <3> SUFFICES ASSUME NEW i \in 1..Len(g)
                 PROVE  /\ i \in 1..Len(f) /\ g[i].call = f[i].call
                        /\ g[i] = f[i] \/ (i = Len(g) /\ g[i].part = "head" /\ g[i].call \in Cut)
      OBVIOUS
    <3>1. CASE i \in 1..n
      BY <2>2, <2>7, <3>1, SMT
    <3>2. CASE i = n + 1
      BY <2>2, <2>5, <2>7, <3>2
    <3> QED BY <2>2, <2>7, <3>1, <3>2, SMT
  <2> QED BY <2>2, <2>7, <2>8, SMT
<1> QED BY <1>2, <1>3 DEF Remains

LEMMA CrashKeeps ==
  ASSUME NEW f \in Seq(Parts), NEW k \in Nat, k <= Len(f), NEW g \in Remains(f, k),
         NEW c \in Calls, Ended(f, c), Within(f, k, c)
  PROVE  Ended(g, c) /\ Within(g, k, c)
<1>1. /\ g \in Seq(Parts) /\ k <= Len(g)
      /\ \A i \in 1..k : g[i] = f[i]
      /\ \A i \in 1..Len(g) : i \in 1..Len(f) /\ g[i].call = f[i].call
  BY RemainsOf
<1>2. PICK i \in 1..Len(f) : f[i].call = c /\ f[i].part # "head"
  BY DEF Ended
<1>3. i \in 1..k
  BY <1>2 DEF Within
<1>4. i \in 1..Len(g)
  BY <1>1, <1>3, SMT
<1> QED BY <1>1, <1>2, <1>3, <1>4 DEF Ended, Within

----------------------------------------------------------------------------
(* Steps.                                                                  *)

LEMMA InitInv == Init => IInv
<1> SUFFICES ASSUME Init PROVE IInv
  OBVIOUS
<1>1. TypeOK
  BY EmptySeq DEF Init, TypeOK
<1>2. ASSUME NEW c \in Calls PROVE CallInv(c)
  BY <1>2 DEF Init, CallInv
<1> QED BY <1>1, <1>2 DEF IInv

\* A call appends a part of its line.
Appends(c, part) ==
  /\ pc[c] \in {"opened", "short"}
  /\ AppendPart(c, part)
  /\ \/ pc' = [pc EXCEPT ![c] = "short"]
     \/ part # "head" /\ pc' = [pc EXCEPT ![c] = "written"]
  /\ UNCHANGED <<durable, answer>>

LEMMA AppendStep ==
  ASSUME IInv, NEW c \in Calls, NEW part \in {"whole", "head", "tail"}, Appends(c, part)
  PROVE  IInv'
<1> DEFINE day == DayOf[c]
           p == Part(c, part)
<1>1. /\ day \in Days /\ p \in Parts /\ p.call = c /\ p.part = part
      /\ \A d \in Days : files[d] \in Seq(Parts) /\ durable[d] \in Nat /\ durable[d] <= Len(files[d])
  BY DayOfAssumption DEF IInv, TypeOK, Part, Parts
<1>2. files' = [files EXCEPT ![day] = Append(files[day], p)]
  BY DEF Appends, AppendPart
<1>3. \A d \in Days : files'[d] = IF d = day THEN Append(files[day], p) ELSE files[d]
  BY <1>2 DEF IInv, TypeOK
<1> HIDE DEF p
<1>4. TypeOK'
  <2>1. Append(files[day], p) \in Seq(Parts) /\ Len(Append(files[day], p)) = Len(files[day]) + 1
    BY <1>1, Appended
  <2>2. files' \in [Days -> Seq(Parts)]
    BY <1>1, <1>2, <2>1 DEF IInv, TypeOK
  <2>3. ASSUME NEW d \in Days PROVE durable'[d] <= Len(files'[d])
    <3>1. durable'[d] = durable[d] /\ durable[d] \in Nat /\ Len(files[d]) \in Nat
      BY <1>1 DEF Appends
    <3>2. Len(files'[d]) = Len(files[d]) + 1 \/ files'[d] = files[d]
      BY <1>3, <2>1
    <3> QED BY <1>1, <3>1, <3>2, SMT
  <2>4. pc' \in [Calls -> {"new", "opened", "short", "written", "synced", "returned", "lost"}]
    BY DEF IInv, TypeOK, Appends
  <2> QED BY <2>2, <2>3, <2>4 DEF IInv, TypeOK, Appends
<1>5. ASSUME NEW o \in Calls PROVE CallInv(o)'
  <2>1. DayOf[o] \in Days /\ CallInv(o)
    BY DayOfAssumption DEF IInv
  <2>2. durable' = durable /\ answer' = answer
    BY DEF Appends
  <2>3. CASE o = c
    <3>1. pc[o] \in {"opened", "short"} /\ answer[o] # "ok"
      BY <2>1, <2>3 DEF Appends, CallInv
    <3>2. pc'[o] = "short" \/ (pc'[o] = "written" /\ part # "head")
      BY <2>3 DEF Appends, IInv, TypeOK
    <3>3. part # "head" => Ended(files'[DayOf[o]], o)
      BY <1>1, <1>3, <2>3, AppendKeeps
    <3> QED BY <2>2, <3>1, <3>2, <3>3 DEF CallInv
  <2>4. CASE o # c
    <3>1. pc'[o] = pc[o]
      BY <2>4 DEF Appends, IInv, TypeOK
    <3>2. Ended(files[DayOf[o]], o) => Ended(files'[DayOf[o]], o)
      BY <1>1, <1>3, <2>1, AppendKeeps
    <3>3. Within(files[DayOf[o]], durable[DayOf[o]], o)
            => Within(files'[DayOf[o]], durable[DayOf[o]], o)
      BY <1>1, <1>3, <2>1, <2>4, AppendKeeps
    <3> QED BY <2>1, <2>2, <3>1, <3>2, <3>3 DEF CallInv
  <2> QED BY <2>3, <2>4
<1> QED BY <1>4, <1>5 DEF IInv

LEMMA SyncStep ==
  ASSUME IInv, NEW c \in Calls, Sync(c)
  PROVE  IInv'
<1>1. /\ DayOf[c] \in Days
      /\ \A d \in Days : files[d] \in Seq(Parts) /\ Len(files[d]) \in Nat
                         /\ durable[d] \in Nat /\ durable[d] <= Len(files[d])
  BY DayOfAssumption, SMT DEF IInv, TypeOK
<1>2. \A d \in Days : durable'[d] = IF d = DayOf[c] THEN Len(files[d]) ELSE durable[d]
  BY DEF Sync, IInv, TypeOK
<1>3. TypeOK'
  <2>1. durable' \in [Days -> Nat]
    BY <1>1 DEF Sync, IInv, TypeOK
  <2>2. \A d \in Days : durable'[d] <= Len(files'[d])
    BY <1>1, <1>2, SMT DEF Sync
  <2>3. pc' \in [Calls -> {"new", "opened", "short", "written", "synced", "returned", "lost"}]
    BY DEF IInv, TypeOK, Sync
  <2> QED BY <2>1, <2>2, <2>3 DEF IInv, TypeOK, Sync
<1>4. ASSUME NEW o \in Calls PROVE CallInv(o)'
  <2>1. DayOf[o] \in Days /\ CallInv(o)
    BY DayOfAssumption DEF IInv
  <2>2. Within(files[DayOf[o]], durable[DayOf[o]], o)
          => Within(files[DayOf[o]], durable'[DayOf[o]], o)
    BY <1>1, <1>2, <2>1, SMT DEF Within
  <2>3. CASE o = c
    <3>1. Within(files[DayOf[o]], durable'[DayOf[o]], o)
      BY <1>1, <1>2, <2>3, SMT DEF Within
    <3>2. pc[o] = "written" /\ pc'[o] = "synced" /\ files' = files /\ answer' = answer
      BY <2>3 DEF Sync, IInv, TypeOK
    <3> QED BY <2>1, <3>1, <3>2 DEF CallInv
  <2>4. CASE o # c
    <3>1. pc'[o] = pc[o] /\ files' = files /\ answer' = answer
      BY <2>4 DEF Sync, IInv, TypeOK
    <3> QED BY <2>1, <2>2, <3>1 DEF CallInv
  <2> QED BY <2>3, <2>4
<1> QED BY <1>3, <1>4 DEF IInv

LEMMA CrashStep ==
  ASSUME IInv, Crash
  PROVE  IInv'
<1>1. \A d \in Days : files[d] \in Seq(Parts) /\ durable[d] \in Nat /\ durable[d] <= Len(files[d])
  BY DEF IInv, TypeOK
<1>2. \A d \in Days : files'[d] \in Remains(files[d], durable[d])
  BY DEF Crash
<1>3. \A d \in Days : files'[d] \in Seq(Parts) /\ durable[d] <= Len(files'[d])
  BY <1>1, <1>2, RemainsOf
<1>4. durable' = durable /\ answer' = answer
  BY DEF Crash
<1>5. \A c \in Calls : pc'[c] = IF pc[c] \in {"new", "returned"} THEN pc[c] ELSE "lost"
  BY DEF Crash
<1>6. TypeOK'
  <2>1. files' \in [Days -> Seq(Parts)]
    BY <1>3 DEF Crash
  <2>2. pc' \in [Calls -> {"new", "opened", "short", "written", "synced", "returned", "lost"}]
    BY DEF Crash
  <2> QED BY <1>3, <1>4, <2>1, <2>2 DEF IInv, TypeOK
<1>7. ASSUME NEW c \in Calls PROVE CallInv(c)'
  <2>1. CallInv(c) /\ DayOf[c] \in Days
    BY DayOfAssumption DEF IInv
  <2>2. pc'[c] \notin {"written", "synced"} /\ (pc[c] = "returned" => pc'[c] = "returned")
    BY <1>5
  <2>3. answer[c] = "ok" => /\ Ended(files'[DayOf[c]], c)
                            /\ Within(files'[DayOf[c]], durable[DayOf[c]], c)
    BY <1>1, <1>2, <2>1, CrashKeeps DEF CallInv
  <2> QED BY <1>4, <2>1, <2>2, <2>3 DEF CallInv
<1> QED BY <1>6, <1>7 DEF IInv

\* The other steps leave the files alone, and a call is acknowledged only when
\* it has synced.
LEMMA QuietStep ==
  ASSUME IInv, NEW c \in Calls, Open(c) \/ WriteFails(c) \/ SyncFails(c) \/ Close(c)
  PROVE  IInv'
<1>1. files' = files /\ durable' = durable
  BY DEF Open, WriteFails, SyncFails, Close
<1>2. /\ pc'[c] \in {"opened", "returned"}
      /\ answer'[c] = "ok" => pc'[c] = "returned" /\ (answer[c] = "ok" \/ pc[c] = "synced")
      /\ \A o \in Calls : o # c => pc'[o] = pc[o] /\ answer'[o] = answer[o]
  <2>1. CallInv(c)
    BY DEF IInv
  <2>2. CASE Open(c)
    BY <2>1, <2>2 DEF Open, Return, IInv, TypeOK, CallInv
  <2>3. CASE WriteFails(c) \/ SyncFails(c)
    BY <2>1, <2>3 DEF WriteFails, SyncFails, Return, IInv, TypeOK, CallInv
  <2>4. CASE Close(c)
    BY <2>1, <2>4 DEF Close, Return, IInv, TypeOK, CallInv
  <2> QED BY <2>2, <2>3, <2>4
<1>3. TypeOK'
  <2>1. /\ pc' \in [Calls -> {"new", "opened", "short", "written", "synced", "returned", "lost"}]
        /\ answer' \in [Calls -> {"none", "ok", "error"}]
    BY DEF Open, WriteFails, SyncFails, Close, Return, IInv, TypeOK
  <2> QED BY <1>1, <2>1 DEF IInv, TypeOK
<1>4. ASSUME NEW o \in Calls PROVE CallInv(o)'
  <2>1. CallInv(o)
    BY DEF IInv
  <2>2. CASE o = c
    BY <1>1, <1>2, <2>1, <2>2 DEF CallInv
  <2>3. CASE o # c
    BY <1>1, <1>2, <2>1, <2>3 DEF CallInv
  <2> QED BY <2>2, <2>3
<1> QED BY <1>3, <1>4 DEF IInv

LEMMA NextInv == IInv /\ [Next]_vars => IInv'
<1> SUFFICES ASSUME IInv, [Next]_vars PROVE IInv'
  OBVIOUS
<1>1. ASSUME NEW c \in Calls, Open(c) \/ WriteFails(c) \/ SyncFails(c) \/ Close(c) PROVE IInv'
  BY <1>1, QuietStep
<1>2. ASSUME NEW c \in Calls, WriteLine(c) PROVE IInv'
  BY <1>2, AppendStep DEF WriteLine, Appends
<1>3. ASSUME NEW c \in Calls, WriteHead(c) PROVE IInv'
  BY <1>3, AppendStep DEF WriteHead, Appends
<1>4. ASSUME NEW c \in Calls, WriteTail(c) PROVE IInv'
  BY <1>4, AppendStep DEF WriteTail, Appends
<1>5. ASSUME NEW c \in Calls, Sync(c) PROVE IInv'
  BY <1>5, SyncStep
<1>6. CASE Crash
  BY <1>6, CrashStep
<1>7. CASE UNCHANGED vars
  BY <1>7 DEF IInv, TypeOK, CallInv, vars
<1> QED BY <1>1, <1>2, <1>3, <1>4, <1>5, <1>6, <1>7 DEF Next

----------------------------------------------------------------------------
(* The theorems.                                                           *)

\* Types, and that no more of a file is durable than there is of it.
THEOREM TypeCorrect == Spec => []TypeOK
<1>1. IInv => TypeOK
  BY DEF IInv
<1> QED BY <1>1, InitInv, NextInv, PTL DEF Spec

\* What was acknowledged survives: every part of an acknowledged record that was
\* written, its end among them, is in the durable part of its file.
THEOREM AcknowledgedSurvives == Spec => []AcknowledgedIsDurable
<1>1. IInv => AcknowledgedIsDurable
  <2> SUFFICES ASSUME IInv, NEW c \in Calls, answer[c] = "ok"
               PROVE  LET f == files[DayOf[c]]
                          parts == {i \in DOMAIN f : f[i].call = c}
                      IN  /\ \E i \in parts : f[i].part # "head"
                          /\ \A i \in parts : i <= durable[DayOf[c]]
    BY DEF AcknowledgedIsDurable
  <2>1. /\ Ended(files[DayOf[c]], c) /\ Within(files[DayOf[c]], durable[DayOf[c]], c)
        /\ files[DayOf[c]] \in Seq(Parts)
    BY DayOfAssumption DEF IInv, CallInv, TypeOK
  <2>2. DOMAIN files[DayOf[c]] = 1..Len(files[DayOf[c]])
    BY <2>1
  <2> QED BY <2>1, <2>2 DEF Ended, Within
<1> QED BY <1>1, InitInv, NextInv, PTL DEF Spec

----------------------------------------------------------------------------
(* The recorder keeps the promise of AuditTrail while nothing follows a    *)
(* fragment.                                                               *)

\* After a part that does not end its line comes more of that line, or nothing.
NothingFollowsAFragment ==
  \A d \in Days : \A i \in 1..Len(files[d]) - 1 :
    files[d][i].part = "head" => files[d][i + 1].call = files[d][i].call

\* Where a reader finds the line of a call.
LineAt(f, c, i) ==
  /\ i = 1 \/ f[i - 1].part # "head"
  /\ \/ f[i] = Part(c, "whole")
     \/ f[i] = Part(c, "head") /\ i < Len(f) /\ f[i + 1] = Part(c, "tail")
Line(f, c) == \E i \in 1..Len(f) : LineAt(f, c, i)
Silent(f, c) == \A i \in 1..Len(f) : f[i].call # c

\* A call that has written nothing has no part in its file, one that was cut
\* short is the last in it, and the line of one that wrote it all can be read.
LineInv(c) ==
  /\ pc[c] # "returned" => answer[c] = "none"
  /\ pc[c] \in {"new", "opened"} => Silent(files[DayOf[c]], c)
  /\ pc[c] = "short" => LET f == files[DayOf[c]] IN
       /\ Len(f) # 0 /\ f[Len(f)] = Part(c, "head")
       /\ \A i \in 1..Len(f) - 1 : f[i].call # c
  /\ pc[c] \in {"written", "synced"} \/ answer[c] = "ok" => Line(files[DayOf[c]], c)

LEMMA ReadableIs ==
  ASSUME TypeOK, NEW c \in Calls
  PROVE  c \in Readable <=> Line(files[DayOf[c]], c)
<1>1. files[DayOf[c]] \in Seq(Parts)
  BY DayOfAssumption DEF TypeOK
<1>2. DOMAIN files[DayOf[c]] = 1..Len(files[DayOf[c]])
  BY <1>1
<1> QED BY <1>2 DEF Readable, ReadableIn, StartsLine, Line, LineAt

LEMMA PartsAre ==
  \A c \in Calls : \A part \in {"whole", "head", "tail"} :
    /\ Part(c, part) \in Parts
    /\ Part(c, part).call = c /\ Part(c, part).part = part
    /\ \A p \in Parts : p = Part(c, part) <=> p.call = c /\ p.part = part
<1> SUFFICES ASSUME NEW c \in Calls, NEW part \in {"whole", "head", "tail"}
             PROVE  /\ Part(c, part) \in Parts
                    /\ Part(c, part).call = c /\ Part(c, part).part = part
                    /\ \A p \in Parts : p = Part(c, part) <=> p.call = c /\ p.part = part
  OBVIOUS
<1> QED BY DEF Part, Parts

\* A part that is appended ends no line but its own, and only a part with a
\* newline ends one.
LEMMA AppendLines ==
  ASSUME NEW f \in Seq(Parts), NEW p \in Parts, NEW c \in Calls
  PROVE  /\ Line(f, c) => Line(Append(f, p), c)
         /\ Line(Append(f, p), c) => Line(f, c) \/ (p.call = c /\ p.part # "head")
         /\ p = Part(c, "whole") /\ (Len(f) = 0 \/ f[Len(f)].part # "head")
              => Line(Append(f, p), c)
         /\ p = Part(c, "tail") /\ Len(f) # 0 /\ f[Len(f)] = Part(c, "head")
            /\ (Len(f) = 1 \/ f[Len(f) - 1].part # "head")
              => Line(Append(f, p), c)
<1> DEFINE g == Append(f, p)
           n == Len(f)
<1>1. /\ Len(g) = n + 1 /\ n \in Nat
      /\ \A i \in 1..n : g[i] = f[i]
      /\ g[n + 1] = p
  BY Appended
<1> HIDE DEF g, n
<1>2. ASSUME NEW i \in 1..n
      PROVE  /\ g[i] = f[i] /\ i \in 1..Len(g) /\ i \in Nat
             /\ i = 1 \/ (i - 1 \in 1..n /\ g[i - 1] = f[i - 1])
             /\ i < n => i < Len(g) /\ g[i + 1] = f[i + 1]
             /\ i < Len(g) /\ ~ (i < n) => i = n /\ g[i + 1] = p
  <2>1. i = 1 \/ i - 1 \in 1..n
    BY <1>1
  <2>2. i < n => i + 1 \in 1..n
    BY <1>1
  <2> QED BY <1>1, <2>1, <2>2
<1>3. ASSUME NEW i \in 1..n
      PROVE  /\ LineAt(f, c, i) => LineAt(g, c, i)
             /\ LineAt(g, c, i) => LineAt(f, c, i) \/ p = Part(c, "tail")
  BY <1>2 DEF LineAt, n
<1>4. \A i \in 1..Len(g) : i \in 1..n \/ i = n + 1
  BY <1>1
<1>5. Line(f, c) => Line(g, c)
  BY <1>2, <1>3 DEF Line, n
<1>6. Line(g, c) => Line(f, c) \/ (p.call = c /\ p.part # "head")
  <2>1. SUFFICES ASSUME NEW i \in 1..Len(g), LineAt(g, c, i)
                 PROVE  Line(f, c) \/ (p.call = c /\ p.part # "head")
    BY DEF Line
  <2>2. CASE i \in 1..n
    BY <1>3, <2>1, <2>2, PartsAre DEF Line, n
  <2>3. CASE i = n + 1
    <3>1. ~ (i < Len(g)) /\ g[i] = p
      BY <1>1, <2>3
    <3> QED BY <2>1, <3>1, PartsAre DEF LineAt
  <2> QED BY <1>4, <2>2, <2>3
<1>7. ASSUME p = Part(c, "whole"), n = 0 \/ f[n].part # "head"
      PROVE  Line(g, c)
  <2>1. n + 1 \in 1..Len(g) /\ (n + 1) - 1 = n /\ (n + 1 = 1 \/ n \in 1..n)
    BY <1>1
  <2>2. n + 1 = 1 \/ g[(n + 1) - 1].part # "head"
    BY <1>1, <1>7, <2>1
  <2>3. LineAt(g, c, n + 1)
    BY <1>1, <1>7, <2>2 DEF LineAt
  <2> QED BY <2>1, <2>3 DEF Line
<1>8. ASSUME p = Part(c, "tail"), n # 0, f[n] = Part(c, "head"),
             n = 1 \/ f[n - 1].part # "head"
      PROVE  Line(g, c)
  <2>1. n \in 1..n /\ n < Len(g) /\ (n = 1 \/ n - 1 \in 1..n)
    BY <1>1, <1>8
  <2>2. LineAt(g, c, n)
    BY <1>1, <1>8, <2>1 DEF LineAt
  <2> QED BY <1>2, <2>1, <2>2 DEF Line
<1> QED BY <1>5, <1>6, <1>7, <1>8 DEF g, n

\* A crash adds no line, and takes none that is durable.
LEMMA CrashLines ==
  ASSUME NEW f \in Seq(Parts), NEW k \in Nat, k <= Len(f), NEW g \in Remains(f, k),
         NEW c \in Calls
  PROVE  /\ Line(g, c) => Line(f, c)
         /\ Line(f, c) /\ Within(f, k, c) => Line(g, c)
         /\ Silent(f, c) => Silent(g, c)
<1>0. Len(f) \in Nat /\ k \in Nat
  OBVIOUS
<1>1. /\ g \in Seq(Parts) /\ k <= Len(g) /\ Len(g) \in Nat
      /\ \A i \in 1..k : g[i] = f[i]
      /\ \A i \in 1..Len(g) :
           /\ i \in 1..Len(f) /\ g[i].call = f[i].call
           /\ g[i] = f[i] \/ (i = Len(g) /\ g[i].part = "head" /\ g[i].call \in Cut)
  BY RemainsOf
<1>2. ASSUME NEW i \in 1..Len(g)
      PROVE  /\ i \in 1..Len(f) /\ i \in Nat
             /\ i = 1 \/ (i - 1 \in 1..Len(g) /\ i - 1 < Len(g))
             /\ i < Len(g) => i + 1 \in 1..Len(g) /\ i < Len(f) /\ i # Len(g)
  <2>1. i < Len(g) => i + 1 \in 1..Len(g)
    BY <1>1
  <2>2. i < Len(g) => i < Len(f)
    BY <1>0, <1>1, <2>1
  <2>3. i = 1 \/ (i - 1 \in 1..Len(g) /\ i - 1 < Len(g))
    BY <1>1
  <2> QED BY <1>1, <2>1, <2>2, <2>3
<1>3. ASSUME NEW i \in 1..Len(g), LineAt(g, c, i)
      PROVE  LineAt(f, c, i)
  <2>1. i = 1 \/ (i - 1 \in 1..Len(g) /\ g[i - 1] = f[i - 1])
    <3>1. CASE i # 1
      <4>1. i - 1 \in 1..Len(g) /\ i - 1 # Len(g)
        BY <1>1, <1>2, <3>1
      <4> QED BY <1>1, <4>1
    <3> QED BY <3>1
  <2>2. i = 1 \/ f[i - 1].part # "head"
    BY <1>3, <2>1 DEF LineAt
  <2>3. CASE g[i] = Part(c, "whole")
    <3>1. g[i].part # "head"
      BY <2>3, PartsAre
    <3>2. f[i] = Part(c, "whole")
      BY <1>1, <2>3, <3>1
    <3> QED BY <2>2, <3>2 DEF LineAt
  <2>4. CASE g[i] = Part(c, "head") /\ i < Len(g) /\ g[i + 1] = Part(c, "tail")
    <3>1. i + 1 \in 1..Len(g) /\ i < Len(f) /\ i # Len(g)
      BY <1>2, <2>4
    <3>2. g[i + 1].part # "head"
      BY <2>4, PartsAre
    <3>3. g[i] = f[i] /\ g[i + 1] = f[i + 1]
      BY <1>1, <3>1, <3>2
    <3> QED BY <2>2, <2>4, <3>1, <3>3 DEF LineAt
  <2> QED BY <1>3, <2>3, <2>4 DEF LineAt
<1>4. Line(g, c) => Line(f, c)
  BY <1>1, <1>3 DEF Line
<1>5. ASSUME NEW i \in 1..Len(f), LineAt(f, c, i), Within(f, k, c)
      PROVE  i \in 1..Len(g) /\ LineAt(g, c, i)
  <2>1. f[i].call = c
    BY <1>5, PartsAre DEF LineAt
  <2>2. i <= k /\ i \in 1..k
    BY <1>5, <2>1 DEF Within
  <2>3. i \in 1..Len(g) /\ g[i] = f[i]
    BY <1>1, <2>2
  <2>4. i = 1 \/ g[i - 1] = f[i - 1]
    <3>1. i = 1 \/ i - 1 \in 1..k
      BY <2>2
    <3> QED BY <1>1, <3>1
  <2>5. ASSUME i < Len(f), f[i + 1] = Part(c, "tail") PROVE i < Len(g) /\ g[i + 1] = f[i + 1]
    <3>1. i + 1 \in 1..Len(f) /\ f[i + 1].call = c
      BY <1>0, <2>5, PartsAre
    <3>2. i + 1 <= k /\ i + 1 \in 1..k
      BY <1>5, <3>1 DEF Within
    <3> QED BY <1>1, <3>2
  <2> QED BY <1>5, <2>3, <2>4, <2>5 DEF LineAt
<1>6. Line(f, c) /\ Within(f, k, c) => Line(g, c)
  BY <1>5 DEF Line
<1>7. Silent(f, c) => Silent(g, c)
  BY <1>1 DEF Silent
<1> QED BY <1>4, <1>6, <1>7

----------------------------------------------------------------------------
(* Steps of the recorder as steps of the trail.                            *)

LEMMA LineInit == Init => \A c \in Calls : LineInv(c)
<1> SUFFICES ASSUME Init, NEW c \in Calls PROVE LineInv(c)
  OBVIOUS
<1>1. pc[c] = "new" /\ answer[c] = "none" /\ files[DayOf[c]] = <<>>
  BY DayOfAssumption DEF Init
<1> QED BY <1>1 DEF LineInv, Silent

\* The step of a call leaves the others where they are.
Others(c) == \A o \in Calls : o # c => pc'[o] = pc[o] /\ answer'[o] = answer[o]

\* What an append does to the lines, if nothing is appended to a fragment.
LEMMA AppendTrail ==
  ASSUME IInv, \A o \in Calls : LineInv(o), NothingFollowsAFragment, NothingFollowsAFragment',
         NEW c \in Calls, NEW part \in {"whole", "head", "tail"}, Appends(c, part),
         part = "tail" <=> pc[c] = "short", part = "head" <=> pc'[c] = "short"
  PROVE  /\ \A o \in Calls : LineInv(o)'
         /\ answer' = answer /\ answer[c] = "none" /\ c \notin Readable
         /\ Readable' = IF part = "head" THEN Readable ELSE Readable \cup {c}
<1> DEFINE day == DayOf[c]
           p == Part(c, part)
           f == files[day]
           n == Len(f)
<1>1. /\ day \in Days /\ p \in Parts /\ p.call = c /\ p.part = part /\ f \in Seq(Parts) /\ n \in Nat
      /\ TypeOK /\ TypeOK'
  <2>1. /\ day \in Days /\ TypeOK /\ TypeOK'
    BY DayOfAssumption, AppendStep DEF IInv
  <2>2. f \in Seq(Parts) /\ n \in Nat
    BY <2>1 DEF TypeOK
  <2>3. p \in Parts /\ p.call = c /\ p.part = part
    BY PartsAre
  <2> QED BY <2>1, <2>2, <2>3
<1>2. \A d \in Days : files'[d] = IF d = day THEN Append(f, p) ELSE files[d]
  BY DEF IInv, TypeOK, Appends, AppendPart
<1>3. /\ Len(Append(f, p)) = n + 1 /\ Append(f, p)[n + 1] = p
      /\ \A i \in 1..n : Append(f, p)[i] = f[i]
  BY <1>1, Appended
<1>4. /\ answer' = answer /\ answer[c] = "none" /\ pc[c] \in {"opened", "short"}
      /\ pc'[c] = IF part = "head" THEN "short" ELSE "written"
      /\ Others(c)
  BY DEF Appends, IInv, TypeOK, LineInv, Others
<1> HIDE DEF p, f, n
<1>5. /\ part # "tail" => Silent(f, c)
      /\ part = "tail" => /\ n # 0 /\ f[n] = Part(c, "head")
                          /\ \A i \in 1..n - 1 : f[i].call # c
  BY <1>4 DEF LineInv, f, n
<1>6. n # 0 => n \in 1..n /\ n \in 1..Len(Append(f, p)) - 1
  BY <1>1, <1>3
\* Where the file ends in a fragment, it is one of this call.
<1>7. n # 0 /\ f[n].part = "head" => f[n].call = c
  <2>1. SUFFICES ASSUME n # 0, f[n].part = "head" PROVE f[n].call = c
    OBVIOUS
  <2>2. files'[day] = Append(f, p)
    BY <1>1, <1>2
  <2>3. files'[day][n].part = "head" => files'[day][n + 1].call = files'[day][n].call
    BY <1>1, <1>6, <2>1, <2>2 DEF NothingFollowsAFragment
  <2> QED BY <1>1, <1>3, <1>6, <2>1, <2>2, <2>3
<1>8. ~ Line(f, c)
  <2>1. CASE part # "tail"
    <3>1. ASSUME NEW i \in 1..n, LineAt(f, c, i) PROVE FALSE
      <4>1. f[i].call = c
        BY <3>1, PartsAre DEF LineAt
      <4> QED BY <1>5, <2>1, <4>1 DEF Silent, n
    <3> QED BY <3>1 DEF Line, n
  <2>2. CASE part = "tail"
    <3>1. ASSUME NEW i \in 1..n, LineAt(f, c, i) PROVE FALSE
      <4>1. f[i].call = c
        BY <3>1, PartsAre DEF LineAt
      <4>2. i = n
        <5>1. i \in 1..n - 1 \/ i = n
          BY <1>1
        <5> QED BY <1>5, <2>2, <4>1, <5>1
      <4>3. f[i].part = "head"
        BY <1>5, <2>2, <4>2, PartsAre
      <4> QED BY <1>1, <3>1, <4>2, <4>3, PartsAre DEF LineAt, n
    <3> QED BY <3>1 DEF Line, n
  <2> QED BY <2>1, <2>2
<1>9. part # "head" => Line(Append(f, p), c)
  <2>1. CASE part = "whole"
    <3>1. n = 0 \/ f[n].part # "head"
      BY <1>5, <1>6, <1>7, <2>1 DEF Silent, n
    <3> QED BY <1>1, <2>1, <3>1, AppendLines DEF p, n
  <2>2. CASE part = "tail"
    <3>1. n = 1 \/ f[n - 1].part # "head"
      <4>1. SUFFICES ASSUME n # 1, f[n - 1].part = "head" PROVE FALSE
        OBVIOUS
      <4>2. n - 1 \in 1..n - 1 /\ (n - 1) + 1 = n
        BY <1>1, <1>5, <2>2, <4>1
      <4>3. f[n].call = f[n - 1].call
        BY <1>1, <4>1, <4>2 DEF NothingFollowsAFragment, f, n
      <4>4. f[n].call = c
        BY <1>5, <2>2, PartsAre
      <4> QED BY <1>5, <2>2, <4>2, <4>3, <4>4
    <3> QED BY <1>1, <1>5, <2>2, <3>1, AppendLines DEF p, n
  <2> QED BY <2>1, <2>2
<1>10. ASSUME NEW o \in Calls
       PROVE  Line(files'[DayOf[o]], o) <=> Line(files[DayOf[o]], o) \/ (o = c /\ part # "head")
  <2>1. DayOf[o] \in Days
    BY DayOfAssumption
  <2>2. CASE DayOf[o] = day
    <3>1. files'[DayOf[o]] = Append(f, p) /\ files[DayOf[o]] = f
      BY <1>2, <2>1, <2>2 DEF f
    <3>2. Line(f, o) => Line(Append(f, p), o)
      BY <1>1, AppendLines
    <3>3. Line(Append(f, p), o) => Line(f, o) \/ (c = o /\ part # "head")
      BY <1>1, AppendLines
    <3> QED BY <1>9, <3>1, <3>2, <3>3
  <2>3. CASE DayOf[o] # day
    BY <1>2, <2>1, <2>3
  <2> QED BY <2>2, <2>3
<1>11. ASSUME NEW o \in Calls PROVE LineInv(o)'
  <2>1. LineInv(o) /\ DayOf[o] \in Days
    BY DayOfAssumption
  <2>2. CASE o = c
    <3>1. part = "head" => /\ Len(files'[day]) # 0 /\ files'[day][Len(files'[day])] = Part(c, "head")
                           /\ \A i \in 1..Len(files'[day]) - 1 : files'[day][i].call # c
      <4>1. files'[day] = Append(f, p)
        BY <1>1, <1>2
      <4>2. (n + 1) - 1 = n /\ n + 1 # 0
        BY <1>1
      <4> QED BY <1>3, <1>5, <4>1, <4>2 DEF Silent, n, p
    <3>2. part # "head" => Line(files'[day], c)
      BY <1>10
    <3> QED BY <1>4, <2>2, <3>1, <3>2 DEF LineInv
  <2>3. CASE o # c
    <3>1. pc'[o] = pc[o] /\ answer'[o] = answer[o]
      BY <1>4, <2>3 DEF Others
    <3>2. CASE DayOf[o] # day
      <4>1. files'[DayOf[o]] = files[DayOf[o]]
        BY <1>2, <2>1, <3>2
      <4> QED BY <2>1, <3>1, <4>1 DEF LineInv
    <3>3. CASE DayOf[o] = day
      <4>1. files'[DayOf[o]] = Append(f, p) /\ files[DayOf[o]] = f
        BY <1>2, <2>1, <3>3 DEF f
      <4>2. Silent(f, o) => Silent(Append(f, p), o)
        <5>1. \A i \in 1..n + 1 : i \in 1..n \/ i = n + 1
          BY <1>1
        <5> QED BY <1>1, <1>3, <2>3, <5>1 DEF Silent, n
      <4>3. pc[o] # "short"
        <5>1. SUFFICES ASSUME n # 0, f[n] = Part(o, "head") PROVE FALSE
          BY <2>1, <4>1 DEF LineInv, n
        <5> QED BY <1>7, <2>3, <5>1, PartsAre
      <4> QED BY <1>10, <2>1, <3>1, <4>1, <4>2, <4>3 DEF LineInv
    <3> QED BY <3>2, <3>3
  <2> QED BY <2>2, <2>3
<1>12. c \notin Readable
  BY <1>1, <1>8, ReadableIs DEF f
<1>13. ASSUME NEW o \in Calls PROVE o \in Readable' <=> o \in Readable \/ (o = c /\ part # "head")
  <2>1. o \in Readable <=> Line(files[DayOf[o]], o)
    BY <1>1, ReadableIs
  <2>2. o \in Readable' <=> Line(files'[DayOf[o]], o)
    <3>1. files'[DayOf[o]] \in Seq(Parts)
      BY <1>1, DayOfAssumption DEF TypeOK
    <3>2. DOMAIN files'[DayOf[o]] = 1..Len(files'[DayOf[o]])
      BY <3>1
    <3> QED BY <3>2 DEF Readable, ReadableIn, StartsLine, Line, LineAt
  <2> QED BY <1>10, <2>1, <2>2
<1>14. Readable \subseteq Calls /\ Readable' \subseteq Calls
  BY DEF Readable
<1> QED BY <1>4, <1>11, <1>12, <1>13, <1>14

\* A step that leaves the files alone leaves the lines alone.
LEMMA SameFiles ==
  ASSUME files' = files
  PROVE  Readable' = Readable
BY DEF Readable

LEMMA SyncTrail ==
  ASSUME IInv, \A o \in Calls : LineInv(o), NEW c \in Calls, Sync(c)
  PROVE  (\A o \in Calls : LineInv(o)') /\ answer' = answer /\ Readable' = Readable
<1>1. files' = files /\ answer' = answer
  BY DEF Sync
<1>2. pc[c] = "written" /\ pc'[c] = "synced" /\ \A o \in Calls : o # c => pc'[o] = pc[o]
  BY DEF Sync, IInv, TypeOK
<1>3. ASSUME NEW o \in Calls PROVE LineInv(o)'
  <2>1. LineInv(o)
    OBVIOUS
  <2> QED BY <1>1, <1>2, <2>1 DEF LineInv
<1> QED BY <1>1, <1>3, SameFiles

\* A call opens its file, or returns: with an error, or because its line is
\* there.
LEMMA QuietTrail ==
  ASSUME IInv, \A o \in Calls : LineInv(o),
         NEW c \in Calls, Open(c) \/ WriteFails(c) \/ SyncFails(c) \/ Close(c)
  PROVE  /\ \A o \in Calls : LineInv(o)'
         /\ answer' = answer \/ Trail!Acknowledge(c) \/ Trail!Refuse(c)
         /\ Readable' = Readable
<1>1. files' = files /\ Readable' = Readable
  BY SameFiles DEF Open, WriteFails, SyncFails, Close
<1>2. /\ pc[c] # "returned" /\ \A o \in Calls : o # c => pc'[o] = pc[o] /\ answer'[o] = answer[o]
      /\ \/ pc[c] = "new" /\ pc'[c] = "opened" /\ answer' = answer
         \/ pc'[c] = "returned" /\ answer' = [answer EXCEPT ![c] = "error"]
         \/ /\ pc[c] = "synced" /\ pc'[c] = "returned"
            /\ answer' = [answer EXCEPT ![c] = "ok"]
  <2>1. CASE Open(c)
    BY <2>1 DEF Open, Return, IInv, TypeOK
  <2>2. CASE WriteFails(c) \/ SyncFails(c)
    BY <2>2 DEF WriteFails, SyncFails, Return, IInv, TypeOK
  <2>3. CASE Close(c)
    BY <2>3 DEF Close, Return, IInv, TypeOK
  <2> QED BY <2>1, <2>2, <2>3
<1>3. LineInv(c) /\ answer[c] = "none" /\ answer \in [Calls -> {"none", "ok", "error"}]
  BY <1>2 DEF LineInv, IInv, TypeOK
<1>4. pc[c] = "synced" => Line(files[DayOf[c]], c) /\ c \in Readable
  BY <1>3, ReadableIs DEF LineInv, IInv
<1>5. ASSUME NEW o \in Calls PROVE LineInv(o)'
  <2>1. LineInv(o)
    OBVIOUS
  <2>2. CASE o = c
    <3>1. CASE pc[c] = "new" /\ pc'[c] = "opened" /\ answer' = answer
      BY <1>1, <2>1, <2>2, <3>1 DEF LineInv
    <3>2. CASE pc'[c] = "returned" /\ answer' = [answer EXCEPT ![c] = "error"]
      <4>1. answer'[c] = "error"
        BY <1>3, <3>2
      <4> QED BY <1>1, <2>2, <3>2, <4>1 DEF LineInv
    <3>3. CASE /\ pc[c] = "synced" /\ pc'[c] = "returned"
               /\ answer' = [answer EXCEPT ![c] = "ok"]
      BY <1>1, <1>4, <2>2, <3>3 DEF LineInv
    <3> QED BY <1>2, <3>1, <3>2, <3>3
  <2>3. CASE o # c
    <3>1. pc'[o] = pc[o] /\ answer'[o] = answer[o]
      BY <1>2, <2>3
    <3> QED BY <1>1, <2>1, <3>1 DEF LineInv
  <2> QED BY <2>2, <2>3
<1>6. answer' = answer \/ Trail!Acknowledge(c) \/ Trail!Refuse(c)
  BY <1>1, <1>2, <1>3, <1>4 DEF Trail!Acknowledge, Trail!Refuse
<1> QED BY <1>1, <1>5, <1>6

LEMMA CrashTrail ==
  ASSUME IInv, \A o \in Calls : LineInv(o), Crash
  PROVE  /\ \A o \in Calls : LineInv(o)'
         /\ \E L \in SUBSET Readable : Trail!Lose(L)
<1>1. \A d \in Days : /\ files[d] \in Seq(Parts) /\ durable[d] \in Nat /\ durable[d] <= Len(files[d])
                      /\ files'[d] \in Remains(files[d], durable[d])
  BY DEF IInv, TypeOK, Crash
<1>2. answer' = answer
  BY DEF Crash
<1>3. \A o \in Calls : pc'[o] = IF pc[o] \in {"new", "returned"} THEN pc[o] ELSE "lost"
  BY DEF Crash
<1>4. ASSUME NEW o \in Calls
      PROVE  /\ Line(files'[DayOf[o]], o) => Line(files[DayOf[o]], o)
             /\ Silent(files[DayOf[o]], o) => Silent(files'[DayOf[o]], o)
             /\ answer[o] = "ok" => Line(files'[DayOf[o]], o)
  <2>1. DayOf[o] \in Days /\ LineInv(o) /\ CallInv(o)
    BY DayOfAssumption DEF IInv
  <2>2. /\ Line(files'[DayOf[o]], o) => Line(files[DayOf[o]], o)
        /\ Line(files[DayOf[o]], o) /\ Within(files[DayOf[o]], durable[DayOf[o]], o)
             => Line(files'[DayOf[o]], o)
        /\ Silent(files[DayOf[o]], o) => Silent(files'[DayOf[o]], o)
    BY <1>1, <2>1, CrashLines
  <2> QED BY <2>1, <2>2 DEF LineInv, CallInv
<1>5. ASSUME NEW o \in Calls PROVE LineInv(o)'
  <2>1. LineInv(o)
    OBVIOUS
  <2>2. pc[o] = "returned" => pc'[o] = "returned"
    BY <1>3
  <2>3. pc'[o] \in {"new", "returned", "lost"} /\ (pc'[o] = "new" => pc[o] = "new")
    BY <1>3
  <2> QED BY <1>2, <1>4, <2>1, <2>2, <2>3 DEF LineInv
<1>6. TypeOK /\ TypeOK'
  BY CrashStep DEF IInv
<1>7. ASSUME NEW o \in Calls
      PROVE  /\ o \in Readable <=> Line(files[DayOf[o]], o)
             /\ o \in Readable' <=> Line(files'[DayOf[o]], o)
  <2>1. files'[DayOf[o]] \in Seq(Parts)
    BY <1>6, DayOfAssumption DEF TypeOK
  <2>2. DOMAIN files'[DayOf[o]] = 1..Len(files'[DayOf[o]])
    BY <2>1
  <2>3. o \in Readable' <=> Line(files'[DayOf[o]], o)
    BY <2>2 DEF Readable, ReadableIn, StartsLine, Line, LineAt
  <2> QED BY <1>6, <2>3, ReadableIs
<1>8. Readable \subseteq Calls /\ Readable' \subseteq Readable
  BY <1>4, <1>7 DEF Readable
<1>9. Trail!Lose(Readable \ Readable')
  <2>1. \A o \in Readable \ Readable' : answer[o] # "ok"
    BY <1>4, <1>7, <1>8
  <2>2. Readable' = Readable \ (Readable \ Readable')
    BY <1>8
  <2> QED BY <1>2, <2>1, <2>2 DEF Trail!Lose
<1> QED BY <1>5, <1>9

LinesInv == \A c \in Calls : LineInv(c)

LEMMA NextTrail ==
  ASSUME IInv, LinesInv, NothingFollowsAFragment, NothingFollowsAFragment', [Next]_vars
  PROVE  LinesInv' /\ [Trail!TrailNext]_<<Readable, answer>>
<1> USE DEF LinesInv
<1>1. ASSUME NEW c \in Calls, Open(c) \/ WriteFails(c) \/ SyncFails(c) \/ Close(c)
      PROVE  LinesInv' /\ [Trail!TrailNext]_<<Readable, answer>>
  BY <1>1, QuietTrail DEF Trail!TrailNext
<1>2. ASSUME NEW c \in Calls, NEW part \in {"whole", "head", "tail"}, Appends(c, part),
             part = "tail" <=> pc[c] = "short", part = "head" <=> pc'[c] = "short"
      PROVE  LinesInv' /\ [Trail!TrailNext]_<<Readable, answer>>
  <2>1. /\ LinesInv'
        /\ answer' = answer /\ answer[c] = "none" /\ c \notin Readable
        /\ Readable' = IF part = "head" THEN Readable ELSE Readable \cup {c}
    BY <1>2, AppendTrail
  <2> QED BY <2>1 DEF Trail!TrailNext, Trail!Arrive
<1>3. ASSUME NEW c \in Calls, WriteLine(c) \/ WriteHead(c) \/ WriteTail(c)
      PROVE  LinesInv' /\ [Trail!TrailNext]_<<Readable, answer>>
  <2>1. pc \in [Calls -> {"new", "opened", "short", "written", "synced", "returned", "lost"}]
    BY DEF IInv, TypeOK
  <2>2. CASE WriteLine(c)
    BY <1>2, <2>1, <2>2 DEF WriteLine, Appends
  <2>3. CASE WriteHead(c)
    BY <1>2, <2>1, <2>3 DEF WriteHead, Appends
  <2>4. CASE WriteTail(c)
    BY <1>2, <2>1, <2>4 DEF WriteTail, Appends
  <2> QED BY <1>3, <2>2, <2>3, <2>4
<1>4. ASSUME NEW c \in Calls, Sync(c)
      PROVE  LinesInv' /\ [Trail!TrailNext]_<<Readable, answer>>
  BY <1>4, SyncTrail
<1>5. CASE Crash
  BY <1>5, CrashTrail DEF Trail!TrailNext
<1>6. CASE UNCHANGED vars
  BY <1>6, SameFiles DEF vars, LineInv
<1> QED BY <1>1, <1>3, <1>4, <1>5, <1>6 DEF Next

\* The recorder keeps the promise the services rely on as long as nothing is
\* appended to a fragment that a cut line left at the end of its file: a line
\* arrives with its last part, a call that answers "ok" has its line in the
\* trail, and a crash takes none of those.
THEOREM RecorderImplementsTrail == Spec /\ []NothingFollowsAFragment => ImplementsTrail
<1>1. Init => Trail!TrailInit
  <2> SUFFICES ASSUME Init PROVE Readable = {} /\ answer = [c \in Calls |-> "none"]
    BY DEF Trail!TrailInit
  <2>1. \A c \in Calls : files[DayOf[c]] = <<>>
    BY DayOfAssumption DEF Init
  <2>2. \A c \in Calls : ~ Line(files[DayOf[c]], c)
    <3>1. Len(<<>>) = 0 /\ \A i \in 1..0 : FALSE
      OBVIOUS
    <3> QED BY <2>1, <3>1 DEF Line
  <2>3. \A c \in Calls : c \notin Readable
    BY <2>2, InitInv, ReadableIs DEF IInv
  <2> QED BY <2>3 DEF Init, Readable
<1>2. Init => LinesInv
  BY LineInit DEF LinesInv
<1>3. /\ IInv /\ LinesInv /\ NothingFollowsAFragment /\ NothingFollowsAFragment' /\ [Next]_vars
      => LinesInv' /\ [Trail!TrailNext]_<<Readable, answer>>
  BY NextTrail
<1> QED BY <1>1, <1>2, <1>3, InitInv, NextInv, PTL
   DEF Spec, ImplementsTrail, Trail!TrailSpec, Trail!trailVars
===============================================================================
