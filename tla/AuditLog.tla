------------------------------- MODULE AuditLog -------------------------------
(***************************************************************************)
(* The filesystem audit recorder.  Every Record call opens its day's file  *)
(* with O_APPEND, writes one line, syncs, closes, and answers; calls of    *)
(* concurrent requests share the file and nothing but the file system      *)
(* orders them.  os.File.Write repeats the write system call until the     *)
(* whole line is written or an error stops it, so a line can reach the     *)
(* file in two parts.                                                      *)
(*                                                                         *)
(* A file is the sequence of parts that were appended to it.  Only a whole *)
(* line and a tail end in a newline.  A crash of the machine keeps at      *)
(* least what was synced; a crash of the service keeps everything.         *)
(***************************************************************************)
EXTENDS Naturals, Sequences

CONSTANTS Calls,        \* the Record calls made
          Days,         \* the daily files of this writer
          DayOf,        \* call -> the day its event occurred
          Cut           \* the calls whose line may be cut short, by a full disk
                        \* that takes only part of it or by a crash

ASSUME DayOfAssumption == DayOf \in [Calls -> Days]
ASSUME CutAssumption == Cut \subseteq Calls

VARIABLES files,        \* day -> parts appended to its file, in order
          durable,      \* day -> how many of them a machine crash cannot lose
          pc,           \* call -> the step of Record it is at
          answer        \* call -> what Record returned

vars == <<files, durable, pc, answer>>

Parts == [call: Calls, part: {"whole", "head", "tail"}]
Part(c, part) == [call |-> c, part |-> part]

\* What a reader that splits a file into lines and parses each one finds: the
\* lines that hold one record, from its first byte to its newline.
StartsLine(f, i) == i = 1 \/ f[i - 1].part # "head"
ReadableIn(f, c) ==
  \E i \in DOMAIN f :
    /\ StartsLine(f, i)
    /\ \/ f[i] = Part(c, "whole")
       \/ f[i] = Part(c, "head") /\ i < Len(f) /\ f[i + 1] = Part(c, "tail")
Readable == {c \in Calls : ReadableIn(files[DayOf[c]], c)}

Init == /\ files = [d \in Days |-> <<>>]
        /\ durable = [d \in Days |-> 0]
        /\ pc = [c \in Calls |-> "new"]
        /\ answer = [c \in Calls |-> "none"]

Return(c, result) == /\ pc' = [pc EXCEPT ![c] = "returned"]
                     /\ answer' = [answer EXCEPT ![c] = result]

\* Operators named ...Mutant are deliberate bugs: each stands for a mistake one
\* could make in the definition that follows it, and refutes a property.

\* Mutant of Open: the file is opened with O_TRUNC.
OpenMutant(c) ==
  /\ pc[c] = "new"
  /\ pc' = [pc EXCEPT ![c] = "opened"]
  /\ files' = [files EXCEPT ![DayOf[c]] = <<>>]
  /\ UNCHANGED <<durable, answer>>

\* The context is checked, the event converted, its day's file opened.
Open(c) ==
  /\ pc[c] = "new"
  /\ \/ pc' = [pc EXCEPT ![c] = "opened"] /\ UNCHANGED answer
     \/ Return(c, "error")
  /\ UNCHANGED <<files, durable>>

AppendPart(c, part) == files' = [files EXCEPT ![DayOf[c]] = Append(@, Part(c, part))]

\* One write system call takes the whole line.
WriteLine(c) ==
  /\ pc[c] = "opened"
  /\ AppendPart(c, "whole")
  /\ pc' = [pc EXCEPT ![c] = "written"]
  /\ UNCHANGED <<durable, answer>>

\* One takes a part of it, and a later one the rest.
WriteHead(c) ==
  /\ c \in Cut
  /\ pc[c] = "opened"
  /\ AppendPart(c, "head")
  /\ pc' = [pc EXCEPT ![c] = "short"]
  /\ UNCHANGED <<durable, answer>>

WriteTail(c) ==
  /\ pc[c] = "short"
  /\ AppendPart(c, "tail")
  /\ pc' = [pc EXCEPT ![c] = "written"]
  /\ UNCHANGED <<durable, answer>>

\* Mutant of WriteFails: a short write counts as a write.
WriteFailsMutant(c) ==
  /\ pc[c] = "short"
  /\ pc' = [pc EXCEPT ![c] = "written"]
  /\ UNCHANGED <<files, durable, answer>>

\* The file system refuses what is left: Record closes the file and fails.
WriteFails(c) ==
  /\ pc[c] \in {"opened", "short"}
  /\ Return(c, "error")
  /\ UNCHANGED <<files, durable>>

\* Mutant of Sync: the file is closed without it.
SyncMutant(c) == /\ pc[c] = "written"
                 /\ pc' = [pc EXCEPT ![c] = "synced"]
                 /\ UNCHANGED <<files, durable, answer>>

\* file.Sync makes everything in the file durable, whoever wrote it.
Sync(c) ==
  /\ pc[c] = "written"
  /\ durable' = [durable EXCEPT ![DayOf[c]] = Len(files[DayOf[c]])]
  /\ pc' = [pc EXCEPT ![c] = "synced"]
  /\ UNCHANGED <<files, answer>>

SyncFails(c) ==
  /\ pc[c] = "written"
  /\ Return(c, "error")
  /\ UNCHANGED <<files, durable>>

Close(c) ==
  /\ pc[c] = "synced"
  /\ \E result \in {"ok", "error"} : Return(c, result)
  /\ UNCHANGED <<files, durable>>

\* What a crash leaves of a file: the durable parts, any number of the ones
\* after them, and possibly the beginning of the next.
Remains(f, k) ==
  {SubSeq(f, 1, n) : n \in k .. Len(f)} \cup
  {Append(SubSeq(f, 1, n), Part(f[n + 1].call, "head")) :
     n \in {m \in k .. Len(f) - 1 : f[m + 1].call \in Cut}}

Crash ==
  /\ \E c \in Calls : pc[c] \in {"opened", "short", "written", "synced"}
  /\ files' \in {g \in [Days -> UNION {Remains(files[d], durable[d]) : d \in Days}] :
                   \A d \in Days : g[d] \in Remains(files[d], durable[d])}
  /\ pc' = [c \in Calls |-> IF pc[c] \in {"new", "returned"} THEN pc[c] ELSE "lost"]
  /\ UNCHANGED <<durable, answer>>

Next == \/ \E c \in Calls : \/ Open(c) \/ WriteLine(c) \/ WriteHead(c) \/ WriteTail(c)
                            \/ WriteFails(c) \/ Sync(c) \/ SyncFails(c) \/ Close(c)
        \/ Crash

Spec == Init /\ [][Next]_vars

----------------------------------------------------------------------------
(* Properties.                                                             *)

\* Every variable holds a value of its type.
TypeOK ==
  /\ files \in [Days -> Seq(Parts)]
  /\ durable \in [Days -> Nat]
  /\ \A d \in Days : durable[d] <= Len(files[d])
  /\ pc \in [Calls -> {"new", "opened", "short", "written", "synced", "returned", "lost"}]
  /\ answer \in [Calls -> {"none", "ok", "error"}]

\* Everything that was written of an acknowledged record is in the durable part
\* of its file, and the end of the line is, although other calls append to the
\* file before, between and after, fail, and crash.
AcknowledgedIsDurable ==
  \A c \in Calls : answer[c] = "ok" =>
    LET f == files[DayOf[c]]
        parts == {i \in DOMAIN f : f[i].call = c}
    IN  /\ \E i \in parts : f[i].part # "head"
        /\ \A i \in parts : i <= durable[DayOf[c]]

\* The recorder keeps the promise of AuditTrail to the services, where a reader
\* finds the readable lines - as long as nothing is appended to a fragment.  The
\* run sees to that by giving the one line that can be cut a file of its own.
Trail == INSTANCE AuditTrail WITH trail <- Readable
ImplementsTrail == Trail!TrailSpec

----------------------------------------------------------------------------
(* Claims of docs/audit-v1-design.md about the same code.                  *)

\* "Append one complete record per line": an acknowledged record is a line.
AcknowledgedIsALine == \A c \in Calls : answer[c] = "ok" => c \in Readable

===============================================================================
