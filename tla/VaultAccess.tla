----------------------------- MODULE VaultAccess -----------------------------
(***************************************************************************)
(* The controlled access path of the vault service: a unary RPC passes the *)
(* audit-context interceptor, the authentication interceptor, the Connect  *)
(* handler, the application service, the filesystem repository and the     *)
(* audit recorder, and is answered.  Each request is served by a goroutine *)
(* of its own; requests share the vault directory, which the sync worker   *)
(* changes under them, and the audit trail.                                *)
(*                                                                         *)
(* Data is abstracted to what decides an answer.  A note is named by its   *)
(* path; a file is its readability, the access scopes its frontmatter      *)
(* declares and its version.  A bearer token is the subject it proves, or  *)
(* the way it fails.  The recorder is AuditTrail, which AuditLog implements*)
(***************************************************************************)
EXTENDS Naturals, Sequences

CONSTANTS Requests,     \* unary RPCs, each made once
          Notes,        \* vault-relative paths that NewNotePath accepts
          Scopes,       \* access scopes
          Subjects,     \* subjects that a verified token can name
          Asked,        \* the calls clients make, some of Calls below
          Grants,       \* the scope mapping loaded at start: subject -> scopes
          MaxVersions   \* bound: file states a path goes through

ASSUME GrantsAssumption == Grants \in [Subjects -> SUBSET Scopes]
ASSUME BoundAssumption == MaxVersions \in Nat \ {0}

VARIABLES history,      \* note -> the file states its path has had, last is current
          call,         \* request -> what the client asked
          ctx,          \* request -> "ended" once cancelled or past its deadline
          pc,           \* request -> where its goroutine is
          todo,         \* request -> paths whose directories its walk has not listed yet
          listed,       \* request -> paths listed as files and not visited yet
          seen,         \* request -> <<note, version>> pairs loaded for the answer
          event,        \* request -> the audit event built for it
          verdict,      \* request -> the code the service answers once it is recorded
          reply,        \* request -> what the client was answered
          trail, answer \* the audit trail

Trail == INSTANCE AuditTrail WITH Calls <- Requests

vars == <<history, call, ctx, pc, todo, listed, seen, event, verdict, reply, trail, answer>>

----------------------------------------------------------------------------
(* Files of the vault.                                                     *)

\* "opaque" parses but has frontmatter that no protobuf struct can hold; a
\* "directory" has the name of a note; "unreadable" is too large, malformed, not
\* permitted, or a link to a directory; "escaping" is a symbolic link that
\* leaves the vault.
Kinds == {"note", "opaque", "absent", "directory", "unreadable", "escaping"}
Parsed == {"note", "opaque"}
File == [kind: Parsed, scopes: SUBSET Scopes] \cup [kind: Kinds \ Parsed, scopes: {{}}]
IsNote(f) == f.kind \in Parsed

Current(n) == history[n][Len(history[n])]
Version(n) == <<n, Len(history[n])>>
FileAt(v) == history[v[1]][v[2]]

\* Operators named ...Mutant are deliberate bugs: each stands for a mistake one
\* could make in the definition that follows it, and refutes a property.

\* AllowsAny: the note declares one of the principal's scopes.
AllowsAny(f, principal) == f.scopes \cap principal # {}

\* Mutant of MatchAccess: the search forgets its access filter.
MatchAccessMutant(f, principal) == TRUE

\* matchAccess as SearchNotes uses it: an empty filter matches every note.
MatchAccess(f, principal) == principal = {} \/ f.scopes \cap principal # {}

\* Mutant of MatchedScopes: the event lists whatever the subject was granted.
MatchedScopesMutant(vs, principal) == principal

MatchedScopes(vs, principal) == principal \cap UNION {FileAt(v).scopes : v \in vs}

----------------------------------------------------------------------------
(* Requests, events, replies.                                              *)

BadTokens == {"missing", "rejected"}
Calls ==
  [op: {"read"}, token: Subjects \cup BadTokens, argument: {"valid", "malformed"},
   notes: {{n} : n \in Notes}]                  \* the one path that is read
  \cup
  [op: {"search"}, token: Subjects \cup BadTokens, argument: {"valid", "malformed", "badCursor"},
   notes: SUBSET Notes]                         \* the paths that pass the filters

NoCall == [op |-> "none", token |-> "missing", argument |-> "malformed", notes |-> {}]

ASSUME AskedAssumption == Asked \subseteq Calls

Principal(r) == IF call[r].token \in Subjects THEN Grants[call[r].token] ELSE {}

EventTypes == {"none", "auth.failed", "read.allowed", "read.denied", "read.failed",
               "search.completed", "search.failed"}
Event(type, vs, matched) == [type |-> type, versions |-> vs, matched |-> matched]
NoEvent == Event("none", {}, {})
Disclosing == {"read.allowed", "search.completed"}

Codes == {"none", "ok", "invalid_argument", "unauthenticated", "permission_denied",
          "not_found", "canceled", "internal", "unknown"}
Reply(code, vs) == [code |-> code, body |-> vs]
Answer(r, code, vs) == /\ pc' = [pc EXCEPT ![r] = "done"]
                       /\ reply' = [reply EXCEPT ![r] = Reply(code, vs)]

\* The service has decided: the event is built and is recorded next.
Decide(r, e, code) == /\ event' = [event EXCEPT ![r] = e]
                      /\ verdict' = [verdict EXCEPT ![r] = code]
                      /\ pc' = [pc EXCEPT ![r] = "record"]

----------------------------------------------------------------------------
Init == /\ history \in [Notes -> {<<f>> : f \in File}]
        /\ call = [r \in Requests |-> NoCall]
        /\ ctx = [r \in Requests |-> "live"]
        /\ pc = [r \in Requests |-> "new"]
        /\ todo = [r \in Requests |-> {}]
        /\ listed = [r \in Requests |-> {}]
        /\ seen = [r \in Requests |-> {}]
        /\ event = [r \in Requests |-> NoEvent]
        /\ verdict = [r \in Requests |-> "none"]
        /\ reply = [r \in Requests |-> Reply("none", {})]
        /\ Trail!TrailInit

\* WrapUnary of the audit-context interceptor lets the request in...
Receive(r, c) ==
  /\ pc[r] = "new"
  /\ call' = [call EXCEPT ![r] = c]
  /\ pc' = [pc EXCEPT ![r] = "authenticate"]
  /\ UNCHANGED <<history, ctx, todo, listed, seen, event, verdict, reply, trail, answer>>

\* ... or answers it itself: the request ID is invalid, or the peer address
\* cannot be hashed.
RejectMetadata(r) ==
  /\ pc[r] = "new"
  /\ \E code \in {"invalid_argument", "unknown"} : Answer(r, code, {})
  /\ UNCHANGED <<history, call, ctx, todo, listed, seen, event, verdict, trail, answer>>

\* Mutant of Authenticate: a verified subject without a grant is let in.
AuthenticateMutant(r) ==
  /\ pc[r] = "authenticate" /\ call[r].token \in Subjects
  /\ pc' = [pc EXCEPT ![r] = "handle"]
  /\ UNCHANGED <<history, call, ctx, todo, listed, seen, event, verdict, reply, trail, answer>>

\* WrapUnary of the authentication interceptor.  A request whose context has
\* ended is refused without an event; every other failure is recorded first.
Authenticate(r) ==
  /\ pc[r] = "authenticate"
  /\ \/ /\ \/ call[r].token = "missing"
           \/ ctx[r] = "live" /\ Principal(r) = {}
        /\ Decide(r, Event("auth.failed", {}, {}), "unauthenticated")
        /\ UNCHANGED reply
     \/ /\ call[r].token # "missing" /\ ctx[r] = "ended"
        /\ Answer(r, "canceled", {})
        /\ UNCHANGED <<event, verdict>>
     \/ /\ ctx[r] = "live" /\ Principal(r) # {}
        /\ pc' = [pc EXCEPT ![r] = "handle"]
        /\ UNCHANGED <<event, verdict, reply>>
  /\ UNCHANGED <<history, call, ctx, todo, listed, seen, trail, answer>>

\* The Connect handlers validate the message; a malformed one is answered
\* before the service is called, so no event is built for it.
RejectMessage(r) ==
  /\ pc[r] = "handle"
  /\ call[r].argument = "malformed"
  /\ Answer(r, "invalid_argument", {})
  /\ UNCHANGED <<history, call, ctx, todo, listed, seen, event, verdict, trail, answer>>

StartRead(r) ==
  /\ pc[r] = "handle"
  /\ call[r].op = "read" /\ call[r].argument = "valid"
  /\ pc' = [pc EXCEPT ![r] = "load"]
  /\ UNCHANGED <<history, call, ctx, todo, listed, seen, event, verdict, reply, trail, answer>>

\* Repository.ReadNote and the scope decision on the bytes it returned.
ReadOutcome(f) == CASE f.kind = "absent"     -> "not_found"
                    [] f.kind \in {"directory", "unreadable"} -> "unknown"
                    [] f.kind = "escaping"   -> "invalid_argument"

ReadNote(r) ==
  /\ pc[r] = "load"
  /\ \E n \in call[r].notes :
       LET f == Current(n)
           v == {Version(n)}
       IN \/ /\ ctx[r] = "ended"
             /\ Decide(r, Event("read.failed", {}, {}), "canceled")
             /\ UNCHANGED seen
          \/ /\ ctx[r] = "live" /\ ~IsNote(f)
             /\ Decide(r, Event("read.failed", {}, {}), ReadOutcome(f))
             /\ UNCHANGED seen
          \/ /\ ctx[r] = "live" /\ IsNote(f) /\ ~AllowsAny(f, Principal(r))
             /\ Decide(r, Event("read.denied", v, {}), "permission_denied")
             /\ UNCHANGED seen
          \/ /\ ctx[r] = "live" /\ IsNote(f) /\ AllowsAny(f, Principal(r))
             /\ Decide(r, Event("read.allowed", v, MatchedScopes(v, Principal(r))), "ok")
             /\ seen' = [seen EXCEPT ![r] = v]
  /\ UNCHANGED <<history, call, ctx, todo, listed, reply, trail, answer>>

\* Service.SearchNotes up to the walk of the vault.
SearchRefusal(r) == CASE Principal(r) = {}            -> "permission_denied"
                      [] ctx[r] = "ended"             -> "canceled"
                      [] call[r].argument = "badCursor" -> "invalid_argument"
                      [] OTHER                        -> "none"

StartSearch(r) ==
  /\ pc[r] = "handle"
  /\ call[r].op = "search" /\ call[r].argument # "malformed"
  /\ \/ /\ SearchRefusal(r) # "none"
        /\ Decide(r, Event("search.failed", {}, {}), SearchRefusal(r))
        /\ UNCHANGED todo
     \/ /\ SearchRefusal(r) = "none"
        /\ todo' = [todo EXCEPT ![r] = Notes]
        /\ pc' = [pc EXCEPT ![r] = "walk"]
        /\ UNCHANGED <<event, verdict>>
  /\ UNCHANGED <<history, call, ctx, listed, seen, reply, trail, answer>>

\* WalkDir lists a directory when it gets there.  What is listed as a file is
\* visited some time later, whatever has become of it; what is listed as a
\* directory is descended into and visited no more.
ListNote(r) ==
  /\ pc[r] = "walk" /\ ctx[r] = "live"
  /\ \E n \in todo[r] :
       /\ todo' = [todo EXCEPT ![r] = @ \ {n}]
       /\ listed' = IF Current(n).kind \in {"absent", "directory"} THEN listed
                    ELSE [listed EXCEPT ![r] = @ \cup {n}]
  /\ UNCHANGED <<history, call, ctx, pc, seen, event, verdict, reply, trail, answer>>

\* The search looks for the note, and its caller has a scope that it declares.
Found(r, n) == n \in call[r].notes /\ MatchAccess(Current(n), Principal(r))

\* One callback of WalkDir for a file that can still be read.
VisitNote(r) ==
  /\ pc[r] = "walk" /\ ctx[r] = "live"
  /\ \E n \in listed[r] :
       /\ IsNote(Current(n))
       /\ listed' = [listed EXCEPT ![r] = @ \ {n}]
       /\ seen' = IF Found(r, n) THEN [seen EXCEPT ![r] = @ \cup {Version(n)}] ELSE seen
  /\ UNCHANGED <<history, call, ctx, pc, todo, event, verdict, reply, trail, answer>>

\* What a walk leaves behind that does not get to its end.
DropWalk(r) == /\ todo' = [todo EXCEPT ![r] = {}]
               /\ listed' = [listed EXCEPT ![r] = {}]
               /\ seen' = [seen EXCEPT ![r] = {}]

\* buildSnippet panics on the text of a match (EveryMatchHasASnippet of
\* VaultSearch says when).  Nothing recovers before net/http does, which breaks the
\* connection off: the request has no answer and no event.
SearchPanics(r) ==
  /\ pc[r] = "walk" /\ ctx[r] = "live"
  /\ \E n \in listed[r] : IsNote(Current(n)) /\ Found(r, n)
  /\ pc' = [pc EXCEPT ![r] = "aborted"]
  /\ DropWalk(r)
  /\ UNCHANGED <<history, call, ctx, event, verdict, reply, trail, answer>>

\* Mutant of WalkFails: a file that is gone since it was listed is waited for.
WalkFailsMutant(r) ==
  /\ pc[r] = "walk"
  /\ \/ ctx[r] = "ended" /\ todo[r] \cup listed[r] # {}
     \/ todo[r] # {}
     \/ \E n \in listed[r] : ~IsNote(Current(n)) /\ Current(n).kind # "absent"
  /\ Decide(r, Event("search.failed", {}, {}), "unknown")
  /\ DropWalk(r)
  /\ UNCHANGED <<history, call, ctx, reply, trail, answer>>

\* A context that ended, a directory that cannot be listed, and a listed file
\* that cannot be read any more each fail the whole search.
WalkFails(r) ==
  /\ pc[r] = "walk"
  /\ \/ /\ ctx[r] = "ended" /\ todo[r] \cup listed[r] # {}
        /\ Decide(r, Event("search.failed", {}, {}), "canceled")
     \/ /\ \/ todo[r] # {}
           \/ ctx[r] = "live" /\ \E n \in listed[r] : ~IsNote(Current(n))
        /\ Decide(r, Event("search.failed", {}, {}), "unknown")
  /\ DropWalk(r)
  /\ UNCHANGED <<history, call, ctx, reply, trail, answer>>

\* The walk is over: the results are sorted, the cursor and the limit cut one
\* page out of them, and the event is formed on that page.
CompleteSearch(r) ==
  /\ pc[r] = "walk" /\ todo[r] = {} /\ listed[r] = {}
  /\ \E page \in SUBSET seen[r] :
       /\ Decide(r, Event("search.completed", page, MatchedScopes(page, Principal(r))), "ok")
       /\ seen' = [seen EXCEPT ![r] = page]
  /\ UNCHANGED <<history, call, ctx, todo, listed, reply, trail, answer>>

\* Mutants of RefusalCodes: the refusal is told although it was not recorded;
\* a code the service has no mapping for.
RefusalCodesMutant(r) == {IF verdict[r] = "ok" THEN "unknown" ELSE verdict[r]}
UnmappedCodesMutant(r) == {"data_loss"}

\* What the client may be told when the event could not be recorded.  A context
\* that has ended is the reason, unless it ended after the recorder had looked.
RefusalCodes(r) == CASE event[r].type = "auth.failed" -> {"internal"}
                     [] pc[r] = "record" /\ ctx[r] = "ended" -> {"canceled", "unknown"}
                     [] OTHER -> {"unknown"}

\* Mutant of RecordFails: the audit is best effort.
RecordFailsMutant(r) ==
  /\ pc[r] = "record"
  /\ Trail!Refuse(r)
  /\ pc' = [pc EXCEPT ![r] = "respond"]
  /\ UNCHANGED <<history, call, ctx, todo, listed, seen, event, verdict, reply>>

\* Record gives up before its line is in the file: the context has ended, or
\* converting, opening or writing failed.
RecordFails(r) ==
  /\ pc[r] = "record"
  /\ Trail!Refuse(r)
  /\ \E code \in RefusalCodes(r) : Answer(r, code, {})
  /\ UNCHANGED <<history, call, ctx, todo, listed, seen, event, verdict>>

\* Mutant of RecordWrites: the answer does not wait for fsync.
RecordWritesMutant(r) ==
  /\ pc[r] = "record" /\ ctx[r] = "live"
  /\ Trail!Arrive(r)
  /\ pc' = [pc EXCEPT ![r] = "respond"]
  /\ UNCHANGED <<history, call, ctx, todo, listed, seen, event, verdict, reply>>

\* Record looks at the context only once, before it writes.
RecordWrites(r) ==
  /\ pc[r] = "record" /\ ctx[r] = "live"
  /\ Trail!Arrive(r)
  /\ pc' = [pc EXCEPT ![r] = "sync"]
  /\ UNCHANGED <<history, call, ctx, todo, listed, seen, event, verdict, reply>>

RecordSucceeds(r) ==
  /\ pc[r] = "sync"
  /\ Trail!Acknowledge(r)
  /\ pc' = [pc EXCEPT ![r] = "respond"]
  /\ UNCHANGED <<history, call, ctx, todo, listed, seen, event, verdict, reply>>

\* Sync or Close failed after the line was written.
SyncFails(r) ==
  /\ pc[r] = "sync"
  /\ Trail!Refuse(r)
  /\ \E code \in RefusalCodes(r) : Answer(r, code, {})
  /\ UNCHANGED <<history, call, ctx, todo, listed, seen, event, verdict>>

\* The service returns and the handler builds the protobuf message, which
\* fails on frontmatter that has no protobuf form.
Respond(r) ==
  /\ pc[r] = "respond"
  /\ IF verdict[r] = "ok" /\ \A v \in seen[r] : FileAt(v).kind = "note"
     THEN Answer(r, "ok", seen[r])
     ELSE Answer(r, IF verdict[r] = "ok" THEN "unknown" ELSE verdict[r], {})
  /\ UNCHANGED <<history, call, ctx, todo, listed, seen, event, verdict, trail, answer>>

----------------------------------------------------------------------------
(* The environment.                                                        *)

Over == {"done", "lost", "aborted"}
Running(r) == pc[r] # "new" /\ pc[r] \notin Over

\* The client cancels, disconnects, or the deadline passes.
EndContext(r) ==
  /\ Running(r) /\ ctx[r] = "live"
  /\ ctx' = [ctx EXCEPT ![r] = "ended"]
  /\ UNCHANGED <<history, call, pc, todo, listed, seen, event, verdict, reply, trail, answer>>

\* The sync worker creates, replaces or deletes a file of the vault.
SyncFile(n, f) ==
  /\ Len(history[n]) < MaxVersions
  /\ Current(n).kind # "escaping" /\ f.kind # "escaping" /\ f # Current(n)
  /\ history' = [history EXCEPT ![n] = Append(@, f)]
  /\ UNCHANGED <<call, ctx, pc, todo, listed, seen, event, verdict, reply, trail, answer>>

\* The service crashes and restarts: requests in flight are never answered.
Crash ==
  /\ \E r \in Requests : Running(r)
  /\ pc' = [r \in Requests |-> IF Running(r) THEN "lost" ELSE pc[r]]
  /\ \E L \in SUBSET trail : Trail!Lose(L)
  /\ UNCHANGED <<history, call, ctx, todo, listed, seen, event, verdict, reply>>

Step(r) == \/ Authenticate(r) \/ RejectMessage(r)
           \/ StartRead(r) \/ ReadNote(r)
           \/ StartSearch(r) \/ ListNote(r) \/ VisitNote(r) \/ SearchPanics(r) \/ WalkFails(r)
           \/ CompleteSearch(r)
           \/ RecordFails(r) \/ RecordWrites(r) \/ RecordSucceeds(r) \/ SyncFails(r)
           \/ Respond(r)

Next == \/ \E r \in Requests : Step(r) \/ EndContext(r) \/ RejectMetadata(r)
                             \/ \E c \in Asked : Receive(r, c)
        \/ \E n \in Notes, f \in File : SyncFile(n, f)
        \/ Crash

Spec == Init /\ [][Next]_vars

\* A goroutine that can run eventually does; nothing else is owed.
FairSpec == Spec /\ \A r \in Requests : WF_vars(Step(r))

----------------------------------------------------------------------------
(* Properties.                                                             *)

Versions == Notes \X (1 .. MaxVersions)
Places == {"new", "authenticate", "handle", "load", "walk", "record", "sync", "respond",
           "done", "lost", "aborted"}

\* Every variable holds a value of its type.
TypeOK ==
  /\ history \in [Notes -> Seq(File)]
  /\ \A n \in Notes : Len(history[n]) \in 1 .. MaxVersions
  /\ call \in [Requests -> Calls \cup {NoCall}]
  /\ ctx \in [Requests -> {"live", "ended"}]
  /\ pc \in [Requests -> Places]
  /\ todo \in [Requests -> SUBSET Notes]
  /\ listed \in [Requests -> SUBSET Notes]
  /\ seen \in [Requests -> SUBSET Versions]
  /\ event \in [Requests -> [type: EventTypes, versions: SUBSET Versions, matched: SUBSET Scopes]]
  /\ verdict \in [Requests -> Codes]
  /\ reply \in [Requests -> [code: Codes, body: SUBSET Versions]]
  /\ Trail!TrailTypeOK

\* Fail-closed auditing (Service.ReadNote and SearchNotes record before they
\* return): whatever note versions a client received, an allowing event that
\* names exactly those versions is in the trail, and stays there across every
\* later crash.
AuditedDisclosure ==
  \A r \in Requests : reply[r].code = "ok" =>
    /\ r \in trail
    /\ event[r].type = (IF call[r].op = "read" THEN "read.allowed" ELSE "search.completed")
    /\ event[r].versions = reply[r].body

\* A client only ever receives a version of a note that itself declares one of
\* the scopes the client's subject is granted, although files are replaced
\* between the walk, the decision and the answer.
ScopedDisclosure ==
  \A r \in Requests : \A v \in reply[r].body :
    IsNote(FileAt(v)) /\ AllowsAny(FileAt(v), Principal(r))

\* A refusal that tells the client something about the vault - the note does
\* not exist, or exists without a matching scope - is audited like a
\* disclosure, with the event that says the same thing.
RefusalsAudited ==
  \A r \in Requests :
    /\ reply[r].code = "not_found" => r \in trail /\ event[r].type = "read.failed"
    /\ reply[r].code = "permission_denied" => r \in trail /\ event[r].type = "read.denied"

\* Every event in the trail is true of the versions it was formed on: an
\* allowing event lists exactly the granted scopes that those versions
\* declare, each version contributing one, and a denying event names a version
\* that really declared none of them.
EventsTellTheTruth ==
  \A r \in trail :
    /\ event[r].type \in Disclosing =>
         /\ event[r].matched =
              {s \in Principal(r) : \E v \in event[r].versions : s \in FileAt(v).scopes}
         /\ \A v \in event[r].versions : FileAt(v).scopes \cap event[r].matched # {}
    /\ event[r].type = "read.denied" =>
         \A v \in event[r].versions : IsNote(FileAt(v)) /\ ~AllowsAny(FileAt(v), Principal(r))

\* A request that never proved a subject with a grant leaves no trace but an
\* authentication failure, and learns nothing but that.
UnauthenticatedLearnNothing ==
  \A r \in Requests : Principal(r) = {} =>
    /\ reply[r].code \in {"none", "invalid_argument", "unknown", "unauthenticated", "canceled",
                          "internal"}
    /\ event[r].type \in {"none", "auth.failed"}

\* Controlled access implements the ledger: an entry is the allowing event in
\* the trail, a disclosure is an "ok" answer.
EntryOf(r) == IF r \in trail /\ event[r].type \in Disclosing
              THEN [made |-> TRUE, versions |-> event[r].versions]
              ELSE [made |-> FALSE, versions |-> {}]
StatusOf(r) == IF reply[r].code = "ok" THEN "disclosed"
               ELSE IF pc[r] \in Over THEN "closed" ELSE "open"

Ledger == INSTANCE AccessLedger WITH
  entry  <- [r \in Requests |-> EntryOf(r)],
  status <- [r \in Requests |-> StatusOf(r)],
  shown  <- [r \in Requests |-> reply[r].body]

\* No step of the service discloses without a ledger entry, or loses one that
\* was disclosed under.
ImplementsLedger == Ledger!LedgerSpec

\* Every request that arrives is answered, or cut off by a panic of its search or
\* by a crash, whatever has become of the files between their listing and their
\* visit, and however its audit record fails.
EveryRequestEnds == \A r \in Requests : Running(r) ~> ~Running(r)

----------------------------------------------------------------------------
(* Claims of docs/audit-v1-design.md about the same code.                  *)

\* "Recorded when note content or metadata is returned to a caller": an
\* acknowledged allowing event of a finished request means it got the content.
AllowedMeansReturned ==
  \A r \in Requests :
    pc[r] = "done" /\ answer[r] = "ok" /\ event[r].type = "read.allowed" => reply[r].code = "ok"
===============================================================================
