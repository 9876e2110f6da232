-------------------------- MODULE VaultAccessProofs --------------------------
(***************************************************************************)
(* Proofs about the controlled access path, for every set of requests,     *)
(* notes, scopes and subjects, every scope mapping and every bound on the  *)
(* versions of a file.                                                     *)
(***************************************************************************)
EXTENDS VaultAccess, TLAPS

----------------------------------------------------------------------------
(* Type correctness.                                                       *)

\* The types of the variables that a step of the environment never touches
\* together with the ones it does are established once, in the initial state.
LEMMA InitTyped == Init => TypeOK
<1> SUFFICES ASSUME Init PROVE TypeOK
  OBVIOUS
<1>1. history \in [Notes -> Seq(File)] /\ \A n \in Notes : Len(history[n]) \in 1 .. MaxVersions
  <2>1. PICK h \in [Notes -> {<<f>> : f \in File}] : history = h
    BY DEF Init
  <2>2. \A n \in Notes : h[n] \in Seq(File) /\ Len(h[n]) = 1
    <3> TAKE n \in Notes
    <3>1. PICK f \in File : h[n] = <<f>>
      OBVIOUS
    <3> QED BY <3>1
  <2>3. 1 \in 1 .. MaxVersions
    BY BoundAssumption
  <2>4. h \in [Notes -> Seq(File)]
    BY <2>2
  <2> QED BY <2>1, <2>2, <2>3, <2>4
<1>2. event \in [Requests -> [type: EventTypes, versions: SUBSET Versions, matched: SUBSET Scopes]]
  BY DEF Init, NoEvent, Event, EventTypes
<1>3. reply \in [Requests -> [code: Codes, body: SUBSET Versions]]
  BY DEF Init, Reply, Codes
<1> QED BY <1>1, <1>2, <1>3 DEF Init, TypeOK, Places, Codes, Trail!TrailInit, Trail!TrailTypeOK

\* The version of a note that is current is one of the versions there can be.
LEMMA VersionTyped ==
  ASSUME TypeOK, NEW n \in Notes
  PROVE  /\ Version(n) \in Versions
         /\ Current(n) \in File
<1>1. history[n] \in Seq(File) /\ Len(history[n]) \in 1 .. MaxVersions
  BY DEF TypeOK
<1> QED BY <1>1 DEF Version, Versions, Current

\* The scopes an event lists are scopes.
LEMMA MatchedTyped ==
  ASSUME TypeOK, NEW r \in Requests, NEW vs
  PROVE  MatchedScopes(vs, Principal(r)) \in SUBSET Scopes
BY GrantsAssumption DEF MatchedScopes, Principal

\* Deciding keeps the types of what it sets.
LEMMA DecideTyped ==
  ASSUME TypeOK, NEW r \in Requests, NEW type \in EventTypes, NEW vs \in SUBSET Versions,
         NEW matched \in SUBSET Scopes, NEW code \in Codes,
         Decide(r, Event(type, vs, matched), code)
  PROVE  /\ event' \in [Requests -> [type: EventTypes, versions: SUBSET Versions, matched: SUBSET Scopes]]
         /\ verdict' \in [Requests -> Codes]
         /\ pc' \in [Requests -> Places]
<1>1. Event(type, vs, matched) \in [type: EventTypes, versions: SUBSET Versions, matched: SUBSET Scopes]
  BY DEF Event
<1> QED BY <1>1 DEF TypeOK, Decide, Places

\* So does answering.
LEMMA AnswerTyped ==
  ASSUME TypeOK, NEW r \in Requests, NEW vs \in SUBSET Versions, NEW code \in Codes,
         Answer(r, code, vs)
  PROVE  /\ reply' \in [Requests -> [code: Codes, body: SUBSET Versions]]
         /\ pc' \in [Requests -> Places]
BY DEF TypeOK, Answer, Reply, Places

LEMMA NextTyped == TypeOK /\ [Next]_vars => TypeOK'
<1> SUFFICES ASSUME TypeOK, [Next]_vars PROVE TypeOK'
  OBVIOUS
<1> USE DEF TypeOK
<1>1. ASSUME NEW r \in Requests, NEW c \in Asked, Receive(r, c) PROVE TypeOK'
  BY <1>1, AskedAssumption DEF Receive, Places, Trail!TrailTypeOK
<1>2. ASSUME NEW r \in Requests, RejectMetadata(r) PROVE TypeOK'
  BY <1>2, AnswerTyped DEF RejectMetadata, Codes, Trail!TrailTypeOK
<1>3. ASSUME NEW r \in Requests, Authenticate(r) PROVE TypeOK'
  <2>1. CASE Decide(r, Event("auth.failed", {}, {}), "unauthenticated") /\ UNCHANGED reply
    <3>1. "auth.failed" \in EventTypes /\ "unauthenticated" \in Codes
      BY DEF EventTypes, Codes
    <3> QED BY <1>3, <2>1, <3>1, DecideTyped DEF Authenticate, Trail!TrailTypeOK
  <2>2. CASE Answer(r, "canceled", {}) /\ UNCHANGED <<event, verdict>>
    BY <1>3, <2>2, AnswerTyped DEF Authenticate, Codes, Trail!TrailTypeOK
  <2>3. CASE pc' = [pc EXCEPT ![r] = "handle"] /\ UNCHANGED <<event, verdict, reply>>
    BY <1>3, <2>3 DEF Authenticate, Places, Trail!TrailTypeOK
  <2> QED BY <1>3, <2>1, <2>2, <2>3 DEF Authenticate
<1>4. ASSUME NEW r \in Requests, RejectMessage(r) PROVE TypeOK'
  BY <1>4, AnswerTyped DEF RejectMessage, Codes, Trail!TrailTypeOK
<1>5. ASSUME NEW r \in Requests, StartRead(r) PROVE TypeOK'
  BY <1>5 DEF StartRead, Places, Trail!TrailTypeOK
<1>6. ASSUME NEW r \in Requests, ReadNote(r) PROVE TypeOK'
  <2>1. PICK n \in call[r].notes :
          \/ /\ Decide(r, Event("read.failed", {}, {}), "canceled")
             /\ UNCHANGED seen
          \/ /\ ~IsNote(Current(n))
             /\ Decide(r, Event("read.failed", {}, {}), ReadOutcome(Current(n)))
             /\ UNCHANGED seen
          \/ /\ Decide(r, Event("read.denied", {Version(n)}, {}), "permission_denied")
             /\ UNCHANGED seen
          \/ /\ Decide(r, Event("read.allowed", {Version(n)}, MatchedScopes({Version(n)}, Principal(r))), "ok")
             /\ seen' = [seen EXCEPT ![r] = {Version(n)}]
    BY <1>6 DEF ReadNote
  <2>2. n \in Notes
    BY DEF Calls, NoCall
  <2>3. Version(n) \in Versions /\ Current(n) \in File
    BY <2>2, VersionTyped
  <2>4. ~IsNote(Current(n)) => ReadOutcome(Current(n)) \in Codes
    BY <2>3 DEF File, Kinds, Parsed, IsNote, ReadOutcome, Codes
  <2>5. /\ {"read.failed", "read.denied", "read.allowed"} \subseteq EventTypes
        /\ {"canceled", "permission_denied", "ok"} \subseteq Codes
    BY DEF EventTypes, Codes
  <2>6. MatchedScopes({Version(n)}, Principal(r)) \in SUBSET Scopes
    BY MatchedTyped
  <2>7. /\ event' \in [Requests -> [type: EventTypes, versions: SUBSET Versions, matched: SUBSET Scopes]]
        /\ verdict' \in [Requests -> Codes]
        /\ pc' \in [Requests -> Places]
    <3> DEFINE ev == {Version(n)}
    <3>1. ev \in SUBSET Versions
      BY <2>3
    <3> QED BY <2>1, <2>4, <2>5, <2>6, <3>1, DecideTyped
  <2>8. seen' \in [Requests -> SUBSET Versions]
    BY <2>1, <2>3
  <2> QED BY <1>6, <2>7, <2>8 DEF ReadNote, Trail!TrailTypeOK
<1>7. ASSUME NEW r \in Requests, StartSearch(r) PROVE TypeOK'
  <2>1. CASE /\ SearchRefusal(r) # "none"
             /\ Decide(r, Event("search.failed", {}, {}), SearchRefusal(r))
             /\ UNCHANGED todo
    <3>1. SearchRefusal(r) \in Codes /\ "search.failed" \in EventTypes
      BY DEF SearchRefusal, Codes, EventTypes
    <3> QED BY <1>7, <2>1, <3>1, DecideTyped DEF StartSearch, Trail!TrailTypeOK
  <2>2. CASE /\ todo' = [todo EXCEPT ![r] = Notes]
             /\ pc' = [pc EXCEPT ![r] = "walk"]
             /\ UNCHANGED <<event, verdict>>
    BY <1>7, <2>2 DEF StartSearch, Places, Trail!TrailTypeOK
  <2> QED BY <1>7, <2>1, <2>2 DEF StartSearch
<1>8. ASSUME NEW r \in Requests, ListNote(r) \/ VisitNote(r) \/ SearchPanics(r) \/ WalkFails(r)
      PROVE  TypeOK'
  <2>1. CASE ListNote(r)
    BY <2>1 DEF ListNote, Trail!TrailTypeOK
  <2>2. CASE VisitNote(r)
    <3>1. PICK n \in listed[r] :
            /\ listed' = [listed EXCEPT ![r] = @ \ {n}]
            /\ \/ seen' = [seen EXCEPT ![r] = @ \cup {Version(n)}]
               \/ seen' = seen
      BY <2>2 DEF VisitNote
    <3>2. seen[r] \cup {Version(n)} \in SUBSET Versions
      BY VersionTyped
    <3>3. seen' \in [Requests -> SUBSET Versions] /\ listed' \in [Requests -> SUBSET Notes]
      BY <3>1, <3>2
    <3> QED BY <2>2, <3>3 DEF VisitNote, Trail!TrailTypeOK
  <2>3. CASE SearchPanics(r)
    BY <2>3 DEF SearchPanics, DropWalk, Places, Trail!TrailTypeOK
  <2>4. CASE WalkFails(r)
    <3>1. \E code \in {"canceled", "unknown"} : Decide(r, Event("search.failed", {}, {}), code)
      BY <2>4 DEF WalkFails
    <3>2. "search.failed" \in EventTypes /\ {"canceled", "unknown"} \subseteq Codes
      BY DEF EventTypes, Codes
    <3>3. /\ event' \in [Requests -> [type: EventTypes, versions: SUBSET Versions, matched: SUBSET Scopes]]
          /\ verdict' \in [Requests -> Codes]
          /\ pc' \in [Requests -> Places]
      BY <3>1, <3>2, DecideTyped
    <3> QED BY <2>4, <3>3 DEF WalkFails, DropWalk, Trail!TrailTypeOK
  <2> QED BY <1>8, <2>1, <2>2, <2>3, <2>4
<1>9. ASSUME NEW r \in Requests, CompleteSearch(r) PROVE TypeOK'
  <2>1. PICK page \in SUBSET seen[r] :
          /\ Decide(r, Event("search.completed", page, MatchedScopes(page, Principal(r))), "ok")
          /\ seen' = [seen EXCEPT ![r] = page]
    BY <1>9 DEF CompleteSearch
  <2>2. page \in SUBSET Versions
    BY <2>1
  <2>3. MatchedScopes(page, Principal(r)) \in SUBSET Scopes
    BY MatchedTyped
  <2>4. "search.completed" \in EventTypes /\ "ok" \in Codes
    BY DEF EventTypes, Codes
  <2>5. seen' \in [Requests -> SUBSET Versions]
    BY <2>1, <2>2
  <2> QED BY <1>9, <2>1, <2>2, <2>3, <2>4, <2>5, DecideTyped DEF CompleteSearch, Trail!TrailTypeOK
<1>10. ASSUME NEW r \in Requests, RecordFails(r) \/ SyncFails(r) PROVE TypeOK'
  <2>1. RefusalCodes(r) \subseteq Codes
    BY DEF RefusalCodes, Codes
  <2> QED BY <1>10, <2>1, AnswerTyped DEF RecordFails, SyncFails, Trail!Refuse, Trail!TrailTypeOK
<1>11. ASSUME NEW r \in Requests, RecordWrites(r) PROVE TypeOK'
  BY <1>11 DEF RecordWrites, Places, Trail!Arrive, Trail!TrailTypeOK
<1>12. ASSUME NEW r \in Requests, RecordSucceeds(r) PROVE TypeOK'
  BY <1>12 DEF RecordSucceeds, Places, Trail!Acknowledge, Trail!TrailTypeOK
<1>13. ASSUME NEW r \in Requests, Respond(r) PROVE TypeOK'
  <2>1. seen[r] \in SUBSET Versions /\ verdict[r] \in Codes /\ "ok" \in Codes /\ "unknown" \in Codes
    BY DEF Codes
  <2> QED BY <1>13, <2>1, AnswerTyped DEF Respond, Trail!TrailTypeOK
<1>14. ASSUME NEW r \in Requests, EndContext(r) PROVE TypeOK'
  BY <1>14 DEF EndContext, Trail!TrailTypeOK
<1>15. ASSUME NEW n \in Notes, NEW f \in File, SyncFile(n, f) PROVE TypeOK'
  <2>1. /\ history[n] \in Seq(File)
        /\ Len(history[n]) \in 1 .. MaxVersions
        /\ Len(history[n]) < MaxVersions
    BY <1>15 DEF SyncFile
  <2>2. /\ Append(history[n], f) \in Seq(File)
        /\ Len(Append(history[n], f)) \in 1 .. MaxVersions
    BY <2>1, BoundAssumption
  <2>3. /\ history' \in [Notes -> Seq(File)]
        /\ \A m \in Notes : Len(history'[m]) \in 1 .. MaxVersions
    BY <1>15, <2>2 DEF SyncFile
  <2> QED BY <1>15, <2>3 DEF SyncFile, Trail!TrailTypeOK
<1>16. CASE Crash
  BY <1>16 DEF Crash, Places, Trail!Lose, Trail!TrailTypeOK
<1>17. CASE UNCHANGED vars
  BY <1>17 DEF vars, Trail!TrailTypeOK
<1> QED
  BY <1>1, <1>2, <1>3, <1>4, <1>5, <1>6, <1>7, <1>8, <1>9, <1>10, <1>11, <1>12, <1>13,
     <1>14, <1>15, <1>16, <1>17 DEF Next, Step

\* Every variable holds a value of its type in every state of every behaviour.
THEOREM TypeCorrect == Spec => []TypeOK
BY InitTyped, NextTyped, PTL DEF Spec

----------------------------------------------------------------------------
(* Fail-closed auditing.  What a client was told follows from where its    *)
(* goroutine has been: the recorder is called between the decision and the *)
(* answer, and the decision and its event are never separated.             *)

\* The answers that tell something about the vault.
Telling == {"ok", "not_found", "permission_denied"}

\* The code that will be answered and the event that is recorded agree.
EventMatchesVerdict(r) ==
  /\ verdict[r] = "ok" =>
       /\ event[r].type = (IF call[r].op = "read" THEN "read.allowed" ELSE "search.completed")
       /\ event[r].versions = seen[r]
  /\ verdict[r] = "not_found" => event[r].type = "read.failed"
  /\ verdict[r] = "permission_denied" => event[r].type = "read.denied"

AuditInvOf(r) ==
  /\ pc[r] = "load" => call[r].op = "read"
  /\ pc[r] = "walk" => call[r].op = "search"
  /\ pc[r] \in {"handle", "load", "walk"} => Principal(r) # {}
  /\ pc[r] \in {"new", "authenticate", "handle", "load", "walk", "record"} =>
       answer[r] = "none" /\ r \notin trail
  /\ pc[r] = "sync" => answer[r] = "none" /\ r \in trail
  /\ pc[r] = "respond" => answer[r] = "ok"
  /\ pc[r] \in {"record", "sync", "respond"} => EventMatchesVerdict(r)
  /\ answer[r] = "ok" => r \in trail
  /\ reply[r].code # "none" => pc[r] = "done"
  /\ reply[r].code \in Telling =>
       /\ answer[r] = "ok"
       /\ verdict[r] = reply[r].code
       /\ EventMatchesVerdict(r)
       /\ reply[r].code = "ok" => reply[r].body = seen[r]

AuditInv == \A r \in Requests : AuditInvOf(r)

LEMMA InitAudited == Init => AuditInv
<1> SUFFICES ASSUME Init, NEW r \in Requests PROVE AuditInvOf(r)
  BY DEF AuditInv
<1>1. /\ pc[r] = "new" /\ reply[r] = Reply("none", {})
      /\ answer[r] = "none" /\ r \notin trail
  BY DEF Init, Trail!TrailInit
<1> QED BY <1>1 DEF AuditInvOf, Reply, Telling

\* A step of one request leaves the invariant of another one alone.
LEMMA OthersAudited ==
  ASSUME NEW r \in Requests, AuditInvOf(r),
         call'[r] = call[r], pc'[r] = pc[r], seen'[r] = seen[r], event'[r] = event[r],
         verdict'[r] = verdict[r], reply'[r] = reply[r], answer'[r] = answer[r],
         r \in trail' <=> r \in trail
  PROVE  AuditInvOf(r)'
BY DEF AuditInvOf, EventMatchesVerdict, Principal

\* Nothing is known yet that could be told before the recorder is called.
LEMMA NothingTold ==
  ASSUME TypeOK, NEW r \in Requests, AuditInvOf(r), pc[r] # "done"
  PROVE  reply[r].code = "none"
BY DEF AuditInvOf

\* A refusal to record never tells anything about the vault.
LEMMA RefusalTellsNothing ==
  ASSUME NEW r \in Requests
  PROVE  RefusalCodes(r) \cap Telling = {}
BY DEF RefusalCodes, Telling

\* A step of the walk of a search.
WalkStep(r) == ListNote(r) \/ VisitNote(r) \/ SearchPanics(r) \/ WalkFails(r)

\* The variables that AuditInvOf reads, at a request that takes no step.
SameAt(s) == /\ call'[s] = call[s] /\ pc'[s] = pc[s] /\ seen'[s] = seen[s]
             /\ event'[s] = event[s] /\ verdict'[s] = verdict[s]
             /\ reply'[s] = reply[s] /\ answer'[s] = answer[s]
             /\ s \in trail' <=> s \in trail

\* Every step of a request, and the ones the environment makes for it, leaves
\* every other request as it was.
LEMMA StepIsLocal ==
  ASSUME TypeOK, NEW r \in Requests, NEW s \in Requests, s # r,
         Step(r) \/ EndContext(r) \/ RejectMetadata(r) \/ \E c \in Asked : Receive(r, c)
  PROVE  SameAt(s)
<1> USE DEF SameAt, TypeOK, Decide, Answer
<1>1. CASE \E c \in Asked : Receive(r, c)
  BY <1>1 DEF Receive
<1>2. CASE RejectMetadata(r) \/ Authenticate(r) \/ RejectMessage(r) \/ EndContext(r)
  BY <1>2 DEF RejectMetadata, Authenticate, RejectMessage, EndContext
<1>3. CASE StartRead(r) \/ StartSearch(r)
  BY <1>3 DEF StartRead, StartSearch
<1>4. CASE ReadNote(r)
  BY <1>4 DEF ReadNote
<1>5. CASE WalkStep(r)
  BY <1>5 DEF WalkStep, ListNote, VisitNote, SearchPanics, WalkFails, DropWalk
<1>6. CASE CompleteSearch(r)
  BY <1>6 DEF CompleteSearch
<1>7. CASE RecordFails(r) \/ RecordWrites(r) \/ RecordSucceeds(r) \/ SyncFails(r)
  BY <1>7 DEF RecordFails, RecordWrites, RecordSucceeds, SyncFails,
              Trail!Refuse, Trail!Arrive, Trail!Acknowledge, Trail!TrailTypeOK
<1>8. CASE Respond(r)
  BY <1>8 DEF Respond
<1> QED BY <1>1, <1>2, <1>3, <1>4, <1>5, <1>6, <1>7, <1>8 DEF Step, WalkStep

LEMMA NextAudited == TypeOK /\ AuditInv /\ [Next]_vars => AuditInv'
<1> SUFFICES ASSUME TypeOK, AuditInv, [Next]_vars, NEW s \in Requests PROVE AuditInvOf(s)'
  BY DEF AuditInv
<1>0. AuditInvOf(s)
  BY DEF AuditInv
<1>1. CASE SameAt(s)
  BY <1>0, <1>1, OthersAudited DEF SameAt
<1>2. ASSUME NEW c \in Asked, Receive(s, c) PROVE AuditInvOf(s)'
  BY <1>0, <1>2, NothingTold DEF Receive, TypeOK, AuditInvOf, Telling
<1>3. CASE RejectMetadata(s) \/ RejectMessage(s)
  BY <1>0, <1>3 DEF RejectMetadata, RejectMessage, Answer, Reply, TypeOK, AuditInvOf, Telling
<1>4. CASE Authenticate(s)
  <2>1. CASE Decide(s, Event("auth.failed", {}, {}), "unauthenticated") /\ UNCHANGED reply
    BY <1>0, <1>4, <2>1, NothingTold
       DEF Authenticate, Decide, TypeOK, AuditInvOf, Telling, EventMatchesVerdict
  <2>2. CASE Answer(s, "canceled", {}) /\ UNCHANGED <<event, verdict>>
    BY <1>0, <1>4, <2>2 DEF Authenticate, Answer, Reply, TypeOK, AuditInvOf, Telling
  <2>3. CASE /\ Principal(s) # {}
             /\ pc' = [pc EXCEPT ![s] = "handle"]
             /\ UNCHANGED <<event, verdict, reply>>
    BY <1>0, <1>4, <2>3, NothingTold DEF Authenticate, TypeOK, AuditInvOf, Telling, Principal
  <2> QED BY <1>4, <2>1, <2>2, <2>3 DEF Authenticate
<1>5. CASE StartRead(s)
  BY <1>0, <1>5, NothingTold DEF StartRead, TypeOK, AuditInvOf, Telling, Principal
<1>6. CASE ReadNote(s)
  <2>1. PICK n \in call[s].notes :
          \/ /\ Decide(s, Event("read.failed", {}, {}), "canceled")
             /\ UNCHANGED seen
          \/ /\ ~IsNote(Current(n))
             /\ Decide(s, Event("read.failed", {}, {}), ReadOutcome(Current(n)))
             /\ UNCHANGED seen
          \/ /\ Decide(s, Event("read.denied", {Version(n)}, {}), "permission_denied")
             /\ UNCHANGED seen
          \/ /\ Decide(s, Event("read.allowed", {Version(n)}, MatchedScopes({Version(n)}, Principal(s))), "ok")
             /\ seen' = [seen EXCEPT ![s] = {Version(n)}]
    BY <1>6 DEF ReadNote
  <2>2. n \in Notes
    BY DEF TypeOK, Calls, NoCall
  <2>3. ~IsNote(Current(n)) => ReadOutcome(Current(n)) \notin {"ok", "permission_denied"}
    BY <2>2, VersionTyped DEF File, Kinds, Parsed, IsNote, ReadOutcome
  <2>4. pc[s] = "load" /\ call[s].op = "read" /\ UNCHANGED <<call, reply, trail, answer>>
    BY <1>0, <1>6 DEF ReadNote, AuditInvOf
  <2>5. EventMatchesVerdict(s)' /\ pc'[s] = "record"
    <3> USE DEF Decide, Event, TypeOK, EventMatchesVerdict
    <3>1. ASSUME NEW code, code \notin {"ok", "permission_denied"},
                 Decide(s, Event("read.failed", {}, {}), code)
          PROVE  EventMatchesVerdict(s)' /\ pc'[s] = "record"
      BY <3>1
    <3>2. CASE Decide(s, Event("read.denied", {Version(n)}, {}), "permission_denied")
      BY <3>2
    <3>3. CASE /\ Decide(s, Event("read.allowed", {Version(n)}, MatchedScopes({Version(n)}, Principal(s))), "ok")
               /\ seen' = [seen EXCEPT ![s] = {Version(n)}]
      BY <2>4, <3>3
    <3> QED BY <2>1, <2>3, <3>1, <3>2, <3>3
  <2> QED BY <1>0, <2>4, <2>5, NothingTold DEF AuditInvOf, Telling
<1>7. CASE StartSearch(s)
  <2>1. CASE /\ SearchRefusal(s) # "none"
             /\ Decide(s, Event("search.failed", {}, {}), SearchRefusal(s))
             /\ UNCHANGED todo
    <3>1. SearchRefusal(s) \notin Telling
      BY <1>0, <1>7 DEF StartSearch, AuditInvOf, SearchRefusal, Telling
    <3> QED BY <1>0, <1>7, <2>1, <3>1, NothingTold
            DEF StartSearch, Decide, TypeOK, AuditInvOf, Telling, EventMatchesVerdict
  <2>2. CASE pc' = [pc EXCEPT ![s] = "walk"] /\ UNCHANGED <<event, verdict>>
    BY <1>0, <1>7, <2>2, NothingTold DEF StartSearch, TypeOK, AuditInvOf, Telling, Principal
  <2> QED BY <1>7, <2>1, <2>2 DEF StartSearch
<1>8. CASE WalkStep(s)
  <2>1. \/ UNCHANGED <<pc, event, verdict>>
        \/ pc' = [pc EXCEPT ![s] = "aborted"]
        \/ \E code \in {"canceled", "unknown"} : Decide(s, Event("search.failed", {}, {}), code)
    BY <1>8 DEF WalkStep, ListNote, VisitNote, SearchPanics, WalkFails
  <2>2. pc[s] = "walk" /\ UNCHANGED <<call, reply, trail, answer>>
    BY <1>8 DEF WalkStep, ListNote, VisitNote, SearchPanics, WalkFails
  <2>3. CASE UNCHANGED <<pc, event, verdict>>
    BY <1>0, <2>2, <2>3, NothingTold DEF AuditInvOf, Telling, Principal
  <2>4. CASE \E code \in {"canceled", "unknown"} : Decide(s, Event("search.failed", {}, {}), code)
    <3>1. EventMatchesVerdict(s)' /\ pc'[s] = "record"
      BY <2>4 DEF Decide, TypeOK, EventMatchesVerdict
    <3> QED BY <1>0, <2>2, <3>1, NothingTold DEF AuditInvOf, Telling
  <2>5. CASE pc' = [pc EXCEPT ![s] = "aborted"]
    <3>1. pc'[s] = "aborted"
      BY <2>5 DEF TypeOK
    <3> QED BY <1>0, <2>2, <3>1, NothingTold DEF AuditInvOf, Telling
  <2> QED BY <2>1, <2>3, <2>4, <2>5
<1>9. CASE CompleteSearch(s)
  <2>1. PICK page \in SUBSET seen[s] :
          /\ Decide(s, Event("search.completed", page, MatchedScopes(page, Principal(s))), "ok")
          /\ seen' = [seen EXCEPT ![s] = page]
    BY <1>9 DEF CompleteSearch
  <2>2. /\ pc[s] = "walk" /\ call[s].op = "search"
        /\ UNCHANGED <<call, reply, trail, answer>>
    BY <1>0, <1>9 DEF CompleteSearch, AuditInvOf
  <2>3. EventMatchesVerdict(s)' /\ pc'[s] = "record"
    BY <2>1, <2>2 DEF Decide, Event, TypeOK, EventMatchesVerdict
  <2> QED BY <1>0, <2>2, <2>3, NothingTold DEF AuditInvOf, Telling
<1>10. CASE RecordFails(s) \/ SyncFails(s)
  <2>1. /\ \E code \in RefusalCodes(s) : Answer(s, code, {})
        /\ answer' = [answer EXCEPT ![s] = "error"]
        /\ UNCHANGED <<call, seen, event, verdict, trail>>
    BY <1>10 DEF RecordFails, SyncFails, Trail!Refuse
  <2>2. reply'[s].code \notin Telling /\ pc'[s] = "done" /\ answer'[s] = "error"
    BY <2>1, RefusalTellsNothing DEF Answer, Reply, TypeOK, Trail!TrailTypeOK
  <2> QED BY <2>2 DEF AuditInvOf
<1>11. CASE RecordWrites(s)
  BY <1>0, <1>11, NothingTold
     DEF RecordWrites, Trail!Arrive, TypeOK, AuditInvOf, Telling, EventMatchesVerdict
<1>12. CASE RecordSucceeds(s)
  BY <1>0, <1>12, NothingTold
     DEF RecordSucceeds, Trail!Acknowledge, TypeOK, Trail!TrailTypeOK, AuditInvOf, Telling,
         EventMatchesVerdict
<1>13. CASE Respond(s)
  <2>1. /\ pc[s] = "respond" /\ answer[s] = "ok" /\ s \in trail /\ EventMatchesVerdict(s)
        /\ UNCHANGED <<call, seen, event, verdict, trail, answer>>
    BY <1>0, <1>13 DEF Respond, AuditInvOf
  <2>2. /\ pc'[s] = "done"
        /\ \/ reply'[s] = Reply("ok", seen[s]) /\ verdict[s] = "ok"
           \/ reply'[s] = Reply("unknown", {})
           \/ reply'[s] = Reply(verdict[s], {}) /\ verdict[s] # "ok"
    BY <1>13 DEF Respond, Answer, TypeOK
  <2> QED BY <2>1, <2>2 DEF AuditInvOf, EventMatchesVerdict, Telling, Reply
<1>14. CASE EndContext(s)
  BY <1>0, <1>14, OthersAudited DEF EndContext
<1>15. CASE \E n \in Notes, f \in File : SyncFile(n, f)
  BY <1>0, <1>15, OthersAudited DEF SyncFile
<1>16. CASE Crash
  <2>1. PICK L \in SUBSET trail : Trail!Lose(L)
    BY <1>16 DEF Crash
  <2>2. /\ UNCHANGED <<call, seen, event, verdict, reply, answer>>
        /\ pc'[s] = IF Running(s) THEN "lost" ELSE pc[s]
        /\ s \in trail' => s \in trail
        /\ answer[s] = "ok" => (s \in trail => s \in trail')
    BY <1>16, <2>1 DEF Crash, Trail!Lose
  <2>3. CASE Running(s)
    <3>1. pc'[s] = "lost" /\ reply'[s].code = "none"
      BY <1>0, <2>2, <2>3 DEF Running, Over, AuditInvOf
    <3> QED BY <1>0, <2>2, <3>1 DEF AuditInvOf, Telling
  <2>4. CASE ~Running(s)
    BY <1>0, <2>2, <2>4 DEF AuditInvOf, Running, Over, Telling, EventMatchesVerdict, Principal
  <2> QED BY <2>3, <2>4
<1>17. CASE UNCHANGED vars
  BY <1>0, <1>17, OthersAudited DEF vars
<1>18. ASSUME NEW r \in Requests, r # s,
              Step(r) \/ EndContext(r) \/ RejectMetadata(r) \/ \E c \in Asked : Receive(r, c)
       PROVE  AuditInvOf(s)'
  BY <1>1, <1>18, StepIsLocal
<1> QED
  BY <1>2, <1>3, <1>4, <1>5, <1>6, <1>7, <1>8, <1>9, <1>10, <1>11, <1>12, <1>13, <1>14,
     <1>15, <1>16, <1>17, <1>18 DEF Next, Step, WalkStep

\* The inductive invariant holds throughout.
LEMMA AuditInvariant == Spec => []AuditInv
BY InitTyped, NextTyped, InitAudited, NextAudited, PTL DEF Spec

\* No client receives note versions unless an allowing event that names exactly
\* those versions is in the trail, in every state of every behaviour.
THEOREM DisclosureIsAudited == Spec => []AuditedDisclosure
<1>1. AuditInv => AuditedDisclosure
  BY DEF AuditInv, AuditInvOf, EventMatchesVerdict, Telling, AuditedDisclosure
<1> QED BY <1>1, AuditInvariant, PTL

\* No client learns that a note does not exist, or that it may not read it,
\* unless the event that says so is in the trail.
THEOREM RefusalIsAudited == Spec => []RefusalsAudited
<1>1. AuditInv => RefusalsAudited
  BY DEF AuditInv, AuditInvOf, EventMatchesVerdict, Telling, RefusalsAudited
<1> QED BY <1>1, AuditInvariant, PTL

----------------------------------------------------------------------------
(* Scopes.  The sync worker replaces files while requests are served, so   *)
(* what was decided about a version must stay true of that version: the    *)
(* history of a path only grows.                                           *)

\* A version its path has had.
Exists(v) == v \in Versions /\ v[2] <= Len(history[v[1]])
Readable(v, r) == /\ Exists(v)
                  /\ IsNote(FileAt(v))
                  /\ AllowsAny(FileAt(v), Principal(r))

TrueEvent(r) ==
  /\ \A v \in event[r].versions : Exists(v)
  /\ event[r].type \in Disclosing =>
       /\ event[r].matched = MatchedScopes(event[r].versions, Principal(r))
       /\ \A v \in event[r].versions : AllowsAny(FileAt(v), Principal(r))
  /\ event[r].type = "read.denied" =>
       \A v \in event[r].versions : IsNote(FileAt(v)) /\ ~AllowsAny(FileAt(v), Principal(r))

ScopeInvOf(r) ==
  /\ pc[r] = "new" => /\ seen[r] = {} /\ reply[r].body = {}
                      /\ event[r] = NoEvent
  /\ pc[r] = "walk" => Principal(r) # {}
  /\ \A v \in seen[r] \cup reply[r].body : Readable(v, r)
  /\ TrueEvent(r)

ScopeInv == \A r \in Requests : ScopeInvOf(r)

LEMMA InitScoped == Init => ScopeInv
<1> SUFFICES ASSUME Init, NEW r \in Requests PROVE ScopeInvOf(r)
  BY DEF ScopeInv
<1>1. /\ pc[r] = "new" /\ reply[r] = Reply("none", {}) /\ seen[r] = {}
      /\ event[r] = NoEvent
  BY DEF Init
<1> QED BY <1>1 DEF ScopeInvOf, Reply, NoEvent, Event, TrueEvent, Disclosing

\* What a version is does not change while files are replaced.
LEMMA VersionsAreStable ==
  ASSUME TypeOK, [Next]_vars, NEW v, Exists(v)
  PROVE  Exists(v)' /\ FileAt(v)' = FileAt(v)
<1>1. /\ v \in Notes \X (1 .. MaxVersions) /\ v[1] \in Notes /\ v[2] \in 1 .. MaxVersions
      /\ history[v[1]] \in Seq(File) /\ v[2] <= Len(history[v[1]])
  BY DEF Exists, Versions, TypeOK
<1>2. ASSUME NEW n \in Notes, NEW f \in File, SyncFile(n, f)
      PROVE  Exists(v)' /\ FileAt(v)' = FileAt(v)
  <2>1. CASE v[1] = n
    <3>1. history'[n] = Append(history[n], f)
      BY <1>2 DEF SyncFile, TypeOK
    <3>2. /\ Len(history'[n]) = Len(history[n]) + 1
          /\ history'[n][v[2]] = history[n][v[2]]
      BY <1>1, <2>1, <3>1, BoundAssumption
    <3> QED BY <1>1, <2>1, <3>2, BoundAssumption DEF Exists, Versions, FileAt
  <2>2. CASE v[1] # n
    <3>1. history'[v[1]] = history[v[1]]
      BY <1>1, <1>2, <2>2 DEF SyncFile, TypeOK
    <3> QED BY <1>1, <3>1 DEF Exists, Versions, FileAt
  <2> QED BY <2>1, <2>2
<1>3. CASE UNCHANGED history
  BY <1>3 DEF Exists, FileAt
<1>4. ASSUME NEW r \in Requests,
             Step(r) \/ EndContext(r) \/ RejectMetadata(r) \/ \E c \in Asked : Receive(r, c)
      PROVE  UNCHANGED history
  BY <1>4 DEF Step, EndContext, RejectMetadata, Receive, Authenticate, RejectMessage, StartRead,
              ReadNote, StartSearch, ListNote, VisitNote, SearchPanics, WalkFails,
              CompleteSearch, RecordFails, RecordWrites, RecordSucceeds, SyncFails, Respond
<1>5. Crash \/ UNCHANGED vars => UNCHANGED history
  BY DEF Crash, vars
<1> QED BY <1>2, <1>3, <1>4, <1>5 DEF Next

\* So the invariant is kept by every step that adds nothing to what a request
\* has seen, was told, or records.
LEMMA NothingAdded ==
  ASSUME TypeOK, [Next]_vars, NEW r \in Requests, ScopeInvOf(r),
         call'[r] = call[r], seen'[r] \subseteq seen[r], event'[r] = event[r],
         reply'[r].body \subseteq reply[r].body \cup seen[r],
         pc'[r] = "new" => UNCHANGED <<seen, reply, event>> /\ pc[r] = "new",
         pc'[r] = "walk" => Principal(r) # {}
  PROVE  ScopeInvOf(r)'
<1>1. Principal(r)' = Principal(r)
  BY DEF Principal
<1>2. \A v \in seen'[r] \cup reply'[r].body : Readable(v, r)'
  <2> TAKE v \in seen'[r] \cup reply'[r].body
  <2>1. Readable(v, r)
    BY DEF ScopeInvOf
  <2> QED BY <1>1, <2>1, VersionsAreStable DEF Readable, AllowsAny, IsNote
<1>3. TrueEvent(r)'
  <2>1. \A v \in event[r].versions : Exists(v)' /\ FileAt(v)' = FileAt(v)
    BY VersionsAreStable DEF ScopeInvOf, TrueEvent
  <2>2. MatchedScopes(event[r].versions, Principal(r))' = MatchedScopes(event[r].versions, Principal(r))
    <3>1. {FileAt(v).scopes : v \in event[r].versions}' = {FileAt(v).scopes : v \in event[r].versions}
      BY <2>1
    <3> QED BY <1>1, <3>1 DEF MatchedScopes
  <2> QED BY <1>1, <2>1, <2>2 DEF ScopeInvOf, TrueEvent, AllowsAny, IsNote
<1> QED BY <1>1, <1>2, <1>3 DEF ScopeInvOf

\* An event that names no version is true whatever it says.
LEMMA EmptyEventIsTrue ==
  ASSUME NEW r \in Requests, NEW type, type \notin Disclosing,
         event'[r] = Event(type, {}, {})
  PROVE  TrueEvent(r)'
BY DEF TrueEvent, Event

\* So are the events of the failures that the service records.
LEMMA FailureIsTrue ==
  ASSUME TypeOK, NEW r \in Requests, NEW code,
         NEW type \in {"auth.failed", "read.failed", "search.failed"},
         Decide(r, Event(type, {}, {}), code)
  PROVE  TrueEvent(r)' /\ pc'[r] = "record"
<1>1. event'[r] = Event(type, {}, {}) /\ pc'[r] = "record"
  BY DEF Decide, TypeOK
<1>2. type \notin Disclosing
  BY DEF Disclosing
<1> QED BY <1>1, <1>2, EmptyEventIsTrue

\* The variables that ScopeInvOf reads, at a request that takes no step.
ScopeSameAt(s) == /\ call'[s] = call[s] /\ pc'[s] = pc[s] /\ seen'[s] = seen[s]
                  /\ event'[s] = event[s] /\ reply'[s] = reply[s]

\* The version that is current exists, and is what the path holds now.
LEMMA CurrentVersion ==
  ASSUME TypeOK, NEW n \in Notes
  PROVE  Exists(Version(n)) /\ FileAt(Version(n)) = Current(n)
<1>1. history[n] \in Seq(File) /\ Len(history[n]) \in 1 .. MaxVersions
  BY DEF TypeOK
<1> QED BY <1>1, VersionTyped DEF Exists, Version, FileAt, Current

LEMMA NextScoped == TypeOK /\ ScopeInv /\ [Next]_vars => ScopeInv'
<1> SUFFICES ASSUME TypeOK, ScopeInv, [Next]_vars, NEW s \in Requests PROVE ScopeInvOf(s)'
  BY DEF ScopeInv
<1>0. ScopeInvOf(s)
  BY DEF ScopeInv
<1>1. CASE ScopeSameAt(s)
  <2>1. \A v \in seen[s] \cup reply[s].body : Readable(v, s)'
    <3> TAKE v \in seen[s] \cup reply[s].body
    <3>1. Readable(v, s)
      BY <1>0 DEF ScopeInvOf
    <3> QED BY <1>1, <3>1, VersionsAreStable
            DEF ScopeSameAt, Readable, AllowsAny, IsNote, Principal
  <2>2. Principal(s)' = Principal(s)
    BY <1>1 DEF ScopeSameAt, Principal
  <2>3. TrueEvent(s)'
    <3>1. \A v \in event[s].versions : Exists(v)' /\ FileAt(v)' = FileAt(v)
      BY <1>0, VersionsAreStable DEF ScopeInvOf, TrueEvent
    <3>2. {FileAt(v).scopes : v \in event[s].versions}' = {FileAt(v).scopes : v \in event[s].versions}
      BY <1>1, <3>1 DEF ScopeSameAt
    <3>3. MatchedScopes(event[s].versions, Principal(s))' = MatchedScopes(event[s].versions, Principal(s))
      BY <2>2, <3>2 DEF MatchedScopes
    <3> QED BY <1>0, <1>1, <2>2, <3>1, <3>3
            DEF ScopeSameAt, ScopeInvOf, TrueEvent, AllowsAny, IsNote
  <2> QED BY <1>0, <1>1, <2>1, <2>2, <2>3 DEF ScopeSameAt, ScopeInvOf, NoEvent, Event
<1>2. ASSUME NEW c \in Asked, Receive(s, c) PROVE ScopeInvOf(s)'
  <2>1. /\ pc[s] = "new" /\ pc'[s] = "authenticate"
        /\ UNCHANGED <<seen, event, reply>>
    BY <1>2 DEF Receive, TypeOK
  <2>2. seen[s] = {} /\ reply[s].body = {} /\ event[s] = NoEvent
    BY <1>0, <2>1 DEF ScopeInvOf
  <2>3. TrueEvent(s)'
    BY <2>1, <2>2, EmptyEventIsTrue DEF NoEvent, Disclosing
  <2> QED BY <2>1, <2>2, <2>3 DEF ScopeInvOf
<1>3. CASE RejectMetadata(s) \/ RejectMessage(s)
  <2>1. /\ UNCHANGED <<call, seen, event>>
        /\ pc'[s] = "done" /\ reply'[s].body = {}
    BY <1>3 DEF RejectMetadata, RejectMessage, Answer, Reply, TypeOK
  <2> QED BY <1>0, <2>1, NothingAdded
<1>4. CASE Authenticate(s)
  <2>1. CASE Decide(s, Event("auth.failed", {}, {}), "unauthenticated") /\ UNCHANGED reply
    <3>1. TrueEvent(s)' /\ pc'[s] = "record"
      BY <2>1, FailureIsTrue
    <3>2. UNCHANGED <<call, seen, reply, history>>
      BY <1>4, <2>1 DEF Authenticate
    <3> QED BY <1>0, <3>1, <3>2 DEF ScopeInvOf, Readable, Exists, FileAt, AllowsAny, IsNote, Principal
  <2>2. CASE Answer(s, "canceled", {}) /\ UNCHANGED <<event, verdict>>
    BY <1>0, <1>4, <2>2, NothingAdded DEF Authenticate, Answer, Reply, TypeOK
  <2>3. CASE /\ pc' = [pc EXCEPT ![s] = "handle"]
             /\ UNCHANGED <<event, verdict, reply>>
    BY <1>0, <1>4, <2>3, NothingAdded DEF Authenticate, TypeOK
  <2> QED BY <1>4, <2>1, <2>2, <2>3 DEF Authenticate
<1>5. CASE StartRead(s)
  BY <1>0, <1>5, NothingAdded DEF StartRead, TypeOK
<1>6. CASE ReadNote(s)
  <2>1. PICK n \in call[s].notes :
          \/ \E code : /\ Decide(s, Event("read.failed", {}, {}), code)
                        /\ UNCHANGED seen
          \/ /\ IsNote(Current(n)) /\ ~AllowsAny(Current(n), Principal(s))
             /\ Decide(s, Event("read.denied", {Version(n)}, {}), "permission_denied")
             /\ UNCHANGED seen
          \/ /\ IsNote(Current(n)) /\ AllowsAny(Current(n), Principal(s))
             /\ Decide(s, Event("read.allowed", {Version(n)}, MatchedScopes({Version(n)}, Principal(s))), "ok")
             /\ seen' = [seen EXCEPT ![s] = {Version(n)}]
    BY <1>6 DEF ReadNote
  <2>2. n \in Notes
    BY DEF TypeOK, Calls, NoCall
  <2>3. PICK w : w = Version(n) /\ Exists(w) /\ FileAt(w) = Current(n)
    BY <2>2, CurrentVersion
  <2>4. pc'[s] = "record" /\ UNCHANGED <<history, call, reply>>
    BY <1>6, <2>1 DEF ReadNote, Decide, TypeOK
  <2>5. Principal(s)' = Principal(s) /\ \A v : /\ Exists(v)' <=> Exists(v)
                                              /\ FileAt(v)' = FileAt(v)
                                              /\ Readable(v, s)' <=> Readable(v, s)
    BY <2>4 DEF Principal, Exists, FileAt, Readable, AllowsAny, IsNote
  <2>6. \A v \in seen'[s] \cup reply'[s].body : Readable(v, s)
    BY <1>0, <2>1, <2>3, <2>4 DEF Readable, ScopeInvOf, TypeOK
  <2>7. TrueEvent(s)'
    <3>1. ASSUME NEW code, Decide(s, Event("read.failed", {}, {}), code) PROVE TrueEvent(s)'
      BY <3>1, FailureIsTrue
    <3>2. ASSUME IsNote(Current(n)) /\ ~AllowsAny(Current(n), Principal(s)),
                 Decide(s, Event("read.denied", {Version(n)}, {}), "permission_denied")
          PROVE  TrueEvent(s)'
      <4>1. event'[s] = Event("read.denied", {w}, {})
        BY <2>3, <3>2 DEF Decide, TypeOK
      <4>2. IsNote(FileAt(w))' /\ ~AllowsAny(FileAt(w), Principal(s))' /\ Exists(w)'
        BY <3>2, <2>3, <2>4, <2>5 DEF IsNote, AllowsAny, Exists, FileAt
      <4> QED BY <4>1, <4>2 DEF TrueEvent, Event, Disclosing
    <3>3. ASSUME IsNote(Current(n)) /\ AllowsAny(Current(n), Principal(s)),
                 Decide(s, Event("read.allowed", {Version(n)}, MatchedScopes({Version(n)}, Principal(s))), "ok")
          PROVE  TrueEvent(s)'
      <4>1. event'[s] = Event("read.allowed", {w}, MatchedScopes({w}, Principal(s)))
        BY <2>3, <3>3 DEF Decide, TypeOK
      <4>2. Exists(w)' /\ AllowsAny(FileAt(w), Principal(s))'
        BY <3>3, <2>3, <2>4, <2>5 DEF AllowsAny, Exists, FileAt
      <4>3. MatchedScopes(event[s].versions, Principal(s))' = MatchedScopes({w}, Principal(s))
        BY <4>1, <2>4, <2>5 DEF Event, MatchedScopes, FileAt
      <4> QED BY <4>1, <4>2, <4>3 DEF TrueEvent, Event
    <3> QED BY <2>1, <3>1, <3>2, <3>3
  <2> QED BY <2>4, <2>5, <2>6, <2>7 DEF ScopeInvOf
<1>7. CASE StartSearch(s)
  <2>1. CASE Decide(s, Event("search.failed", {}, {}), SearchRefusal(s))
    <3>1. TrueEvent(s)' /\ pc'[s] = "record"
      BY <2>1, FailureIsTrue
    <3>2. UNCHANGED <<call, seen, reply, history>>
      BY <1>7 DEF StartSearch
    <3> QED BY <1>0, <3>1, <3>2 DEF ScopeInvOf, Readable, Exists, FileAt, AllowsAny, IsNote, Principal
  <2>2. CASE /\ SearchRefusal(s) = "none"
             /\ pc' = [pc EXCEPT ![s] = "walk"]
             /\ UNCHANGED <<event, verdict>>
    <3>1. Principal(s) # {}
      BY <2>2 DEF SearchRefusal
    <3> QED BY <1>0, <1>7, <2>2, <3>1, NothingAdded DEF StartSearch, TypeOK
  <2> QED BY <1>7, <2>1, <2>2 DEF StartSearch
<1>8. CASE VisitNote(s)
  <2>1. PICK n \in listed[s] :
          /\ IsNote(Current(n))
          /\ seen' = IF Found(s, n) THEN [seen EXCEPT ![s] = @ \cup {Version(n)}] ELSE seen
    BY <1>8 DEF VisitNote
  <2>2. n \in Notes
    BY DEF TypeOK
  <2>3. Exists(Version(n)) /\ FileAt(Version(n)) = Current(n)
    BY <2>2, CurrentVersion
  <2>4. /\ pc[s] = "walk" /\ Principal(s) # {}
        /\ UNCHANGED <<history, call, pc, event, reply>>
    BY <1>0, <1>8 DEF VisitNote, ScopeInvOf
  <2>5. Principal(s)' = Principal(s) /\ \A v : Readable(v, s)' <=> Readable(v, s)
    BY <2>4 DEF Principal, Exists, FileAt, Readable, AllowsAny, IsNote
  <2>6. \A v \in seen'[s] \cup reply'[s].body : Readable(v, s)
    <3>1. Found(s, n) => Readable(Version(n), s)
      BY <2>1, <2>3, <2>4 DEF Found, Readable, MatchAccess, AllowsAny, Version
    <3> QED BY <1>0, <2>1, <2>4, <3>1 DEF ScopeInvOf, TypeOK
  <2>7. TrueEvent(s)'
    BY <1>0, <2>4, <2>5
       DEF ScopeInvOf, TrueEvent, MatchedScopes, Exists, FileAt, AllowsAny, IsNote
  <2> QED BY <2>4, <2>5, <2>6, <2>7 DEF ScopeInvOf
<1>17. CASE ListNote(s) \/ SearchPanics(s)
  <2>1. /\ pc[s] = "walk" /\ UNCHANGED <<call, event, reply>>
        /\ seen'[s] \subseteq seen[s] /\ pc'[s] \in {"walk", "aborted"}
    BY <1>17 DEF ListNote, SearchPanics, DropWalk, TypeOK
  <2> QED BY <1>0, <2>1, NothingAdded DEF ScopeInvOf
<1>18. CASE WalkFails(s)
  <2>1. PICK code : Decide(s, Event("search.failed", {}, {}), code)
    BY <1>18 DEF WalkFails
  <2>2. TrueEvent(s)' /\ pc'[s] = "record"
    BY <2>1, FailureIsTrue
  <2>3. UNCHANGED <<history, call, reply>> /\ seen'[s] = {}
    BY <1>18 DEF WalkFails, DropWalk, TypeOK
  <2> QED BY <1>0, <2>2, <2>3
          DEF ScopeInvOf, Readable, Exists, FileAt, AllowsAny, IsNote, Principal
<1>9. CASE CompleteSearch(s)
  <2>1. PICK page \in SUBSET seen[s] :
          /\ Decide(s, Event("search.completed", page, MatchedScopes(page, Principal(s))), "ok")
          /\ seen' = [seen EXCEPT ![s] = page]
    BY <1>9 DEF CompleteSearch
  <2>2. UNCHANGED <<history, call, reply>>
    BY <1>9 DEF CompleteSearch
  <2>3. /\ event'[s] = Event("search.completed", page, MatchedScopes(page, Principal(s)))
        /\ pc'[s] = "record" /\ seen'[s] = page
    BY <2>1 DEF Decide, TypeOK
  <2>4. \A v \in page \cup reply[s].body : Readable(v, s)'
    BY <1>0, <2>2 DEF ScopeInvOf, Principal, Exists, FileAt, Readable, AllowsAny, IsNote
  <2>5. MatchedScopes(event[s].versions, Principal(s))' = MatchedScopes(page, Principal(s))
    BY <2>2, <2>3 DEF Event, MatchedScopes, FileAt, Principal
  <2>6. TrueEvent(s)'
    BY <2>3, <2>4, <2>5 DEF TrueEvent, Event, Readable
  <2> QED BY <2>2, <2>3, <2>4, <2>6 DEF ScopeInvOf
<1>10. CASE RecordFails(s) \/ SyncFails(s)
  <2>1. /\ UNCHANGED <<call, seen, event>>
        /\ pc'[s] = "done" /\ reply'[s].body = {}
    BY <1>10 DEF RecordFails, SyncFails, Answer, Reply, TypeOK
  <2> QED BY <1>0, <2>1, NothingAdded
<1>11. CASE RecordWrites(s) \/ RecordSucceeds(s)
  <2>1. /\ UNCHANGED <<call, seen, event, reply>>
        /\ pc'[s] \in {"sync", "respond"}
    BY <1>11 DEF RecordWrites, RecordSucceeds, TypeOK
  <2> QED BY <1>0, <2>1, NothingAdded
<1>12. CASE Respond(s)
  <2>1. /\ UNCHANGED <<call, seen, event>>
        /\ pc'[s] = "done" /\ (reply'[s].body = {} \/ reply'[s].body = seen[s])
    BY <1>12 DEF Respond, Answer, Reply, TypeOK
  <2> QED BY <1>0, <2>1, NothingAdded
<1>13. CASE EndContext(s) \/ \E n \in Notes, f \in File : SyncFile(n, f)
  BY <1>1, <1>13 DEF EndContext, SyncFile, ScopeSameAt
<1>14. CASE Crash
  <2>1. /\ UNCHANGED <<call, seen, event, reply>>
        /\ pc'[s] = IF Running(s) THEN "lost" ELSE pc[s]
    BY <1>14 DEF Crash
  <2>2. pc'[s] = "new" => pc[s] = "new"
    BY <2>1
  <2>3. pc'[s] # "walk"
    BY <2>1 DEF Running, Over
  <2> QED BY <1>0, <2>1, <2>2, <2>3, NothingAdded
<1>15. CASE UNCHANGED vars
  BY <1>1, <1>15 DEF vars, ScopeSameAt
<1>16. ASSUME NEW r \in Requests, r # s,
              Step(r) \/ EndContext(r) \/ RejectMetadata(r) \/ \E c \in Asked : Receive(r, c)
       PROVE  ScopeInvOf(s)'
  BY <1>1, <1>16, StepIsLocal DEF ScopeSameAt, SameAt
<1> QED
  BY <1>2, <1>3, <1>4, <1>5, <1>6, <1>7, <1>8, <1>9, <1>10, <1>11, <1>12, <1>13, <1>14,
     <1>15, <1>16, <1>17, <1>18 DEF Next, Step

LEMMA ScopeInvariant == Spec => []ScopeInv
BY InitTyped, NextTyped, InitScoped, NextScoped, PTL DEF Spec

\* A client only ever receives a version of a note that itself declares one of
\* its scopes, whatever the sync worker does to the file meanwhile.
THEOREM DisclosureIsScoped == Spec => []ScopedDisclosure
<1>1. ScopeInv => ScopedDisclosure
  BY DEF ScopeInv, ScopeInvOf, Readable, ScopedDisclosure
<1> QED BY <1>1, ScopeInvariant, PTL

\* What an event in the trail says of the versions it names is true of them.
THEOREM EventsAreTrue == Spec => []EventsTellTheTruth
<1>1. TypeOK /\ ScopeInv => EventsTellTheTruth
  <2> SUFFICES ASSUME TypeOK, ScopeInv, NEW r \in trail
               PROVE  /\ event[r].type \in Disclosing =>
                           /\ event[r].matched =
                                {s \in Principal(r) : \E v \in event[r].versions : s \in FileAt(v).scopes}
                           /\ \A v \in event[r].versions : FileAt(v).scopes \cap event[r].matched # {}
                      /\ event[r].type = "read.denied" =>
                           \A v \in event[r].versions :
                             IsNote(FileAt(v)) /\ ~AllowsAny(FileAt(v), Principal(r))
    BY DEF EventsTellTheTruth
  <2>1. r \in Requests
    BY DEF TypeOK, Trail!TrailTypeOK
  <2>2. TrueEvent(r)
    BY <2>1 DEF ScopeInv, ScopeInvOf
  <2>3. ASSUME NEW v \in event[r].versions, AllowsAny(FileAt(v), Principal(r))
        PROVE  FileAt(v).scopes \cap MatchedScopes(event[r].versions, Principal(r)) # {}
    <3>1. PICK s \in FileAt(v).scopes : s \in Principal(r)
      BY <2>3 DEF AllowsAny
    <3>2. s \in UNION {FileAt(w).scopes : w \in event[r].versions}
      OBVIOUS
    <3> QED BY <3>1, <3>2 DEF MatchedScopes
  <2>4. MatchedScopes(event[r].versions, Principal(r)) =
          {s \in Principal(r) : \E v \in event[r].versions : s \in FileAt(v).scopes}
    BY DEF MatchedScopes
  <2> QED BY <2>2, <2>3, <2>4 DEF TrueEvent
<1> QED BY <1>1, TypeCorrect, ScopeInvariant, PTL

----------------------------------------------------------------------------
(* Callers without a grant.                                                *)

\* The answers that say nothing about the vault.
Quiet == {"none", "invalid_argument", "unknown", "unauthenticated", "canceled", "internal"}

StrangerInvOf(r) ==
  /\ pc[r] \in {"new", "authenticate", "handle", "load", "walk"} =>
       event[r].type = "none" /\ reply[r].code = "none"
  /\ Principal(r) = {} =>
       /\ pc[r] \in {"record", "sync", "respond"} => verdict[r] = "unauthenticated"
       /\ reply[r].code \in Quiet
       /\ event[r].type \in {"none", "auth.failed"}

StrangerInv == \A r \in Requests : StrangerInvOf(r)

LEMMA InitStranger == Init => StrangerInv
<1> SUFFICES ASSUME Init, NEW r \in Requests PROVE StrangerInvOf(r)
  BY DEF StrangerInv
<1>1. pc[r] = "new" /\ reply[r] = Reply("none", {}) /\ event[r] = NoEvent
  BY DEF Init
<1> QED BY <1>1 DEF StrangerInvOf, Quiet, Reply, NoEvent, Event

LEMMA OthersStranger ==
  ASSUME NEW r \in Requests, StrangerInvOf(r), SameAt(r)
  PROVE  StrangerInvOf(r)'
BY DEF StrangerInvOf, SameAt, Principal

\* AuditInv says that whoever gets past authentication has a grant; the rest
\* goes through the recorder with the verdict of the authentication.
LEMMA NextStranger == TypeOK /\ AuditInv /\ StrangerInv /\ [Next]_vars => StrangerInv'
<1> SUFFICES ASSUME TypeOK, AuditInv, StrangerInv, [Next]_vars, NEW s \in Requests
             PROVE  StrangerInvOf(s)'
  BY DEF StrangerInv
<1>0. StrangerInvOf(s) /\ AuditInvOf(s)
  BY DEF StrangerInv, AuditInv
<1>1. ASSUME NEW c \in Asked, Receive(s, c) PROVE StrangerInvOf(s)'
  BY <1>0, <1>1 DEF Receive, TypeOK, StrangerInvOf, Quiet
<1>2. CASE RejectMetadata(s) \/ RejectMessage(s)
  BY <1>0, <1>2 DEF RejectMetadata, RejectMessage, Answer, Reply, TypeOK, StrangerInvOf, Quiet
<1>3. CASE Authenticate(s)
  BY <1>0, <1>3
     DEF Authenticate, Decide, Answer, Event, Reply, TypeOK, StrangerInvOf, Quiet, Principal
<1>4. CASE ReadNote(s) \/ StartSearch(s) \/ WalkStep(s) \/ CompleteSearch(s) \/ StartRead(s)
  <2> USE DEF WalkStep, ListNote, VisitNote, SearchPanics, WalkFails
  <2>1. UNCHANGED <<call, reply>> /\ Principal(s) # {}
    BY <1>0, <1>4 DEF ReadNote, StartSearch, CompleteSearch, StartRead, AuditInvOf
  <2>2. Principal(s)' # {}
    BY <2>1 DEF Principal
  <2>3. \/ pc'[s] = "record"
        \/ event' = event /\ pc[s] \in {"handle", "walk"}
    BY <1>4 DEF ReadNote, StartSearch, CompleteSearch, StartRead, Decide, TypeOK
  <2> QED BY <1>0, <2>1, <2>2, <2>3 DEF StrangerInvOf
<1>5. CASE RecordFails(s) \/ SyncFails(s)
  <2>1. /\ pc'[s] = "done" /\ reply'[s].code \in Quiet
        /\ UNCHANGED <<call, event, verdict>>
    BY <1>5 DEF RecordFails, SyncFails, Answer, Reply, RefusalCodes, Quiet, TypeOK
  <2> QED BY <1>0, <1>5, <2>1 DEF StrangerInvOf, Principal, RecordFails, SyncFails
<1>6. CASE RecordWrites(s) \/ RecordSucceeds(s)
  BY <1>0, <1>6 DEF RecordWrites, RecordSucceeds, TypeOK, StrangerInvOf, Principal
<1>7. CASE Respond(s)
  <2>1. /\ pc[s] = "respond" /\ pc'[s] = "done"
        /\ UNCHANGED <<call, event, verdict>>
        /\ verdict[s] = "unauthenticated" => reply'[s].code = "unauthenticated"
    BY <1>7 DEF Respond, Answer, Reply, TypeOK
  <2> QED BY <1>0, <2>1 DEF StrangerInvOf, Principal, Quiet
<1>8. CASE EndContext(s) \/ UNCHANGED vars \/ \E n \in Notes, f \in File : SyncFile(n, f)
  BY <1>0, <1>8, OthersStranger DEF EndContext, SyncFile, vars, SameAt
<1>9. CASE Crash
  <2>1. /\ UNCHANGED <<call, event, verdict, reply>>
        /\ pc'[s] = IF Running(s) THEN "lost" ELSE pc[s]
    BY <1>9 DEF Crash
  <2> QED BY <1>0, <2>1 DEF StrangerInvOf, Principal, Running, Over
<1>10. ASSUME NEW r \in Requests, r # s,
              Step(r) \/ EndContext(r) \/ RejectMetadata(r) \/ \E c \in Asked : Receive(r, c)
       PROVE  StrangerInvOf(s)'
  BY <1>0, <1>10, StepIsLocal, OthersStranger
<1> QED
  BY <1>1, <1>2, <1>3, <1>4, <1>5, <1>6, <1>7, <1>8, <1>9, <1>10
     DEF Next, Step, WalkStep

LEMMA StrangerInvariant == Spec => []StrangerInv
BY InitTyped, NextTyped, InitStranger, NextStranger, AuditInvariant, PTL DEF Spec

\* A request that proved no subject with a grant learns nothing about the vault
\* and leaves no other event than its failed authentication.
THEOREM StrangersLearnNothing == Spec => []UnauthenticatedLearnNothing
<1>1. StrangerInv => UnauthenticatedLearnNothing
  BY DEF StrangerInv, StrangerInvOf, Quiet, UnauthenticatedLearnNothing
<1> QED BY <1>1, StrangerInvariant, PTL

----------------------------------------------------------------------------
(***************************************************************************)
(* The controlled access path implements AccessLedger: every step of the   *)
(* service is an entry, a disclosure, a closing, a failure, or a stutter.  *)
(***************************************************************************)
(* Before its answer a request has been shown nothing.                     *)

SilentInvOf(r) == pc[r] # "done" => reply[r] = Reply("none", {})
SilentInv == \A r \in Requests : SilentInvOf(r)

LEMMA InitSilent == Init => SilentInv
BY DEF Init, SilentInv, SilentInvOf

LEMMA NextSilent == TypeOK /\ SilentInv /\ [Next]_vars => SilentInv'
<1> SUFFICES ASSUME TypeOK, SilentInv, [Next]_vars, NEW s \in Requests PROVE SilentInvOf(s)'
  BY DEF SilentInv
<1>0. SilentInvOf(s)
  BY DEF SilentInv
<1>1. ASSUME NEW r \in Requests,
             Step(r) \/ EndContext(r) \/ RejectMetadata(r) \/ \E c \in Asked : Receive(r, c)
      PROVE  SilentInvOf(s)'
  <2>1. CASE r # s
    BY <1>0, <1>1, <2>1, StepIsLocal DEF SameAt, SilentInvOf
  <2>2. CASE r = s
    <3>1. \/ pc'[s] = "done"
          \/ pc[s] # "done" /\ reply' = reply
      <4> USE DEF TypeOK, Decide, Answer
      <4>1. CASE Authenticate(s) \/ RejectMessage(s) \/ RejectMetadata(s) \/ StartRead(s)
        BY <4>1 DEF Authenticate, RejectMessage, RejectMetadata, StartRead
      <4>2. CASE ReadNote(s) \/ StartSearch(s) \/ WalkStep(s) \/ CompleteSearch(s)
        BY <4>2 DEF ReadNote, StartSearch, CompleteSearch, WalkStep, ListNote, VisitNote,
                    SearchPanics, WalkFails
      <4>3. CASE RecordFails(s) \/ RecordWrites(s) \/ RecordSucceeds(s) \/ SyncFails(s)
        BY <4>3 DEF RecordFails, RecordWrites, RecordSucceeds, SyncFails
      <4>4. CASE Respond(s)
        BY <4>4 DEF Respond
      <4>5. CASE EndContext(s) \/ \E c \in Asked : Receive(s, c)
        BY <4>5 DEF EndContext, Receive, Running, Over
      <4> QED BY <1>1, <2>2, <4>1, <4>2, <4>3, <4>4, <4>5 DEF Step, WalkStep
    <3> QED BY <1>0, <3>1 DEF SilentInvOf
  <2> QED BY <2>1, <2>2
<1>2. CASE (\E n \in Notes, f \in File : SyncFile(n, f)) \/ UNCHANGED vars
  BY <1>0, <1>2 DEF SyncFile, vars, SilentInvOf
<1>3. CASE Crash
  <2>1. reply' = reply /\ pc'[s] = IF Running(s) THEN "lost" ELSE pc[s]
    BY <1>3 DEF Crash
  <2> QED BY <1>0, <2>1 DEF SilentInvOf, Running, Over
<1> QED BY <1>1, <1>2, <1>3 DEF Next

LEMMA SilentInvariant == Spec => []SilentInv
BY InitTyped, NextTyped, InitSilent, NextSilent, PTL DEF Spec

----------------------------------------------------------------------------
(* Steps of the ledger, request by request.                                *)

SameEntry(r) == EntryOf(r)' = EntryOf(r)
SameStatus(r) == StatusOf(r)' = StatusOf(r)
SameShown(r) == reply'[r].body = reply[r].body
SameLine(r) == SameEntry(r) /\ SameStatus(r) /\ SameShown(r)

LEMMA SameAtSameLine ==
  ASSUME NEW r \in Requests, SameAt(r)
  PROVE  SameLine(r)
BY DEF SameAt, SameLine, SameEntry, SameStatus, SameShown, EntryOf, StatusOf

LEMMA LedgerStutters ==
  ASSUME \A r \in Requests : SameLine(r)
  PROVE  UNCHANGED Ledger!ledgerVars
BY DEF SameLine, SameEntry, SameStatus, SameShown, Ledger!ledgerVars

LEMMA LedgerEnters ==
  ASSUME NEW s \in Requests, \A r \in Requests \ {s} : SameLine(r),
         SameStatus(s), SameShown(s), StatusOf(s) = "open", ~EntryOf(s).made,
         NEW vs \in SUBSET Versions, EntryOf(s)' = [made |-> TRUE, versions |-> vs]
  PROVE  Ledger!Enter(s)
<1>1. [r \in Requests |-> EntryOf(r)]' =
        [[r \in Requests |-> EntryOf(r)] EXCEPT ![s] = Ledger!Entry(vs)]
  BY DEF SameLine, SameEntry, Ledger!Entry
<1>2. /\ [r \in Requests |-> StatusOf(r)]' = [r \in Requests |-> StatusOf(r)]
      /\ [r \in Requests |-> reply[r].body]' = [r \in Requests |-> reply[r].body]
  BY DEF SameLine, SameStatus, SameShown
<1> QED BY <1>1, <1>2 DEF Ledger!Enter

LEMMA LedgerDiscloses ==
  ASSUME NEW s \in Requests, \A r \in Requests \ {s} : SameLine(r),
         SameEntry(s), StatusOf(s) = "open", EntryOf(s).made,
         StatusOf(s)' = "disclosed", reply'[s].body = EntryOf(s).versions
  PROVE  Ledger!Disclose(s)
<1>1. [r \in Requests |-> EntryOf(r)]' = [r \in Requests |-> EntryOf(r)]
  BY DEF SameLine, SameEntry
<1>2. /\ [r \in Requests |-> StatusOf(r)]' =
           [[r \in Requests |-> StatusOf(r)] EXCEPT ![s] = "disclosed"]
      /\ [r \in Requests |-> reply[r].body]' =
           [[r \in Requests |-> reply[r].body] EXCEPT ![s] = EntryOf(s).versions]
  BY DEF SameLine, SameStatus, SameShown
<1> QED BY <1>1, <1>2 DEF Ledger!Disclose

LEMMA LedgerCloses ==
  ASSUME NEW s \in Requests, \A r \in Requests \ {s} : SameLine(r),
         SameEntry(s), SameShown(s), StatusOf(s) = "open", StatusOf(s)' = "closed"
  PROVE  Ledger!Close(s)
<1>1. /\ [r \in Requests |-> EntryOf(r)]' = [r \in Requests |-> EntryOf(r)]
      /\ [r \in Requests |-> reply[r].body]' = [r \in Requests |-> reply[r].body]
  BY DEF SameLine, SameEntry, SameShown
<1>2. [r \in Requests |-> StatusOf(r)]' = [[r \in Requests |-> StatusOf(r)] EXCEPT ![s] = "closed"]
  BY DEF SameLine, SameStatus
<1> QED BY <1>1, <1>2 DEF Ledger!Close

----------------------------------------------------------------------------
(* What a step of one request does to its line of the ledger.              *)

\* No entry is there before the recorder has written the line, and none goes
\* or changes by what the request itself does after that.
LEMMA NoEntryYet ==
  ASSUME NEW r \in Requests, AuditInvOf(r),
         pc[r] \in {"new", "authenticate", "handle", "load", "walk", "record"}
  PROVE  ~EntryOf(r).made
BY DEF AuditInvOf, EntryOf

LEMMA OpenUntilDone ==
  ASSUME NEW r \in Requests, SilentInvOf(r), pc[r] \notin Over
  PROVE  StatusOf(r) = "open" /\ reply[r].body = {}
BY DEF SilentInvOf, StatusOf, Over, Reply

\* Steps that only lead to the decision: the line stays empty and open.
LEMMA DecisionStutters ==
  ASSUME NEW r \in Requests, AuditInvOf(r), SilentInvOf(r),
         pc[r] \in {"new", "authenticate", "handle", "load", "walk"},
         pc'[r] \in {"new", "authenticate", "handle", "load", "walk", "record"},
         UNCHANGED <<reply, trail>>
  PROVE  SameLine(r)
BY DEF AuditInvOf, SilentInvOf, SameLine, SameEntry, SameStatus, SameShown, EntryOf, StatusOf,
       Over, Reply

\* Answers that disclose nothing.
LEMMA AnswerCloses ==
  ASSUME TypeOK, NEW s \in Requests, SilentInvOf(s), pc[s] \notin Over,
         NEW code, code # "ok", Answer(s, code, {}), UNCHANGED <<event, trail>>
  PROVE  /\ SameEntry(s) /\ SameShown(s)
         /\ StatusOf(s) = "open" /\ StatusOf(s)' = "closed"
<1>1. reply[s].body = {} /\ StatusOf(s) = "open"
  BY OpenUntilDone
<1>2. reply'[s] = Reply(code, {}) /\ pc'[s] = "done"
  BY DEF Answer, TypeOK
<1> QED BY <1>1, <1>2 DEF SameEntry, SameShown, StatusOf, EntryOf, Over, Reply

LEMMA StepOfLedger ==
  ASSUME TypeOK, AuditInv, SilentInv, NEW s \in Requests,
         Step(s) \/ EndContext(s) \/ RejectMetadata(s) \/ \E c \in Asked : Receive(s, c)
  PROVE  [Ledger!LedgerNext]_Ledger!ledgerVars
<1>0. AuditInvOf(s) /\ SilentInvOf(s)
  BY DEF AuditInv, SilentInv
<1>1. \A r \in Requests \ {s} : SameLine(r)
  BY StepIsLocal, SameAtSameLine
<1>2. SUFFICES \/ SameLine(s)
               \/ Ledger!Enter(s) \/ Ledger!Disclose(s) \/ Ledger!Close(s)
  BY <1>1, LedgerStutters DEF Ledger!LedgerNext
<1>3. ASSUME NEW code, code # "ok", Answer(s, code, {}), pc[s] \notin Over,
             UNCHANGED <<event, trail>>
      PROVE  Ledger!Close(s)
  BY <1>0, <1>1, <1>3, AnswerCloses, LedgerCloses
<1>4. CASE \E c \in Asked : Receive(s, c)
  BY <1>0, <1>4, DecisionStutters DEF Receive, TypeOK, Over
<1>5. CASE RejectMetadata(s) \/ RejectMessage(s)
  <2>1. /\ \E code \in {"invalid_argument", "unknown"} : Answer(s, code, {})
        /\ pc[s] \in {"new", "handle"} /\ UNCHANGED <<event, trail>>
    BY <1>5 DEF RejectMetadata, RejectMessage
  <2> QED BY <1>3, <2>1 DEF Over
<1>6. CASE Authenticate(s)
  <2>1. CASE Answer(s, "canceled", {}) /\ UNCHANGED <<event, verdict>>
    BY <1>3, <1>6, <2>1 DEF Authenticate, Over
  <2>2. CASE /\ \/ Decide(s, Event("auth.failed", {}, {}), "unauthenticated")
                \/ pc' = [pc EXCEPT ![s] = "handle"]
             /\ UNCHANGED reply
    <3>1. pc'[s] \in {"handle", "record"}
      BY <2>2 DEF Decide, TypeOK
    <3> QED BY <1>0, <1>6, <2>2, <3>1, DecisionStutters DEF Authenticate, Over
  <2> QED BY <1>6, <2>1, <2>2 DEF Authenticate
<1>7. CASE StartRead(s) \/ ReadNote(s) \/ StartSearch(s) \/ WalkStep(s) \/ CompleteSearch(s)
  <2> USE DEF WalkStep, ListNote, VisitNote, SearchPanics, WalkFails
  <2>1. /\ pc[s] \in {"handle", "load", "walk"}
        /\ UNCHANGED <<reply, trail>>
    BY <1>7 DEF StartRead, ReadNote, StartSearch, CompleteSearch
  <2>2. \/ pc'[s] \in {"load", "walk", "record"}
        \/ pc'[s] = "aborted" /\ SearchPanics(s)
    BY <1>7 DEF StartRead, ReadNote, StartSearch, CompleteSearch, Decide, TypeOK
  <2>3. CASE pc'[s] \in {"load", "walk", "record"}
    BY <1>0, <2>1, <2>3, DecisionStutters DEF Over
  <2>4. CASE pc'[s] = "aborted" /\ SearchPanics(s)
    <3>1. StatusOf(s) = "open" /\ reply[s].code # "ok"
      BY <1>0, <2>1, OpenUntilDone DEF Over, SilentInvOf, Reply
    <3>2. SameEntry(s) /\ SameShown(s) /\ StatusOf(s)' = "closed"
      BY <2>1, <2>4, <3>1 DEF SameEntry, SameShown, EntryOf, StatusOf, Over
    <3> QED BY <1>1, <3>1, <3>2, LedgerCloses
  <2> QED BY <2>2, <2>3, <2>4
<1>8. CASE RecordFails(s) \/ SyncFails(s)
  <2>1. PICK code \in RefusalCodes(s) : Answer(s, code, {})
    BY <1>8 DEF RecordFails, SyncFails
  <2>2. pc[s] \notin Over /\ UNCHANGED <<event, trail>>
    BY <1>8 DEF RecordFails, SyncFails, Over, Trail!Refuse
  <2>3. code # "ok"
    BY RefusalTellsNothing DEF Telling
  <2> QED BY <1>3, <2>1, <2>2, <2>3
<1>9. CASE RecordWrites(s)
  <2>1. /\ pc[s] = "record" /\ pc'[s] = "sync"
        /\ s \notin trail /\ s \in trail' /\ UNCHANGED <<event, reply>>
    BY <1>9 DEF RecordWrites, Trail!Arrive, TypeOK
  <2>2. SameStatus(s) /\ SameShown(s)
    BY <2>1 DEF SameStatus, SameShown, StatusOf, Over
  <2>3. CASE event[s].type \in Disclosing
    <3>1. EntryOf(s)' = [made |-> TRUE, versions |-> event[s].versions]
      BY <2>1, <2>3 DEF EntryOf
    <3>2. event[s].versions \in SUBSET Versions
      BY DEF TypeOK
    <3> QED BY <1>0, <1>1, <2>1, <2>2, <3>1, <3>2, NoEntryYet, OpenUntilDone, LedgerEnters
           DEF Over
  <2>4. CASE event[s].type \notin Disclosing
    BY <2>1, <2>2, <2>4 DEF SameLine, SameEntry, EntryOf
  <2> QED BY <2>3, <2>4
<1>10. CASE RecordSucceeds(s) \/ EndContext(s)
  <2>1. /\ UNCHANGED <<event, reply, trail>>
        /\ pc[s] \notin Over /\ pc'[s] \notin Over
    BY <1>10 DEF RecordSucceeds, EndContext, Running, Over, Trail!Acknowledge, TypeOK
  <2> QED BY <2>1 DEF SameLine, SameEntry, SameStatus, SameShown, EntryOf, StatusOf
<1>11. CASE Respond(s)
  <2>1. /\ pc[s] = "respond" /\ answer[s] = "ok" /\ s \in trail /\ EventMatchesVerdict(s)
        /\ UNCHANGED <<event, trail>>
    BY <1>0, <1>11 DEF Respond, AuditInvOf
  <2>2. CASE verdict[s] = "ok" /\ Answer(s, "ok", seen[s])
    <3>1. EntryOf(s) = [made |-> TRUE, versions |-> seen[s]]
      BY <2>1, <2>2 DEF EventMatchesVerdict, EntryOf, Disclosing
    <3>2. reply'[s] = Reply("ok", seen[s])
      BY <2>2 DEF Answer, TypeOK
    <3>3. /\ SameEntry(s) /\ StatusOf(s)' = "disclosed"
          /\ reply'[s].body = EntryOf(s).versions
      BY <2>1, <3>1, <3>2 DEF SameEntry, EntryOf, StatusOf, Reply
    <3> QED BY <1>0, <1>1, <2>1, <3>1, <3>3, OpenUntilDone, LedgerDiscloses DEF Over
  <2>3. CASE Answer(s, IF verdict[s] = "ok" THEN "unknown" ELSE verdict[s], {})
    BY <1>3, <2>1, <2>3 DEF Over
  <2> QED BY <1>11, <2>2, <2>3 DEF Respond
<1> QED BY <1>4, <1>5, <1>6, <1>7, <1>8, <1>9, <1>10, <1>11, StepIsLocal DEF Step, WalkStep

\* A crash closes the requests that run and loses entries of requests that were
\* shown nothing.
LEMMA CrashOfLedger ==
  ASSUME TypeOK, AuditInv, SilentInv, Crash
  PROVE  Ledger!LedgerNext
<1> DEFINE C == {r \in Requests : Running(r)}
           L == {r \in Requests : r \in trail /\ r \notin trail'}
<1>1. PICK K \in SUBSET trail : Trail!Lose(K)
  BY DEF Crash
<1>2. /\ UNCHANGED <<event, reply, answer>>
      /\ \A r \in Requests : pc'[r] = IF Running(r) THEN "lost" ELSE pc[r]
      /\ \A r \in Requests : r \in trail' => r \in trail
      /\ \A r \in L : answer[r] # "ok"
  BY <1>1 DEF Crash, Trail!Lose
<1>3. \A r \in C : StatusOf(r) = "open"
  BY OpenUntilDone DEF SilentInv, Running, Over
<1>4. \A r \in L : StatusOf(r) # "disclosed"
  BY <1>2 DEF AuditInv, AuditInvOf, StatusOf, Telling
<1>5. \A r \in Requests : StatusOf(r)' = IF r \in C THEN "closed" ELSE StatusOf(r)
  <2> SUFFICES ASSUME NEW r \in Requests
               PROVE  StatusOf(r)' = IF r \in C THEN "closed" ELSE StatusOf(r)
    OBVIOUS
  <2>1. CASE r \in C
    <3>1. reply[r].code # "ok"
      BY <1>3, <2>1 DEF StatusOf
    <3> QED BY <1>2, <2>1, <3>1 DEF StatusOf, Over
  <2>2. CASE r \notin C
    BY <1>2, <2>2 DEF StatusOf, Running, Over
  <2> QED BY <2>1, <2>2
<1>6. \A r \in Requests : EntryOf(r)' = IF r \in L THEN Ledger!NoEntry ELSE EntryOf(r)
  BY <1>2 DEF EntryOf, Ledger!NoEntry
<1>7. Ledger!Fail(C, L)
  <2> HIDE DEF C, L
  <2>1. [r \in Requests |-> StatusOf(r)]' =
          [r \in Requests |-> IF r \in C THEN "closed" ELSE [q \in Requests |-> StatusOf(q)][r]]
    BY <1>5
  <2>2. [r \in Requests |-> EntryOf(r)]' =
          [r \in Requests |-> IF r \in L THEN Ledger!NoEntry ELSE [q \in Requests |-> EntryOf(q)][r]]
    BY <1>6
  <2>3. [r \in Requests |-> reply[r].body]' = [r \in Requests |-> reply[r].body]
    BY <1>2
  <2>4. C \subseteq Requests /\ L \subseteq Requests
    BY DEF C, L
  <2> QED BY <1>3, <1>4, <2>1, <2>2, <2>3, <2>4 DEF Ledger!Fail
<1>8. C \in SUBSET Requests /\ L \in SUBSET Requests
  OBVIOUS
<1> QED BY <1>7, <1>8 DEF Ledger!LedgerNext

LEMMA InitOfLedger == Init => Ledger!LedgerInit
<1> SUFFICES ASSUME Init PROVE Ledger!LedgerInit
  OBVIOUS
<1>1. \A r \in Requests : /\ reply[r] = Reply("none", {}) /\ pc[r] = "new"
                          /\ r \notin trail
  BY DEF Init, Trail!TrailInit
<1>2. ASSUME NEW r \in Requests
      PROVE  /\ EntryOf(r) = Ledger!NoEntry
             /\ StatusOf(r) = "open" /\ reply[r].body = {}
  <2>1. reply[r].code = "none" /\ reply[r].body = {}
    BY <1>1 DEF Reply
  <2>2. StatusOf(r) = "open"
    BY <1>1, <2>1 DEF StatusOf, Over
  <2>3. EntryOf(r) = Ledger!NoEntry
    BY <1>1 DEF EntryOf, Ledger!NoEntry
  <2> QED BY <2>1, <2>2, <2>3
<1> QED BY <1>2 DEF Ledger!LedgerInit

\* Every step of the service, the vault and the machine is a step of the ledger
\* or leaves it alone.
LEMMA NextOfLedger ==
  TypeOK /\ AuditInv /\ SilentInv /\ [Next]_vars => [Ledger!LedgerNext]_Ledger!ledgerVars
<1> SUFFICES ASSUME TypeOK, AuditInv, SilentInv, [Next]_vars
             PROVE  [Ledger!LedgerNext]_Ledger!ledgerVars
  OBVIOUS
<1>1. CASE (\E n \in Notes, f \in File : SyncFile(n, f)) \/ UNCHANGED vars
  <2>1. UNCHANGED <<pc, event, reply, trail>>
    BY <1>1 DEF SyncFile, vars
  <2>2. \A r \in Requests : SameLine(r)
    BY <2>1 DEF SameLine, SameEntry, SameStatus, SameShown, EntryOf, StatusOf
  <2> QED BY <2>2, LedgerStutters
<1>2. CASE Crash
  BY <1>2, CrashOfLedger
<1>3. ASSUME NEW s \in Requests,
             Step(s) \/ EndContext(s) \/ RejectMetadata(s) \/ \E c \in Asked : Receive(s, c)
      PROVE  [Ledger!LedgerNext]_Ledger!ledgerVars
  BY <1>3, StepOfLedger
<1> QED BY <1>1, <1>2, <1>3 DEF Next

\* Controlled access implements the ledger: nothing is disclosed without an
\* entry that names exactly what is disclosed, and no such entry is ever lost.
THEOREM AccessImplementsLedger == Spec => ImplementsLedger
BY InitOfLedger, NextOfLedger, TypeCorrect, AuditInvariant, SilentInvariant, PTL
   DEF Spec, ImplementsLedger, Ledger!LedgerSpec

===============================================================================
