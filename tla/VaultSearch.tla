----------------------------- MODULE VaultSearch -----------------------------
(***************************************************************************)
(* A client pages through a search while the sync worker changes the vault.*)
(* Every page is a search of its own: SearchNotes walks the live directory,*)
(* reads every note, sorts what matches and cuts the page at an offset. The*)
(* cursor a page returns is the offset of the next one, so what a client   *)
(* sees depends on the states of the vault the walks went through.         *)
(***************************************************************************)
EXTENDS NoteMatching, FiniteSets

CONSTANTS Absent,       \* no note is at a path
          Paths,        \* vault-relative paths of notes
          Collation,    \* those paths and their directories in byte order
          Notes,        \* what a file can hold: text, tags, scopes
          Times,        \* modification times
          Vaults,       \* vaults the client can find
          Queries,      \* queries a client asks
          Cursors,      \* page tokens a client starts with
          DefaultLimit, \* DefaultSearchLimit
          MaxLimit,     \* DefaultSearchMaxLimit
          MaxChanges    \* bound: changes of the vault while a client pages

\* The directories above the notes.
Directories == UNION {{SubSeq(p, 1, n) : n \in 1..Len(p) - 1} : p \in Paths}

ASSUME PathAssumption == /\ Paths \subseteq Seq(Segments) \ {<<>>}
                         /\ Paths \cap Directories = {}
ASSUME CollationAssumption == /\ Collation \in Seq(Seq(Segments))
                              /\ Paths \cup Directories \subseteq Range(Collation)
ASSUME LimitAssumption == /\ MaxLimit \in Nat \ {0} /\ DefaultLimit \in 1..MaxLimit
ASSUME TimeAssumption == Times \subseteq Nat
ASSUME NoteAssumption == \A n \in Notes : n.text \in Seq(Runes)
ASSUME QueryAssumption == \A q \in Queries : q.term \in Seq(Runes) /\ q.limit \in Int
ASSUME ChangesAssumption == MaxChanges \in Nat
ASSUME CursorAssumption == Cursors \subseteq [kind: {"blank", "junk", "number"}, offset: Int]

VARIABLES vault,      \* path -> the file there: a note, its time and its version
          changes,    \* how often the vault has changed
          pc,         \* where the client and the search it waits for are
          query,      \* what the client asks
          cursor,     \* the page token of the search
          pending,    \* paths and directories the walk still visits
          info,       \* the file as os.Stat of the note being read saw it
          results,    \* matching notes of this walk
          page,       \* the page of the last answer
          got,        \* notes of all pages so far, in order
          first,      \* the offset at which the client started
          touched,    \* paths that changed since then
          pulled,     \* some other note has moved forward in the results
          pushed,     \* some other note has moved back in the results
          torn        \* a result had the time of one version and the text of another

vars == <<vault, changes, pc, query, cursor, pending, info, results, page, got,
          first, touched, pulled, pushed, torn>>
ghosts == <<first, touched, pulled, pushed, torn>>

----------------------------------------------------------------------------
(* Orders.                                                                 *)

Index(path) == CHOOSE i \in DOMAIN Collation : Collation[i] = path
PathAsc(a, b) == Index(a) < Index(b)

\* compareResultModifiedDesc and compareResultPathAsc.
Before(sort, a, b) ==
  IF sort = "modified_desc" /\ a.modified # b.modified
  THEN a.modified > b.modified
  ELSE PathAsc(a.path, b.path)

\* NormalizedSort; the handler and the repository refuse an unknown name.
NormalizedSort(q) == IF q.sort = "" THEN "path_asc" ELSE q.sort
KnownSorts == {"path_asc", "modified_desc"}

\* The elements of a set in an order, a set of pairs.
Arranged(S, order) ==
  CHOOSE list \in [1..Cardinality(S) -> S] :
    \A i, j \in 1..Cardinality(S) : i < j => <<list[i], list[j]>> \in order

SortResults(found, q) ==
  Arranged(found, {r \in found \X found : Before(NormalizedSort(q), r[1], r[2])})

\* Matching and snippets depend on constants alone; tables keep TLC from
\* evaluating them in every state.
Matches == [q \in Queries |-> [p \in Paths |-> [n \in Notes |-> MatchQuery(q, p, n)]]]
Snippets == [q \in Queries |-> [n \in Notes |-> BuildSnippet(n, q.term)]]

\* What a search of the vault as it is now would have to list.
Matching(v, q) == {p \in Paths : v[p] # Absent /\ Matches[q][p][v[p].note]}
AheadOf(v, q, path) ==
  {p \in Matching(v, q) : Before(NormalizedSort(q), [path |-> p, modified |-> v[p].modified],
                                 [path |-> path, modified |-> v[path].modified])}

----------------------------------------------------------------------------
(* Pages.                                                                  *)

NormalizedLimit(q) == IF q.limit <= 0 THEN DefaultLimit
                      ELSE IF q.limit > MaxLimit THEN MaxLimit ELSE q.limit

\* parseCursor trims the token, and refuses what is not an offset.
Offset(c) == IF c.kind = "blank" THEN 0 ELSE c.offset

\* Mutant of InvalidCursor: Atoi's sign is not looked at.
InvalidCursorMutant(c) == c.kind = "junk"

InvalidCursor(c) == c.kind = "junk" \/ Offset(c) < 0
NoCursor == [kind |-> "blank", offset |-> 0]
InvalidTag(tag) == tag = [hashes |-> 0, name |-> <<>>]
InvalidQuery(q, c) == \/ InvalidCursor(c)
                      \/ NormalizedSort(q) \notin KnownSorts
                      \/ \E tag \in q.all \cup q.any : InvalidTag(tag)

\* Mutant of Paginate: the next offset counts from the start of this page.
PaginateMutant(list, offset, limit) ==
  IF offset >= Len(list) THEN [results |-> <<>>, next |-> NoCursor]
  ELSE LET end == IF offset + limit > Len(list) THEN Len(list) ELSE offset + limit
       IN [results |-> SubSeq(list, offset + 1, end),
           next |-> IF end < Len(list) THEN [kind |-> "number", offset |-> limit]
                    ELSE NoCursor]

\* paginateFromQuery, with list in the order of sortResults.
Paginate(list, offset, limit) ==
  IF offset >= Len(list) THEN [results |-> <<>>, next |-> NoCursor]
  ELSE LET end == IF offset + limit > Len(list) THEN Len(list) ELSE offset + limit
       IN [results |-> SubSeq(list, offset + 1, end),
           next |-> IF end < Len(list) THEN [kind |-> "number", offset |-> end]
                    ELSE NoCursor]

NoPage == [results |-> <<>>, next |-> NoCursor]

----------------------------------------------------------------------------
(* The vault under the walk.  The sync worker is external.                 *)

NoInfo == [note |-> Absent, modified |-> 0, version |-> 0]

Files == [note: Notes, modified: Times, version: 0..MaxChanges]
ASSUME VaultAssumption ==
  /\ Vaults \subseteq [Paths -> Files \cup {Absent}]
  /\ \A v \in Vaults : \A p \in Paths : v[p] # Absent => v[p].version = 0

Init == /\ vault \in Vaults
        /\ changes = 0
        /\ pc = "idle"
        /\ query \in Queries
        /\ cursor = NoCursor
        /\ pending = <<>>
        /\ info = NoInfo
        /\ results = {}
        /\ page = NoPage
        /\ got = <<>>
        /\ first = 0 /\ touched = {} /\ pulled = FALSE /\ pushed = FALSE /\ torn = FALSE

Paging == pc \in {"walk", "read", "answered"}

\* The sync worker writes, moves in or deletes one file.  Modification times
\* are whatever it sets.  Which other notes the change moves in the results
\* the client is paging through is recorded.
Change(path, file) ==
  /\ changes < MaxChanges
  /\ Paging
  /\ file # vault[path]
  /\ vault' = [vault EXCEPT ![path] = file]
  /\ changes' = changes + 1
  /\ touched' = touched \cup {path}
  /\ LET others == Matching(vault, query) \ touched'
         Moves(p, v, w) == AheadOf(v, query, p) \ AheadOf(w, query, p) # {}
     IN /\ pulled' = (pulled \/ \E p \in others : Moves(p, vault, vault'))
        /\ pushed' = (pushed \/ \E p \in others : Moves(p, vault', vault))
  /\ UNCHANGED <<pc, query, cursor, pending, info, results, page, got, first, torn>>

----------------------------------------------------------------------------
(* A search.                                                               *)

\* Entries of a directory in the order WalkDir visits them.  Directories stay.
Entries(dir) == {p \in Paths : vault[p] # Absent /\ Front(p) = dir}
                \cup {d \in Directories : Front(d) = dir}
Listing(dir) ==
  Arranged(Entries(dir), {e \in Entries(dir) \X Entries(dir) : PathAsc(e[1], e[2])})

\* The handler converts the message, the repository prepares order and page;
\* what either refuses is answered before the walk.
Search(c) ==
  /\ cursor' = c
  /\ IF InvalidQuery(query, c)
     THEN /\ pc' = "refused"
          /\ UNCHANGED <<pending, results>>
     ELSE /\ pc' = "walk"
          /\ pending' = Listing(<<>>)
          /\ results' = {}

Begin(c) ==
  /\ pc = "idle"
  /\ Search(c)
  /\ first' = IF InvalidCursor(c) THEN 0 ELSE Offset(c)
  /\ UNCHANGED <<vault, changes, query, info, page, got, touched, pulled, pushed, torn>>

\* The client asks for the next page with the token of the last one.
Follow ==
  /\ pc = "answered" /\ page.next # NoCursor
  /\ Search(page.next)
  /\ UNCHANGED <<vault, changes, query, info, page, got, ghosts>>

\* Mutant of OpenDirectory: the walk does not come back to the parent.
OpenDirectoryMutant ==
  /\ pc = "walk" /\ pending # <<>> /\ Head(pending) \in Directories
  /\ pending' = Listing(Head(pending))
  /\ UNCHANGED <<vault, changes, pc, query, cursor, info, results, page, got, ghosts>>

OpenDirectory ==
  /\ pc = "walk" /\ pending # <<>> /\ Head(pending) \in Directories
  /\ pending' = Listing(Head(pending)) \o Tail(pending)
  /\ UNCHANGED <<vault, changes, pc, query, cursor, info, results, page, got, ghosts>>

\* Mutant of Stat: the walk waits for a note that has gone to come back.
StatMutant ==
  /\ pc = "walk" /\ pending # <<>> /\ Head(pending) \in Paths
  /\ vault[Head(pending)] # Absent
  /\ pc' = "read" /\ info' = vault[Head(pending)]
  /\ UNCHANGED <<vault, changes, query, cursor, pending, results, page, got, ghosts>>

\* ReadNote takes size and time of a note from os.Stat ...
Stat ==
  /\ pc = "walk" /\ pending # <<>> /\ Head(pending) \in Paths
  /\ IF vault[Head(pending)] = Absent
     THEN pc' = "failed" /\ UNCHANGED info
     ELSE pc' = "read" /\ info' = vault[Head(pending)]
  /\ UNCHANGED <<vault, changes, query, cursor, pending, results, page, got, ghosts>>

Result(path, stat, file) ==
  [path |-> path, modified |-> stat.modified, stated |-> stat.version, read |-> file.version,
   note |-> file.note, snippet |-> Snippets[query][file.note]]

\* Mutant of Read: it stats the file again after reading what was there before.
ReadMutant ==
  /\ pc = "read"
  /\ LET path == Head(pending)
         file == vault[path]
     IN IF file = Absent
        THEN pc' = "failed" /\ UNCHANGED <<pending, results>>
        ELSE /\ pc' = "walk" /\ pending' = Tail(pending)
             /\ results' = IF Matches[query][path][info.note]
                           THEN results \cup {Result(path, file, info)} ELSE results
  /\ torn' = (torn \/ info # vault[Head(pending)])
  /\ info' = NoInfo
  /\ UNCHANGED <<vault, changes, query, cursor, page, got, first, touched, pulled, pushed>>

\* ... and its content from os.ReadFile after that.  A note that is gone by
\* then fails the search; one that matches is a result, with its snippet.  The
\* other reasons to fail here - too large, unreadable, malformed, a context that
\* has ended - are left to WalkFails of VaultAccess.
Read ==
  /\ pc = "read"
  /\ LET path == Head(pending)
         file == vault[path]
     IN IF file = Absent
        THEN pc' = "failed" /\ UNCHANGED <<pending, results>>
        ELSE IF ~Matches[query][path][file.note]
        THEN pc' = "walk" /\ pending' = Tail(pending) /\ UNCHANGED results
        ELSE IF Result(path, info, file).snippet.panic
        THEN pc' = "panicked" /\ UNCHANGED <<pending, results>>
        ELSE /\ pc' = "walk" /\ pending' = Tail(pending)
             /\ results' = results \cup {Result(path, info, file)}
  /\ torn' = (torn \/ info # vault[Head(pending)])
  /\ info' = NoInfo
  /\ UNCHANGED <<vault, changes, query, cursor, page, got, first, touched, pulled, pushed>>

\* The walk is over: sort, cut the page, answer.
Answer ==
  /\ pc = "walk" /\ pending = <<>>
  /\ page' = Paginate(SortResults(results, query), Offset(cursor), NormalizedLimit(query))
  /\ got' = got \o page'.results
  /\ pc' = "answered"
  /\ UNCHANGED <<vault, changes, query, cursor, pending, info, results, ghosts>>

\* The last page has no next token, or the client is refused or fails: it stops.
Stop ==
  /\ \/ /\ pc \in {"refused", "failed", "panicked"}
        /\ pc' = "stopped"
     \/ /\ pc = "answered" /\ page.next = NoCursor
        /\ pc' = "finished"
  /\ UNCHANGED <<vault, changes, query, cursor, pending, info, results, page, got, ghosts>>

Client == (\E c \in Cursors : Begin(c)) \/ Follow \/ Stop
Service == OpenDirectory \/ Stat \/ Read \/ Answer
Sync == \E path \in Paths :
          \/ Change(path, Absent)
          \/ \E note \in Notes, time \in Times :
               Change(path, [note |-> note, modified |-> time, version |-> changes + 1])
Next == Client \/ Service \/ Sync

\* The service works on a request it has and a client that wants all pages
\* asks on; nothing makes the vault change.
Spec == Init /\ [][Next]_vars /\ WF_vars(Client) /\ WF_vars(Service)

----------------------------------------------------------------------------
(* Properties.                                                             *)

Results == [path: Paths, modified: Times, stated: 0..MaxChanges, read: 0..MaxChanges,
            note: Notes, snippet: [panic: BOOLEAN, from: Nat, window: Seq(Runes)]]
PageTokens == [kind: {"blank", "junk", "number"}, offset: Int]

\* Every variable keeps its shape.
TypeOK ==
  /\ vault \in [Paths -> Files \cup {Absent}]
  /\ changes \in 0..MaxChanges
  /\ pc \in {"idle", "walk", "read", "answered", "refused", "failed", "panicked",
             "stopped", "finished"}
  /\ query \in Queries
  /\ cursor \in PageTokens
  /\ pending \in Seq(Paths \cup Directories)
  /\ info \in Files \cup {NoInfo}
  /\ results \subseteq Results
  /\ page.results \in Seq(Results) /\ page.next \in PageTokens
  /\ got \in Seq(Results)
  /\ first \in Nat /\ touched \subseteq Paths
  /\ pulled \in BOOLEAN /\ pushed \in BOOLEAN /\ torn \in BOOLEAN

\* While the vault does not change, the pages are the matching notes in order,
\* from the offset the client started at: each note stands at the place its rank
\* gives it, and the client that has the last page has them all.  The cursor of
\* one page and the limit must meet exactly for this, at the last page as well.
ExactPages ==
  changes = 0 /\ pc \in {"answered", "finished"} =>
    /\ \A p \in Matching(vault, query) :
         LET place == Cardinality(AheadOf(vault, query, p)) + 1 - first
         IN place \in DOMAIN got => got[place].path = p
    /\ pc = "finished" =>
         Len(got) = IF first > Cardinality(Matching(vault, query)) THEN 0
                    ELSE Cardinality(Matching(vault, query)) - first

\* A client that asked for every page misses a note nobody touched only if a
\* change moved such a note forward in the results, or hit a file between os.Stat
\* and os.ReadFile: a result made of two versions stands where its old time puts
\* it, and moves the others.  Arrivals never make the client miss a note, however
\* changes fall between the steps of the walks.
MissesOnlyWhatWasPulled ==
  pc = "finished" /\ first = 0 /\ ~pulled /\ ~torn =>
    \A p \in Matching(vault, query) \ touched : \E i \in DOMAIN got : got[i].path = p

\* A client sees a note nobody touched twice only if a change moved such a note
\* back in the results, or a result was made of two versions of its file.
RepeatsOnlyWhatWasPushed ==
  ~pushed /\ ~torn => \A i, j \in DOMAIN got :
               i # j /\ got[i].path = got[j].path => got[i].path \in touched

\* The time shown with a note is never newer than the content it was read with,
\* although the file may change between os.Stat and os.ReadFile: whoever keeps
\* the answer by its time asks again after every later change.
TimeIsNotAheadOfContent == \A i \in DOMAIN got : got[i].stated <= got[i].read

\* The snippet of a note that matches shows the match, wherever in the note it
\* is, if the term has no blank, is at most half a snippet long, and no letter of
\* the note changes its size in lower case.
SnippetShowsTheMatch ==
  \A i \in DOMAIN got :
    /\ query.term # <<>> /\ Len(query.term) <= SnippetLength - SnippetLength \div 2
    /\ \A k \in DOMAIN query.term : query.term[k] \notin Blanks
    /\ Steady(got[i].note.text)
    => Places(LowerText(got[i].snippet.window), LowerText(query.term)) # {}

\* README: SearchNotes returns matching note references, metadata, snippets.  The
\* code panics when lower case makes the text before the match longer, so that
\* half a snippet before the match is past the end of the text.
EveryMatchHasASnippet == pc # "panicked"

\* A client that follows the cursors comes to an end, whatever happens to the
\* vault in between: no search of it waits for a note for ever.
PagingEnds == (pc = "walk") ~> (pc \in {"finished", "stopped"})

=============================================================================
