---------------------------- MODULE NoteMatching ----------------------------
(***************************************************************************)
(* Which notes a search matches, and the snippet it shows of each: the pure*)
(* half of the vaultfs search.                                             *)
(*                                                                         *)
(* A text is a sequence of runes; how many bytes a rune takes and which    *)
(* rune it becomes in lower case are constants, because strings.Index      *)
(* counts bytes and strings.ToLower may change their number.  A path is the*)
(* sequence of its segments.  A tag is its leading hashes and the rest.    *)
(***************************************************************************)
EXTENDS Integers, Sequences, SequencesExt, Functions

CONSTANTS Runes,          \* runes of the notes and of the search terms
          Blanks,         \* the white space among them
          Space,          \* the blank that normalized text keeps
          Width,          \* rune -> bytes of its UTF-8 encoding
          Lower,          \* rune -> the rune unicode.ToLower makes of it
          Segments,       \* path segments
          LowerSegment,   \* segment -> the segment in lower case
          SnippetLength   \* defaultSnippetLength

ASSUME RuneAssumption ==
  /\ Space \in Blanks /\ Blanks \subseteq Runes
  /\ Width \in [Runes -> 1..4] /\ Lower \in [Runes -> Runes]
  /\ \A r \in Runes : Lower[r] \in Blanks <=> r \in Blanks
  /\ Lower[Space] = Space
ASSUME SegmentAssumption == LowerSegment \in [Segments -> Segments]
ASSUME LengthAssumption == SnippetLength \in Nat \ {0}

----------------------------------------------------------------------------
(* Filters.  A filter that keeps no value after normalization matches.     *)

LowerText(text) == [i \in DOMAIN text |-> Lower[text[i]]]
LowerPath(path) == [i \in DOMAIN path |-> LowerSegment[path[i]]]

\* Where a term starts in a text, as the number of runes before it.
Places(text, term) ==
  {k \in 0..(Len(text) - Len(term)) : SubSeq(text, k + 1, k + Len(term)) = term}

MatchText(note, term) == term = <<>> \/ Places(LowerText(note.text), LowerText(term)) # {}

\* A prefix matches the path itself or a directory above it; "/" has no
\* segment left and matches nothing.
PathMatchesPrefix(path, prefix) == prefix # <<>> /\ IsPrefix(LowerPath(prefix), LowerPath(path))

MatchPath(path, include, exclude) ==
  /\ include = {} \/ \E prefix \in include : PathMatchesPrefix(path, prefix)
  /\ ~ \E prefix \in exclude : PathMatchesPrefix(path, prefix)

\* normalizeTagValue drops one hash; a tag of one hash alone is dropped.
NormalizeTag(tag) == [tag EXCEPT !.hashes = IF @ = 0 THEN 0 ELSE @ - 1,
                                 !.name = LowerText(@)]
NormalizeTagSet(tags) == {NormalizeTag(t) : t \in tags} \ {[hashes |-> 0, name |-> <<>>]}

MatchTags(note, all, any) ==
  /\ NormalizeTagSet(all) \subseteq NormalizeTagSet(note.tags)
  /\ \/ NormalizeTagSet(any) = {}
     \/ NormalizeTagSet(any) \cap NormalizeTagSet(note.tags) # {}

MatchQuery(query, path, note) ==
  /\ MatchText(note, query.term)
  /\ MatchPath(path, query.include, query.exclude)
  /\ MatchTags(note, query.all, query.any)
  /\ query.scopes = {} \/ note.scopes \cap query.scopes # {}

----------------------------------------------------------------------------
(* Snippets.  Offsets are bytes, as in the code.                           *)

\* The bytes that the first runes of a text take, for every number of runes.
ByteOffsets(text) ==
  LET offset[n \in 0..Len(text)] == IF n = 0 THEN 0 ELSE offset[n - 1] + Width[text[n]]
  IN offset
BytesBefore(text, runes) == ByteOffsets(text)[runes]
Bytes(text) == BytesBefore(text, Len(text))

\* normalizeSnippetText: the words of the text with one space between them.
Squeeze(kept, rune) ==
  IF rune \notin Blanks THEN Append(kept, rune)
  ELSE IF kept = <<>> \/ Last(kept) = Space THEN kept ELSE Append(kept, Space)
Squeezed(text) ==
  LET kept[n \in 0..Len(text)] == IF n = 0 THEN <<>> ELSE Squeeze(kept[n - 1], text[n])
  IN kept
NormalizeSnippetText(text) ==
  LET squeezed == Squeezed(text)[Len(text)]
  IN IF squeezed # <<>> /\ Last(squeezed) = Space THEN Front(squeezed) ELSE squeezed

\* firstTermIndex: the byte at which the term starts in the LOWER-CASE text.
FirstTermIndex(text, term) ==
  LET lower == LowerText(text)
      places == Places(lower, LowerText(term))
  IN IF term = <<>> \/ places = {} THEN -1
     ELSE BytesBefore(lower, CHOOSE k \in places : \A j \in places : k <= j)

\* snippetStart: half a snippet before the match, counted in the text itself.
SnippetStart(index) == IF index <= SnippetLength \div 2 THEN 0
                       ELSE index - SnippetLength \div 2

\* previousRuneBoundary: the runes that end at or before a byte of the text.
RunesUpTo(text, byte) == CHOOSE k \in 0..Len(text) :
                           /\ BytesBefore(text, k) <= byte
                           /\ k < Len(text) => byte < BytesBefore(text, k + 1)

Window(text, runes, length) ==
  [panic |-> FALSE, from |-> runes,
   window |-> SubSeq(text, runes + 1,
                     IF runes + length > Len(text) THEN Len(text) ELSE runes + length)]
NoSnippet == [panic |-> FALSE, from |-> 0, window |-> <<>>]

\* Mutant of BuildSnippet: half the length after the start, not before the match.
BuildSnippetMutant(note, term) ==
  LET text == NormalizeSnippetText(note.text)
  IN Window(text, RunesUpTo(text, SnippetStart(FirstTermIndex(text, term))), SnippetLength \div 2)

\* buildSnippet: the window of the text it shows (the ellipses left out), or
\* the panic of an index that lies past the end of the text.
BuildSnippet(note, term) ==
  LET text  == NormalizeSnippetText(note.text)
      start == SnippetStart(FirstTermIndex(text, term))
  IN IF text = <<>> THEN NoSnippet
     ELSE IF start > 0 /\ start >= Bytes(text) THEN [NoSnippet EXCEPT !.panic = TRUE]
     ELSE Window(text, RunesUpTo(text, start), SnippetLength)

\* Lower case takes as many bytes, so that offsets agree in both texts.
Steady(text) == \A i \in DOMAIN text : Width[Lower[text[i]]] = Width[text[i]]
=============================================================================
