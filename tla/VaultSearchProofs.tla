-------------------------- MODULE VaultSearchProofs --------------------------
(***************************************************************************)
(* Proofs about a client that pages through a search while the vault       *)
(* changes, for every vault, every order of steps and every limit: what it *)
(* is shown, what it can miss and what it can be shown twice.              *)
(***************************************************************************)
EXTENDS VaultSearch, NoteMatchingProofs, FunctionTheorems, FiniteSetTheorems

----------------------------------------------------------------------------
(* Sorting.                                                                *)

TotalOrder(S, order) ==
  /\ \A x \in S : <<x, x>> \notin order
  /\ \A x, y \in S : x # y => <<x, y>> \in order \/ <<y, x>> \in order
  /\ \A x, y, z \in S : <<x, y>> \in order /\ <<y, z>> \in order => <<x, z>> \in order

LEMMA Greatest ==
  ASSUME NEW S, NEW order, TotalOrder(S, order)
  PROVE  \A T \in SUBSET S : IsFiniteSet(T) /\ T # {} =>
           \E m \in T : \A y \in T : y # m => <<y, m>> \in order
<1> DEFINE Has(T) == \E m \in T : \A y \in T : y # m => <<y, m>> \in order
           N == {n \in Nat : \A T \in SUBSET S : IsFiniteSet(T) /\ Cardinality(T) = n + 1 => Has(T)}
<1>1. 0 \in N
  <2>1. SUFFICES ASSUME NEW T \in SUBSET S, IsFiniteSet(T), Cardinality(T) = 0 + 1 PROVE Has(T)
    OBVIOUS
  <2>2. PICK m : T = {m}
    BY <2>1, FS_Singleton
  <2> QED BY <2>2
<1>2. ASSUME NEW n \in Nat, n \in N PROVE n + 1 \in N
  <2>1. SUFFICES ASSUME NEW T \in SUBSET S, IsFiniteSet(T), Cardinality(T) = (n + 1) + 1
                 PROVE  Has(T)
    OBVIOUS
  <2>2. PICK x \in T : TRUE
    BY <2>1, FS_EmptySet
  <2>3. IsFiniteSet(T \ {x}) /\ Cardinality(T \ {x}) = n + 1
    BY <2>1, <2>2, FS_RemoveElement
  <2>4. T \ {x} \in SUBSET S
    OBVIOUS
  <2>5. Has(T \ {x})
    BY <1>2, <2>3, <2>4
  <2>6. PICK m \in T \ {x} : \A y \in T \ {x} : y # m => <<y, m>> \in order
    BY <2>5
  <2>7. CASE <<x, m>> \in order
    BY <2>6, <2>7
  <2>8. CASE <<m, x>> \in order
    <3>1. \A y \in T : y # x => <<y, x>> \in order
      BY <2>6, <2>8 DEF TotalOrder
    <3> QED BY <3>1, <2>2
  <2> QED BY <2>2, <2>6, <2>7, <2>8 DEF TotalOrder
<1>3. \A n \in Nat : n \in N
  <2> HIDE DEF N
  <2> QED BY <1>1, <1>2, Induction
<1>4. SUFFICES ASSUME NEW T \in SUBSET S, IsFiniteSet(T), T # {} PROVE Has(T)
  OBVIOUS
<1>5. Cardinality(T) \in Nat /\ Cardinality(T) # 0
  BY <1>4, FS_CardinalityType, FS_EmptySet
<1>6. Cardinality(T) - 1 \in Nat /\ Cardinality(T) = (Cardinality(T) - 1) + 1
  BY <1>5
<1> QED BY <1>3, <1>4, <1>6

Sorted(list, n, order) == \A i, j \in 1..n : i < j => <<list[i], list[j]>> \in order

\* A finite set can be arranged in every total order of its elements.
LEMMA SortingExists ==
  ASSUME NEW S, IsFiniteSet(S), NEW order, TotalOrder(S, order)
  PROVE  \E list \in [1..Cardinality(S) -> S] : Sorted(list, Cardinality(S), order)
<1> DEFINE Has(T, n) == \E list \in [1..n -> T] : Sorted(list, n, order)
           N == {n \in Nat : \A T \in SUBSET S : Cardinality(T) = n => Has(T, n)}
<1>1. 0 \in N
  <2>1. \A T : [i \in 1..0 |-> i] \in [1..0 -> T]
    OBVIOUS
  <2>2. \A T : Sorted([i \in 1..0 |-> i], 0, order)
    BY DEF Sorted
  <2> QED BY <2>1, <2>2
<1>2. ASSUME NEW n \in Nat, n \in N PROVE n + 1 \in N
  <2>1. SUFFICES ASSUME NEW T \in SUBSET S, Cardinality(T) = n + 1 PROVE Has(T, n + 1)
    OBVIOUS
  <2>2. IsFiniteSet(T) /\ T # {}
    BY <2>1, FS_Subset, FS_EmptySet
  <2>3. PICK m \in T : \A y \in T : y # m => <<y, m>> \in order
    BY <2>2, Greatest
  <2>4. Cardinality(T \ {m}) = (n + 1) - 1 /\ T \ {m} \in SUBSET S
    BY <2>1, <2>2, <2>3, FS_RemoveElement
  <2>5. Has(T \ {m}, n)
    BY <1>2, <2>4, (n + 1) - 1 = n
  <2>6. PICK list \in [1..n -> T \ {m}] : Sorted(list, n, order)
    BY <2>5
  <2> DEFINE longer == [i \in 1..n + 1 |-> IF i = n + 1 THEN m ELSE list[i]]
  <2>7. \A i \in 1..n + 1 : i # n + 1 => i \in 1..n /\ list[i] \in T \ {m} /\ longer[i] = list[i]
    OBVIOUS
  <2>8. longer \in [1..n + 1 -> T] /\ longer[n + 1] = m
    BY <2>7
  <2>9. \A i \in 1..n + 1, j \in 1..n + 1 : i < j => <<longer[i], longer[j]>> \in order
    <3> SUFFICES ASSUME NEW i \in 1..n + 1, NEW j \in 1..n + 1, i < j
                 PROVE  <<longer[i], longer[j]>> \in order
      OBVIOUS
    <3>1. i # n + 1
      OBVIOUS
    <3>2. CASE j = n + 1
      BY <2>3, <2>7, <2>8, <3>1, <3>2
    <3>3. CASE j # n + 1
      BY <2>6, <2>7, <3>1, <3>3 DEF Sorted
    <3> QED BY <3>2, <3>3
  <2> HIDE DEF longer
  <2>10. Sorted(longer, n + 1, order)
    BY <2>9 DEF Sorted
  <2> QED BY <2>8, <2>10
<1>3. \A n \in Nat : n \in N
  <2> HIDE DEF N
  <2> QED BY <1>1, <1>2, Induction
<1>4. Cardinality(S) \in Nat
  BY FS_CardinalityType
<1> QED BY <1>3, <1>4

\* What Arranged makes of a set: every element once, in the order.
IsArranged(list, S, order) ==
  /\ list \in Seq(S) /\ Len(list) \in Nat /\ Len(list) = Cardinality(S)
  /\ \A i, j \in 1..Len(list) : i < j => <<list[i], list[j]>> \in order
  /\ \A i, j \in 1..Len(list) : i # j => list[i] # list[j]
  /\ \A x \in S : \E i \in 1..Len(list) : list[i] = x

LEMMA ArrangedIs ==
  ASSUME NEW S, IsFiniteSet(S), NEW order, TotalOrder(S, order)
  PROVE  IsArranged(Arranged(S, order), S, order)
<1> DEFINE list == Arranged(S, order)
<1> DEFINE n == Cardinality(S)
<1>1. n \in Nat
  BY FS_CardinalityType
<1>2. /\ list \in [1..n -> S]
      /\ \A i, j \in 1..n : i < j => <<list[i], list[j]>> \in order
  BY SortingExists DEF Arranged, Sorted
<1> HIDE DEF list
<1>3. list \in Seq(S) /\ Len(list) = n
  BY <1>1, <1>2, SeqDef
<1>4. \A i, j \in 1..n : i # j => list[i] # list[j]
  <2> SUFFICES ASSUME NEW i \in 1..n, NEW j \in 1..n, i # j PROVE list[i] # list[j]
    OBVIOUS
  <2>1. i < j \/ j < i
    BY <1>1
  <2>2. list[i] \in S /\ list[j] \in S
    BY <1>2
  <2> QED BY <1>2, <2>1, <2>2 DEF TotalOrder
<1>5. list \in Injection(1..n, S)
  BY <1>2, <1>4, Fun_IsInj
<1>6. IsFiniteSet(1..n) /\ Cardinality(1..n) = n
  BY <1>1, FS_Interval
<1>7. list \in Surjection(1..n, S)
  BY <1>5, <1>6, FS_Injection
<1>8. \A x \in S : \E i \in 1..n : list[i] = x
  BY <1>7 DEF Surjection
<1>9. IsArranged(list, S, order)
  BY <1>1, <1>2, <1>3, <1>4, <1>8 DEF IsArranged
<1> QED BY <1>9 DEF list

\* An element stands behind as many as come before it in the order.
LEMMA PlaceIsRank ==
  ASSUME NEW S, IsFiniteSet(S), NEW order, TotalOrder(S, order),
         NEW list, IsArranged(list, S, order), NEW i \in 1..Len(list)
  PROVE  Cardinality({x \in S : <<x, list[i]>> \in order}) = i - 1
<1> DEFINE Ahead == {x \in S : <<x, list[i]>> \in order}
           f == [j \in 1..i - 1 |-> list[j]]
<1>1. /\ list \in Seq(S) /\ Len(list) \in Nat /\ Len(list) = Cardinality(S)
      /\ \A j, k \in 1..Len(list) : j < k => <<list[j], list[k]>> \in order
      /\ \A j, k \in 1..Len(list) : j # k => list[j] # list[k]
      /\ \A x \in S : \E j \in 1..Len(list) : list[j] = x
  BY DEF IsArranged
<1>2. i \in Nat /\ i - 1 \in Nat /\ \A j \in 1..i - 1 : j \in 1..Len(list) /\ j < i
  BY <1>1
<1>3. \A j \in 1..Len(list) : list[j] \in S
  BY <1>1
<1>4. f \in [1..i - 1 -> Ahead]
  BY <1>1, <1>2, <1>3
<1>5. \A j, k \in 1..i - 1 : j # k => f[j] # f[k]
  BY <1>1, <1>2
<1>6. \A x \in Ahead : \E j \in 1..i - 1 : f[j] = x
  <2> SUFFICES ASSUME NEW x \in Ahead PROVE \E j \in 1..i - 1 : f[j] = x
    OBVIOUS
  <2>1. PICK j \in 1..Len(list) : list[j] = x
    BY <1>1
  <2>2. ~ (i < j) /\ i # j
    BY <1>1, <1>3, <2>1 DEF TotalOrder
  <2>3. j \in 1..i - 1
    BY <1>2, <2>2
  <2> QED BY <2>1, <2>3
<1> HIDE DEF f, Ahead
<1>7. f \in Bijection(1..i - 1, Ahead)
  BY <1>4, <1>5, <1>6, Fun_IsBij, Fun_IsInj, Fun_IsSurj
<1>8. ExistsBijection(1..i - 1, Ahead)
  BY <1>7 DEF ExistsBijection
<1>9. Cardinality(Ahead) = i - 1
  BY <1>2, <1>8, FS_CountingElements
<1> QED BY <1>9 DEF Ahead
----------------------------------------------------------------------------
(* The inductive invariant.                                                *)

\* d is p or a directory above it.
Under(d, p) == Len(d) <= Len(p) /\ \A n \in 1..Len(d) : d[n] = p[n]

Searching == pc \in {"walk", "read"}
Listed(p) == \E r \in results : r.path = p
Covered(p) == \E i \in 1..Len(pending) : Under(pending[i], p)

\* Every entry is visited once, and a note is a result at most once.
WalkInv ==
  /\ pc = "idle" => /\ got = <<>> /\ changes = 0
  /\ IsFiniteSet(results)
  /\ \A r, s \in results : r.path = s.path => r = s
  /\ Searching => /\ Offset(cursor) \in Nat
                  /\ NormalizedSort(query) \in KnownSorts
                  /\ \A i, j \in 1..Len(pending) : i # j => ~ Under(pending[i], pending[j])
                  /\ \A r \in results : ~ Covered(r.path)
  /\ pc = "read" => pending # <<>> /\ Head(pending) \in Paths /\ info \in Files
  /\ page.next # NoCursor => page.next.kind = "number" /\ page.next.offset \in Nat

\* Versions are given in the order of the changes.
VersionInv ==
  /\ \A p \in Paths : vault[p] # Absent => vault[p].version <= changes
  /\ pc = "read" => /\ info.version <= changes
                    /\ vault[Head(pending)] # Absent =>
                         info.version <= vault[Head(pending)].version
  /\ \A r \in results : r.stated <= r.read
  /\ TimeIsNotAheadOfContent

Untouched == Matching(vault, query) \ touched
Ahead(p) == AheadOf(vault, query, p)
Leads(r, p) == Before(NormalizedSort(query), r, [path |-> p, modified |-> vault[p].modified])
FoundAhead(a, p) == \E r \in results : r.path = a /\ Leads(r, p)

\* The walk comes to every note that stays, and finds it as it is.
SeenInv ==
  Searching /\ ~ torn =>
    /\ \A p \in Untouched : Covered(p) \/ Listed(p)
    /\ \A r \in results : r.path \notin touched =>
         r.path \in Untouched /\ r.modified = vault[r.path].modified

\* What is ahead of a note in the results is ahead of it in the vault, while no
\* note has moved forward; and the other way round, while none has moved back.
AheadInv ==
  Searching /\ ~ torn => \A p \in Untouched :
    /\ ~ pulled => \A r \in results : Leads(r, p) => r.path \in Ahead(p)
    /\ ~ pushed => \A a \in Ahead(p) : Covered(a) \/ FoundAhead(a, p)

Shown(p) == \E i \in 1..Len(got) : got[i].path = p

\* A note that has not been shown has as many ahead of it as pages have gone by.
MissInv ==
  ~ torn /\ ~ pulled /\ first = 0 => \A p \in Untouched :
    \/ Shown(p)
    \/ /\ Searching => \E A \in SUBSET Ahead(p) :
            /\ Cardinality(A) >= Offset(cursor)
            /\ \A a \in A : Covered(a) \/ FoundAhead(a, p)
       /\ pc = "answered" => /\ page.next # NoCursor
                             /\ Cardinality(Ahead(p)) >= page.next.offset
       /\ pc # "finished"

\* A note that has been shown has fewer ahead of it.
RepeatInv ==
  ~ torn /\ ~ pushed => \A p \in Paths \ touched :
    /\ \A i, j \in 1..Len(got) : got[i].path = p /\ got[j].path = p => i = j
    /\ Shown(p) =>
         /\ p \in Untouched
         /\ Searching => \E B \in SUBSET Paths :
              /\ Ahead(p) \subseteq B /\ Cardinality(B) < Offset(cursor)
              /\ \A r \in results : Leads(r, p) => r.path \in B
         /\ pc = "answered" /\ page.next # NoCursor =>
              Cardinality(Ahead(p)) < page.next.offset

\* Until the vault changes, the pages so far are a stretch of the results.
Total == Cardinality(Matching(vault, query))
ExactInv ==
  changes = 0 =>
    /\ touched = {} /\ ~ pulled /\ ~ pushed /\ ~ torn
    /\ pc = "read" => info = vault[Head(pending)]
    /\ Searching => Len(got) = Offset(cursor) - first /\ (got = <<>> \/ Offset(cursor) < Total)
    /\ pc = "answered" /\ page.next # NoCursor =>
         Len(got) = page.next.offset - first /\ page.next.offset < Total
    /\ (pc = "answered" /\ page.next = NoCursor) \/ pc = "finished" =>
         Len(got) = IF first > Total THEN 0 ELSE Total - first
    /\ \A p \in Matching(vault, query) :
         LET place == Cardinality(Ahead(p)) + 1 - first
         IN place \in 1..Len(got) => got[place].path = p

\* Results, and what has been shown of them, match and have their snippets.
Matched(r) == /\ r.snippet = BuildSnippet(r.note, query.term) /\ ~ r.snippet.panic
              /\ MatchText(r.note, query.term)
SnippetInv == /\ \A r \in results : Matched(r)
              /\ \A i \in 1..Len(got) : Matched(got[i])

IInv == /\ TypeOK /\ WalkInv /\ VersionInv /\ SeenInv /\ AheadInv
        /\ MissInv /\ RepeatInv /\ ExactInv /\ SnippetInv

----------------------------------------------------------------------------
(* Paths and directories.                                                  *)

Nodes == Paths \cup Directories

LEMMA Prefix ==
  ASSUME NEW S, NEW s \in Seq(S), NEW n \in 0..Len(s)
  PROVE  /\ SubSeq(s, 1, n) \in Seq(S) /\ Len(SubSeq(s, 1, n)) = n
         /\ \A i \in 1..n : SubSeq(s, 1, n)[i] = s[i]
<1>1. Len(s) \in Nat /\ n \in Nat
  OBVIOUS
<1>2. \A i \in 1..n : s[i] \in S
  BY <1>1
<1> QED BY <1>1, <1>2, SubSeqProperties

LEMMA Tree ==
  /\ \A e \in Nodes : /\ e \in Seq(Segments) /\ Len(e) \in Nat \ {0}
                      /\ Front(e) \in Seq(Segments) /\ Len(Front(e)) = Len(e) - 1
                      /\ \A n \in 1..Len(e) - 1 : Front(e)[n] = e[n]
  /\ \A p \in Paths : \A n \in 1..Len(p) - 1 : SubSeq(p, 1, n) \in Directories
  /\ \A p \in Paths : p \notin Directories
<1>1. \A e \in Paths : e \in Seq(Segments) /\ Len(e) \in Nat \ {0}
  BY PathAssumption
<1>2. \A e \in Directories : e \in Seq(Segments) /\ Len(e) \in Nat \ {0}
  <2> SUFFICES ASSUME NEW e \in Directories PROVE e \in Seq(Segments) /\ Len(e) \in Nat \ {0}
    OBVIOUS
  <2>1. PICK p \in Paths, n \in Int : n \in 1..Len(p) - 1 /\ e = SubSeq(p, 1, n)
    BY DEF Directories
  <2>2. p \in Seq(Segments) /\ n \in 0..Len(p) /\ n \in Nat \ {0}
    BY <1>1, <2>1
  <2> QED BY <2>1, <2>2, Prefix
<1>3. ASSUME NEW e \in Nodes
      PROVE  /\ Front(e) \in Seq(Segments) /\ Len(Front(e)) = Len(e) - 1
             /\ \A n \in 1..Len(e) - 1 : Front(e)[n] = e[n]
  <2>1. e \in Seq(Segments) /\ Len(e) \in Nat \ {0}
    BY <1>1, <1>2 DEF Nodes
  <2>2. Len(e) - 1 \in 0..Len(e)
    BY <2>1
  <2> QED BY <2>1, <2>2, Prefix DEF Front
<1>4. \A p \in Paths : \A n \in 1..Len(p) - 1 : SubSeq(p, 1, n) \in Directories
  BY DEF Directories
<1> QED BY <1>1, <1>2, <1>3, <1>4, PathAssumption DEF Nodes

LEMMA UnderIsOrder ==
  ASSUME NEW a \in Nodes, NEW b \in Nodes
  PROVE  /\ Under(a, a)
         /\ Under(a, b) /\ Under(b, a) => a = b
         /\ Under(a, b) /\ Len(a) = Len(b) => a = b
         /\ Front(a) = b => Under(b, a) /\ Len(a) = Len(b) + 1
         /\ b \in Paths /\ Under(b, a) => a = b
         /\ \A c \in Nodes : /\ Under(a, b) /\ Under(b, c) => Under(a, c)
                             /\ Under(a, c) /\ Under(b, c) => Under(a, b) \/ Under(b, a)
                             /\ Under(a, c) /\ Front(c) = b => Under(a, b) \/ a = c
<1>1. /\ a \in Seq(Segments) /\ Len(a) \in Nat \ {0} /\ b \in Seq(Segments) /\ Len(b) \in Nat \ {0}
      /\ Front(a) = b => Len(a) = Len(b) + 1 /\ \A n \in 1..Len(b) : b[n] = a[n]
  BY Tree
<1>2. Under(a, b) /\ Len(a) = Len(b) => a = b
  <2>1. SUFFICES ASSUME Under(a, b), Len(a) = Len(b) PROVE a = b
    OBVIOUS
  <2>2. \A n \in 1..Len(a) : a[n] = b[n]
    BY <2>1 DEF Under
  <2>3. a \in Seq(Segments) /\ b \in Seq(Segments)
    BY <1>1
  <2> QED BY <2>1, <2>2, <2>3, SeqEqual
<1>3. b \in Paths /\ Under(b, a) => a = b
  <2> SUFFICES ASSUME b \in Paths, Under(b, a), a # b PROVE FALSE
    OBVIOUS
  <2>1. Len(b) < Len(a)
    <3>1. Len(b) # Len(a)
      <4> SUFFICES ASSUME Len(b) = Len(a) PROVE FALSE
        OBVIOUS
      <4>1. \A n \in 1..Len(b) : b[n] = a[n]
        BY DEF Under
      <4> QED BY <1>1, <4>1, SeqEqual
    <3> QED BY <1>1, <3>1 DEF Under
  <2>2. PICK p \in Paths : Len(b) \in 1..Len(p) - 1 /\ \A n \in 1..Len(b) : b[n] = p[n]
    <3>1. CASE a \in Paths
      BY <1>1, <2>1, <3>1 DEF Under
    <3>2. CASE a \in Directories
      <4>1. PICK p \in Paths, m \in Int : m \in 1..Len(p) - 1 /\ a = SubSeq(p, 1, m)
        BY <3>2 DEF Directories
      <4>2. p \in Seq(Segments) /\ Len(p) \in Nat
        BY Tree DEF Nodes
      <4>3. m \in 0..Len(p)
        BY <4>1, <4>2
      <4>4. Len(a) = m /\ \A i \in 1..m : a[i] = p[i]
        BY <4>1, <4>2, <4>3, Prefix
      <4>5. \A n \in 1..Len(b) : b[n] = a[n]
        BY DEF Under
      <4>6. \A n \in 1..Len(b) : b[n] = p[n] /\ Len(b) \in 1..Len(p) - 1
        BY <1>1, <2>1, <4>1, <4>2, <4>4, <4>5
      <4> QED BY <1>1, <4>6
    <3> QED BY <3>1, <3>2 DEF Nodes
  <2>3. p \in Seq(Segments) /\ Len(p) \in Nat
    BY Tree DEF Nodes
  <2>4. Len(b) \in 0..Len(p)
    BY <2>2, <2>3
  <2>5. SubSeq(p, 1, Len(b)) \in Seq(Segments) /\ Len(SubSeq(p, 1, Len(b))) = Len(b)
        /\ \A i \in 1..Len(b) : SubSeq(p, 1, Len(b))[i] = p[i]
    BY <2>2, <2>3, <2>4, Prefix
  <2>6. b = SubSeq(p, 1, Len(b))
    BY <1>1, <2>2, <2>5, SeqEqual
  <2>7. b \in Directories
    BY <2>2, <2>6, Tree
  <2> QED BY <2>7, Tree
<1>4. ASSUME NEW c \in Nodes
      PROVE  /\ Under(a, b) /\ Under(b, c) => Under(a, c)
             /\ Under(a, c) /\ Under(b, c) => Under(a, b) \/ Under(b, a)
             /\ Under(a, c) /\ Front(c) = b => Under(a, b) \/ a = c
  <2>1. /\ c \in Seq(Segments) /\ Len(c) \in Nat \ {0}
        /\ Front(c) = b => Len(c) = Len(b) + 1 /\ \A n \in 1..Len(b) : b[n] = c[n]
    <3>1. /\ c \in Seq(Segments) /\ Len(c) \in Nat \ {0} /\ Len(Front(c)) = Len(c) - 1
          /\ \A n \in 1..Len(c) - 1 : Front(c)[n] = c[n]
      BY Tree
    <3> QED BY <1>1, <3>1
  <2>2. Under(a, b) /\ Under(b, c) => Under(a, c)
    BY <1>1, <2>1 DEF Under
  <2>3. Under(a, c) /\ Under(b, c) => Under(a, b) \/ Under(b, a)
    BY <1>1, <2>1 DEF Under
  <2>4. ASSUME Under(a, c), Front(c) = b PROVE Under(a, b) \/ a = c
    <3>1. CASE Len(a) <= Len(b)
      BY <1>1, <2>1, <2>4, <3>1 DEF Under
    <3>2. CASE Len(a) = Len(c)
      BY <1>1, <2>1, <2>4, <3>2, SeqEqual DEF Under
    <3> QED BY <1>1, <2>1, <2>4, <3>1, <3>2 DEF Under
  <2> QED BY <2>2, <2>3, <2>4
<1> QED BY <1>1, <1>2, <1>3, <1>4 DEF Under

LEMMA NodesFinite == IsFiniteSet(Nodes)
<1>1. Collation \in Surjection(DOMAIN Collation, Range(Collation))
  <2>1. Collation \in [DOMAIN Collation -> Range(Collation)]
    <3>1. Collation \in [1..Len(Collation) -> Seq(Segments)]
      BY CollationAssumption, LenProperties
    <3> QED BY <3>1 DEF Range
  <2> QED BY <2>1 DEF Surjection, Range
<1>2. IsFiniteSet(DOMAIN Collation)
  BY CollationAssumption, FS_Interval, LenProperties
<1>3. IsFiniteSet(Range(Collation))
  BY <1>1, <1>2, FS_Surjection
<1> QED BY <1>3, CollationAssumption, FS_Subset DEF Nodes

LEMMA IndexIs ==
  ASSUME NEW e \in Nodes
  PROVE  Index(e) \in Nat /\ Collation[Index(e)] = e
<1>1. \E i \in DOMAIN Collation : Collation[i] = e
  BY CollationAssumption DEF Range, Nodes
<1>2. Index(e) \in DOMAIN Collation /\ Collation[Index(e)] = e
  BY <1>1 DEF Index
<1>3. DOMAIN Collation \subseteq Nat
  BY CollationAssumption, LenProperties
<1> QED BY <1>2, <1>3

----------------------------------------------------------------------------
(* What the walk and the answer arrange.                                   *)

LEMMA PathOrder ==
  ASSUME NEW S \in SUBSET Nodes
  PROVE  TotalOrder(S, {e \in S \X S : PathAsc(e[1], e[2])})
<1>1. \A e \in S : Index(e) \in Nat /\ Collation[Index(e)] = e
  BY IndexIs
<1> QED BY <1>1 DEF TotalOrder, PathAsc

\* The entries of a directory, each once.
LEMMA ListingIs ==
  ASSUME NEW dir
  PROVE  /\ Listing(dir) \in Seq(Nodes) /\ Len(Listing(dir)) \in Nat
         /\ \A i \in 1..Len(Listing(dir)) : Listing(dir)[i] \in Nodes /\ Front(Listing(dir)[i]) = dir
         /\ \A i, j \in 1..Len(Listing(dir)) : i # j => Listing(dir)[i] # Listing(dir)[j]
         /\ \A e \in Entries(dir) : \E i \in 1..Len(Listing(dir)) : Listing(dir)[i] = e
<1> DEFINE order == {e \in Entries(dir) \X Entries(dir) : PathAsc(e[1], e[2])}
<1>1. Entries(dir) \in SUBSET Nodes /\ \A e \in Entries(dir) : Front(e) = dir
  BY DEF Entries, Nodes
<1>2. IsFiniteSet(Entries(dir))
  BY <1>1, NodesFinite, FS_Subset
<1>3. TotalOrder(Entries(dir), order)
  BY <1>1, PathOrder
<1>4. IsArranged(Listing(dir), Entries(dir), order)
  BY <1>2, <1>3, ArrangedIs DEF Listing
<1> HIDE DEF order
<1>5. /\ Listing(dir) \in Seq(Entries(dir)) /\ Len(Listing(dir)) \in Nat
      /\ \A i, j \in 1..Len(Listing(dir)) : i # j => Listing(dir)[i] # Listing(dir)[j]
      /\ \A e \in Entries(dir) : \E i \in 1..Len(Listing(dir)) : Listing(dir)[i] = e
  BY <1>4 DEF IsArranged
<1>6. \A i \in 1..Len(Listing(dir)) : Listing(dir)[i] \in Entries(dir)
  BY <1>5
<1>7. Listing(dir) \in Seq(Nodes)
  BY <1>1, <1>5, SeqMonotonic
<1> QED BY <1>1, <1>5, <1>6, <1>7

\* A note that is there is in its directory, or in one that is.
LEMMA EntriesCover ==
  ASSUME NEW dir, dir \in Directories \/ dir = <<>>,
         NEW p \in Paths, vault[p] # Absent, Under(dir, p)
  PROVE  \E i \in 1..Len(Listing(dir)) : Under(Listing(dir)[i], p)
<1> DEFINE k == Len(dir)
           e == SubSeq(p, 1, k + 1)
<1>1. p \in Seq(Segments) /\ Len(p) \in Nat \ {0} /\ p \in Nodes
  BY Tree DEF Nodes
<1>2. dir \in Seq(Segments) /\ k \in Nat /\ k + 1 <= Len(p)
  <2>1. CASE dir = <<>>
    BY <1>1, <2>1
  <2>2. CASE dir \in Directories
    <3>1. dir \in Seq(Segments) /\ k \in Nat /\ dir \in Nodes /\ dir # p
      BY <2>2, Tree DEF Nodes
    <3>2. k # Len(p)
      BY <1>1, <3>1, UnderIsOrder
    <3> QED BY <1>1, <3>1, <3>2 DEF Under
  <2> QED BY <2>1, <2>2
<1>3. /\ e \in Seq(Segments) /\ Len(e) = k + 1
      /\ \A i \in 1..k + 1 : e[i] = p[i]
  <2>1. k + 1 \in 0..Len(p)
    BY <1>1, <1>2
  <2> QED BY <1>1, <2>1, Prefix
<1>4. e \in Nodes /\ (e \in Paths => e = p)
  <2>1. CASE k + 1 = Len(p)
    BY <1>1, <1>2, <1>3, <2>1, SeqEqual DEF Nodes
  <2>2. CASE k + 1 # Len(p)
    <3>1. k + 1 \in 1..Len(p) - 1
      BY <1>1, <1>2, <2>2
    <3> QED BY <3>1, Tree DEF Nodes
  <2> QED BY <2>1, <2>2
<1> HIDE DEF e
<1>5. Front(e) = dir
  <2>1. /\ Front(e) \in Seq(Segments) /\ Len(Front(e)) = Len(e) - 1
        /\ \A n \in 1..Len(e) - 1 : Front(e)[n] = e[n]
    BY <1>4, Tree
  <2>2. Len(Front(e)) = k
    BY <1>2, <1>3, <2>1
  <2>3. \A n \in 1..k : Front(e)[n] = dir[n]
    BY <1>2, <1>3, <2>1 DEF Under
  <2> QED BY <1>2, <2>1, <2>2, <2>3, SeqEqual
<1>6. e \in Entries(dir)
  BY <1>4, <1>5 DEF Entries, Nodes
<1>7. Under(e, p)
  BY <1>1, <1>2, <1>3 DEF Under
<1> QED BY <1>6, <1>7, ListingIs

LEMMA RootCovers ==
  ASSUME NEW p \in Paths, vault[p] # Absent
  PROVE  \E i \in 1..Len(Listing(<<>>)) : Under(Listing(<<>>)[i], p)
<1>1. Under(<<>>, p)
  BY Tree DEF Under, Nodes
<1> QED BY <1>1, EntriesCover

\* Results and notes have a place in both orders.
Ordered(a) == a.path \in Paths /\ a.modified \in Nat

LEMMA BeforeIsOrder ==
  ASSUME NEW sort, NEW a, NEW b, NEW c, Ordered(a), Ordered(b), Ordered(c)
  PROVE  /\ ~ Before(sort, a, a)
         /\ a.path # b.path => Before(sort, a, b) \/ Before(sort, b, a)
         /\ Before(sort, a, b) /\ Before(sort, b, c) => Before(sort, a, c)
<1>1. \A p \in Paths : Index(p) \in Nat /\ Collation[Index(p)] = p
  BY IndexIs DEF Nodes
<1> QED BY <1>1 DEF Ordered, Before, PathAsc

\* What a list of results is sorted into, if no two are of one note: every
\* result stands behind as many as come before it.
Leading(found, sort, r) == {x.path : x \in {y \in found : Before(sort, y, r)}}

LEMMA SortIs ==
  ASSUME NEW found, IsFiniteSet(found), \A r \in found : Ordered(r),
         \A r, t \in found : r.path = t.path => r = t, NEW q
  PROVE  LET list == SortResults(found, q) IN
         /\ Cardinality(found) \in Nat
         /\ list \in Seq(found) /\ Len(list) \in Nat /\ Len(list) = Cardinality(found)
         /\ \A i, j \in 1..Len(list) : list[i].path = list[j].path => i = j
         /\ \A r \in found : \E i \in 1..Len(list) : list[i] = r
         /\ \A i \in 1..Len(list) :
              Cardinality(Leading(found, NormalizedSort(q), list[i])) = i - 1
<1> DEFINE sort == NormalizedSort(q)
           order == {r \in found \X found : Before(sort, r[1], r[2])}
           list == SortResults(found, q)
<1>1. TotalOrder(found, order)
  <2> HIDE DEF sort
  <2>1. \A x \in found : <<x, x>> \notin order
    BY BeforeIsOrder
  <2>2. \A x, y \in found : x # y => <<x, y>> \in order \/ <<y, x>> \in order
    BY BeforeIsOrder
  <2>3. \A x, y, z \in found : <<x, y>> \in order /\ <<y, z>> \in order => <<x, z>> \in order
    BY BeforeIsOrder
  <2> QED BY <2>1, <2>2, <2>3 DEF TotalOrder
<1>2. IsArranged(list, found, order)
  BY <1>1, ArrangedIs DEF SortResults
<1> HIDE DEF list
<1>3. /\ list \in Seq(found) /\ Len(list) \in Nat /\ Len(list) = Cardinality(found)
      /\ \A i, j \in 1..Len(list) : i # j => list[i] # list[j]
      /\ \A r \in found : \E i \in 1..Len(list) : list[i] = r
  BY <1>2 DEF IsArranged
<1>4. \A i \in 1..Len(list) : list[i] \in found
  BY <1>3
<1>5. ASSUME NEW i \in 1..Len(list)
      PROVE  Cardinality(Leading(found, sort, list[i])) = i - 1
  <2> DEFINE ahead == {x \in found : <<x, list[i]>> \in order}
             paths == Leading(found, sort, list[i])
             f == [x \in ahead |-> x.path]
  <2>1. Cardinality(ahead) = i - 1
    BY <1>1, <1>2, PlaceIsRank
  <2>2. ahead = {y \in found : Before(sort, y, list[i])}
    BY <1>4
  <2>3. paths = {x.path : x \in ahead}
    BY <2>2 DEF Leading
  <2> HIDE DEF paths
  <2>4. f \in [ahead -> paths] /\ \A x \in ahead : f[x] = x.path
    BY <2>3
  <2>5. \A x, y \in ahead : f[x] = f[y] => x = y
    BY <2>4
  <2>6. \A t \in paths : \E x \in ahead : f[x] = t
    BY <2>3, <2>4
  <2>7. IsFiniteSet(ahead)
    BY FS_Subset
  <2> HIDE DEF f, ahead
  <2>8. f \in Bijection(ahead, paths)
    BY <2>4, <2>5, <2>6, Fun_IsBij, Fun_IsInj, Fun_IsSurj
  <2>9. Cardinality(paths) = Cardinality(ahead)
    BY <2>7, <2>8, FS_Bijection DEF ExistsBijection
  <2> QED BY <2>1, <2>9 DEF paths
<1>6. \A i, j \in 1..Len(list) : list[i].path = list[j].path => i = j
  BY <1>3, <1>4
<1>7. Cardinality(found) \in Nat
  BY FS_CardinalityType
<1> QED BY <1>3, <1>5, <1>6, <1>7 DEF list

----------------------------------------------------------------------------
(* Pages.                                                                  *)

LEMMA SnippetType ==
  \A q \in Queries, n \in Notes :
    BuildSnippet(n, q.term) \in [panic: BOOLEAN, from: Nat, window: Seq(Runes)]
BY NoteAssumption, QueryAssumption, SnippetIs

PageEnd(list, offset, limit) ==
  IF offset + limit > Len(list) THEN Len(list) ELSE offset + limit

LEMMA PaginateIs ==
  ASSUME NEW T, NEW list \in Seq(T), NEW offset \in Nat, NEW limit \in Nat \ {0}
  PROVE  LET paged == Paginate(list, offset, limit)
             end == PageEnd(list, offset, limit) IN
         /\ offset >= Len(list) => paged = [results |-> <<>>, next |-> NoCursor]
         /\ offset < Len(list) =>
              /\ end \in Nat /\ offset < end /\ end <= Len(list)
              /\ paged.results \in Seq(T) /\ Len(paged.results) = end - offset
              /\ \A i \in 1..end - offset : paged.results[i] = list[offset + i]
              /\ paged.next = IF end < Len(list) THEN [kind |-> "number", offset |-> end]
                              ELSE NoCursor
<1> DEFINE end == PageEnd(list, offset, limit)
           cut == SubSeq(list, offset + 1, end)
<1>1. Len(list) \in Nat
  OBVIOUS
<1>2. CASE offset >= Len(list)
  BY <1>1, <1>2 DEF Paginate
<1>3. CASE offset < Len(list)
  <2>1. end \in Nat /\ offset < end /\ end <= Len(list)
    BY <1>1, <1>3 DEF PageEnd
  <2>2. Paginate(list, offset, limit) =
          [results |-> cut, next |-> IF end < Len(list) THEN [kind |-> "number", offset |-> end]
                                     ELSE NoCursor]
    BY <1>1, <1>3 DEF Paginate, PageEnd
  <2> HIDE DEF end
  <2>3. \A i \in offset + 1..end : list[i] \in T
    BY <1>1, <2>1
  <2>4. /\ cut \in Seq(T)
        /\ Len(cut) = IF offset + 1 <= end THEN end - (offset + 1) + 1 ELSE 0
        /\ \A i \in 1..end - (offset + 1) + 1 : cut[i] = list[(offset + 1) + i - 1]
    BY <2>1, <2>3, SubSeqProperties
  <2> HIDE DEF cut
  <2>5. end - (offset + 1) + 1 = end - offset
    BY <2>1
  <2>6. Len(cut) = end - offset /\ \A i \in 1..end - offset : cut[i] = list[offset + i]
    BY <2>1, <2>4, <2>5
  <2>7. ~ (offset >= Len(list))
    BY <1>1, <1>3
  <2> QED BY <2>1, <2>2, <2>4, <2>6, <2>7 DEF end
<1> QED BY <1>1, <1>2, <1>3

LEMMA LimitIs == \A q \in Queries : NormalizedLimit(q) \in Nat \ {0}
BY QueryAssumption, LimitAssumption DEF NormalizedLimit

----------------------------------------------------------------------------
(* Types and the walk.                                                     *)

LEMMA HeadTail ==
  ASSUME NEW S, NEW s \in Seq(S), s # <<>>
  PROVE  /\ Head(s) = s[1] /\ Head(s) \in S /\ Len(s) \in Nat \ {0}
         /\ Tail(s) \in Seq(S) /\ Len(Tail(s)) = Len(s) - 1
         /\ \A i \in 1..Len(s) - 1 : Tail(s)[i] = s[i + 1]
<1>1. Len(s) \in Nat /\ Len(s) # 0
  BY EmptySeq, LenProperties
<1>2. Head(s) \in S /\ Tail(s) \in Seq(S) /\ Len(Tail(s)) = Len(s) - 1
      /\ \A i \in 1..Len(Tail(s)) : Tail(s)[i] = s[i + 1]
  BY HeadTailProperties
<1> QED BY <1>1, <1>2

Basic == TypeOK /\ WalkInv

LEMMA BasicInit == Init => Basic
<1> SUFFICES ASSUME Init PROVE Basic
  OBVIOUS
<1>1. TypeOK
  <2>1. vault \in [Paths -> Files \cup {Absent}]
    BY VaultAssumption DEF Init
  <2>2. changes \in 0..MaxChanges /\ query \in Queries /\ first \in Nat
    BY ChangesAssumption DEF Init
  <2>3. NoCursor \in PageTokens
    BY DEF NoCursor, PageTokens
  <2>4. page.results = <<>> /\ page.next = NoCursor
    BY DEF Init, NoPage
  <2> QED BY <2>1, <2>2, <2>3, <2>4, EmptySeq DEF Init, TypeOK
<1>2. WalkInv
  BY FS_EmptySet DEF Init, WalkInv, Searching, NoPage
<1> QED BY <1>1, <1>2 DEF Basic

\* A search begins, with a token of the client's or with the one of a page.
LEMMA SearchBasic ==
  ASSUME Basic, NEW c \in PageTokens, Search(c), UNCHANGED <<query, info, page, got>>,
         UNCHANGED <<vault, changes, touched, pulled, pushed, torn>>, first' \in Nat
  PROVE  Basic'
<1>1. pending' \in Seq(Nodes) /\ results' \subseteq Results /\ cursor' = c
      /\ pc' \in {"walk", "refused"}
  BY ListingIs DEF Search, Basic, TypeOK, Nodes
<1>2. TypeOK'
  BY <1>1 DEF Basic, TypeOK, Nodes
<1>3. IsFiniteSet(results') /\ \A r, s \in results' : r.path = s.path => r = s
  BY FS_EmptySet DEF Search, Basic, WalkInv
<1>4. ASSUME pc' = "walk"
      PROVE  /\ Offset(c) \in Nat /\ NormalizedSort(query) \in KnownSorts
             /\ results' = {} /\ pending' = Listing(<<>>)
  BY <1>4 DEF Search, InvalidQuery, InvalidCursor, PageTokens, Offset
<1>5. ASSUME pc' = "walk", NEW i \in 1..Len(pending'), NEW j \in 1..Len(pending'), i # j,
             Under(pending'[i], pending'[j])
      PROVE  FALSE
  <2> DEFINE L == Listing(<<>>)
  <2>1. /\ L[i] \in Nodes /\ Front(L[i]) = <<>> /\ L[j] \in Nodes /\ Front(L[j]) = <<>>
        /\ L[i] # L[j] /\ Under(L[i], L[j])
    BY <1>4, <1>5, ListingIs
  <2>2. Len(L[i]) - 1 = Len(<<>>) /\ Len(L[j]) - 1 = Len(<<>>)
    BY <2>1, Tree
  <2>3. Len(L[i]) = Len(L[j])
    BY <2>1, <2>2, Tree
  <2> QED BY <2>1, <2>3, UnderIsOrder
<1>6. UNCHANGED <<query, page, got>> /\ pc' # "idle" /\ pc' # "read"
  BY <1>1
<1>7. Searching' => pc' = "walk"
  BY <1>1 DEF Searching
<1>8. WalkInv'
  BY <1>1, <1>3, <1>4, <1>5, <1>6, <1>7 DEF Basic, WalkInv
<1> QED BY <1>2, <1>8 DEF Basic

\* What is left of a walk when it opens a directory.
LEMMA Opened ==
  ASSUME TypeOK, OpenDirectory
  PROVE  LET d == Head(pending)
             L == Listing(d) IN
         /\ d \in Directories /\ d = pending[1] /\ 1 \in 1..Len(pending)
         /\ pending' \in Seq(Nodes) /\ Len(pending) \in Nat
         /\ \A i \in 1..Len(pending') :
              \/ i \in 1..Len(L) /\ pending'[i] = L[i]
              \/ \E k \in 2..Len(pending) : i = Len(L) + k - 1 /\ pending'[i] = pending[k]
         /\ \A i \in 1..Len(L) : i \in 1..Len(pending') /\ pending'[i] = L[i]
         /\ \A k \in 2..Len(pending) : /\ Len(L) + k - 1 \in 1..Len(pending')
                                       /\ pending'[Len(L) + k - 1] = pending[k]
<1> DEFINE d == Head(pending)
           L == Listing(d)
           rest == Tail(pending)
<1>1. d \in Directories /\ pending # <<>> /\ pending' = L \o rest
  BY DEF OpenDirectory
<1>2. pending \in Seq(Nodes)
  BY DEF TypeOK, Nodes
<1>3. /\ d = pending[1] /\ Len(pending) \in Nat \ {0} /\ rest \in Seq(Nodes)
      /\ Len(rest) = Len(pending) - 1 /\ \A i \in 1..Len(pending) - 1 : rest[i] = pending[i + 1]
  BY <1>1, <1>2, HeadTail
<1>4. L \in Seq(Nodes) /\ Len(L) \in Nat
  BY ListingIs
<1> HIDE DEF d, L, rest
<1>5. /\ pending' \in Seq(Nodes) /\ Len(pending') = Len(L) + Len(rest)
      /\ \A i \in 1..Len(L) + Len(rest) :
           pending'[i] = IF i <= Len(L) THEN L[i] ELSE rest[i - Len(L)]
  BY <1>1, <1>3, <1>4, ConcatProperties
<1>6. ASSUME NEW i \in 1..Len(pending')
      PROVE  \/ i \in 1..Len(L) /\ pending'[i] = L[i]
             \/ \E k \in 2..Len(pending) : i = Len(L) + k - 1 /\ pending'[i] = pending[k]
  <2>1. CASE i <= Len(L)
    BY <1>4, <1>5, <2>1
  <2>2. CASE ~ (i <= Len(L))
    <3>1. i \in 1..Len(L) + Len(rest) /\ i \in Nat
      BY <1>3, <1>4, <1>5
    <3>2. PICK k \in Int : k = i - Len(L) + 1
      <4>1. i - Len(L) + 1 \in Int
        BY <1>4, <3>1
      <4> QED BY <4>1
    <3>3. k \in 2..Len(pending) /\ i = Len(L) + k - 1 /\ i - Len(L) = k - 1
      BY <1>3, <1>4, <2>2, <3>1, <3>2
    <3>4. k - 1 \in 1..Len(pending) - 1 /\ (k - 1) + 1 = k
      BY <1>3, <3>3
    <3>5. pending'[i] = rest[k - 1]
      BY <1>5, <2>2, <3>1, <3>3
    <3>6. rest[k - 1] = pending[(k - 1) + 1]
      BY <1>3, <3>4
    <3> QED BY <3>3, <3>4, <3>5, <3>6
  <2> QED BY <2>1, <2>2
<1>7. \A i \in 1..Len(L) : i \in 1..Len(pending') /\ pending'[i] = L[i]
  BY <1>3, <1>4, <1>5
<1>8. ASSUME NEW k \in 2..Len(pending)
      PROVE  Len(L) + k - 1 \in 1..Len(pending') /\ pending'[Len(L) + k - 1] = pending[k]
  <2>1. /\ Len(L) + k - 1 \in 1..Len(L) + Len(rest) /\ ~ (Len(L) + k - 1 <= Len(L))
        /\ (Len(L) + k - 1) - Len(L) = k - 1 /\ k - 1 \in 1..Len(pending) - 1 /\ (k - 1) + 1 = k
    BY <1>3, <1>4
  <2> QED BY <1>3, <1>5, <2>1
<1>9. 1 \in 1..Len(pending) /\ Len(pending) \in Nat
  BY <1>3
<1> QED BY <1>1, <1>3, <1>5, <1>6, <1>7, <1>8, <1>9 DEF d, L

LEMMA OpenBasic == ASSUME Basic, OpenDirectory PROVE Basic'
<1> DEFINE d == Head(pending)
           L == Listing(d)
<1>1. /\ d \in Directories /\ d = pending[1] /\ 1 \in 1..Len(pending)
      /\ pending' \in Seq(Nodes) /\ Len(pending) \in Nat
      /\ \A i \in 1..Len(pending') :
           \/ i \in 1..Len(L) /\ pending'[i] = L[i]
           \/ \E k \in 2..Len(pending) : i = Len(L) + k - 1 /\ pending'[i] = pending[k]
  BY Opened DEF Basic
<1>2. /\ \A i \in 1..Len(L) : L[i] \in Nodes /\ Front(L[i]) = d
      /\ \A i, j \in 1..Len(L) : i # j => L[i] # L[j]
  BY ListingIs
<1>3. UNCHANGED <<vault, changes, pc, query, cursor, info, results, page, got, ghosts>> /\ pc = "walk"
  BY DEF OpenDirectory
<1>4. TypeOK'
  <2>1. pending' \in Seq(Paths \cup Directories)
    BY <1>1 DEF Nodes
  <2> QED BY <1>3, <2>1 DEF Basic, TypeOK, ghosts
<1>5. /\ \A i, j \in 1..Len(pending) : i # j => ~ Under(pending[i], pending[j])
      /\ \A r \in results, i \in 1..Len(pending) : ~ Under(pending[i], r.path)
      /\ \A k \in 2..Len(pending) : pending[k] \in Nodes /\ k # 1 /\ k \in 1..Len(pending)
      /\ d \in Nodes
      /\ \A r \in results : r.path \in Nodes
  BY <1>1, <1>3 DEF Basic, TypeOK, WalkInv, Searching, Covered, Nodes, Results
<1> HIDE DEF d, L
<1>6. ASSUME NEW i \in 1..Len(L), NEW e \in Nodes
      PROVE  Under(L[i], e) => Under(d, e)
  <2>1. L[i] \in Nodes /\ Front(L[i]) = d
    BY <1>2
  <2>2. Under(d, L[i])
    BY <1>5, <2>1, UnderIsOrder
  <2> QED BY <1>5, <2>1, <2>2, UnderIsOrder
<1>7. ASSUME NEW i \in 1..Len(pending'), NEW j \in 1..Len(pending'), i # j,
             Under(pending'[i], pending'[j])
      PROVE  FALSE
  <2>1. CASE i \in 1..Len(L) /\ pending'[i] = L[i] /\ j \in 1..Len(L) /\ pending'[j] = L[j]
    <3>1. L[i] \in Nodes /\ Front(L[i]) = d /\ L[j] \in Nodes /\ Front(L[j]) = d
          /\ L[i] # L[j] /\ Under(L[i], L[j])
      BY <1>2, <1>7, <2>1
    <3>2. Len(L[i]) = Len(d) + 1 /\ Len(L[j]) = Len(d) + 1
      BY <1>5, <3>1, UnderIsOrder
    <3> QED BY <3>1, <3>2, UnderIsOrder
  <2>2. ASSUME i \in 1..Len(L), pending'[i] = L[i], NEW k \in 2..Len(pending), pending'[j] = pending[k]
        PROVE  FALSE
    BY <1>1, <1>5, <1>6, <1>7, <2>2
  <2>3. ASSUME NEW k \in 2..Len(pending), pending'[i] = pending[k], j \in 1..Len(L), pending'[j] = L[j]
        PROVE  FALSE
    <3>1. L[j] \in Nodes /\ Front(L[j]) = d /\ pending[k] \in Nodes /\ Under(pending[k], L[j])
      BY <1>2, <1>5, <1>7, <2>3
    <3>2. Under(pending[k], d) \/ pending[k] = L[j]
      BY <1>5, <3>1, UnderIsOrder
    <3>3. Under(d, L[j])
      BY <1>5, <3>1, UnderIsOrder
    <3>4. Under(pending[k], pending[1]) \/ Under(pending[1], pending[k])
      BY <1>1, <3>2, <3>3
    <3> QED BY <1>1, <1>5, <3>4
  <2>4. ASSUME NEW k \in 2..Len(pending), i = Len(L) + k - 1, pending'[i] = pending[k],
               NEW m \in 2..Len(pending), j = Len(L) + m - 1, pending'[j] = pending[m]
        PROVE  FALSE
    BY <1>5, <1>7, <2>4
  <2> QED BY <1>1, <2>1, <2>2, <2>3, <2>4
<1>8. ASSUME NEW r \in results, NEW i \in 1..Len(pending'), Under(pending'[i], r.path)
      PROVE  FALSE
  <2>1. ASSUME i \in 1..Len(L), pending'[i] = L[i] PROVE FALSE
    BY <1>1, <1>5, <1>6, <1>8, <2>1
  <2>2. ASSUME NEW k \in 2..Len(pending), pending'[i] = pending[k] PROVE FALSE
    BY <1>5, <1>8, <2>2
  <2> QED BY <1>1, <2>1, <2>2
<1>9. WalkInv'
  BY <1>3, <1>7, <1>8 DEF Basic, WalkInv, Searching, Covered, ghosts
<1> QED BY <1>4, <1>9 DEF Basic

LEMMA ReadNotes ==
  ASSUME Basic, pc = "read"
  PROVE  /\ Head(pending) = pending[1] /\ pending[1] \in Paths /\ Len(pending) \in Nat \ {0}
         /\ 1 \in 1..Len(pending)
         /\ Tail(pending) \in Seq(Nodes) /\ Len(Tail(pending)) = Len(pending) - 1
         /\ \A i \in 1..Len(pending) - 1 : /\ Tail(pending)[i] = pending[i + 1]
                                           /\ i + 1 \in 1..Len(pending)
         /\ \A i \in 1..Len(Tail(pending)) : i + 1 \in 2..Len(pending)
         /\ \A i \in 1..Len(pending) : i # 1 => /\ i - 1 \in 1..Len(Tail(pending))
                                                /\ Tail(pending)[i - 1] = pending[i]
<1>1. pending \in Seq(Nodes) /\ pending # <<>> /\ Head(pending) \in Paths
  BY DEF Basic, TypeOK, WalkInv, Nodes
<1>2. /\ Head(pending) = pending[1] /\ Len(pending) \in Nat \ {0}
      /\ Tail(pending) \in Seq(Nodes) /\ Len(Tail(pending)) = Len(pending) - 1
      /\ \A i \in 1..Len(pending) - 1 : Tail(pending)[i] = pending[i + 1]
  BY <1>1, HeadTail
<1>3. ASSUME NEW i \in 1..Len(pending), i # 1
      PROVE  i - 1 \in 1..Len(pending) - 1 /\ Tail(pending)[i - 1] = pending[i]
  <2>1. i - 1 \in 1..Len(pending) - 1 /\ (i - 1) + 1 = i
    BY <1>2, <1>3
  <2> QED BY <1>2, <2>1
<1> QED BY <1>1, <1>2, <1>3

\* The note that is read and what reading it adds to the results.
LEMMA Readings ==
  ASSUME Basic, Read
  PROVE  LET path == Head(pending)
             file == vault[path] IN
         /\ path \in Paths /\ pc = "read" /\ info \in Files
         /\ \/ pc' = "failed" /\ UNCHANGED <<pending, results>>
            \/ pc' = "panicked" /\ UNCHANGED <<pending, results>>
            \/ /\ pc' = "walk" /\ pending' = Tail(pending)
               /\ file # Absent /\ file \in Files
               /\ \/ ~ Matches[query][path][file.note] /\ UNCHANGED results
                  \/ /\ Matches[query][path][file.note]
                     /\ Result(path, info, file) \in Results
                     /\ results' = results \cup {Result(path, info, file)}
         /\ torn' = (torn \/ info # file)
         /\ UNCHANGED <<vault, changes, query, cursor, page, got, first, touched, pulled, pushed>>
         /\ info' = NoInfo
<1> DEFINE path == Head(pending)
           file == vault[path]
<1>1. path \in Paths /\ pc = "read" /\ info \in Files
  BY DEF Basic, WalkInv, Read
<1>2. file \in Files \cup {Absent}
  BY <1>1 DEF Basic, TypeOK
<1>3. ASSUME file \in Files PROVE Result(path, info, file) \in Results
  <2>1. file.note \in Notes /\ file.version \in 0..MaxChanges
        /\ info.modified \in Times /\ info.version \in 0..MaxChanges
    BY <1>1, <1>3 DEF Files
  <2>2. Snippets[query][file.note] \in [panic: BOOLEAN, from: Nat, window: Seq(Runes)]
    <3>1. query \in Queries
      BY DEF Basic, TypeOK
    <3> DEFINE n == file.note
    <3>2. n \in Notes
      BY <2>1
    <3> HIDE DEF n
    <3>3. Snippets[query][n] = BuildSnippet(n, query.term)
      BY <3>1, <3>2 DEF Snippets
    <3> QED BY <3>1, <3>2, <3>3, SnippetType DEF n
  <2> HIDE DEF path, file
  <2> QED BY <1>1, <2>1, <2>2 DEF Result, Results
<1> HIDE DEF file
<1>4. \/ pc' = "failed" /\ UNCHANGED <<pending, results>>
      \/ pc' = "panicked" /\ UNCHANGED <<pending, results>>
      \/ /\ pc' = "walk" /\ pending' = Tail(pending)
         /\ file # Absent
         /\ \/ ~ Matches[query][path][file.note] /\ UNCHANGED results
            \/ /\ Matches[query][path][file.note]
               /\ results' = results \cup {Result(path, info, file)}
  BY DEF Read, file
<1>5. /\ torn' = (torn \/ info # file) /\ info' = NoInfo
      /\ UNCHANGED <<vault, changes, query, cursor, page, got, first, touched, pulled, pushed>>
  BY DEF Read, file
<1> QED BY <1>1, <1>2, <1>3, <1>4, <1>5 DEF file

LEMMA ReadBasic == ASSUME Basic, Read PROVE Basic'
<1> DEFINE path == Head(pending)
           file == vault[path]
           new == Result(path, info, file)
<1>1. /\ path \in Paths /\ pc = "read"
      /\ \/ pc' \in {"failed", "panicked"} /\ UNCHANGED <<pending, results>>
         \/ /\ pc' = "walk" /\ pending' = Tail(pending)
            /\ \/ UNCHANGED results
               \/ new \in Results /\ results' = results \cup {new}
      /\ torn' \in BOOLEAN /\ info' = NoInfo
      /\ UNCHANGED <<vault, changes, query, cursor, page, got, first, touched, pulled, pushed>>
  BY Readings DEF Basic, TypeOK
<1>2. new.path = path
  BY DEF Result
<1> HIDE DEF new
<1>3. /\ path = pending[1] /\ 1 \in 1..Len(pending)
      /\ Tail(pending) \in Seq(Nodes) /\ Len(Tail(pending)) = Len(pending) - 1
      /\ \A i \in 1..Len(Tail(pending)) : /\ Tail(pending)[i] = pending[i + 1]
                                          /\ i + 1 \in 1..Len(pending) /\ i + 1 # 1
  BY <1>1, ReadNotes
<1> HIDE DEF path, file
<1>4. TypeOK'
  BY <1>1, <1>3 DEF Basic, TypeOK, Nodes
<1>5. /\ \A i, j \in 1..Len(pending) : i # j => ~ Under(pending[i], pending[j])
      /\ \A r \in results, i \in 1..Len(pending) : ~ Under(pending[i], r.path)
      /\ \A r \in results : r.path # path
  <2>1. /\ \A i, j \in 1..Len(pending) : i # j => ~ Under(pending[i], pending[j])
        /\ \A r \in results, i \in 1..Len(pending) : ~ Under(pending[i], r.path)
    BY <1>1 DEF Basic, WalkInv, Searching, Covered
  <2>2. Under(path, path)
    BY <1>1, UnderIsOrder DEF Nodes
  <2> QED BY <1>3, <2>1, <2>2
<1>6. IsFiniteSet(results') /\ \A r, s \in results' : r.path = s.path => r = s
  <2>1. IsFiniteSet(results) /\ \A r, s \in results : r.path = s.path => r = s
    BY DEF Basic, WalkInv
  <2> QED BY <1>1, <1>2, <1>5, <2>1, FS_AddElement
<1>7. ASSUME pc' = "walk"
      PROVE  /\ \A i, j \in 1..Len(pending') : i # j => ~ Under(pending'[i], pending'[j])
             /\ \A r \in results', i \in 1..Len(pending') : ~ Under(pending'[i], r.path)
  <2>1. pending' = Tail(pending) /\ \A r \in results' : r \in results \/ r.path = path
    BY <1>1, <1>2, <1>7
  <2>2. \A i, j \in 1..Len(Tail(pending)) : i # j => i + 1 # j + 1
    OBVIOUS
  <2> QED BY <1>3, <1>5, <2>1, <2>2
<1>8. Searching' => pc' = "walk"
  BY <1>1 DEF Searching
<1>9. WalkInv'
  BY <1>1, <1>6, <1>7, <1>8 DEF Basic, WalkInv, Searching, Covered
<1> QED BY <1>4, <1>9 DEF Basic

LEMMA StatBasic == ASSUME Basic, Stat PROVE Basic'
<1>1. /\ pc = "walk" /\ pending # <<>> /\ Head(pending) \in Paths
      /\ \/ pc' = "failed" /\ UNCHANGED info
         \/ pc' = "read" /\ info' = vault[Head(pending)] /\ info' # Absent
      /\ UNCHANGED <<vault, changes, query, cursor, pending, results, page, got>>
      /\ UNCHANGED <<first, touched, pulled, pushed, torn>>
  BY DEF Stat, ghosts
<1>2. pc' = "read" => info' \in Files
  BY <1>1 DEF Basic, TypeOK
<1>3. TypeOK'
  BY <1>1, <1>2 DEF Basic, TypeOK
<1>4. WalkInv'
  BY <1>1, <1>2 DEF Basic, WalkInv, Searching, Covered
<1> QED BY <1>3, <1>4 DEF Basic

\* The page of an answer and what it shows.
LEMMA Answers ==
  ASSUME Basic, Answer
  PROVE  LET list == SortResults(results, query)
             offset == Offset(cursor)
             end == PageEnd(list, offset, NormalizedLimit(query)) IN
         /\ pc = "walk" /\ pc' = "answered" /\ pending = <<>>
         /\ UNCHANGED <<vault, changes, query, cursor, pending, info, results, ghosts>>
         /\ Cardinality(results) \in Nat /\ offset \in Nat
         /\ list \in Seq(Results) /\ Len(list) \in Nat /\ Len(list) = Cardinality(results)
         /\ \A i \in 1..Len(list) : list[i] \in results
         /\ \A i, j \in 1..Len(list) : list[i].path = list[j].path => i = j
         /\ \A r \in results : \E i \in 1..Len(list) : list[i] = r
         /\ \A i \in 1..Len(list) :
              Cardinality(Leading(results, NormalizedSort(query), list[i])) = i - 1
         /\ \/ /\ offset >= Len(list)
               /\ page'.next = NoCursor /\ page'.results = <<>> /\ got' = got
            \/ /\ offset < Len(list) /\ end \in Nat /\ offset < end /\ end <= Len(list)
               /\ page'.next = IF end < Len(list) THEN [kind |-> "number", offset |-> end]
                               ELSE NoCursor
               /\ page'.results \in Seq(Results) /\ got' \in Seq(Results)
               /\ Len(got') = Len(got) + (end - offset)
               /\ \A i \in 1..Len(got) : got'[i] = got[i]
               /\ \A i \in 1..end - offset : got'[Len(got) + i] = list[offset + i]
<1> DEFINE list == SortResults(results, query)
           offset == Offset(cursor)
           limit == NormalizedLimit(query)
           end == PageEnd(list, offset, limit)
           paged == Paginate(list, offset, limit)
<1>1. /\ pc = "walk" /\ pc' = "answered" /\ pending = <<>>
      /\ UNCHANGED <<vault, changes, query, cursor, pending, info, results, ghosts>>
      /\ page' = paged /\ got' = got \o paged.results
  BY DEF Answer
<1>2. offset \in Nat /\ limit \in Nat \ {0} /\ got \in Seq(Results)
  BY <1>1, LimitIs DEF Basic, TypeOK, WalkInv, Searching
<1>3. /\ IsFiniteSet(results) /\ \A r \in results : Ordered(r)
      /\ \A r, s \in results : r.path = s.path => r = s
  BY TimeAssumption DEF Basic, TypeOK, WalkInv, Results, Ordered
<1>4. /\ Cardinality(results) \in Nat
      /\ list \in Seq(results) /\ Len(list) \in Nat /\ Len(list) = Cardinality(results)
      /\ \A i, j \in 1..Len(list) : list[i].path = list[j].path => i = j
      /\ \A r \in results : \E i \in 1..Len(list) : list[i] = r
      /\ \A i \in 1..Len(list) :
           Cardinality(Leading(results, NormalizedSort(query), list[i])) = i - 1
  BY <1>3, SortIs
<1> HIDE DEF list
<1>5. list \in Seq(Results) /\ \A i \in 1..Len(list) : list[i] \in results
  BY <1>4, SeqMonotonic DEF Basic, TypeOK
<1> HIDE DEF offset, limit
<1>6. /\ offset >= Len(list) => paged = [results |-> <<>>, next |-> NoCursor]
      /\ offset < Len(list) =>
           /\ end \in Nat /\ offset < end /\ end <= Len(list)
           /\ paged.results \in Seq(Results) /\ Len(paged.results) = end - offset
           /\ \A i \in 1..end - offset : paged.results[i] = list[offset + i]
           /\ paged.next = IF end < Len(list) THEN [kind |-> "number", offset |-> end]
                           ELSE NoCursor
  BY <1>2, <1>5, PaginateIs
<1> HIDE DEF paged, end
<1>7. CASE offset >= Len(list)
  <2>1. got' = got
    BY <1>1, <1>2, <1>6, <1>7, ConcatEmptySeq
  <2> QED BY <1>1, <1>2, <1>4, <1>5, <1>6, <1>7, <2>1 DEF list, offset, limit
<1>8. CASE offset < Len(list)
  <2>1. /\ got' \in Seq(Results) /\ Len(got') = Len(got) + (end - offset)
        /\ \A i \in 1..Len(got) + (end - offset) :
             got'[i] = IF i <= Len(got) THEN got[i] ELSE paged.results[i - Len(got)]
    BY <1>1, <1>2, <1>6, <1>8, ConcatProperties
  <2>2. Len(got) \in Nat /\ end - offset \in Nat
    BY <1>2, <1>6, <1>8
  <2>3. \A i \in 1..Len(got) : got'[i] = got[i]
    BY <2>1, <2>2
  <2>4. ASSUME NEW i \in 1..end - offset PROVE got'[Len(got) + i] = list[offset + i]
    <3>1. /\ Len(got) + i \in 1..Len(got) + (end - offset)
          /\ ~ (Len(got) + i <= Len(got)) /\ (Len(got) + i) - Len(got) = i
      BY <2>2
    <3> QED BY <1>6, <1>8, <2>1, <3>1
  <2> QED BY <1>1, <1>2, <1>4, <1>5, <1>6, <1>8, <2>1, <2>3, <2>4 DEF list, offset, limit, end
<1> QED BY <1>2, <1>4, <1>7, <1>8

LEMMA AnswerBasic == ASSUME Basic, Answer PROVE Basic'
<1>1. /\ pc' = "answered" /\ pending = <<>>
      /\ UNCHANGED <<vault, changes, query, cursor, pending, info, results>>
      /\ UNCHANGED <<first, touched, pulled, pushed, torn>>
  BY Answers DEF ghosts
<1>2. /\ page'.results \in Seq(Results) /\ got' \in Seq(Results)
      /\ \/ page'.next = NoCursor
         \/ \E end \in Nat : page'.next = [kind |-> "number", offset |-> end]
  <2> DEFINE list == SortResults(results, query)
             offset == Offset(cursor)
             end == PageEnd(list, offset, NormalizedLimit(query))
  <2>1. \/ /\ page'.next = NoCursor /\ page'.results = <<>> /\ got' = got
        \/ /\ end \in Nat
           /\ page'.next = IF end < Len(list) THEN [kind |-> "number", offset |-> end]
                           ELSE NoCursor
           /\ page'.results \in Seq(Results) /\ got' \in Seq(Results)
    BY Answers
  <2> HIDE DEF list, offset, end
  <2>2. got \in Seq(Results)
    BY DEF Basic, TypeOK
  <2> QED BY <2>1, <2>2, EmptySeq
<1>3. page'.next \in PageTokens
  <2>1. NoCursor \in PageTokens
    BY DEF PageTokens, NoCursor
  <2>2. \A end \in Nat : [kind |-> "number", offset |-> end] \in PageTokens
    BY DEF PageTokens
  <2> QED BY <1>2, <2>1, <2>2
<1>4. TypeOK'
  BY <1>1, <1>2, <1>3 DEF Basic, TypeOK
<1>5. page'.next # NoCursor => page'.next.kind = "number" /\ page'.next.offset \in Nat
  <2>1. \A end \in Nat : /\ [kind |-> "number", offset |-> end].kind = "number"
                        /\ [kind |-> "number", offset |-> end].offset = end
    OBVIOUS
  <2> QED BY <1>2, <2>1, Zenon
<1>6. WalkInv'
  BY <1>1, <1>5 DEF Basic, WalkInv, Searching
<1> QED BY <1>4, <1>6 DEF Basic

\* A change of one note, and what it moves.
LEMMA Changes ==
  ASSUME Basic, NEW path \in Paths, NEW file \in Files \cup {Absent}, Change(path, file)
  PROVE  /\ vault' \in [Paths -> Files \cup {Absent}]
         /\ vault' = [vault EXCEPT ![path] = file] /\ vault'[path] = file
         /\ \A p \in Paths : p # path => vault'[p] = vault[p]
         /\ changes \in Nat /\ changes' = changes + 1 /\ changes' \in 0..MaxChanges
         /\ changes' # 0 /\ pc \in {"walk", "read", "answered"}
         /\ touched' = touched \cup {path}
         /\ UNCHANGED <<pc, query, cursor, pending, info, results, page, got, first, torn>>
<1>1. vault \in [Paths -> Files \cup {Absent}] /\ changes \in Nat
  BY ChangesAssumption DEF Basic, TypeOK
<1>2. /\ vault' = [vault EXCEPT ![path] = file] /\ changes < MaxChanges /\ changes' = changes + 1
      /\ pc \in {"walk", "read", "answered"} /\ touched' = touched \cup {path}
      /\ UNCHANGED <<pc, query, cursor, pending, info, results, page, got, first, torn>>
  BY DEF Change, Paging
<1> QED BY <1>1, <1>2, ChangesAssumption

LEMMA ChangeBasic ==
  ASSUME Basic, NEW path \in Paths, NEW file \in Files \cup {Absent}, Change(path, file)
  PROVE  Basic'
<1>1. /\ vault' \in [Paths -> Files \cup {Absent}] /\ changes' \in 0..MaxChanges
      /\ touched' \subseteq Paths /\ pc # "idle"
      /\ UNCHANGED <<pc, query, cursor, pending, info, results, page, got, first, torn>>
  BY Changes DEF Basic, TypeOK
<1>2. pulled' \in BOOLEAN /\ pushed' \in BOOLEAN
  BY DEF Change, Basic, TypeOK
<1>3. TypeOK'
  BY <1>1, <1>2 DEF Basic, TypeOK
<1>4. WalkInv'
  BY <1>1 DEF Basic, WalkInv, Searching, Covered
<1> QED BY <1>3, <1>4 DEF Basic

LEMMA StopBasic == ASSUME Basic, Stop PROVE Basic'
<1>1. /\ pc' \in {"stopped", "finished"}
      /\ UNCHANGED <<vault, changes, query, cursor, pending, info, results, page, got>>
      /\ UNCHANGED <<first, touched, pulled, pushed, torn>>
  BY DEF Stop, ghosts
<1>2. TypeOK'
  BY <1>1 DEF Basic, TypeOK
<1>3. WalkInv'
  BY <1>1 DEF Basic, WalkInv, Searching
<1> QED BY <1>2, <1>3 DEF Basic

LEMMA BeginBasic == ASSUME Basic, NEW c \in Cursors, Begin(c) PROVE Basic'
<1>1. c \in PageTokens
  BY CursorAssumption DEF PageTokens
<1>2. first' \in Nat
  BY <1>1 DEF Begin, InvalidCursor, Offset, PageTokens
<1> QED BY <1>1, <1>2, SearchBasic DEF Begin

LEMMA FollowBasic == ASSUME Basic, Follow PROVE Basic'
<1>1. page.next \in PageTokens /\ first \in Nat
  BY DEF Basic, TypeOK
<1>2. UNCHANGED <<vault, changes, query, info, page, got, first, touched, pulled, pushed, torn>>
      /\ Search(page.next)
  BY DEF Follow, ghosts
<1> QED BY <1>1, <1>2, SearchBasic

\* The steps of the client, the service and the sync worker.
LEMMA Steps ==
  ASSUME Basic, Next
  PROVE  \/ \E c \in Cursors : Begin(c)
         \/ Follow \/ Stop \/ OpenDirectory \/ Stat \/ Read \/ Answer
         \/ \E path \in Paths, file \in Files \cup {Absent} :
              Change(path, file) /\ (file = Absent \/ file.version = changes + 1)
<1>1. CASE Client \/ Service
  BY <1>1 DEF Client, Service
<1>2. CASE Sync
  <2>1. PICK path \in Paths :
          \/ Change(path, Absent)
          \/ \E note \in Notes, time \in Times :
               Change(path, [note |-> note, modified |-> time, version |-> changes + 1])
    BY <1>2 DEF Sync
  <2>2. CASE Change(path, Absent)
    BY <2>2
  <2>3. ASSUME NEW note \in Notes, NEW time \in Times,
               Change(path, [note |-> note, modified |-> time, version |-> changes + 1])
        PROVE  \E file \in Files : Change(path, file) /\ file.version = changes + 1
    <3>1. changes + 1 \in 0..MaxChanges
      BY <2>3, ChangesAssumption DEF Change, Basic, TypeOK
    <3>2. [note |-> note, modified |-> time, version |-> changes + 1] \in Files
      BY <3>1 DEF Files
    <3> QED BY <2>3, <3>2
  <2> QED BY <2>1, <2>2, <2>3
<1> QED BY <1>1, <1>2 DEF Next

LEMMA BasicStep == ASSUME Basic, Next PROVE Basic'
BY Steps, BeginBasic, FollowBasic, StopBasic, OpenBasic, StatBasic, ReadBasic, AnswerBasic,
   ChangeBasic

LEMMA BasicStutter == ASSUME Basic, UNCHANGED vars PROVE Basic'
<1>1. TypeOK'
  BY DEF Basic, TypeOK, vars
<1>2. WalkInv'
  BY DEF Basic, WalkInv, Searching, Covered, vars
<1> QED BY <1>1, <1>2 DEF Basic

\* What an answer adds to what the client has: the results behind the offset.
LEMMA Shows ==
  ASSUME Basic, Answer
  PROVE  LET list == SortResults(results, query)
             offset == Offset(cursor)
             end == PageEnd(list, offset, NormalizedLimit(query)) IN
         /\ Len(got) \in Nat /\ Len(got') \in Nat
         /\ \A i \in 1..Len(got') :
              \/ i \in 1..Len(got) /\ got'[i] = got[i]
              \/ offset < Len(list) /\ \E k \in offset + 1..end :
                   k \in 1..Len(list) /\ i = Len(got) + (k - offset) /\ got'[i] = list[k]
         /\ \A i \in 1..Len(got) : i \in 1..Len(got') /\ got'[i] = got[i]
         /\ offset < Len(list) => \A k \in offset + 1..end :
              /\ Len(got) + (k - offset) \in 1..Len(got')
              /\ got'[Len(got) + (k - offset)] = list[k]
<1> DEFINE list == SortResults(results, query)
           offset == Offset(cursor)
           end == PageEnd(list, offset, NormalizedLimit(query))
<1>1. Len(got) \in Nat
  BY DEF Basic, TypeOK
<1>2. /\ offset \in Nat /\ Len(list) \in Nat
      /\ \/ offset >= Len(list) /\ got' = got
         \/ /\ offset < Len(list) /\ end \in Nat /\ offset < end /\ end <= Len(list)
            /\ got' \in Seq(Results) /\ Len(got') = Len(got) + (end - offset)
            /\ \A i \in 1..Len(got) : got'[i] = got[i]
            /\ \A i \in 1..end - offset : got'[Len(got) + i] = list[offset + i]
  BY Answers
<1> HIDE DEF list, offset, end
<1>3. CASE offset >= Len(list) /\ got' = got
  BY <1>1, <1>2, <1>3 DEF list, offset, end
<1>4. CASE /\ offset < Len(list) /\ end \in Nat /\ offset < end /\ end <= Len(list)
           /\ got' \in Seq(Results) /\ Len(got') = Len(got) + (end - offset)
           /\ \A i \in 1..Len(got) : got'[i] = got[i]
           /\ \A i \in 1..end - offset : got'[Len(got) + i] = list[offset + i]
  <2>1. ASSUME NEW i \in 1..Len(got')
        PROVE  \/ i \in 1..Len(got) /\ got'[i] = got[i]
               \/ \E k \in offset + 1..end :
                    k \in 1..Len(list) /\ i = Len(got) + (k - offset) /\ got'[i] = list[k]
    <3>1. CASE i <= Len(got)
      BY <1>1, <1>4, <3>1
    <3>2. CASE ~ (i <= Len(got))
      <4> DEFINE m == i - Len(got)
      <4>1. /\ m \in 1..end - offset /\ i = Len(got) + m /\ offset + m \in offset + 1..end
            /\ offset + m \in 1..Len(list) /\ (offset + m) - offset = m
        BY <1>1, <1>2, <1>4, <3>2
      <4>2. got'[i] = list[offset + m]
        BY <1>4, <4>1
      <4> QED BY <4>1, <4>2
    <3> QED BY <3>1, <3>2
  <2>2. ASSUME NEW k \in offset + 1..end
        PROVE  /\ Len(got) + (k - offset) \in 1..Len(got')
               /\ got'[Len(got) + (k - offset)] = list[k]
    <3>1. /\ k - offset \in 1..end - offset /\ offset + (k - offset) = k
          /\ Len(got) + (k - offset) \in 1..Len(got')
      BY <1>1, <1>2, <1>4
    <3> QED BY <1>4, <3>1
  <2>3. Len(got') \in Nat /\ \A i \in 1..Len(got) : i \in 1..Len(got')
    BY <1>1, <1>2, <1>4
  <2> QED BY <1>1, <1>4, <2>1, <2>2, <2>3 DEF list, offset, end
<1> QED BY <1>2, <1>3, <1>4

----------------------------------------------------------------------------
(* Versions.                                                               *)

LEMMA VersionInit == ASSUME Init PROVE VersionInv
<1>1. \A p \in Paths : vault[p] # Absent => vault[p].version = 0
  BY VaultAssumption DEF Init
<1>2. changes = 0 /\ results = {} /\ got = <<>> /\ pc = "idle"
  BY DEF Init
<1> QED BY <1>1, <1>2 DEF VersionInv, TimeIsNotAheadOfContent

LEMMA VersionStep == ASSUME Basic, VersionInv, Next PROVE VersionInv'
<1>1. /\ \A p \in Paths : vault[p] # Absent => vault[p].version <= changes
      /\ \A r \in results : r.stated <= r.read
      /\ \A i \in 1..Len(got) : got[i].stated <= got[i].read
      /\ got \in Seq(Results)
  BY DEF VersionInv, TimeIsNotAheadOfContent, Basic, TypeOK
<1>2. ASSUME NEW c, Search(c), UNCHANGED <<vault, changes, got>> PROVE VersionInv'
  <2>1. pc' # "read" /\ results' \subseteq results
    BY <1>2 DEF Search
  <2> QED BY <1>1, <1>2, <2>1 DEF VersionInv, TimeIsNotAheadOfContent
<1>3. CASE Stop \/ OpenDirectory
  <2>1. pc' # "read" /\ UNCHANGED <<vault, changes, results, got>>
    BY <1>3 DEF Stop, OpenDirectory
  <2> QED BY <1>1, <2>1 DEF VersionInv, TimeIsNotAheadOfContent
<1>4. CASE Stat
  <2>1. /\ UNCHANGED <<vault, changes, results, got, pending>> /\ Head(pending) \in Paths
        /\ pc' = "read" => info' = vault[Head(pending)]
    BY <1>4 DEF Stat
  <2>2. pc' = "read" => vault[Head(pending)] # Absent
    BY <1>4 DEF Stat
  <2>3. pc' = "read" => /\ info'.version <= changes
                        /\ info'.version <= vault[Head(pending)].version
    <3> SUFFICES ASSUME pc' = "read"
                 PROVE  info'.version <= changes /\ info'.version <= vault[Head(pending)].version
      OBVIOUS
    <3>1. vault[Head(pending)] \in Files
      BY <2>1, <2>2 DEF Basic, TypeOK
    <3> QED BY <1>1, <2>1, <2>2, <3>1 DEF Files
  <2> QED BY <1>1, <2>1, <2>3 DEF VersionInv, TimeIsNotAheadOfContent
<1>5. CASE Read
  <2> DEFINE file == vault[Head(pending)]
             new == Result(Head(pending), info, file)
  <2>1. /\ pc = "read" /\ pc' # "read" /\ UNCHANGED <<vault, changes, got>>
        /\ UNCHANGED results \/ (file # Absent /\ results' = results \cup {new})
    BY <1>5, Readings
  <2>2. file # Absent => new.stated <= new.read
    BY <2>1 DEF VersionInv, Result
  <2> HIDE DEF file, new
  <2> QED BY <1>1, <2>1, <2>2 DEF VersionInv, TimeIsNotAheadOfContent
<1>6. CASE Answer
  <2>1. pc' # "read" /\ UNCHANGED <<vault, changes, results>>
    BY <1>6 DEF Answer
  <2>2. \A i \in 1..Len(got') : \/ i \in 1..Len(got) /\ got'[i] = got[i]
                                \/ \E r \in results : got'[i] = r
    BY <1>6, Shows, Answers
  <2>3. got' \in Seq(Results)
    BY <1>6, AnswerBasic DEF Basic, TypeOK
  <2> QED BY <1>1, <2>1, <2>2, <2>3 DEF VersionInv, TimeIsNotAheadOfContent
<1>7. ASSUME NEW path \in Paths, NEW file \in Files \cup {Absent}, Change(path, file),
             file = Absent \/ file.version = changes + 1
      PROVE  VersionInv'
  <2>1. /\ vault'[path] = file /\ \A p \in Paths : p # path => vault'[p] = vault[p]
        /\ changes \in Nat /\ changes' = changes + 1
        /\ UNCHANGED <<pc, pending, info, results, got>>
    BY <1>7, Changes
  <2>2. \A p \in Paths : vault'[p] # Absent => vault'[p].version <= changes'
    <3> SUFFICES ASSUME NEW p \in Paths, vault'[p] # Absent PROVE vault'[p].version <= changes'
      OBVIOUS
    <3>1. CASE p = path
      BY <1>7, <2>1, <3>1
    <3>2. CASE p # path
      <4>1. vault[p] \in Files
        BY <2>1, <3>2 DEF Basic, TypeOK
      <4>2. vault[p].version \in Nat
        BY <4>1, ChangesAssumption DEF Files
      <4> QED BY <1>1, <2>1, <3>2, <4>2
    <3> QED BY <3>1, <3>2
  <2>3. ASSUME pc = "read"
        PROVE  /\ info.version <= changes'
               /\ vault'[Head(pending)] # Absent => info.version <= vault'[Head(pending)].version
    <3>1. info \in Files /\ Head(pending) \in Paths
      BY <2>3 DEF Basic, WalkInv
    <3>2. info.version \in Nat /\ info.version <= changes
      BY <2>3, <3>1, ChangesAssumption DEF Files, VersionInv
    <3>3. CASE Head(pending) = path
      BY <1>7, <2>1, <3>2, <3>3
    <3>4. CASE Head(pending) # path
      BY <2>1, <2>3, <3>1, <3>2, <3>4 DEF VersionInv
    <3> QED BY <3>3, <3>4
  <2> QED BY <1>1, <2>1, <2>2, <2>3 DEF VersionInv, TimeIsNotAheadOfContent
<1>8. CASE \E c \in Cursors : Begin(c)
  BY <1>2, <1>8 DEF Begin
<1>9. CASE Follow
  BY <1>2, <1>9 DEF Follow
<1> QED BY Steps, <1>3, <1>4, <1>5, <1>6, <1>7, <1>8, <1>9

----------------------------------------------------------------------------
(* What the walk has found, and what is ahead of a note.                   *)

LEMMA MatchingIs ==
  /\ Untouched \subseteq Paths /\ Matching(vault, query) \subseteq Paths
  /\ \A p \in Untouched : p \notin touched /\ vault[p] # Absent /\ p \in Matching(vault, query)
  /\ \A p : /\ IsFiniteSet(Ahead(p)) /\ Ahead(p) \subseteq Matching(vault, query)
            /\ \A a \in Ahead(p) : a \in Paths /\ vault[a] # Absent
  /\ IsFiniteSet(Paths) /\ IsFiniteSet(Matching(vault, query))
<1>1. /\ Untouched \subseteq Paths /\ Matching(vault, query) \subseteq Paths
      /\ \A p \in Untouched : p \notin touched /\ vault[p] # Absent /\ p \in Matching(vault, query)
      /\ \A p : /\ Ahead(p) \subseteq Matching(vault, query)
                /\ \A a \in Ahead(p) : a \in Paths /\ vault[a] # Absent
  BY DEF Untouched, Matching, Ahead, AheadOf
<1>2. IsFiniteSet(Paths)
  BY NodesFinite, FS_Subset DEF Nodes
<1>3. IsFiniteSet(Matching(vault, query))
  BY <1>1, <1>2, FS_Subset
<1>4. ASSUME NEW p PROVE IsFiniteSet(Ahead(p))
  BY <1>1, <1>3, FS_Subset
<1> QED BY <1>1, <1>2, <1>3, <1>4

\* What a result and a note of the vault have in common decides their order.
LEMMA LeadsIs ==
  ASSUME NEW p, NEW a \in Matching(vault, query), NEW r, r.path = a, r.modified = vault[a].modified
  PROVE  Leads(r, p) <=> a \in Ahead(p)
BY DEF Leads, Ahead, AheadOf, Before

\* A search that begins will come to every note that is there.
LEMMA BeginCovers ==
  ASSUME NEW c, Search(c), UNCHANGED vault
  PROVE  pc' # "refused" =>
           /\ pc' = "walk" /\ results' = {}
           /\ \A p \in Paths : vault[p] # Absent => Covered(p)'
<1> SUFFICES ASSUME pc' # "refused", NEW p \in Paths, vault[p] # Absent
             PROVE  pc' = "walk" /\ results' = {} /\ Covered(p)'
  <2>1. pc' # "refused" => pc' = "walk" /\ results' = {}
    BY DEF Search
  <2> QED BY <2>1
<1>1. pc' = "walk" /\ results' = {} /\ pending' = Listing(<<>>)
  BY DEF Search
<1>2. \E i \in 1..Len(Listing(<<>>)) : Under(Listing(<<>>)[i], p)
  BY RootCovers
<1> QED BY <1>1, <1>2 DEF Covered

\* A directory that is opened leaves every note below it to its entries.
LEMMA OpenCovers ==
  ASSUME Basic, OpenDirectory, NEW p \in Paths, vault[p] # Absent, Covered(p)
  PROVE  Covered(p)'
<1> DEFINE d == Head(pending)
           L == Listing(d)
<1>1. /\ d \in Directories /\ d = pending[1]
      /\ \A i \in 1..Len(L) : i \in 1..Len(pending') /\ pending'[i] = L[i]
      /\ \A k \in 2..Len(pending) : /\ Len(L) + k - 1 \in 1..Len(pending')
                                    /\ pending'[Len(L) + k - 1] = pending[k]
      /\ Len(pending) \in Nat
  BY Opened DEF Basic
<1>2. PICK i \in 1..Len(pending) : Under(pending[i], p)
  BY DEF Covered
<1>3. CASE i = 1
  <2>1. \E k \in 1..Len(L) : Under(L[k], p)
    BY <1>1, <1>2, <1>3, EntriesCover
  <2> HIDE DEF L
  <2> QED BY <1>1, <2>1 DEF Covered
<1>4. CASE i # 1
  <2>1. i \in 2..Len(pending)
    BY <1>1, <1>4
  <2> HIDE DEF L
  <2> QED BY <1>1, <1>2, <2>1 DEF Covered
<1> QED BY <1>3, <1>4

\* A note that was still to come is still to come, or has just been read.
LEMMA ReadCovers ==
  ASSUME Basic, Read, pc' = "walk", NEW p \in Paths, Covered(p), p # Head(pending)
  PROVE  Covered(p)'
<1>1. PICK i \in 1..Len(pending) : Under(pending[i], p)
  BY DEF Covered
<1>2. pc = "read" /\ pending' = Tail(pending)
  BY Readings
<1>3. /\ Head(pending) = pending[1] /\ pending[1] \in Paths
      /\ \A k \in 1..Len(pending) : k # 1 => /\ k - 1 \in 1..Len(Tail(pending))
                                             /\ Tail(pending)[k - 1] = pending[k]
  BY <1>2, ReadNotes
<1>4. i # 1
  <2> SUFFICES ASSUME i = 1 PROVE FALSE
    OBVIOUS
  <2>1. pending[1] \in Nodes /\ p \in Nodes /\ Under(pending[1], p)
    BY <1>1, <1>3 DEF Nodes
  <2>2. p = pending[1]
    <3>1. Len(p) \in Nat /\ Len(pending[1]) \in Nat
      BY <2>1, Tree
    <3> QED BY <2>1, <1>3, UnderIsOrder
  <2> QED BY <1>3, <2>2
<1> QED BY <1>1, <1>2, <1>3, <1>4 DEF Covered

\* A result that was read from one version of a file is as the vault has it.
LEMMA ReadAdds ==
  ASSUME Basic, Read, pc' = "walk", ~ torn'
  PROVE  LET path == Head(pending) IN
         /\ ~ torn /\ path \in Paths /\ vault[path] # Absent
         /\ UNCHANGED <<vault, changes, query, cursor, page, got, first, touched, pulled, pushed>>
         /\ results \subseteq results'
         /\ \A r \in results' : r \in results \/
              /\ r.path = path /\ path \in Matching(vault, query)
              /\ r.modified = vault[path].modified
         /\ path \in Matching(vault, query) =>
              \E r \in results' : r.path = path /\ r.modified = vault[path].modified
<1> DEFINE path == Head(pending)
           file == vault[path]
           new == Result(path, info, file)
<1>1. /\ path \in Paths /\ file # Absent
      /\ \/ ~ Matches[query][path][file.note] /\ UNCHANGED results
         \/ Matches[query][path][file.note] /\ results' = results \cup {new}
      /\ torn' = (torn \/ info # file)
      /\ UNCHANGED <<vault, changes, query, cursor, page, got, first, touched, pulled, pushed>>
  BY Readings
<1>2. info = file /\ ~ torn
  BY <1>1
<1>3. new.path = path /\ new.modified = file.modified
  BY <1>2 DEF Result
<1>4. path \in Matching(vault, query) <=> Matches[query][path][file.note]
  BY <1>1 DEF Matching
<1> HIDE DEF new
<1> QED BY <1>1, <1>2, <1>3, <1>4

\* While the walk goes on, a note is still to come, or it has been found.
LEMMA WalkKeeps ==
  ASSUME Basic, OpenDirectory \/ Stat \/ Read, ~ torn', Searching'
  PROVE  /\ Searching /\ ~ torn
         /\ UNCHANGED <<vault, changes, query, cursor, page, got, first, touched, pulled, pushed>>
         /\ results \subseteq results'
         /\ \A r \in results' : r \in results \/
              (r.path \in Matching(vault, query) /\ r.modified = vault[r.path].modified)
         /\ \A a \in Matching(vault, query) : Covered(a) => Covered(a)' \/
              \E r \in results' : r.path = a /\ r.modified = vault[a].modified
<1>1. \A a \in Matching(vault, query) : a \in Paths /\ vault[a] # Absent
  BY DEF Matching
<1>2. CASE OpenDirectory
  <2>1. pc = "walk" /\ UNCHANGED <<vault, changes, query, cursor, page, got, results>>
        /\ UNCHANGED <<first, touched, pulled, pushed, torn>>
    BY <1>2 DEF OpenDirectory, ghosts
  <2> QED BY <1>1, <1>2, <2>1, OpenCovers DEF Searching
<1>3. CASE Stat
  <2>1. pc = "walk" /\ UNCHANGED <<vault, changes, query, cursor, page, got, results, pending>>
        /\ UNCHANGED <<first, touched, pulled, pushed, torn>>
    BY <1>3 DEF Stat, ghosts
  <2>2. \A a : Covered(a) => Covered(a)'
    BY <2>1 DEF Covered
  <2> QED BY <2>1, <2>2 DEF Searching
<1>4. CASE Read
  <2>1. pc' = "walk" /\ pc = "read"
    BY <1>4, Readings DEF Searching
  <2>2. ASSUME NEW a \in Matching(vault, query), Covered(a)
        PROVE  Covered(a)' \/ \E r \in results' : r.path = a /\ r.modified = vault[a].modified
    <3>1. CASE a = Head(pending)
      BY <1>4, <2>1, <2>2, <3>1, ReadAdds
    <3>2. CASE a # Head(pending)
      BY <1>1, <1>4, <2>1, <2>2, <3>2, ReadCovers
    <3> QED BY <3>1, <3>2
  <2>3. /\ ~ torn /\ results \subseteq results'
        /\ UNCHANGED <<vault, changes, query, cursor, page, got, first, touched, pulled, pushed>>
        /\ \A r \in results' : r \in results \/
             (r.path \in Matching(vault, query) /\ r.modified = vault[r.path].modified)
    BY <1>4, <2>1, ReadAdds
  <2> QED BY <2>1, <2>2, <2>3 DEF Searching
<1> QED BY <1>2, <1>3, <1>4

\* What a change leaves of the notes nobody has touched, and of their order.
LEMMA ChangeKeeps ==
  ASSUME Basic, NEW path \in Paths, NEW file \in Files \cup {Absent}, Change(path, file)
  PROVE  /\ UNCHANGED <<pc, query, cursor, pending, info, results, page, got, first, torn>>
         /\ Untouched' = Untouched \ {path} /\ touched' = touched \cup {path}
         /\ \A p \in Paths \ {path} : /\ vault'[p] = vault[p]
                                      /\ \A r : Leads(r, p)' <=> Leads(r, p)
         /\ ~ pulled' => ~ pulled /\ \A p \in Untouched' : Ahead(p) \subseteq Ahead(p)'
         /\ ~ pushed' => ~ pushed /\ \A p \in Untouched' : Ahead(p)' \subseteq Ahead(p)
<1>1. /\ \A p \in Paths : p # path => vault'[p] = vault[p]
      /\ touched' = touched \cup {path}
      /\ UNCHANGED <<pc, query, cursor, pending, info, results, page, got, first, torn>>
  BY Changes
<1>2. Untouched' = Untouched \ {path}
  BY <1>1 DEF Untouched, Matching
<1>3. ASSUME NEW p \in Paths \ {path}, NEW r PROVE Leads(r, p)' <=> Leads(r, p)
  <2>1. vault'[p] = vault[p] /\ query' = query
    BY <1>1
  <2> QED BY <2>1 DEF Leads
<1>4. \A p \in Untouched' : p \in Matching(vault, query) \ touched'
  BY <1>1, <1>2 DEF Untouched
<1>5. /\ ~ pulled' => ~ pulled /\ \A p \in Matching(vault, query) \ touched' :
                                    AheadOf(vault, query, p) \ AheadOf(vault', query, p) = {}
      /\ ~ pushed' => ~ pushed /\ \A p \in Matching(vault, query) \ touched' :
                                    AheadOf(vault', query, p) \ AheadOf(vault, query, p) = {}
  BY DEF Change
<1>6. \A p : Ahead(p) = AheadOf(vault, query, p) /\ Ahead(p)' = AheadOf(vault', query, p)
  BY <1>1 DEF Ahead
<1> QED BY <1>1, <1>2, <1>3, <1>4, <1>5, <1>6

LEMMA SeenStep ==
  ASSUME Basic, SeenInv, Next
  PROVE  SeenInv'
<1> SUFFICES ASSUME Searching', ~ torn'
             PROVE  /\ \A p \in Untouched' : Covered(p)' \/ Listed(p)'
                    /\ \A r \in results' : r.path \notin touched' =>
                         r.path \in Untouched' /\ r.modified = vault'[r.path].modified
  BY DEF SeenInv
<1>1. ASSUME NEW c, Search(c), UNCHANGED vault, UNCHANGED query
      PROVE  SeenInv'
  <2>1. results' = {} /\ \A p \in Paths : vault[p] # Absent => Covered(p)'
    BY <1>1, BeginCovers DEF Searching
  <2>2. \A p \in Untouched' : p \in Paths /\ vault[p] # Absent
    BY <1>1 DEF Untouched, Matching
  <2> QED BY <2>1, <2>2 DEF SeenInv
<1>2. CASE OpenDirectory \/ Stat \/ Read
  <2>1. /\ Searching /\ ~ torn /\ UNCHANGED <<vault, query, touched>>
        /\ results \subseteq results'
        /\ \A r \in results' : r \in results \/
             (r.path \in Matching(vault, query) /\ r.modified = vault[r.path].modified)
        /\ \A a \in Matching(vault, query) : Covered(a) => Covered(a)' \/
             \E r \in results' : r.path = a /\ r.modified = vault[a].modified
    BY <1>2, WalkKeeps
  <2>2. Untouched' = Untouched /\ Untouched = Matching(vault, query) \ touched
    BY <2>1 DEF Untouched
  <2>3. /\ \A p \in Untouched : Covered(p) \/ Listed(p)
        /\ \A r \in results : r.path \notin touched =>
             r.path \in Untouched /\ r.modified = vault[r.path].modified
    BY <2>1 DEF SeenInv
  <2> QED BY <2>1, <2>2, <2>3 DEF Listed
<1>3. CASE Answer \/ Stop
  BY <1>3 DEF Answer, Stop, Searching
<1>4. ASSUME NEW path \in Paths, NEW file \in Files \cup {Absent}, Change(path, file)
      PROVE  SeenInv'
  <2>1. /\ UNCHANGED <<pc, pending, results, torn>>
        /\ Untouched' = Untouched \ {path} /\ touched' = touched \cup {path}
        /\ \A p \in Paths \ {path} : vault'[p] = vault[p]
    BY <1>4, ChangeKeeps
  <2>2. /\ Searching /\ ~ torn /\ \A p : (Covered(p)' <=> Covered(p)) /\ (Listed(p)' <=> Listed(p))
    BY <2>1 DEF Searching, Covered, Listed
  <2>3. Untouched \subseteq Paths
    BY MatchingIs
  <2> QED BY <2>1, <2>2, <2>3 DEF SeenInv
<1>5. CASE \E c \in Cursors : Begin(c)
  BY <1>1, <1>5 DEF Begin, SeenInv
<1>6. CASE Follow
  BY <1>1, <1>6 DEF Follow, SeenInv
<1>7. CASE \E path \in Paths, file \in Files \cup {Absent} : Change(path, file)
  BY <1>4, <1>7 DEF SeenInv
<1> QED BY Steps, <1>2, <1>3, <1>5, <1>6, <1>7

LEMMA AheadStep ==
  ASSUME Basic, AheadInv, Next
  PROVE  AheadInv'
<1> SUFFICES ASSUME Searching', ~ torn', NEW p \in Untouched'
             PROVE  /\ ~ pulled' => \A r \in results' : Leads(r, p)' => r.path \in Ahead(p)'
                    /\ ~ pushed' => \A a \in Ahead(p)' : Covered(a)' \/ FoundAhead(a, p)'
  BY DEF AheadInv
<1> DEFINE Goal == /\ ~ pulled' => \A r \in results' : Leads(r, p)' => r.path \in Ahead(p)'
                   /\ ~ pushed' => \A a \in Ahead(p)' : Covered(a)' \/ FoundAhead(a, p)'
<1>1. ASSUME NEW c, Search(c), UNCHANGED vault, UNCHANGED query
      PROVE  Goal
  <2>1. results' = {} /\ \A a \in Paths : vault[a] # Absent => Covered(a)'
    BY <1>1, BeginCovers DEF Searching
  <2>2. Ahead(p)' = Ahead(p)
    BY <1>1 DEF Ahead
  <2>3. \A a \in Ahead(p) : a \in Paths /\ vault[a] # Absent
    BY MatchingIs
  <2> QED BY <2>1, <2>2, <2>3
<1>2. CASE OpenDirectory \/ Stat \/ Read
  <2>1. /\ Searching /\ ~ torn /\ UNCHANGED <<vault, query, touched, pulled, pushed>>
        /\ results \subseteq results'
        /\ \A r \in results' : r \in results \/
             (r.path \in Matching(vault, query) /\ r.modified = vault[r.path].modified)
        /\ \A a \in Matching(vault, query) : Covered(a) => Covered(a)' \/
             \E r \in results' : r.path = a /\ r.modified = vault[a].modified
    BY <1>2, WalkKeeps
  <2>2. /\ Untouched' = Untouched /\ Ahead(p)' = Ahead(p)
        /\ \A r : Leads(r, p)' <=> Leads(r, p)
    BY <2>1 DEF Untouched, Ahead, Leads
  <2>3. /\ ~ pulled => \A r \in results : Leads(r, p) => r.path \in Ahead(p)
        /\ ~ pushed => \A a \in Ahead(p) : Covered(a) \/ FoundAhead(a, p)
    BY <2>1, <2>2 DEF AheadInv
  <2>4. Ahead(p) \subseteq Matching(vault, query)
    BY MatchingIs
  <2>5. \A a \in Matching(vault, query), r \in results' :
          r.path = a /\ r.modified = vault[a].modified => (Leads(r, p) <=> a \in Ahead(p))
    BY LeadsIs
  <2>6. \A a : FoundAhead(a, p) => FoundAhead(a, p)'
    BY <2>1, <2>2 DEF FoundAhead
  <2>7. ASSUME ~ pushed', NEW a \in Ahead(p)' PROVE Covered(a)' \/ FoundAhead(a, p)'
    <3>1. CASE FoundAhead(a, p)
      BY <2>6, <3>1
    <3>2. CASE Covered(a)
      <4>1. a \in Matching(vault, query) /\ a \in Ahead(p)
        BY <2>2, <2>4, <2>7
      <4>2. Covered(a)' \/ \E r \in results' : r.path = a /\ r.modified = vault[a].modified
        BY <2>1, <3>2, <4>1
      <4> QED BY <2>2, <2>5, <4>1, <4>2 DEF FoundAhead
    <3> QED BY <2>1, <2>2, <2>3, <2>7, <3>1, <3>2
  <2>8. ASSUME ~ pulled', NEW r \in results', Leads(r, p)' PROVE r.path \in Ahead(p)'
    BY <2>1, <2>2, <2>3, <2>5, <2>8
  <2> QED BY <2>7, <2>8
<1>3. CASE Answer \/ Stop
  BY <1>3 DEF Answer, Stop, Searching
<1>4. ASSUME NEW path \in Paths, NEW file \in Files \cup {Absent}, Change(path, file)
      PROVE  Goal
  <2>1. /\ UNCHANGED <<pc, pending, results, torn>>
        /\ Untouched' = Untouched \ {path}
        /\ \A q \in Paths \ {path} : \A r : Leads(r, q)' <=> Leads(r, q)
        /\ ~ pulled' => ~ pulled /\ Ahead(p) \subseteq Ahead(p)'
        /\ ~ pushed' => ~ pushed /\ Ahead(p)' \subseteq Ahead(p)
    BY <1>4, ChangeKeeps
  <2>2. p \in Untouched /\ p \in Paths \ {path}
    BY <2>1, MatchingIs
  <2>3. /\ \A r : Leads(r, p)' <=> Leads(r, p)
        /\ Searching /\ ~ torn /\ \A q : Covered(q)' <=> Covered(q)
    BY <2>1, <2>2 DEF Searching, Covered
  <2>4. \A a : FoundAhead(a, p)' <=> FoundAhead(a, p)
    BY <2>1, <2>3 DEF FoundAhead
  <2>5. /\ ~ pulled => \A r \in results : Leads(r, p) => r.path \in Ahead(p)
        /\ ~ pushed => \A a \in Ahead(p) : Covered(a) \/ FoundAhead(a, p)
    BY <2>2, <2>3 DEF AheadInv
  <2> QED BY <2>1, <2>3, <2>4, <2>5
<1>5. CASE \E c \in Cursors : Begin(c)
  BY <1>1, <1>5 DEF Begin
<1>6. CASE Follow
  BY <1>1, <1>6 DEF Follow
<1>7. CASE \E path \in Paths, file \in Files \cup {Absent} : Change(path, file)
  BY <1>4, <1>7
<1> QED BY Steps, <1>2, <1>3, <1>5, <1>6, <1>7

----------------------------------------------------------------------------
(* What an answer shows, and what it leaves for the next page.             *)

LEMMA Smaller ==
  ASSUME NEW S, NEW T, IsFiniteSet(T), S \subseteq T
  PROVE  IsFiniteSet(S) /\ Cardinality(S) \in Nat /\ Cardinality(T) \in Nat
         /\ Cardinality(S) <= Cardinality(T)
BY FS_Subset, FS_CardinalityType

\* The notes the walk has found ahead of one.
Found(p) == {x.path : x \in {y \in results : Leads(y, p)}}

\* A note nobody touched stands behind as many results as were found ahead of it.
LEMMA AnswerPlaces ==
  ASSUME Basic, SeenInv, AheadInv, Answer, ~ torn
  PROVE  LET list == SortResults(results, query) IN
         /\ \A p \in Untouched : \E k \in 1..Len(list) : list[k].path = p
         /\ \A k \in 1..Len(list) : list[k].path \notin touched =>
              list[k].path \in Untouched /\ Cardinality(Found(list[k].path)) = k - 1
         /\ \A p \in Untouched : /\ IsFiniteSet(Found(p)) /\ Found(p) \subseteq Paths
                                 /\ \A a : FoundAhead(a, p) <=> a \in Found(p)
                                 /\ ~ pulled => Found(p) \subseteq Ahead(p)
                                 /\ ~ pushed => Ahead(p) \subseteq Found(p)
         /\ \A a : ~ Covered(a)
<1> DEFINE list == SortResults(results, query)
<1>1. /\ pc = "walk" /\ pending = <<>>
      /\ \A i \in 1..Len(list) : list[i] \in results
      /\ \A r \in results : \E i \in 1..Len(list) : list[i] = r
      /\ \A i \in 1..Len(list) :
           Cardinality(Leading(results, NormalizedSort(query), list[i])) = i - 1
  BY Answers
<1> HIDE DEF list
<1>2. \A a : ~ Covered(a)
  BY <1>1 DEF Covered
<1>3. /\ \A p \in Untouched : Listed(p)
      /\ \A r \in results : r.path \notin touched =>
           r.path \in Untouched /\ r.modified = vault[r.path].modified
  BY <1>1, <1>2 DEF SeenInv, Searching
<1>4. \A p \in Untouched : \E k \in 1..Len(list) : list[k].path = p
  BY <1>1, <1>3 DEF Listed
<1>5. \A p, a : FoundAhead(a, p) <=> a \in Found(p)
  BY DEF FoundAhead, Found
<1>6. ASSUME NEW p \in Untouched
      PROVE  /\ IsFiniteSet(Found(p)) /\ Found(p) \subseteq Paths
             /\ ~ pulled => Found(p) \subseteq Ahead(p)
             /\ ~ pushed => Ahead(p) \subseteq Found(p)
  <2>1. Found(p) \subseteq Paths
    BY DEF Found, Basic, TypeOK, Results
  <2>2. IsFiniteSet(Found(p))
    BY <2>1, MatchingIs, FS_Subset
  <2>3. /\ ~ pulled => \A r \in results : Leads(r, p) => r.path \in Ahead(p)
        /\ ~ pushed => \A a \in Ahead(p) : FoundAhead(a, p)
    BY <1>1, <1>2 DEF AheadInv, Searching
  <2>4. ~ pulled => Found(p) \subseteq Ahead(p)
    BY <2>3 DEF Found
  <2> QED BY <1>5, <2>1, <2>2, <2>3, <2>4
<1>7. ASSUME NEW k \in 1..Len(list), list[k].path \notin touched
      PROVE  list[k].path \in Untouched /\ Cardinality(Found(list[k].path)) = k - 1
  <2> DEFINE p == list[k].path
  <2>1. list[k] \in results /\ p \in Untouched /\ list[k].modified = vault[p].modified
    BY <1>1, <1>3, <1>7
  <2>2. \A y : Before(NormalizedSort(query), y, list[k]) <=> Leads(y, p)
    BY <2>1 DEF Leads, Before
  <2>3. Leading(results, NormalizedSort(query), list[k]) = Found(p)
    BY <2>2 DEF Leading, Found
  <2> QED BY <1>1, <2>1, <2>3
<1> QED BY <1>2, <1>4, <1>5, <1>6, <1>7 DEF list

LEMMA MissStep ==
  ASSUME Basic, SeenInv, AheadInv, MissInv, Next
  PROVE  MissInv'
<1> SUFFICES ASSUME ~ torn', ~ pulled', first' = 0, NEW p \in Untouched', ~ Shown(p)'
             PROVE  /\ Searching' => \E A \in SUBSET Ahead(p)' :
                         /\ Cardinality(A) >= Offset(cursor')
                         /\ \A a \in A : Covered(a)' \/ FoundAhead(a, p)'
                    /\ pc' = "answered" => /\ page'.next # NoCursor
                                           /\ Cardinality(Ahead(p)') >= page'.next.offset
                    /\ pc' # "finished"
  BY DEF MissInv
<1> DEFINE Goal == /\ Searching' => \E A \in SUBSET Ahead(p)' :
                         /\ Cardinality(A) >= Offset(cursor')
                         /\ \A a \in A : Covered(a)' \/ FoundAhead(a, p)'
                   /\ pc' = "answered" => /\ page'.next # NoCursor
                                          /\ Cardinality(Ahead(p)') >= page'.next.offset
                   /\ pc' # "finished"
<1>0. /\ \A q : IsFiniteSet(Ahead(q)) /\ Cardinality(Ahead(q)) \in Nat
      /\ \A q : IsFiniteSet(Ahead(q)')
      /\ \A a \in Ahead(p) : a \in Paths /\ vault[a] # Absent
  <2>1. \A q : IsFiniteSet(Ahead(q)) /\ Cardinality(Ahead(q)) \in Nat
    BY MatchingIs, FS_CardinalityType
  <2>2. \A q : Ahead(q)' \subseteq Paths
    BY DEF Ahead, AheadOf, Matching
  <2> QED BY <2>1, <2>2, MatchingIs, FS_Subset
<1>1. ASSUME Untouched' = Untouched, ~ torn, ~ pulled, first = 0, got' = got
      PROVE  /\ Searching => \E A \in SUBSET Ahead(p) :
                  /\ Cardinality(A) >= Offset(cursor)
                  /\ \A a \in A : Covered(a) \/ FoundAhead(a, p)
             /\ pc = "answered" => /\ page.next # NoCursor
                                   /\ Cardinality(Ahead(p)) >= page.next.offset
             /\ pc # "finished"
  BY <1>1 DEF MissInv, Shown
<1>2. ASSUME NEW c \in Cursors, Begin(c) PROVE Goal
  <2>1. pc' = "refused" \/ pc' = "walk"
    BY <1>2 DEF Begin, Search
  <2>2. ASSUME pc' = "walk" PROVE Offset(cursor') = 0
    BY <1>2, <2>2 DEF Begin, Search, InvalidQuery
  <2>3. {} \in SUBSET Ahead(p)' /\ Cardinality({}) = 0
    BY FS_EmptySet
  <2> QED BY <2>1, <2>2, <2>3 DEF Searching
<1>3. CASE Follow
  <2>1. /\ UNCHANGED <<vault, query, touched, got, first, torn, pulled>>
        /\ pc = "answered" /\ Search(page.next) /\ cursor' = page.next
    BY <1>3 DEF Follow, ghosts, Search
  <2>2. Untouched' = Untouched /\ Ahead(p)' = Ahead(p)
    BY <2>1 DEF Untouched, Ahead
  <2>3. page.next # NoCursor /\ Cardinality(Ahead(p)) >= page.next.offset
    BY <1>1, <2>1, <2>2
  <2>4. Offset(cursor') = page.next.offset
    BY <2>1, <2>3 DEF Offset, Basic, WalkInv
  <2>5. \/ pc' = "refused"
        \/ pc' = "walk" /\ \A a \in Ahead(p) : Covered(a)'
    BY <1>0, <2>1, BeginCovers
  <2> QED BY <2>2, <2>3, <2>4, <2>5 DEF Searching
<1>4. CASE Searching' /\ (OpenDirectory \/ Stat \/ Read)
  <2>1. /\ Searching /\ ~ torn
        /\ UNCHANGED <<vault, query, cursor, got, first, touched, pulled>>
        /\ results \subseteq results'
        /\ \A a \in Matching(vault, query) : Covered(a) => Covered(a)' \/
             \E r \in results' : r.path = a /\ r.modified = vault[a].modified
    BY <1>4, WalkKeeps
  <2>2. /\ Untouched' = Untouched /\ Ahead(p)' = Ahead(p)
        /\ \A r : Leads(r, p)' <=> Leads(r, p)
    BY <2>1 DEF Untouched, Ahead, Leads
  <2>3. PICK A \in SUBSET Ahead(p) : /\ Cardinality(A) >= Offset(cursor)
                                     /\ \A a \in A : Covered(a) \/ FoundAhead(a, p)
    BY <1>1, <2>1, <2>2
  <2>4. ASSUME NEW a \in A PROVE Covered(a)' \/ FoundAhead(a, p)'
    <3>1. a \in Matching(vault, query) /\ a \in Ahead(p)
      BY MatchingIs
    <3>2. CASE FoundAhead(a, p)
      BY <2>1, <2>2, <3>2 DEF FoundAhead
    <3>3. CASE Covered(a)
      <4>1. Covered(a)' \/ \E r \in results' : r.path = a /\ r.modified = vault[a].modified
        BY <2>1, <3>1, <3>3
      <4>2. \A r : r.path = a /\ r.modified = vault[a].modified => Leads(r, p)
        BY <3>1, LeadsIs
      <4> QED BY <2>2, <4>1, <4>2 DEF FoundAhead
    <3> QED BY <2>3, <3>2, <3>3
  <2>5. /\ A \in SUBSET Ahead(p)' /\ Cardinality(A) >= Offset(cursor')
        /\ \A a \in A : Covered(a)' \/ FoundAhead(a, p)'
    BY <2>1, <2>2, <2>3, <2>4
  <2>6. pc' # "answered" /\ pc' # "finished"
    BY <1>4 DEF Searching
  <2> QED BY <2>5, <2>6
<1>5. CASE ~ Searching' /\ (OpenDirectory \/ Stat \/ Read)
  <2>1. pc' \in {"failed", "panicked", "walk", "read"}
    <3>1. Read => pc' \in {"failed", "panicked", "walk"}
      BY Readings
    <3> QED BY <1>5, <3>1 DEF OpenDirectory, Stat
  <2> QED BY <1>5, <2>1 DEF Searching
<1>6. CASE Answer
  <2> DEFINE list == SortResults(results, query)
             offset == Offset(cursor)
             end == PageEnd(list, offset, NormalizedLimit(query))
  <2>1. /\ pc = "walk" /\ pc' = "answered"
        /\ UNCHANGED <<vault, query, cursor, first, touched, pulled, torn>>
        /\ offset \in Nat /\ Len(list) \in Nat
        /\ \/ offset >= Len(list)
           \/ /\ offset < Len(list) /\ end \in Nat /\ offset < end /\ end <= Len(list)
              /\ page'.next = IF end < Len(list) THEN [kind |-> "number", offset |-> end]
                              ELSE NoCursor
    BY <1>6, Answers DEF ghosts
  <2>2. Untouched' = Untouched /\ Ahead(p)' = Ahead(p)
    BY <2>1 DEF Untouched, Ahead
  <2>3. /\ Len(got) \in Nat
        /\ \A i \in 1..Len(got) : i \in 1..Len(got') /\ got'[i] = got[i]
        /\ offset < Len(list) => \A k \in offset + 1..end :
             /\ Len(got) + (k - offset) \in 1..Len(got')
             /\ got'[Len(got) + (k - offset)] = list[k]
    BY <1>6, Shows
  <2>4. ~ Shown(p)
    BY <2>3 DEF Shown
  <2>5. /\ \E k \in 1..Len(list) : list[k].path = p
        /\ \A k \in 1..Len(list) : list[k].path \notin touched =>
             Cardinality(Found(list[k].path)) = k - 1
        /\ IsFiniteSet(Found(p)) /\ Found(p) \subseteq Ahead(p)
        /\ \A a : FoundAhead(a, p) <=> a \in Found(p)
        /\ \A a : ~ Covered(a)
    BY <1>6, <2>1, <2>2, AnswerPlaces
  <2> HIDE DEF list, offset, end
  <2>6. PICK A \in SUBSET Ahead(p) : Cardinality(A) >= offset /\ \A a \in A : a \in Found(p)
    <3>1. \E A \in SUBSET Ahead(p) : /\ Cardinality(A) >= Offset(cursor)
                                     /\ \A a \in A : Covered(a) \/ FoundAhead(a, p)
      BY <2>1, <2>2, <2>4 DEF MissInv, Searching
    <3> QED BY <2>5, <3>1 DEF offset
  <2>7. PICK k \in 1..Len(list) : list[k].path = p
    BY <2>5
  <2>8. Cardinality(Found(p)) = k - 1
    BY <2>2, <2>5, <2>7, MatchingIs
  <2>9. k - 1 >= offset
    <3>1. Cardinality(A) <= Cardinality(Found(p)) /\ Cardinality(A) \in Nat
      BY <2>5, <2>6, Smaller
    <3> QED BY <2>1, <2>6, <2>8, <3>1
  <2>10. offset < Len(list) /\ offset < end /\ end \in Nat /\ end <= Len(list)
    BY <2>1, <2>9
  <2>11. ~ (k <= end)
    <3> SUFFICES ASSUME k <= end PROVE FALSE
      OBVIOUS
    <3>1. k \in offset + 1..end
      BY <2>1, <2>9, <2>10
    <3>2. \E i \in 1..Len(got') : got'[i] = list[k]
      BY <2>3, <2>10, <3>1
    <3> QED BY <2>7, <3>2 DEF Shown
  <2>12. end < Len(list) /\ page'.next = [kind |-> "number", offset |-> end]
    BY <2>1, <2>10, <2>11
  <2>13. Cardinality(Ahead(p)) >= end
    <3>1. Cardinality(Found(p)) <= Cardinality(Ahead(p))
      BY <1>0, <2>5, Smaller
    <3> QED BY <1>0, <2>8, <2>10, <2>11, <3>1
  <2>14. page'.next # NoCursor /\ page'.next.offset = end
    BY <2>12 DEF NoCursor
  <2> QED BY <2>1, <2>2, <2>13, <2>14 DEF Searching
<1>7. CASE Stop
  <2>1. /\ UNCHANGED <<vault, query, touched, first, torn, pulled, got>>
        /\ pc' \in {"stopped", "finished"}
        /\ pc' = "finished" => pc = "answered" /\ page.next = NoCursor
    BY <1>7 DEF Stop, ghosts
  <2>2. Untouched' = Untouched
    BY <2>1 DEF Untouched
  <2> QED BY <1>1, <2>1, <2>2 DEF Searching
<1>8. ASSUME NEW path \in Paths, NEW file \in Files \cup {Absent}, Change(path, file)
      PROVE  Goal
  <2>1. /\ UNCHANGED <<pc, cursor, pending, results, page, got, first, torn>>
        /\ Untouched' = Untouched \ {path}
        /\ \A q \in Paths \ {path} : \A r : Leads(r, q)' <=> Leads(r, q)
        /\ ~ pulled /\ Ahead(p) \subseteq Ahead(p)'
    BY <1>8, ChangeKeeps
  <2>2. p \in Untouched /\ p \in Paths \ {path}
    BY <2>1, MatchingIs
  <2>3. \A a : (Covered(a)' <=> Covered(a)) /\ (FoundAhead(a, p)' <=> FoundAhead(a, p))
    BY <2>1, <2>2 DEF Covered, FoundAhead
  <2>4. /\ Searching => \E A \in SUBSET Ahead(p) :
             /\ Cardinality(A) >= Offset(cursor)
             /\ \A a \in A : Covered(a) \/ FoundAhead(a, p)
        /\ pc = "answered" => page.next # NoCursor /\ Cardinality(Ahead(p)) >= page.next.offset
        /\ pc # "finished"
    BY <2>1, <2>2 DEF MissInv, Shown
  <2>5. Cardinality(Ahead(p)) <= Cardinality(Ahead(p)') /\ Cardinality(Ahead(p)') \in Nat
    BY <1>0, <2>1, Smaller
  <2>6. pc' = "answered" => Cardinality(Ahead(p)') >= page'.next.offset
    <3>1. pc = "answered" => page.next.offset \in Nat
      BY <2>4 DEF Basic, WalkInv
    <3> QED BY <1>0, <2>1, <2>4, <2>5, <3>1
  <2>7. Searching' => \E A \in SUBSET Ahead(p)' :
             /\ Cardinality(A) >= Offset(cursor')
             /\ \A a \in A : Covered(a)' \/ FoundAhead(a, p)'
    <3> SUFFICES ASSUME Searching
                 PROVE  \E A \in SUBSET Ahead(p)' :
                           /\ Cardinality(A) >= Offset(cursor')
                           /\ \A a \in A : Covered(a)' \/ FoundAhead(a, p)'
      BY <2>1 DEF Searching
    <3>1. PICK A \in SUBSET Ahead(p) : /\ Cardinality(A) >= Offset(cursor)
                                       /\ \A a \in A : Covered(a) \/ FoundAhead(a, p)
      BY <2>4
    <3> QED BY <2>1, <2>3, <3>1
  <2> QED BY <2>1, <2>4, <2>6, <2>7
<1>9. CASE \E path \in Paths, file \in Files \cup {Absent} : Change(path, file)
  BY <1>8, <1>9
<1> QED BY Steps, <1>2, <1>3, <1>4, <1>5, <1>6, <1>7, <1>9

Once(p) == \A i, j \in 1..Len(got) : got[i].path = p /\ got[j].path = p => i = j

LEMMA RepeatStep ==
  ASSUME Basic, SeenInv, AheadInv, RepeatInv, Next
  PROVE  RepeatInv'
<1> SUFFICES ASSUME ~ torn', ~ pushed', NEW p \in Paths \ touched'
             PROVE  /\ Once(p)'
                    /\ Shown(p)' =>
                         /\ p \in Untouched'
                         /\ Searching' => \E B \in SUBSET Paths :
                              /\ Ahead(p)' \subseteq B /\ Cardinality(B) < Offset(cursor')
                              /\ \A r \in results' : Leads(r, p)' => r.path \in B
                         /\ pc' = "answered" /\ page'.next # NoCursor =>
                              Cardinality(Ahead(p)') < page'.next.offset
  BY DEF RepeatInv, Once
<1> DEFINE Bounded == \E B \in SUBSET Paths :
                        /\ Ahead(p)' \subseteq B /\ Cardinality(B) < Offset(cursor')
                        /\ \A r \in results' : Leads(r, p)' => r.path \in B
           Goal == /\ Once(p)'
                   /\ Shown(p)' =>
                        /\ p \in Untouched'
                        /\ Searching' => Bounded
                        /\ pc' = "answered" /\ page'.next # NoCursor =>
                             Cardinality(Ahead(p)') < page'.next.offset
<1>0. /\ \A q : IsFiniteSet(Ahead(q)) /\ Cardinality(Ahead(q)) \in Nat /\ Ahead(q) \subseteq Paths
      /\ \A q : IsFiniteSet(Ahead(q)')
  <2>1. \A q : IsFiniteSet(Ahead(q)) /\ Cardinality(Ahead(q)) \in Nat /\ Ahead(q) \subseteq Paths
    BY MatchingIs, FS_CardinalityType
  <2>2. \A q : Ahead(q)' \subseteq Paths
    BY DEF Ahead, AheadOf, Matching
  <2> QED BY <2>1, <2>2, MatchingIs, FS_Subset
<1>1. ASSUME touched' = touched, ~ torn, ~ pushed
      PROVE  /\ Once(p)
             /\ Shown(p) =>
                  /\ p \in Untouched
                  /\ Searching => \E B \in SUBSET Paths :
                       /\ Ahead(p) \subseteq B /\ Cardinality(B) < Offset(cursor)
                       /\ \A r \in results : Leads(r, p) => r.path \in B
                  /\ pc = "answered" /\ page.next # NoCursor =>
                       Cardinality(Ahead(p)) < page.next.offset
  BY <1>1 DEF RepeatInv, Once
<1>2. ASSUME NEW c \in Cursors, Begin(c) PROVE Goal
  <2>1. got' = <<>>
    BY <1>2 DEF Begin, Basic, WalkInv
  <2> QED BY <2>1 DEF Once, Shown
<1>3. CASE Follow
  <2>1. /\ UNCHANGED <<vault, query, touched, got, torn, pushed>>
        /\ pc = "answered" /\ page.next # NoCursor /\ Search(page.next) /\ cursor' = page.next
        /\ pc' # "answered"
    BY <1>3 DEF Follow, ghosts, Search
  <2>2. /\ Untouched' = Untouched /\ Ahead(p)' = Ahead(p)
        /\ (Once(p)' <=> Once(p)) /\ (Shown(p)' <=> Shown(p))
    BY <2>1 DEF Untouched, Ahead, Once, Shown
  <2>3. Offset(cursor') = page.next.offset
    BY <2>1 DEF Offset, Basic, WalkInv
  <2>4. pc' = "refused" \/ results' = {}
    BY <2>1, BeginCovers
  <2>5. Shown(p) /\ Searching' => /\ Ahead(p) \in SUBSET Paths /\ Ahead(p)' \subseteq Ahead(p)
                                  /\ Cardinality(Ahead(p)) < Offset(cursor')
                                  /\ results' = {}
    BY <1>0, <1>1, <2>1, <2>2, <2>3, <2>4 DEF Searching
  <2>6. Shown(p) /\ Searching' => Bounded
    BY <2>5
  <2> QED BY <1>1, <2>1, <2>2, <2>6
<1>4. CASE OpenDirectory \/ Stat \/ Read
  <2>1. /\ UNCHANGED <<vault, query, touched, got, page, pushed>> /\ ~ torn /\ pc' # "answered"
    <3>1. CASE Read
      BY <3>1, Readings
    <3>2. CASE OpenDirectory
      BY <3>2 DEF OpenDirectory, ghosts
    <3>3. CASE Stat
      BY <3>3 DEF Stat, ghosts
    <3> QED BY <1>4, <3>1, <3>2, <3>3
  <2>2. /\ Untouched' = Untouched /\ Ahead(p)' = Ahead(p)
        /\ (Once(p)' <=> Once(p)) /\ (Shown(p)' <=> Shown(p))
        /\ \A r : Leads(r, p)' <=> Leads(r, p)
    BY <2>1 DEF Untouched, Ahead, Leads, Once, Shown
  <2>3. ASSUME Searching', Shown(p) PROVE Bounded
    <3>1. /\ Searching /\ cursor' = cursor
          /\ \A r \in results' : r \in results \/
               (r.path \in Matching(vault, query) /\ r.modified = vault[r.path].modified)
      BY <1>4, <2>3, WalkKeeps
    <3>2. PICK B \in SUBSET Paths : /\ Ahead(p) \subseteq B /\ Cardinality(B) < Offset(cursor)
                                    /\ \A r \in results : Leads(r, p) => r.path \in B
      BY <1>1, <2>1, <2>3, <3>1
    <3>3. \A r \in results' : Leads(r, p) => r.path \in B
      <4> SUFFICES ASSUME NEW r \in results', Leads(r, p) PROVE r.path \in B
        OBVIOUS
      <4>1. CASE r \in results
        BY <3>2, <4>1
      <4>2. CASE r.path \in Matching(vault, query) /\ r.modified = vault[r.path].modified
        BY <3>2, <4>2, LeadsIs
      <4> QED BY <3>1, <4>1, <4>2
    <3> QED BY <2>2, <3>1, <3>2, <3>3
  <2> QED BY <1>1, <2>1, <2>2, <2>3
<1>5. CASE Answer
  <2> DEFINE list == SortResults(results, query)
             offset == Offset(cursor)
             end == PageEnd(list, offset, NormalizedLimit(query))
  <2>1. /\ pc = "walk" /\ pc' = "answered"
        /\ UNCHANGED <<vault, query, cursor, first, touched, pushed, torn>>
        /\ offset \in Nat /\ Len(list) \in Nat
        /\ \A i, j \in 1..Len(list) : list[i].path = list[j].path => i = j
        /\ \/ offset >= Len(list) /\ page'.next = NoCursor
           \/ /\ offset < Len(list) /\ end \in Nat /\ offset < end /\ end <= Len(list)
              /\ page'.next = IF end < Len(list) THEN [kind |-> "number", offset |-> end]
                              ELSE NoCursor
    BY <1>5, Answers DEF ghosts
  <2>2. Untouched' = Untouched /\ Ahead(p)' = Ahead(p)
    BY <2>1 DEF Untouched, Ahead
  <2>3. /\ Len(got) \in Nat
        /\ \A i \in 1..Len(got') :
              \/ i \in 1..Len(got) /\ got'[i] = got[i]
              \/ offset < Len(list) /\ \E k \in offset + 1..end :
                   k \in 1..Len(list) /\ i = Len(got) + (k - offset) /\ got'[i] = list[k]
    BY <1>5, Shows
  <2>4. /\ \A k \in 1..Len(list) : list[k].path \notin touched =>
             list[k].path \in Untouched /\ Cardinality(Found(list[k].path)) = k - 1
        /\ \A q \in Untouched : IsFiniteSet(Found(q)) /\ Ahead(q) \subseteq Found(q)
    BY <1>5, <2>1, AnswerPlaces
  <2> HIDE DEF list, offset, end
  <2>5. Shown(p) => \E B \in SUBSET Paths :
                      /\ Ahead(p) \subseteq B /\ Cardinality(B) < offset /\ Found(p) \subseteq B
    <3> SUFFICES ASSUME Shown(p)
                 PROVE  \E B \in SUBSET Paths :
                      /\ Ahead(p) \subseteq B /\ Cardinality(B) < offset /\ Found(p) \subseteq B
      OBVIOUS
    <3>1. PICK B \in SUBSET Paths : /\ Ahead(p) \subseteq B /\ Cardinality(B) < Offset(cursor)
                                    /\ \A r \in results : Leads(r, p) => r.path \in B
      BY <1>1, <2>1 DEF Searching
    <3>2. Found(p) \subseteq B
      BY <3>1 DEF Found
    <3> QED BY <3>1, <3>2 DEF offset
  <2>6. ASSUME Shown(p)
        PROVE  /\ p \in Untouched /\ Cardinality(Ahead(p)) < offset
               /\ \A k \in 1..Len(list) : list[k].path = p => k <= offset
    <3>1. PICK B \in SUBSET Paths :
            Ahead(p) \subseteq B /\ Cardinality(B) < offset /\ Found(p) \subseteq B
      BY <2>5, <2>6
    <3>2. IsFiniteSet(B) /\ Cardinality(B) \in Nat
      BY MatchingIs, FS_Subset, FS_CardinalityType
    <3>3. Cardinality(Ahead(p)) <= Cardinality(B) /\ Cardinality(Found(p)) <= Cardinality(B)
      BY <3>1, <3>2, Smaller
    <3>4. p \in Untouched
      BY <1>1, <2>1, <2>6
    <3>5. ASSUME NEW k \in 1..Len(list), list[k].path = p PROVE k <= offset
      <4>1. Cardinality(Found(p)) = k - 1
        BY <2>1, <2>4, <3>5
      <4> QED BY <2>1, <3>1, <3>2, <3>3, <4>1
    <3>6. Cardinality(Ahead(p)) < offset
      BY <1>0, <2>1, <3>1, <3>2, <3>3
    <3> QED BY <3>4, <3>5, <3>6
  <2>7. ASSUME ~ Shown(p), NEW k \in offset + 1..end, k \in 1..Len(list), list[k].path = p,
               offset < Len(list)
        PROVE  p \in Untouched /\ Cardinality(Ahead(p)) < end
    <3>1. p \in Untouched /\ Cardinality(Found(p)) = k - 1
      BY <2>1, <2>4, <2>7
    <3>2. Cardinality(Ahead(p)) <= Cardinality(Found(p))
      BY <2>4, <3>1, Smaller
    <3>3. end \in Nat /\ k <= end /\ k \in Int
      BY <2>1, <2>7
    <3> QED BY <1>0, <3>1, <3>2, <3>3
  <2>8. ASSUME NEW i \in 1..Len(got'), got'[i].path = p
        PROVE  \/ Shown(p) /\ i \in 1..Len(got) /\ got[i].path = p
               \/ /\ ~ Shown(p) /\ offset < Len(list)
                  /\ \E k \in offset + 1..end : /\ k \in 1..Len(list) /\ list[k].path = p
                                                /\ i = Len(got) + (k - offset)
    <3>1. CASE i \in 1..Len(got) /\ got'[i] = got[i]
      BY <2>8, <3>1 DEF Shown
    <3>2. ASSUME offset < Len(list), NEW k \in offset + 1..end, k \in 1..Len(list),
                 i = Len(got) + (k - offset), got'[i] = list[k]
          PROVE  ~ Shown(p) /\ list[k].path = p
      BY <2>1, <2>6, <2>8, <3>2
    <3> QED BY <2>3, <3>1, <3>2
  <2>9. Once(p)'
    <3> SUFFICES ASSUME NEW i \in 1..Len(got'), NEW j \in 1..Len(got'),
                        got'[i].path = p, got'[j].path = p
                 PROVE  i = j
      BY DEF Once
    <3>1. CASE Shown(p)
      BY <1>1, <2>1, <2>8, <3>1 DEF Once
    <3>2. CASE ~ Shown(p)
      <4>1. PICK k \in offset + 1..end : /\ k \in 1..Len(list) /\ list[k].path = p
                                         /\ i = Len(got) + (k - offset)
        BY <2>8, <3>2
      <4>2. PICK m \in offset + 1..end : /\ m \in 1..Len(list) /\ list[m].path = p
                                         /\ j = Len(got) + (m - offset)
        BY <2>8, <3>2
      <4> QED BY <2>1, <4>1, <4>2
    <3> QED BY <3>1, <3>2
  <2>10. ASSUME Shown(p)'
         PROVE  /\ p \in Untouched
                /\ page'.next # NoCursor => Cardinality(Ahead(p)) < page'.next.offset
    <3>1. page'.next # NoCursor => /\ page'.next.offset = end /\ end \in Nat /\ offset < end
                                   /\ offset < Len(list)
      BY <2>1
    <3>2. CASE Shown(p)
      BY <1>0, <2>1, <2>6, <3>1, <3>2
    <3>3. CASE ~ Shown(p)
      <4>1. p \in Untouched /\ Cardinality(Ahead(p)) < end
        BY <2>7, <2>8, <2>10, <3>3 DEF Shown
      <4> QED BY <3>1, <4>1
    <3> QED BY <3>2, <3>3
  <2> QED BY <2>1, <2>2, <2>9, <2>10 DEF Searching
<1>6. CASE Stop
  <2>1. /\ UNCHANGED <<vault, query, touched, torn, pushed, got>>
        /\ pc' \in {"stopped", "finished"}
    BY <1>6 DEF Stop, ghosts
  <2>2. /\ Untouched' = Untouched /\ (Once(p)' <=> Once(p)) /\ (Shown(p)' <=> Shown(p))
    BY <2>1 DEF Untouched, Once, Shown
  <2> QED BY <1>1, <2>1, <2>2 DEF Searching
<1>7. ASSUME NEW path \in Paths, NEW file \in Files \cup {Absent}, Change(path, file)
      PROVE  Goal
  <2>1. /\ UNCHANGED <<pc, cursor, pending, results, page, got, first, torn>>
        /\ Untouched' = Untouched \ {path} /\ touched' = touched \cup {path}
        /\ \A q \in Paths \ {path} : \A r : Leads(r, q)' <=> Leads(r, q)
        /\ ~ pushed /\ \A q \in Untouched' : Ahead(q)' \subseteq Ahead(q)
    BY <1>7, ChangeKeeps
  <2>2. p \in Paths \ touched /\ p # path
    BY <2>1
  <2>3. /\ (Once(p)' <=> Once(p)) /\ (Shown(p)' <=> Shown(p))
        /\ \A r : Leads(r, p)' <=> Leads(r, p)
        /\ Searching' <=> Searching
    BY <2>1, <2>2 DEF Once, Shown, Searching
  <2>4. /\ Once(p)
        /\ Shown(p) =>
             /\ p \in Untouched
             /\ Searching => \E B \in SUBSET Paths :
                  /\ Ahead(p) \subseteq B /\ Cardinality(B) < Offset(cursor)
                  /\ \A r \in results : Leads(r, p) => r.path \in B
             /\ pc = "answered" /\ page.next # NoCursor =>
                  Cardinality(Ahead(p)) < page.next.offset
    BY <2>1, <2>2 DEF RepeatInv, Once
  <2>5. ASSUME Shown(p) PROVE p \in Untouched' /\ Ahead(p)' \subseteq Ahead(p)
    BY <2>1, <2>2, <2>4, <2>5
  <2>6. ASSUME Shown(p), Searching PROVE Bounded
    <3>1. PICK B \in SUBSET Paths : /\ Ahead(p) \subseteq B /\ Cardinality(B) < Offset(cursor)
                                    /\ \A r \in results : Leads(r, p) => r.path \in B
      BY <2>4, <2>6
    <3> QED BY <2>1, <2>3, <2>5, <2>6, <3>1
  <2>7. ASSUME Shown(p), pc = "answered", page.next # NoCursor
        PROVE  Cardinality(Ahead(p)') < page.next.offset
    <3>1. Cardinality(Ahead(p)') <= Cardinality(Ahead(p)) /\ Cardinality(Ahead(p)') \in Nat
      BY <1>0, <2>5, <2>7, Smaller
    <3>2. page.next.offset \in Nat
      BY <2>7 DEF Basic, WalkInv
    <3> QED BY <1>0, <2>4, <2>7, <3>1, <3>2
  <2> QED BY <2>1, <2>3, <2>4, <2>5, <2>6, <2>7
<1>8. CASE \E path \in Paths, file \in Files \cup {Absent} : Change(path, file)
  BY <1>7, <1>8
<1> QED BY Steps, <1>2, <1>3, <1>4, <1>5, <1>6, <1>8

\* While nothing changes, the results are the matching notes, at their ranks.
LEMMA ExactPlaces ==
  ASSUME Basic, SeenInv, AheadInv, Answer, touched = {}, ~ pulled, ~ pushed, ~ torn
  PROVE  LET list == SortResults(results, query) IN
         /\ Len(list) = Total
         /\ \A p \in Matching(vault, query) :
              /\ Cardinality(Ahead(p)) + 1 \in 1..Len(list)
              /\ list[Cardinality(Ahead(p)) + 1].path = p
<1> DEFINE list == SortResults(results, query)
           paths == [r \in results |-> r.path]
<1>1. /\ pc = "walk" /\ Len(list) \in Nat /\ Len(list) = Cardinality(results)
      /\ \A i \in 1..Len(list) : list[i] \in results
  BY Answers
<1>2. Untouched = Matching(vault, query)
  BY DEF Untouched
<1>3. /\ \A p \in Untouched : \E k \in 1..Len(list) : list[k].path = p
      /\ \A k \in 1..Len(list) : list[k].path \notin touched =>
           list[k].path \in Untouched /\ Cardinality(Found(list[k].path)) = k - 1
      /\ \A p \in Untouched : Found(p) \subseteq Ahead(p) /\ Ahead(p) \subseteq Found(p)
      /\ \A a : ~ Covered(a)
  BY AnswerPlaces
<1> HIDE DEF list
<1>4. ASSUME NEW p \in Matching(vault, query)
      PROVE  /\ Cardinality(Ahead(p)) + 1 \in 1..Len(list)
             /\ list[Cardinality(Ahead(p)) + 1].path = p
  <2>1. PICK k \in 1..Len(list) : list[k].path = p
    BY <1>2, <1>3
  <2>2. Ahead(p) = Found(p)
    BY <1>2, <1>3
  <2>3. Cardinality(Ahead(p)) = k - 1
    BY <1>3, <2>1, <2>2
  <2>4. Cardinality(Ahead(p)) + 1 = k
    BY <1>1, <2>3
  <2> QED BY <2>1, <2>4
<1>5. Cardinality(results) = Total
  <2>1. /\ IsFiniteSet(results) /\ \A r, s \in results : r.path = s.path => r = s
        /\ \A r \in results : r.path \in Matching(vault, query)
    BY <1>1, <1>2 DEF Basic, WalkInv, SeenInv, Searching
  <2>2. \A p \in Matching(vault, query) : \E r \in results : r.path = p
    BY <1>1, <1>2, <1>3
  <2>3. paths \in [results -> Matching(vault, query)] /\ \A r \in results : paths[r] = r.path
    BY <2>1
  <2> HIDE DEF paths
  <2>4. \A r, s \in results : paths[r] = paths[s] => r = s
    BY <2>1, <2>3
  <2>5. \A p \in Matching(vault, query) : \E r \in results : paths[r] = p
    BY <2>2, <2>3
  <2>6. paths \in Bijection(results, Matching(vault, query))
    BY <2>3, <2>4, <2>5, Fun_IsBij, Fun_IsInj, Fun_IsSurj
  <2> QED BY <2>1, <2>6, FS_Bijection DEF ExistsBijection, Total
<1> QED BY <1>1, <1>4, <1>5 DEF list

Ranked == \A p \in Matching(vault, query) :
  LET place == Cardinality(Ahead(p)) + 1 - first
  IN place \in 1..Len(got) => got[place].path = p

LEMMA ExactStep ==
  ASSUME Basic, SeenInv, AheadInv, ExactInv, Next
  PROVE  ExactInv'
<1> SUFFICES ASSUME changes' = 0 PROVE ExactInv'
  BY DEF ExactInv
<1>0. /\ Total \in Nat /\ Len(got) \in Nat /\ first \in Nat
      /\ \A p : Cardinality(Ahead(p)) \in Nat
  BY MatchingIs, FS_CardinalityType DEF Total, Basic, TypeOK
<1>1. ASSUME changes = 0
      PROVE  /\ touched = {} /\ ~ pulled /\ ~ pushed /\ ~ torn
             /\ pc = "read" => info = vault[Head(pending)]
             /\ Searching => Len(got) = Offset(cursor) - first /\ (got = <<>> \/ Offset(cursor) < Total)
             /\ pc = "answered" /\ page.next # NoCursor =>
                  Len(got) = page.next.offset - first /\ page.next.offset < Total
             /\ (pc = "answered" /\ page.next = NoCursor) \/ pc = "finished" =>
                  Len(got) = IF first > Total THEN 0 ELSE Total - first
             /\ Ranked
  BY <1>1 DEF ExactInv, Ranked
<1>2. ASSUME NEW c \in Cursors, Begin(c) PROVE ExactInv'
  <2>1. /\ UNCHANGED <<vault, changes, query, got, touched, pulled, pushed, torn>>
        /\ changes = 0 /\ got = <<>> /\ cursor' = c /\ pc' \in {"walk", "refused"}
        /\ pc' = "walk" => first' = Offset(c) /\ Offset(c) \in Nat
    <3>1. pc' = "walk" => first' = Offset(c) /\ Offset(c) \in Int /\ ~ (Offset(c) < 0)
      BY <1>2, CursorAssumption DEF Begin, Search, InvalidQuery, InvalidCursor, Offset
    <3>2. pc' = "walk" => Offset(c) \in Nat
      BY <3>1
    <3> QED BY <1>2, <3>1, <3>2 DEF Begin, Search, Basic, WalkInv
  <2>2. /\ Searching' => pc' = "walk"
        /\ Len(<<>>) = 0 /\ \A n \in Nat : n - n = 0
    BY <2>1 DEF Searching
  <2>3. Ranked'
    BY <2>1, <2>2 DEF Ranked
  <2>4. Searching' => Len(got') = Offset(cursor') - first' /\ got' = <<>>
    BY <2>1, <2>2
  <2> QED BY <1>1, <2>1, <2>3, <2>4 DEF ExactInv, Ranked
<1>3. CASE Follow
  <2>1. /\ UNCHANGED <<vault, changes, query, touched, got, first, torn, pushed, pulled>>
        /\ pc = "answered" /\ page.next # NoCursor /\ Search(page.next) /\ cursor' = page.next
        /\ pc' \in {"walk", "refused"}
    BY <1>3 DEF Follow, ghosts, Search
  <2>2. Offset(cursor') = page.next.offset
    BY <2>1 DEF Offset, Basic, WalkInv
  <2>3. Total' = Total /\ (Ranked' <=> Ranked)
    BY <2>1 DEF Total, Ranked, Ahead
  <2> QED BY <1>1, <2>1, <2>2, <2>3 DEF ExactInv, Ranked
<1>4. CASE OpenDirectory \/ Stat \/ Read
  <2>1. /\ UNCHANGED <<vault, changes, query, cursor, touched, got, first, pushed, pulled>>
        /\ pc \in {"walk", "read"} /\ pc' \in {"walk", "read", "failed", "panicked"}
        /\ pc' = "read" => info' = vault'[Head(pending')]
        /\ torn' = (torn \/ (pc = "read" /\ info # vault[Head(pending)]))
    <3>1. CASE Read
      BY <3>1, Readings
    <3>2. CASE OpenDirectory
      BY <3>2 DEF OpenDirectory, ghosts, Basic, TypeOK
    <3>3. CASE Stat
      <4>1. /\ pc = "walk" /\ UNCHANGED <<vault, changes, query, cursor, pending, got, ghosts>>
            /\ pc' = "failed" \/ (pc' = "read" /\ info' = vault[Head(pending)])
        BY <3>3 DEF Stat
      <4>2. torn \in BOOLEAN
        BY DEF Basic, TypeOK
      <4> QED BY <4>1, <4>2 DEF ghosts
    <3> QED BY <1>4, <3>1, <3>2, <3>3
  <2>2. Total' = Total /\ (Ranked' <=> Ranked)
    BY <2>1 DEF Total, Ranked, Ahead
  <2>3. Searching
    BY <2>1 DEF Searching
  <2> QED BY <1>1, <2>1, <2>2, <2>3 DEF ExactInv, Ranked
<1>5. CASE Answer
  <2> DEFINE list == SortResults(results, query)
             offset == Offset(cursor)
             end == PageEnd(list, offset, NormalizedLimit(query))
  <2>1. /\ pc = "walk" /\ pc' = "answered"
        /\ UNCHANGED <<vault, changes, query, cursor, info, pending>>
        /\ UNCHANGED <<first, touched, pulled, pushed, torn>>
        /\ offset \in Nat /\ Len(list) \in Nat
        /\ \/ offset >= Len(list) /\ page'.next = NoCursor /\ got' = got
           \/ /\ offset < Len(list) /\ end \in Nat /\ offset < end /\ end <= Len(list)
              /\ page'.next = IF end < Len(list) THEN [kind |-> "number", offset |-> end]
                              ELSE NoCursor
              /\ Len(got') = Len(got) + (end - offset)
    BY <1>5, Answers DEF ghosts
  <2>2. /\ Total' = Total /\ \A p : Ahead(p)' = Ahead(p)
        /\ Matching(vault, query)' = Matching(vault, query)
    BY <2>1 DEF Total, Ahead
  <2>3. /\ touched = {} /\ ~ pulled /\ ~ pushed /\ ~ torn
        /\ Len(got) = offset - first /\ (got = <<>> \/ offset < Total)
        /\ Ranked
    BY <1>1, <2>1 DEF Searching
  <2>4. /\ Len(list) = Total
        /\ \A p \in Matching(vault, query) : list[Cardinality(Ahead(p)) + 1].path = p
    BY <1>5, <2>3, ExactPlaces
  <2>5. /\ \A i \in 1..Len(got) : got'[i] = got[i]
        /\ offset < Len(list) => \A k \in offset + 1..end :
              got'[Len(got) + (k - offset)] = list[k]
    BY <1>5, Shows
  <2> HIDE DEF list, offset, end
  <2>6. Ranked'
    <3> SUFFICES ASSUME NEW p \in Matching(vault, query),
                        Cardinality(Ahead(p)) + 1 - first \in 1..Len(got')
                 PROVE  got'[Cardinality(Ahead(p)) + 1 - first].path = p
      BY <2>1, <2>2 DEF Ranked
    <3>1. PICK k \in Nat : k = Cardinality(Ahead(p)) + 1
      BY <1>0
    <3>2. PICK m \in Int : m = Cardinality(Ahead(p)) + 1 - first
      BY <1>0
    <3>3. m = k - first
      BY <1>0, <3>1, <3>2
    <3>4. m \in 1..Len(got')
      BY <3>2
    <3>5. list[k].path = p
      BY <2>4, <3>1
    <3>6. CASE m <= Len(got)
      <4>1. m \in 1..Len(got)
        BY <1>0, <3>2, <3>4, <3>6
      <4>2. got[m].path = p
        BY <2>3, <3>2, <4>1 DEF Ranked
      <4>3. got'[m].path = p
        BY <2>5, <4>1, <4>2
      <4> QED BY <3>2, <4>3
    <3>7. CASE ~ (m <= Len(got))
      <4>1. Len(got') # Len(got) /\ Len(got') \in Nat
        BY <1>0, <1>5, <3>2, <3>4, <3>7, Shows
      <4>2. offset < Len(list) /\ Len(got') = Len(got) + (end - offset) /\ end \in Nat
        BY <2>1, <4>1
      <4>3. k \in offset + 1..end /\ m = Len(got) + (k - offset)
        BY <1>0, <2>1, <2>3, <3>3, <3>4, <3>7, <4>2
      <4>4. got'[Len(got) + (k - offset)] = list[k]
        BY <2>5, <4>2, <4>3
      <4>5. got'[m].path = p
        BY <3>5, <4>3, <4>4
      <4> QED BY <3>2, <4>5
    <3> QED BY <3>6, <3>7
  <2>7. CASE offset >= Len(list)
    <3>1. page'.next = NoCursor /\ got' = got /\ got = <<>>
      BY <1>0, <2>1, <2>3, <2>4, <2>7
    <3>2. Len(got) = 0
      BY <3>1
    <3>3. Len(got') = IF first > Total THEN 0 ELSE Total - first
      BY <1>0, <2>1, <2>3, <2>4, <2>7, <3>1, <3>2
    <3> QED BY <2>1, <2>2, <2>3, <2>6, <3>1, <3>3 DEF ExactInv, Ranked, Searching
  <2>8. CASE offset < Len(list)
    <3>1. /\ end \in Nat /\ offset < end /\ end <= Total
          /\ page'.next = IF end < Total THEN [kind |-> "number", offset |-> end] ELSE NoCursor
          /\ Len(got') = Len(got) + (end - offset)
      BY <2>1, <2>4, <2>8
    <3>2. Len(got') = end - first /\ first <= Total
      BY <1>0, <2>1, <2>3, <3>1
    <3>3. page'.next # NoCursor => end < Total /\ page'.next.offset = end
      BY <3>1
    <3>4. page'.next = NoCursor => end = Total
      BY <1>0, <3>1 DEF NoCursor
    <3>5. page'.next = NoCursor => Len(got') = IF first > Total THEN 0 ELSE Total - first
      BY <1>0, <3>2, <3>4
    <3> QED BY <2>1, <2>2, <2>3, <2>6, <3>2, <3>3, <3>5 DEF ExactInv, Ranked, Searching
  <2> QED BY <1>0, <2>1, <2>7, <2>8
<1>6. CASE Stop
  <2>1. /\ UNCHANGED <<vault, changes, query, touched, torn, pushed, pulled, first, got>>
        /\ pc' \in {"stopped", "finished"}
        /\ pc' = "finished" => pc = "answered" /\ page.next = NoCursor
    BY <1>6 DEF Stop, ghosts
  <2>2. Total' = Total /\ (Ranked' <=> Ranked)
    BY <2>1 DEF Total, Ranked, Ahead
  <2> QED BY <1>1, <2>1, <2>2 DEF ExactInv, Ranked, Searching
<1>7. ASSUME NEW path \in Paths, NEW file \in Files \cup {Absent}, Change(path, file)
      PROVE  ExactInv'
  BY <1>7, Changes
<1>8. CASE \E path \in Paths, file \in Files \cup {Absent} : Change(path, file)
  BY <1>7, <1>8
<1> QED BY Steps, <1>2, <1>3, <1>4, <1>5, <1>6, <1>8

----------------------------------------------------------------------------
(* Snippets.                                                               *)

LEMMA SnippetStep ==
  ASSUME Basic, SnippetInv, Next
  PROVE  SnippetInv'
<1>1. /\ \A r \in results : Matched(r)
      /\ \A i \in 1..Len(got) : Matched(got[i])
      /\ query \in Queries
  BY DEF SnippetInv, Basic, TypeOK
<1>2. ASSUME query' = query, NEW r, Matched(r) PROVE Matched(r)'
  BY <1>2 DEF Matched
<1>3. ASSUME NEW c, Search(c), UNCHANGED <<query, got>> PROVE SnippetInv'
  <2>1. results' \subseteq results
    BY <1>3 DEF Search
  <2> QED BY <1>1, <1>2, <1>3, <2>1 DEF SnippetInv
<1>4. CASE Stop \/ OpenDirectory \/ Stat
  <2>1. UNCHANGED <<query, results, got>>
    BY <1>4 DEF Stop, OpenDirectory, Stat
  <2> QED BY <1>1, <1>2, <2>1 DEF SnippetInv
<1>5. CASE Read
  <2> DEFINE path == Head(pending)
             file == vault[path]
             new == Result(path, info, file)
  <2>1. UNCHANGED <<query, got>> /\ path \in Paths
    BY <1>5, Readings
  <2>2. \/ UNCHANGED results
        \/ /\ file # Absent /\ Matches[query][path][file.note] /\ ~ new.snippet.panic
           /\ results' = results \cup {new}
    BY <1>5 DEF Read
  <2>3. ASSUME file # Absent, Matches[query][path][file.note], ~ new.snippet.panic
        PROVE  Matched(new)
    <3>1. new.note = file.note /\ new.snippet = Snippets[query][file.note]
      BY DEF Result
    <3> HIDE DEF new
    <3> DEFINE n == file.note
    <3>2. n \in Notes
      <4>1. file \in Files
        BY <2>1, <2>3 DEF Basic, TypeOK
      <4> QED BY <4>1 DEF Files
    <3> HIDE DEF n
    <3>3. Snippets[query][n] = BuildSnippet(n, query.term)
      BY <1>1, <3>2 DEF Snippets
    <3>4. Matches[query][path][n] = MatchQuery(query, path, n)
      BY <1>1, <2>1, <3>2 DEF Matches
    <3>5. MatchText(n, query.term)
      BY <2>3, <3>4 DEF MatchQuery, n
    <3> QED BY <2>3, <3>1, <3>3, <3>5 DEF Matched, n
  <2> HIDE DEF new, file
  <2> QED BY <1>1, <1>2, <2>1, <2>2, <2>3 DEF SnippetInv
<1>6. CASE Answer
  <2>1. UNCHANGED <<query, results>>
    BY <1>6 DEF Answer
  <2>2. \A i \in 1..Len(got') : \/ i \in 1..Len(got) /\ got'[i] = got[i]
                                \/ \E r \in results : got'[i] = r
    BY <1>6, Shows, Answers
  <2> QED BY <1>1, <1>2, <2>1, <2>2 DEF SnippetInv
<1>7. ASSUME NEW path \in Paths, NEW file \in Files \cup {Absent}, Change(path, file)
      PROVE  SnippetInv'
  <2>1. UNCHANGED <<query, results, got>>
    BY <1>7, Changes
  <2> QED BY <1>1, <1>2, <2>1 DEF SnippetInv
<1>8. CASE \E c \in Cursors : Begin(c)
  BY <1>3, <1>8 DEF Begin
<1>9. CASE Follow
  BY <1>3, <1>9 DEF Follow
<1> QED BY Steps, <1>3, <1>4, <1>5, <1>6, <1>7, <1>8, <1>9

----------------------------------------------------------------------------
(* The invariant, and what it says of pages.                               *)

LEMMA Inductive == Spec => []IInv
<1>1. ASSUME Init PROVE IInv
  <2>1. Basic /\ VersionInv
    BY <1>1, BasicInit, VersionInit
  <2>2. pc = "idle" /\ got = <<>> /\ changes = 0 /\ touched = {} /\ ~ pulled /\ ~ pushed /\ ~ torn
    BY <1>1 DEF Init
  <2>3. \A p : ~ Shown(p)
    BY <2>2 DEF Shown
  <2>4. SeenInv /\ AheadInv
    BY <2>2 DEF SeenInv, AheadInv, Searching
  <2>5. MissInv
    BY <2>2 DEF MissInv, Searching
  <2>6. RepeatInv
    BY <2>2, <2>3 DEF RepeatInv
  <2>7. ExactInv
    BY <2>2 DEF ExactInv, Searching
  <2>8. SnippetInv
    BY <1>1 DEF Init, SnippetInv
  <2> QED BY <2>1, <2>4, <2>5, <2>6, <2>7, <2>8 DEF IInv, Basic
<1>2. ASSUME IInv, [Next]_vars PROVE IInv'
  <2>1. CASE Next
    <3>1. Basic' /\ VersionInv' /\ SeenInv' /\ AheadInv'
      BY <1>2, <2>1, BasicStep, VersionStep, SeenStep, AheadStep DEF IInv, Basic
    <3>2. MissInv' /\ RepeatInv' /\ ExactInv' /\ SnippetInv'
      BY <1>2, <2>1, MissStep, RepeatStep, ExactStep, SnippetStep DEF IInv, Basic
    <3> QED BY <3>1, <3>2 DEF IInv, Basic
  <2>2. CASE UNCHANGED vars
    <3>1. /\ TypeOK' /\ WalkInv'
      BY <1>2, <2>2, BasicStutter DEF IInv, Basic
    <3>2. VersionInv'
      BY <1>2, <2>2 DEF IInv, VersionInv, TimeIsNotAheadOfContent, vars
    <3>3. SeenInv'
      BY <1>2, <2>2 DEF IInv, SeenInv, Untouched, Covered, Listed, Searching, vars
    <3>4. AheadInv'
      BY <1>2, <2>2 DEF IInv, AheadInv, Untouched, Ahead, Leads, FoundAhead, Covered, Searching, vars
    <3>5. MissInv'
      BY <1>2, <2>2 DEF IInv, MissInv, Untouched, Ahead, Leads, FoundAhead, Shown, Covered,
                        Searching, vars
    <3>6. RepeatInv'
      BY <1>2, <2>2 DEF IInv, RepeatInv, Untouched, Ahead, Leads, Shown, Searching, vars
    <3>7. ExactInv'
      BY <1>2, <2>2 DEF IInv, ExactInv, Total, Ahead, Searching, vars
    <3>8. SnippetInv'
      BY <1>2, <2>2 DEF IInv, SnippetInv, Matched, vars
    <3> QED BY <3>1, <3>2, <3>3, <3>4, <3>5, <3>6, <3>7, <3>8 DEF IInv
  <2> QED BY <1>2, <2>1, <2>2
<1> QED BY <1>1, <1>2, PTL DEF Spec

\* Every variable of a search and of the client that asks for its pages keeps
\* its shape, whatever happens to the vault and in whatever order.
THEOREM TypeCorrect == Spec => []TypeOK
<1>1. IInv => TypeOK
  BY DEF IInv
<1> QED BY <1>1, Inductive, PTL

\* ReadNote takes the time of a note before its content, so what a client is
\* shown never has a time that is newer than the content beside it.
THEOREM ContentIsNotOlder == Spec => []TimeIsNotAheadOfContent
<1>1. IInv => TimeIsNotAheadOfContent
  BY DEF IInv, VersionInv
<1> QED BY <1>1, Inductive, PTL

\* SearchNotes sorts and cuts every page by itself; while the vault does not
\* change, the pages a client follows by their cursors put together are the
\* matching notes, each once and in order, from where the client started.
THEOREM PagesAreExact == Spec => []ExactPages
<1>1. ASSUME IInv PROVE ExactPages
  <2>1. got \in Seq(Results)
    BY <1>1 DEF IInv, TypeOK
  <2>2. DOMAIN got = 1..Len(got)
    BY <2>1
  <2> QED BY <1>1, <2>2 DEF IInv, ExactInv, ExactPages, Total, Ahead
<1> QED BY <1>1, Inductive, PTL

\* However the changes of the sync worker fall between the steps of the walks,
\* a client that asked for every page misses a note nobody touched only if one
\* of them moved such a note forward or tore a note that was being read.
THEOREM MissesOnlyPulled == Spec => []MissesOnlyWhatWasPulled
<1>1. ASSUME IInv PROVE MissesOnlyWhatWasPulled
  <2>1. got \in Seq(Results)
    BY <1>1 DEF IInv, TypeOK
  <2>2. DOMAIN got = 1..Len(got)
    BY <2>1
  <2> QED BY <1>1, <2>2 DEF IInv, MissInv, MissesOnlyWhatWasPulled, Untouched, Shown
<1> QED BY <1>1, Inductive, PTL

\* The same for a note a client is shown twice: one of the changes moved such a
\* note back, or tore a note that was being read.
THEOREM RepeatsOnlyPushed == Spec => []RepeatsOnlyWhatWasPushed
<1>1. ASSUME IInv PROVE RepeatsOnlyWhatWasPushed
  <2>1. got \in Seq(Results)
    BY <1>1 DEF IInv, TypeOK
  <2>2. DOMAIN got = 1..Len(got) /\ \A i \in 1..Len(got) : got[i] \in Results
    BY <2>1
  <2>3. \A i \in 1..Len(got) : got[i].path \in Paths
    BY <2>2 DEF Results
  <2> QED BY <1>1, <2>2, <2>3 DEF IInv, RepeatInv, RepeatsOnlyWhatWasPushed
<1> QED BY <1>1, Inductive, PTL

\* buildSnippet cuts half a snippet before the byte at which the term starts in
\* the lower-case text: the term is in what is cut, unless lower case has moved
\* the bytes, or the term is longer than the half behind it.
THEOREM SnippetsShowMatches == Spec => []SnippetShowsTheMatch
<1>1. ASSUME IInv PROVE SnippetShowsTheMatch
  <2>1. got \in Seq(Results) /\ query \in Queries /\ \A i \in 1..Len(got) : Matched(got[i])
    BY <1>1 DEF IInv, TypeOK, SnippetInv
  <2>2. query.term \in Seq(Runes)
    BY <2>1, QueryAssumption
  <2>3. DOMAIN got = 1..Len(got) /\ DOMAIN query.term = 1..Len(query.term)
    BY <2>1, <2>2
  <2>4. SUFFICES ASSUME NEW i \in 1..Len(got),
                        query.term # <<>>,
                        Len(query.term) <= SnippetLength - SnippetLength \div 2,
                        \A k \in 1..Len(query.term) : query.term[k] \notin Blanks,
                        Steady(got[i].note.text)
                 PROVE  Places(LowerText(got[i].snippet.window), LowerText(query.term)) # {}
    BY <2>3 DEF SnippetShowsTheMatch
  <2> DEFINE note == got[i].note
  <2>5. note \in Notes
    <3>1. got[i] \in Results
      BY <2>1
    <3> QED BY <3>1 DEF Results
  <2>6. note.text \in Seq(Runes)
    BY <2>5, NoteAssumption
  <2>7. /\ got[i].snippet = BuildSnippet(note, query.term)
        /\ ~ BuildSnippet(note, query.term).panic
        /\ MatchText(note, query.term)
    BY <2>1 DEF Matched
  <2>8. Steady(note.text)
    BY <2>4
  <2> HIDE DEF note
  <2>9. Places(LowerText(BuildSnippet(note, query.term).window), LowerText(query.term)) # {}
    BY <2>2, <2>4, <2>6, <2>7, <2>8, SnippetShows
  <2> QED BY <2>7, <2>9
<1> QED BY <1>1, Inductive, PTL
=============================================================================
