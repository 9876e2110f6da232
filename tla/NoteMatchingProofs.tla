-------------------------- MODULE NoteMatchingProofs --------------------------
(***************************************************************************)
(* Proofs about the pure half of the search: offsets in bytes, the words of *)
(* a text, and that a snippet is cut where it shows the match.             *)
(***************************************************************************)
EXTENDS NoteMatching, SequenceTheorems, WellFoundedInduction, TLAPS

----------------------------------------------------------------------------
(* Induction, for sets of numbers.                                         *)

LEMMA Least ==
  ASSUME NEW S \in SUBSET Nat, S # {}
  PROVE  \E x \in S : \A y \in S : x <= y
<1>1. IsWellFoundedOn(OpToRel(<, Nat), Nat)
  BY NatLessThanWellFounded
<1>2. PICK x \in S : \A y \in S : ~ (<<y, x>> \in OpToRel(<, Nat))
  BY <1>1, WFMin
<1>3. \A y \in S : ~ (y < x)
  BY <1>2 DEF OpToRel
<1> QED BY <1>3

LEMMA Induction ==
  ASSUME NEW S, 0 \in S, \A n \in Nat : n \in S => n + 1 \in S
  PROVE  \A n \in Nat : n \in S
<1> DEFINE T == {n \in Nat : n \notin S}
<1>1. SUFFICES ASSUME T # {} PROVE FALSE
  OBVIOUS
<1>2. PICK n \in T : \A m \in T : n <= m
  BY <1>1, Least
<1>3. n \in Nat /\ n # 0 /\ n - 1 \in Nat
  BY <1>2
<1>4. n - 1 \notin T
  BY <1>2, <1>3
<1>5. (n - 1) + 1 = n
  BY <1>3
<1> QED BY <1>2, <1>3, <1>4, <1>5

\* A recursive function on an initial stretch of the numbers: its step is a
\* function of the number and of the value before.  There always is one.
Recursive(f, N, T, base, step) ==
  /\ f \in [0..N -> T]
  /\ \A n \in 0..N : f[n] = IF n = 0 THEN base ELSE step[<<n, f[n - 1]>>]

LEMMA Recursion ==
  ASSUME NEW T, NEW base, base \in T, NEW step, step \in [Nat \X T -> T], NEW M \in Nat
  PROVE  \E f : Recursive(f, M, T, base, step)
<1> DEFINE Steps(f, N) == \A n \in 0..N : f[n] = IF n = 0 THEN base ELSE step[<<n, f[n - 1]>>]
           S == {N \in Nat : \E f \in [0..N -> T] : Steps(f, N)}
<1>1. 0 \in S
  <2> DEFINE f == [n \in 0..0 |-> base]
  <2>1. f \in [0..0 -> T] /\ Steps(f, 0)
    OBVIOUS
  <2> QED BY <2>1
<1>2. ASSUME NEW N \in Nat, N \in S PROVE N + 1 \in S
  <2>1. PICK f \in [0..N -> T] : Steps(f, N)
    BY <1>2
  <2> DEFINE g == [n \in 0..N + 1 |-> IF n = N + 1 THEN step[<<n, f[N]>>] ELSE f[n]]
  <2>2. step[<<N + 1, f[N]>>] \in T
    <3>1. <<N + 1, f[N]>> \in Nat \X T
      OBVIOUS
    <3> QED BY <3>1
  <2>3. \A n \in 0..N + 1 : n # N + 1 => n \in 0..N /\ g[n] = f[n]
    OBVIOUS
  <2>4. g \in [0..N + 1 -> T] /\ g[N + 1] = step[<<N + 1, f[N]>>]
    BY <2>2, <2>3
  <2> HIDE DEF g
  <2>5. ASSUME NEW n \in 0..N + 1
        PROVE  g[n] = IF n = 0 THEN base ELSE step[<<n, g[n - 1]>>]
    <3>1. CASE n = N + 1
      <4>1. n # 0 /\ n - 1 = N /\ g[N] = f[N]
        BY <2>3, <3>1
      <4> QED BY <2>4, <3>1, <4>1
    <3>2. CASE n # N + 1
      <4>1. n \in 0..N /\ g[n] = f[n] /\ (n # 0 => g[n - 1] = f[n - 1])
        BY <2>3, <3>2
      <4> QED BY <2>1, <4>1
    <3> QED BY <3>1, <3>2
  <2> QED BY <2>4, <2>5
<1>3. \A N \in Nat : N \in S
  <2> HIDE DEF S
  <2> QED BY <1>1, <1>2, Induction
<1> QED BY <1>3 DEF Recursive

----------------------------------------------------------------------------
(* Texts and where a term is in them.                                      *)

LEMMA RunesOf ==
  ASSUME NEW text \in Seq(Runes)
  PROVE  /\ Len(text) \in Nat /\ DOMAIN text = 1..Len(text)
         /\ \A i \in 1..Len(text) : /\ text[i] \in Runes /\ Width[text[i]] \in 1..4
                                    /\ Lower[text[i]] \in Runes
BY RuneAssumption

LEMMA LowerIs ==
  ASSUME NEW text \in Seq(Runes)
  PROVE  /\ LowerText(text) \in Seq(Runes) /\ Len(LowerText(text)) = Len(text)
         /\ \A i \in 1..Len(text) : LowerText(text)[i] = Lower[text[i]]
<1>1. LowerText(text) \in [1..Len(text) -> Runes] /\ Len(text) \in Nat
  BY RunesOf DEF LowerText
<1>2. LowerText(text) \in Seq(Runes) /\ Len(LowerText(text)) = Len(text)
  BY <1>1, SeqDef
<1> QED BY <1>2, RunesOf DEF LowerText

LEMMA PlacesAre ==
  ASSUME NEW text \in Seq(Runes), NEW term \in Seq(Runes)
  PROVE  /\ Places(text, term) \subseteq 0..Len(text)
         /\ \A k : k \in Places(text, term) <=>
              /\ k \in 0..(Len(text) - Len(term))
              /\ \A i \in 1..Len(term) : text[k + i] = term[i]
<1>1. Len(text) \in Nat /\ Len(term) \in Nat
  OBVIOUS
<1>2. ASSUME NEW k \in 0..(Len(text) - Len(term))
      PROVE  SubSeq(text, k + 1, k + Len(term)) = term <=>
               \A i \in 1..Len(term) : text[k + i] = term[i]
  <2> DEFINE cut == SubSeq(text, k + 1, k + Len(term))
  <2>1. k \in Nat /\ k + 1 \in Nat /\ k + Len(term) \in Nat /\ k + Len(term) <= Len(text)
    BY <1>1
  <2>2. \A i \in k + 1..k + Len(term) : text[i] \in Runes
    BY <1>1, <2>1, RunesOf
  <2>3. /\ cut \in Seq(Runes)
        /\ Len(cut) = IF k + 1 <= k + Len(term) THEN k + Len(term) - (k + 1) + 1 ELSE 0
        /\ \A i \in 1..k + Len(term) - (k + 1) + 1 : cut[i] = text[(k + 1) + i - 1]
    BY <2>1, <2>2, SubSeqProperties
  <2> HIDE DEF cut
  <2>4. Len(cut) = Len(term)
    BY <1>1, <2>1, <2>3
  <2>5. ASSUME NEW i \in 1..Len(term) PROVE cut[i] = text[k + i]
    <3>1. i \in 1..k + Len(term) - (k + 1) + 1 /\ (k + 1) + i - 1 = k + i
      BY <1>1, <2>1
    <3> QED BY <2>3, <3>1
  <2>6. cut = term <=> \A i \in 1..Len(term) : cut[i] = term[i]
    BY <2>3, <2>4, SeqEqual
  <2> QED BY <2>5, <2>6 DEF cut
<1>3. Places(text, term) \subseteq 0..Len(text)
  BY <1>1 DEF Places
<1> QED BY <1>2, <1>3 DEF Places

----------------------------------------------------------------------------
(* Bytes.                                                                  *)

LEMMA OffsetsAre ==
  ASSUME NEW text \in Seq(Runes)
  PROVE  /\ BytesBefore(text, 0) = 0
         /\ \A n \in 0..Len(text) : BytesBefore(text, n) \in Nat
         /\ \A n \in 1..Len(text) :
              BytesBefore(text, n) = BytesBefore(text, n - 1) + Width[text[n]]
<1> DEFINE N == Len(text)
           step == [x \in Nat \X Nat |->
                      IF x[1] \in 1..N THEN x[2] + Width[text[x[1]]] ELSE 0]
           Is(f) == f = [n \in 0..N |-> IF n = 0 THEN 0 ELSE f[n - 1] + Width[text[n]]]
<1>1. N \in Nat /\ \A n \in 1..N : Width[text[n]] \in Nat
  BY RunesOf
<1>2. step \in [Nat \X Nat -> Nat]
  BY <1>1
<1>3. PICK f \in [0..N -> Nat] : \A n \in 0..N : f[n] = IF n = 0 THEN 0 ELSE step[<<n, f[n - 1]>>]
  <2> HIDE DEF step
  <2>1. \E f : Recursive(f, N, Nat, 0, step)
    BY <1>1, <1>2, Recursion
  <2> QED BY <2>1 DEF Recursive
<1>4. ASSUME NEW n \in 0..N, n # 0 PROVE f[n] = f[n - 1] + Width[text[n]]
  <2>0. n \in 1..N /\ n - 1 \in 0..N
    BY <1>1, <1>4
  <2>1. <<n, f[n - 1]>> \in Nat \X Nat
    BY <1>1, <1>3, <2>0
  <2>2. step[<<n, f[n - 1]>>] = f[n - 1] + Width[text[n]]
    BY <2>0, <2>1
  <2> QED BY <1>3, <1>4, <2>2
<1>5. Is(f)
  <2>1. \A n \in 0..N : f[n] = IF n = 0 THEN 0 ELSE f[n - 1] + Width[text[n]]
    BY <1>3, <1>4
  <2>2. f = [n \in 0..N |-> f[n]]
    BY <1>3
  <2> QED BY <2>1, <2>2
<1>6. Is(ByteOffsets(text))
  BY <1>5 DEF ByteOffsets
<1> DEFINE g == ByteOffsets(text)
<1>7. g[0] = 0 /\ \A n \in 1..N : g[n] = g[n - 1] + Width[text[n]]
  <2> HIDE DEF g
  <2>1. \A n \in 0..N : g[n] = IF n = 0 THEN 0 ELSE g[n - 1] + Width[text[n]]
    BY <1>6 DEF g
  <2> QED BY <1>1, <2>1
<1>8. \A n \in Nat : n \in 0..N => g[n] \in Nat
  <2> DEFINE S == {n \in Nat : n \in 0..N => g[n] \in Nat}
  <2> HIDE DEF g
  <2>1. 0 \in S
    BY <1>7
  <2>2. ASSUME NEW n \in Nat, n \in S PROVE n + 1 \in S
    <3>1. SUFFICES ASSUME n + 1 \in 0..N PROVE g[n + 1] \in Nat
      OBVIOUS
    <3>2. n \in 0..N /\ n + 1 \in 1..N /\ (n + 1) - 1 = n
      BY <1>1, <3>1
    <3> QED BY <1>1, <1>7, <2>2, <3>2
  <2> HIDE DEF S
  <2>3. \A n \in Nat : n \in S
    BY <2>1, <2>2, Induction
  <2> QED BY <2>3 DEF S
<1>9. \A n \in 0..N : g[n] \in Nat
  BY <1>1, <1>8
<1> QED BY <1>7, <1>9 DEF BytesBefore

\* Every rune takes a byte.
LEMMA OffsetsGrow ==
  ASSUME NEW text \in Seq(Runes), NEW i \in 0..Len(text), NEW j \in 0..Len(text), i <= j
  PROVE  BytesBefore(text, j) >= BytesBefore(text, i) + (j - i)
<1> DEFINE S == {d \in Nat : i + d <= Len(text) =>
                              BytesBefore(text, i + d) >= BytesBefore(text, i) + d}
<1>0. Len(text) \in Nat /\ i \in Nat /\ j \in Nat /\ BytesBefore(text, i) \in Nat
  BY RunesOf, OffsetsAre
<1>1. 0 \in S
  BY <1>0
<1>2. ASSUME NEW d \in Nat, d \in S PROVE d + 1 \in S
  <2>1. SUFFICES ASSUME i + (d + 1) <= Len(text)
                 PROVE  BytesBefore(text, i + (d + 1)) >= BytesBefore(text, i) + (d + 1)
    OBVIOUS
  <2>2. /\ i + (d + 1) \in 1..Len(text) /\ (i + (d + 1)) - 1 = i + d /\ i + d \in 0..Len(text)
        /\ i + d <= Len(text)
    BY <1>0, <2>1
  <2>3. /\ BytesBefore(text, i + (d + 1)) = BytesBefore(text, i + d) + Width[text[i + (d + 1)]]
        /\ Width[text[i + (d + 1)]] \in 1..4 /\ BytesBefore(text, i + d) \in Nat
    BY <2>2, OffsetsAre, RunesOf
  <2>4. BytesBefore(text, i + d) >= BytesBefore(text, i) + d
    BY <1>2, <2>2
  <2>5. PICK a \in Nat, b \in Nat, w \in 1..4 :
          a = BytesBefore(text, i + d) /\ b = BytesBefore(text, i) /\ w = Width[text[i + (d + 1)]]
    BY <1>0, <2>3
  <2>6. a >= b + d => a + w >= b + (d + 1)
    OBVIOUS
  <2> QED BY <2>3, <2>4, <2>5, <2>6
<1> HIDE DEF S
<1>3. \A d \in Nat : d \in S
  BY <1>1, <1>2, Induction
<1>4. j - i \in Nat /\ i + (j - i) = j /\ j <= Len(text)
  BY <1>0
<1> QED BY <1>3, <1>4 DEF S

LEMMA RunesUpToIs ==
  ASSUME NEW text \in Seq(Runes), NEW byte \in Nat
  PROVE  /\ RunesUpTo(text, byte) \in 0..Len(text)
         /\ BytesBefore(text, RunesUpTo(text, byte)) <= byte
         /\ RunesUpTo(text, byte) < Len(text) =>
              byte < BytesBefore(text, RunesUpTo(text, byte) + 1)
<1> DEFINE Fits(k) == /\ BytesBefore(text, k) <= byte
                      /\ k < Len(text) => byte < BytesBefore(text, k + 1)
           past == {k \in 0..Len(text) : BytesBefore(text, k) > byte}
<1>0. Len(text) \in Nat /\ BytesBefore(text, 0) = 0
      /\ \A n \in 0..Len(text) : BytesBefore(text, n) \in Nat
  BY RunesOf, OffsetsAre
<1>1. \E k \in 0..Len(text) : Fits(k)
  <2>1. CASE past = {}
    <3>1. Len(text) \in 0..Len(text) /\ ~ (BytesBefore(text, Len(text)) > byte)
      BY <1>0, <2>1
    <3>2. Fits(Len(text))
      BY <1>0, <3>1
    <3> QED BY <3>1, <3>2
  <2>2. CASE past # {}
    <3>1. PICK j \in past : \A k \in past : j <= k
      <4>1. past \in SUBSET Nat
        BY <1>0
      <4> QED BY <2>2, <4>1, Least
    <3>2. j # 0 /\ j \in Nat /\ j - 1 \in 0..Len(text) /\ j - 1 \notin past /\ (j - 1) + 1 = j
      BY <1>0, <3>1
    <3>3. Fits(j - 1)
      BY <1>0, <3>1, <3>2
    <3> QED BY <3>2, <3>3
  <2> QED BY <2>1, <2>2
<1> QED BY <1>1 DEF RunesUpTo

----------------------------------------------------------------------------
(* Words.                                                                  *)

\* next is what is kept after one more rune.
OneMore(kept, rune, next) ==
  /\ next \in Seq(Runes) /\ Len(kept) <= Len(next) /\ Len(next) <= Len(kept) + 1
  /\ \A i \in 1..Len(kept) : next[i] = kept[i]
  /\ rune \notin Blanks => Len(next) = Len(kept) + 1 /\ next[Len(kept) + 1] = rune
  /\ \A i \in 1..Len(next) : i \in 1..Len(kept) \/ next[i] \in {rune, Space}

LEMMA SqueezeIs ==
  ASSUME NEW kept \in Seq(Runes), NEW rune \in Runes
  PROVE  OneMore(kept, rune, Squeeze(kept, rune))
<1>1. Len(kept) \in Nat /\ Space \in Runes
  BY RuneAssumption
<1>2. ASSUME NEW r \in Runes
      PROVE  /\ Append(kept, r) \in Seq(Runes) /\ Len(Append(kept, r)) = Len(kept) + 1
             /\ \A i \in 1..Len(kept) : Append(kept, r)[i] = kept[i]
             /\ Append(kept, r)[Len(kept) + 1] = r
  BY <1>1, AppendProperties
<1>3. CASE Squeeze(kept, rune) = kept
  <2>1. ~ (rune \notin Blanks)
    <3> SUFFICES ASSUME rune \notin Blanks PROVE FALSE
      OBVIOUS
    <3>1. Squeeze(kept, rune) = Append(kept, rune)
      BY DEF Squeeze
    <3>2. Len(kept) = Len(kept) + 1
      BY <1>2, <1>3, <3>1
    <3> QED BY <1>1, <3>2
  <2> QED BY <1>1, <1>3, <2>1 DEF OneMore
<1>4. CASE Squeeze(kept, rune) # kept
  <2>1. \/ Squeeze(kept, rune) = Append(kept, rune)
        \/ rune \in Blanks /\ Squeeze(kept, rune) = Append(kept, Space)
    BY <1>4 DEF Squeeze
  <2>2. CASE Squeeze(kept, rune) = Append(kept, rune)
    BY <1>1, <1>2, <2>2 DEF OneMore
  <2>3. CASE rune \in Blanks /\ Squeeze(kept, rune) = Append(kept, Space)
    BY <1>1, <1>2, <2>3 DEF OneMore
  <2> QED BY <2>1, <2>2, <2>3
<1> QED BY <1>3, <1>4

LEMMA SqueezedAre ==
  ASSUME NEW text \in Seq(Runes)
  PROVE  /\ Squeezed(text)[0] = <<>>
         /\ \A n \in 0..Len(text) : Squeezed(text)[n] \in Seq(Runes)
         /\ \A n \in 1..Len(text) : Squeezed(text)[n] = Squeeze(Squeezed(text)[n - 1], text[n])
<1> DEFINE N == Len(text)
           T == Seq(Runes)
           step == [x \in Nat \X T |->
                      IF x[1] \in 1..N THEN Squeeze(x[2], text[x[1]]) ELSE <<>>]
           Is(f) == f = [n \in 0..N |-> IF n = 0 THEN <<>> ELSE Squeeze(f[n - 1], text[n])]
<1>1. N \in Nat /\ \A n \in 1..N : text[n] \in Runes
  BY RunesOf
<1>2. step \in [Nat \X T -> T]
  <2>1. ASSUME NEW n \in Nat, NEW kept \in T
        PROVE  (IF n \in 1..N THEN Squeeze(kept, text[n]) ELSE <<>>) \in T
    <3>1. CASE n \in 1..N
      BY <1>1, <3>1, SqueezeIs DEF OneMore
    <3>2. CASE n \notin 1..N
      BY <3>2, EmptySeq
    <3> QED BY <3>1, <3>2
  <2>2. \A x \in Nat \X T : x[1] \in Nat /\ x[2] \in T
    OBVIOUS
  <2> HIDE DEF T, N
  <2> QED BY <2>1, <2>2
<1>3. PICK f : Recursive(f, N, T, <<>>, step)
  <2>1. <<>> \in T
    BY EmptySeq
  <2> HIDE DEF step, T
  <2> QED BY <1>1, <1>2, <2>1, Recursion
<1>4. /\ f \in [0..N -> T]
      /\ \A n \in 0..N : f[n] = IF n = 0 THEN <<>> ELSE step[<<n, f[n - 1]>>]
  BY <1>3 DEF Recursive
<1>5. ASSUME NEW n \in 0..N, n # 0 PROVE f[n] = Squeeze(f[n - 1], text[n])
  <2>1. n \in 1..N /\ n - 1 \in 0..N /\ n \in Nat
    BY <1>1, <1>5
  <2>2. <<n, f[n - 1]>> \in Nat \X T
    BY <1>4, <2>1
  <2>3. step[<<n, f[n - 1]>>] = Squeeze(f[n - 1], text[n])
    <3> HIDE DEF T
    <3> QED BY <2>1, <2>2
  <2> QED BY <1>4, <1>5, <2>3
<1>6. Is(f)
  <2> HIDE DEF T, step
  <2>1. \A n \in 0..N : f[n] = IF n = 0 THEN <<>> ELSE Squeeze(f[n - 1], text[n])
    BY <1>4, <1>5
  <2>2. f = [n \in 0..N |-> f[n]]
    BY <1>4
  <2> QED BY <2>1, <2>2
<1>7. Is(Squeezed(text))
  BY <1>6 DEF Squeezed
<1> DEFINE g == Squeezed(text)
<1>8. g[0] = <<>> /\ \A n \in 1..N : g[n] = Squeeze(g[n - 1], text[n])
  <2> HIDE DEF g
  <2>1. \A n \in 0..N : g[n] = IF n = 0 THEN <<>> ELSE Squeeze(g[n - 1], text[n])
    BY <1>7 DEF g
  <2> QED BY <1>1, <2>1
<1>9. \A n \in Nat : n \in 0..N => g[n] \in T
  <2> DEFINE S == {n \in Nat : n \in 0..N => g[n] \in T}
  <2> HIDE DEF g
  <2>1. 0 \in S
    BY <1>8, EmptySeq
  <2>2. ASSUME NEW n \in Nat, n \in S PROVE n + 1 \in S
    <3>1. SUFFICES ASSUME n + 1 \in 0..N PROVE g[n + 1] \in T
      OBVIOUS
    <3>2. n \in 0..N /\ n + 1 \in 1..N /\ (n + 1) - 1 = n
      BY <1>1, <3>1
    <3>3. g[n] \in Seq(Runes) /\ text[n + 1] \in Runes /\ g[n + 1] = Squeeze(g[n], text[n + 1])
      BY <1>1, <1>8, <2>2, <3>2
    <3>4. Squeeze(g[n], text[n + 1]) \in Seq(Runes)
      BY <3>3, SqueezeIs DEF OneMore
    <3> QED BY <3>3, <3>4
  <2> HIDE DEF S
  <2>3. \A n \in Nat : n \in S
    BY <2>1, <2>2, Induction
  <2> QED BY <2>3 DEF S
<1>10. \A n \in 0..N : g[n] \in T
  BY <1>1, <1>9
<1> QED BY <1>8, <1>10

LEMMA NormalIs ==
  ASSUME NEW text \in Seq(Runes)
  PROVE  LET whole == Squeezed(text)[Len(text)]
             words == NormalizeSnippetText(text) IN
         /\ words \in Seq(Runes) /\ Len(whole) \in Nat /\ Len(words) <= Len(whole)
         /\ \A i \in 1..Len(words) : words[i] = whole[i]
         /\ \A i \in 1..Len(whole) : i \notin 1..Len(words) => whole[i] = Space
<1> DEFINE whole == Squeezed(text)[Len(text)]
           words == NormalizeSnippetText(text)
<1>1. whole \in Seq(Runes)
  BY RunesOf, SqueezedAre
<1>2. words = IF whole # <<>> /\ Last(whole) = Space THEN Front(whole) ELSE whole
  BY DEF NormalizeSnippetText
<1> HIDE DEF whole, words
<1>3. Len(whole) \in Nat
  BY <1>1
<1>4. CASE whole # <<>> /\ Last(whole) = Space
  <2>1. words = SubSeq(whole, 1, Len(whole) - 1) /\ whole[Len(whole)] = Space /\ Len(whole) # 0
    BY <1>1, <1>2, <1>4, EmptySeq DEF Front, Last
  <2>2. \A i \in 1..Len(whole) - 1 : whole[i] \in Runes
    BY <1>1, <1>3
  <2>3. PICK m \in Nat : m = Len(whole) - 1 /\ m < Len(whole)
    BY <1>3, <2>1
  <2>4. \A i \in 1..m : whole[i] \in Runes
    BY <2>2, <2>3
  <2>5. /\ SubSeq(whole, 1, m) \in Seq(Runes)
        /\ Len(SubSeq(whole, 1, m)) = IF 1 <= m THEN m - 1 + 1 ELSE 0
        /\ \A i \in 1..m - 1 + 1 : SubSeq(whole, 1, m)[i] = whole[1 + i - 1]
    BY <2>4, SubSeqProperties
  <2>6. words \in Seq(Runes) /\ Len(words) = m /\ \A i \in 1..m : words[i] = whole[i]
    BY <2>1, <2>3, <2>5
  <2>7. \A i \in 1..Len(whole) : i \notin 1..m => whole[i] = Space
    BY <1>3, <2>1, <2>3
  <2> QED BY <1>3, <2>3, <2>6, <2>7 DEF whole, words
<1>5. CASE ~ (whole # <<>> /\ Last(whole) = Space)
  BY <1>1, <1>2, <1>3, <1>5 DEF whole, words
<1> QED BY <1>4, <1>5

\* What a snippet is, for every note and every term.
LEMMA SnippetIs ==
  ASSUME NEW note, note.text \in Seq(Runes), NEW term \in Seq(Runes)
  PROVE  LET text == NormalizeSnippetText(note.text)
             index == FirstTermIndex(text, term)
             start == SnippetStart(index)
             from == RunesUpTo(text, start)
             to == IF from + SnippetLength > Len(text) THEN Len(text) ELSE from + SnippetLength
             snippet == BuildSnippet(note, term) IN
         /\ index \in Int /\ start \in Nat /\ from \in 0..Len(text)
         /\ snippet \in [panic: BOOLEAN, from: Nat, window: Seq(Runes)]
         /\ text # <<>> /\ ~ snippet.panic => snippet = Window(text, from, SnippetLength)
         /\ SubSeq(text, from + 1, to) \in Seq(Runes) /\ to \in from..Len(text)
         /\ Len(SubSeq(text, from + 1, to)) = to - from
         /\ \A i \in 1..to - from : SubSeq(text, from + 1, to)[i] = text[from + i]
<1> DEFINE text == NormalizeSnippetText(note.text)
           index == FirstTermIndex(text, term)
           start == SnippetStart(index)
           from == RunesUpTo(text, start)
           to == IF from + SnippetLength > Len(text) THEN Len(text) ELSE from + SnippetLength
           snippet == BuildSnippet(note, term)
           lower == LowerText(text)
           places == Places(lower, LowerText(term))
<1>1. text \in Seq(Runes)
  BY NormalIs
<1> HIDE DEF text
<1>2. lower \in Seq(Runes) /\ LowerText(term) \in Seq(Runes) /\ Len(lower) = Len(text)
  BY <1>1, LowerIs
<1>3. index \in Int
  <2>1. CASE term = <<>> \/ places = {}
    BY <2>1 DEF FirstTermIndex
  <2>2. CASE ~ (term = <<>> \/ places = {})
    <3>1. places \subseteq 0..Len(lower) /\ Len(lower) \in Nat
      BY <1>2, PlacesAre
    <3>2. places \in SUBSET Nat
      BY <3>1
    <3>3. \E k \in places : \A j \in places : k <= j
      BY <2>2, <3>2, Least
    <3> DEFINE first == CHOOSE k \in places : \A j \in places : k <= j
    <3>4. first \in places
      BY <3>3
    <3>5. index = BytesBefore(lower, first)
      BY <2>2 DEF FirstTermIndex
    <3> HIDE DEF first, lower
    <3>6. BytesBefore(lower, first) \in Nat
      BY <1>2, <3>1, <3>4, OffsetsAre
    <3> QED BY <3>5, <3>6
  <2> QED BY <2>1, <2>2
<1> HIDE DEF index
<1>4. start \in Nat
  BY <1>3, LengthAssumption DEF SnippetStart
<1> HIDE DEF start
<1>5. from \in 0..Len(text) /\ Len(text) \in Nat
  <2>1. RunesUpTo(text, start) \in 0..Len(text)
    BY <1>1, <1>4, RunesUpToIs
  <2>2. Len(text) \in Nat
    BY <1>1
  <2> QED BY <2>1, <2>2
<1> HIDE DEF from
<1>6. to \in from..Len(text)
  BY <1>5, LengthAssumption
<1> HIDE DEF to
<1>7. /\ SubSeq(text, from + 1, to) \in Seq(Runes)
      /\ Len(SubSeq(text, from + 1, to)) = to - from
      /\ \A i \in 1..to - from : SubSeq(text, from + 1, to)[i] = text[from + i]
  <2>1. \A i \in from + 1..to : text[i] \in Runes
    BY <1>1, <1>5, <1>6
  <2>2. from + 1 \in Nat /\ to \in Nat /\ to - (from + 1) + 1 = to - from
    BY <1>5, <1>6
  <2>3. /\ SubSeq(text, from + 1, to) \in Seq(Runes)
        /\ Len(SubSeq(text, from + 1, to)) = IF from + 1 <= to THEN to - (from + 1) + 1 ELSE 0
        /\ \A i \in 1..to - (from + 1) + 1 : SubSeq(text, from + 1, to)[i] = text[(from + 1) + i - 1]
    BY <2>1, <2>2, SubSeqProperties
  <2>4. Len(SubSeq(text, from + 1, to)) = to - from
    BY <1>5, <1>6, <2>3
  <2>5. ASSUME NEW i \in 1..to - from PROVE SubSeq(text, from + 1, to)[i] = text[from + i]
    <3>1. i \in 1..to - (from + 1) + 1 /\ (from + 1) + i - 1 = from + i
      BY <1>5, <2>2
    <3> QED BY <2>3, <3>1
  <2> QED BY <2>3, <2>4, <2>5
<1>8. Window(text, from, SnippetLength) =
        [panic |-> FALSE, from |-> from, window |-> SubSeq(text, from + 1, to)]
  BY DEF Window, to
<1>9. \/ snippet = NoSnippet /\ text = <<>>
      \/ snippet = [NoSnippet EXCEPT !.panic = TRUE]
      \/ snippet = Window(text, from, SnippetLength)
  BY DEF BuildSnippet, text, index, start, from
<1> HIDE DEF snippet
<1>10. snippet \in [panic: BOOLEAN, from: Nat, window: Seq(Runes)]
  <2>1. NoSnippet \in [panic: BOOLEAN, from: Nat, window: Seq(Runes)]
        /\ [NoSnippet EXCEPT !.panic = TRUE] \in [panic: BOOLEAN, from: Nat, window: Seq(Runes)]
    BY EmptySeq DEF NoSnippet
  <2>2. from \in Nat /\ FALSE \in BOOLEAN /\ SubSeq(text, from + 1, to) \in Seq(Runes)
    BY <1>5, <1>7
  <2> DEFINE cut == SubSeq(text, from + 1, to)
  <2>3. Window(text, from, SnippetLength) = [panic |-> FALSE, from |-> from, window |-> cut]
    BY <1>8
  <2> HIDE DEF cut
  <2>4. Window(text, from, SnippetLength) \in [panic: BOOLEAN, from: Nat, window: Seq(Runes)]
    BY <2>2, <2>3 DEF cut
  <2> QED BY <1>9, <2>1, <2>4, Zenon
<1>11. text # <<>> /\ ~ snippet.panic => snippet = Window(text, from, SnippetLength)
  BY <1>9 DEF NoSnippet
<1> QED BY <1>3, <1>4, <1>5, <1>6, <1>7, <1>10, <1>11 DEF text, index, start, from, to, snippet

----------------------------------------------------------------------------
(* A snippet shows the match.                                              *)

\* What has been kept of a text is never taken back.
LEMMA SqueezedGrow ==
  ASSUME NEW text \in Seq(Runes), NEW i \in 0..Len(text), NEW j \in 0..Len(text), i <= j
  PROVE  /\ Len(Squeezed(text)[i]) <= Len(Squeezed(text)[j])
         /\ \A k \in 1..Len(Squeezed(text)[i]) : Squeezed(text)[j][k] = Squeezed(text)[i][k]
<1> DEFINE g == Squeezed(text)
           Grown(d) == /\ Len(g[i]) <= Len(g[i + d])
                       /\ \A k \in 1..Len(g[i]) : g[i + d][k] = g[i][k]
           S == {d \in Nat : i + d <= Len(text) => Grown(d)}
<1>0. /\ Len(text) \in Nat /\ i \in Nat /\ j \in Nat
      /\ \A n \in 0..Len(text) : g[n] \in Seq(Runes) /\ Len(g[n]) \in Nat
      /\ \A n \in 1..Len(text) : text[n] \in Runes /\ g[n] = Squeeze(g[n - 1], text[n])
  BY RunesOf, SqueezedAre
<1> HIDE DEF g
<1>1. 0 \in S
  BY <1>0
<1>2. ASSUME NEW d \in Nat, d \in S PROVE d + 1 \in S
  <2>1. SUFFICES ASSUME i + (d + 1) <= Len(text) PROVE Grown(d + 1)
    OBVIOUS
  <2>2. /\ i + (d + 1) \in 1..Len(text) /\ (i + (d + 1)) - 1 = i + d /\ i + d \in 0..Len(text)
        /\ i + d <= Len(text)
    BY <1>0, <2>1
  <2>3. /\ g[i + d] \in Seq(Runes) /\ text[i + (d + 1)] \in Runes
        /\ g[i + (d + 1)] = Squeeze(g[i + d], text[i + (d + 1)])
    BY <1>0, <2>2
  <2>4. /\ Len(g[i + d]) <= Len(g[i + (d + 1)])
        /\ \A k \in 1..Len(g[i + d]) : g[i + (d + 1)][k] = g[i + d][k]
    <3>1. OneMore(g[i + d], text[i + (d + 1)], g[i + (d + 1)])
      BY <2>3, SqueezeIs
    <3> QED BY <3>1 DEF OneMore
  <2>5. Grown(d)
    BY <1>2, <2>2
  <2>6. Len(g[i]) \in Nat /\ Len(g[i + d]) \in Nat /\ Len(g[i + (d + 1)]) \in Nat
    BY <1>0, <2>2
  <2> QED BY <2>4, <2>5, <2>6
<1> HIDE DEF S
<1>3. \A d \in Nat : d \in S
  BY <1>1, <1>2, Induction
<1>4. j - i \in Nat /\ i + (j - i) = j /\ j <= Len(text)
  BY <1>0
<1> QED BY <1>3, <1>4 DEF S, g

\* Runes without a blank among them stay together.
LEMMA WordsStay ==
  ASSUME NEW text \in Seq(Runes), NEW k \in 0..Len(text), NEW m \in Nat \ {0}, k + m <= Len(text),
         \A i \in 1..m : text[k + i] \notin Blanks
  PROVE  LET p == Len(Squeezed(text)[k])
             words == NormalizeSnippetText(text) IN
         p \in Nat /\ p + m <= Len(words) /\ \A i \in 1..m : words[p + i] = text[k + i]
<1> DEFINE g == Squeezed(text)
           p == Len(g[k])
           words == NormalizeSnippetText(text)
           whole == g[Len(text)]
           S == {d \in Nat : d <= m => Len(g[k + d]) = p + d}
<1>0. /\ Len(text) \in Nat /\ k \in Nat
      /\ \A n \in 0..Len(text) : g[n] \in Seq(Runes) /\ Len(g[n]) \in Nat
      /\ \A n \in 1..Len(text) : text[n] \in Runes /\ g[n] = Squeeze(g[n - 1], text[n])
  BY RunesOf, SqueezedAre
<1>1. /\ words \in Seq(Runes) /\ Len(whole) \in Nat /\ Len(words) <= Len(whole)
      /\ \A i \in 1..Len(words) : words[i] = whole[i]
      /\ \A i \in 1..Len(whole) : i \notin 1..Len(words) => whole[i] = Space
  BY NormalIs
<1>2. \A a, b \in 0..Len(text) : a <= b => /\ Len(g[a]) <= Len(g[b])
                                          /\ \A i \in 1..Len(g[a]) : g[b][i] = g[a][i]
  BY SqueezedGrow
<1> HIDE DEF g, words
<1>3. ASSUME NEW d \in Nat, d < m
      PROVE  /\ k + (d + 1) \in 1..Len(text) /\ k + d \in 0..Len(text)
             /\ Len(g[k + (d + 1)]) = Len(g[k + d]) + 1
             /\ g[k + (d + 1)][Len(g[k + d]) + 1] = text[k + (d + 1)]
  <2>1. /\ k + (d + 1) \in 1..Len(text) /\ (k + (d + 1)) - 1 = k + d /\ k + d \in 0..Len(text)
        /\ d + 1 \in 1..m
    BY <1>0, <1>3
  <2>2. /\ g[k + d] \in Seq(Runes) /\ text[k + (d + 1)] \in Runes
        /\ text[k + (d + 1)] \notin Blanks
        /\ g[k + (d + 1)] = Squeeze(g[k + d], text[k + (d + 1)])
    BY <1>0, <2>1
  <2>3. /\ Len(g[k + (d + 1)]) = Len(g[k + d]) + 1
        /\ g[k + (d + 1)][Len(g[k + d]) + 1] = text[k + (d + 1)]
    <3>1. OneMore(g[k + d], text[k + (d + 1)], g[k + (d + 1)])
      BY <2>2, SqueezeIs
    <3> QED BY <2>2, <3>1 DEF OneMore
  <2> QED BY <2>1, <2>3
<1>4. p \in Nat
  BY <1>0
<1>5. \A d \in Nat : d \in S
  <2>0. Len(g[k]) = p
    OBVIOUS
  <2> HIDE DEF p
  <2>1. 0 \in S
    BY <1>0, <1>4, <2>0
  <2>2. ASSUME NEW d \in Nat, d \in S PROVE d + 1 \in S
    <3>1. SUFFICES ASSUME d + 1 <= m PROVE Len(g[k + (d + 1)]) = p + (d + 1)
      OBVIOUS
    <3>2. d < m /\ d <= m
      BY <3>1
    <3>3. Len(g[k + (d + 1)]) = Len(g[k + d]) + 1 /\ Len(g[k + d]) = p + d
      BY <1>3, <2>2, <3>2
    <3> QED BY <1>4, <3>3
  <2> HIDE DEF S
  <2> QED BY <2>1, <2>2, Induction
<1>6. ASSUME NEW i \in 1..m
      PROVE  p + i <= Len(whole) /\ p + i \in 1..Len(whole) /\ whole[p + i] = text[k + i]
  <2>1. PICK d \in Nat : i = d + 1 /\ d < m /\ d <= m
    <3>1. i - 1 \in Nat /\ i = (i - 1) + 1 /\ i - 1 < m /\ i - 1 <= m
      OBVIOUS
    <3> QED BY <3>1
  <2>2. Len(g[k + d]) = p + d
    BY <1>5, <2>1
  <2>3. /\ k + (d + 1) \in 1..Len(text)
        /\ Len(g[k + (d + 1)]) = Len(g[k + d]) + 1
        /\ g[k + (d + 1)][Len(g[k + d]) + 1] = text[k + (d + 1)]
    BY <1>3, <2>1
  <2> HIDE DEF p
  <2>4. (p + d) + 1 = p + i /\ k + (d + 1) = k + i
    BY <1>4, <2>1
  <2>5. Len(g[k + i]) = p + i /\ g[k + i][p + i] = text[k + i] /\ k + i \in 0..Len(text)
    <3>1. Len(g[k + i]) = (p + d) + 1 /\ g[k + i][(p + d) + 1] = text[k + i]
      BY <2>2, <2>3, <2>4
    <3>2. k + i \in 0..Len(text)
      BY <1>0, <2>3, <2>4
    <3> QED BY <2>4, <3>1, <3>2
  <2>6. Len(text) \in 0..Len(text) /\ k + i <= Len(text)
    BY <1>0, <2>5
  <2>7. Len(g[k + i]) <= Len(whole) /\ \A n \in 1..Len(g[k + i]) : whole[n] = g[k + i][n]
    BY <1>2, <2>5, <2>6
  <2>8. p + i \in 1..Len(g[k + i]) /\ p + i \in 1..Len(whole) /\ p + i <= Len(whole)
    BY <1>1, <1>4, <2>5, <2>7
  <2> QED BY <2>5, <2>7, <2>8
<1> HIDE DEF p, whole, S
<1>7. ASSUME NEW i \in 1..m PROVE p + i \in 1..Len(words)
  <2>1. whole[p + i] # Space
    <3>1. text[k + i] \notin Blanks
      OBVIOUS
    <3> QED BY <1>6, <3>1, RuneAssumption
  <2> QED BY <1>1, <1>6, <2>1
<1>8. p + m <= Len(words)
  <2>1. m \in 1..m
    OBVIOUS
  <2>2. p + m \in 1..Len(words)
    BY <1>7, <2>1
  <2> QED BY <1>1, <2>2
<1>9. \A i \in 1..m : words[p + i] = text[k + i]
  BY <1>1, <1>6, <1>7
<1> QED BY <1>4, <1>8, <1>9 DEF p, words, g

\* Where a term is, in terms of the runes.
LEMMA LowerPlaces ==
  ASSUME NEW text \in Seq(Runes), NEW term \in Seq(Runes)
  PROVE  \A k : k \in Places(LowerText(text), LowerText(term)) <=>
           /\ k \in 0..(Len(text) - Len(term))
           /\ \A i \in 1..Len(term) : Lower[text[k + i]] = Lower[term[i]]
<1>1. /\ LowerText(text) \in Seq(Runes) /\ Len(LowerText(text)) = Len(text)
      /\ LowerText(term) \in Seq(Runes) /\ Len(LowerText(term)) = Len(term)
      /\ \A i \in 1..Len(text) : LowerText(text)[i] = Lower[text[i]]
      /\ \A i \in 1..Len(term) : LowerText(term)[i] = Lower[term[i]]
      /\ Len(text) \in Nat /\ Len(term) \in Nat
  BY LowerIs, RunesOf
<1>2. ASSUME NEW k \in 0..(Len(text) - Len(term)), NEW i \in 1..Len(term)
      PROVE  k + i \in 1..Len(text)
  BY <1>1
<1>3. \A k : k \in Places(LowerText(text), LowerText(term)) <=>
        /\ k \in 0..(Len(text) - Len(term))
        /\ \A i \in 1..Len(term) : LowerText(text)[k + i] = LowerText(term)[i]
  BY <1>1, PlacesAre
<1>4. ASSUME NEW k \in 0..(Len(text) - Len(term)), NEW i \in 1..Len(term)
      PROVE  LowerText(text)[k + i] = LowerText(term)[i] <=> Lower[text[k + i]] = Lower[term[i]]
  BY <1>1, <1>2
<1> QED BY <1>3, <1>4

\* A text that keeps its bytes in lower case does so when it is squeezed.
LEMMA SteadyStays ==
  ASSUME NEW text \in Seq(Runes), Steady(text)
  PROVE  Steady(NormalizeSnippetText(text))
<1> DEFINE g == Squeezed(text)
           Kept(s) == \A i \in 1..Len(s) : Width[Lower[s[i]]] = Width[s[i]]
           S == {n \in Nat : n \in 0..Len(text) => Kept(g[n])}
           words == NormalizeSnippetText(text)
<1>0. /\ Len(text) \in Nat /\ g[0] = <<>>
      /\ \A n \in 0..Len(text) : g[n] \in Seq(Runes)
      /\ \A n \in 1..Len(text) : text[n] \in Runes /\ g[n] = Squeeze(g[n - 1], text[n])
      /\ \A n \in 1..Len(text) : Width[Lower[text[n]]] = Width[text[n]]
  BY RunesOf, SqueezedAre DEF Steady
<1>1. /\ words \in Seq(Runes) /\ Len(g[Len(text)]) \in Nat /\ Len(words) <= Len(g[Len(text)])
      /\ \A i \in 1..Len(words) : words[i] = g[Len(text)][i]
  BY NormalIs
<1> HIDE DEF g, words
<1>2. 0 \in S
  BY <1>0
<1>3. ASSUME NEW n \in Nat, n \in S PROVE n + 1 \in S
  <2>1. SUFFICES ASSUME n + 1 \in 0..Len(text) PROVE Kept(g[n + 1])
    OBVIOUS
  <2>2. n \in 0..Len(text) /\ n + 1 \in 1..Len(text) /\ (n + 1) - 1 = n
    BY <1>0, <2>1
  <2>3. OneMore(g[n], text[n + 1], g[n + 1])
    <3>1. g[n] \in Seq(Runes) /\ text[n + 1] \in Runes /\ g[n + 1] = Squeeze(g[n], text[n + 1])
      BY <1>0, <2>2
    <3> QED BY <3>1, SqueezeIs
  <2>4. Kept(g[n]) /\ Width[Lower[text[n + 1]]] = Width[text[n + 1]]
    BY <1>0, <1>3, <2>2
  <2> QED BY <2>3, <2>4, RuneAssumption DEF OneMore
<1> HIDE DEF S
<1>4. \A n \in Nat : n \in S
  BY <1>2, <1>3, Induction
<1>5. Kept(g[Len(text)])
  BY <1>0, <1>4 DEF S
<1>6. \A i \in 1..Len(words) : Width[Lower[words[i]]] = Width[words[i]]
  BY <1>1, <1>5
<1>7. DOMAIN words = 1..Len(words)
  BY <1>1
<1> QED BY <1>6, <1>7 DEF Steady, words

\* Offsets agree in both cases then.
LEMMA SameOffsets ==
  ASSUME NEW text \in Seq(Runes), Steady(text)
  PROVE  \A n \in 0..Len(text) : BytesBefore(LowerText(text), n) = BytesBefore(text, n)
<1> DEFINE lower == LowerText(text)
           S == {n \in Nat : n \in 0..Len(text) => BytesBefore(lower, n) = BytesBefore(text, n)}
<1>0. /\ lower \in Seq(Runes) /\ Len(lower) = Len(text) /\ Len(text) \in Nat
      /\ \A i \in 1..Len(text) : Width[lower[i]] = Width[text[i]]
  BY LowerIs, RunesOf DEF Steady
<1> HIDE DEF lower
<1>1. /\ BytesBefore(text, 0) = 0 /\ BytesBefore(lower, 0) = 0
      /\ \A n \in 1..Len(text) :
           /\ BytesBefore(text, n) = BytesBefore(text, n - 1) + Width[text[n]]
           /\ BytesBefore(lower, n) = BytesBefore(lower, n - 1) + Width[lower[n]]
  BY <1>0, OffsetsAre
<1>2. 0 \in S
  BY <1>1
<1>3. ASSUME NEW n \in Nat, n \in S PROVE n + 1 \in S
  <2>1. SUFFICES ASSUME n + 1 \in 0..Len(text)
                 PROVE  BytesBefore(lower, n + 1) = BytesBefore(text, n + 1)
    OBVIOUS
  <2>2. n \in 0..Len(text) /\ n + 1 \in 1..Len(text) /\ (n + 1) - 1 = n
    BY <1>0, <2>1
  <2>3. BytesBefore(lower, n) = BytesBefore(text, n)
    BY <1>3, <2>2
  <2>4. /\ BytesBefore(text, n + 1) = BytesBefore(text, n) + Width[text[n + 1]]
        /\ BytesBefore(lower, n + 1) = BytesBefore(lower, n) + Width[lower[n + 1]]
    BY <1>1, <2>2
  <2> QED BY <1>0, <2>2, <2>3, <2>4
<1> HIDE DEF S
<1>4. \A n \in Nat : n \in S
  BY <1>2, <1>3, Induction
<1>5. \A n \in 0..Len(text) : n \in Nat
  BY <1>0
<1> QED BY <1>4, <1>5 DEF S, lower

\* The index of the first term is the offset, in the text itself, of a place
\* where the term is.
LEMMA IndexIsPlace ==
  ASSUME NEW text \in Seq(Runes), Steady(text), NEW term \in Seq(Runes), term # <<>>,
         Places(LowerText(text), LowerText(term)) # {}
  PROVE  \E k \in Places(LowerText(text), LowerText(term)) :
           FirstTermIndex(text, term) = BytesBefore(text, k)
<1> DEFINE lower == LowerText(text)
           places == Places(lower, LowerText(term))
           first == CHOOSE k \in places : \A j \in places : k <= j
<1>1. \A k \in places : k \in 0..Len(text) /\ k \in Nat
  <2>1. Len(text) \in Nat /\ Len(term) \in Nat
    OBVIOUS
  <2>2. \A k \in places : k \in 0..(Len(text) - Len(term))
    BY LowerPlaces
  <2> QED BY <2>1, <2>2
<1>2. \E k \in places : \A j \in places : k <= j
  <2>1. places \in SUBSET Nat
    BY <1>1
  <2> QED BY <2>1, Least
<1>3. first \in places
  BY <1>2
<1>4. FirstTermIndex(text, term) = BytesBefore(lower, first)
  BY DEF FirstTermIndex
<1> HIDE DEF first
<1>5. BytesBefore(lower, first) = BytesBefore(text, first)
  BY <1>1, <1>3, SameOffsets
<1> QED BY <1>3, <1>4, <1>5

\* A snippet that there is shows the match, if half a snippet holds the term,
\* the term has no blank, and the note keeps its bytes in lower case.
LEMMA SnippetShows ==
  ASSUME NEW note, note.text \in Seq(Runes), Steady(note.text),
         NEW term \in Seq(Runes), term # <<>>, \A i \in 1..Len(term) : term[i] \notin Blanks,
         Len(term) <= SnippetLength - SnippetLength \div 2,
         MatchText(note, term), ~ BuildSnippet(note, term).panic
  PROVE  Places(LowerText(BuildSnippet(note, term).window), LowerText(term)) # {}
<1> DEFINE m == Len(term)
           half == SnippetLength \div 2
           text == NormalizeSnippetText(note.text)
           index == FirstTermIndex(text, term)
           start == SnippetStart(index)
           from == RunesUpTo(text, start)
           to == IF from + SnippetLength > Len(text) THEN Len(text) ELSE from + SnippetLength
           window == SubSeq(text, from + 1, to)
<1>1. /\ half \in Nat /\ SnippetLength \in Nat /\ m \in Nat \ {0} /\ m <= SnippetLength - half
      /\ Len(note.text) \in Nat
  BY LengthAssumption, EmptySeq
<1>2. PICK k \in 0..(Len(note.text) - m) :
        \A i \in 1..m : Lower[note.text[k + i]] = Lower[term[i]]
  <2>1. Places(LowerText(note.text), LowerText(term)) # {}
    BY DEF MatchText
  <2>2. PICK k \in Places(LowerText(note.text), LowerText(term)) : TRUE
    BY <2>1
  <2>3. /\ k \in 0..(Len(note.text) - m)
        /\ \A i \in 1..m : Lower[note.text[k + i]] = Lower[term[i]]
    BY <2>2, LowerPlaces
  <2> QED BY <2>3
<1>3. \A i \in 1..m : note.text[k + i] \notin Blanks
  <2> SUFFICES ASSUME NEW i \in 1..m PROVE note.text[k + i] \notin Blanks
    OBVIOUS
  <2>1. k + i \in 1..Len(note.text) /\ term[i] \notin Blanks
    BY <1>1, <1>2
  <2>2. note.text[k + i] \in Runes /\ term[i] \in Runes
    BY <2>1, RunesOf
  <2> QED BY <1>2, <2>1, <2>2, RuneAssumption
<1>4. text \in Seq(Runes) /\ Len(text) \in Nat /\ Steady(text)
  BY NormalIs, SteadyStays, RunesOf
<1>5. Places(LowerText(text), LowerText(term)) # {}
  <2>1. k \in 0..Len(note.text) /\ k + m <= Len(note.text)
    BY <1>1, <1>2
  <2>2. PICK p \in Nat : p + m <= Len(text) /\ \A i \in 1..m : text[p + i] = note.text[k + i]
    BY <1>1, <1>3, <2>1, WordsStay
  <2>3. p \in 0..(Len(text) - m) /\ \A i \in 1..m : Lower[text[p + i]] = Lower[term[i]]
    <3>1. p \in 0..(Len(text) - m)
      BY <1>1, <1>4, <2>2
    <3>2. \A i \in 1..m : Lower[text[p + i]] = Lower[term[i]]
      BY <1>2, <2>2
    <3> QED BY <3>1, <3>2
  <2> HIDE DEF text
  <2> QED BY <1>4, <2>3, LowerPlaces
<1>6. PICK K \in Places(LowerText(text), LowerText(term)) : index = BytesBefore(text, K)
  BY <1>4, <1>5, IndexIsPlace
<1>7. K \in 0..(Len(text) - m) /\ \A i \in 1..m : Lower[text[K + i]] = Lower[term[i]]
  BY <1>4, LowerPlaces
<1>8. /\ start \in Nat /\ from \in 0..Len(text) /\ to \in from..Len(text)
      /\ text # <<>> => BuildSnippet(note, term).window = window
      /\ window \in Seq(Runes) /\ Len(window) = to - from
      /\ \A i \in 1..to - from : window[i] = text[from + i]
  <2>1. /\ start \in Nat /\ from \in 0..Len(text) /\ to \in from..Len(text)
        /\ text # <<>> => BuildSnippet(note, term) = Window(text, from, SnippetLength)
        /\ window \in Seq(Runes) /\ Len(window) = to - from
        /\ \A i \in 1..to - from : window[i] = text[from + i]
    BY SnippetIs
  <2>2. Window(text, from, SnippetLength).window = window
    BY DEF Window
  <2> QED BY <2>1, <2>2
<1>9. text # <<>>
  <2>1. Len(text) # 0
    BY <1>1, <1>4, <1>7
  <2> QED BY <2>1
<1>10. /\ BytesBefore(text, from) <= start
       /\ from < Len(text) => start < BytesBefore(text, from + 1)
  BY <1>4, <1>8, RunesUpToIs
<1> HIDE DEF text, half, m, window
<1>11. index \in Nat /\ start <= index /\ index <= start + half
  <2>1. index \in Nat
    <3>1. K \in 0..Len(text)
      BY <1>1, <1>4, <1>7
    <3> QED BY <1>4, <1>6, <3>1, OffsetsAre
  <2> HIDE DEF index
  <2>2. start = IF index <= half THEN 0 ELSE index - half
    BY DEF SnippetStart, half
  <2> HIDE DEF start
  <2> QED BY <1>1, <2>1, <2>2
<1> HIDE DEF index, start, from
<1>12. K \in 0..Len(text) /\ K < Len(text) /\ K + m <= Len(text) /\ K \in Nat /\ from \in Nat
  BY <1>1, <1>4, <1>7, <1>8
<1>13. from <= K
  <2> SUFFICES ASSUME K < from PROVE FALSE
    BY <1>12
  <2>1. BytesBefore(text, from) >= BytesBefore(text, K) + (from - K)
    <3>1. K <= from
      BY <1>12
    <3> QED BY <1>4, <1>8, <1>12, <3>1, OffsetsGrow
  <2>2. BytesBefore(text, from) \in Nat
    BY <1>4, <1>8, OffsetsAre
  <2> QED BY <1>6, <1>8, <1>10, <1>11, <1>12, <2>1, <2>2
<1>14. K - from <= half
  <2>1. CASE from = K
    BY <1>1, <1>12, <2>1
  <2>2. CASE from # K
    <3>1. from + 1 \in 0..Len(text) /\ from + 1 <= K /\ from < Len(text)
      BY <1>4, <1>12, <1>13, <2>2
    <3>2. BytesBefore(text, K) >= BytesBefore(text, from + 1) + (K - (from + 1))
      BY <1>4, <1>12, <3>1, OffsetsGrow
    <3>3. BytesBefore(text, from + 1) \in Nat
      BY <1>4, <3>1, OffsetsAre
    <3>4. PICK b \in Nat : b = BytesBefore(text, from + 1)
      BY <3>3
    <3>5. start < b /\ index >= b + (K - (from + 1))
      BY <1>6, <1>10, <3>1, <3>2, <3>4
    <3>6. start \in Nat /\ half \in Nat
      BY <1>1, <1>8
    <3> QED BY <1>11, <1>12, <3>5, <3>6
  <2> QED BY <2>1, <2>2
<1>15. K + m <= to
  <2>1. /\ K \in Nat /\ from \in Nat /\ m \in Nat /\ half \in Nat /\ SnippetLength \in Nat
        /\ m + half <= SnippetLength /\ K - from <= half
    BY <1>1, <1>12, <1>14
  <2>2. K + m <= from + SnippetLength
    BY <2>1
  <2> QED BY <1>12, <2>2
<1> HIDE DEF to
<1>16. K - from \in 0..(Len(window) - m)
  <2>1. /\ K \in Nat /\ from \in Nat /\ to \in Nat /\ m \in Nat
        /\ from <= K /\ K + m <= to
    BY <1>1, <1>8, <1>12, <1>13, <1>15
  <2>2. K - from \in 0..((to - from) - m)
    BY <2>1
  <2> QED BY <1>8, <2>2
<1>17. ASSUME NEW i \in 1..m PROVE Lower[window[(K - from) + i]] = Lower[term[i]]
  <2>1. (K - from) + i \in 1..to - from /\ from + ((K - from) + i) = K + i
    BY <1>1, <1>8, <1>12, <1>13, <1>15
  <2>2. window[(K - from) + i] = text[K + i]
    BY <1>8, <2>1
  <2> QED BY <1>7, <2>2
<1>18. K - from \in Places(LowerText(window), LowerText(term))
  <2>1. window \in Seq(Runes)
    BY <1>8
  <2> QED BY <1>16, <1>17, <2>1, LowerPlaces DEF m
<1> QED BY <1>8, <1>9, <1>18
===============================================================================
