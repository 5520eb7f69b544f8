--------------------------- MODULE ChunkerProofs ---------------------------
(***************************************************************************)
(* Safety of ChunkText for every text, every configured size and overlap   *)
(* and any defaults.                                                       *)
(***************************************************************************)
EXTENDS Chunker, FiniteSetTheorems, WellFoundedInduction, TLAPS

-----------------------------------------------------------------------------
(* The first and the last of a set of places. *)

LEMMA LeastIn ==
  ASSUME NEW S, S \subseteq Nat, S # {}
  PROVE  Least(S) \in S /\ \A k \in S : Least(S) <= k
<1>1. PICK i \in S : \A j \in S : ~(<<j, i>> \in OpToRel(<, Nat))
  BY WFMin, NatLessThanWellFounded
<1>2. \A j \in S : i <= j
  <2> SUFFICES ASSUME NEW j \in S PROVE i <= j
    OBVIOUS
  <2>1. i \in Nat /\ j \in Nat /\ ~(<<j, i>> \in OpToRel(<, Nat))
    BY <1>1
  <2>2. QED
    BY <2>1 DEF OpToRel
<1>3. QED
  BY <1>2 DEF Least

LEMMA GreatestIn ==
  ASSUME NEW n \in Nat, NEW S, S \subseteq 0 .. n, S # {}
  PROVE  Greatest(S) \in S /\ \A k \in S : k <= Greatest(S)
<1> DEFINE T == {n - k : k \in S}
<1>1. T \subseteq Nat /\ T # {}
  <2>1. \A k \in S : k \in Nat /\ k <= n
    OBVIOUS
  <2>2. \A k \in S : n - k \in Nat
    BY <2>1
  <2>3. QED
    BY <2>2, Zenon
<1>2. Least(T) \in T /\ \A t \in T : Least(T) <= t
  <2> HIDE DEF T
  <2>1. QED
    BY <1>1, LeastIn
<1>3. PICK i \in S : Least(T) = n - i
  BY <1>2
<1>4. \A k \in S : k <= i
  <2> SUFFICES ASSUME NEW k \in S PROVE k <= i
    OBVIOUS
  <2>1. n - i <= n - k
    BY <1>2, <1>3
  <2>2. i \in Nat /\ k \in Nat
    OBVIOUS
  <2>3. QED
    BY <2>1, <2>2
<1>5. QED
  BY <1>4 DEF Greatest

-----------------------------------------------------------------------------
(* The text that is cut. *)

LEMMA PlacesFinite ==
  ASSUME NEW n \in Nat, NEW K, K \subseteq 1 .. n
  PROVE  IsFiniteSet(K) /\ Cardinality(K) \in Nat
<1>1. IsFiniteSet(1 .. n)
  BY FS_Interval
<1>2. IsFiniteSet(K)
  BY <1>1, FS_Subset
<1>3. QED
  BY <1>2, FS_CardinalityType

LEMMA PlaceIn ==
  ASSUME NEW n \in Nat, NEW K, K \subseteq 1 .. n, NEW j \in 1 .. Cardinality(K)
  PROVE  Place(K, j) \in K
<1> DEFINE UpTo(k) == {m \in K : m <= k}
           late == {k \in K : Cardinality(UpTo(k)) >= j}
<1>1. IsFiniteSet(K) /\ Cardinality(K) \in Nat
  BY PlacesFinite
<1>2. K # {}
  BY FS_EmptySet
<1>3. K \subseteq 0 .. n /\ K \subseteq Nat
  OBVIOUS
<1>4. late # {}
  <2>1. Greatest(K) \in K /\ \A k \in K : k <= Greatest(K)
    BY <1>2, <1>3, GreatestIn
  <2>2. UpTo(Greatest(K)) = K
    BY <2>1
  <2>3. QED
    BY <1>1, <2>1, <2>2
<1> DEFINE k == Least(late)
           before == {m \in K : m < k}
<1>5. k \in late /\ \A m \in late : k <= m
  <2>1. late \subseteq Nat
    BY <1>3
  <2> HIDE DEF late
  <2>2. QED
    BY <1>4, <2>1, LeastIn
<1>6. k \in K /\ k \in Nat /\ Cardinality(UpTo(k)) >= j
  BY <1>3, <1>5
<1> HIDE DEF k
<1>7. /\ IsFiniteSet(before) /\ Cardinality(before) \in Nat
      /\ Cardinality(UpTo(k)) = Cardinality(before) + 1
  <2>1. IsFiniteSet(before)
    BY <1>1, FS_Subset
  <2>2. UpTo(k) = before \cup {k} /\ k \notin before
    <3>1. \A m \in K : m <= k <=> m < k \/ m = k
      BY <1>3, <1>6
    <3>2. ~(k < k)
      BY <1>6
    <3>3. QED
      BY <1>6, <3>1, <3>2
  <2> HIDE DEF before, UpTo
  <2>3. QED
    BY <2>1, <2>2, FS_AddElement, FS_CardinalityType
<1>8. ~(Cardinality(before) >= j)
  <2> SUFFICES ASSUME Cardinality(before) >= j PROVE FALSE
    OBVIOUS
  <2>1. before # {}
    BY <1>7, FS_EmptySet
  <2>2. before \subseteq 0 .. n
    BY <1>3
  <2> DEFINE p == Greatest(before)
  <2>3. p \in before /\ \A m \in before : m <= p
    <3> HIDE DEF before
    <3>1. QED
      BY <2>1, <2>2, GreatestIn
  <2> HIDE DEF p
  <2>4. UpTo(p) = before
    <3>1. p \in K /\ p < k /\ p \in Nat
      BY <1>3, <2>3
    <3>2. \A m \in K : m <= p => m < k
      BY <1>3, <1>6, <3>1
    <3>3. \A m \in K : m <= p <=> m < k
      BY <2>3, <3>2
    <3>4. QED
      BY <3>3
  <2>5. p \in late
    BY <2>3, <2>4
  <2>6. QED
    BY <1>3, <1>5, <1>6, <2>3, <2>5
<1>9. Cardinality(UpTo(k)) = j
  BY <1>6, <1>7, <1>8
<1>10. QED
  BY <1>6, <1>9 DEF Place

LEMMA CollapsedText ==
  ASSUME NEW s \in Seq(Byte)
  PROVE  Collapsed(s) \in Seq(Byte)
<1> DEFINE K == Kept(s)
<1>1. K \subseteq 1 .. Len(s) /\ Len(s) \in Nat
  BY DEF Kept
<1> HIDE DEF K
<1>2. Cardinality(K) \in Nat
  BY <1>1, PlacesFinite
<1>3. \A j \in 1 .. Cardinality(K) : s[Place(K, j)] \in Byte
  <2>1. \A j \in 1 .. Cardinality(K) : Place(K, j) \in 1 .. Len(s)
    BY <1>1, PlaceIn
  <2>2. QED
    BY <2>1
<1>4. [j \in 1 .. Cardinality(K) |-> s[Place(K, j)]] \in Seq(Byte)
  BY <1>2, <1>3
<1>5. QED
  BY <1>4 DEF Collapsed, K

\* TrimSpace of a window that has something to keep.
LEMMA TrimmedIn ==
  ASSUME NEW s, NEW from \in Nat, NEW to \in Nat, Inked(s, from, to) # {}
  PROVE  LET p == Trimmed(s, from, to)
         IN /\ p \in Piece /\ from <= p.from /\ p.from < p.to /\ p.to <= to
            /\ s[p.from + 1] \notin White /\ s[p.to] \notin White
            /\ \A k \in Inked(s, from, to) : p.from <= k /\ k < p.to
<1> DEFINE I == Inked(s, from, to)
           a == Least(I)
           b == Greatest(I)
<1>1. \A k \in I : k \in from .. to - 1 /\ s[k + 1] \notin White
  BY DEF Inked
<1>2. I # {} /\ I \subseteq Nat /\ I \subseteq 0 .. to
  BY <1>1
<1> HIDE DEF I
<1>3. a \in I /\ \A k \in I : a <= k
  BY <1>2, LeastIn
<1>4. b \in I /\ \A k \in I : k <= b
  BY <1>2, GreatestIn
<1>5. Trimmed(s, from, to) = [from |-> a, to |-> b + 1]
  BY DEF Trimmed, I
<1> HIDE DEF a, b
<1> DEFINE p == Trimmed(s, from, to)
<1>6. p.from = a /\ p.to = b + 1 /\ a \in Nat /\ b \in Nat
  BY <1>2, <1>3, <1>4, <1>5
<1>7. p \in Piece
  BY <1>5, <1>6 DEF Piece
<1> HIDE DEF p
<1>8. a <= b /\ from <= a /\ b + 1 <= to
  BY <1>1, <1>3, <1>4
<1>9. \A k \in I : p.from <= k /\ k < p.to
  <2> SUFFICES ASSUME NEW k \in I PROVE p.from <= k /\ k < p.to
    OBVIOUS
  <2>1. k \in Nat /\ a <= k /\ k <= b
    BY <1>2, <1>3, <1>4
  <2>2. QED
    BY <1>6, <2>1
<1>10. QED
  BY <1>1, <1>3, <1>4, <1>6, <1>7, <1>8, <1>9 DEF p, I

LEMMA NormalizedText ==
  ASSUME NEW s \in Seq(Byte)
  PROVE  LET t == Normalized(s)
         IN /\ t \in Seq(Byte) /\ Len(t) \in Nat
            /\ t # <<>> => Len(t) > 0 /\ t[Len(t)] \notin White
<1> DEFINE c == Collapsed(s)
           w == Trimmed(c, 0, Len(c))
<1>1. c \in Seq(Byte) /\ Len(c) \in Nat
  BY CollapsedText
<1>2. Normalized(s) = IF Inked(c, 0, Len(c)) = {} THEN <<>> ELSE SubSeq(c, w.from + 1, w.to)
  BY DEF Normalized
<1> HIDE DEF c
<1>3. CASE Inked(c, 0, Len(c)) = {}
  BY <1>2, <1>3
<1>4. CASE Inked(c, 0, Len(c)) # {}
  <2>1. /\ w.from \in Nat /\ w.to \in Nat /\ w.from < w.to /\ w.to <= Len(c)
        /\ c[w.to] \notin White
    BY <1>1, <1>4, TrimmedIn DEF Piece
  <2> HIDE DEF w
  <2> DEFINE a == w.from + 1
             b == w.to
  <2>2. Normalized(s) = SubSeq(c, a, b) /\ c[b] \notin White
    BY <1>2, <1>4, <2>1 DEF w
  <2>3. a \in Nat /\ b \in Nat /\ 1 <= a /\ a <= b /\ b <= Len(c)
    BY <1>1, <2>1
  <2> HIDE DEF a, b
  <2>4. /\ SubSeq(c, a, b) \in Seq(Byte) /\ Len(SubSeq(c, a, b)) = b - a + 1
        /\ SubSeq(c, a, b)[b - a + 1] = c[b]
    BY <1>1, <2>3
  <2>5. QED
    BY <2>2, <2>3, <2>4
<1>5. QED
  BY <1>3, <1>4
-----------------------------------------------------------------------------
(* Where a window is cut. *)

\* The cuts that findBreak looks for, by where they are in the text.
Beyond(i, from, len) == i < from + len /\ i - from > len \div 3
Paragraphs(s, from, len) ==
    {c \in from + 2 .. from + len : Beyond(c - 2, from, len) /\ s[c - 1] = "newline" /\ s[c] = "newline"}
Breaks(s, from, len, byte) ==
    {c \in from + 1 .. from + len : Beyond(c - 1, from, len) /\ s[c] = byte}

LastOf(c, S) == c \in S /\ \A d \in S : d <= c

\* The cut after the last place of a set is the last of the cuts after its places.
LEMMA LastCut ==
  ASSUME NEW from \in Nat, NEW len \in Nat, NEW by \in {1, 2}, NEW I, I \subseteq 0 .. len, I # {},
         NEW C, \A c : c \in C <=> c - by - from \in I /\ c \in Int
  PROVE  LastOf(from + Greatest(I) + by, C)
<1> DEFINE g == Greatest(I)
<1>1. g \in I /\ \A i \in I : i <= g
  BY GreatestIn
<1>2. g \in Nat /\ by \in Nat
  <2>1. g \in 0 .. len
    BY <1>1
  <2> HIDE DEF g
  <2>2. QED
    BY <2>1
<1> HIDE DEF g
<1>3. from + g + by \in C
  <2>1. (from + g + by) - by - from = g /\ from + g + by \in Int
    BY <1>2
  <2>2. QED
    BY <1>1, <2>1
<1>4. \A d \in C : d <= from + g + by
  <2> SUFFICES ASSUME NEW d \in C PROVE d <= from + g + by
    OBVIOUS
  <2>1. d \in Int /\ d - by - from <= g
    BY <1>1
  <2>2. QED
    BY <1>2, <2>1
<1>5. QED
  BY <1>3, <1>4 DEF LastOf, g

\* Which cut findBreak takes.
LEMMA BreakChosen ==
  ASSUME NEW s, NEW from \in Nat, NEW len \in Nat, len > 0
  PROVE  LET c == FindBreak(s, from, from + len)
             P == Paragraphs(s, from, len)
             S == Breaks(s, from, len, "stop")
             W == Breaks(s, from, len, "space")
         IN \/ LastOf(c, P)
            \/ P = {} /\ LastOf(c, S)
            \/ P = {} /\ S = {} /\ LastOf(c, W)
            \/ P = {} /\ S = {} /\ W = {} /\ c = from + len
<1> DEFINE to == from + len
           late == {i \in 0 .. to - from - 1 : i > (to - from) \div 3}
           paragraphs == {i \in late : /\ i + 1 \in late
                                       /\ s[from + i + 1] = "newline" /\ s[from + i + 2] = "newline"}
           sentences == {i \in late : s[from + i + 1] = "stop"}
           words == {i \in late : s[from + i + 1] = "space"}
           P == Paragraphs(s, from, len)
           S == Breaks(s, from, len, "stop")
           W == Breaks(s, from, len, "space")
<1>1. \A i : i \in late <=> i \in 0 .. len /\ i < len /\ i > len \div 3
  <2>1. to - from = len
    OBVIOUS
  <2> HIDE DEF to
  <2>2. QED
    BY <2>1
<1> HIDE DEF late
<1> DEFINE third == len \div 3
<1>2. third \in Nat
  OBVIOUS
<1>3. \A c : c \in P <=> c - 2 - from \in paragraphs /\ c \in Int
  <2> SUFFICES ASSUME NEW c PROVE c \in P <=> c - 2 - from \in paragraphs /\ c \in Int
    OBVIOUS
  <2>1. ASSUME c \in Int PROVE c \in P <=> c - 2 - from \in paragraphs
    <3> DEFINE i == c - 2 - from
    <3>1. i \in Int /\ from + i + 1 = c - 1 /\ from + i + 2 = c
      BY <2>1
    <3>2. (i \in late /\ i + 1 \in late) <=> (c \in from + 2 .. from + len /\ c - 2 < from + len /\ c - 2 - from > third)
      <4> HIDE DEF third
      <4>1. QED
        BY <1>1, <1>2, <2>1 DEF third
    <3> HIDE DEF i
    <3>3. QED
      BY <3>1, <3>2 DEF Paragraphs, Beyond, i
  <2>2. c \in P => c \in Int
    BY DEF Paragraphs
  <2>3. QED
    BY <2>1, <2>2
<1>4. ASSUME NEW byte, NEW I, \A i : i \in I <=> i \in late /\ s[from + i + 1] = byte
      PROVE  \A c : c \in Breaks(s, from, len, byte) <=> c - 1 - from \in I /\ c \in Int
  <2> SUFFICES ASSUME NEW c PROVE c \in Breaks(s, from, len, byte) <=> c - 1 - from \in I /\ c \in Int
    OBVIOUS
  <2>1. ASSUME c \in Int PROVE c \in Breaks(s, from, len, byte) <=> c - 1 - from \in I
    <3> DEFINE i == c - 1 - from
    <3>1. i \in Int /\ from + i + 1 = c
      BY <2>1
    <3>2. i \in late <=> (c \in from + 1 .. from + len /\ c - 1 < from + len /\ c - 1 - from > third)
      <4> HIDE DEF third
      <4>1. QED
        BY <1>1, <1>2, <2>1 DEF third
    <3> HIDE DEF i
    <3>3. QED
      BY <1>4, <3>1, <3>2 DEF Breaks, Beyond, i
  <2>2. c \in Breaks(s, from, len, byte) => c \in Int
    BY DEF Breaks
  <2>3. QED
    BY <2>1, <2>2
<1>5. \A c : c \in S <=> c - 1 - from \in sentences /\ c \in Int
  BY <1>4
<1>6. \A c : c \in W <=> c - 1 - from \in words /\ c \in Int
  BY <1>4
<1>7. paragraphs \subseteq 0 .. len /\ sentences \subseteq 0 .. len /\ words \subseteq 0 .. len
  <2>1. late \subseteq 0 .. len
    BY <1>1
  <2>2. QED
    BY <2>1
<1>8. FindBreak(s, from, to) =
        IF paragraphs # {} THEN from + Greatest(paragraphs) + 2
        ELSE IF sentences # {} THEN from + Greatest(sentences) + 1
        ELSE IF words # {} THEN from + Greatest(words) + 1
        ELSE to
  BY DEF FindBreak, late
<1> HIDE DEF paragraphs, sentences, words, P, S, W
<1>9. /\ paragraphs # {} => LastOf(from + Greatest(paragraphs) + 2, P)
      /\ sentences # {} => LastOf(from + Greatest(sentences) + 1, S)
      /\ words # {} => LastOf(from + Greatest(words) + 1, W)
  BY <1>3, <1>5, <1>6, <1>7, LastCut
<1>10. /\ paragraphs = {} => P = {}
       /\ sentences = {} => S = {}
       /\ words = {} => W = {}
  BY <1>3, <1>5, <1>6
<1>11. QED
  BY <1>8, <1>9, <1>10 DEF P, S, W

LEMMA BreakIn ==
  ASSUME NEW s, NEW from \in Nat, NEW len \in Nat, len > 0
  PROVE  /\ FindBreak(s, from, from + len) \in from + 1 .. from + len
         /\ FindBreak(s, from, from + len) \in Nat
<1> DEFINE c == FindBreak(s, from, from + len)
<1>1. \/ c \in Paragraphs(s, from, len)
      \/ \E byte : c \in Breaks(s, from, len, byte)
      \/ c = from + len
  BY BreakChosen DEF LastOf
<1> HIDE DEF c
<1>2. c \in from + 1 .. from + len
  BY <1>1 DEF Paragraphs, Breaks
<1>3. c \in Nat
  BY <1>2
<1>4. QED
  BY <1>2, <1>3 DEF c

\* A cut that a later window would take, the earlier could take too, if it reaches so far ...
LEMMA EarlierCould ==
  ASSUME NEW s, NEW from \in Nat, NEW next \in Nat, NEW len \in Nat, from < next, NEW d, d < from + len
  PROVE  /\ d \in Paragraphs(s, next, len) => d \in Paragraphs(s, from, len)
         /\ \A byte : d \in Breaks(s, next, len, byte) => d \in Breaks(s, from, len, byte)
<1> DEFINE third == len \div 3
<1>1. third \in Nat
  OBVIOUS
<1>2. ASSUME d \in Int, NEW by \in {1, 2}, d - by - next > third
      PROVE  d - by - from > third /\ d - by < from + len
  <2> HIDE DEF third
  <2>1. by \in Nat
    BY <1>2
  <2>2. QED
    BY <1>1, <1>2, <2>1
<1>3. QED
  BY <1>2 DEF Paragraphs, Breaks, Beyond, third

\* ... and a cut of the earlier window the later could take, if it could take one before it.
LEMMA LaterCould ==
  ASSUME NEW s, NEW from \in Nat, NEW next \in Nat, NEW len \in Nat, len > 0, from < next,
         NEW c, NEW d, d < c,
         d \in Paragraphs(s, next, len) \/ \E byte : d \in Breaks(s, next, len, byte)
  PROVE  /\ c \in Paragraphs(s, from, len) => c \in Paragraphs(s, next, len)
         /\ \A byte : c \in Breaks(s, from, len, byte) => c \in Breaks(s, next, len, byte)
<1> DEFINE third == len \div 3
<1>1. third \in Nat
  OBVIOUS
<1>2. d \in Int /\ d - 1 - next > third
  <2>1. ASSUME d \in Paragraphs(s, next, len) PROVE d \in Int /\ d - 2 - next > third
    BY <2>1 DEF Paragraphs, Beyond
  <2>2. ASSUME d - 2 - next > third, d \in Int PROVE d - 1 - next > third
    <3> HIDE DEF third
    <3>1. QED
      BY <1>1, <2>2
  <2>3. ASSUME NEW byte, d \in Breaks(s, next, len, byte) PROVE d \in Int /\ d - 1 - next > third
    BY <2>3 DEF Breaks, Beyond
  <2>4. QED
    BY <2>1, <2>2, <2>3
<1>3. ASSUME c \in Int, c <= from + len, NEW by \in {1, 2}
      PROVE  /\ c - by - next > third /\ c - by < next + len
             /\ next + by <= c /\ c <= next + len
  <2> HIDE DEF third
  <2>1. by \in Nat /\ by <= 2
    BY <1>3
  <2>2. QED
    BY <1>1, <1>2, <1>3, <2>1
<1>4. ASSUME c \in Paragraphs(s, from, len) PROVE c \in Paragraphs(s, next, len)
  <2>1. c \in Int /\ c <= from + len /\ s[c - 1] = "newline" /\ s[c] = "newline"
    BY <1>4 DEF Paragraphs
  <2>2. c - 2 - next > third /\ c - 2 < next + len /\ next + 2 <= c /\ c <= next + len
    BY <1>3, <2>1
  <2>3. QED
    BY <2>1, <2>2 DEF Paragraphs, Beyond
<1>5. ASSUME NEW byte, c \in Breaks(s, from, len, byte) PROVE c \in Breaks(s, next, len, byte)
  <2>1. c \in Int /\ c <= from + len /\ s[c] = byte
    BY <1>5 DEF Breaks
  <2>2. c - 1 - next > third /\ c - 1 < next + len /\ next + 1 <= c /\ c <= next + len
    BY <1>3, <2>1
  <2>3. QED
    BY <2>1, <2>2 DEF Breaks, Beyond
<1>6. QED
  BY <1>4, <1>5

\* Of two windows the one that begins later is not cut before the other.
LEMMA CutsInOrder ==
  ASSUME NEW s, NEW from \in Nat, NEW next \in Nat, NEW len \in Nat, len > 0, from < next
  PROVE  FindBreak(s, from, from + len) <= FindBreak(s, next, next + len)
<1> DEFINE c == FindBreak(s, from, from + len)
           d == FindBreak(s, next, next + len)
<1> SUFFICES ASSUME ~(c <= d) PROVE FALSE
  OBVIOUS
<1>1. c \in from + 1 .. from + len /\ d \in next + 1 .. next + len
  BY BreakIn
<1> DEFINE P(at) == Paragraphs(s, at, len)
           S(at) == Breaks(s, at, len, "stop")
           W(at) == Breaks(s, at, len, "space")
<1>2. /\ \/ LastOf(c, P(from))
         \/ P(from) = {} /\ LastOf(c, S(from))
         \/ P(from) = {} /\ S(from) = {} /\ LastOf(c, W(from))
         \/ P(from) = {} /\ S(from) = {} /\ W(from) = {} /\ c = from + len
      /\ \/ LastOf(d, P(next))
         \/ P(next) = {} /\ LastOf(d, S(next))
         \/ P(next) = {} /\ S(next) = {} /\ LastOf(d, W(next))
         \/ P(next) = {} /\ S(next) = {} /\ W(next) = {} /\ d = next + len
  BY BreakChosen
<1> HIDE DEF c, d
<1>3. d < c /\ d < from + len /\ d # next + len
  BY <1>1
<1>4. d \in P(next) \/ d \in S(next) \/ d \in W(next)
  BY <1>2, <1>3 DEF LastOf
<1>5. /\ d \in P(next) => d \in P(from)
      /\ d \in S(next) => d \in S(from)
      /\ d \in W(next) => d \in W(from)
  BY <1>3, EarlierCould
<1>6. /\ c \in P(from) => c \in P(next)
      /\ c \in S(from) => c \in S(next)
      /\ c \in W(from) => c \in W(next)
  BY <1>3, <1>4, LaterCould
<1> HIDE DEF P, S, W
<1>7. ASSUME NEW X, LastOf(d, X) PROVE c \notin X
  BY <1>3, <1>7, <1>1 DEF LastOf
<1>8. QED
  BY <1>2, <1>3, <1>5, <1>6, <1>7 DEF LastOf

-----------------------------------------------------------------------------
(* Types, and what makes a window exist. *)

\* The inductive invariant: nothing is appended before the text is normalized, and then it
\* does not end in white space, so that the last piece has something to keep.
Base ==
    /\ TypeOK
    /\ pc = "normalize" => start = 0 /\ chunks = <<>>
    /\ pc = "split" => text[Len(text)] \notin White

LEMMA OverlapFits ==
  ASSUME NEW sz \in Int, NEW ov \in Int
  PROVE  /\ SizeUsed(sz) \in Int /\ SizeUsed(sz) >= 1
         /\ OverlapUsed(ov, SizeUsed(sz)) \in 0 .. SizeUsed(sz) - 1
<1> DEFINE u == SizeUsed(sz)
           c == IF ov < 0 THEN DefaultChunkOverlap ELSE ov
<1>1. u \in Int /\ u >= 1
  BY DefaultsAssumption DEF SizeUsed
<1>2. c \in Nat
  BY DefaultsAssumption
<1>3. OverlapUsed(ov, u) = IF c >= u THEN u \div 4 ELSE c
  BY DEF OverlapUsed
<1> HIDE DEF u, c
<1>4. u \div 4 \in 0 .. u - 1
  BY <1>1
<1>5. OverlapUsed(ov, u) \in 0 .. u - 1
  BY <1>1, <1>2, <1>3, <1>4
<1>6. QED
  BY <1>1, <1>5 DEF u

\* A window that is cut: its cut, the next one, and what is appended.
LEMMA SplitFacts ==
  ASSUME Base, Split
  PROVE  LET cut == FindBreak(text, start, start + size)
         IN /\ size \in Nat /\ size > 0 /\ start \in Nat /\ Len(text) \in Nat /\ start + size < Len(text)
            /\ cut \in Nat /\ start < cut /\ cut <= start + size
            /\ start' \in Nat /\ start < start' /\ start' <= cut
            /\ \/ Inked(text, start, cut) = {} /\ chunks' = chunks
               \/ /\ Inked(text, start, cut) # {}
                  /\ chunks' = Append(chunks, Trimmed(text, start, cut))
<1> DEFINE cut == FindBreak(text, start, start + size)
<1>1. /\ size \in Nat /\ size > 0 /\ start \in Nat /\ Len(text) \in Nat /\ start + size < Len(text)
      /\ overlap \in Nat
  BY DEF Base, TypeOK, Split
<1>2. cut \in start + 1 .. start + size
  BY <1>1, BreakIn
<1>3. start' = NextStart(cut) /\ AppendPiece(start, cut)
  BY DEF Split
<1> HIDE DEF cut
<1>4. cut \in Nat /\ start < cut /\ cut <= start + size
  BY <1>1, <1>2
<1>5. start' \in Nat /\ start < start' /\ start' <= cut
  <2>1. start' = IF cut - overlap <= start THEN cut ELSE cut - overlap
    BY <1>3 DEF NextStart
  <2>2. QED
    BY <1>1, <1>4, <2>1
<1>6. \/ Inked(text, start, cut) = {} /\ chunks' = chunks
      \/ /\ Inked(text, start, cut) # {}
         /\ chunks' = Append(chunks, Trimmed(text, start, cut))
  BY <1>3 DEF AppendPiece
<1>7. QED
  BY <1>1, <1>4, <1>5, <1>6 DEF cut

\* The last window reaches the end of the text, which is not white space.
LEMMA SplitLastFacts ==
  ASSUME Base, SplitLast
  PROVE  /\ size \in Nat /\ start \in Nat /\ Len(text) \in Nat /\ Len(text) <= start + size
         /\ start < Len(text)
         /\ Len(text) - 1 \in Inked(text, start, Len(text))
         /\ chunks' = Append(chunks, Trimmed(text, start, Len(text)))
<1>1. /\ size \in Nat /\ start \in Nat /\ Len(text) \in Nat /\ start < Len(text)
      /\ start + size >= Len(text) /\ text[Len(text)] \notin White
  BY DEF Base, TypeOK, SplitLast
<1>2. Len(text) - 1 \in start .. Len(text) - 1 /\ (Len(text) - 1) + 1 = Len(text)
  BY <1>1
<1>3. Len(text) - 1 \in Inked(text, start, Len(text))
  BY <1>1, <1>2 DEF Inked
<1>4. QED
  BY <1>1, <1>3 DEF SplitLast

LEMMA BaseNext == Base /\ [Next]_vars => Base'
<1> SUFFICES ASSUME Base, [Next]_vars PROVE Base'
  OBVIOUS
<1>1. CASE Normalize
  <2>1. /\ text' = Normalized(text) /\ size' = SizeUsed(size)
        /\ overlap' = OverlapUsed(overlap, SizeUsed(size))
        /\ pc' = IF text' = <<>> THEN "done" ELSE "split"
        /\ start' = 0 /\ chunks' = <<>>
    BY <1>1 DEF Normalize, Base
  <2>2. /\ text' \in Seq(Byte) /\ Len(text') \in Nat
        /\ text' # <<>> => Len(text') > 0 /\ text'[Len(text')] \notin White
    BY <2>1, NormalizedText DEF Base, TypeOK
  <2>3. /\ size' \in Int /\ size' >= 1 /\ overlap' \in 0 .. size' - 1 /\ overlap' \in Int
    BY <2>1, OverlapFits DEF Base, TypeOK
  <2>4. chunks' \in Seq(Piece)
    BY <2>1
  <2>5. QED
    BY <2>1, <2>2, <2>3, <2>4 DEF Base, TypeOK
<1>2. CASE Split
  <2> DEFINE cut == FindBreak(text, start, start + size)
  <2>1. /\ start' \in Nat /\ start' < Len(text)
    BY <1>2, SplitFacts
  <2>2. chunks' \in Seq(Piece)
    <3>1. chunks \in Seq(Piece)
      BY DEF Base, TypeOK
    <3>2. ASSUME Inked(text, start, cut) # {} PROVE Trimmed(text, start, cut) \in Piece
      BY <1>2, <3>2, SplitFacts, TrimmedIn
    <3>3. QED
      BY <1>2, <3>1, <3>2, SplitFacts
  <2>3. UNCHANGED <<text, size, overlap, pc>> /\ pc = "split"
    BY <1>2 DEF Split
  <2>4. QED
    BY <2>1, <2>2, <2>3 DEF Base, TypeOK
<1>3. CASE SplitLast
  <2>1. Trimmed(text, start, Len(text)) \in Piece
    BY <1>3, SplitLastFacts, TrimmedIn
  <2>2. chunks' \in Seq(Piece)
    BY <1>3, <2>1, SplitLastFacts DEF Base, TypeOK
  <2>3. UNCHANGED <<text, size, overlap, start>> /\ pc' = "done"
    BY <1>3 DEF SplitLast
  <2>4. QED
    BY <2>2, <2>3 DEF Base, TypeOK
<1>4. CASE UNCHANGED vars
  BY <1>4 DEF Base, TypeOK, vars
<1>5. QED
  BY <1>1, <1>2, <1>3, <1>4 DEF Next

LEMMA BaseInit == Init => Base
<1> SUFFICES ASSUME Init PROVE Base
  OBVIOUS
<1>1. text \in Seq(Byte) /\ size \in Int /\ overlap \in Int
  BY TextsAssumption, SettingsAssumption DEF Init
<1>2. start = 0 /\ chunks = <<>> /\ pc = "normalize"
  BY DEF Init
<1>3. chunks \in Seq(Piece)
  BY <1>2
<1>4. QED
  BY <1>1, <1>2, <1>3 DEF Base, TypeOK

LEMMA ChunkerBase == Spec => []Base
BY BaseInit, BaseNext, PTL DEF Spec

\* For every text and all settings, negative or larger than the chunk size, ChunkText
\* works with an overlap smaller than the window, and its window begins inside the text.
THEOREM ChunkerTypeCorrect == Spec => []TypeOK
<1>1. Base => TypeOK
  BY DEF Base
<1>2. QED
  BY <1>1, ChunkerBase, PTL

\* Each turn of the loop of ChunkText begins its window later than the one before, so
\* that it ends, whatever breaks are found and however large the overlap.
THEOREM ChunkerProgresses == Spec => Progress
<1>1. Base /\ [Next]_vars => [Split => start' > start]_vars
  <2> SUFFICES ASSUME Base, Split PROVE start' > start
    OBVIOUS
  <2>1. start' \in Nat /\ start \in Nat /\ start < start'
    BY SplitFacts
  <2>2. QED
    BY <2>1
<1>2. QED
  BY <1>1, ChunkerBase, PTL DEF Spec, Progress

-----------------------------------------------------------------------------
(* Pieces. *)

\* What a turn of the loop appends, if anything: all that its window s[from:to] has to keep.
Appended(from, to) ==
    LET p == Trimmed(text, from, to)
    IN /\ p \in Piece /\ from <= p.from /\ p.from < p.to /\ p.to <= to
       /\ text[p.from + 1] \notin White /\ text[p.to] \notin White
       /\ \A k \in Inked(text, from, to) : p.from <= k /\ k < p.to
       /\ chunks' = Append(chunks, p)

\* A turn of the loop whose window ends at to.
TurnTo(to) ==
    \/ Split /\ to = FindBreak(text, start, start + size)
    \/ SplitLast /\ to = Len(text)

LEMMA SomeTurn ==
  ASSUME Split \/ SplitLast
  PROVE  \E to : TurnTo(to)
BY DEF TurnTo

LEMMA Turn ==
  ASSUME Base, NEW to, TurnTo(to)
  PROVE  /\ start \in Nat /\ to \in Nat /\ start < to /\ to <= start + size /\ to <= Len(text)
         /\ Len(text) \in Nat /\ size \in Nat
         /\ Split => Len(text) > start + size /\ start' \in Nat /\ start' <= to
         /\ \/ Appended(start, to)
            \/ Split /\ Inked(text, start, to) = {} /\ chunks' = chunks
         /\ text' = text /\ size' = size
<1>1. ASSUME Split, to = FindBreak(text, start, start + size)
      PROVE  /\ start \in Nat /\ to \in Nat /\ start < to /\ to <= start + size /\ to <= Len(text)
             /\ Len(text) \in Nat /\ size \in Nat
             /\ Len(text) > start + size /\ start' \in Nat /\ start' <= to
             /\ Appended(start, to) \/ (Inked(text, start, to) = {} /\ chunks' = chunks)
             /\ text' = text /\ size' = size
  <2>1. /\ start \in Nat /\ to \in Nat /\ start < to /\ to <= start + size
        /\ Len(text) \in Nat /\ size \in Nat
        /\ Len(text) > start + size /\ start' \in Nat /\ start' <= to
        /\ \/ Inked(text, start, to) = {} /\ chunks' = chunks
           \/ Inked(text, start, to) # {} /\ chunks' = Append(chunks, Trimmed(text, start, to))
    BY <1>1, SplitFacts
  <2>2. ASSUME Inked(text, start, to) # {}, chunks' = Append(chunks, Trimmed(text, start, to))
        PROVE  Appended(start, to)
    BY <2>1, <2>2, TrimmedIn DEF Appended
  <2>3. text' = text /\ size' = size
    BY <1>1 DEF Split
  <2>4. QED
    BY <1>1, <2>1, <2>2, <2>3
<1>2. ASSUME SplitLast, to = Len(text)
      PROVE  /\ start \in Nat /\ to \in Nat /\ start < to /\ to <= start + size /\ to <= Len(text)
             /\ Len(text) \in Nat /\ size \in Nat
             /\ ~Split /\ Appended(start, to)
             /\ text' = text /\ size' = size
  <2>1. to = Len(text) /\ SplitLast
    BY <1>2
  <2>2. /\ size \in Nat /\ start \in Nat /\ to \in Nat /\ to <= start + size /\ start < to
        /\ Inked(text, start, to) # {} /\ chunks' = Append(chunks, Trimmed(text, start, to))
    BY <2>1, SplitLastFacts
  <2>3. Appended(start, to)
    BY <2>2, TrimmedIn DEF Appended
  <2>4. text' = text /\ size' = size
    BY <2>1 DEF SplitLast
  <2>5. ~Split
    <3>1. Len(text) <= start + size
      BY <2>1, <2>2
    <3>2. QED
      BY <2>1, <2>2, <3>1 DEF Split
  <2>6. QED
    BY <1>2, <2>1, <2>2, <2>3, <2>4, <2>5
<1>3. QED
  BY <1>1, <1>2 DEF TurnTo

LEMMA Pieces ==
  ASSUME Base
  PROVE  /\ chunks \in Seq(Piece) /\ Len(chunks) \in Nat /\ DOMAIN chunks = 1 .. Len(chunks)
         /\ \A i \in DOMAIN chunks : chunks[i].from \in Nat /\ chunks[i].to \in Nat
<1>1. chunks \in Seq(Piece)
  BY DEF Base, TypeOK
<1>2. /\ Len(chunks) \in Nat /\ DOMAIN chunks = 1 .. Len(chunks)
      /\ \A i \in DOMAIN chunks : chunks[i] \in Piece
  BY <1>1
<1>3. QED
  BY <1>1, <1>2 DEF Piece

\* The piece that is appended is the last, and the others stay.
LEMMA OneMore ==
  ASSUME Base, NEW p, chunks' = Append(chunks, p)
  PROVE  /\ DOMAIN chunks' = 1 .. Len(chunks) + 1 /\ Len(chunks') = Len(chunks) + 1
         /\ chunks'[Len(chunks) + 1] = p
         /\ \A i \in DOMAIN chunks : i \in DOMAIN chunks' /\ chunks'[i] = chunks[i]
<1> DEFINE T == Piece \cup {p}
<1>1. chunks \in Seq(T) /\ p \in T
  <2>1. chunks \in [1 .. Len(chunks) -> T] /\ Len(chunks) \in Nat
    BY Pieces
  <2>2. QED
    BY <2>1
<1> HIDE DEF T
<1>2. QED
  BY <1>1

\* One piece fits.
Fits(p, t, len) ==
    /\ p.from < p.to /\ p.to <= Len(t) /\ p.to - p.from <= len
    /\ t[p.from + 1] \notin White /\ t[p.to] \notin White

LEMMA PiecesNext == Base /\ PiecesFit /\ [Next]_vars => PiecesFit'
<1> SUFFICES ASSUME Base, PiecesFit, [Next]_vars PROVE PiecesFit'
  OBVIOUS
<1>1. \A i \in DOMAIN chunks : Fits(chunks[i], text, size)
  BY DEF PiecesFit, Fits
<1>2. SUFFICES \A i \in DOMAIN chunks' : Fits(chunks'[i], text', size')
  BY DEF PiecesFit, Fits
<1>3. CASE Normalize
  BY <1>3 DEF Normalize, Base
<1>4. CASE Split \/ SplitLast
  <2> PICK to : TurnTo(to)
    BY <1>4, SomeTurn
  <2> DEFINE p == Trimmed(text, start, to)
  <2>1. /\ text' = text /\ size' = size /\ size \in Nat /\ Len(text) \in Nat
        /\ start \in Nat /\ to \in Nat /\ to <= start + size /\ to <= Len(text)
        /\ Appended(start, to) \/ chunks' = chunks
    BY Turn
  <2>2. CASE chunks' = chunks
    BY <1>1, <2>1, <2>2
  <2>3. CASE Appended(start, to)
    <3>1. /\ p.from \in Nat /\ p.to \in Nat /\ start <= p.from /\ p.from < p.to /\ p.to <= to
          /\ text[p.from + 1] \notin White /\ text[p.to] \notin White
          /\ chunks' = Append(chunks, p)
      BY <2>3 DEF Appended, Piece
    <3> HIDE DEF p
    <3>2. Fits(p, text, size)
      BY <2>1, <3>1 DEF Fits
    <3>3. \A i \in DOMAIN chunks' : i \in DOMAIN chunks \/ i = Len(chunks) + 1
      BY <3>1, OneMore, Pieces
    <3>4. QED
      BY <1>1, <2>1, <3>1, <3>2, <3>3, OneMore
  <2>4. QED
    BY <2>1, <2>2, <2>3
<1>5. CASE UNCHANGED vars
  BY <1>1, <1>5 DEF vars
<1>6. QED
  BY <1>3, <1>4, <1>5 DEF Next

\* No piece is empty or longer than the chunk size, and none has white space at
\* either end, the last one included, which ChunkText appends without looking.
THEOREM ChunkerPiecesFit == Spec => []PiecesFit
<1>1. Init => PiecesFit
  BY DEF Init, PiecesFit
<1>2. QED
  BY <1>1, ChunkerBase, PiecesNext, PTL DEF Spec

-----------------------------------------------------------------------------
(* Coverage. *)

\* A turn covers the text up to the end of its window.
LEMMA TurnCovers ==
  ASSUME Base, CoveredTo(start), NEW to, TurnTo(to)
  PROVE  \A k \in 1 .. to : text[k] \in White \/ \E i \in DOMAIN chunks' :
                                                   chunks'[i].from < k /\ k <= chunks'[i].to
<1>1. /\ start \in Nat /\ to \in Nat
      /\ \/ Appended(start, to)
         \/ Inked(text, start, to) = {} /\ chunks' = chunks
  BY Turn
<1> SUFFICES ASSUME NEW k \in 1 .. to, text[k] \notin White
             PROVE  \E i \in DOMAIN chunks' : chunks'[i].from < k /\ k <= chunks'[i].to
  OBVIOUS
<1>2. CASE k <= start
  <2>1. k \in 1 .. start
    BY <1>1, <1>2
  <2>2. PICK i \in DOMAIN chunks : chunks[i].from < k /\ k <= chunks[i].to
    BY <2>1 DEF CoveredTo
  <2>3. i \in DOMAIN chunks' /\ chunks'[i] = chunks[i]
    BY <1>1, <2>2, OneMore DEF Appended
  <2>4. QED
    BY <2>2, <2>3
<1>3. CASE ~(k <= start)
  <2>1. k - 1 \in start .. to - 1 /\ (k - 1) + 1 = k
    BY <1>1, <1>3
  <2>2. k - 1 \in Inked(text, start, to)
    BY <2>1 DEF Inked
  <2> DEFINE p == Trimmed(text, start, to)
  <2>3. /\ p.from \in Nat /\ p.to \in Nat /\ p.from <= k - 1 /\ k - 1 < p.to
        /\ chunks' = Append(chunks, p)
    BY <1>1, <2>2 DEF Appended, Piece
  <2> HIDE DEF p
  <2>4. p.from < k /\ k <= p.to
    BY <2>3, <1>1
  <2>5. Len(chunks) + 1 \in DOMAIN chunks' /\ chunks'[Len(chunks) + 1] = p
    BY <2>3, OneMore, Pieces
  <2>6. QED
    BY <2>4, <2>5
<1>4. QED
  BY <1>2, <1>3

LEMMA CoveredNext == Base /\ Covered /\ [Next]_vars => Covered'
<1> SUFFICES ASSUME Base, Covered, [Next]_vars PROVE Covered'
  OBVIOUS
<1>1. CASE Normalize
  <2>1. start' = 0 /\ (pc' = "done" => text' = <<>>)
    BY <1>1 DEF Normalize, Base
  <2>2. QED
    BY <2>1 DEF Covered, CoveredTo
<1>2. CASE Split
  <2> DEFINE to == FindBreak(text, start, start + size)
  <2>0. TurnTo(to) /\ CoveredTo(start)
    BY <1>2 DEF TurnTo, Split, Covered
  <2> HIDE DEF to
  <2>1. \A k \in 1 .. to : text[k] \in White \/ \E i \in DOMAIN chunks' :
                                                   chunks'[i].from < k /\ k <= chunks'[i].to
    BY <2>0, TurnCovers
  <2>2. start' \in Nat /\ to \in Nat /\ start' <= to
    BY <1>2, <2>0, Turn
  <2>3. \A k \in 1 .. start' : k \in 1 .. to
    BY <2>2
  <2>4. text' = text /\ pc' = "split"
    BY <1>2 DEF Split
  <2>5. QED
    BY <2>1, <2>3, <2>4 DEF Covered, CoveredTo
<1>3. CASE SplitLast
  <2>1. TurnTo(Len(text)) /\ CoveredTo(start)
    BY <1>3 DEF TurnTo, SplitLast, Covered
  <2>2. \A k \in 1 .. Len(text) : text[k] \in White \/ \E i \in DOMAIN chunks' :
                                                          chunks'[i].from < k /\ k <= chunks'[i].to
    BY <2>1, TurnCovers
  <2>3. text' = text /\ pc' = "done"
    BY <1>3 DEF SplitLast
  <2>4. QED
    BY <2>2, <2>3 DEF Covered, CoveredTo
<1>4. CASE UNCHANGED vars
  BY <1>4 DEF Covered, CoveredTo, vars
<1>5. QED
  BY <1>1, <1>2, <1>3, <1>4 DEF Next

\* No byte of the document but white space falls between two pieces.
THEOREM ChunkerCovers == Spec => []Covered
<1>1. Init => Covered
  BY DEF Init, Covered
<1>2. QED
  BY <1>1, ChunkerBase, CoveredNext, PTL DEF Spec

-----------------------------------------------------------------------------
(* Order. *)

\* What makes the order inductive: the window that comes next is not cut before the end of
\* the last piece, although that piece may be several windows old.
Ahead ==
    pc = "split" /\ start + size < Len(text) /\ chunks # <<>> =>
        chunks[Len(chunks)].to <= FindBreak(text, start, start + size)

Ordered == Base /\ PiecesFit /\ EndsInOrder /\ Ahead

\* The last piece ends no later than the window that follows it.
LEMMA LastBefore ==
  ASSUME Ordered, chunks # <<>>, NEW to, TurnTo(to)
  PROVE  /\ Len(chunks) \in DOMAIN chunks /\ chunks[Len(chunks)].to \in Nat
         /\ chunks[Len(chunks)].to <= to
<1>1. Len(chunks) \in DOMAIN chunks
  BY Pieces DEF Ordered
<1>2. chunks[Len(chunks)].to \in Nat
  BY <1>1, Pieces DEF Ordered
<1>3. ASSUME Split PROVE chunks[Len(chunks)].to <= FindBreak(text, start, start + size)
  BY <1>3 DEF Ordered, Ahead, Split
<1>4. chunks[Len(chunks)].to <= Len(text)
  BY <1>1 DEF Ordered, PiecesFit
<1>5. QED
  BY <1>1, <1>2, <1>3, <1>4 DEF TurnTo

\* So a piece that is appended ends no earlier: what the last piece ends with is either
\* before the window, or in it and kept.
LEMMA EndsLater ==
  ASSUME Ordered, chunks # <<>>, NEW to, TurnTo(to),
         Appended(start, to)
  PROVE  chunks[Len(chunks)].to <= Trimmed(text, start, to).to
<1> DEFINE e == chunks[Len(chunks)].to
           p == Trimmed(text, start, to)
<1>1. e \in Nat /\ e <= to /\ start \in Nat /\ to \in Nat
  BY LastBefore, Turn DEF Ordered
<1>2. p.from \in Nat /\ p.to \in Nat /\ start <= p.from /\ p.from < p.to
  BY DEF Appended, Piece
<1>3. e > 0 /\ text[e] \notin White
  <2>1. chunks[Len(chunks)].from \in Nat /\ chunks[Len(chunks)].from < e
    BY LastBefore, Pieces DEF Ordered, PiecesFit
  <2>2. text[e] \notin White
    BY LastBefore DEF Ordered, PiecesFit
  <2> HIDE DEF e
  <2>3. QED
    BY <1>1, <2>1, <2>2
<1> HIDE DEF e
<1>4. ASSUME e > start PROVE e <= p.to
  <2>1. e - 1 \in start .. to - 1 /\ (e - 1) + 1 = e
    BY <1>1, <1>4
  <2>2. e - 1 \in Inked(text, start, to)
    BY <1>3, <2>1 DEF Inked
  <2>3. e - 1 < p.to
    BY <2>2 DEF Appended
  <2> HIDE DEF p
  <2>4. QED
    BY <1>1, <1>2, <2>3
<1> HIDE DEF p
<1>5. e <= p.to
  BY <1>1, <1>2, <1>4
<1>6. QED
  BY <1>5 DEF e, p

LEMMA EndsNext ==
  ASSUME Ordered, [Next]_vars
  PROVE  EndsInOrder'
<1>1. CASE Normalize
  BY <1>1 DEF Normalize, Ordered, Base, EndsInOrder
<1>2. CASE Split \/ SplitLast
  <2> PICK to : TurnTo(to)
    BY <1>2, SomeTurn
  <2> DEFINE p == Trimmed(text, start, to)
  <2>1. Appended(start, to) \/ chunks' = chunks
    BY Turn DEF Ordered
  <2>2. CASE chunks' = chunks
    BY <2>2 DEF Ordered, EndsInOrder
  <2>3. CASE Appended(start, to)
    <3>1. chunks' = Append(chunks, p)
      BY <2>3 DEF Appended
    <3>2. chunks # <<>> => chunks[Len(chunks)].to <= p.to
      BY <2>3, EndsLater
    <3> HIDE DEF p
    <3>3. SUFFICES ASSUME NEW i \in DOMAIN chunks', i > 1
                   PROVE  chunks'[i - 1].to <= chunks'[i].to
      BY DEF EndsInOrder
    <3>4. /\ Len(chunks) \in Nat /\ DOMAIN chunks = 1 .. Len(chunks)
          /\ DOMAIN chunks' = 1 .. Len(chunks) + 1 /\ chunks'[Len(chunks) + 1] = p
          /\ \A j \in DOMAIN chunks : chunks'[j] = chunks[j]
      BY <3>1, OneMore, Pieces DEF Ordered
    <3>5. CASE i \in DOMAIN chunks
      <4>1. i - 1 \in DOMAIN chunks
        BY <3>3, <3>4, <3>5
      <4>2. QED
        BY <3>3, <3>4, <3>5, <4>1 DEF Ordered, EndsInOrder
    <3>6. CASE i \notin DOMAIN chunks
      <4>1. i = Len(chunks) + 1 /\ i - 1 = Len(chunks) /\ Len(chunks) \in DOMAIN chunks
        BY <3>3, <3>4, <3>6
      <4>2. chunks # <<>>
        BY <4>1
      <4>3. QED
        BY <3>2, <3>4, <4>1, <4>2
    <3>7. QED
      BY <3>5, <3>6
  <2>4. QED
    BY <2>1, <2>2, <2>3
<1>3. CASE UNCHANGED vars
  BY <1>3 DEF Ordered, EndsInOrder, vars
<1>4. QED
  BY <1>1, <1>2, <1>3 DEF Next

\* Neither what was appended nor what an empty piece skipped reaches beyond the next cut.
LEMMA AheadNext ==
  ASSUME Ordered, [Next]_vars
  PROVE  Ahead'
<1>1. CASE Normalize
  BY <1>1 DEF Normalize, Ordered, Base, Ahead
<1>2. CASE Split
  <2> DEFINE cut == FindBreak(text, start, start + size)
             next == FindBreak(text, start', start' + size)
             p == Trimmed(text, start, cut)
  <2>1. /\ size \in Nat /\ size > 0 /\ start \in Nat /\ start' \in Nat /\ start < start'
        /\ cut \in Nat
    BY <1>2, SplitFacts DEF Ordered
  <2>2. cut <= next
    BY <2>1, CutsInOrder
  <2>3. next \in Nat
    BY <2>1, BreakIn
  <2>4. text' = text /\ size' = size
    BY <1>2 DEF Split
  <2>5. TurnTo(cut) /\ (Appended(start, cut) \/ chunks' = chunks)
    <3>1. TurnTo(cut)
      BY <1>2 DEF TurnTo
    <3> HIDE DEF cut
    <3>2. QED
      BY <3>1, Turn DEF Ordered
  <2>6. SUFFICES ASSUME chunks' # <<>> PROVE chunks'[Len(chunks')].to <= next
    BY <2>4 DEF Ahead
  <2>7. CASE chunks' = chunks
    <3>1. chunks[Len(chunks)].to \in Nat /\ chunks[Len(chunks)].to <= cut
      BY <2>5, <2>6, <2>7, LastBefore
    <3> DEFINE e == chunks[Len(chunks)].to
    <3> HIDE DEF cut, next, e
    <3>2. e <= next
      BY <2>1, <2>2, <2>3, <3>1 DEF e
    <3>3. QED
      BY <2>7, <3>2 DEF e
  <2>8. CASE Appended(start, cut)
    <3>1. p.to \in Nat /\ p.to <= cut /\ chunks' = Append(chunks, p)
      BY <2>8 DEF Appended, Piece
    <3> HIDE DEF cut, next, p
    <3>2. chunks'[Len(chunks')] = p
      BY <3>1, OneMore, Pieces DEF Ordered
    <3>3. p.to <= next
      BY <2>1, <2>2, <2>3, <3>1
    <3>4. QED
      BY <3>2, <3>3
  <2>9. QED
    BY <2>5, <2>7, <2>8
<1>3. CASE SplitLast
  BY <1>3 DEF SplitLast, Ahead
<1>4. CASE UNCHANGED vars
  BY <1>4 DEF Ordered, Ahead, vars
<1>5. QED
  BY <1>1, <1>2, <1>3, <1>4 DEF Next

\* However much windows overlap, and whatever was too white to be a piece between them,
\* no piece ends before the one it follows.
THEOREM ChunkerEndsInOrder == Spec => []EndsInOrder
<1>1. Init => EndsInOrder /\ Ahead
  BY DEF Init, EndsInOrder, Ahead
<1>2. Base /\ PiecesFit /\ (EndsInOrder /\ Ahead) /\ [Next]_vars => (EndsInOrder /\ Ahead)'
  BY EndsNext, AheadNext DEF Ordered
<1>3. QED
  BY <1>1, <1>2, ChunkerBase, ChunkerPiecesFit, PTL DEF Spec

=============================================================================
