---------------------------- MODULE Learning_proofs ----------------------------
(***************************************************************************)
(* The segmentation of a reading is the best of all its cuts, and every    *)
(* list of predictions the best of all words below its node, for any       *)
(* lexicon and whatever has been learned; of what is blocked only other    *)
(* spellings of the reading are shown, and a commit moves its word down    *)
(* nowhere.  Words may tie, as those of one text and readings of equal     *)
(* length do: nothing is assumed of which a sort puts first.               *)
(*                                                                         *)
(* Cuts: every score the program adds up is an integer, every reading has  *)
(* a first candidate, and the best way to a position with a part of speech *)
(* leads on the best.  Lists: a word among the first below a node is among *)
(* the first below the child it is under, so the lists of right children   *)
(* have all that the list of their parent needs; and every node is         *)
(* computed again after the nodes below it.  Program and reference are     *)
(* recursive functions; a least position for which something would fail    *)
(* takes the place of an induction.  What is shown: a list of candidates   *)
(* is ranked by numbers of better ones, so a word goes up when it alone is *)
(* worth more, nothing new is offered before it and nothing ties.  For     *)
(* that scores stay in their range and each word is in the database once,  *)
(* which is proved of every state.                                         *)
(***************************************************************************)
EXTENDS Learning, FiniteSetTheorems, SequenceTheorems, WellFoundedInduction, TLAPS

-----------------------------------------------------------------------------
(* Sets *)

(* A set of natural numbers that is not empty has a smallest.              *)
LEMMA LeastNumber ==
  ASSUME NEW T \in SUBSET Nat, T # {}
  PROVE \E x \in T : \A y \in T : x <= y
  <1> DEFINE R == OpToRel(<, Nat)
  <1>1. IsWellFoundedOn(R, Nat)
    BY NatLessThanWellFounded
  <1>2. \A x, y \in Nat : y < x => <<y, x>> \in R
    BY DEF OpToRel
  <1> HIDE DEF R
  <1>3. \E x \in T : \A y \in T : ~ (<<y, x>> \in R)
    BY <1>1, WFMin
  <1>4. \A x, y \in Nat : ~(y < x) => x <= y
    OBVIOUS
  <1>5. QED BY <1>2, <1>3, <1>4

(* What holds of the first position, and of one if of all before it, holds *)
(* of all: a set of positions with no least one outside is everything.     *)
LEMMA EveryPosition ==
  ASSUME NEW n \in Nat, NEW Good \in SUBSET (1 .. n),
         \A k \in 1 .. n : (\A j \in 1 .. k - 1 : j \in Good) => k \in Good
  PROVE \A k \in 1 .. n : k \in Good
  <1> DEFINE Bad == (1 .. n) \ Good
  <1>1. ASSUME Bad # {} PROVE FALSE
    <2>1. Bad \in SUBSET Nat
      OBVIOUS
    <2>2. PICK k \in Bad : \A j \in Bad : k <= j
      <3> HIDE DEF Bad
      <3>1. QED BY <1>1, <2>1, LeastNumber
    <2>3. \A j \in 1 .. k - 1 : j \in 1 .. n /\ ~(k <= j)
      OBVIOUS
    <2>4. \A j \in 1 .. k - 1 : j \in Good
      BY <2>2, <2>3
    <2>5. QED BY <2>2, <2>4
  <1>2. QED BY <1>1

(* Finitely many integers have a greatest.                                 *)
LEMMA GreatestNumber ==
  ASSUME NEW T \in SUBSET Int, T # {}, IsFiniteSet(T)
  PROVE \E x \in T : \A y \in T : y <= x
  <1> DEFINE Holds(S) == \E x \in S : \A y \in S : y <= x
             Bad == {k \in Nat : \E S \in SUBSET Int : /\ IsFiniteSet(S) /\ S # {} /\ Cardinality(S) = k
                                                       /\ ~Holds(S)}
  <1>1. ASSUME Bad # {} PROVE FALSE
    <2>1. PICK k \in Bad : \A j \in Bad : k <= j
      <3>1. Bad \in SUBSET Nat
        OBVIOUS
      <3> HIDE DEF Bad
      <3>2. QED BY <1>1, <3>1, LeastNumber
    <2>2. PICK S \in SUBSET Int : IsFiniteSet(S) /\ S # {} /\ Cardinality(S) = k /\ ~Holds(S)
      BY <2>1
    <2>3. PICK x \in S : TRUE
      BY <2>2
    <2>4. IsFiniteSet(S \ {x}) /\ Cardinality(S \ {x}) = k - 1
      BY <2>2, FS_RemoveElement
    <2>5. k \in Nat /\ k - 1 \in Nat /\ ~(k <= k - 1)
      BY <2>1, <2>4, FS_CardinalityType
    <2>6. k - 1 \notin Bad
      BY <2>1, <2>5
    <2>7. CASE S \ {x} = {}
      <3>1. \A y \in S : y <= x
        BY <2>7
      <3>2. QED BY <2>2, <3>1
    <2>8. CASE S \ {x} # {}
      <3>1. Holds(S \ {x})
        BY <2>4, <2>5, <2>6, <2>8
      <3>2. PICK z \in S \ {x} : \A y \in S \ {x} : y <= z
        BY <3>1
      <3>3. CASE x <= z
        BY <2>2, <3>2, <3>3
      <3>4. CASE ~(x <= z)
        <4>1. \A y \in S : y <= x
          BY <3>2, <3>4
        <4>2. QED BY <2>2, <4>1
      <3>5. QED BY <3>3, <3>4
    <2>9. QED BY <2>7, <2>8
  <1>2. Cardinality(T) \in Nat
    BY FS_CardinalityType
  <1>3. QED BY <1>1, <1>2

(* The values of a function on a finite set are finitely many.             *)
LEMMA ImageIsFinite ==
  ASSUME NEW S, IsFiniteSet(S), NEW f
  PROVE IsFiniteSet({f[x] : x \in S})
  <1> DEFINE T == {f[x] : x \in S}
             g == [x \in S |-> f[x]]
  <1>1. g \in Surjection(S, T)
    BY DEF Surjection
  <1> HIDE DEF g, T
  <1>2. IsFiniteSet(T)
    BY <1>1, FS_Surjection
  <1>3. QED BY <1>2 DEF T

-----------------------------------------------------------------------------
(* The order of candidates *)

Strings == Seq(Int)

(* Strings that agree up to a position, place by place.                    *)
LEMMA SameStart ==
  ASSUME NEW a \in Strings, NEW b \in Strings, NEW m \in Nat, m <= Len(a), m <= Len(b)
  PROVE SubSeq(a, 1, m) = SubSeq(b, 1, m) <=> \A l \in 1 .. m : a[l] = b[l]
  <1>1. /\ SubSeq(a, 1, m) \in Strings /\ Len(SubSeq(a, 1, m)) = m
        /\ \A l \in 1 .. m : SubSeq(a, 1, m)[l] = a[l]
    BY DEF Strings
  <1>2. /\ SubSeq(b, 1, m) \in Strings /\ Len(SubSeq(b, 1, m)) = m
        /\ \A l \in 1 .. m : SubSeq(b, 1, m)[l] = b[l]
    BY DEF Strings
  <1>3. ASSUME \A l \in 1 .. m : a[l] = b[l] PROVE SubSeq(a, 1, m) = SubSeq(b, 1, m)
    <2> DEFINE s == SubSeq(a, 1, m)
               t == SubSeq(b, 1, m)
    <2>1. /\ s \in Seq(Int) /\ t \in Seq(Int) /\ Len(s) = m /\ Len(t) = m
          /\ \A l \in 1 .. m : s[l] = t[l]
      BY <1>1, <1>2, <1>3 DEF Strings
    <2> HIDE DEF s, t
    <2>2. s = t
      BY <2>1, SeqEqual
    <2>3. QED BY <2>2 DEF s, t
  <1>4. QED BY <1>1, <1>2, <1>3

(* Where a string comes before another.                                    *)
LessAt(a, b, i) ==
  /\ i \in 1 .. Len(b) /\ i <= Len(a) + 1
  /\ \A l \in 1 .. i - 1 : a[l] = b[l]
  /\ i <= Len(a) => a[i] < b[i]

(* Of two texts the less is that with the lower character where they       *)
(* first differ, or the start of the other.                                *)
LEMMA LessMeans ==
  ASSUME NEW a \in Strings, NEW b \in Strings
  PROVE TextLess(a, b) <=> \E i \in Nat : LessAt(a, b, i)
  <1>1. DOMAIN b = 1 .. Len(b) /\ Len(a) \in Nat /\ Len(b) \in Nat
    BY DEF Strings
  <1>2. ASSUME NEW i \in 1 .. Len(b), i <= Len(a) + 1
        PROVE SubSeq(a, 1, i - 1) = SubSeq(b, 1, i - 1) <=> \A l \in 1 .. i - 1 : a[l] = b[l]
    <2>1. i - 1 \in Nat /\ i - 1 <= Len(a) /\ i - 1 <= Len(b)
      BY <1>1, <1>2
    <2>2. QED BY <2>1, SameStart
  <1>3. TextLess(a, b) <=> \E i \in 1 .. Len(b) : LessAt(a, b, i)
    BY <1>1, <1>2 DEF TextLess, LessAt
  <1>4. QED BY <1>1, <1>3 DEF LessAt

(* No text comes before itself.                                            *)
LEMMA LessIsIrreflexive ==
  ASSUME NEW a \in Strings
  PROVE ~TextLess(a, a)
  <1>1. Len(a) \in Nat /\ \A i \in 1 .. Len(a) : a[i] \in Int
    BY DEF Strings
  <1>2. QED BY <1>1, LessMeans DEF LessAt

(* The order of texts is transitive.                                       *)
LEMMA LessIsTransitive ==
  ASSUME NEW a \in Strings, NEW b \in Strings, NEW c \in Strings, TextLess(a, b), TextLess(b, c)
  PROVE TextLess(a, c)
  <1>1. PICK i \in Nat : LessAt(a, b, i)
    BY LessMeans
  <1>2. PICK j \in Nat : LessAt(b, c, j)
    BY LessMeans
  <1>3. /\ Len(a) \in Nat /\ Len(b) \in Nat /\ Len(c) \in Nat
        /\ \A k \in 1 .. Len(a) : a[k] \in Int
        /\ \A k \in 1 .. Len(b) : b[k] \in Int
        /\ \A k \in 1 .. Len(c) : c[k] \in Int
    BY DEF Strings
  <1>4. CASE i < j
    <2>1. LessAt(a, c, i)
      BY <1>1, <1>2, <1>3, <1>4 DEF LessAt
    <2>2. QED BY <2>1, LessMeans
  <1>5. CASE j < i
    <2>1. LessAt(a, c, j)
      BY <1>1, <1>2, <1>3, <1>5 DEF LessAt
    <2>2. QED BY <2>1, LessMeans
  <1>6. CASE i = j
    <2>1. LessAt(a, c, i)
      BY <1>1, <1>2, <1>3, <1>6 DEF LessAt
    <2>2. QED BY <2>1, LessMeans
  <1>7. QED BY <1>4, <1>5, <1>6

(* What is ranked: candidates, and the entries of a database.              *)
Item(x) == x.score \in Int /\ Len(x.reading) \in Nat /\ x.text \in Strings

(* Nothing ranks above itself.                                             *)
LEMMA BetterIsIrreflexive ==
  ASSUME NEW x, Item(x)
  PROVE ~Better(x, x)
  BY LessIsIrreflexive DEF Better, Item

(* Ranking above is transitive.                                            *)
LEMMA BetterIsTransitive ==
  ASSUME NEW x, NEW y, NEW z, Item(x), Item(y), Item(z), Better(x, y), Better(y, z)
  PROVE Better(x, z)
  <1>1. /\ x.score \in Int /\ y.score \in Int /\ z.score \in Int
        /\ Len(x.reading) \in Nat /\ Len(y.reading) \in Nat /\ Len(z.reading) \in Nat
        /\ x.text \in Strings /\ y.text \in Strings /\ z.text \in Strings
    BY DEF Item
  <1>2. TextLess(x.text, y.text) /\ TextLess(y.text, z.text) => TextLess(x.text, z.text)
    BY <1>1, LessIsTransitive
  <1> DEFINE xy == TextLess(x.text, y.text)
             yz == TextLess(y.text, z.text)
             xz == TextLess(x.text, z.text)
             l == Len(x.reading)
             m == Len(y.reading)
             n == Len(z.reading)
  <1>3. /\ x.score > y.score \/ (x.score = y.score /\ (l < m \/ (l = m /\ xy)))
        /\ y.score > z.score \/ (y.score = z.score /\ (m < n \/ (m = n /\ yz)))
    BY DEF Better
  <1>4. l \in Nat /\ m \in Nat /\ n \in Nat
    BY <1>1
  <1>5. Better(x, z) <=> x.score > z.score \/ (x.score = z.score /\ (l < n \/ (l = n /\ xz)))
    BY DEF Better
  <1>6. xy /\ yz => xz
    BY <1>2
  <1> HIDE DEF xy, yz, xz, l, m, n
  <1>7. QED BY <1>1, <1>3, <1>4, <1>5, <1>6

(* Of two different texts one is the less.                                 *)
LEMMA LessIsTotal ==
  ASSUME NEW a \in Strings, NEW b \in Strings, a # b
  PROVE TextLess(a, b) \/ TextLess(b, a)
  <1> DEFINE m == Len(a)
             n == Len(b)
             D == {l \in Nat \ {0} : l <= m /\ l <= n /\ a[l] # b[l]}
  <1>1. /\ m \in Nat /\ n \in Nat
        /\ \A k \in 1 .. m : a[k] \in Int
        /\ \A k \in 1 .. n : b[k] \in Int
    BY DEF Strings
  <1>2. CASE D # {}
    <2>1. PICK i \in D : \A j \in D : i <= j
      <3>1. D \in SUBSET Nat
        OBVIOUS
      <3> HIDE DEF D
      <3>2. QED BY <1>2, <3>1, LeastNumber
    <2>2. /\ i \in Nat \ {0} /\ i <= m /\ i <= n /\ a[i] # b[i]
          /\ a[i] \in Int /\ b[i] \in Int
      BY <1>1
    <2>3. \A l \in 1 .. i - 1 : a[l] = b[l]
      <3> SUFFICES ASSUME NEW l \in 1 .. i - 1, a[l] # b[l] PROVE FALSE
        OBVIOUS
      <3>1. l \in Nat \ {0} /\ l <= m /\ l <= n /\ ~(i <= l)
        BY <1>1, <2>2
      <3>2. l \in D
        BY <3>1
      <3> HIDE DEF D
      <3>3. QED BY <2>1, <3>1, <3>2
    <2>4. LessAt(a, b, i) \/ LessAt(b, a, i)
      <3>1. i \in 1 .. m /\ i \in 1 .. n /\ i <= m + 1 /\ i <= n + 1
        BY <1>1, <2>2
      <3>2. a[i] < b[i] \/ b[i] < a[i]
        BY <2>2
      <3> HIDE DEF D
      <3>3. QED BY <2>3, <3>1, <3>2 DEF LessAt
    <2>5. QED BY <2>2, <2>4, LessMeans
  <1>3. CASE D = {}
    <2>1. \A l \in 1 .. m : l <= n => a[l] = b[l]
      <3> SUFFICES ASSUME NEW l \in 1 .. m, l <= n, a[l] # b[l] PROVE FALSE
        OBVIOUS
      <3>1. l \in D
        BY <1>1
      <3>2. QED BY <1>3, <3>1
    <2> HIDE DEF D
    <2>2. m # n
      <3> SUFFICES ASSUME m = n PROVE FALSE
        OBVIOUS
      <3>1. \A l \in 1 .. m : a[l] = b[l]
        BY <1>1, <2>1
      <3>2. a \in Seq(Int) /\ b \in Seq(Int) /\ Len(a) = Len(b) /\ \A l \in 1 .. Len(a) : a[l] = b[l]
        BY <3>1 DEF Strings
      <3>3. a = b
        BY <3>2, SeqEqual
      <3>4. QED BY <3>3
    <2>3. CASE m < n
      <3>1. m + 1 \in 1 .. n /\ m + 1 <= m + 1 /\ m + 1 \in Nat /\ ~(m + 1 <= m)
        BY <1>1, <2>3
      <3>2. \A l \in 1 .. (m + 1) - 1 : a[l] = b[l]
        BY <1>1, <2>1, <2>3
      <3>3. LessAt(a, b, m + 1)
        BY <3>1, <3>2 DEF LessAt
      <3>4. QED BY <3>1, <3>3, LessMeans
    <2>4. CASE n < m
      <3>1. n + 1 \in 1 .. m /\ n + 1 <= n + 1 /\ n + 1 \in Nat /\ ~(n + 1 <= n)
        BY <1>1, <2>4
      <3>2. \A l \in 1 .. (n + 1) - 1 : b[l] = a[l]
        BY <1>1, <2>1, <2>4
      <3>3. LessAt(b, a, n + 1)
        BY <3>1, <3>2 DEF LessAt
      <3>4. QED BY <3>1, <3>3, LessMeans
    <2>5. QED BY <1>1, <2>2, <2>3, <2>4
  <1>4. QED BY <1>2, <1>3

-----------------------------------------------------------------------------
(* Ties *)

(* Of two items one is better, or they tie; a tie changes nothing about    *)
(* what is better than either, and what ties is an equivalence.            *)
LEMMA TiesAre ==
  ASSUME NEW x, NEW y, Item(x), Item(y)
  PROVE /\ Better(x, y) \/ Better(y, x) \/ Ties(x, y)
        /\ Better(x, y) => ~Better(y, x) /\ ~Ties(x, y)
        /\ Ties(x, y) => Ties(y, x) /\ ~Better(x, y)
        /\ Ties(x, x)
  <1> DEFINE l == Len(x.reading)
             m == Len(y.reading)
             xy == TextLess(x.text, y.text)
             yx == TextLess(y.text, x.text)
  <1>1. /\ x.score \in Int /\ y.score \in Int /\ l \in Nat /\ m \in Nat
        /\ x.text \in Strings /\ y.text \in Strings
    BY DEF Item
  <1>2. xy \/ yx \/ x.text = y.text
    BY <1>1, LessIsTotal
  <1>3. ~(Better(x, y) /\ Better(y, x))
    BY BetterIsIrreflexive, BetterIsTransitive
  <1>4. x.text = y.text => ~xy
    BY <1>1, LessIsIrreflexive
  <1>5. /\ Better(x, y) <=> x.score > y.score \/ (x.score = y.score /\ (l < m \/ (l = m /\ xy)))
        /\ Better(y, x) <=> y.score > x.score \/ (y.score = x.score /\ (m < l \/ (m = l /\ yx)))
        /\ Ties(x, y) <=> x.score = y.score /\ l = m /\ x.text = y.text
        /\ Ties(y, x) <=> y.score = x.score /\ m = l /\ y.text = x.text
        /\ Ties(x, x)
    BY DEF Better, Ties
  <1> HIDE DEF l, m, xy, yx
  <1>6. QED BY <1>1, <1>2, <1>3, <1>4, <1>5

(* Items that tie stand alike to every other.                              *)
LEMMA TiesAgree ==
  ASSUME NEW x, NEW y, NEW z, Item(x), Item(y), Item(z), Ties(x, y)
  PROVE /\ Better(z, x) <=> Better(z, y)
        /\ Better(x, z) <=> Better(y, z)
        /\ Ties(z, x) <=> Ties(z, y)
  <1>1. x.score = y.score /\ Len(x.reading) = Len(y.reading) /\ x.text = y.text
    BY DEF Ties
  <1>2. QED BY <1>1 DEF Better, Ties

(* Finitely many that tie are in some order.                               *)
LEMMA OrderIs ==
  ASSUME NEW S, IsFiniteSet(S)
  PROVE /\ OrderOf(S) \in [S -> 1 .. Cardinality(S)]
        /\ \A x, y \in S : OrderOf(S)[x] = OrderOf(S)[y] => x = y
        /\ \A k \in 1 .. Cardinality(S) : \E x \in S : OrderOf(S)[x] = k
  <1> DEFINE n == Cardinality(S)
             I == 1 .. n
             f == OrderOf(S)
  <1>1. n \in Nat
    BY FS_CardinalityType
  <1>2. IsFiniteSet(I) /\ Cardinality(I) = n
    <2> HIDE DEF n
    <2>1. 1 \in Int /\ n \in Int /\ (1 > n <=> n = 0)
      BY <1>1
    <2>2. QED BY <2>1, FS_Interval
  <1>3. f \in [S -> I] /\ IsInjective(f)
    <2>1. ExistsBijection(S, I)
      <3> HIDE DEF I
      <3>1. QED BY <1>2, FS_SameCardinalityBij
    <2>2. PICK g \in [S -> I] : IsInjective(g)
      BY <2>1 DEF ExistsBijection, Bijection, Injection
    <2>3. QED BY <2>2 DEF OrderOf
  <1>4. f \in Injection(S, I)
    BY <1>3 DEF Injection
  <1>5. f \in Surjection(S, I)
    <2> HIDE DEF f, I
    <2>1. QED BY <1>2, <1>4, FS_Injection
  <1> HIDE DEF f, I
  <1>6. \A x, y \in S : f[x] = f[y] => x = y
    BY <1>3 DEF IsInjective
  <1>7. \A k \in I : \E x \in S : f[x] = k
    BY <1>5 DEF Surjection
  <1>8. QED BY <1>3, <1>6, <1>7 DEF f, I

-----------------------------------------------------------------------------
(* Rankings *)

Rankable(items) == IsFiniteSet(DOMAIN items) /\ \A i \in DOMAIN items : Item(items[i])

(* Of two items one comes before the other: the better one, or the one     *)
(* that comes first among those that tie.                                  *)
Tied(items, j) == {i \in DOMAIN items : Ties(items[i], items[j])}
Ahead(items, i, j) ==
  \/ Better(items[i], items[j])
  \/ Ties(items[i], items[j]) /\ OrderOf(Tied(items, j))[i] < OrderOf(Tied(items, j))[j]
Above(items, j) == {i \in DOMAIN items : Ahead(items, i, j)}
Rank(items, j) == Cardinality(Above(items, j))

(* The order of those that tie with an item, and that it is theirs.        *)
LEMMA TiedAre ==
  ASSUME NEW items, Rankable(items), NEW j \in DOMAIN items
  PROVE /\ Tied(items, j) \in SUBSET DOMAIN items /\ IsFiniteSet(Tied(items, j))
        /\ j \in Tied(items, j)
        /\ OrderOf(Tied(items, j)) \in [Tied(items, j) -> 1 .. Cardinality(Tied(items, j))]
        /\ \A x, y \in Tied(items, j) : OrderOf(Tied(items, j))[x] = OrderOf(Tied(items, j))[y] => x = y
        /\ \A k \in 1 .. Cardinality(Tied(items, j)) : \E x \in Tied(items, j) : OrderOf(Tied(items, j))[x] = k
        /\ \A i \in Tied(items, j) : Tied(items, i) = Tied(items, j)
  <1>1. Tied(items, j) \in SUBSET DOMAIN items
    BY DEF Tied
  <1>2. IsFiniteSet(Tied(items, j))
    BY <1>1, FS_Subset DEF Rankable
  <1>3. j \in Tied(items, j)
    BY TiesAre DEF Tied, Rankable
  <1>4. ASSUME NEW i \in Tied(items, j) PROVE Tied(items, i) = Tied(items, j)
    <2>1. Ties(items[i], items[j]) /\ i \in DOMAIN items
      BY DEF Tied
    <2>2. \A h \in DOMAIN items : Ties(items[h], items[i]) <=> Ties(items[h], items[j])
      BY <2>1, TiesAgree DEF Rankable
    <2>3. QED BY <2>2 DEF Tied
  <1>5. QED BY <1>1, <1>2, <1>3, <1>4, OrderIs

(* Nothing comes before itself, and of two different items one comes       *)
(* before the other.                                                       *)
LEMMA OneIsAhead ==
  ASSUME NEW items, Rankable(items), NEW i \in DOMAIN items, NEW j \in DOMAIN items
  PROVE /\ ~Ahead(items, i, i)
        /\ i # j => Ahead(items, i, j) \/ Ahead(items, j, i)
        /\ Better(items[j], items[i]) => ~Ahead(items, i, j)
  <1>0. Item(items[i]) /\ Item(items[j])
    BY DEF Rankable
  <1>1. ~Ahead(items, i, i)
    <2>1. OrderOf(Tied(items, i))[i] \in Int
      BY TiedAre
    <2>2. ~Better(items[i], items[i])
      BY <1>0, BetterIsIrreflexive
    <2>3. QED BY <2>1, <2>2 DEF Ahead
  <1>2. ASSUME i # j PROVE Ahead(items, i, j) \/ Ahead(items, j, i)
    <2>1. CASE Ties(items[i], items[j])
      <3> DEFINE f == OrderOf(Tied(items, j))
      <3>1. i \in Tied(items, j) /\ j \in Tied(items, j) /\ Tied(items, i) = Tied(items, j)
            /\ Ties(items[j], items[i])
        BY <1>0, <2>1, TiedAre, TiesAre DEF Tied
      <3>2. f[i] # f[j] /\ f[i] \in Int /\ f[j] \in Int
        BY <1>2, <3>1, TiedAre
      <3>3. f[i] < f[j] \/ f[j] < f[i]
        BY <3>2
      <3>4. QED BY <2>1, <3>1, <3>3 DEF Ahead
    <2>2. CASE ~Ties(items[i], items[j])
      BY <1>0, <2>2, TiesAre DEF Ahead
    <2>3. QED BY <2>1, <2>2
  <1>3. Better(items[j], items[i]) => ~Ahead(items, i, j)
    <2>1. Better(items[j], items[i]) => ~Better(items[i], items[j]) /\ ~Ties(items[i], items[j])
      BY <1>0, TiesAre
    <2>2. QED BY <2>1 DEF Ahead
  <1>4. QED BY <1>1, <1>2, <1>3

(* Coming before is transitive.                                            *)
LEMMA AheadIsTransitive ==
  ASSUME NEW items, Rankable(items),
         NEW i \in DOMAIN items, NEW j \in DOMAIN items, NEW k \in DOMAIN items,
         Ahead(items, i, j), Ahead(items, j, k)
  PROVE Ahead(items, i, k)
  <1>0. Item(items[i]) /\ Item(items[j]) /\ Item(items[k])
    BY DEF Rankable
  <1>1. CASE Better(items[i], items[j]) /\ Better(items[j], items[k])
    BY <1>0, <1>1, BetterIsTransitive DEF Ahead
  <1>2. CASE Better(items[i], items[j]) /\ Ties(items[j], items[k])
    BY <1>0, <1>2, TiesAgree DEF Ahead
  <1>3. CASE Ties(items[i], items[j]) /\ Better(items[j], items[k])
    BY <1>0, <1>3, TiesAgree DEF Ahead
  <1>4. CASE Ties(items[i], items[j]) /\ Ties(items[j], items[k])
    <2> DEFINE f == OrderOf(Tied(items, k))
    <2>1. Ties(items[i], items[k])
      BY <1>0, <1>4, TiesAgree
    <2>2. j \in Tied(items, k) /\ i \in Tied(items, k) /\ k \in Tied(items, k)
      BY <1>4, <2>1, TiedAre DEF Tied
    <2>3. Tied(items, j) = Tied(items, k)
      BY <2>2, TiedAre
    <2>4. f[i] \in Int /\ f[j] \in Int /\ f[k] \in Int
      BY <2>2, TiedAre
    <2>5. f[i] < f[j] /\ f[j] < f[k]
      BY <1>0, <1>4, <2>3, TiesAre DEF Ahead
    <2>6. f[i] < f[k]
      BY <2>4, <2>5
    <2>7. QED BY <2>1, <2>6 DEF Ahead
  <1>5. QED BY <1>1, <1>2, <1>3, <1>4 DEF Ahead

(* What comes before ranks before, and nothing ranks behind all places.    *)
LEMMA RankIs ==
  ASSUME NEW items, Rankable(items), NEW x \in DOMAIN items
  PROVE /\ Rank(items, x) \in 0 .. Cardinality(DOMAIN items) - 1
        /\ IsFiniteSet(Above(items, x)) /\ Above(items, x) \in SUBSET DOMAIN items
        /\ \A y \in DOMAIN items :
             Ahead(items, y, x) => /\ Above(items, y) \in SUBSET Above(items, x)
                                   /\ Rank(items, y) < Rank(items, x)
  <1> DEFINE S == DOMAIN items
  <1>0. IsFiniteSet(S)
    BY DEF Rankable
  <1>1. Above(items, x) \in SUBSET S /\ x \notin Above(items, x) /\ IsFiniteSet(Above(items, x))
    <2>1. Above(items, x) \in SUBSET S
      BY DEF Above
    <2>2. x \notin Above(items, x)
      BY OneIsAhead DEF Above
    <2>3. QED BY <1>0, <2>1, <2>2, FS_Subset
  <1>2. Rank(items, x) \in Nat /\ Cardinality(S) \in Nat /\ Rank(items, x) < Cardinality(S)
    <2>1. Rank(items, x) \in Nat /\ Cardinality(S) \in Nat
      BY <1>0, <1>1, FS_CardinalityType DEF Rank
    <2>2. /\ Cardinality(Above(items, x)) <= Cardinality(S)
          /\ Cardinality(Above(items, x)) = Cardinality(S) => Above(items, x) = S
      BY <1>0, <1>1, FS_Subset
    <2>3. Above(items, x) # S
      BY <1>1
    <2>4. QED BY <2>1, <2>2, <2>3 DEF Rank
  <1>3. ASSUME NEW y \in S, Ahead(items, y, x)
        PROVE Above(items, y) \in SUBSET Above(items, x) /\ Rank(items, y) < Rank(items, x)
    <2>1. Above(items, y) \in SUBSET Above(items, x)
      BY <1>3, AheadIsTransitive DEF Above
    <2>2. y \in Above(items, x) /\ y \notin Above(items, y)
      BY <1>3, OneIsAhead DEF Above
    <2>3. Above(items, y) # Above(items, x) /\ IsFiniteSet(Above(items, y))
      BY <1>1, <2>1, <2>2, FS_Subset
    <2>4. Rank(items, y) \in Nat /\ Rank(items, x) \in Nat
      BY <1>1, <2>3, FS_CardinalityType DEF Rank
    <2>5. /\ Rank(items, y) <= Rank(items, x)
          /\ Rank(items, y) = Rank(items, x) => Above(items, y) = Above(items, x)
      BY <1>1, <2>1, FS_Subset DEF Rank
    <2>6. QED BY <2>1, <2>3, <2>4, <2>5
  <1>4. QED BY <1>1, <1>2, <1>3

(* Every place has one that ranks there, and no two rank at one place.     *)
LEMMA RankNames ==
  ASSUME NEW items, Rankable(items)
  PROVE /\ \A x, y \in DOMAIN items : Rank(items, x) = Rank(items, y) => x = y
        /\ \A k \in 0 .. Cardinality(DOMAIN items) - 1 : \E x \in DOMAIN items : Rank(items, x) = k
  <1> DEFINE S == DOMAIN items
             n == Cardinality(S)
             f == [x \in S |-> Rank(items, x)]
  <1>1. IsFiniteSet(S) /\ n \in Nat
    BY FS_CardinalityType DEF Rankable
  <1>2. \A x \in S : Rank(items, x) \in 0 .. n - 1
    BY RankIs
  <1>3. ASSUME NEW x \in S, NEW y \in S, Rank(items, x) = Rank(items, y) PROVE x = y
    <2> SUFFICES ASSUME x # y PROVE FALSE
      OBVIOUS
    <2>1. Rank(items, x) < Rank(items, y) \/ Rank(items, y) < Rank(items, x)
      BY OneIsAhead, RankIs
    <2> DEFINE a == Rank(items, x)
               b == Rank(items, y)
    <2>2. a \in Int /\ b \in Int /\ a = b /\ (a < b \/ b < a)
      BY <1>2, <1>3, <2>1
    <2> HIDE DEF a, b
    <2>3. QED BY <2>2
  <1>4. f \in Injection(S, 0 .. n - 1)
    <2>1. f \in [S -> 0 .. n - 1]
      BY <1>2
    <2>2. \A x, y \in S : f[x] = f[y] => x = y
      BY <1>3
    <2> HIDE DEF f
    <2>3. QED BY <2>1, <2>2 DEF Injection, IsInjective
  <1>5. Cardinality(0 .. n - 1) = n
    <2> HIDE DEF n
    <2>1. 0 \in Int /\ n - 1 \in Int
      BY <1>1
    <2>2. Cardinality(0 .. n - 1) = IF 0 > n - 1 THEN 0 ELSE (n - 1) - 0 + 1
      BY <2>1, FS_Interval
    <2>3. QED BY <1>1, <2>2
  <1>6. f \in Surjection(S, 0 .. n - 1)
    <2> DEFINE I == 0 .. n - 1
    <2>1. f \in Injection(S, I) /\ Cardinality(S) = Cardinality(I) /\ IsFiniteSet(I)
      BY <1>1, <1>4, <1>5, FS_Interval
    <2> HIDE DEF f, I, S
    <2>2. f \in Surjection(S, I)
      BY <2>1, FS_Injection
    <2>3. QED BY <2>2 DEF I
  <1>7. \A k \in 0 .. n - 1 : \E x \in S : f[x] = k
    <2> HIDE DEF f
    <2>1. QED BY <1>6 DEF Surjection
  <1>8. QED BY <1>3, <1>7

(* The place in a ranking: behind those that are better, and behind those  *)
(* of its own kind that come first.                                        *)
LEMMA PlaceIs ==
  ASSUME NEW items, Rankable(items), NEW j \in DOMAIN items
  PROVE Cardinality({i \in DOMAIN items : Better(items[i], items[j])}) + OrderOf(Tied(items, j))[j]
          = Rank(items, j) + 1
  <1> DEFINE T == Tied(items, j)
             f == OrderOf(T)
             m == f[j]
             before == {i \in T : f[i] < m}
             better == {i \in DOMAIN items : Better(items[i], items[j])}
             t == Cardinality(T)
  <1>1. /\ T \in SUBSET DOMAIN items /\ IsFiniteSet(T) /\ j \in T /\ f \in [T -> 1 .. t]
        /\ \A x, y \in T : f[x] = f[y] => x = y
        /\ \A k \in 1 .. t : \E x \in T : f[x] = k
    BY TiedAre
  <1>2. t \in Nat /\ m \in 1 .. t /\ m - 1 \in Nat
    BY <1>1, FS_CardinalityType
  <1>3. Above(items, j) = better \cup before /\ better \cap before = {}
    <2>1. \A i \in DOMAIN items : Ahead(items, i, j) <=> i \in better \/ i \in before
      BY DEF Ahead, Tied
    <2>2. \A i \in T : ~Better(items[i], items[j])
      BY <1>1, TiesAre DEF Tied, Rankable
    <2>3. before \in SUBSET T /\ better \in SUBSET DOMAIN items
      OBVIOUS
    <2> HIDE DEF before, T
    <2>4. QED BY <1>1, <2>1, <2>2, <2>3 DEF Above
  <1>4. IsFiniteSet(better) /\ IsFiniteSet(before)
    <2>1. better \in SUBSET DOMAIN items /\ before \in SUBSET T
      OBVIOUS
    <2> HIDE DEF better, before, T
    <2>2. QED BY <1>1, <2>1, FS_Subset DEF Rankable
  <1>5. Cardinality(before) = m - 1
    <2> DEFINE I == 1 .. m - 1
               g == [i \in before |-> f[i]]
    <2> HIDE DEF T, f, t
    <2>1. \A i \in before : g[i] = f[i] /\ i \in T /\ f[i] \in I
      BY <1>1, <1>2
    <2>2. g \in [before -> I]
      BY <2>1
    <2>3. \A x, y \in before : g[x] = g[y] => x = y
      BY <1>1, <2>1
    <2>4. \A k \in I : \E x \in before : g[x] = k
      <3> SUFFICES ASSUME NEW k \in I PROVE \E x \in before : g[x] = k
        OBVIOUS
      <3>1. k \in 1 .. t /\ k < m
        BY <1>2
      <3>2. PICK x \in T : f[x] = k
        BY <1>1, <3>1
      <3>3. x \in before
        BY <3>1, <3>2
      <3>4. QED BY <2>1, <3>2, <3>3
    <2>5. IsFiniteSet(I) /\ Cardinality(I) = m - 1
      <3>1. 1 \in Int /\ m - 1 \in Int /\ (1 > m - 1 <=> m - 1 = 0)
        BY <1>2
      <3> DEFINE p == m - 1
      <3>2. p \in Int /\ (1 > p <=> p = 0)
        BY <3>1
      <3> HIDE DEF p
      <3>3. IsFiniteSet(1 .. p) /\ Cardinality(1 .. p) = p
        BY <3>2, FS_Interval
      <3>4. QED BY <3>3 DEF p
    <2> HIDE DEF before, g, I, m
    <2>6. g \in Injection(before, I)
      BY <2>2, <2>3 DEF Injection, IsInjective
    <2>7. g \in Surjection(before, I)
      BY <2>2, <2>4 DEF Surjection
    <2>8. Cardinality(before) = Cardinality(I)
      BY <1>4, <2>5, <2>6, <2>7, FS_Injection
    <2>9. QED BY <2>5, <2>8
  <1> HIDE DEF T, f, m, before, better
  <1>6. Rank(items, j) = Cardinality(better) + Cardinality(before)
    <2>1. Cardinality(better \cup before)
            = Cardinality(better) + Cardinality(before) - Cardinality(better \cap before)
      BY <1>4, FS_Union
    <2>2. Cardinality(better \cap before) = 0
      BY <1>3, FS_EmptySet
    <2>3. Cardinality(better) \in Nat /\ Cardinality(before) \in Nat
      BY <1>4, FS_CardinalityType
    <2>4. QED BY <1>3, <2>1, <2>2, <2>3 DEF Rank
  <1>7. Cardinality(better) \in Nat
    BY <1>4, FS_CardinalityType
  <1>8. Cardinality(better) + m = Rank(items, j) + 1
    BY <1>2, <1>5, <1>6, <1>7
  <1>9. QED BY <1>8 DEF better, m, f, T

(* A ranking has at each place the one that ranks there.                   *)
LEMMA RankedIs ==
  ASSUME NEW items, Rankable(items)
  PROVE /\ Ranked(items) \in [1 .. Cardinality(DOMAIN items) -> DOMAIN items]
        /\ \A i \in 1 .. Cardinality(DOMAIN items) : Rank(items, Ranked(items)[i]) = i - 1
        /\ \A x \in DOMAIN items : /\ Rank(items, x) + 1 \in 1 .. Cardinality(DOMAIN items)
                                   /\ Ranked(items)[Rank(items, x) + 1] = x
  <1> DEFINE S == DOMAIN items
             n == Cardinality(S)
             place == [j \in S |-> Cardinality({i \in S : Better(items[i], items[j])})
                                     + OrderOf({i \in S : Ties(items[i], items[j])})[j]]
             e(k) == CHOOSE j \in S : place[j] = k
             s == Ranked(items)
  <1>1. n \in Nat
    BY FS_CardinalityType DEF Rankable
  <1>2. s = [k \in 1 .. n |-> e(k)]
    BY DEF Ranked
  <1>3. \A j \in S : place[j] = Rank(items, j) + 1
    BY PlaceIs DEF Tied
  <1> HIDE DEF place
  <1>4. ASSUME NEW k \in 1 .. n PROVE e(k) \in S /\ Rank(items, e(k)) = k - 1
    <2>1. k - 1 \in 0 .. n - 1 /\ (k - 1) + 1 = k
      BY <1>1
    <2>2. PICK x \in S : Rank(items, x) = k - 1
      BY <2>1, RankNames
    <2>3. place[x] = k
      BY <1>3, <2>1, <2>2
    <2>4. e(k) \in S /\ place[e(k)] = k
      BY <2>3
    <2> HIDE DEF e, n
    <2>5. Rank(items, e(k)) + 1 = k /\ Rank(items, e(k)) \in Int
      BY <1>3, <2>4, RankIs
    <2>6. QED BY <2>4, <2>5
  <1> HIDE DEF e
  <1>5. s \in [1 .. n -> S]
    BY <1>2, <1>4
  <1>6. \A k \in 1 .. n : Rank(items, s[k]) = k - 1
    BY <1>2, <1>4
  <1> HIDE DEF s
  <1>7. ASSUME NEW x \in S PROVE Rank(items, x) + 1 \in 1 .. n /\ s[Rank(items, x) + 1] = x
    <2> DEFINE k == Rank(items, x)
    <2>1. k \in 0 .. n - 1
      BY RankIs
    <2> HIDE DEF k
    <2>2. k + 1 \in 1 .. n /\ (k + 1) - 1 = k
      BY <1>1, <2>1
    <2>3. s[k + 1] \in S /\ Rank(items, s[k + 1]) = Rank(items, x)
      BY <1>5, <1>6, <2>2 DEF k
    <2>4. QED BY <2>2, <2>3, RankNames DEF k
  <1>8. QED BY <1>5, <1>6, <1>7 DEF s

(* A ranking repeats nothing, and nothing in it comes behind what comes    *)
(* behind it.                                                              *)
LEMMA InOrder ==
  ASSUME NEW items, Rankable(items), NEW k \in 1 .. Cardinality(DOMAIN items),
         NEW l \in 1 .. Cardinality(DOMAIN items), k < l
  PROVE /\ Ranked(items)[k] # Ranked(items)[l] /\ Ahead(items, Ranked(items)[k], Ranked(items)[l])
        /\ ~Better(items[Ranked(items)[l]], items[Ranked(items)[k]])
  <1> DEFINE n == Cardinality(DOMAIN items)
             s == Ranked(items)
  <1>1. /\ s[k] \in DOMAIN items /\ s[l] \in DOMAIN items
        /\ Rank(items, s[k]) = k - 1 /\ Rank(items, s[l]) = l - 1
    BY RankedIs
  <1>2. n \in Nat
    BY FS_CardinalityType DEF Rankable
  <1> HIDE DEF s, n
  <1>3. k \in Int /\ l \in Int
    BY <1>2 DEF n
  <1>4. s[k] # s[l]
    BY <1>1, <1>3
  <1>5. ~Ahead(items, s[l], s[k])
    <2> SUFFICES ASSUME Ahead(items, s[l], s[k]) PROVE FALSE
      OBVIOUS
    <2>1. Rank(items, s[l]) < Rank(items, s[k])
      BY <1>1, RankIs
    <2>2. QED BY <1>1, <1>3, <2>1
  <1>6. QED BY <1>1, <1>4, <1>5, OneIsAhead DEF Ahead, s

(* f is the first of s, all n of it or as many as the limit allows.        *)
StartOf(f, s, n, limit) ==
  \E m \in Nat : m <= n /\ m <= limit /\ (m = n \/ m = limit) /\ f = [i \in 1 .. m |-> s[i]]

(* The first of a list are its start.                                     *)
LEMMA FirstOfIs ==
  ASSUME NEW T, NEW n \in Nat, NEW s \in [1 .. n -> T], NEW limit \in Nat
  PROVE StartOf(FirstOf(s, limit), s, n, limit)
  <1> DEFINE m == Min({limit, Len(s)})
  <1>1. s \in Seq(T) /\ Len(s) = n
    OBVIOUS
  <1>2. \E x \in {limit, n} : \A y \in {limit, n} : y >= x
    OBVIOUS
  <1>3. m \in {limit, n} /\ \A y \in {limit, n} : y >= m
    BY <1>1, <1>2 DEF Min
  <1> HIDE DEF m
  <1>4. m \in Nat /\ m <= n /\ m <= limit /\ (m = n \/ m = limit)
    BY <1>3
  <1>5. SubSeq(s, 1, m) = [i \in 1 .. m |-> s[i]]
    <2>1. SubSeq(s, 1, m) = [i \in 1 .. (1 + m - 1) |-> s[1 + i - 1]]
      BY <1>1, <1>4
    <2>2. 1 + m - 1 = m /\ \A i \in 1 .. m : 1 + i - 1 = i
      BY <1>4
    <2>3. QED BY <2>1, <2>2
  <1>6. FirstOf(s, limit) = SubSeq(s, 1, m)
    BY DEF FirstOf, m
  <1>7. QED BY <1>4, <1>5, <1>6 DEF StartOf

(* The first of a ranking is one of what was ranked.                       *)
LEMMA FirstIsRanked ==
  ASSUME NEW S, IsFiniteSet(S), S # {}, \A x \in S : Item(x), NEW limit \in Nat \ {0}
  PROVE SortAndTrim(S, limit)[1] \in S
  <1> DEFINE items == [c \in S |-> c]
             n == Cardinality(S)
             s == Ranked(items)
  <1>1. n \in Nat /\ n # 0
    BY FS_CardinalityType, FS_EmptySet
  <1>2. Rankable(items) /\ DOMAIN items = S
    BY DEF Rankable
  <1>3. s \in [1 .. n -> S]
    BY <1>2, RankedIs
  <1>4. SortAndTrim(S, limit) = FirstOf(s, limit)
    BY DEF SortAndTrim
  <1> HIDE DEF s, items, n
  <1>5. StartOf(FirstOf(s, limit), s, n, limit)
    BY <1>1, <1>3, FirstOfIs
  <1>6. PICK m \in Nat : (m = n \/ m = limit) /\ FirstOf(s, limit) = [i \in 1 .. m |-> s[i]]
    BY <1>5 DEF StartOf
  <1>7. 1 \in 1 .. m /\ 1 \in 1 .. n
    BY <1>1, <1>6
  <1>8. QED BY <1>3, <1>4, <1>6, <1>7

-----------------------------------------------------------------------------
(* The spellings of a reading *)

(* What ToRomaji takes from a reading at a position, and what it makes of  *)
(* the rest.                                                               *)
Unit(reading, i) ==
  IF /\ i < Len(reading) /\ reading[i + 1] \in SmallHiragana
     /\ SubSeq(reading, i, i + 1) \in DOMAIN KanaToRomaji
  THEN SubSeq(reading, i, i + 1) ELSE <<reading[i]>>
Spell(reading, f, i, sokuon) ==
  IF i > Len(reading) THEN IF sokuon THEN Xtsu ELSE <<>>
  ELSE IF reading[i] = SmallTsu THEN f[i + 1][TRUE]
  ELSE IF Unit(reading, i) \in DOMAIN KanaToRomaji
       THEN (IF sokuon THEN <<KanaToRomaji[Unit(reading, i)][1]>> ELSE <<>>)
              \o KanaToRomaji[Unit(reading, i)] \o f[i + Len(Unit(reading, i))][FALSE]
       ELSE Unit(reading, i) \o f[i + 1][FALSE]
Spelled(reading, f, i) == [sokuon \in BOOLEAN |-> Spell(reading, f, i, sokuon)]

(* The kana a spelling reads at a place: one or two characters, within     *)
(* the reading.                                                            *)
LEMMA UnitIs ==
  ASSUME NEW reading \in Seq(Nat), NEW i \in 1 .. Len(reading)
  PROVE /\ Unit(reading, i) \in Strings
        /\ i + Len(Unit(reading, i)) \in i + 1 .. Len(reading) + 1 /\ i + 1 \in i + 1 .. Len(reading) + 1
  <1>1. Len(reading) \in Nat /\ reading[i] \in Nat /\ i \in Nat
    OBVIOUS
  <1>2. <<reading[i]>> \in Seq(Int) /\ Len(<<reading[i]>>) = 1
    BY <1>1
  <1>3. ASSUME i < Len(reading)
        PROVE SubSeq(reading, i, i + 1) \in Seq(Int) /\ Len(SubSeq(reading, i, i + 1)) = 2
    <2>1. reading \in Seq(Int) /\ i + 1 \in 1 .. Len(reading)
      BY <1>1, <1>3
    <2>2. SubSeq(reading, i, i + 1) \in Seq(Int)
      BY <2>1
    <2>3. Len(SubSeq(reading, i, i + 1)) = 2
      BY <1>1, <2>1
    <2>4. QED BY <2>2, <2>3
  <1> DEFINE len == Len(reading)
             unit == Unit(reading, i)
  <1>4. \/ unit = <<reading[i]>>
        \/ i < len /\ unit = SubSeq(reading, i, i + 1)
    BY DEF Unit
  <1>5. unit \in Seq(Int) /\ (Len(unit) = 1 \/ (i < len /\ Len(unit) = 2))
    BY <1>2, <1>3, <1>4
  <1>6. len \in Nat /\ i \in 1 .. len
    BY <1>1
  <1>7. i + Len(unit) \in i + 1 .. len + 1 /\ i + 1 \in i + 1 .. len + 1
    <2> DEFINE m == Len(unit)
    <2>1. i \in Nat /\ len \in Nat /\ i <= len /\ (m = 1 \/ (i < len /\ m = 2))
      BY <1>5, <1>6
    <2> HIDE DEF m, len
    <2>2. i + m \in i + 1 .. len + 1 /\ i + 1 \in i + 1 .. len + 1
      BY <2>1
    <2>3. QED BY <2>2 DEF m
  <1>8. QED BY <1>5, <1>7 DEF Strings, unit, len

(* A spelling depends on what follows it.                                  *)
LEMMA SameSpelling ==
  ASSUME NEW reading \in Seq(Nat), NEW i \in 1 .. Len(reading) + 1, NEW f, NEW g,
         \A l \in i + 1 .. Len(reading) + 1 : f[l] = g[l]
  PROVE Spelled(reading, f, i) = Spelled(reading, g, i)
  <1>1. ASSUME i \in 1 .. Len(reading), NEW sokuon \in BOOLEAN
        PROVE Spell(reading, f, i, sokuon) = Spell(reading, g, i, sokuon)
    <2>1. f[i + 1] = g[i + 1] /\ f[i + Len(Unit(reading, i))] = g[i + Len(Unit(reading, i))]
      BY <1>1, UnitIs
    <2>2. QED BY <2>1 DEF Spell
  <1>2. ASSUME i \notin 1 .. Len(reading), NEW sokuon \in BOOLEAN
        PROVE Spell(reading, f, i, sokuon) = Spell(reading, g, i, sokuon)
    <2>1. i > Len(reading)
      BY <1>2
    <2>2. QED BY <2>1 DEF Spell
  <1>3. \A sokuon \in BOOLEAN : Spell(reading, f, i, sokuon) = Spell(reading, g, i, sokuon)
    BY <1>1, <1>2
  <1>4. QED BY <1>3 DEF Spelled

(* Every reading is spelled: from the last place back to any first one     *)
(* there is a function that spells what follows it.                        *)
LEMMA SpellingExists ==
  ASSUME NEW reading \in Seq(Nat)
  PROVE \E f : f = [i \in 1 .. Len(reading) + 1 |-> Spelled(reading, f, i)]
  <1> DEFINE n == Len(reading)
             Is(f, j) == f = [i \in j .. n + 1 |-> Spelled(reading, f, i)]
             Bad == {k \in Nat : k <= n + 1 /\ ~\E f : Is(f, n + 2 - k)}
  <1>1. n \in Nat
    OBVIOUS
  <1>2. ASSUME Bad # {} PROVE FALSE
    <2>1. PICK k \in Bad : \A j \in Bad : k <= j
      <3>1. Bad \in SUBSET Nat
        OBVIOUS
      <3> HIDE DEF Bad
      <3>2. QED BY <1>2, <3>1, LeastNumber
    <2>2. k \in Nat /\ k <= n + 1 /\ ~\E f : Is(f, n + 2 - k)
      BY <2>1
    <2>3. CASE k = 0
      <3>1. n + 2 - k .. n + 1 = {}
        BY <1>1, <2>3
      <3>2. \A f : [i \in n + 2 - k .. n + 1 |-> Spelled(reading, f, i)] = [i \in {} |-> 0]
        BY <3>1
      <3>3. Is([i \in {} |-> 0], n + 2 - k)
        BY <3>2
      <3>4. QED BY <2>2, <3>3
    <2>4. CASE k # 0
      <3> DEFINE m == n + 2 - k
      <3>1. /\ k - 1 \in Nat /\ ~(k <= k - 1) /\ k - 1 <= n + 1 /\ n + 2 - (k - 1) = m + 1
            /\ m \in 1 .. n + 1
        BY <1>1, <2>2, <2>4
      <3>2. \E f : Is(f, n + 2 - (k - 1))
        BY <2>1, <3>1
      <3>3. PICK f : Is(f, m + 1)
        BY <3>1, <3>2
      <3> DEFINE H == [i \in m .. n + 1 |-> IF i # m THEN f[i] ELSE Spelled(reading, f, m)]
      <3> HIDE DEF n, m
      <3>4. \A i \in m + 1 .. n + 1 : H[i] = f[i]
        BY <1>1, <3>1
      <3>5. H[m] = Spelled(reading, f, m)
        BY <1>1, <3>1
      <3>6. H = [i \in m .. n + 1 |-> H[i]]
        OBVIOUS
      <3> HIDE DEF H
      <3>7. ASSUME NEW i \in m .. n + 1 PROVE H[i] = Spelled(reading, H, i)
        <4>1. i \in 1 .. Len(reading) + 1 /\ \A l \in i + 1 .. Len(reading) + 1 : f[l] = H[l]
          <5>1. i \in 1 .. n + 1 /\ \A l \in i + 1 .. n + 1 : f[l] = H[l]
            BY <1>1, <3>1, <3>4
          <5>2. QED BY <5>1 DEF n
        <4>2. Spelled(reading, f, i) = Spelled(reading, H, i)
          BY <4>1, SameSpelling
        <4>3. H[i] = Spelled(reading, f, i)
          <5>1. CASE i = m
            BY <3>5, <5>1
          <5>2. CASE i # m
            <6>1. i \in m + 1 .. n + 1
              BY <1>1, <3>1, <5>2
            <6>2. f = [l \in m + 1 .. n + 1 |-> Spelled(reading, f, l)]
              BY <3>3
            <6>3. f[i] = Spelled(reading, f, i)
              BY <6>1, <6>2
            <6>4. QED BY <3>4, <6>1, <6>3
          <5>3. QED BY <5>1, <5>2
        <4>4. QED BY <4>2, <4>3
      <3>8. [i \in m .. n + 1 |-> H[i]] = [i \in m .. n + 1 |-> Spelled(reading, H, i)]
        BY <3>7
      <3>9. Is(H, m)
        BY <3>6, <3>8
      <3>10. QED BY <2>2, <3>9 DEF m
    <2>5. QED BY <2>3, <2>4
  <1>3. n + 1 \notin Bad /\ n + 1 \in Nat /\ n + 2 - (n + 1) = 1
    BY <1>1, <1>2
  <1>4. QED BY <1>3

(* The spellings are strings like all others.                              *)
LEMMA RomajiIsText ==
  ASSUME NEW reading \in Seq(Nat)
  PROVE ToRomaji(reading) \in Strings
  <1> DEFINE n == Len(reading)
             f == CHOOSE f : f = [i \in 1 .. n + 1 |-> Spelled(reading, f, i)]
             Fine(i) == \A sokuon \in BOOLEAN : f[i][sokuon] \in Strings
             Good == {i \in 1 .. n + 1 : Fine(n + 2 - i)}
  <1>1. n \in Nat
    OBVIOUS
  <1>2. f = [i \in 1 .. n + 1 |-> Spelled(reading, f, i)]
    <2>1. \E g : g = [i \in 1 .. n + 1 |-> Spelled(reading, g, i)]
      BY SpellingExists
    <2>2. QED BY <2>1, Zenon
  <1>3. ToRomaji(reading) = f[1][FALSE]
    BY DEF ToRomaji, Spelled, Spell, Unit
  <1> HIDE DEF f
  <1>4. \A i \in 1 .. n + 1 : \A sokuon \in BOOLEAN : f[i][sokuon] = Spell(reading, f, i, sokuon)
    <2>1. \A i \in 1 .. n + 1 : f[i] = Spelled(reading, f, i)
      BY <1>2
    <2>2. QED BY <2>1 DEF Spelled
  <1>5. \A kana \in DOMAIN KanaToRomaji : KanaToRomaji[kana] \in Strings /\ KanaToRomaji[kana][1] \in Int
    <2>1. ASSUME NEW kana \in DOMAIN KanaToRomaji
          PROVE KanaToRomaji[kana] \in Strings /\ KanaToRomaji[kana][1] \in Int
      <3> DEFINE letters == KanaToRomaji[kana]
      <3>1. letters \in Seq(Nat) /\ letters # <<>>
        BY RankingAssumption
      <3> HIDE DEF letters
      <3>2. letters \in Seq(Int) /\ letters[1] \in Int
        BY <3>1
      <3>3. QED BY <3>2 DEF Strings, letters
    <2>2. QED BY <2>1
  <1>6. ASSUME NEW i \in 1 .. n + 1, \A l \in i + 1 .. n + 1 : Fine(l), NEW sokuon \in BOOLEAN
        PROVE Spell(reading, f, i, sokuon) \in Strings
    <2>1. CASE i \in 1 .. n
      <3> DEFINE unit == Unit(reading, i)
      <3>1. unit \in Strings /\ i + Len(unit) \in i + 1 .. n + 1 /\ i + 1 \in i + 1 .. n + 1
        BY <2>1, UnitIs
      <3>2. f[i + 1][TRUE] \in Strings /\ f[i + 1][FALSE] \in Strings /\ f[i + Len(unit)][FALSE] \in Strings
        BY <1>6, <3>1
      <3>3. ~(i > n)
        BY <1>1, <2>1
      <3>4. CASE reading[i] = SmallTsu
        BY <3>2, <3>3, <3>4 DEF Spell
      <3>5. CASE reading[i] # SmallTsu /\ unit \in DOMAIN KanaToRomaji
        <4> DEFINE letters == KanaToRomaji[unit]
                   double == IF sokuon THEN <<letters[1]>> ELSE <<>>
                   rest == f[i + Len(unit)][FALSE]
        <4>1. Spell(reading, f, i, sokuon) = double \o letters \o rest
          BY <3>3, <3>5 DEF Spell
        <4>2. letters \in Strings /\ double \in Strings /\ rest \in Strings
          <5>1. letters \in Strings /\ letters[1] \in Int
            BY <1>5, <3>5
          <5> HIDE DEF letters
          <5>2. <<letters[1]>> \in Strings /\ <<>> \in Strings
            BY <5>1 DEF Strings
          <5>3. double \in Strings
            BY <5>2
          <5>4. QED BY <3>2, <5>1, <5>3
        <4> HIDE DEF letters, double, rest
        <4>3. double \o letters \o rest \in Strings
          BY <4>2 DEF Strings
        <4>4. QED BY <4>1, <4>3
      <3>6. CASE reading[i] # SmallTsu /\ unit \notin DOMAIN KanaToRomaji
        <4> DEFINE rest == f[i + 1][FALSE]
        <4>1. Spell(reading, f, i, sokuon) = unit \o rest
          BY <3>3, <3>6 DEF Spell
        <4>2. rest \in Strings
          BY <3>2
        <4> HIDE DEF unit, rest
        <4>3. unit \o rest \in Strings
          BY <3>1, <4>2 DEF Strings
        <4>4. QED BY <4>1, <4>3
      <3>7. QED BY <3>4, <3>5, <3>6
    <2>2. CASE i \notin 1 .. n
      <3>1. i > n
        BY <1>1, <2>2
      <3>2. Xtsu \in Strings /\ <<>> \in Strings
        BY DEF Xtsu, Strings
      <3>3. QED BY <3>1, <3>2 DEF Spell
    <2>3. QED BY <2>1, <2>2
  <1>7. ASSUME NEW k \in 1 .. n + 1, \A j \in 1 .. k - 1 : j \in Good PROVE k \in Good
    <2> DEFINE i == n + 2 - k
    <2>1. i \in 1 .. n + 1
      BY <1>1
    <2>2. ASSUME NEW l \in i + 1 .. n + 1 PROVE Fine(l)
      <3> DEFINE j == n + 2 - l
      <3>1. j \in 1 .. k - 1 /\ n + 2 - j = l
        BY <1>1
      <3>2. j \in Good
        BY <1>7, <3>1
      <3>3. Fine(n + 2 - j)
        BY <3>2
      <3> HIDE DEF Fine, j
      <3>4. QED BY <3>1, <3>3
    <2>3. Fine(i)
      <3>1. \A sokuon \in BOOLEAN : Spell(reading, f, i, sokuon) \in Strings
        BY <1>6, <2>1, <2>2
      <3>2. QED BY <1>4, <2>1, <3>1
    <2>4. QED BY <2>3
  <1>8. n + 1 \in Good
    <2>1. \A k \in 1 .. n + 1 : (\A j \in 1 .. k - 1 : j \in Good) => k \in Good
      BY <1>7
    <2>2. Good \in SUBSET (1 .. n + 1) /\ n + 1 \in Nat /\ n + 1 \in 1 .. n + 1
      BY <1>1
    <2> HIDE DEF Good, n
    <2>3. QED BY <2>1, <2>2, EveryPosition
  <1>9. Fine(1)
    <2>1. n + 2 - (n + 1) = 1
      BY <1>1
    <2>2. Fine(n + 2 - (n + 1))
      BY <1>8
    <2> HIDE DEF Fine, n
    <2>3. QED BY <2>1, <2>2
  <1>10. QED BY <1>3, <1>9

(* The katakana of a reading is a text.                                    *)
LEMMA KatakanaIsText ==
  ASSUME NEW reading \in Seq(Nat)
  PROVE ToKatakana(reading) \in Strings
  <1>1. Len(reading) \in Nat /\ DOMAIN reading = 1 .. Len(reading)
        /\ \A i \in 1 .. Len(reading) : reading[i] \in Nat
    OBVIOUS
  <1> DEFINE n == Len(reading)
             s == ToKatakana(reading)
  <1>2. s = [i \in 1 .. n |-> IF reading[i] \in \h3041 .. \h3096 THEN reading[i] + \h60 ELSE reading[i]]
    BY <1>1 DEF ToKatakana
  <1>3. \A i \in 1 .. n : (IF reading[i] \in \h3041 .. \h3096 THEN reading[i] + \h60 ELSE reading[i]) \in Int
    BY <1>1
  <1> HIDE DEF s
  <1>4. s \in [1 .. n -> Int] /\ n \in Nat
    BY <1>1, <1>2, <1>3
  <1> HIDE DEF n
  <1>5. s \in Seq(Int)
    BY <1>4
  <1>6. QED BY <1>5 DEF Strings, s

-----------------------------------------------------------------------------
(* The scores of candidates *)

PartsOfSpeech == DOMAIN ContextualRows
Words ==
  [reading : Seq(Nat), text : Seq(Nat), score : Int, partOfSpeech : PartsOfSpeech,
   category : {"None", "PlaceName", "CurrencyCode", "CurrencySymbol"}]

(* What a dictionary holds, as far as scores go.                           *)
Known(d) ==
  /\ d.user.entries \in Seq(Words)
  /\ \A key \in DOMAIN d.user.contexts : d.user.contexts[key] \in Nat

(* A boost from a table is an integer,                                     *)
LEMMA ColumnIsInt ==
  ASSUME NEW row, \A p \in DOMAIN row : row[p] \in Int, NEW partOfSpeech
  PROVE Column(row, partOfSpeech) \in Int
  BY DEF Column

(* so is that for what stands before,                                      *)
LEMMA ContextualBoostIsInt ==
  ASSUME NEW entry, NEW pos \in PartsOfSpeech
  PROVE ContextualPartOfSpeechBoost(entry, pos) \in Int
  <1>1. \A p \in DOMAIN ContextualRows[pos] : ContextualRows[pos][p] \in Int
    BY DEF PartsOfSpeech, ContextualRows, AfterPredicate
  <1>2. QED BY <1>1, ColumnIsInt DEF ContextualPartOfSpeechBoost

(* that for the particle before,                                           *)
LEMMA SurfaceBoostIsInt ==
  ASSUME NEW entry, NEW pos, NEW surface
  PROVE SurfaceGrammarBoost(entry, pos, surface) \in Int
  <1>1. \A p \in DOMAIN SurfaceRow(pos, surface) : SurfaceRow(pos, surface)[p] \in Int
    <2>1. CASE surface = Wo
      BY <2>1 DEF SurfaceRow
    <2>2. CASE surface # Wo /\ surface = No
      BY <2>2 DEF SurfaceRow
    <2>3. CASE surface # Wo /\ surface # No /\ surface \in Topics
      BY <2>3 DEF SurfaceRow
    <2>4. CASE surface # Wo /\ surface # No /\ surface \notin Topics /\ surface \in Places
      BY <2>4 DEF SurfaceRow
    <2>5. CASE surface # Wo /\ surface # No /\ surface \notin Topics /\ surface \notin Places
               /\ surface \in PlaceTopics
      BY <2>5 DEF SurfaceRow
    <2>6. CASE surface # Wo /\ surface # No /\ surface \notin Topics /\ surface \notin Places
               /\ surface \notin PlaceTopics
      BY <2>6 DEF SurfaceRow
    <2>7. QED BY <2>1, <2>2, <2>3, <2>4, <2>5, <2>6
  <1>2. QED BY <1>1, ColumnIsInt DEF SurfaceGrammarBoost

(* The smaller and the larger of two numbers are among them.               *)
LEMMA SmallerIs ==
  ASSUME NEW a \in Int, NEW b \in Int
  PROVE Min({a, b}) \in {a, b} /\ Max({a, b}) \in {a, b}
  <1>1. \E x \in {a, b} : \A y \in {a, b} : y >= x
    OBVIOUS
  <1>2. \E x \in {a, b} : \A y \in {a, b} : x >= y
    OBVIOUS
  <1>3. Min({a, b}) \in {a, b}
    BY <1>1 DEF Min
  <1>4. Max({a, b}) \in {a, b}
    BY <1>2 DEF Max
  <1>5. QED BY <1>3, <1>4

(* so is that for a transition learned,                                    *)
LEMMA ContextScoreIsInt ==
  ASSUME NEW d, Known(d), NEW surface, NEW reading, NEW text
  PROVE ContextScore(d.user, surface, reading, text) \in Int
  <1> DEFINE key == <<surface, reading, text>>
             c == d.user.contexts[key]
  <1>1. CASE key \in DOMAIN d.user.contexts
    <2>1. c \in Nat /\ ContextBoostStep \in Nat /\ MaxContextBoost \in Nat
      BY <1>1, ScoreAssumption DEF Known
    <2>2. ContextScore(d.user, surface, reading, text) = Min({c * ContextBoostStep, MaxContextBoost})
      BY <1>1 DEF ContextScore
    <2> HIDE DEF c
    <2>3. c * ContextBoostStep \in Int /\ MaxContextBoost \in Int
      BY <2>1
    <2>4. Min({c * ContextBoostStep, MaxContextBoost}) \in {c * ContextBoostStep, MaxContextBoost}
      BY <2>3, SmallerIs
    <2>5. QED BY <2>2, <2>3, <2>4
  <1>2. CASE key \notin DOMAIN d.user.contexts
    BY <1>2 DEF ContextScore
  <1>3. QED BY <1>1, <1>2

(* and so is their sum.                                                    *)
LEMMA EntryBoostIsInt ==
  ASSUME NEW d, Known(d), NEW entry, NEW pos \in PartsOfSpeech, NEW surface
  PROVE EntryBoost(d, entry, pos, surface) \in Int
  <1> DEFINE a == ContextualPartOfSpeechBoost(entry, pos)
             b == SurfaceGrammarBoost(entry, pos, surface)
             c == LexicalCategoryBoost(entry, pos)
             e == ContextScore(d.user, surface, entry.reading, entry.text)
  <1>1. a \in Int
    BY ContextualBoostIsInt
  <1>2. b \in Int
    BY SurfaceBoostIsInt
  <1>3. c \in Int
    BY DEF LexicalCategoryBoost
  <1>4. e \in Int
    BY ContextScoreIsInt
  <1>5. EntryBoost(d, entry, pos, surface) = a + b + c + e
    BY DEF EntryBoost
  <1> HIDE DEF a, b, c, e
  <1>6. QED BY <1>1, <1>2, <1>3, <1>4, <1>5

(* An overflow leaves an integer.                                          *)
LEMMA WrappedIsInt ==
  ASSUME NEW n \in Int
  PROVE Wrapped(n) \in Int
  <1> DEFINE m == 2 * (MaxInt + 1)
             k == n + MaxInt + 1
  <1>1. m \in Nat \ {0} /\ k \in Int /\ MaxInt \in Nat
    BY ScoreAssumption
  <1>2. Wrapped(n) = (k % m) - (MaxInt + 1)
    BY DEF Wrapped
  <1> HIDE DEF m, k
  <1>3. k % m \in Int
    BY <1>1
  <1>4. QED BY <1>1, <1>2, <1>3

-----------------------------------------------------------------------------
(* The candidates of a reading *)

Candidates == [text : Strings, reading : Seq(Nat), score : Int]

(* Candidates can be ranked.                                               *)
LEMMA CandidatesAreItems ==
  ASSUME NEW c \in Candidates
  PROVE Item(c)
  BY DEF Candidates, Item

(* The candidates that entries come to.                                    *)
LEMMA EntryCandidatesAre ==
  ASSUME NEW d, NEW boosted, IsFiniteSet(boosted), \A g \in boosted : g[1] \in Words /\ g[2] \in Int
  PROVE /\ EntryCandidates(d, boosted) \in SUBSET Candidates
        /\ IsFiniteSet(EntryCandidates(d, boosted))
  <1> DEFINE open == {g \in boosted : ~IsBlocked(d, g[1].reading, g[1].text)}
             h == [f \in open |-> Candidate(f[1].text, f[1].reading, Wrapped(f[1].score + f[2]))]
  <1>1. EntryCandidates(d, boosted) = {h[f] : f \in open}
    BY DEF EntryCandidates
  <1>2. IsFiniteSet(open)
    <2>1. open \in SUBSET boosted
      OBVIOUS
    <2> HIDE DEF open
    <2>2. QED BY <2>1, FS_Subset
  <1>3. ASSUME NEW f \in open PROVE h[f] \in Candidates
    <2>1. f[1] \in Words /\ f[2] \in Int
      OBVIOUS
    <2> DEFINE e == f[1]
               more == f[2]
    <2>2. h[f] = Candidate(e.text, e.reading, Wrapped(e.score + more))
      OBVIOUS
    <2>3. e \in Words /\ more \in Int
      BY <2>1
    <2> HIDE DEF h, open, e, more
    <2>4. e.text \in Strings /\ e.reading \in Seq(Nat) /\ e.score \in Int
      <3>1. e.text \in Seq(Nat) /\ e.reading \in Seq(Nat) /\ e.score \in Int
        BY <2>3 DEF Words
      <3>2. e.text \in Seq(Int)
        BY <3>1
      <3>3. QED BY <3>1, <3>2 DEF Strings
    <2>5. e.score + more \in Int
      BY <2>3, <2>4
    <2>6. Wrapped(e.score + more) \in Int
      BY <2>5, WrappedIsInt
    <2>7. QED BY <2>2, <2>4, <2>6 DEF Candidate, Candidates
  <1> HIDE DEF open, h
  <1>4. IsFiniteSet({h[f] : f \in open})
    BY <1>2, ImageIsFinite
  <1>5. QED BY <1>1, <1>3, <1>4

(* The other candidates of a reading, two of which are always there.       *)
LEMMA OtherCandidatesAre ==
  ASSUME NEW d, NEW reading \in Seq(Nat) \ {<<>>}, NEW score \in Int, NEW surface
  PROVE LET others == RawCandidate(d, reading, score) \cup SyntheticCandidates(d, reading, surface)
        IN others \in SUBSET Candidates /\ IsFiniteSet(others) /\ others # {}
  <1> DEFINE boost == SyntheticReadingGrammarBoost(surface)
             raw == Candidate(reading, reading, score)
             romaji == Candidate(ToRomaji(reading), reading, -10 + boost)
             katakana == Candidate(ToKatakana(reading), reading, -20 + boost)
             others == RawCandidate(d, reading, score) \cup SyntheticCandidates(d, reading, surface)
  <1>1. boost \in Int /\ reading \in Seq(Nat) /\ reading # <<>>
    BY DEF SyntheticReadingGrammarBoost
  <1>2. raw \in Candidates /\ romaji \in Candidates /\ katakana \in Candidates
    <2>1. reading \in Strings
      <3>1. reading \in Seq(Int)
        BY <1>1
      <3>2. QED BY <3>1 DEF Strings
    <2>2. ToRomaji(reading) \in Strings /\ ToKatakana(reading) \in Strings
      BY <1>1, RomajiIsText, KatakanaIsText
    <2> HIDE DEF boost
    <2>3. -10 + boost \in Int /\ -20 + boost \in Int
      BY <1>1
    <2>4. QED BY <1>1, <2>1, <2>2, <2>3 DEF Candidate, Candidates
  <1>3. SyntheticCandidates(d, reading, surface) = {romaji, katakana}
    BY <1>1 DEF SyntheticCandidates
  <1>4. RawCandidate(d, reading, score) = {} \/ RawCandidate(d, reading, score) = {raw}
    BY DEF RawCandidate
  <1> HIDE DEF raw, romaji, katakana
  <1>5. others = {romaji, katakana} \/ others = {raw, romaji, katakana}
    BY <1>3, <1>4
  <1>6. IsFiniteSet({romaji, katakana}) /\ IsFiniteSet({raw, romaji, katakana})
    <2>1. IsFiniteSet({romaji}) /\ IsFiniteSet({katakana}) /\ IsFiniteSet({raw})
      BY FS_Singleton
    <2>2. IsFiniteSet({romaji} \cup {katakana})
      BY <2>1, FS_Union
    <2>3. {romaji} \cup {katakana} = {romaji, katakana}
      OBVIOUS
    <2>4. IsFiniteSet({raw} \cup {romaji, katakana})
      BY <2>1, <2>2, <2>3, FS_Union
    <2>5. {raw} \cup {romaji, katakana} = {raw, romaji, katakana}
      OBVIOUS
    <2>6. QED BY <2>2, <2>3, <2>4, <2>5
  <1>7. others \in SUBSET Candidates /\ IsFiniteSet(others) /\ others # {}
    BY <1>2, <1>5, <1>6
  <1>8. QED BY <1>7

(* What is unique among candidates: some, and all of them candidates.      *)
LEMMA UniqueAre ==
  ASSUME NEW offered \in SUBSET Candidates, IsFiniteSet(offered), offered # {}
  PROVE /\ Unique(offered) \in SUBSET Candidates /\ IsFiniteSet(Unique(offered))
        /\ Unique(offered) # {} /\ \A c \in Unique(offered) : Item(c)
  <1> DEFINE score == [c \in offered |-> c.score]
             scores == {score[c] : c \in offered}
  <1>1. Unique(offered) \in SUBSET offered
    BY DEF Unique
  <1>2. scores \in SUBSET Int /\ scores # {}
    BY DEF Candidates
  <1>3. IsFiniteSet(scores)
    <2> HIDE DEF score
    <2>1. QED BY ImageIsFinite
  <1>4. PICK most \in scores : \A y \in scores : y <= most
    <2> HIDE DEF scores
    <2>1. QED BY <1>2, <1>3, GreatestNumber
  <1>5. PICK c \in offered : score[c] = most
    BY <1>4
  <1>6. \A o \in offered : score[o] \in scores
    OBVIOUS
  <1>7. \A o \in offered : o.score <= c.score
    <2>1. \A o \in offered : score[o] <= score[c]
      BY <1>4, <1>5, <1>6
    <2>2. QED BY <2>1
  <1>8. c \in Unique(offered)
    BY <1>7 DEF Unique
  <1>9. IsFiniteSet(Unique(offered))
    BY <1>1, FS_Subset
  <1>10. QED BY <1>1, <1>8, <1>9, CandidatesAreItems

(* Entries found in a database.                                            *)
LEMMA FoundAre ==
  ASSUME NEW trie, trie.entries \in Seq(Words), NEW reading
  PROVE At(trie, Exact(trie, reading)) \in SUBSET Words /\ IsFiniteSet(At(trie, Exact(trie, reading)))
  <1> DEFINE indices == Exact(trie, reading)
             e == trie.entries
  <1>1. DOMAIN e = 1 .. Len(e) /\ Len(e) \in Nat /\ \A i \in DOMAIN e : e[i] \in Words
    OBVIOUS
  <1>2. indices \in SUBSET DOMAIN e
    BY DEF Exact
  <1>3. IsFiniteSet(indices)
    <2>1. IsFiniteSet(1 .. Len(e))
      BY <1>1, FS_Interval
    <2>2. indices \in SUBSET (1 .. Len(e))
      BY <1>1, <1>2
    <2> HIDE DEF indices, e
    <2>3. QED BY <2>1, <2>2, FS_Subset
  <1>4. At(trie, indices) = {e[i] : i \in indices}
    BY DEF At
  <1> HIDE DEF indices, e
  <1>5. IsFiniteSet({e[i] : i \in indices})
    BY <1>3, ImageIsFinite
  <1>6. QED BY <1>1, <1>2, <1>4, <1>5 DEF indices

(* An index names an entry with the reading and the text, or none.         *)
LEMMA IndexIs ==
  ASSUME NEW trie, trie.entries \in Seq(Words), NEW reading, NEW text
  PROVE LET i == IndexOf(trie, reading, text)
        IN \/ i = 0 /\ \A j \in DOMAIN trie.entries :
                         ~(trie.entries[j].reading = reading /\ trie.entries[j].text = text)
           \/ /\ i \in DOMAIN trie.entries /\ i # 0
              /\ trie.entries[i].reading = reading /\ trie.entries[i].text = text
  <1> DEFINE e == trie.entries
             I == {i \in 1 .. Len(e) : e[i].reading = reading /\ e[i].text = text}
             i == IndexOf(trie, reading, text)
  <1>1. DOMAIN e = 1 .. Len(e) /\ Len(e) \in Nat
    OBVIOUS
  <1>2. i = IF I # {} THEN Min(I) ELSE 0
    BY DEF IndexOf, SelectInSeq
  <1>3. I # {} => Min(I) \in I
    <2>1. I \in SUBSET Nat
      OBVIOUS
    <2> HIDE DEF I
    <2>2. ASSUME I # {} PROVE \E x \in I : \A y \in I : x <= y
      BY <2>1, <2>2, LeastNumber
    <2>3. ASSUME I # {} PROVE \E x \in I : \A y \in I : y >= x
      BY <2>1, <2>2, <2>3
    <2>4. QED BY <2>3 DEF Min
  <1> HIDE DEF i
  <1>4. QED BY <1>1, <1>2, <1>3 DEF i

-----------------------------------------------------------------------------
(* Tries *)

(* What Recompute, and so Rebuild, leave alone: all but the words on top,  *)
(* and which nodes there are.                                              *)
Kept(t, u) ==
  /\ DOMAIN t = DOMAIN u /\ \A x \in DOMAIN u \ {"top"} : t[x] = u[x]
  /\ "top" \in DOMAIN u => DOMAIN t.top = DOMAIN u.top

(* Recomputing a node changes no more than the words on top.               *)
LEMMA RecomputeKeeps ==
  ASSUME NEW t, NEW u, Kept(t, u), NEW node
  PROVE Kept(Recompute(t, node), u)
  BY DEF Kept, Recompute

(* G has for every set of nodes, named by their places, what recomputing   *)
(* them comes to.                                                          *)
Rebuilds(trie, nodes, k, n, G) ==
  G = [S \in SUBSET (k .. n) |->
         IF S = {} THEN trie ELSE Recompute(G[S \ {Min(S)}], nodes[Min(S)])]

(* The smallest of a set of places from k on that has k is k.              *)
LEMMA MinIsBottom ==
  ASSUME NEW k \in Nat, NEW n \in Nat, NEW S \in SUBSET (k .. n), k \in S
  PROVE Min(S) = k
  <1>1. \A x \in S : (\A y \in S : y >= x) => x = k
    OBVIOUS
  <1>2. \A y \in S : y >= k
    OBVIOUS
  <1>3. QED BY <1>1, <1>2 DEF Min

(* There is such a function, for any list of nodes:                        *)
LEMMA RebuildExists ==
  ASSUME NEW trie, NEW nodes, NEW n \in Nat
  PROVE \E G : Rebuilds(trie, nodes, 1, n, G)
  <1> DEFINE Bad == {k \in Nat : k <= n /\ ~\E G : Rebuilds(trie, nodes, n + 1 - k, n, G)}
  <1>1. ASSUME Bad # {} PROVE FALSE
    <2>1. Bad \in SUBSET Nat
      OBVIOUS
    <2>2. PICK j \in Bad : \A i \in Bad : j <= i
      <3> HIDE DEF Bad
      <3>1. QED BY <1>1, <2>1, LeastNumber
    <2> DEFINE k == n + 1 - j
    <2>3. j \in Nat /\ j <= n /\ k \in Nat \ {0} /\ k - 1 \in Nat /\ ~\E G : Rebuilds(trie, nodes, k, n, G)
      BY <2>2
    <2>4. CASE j = 0
      <3> DEFINE G == [S \in SUBSET (k .. n) |-> trie]
      <3>1. \A S \in SUBSET (k .. n) : S = {}
        BY <2>4
      <3> HIDE DEF k
      <3>2. Rebuilds(trie, nodes, k, n, G)
        BY <3>1 DEF Rebuilds
      <3>3. QED BY <2>3, <3>2
    <2>5. CASE j # 0
      <3>1. j - 1 \in Nat /\ j - 1 \notin Bad /\ j - 1 <= n /\ n + 1 - (j - 1) = k + 1
        BY <2>2, <2>3, <2>5
      <3>2. PICK G : Rebuilds(trie, nodes, k + 1, n, G)
        BY <3>1
      <3> HIDE DEF k
      <3> DEFINE H == [S \in SUBSET (k .. n) |->
                         IF k \in S THEN Recompute(G[S \ {k}], nodes[k]) ELSE G[S]]
      <3>3. ASSUME NEW S \in SUBSET (k .. n)
            PROVE H[S] = IF S = {} THEN trie ELSE Recompute(H[S \ {Min(S)}], nodes[Min(S)])
        <4>1. CASE k \in S
          <5>1. Min(S) = k
            BY <2>3, <4>1, MinIsBottom
          <5>2. S \ {k} \in SUBSET (k .. n) /\ k \notin S \ {k}
            OBVIOUS
          <5>3. H[S \ {k}] = G[S \ {k}]
            BY <5>2
          <5>4. QED BY <4>1, <5>1, <5>3
        <4>2. CASE k \notin S
          <5>1. S \in SUBSET (k + 1 .. n)
            BY <2>3, <4>2
          <5>2. G[S] = IF S = {} THEN trie ELSE Recompute(G[S \ {Min(S)}], nodes[Min(S)])
            BY <3>2, <5>1 DEF Rebuilds
          <5>3. H[S \ {Min(S)}] = G[S \ {Min(S)}]
            BY <4>2
          <5>4. H[S] = G[S]
            BY <4>2
          <5>5. QED BY <5>2, <5>3, <5>4
        <4>3. QED BY <4>1, <4>2
      <3>4. H = [S \in SUBSET (k .. n) |-> H[S]]
        OBVIOUS
      <3> HIDE DEF H
      <3>5. Rebuilds(trie, nodes, k, n, H)
        BY <3>3, <3>4 DEF Rebuilds
      <3>6. QED BY <2>3, <3>5
    <2>6. QED BY <2>4, <2>5
  <1>2. n \notin Bad /\ n + 1 - n = 1
    BY <1>1
  <1>3. QED BY <1>2

(* Rebuild is one, whole.                                                  *)
LEMMA RebuildIs ==
  ASSUME NEW trie, NEW nodes, NEW n \in Nat, DOMAIN nodes = 1 .. n
  PROVE \E G : Rebuilds(trie, nodes, 1, n, G) /\ Rebuild(trie, nodes) = G[1 .. n]
  <1> DEFINE G == CHOOSE G : G = [S \in SUBSET DOMAIN nodes |->
                                    IF S = {} THEN trie ELSE Recompute(G[S \ {Min(S)}], nodes[Min(S)])]
  <1>1. Rebuild(trie, nodes) = G[DOMAIN nodes]
    BY Zenon DEF Rebuild, FoldRight, MapThenFoldSet
  <1>2. \E H : H = [S \in SUBSET DOMAIN nodes |->
                      IF S = {} THEN trie ELSE Recompute(H[S \ {Min(S)}], nodes[Min(S)])]
    <2>1. PICK H : Rebuilds(trie, nodes, 1, n, H)
      BY RebuildExists
    <2>2. QED BY <2>1 DEF Rebuilds
  <1>3. Rebuilds(trie, nodes, 1, n, G)
    BY <1>2, Zenon DEF Rebuilds
  <1> HIDE DEF G
  <1>4. QED BY <1>1, <1>3

(* From the last node to the first.                                        *)
NodeByNode(trie, nodes, n, G) ==
  G[n + 1 .. n] = trie /\ \A k \in 1 .. n : G[k .. n] = Recompute(G[k + 1 .. n], nodes[k])

(* it recomputes the nodes one by one, the last first,                     *)
LEMMA RebuildSteps ==
  ASSUME NEW trie, NEW nodes, NEW n \in Nat, NEW G, Rebuilds(trie, nodes, 1, n, G)
  PROVE NodeByNode(trie, nodes, n, G)
  <1>1. n + 1 .. n \in SUBSET (1 .. n) /\ n + 1 .. n = {}
    OBVIOUS
  <1>2. G[n + 1 .. n] = trie
    BY <1>1 DEF Rebuilds
  <1>3. ASSUME NEW k \in 1 .. n PROVE G[k .. n] = Recompute(G[k + 1 .. n], nodes[k])
    <2>1. k .. n \in SUBSET (1 .. n) /\ k .. n # {} /\ k \in k .. n /\ k \in Nat
      OBVIOUS
    <2>2. Min(k .. n) = k
      BY <2>1, MinIsBottom
    <2>3. (k .. n) \ {k} = k + 1 .. n
      OBVIOUS
    <2>4. G[k .. n] = Recompute(G[(k .. n) \ {Min(k .. n)}], nodes[Min(k .. n)])
      BY <2>1 DEF Rebuilds
    <2>5. QED BY <2>2, <2>3, <2>4
  <1>4. QED BY <1>2, <1>3 DEF NodeByNode

(* so rebuilding changes no more than the words on top.                    *)
LEMMA RebuildKeeps ==
  ASSUME NEW trie, NEW nodes, NEW n \in Nat, DOMAIN nodes = 1 .. n
  PROVE Kept(Rebuild(trie, nodes), trie)
  <1>1. PICK G : Rebuilds(trie, nodes, 1, n, G) /\ Rebuild(trie, nodes) = G[1 .. n]
    BY RebuildIs
  <1>2. G[n + 1 .. n] = trie /\ \A k \in 1 .. n : G[k .. n] = Recompute(G[k + 1 .. n], nodes[k])
    <2>1. NodeByNode(trie, nodes, n, G)
      BY <1>1, RebuildSteps
    <2>2. QED BY <2>1 DEF NodeByNode
  <1> DEFINE Good == {j \in 1 .. n + 1 : Kept(G[n + 2 - j .. n], trie)}
  <1>3. ASSUME NEW j \in 1 .. n + 1, \A i \in 1 .. j - 1 : i \in Good
        PROVE Kept(G[n + 2 - j .. n], trie)
    <2>1. CASE j = 1
      <3>1. n + 2 - j = n + 1
        BY <2>1
      <3>2. QED BY <1>2, <3>1 DEF Kept
    <2>2. CASE j # 1
      <3> DEFINE k == n + 2 - j
      <3>1. k \in 1 .. n /\ j - 1 \in 1 .. j - 1 /\ n + 2 - (j - 1) = k + 1
        BY <2>2
      <3>2. j - 1 \in Good
        BY <1>3, <3>1
      <3>3. Kept(G[k + 1 .. n], trie)
        BY <3>1, <3>2
      <3> HIDE DEF k
      <3>4. G[k .. n] = Recompute(G[k + 1 .. n], nodes[k])
        BY <1>2, <3>1
      <3>5. Kept(G[k .. n], trie)
        BY <3>3, <3>4, RecomputeKeeps
      <3>6. QED BY <3>5 DEF k
    <2>3. QED BY <2>1, <2>2
  <1>4. n + 1 \in Good
    <2>1. \A j \in 1 .. n + 1 : (\A i \in 1 .. j - 1 : i \in Good) => j \in Good
      BY <1>3
    <2>2. Good \in SUBSET (1 .. n + 1) /\ n + 1 \in Nat /\ n + 1 \in 1 .. n + 1
      OBVIOUS
    <2> HIDE DEF Good
    <2>3. QED BY <2>1, <2>2, EveryPosition
  <1>5. n + 2 - (n + 1) = 1
    OBVIOUS
  <1>6. QED BY <1>1, <1>4, <1>5

(* The nodes on the path of a reading.                                     *)
LEMMA PathIs ==
  ASSUME NEW reading \in Seq(Nat)
  PROVE /\ Path(reading) \in Seq(Seq(Nat)) /\ Len(Path(reading)) = Len(reading) + 1
        /\ DOMAIN Path(reading) = 1 .. Len(reading) + 1
        /\ \A i \in 1 .. Len(reading) + 1 : Path(reading)[i] = SubSeq(reading, 1, i - 1)
        /\ Path(reading)[1] = <<>>
  <1> DEFINE n == Len(reading) + 1
             p == Path(reading)
  <1>1. n \in Nat \ {0}
    OBVIOUS
  <1>2. p = [i \in 1 .. n |-> SubSeq(reading, 1, i - 1)]
    BY DEF Path
  <1>3. \A i \in 1 .. n : SubSeq(reading, 1, i - 1) \in Seq(Nat)
    OBVIOUS
  <1>4. SubSeq(reading, 1, 0) = <<>>
    OBVIOUS
  <1> HIDE DEF n, p
  <1>5. p \in [1 .. n -> Seq(Nat)]
    BY <1>2, <1>3
  <1>6. p \in Seq(Seq(Nat)) /\ Len(p) = n
    BY <1>1, <1>5
  <1>7. \A i \in 1 .. n : p[i] = SubSeq(reading, 1, i - 1)
    BY <1>2
  <1>8. 1 \in 1 .. n /\ 1 - 1 = 0
    BY <1>1
  <1>9. p[1] = <<>>
    BY <1>4, <1>7, <1>8
  <1>10. QED BY <1>2, <1>6, <1>7, <1>9 DEF n, p

(* What a trie is while entries are added.                                 *)
Filled(t) ==
  /\ t = [entries |-> t.entries, nodes |-> t.nodes, top |-> t.top]
  /\ t.entries \in Seq(Words) /\ t.nodes \in Seq(Seq(Nat)) /\ <<>> \in DOMAIN t.top

(* The first k places, k the last of them.                                 *)
LEMMA FirstOnes ==
  ASSUME NEW n \in Nat, NEW k \in 1 .. n
  PROVE 1 .. k \in SUBSET (1 .. n) /\ 1 .. k # {} /\ k \in 1 .. k /\ k \in Nat \ {0}
  OBVIOUS

Fills(entries, n, G) ==
  G = [S \in SUBSET (1 .. n) |-> IF S = {} THEN EmptyTrie ELSE AddEntry(G[S \ {Max(S)}], entries[Max(S)])]

(* The greatest member of a set of positions up to n with n in it.         *)
LEMMA MaxIsTop ==
  ASSUME NEW n \in Nat \ {0}, NEW S \in SUBSET (1 .. n), n \in S
  PROVE Max(S) = n
  <1>1. \A x \in S : (\A y \in S : x >= y) => x = n
    OBVIOUS
  <1>2. \A y \in S : n >= y
    OBVIOUS
  <1>3. QED BY <1>1, <1>2 DEF Max

(* Any list of entries can be filled in one by one.                        *)
LEMMA FillExists ==
  ASSUME NEW entries, NEW n \in Nat
  PROVE \E G : Fills(entries, n, G)
  <1> DEFINE Bad == {k \in Nat : ~\E G : Fills(entries, k, G)}
  <1>1. ASSUME Bad # {} PROVE FALSE
    <2>1. Bad \in SUBSET Nat
      OBVIOUS
    <2>2. PICK k \in Bad : \A j \in Bad : k <= j
      <3> HIDE DEF Bad
      <3>1. QED BY <1>1, <2>1, LeastNumber
    <2>3. k \in Nat /\ ~\E G : Fills(entries, k, G)
      BY <2>2
    <2>4. CASE k = 0
      <3> DEFINE G == [S \in SUBSET (1 .. k) |-> EmptyTrie]
      <3>1. \A S \in SUBSET (1 .. k) : S = {}
        BY <2>4
      <3>2. Fills(entries, k, G)
        BY <3>1 DEF Fills
      <3>3. QED BY <2>3, <3>2
    <2>5. CASE k # 0
      <3>1. k - 1 \in Nat /\ k \in Nat \ {0} /\ k - 1 \notin Bad
        BY <2>2, <2>3, <2>5
      <3>2. PICK G : Fills(entries, k - 1, G)
        BY <3>1
      <3> DEFINE H == [S \in SUBSET (1 .. k) |->
                         IF k \in S THEN AddEntry(G[S \ {k}], entries[k]) ELSE G[S]]
      <3>3. ASSUME NEW S \in SUBSET (1 .. k)
            PROVE H[S] = IF S = {} THEN EmptyTrie ELSE AddEntry(H[S \ {Max(S)}], entries[Max(S)])
        <4>1. CASE k \in S
          <5>1. Max(S) = k
            BY <3>1, <4>1, MaxIsTop
          <5>2. S \ {k} \in SUBSET (1 .. k) /\ k \notin S \ {k}
            OBVIOUS
          <5>3. H[S \ {k}] = G[S \ {k}]
            BY <5>2
          <5>4. QED BY <4>1, <5>1, <5>3
        <4>2. CASE k \notin S
          <5>1. S \in SUBSET (1 .. k - 1)
            BY <3>1, <4>2
          <5>2. G[S] = IF S = {} THEN EmptyTrie ELSE AddEntry(G[S \ {Max(S)}], entries[Max(S)])
            BY <3>2, <5>1 DEF Fills
          <5>3. H[S \ {Max(S)}] = G[S \ {Max(S)}]
            BY <4>2
          <5>4. H[S] = G[S]
            BY <4>2
          <5>5. QED BY <5>2, <5>3, <5>4
        <4>3. QED BY <4>1, <4>2
      <3>4. H = [S \in SUBSET (1 .. k) |-> H[S]]
        OBVIOUS
      <3> HIDE DEF H
      <3>5. Fills(entries, k, H)
        BY <3>3, <3>4 DEF Fills
      <3>6. QED BY <2>3, <3>5
    <2>6. QED BY <2>4, <2>5
  <1>2. QED BY <1>1

-----------------------------------------------------------------------------
(* The best words below a node *)

Keyed(t) == t.entries \in Seq(Words)

(* Every node is reached through nodes, and every word has one.            *)
Treed(t) ==
  /\ \A x \in DOMAIN t.top : x \in Seq(Nat) /\ \A l \in 0 .. Len(x) : SubSeq(x, 1, l) \in DOMAIN t.top
  /\ \A i \in DOMAIN t.entries : t.entries[i].reading \in DOMAIN t.top

(* The list has the best of the words J, better ones first.                *)
BestAmong(e, J, list) ==
  /\ list \in [1 .. Min({TopPredictionCount, Cardinality(J)}) -> J]
  /\ \A k, l \in DOMAIN list : k < l => list[k] # list[l] /\ ~Better(e[list[l]], e[list[k]])
  /\ \A i \in J \ ToSet(list) : \A j \in ToSet(list) : ~Better(e[i], e[j])

Right(t, node) == BestAmong(t.entries, Below(t, node), t.top[node])

(* The smaller of two numbers.                                             *)
LEMMA MinIs ==
  ASSUME NEW a \in Int, NEW b \in Int
  PROVE Min({a, b}) = IF a <= b THEN a ELSE b
  <1>1. Min({a, b}) \in {a, b} /\ \A x \in {a, b} : x >= Min({a, b})
    <2>1. \E x \in {a, b} : \A y \in {a, b} : y >= x
      OBVIOUS
    <2>2. QED BY <2>1 DEF Min
  <1> DEFINE m == Min({a, b})
  <1>2. m \in {a, b} /\ a >= m /\ b >= m
    BY <1>1
  <1> HIDE DEF m
  <1>3. m = IF a <= b THEN a ELSE b
    BY <1>2
  <1>4. QED BY <1>3 DEF m

(* How many are on a list of the best.                                     *)
LEMMA ListCounts ==
  ASSUME NEW e, NEW J, IsFiniteSet(J), NEW list, BestAmong(e, J, list)
  PROVE LET m == Min({TopPredictionCount, Cardinality(J)})
        IN /\ m \in Nat /\ m <= TopPredictionCount /\ m <= Cardinality(J)
           /\ m = TopPredictionCount \/ m = Cardinality(J)
           /\ DOMAIN list = 1 .. m
           /\ ToSet(list) = {list[k] : k \in 1 .. m}
           /\ ToSet(list) \in SUBSET J /\ IsFiniteSet(ToSet(list)) /\ Cardinality(ToSet(list)) = m
           /\ \A k, l \in 1 .. m : list[k] = list[l] => k = l
  <1> DEFINE K == TopPredictionCount
             n == Cardinality(J)
             m == Min({K, n})
             S == ToSet(list)
  <1>1. K \in Nat /\ n \in Nat
    BY FS_CardinalityType, TopAssumption
  <1>2. m = IF K <= n THEN K ELSE n
    <2> HIDE DEF K, n
    <2>1. QED BY <1>1, MinIs
  <1>3. list \in [1 .. m -> J]
    BY DEF BestAmong
  <1> HIDE DEF m, n, K
  <1>4. m \in Nat /\ m <= K /\ m <= n /\ (m = K \/ m = n)
    BY <1>1, <1>2
  <1>5. DOMAIN list = 1 .. m /\ S = {list[k] : k \in 1 .. m} /\ S \in SUBSET J
    BY <1>3 DEF ToSet
  <1>6. \A k, l \in 1 .. m : list[k] = list[l] => k = l
    <2>1. \A k, l \in 1 .. m : k < l => list[k] # list[l]
      BY <1>5 DEF BestAmong
    <2>2. \A k, l \in 1 .. m : k < l \/ l < k \/ k = l
      BY <1>4
    <2>3. QED BY <2>1, <2>2
  <1>7. IsFiniteSet(S) /\ Cardinality(S) = m
    <2> DEFINE I == 1 .. m
    <2>1. IsFiniteSet(I) /\ Cardinality(I) = m
      <3>1. 1 \in Int /\ m \in Int /\ (1 > m <=> m = 0)
        BY <1>4
      <3>2. QED BY <3>1, FS_Interval
    <2>2. list \in [I -> S] /\ \A x \in S : \E k \in I : list[k] = x
      BY <1>3, <1>5
    <2>3. \A k, l \in I : list[k] = list[l] => k = l
      BY <1>6
    <2> HIDE DEF I, S
    <2>4. list \in Injection(I, S) /\ list \in Surjection(I, S)
      BY <2>2, <2>3 DEF Injection, IsInjective, Surjection
    <2>5. QED BY <2>1, <2>4, FS_Surjection
  <1>8. QED BY <1>4, <1>5, <1>6, <1>7 DEF m, n, K

(* The words are rankable.                                                 *)
LEMMA WordsAreRankable ==
  ASSUME NEW t, Keyed(t), NEW I \in SUBSET DOMAIN t.entries
  PROVE /\ Rankable([i \in I |-> t.entries[i]]) /\ IsFiniteSet(I)
        /\ \A i \in I : Item(t.entries[i])
  <1> DEFINE e == t.entries
             n == Len(e)
  <1>1. DOMAIN e = 1 .. n /\ n \in Nat /\ \A i \in DOMAIN e : e[i] \in Words
    BY DEF Keyed
  <1>2. I \in SUBSET (1 .. n)
    BY <1>1
  <1>3. \A i \in I : Item(e[i])
    <2>1. \A w \in Words : Item(w)
      BY DEF Words, Item, Strings
    <2>2. QED BY <1>1, <1>2, <2>1
  <1> HIDE DEF e, n
  <1>4. IsFiniteSet(I)
    <2>1. IsFiniteSet(1 .. n)
      BY <1>1, FS_Interval
    <2>2. QED BY <1>2, <2>1, FS_Subset
  <1>5. QED BY <1>3, <1>4 DEF Rankable, e

(* The best of some words are those that rank first.                       *)
LEMMA BestOfIs ==
  ASSUME NEW t, Keyed(t), NEW I \in SUBSET DOMAIN t.entries
  PROVE BestAmong(t.entries, I, BestOf(t, I))
  <1> DEFINE e == t.entries
             items == [i \in I |-> e[i]]
             n == Cardinality(I)
             r == Ranked(items)
             K == TopPredictionCount
             list == FirstOf(r, K)
  <1>1. Rankable(items) /\ DOMAIN items = I /\ \A i \in I : items[i] = e[i]
    BY WordsAreRankable
  <1>2. BestOf(t, I) = list
    BY DEF BestOf, Restrict
  <1> HIDE DEF items, e
  <1>3. /\ r \in [1 .. n -> I] /\ \A k \in 1 .. n : Rank(items, r[k]) = k - 1
        /\ \A x \in I : Rank(items, x) + 1 \in 1 .. n /\ r[Rank(items, x) + 1] = x
    BY <1>1, RankedIs
  <1>4. \A k, l \in 1 .. n : k < l => r[k] # r[l] /\ ~Better(e[r[l]], e[r[k]])
    <2> SUFFICES ASSUME NEW k \in 1 .. n, NEW l \in 1 .. n, k < l
                 PROVE r[k] # r[l] /\ ~Better(e[r[l]], e[r[k]])
      OBVIOUS
    <2>1. r[k] # r[l] /\ ~Better(items[r[l]], items[r[k]])
      BY <1>1, InOrder
    <2>2. r[k] \in I /\ r[l] \in I
      BY <1>3
    <2>3. QED BY <1>1, <2>1, <2>2
  <1>5. n \in Nat /\ K \in Nat
    BY <1>1, FS_CardinalityType, TopAssumption DEF Rankable
  <1> HIDE DEF n, r
  <1>6. PICK m \in Nat : m <= n /\ m <= K /\ (m = n \/ m = K) /\ list = [k \in 1 .. m |-> r[k]]
    <2>1. StartOf(list, r, n, K)
      BY <1>3, <1>5, FirstOfIs
    <2>2. QED BY <2>1 DEF StartOf
  <1> HIDE DEF list, K
  <1>7. m = Min({K, n})
    BY <1>5, <1>6, MinIs
  <1>8. \A k \in 1 .. m : k \in 1 .. n /\ list[k] = r[k]
    BY <1>5, <1>6
  <1>9. list \in [1 .. m -> I] /\ DOMAIN list = 1 .. m
    BY <1>3, <1>6, <1>8
  <1>10. \A k, l \in 1 .. m : k < l => list[k] # list[l] /\ ~Better(e[list[l]], e[list[k]])
    BY <1>4, <1>8
  <1>11. ASSUME NEW i \in I \ ToSet(list), NEW j \in ToSet(list) PROVE ~Better(e[i], e[j])
    <2>1. PICK k \in 1 .. m : j = list[k]
      BY <1>9 DEF ToSet
    <2>2. \A l \in 1 .. m : list[l] # i
      BY <1>9, <1>11 DEF ToSet
    <2> DEFINE l == Rank(items, i) + 1
    <2>3. l \in 1 .. n /\ r[l] = i
      BY <1>3
    <2> HIDE DEF l
    <2>4. l \notin 1 .. m
      BY <1>8, <2>2, <2>3
    <2>5. k < l /\ k \in 1 .. n /\ r[k] = j
      BY <1>5, <1>6, <1>8, <2>1, <2>3, <2>4
    <2>6. QED BY <1>4, <2>3, <2>5
  <1>12. QED BY <1>2, <1>7, <1>9, <1>10, <1>11 DEF BestAmong, n, K, e

(* What leads to a reading, place by place.                                *)
LEMMA PrefixIs ==
  ASSUME NEW a \in Seq(Nat), NEW b \in Seq(Nat)
  PROVE /\ Len(a) \in Nat /\ Len(b) \in Nat
        /\ IsPrefix(a, b) <=> Len(a) <= Len(b) /\ \A l \in 1 .. Len(a) : a[l] = b[l]
  <1>1. Len(a) \in Nat /\ Len(b) \in Nat /\ a \in Strings /\ b \in Strings
    <2>1. a \in Seq(Int) /\ b \in Seq(Int)
      OBVIOUS
    <2>2. QED BY <2>1 DEF Strings
  <1>2. ASSUME Len(a) <= Len(b)
        PROVE SubSeq(a, 1, Len(a)) = SubSeq(b, 1, Len(a)) <=> \A l \in 1 .. Len(a) : a[l] = b[l]
    <2> DEFINE m == Len(a)
    <2>1. m \in Nat /\ m <= Len(a) /\ m <= Len(b)
      BY <1>1, <1>2
    <2> HIDE DEF m
    <2>2. SubSeq(a, 1, m) = SubSeq(b, 1, m) <=> \A l \in 1 .. m : a[l] = b[l]
      BY <1>1, <2>1, SameStart
    <2>3. QED BY <2>2 DEF m
  <1>3. QED BY <1>1, <1>2 DEF IsPrefix

(* The start of a reading leads to it.                                     *)
LEMMA StartIs ==
  ASSUME NEW b \in Seq(Nat), NEW m \in 0 .. Len(b)
  PROVE /\ SubSeq(b, 1, m) \in Seq(Nat) /\ Len(SubSeq(b, 1, m)) = m
        /\ \A l \in 1 .. m : SubSeq(b, 1, m)[l] = b[l]
  OBVIOUS

(* What lies below a child of a node lies below the node.                  *)
LEMMA ChildrenAreBelow ==
  ASSUME NEW t, Keyed(t), Treed(t), NEW node \in DOMAIN t.top, NEW c \in Children(t, node)
  PROVE Below(t, c) \in SUBSET Below(t, node)
  <1> DEFINE e == t.entries
  <1>1. \A i \in DOMAIN e : e[i].reading \in Seq(Nat)
    <2>1. \A i \in DOMAIN e : e[i] \in Words
      BY DEF Keyed
    <2>2. QED BY <2>1 DEF Words
  <1>2. node \in Seq(Nat) /\ c \in Seq(Nat) /\ Len(c) = Len(node) + 1 /\ IsPrefix(node, c)
    BY DEF Treed, Children
  <1>3. ASSUME NEW i \in Below(t, c) PROVE i \in Below(t, node)
    <2>1. i \in DOMAIN e /\ IsPrefix(c, e[i].reading) /\ e[i].reading \in Seq(Nat)
      BY <1>1 DEF Below
    <2> DEFINE r == e[i].reading
    <2>2. r \in Seq(Nat) /\ IsPrefix(c, r)
      BY <2>1
    <2> HIDE DEF r
    <2>3. IsPrefix(node, r)
      <3> DEFINE a == Len(node)
                 b == Len(c)
                 n == Len(r)
      <3>1. /\ a \in Nat /\ b \in Nat /\ n \in Nat /\ b = a + 1
            /\ b <= n /\ \A l \in 1 .. b : c[l] = r[l]
            /\ a <= b /\ \A l \in 1 .. a : node[l] = c[l]
        BY <1>2, <2>2, PrefixIs
      <3> HIDE DEF a, b, n
      <3>2. a <= n /\ \A l \in 1 .. a : node[l] = r[l]
        BY <3>1
      <3>3. QED BY <1>2, <2>2, <3>2, PrefixIs DEF a, n
    <2>4. QED BY <2>1, <2>3 DEF Below, r
  <1>4. QED BY <1>3

(* A word below a node is its own or lies below one of its children.       *)
LEMMA BelowSomeChild ==
  ASSUME NEW t, Keyed(t), Treed(t), NEW node \in DOMAIN t.top, NEW j \in Below(t, node)
  PROVE j \in Exact(t, node) \/ \E c \in Children(t, node) : j \in Below(t, c)
  <1> DEFINE r == t.entries[j].reading
  <1>1. j \in DOMAIN t.entries /\ IsPrefix(node, r) /\ r \in Seq(Nat) /\ r \in DOMAIN t.top
    <2>1. \A i \in DOMAIN t.entries : t.entries[i] \in Words
      BY DEF Keyed
    <2>2. QED BY <2>1 DEF Words, Treed, Below
  <1>2. node \in Seq(Nat)
    BY DEF Treed
  <1>3. CASE Len(r) = Len(node)
    <2>1. Len(r) \in Nat /\ \A l \in 1 .. Len(r) : node[l] = r[l]
      BY <1>1, <1>2, <1>3, PrefixIs
    <2> HIDE DEF r
    <2>2. r = node
      BY <1>1, <1>2, <1>3, <2>1, SeqEqual
    <2>3. QED BY <1>1, <2>2 DEF Exact, r
  <1>4. CASE Len(r) # Len(node)
    <2> HIDE DEF r
    <2> DEFINE m == Len(node)
               n == Len(r)
               c == SubSeq(r, 1, m + 1)
    <2>1. m \in Nat /\ n \in Nat /\ m <= n /\ m # n /\ \A l \in 1 .. m : node[l] = r[l]
      BY <1>1, <1>2, <1>4, PrefixIs
    <2>2. m + 1 \in 0 .. n
      BY <2>1
    <2>3. c \in DOMAIN t.top
      BY <1>1, <2>2 DEF Treed
    <2>4. c \in Seq(Nat) /\ Len(c) = m + 1 /\ \A l \in 1 .. m + 1 : c[l] = r[l]
      BY <1>1, <2>2, StartIs
    <2> HIDE DEF m, n, c
    <2>5. IsPrefix(c, r) /\ IsPrefix(node, c)
      <3>1. Len(c) <= Len(r) /\ \A l \in 1 .. Len(c) : c[l] = r[l]
        BY <2>1, <2>2, <2>4 DEF n
      <3>2. Len(node) <= Len(c) /\ \A l \in 1 .. Len(node) : node[l] = c[l]
        BY <2>1, <2>4 DEF m
      <3>3. QED BY <1>1, <1>2, <2>4, <3>1, <3>2, PrefixIs
    <2>6. c \in Children(t, node)
      BY <2>3, <2>4, <2>5 DEF Children, m
    <2>7. j \in Below(t, c)
      BY <1>1, <2>5 DEF Below, r
    <2>8. QED BY <2>6, <2>7
  <1>5. QED BY <1>3, <1>4

(* What has all but what full lists of other words leave out, none of them *)
(* better than one of those, has the best.                                 *)
LEMMA PartHasBest ==
  ASSUME NEW t, Keyed(t), NEW J \in SUBSET DOMAIN t.entries, NEW I \in SUBSET J, NEW list,
         BestAmong(t.entries, I, list),
         \A j \in J \ I : \E X \in SUBSET I :
           /\ IsFiniteSet(X) /\ Cardinality(X) = TopPredictionCount
           /\ \A x \in X : ~Better(t.entries[j], t.entries[x])
  PROVE BestAmong(t.entries, J, list)
  <1> DEFINE e == t.entries
             K == TopPredictionCount
             S == ToSet(list)
  <1>1. IsFiniteSet(J) /\ IsFiniteSet(I) /\ \A j \in J : Item(e[j])
    BY WordsAreRankable
  <1>2. K \in Nat /\ Cardinality(I) \in Nat /\ Cardinality(J) \in Nat /\ Cardinality(I) <= Cardinality(J)
    BY <1>1, FS_CardinalityType, FS_Subset, TopAssumption
  <1>3. Min({K, Cardinality(I)}) = Min({K, Cardinality(J)})
    <2>1. CASE I = J
      BY <2>1
    <2>2. CASE I # J
      <3>1. PICK j \in J \ I : TRUE
        BY <2>2
      <3>2. PICK X \in SUBSET I : IsFiniteSet(X) /\ Cardinality(X) = K
        BY <3>1
      <3>3. K <= Cardinality(I)
        BY <1>1, <3>2, FS_Subset
      <3> DEFINE a == Cardinality(I)
                 b == Cardinality(J)
      <3>4. a \in Int /\ b \in Int /\ K \in Int /\ K <= a /\ K <= b
        BY <1>2, <3>3
      <3> HIDE DEF a, b, K
      <3>5. Min({K, a}) = K /\ Min({K, b}) = K
        BY <3>4, MinIs
      <3>6. QED BY <3>5 DEF a, b
    <2>3. QED BY <2>1, <2>2
  <1>4. /\ S \in SUBSET I /\ IsFiniteSet(S) /\ Cardinality(S) \in Nat /\ Cardinality(S) <= K
    <2> DEFINE m == Min({K, Cardinality(I)})
    <2>1. BestAmong(e, I, list) /\ IsFiniteSet(I)
      BY <1>1
    <2> HIDE DEF e, S
    <2>2. m \in Nat /\ m <= K /\ ToSet(list) \in SUBSET I /\ IsFiniteSet(ToSet(list))
          /\ Cardinality(ToSet(list)) = m
      BY <2>1, ListCounts
    <2>3. QED BY <2>2 DEF S
  <1>5. ASSUME NEW j \in J \ I, NEW i \in S, Better(e[j], e[i]) PROVE FALSE
    <2>1. PICK X \in SUBSET I : /\ IsFiniteSet(X) /\ Cardinality(X) = K
                                /\ \A x \in X : ~Better(e[j], e[x])
      OBVIOUS
    <2>2. i \in J /\ j \in J /\ i \in I
      BY <1>4
    <2>3. \A x \in X : Better(e[x], e[i])
      <3> SUFFICES ASSUME NEW x \in X PROVE Better(e[x], e[i])
        OBVIOUS
      <3>1. Item(e[x]) /\ Item(e[j]) /\ Item(e[i]) /\ ~Better(e[j], e[x])
        BY <1>1, <2>1, <2>2
      <3> HIDE DEF e
      <3>2. CASE Ties(e[j], e[x])
        BY <1>5, <3>1, <3>2, TiesAgree
      <3>3. CASE Better(e[x], e[j])
        BY <1>5, <3>1, <3>3, BetterIsTransitive
      <3>4. QED BY <3>1, <3>2, <3>3, TiesAre
    <2>4. X \in SUBSET S
      BY <2>3, <1>4 DEF BestAmong
    <2>5. i \notin X
      BY <1>1, <2>2, <2>3, BetterIsIrreflexive
    <2>6. X # S
      BY <2>5
    <2>7. Cardinality(X) <= Cardinality(S) /\ (Cardinality(S) = Cardinality(X) => S = X)
      <3> HIDE DEF S
      <3>1. QED BY <1>4, <2>4, FS_Subset
    <2> HIDE DEF S, K
    <2>8. QED BY <1>2, <1>4, <2>1, <2>6, <2>7
  <1>6. list \in [1 .. Min({K, Cardinality(J)}) -> J]
    <2>1. list \in [1 .. Min({K, Cardinality(I)}) -> I]
      BY DEF BestAmong
    <2> HIDE DEF K
    <2>2. QED BY <1>3, <2>1
  <1>7. \A i \in J \ S : \A j \in S : ~Better(e[i], e[j])
    BY <1>5 DEF BestAmong
  <1>8. QED BY <1>6, <1>7 DEF BestAmong

(* A node whose children are right becomes right when it is recomputed.    *)
LEMMA NodeIsRight ==
  ASSUME NEW t, Keyed(t), Treed(t), NEW node \in DOMAIN t.top,
         \A c \in Children(t, node) : Right(t, c)
  PROVE BestAmong(t.entries, Below(t, node),
                  BestOf(t, Exact(t, node) \cup UNION {ToSet(t.top[c]) : c \in Children(t, node)}))
  <1> DEFINE e == t.entries
             J == Below(t, node)
             I == Exact(t, node) \cup UNION {ToSet(t.top[c]) : c \in Children(t, node)}
             K == TopPredictionCount
  <1>1. J \in SUBSET DOMAIN t.entries /\ \A c : Below(t, c) \in SUBSET DOMAIN t.entries
    BY DEF Below
  <1>2. ASSUME NEW c \in Children(t, node)
        PROVE /\ Below(t, c) \in SUBSET J /\ IsFiniteSet(Below(t, c))
              /\ BestAmong(t.entries, Below(t, c), t.top[c])
    <2>1. IsFiniteSet(Below(t, c))
      BY <1>1, WordsAreRankable
    <2>2. BestAmong(t.entries, Below(t, c), t.top[c])
      BY DEF Right
    <2>3. QED BY <2>1, <2>2, ChildrenAreBelow
  <1>3. ASSUME NEW c \in Children(t, node) PROVE ToSet(t.top[c]) \in SUBSET Below(t, c)
    <2> DEFINE list == t.top[c]
               B == Below(t, c)
    <2>1. BestAmong(e, B, list) /\ IsFiniteSet(B)
      BY <1>2
    <2> HIDE DEF B, list, e
    <2>2. ToSet(list) \in SUBSET B
      BY <2>1, ListCounts
    <2>3. QED BY <2>2 DEF B, list
  <1>4. I \in SUBSET J
    <2>1. ASSUME NEW i \in Exact(t, node) PROVE i \in J
      <3>1. i \in DOMAIN e /\ e[i].reading = node
        BY DEF Exact
      <3>2. IsPrefix(node, node)
        BY PrefixIs DEF Treed
      <3>3. QED BY <3>1, <3>2 DEF Below
    <2>2. ASSUME NEW c \in Children(t, node), NEW i \in ToSet(t.top[c]) PROVE i \in J
      BY <1>2, <1>3, <2>2
    <2>3. QED BY <2>1, <2>2
  <1>5. ASSUME NEW j \in J \ I
        PROVE \E X \in SUBSET I : /\ IsFiniteSet(X) /\ Cardinality(X) = K
                                  /\ \A x \in X : ~Better(e[j], e[x])
    <2>1. PICK c \in Children(t, node) : j \in Below(t, c)
      BY BelowSomeChild
    <2> DEFINE list == t.top[c]
               B == Below(t, c)
               X == ToSet(list)
               m == Min({K, Cardinality(B)})
    <2>2. BestAmong(e, B, list) /\ IsFiniteSet(B)
      BY <1>2
    <2>3. X \in SUBSET I
      OBVIOUS
    <2>4. j \notin X
      BY <2>3
    <2>5. \A x \in X : ~Better(e[j], e[x])
      BY <2>1, <2>2, <2>4 DEF BestAmong
    <2> HIDE DEF B, list, e, I
    <2>6. /\ m = K \/ m = Cardinality(B)
          /\ X \in SUBSET B /\ IsFiniteSet(X) /\ Cardinality(X) = m
      BY <2>2, ListCounts
    <2>7. m = K
      <3> SUFFICES ASSUME m = Cardinality(B) PROVE FALSE
        BY <2>6
      <3> HIDE DEF X, m
      <3>1. X = B
        BY <2>2, <2>6, FS_Subset
      <3>2. QED BY <2>1, <2>4, <3>1 DEF B
    <2>8. QED BY <2>3, <2>5, <2>6, <2>7
  <1>6. BestAmong(t.entries, I, BestOf(t, I))
    <2>1. I \in SUBSET DOMAIN t.entries
      BY <1>1, <1>4
    <2> HIDE DEF I
    <2>2. QED BY <2>1, BestOfIs
  <1> HIDE DEF I, J
  <1>7. BestAmong(t.entries, J, BestOf(t, I))
    BY <1>1, <1>4, <1>5, <1>6, PartHasBest
  <1>8. QED BY <1>7 DEF I, J

-----------------------------------------------------------------------------
(* Rebuilding *)

(* What is best below a node depends on the entries alone.                 *)
LEMMA BestDependsOnEntries ==
  ASSUME NEW t, NEW u, t.entries = u.entries
  PROVE \A node : Below(t, node) = Below(u, node)
  BY DEF Below

(* A recomputed node is right if its children are, and no other changes.   *)
LEMMA RecomputeIsRight ==
  ASSUME NEW t, "top" \in DOMAIN t, Keyed(t), Treed(t), NEW node \in DOMAIN t.top,
         \A c \in Children(t, node) : Right(t, c)
  PROVE /\ Kept(Recompute(t, node), t) /\ DOMAIN Recompute(t, node).top = DOMAIN t.top
        /\ Right(Recompute(t, node), node)
        /\ \A x \in DOMAIN t.top \ {node} : Recompute(t, node).top[x] = t.top[x]
  <1> DEFINE u == Recompute(t, node)
             best == BestOf(t, Exact(t, node) \cup UNION {ToSet(t.top[c]) : c \in Children(t, node)})
             top == [t.top EXCEPT ![node] = best]
  <1>1. u = [t EXCEPT !.top = top]
    BY DEF Recompute
  <1>2. BestAmong(t.entries, Below(t, node), best)
    BY NodeIsRight
  <1> HIDE DEF best
  <1>3. /\ DOMAIN top = DOMAIN t.top /\ top[node] = best
        /\ \A x \in DOMAIN t.top \ {node} : top[x] = t.top[x]
    OBVIOUS
  <1> HIDE DEF top, u
  <1>4. DOMAIN u = DOMAIN t /\ u.top = top /\ \A x \in DOMAIN t \ {"top"} : u[x] = t[x]
    BY <1>1
  <1>5. u.entries = t.entries
    BY <1>1
  <1>6. Below(u, node) = Below(t, node)
    BY <1>5, BestDependsOnEntries
  <1>7. QED BY <1>2, <1>3, <1>4, <1>5, <1>6 DEF Kept, Right, u

(* A list has every node before the nodes below it, as far as these are    *)
(* not right already.                                                      *)
Listed(t, nodes) ==
  \A k \in DOMAIN nodes :
    /\ nodes[k] \in DOMAIN t.top
    /\ \A c \in Children(t, nodes[k]) : Right(t, c) \/ \E j \in DOMAIN nodes : j > k /\ nodes[j] = c

(* What is the same after a rebuild.                                       *)
Like(u, t) == "top" \in DOMAIN u /\ u.entries = t.entries /\ DOMAIN u.top = DOMAIN t.top

(* What depends on entries and nodes alone stays.                          *)
LEMMA LikeKeeps ==
  ASSUME NEW t, NEW u, Like(u, t), Keyed(t), Treed(t)
  PROVE /\ Keyed(u) /\ Treed(u) /\ \A node : Children(u, node) = Children(t, node)
        /\ \A node : Below(u, node) = Below(t, node)
  <1>1. \A node : Below(u, node) = Below(t, node)
    BY BestDependsOnEntries DEF Like
  <1>2. QED BY <1>1 DEF Like, Keyed, Treed, Children

(* Rebuilt in that order the listed nodes become right, and those stay so  *)
(* that are.                                                               *)
LEMMA RebuildIsRight ==
  ASSUME NEW t, "top" \in DOMAIN t, Keyed(t), Treed(t), NEW nodes, NEW n \in Nat,
         DOMAIN nodes = 1 .. n, Listed(t, nodes)
  PROVE /\ Like(Rebuild(t, nodes), t)
        /\ \A x \in DOMAIN t.top : Right(t, x) \/ (\E j \in 1 .. n : nodes[j] = x)
                                      => Right(Rebuild(t, nodes), x)
  <1>1. PICK G : Rebuilds(t, nodes, 1, n, G) /\ Rebuild(t, nodes) = G[1 .. n]
    BY RebuildIs
  <1>2. G[n + 1 .. n] = t /\ \A k \in 1 .. n : G[k .. n] = Recompute(G[k + 1 .. n], nodes[k])
    <2>1. NodeByNode(t, nodes, n, G)
      BY <1>1, RebuildSteps
    <2>2. QED BY <2>1 DEF NodeByNode
  <1> DEFINE Fine(k) == /\ Like(G[k .. n], t)
                        /\ \A x \in DOMAIN t.top : Right(t, x) \/ (\E j \in k .. n : nodes[j] = x)
                                                     => Right(G[k .. n], x)
             Good == {j \in 1 .. n + 1 : Fine(n + 2 - j)}
  <1>3. ASSUME NEW j \in 1 .. n + 1, \A i \in 1 .. j - 1 : i \in Good PROVE Fine(n + 2 - j)
    <2>1. CASE j = 1
      <3>1. n + 2 - j = n + 1 /\ \A i \in n + 1 .. n : FALSE
        BY <2>1
      <3>2. Fine(n + 1)
        BY <1>2, <3>1 DEF Like
      <3> HIDE DEF Fine
      <3>3. QED BY <3>1, <3>2
    <2>2. CASE j # 1
      <3> DEFINE k == n + 2 - j
                 s == G[k + 1 .. n]
                 u == G[k .. n]
                 node == nodes[k]
      <3>1. k \in 1 .. n /\ j - 1 \in 1 .. j - 1 /\ n + 2 - (j - 1) = k + 1
        BY <2>2
      <3>2. j - 1 \in Good
        BY <1>3, <3>1
      <3>3. Fine(k + 1)
        BY <3>1, <3>2
      <3> HIDE DEF k, Good
      <3>4. u = Recompute(s, node)
        BY <1>2, <3>1
      <3>5. /\ Like(s, t)
            /\ \A x \in DOMAIN t.top : Right(t, x) \/ (\E i \in k + 1 .. n : nodes[i] = x) => Right(s, x)
        BY <3>3
      <3> HIDE DEF s, u
      <3>6. Keyed(s) /\ Treed(s) /\ "top" \in DOMAIN s /\ DOMAIN s.top = DOMAIN t.top
            /\ Children(s, node) = Children(t, node)
        <4>1. Keyed(s) /\ Treed(s)
          BY <3>5, LikeKeeps
        <4>2. "top" \in DOMAIN s /\ DOMAIN s.top = DOMAIN t.top
          BY <3>5 DEF Like
        <4>3. QED BY <4>1, <4>2 DEF Children
      <3>7. node \in DOMAIN t.top
        BY <3>1 DEF Listed
      <3>8. \A c \in Children(s, node) : Right(s, c)
        <4> SUFFICES ASSUME NEW c \in Children(t, node) PROVE Right(s, c)
          BY <3>6
        <4>1. c \in DOMAIN t.top
          BY DEF Children
        <4>2. Right(t, c) \/ \E i \in 1 .. n : i > k /\ nodes[i] = c
          BY <3>1 DEF Listed
        <4>3. \A i \in 1 .. n : i > k => i \in k + 1 .. n
          BY <3>1
        <4>4. QED BY <3>5, <4>1, <4>2, <4>3
      <3>9. /\ Kept(u, s) /\ DOMAIN u.top = DOMAIN s.top /\ Right(u, node)
            /\ \A x \in DOMAIN s.top \ {node} : u.top[x] = s.top[x]
        BY <3>4, <3>6, <3>7, <3>8, RecomputeIsRight
      <3>10. Like(u, t) /\ u.entries = s.entries
        <4>1. u.entries = s.entries
          BY <3>4 DEF Recompute
        <4>2. QED BY <3>5, <3>6, <3>9, <4>1 DEF Like, Kept
      <3>11. ASSUME NEW x \in DOMAIN t.top, Right(t, x) \/ \E i \in k .. n : nodes[i] = x
             PROVE Right(u, x)
        <4>1. CASE x = node
          BY <3>9, <4>1
        <4>2. CASE x # node
          <5>1. Right(t, x) \/ \E i \in k + 1 .. n : nodes[i] = x
            <6>1. \A i \in k .. n : i = k \/ i \in k + 1 .. n
              BY <3>1
            <6>2. QED BY <3>11, <4>2, <6>1
          <5>2. Right(s, x) /\ u.top[x] = s.top[x]
            BY <3>5, <3>6, <3>9, <4>2, <5>1
          <5>3. Below(u, x) = Below(s, x)
            BY <3>10, BestDependsOnEntries
          <5>4. QED BY <3>10, <5>2, <5>3 DEF Right
        <4>3. QED BY <4>1, <4>2
      <3>12. Fine(k)
        BY <3>10, <3>11 DEF u
      <3> HIDE DEF Fine
      <3>13. QED BY <3>12 DEF k
    <2>3. QED BY <2>1, <2>2
  <1>4. n + 1 \in Good
    <2>1. \A j \in 1 .. n + 1 : (\A i \in 1 .. j - 1 : i \in Good) => j \in Good
      BY <1>3
    <2>2. Good \in SUBSET (1 .. n + 1) /\ n + 1 \in Nat /\ n + 1 \in 1 .. n + 1
      OBVIOUS
    <2> HIDE DEF Good
    <2>3. QED BY <2>1, <2>2, EveryPosition
  <1>5. n + 2 - (n + 1) = 1
    OBVIOUS
  <1>6. Fine(1)
    <2>1. Fine(n + 2 - (n + 1))
      BY <1>4
    <2> HIDE DEF Fine
    <2>2. QED BY <1>5, <2>1
  <1>7. QED BY <1>1, <1>6

-----------------------------------------------------------------------------
(* Filling *)

(* The path of a reading has all that leads to it, each behind what leads  *)
(* there.                                                                  *)
LEMMA PathLeads ==
  ASSUME NEW reading \in Seq(Nat)
  PROVE LET p == Path(reading)
            n == Len(reading) + 1
        IN /\ p[n] = reading
           /\ \A i \in 1 .. n : p[i] \in Seq(Nat) /\ Len(p[i]) = i - 1 /\ IsPrefix(p[i], reading)
           /\ \A i \in 1 .. n : \A l \in 0 .. i - 1 : SubSeq(p[i], 1, l) = p[l + 1]
           /\ \A c \in Seq(Nat) : IsPrefix(c, reading) => Len(c) + 1 \in 1 .. n /\ c = p[Len(c) + 1]
  <1> DEFINE p == Path(reading)
             m == Len(reading)
             n == m + 1
  <1>1. m \in Nat /\ n \in Nat
    OBVIOUS
  <1>2. \A i \in 1 .. n : i - 1 \in 0 .. m /\ p[i] = SubSeq(reading, 1, i - 1)
    <2>1. \A i \in 1 .. n : p[i] = SubSeq(reading, 1, i - 1)
      BY PathIs
    <2> HIDE DEF p, m
    <2>2. QED BY <1>1, <2>1
  <1>3. ASSUME NEW i \in 1 .. n
        PROVE /\ p[i] \in Seq(Nat) /\ Len(p[i]) = i - 1 /\ IsPrefix(p[i], reading)
              /\ \A l \in 1 .. i - 1 : p[i][l] = reading[l]
    <2> DEFINE x == SubSeq(reading, 1, i - 1)
    <2>1. p[i] = x
      BY <1>2
    <2>2. x \in Seq(Nat) /\ Len(x) = i - 1 /\ \A l \in 1 .. i - 1 : x[l] = reading[l]
      BY <1>2, StartIs
    <2> HIDE DEF x
    <2>3. Len(x) <= Len(reading) /\ \A l \in 1 .. Len(x) : x[l] = reading[l]
      <3>1. i - 1 \in 0 .. m
        BY <1>2
      <3> HIDE DEF m
      <3>2. i - 1 <= m
        BY <1>1, <3>1
      <3>3. QED BY <2>2, <3>2 DEF m
    <2>4. IsPrefix(x, reading)
      BY <2>2, <2>3, PrefixIs
    <2>5. QED BY <2>1, <2>2, <2>4
  <1> HIDE DEF p, m
  <1>4. \A i \in 1 .. n : \A l \in 0 .. i - 1 : SubSeq(p[i], 1, l) = p[l + 1]
    <2> SUFFICES ASSUME NEW i \in 1 .. n, NEW l \in 0 .. i - 1 PROVE SubSeq(p[i], 1, l) = p[l + 1]
      OBVIOUS
    <2> DEFINE x == p[i]
               y == p[l + 1]
               s == SubSeq(x, 1, l)
    <2>1. l + 1 \in 1 .. n /\ (l + 1) - 1 = l /\ l \in Nat /\ l <= i - 1 /\ i - 1 \in Nat
      BY <1>1
    <2>2. x \in Seq(Nat) /\ Len(x) = i - 1 /\ \A k \in 1 .. i - 1 : x[k] = reading[k]
      BY <1>3
    <2>3. y \in Seq(Nat) /\ Len(y) = l /\ \A k \in 1 .. l : y[k] = reading[k]
      BY <1>3, <2>1
    <2> HIDE DEF x, y
    <2>4. s \in Seq(Nat) /\ Len(s) = l /\ \A k \in 1 .. l : s[k] = x[k]
      BY <2>2, StartIs
    <2> HIDE DEF s
    <2>5. ASSUME NEW k \in 1 .. l PROVE s[k] = y[k]
      <3>1. k \in 1 .. i - 1
        BY <2>1
      <3>2. QED BY <2>2, <2>3, <2>4, <3>1
    <2>6. s = y
      BY <2>3, <2>4, <2>5, SeqEqual
    <2>7. QED BY <2>6 DEF s, x, y
  <1>5. ASSUME NEW c \in Seq(Nat), IsPrefix(c, reading)
        PROVE Len(c) + 1 \in 1 .. n /\ c = p[Len(c) + 1]
    <2> DEFINE l == Len(c)
               y == p[l + 1]
    <2>1. l \in Nat /\ l <= m /\ \A k \in 1 .. l : c[k] = reading[k]
      BY <1>5, PrefixIs DEF m
    <2>2. l + 1 \in 1 .. n /\ (l + 1) - 1 = l
      BY <1>1, <2>1
    <2>3. y \in Seq(Nat) /\ Len(y) = l /\ \A k \in 1 .. l : y[k] = reading[k]
      BY <1>3, <2>2
    <2> HIDE DEF y
    <2>4. \A k \in 1 .. l : c[k] = y[k]
      BY <2>1, <2>3
    <2>5. c = y
      BY <2>3, <2>4, SeqEqual
    <2>6. QED BY <2>2, <2>5 DEF y
  <1>6. p[n] = reading
    <2>1. IsPrefix(reading, reading) /\ Len(reading) + 1 = n
      BY PrefixIs DEF m
    <2>2. QED BY <1>5, <2>1
  <1>7. QED BY <1>3, <1>4, <1>5, <1>6 DEF p, m

(* The last node on a path that is there.                                  *)
LEMMA LastKnown ==
  ASSUME NEW top, <<>> \in DOMAIN top, NEW reading \in Seq(Nat)
  PROVE LET places == {i \in DOMAIN Path(reading) : Path(reading)[i] \in DOMAIN top}
        IN Max(places) \in places /\ \A i \in places : i <= Max(places)
  <1> DEFINE n == Len(reading) + 1
             places == {i \in DOMAIN Path(reading) : Path(reading)[i] \in DOMAIN top}
  <1>1. n \in Nat \ {0} /\ DOMAIN Path(reading) = 1 .. n /\ Path(reading)[1] = <<>>
    BY PathIs
  <1>2. places \in SUBSET (1 .. n) /\ 1 \in places
    BY <1>1
  <1> HIDE DEF places, n
  <1>3. IsFiniteSet(1 .. n)
    BY <1>1, FS_Interval
  <1>4. IsFiniteSet(places) /\ places \in SUBSET Int /\ places # {}
    <2>1. places \in SUBSET Int /\ places # {}
      BY <1>1, <1>2
    <2>2. QED BY <1>2, <1>3, <2>1, FS_Subset
  <1>5. \E x \in places : \A y \in places : y <= x
    BY <1>4, GreatestNumber
  <1>6. \E x \in places : \A y \in places : x >= y
    BY <1>4, <1>5
  <1>7. Max(places) \in places /\ \A y \in places : Max(places) >= y
    BY <1>6 DEF Max
  <1>8. \A y \in places : y <= Max(places)
    BY <1>4, <1>7
  <1>9. QED BY <1>7, <1>8 DEF places

(* What adding an entry does: the nodes up to a last one are there, those  *)
(* behind it are new.                                                      *)
Added(t, e, known) ==
  LET p == Path(e.reading)
      n == Len(e.reading) + 1
      u == AddEntry(t, e)
  IN /\ known \in 1 .. n /\ \A i \in 1 .. n : p[i] \in DOMAIN t.top <=> i <= known
     /\ u = [entries |-> u.entries, nodes |-> u.nodes, top |-> u.top]
     /\ u.entries = Append(t.entries, e)
     /\ u.nodes = t.nodes \o SubSeq(p, known + 1, n)
     /\ DOMAIN u.top = DOMAIN t.top \cup {p[i] : i \in known + 1 .. n}
     /\ \A x \in DOMAIN t.top : u.top[x] = t.top[x]

(* Adding an entry always does that.                                       *)
LEMMA AddedIs ==
  ASSUME NEW t, Treed(t), <<>> \in DOMAIN t.top, NEW e, e.reading \in Seq(Nat)
  PROVE \E known : Added(t, e, known)
  <1> DEFINE p == Path(e.reading)
             n == Len(e.reading) + 1
             places == {i \in DOMAIN p : p[i] \in DOMAIN t.top}
             known == Max(places)
             new == SubSeq(p, known + 1, Len(p))
             u == AddEntry(t, e)
             top == [x \in DOMAIN t.top \cup ToSet(new) |-> IF x \in DOMAIN t.top THEN t.top[x] ELSE <<>>]
  <1>1. n \in Nat
    OBVIOUS
  <1>2. /\ p \in Seq(Seq(Nat)) /\ Len(p) = n /\ DOMAIN p = 1 .. n /\ n \in Nat
    BY <1>1, PathIs
  <1>3. known \in places /\ \A i \in places : i <= known
    BY LastKnown
  <1>4. \A i \in 1 .. n : \A l \in 0 .. i - 1 : SubSeq(p[i], 1, l) = p[l + 1]
    BY PathLeads
  <1>5. \A i \in 1 .. n : Len(p[i]) = i - 1
    BY PathLeads
  <1>6. u = [entries |-> Append(t.entries, e), nodes |-> t.nodes \o new, top |-> top]
    BY DEF AddEntry
  <1> HIDE DEF p, n, known, u
  <1>7. known \in 1 .. n
    BY <1>2, <1>3
  <1>8. ASSUME NEW i \in 1 .. n, i <= known PROVE p[i] \in DOMAIN t.top
    <2> DEFINE x == p[known]
    <2>1. x \in DOMAIN t.top /\ i - 1 \in 0 .. known - 1 /\ (i - 1) + 1 = i /\ Len(x) = known - 1
      BY <1>2, <1>3, <1>5, <1>7, <1>8
    <2>2. SubSeq(x, 1, i - 1) \in DOMAIN t.top
      BY <2>1 DEF Treed
    <2>3. SubSeq(x, 1, i - 1) = p[(i - 1) + 1]
      BY <1>4, <1>7, <2>1
    <2> HIDE DEF x
    <2>4. QED BY <2>1, <2>2, <2>3
  <1>9. \A i \in 1 .. n : p[i] \in DOMAIN t.top => i <= known
    BY <1>2, <1>3
  <1>10. new = SubSeq(p, known + 1, n) /\ ToSet(new) = {p[i] : i \in known + 1 .. n}
    <2>1. new = SubSeq(p, known + 1, n)
      BY <1>2
    <2> HIDE DEF new
    <2>2. Len(new) = n - known /\ DOMAIN new = 1 .. n - known
          /\ \A j \in 1 .. n - known : new[j] = p[known + j]
      BY <1>2, <1>7, <2>1
    <2>3. ToSet(new) = {new[j] : j \in 1 .. n - known}
      BY <2>2 DEF ToSet
    <2>4. \A j \in 1 .. n - known : known + j \in known + 1 .. n
      BY <1>2, <1>7
    <2>5. \A i \in known + 1 .. n : i - known \in 1 .. n - known /\ known + (i - known) = i
      BY <1>2, <1>7
    <2>6. ASSUME NEW x \in ToSet(new) PROVE x \in {p[i] : i \in known + 1 .. n}
      BY <2>2, <2>3, <2>4
    <2>7. ASSUME NEW i \in known + 1 .. n PROVE p[i] \in ToSet(new)
      <3>1. new[i - known] = p[i]
        BY <2>2, <2>5
      <3>2. QED BY <2>3, <2>5, <3>1
    <2>8. QED BY <2>1, <2>6, <2>7
  <1> HIDE DEF new
  <1>11. DOMAIN top = DOMAIN t.top \cup {p[i] : i \in known + 1 .. n}
         /\ \A x \in DOMAIN t.top : top[x] = t.top[x]
    BY <1>10
  <1> HIDE DEF top
  <1>12. /\ u = [entries |-> u.entries, nodes |-> u.nodes, top |-> u.top]
         /\ u.entries = Append(t.entries, e) /\ u.nodes = t.nodes \o new /\ u.top = top
    BY <1>6
  <1>13. Added(t, e, known)
    BY <1>7, <1>8, <1>9, <1>10, <1>11, <1>12 DEF Added, p, n, u
  <1>14. QED BY <1>13

(* What a trie is while entries are added: each node stands behind what    *)
(* leads to it.                                                            *)
Grown(t) ==
  /\ Filled(t) /\ Treed(t) /\ DOMAIN t.top = ToSet(t.nodes)
  /\ \A k \in DOMAIN t.nodes : \A c \in Children(t, t.nodes[k]) :
       \E j \in DOMAIN t.nodes : j > k /\ t.nodes[j] = c

(* The empty trie is one,                                                  *)
LEMMA EmptyIsGrown == Grown(EmptyTrie) /\ EmptyTrie.entries = <<>>
  <1> DEFINE t == EmptyTrie
  <1>1. /\ t.entries = <<>> /\ t.nodes = <<<<>>>> /\ DOMAIN t.top = {<<>>}
        /\ t = [entries |-> t.entries, nodes |-> t.nodes, top |-> t.top]
    BY DEF EmptyTrie
  <1> HIDE DEF t
  <1>2. Filled(t)
    BY <1>1 DEF Filled
  <1>3. Treed(t)
    <2>1. SubSeq(<<>>, 1, 0) = <<>> /\ <<>> \in Seq(Nat) /\ Len(<<>>) = 0
      OBVIOUS
    <2>2. \A l \in 0 .. 0 : l = 0
      OBVIOUS
    <2>3. \A i \in DOMAIN t.entries : FALSE
      BY <1>1
    <2>4. QED BY <1>1, <2>1, <2>2, <2>3 DEF Treed
  <1>4. DOMAIN t.top = ToSet(t.nodes)
    BY <1>1 DEF ToSet
  <1>5. \A node : Len(node) = 0 => Children(t, node) = {}
    BY <1>1 DEF Children
  <1>6. \A k \in DOMAIN t.nodes : Len(t.nodes[k]) = 0
    BY <1>1
  <1>7. QED BY <1>1, <1>2, <1>3, <1>4, <1>5, <1>6 DEF Grown, t

(* With an entry more every node is still reached through nodes.           *)
LEMMA AddedIsTreed ==
  ASSUME NEW t, Treed(t), <<>> \in DOMAIN t.top, t.entries \in Seq(Words), NEW e \in Words,
         NEW u, u.entries = Append(t.entries, e),
         DOMAIN u.top = DOMAIN t.top \cup {Path(e.reading)[i] : i \in 1 .. Len(e.reading) + 1}
  PROVE Treed(u)
  <1> DEFINE p == Path(e.reading)
             n == Len(e.reading) + 1
  <1>1. e.reading \in Seq(Nat)
    BY DEF Words
  <1>2. n \in Nat \ {0}
    BY <1>1
  <1>3. /\ p[n] = e.reading
        /\ \A i \in 1 .. n : p[i] \in Seq(Nat) /\ Len(p[i]) = i - 1
        /\ \A i \in 1 .. n : \A l \in 0 .. i - 1 : SubSeq(p[i], 1, l) = p[l + 1]
    BY <1>1, PathLeads
  <1>4. DOMAIN u.top = DOMAIN t.top \cup {p[i] : i \in 1 .. n}
    OBVIOUS
  <1> HIDE DEF p, n
  <1>5. ASSUME NEW x \in DOMAIN u.top
        PROVE x \in Seq(Nat) /\ \A l \in 0 .. Len(x) : SubSeq(x, 1, l) \in DOMAIN u.top
    <2>1. CASE x \in DOMAIN t.top
      BY <1>4, <2>1 DEF Treed
    <2>2. CASE x \notin DOMAIN t.top
      <3>1. PICK i \in 1 .. n : x = p[i]
        BY <1>4, <2>2
      <3>2. \A l \in 0 .. i - 1 : l + 1 \in 1 .. n /\ SubSeq(x, 1, l) = p[l + 1]
        <4>1. \A l \in 0 .. i - 1 : l + 1 \in 1 .. n
          BY <1>2
        <4>2. QED BY <1>3, <3>1, <4>1
      <3>3. x \in Seq(Nat) /\ Len(x) = i - 1
        BY <1>3, <3>1
      <3>4. QED BY <1>4, <3>2, <3>3
    <2>3. QED BY <2>1, <2>2
  <1>6. ASSUME NEW i \in DOMAIN u.entries PROVE u.entries[i].reading \in DOMAIN u.top
    <2> DEFINE s == t.entries
    <2>1. s \in Seq(Words) /\ u.entries = Append(s, e)
      OBVIOUS
    <2> HIDE DEF s
    <2>2. CASE i \in DOMAIN s
      <3>1. u.entries[i] = s[i]
        BY <2>1, <2>2
      <3>2. s[i].reading \in DOMAIN t.top
        BY <2>2 DEF Treed, s
      <3>3. QED BY <1>4, <3>1, <3>2
    <2>3. CASE i \notin DOMAIN s
      <3>1. u.entries[i] = e
        BY <2>1, <2>3
      <3>2. n \in 1 .. n
        BY <1>2
      <3>3. QED BY <1>3, <1>4, <3>1, <3>2
    <2>4. QED BY <2>2, <2>3
  <1>7. QED BY <1>5, <1>6 DEF Treed

(* and so is one with an entry more, which comes last.                     *)
LEMMA GrownOn ==
  ASSUME NEW t, Grown(t), NEW e \in Words
  PROVE Grown(AddEntry(t, e)) /\ AddEntry(t, e).entries = Append(t.entries, e)
  <1> DEFINE p == Path(e.reading)
             n == Len(e.reading) + 1
             u == AddEntry(t, e)
             a == t.nodes
             D == DOMAIN t.top
             m == Len(a)
  <1>1. e.reading \in Seq(Nat)
    BY DEF Words
  <1>2. /\ t.entries \in Seq(Words) /\ a \in Seq(Seq(Nat)) /\ <<>> \in D /\ Treed(t)
        /\ D = ToSet(a) /\ m \in Nat /\ DOMAIN a = 1 .. m
        /\ \A k \in 1 .. m : \A c \in Children(t, a[k]) : \E j \in 1 .. m : j > k /\ a[j] = c
    <2>1. /\ t.entries \in Seq(Words) /\ a \in Seq(Seq(Nat)) /\ <<>> \in D /\ Treed(t) /\ D = ToSet(a)
          /\ \A k \in DOMAIN a : \A c \in Children(t, a[k]) : \E j \in DOMAIN a : j > k /\ a[j] = c
      BY DEF Grown, Filled
    <2> HIDE DEF a
    <2>2. m \in Nat /\ DOMAIN a = 1 .. m
      BY <2>1
    <2> HIDE DEF m, D
    <2>3. QED BY <2>1, <2>2
  <1>3. PICK known : Added(t, e, known)
    BY <1>1, <1>2, AddedIs
  <1>4. /\ known \in 1 .. n /\ \A i \in 1 .. n : p[i] \in D <=> i <= known
        /\ u = [entries |-> u.entries, nodes |-> u.nodes, top |-> u.top]
        /\ u.entries = Append(t.entries, e)
        /\ u.nodes = a \o SubSeq(p, known + 1, n)
        /\ DOMAIN u.top = D \cup {p[i] : i \in known + 1 .. n}
    BY <1>3 DEF Added
  <1>5. n \in Nat
    BY <1>1
  <1>6. /\ p \in Seq(Seq(Nat)) /\ Len(p) = n
        /\ \A i \in 1 .. n : p[i] \in Seq(Nat) /\ Len(p[i]) = i - 1
    BY <1>1, PathIs, PathLeads
  <1>7. Treed(u)
    <2>1. DOMAIN u.top = D \cup {p[i] : i \in 1 .. n}
      <3>1. \A i \in 1 .. n : i <= known \/ i \in known + 1 .. n
        BY <1>5, <1>4
      <3>2. known + 1 .. n \in SUBSET (1 .. n)
        BY <1>5, <1>4
      <3>3. \A i \in 1 .. n : p[i] \in D \cup {p[k] : k \in known + 1 .. n}
        BY <1>4, <3>1
      <3> HIDE DEF u, D, p, n
      <3>4. QED BY <1>4, <3>2, <3>3
    <2> HIDE DEF u
    <2>2. QED BY <1>2, <1>4, <2>1, AddedIsTreed
  <1> DEFINE b == u.nodes
             more == n - known
  <1> HIDE DEF p, n, u, a, D, m
  <1>8. /\ n \in Nat /\ m \in Nat /\ more \in Nat
        /\ known \in Nat /\ 1 <= known /\ known <= n /\ more = n - known
    <2>1. known \in 1 .. n
      BY <1>4
    <2>2. QED BY <1>5, <1>2, <2>1
  <1> HIDE DEF more
  <1>9. /\ b \in Seq(Seq(Nat)) /\ more \in Nat /\ Len(b) = m + more /\ DOMAIN b = 1 .. m + more
        /\ \A k \in 1 .. m : b[k] = a[k]
        /\ \A j \in 1 .. more : b[m + j] = p[known + j]
    <2> DEFINE new == SubSeq(p, known + 1, n)
    <2>1. new \in Seq(Seq(Nat)) /\ Len(new) = more
          /\ \A j \in 1 .. more : new[j] = p[known + j]
      <3>1. known + 1 \in 1 .. n + 1 /\ n <= Len(p) /\ p \in Seq(Seq(Nat)) /\ more = n - (known + 1) + 1
        BY <1>6, <1>8
      <3>2. /\ new \in Seq(Seq(Nat)) /\ Len(new) = n - (known + 1) + 1
            /\ \A j \in 1 .. n - (known + 1) + 1 : new[j] = p[(known + 1) + j - 1]
        BY <1>8, <3>1
      <3>3. \A j \in 1 .. more : (known + 1) + j - 1 = known + j
        BY <1>8
      <3> HIDE DEF new
      <3>4. QED BY <3>1, <3>2, <3>3
    <2>2. b = a \o new /\ a \in Seq(Seq(Nat)) /\ Len(a) = m /\ DOMAIN a = 1 .. m
      BY <1>2, <1>4 DEF m
    <2> HIDE DEF new, b
    <2>3. b \in Seq(Seq(Nat)) /\ Len(b) = m + more
      <3> DEFINE T == Seq(Nat)
      <3>1. b = a \o new /\ a \in Seq(T) /\ new \in Seq(T) /\ Len(a) = m /\ Len(new) = more
        BY <2>1, <2>2
      <3> HIDE DEF T
      <3>2. a \o new \in Seq(T) /\ Len(a \o new) = Len(a) + Len(new)
        BY <3>1, ConcatProperties
      <3>3. b \in Seq(T) /\ Len(b) = m + more
        BY <3>1, <3>2
      <3>4. QED BY <3>3 DEF T
    <2>4. DOMAIN b = 1 .. m + more
      BY <2>3
    <2>5. \A k \in 1 .. m : b[k] = a[k]
      BY <1>8, <2>1, <2>2
    <2>6. \A j \in 1 .. more : b[m + j] = new[j]
      BY <1>8, <2>1, <2>2
    <2>7. QED BY <1>8, <2>1, <2>3, <2>4, <2>5, <2>6
  <1> HIDE DEF b
  <1>10. DOMAIN u.top = ToSet(b)
    <2>1. ToSet(b) = {b[k] : k \in 1 .. m + more} /\ ToSet(a) = {a[k] : k \in 1 .. m}
      BY <1>2, <1>9 DEF ToSet
    <2>2. ASSUME NEW x \in DOMAIN u.top PROVE x \in ToSet(b)
      <3>1. CASE x \in D
        <4>1. PICK k \in 1 .. m : x = a[k]
          BY <1>2, <2>1, <3>1
        <4>2. k \in 1 .. m + more /\ b[k] = x
          BY <1>9, <1>8, <4>1
        <4>3. QED BY <2>1, <4>2
      <3>2. CASE x \notin D
        <4>1. PICK i \in known + 1 .. n : x = p[i]
          BY <1>4, <3>2
        <4>2. i - known \in 1 .. more /\ known + (i - known) = i /\ m + (i - known) \in 1 .. m + more
          BY <1>8, <4>1
        <4>3. b[m + (i - known)] = x
          BY <1>9, <4>1, <4>2
        <4>4. QED BY <2>1, <4>2, <4>3
      <3>3. QED BY <3>1, <3>2
    <2>3. ASSUME NEW k \in 1 .. m + more PROVE b[k] \in DOMAIN u.top
      <3>1. CASE k <= m
        <4>1. k \in 1 .. m
          BY <1>8, <3>1
        <4>2. QED BY <1>2, <1>4, <1>9, <2>1, <4>1
      <3>2. CASE ~(k <= m)
        <4>1. k - m \in 1 .. more /\ m + (k - m) = k /\ known + (k - m) \in known + 1 .. n
          BY <1>8, <3>2
        <4>2. b[k] = p[known + (k - m)]
          BY <1>9, <4>1
        <4>3. QED BY <1>4, <4>1, <4>2
      <3>3. QED BY <3>1, <3>2
    <2>4. QED BY <2>1, <2>2, <2>3
  <1>11. ASSUME NEW k \in 1 .. m + more, NEW c \in Children(u, b[k])
        PROVE \E j \in 1 .. m + more : j > k /\ b[j] = c
    <2>1. c \in DOMAIN u.top /\ Len(c) = Len(b[k]) + 1 /\ IsPrefix(b[k], c) /\ b[k] \in Seq(Nat)
      <3>1. b[k] \in Seq(Nat)
        <4> DEFINE T == Seq(Nat)
                   d == m + more
        <4>1. b \in Seq(T) /\ Len(b) = d /\ k \in 1 .. d
          BY <1>9
        <4> HIDE DEF T, d
        <4>2. b[k] \in T
          BY <4>1, ElementOfSeq
        <4>3. QED BY <4>2 DEF T
      <3>2. QED BY <1>11, <3>1 DEF Children
    <2>2. CASE k <= m /\ c \in D
      <3>1. k \in 1 .. m
        BY <1>8, <2>2
      <3>2. b[k] = a[k]
        BY <1>9, <3>1
      <3>3. c \in Children(t, a[k])
        BY <2>1, <2>2, <3>2 DEF Children, D
      <3>4. PICK j \in 1 .. m : j > k /\ a[j] = c
        BY <1>2, <3>1, <3>3
      <3>5. j \in 1 .. m + more /\ b[j] = c
        BY <1>9, <1>8, <3>4
      <3>6. QED BY <3>4, <3>5
    <2>3. CASE k <= m /\ c \notin D
      <3>1. PICK i \in known + 1 .. n : c = p[i]
        BY <1>4, <2>1, <2>3
      <3>2. /\ i - known \in 1 .. more /\ known + (i - known) = i /\ m + (i - known) \in 1 .. m + more
            /\ m + (i - known) > k
        BY <1>8, <2>3, <3>1
      <3>3. b[m + (i - known)] = c
        BY <1>9, <3>1, <3>2
      <3>4. QED BY <3>2, <3>3
    <2>4. CASE ~(k <= m)
      <3>1. /\ k - m \in 1 .. more /\ m + (k - m) = k
            /\ known + (k - m) \in known + 1 .. n /\ known + (k - m) \in 1 .. n
            /\ ~(known + (k - m) <= known)
        BY <1>8, <2>4
      <3> DEFINE i == known + (k - m)
      <3>2. b[k] = p[i]
        BY <1>9, <3>1
      <3>3. i \in 1 .. n /\ b[k] \notin D /\ Len(b[k]) = i - 1 /\ i \in Nat
        <4>1. i \in 1 .. n /\ ~(i <= known) /\ i \in Nat
          BY <1>8, <3>1
        <4> HIDE DEF i
        <4>2. QED BY <1>4, <1>6, <3>2, <4>1
      <3> HIDE DEF i
      <3>4. c \notin D
        <4> SUFFICES ASSUME c \in D PROVE FALSE
          OBVIOUS
        <4> DEFINE x == b[k]
                   l == Len(x)
        <4>1. c \in Seq(Nat) /\ \A q \in 0 .. Len(c) : SubSeq(c, 1, q) \in D
          BY <1>2 DEF Treed, D
        <4>2. l \in Nat /\ l \in 0 .. Len(c)
          BY <2>1, <3>3
        <4>3. SubSeq(c, 1, l) = SubSeq(x, 1, l)
          BY <2>1 DEF IsPrefix
        <4>4. SubSeq(x, 1, l) = x
          <5>1. x \in Seq(Nat)
            BY <2>1
          <5> HIDE DEF x
          <5>2. SubSeq(x, 1, l) \in Seq(Nat) /\ Len(SubSeq(x, 1, l)) = l /\ l = Len(x)
                /\ \A q \in 1 .. l : SubSeq(x, 1, l)[q] = x[q]
            BY <4>2, <5>1, StartIs
          <5> DEFINE s == SubSeq(x, 1, l)
          <5> HIDE DEF s
          <5>3. s \in Seq(Nat) /\ Len(s) = Len(x) /\ \A q \in 1 .. Len(s) : s[q] = x[q]
            BY <5>2 DEF s
          <5>4. s = x
            BY <5>1, <5>3, SeqEqual
          <5>5. QED BY <5>4 DEF s
        <4>5. QED BY <3>3, <4>1, <4>2, <4>3, <4>4
      <3>5. PICK g \in known + 1 .. n : c = p[g]
        BY <1>4, <2>1, <3>4
      <3>6. g \in 1 .. n /\ Len(c) = g - 1 /\ Len(c) = (i - 1) + 1
        <4>1. g \in 1 .. n
          BY <1>8
        <4>2. QED BY <1>6, <2>1, <3>3, <3>5, <4>1
      <3>7. g = i + 1
        <4>1. g \in Nat /\ i \in Nat /\ g - 1 = (i - 1) + 1
          BY <1>8, <3>3, <3>6
        <4>2. QED BY <4>1
      <3>8. (k - m) + 1 \in 1 .. more /\ known + ((k - m) + 1) = g
            /\ m + ((k - m) + 1) = k + 1 /\ k + 1 \in 1 .. m + more
        BY <1>8, <2>4, <3>7 DEF i
      <3>9. b[m + ((k - m) + 1)] = p[known + ((k - m) + 1)]
        BY <1>9, <3>8
      <3>10. b[k + 1] = c /\ k + 1 > k
        BY <3>5, <3>8, <3>9
      <3>11. QED BY <3>8, <3>10
    <2>5. QED BY <2>2, <2>3, <2>4
  <1>12. Filled(u)
    <2>1. u.entries \in Seq(Words)
      BY <1>2, <1>4
    <2>2. QED BY <1>2, <1>4, <1>9, <2>1 DEF Filled, b
  <1>13. QED BY <1>4, <1>7, <1>9, <1>10, <1>11, <1>12 DEF Grown, u, b

(* Filled in one by one, the entries make a trie that is grown.            *)
LEMMA FillingGrows ==
  ASSUME NEW entries \in Seq(Words)
  PROVE LET filled == FoldLeft(AddEntry, EmptyTrie, entries)
        IN Grown(filled) /\ filled.entries = entries
  <1> DEFINE n == Len(entries)
             G == CHOOSE G : G = [S \in SUBSET DOMAIN entries |->
                    IF S = {} THEN EmptyTrie ELSE AddEntry(G[S \ {Max(S)}], entries[Max(S)])]
             filled == FoldLeft(AddEntry, EmptyTrie, entries)
  <1>1. n \in Nat /\ DOMAIN entries = 1 .. n /\ \A k \in 1 .. n : entries[k] \in Words
    OBVIOUS
  <1>2. filled = G[DOMAIN entries]
    BY Zenon DEF FoldLeft, MapThenFoldSet
  <1>3. \E H : H = [S \in SUBSET DOMAIN entries |->
                    IF S = {} THEN EmptyTrie ELSE AddEntry(H[S \ {Max(S)}], entries[Max(S)])]
    <2>1. PICK H : Fills(entries, n, H)
      BY <1>1, FillExists
    <2>2. QED BY <1>1, <2>1 DEF Fills
  <1>4. Fills(entries, n, G)
    <2>1. G = [S \in SUBSET DOMAIN entries |->
                    IF S = {} THEN EmptyTrie ELSE AddEntry(G[S \ {Max(S)}], entries[Max(S)])]
      BY <1>3, Zenon
    <2> HIDE DEF G
    <2>2. QED BY <1>1, <2>1 DEF Fills
  <1> HIDE DEF G, filled
  <1>5. G[1 .. 0] = EmptyTrie
    <2>1. 1 .. 0 \in SUBSET (1 .. n) /\ 1 .. 0 = {}
      OBVIOUS
    <2>2. QED BY <1>4, <2>1 DEF Fills
  <1>6. ASSUME NEW k \in 1 .. n PROVE G[1 .. k] = AddEntry(G[1 .. k - 1], entries[k])
    <2>1. 1 .. k \in SUBSET (1 .. n) /\ 1 .. k # {} /\ k \in 1 .. k /\ k \in Nat \ {0}
      <3>1. n \in Nat /\ k \in 1 .. n
        BY <1>1
      <3> HIDE DEF n
      <3>2. QED BY <3>1, FirstOnes
    <2>2. Max(1 .. k) = k
      BY <2>1, MaxIsTop
    <2>3. (1 .. k) \ {k} = 1 .. k - 1
      BY <2>1
    <2>4. G[1 .. k] = AddEntry(G[(1 .. k) \ {Max(1 .. k)}], entries[Max(1 .. k)])
      BY <1>4, <2>1 DEF Fills
    <2>5. QED BY <2>2, <2>3, <2>4
  <1> DEFINE Fine(k) == LET t == G[1 .. k] IN /\ Grown(t) /\ Len(t.entries) = k
                                              /\ \A i \in 1 .. k : t.entries[i] = entries[i]
             Good == {j \in 1 .. n + 1 : Fine(j - 1)}
  <1>7. ASSUME NEW j \in 1 .. n + 1, \A i \in 1 .. j - 1 : i \in Good PROVE Fine(j - 1)
    <2>1. CASE j = 1
      <3>1. Grown(EmptyTrie) /\ EmptyTrie.entries = <<>>
        BY EmptyIsGrown
      <3>2. G[1 .. j - 1] = EmptyTrie
        BY <1>5, <2>1
      <3>3. Len(<<>>) = 0 /\ j - 1 = 0
        BY <2>1
      <3>4. QED BY <3>1, <3>2, <3>3
    <2>2. CASE j # 1
      <3> DEFINE k == j - 1
                 t == G[1 .. k - 1]
      <3>1. k \in 1 .. n /\ k \in 1 .. j - 1 /\ k \in Nat \ {0}
        BY <1>1, <2>2
      <3>2. k \in Good
        BY <1>7, <3>1
      <3>3. Fine(k - 1)
        BY <3>2
      <3> HIDE DEF k
      <3>4. G[1 .. k] = AddEntry(t, entries[k]) /\ entries[k] \in Words
        BY <1>1, <1>6, <3>1
      <3>5. /\ Grown(t) /\ Len(t.entries) = k - 1 /\ \A i \in 1 .. k - 1 : t.entries[i] = entries[i]
        BY <3>3
      <3> HIDE DEF t
      <3>6. Grown(AddEntry(t, entries[k])) /\ AddEntry(t, entries[k]).entries = Append(t.entries, entries[k])
        BY <3>4, <3>5, GrownOn
      <3>7. /\ Len(Append(t.entries, entries[k])) = k
            /\ \A i \in 1 .. k : Append(t.entries, entries[k])[i] = entries[i]
        BY <3>1, <3>4, <3>5 DEF Grown, Filled
      <3>8. Fine(k)
        BY <3>4, <3>6, <3>7
      <3>9. QED BY <3>8 DEF k
    <2>3. QED BY <2>1, <2>2
  <1>8. Fine(n)
    <2>1. \A j \in 1 .. n + 1 : (\A i \in 1 .. j - 1 : i \in Good) => j \in Good
      BY <1>7
    <2>2. Good \in SUBSET (1 .. n + 1) /\ n + 1 \in Nat /\ n + 1 \in 1 .. n + 1 /\ n + 1 - 1 = n
      BY <1>1
    <2>3. n + 1 \in Good
      <3> HIDE DEF Good, n
      <3>1. QED BY <2>1, <2>2, EveryPosition
    <2>4. Fine(n + 1 - 1)
      BY <2>3
    <2> HIDE DEF Fine
    <2>5. QED BY <2>2, <2>4
  <1>9. filled = G[1 .. n]
    BY <1>1, <1>2
  <1>10. Grown(filled) /\ Len(filled.entries) = n /\ \A i \in 1 .. n : filled.entries[i] = entries[i]
    BY <1>8, <1>9
  <1>11. filled.entries \in Seq(Words)
    BY <1>10 DEF Grown, Filled
  <1> DEFINE s == filled.entries
  <1> HIDE DEF s
  <1>12. s \in Seq(Words) /\ Len(s) = Len(entries) /\ \A i \in 1 .. Len(entries) : s[i] = entries[i]
    BY <1>10, <1>11 DEF s
  <1>13. s = entries
    BY <1>12, SeqEqual
  <1>14. QED BY <1>10, <1>13 DEF s, filled

(* A trie in which every node is right.                                    *)
Sound(t) == Treed(t) /\ <<>> \in DOMAIN t.top /\ \A x \in DOMAIN t.top : Right(t, x)

(* In a trie made of entries, which has them all, every node is right.     *)
LEMMA BuildIsRight ==
  ASSUME NEW entries \in Seq(Words)
  PROVE LET trie == BuildTrie(entries)
        IN /\ trie.entries = entries /\ DOMAIN trie = {"entries", "nodes", "top"}
           /\ Sound(trie)
  <1> DEFINE filled == FoldLeft(AddEntry, EmptyTrie, entries)
             nodes == filled.nodes
             n == Len(nodes)
             u == Rebuild(filled, nodes)
  <1>1. Grown(filled) /\ filled.entries = entries
    BY FillingGrows
  <1>2. BuildTrie(entries) = u
    BY DEF BuildTrie
  <1> HIDE DEF filled
  <1>3. DOMAIN filled = {"entries", "nodes", "top"} /\ <<>> \in DOMAIN filled.top /\ Treed(filled)
    BY <1>1 DEF Grown, Filled
  <1>4. n \in Nat /\ DOMAIN nodes = 1 .. n /\ DOMAIN filled.top = {nodes[k] : k \in 1 .. n}
    <2>1. nodes \in Seq(Seq(Nat)) /\ DOMAIN filled.top = ToSet(nodes)
      BY <1>1 DEF Grown, Filled
    <2> HIDE DEF nodes
    <2>2. n \in Nat /\ DOMAIN nodes = 1 .. n
      BY <2>1
    <2>3. QED BY <2>1, <2>2 DEF ToSet
  <1>5. Kept(u, filled)
    <2> HIDE DEF nodes
    <2>1. QED BY <1>4, RebuildKeeps
  <1>6. Listed(filled, nodes)
    <2>1. \A k \in DOMAIN nodes : \A c \in Children(filled, nodes[k]) :
            \E j \in DOMAIN nodes : j > k /\ nodes[j] = c
      BY <1>1 DEF Grown
    <2>2. \A k \in DOMAIN nodes : nodes[k] \in DOMAIN filled.top
      BY <1>4
    <2> HIDE DEF nodes
    <2>3. QED BY <2>1, <2>2 DEF Listed
  <1>7. Sound(u)
    <2>1. Keyed(filled)
      BY <1>1 DEF Keyed
    <2> HIDE DEF nodes, n
    <2>2. /\ Like(u, filled)
          /\ \A x \in DOMAIN filled.top : Right(filled, x) \/ (\E j \in 1 .. n : nodes[j] = x) => Right(u, x)
      <3>1. "top" \in DOMAIN filled
        BY <1>3
      <3> HIDE DEF u
      <3>2. QED BY <1>3, <1>4, <1>6, <2>1, <3>1, RebuildIsRight DEF u
    <2> HIDE DEF u
    <2>3. Treed(u) /\ DOMAIN u.top = DOMAIN filled.top
      <3>1. DOMAIN u.top = DOMAIN filled.top
        BY <2>2 DEF Like
      <3>2. QED BY <1>3, <2>1, <2>2, <3>1, LikeKeeps
    <2>4. \A x \in DOMAIN u.top : Right(u, x)
      BY <1>4, <2>2, <2>3
    <2>5. QED BY <1>3, <2>3, <2>4 DEF Sound
  <1> HIDE DEF u, nodes
  <1>8. u.entries = entries /\ DOMAIN u = {"entries", "nodes", "top"}
    BY <1>1, <1>3, <1>5 DEF Kept
  <1>9. QED BY <1>2, <1>7, <1>8

-----------------------------------------------------------------------------
(* The way a cut leads through a reading *)

Ways == [score : Int, pos : PartsOfSpeech, cut : Seq(Nat)]

(* What the segment from start up to end counts after a word of part of    *)
(* speech pos.                                                             *)
Scored(d, reading, start, end, pos) ==
  ScoreSegmentReading(d, SubSeq(reading, start, end - 1), end > Len(reading), pos)

(* All the program needs to know of the scores.                            *)
Scorable(d, reading) ==
  /\ Len(reading) \in Nat \ {0} /\ d.pos \in PartsOfSpeech
  /\ \A start \in 1 .. Len(reading) : \A end \in start + 1 .. Len(reading) + 1 :
       \A pos \in PartsOfSpeech :
         /\ Scored(d, reading, start, end, pos).score \in Int
         /\ Scored(d, reading, start, end, pos).pos \in PartsOfSpeech

Begun(d) == [score |-> 0, pos |-> d.pos, cut |-> <<1>>]

(* A cut of the reading up to end.                                         *)
Partial(reading, end) ==
  {cut \in Seq(1 .. Len(reading) + 1) :
     /\ cut # <<>> /\ cut[1] = 1 /\ cut[Len(cut)] = end
     /\ \A i \in 1 .. Len(cut) - 1 : MayBeSegment(reading, cut[i], cut[i + 1])}

(* F is what the program comes to along a cut, segment by segment.         *)
Walks(d, reading, cut, F) ==
  F = [i \in 1 .. Len(cut) |->
         IF i = 1 THEN Begun(d) ELSE Step(d, reading, F[i - 1], cut[i])]

(* A step keeps the type of a way, and goes on from where the way ends.    *)
LEMMA StepIs ==
  ASSUME NEW d, NEW reading, Scorable(d, reading), NEW w \in Ways, w.cut # <<>>,
         NEW start \in 1 .. Len(reading), Last(w.cut) = start,
         NEW end \in start + 1 .. Len(reading) + 1
  PROVE /\ Step(d, reading, w, end) \in Ways
        /\ Step(d, reading, w, end).cut = Append(w.cut, end)
        /\ Step(d, reading, w, end).pos = Scored(d, reading, start, end, w.pos).pos
        /\ Step(d, reading, w, end).score = w.score + Scored(d, reading, start, end, w.pos).score
        /\ Step(d, reading, w, end).cut # <<>> /\ Last(Step(d, reading, w, end).cut) = end
  <1> DEFINE scored == Scored(d, reading, start, end, w.pos)
             u == Step(d, reading, w, end)
  <1>1. u = [score |-> w.score + scored.score, pos |-> scored.pos, cut |-> Append(w.cut, end)]
    BY DEF Step, Scored
  <1>2. w.score \in Int /\ w.pos \in PartsOfSpeech /\ w.cut \in Seq(Nat)
    BY DEF Ways
  <1>3. scored.score \in Int /\ scored.pos \in PartsOfSpeech
    BY <1>2 DEF Scorable
  <1> HIDE DEF scored
  <1>4. end \in Nat
    OBVIOUS
  <1>5. /\ Append(w.cut, end) \in Seq(Nat) /\ Append(w.cut, end) # <<>>
        /\ Last(Append(w.cut, end)) = end
    BY <1>2, <1>4 DEF Last
  <1>6. w.score + scored.score \in Int
    BY <1>2, <1>3
  <1>7. QED BY <1>1, <1>3, <1>5, <1>6 DEF Ways, scored

(* The way every cut starts with.                                          *)
LEMMA BegunIs ==
  ASSUME NEW d, NEW reading, Scorable(d, reading)
  PROVE Begun(d) \in Ways /\ Begun(d).cut = <<1>> /\ Begun(d).score = 0 /\ Begun(d).pos = d.pos
  BY DEF Begun, Ways, Scorable

(* The positions of a partial cut.                                         *)
LEMMA PartialIs ==
  ASSUME NEW reading, Len(reading) \in Nat \ {0}, NEW end, NEW cut \in Partial(reading, end)
  PROVE /\ Len(cut) \in Nat \ {0} /\ cut[1] = 1 /\ cut[Len(cut)] = end
        /\ cut \in Seq(Nat) /\ cut \in Seq(1 .. Len(reading) + 1) /\ end \in 1 .. Len(reading) + 1
        /\ \A i \in 2 .. Len(cut) :
             /\ i - 1 \in 1 .. Len(cut) /\ cut[i - 1] \in 1 .. Len(reading)
             /\ cut[i] \in cut[i - 1] + 1 .. Len(reading) + 1
             /\ MayBeSegment(reading, cut[i - 1], cut[i])
  <1>1. cut \in Seq(1 .. Len(reading) + 1) /\ Len(cut) \in Nat /\ cut # <<>> /\ Len(cut) # 0
    BY DEF Partial
  <1>2. cut \in Seq(Nat)
    <2>1. 1 .. Len(reading) + 1 \subseteq Nat
      OBVIOUS
    <2>2. QED BY <1>1, <2>1
  <1>3. \A i \in 1 .. Len(cut) : cut[i] \in 1 .. Len(reading) + 1
    BY <1>1
  <1>4. ASSUME NEW i \in 2 .. Len(cut)
        PROVE /\ i - 1 \in 1 .. Len(cut) /\ cut[i - 1] \in 1 .. Len(reading)
              /\ cut[i] \in cut[i - 1] + 1 .. Len(reading) + 1
              /\ MayBeSegment(reading, cut[i - 1], cut[i])
    <2>1. i - 1 \in 1 .. Len(cut) - 1 /\ (i - 1) + 1 = i /\ i \in 1 .. Len(cut)
      BY <1>1
    <2>2. MayBeSegment(reading, cut[i - 1], cut[i])
      BY <2>1 DEF Partial
    <2>3. cut[i - 1] < cut[i]
      BY <2>2 DEF MayBeSegment
    <2>4. cut[i - 1] \in 1 .. Len(reading) + 1 /\ cut[i] \in 1 .. Len(reading) + 1
      BY <1>1, <1>3, <2>1
    <2>5. QED BY <1>1, <2>1, <2>2, <2>3, <2>4
  <1>5. cut[1] = 1 /\ cut[Len(cut)] = end
    BY DEF Partial
  <1>6. end \in 1 .. Len(reading) + 1
    BY <1>1, <1>3, <1>5
  <1>7. QED BY <1>1, <1>2, <1>4, <1>5, <1>6

(* Along a cut there is one walk.                                          *)
LEMMA WalkIs ==
  ASSUME NEW d, NEW reading, Scorable(d, reading), NEW end, NEW cut \in Partial(reading, end),
         NEW F, Walks(d, reading, cut, F)
  PROVE \A i \in 1 .. Len(cut) : F[i] \in Ways /\ F[i].cut # <<>> /\ Last(F[i].cut) = cut[i]
  <1> DEFINE n == Len(cut)
             Fine(i) == F[i] \in Ways /\ F[i].cut # <<>> /\ Last(F[i].cut) = cut[i]
             Good == {i \in 1 .. n : Fine(i)}
  <1>1. Len(reading) \in Nat \ {0}
    BY DEF Scorable
  <1>2. n \in Nat \ {0} /\ cut[1] = 1
    BY <1>1, PartialIs
  <1>3. ASSUME NEW k \in 1 .. n, \A j \in 1 .. k - 1 : j \in Good PROVE Fine(k)
    <2>1. CASE k = 1
      <3>1. F[1] = Begun(d)
        BY <1>2, <2>1 DEF Walks
      <3>2. <<1>> # <<>> /\ Last(<<1>>) = 1
        BY DEF Last
      <3>3. QED BY <1>2, <2>1, <3>1, <3>2, BegunIs
    <2>2. CASE k # 1
      <3>1. k \in 2 .. n /\ k - 1 \in 1 .. k - 1
        BY <1>2, <2>2
      <3>2. Fine(k - 1)
        BY <1>3, <3>1
      <3>3. cut[k - 1] \in 1 .. Len(reading) /\ cut[k] \in cut[k - 1] + 1 .. Len(reading) + 1
        BY <1>1, <3>1, PartialIs
      <3>4. F[k] = Step(d, reading, F[k - 1], cut[k])
        BY <2>2 DEF Walks
      <3>5. QED BY <3>2, <3>3, <3>4, StepIs
    <2>3. QED BY <2>1, <2>2
  <1>4. \A k \in 1 .. n : k \in Good
    <2> HIDE DEF Fine
    <2>1. \A k \in 1 .. n : (\A j \in 1 .. k - 1 : j \in Good) => k \in Good
      BY <1>3
    <2>2. Good \in SUBSET (1 .. n) /\ n \in Nat
      BY <1>2
    <2> HIDE DEF Good, n
    <2>3. QED BY <2>1, <2>2, EveryPosition
  <1>5. QED BY <1>4

(* Every cut is walked,                                                    *)
LEMMA WalkExists ==
  ASSUME NEW d, NEW reading, NEW cut, Len(cut) \in Nat
  PROVE \E F : Walks(d, reading, cut, F)
  <1> DEFINE At1(F, i) == IF i = 1 THEN Begun(d) ELSE Step(d, reading, F[i - 1], cut[i])
             Is(F, k) == F = [i \in 1 .. k |-> At1(F, i)]
             Bad == {k \in Nat : ~\E F : Is(F, k)}
  <1>1. ASSUME Bad # {} PROVE FALSE
    <2>1. PICK k \in Bad : \A j \in Bad : k <= j
      <3>1. Bad \in SUBSET Nat
        OBVIOUS
      <3> HIDE DEF Bad
      <3>2. QED BY <1>1, <3>1, LeastNumber
    <2>2. k \in Nat /\ ~\E F : Is(F, k)
      BY <2>1
    <2>3. CASE k = 0
      <3>1. \A F : [i \in 1 .. k |-> At1(F, i)] = [i \in {} |-> 0]
        BY <2>3
      <3>2. Is([i \in {} |-> 0], k)
        BY <3>1
      <3>3. QED BY <2>2, <3>2
    <2>4. CASE k # 0
      <3>1. k - 1 \in Nat /\ ~(k <= k - 1)
        BY <2>2, <2>4
      <3>2. PICK F : Is(F, k - 1)
        BY <2>1, <3>1
      <3> DEFINE H == [i \in 1 .. k |-> IF i < k THEN F[i] ELSE At1(F, k)]
      <3>3. \A i \in 1 .. k - 1 : H[i] = F[i]
        BY <2>2
      <3>4. H[k] = At1(F, k)
        BY <2>2, <2>4
      <3>5. H = [i \in 1 .. k |-> H[i]]
        OBVIOUS
      <3> HIDE DEF H
      <3>6. ASSUME NEW i \in 1 .. k PROVE H[i] = At1(H, i)
        <4>1. i # 1 => H[i - 1] = F[i - 1]
          BY <3>3
        <4>2. At1(H, i) = At1(F, i)
          BY <4>1
        <4>3. H[i] = At1(F, i)
          <5>1. CASE i = k
            BY <3>4, <5>1
          <5>2. CASE i # k
            <6>1. i \in 1 .. k - 1
              BY <2>2, <5>2
            <6>2. F[i] = At1(F, i)
              BY <3>2, <6>1
            <6>3. QED BY <3>3, <6>1, <6>2
          <5>3. QED BY <5>1, <5>2
        <4>4. QED BY <4>2, <4>3
      <3>7. [i \in 1 .. k |-> H[i]] = [i \in 1 .. k |-> At1(H, i)]
        BY <3>6
      <3>8. Is(H, k)
        BY <3>5, <3>7
      <3>9. QED BY <2>2, <3>8
    <2>5. QED BY <2>3, <2>4
  <1>2. QED BY <1>1 DEF Walks

(* and in one way only.                                                    *)
LEMMA WalkIsOne ==
  ASSUME NEW d, NEW reading, NEW cut, Len(cut) \in Nat,
         NEW F, Walks(d, reading, cut, F), NEW G, Walks(d, reading, cut, G)
  PROVE \A i \in 1 .. Len(cut) : F[i] = G[i]
  <1> DEFINE n == Len(cut)
             Good == {i \in 1 .. n : F[i] = G[i]}
  <1>1. ASSUME NEW k \in 1 .. n, \A j \in 1 .. k - 1 : j \in Good PROVE F[k] = G[k]
    <2>1. /\ F[k] = IF k = 1 THEN Begun(d) ELSE Step(d, reading, F[k - 1], cut[k])
          /\ G[k] = IF k = 1 THEN Begun(d) ELSE Step(d, reading, G[k - 1], cut[k])
      BY DEF Walks
    <2>2. k # 1 => F[k - 1] = G[k - 1]
      <3>1. k # 1 => k - 1 \in 1 .. k - 1
        OBVIOUS
      <3>2. QED BY <1>1, <3>1
    <2>3. QED BY <2>1, <2>2
  <1>2. \A k \in 1 .. n : k \in Good
    <2>1. \A k \in 1 .. n : (\A j \in 1 .. k - 1 : j \in Good) => k \in Good
      BY <1>1
    <2>2. Good \in SUBSET (1 .. n) /\ n \in Nat
      OBVIOUS
    <2> HIDE DEF Good, n
    <2>3. QED BY <2>1, <2>2, EveryPosition
  <1>3. QED BY <1>2

(* What a cut counts is the score of its walk at its end.                  *)
LEMMA TotalIs ==
  ASSUME NEW d, NEW reading, NEW cut, Len(cut) \in Nat \ {0}, NEW F, Walks(d, reading, cut, F)
  PROVE Total(d, reading, cut) = F[Len(cut)].score
  <1> DEFINE Next1(f) == [i \in 1 .. Len(cut) |->
                           IF i = 1 THEN [score |-> 0, pos |-> d.pos, cut |-> <<1>>]
                           ELSE Step(d, reading, f[i - 1], cut[i])]
             G == CHOOSE f : f = Next1(f)
  <1>1. F = Next1(F)
    BY DEF Walks, Begun
  <1>2. G = Next1(G)
    BY <1>1
  <1>3. Total(d, reading, cut) = G[Len(cut)].score
    BY DEF Total
  <1> HIDE DEF G
  <1>4. Walks(d, reading, cut, G)
    BY <1>2 DEF Walks, Begun
  <1>5. Len(cut) \in 1 .. Len(cut)
    OBVIOUS
  <1>6. F[Len(cut)] = G[Len(cut)]
    BY <1>4, <1>5, WalkIsOne
  <1>7. QED BY <1>3, <1>6

(* A cut without its last segment, and its walk.                           *)
LEMMA WalkBack ==
  ASSUME NEW d, NEW reading, Scorable(d, reading), NEW end, NEW cut \in Partial(reading, end),
         NEW F, Walks(d, reading, cut, F), Len(cut) # 1
  PROVE \E k \in 1 .. Len(cut) : \E front, G :
          /\ front \in Partial(reading, cut[k]) /\ Len(front) = k
          /\ Walks(d, reading, front, G) /\ G[k] = F[k]
          /\ cut[k] \in 1 .. Len(reading) /\ end \in cut[k] + 1 .. Len(reading) + 1
          /\ MayBeSegment(reading, cut[k], end) /\ F[Len(cut)] = Step(d, reading, F[k], end)
  <1> DEFINE k == Len(cut) - 1
             G == [i \in 1 .. k |-> F[i]]
             front == SubSeq(cut, 1, k)
  <1>1. Len(reading) \in Nat \ {0}
    BY DEF Scorable
  <1>2. /\ Len(cut) \in Nat \ {0} /\ cut[1] = 1 /\ cut[Len(cut)] = end
        /\ cut \in Seq(1 .. Len(reading) + 1)
    BY <1>1, PartialIs
  <1>3. k \in Nat \ {0} /\ k \in 1 .. Len(cut) /\ Len(cut) \in 2 .. Len(cut) /\ k + 1 = Len(cut)
    <2> DEFINE len == Len(cut)
    <2>1. len \in Nat \ {0} /\ len # 1
      BY <1>2
    <2> HIDE DEF len
    <2>2. len - 1 \in Nat \ {0} /\ len - 1 \in 1 .. len /\ len \in 2 .. len /\ len - 1 + 1 = len
      BY <2>1
    <2>3. QED BY <2>2 DEF len
  <1>4. /\ cut[k] \in 1 .. Len(reading) /\ end \in cut[k] + 1 .. Len(reading) + 1
        /\ MayBeSegment(reading, cut[k], end)
    BY <1>1, <1>2, <1>3, PartialIs
  <1>5. front \in Seq(1 .. Len(reading) + 1) /\ Len(front) = k /\ \A i \in 1 .. k : front[i] = cut[i]
    BY <1>2, <1>3
  <1>6. front \in Partial(reading, cut[k])
    <2>1. front # <<>> /\ front[1] = 1 /\ front[Len(front)] = cut[k]
      BY <1>2, <1>3, <1>5
    <2>2. ASSUME NEW i \in 1 .. Len(front) - 1 PROVE MayBeSegment(reading, front[i], front[i + 1])
      <3>1. i \in 1 .. k /\ i + 1 \in 1 .. k /\ i \in 1 .. Len(cut) - 1
        BY <1>3, <1>5
      <3>2. MayBeSegment(reading, cut[i], cut[i + 1])
        BY <3>1 DEF Partial
      <3>3. QED BY <1>5, <3>1, <3>2
    <2> HIDE DEF front, k
    <2>3. QED BY <1>5, <2>1, <2>2 DEF Partial
  <1>7. F[Len(cut)] = Step(d, reading, F[k], end)
    <2> DEFINE len == Len(cut)
    <2>1. len \in 1 .. len /\ len # 1 /\ len - 1 = k /\ cut[len] = end
      BY <1>2, <1>3
    <2>2. F = [i \in 1 .. len |-> IF i = 1 THEN Begun(d) ELSE Step(d, reading, F[i - 1], cut[i])]
      BY DEF Walks
    <2> HIDE DEF len, k
    <2>3. F[len] = Step(d, reading, F[k], end)
      BY <2>1, <2>2
    <2>4. QED BY <2>3 DEF len
  <1>8. Walks(d, reading, front, G)
    <2>1. ASSUME NEW i \in 1 .. k
          PROVE G[i] = IF i = 1 THEN Begun(d) ELSE Step(d, reading, G[i - 1], front[i])
      <3>1. F[i] = IF i = 1 THEN Begun(d) ELSE Step(d, reading, F[i - 1], cut[i])
        BY <1>3 DEF Walks
      <3>2. i # 1 => i - 1 \in 1 .. k
        BY <1>3
      <3>3. G[i] = F[i] /\ (i # 1 => G[i - 1] = F[i - 1])
        BY <3>2
      <3>4. front[i] = cut[i]
        BY <1>5
      <3> HIDE DEF G, front
      <3>5. QED BY <3>1, <3>3, <3>4
    <2>2. G = [i \in 1 .. k |-> G[i]]
      OBVIOUS
    <2> HIDE DEF G, front, k
    <2>3. G = [i \in 1 .. Len(front) |->
                 IF i = 1 THEN Begun(d) ELSE Step(d, reading, G[i - 1], front[i])]
      BY <1>5, <2>1, <2>2
    <2>4. QED BY <2>3 DEF Walks
  <1>9. G[k] = F[k]
    BY <1>3
  <1> HIDE DEF k, G, front
  <1>10. QED BY <1>3, <1>4, <1>5, <1>6, <1>7, <1>8, <1>9

(* A cut with one segment more, and its walk.                              *)
LEMMA WalkOn ==
  ASSUME NEW d, NEW reading, Scorable(d, reading), NEW start, NEW cut \in Partial(reading, start),
         NEW F, Walks(d, reading, cut, F), NEW end \in 1 .. Len(reading) + 1,
         MayBeSegment(reading, start, end)
  PROVE LET on == Append(cut, end)
        IN /\ on \in Partial(reading, end)
           /\ \E G : /\ Walks(d, reading, on, G)
                     /\ G[Len(on)] = Step(d, reading, F[Len(cut)], end)
  <1> DEFINE n == Len(cut)
             on == Append(cut, end)
             G == [i \in 1 .. n + 1 |-> IF i = n + 1 THEN Step(d, reading, F[n], end) ELSE F[i]]
  <1>1. Len(reading) \in Nat \ {0}
    BY DEF Scorable
  <1>2. n \in Nat \ {0} /\ cut \in Seq(1 .. Len(reading) + 1) /\ cut[1] = 1 /\ cut[n] = start
    BY <1>1, PartialIs
  <1>3. /\ on \in Seq(1 .. Len(reading) + 1) /\ Len(on) = n + 1 /\ on[n + 1] = end
        /\ \A i \in 1 .. n : on[i] = cut[i]
    BY <1>2
  <1>4. on \in Partial(reading, end)
    <2>1. on # <<>> /\ on[1] = 1 /\ on[Len(on)] = end
      BY <1>2, <1>3
    <2>2. ASSUME NEW i \in 1 .. Len(on) - 1 PROVE MayBeSegment(reading, on[i], on[i + 1])
      <3>1. CASE i = n
        <4>1. on[i] = start /\ on[i + 1] = end
          BY <1>2, <1>3, <3>1
        <4>2. QED BY <4>1
      <3>2. CASE i # n
        <4>1. i \in 1 .. n - 1 /\ i \in 1 .. n /\ i + 1 \in 1 .. n
          BY <1>2, <1>3, <3>2
        <4>2. MayBeSegment(reading, cut[i], cut[i + 1])
          BY <4>1 DEF Partial
        <4>3. QED BY <1>3, <4>1, <4>2
      <3>3. QED BY <3>1, <3>2
    <2> HIDE DEF on
    <2>3. QED BY <1>3, <2>1, <2>2 DEF Partial
  <1>5. ASSUME NEW i \in 1 .. n + 1
        PROVE G[i] = IF i = 1 THEN Begun(d) ELSE Step(d, reading, G[i - 1], on[i])
    <2>1. CASE i = n + 1
      <3>1. i # 1 /\ i - 1 = n /\ n \in 1 .. n + 1 /\ n # n + 1 /\ on[i] = end
        BY <1>2, <1>3, <2>1
      <3>2. G[i] = Step(d, reading, F[n], end) /\ G[n] = F[n]
        BY <2>1, <3>1
      <3> HIDE DEF G, on
      <3>3. QED BY <3>1, <3>2
    <2>2. CASE i # n + 1
      <3>1. i \in 1 .. n /\ (i # 1 => i - 1 \in 1 .. n + 1 /\ i - 1 # n + 1)
        BY <1>2, <2>2
      <3>2. G[i] = F[i] /\ (i # 1 => G[i - 1] = F[i - 1]) /\ on[i] = cut[i]
        BY <1>3, <2>2, <3>1
      <3>3. F[i] = IF i = 1 THEN Begun(d) ELSE Step(d, reading, F[i - 1], cut[i])
        BY <3>1 DEF Walks
      <3> HIDE DEF G, on
      <3>4. QED BY <3>2, <3>3
    <2>3. QED BY <2>1, <2>2
  <1>6. G = [i \in 1 .. n + 1 |-> G[i]] /\ G[n + 1] = Step(d, reading, F[n], end)
    BY <1>2
  <1> HIDE DEF G, on
  <1>7. Walks(d, reading, on, G) /\ G[Len(on)] = Step(d, reading, F[n], end)
    <2>1. [i \in 1 .. n + 1 |-> G[i]]
            = [i \in 1 .. n + 1 |-> IF i = 1 THEN Begun(d) ELSE Step(d, reading, G[i - 1], on[i])]
      BY <1>5
    <2>2. QED BY <1>3, <1>6, <2>1 DEF Walks
  <1>8. QED BY <1>4, <1>7 DEF on

-----------------------------------------------------------------------------
(* The program *)

Begins(reading, end) == {s \in 1 .. end - 1 : MayBeSegment(reading, s, end)}
Led(d, reading, ways, end) == {Step(d, reading, w, end) : w \in ways}
ReachedAt(d, reading, R, end) ==
  IF end = 1 THEN {Begun(d)}
  ELSE BestPerState(UNION {Led(d, reading, R[start], end) : start \in Begins(reading, end)})

(* What is reached at a position depends on the positions before it.       *)
LEMMA SameReached ==
  ASSUME NEW d, NEW reading, NEW end \in Nat, NEW R, NEW T, \A i \in 1 .. end - 1 : R[i] = T[i]
  PROVE ReachedAt(d, reading, R, end) = ReachedAt(d, reading, T, end)
  <1>1. \A start \in Begins(reading, end) : R[start] = T[start]
    BY DEF Begins
  <1>2. {Led(d, reading, R[start], end) : start \in Begins(reading, end)}
          = {Led(d, reading, T[start], end) : start \in Begins(reading, end)}
    BY <1>1
  <1>3. QED BY <1>2 DEF ReachedAt

(* The program has ways for every end.                                     *)
LEMMA StatesExist ==
  ASSUME NEW d, NEW reading, NEW n \in Nat
  PROVE \E R : R = [end \in 1 .. n |-> ReachedAt(d, reading, R, end)]
  <1> DEFINE Is(R, k) == R = [end \in 1 .. k |-> ReachedAt(d, reading, R, end)]
             Bad == {k \in Nat : ~\E R : Is(R, k)}
  <1>1. ASSUME Bad # {} PROVE FALSE
    <2>1. PICK k \in Bad : \A j \in Bad : k <= j
      <3>1. Bad \in SUBSET Nat
        OBVIOUS
      <3> HIDE DEF Bad
      <3>2. QED BY <1>1, <3>1, LeastNumber
    <2>2. k \in Nat /\ ~\E R : Is(R, k)
      BY <2>1
    <2>3. CASE k = 0
      <3>1. \A R : [end \in 1 .. k |-> ReachedAt(d, reading, R, end)] = [end \in {} |-> 0]
        BY <2>3
      <3>2. Is([end \in {} |-> 0], k)
        BY <3>1
      <3>3. QED BY <2>2, <3>2
    <2>4. CASE k # 0
      <3>1. k - 1 \in Nat /\ ~(k <= k - 1)
        BY <2>2, <2>4
      <3>2. PICK R : Is(R, k - 1)
        BY <2>1, <3>1
      <3> DEFINE H == [i \in 1 .. k |-> IF i < k THEN R[i] ELSE ReachedAt(d, reading, R, k)]
      <3>3. \A i \in 1 .. k - 1 : H[i] = R[i]
        BY <2>2
      <3>4. H[k] = ReachedAt(d, reading, R, k)
        BY <2>2, <2>4
      <3>5. H = [i \in 1 .. k |-> H[i]]
        OBVIOUS
      <3> HIDE DEF H
      <3>6. ASSUME NEW i \in 1 .. k PROVE H[i] = ReachedAt(d, reading, H, i)
        <4>1. i \in Nat /\ \A j \in 1 .. i - 1 : R[j] = H[j]
          BY <2>2, <3>3
        <4>2. ReachedAt(d, reading, R, i) = ReachedAt(d, reading, H, i)
          BY <4>1, SameReached
        <4>3. H[i] = ReachedAt(d, reading, R, i)
          <5>1. CASE i = k
            BY <3>4, <5>1
          <5>2. CASE i # k
            <6>1. i \in 1 .. k - 1
              BY <2>2, <5>2
            <6>2. R = [end \in 1 .. k - 1 |-> ReachedAt(d, reading, R, end)]
              BY <3>2
            <6>3. R[i] = ReachedAt(d, reading, R, i)
              BY <6>1, <6>2
            <6>4. QED BY <3>3, <6>1, <6>3
          <5>3. QED BY <5>1, <5>2
        <4>4. QED BY <4>2, <4>3
      <3>7. [i \in 1 .. k |-> H[i]] = [i \in 1 .. k |-> ReachedAt(d, reading, H, i)]
        BY <3>6
      <3>8. Is(H, k)
        BY <3>5, <3>7
      <3>9. QED BY <2>2, <3>8
    <2>5. QED BY <2>3, <2>4
  <1>2. QED BY <1>1

(* Its ways for the end of the reading are the last of those.              *)
LEMMA StatesAre ==
  ASSUME NEW d, NEW reading, Len(reading) \in Nat
  PROVE \E R : /\ States(d, reading) = R[Len(reading) + 1]
               /\ \A end \in 1 .. Len(reading) + 1 : R[end] = ReachedAt(d, reading, R, end)
  <1> DEFINE n == Len(reading) + 1
             R == CHOOSE R : R = [end \in 1 .. n |-> ReachedAt(d, reading, R, end)]
  <1>1. n \in Nat
    OBVIOUS
  <1>2. \E S : S = [end \in 1 .. n |-> ReachedAt(d, reading, S, end)]
    BY <1>1, StatesExist
  <1>3. R = [end \in 1 .. n |-> ReachedAt(d, reading, R, end)]
    BY <1>2, Zenon
  <1>4. States(d, reading) = R[n]
    BY DEF States, ReachedAt, Led, Begins, Begun
  <1> HIDE DEF R
  <1>5. \A end \in 1 .. n : R[end] = ReachedAt(d, reading, R, end)
    BY <1>3
  <1>6. QED BY <1>4, <1>5

(* Of the ways into one state one is kept that is as good as any.          *)
LEMMA BestIsKept ==
  ASSUME NEW ways \in SUBSET Ways, IsFiniteSet(ways), NEW u \in ways
  PROVE \E w \in BestPerState(ways) : w.pos = u.pos /\ u.score <= w.score
  <1> DEFINE same == {w \in ways : w.pos = u.pos}
             score == [w \in same |-> w.score]
             scores == {score[w] : w \in same}
  <1>1. IsFiniteSet(same)
    <2>1. same \in SUBSET ways
      OBVIOUS
    <2>2. QED BY <2>1, FS_Subset
  <1>2. \A w \in ways : w.score \in Int
    BY DEF Ways
  <1>3. IsFiniteSet(scores)
    <2> HIDE DEF same, score
    <2>1. QED BY <1>1, ImageIsFinite
  <1>4. scores \in SUBSET Int /\ scores # {}
    <2>1. u \in same /\ \A w \in same : score[w] = w.score /\ w \in ways
      OBVIOUS
    <2> HIDE DEF same, score
    <2>2. QED BY <1>2, <2>1
  <1>5. PICK most \in scores : \A y \in scores : y <= most
    <2> HIDE DEF scores
    <2>1. QED BY <1>3, <1>4, GreatestNumber
  <1>6. PICK w \in same : most = score[w]
    BY <1>5
  <1>7. \A v \in same : v.score <= w.score
    <2>1. \A v \in same : score[v] \in scores
      OBVIOUS
    <2>2. \A v \in same : score[v] <= score[w]
      BY <1>5, <1>6, <2>1
    <2>3. QED BY <2>2
  <1>8. w \in BestPerState(ways)
    BY <1>7 DEF BestPerState
  <1>9. QED BY <1>7, <1>8

(* All that is reached at a position, and what it is there for: every way  *)
(* is the walk of a cut, and no cut's walk is better than all of them.     *)
Walked(d, reading, end, w) ==
  /\ w \in Ways /\ w.cut \in Partial(reading, end)
  /\ \E F : Walks(d, reading, w.cut, F) /\ F[Len(w.cut)] = w
Matched(d, reading, end, ways) ==
  \A cut \in Partial(reading, end) : \A F : Walks(d, reading, cut, F) =>
    \E w \in ways : w.pos = F[Len(cut)].pos /\ F[Len(cut)].score <= w.score
Solved(d, reading, end, ways) ==
  /\ IsFiniteSet(ways) /\ \A w \in ways : Walked(d, reading, end, w)
  /\ Matched(d, reading, end, ways)

(* At the start the only way is the best.                                  *)
LEMMA SolvedAtStart ==
  ASSUME NEW d, NEW reading, Scorable(d, reading)
  PROVE Solved(d, reading, 1, {Begun(d)})
  <1> DEFINE b == Begun(d)
             F == [i \in 1 .. 1 |-> b]
  <1>1. b \in Ways /\ b.cut = <<1>> /\ Len(reading) \in Nat \ {0} /\ b.score \in Int
    <2>1. b \in Ways /\ b.cut = <<1>> /\ b.score = 0
      BY BegunIs
    <2>2. Len(reading) \in Nat \ {0}
      BY DEF Scorable
    <2> HIDE DEF b
    <2>3. QED BY <2>1, <2>2
  <1>2. <<1>> \in Partial(reading, 1)
    <2>1. <<1>> \in Seq(1 .. Len(reading) + 1) /\ Len(<<1>>) = 1 /\ <<1>>[1] = 1 /\ <<1>> # <<>>
      <3>1. 1 \in 1 .. Len(reading) + 1
        BY <1>1
      <3>2. QED BY <3>1
    <2>2. QED BY <2>1 DEF Partial
  <1>3. Walks(d, reading, b.cut, F) /\ F[Len(b.cut)] = b
    <2>1. Len(b.cut) = 1
      BY <1>1
    <2>2. F = [i \in 1 .. 1 |-> IF i = 1 THEN Begun(d) ELSE Step(d, reading, F[i - 1], b.cut[i])]
      OBVIOUS
    <2> HIDE DEF F, b
    <2>3. Walks(d, reading, b.cut, F)
      BY <2>1, <2>2 DEF Walks
    <2>4. QED BY <2>1, <2>3 DEF F
  <1>4. Walked(d, reading, 1, b)
    <2> HIDE DEF F, b
    <2>1. QED BY <1>1, <1>2, <1>3 DEF Walked
  <1>5. ASSUME NEW cut \in Partial(reading, 1), NEW G, Walks(d, reading, cut, G)
        PROVE G[Len(cut)] = b
    <2>1. /\ Len(cut) \in Nat \ {0} /\ cut[Len(cut)] = 1
          /\ \A i \in 2 .. Len(cut) : cut[i - 1] \in 1 .. Len(reading)
                                        /\ cut[i] \in cut[i - 1] + 1 .. Len(reading) + 1
      BY <1>1, PartialIs
    <2>2. Len(cut) = 1
      <3>1. ASSUME Len(cut) # 1 PROVE FALSE
        <4> DEFINE len == Len(cut)
        <4>1. len \in 2 .. len
          <5>1. len \in Nat \ {0} /\ len # 1
            BY <2>1, <3>1
          <5> HIDE DEF len
          <5>2. QED BY <5>1
        <4>2. cut[len - 1] \in 1 .. Len(reading) /\ 1 \in cut[len - 1] + 1 .. Len(reading) + 1
          BY <2>1, <4>1
        <4>3. QED BY <1>1, <4>2
      <3>2. QED BY <3>1
    <2>3. 1 \in 1 .. Len(cut)
      BY <2>2
    <2>4. G[1] = Begun(d)
      BY <1>5, <2>3 DEF Walks
    <2>5. QED BY <2>2, <2>4
  <1>6. Matched(d, reading, 1, {b})
    <2> HIDE DEF b
    <2>1. QED BY <1>1, <1>5 DEF Matched
  <1>7. IsFiniteSet({b})
    BY FS_Singleton
  <1>8. QED BY <1>4, <1>6, <1>7 DEF Solved

(* If the ways to every earlier end are the best ones, so are those led    *)
(* on from them to this end.                                               *)
LEMMA SolvedOn ==
  ASSUME NEW d, NEW reading, Scorable(d, reading), NEW R, NEW end \in 2 .. Len(reading) + 1,
         \A start \in 1 .. end - 1 : Solved(d, reading, start, R[start])
  PROVE Solved(d, reading, end, ReachedAt(d, reading, R, end))
  <1> DEFINE led == {Led(d, reading, R[start], end) : start \in Begins(reading, end)}
             ways == UNION led
             kept == BestPerState(ways)
  <1>1. Len(reading) \in Nat \ {0} /\ end # 1
    BY DEF Scorable
  <1>2. ReachedAt(d, reading, R, end) = kept
    BY <1>1 DEF ReachedAt
  <1>3. ASSUME NEW start \in Begins(reading, end), NEW v \in R[start]
        PROVE LET u == Step(d, reading, v, end)
              IN /\ Walked(d, reading, end, u) /\ u \in ways
                 /\ u.pos = Scored(d, reading, start, end, v.pos).pos
                 /\ u.score = v.score + Scored(d, reading, start, end, v.pos).score
    <2> DEFINE u == Step(d, reading, v, end)
    <2>1. start \in 1 .. end - 1 /\ MayBeSegment(reading, start, end)
      BY DEF Begins
    <2>2. /\ start \in 1 .. Len(reading) /\ end \in start + 1 .. Len(reading) + 1
          /\ end \in 1 .. Len(reading) + 1
      BY <1>1, <2>1
    <2>3. Walked(d, reading, start, v)
      BY <2>1 DEF Solved
    <2>4. PICK F : Walks(d, reading, v.cut, F) /\ F[Len(v.cut)] = v
      BY <2>3 DEF Walked
    <2>5. v \in Ways /\ v.cut \in Partial(reading, start) /\ v.cut # <<>> /\ Last(v.cut) = start
      BY <2>3 DEF Walked, Partial, Last
    <2>6. /\ u \in Ways /\ u.cut = Append(v.cut, end)
          /\ u.pos = Scored(d, reading, start, end, v.pos).pos
          /\ u.score = v.score + Scored(d, reading, start, end, v.pos).score
      BY <2>2, <2>5, StepIs
    <2>7. /\ u.cut \in Partial(reading, end)
          /\ \E G : Walks(d, reading, u.cut, G) /\ G[Len(u.cut)] = u
      <3> HIDE DEF u
      <3>1. Append(v.cut, end) \in Partial(reading, end)
            /\ \E G : /\ Walks(d, reading, Append(v.cut, end), G)
                      /\ G[Len(Append(v.cut, end))] = Step(d, reading, v, end)
        BY <2>1, <2>2, <2>4, <2>5, WalkOn
      <3>2. QED BY <2>6, <3>1 DEF u
    <2>8. u \in ways
      BY DEF Led
    <2> HIDE DEF u
    <2>9. Walked(d, reading, end, u)
      BY <2>6, <2>7 DEF Walked
    <2>10. QED BY <2>6, <2>8, <2>9 DEF u
  <1>4. \A u \in ways : Walked(d, reading, end, u)
    <2>1. ASSUME NEW u \in ways PROVE Walked(d, reading, end, u)
      <3>1. PICK start \in Begins(reading, end) : u \in Led(d, reading, R[start], end)
        OBVIOUS
      <3>2. PICK v \in R[start] : u = Step(d, reading, v, end)
        BY <3>1 DEF Led
      <3>3. QED BY <1>3, <3>2
    <2>2. QED BY <2>1
  <1>5. IsFiniteSet(ways)
    <2>1. IsFiniteSet(Begins(reading, end))
      <3>1. IsFiniteSet(1 .. end - 1)
        BY FS_Interval
      <3>2. Begins(reading, end) \in SUBSET (1 .. end - 1)
        BY DEF Begins
      <3>3. QED BY <3>1, <3>2, FS_Subset
    <2>2. ASSUME NEW start \in Begins(reading, end)
          PROVE IsFiniteSet(Led(d, reading, R[start], end))
      <3>1. IsFiniteSet(R[start])
        BY DEF Begins, Solved
      <3> DEFINE f == [w \in R[start] |-> Step(d, reading, w, end)]
      <3>2. Led(d, reading, R[start], end) = {f[w] : w \in R[start]}
        BY DEF Led
      <3> HIDE DEF f
      <3>3. QED BY <3>1, <3>2, ImageIsFinite
    <2> DEFINE g == [start \in Begins(reading, end) |-> Led(d, reading, R[start], end)]
    <2>3. led = {g[start] : start \in Begins(reading, end)}
      OBVIOUS
    <2>4. IsFiniteSet(led)
      <3> HIDE DEF led, g
      <3>1. QED BY <2>1, <2>3, ImageIsFinite
    <2>5. \A ws \in led : IsFiniteSet(ws)
      BY <2>2
    <2> HIDE DEF led
    <2>6. QED BY <2>4, <2>5, FS_UNION
  <1> HIDE DEF ways
  <1>6. IsFiniteSet(kept) /\ \A w \in kept : w \in ways
    <2>1. kept \in SUBSET ways
      BY DEF BestPerState
    <2> HIDE DEF kept
    <2>2. QED BY <1>5, <2>1, FS_Subset
  <1>7. ASSUME NEW cut \in Partial(reading, end), NEW F, Walks(d, reading, cut, F)
        PROVE \E w \in kept : w.pos = F[Len(cut)].pos /\ F[Len(cut)].score <= w.score
    <2>1. Len(cut) \in Nat \ {0} /\ cut[1] = 1 /\ cut[Len(cut)] = end
      BY <1>1, PartialIs
    <2>2. Len(cut) # 1
      BY <1>1, <2>1
    <2>3. PICK k \in 1 .. Len(cut) : \E front, G :
            /\ front \in Partial(reading, cut[k]) /\ Len(front) = k
            /\ Walks(d, reading, front, G) /\ G[k] = F[k]
            /\ cut[k] \in 1 .. Len(reading) /\ end \in cut[k] + 1 .. Len(reading) + 1
            /\ MayBeSegment(reading, cut[k], end) /\ F[Len(cut)] = Step(d, reading, F[k], end)
      BY <1>7, <2>2, WalkBack
    <2>0. PICK front, G :
            /\ front \in Partial(reading, cut[k]) /\ Len(front) = k
            /\ Walks(d, reading, front, G) /\ G[k] = F[k]
            /\ cut[k] \in 1 .. Len(reading) /\ end \in cut[k] + 1 .. Len(reading) + 1
            /\ MayBeSegment(reading, cut[k], end) /\ F[Len(cut)] = Step(d, reading, F[k], end)
      BY <2>3
    <2> DEFINE start == cut[k]
    <2>4. F[k] \in Ways /\ F[k].cut # <<>> /\ Last(F[k].cut) = start
      BY <1>7, WalkIs
    <2>5. start \in 1 .. end - 1 /\ start \in Begins(reading, end)
      <3>1. start \in 1 .. end - 1
        BY <1>1, <2>0
      <3>2. QED BY <2>0, <3>1 DEF Begins
    <2>6. Matched(d, reading, start, R[start])
      BY <2>5 DEF Solved
    <2>7. PICK v \in R[start] : v.pos = F[k].pos /\ F[k].score <= v.score
      BY <2>0, <2>6 DEF Matched
    <2> DEFINE s == Scored(d, reading, start, end, F[k].pos)
               u == Step(d, reading, v, end)
    <2>8. u \in ways /\ u.pos = s.pos /\ u.score = v.score + s.score
      BY <1>3, <2>5, <2>7
    <2>9. F[Len(cut)].pos = s.pos /\ F[Len(cut)].score = F[k].score + s.score
      BY <2>0, <2>4, StepIs
    <2>10. s.score \in Int /\ F[k].score \in Int /\ v.score \in Int
      <3>1. F[k].pos \in PartsOfSpeech /\ F[k].score \in Int
        BY <2>4 DEF Ways
      <3>2. Walked(d, reading, start, v)
        BY <2>5 DEF Solved
      <3>3. QED BY <2>0, <3>1, <3>2 DEF Scorable, Walked, Ways
    <2> HIDE DEF s, u
    <2>11. \A w \in ways : w \in Ways
      BY <1>4 DEF Walked
    <2>12. PICK w \in kept : w.pos = u.pos /\ u.score <= w.score
      <3>1. ways \in SUBSET Ways
        BY <2>11
      <3>2. QED BY <1>5, <2>8, <3>1, BestIsKept
    <2>13. w.score \in Int
      BY <1>6, <2>11, <2>12 DEF Ways
    <2>14. F[Len(cut)].score <= w.score
      <3> DEFINE a == F[k].score
                 b == v.score
                 c == s.score
                 z == w.score
      <3>1. a \in Int /\ b \in Int /\ c \in Int /\ z \in Int /\ a <= b /\ b + c <= z
        BY <2>7, <2>8, <2>10, <2>12, <2>13
      <3> HIDE DEF a, b, c, z
      <3>2. a + c <= z
        BY <3>1
      <3>3. QED BY <2>9, <3>2 DEF a, c, z
    <2>15. QED BY <2>8, <2>9, <2>12, <2>14
  <1> HIDE DEF kept
  <1>8. Matched(d, reading, end, kept)
    BY <1>7 DEF Matched
  <1>9. QED BY <1>2, <1>4, <1>6, <1>8 DEF Solved

(* So the ways to the end of the reading are the best ones.                *)
LEMMA SolvedEverywhere ==
  ASSUME NEW d, NEW reading, Scorable(d, reading)
  PROVE Solved(d, reading, Len(reading) + 1, States(d, reading))
  <1> DEFINE n == Len(reading) + 1
  <1>1. Len(reading) \in Nat \ {0} /\ n \in Nat /\ n \in 1 .. n
    BY DEF Scorable
  <1>2. PICK R : /\ States(d, reading) = R[n]
                 /\ \A end \in 1 .. n : R[end] = ReachedAt(d, reading, R, end)
    BY <1>1, StatesAre
  <1> DEFINE Good == {end \in 1 .. n : Solved(d, reading, end, R[end])}
  <1>3. ASSUME NEW end \in 1 .. n, \A j \in 1 .. end - 1 : j \in Good
        PROVE Solved(d, reading, end, R[end])
    <2>1. CASE end = 1
      <3>1. R[1] = {Begun(d)}
        BY <1>2, <2>1 DEF ReachedAt
      <3>2. QED BY <2>1, <3>1, SolvedAtStart
    <2>2. CASE end # 1
      <3>1. end \in 2 .. Len(reading) + 1
        BY <1>1, <2>2
      <3>2. \A start \in 1 .. end - 1 : Solved(d, reading, start, R[start])
        BY <1>3
      <3>3. Solved(d, reading, end, ReachedAt(d, reading, R, end))
        BY <3>1, <3>2, SolvedOn
      <3>4. QED BY <1>2, <3>3
    <2>3. QED BY <2>1, <2>2
  <1>4. \A end \in 1 .. n : end \in Good
    <2>1. \A end \in 1 .. n : (\A j \in 1 .. end - 1 : j \in Good) => end \in Good
      BY <1>3
    <2>2. Good \in SUBSET (1 .. n)
      OBVIOUS
    <2> HIDE DEF Good, n
    <2>3. QED BY <1>1, <2>1, <2>2, EveryPosition
  <1>5. QED BY <1>1, <1>2, <1>4

(* A cut of the whole reading is one the reference knows.                  *)
LEMMA WholeCuts ==
  ASSUME NEW reading, Len(reading) \in Nat \ {0}
  PROVE AllCuts(reading) = Partial(reading, Len(reading) + 1)
  <1> DEFINE n == Len(reading)
             All == UNION {[1 .. k + 1 -> 1 .. n + 1] : k \in 1 .. n}
             IsCut(cut) == /\ Head(cut) = 1 /\ Last(cut) = n + 1
                           /\ \A i \in 1 .. Len(cut) - 1 : MayBeSegment(reading, cut[i], cut[i + 1])
  <1>1. AllCuts(reading) = {cut \in All : IsCut(cut)}
    BY DEF AllCuts
  <1>2. ASSUME NEW cut \in All, IsCut(cut) PROVE cut \in Partial(reading, n + 1)
    <2>1. PICK k \in 1 .. n : cut \in [1 .. k + 1 -> 1 .. n + 1]
      OBVIOUS
    <2>2. k + 1 \in Nat /\ k + 1 # 0
      OBVIOUS
    <2>3. cut \in Seq(1 .. n + 1) /\ Len(cut) = k + 1
      BY <2>1, <2>2
    <2>4. cut # <<>> /\ Head(cut) = cut[1]
      BY <2>2, <2>3
    <2>5. QED BY <1>2, <2>3, <2>4 DEF Partial, Last
  <1>3. ASSUME NEW cut \in Partial(reading, n + 1) PROVE cut \in All /\ IsCut(cut)
    <2> DEFINE k == Len(cut) - 1
               len == Len(cut)
    <2>1. /\ Len(cut) \in Nat \ {0} /\ cut[1] = 1 /\ cut[len] = n + 1
          /\ cut \in Seq(1 .. n + 1)
          /\ \A i \in 2 .. len : /\ i - 1 \in 1 .. len /\ cut[i - 1] \in 1 .. n
                                 /\ cut[i] \in cut[i - 1] + 1 .. n + 1
      BY PartialIs
    <2> DEFINE Good == {i \in 1 .. len : i <= cut[i]}
    <2>2. ASSUME NEW i \in 1 .. len, \A j \in 1 .. i - 1 : j \in Good PROVE i <= cut[i]
      <3>1. CASE i = 1
        BY <2>1, <3>1
      <3>2. CASE i # 1
        <4>1. i \in 2 .. len /\ i - 1 \in 1 .. i - 1
          BY <2>1, <3>2
        <4>2. i - 1 <= cut[i - 1]
          BY <2>2, <4>1
        <4>3. cut[i - 1] \in 1 .. n /\ cut[i] \in cut[i - 1] + 1 .. n + 1
          BY <2>1, <4>1
        <4>4. QED BY <4>1, <4>2, <4>3
      <3>3. QED BY <3>1, <3>2
    <2>3. \A i \in 1 .. len : i \in Good
      <3>1. \A i \in 1 .. len : (\A j \in 1 .. i - 1 : j \in Good) => i \in Good
        BY <2>2
      <3>2. Good \in SUBSET (1 .. len) /\ len \in Nat
        BY <2>1
      <3> HIDE DEF Good, len
      <3>3. QED BY <3>1, <3>2, EveryPosition
    <2>4. len <= n + 1 /\ len # 1
      <3>1. len \in 1 .. len
        BY <2>1
      <3>2. len <= cut[len]
        BY <2>3, <3>1
      <3> HIDE DEF len
      <3>3. QED BY <2>1, <3>2
    <2>5. k \in 1 .. n /\ k + 1 = len
      <3>1. len \in Nat \ {0} /\ k = len - 1
        BY <2>1
      <3> HIDE DEF len, k
      <3>2. QED BY <2>4, <3>1
    <2>6. cut \in [1 .. k + 1 -> 1 .. n + 1]
      <3>1. cut \in [1 .. len -> 1 .. n + 1]
        BY <2>1
      <3> HIDE DEF k, len
      <3>2. QED BY <2>5, <3>1
    <2>7. cut \in All
      BY <2>5, <2>6
    <2>8. Head(cut) = 1 /\ Last(cut) = n + 1
      BY <2>1 DEF Last
    <2>9. \A i \in 1 .. Len(cut) - 1 : MayBeSegment(reading, cut[i], cut[i + 1])
      BY DEF Partial
    <2> HIDE DEF k, len
    <2>10. QED BY <2>7, <2>8, <2>9
  <1> HIDE DEF All, IsCut
  <1>4. QED BY <1>1, <1>2, <1>3 DEF Partial

(* The cut the program chooses is a cut, and no other counts more.         *)
LEMMA ChosenCutIsBest ==
  ASSUME NEW d, NEW reading, Scorable(d, reading), NEW cut \in Cuts(d, reading)
  PROVE IF AllCuts(reading) = {} THEN cut = Uncut(reading)
        ELSE /\ cut \in AllCuts(reading)
             /\ \A other \in AllCuts(reading) : Total(d, reading, other) <= Total(d, reading, cut)
  <1> DEFINE n == Len(reading) + 1
             ends == States(d, reading)
             best == {w \in ends : \A v \in ends : v.score <= w.score}
  <1>1. Len(reading) \in Nat \ {0}
    BY DEF Scorable
  <1>2. AllCuts(reading) = Partial(reading, n)
    BY <1>1, WholeCuts
  <1>3. Solved(d, reading, n, ends)
    BY SolvedEverywhere
  <1>4. ASSUME NEW other \in AllCuts(reading)
        PROVE \E w \in ends : Total(d, reading, other) <= w.score /\ Total(d, reading, other) \in Int
    <2>1. other \in Partial(reading, n) /\ Len(other) \in Nat \ {0} /\ Len(other) \in 1 .. Len(other)
      <3>1. other \in Partial(reading, n)
        BY <1>2
      <3>2. Len(other) \in Nat \ {0}
        BY <1>1, <3>1, PartialIs
      <3>3. QED BY <3>1, <3>2
    <2>2. PICK F : Walks(d, reading, other, F)
      BY <2>1, WalkExists
    <2>3. Total(d, reading, other) = F[Len(other)].score
      BY <2>1, <2>2, TotalIs
    <2>4. F[Len(other)] \in Ways
      BY <2>1, <2>2, WalkIs
    <2>5. F[Len(other)].score \in Int
      BY <2>4 DEF Ways
    <2>6. \E w \in ends : F[Len(other)].score <= w.score
      BY <1>3, <2>1, <2>2 DEF Solved, Matched
    <2>7. QED BY <2>3, <2>5, <2>6
  <1>5. ASSUME NEW w \in ends
        PROVE w.cut \in AllCuts(reading) /\ Total(d, reading, w.cut) = w.score /\ w.score \in Int
    <2>1. Walked(d, reading, n, w)
      BY <1>3 DEF Solved
    <2>2. PICK F : Walks(d, reading, w.cut, F) /\ F[Len(w.cut)] = w
      BY <2>1 DEF Walked
    <2>3. w.cut \in Partial(reading, n) /\ w.score \in Int
      BY <2>1 DEF Walked, Ways
    <2>4. Len(w.cut) \in Nat \ {0}
      BY <1>1, <2>3, PartialIs
    <2>5. Total(d, reading, w.cut) = w.score
      BY <2>2, <2>4, TotalIs
    <2>6. QED BY <1>2, <2>3, <2>5
  <1>6. Cuts(d, reading) = IF ends = {} THEN {Uncut(reading)} ELSE {w.cut : w \in best}
    BY DEF Cuts
  <1> HIDE DEF ends
  <1>7. CASE ends = {}
    <2>1. cut = Uncut(reading)
      BY <1>6, <1>7
    <2>2. AllCuts(reading) = {}
      BY <1>4, <1>7
    <2>3. QED BY <2>1, <2>2
  <1>8. CASE ends # {}
    <2>1. PICK w \in best : cut = w.cut
      BY <1>6, <1>8
    <2>2. w \in ends /\ \A v \in ends : v.score <= w.score
      BY <2>1
    <2>3. cut \in AllCuts(reading) /\ Total(d, reading, cut) = w.score /\ w.score \in Int
      BY <1>5, <2>1, <2>2
    <2>4. ASSUME NEW other \in AllCuts(reading)
          PROVE Total(d, reading, other) <= Total(d, reading, cut)
      <3>1. PICK v \in ends : Total(d, reading, other) <= v.score /\ Total(d, reading, other) \in Int
        BY <1>4
      <3>2. v.score \in Int /\ v.score <= w.score
        BY <1>5, <2>2
      <3> DEFINE a == Total(d, reading, other)
                 b == v.score
                 c == w.score
      <3>3. a \in Int /\ b \in Int /\ c \in Int /\ a <= b /\ b <= c
        BY <2>3, <3>1, <3>2
      <3> HIDE DEF a, b, c
      <3>4. a <= c
        BY <3>3
      <3>5. QED BY <2>3, <3>4 DEF a, c
    <2>5. QED BY <2>3, <2>4
  <1>9. QED BY <1>7, <1>8

-----------------------------------------------------------------------------
(* What a segment counts *)

(* The default dictionary holds words.                                     *)
LEMMA DefaultIs == DefaultDb.entries \in Seq(Words)
  <1> DEFINE W == [reading : Seq(Nat) \ {<<>>}, text : Seq(Nat) \ {<<>>},
                   score : 0 .. MaxScore, partOfSpeech : DOMAIN ContextualRows,
                   category : {"None", "PlaceName", "CurrencyCode", "CurrencySymbol"}]
  <1>1. DefaultEntries \in Seq(W)
    BY RankingAssumption
  <1>2. W \subseteq Words
    BY ScoreAssumption DEF Words, PartsOfSpeech
  <1> HIDE DEF W
  <1>3. DefaultEntries \in Seq(Words)
    BY <1>1, <1>2
  <1>4. QED BY <1>3, BuildIsRight DEF DefaultDb

(* The first candidate of a reading.                                       *)
LEMMA FirstCandidateIs ==
  ASSUME NEW d, Known(d), NEW reading \in Seq(Nat) \ {<<>>}, NEW pos \in PartsOfSpeech, NEW surface
  PROVE BuildExactCandidates(d, reading, pos, surface)[1] \in Candidates
  <1> DEFINE found == At(DefaultDb, Exact(DefaultDb, reading)) \cup At(d.user, Exact(d.user, reading))
             boosted == {<<e, EntryBoost(d, e, pos, surface)>> : e \in found}
             score == RawReadingGrammarBoost(reading, surface)
             entries == EntryCandidates(d, boosted)
             others == RawCandidate(d, reading, score) \cup SyntheticCandidates(d, reading, surface)
             offered == entries \cup RawCandidate(d, reading, score)
                          \cup SyntheticCandidates(d, reading, surface)
  <1>1. BuildExactCandidates(d, reading, pos, surface) = SortAndTrim(Unique(offered), ExactLimit)
    BY DEF BuildExactCandidates
  <1>2. found \in SUBSET Words /\ IsFiniteSet(found)
    <2>1. d.user.entries \in Seq(Words)
      BY DEF Known
    <2> DEFINE a == At(DefaultDb, Exact(DefaultDb, reading))
               b == At(d.user, Exact(d.user, reading))
    <2>2. a \in SUBSET Words /\ IsFiniteSet(a)
      BY DefaultIs, FoundAre
    <2>3. b \in SUBSET Words /\ IsFiniteSet(b)
      BY <2>1, FoundAre
    <2> HIDE DEF a, b
    <2>4. a \cup b \in SUBSET Words /\ IsFiniteSet(a \cup b)
      BY <2>2, <2>3, FS_Union
    <2>5. QED BY <2>4 DEF a, b
  <1>3. IsFiniteSet(boosted) /\ \A g \in boosted : g[1] \in Words /\ g[2] \in Int
    <2> HIDE DEF found
    <2> DEFINE h == [e \in found |-> <<e, EntryBoost(d, e, pos, surface)>>]
    <2>1. boosted = {h[e] : e \in found}
      OBVIOUS
    <2>2. IsFiniteSet({h[e] : e \in found})
      <3> HIDE DEF h
      <3>1. QED BY <1>2, ImageIsFinite
    <2>3. \A e \in found : EntryBoost(d, e, pos, surface) \in Int
      BY EntryBoostIsInt
    <2>4. ASSUME NEW g \in boosted PROVE g[1] \in Words /\ g[2] \in Int
      <3>1. PICK e \in found : g = <<e, EntryBoost(d, e, pos, surface)>>
        OBVIOUS
      <3>2. g[1] = e /\ g[2] = EntryBoost(d, e, pos, surface)
        BY <3>1
      <3>3. QED BY <1>2, <2>3, <3>2
    <2>5. QED BY <2>1, <2>2, <2>4
  <1> HIDE DEF boosted
  <1>4. entries \in SUBSET Candidates /\ IsFiniteSet(entries)
    BY <1>3, EntryCandidatesAre
  <1>5. score \in Int
    BY DEF RawReadingGrammarBoost
  <1> HIDE DEF score
  <1>6. others \in SUBSET Candidates /\ IsFiniteSet(others) /\ others # {}
    BY <1>5, OtherCandidatesAre
  <1>7. offered = entries \cup others
    OBVIOUS
  <1> HIDE DEF entries, others, offered
  <1>8. offered \in SUBSET Candidates /\ IsFiniteSet(offered) /\ offered # {}
    BY <1>4, <1>6, <1>7, FS_Union
  <1>9. /\ Unique(offered) \in SUBSET Candidates /\ IsFiniteSet(Unique(offered))
        /\ Unique(offered) # {} /\ \A c \in Unique(offered) : Item(c)
    BY <1>8, UniqueAre
  <1>10. SortAndTrim(Unique(offered), ExactLimit)[1] \in Unique(offered)
    BY <1>9, FirstIsRanked, RankingAssumption
  <1>11. QED BY <1>1, <1>9, <1>10

(* What is looked up of a word is a part of speech.                        *)
LEMMA LookupIs ==
  ASSUME NEW d, Known(d), NEW reading, NEW text
  PROVE LookupPartOfSpeech(d, reading, text) \in PartsOfSpeech
  <1> DEFINE of(trie) == IF IndexOf(trie, reading, text) = 0 THEN "Unknown"
                         ELSE trie.entries[IndexOf(trie, reading, text)].partOfSpeech
  <1>1. "Unknown" \in PartsOfSpeech
    BY DEF PartsOfSpeech, ContextualRows
  <1>2. ASSUME NEW trie, trie.entries \in Seq(Words) PROVE of(trie) \in PartsOfSpeech
    <2> DEFINE i == IndexOf(trie, reading, text)
               e == trie.entries
    <2>1. i = 0 \/ i \in DOMAIN e
      BY <1>2, IndexIs
    <2>2. i \in DOMAIN e => e[i] \in Words
      BY <1>2
    <2> HIDE DEF i, e
    <2>3. i # 0 => e[i].partOfSpeech \in PartsOfSpeech
      BY <2>1, <2>2 DEF Words
    <2>4. QED BY <1>1, <2>3 DEF i, e
  <1>3. of(d.user) \in PartsOfSpeech /\ of(DefaultDb) \in PartsOfSpeech
    BY <1>2, DefaultIs DEF Known
  <1>4. LookupPartOfSpeech(d, reading, text) = IF of(d.user) # "Unknown" THEN of(d.user) ELSE of(DefaultDb)
    BY DEF LookupPartOfSpeech
  <1> HIDE DEF of
  <1>5. QED BY <1>3, <1>4

(* A candidate's share of a segment's score is an integer.                 *)
LEMMA ClampIsInt ==
  ASSUME NEW n \in Int
  PROVE Clamp(Quarter(n), -60, 120) \in Int
  <1>1. Quarter(n) \in Int
    <2>1. CASE n < 0
      <3>1. -n \in Nat
        BY <2>1
      <3>2. (-n) \div 4 \in Int
        BY <3>1
      <3>3. QED BY <2>1, <3>2 DEF Quarter
    <2>2. CASE ~(n < 0)
      <3>1. n \div 4 \in Int
        OBVIOUS
      <3>2. QED BY <2>2, <3>1 DEF Quarter
    <2>3. QED BY <2>1, <2>2
  <1> DEFINE q == Quarter(n)
             low == Min({120, q})
  <1>2. q \in Int /\ 120 \in Int /\ -60 \in Int
    BY <1>1
  <1> HIDE DEF q
  <1>3. low \in {120, q}
    BY <1>2, SmallerIs
  <1>4. low \in Int
    BY <1>2, <1>3
  <1> HIDE DEF low
  <1>5. Max({-60, low}) \in {-60, low}
    BY <1>2, <1>4, SmallerIs
  <1>6. Max({-60, low}) \in Int
    BY <1>2, <1>4, <1>5
  <1>7. QED BY <1>6 DEF Clamp, low, q

(* A segment scores an integer and leaves a part of speech.                *)
LEMMA SegmentScoreIs ==
  ASSUME NEW d, Known(d), NEW reading \in Seq(Nat) \ {<<>>}, NEW isTerminal, NEW pos \in PartsOfSpeech
  PROVE LET scored == ScoreSegmentReading(d, reading, isTerminal, pos)
        IN scored.score \in Int /\ scored.pos \in PartsOfSpeech
  <1> DEFINE best == BuildExactCandidates(d, reading, pos, <<>>)[1]
             isParticle == reading[1] \in Particles
             c == Clamp(Quarter(best.score), -60, 120)
             n == Len(reading)
             x == IF ~isTerminal /\ Len(reading) = 1 /\ ~isParticle THEN 120 ELSE 0
             y == IF ~isTerminal /\ Last(reading) \in Particles THEN 80 ELSE 0
             z == IF Len(reading) >= 2 /\ isParticle THEN 60 ELSE 0
             scored == ScoreSegmentReading(d, reading, isTerminal, pos)
  <1>1. scored = [score |-> 200 + 12 * n + c - x + y - z, pos |-> LookupPartOfSpeech(d, reading, best.text)]
    BY DEF ScoreSegmentReading
  <1>2. best.score \in Int
    <2>1. best \in Candidates
      BY FirstCandidateIs
    <2> HIDE DEF best
    <2>2. QED BY <2>1 DEF Candidates
  <1>3. n \in Int /\ x \in Int /\ y \in Int /\ z \in Int
    OBVIOUS
  <1>4. c \in Int
    <2> HIDE DEF best
    <2>1. QED BY <1>2, ClampIsInt
  <1> HIDE DEF c, n, x, y, z, best
  <1>5. 200 + 12 * n + c - x + y - z \in Int
    BY <1>3, <1>4
  <1>6. LookupPartOfSpeech(d, reading, best.text) \in PartsOfSpeech
    BY LookupIs
  <1> HIDE DEF scored
  <1>7. scored.score \in Int /\ scored.pos \in PartsOfSpeech
    BY <1>1, <1>5, <1>6
  <1>8. QED BY <1>7 DEF scored

(* Every dictionary gives every segment a score.                           *)
LEMMA ScoresExist ==
  ASSUME NEW d, Known(d), d.pos \in PartsOfSpeech, NEW reading \in Seq(Nat) \ {<<>>}
  PROVE Scorable(d, reading)
  <1>1. Len(reading) \in Nat \ {0}
    OBVIOUS
  <1>2. ASSUME NEW start \in 1 .. Len(reading), NEW end \in start + 1 .. Len(reading) + 1,
               NEW pos \in PartsOfSpeech
        PROVE /\ Scored(d, reading, start, end, pos).score \in Int
              /\ Scored(d, reading, start, end, pos).pos \in PartsOfSpeech
    <2>1. start \in 1 .. Len(reading) /\ end - 1 \in start .. Len(reading)
      BY <1>1
    <2>2. SubSeq(reading, start, end - 1) \in Seq(Nat) \ {<<>>}
      <3> DEFINE s == SubSeq(reading, start, end - 1)
      <3>1. s \in Seq(Nat)
        BY <1>1, <2>1
      <3>2. Len(s) = (end - 1) - start + 1 /\ Len(s) # 0
        BY <1>1, <2>1
      <3> HIDE DEF s
      <3>3. s # <<>>
        BY <3>2
      <3>4. QED BY <3>1, <3>3 DEF s
    <2>3. QED BY <2>2, SegmentScoreIs DEF Scored
  <1>3. QED BY <1>1, <1>2 DEF Scorable

-----------------------------------------------------------------------------
(* What is learned *)

(* A user database, and the dictionary around it, through all commits,     *)
(* blockings and restarts.                                                 *)
TypedUser(u) ==
  /\ DOMAIN u = {"entries", "nodes", "top", "contexts"}
  /\ u.entries \in Seq(Words)
  /\ \A key \in DOMAIN u.contexts : u.contexts[key] \in Nat
Inductive ==
  /\ DOMAIN dict = {"user", "black", "pos", "last"}
  /\ TypedUser(dict.user) /\ dict.pos \in PartsOfSpeech

(* A database loaded from a file has its types.                            *)
LEMMA LoadedIsTyped ==
  ASSUME NEW file, file.entries \in Seq(Words),
         \A key \in DOMAIN file.contexts : file.contexts[key] \in Nat
  PROVE TypedUser(Loaded(file))
  <1>1. BuildTrie(file.entries).entries = file.entries
    BY BuildIsRight
  <1>2. QED BY <1>1 DEF Loaded, UserData, TypedUser

(* Recording a transition keeps the types and the entries.                 *)
LEMMA TransitionIsTyped ==
  ASSUME NEW u, TypedUser(u), NEW previous, NEW reading, NEW text
  PROVE /\ TypedUser(RecordContextTransition(u, previous, reading, text))
        /\ RecordContextTransition(u, previous, reading, text).entries = u.entries
        /\ RecordContextTransition(u, previous, reading, text).top = u.top
  <1> DEFINE key == <<previous, reading, text>>
             count == IF key \in DOMAIN u.contexts THEN u.contexts[key] ELSE 0
             next == IF count < MaxContextCount THEN count + 1 ELSE count
             old == u.contexts
             contexts == [k \in DOMAIN old \cup {key} |-> IF k # key THEN old[k] ELSE next]
             v == RecordContextTransition(u, previous, reading, text)
  <1>1. next \in Nat
    <2>1. count \in Nat
      BY DEF TypedUser
    <2> HIDE DEF count
    <2>2. QED BY <2>1
  <1>2. v = [u EXCEPT !.contexts = contexts]
    BY DEF RecordContextTransition
  <1> HIDE DEF next, key
  <1>3. \A k \in DOMAIN contexts : contexts[k] \in Nat
    BY <1>1 DEF TypedUser
  <1> HIDE DEF contexts, v
  <1>4. v.entries = u.entries /\ v.top = u.top /\ v.contexts = contexts /\ DOMAIN v = DOMAIN u
    BY <1>2 DEF TypedUser
  <1>5. QED BY <1>3, <1>4 DEF TypedUser, v

(* A raised score is an integer.                                           *)
LEMMA RaisedIsInt ==
  ASSUME NEW score \in Int
  PROVE Raised(score) \in Int
  <1>1. CommitScore \in Int /\ MaxScore \in Int
    BY ScoreAssumption
  <1>2. score + CommitScore \in Int
    BY <1>1
  <1>3. Wrapped(score + CommitScore) \in Int
    BY <1>2, WrappedIsInt
  <1>4. QED BY <1>1, <1>3 DEF Raised

(* A database to which a word is added keeps its types,                    *)
LEMMA EnsuredIsTyped ==
  ASSUME NEW u, TypedUser(u), NEW reading \in Seq(Nat), NEW text \in Seq(Nat)
  PROVE TypedUser(EnsureEntry(u, reading, text))
  <1> DEFINE e == [reading |-> reading, text |-> text, score |-> 0,
                   partOfSpeech |-> "Unknown", category |-> "None"]
             t == AddEntry(u, e)
  <1>1. e \in Words
    BY DEF Words, PartsOfSpeech, ContextualRows
  <1>2. t.entries = Append(u.entries, e)
    BY DEF AddEntry
  <1>3. EnsureEntry(u, reading, text) = u \/ EnsureEntry(u, reading, text) = UserData(t, u.contexts)
    BY DEF EnsureEntry
  <1> HIDE DEF t, e
  <1>4. Append(u.entries, e) \in Seq(Words)
    BY <1>1 DEF TypedUser
  <1>5. TypedUser(UserData(t, u.contexts))
    BY <1>2, <1>4 DEF TypedUser, UserData
  <1>6. QED BY <1>3, <1>5

(* and so does one with a commit recorded.                                 *)
LEMMA CommitIsTyped ==
  ASSUME NEW u, TypedUser(u), NEW reading \in Seq(Nat), NEW text \in Seq(Nat)
  PROVE TypedUser(Commit(u, reading, text))
  <1> DEFINE known == EnsureEntry(u, reading, text)
             i == IndexOf(known, reading, text)
             entry == [known.entries[i] EXCEPT !.score = Raised(@)]
             entries == [known.entries EXCEPT ![i] = entry]
             raised == [known EXCEPT !.entries = entries]
             v == Rebuild(raised, Path(reading))
  <1>1. TypedUser(known)
    BY EnsuredIsTyped
  <1>2. Commit(u, reading, text) = v
    BY DEF Commit
  <1>3. known.entries \in Seq(Words) /\ (i = 0 \/ i \in DOMAIN known.entries)
    <2>1. known.entries \in Seq(Words)
      BY <1>1 DEF TypedUser
    <2> HIDE DEF known
    <2>2. QED BY <2>1, IndexIs
  <1> HIDE DEF known, i
  <1>4. entries \in Seq(Words)
    <2> DEFINE s == known.entries
    <2>1. s \in Seq(Words) /\ Len(s) \in Nat /\ DOMAIN s = 1 .. Len(s)
      BY <1>3
    <2>2. CASE i \in DOMAIN s
      <3>1. s[i] \in Words
        BY <2>1, <2>2
      <3>2. s[i].score \in Int
        BY <3>1 DEF Words
      <3>3. Raised(s[i].score) \in Int
        BY <3>2, RaisedIsInt
      <3> DEFINE w == s[i]
                 r == Raised(s[i].score)
      <3>4. entry = [w EXCEPT !.score = r]
        OBVIOUS
      <3> HIDE DEF w, r, entry
      <3>5. entry \in Words
        BY <3>1, <3>3, <3>4 DEF Words, w, r
      <3>6. entries = [s EXCEPT ![i] = entry]
        OBVIOUS
      <3> HIDE DEF s, entries
      <3>7. QED BY <2>1, <2>2, <3>5, <3>6
    <2>3. CASE i \notin DOMAIN s
      <3>1. entries = s
        BY <2>1, <2>3
      <3>2. QED BY <2>1, <3>1
    <2>4. QED BY <2>2, <2>3
  <1> HIDE DEF entries
  <1>5. /\ raised.entries = entries /\ raised.contexts = known.contexts
        /\ DOMAIN raised = DOMAIN known
    BY <1>1 DEF TypedUser
  <1> HIDE DEF raised
  <1>6. Kept(v, raised)
    <2>1. DOMAIN Path(reading) = 1 .. Len(reading) + 1 /\ Len(reading) + 1 \in Nat
      BY PathIs
    <2>2. QED BY <2>1, RebuildKeeps
  <1> HIDE DEF v
  <1>7. DOMAIN v = {"entries", "nodes", "top", "contexts"} /\ v.entries = entries
        /\ v.contexts = known.contexts
    <2>1. DOMAIN raised = {"entries", "nodes", "top", "contexts"}
      BY <1>1, <1>5 DEF TypedUser
    <2>2. v["entries"] = raised["entries"] /\ v["contexts"] = raised["contexts"]
      BY <1>6, <2>1 DEF Kept
    <2>3. QED BY <1>5, <1>6, <2>1, <2>2 DEF Kept
  <1>8. TypedUser(v)
    BY <1>1, <1>4, <1>7 DEF TypedUser
  <1>9. QED BY <1>2, <1>8

-----------------------------------------------------------------------------
(* Committing *)

(* Words found in both of two databases have the same best in both.        *)
LEMMA SameBestElsewhere ==
  ASSUME NEW d, NEW e, NEW J, NEW list, BestAmong(d, J, list), \A j \in J : e[j] = d[j]
  PROVE BestAmong(e, J, list)
  <1>1. list \in [1 .. Min({TopPredictionCount, Cardinality(J)}) -> J]
    BY DEF BestAmong
  <1>2. \A k \in DOMAIN list : list[k] \in J
    BY <1>1
  <1>3. \A j \in ToSet(list) : j \in J
    BY <1>2 DEF ToSet
  <1>4. /\ \A k, l \in DOMAIN list : k < l => list[k] # list[l] /\ ~Better(d[list[l]], d[list[k]])
        /\ \A i \in J \ ToSet(list) : \A j \in ToSet(list) : ~Better(d[i], d[j])
    BY DEF BestAmong
  <1>5. \A k, l \in DOMAIN list : k < l => list[k] # list[l] /\ ~Better(e[list[l]], e[list[k]])
    BY <1>2, <1>4
  <1>6. \A i \in J \ ToSet(list) : \A j \in ToSet(list) : ~Better(e[i], e[j])
    BY <1>3, <1>4
  <1>7. QED BY <1>1, <1>5, <1>6 DEF BestAmong

(* All nodes on the path of a reading whose own node is there.             *)
LEMMA PathIsThere ==
  ASSUME NEW t, Treed(t), NEW reading \in Seq(Nat), reading \in DOMAIN t.top,
         NEW i \in 1 .. Len(reading) + 1
  PROVE Path(reading)[i] \in DOMAIN t.top
  <1>1. Path(reading)[i] = SubSeq(reading, 1, i - 1)
    BY PathIs
  <1>2. i - 1 \in 0 .. Len(reading)
    <2> DEFINE m == Len(reading)
    <2>1. m \in Nat /\ i \in 1 .. m + 1
      OBVIOUS
    <2> HIDE DEF m
    <2>2. i - 1 \in 0 .. m
      BY <2>1
    <2>3. QED BY <2>2 DEF m
  <1>3. QED BY <1>1, <1>2 DEF Treed

(* One database goes on from another: it has its words and its nodes, and  *)
(* besides them only words of the reading and the nodes on its path.       *)
GoesOn(t, u, reading) ==
  /\ \A j \in DOMAIN u.entries : j \in DOMAIN t.entries /\ t.entries[j] = u.entries[j]
  /\ \A j \in DOMAIN t.entries : j \in DOMAIN u.entries \/ t.entries[j].reading = reading
  /\ DOMAIN t.top = DOMAIN u.top \cup {Path(reading)[k] : k \in 1 .. Len(reading) + 1}
  /\ \A x \in DOMAIN u.top : t.top[x] = u.top[x]

(* A database in which a reading's text is looked up, and added if it is   *)
(* missing, has it.                                                        *)
LEMMA EnsuredIs ==
  ASSUME NEW u, u.entries \in Seq(Words), Treed(u), <<>> \in DOMAIN u.top,
         NEW reading \in Seq(Nat), NEW text \in Seq(Nat)
  PROVE LET known == EnsureEntry(u, reading, text)
            i == IndexOf(known, reading, text)
        IN /\ i \in DOMAIN known.entries /\ known.entries[i].reading = reading
           /\ Treed(known) /\ GoesOn(known, u, reading)
  <1> DEFINE known == EnsureEntry(u, reading, text)
             i == IndexOf(known, reading, text)
             e == [reading |-> reading, text |-> text, score |-> 0,
                   partOfSpeech |-> "Unknown", category |-> "None"]
             n == Len(reading) + 1
             p == Path(reading)
  <1>1. CASE IndexOf(u, reading, text) # 0
    <2>1. known = u
      BY <1>1 DEF EnsureEntry
    <2>2. i \in DOMAIN u.entries /\ u.entries[i].reading = reading
      BY <1>1, <2>1, IndexIs
    <2>3. reading \in DOMAIN u.top
      BY <2>2 DEF Treed
    <2> HIDE DEF p, i, known
    <2>4. \A k \in 1 .. n : p[k] \in DOMAIN u.top
      BY <2>3, PathIsThere DEF p
    <2> HIDE DEF n
    <2>5. GoesOn(u, u, reading)
      BY <2>4 DEF GoesOn, p, n
    <2>6. QED BY <2>1, <2>2, <2>5 DEF i, known
  <1>2. CASE IndexOf(u, reading, text) = 0
    <2> DEFINE t == AddEntry(u, e)
               s == u.entries
    <2>1. known = UserData(t, u.contexts)
      BY <1>2 DEF EnsureEntry
    <2>2. e \in Words /\ e.reading = reading /\ e.text = text
      BY DEF Words, PartsOfSpeech, ContextualRows
    <2> HIDE DEF e
    <2>3. PICK m : Added(u, e, m)
      BY <2>2, AddedIs
    <2>4. /\ m \in 1 .. n /\ \A k \in 1 .. n : p[k] \in DOMAIN u.top <=> k <= m
          /\ t.entries = Append(s, e)
          /\ DOMAIN t.top = DOMAIN u.top \cup {p[k] : k \in m + 1 .. n}
          /\ \A x \in DOMAIN u.top : t.top[x] = u.top[x]
      BY <2>2, <2>3 DEF Added
    <2> HIDE DEF t
    <2>5. DOMAIN t.top = DOMAIN u.top \cup {p[k] : k \in 1 .. n}
      <3>1. n \in Nat
        OBVIOUS
      <3> HIDE DEF n, p
      <3>2. m + 1 .. n \in SUBSET (1 .. n) /\ \A k \in 1 .. n : k <= m \/ k \in m + 1 .. n
        BY <2>4, <3>1
      <3>3. \A k \in 1 .. n : p[k] \in DOMAIN t.top
        BY <2>4, <3>2
      <3>4. QED BY <2>4, <3>2, <3>3
    <2>6. Treed(t)
      BY <2>2, <2>4, <2>5, AddedIsTreed
    <2>7. s \in Seq(Words) /\ DOMAIN s = 1 .. Len(s) /\ Len(s) \in Nat
      OBVIOUS
    <2> HIDE DEF s
    <2>8. /\ \A j \in DOMAIN s : j \in DOMAIN t.entries /\ t.entries[j] = s[j]
          /\ \A j \in DOMAIN t.entries : j \in DOMAIN s \/ t.entries[j] = e
          /\ Len(s) + 1 \in DOMAIN t.entries /\ t.entries[Len(s) + 1] = e
          /\ t.entries \in Seq(Words)
      BY <2>2, <2>4, <2>7
    <2>9. known.entries = t.entries /\ known.top = t.top
      BY <2>1 DEF UserData
    <2> HIDE DEF known
    <2>10. i \in DOMAIN known.entries /\ known.entries[i].reading = reading
      <3>1. known.entries \in Seq(Words)
        BY <2>8, <2>9
      <3>2. \E j \in DOMAIN known.entries : known.entries[j].reading = reading /\ known.entries[j].text = text
        BY <2>2, <2>8, <2>9
      <3>3. QED BY <3>1, <3>2, IndexIs
    <2>11. Treed(known)
      BY <2>6, <2>9 DEF Treed
    <2>12. GoesOn(known, u, reading)
      BY <2>2, <2>5, <2>8, <2>9, <2>4 DEF GoesOn, s, p, n
    <2>13. QED BY <2>10, <2>11, <2>12 DEF known
  <1>3. QED BY <1>1, <1>2

(* One database is another with the scores of a reading's words changed.   *)
Rescored(t, u, reading) ==
  /\ t.entries \in Seq(Words) /\ "top" \in DOMAIN t /\ t.top = u.top
  /\ DOMAIN t.entries = DOMAIN u.entries
  /\ \A j \in DOMAIN u.entries : /\ t.entries[j].reading = u.entries[j].reading
                                 /\ t.entries[j].text = u.entries[j].text
                                 /\ t.entries[j] = u.entries[j] \/ u.entries[j].reading = reading

(* A commit raises one of the reading's words.                             *)
LEMMA RaisedIs ==
  ASSUME NEW known, "top" \in DOMAIN known, "entries" \in DOMAIN known, known.entries \in Seq(Words),
         NEW reading, NEW i \in DOMAIN known.entries, known.entries[i].reading = reading,
         NEW r \in Int
  PROVE LET entry == [known.entries[i] EXCEPT !.score = r]
        IN Rescored([known EXCEPT !.entries = [@ EXCEPT ![i] = entry]], known, reading)
  <1> DEFINE s == known.entries
             w == s[i]
             entry == [w EXCEPT !.score = r]
             entries == [s EXCEPT ![i] = entry]
             t == [known EXCEPT !.entries = entries]
  <1>1. s \in Seq(Words) /\ i \in DOMAIN s /\ w.reading = reading
    OBVIOUS
  <1> HIDE DEF s
  <1>2. w \in Words
    BY <1>1
  <1> HIDE DEF w
  <1>3. entry \in Words /\ entry.reading = w.reading /\ entry.text = w.text
    BY <1>2 DEF Words
  <1> HIDE DEF entry
  <1>4. /\ entries \in Seq(Words) /\ DOMAIN entries = DOMAIN s
        /\ entries[i] = entry /\ \A j \in DOMAIN s : j # i => entries[j] = s[j]
    BY <1>1, <1>3
  <1> HIDE DEF entries
  <1>5. t.entries = entries /\ t.top = known.top /\ "top" \in DOMAIN t
    OBVIOUS
  <1> HIDE DEF t
  <1>6. Rescored(t, known, reading)
    <2> SUFFICES ASSUME NEW j \in DOMAIN s
                 PROVE /\ entries[j].reading = s[j].reading /\ entries[j].text = s[j].text
                       /\ entries[j] = s[j] \/ s[j].reading = reading
      BY <1>4, <1>5 DEF Rescored, s
    <2>1. CASE j = i
      BY <1>1, <1>3, <1>4, <2>1 DEF w
    <2>2. CASE j # i
      BY <1>4, <2>2
    <2>3. QED BY <2>1, <2>2
  <1>7. QED BY <1>6 DEF t, entries, entry, w, s

(* Away from the path of a reading nothing becomes wrong while its words   *)
(* are added and raised.                                                   *)
LEMMA RightElsewhere ==
  ASSUME NEW u, Keyed(u), Treed(u), NEW known, NEW t, Keyed(t), NEW reading \in Seq(Nat),
         GoesOn(known, u, reading), Rescored(t, known, reading),
         NEW x \in DOMAIN t.top, x \in Seq(Nat), Right(u, x), ~IsPrefix(x, reading)
  PROVE Right(t, x)
  <1>1. x \in DOMAIN u.top /\ t.top[x] = u.top[x]
    <2>1. \A k \in 1 .. Len(reading) + 1 : Path(reading)[k] # x
      BY PathLeads
    <2>2. x \in DOMAIN known.top /\ t.top = known.top
      BY DEF Rescored
    <2>3. QED BY <2>1, <2>2 DEF GoesOn
  <1> DEFINE J == Below(u, x)
             e == t.entries
             k == known.entries
             o == u.entries
  <1>2. /\ DOMAIN e = DOMAIN k
        /\ \A j \in DOMAIN k : e[j].reading = k[j].reading /\ (e[j] = k[j] \/ k[j].reading = reading)
    BY DEF Rescored
  <1>3. /\ \A j \in DOMAIN o : j \in DOMAIN k /\ k[j] = o[j]
        /\ \A j \in DOMAIN k : j \in DOMAIN o \/ k[j].reading = reading
    BY DEF GoesOn
  <1>4. /\ J = {j \in DOMAIN o : IsPrefix(x, o[j].reading)}
        /\ Below(t, x) = {j \in DOMAIN e : IsPrefix(x, e[j].reading)}
    BY DEF Below
  <1> HIDE DEF e, k, o, J
  <1>5. Below(t, x) = J /\ \A j \in J : j \in DOMAIN e /\ e[j] = o[j]
    BY <1>2, <1>3, <1>4
  <1>6. \A j \in J : t.entries[j] = u.entries[j]
    BY <1>5 DEF e, o
  <1>7. BestAmong(u.entries, J, u.top[x])
    BY DEF Right, J
  <1>8. BestAmong(t.entries, J, u.top[x])
    BY <1>6, <1>7, SameBestElsewhere
  <1>9. QED BY <1>1, <1>5, <1>8 DEF Right

(* The rebuilding of the path makes all right again.                       *)
LEMMA PathRebuilt ==
  ASSUME NEW u, Keyed(u), Sound(u), NEW known, Treed(known), NEW t, Keyed(t),
         NEW reading \in Seq(Nat), GoesOn(known, u, reading), Rescored(t, known, reading)
  PROVE Sound(Rebuild(t, Path(reading)))
  <1> DEFINE p == Path(reading)
             n == Len(reading) + 1
             v == Rebuild(t, p)
  <1>1. Treed(t) /\ t.top = known.top /\ "top" \in DOMAIN t
    BY DEF Rescored, Treed
  <1>2. n \in Nat /\ DOMAIN p = 1 .. n
    BY PathIs
  <1>3. /\ \A k \in 1 .. n : p[k] \in Seq(Nat) /\ Len(p[k]) = k - 1
        /\ \A c \in Seq(Nat) : IsPrefix(c, reading) => Len(c) + 1 \in 1 .. n /\ c = p[Len(c) + 1]
    BY PathLeads
  <1>4. \A x \in DOMAIN t.top : x \in Seq(Nat)
    BY <1>1 DEF Treed
  <1>5. ASSUME NEW x \in DOMAIN t.top
        PROVE Right(t, x) \/ (IsPrefix(x, reading) /\ Len(x) + 1 \in 1 .. n /\ x = p[Len(x) + 1])
    <2>1. CASE IsPrefix(x, reading)
      BY <1>3, <1>4, <2>1
    <2>2. CASE ~IsPrefix(x, reading)
      <3>1. x \in DOMAIN u.top
        <4>1. \A k \in 1 .. Len(reading) + 1 : Path(reading)[k] # x
          BY <2>2, PathLeads
        <4>2. QED BY <1>1, <4>1 DEF GoesOn
      <3>2. Right(u, x) /\ Treed(u)
        BY <3>1 DEF Sound
      <3>3. Right(t, x)
        BY <1>4, <2>2, <3>2, RightElsewhere
      <3>4. QED BY <3>3
    <2>3. QED BY <2>1, <2>2
  <1>6. DOMAIN t.top = DOMAIN u.top \cup {p[k] : k \in 1 .. n}
    BY <1>1 DEF GoesOn
  <1> HIDE DEF p, n
  <1>7. Listed(t, p)
    <2> SUFFICES ASSUME NEW k \in 1 .. n
                 PROVE /\ p[k] \in DOMAIN t.top
                       /\ \A c \in Children(t, p[k]) : Right(t, c) \/ \E j \in 1 .. n : j > k /\ p[j] = c
      BY <1>2 DEF Listed
    <2>1. p[k] \in DOMAIN t.top
      BY <1>6
    <2>2. ASSUME NEW c \in Children(t, p[k]), ~Right(t, c) PROVE \E j \in 1 .. n : j > k /\ p[j] = c
      <3>1. c \in DOMAIN t.top /\ Len(c) = Len(p[k]) + 1 /\ Len(p[k]) = k - 1
        BY <1>3 DEF Children
      <3>2. Len(c) + 1 \in 1 .. n /\ c = p[Len(c) + 1]
        BY <1>5, <2>2, <3>1
      <3>3. Len(c) + 1 > k
        BY <1>2, <3>1
      <3>4. QED BY <3>2, <3>3
    <2>3. QED BY <2>1, <2>2
  <1>8. /\ Like(v, t)
        /\ \A x \in DOMAIN t.top : Right(t, x) \/ (\E j \in 1 .. n : p[j] = x) => Right(v, x)
    <2> HIDE DEF v
    <2>1. QED BY <1>1, <1>2, <1>7, RebuildIsRight DEF v
  <1> HIDE DEF v
  <1>9. Treed(v) /\ DOMAIN v.top = DOMAIN t.top
    <2>1. DOMAIN v.top = DOMAIN t.top
      BY <1>8 DEF Like
    <2>2. QED BY <1>1, <1>8, <2>1, LikeKeeps
  <1>10. \A x \in DOMAIN t.top : Right(v, x)
    BY <1>5, <1>8
  <1>11. <<>> \in DOMAIN t.top
    BY <1>6 DEF Sound
  <1>12. QED BY <1>9, <1>10, <1>11 DEF Sound, v, p

(* Two databases have the same readings and texts.                         *)
SameWords(t, u) ==
  /\ DOMAIN t.entries = DOMAIN u.entries
  /\ \A j \in DOMAIN u.entries :
       t.entries[j].reading = u.entries[j].reading /\ t.entries[j].text = u.entries[j].text

(* A commit keeps every node right, and changes no word it does not add.   *)
LEMMA CommitIsRight ==
  ASSUME NEW u, TypedUser(u), Sound(u), NEW reading \in Seq(Nat), NEW text \in Seq(Nat)
  PROVE /\ Sound(Commit(u, reading, text))
        /\ SameWords(Commit(u, reading, text), EnsureEntry(u, reading, text))
  <1> DEFINE known == EnsureEntry(u, reading, text)
             i == IndexOf(known, reading, text)
             r == Raised(known.entries[i].score)
             entry == [known.entries[i] EXCEPT !.score = Raised(@)]
             t == [known EXCEPT !.entries = [@ EXCEPT ![i] = entry]]
             v == Rebuild(t, Path(reading))
  <1>1. Commit(u, reading, text) = v
    BY DEF Commit
  <1>2. TypedUser(known)
    BY EnsuredIsTyped
  <1>3. /\ i \in DOMAIN known.entries /\ known.entries[i].reading = reading
        /\ Treed(known) /\ GoesOn(known, u, reading)
    BY EnsuredIs DEF TypedUser, Sound
  <1> HIDE DEF known, i
  <1>4. known.entries \in Seq(Words) /\ "top" \in DOMAIN known /\ "entries" \in DOMAIN known
    BY <1>2 DEF TypedUser
  <1>5. r \in Int
    <2>1. known.entries[i] \in Words
      BY <1>3, <1>4
    <2>2. known.entries[i].score \in Int
      BY <2>1 DEF Words
    <2>3. QED BY <2>2, RaisedIsInt
  <1>6. Rescored(t, known, reading)
    <2>1. entry = [known.entries[i] EXCEPT !.score = r]
      OBVIOUS
    <2> HIDE DEF r, entry
    <2>2. LET w == [known.entries[i] EXCEPT !.score = r]
          IN Rescored([known EXCEPT !.entries = [@ EXCEPT ![i] = w]], known, reading)
      BY <1>3, <1>4, <1>5, RaisedIs
    <2>3. QED BY <2>1, <2>2
  <1> HIDE DEF t
  <1>7. Like(v, t)
    <2>1. Kept(v, t)
      <3>1. DOMAIN Path(reading) = 1 .. Len(reading) + 1 /\ Len(reading) + 1 \in Nat
        BY PathIs
      <3>2. QED BY <3>1, RebuildKeeps
    <2> HIDE DEF v
    <2>2. DOMAIN t = DOMAIN known
      BY DEF t
    <2>3. QED BY <1>4, <2>1, <2>2 DEF Kept, Like
  <1>8. Sound(v)
    <2>1. Keyed(t)
      BY <1>6 DEF Keyed, Rescored
    <2>2. Keyed(u)
      BY DEF Keyed, TypedUser
    <2>3. QED BY <1>3, <1>6, <2>1, <2>2, PathRebuilt
  <1> HIDE DEF v
  <1>9. SameWords(v, known)
    BY <1>6, <1>7 DEF SameWords, Like, Rescored
  <1>10. QED BY <1>1, <1>8, <1>9 DEF known

-----------------------------------------------------------------------------
(* Every state *)

(* A session started with a typed database has its types.                  *)
LEMMA StartedIsTyped ==
  ASSUME NEW u, TypedUser(u), NEW black, dict' = Started(u, black)
  PROVE Inductive'
  BY DEF Inductive, Started, PartsOfSpeech, ContextualRows

(* The files of earlier sessions have their types.                         *)
LEMMA FilesAreTyped ==
  ASSUME NEW file \in StartFiles
  PROVE file.entries \in Seq(Words) /\ TypedUser(Loaded(file))
  <1> DEFINE W == [reading : Seq(Nat), text : Seq(Nat), score : 0 .. MaxScore,
                   partOfSpeech : {"Unknown"}, category : {"None"}]
  <1>1. file.entries \in Seq(W) /\ \A key \in DOMAIN file.contexts : file.contexts[key] \in Nat
    <2>1. file.entries \in Seq(W)
      BY FileAssumption
    <2>2. \A key \in DOMAIN file.contexts : file.contexts[key] \in 1 .. MaxContextCount
      BY FileAssumption
    <2>3. QED BY <2>1, <2>2
  <1>2. W \subseteq Words
    <2>1. 0 .. MaxScore \subseteq Int
      OBVIOUS
    <2>2. QED BY <2>1 DEF Words, PartsOfSpeech, ContextualRows
  <1> HIDE DEF W
  <1>3. file.entries \in Seq(Words)
    BY <1>1, <1>2
  <1>4. QED BY <1>1, <1>3, LoadedIsTyped

(* What a commit makes of the user's database.                             *)
LEMMA LearnedUser ==
  ASSUME Inductive, NEW reading, NEW text
  PROVE LET user == IF dict.last = <<>> THEN dict.user
                    ELSE RecordContextTransition(dict.user, dict.last, reading, text)
            d == Learned(dict, reading, text)
        IN d.user = Commit(user, reading, text) /\ DOMAIN d = DOMAIN dict
           /\ \E after : after.user = d.user /\ d.pos = LookupPartOfSpeech(after, reading, text)
  <1> DEFINE user == IF dict.last = <<>> THEN dict.user
                     ELSE RecordContextTransition(dict.user, dict.last, reading, text)
             k == Commit(user, reading, text)
             after == [dict EXCEPT !.user = k, !.last = text]
             d == Learned(dict, reading, text)
  <1>1. DOMAIN dict = {"user", "black", "pos", "last"}
    BY DEF Inductive
  <1>2. d = [after EXCEPT !.pos = LookupPartOfSpeech(after, reading, text)]
    BY DEF Learned
  <1> HIDE DEF k, after, d
  <1>3. DOMAIN after = DOMAIN dict /\ after.user = k
    BY <1>1 DEF after
  <1>4. DOMAIN d = DOMAIN after /\ d.user = after.user /\ d.pos = LookupPartOfSpeech(after, reading, text)
    BY <1>1, <1>2, <1>3
  <1>5. QED BY <1>3, <1>4 DEF k, d

(* Every step keeps the types.                                             *)
LEMMA InductiveIsKept == Inductive /\ [Next]_vars => Inductive'
  <1> SUFFICES ASSUME Inductive, [Next]_vars PROVE Inductive'
    OBVIOUS
  <1>1. ASSUME NEW reading \in Readings, NEW text \in Texts, RecordCommit(reading, text)
        PROVE Inductive'
    <2> DEFINE user == IF dict.last = <<>> THEN dict.user
                       ELSE RecordContextTransition(dict.user, dict.last, reading, text)
    <2>1. reading \in Seq(Nat) /\ text \in Seq(Nat)
      BY LearningAssumption
    <2>2. TypedUser(user)
      BY TransitionIsTyped DEF Inductive
    <2>3. TypedUser(Commit(user, reading, text))
      BY <2>1, <2>2, CommitIsTyped
    <2>4. dict' = Learned(dict, reading, text)
      BY <1>1 DEF RecordCommit
    <2>5. dict'.user = Commit(user, reading, text) /\ DOMAIN dict' = DOMAIN dict
      BY <2>4, LearnedUser
    <2>6. PICK after : after.user = dict'.user /\ dict'.pos = LookupPartOfSpeech(after, reading, text)
      BY <2>4, LearnedUser
    <2> HIDE DEF user
    <2>7. dict'.pos \in PartsOfSpeech
      <3>1. Known(after)
        BY <2>3, <2>5, <2>6 DEF Known, TypedUser
      <3>2. QED BY <2>6, <3>1, LookupIs
    <2>8. QED BY <2>3, <2>5, <2>7 DEF Inductive
  <1>2. ASSUME NEW reading \in Readings, NEW text \in Texts, BlockCandidate(reading, text)
        PROVE Inductive'
    <2>1. dict' = [dict EXCEPT !.black = @ \cup {<<reading, text>>}]
      BY <1>2 DEF BlockCandidate
    <2>2. QED BY <2>1 DEF Inductive
  <1>3. CASE Restart
    <2>1. dict' = Started(Loaded(Saved(dict.user)), dict.black)
      BY <1>3 DEF Restart
    <2>2. TypedUser(Loaded(Saved(dict.user)))
      <3> DEFINE file == Saved(dict.user)
      <3>1. file.entries = dict.user.entries /\ file.contexts = dict.user.contexts
        BY DEF Saved
      <3> HIDE DEF file
      <3>2. TypedUser(Loaded(file))
        BY <3>1, LoadedIsTyped DEF Inductive, TypedUser
      <3>3. QED BY <3>2 DEF file
    <2>3. QED BY <2>1, <2>2, StartedIsTyped
  <1>4. CASE UNCHANGED vars
    BY <1>4 DEF Inductive, vars
  <1>5. QED BY <1>1, <1>2, <1>3, <1>4 DEF Next

(* The types hold of every state: databases of words with integer scores,  *)
(* and a part of speech the tables know.                                   *)
LEMMA InductiveHolds == Spec => []Inductive
  <1>1. Init => Inductive
    BY FilesAreTyped DEF Init, Inductive, Started, PartsOfSpeech, ContextualRows
  <1>2. QED BY <1>1, InductiveIsKept, PTL DEF Spec

(* Whatever has been learned, blocked and loaded, and whatever was         *)
(* committed last: the cut a conversion begins with, and every other cut   *)
(* the dynamic program could choose instead of it, is a cut of the whole   *)
(* reading, and none of all its cuts counts more; only a reading that has  *)
(* none stays whole.                                                       *)
THEOREM ConversionCutsBest == Spec => []SegmentationIsBest
  <1>1. Inductive => SegmentationIsBest
    <2> SUFFICES ASSUME Inductive, NEW reading \in Readings, NEW cut \in Cuts(dict, reading)
                 PROVE IF AllCuts(reading) = {} THEN cut = Uncut(reading)
                       ELSE /\ cut \in AllCuts(reading)
                            /\ \A other \in AllCuts(reading) :
                                 Total(dict, reading, other) <= Total(dict, reading, cut)
      BY DEF SegmentationIsBest
    <2>1. reading \in Seq(Nat) \ {<<>>}
      BY LearningAssumption
    <2>2. Known(dict) /\ dict.pos \in PartsOfSpeech
      BY DEF Inductive, TypedUser, Known
    <2>3. Scorable(dict, reading)
      BY <2>1, <2>2, ScoresExist
    <2>4. QED BY <2>3, ChosenCutIsBest
  <1>2. QED BY <1>1, InductiveHolds, PTL

-----------------------------------------------------------------------------
(* What is predicted *)

Predicting == Inductive /\ Sound(dict.user)

(* Soundness is about entries and nodes alone.                             *)
LEMMA SoundBySame ==
  ASSUME NEW t, NEW u, u.entries = t.entries, u.top = t.top, Sound(t)
  PROVE Sound(u)
  <1>1. \A x : Below(u, x) = Below(t, x)
    BY BestDependsOnEntries
  <1>2. QED BY <1>1 DEF Sound, Treed, Right

(* A database loaded from words is sound.                                  *)
LEMMA LoadedIsSound ==
  ASSUME NEW file, file.entries \in Seq(Words)
  PROVE Sound(Loaded(file)) /\ Loaded(file).entries = file.entries
  <1> DEFINE t == BuildTrie(file.entries)
             u == Loaded(file)
  <1>1. Sound(t) /\ t.entries = file.entries
    BY BuildIsRight
  <1>2. u = UserData(t, file.contexts)
    BY DEF Loaded
  <1> HIDE DEF t, u
  <1>3. u.entries = t.entries /\ u.top = t.top
    BY <1>2 DEF UserData
  <1>4. Sound(u)
    BY <1>1, <1>3, SoundBySame
  <1>5. QED BY <1>1, <1>3, <1>4 DEF u

(* The types and the trie hold of every state.                             *)
LEMMA PredictingHolds == Spec => []Predicting
  <1>1. Init => Predicting
    <2> SUFFICES ASSUME Init PROVE Predicting
      OBVIOUS
    <2>1. PICK file \in StartFiles : dict = Started(Loaded(file), {})
      BY DEF Init
    <2>2. dict.user = Loaded(file)
      BY <2>1 DEF Started
    <2>3. file.entries \in Seq(Words) /\ TypedUser(Loaded(file))
      BY FilesAreTyped
    <2>4. Sound(Loaded(file))
      BY <2>3, LoadedIsSound
    <2>5. Inductive
      BY <2>1, <2>3 DEF Inductive, Started, PartsOfSpeech, ContextualRows
    <2>6. QED BY <2>2, <2>4, <2>5 DEF Predicting
  <1>2. Inductive /\ Sound(dict.user) /\ [Next]_vars => Sound(dict.user)'
    <2> SUFFICES ASSUME Inductive, Sound(dict.user), [Next]_vars PROVE Sound(dict'.user)
      OBVIOUS
    <2>0. TypedUser(dict.user)
      BY DEF Inductive
    <2>1. ASSUME NEW reading \in Readings, NEW text \in Texts, RecordCommit(reading, text)
          PROVE Sound(dict'.user)
      <3> DEFINE user == IF dict.last = <<>> THEN dict.user
                         ELSE RecordContextTransition(dict.user, dict.last, reading, text)
      <3>1. reading \in Seq(Nat) /\ text \in Seq(Nat)
        BY LearningAssumption
      <3>2. dict'.user = Commit(user, reading, text)
        BY <2>1, LearnedUser DEF RecordCommit
      <3>3. TypedUser(user) /\ user.entries = dict.user.entries /\ user.top = dict.user.top
        BY <2>0, TransitionIsTyped
      <3> HIDE DEF user
      <3>4. Sound(user)
        BY <3>3, SoundBySame
      <3>5. QED BY <3>1, <3>2, <3>3, <3>4, CommitIsRight
    <2>2. ASSUME NEW reading \in Readings, NEW text \in Texts, BlockCandidate(reading, text)
          PROVE Sound(dict'.user)
      <3>1. dict' = [dict EXCEPT !.black = @ \cup {<<reading, text>>}]
        BY <2>2 DEF BlockCandidate
      <3>2. dict'.user = dict.user
        BY <3>1
      <3>3. QED BY <3>2
    <2>3. CASE Restart
      <3>1. dict'.user = Loaded(Saved(dict.user))
        BY <2>3 DEF Restart, Started
      <3>2. Saved(dict.user).entries \in Seq(Words)
        BY <2>0 DEF TypedUser, Saved
      <3>3. QED BY <3>1, <3>2, LoadedIsSound
    <2>4. CASE UNCHANGED vars
      BY <2>4 DEF vars
    <2>5. QED BY <2>1, <2>2, <2>3, <2>4 DEF Next
  <1>3. Predicting /\ [Next]_vars => Predicting'
    BY <1>2, InductiveIsKept DEF Predicting
  <1>4. QED BY <1>1, <1>3, PTL DEF Spec

(* Whatever was committed, in whatever order, after whatever restarts:     *)
(* every node of the user's trie, which a commit rebuilds along one path   *)
(* and a start from the last node made to the first, lists the best of all *)
(* the words below it, in whatever order the sort leaves those that tie.   *)
THEOREM PredictionsStayBest == Spec => []PredictionsAreBest
  <1>1. Predicting => PredictionsAreBest
    BY DEF Predicting, Sound, Right, BestAmong, PredictionsAreBest, ListsBest
  <1>2. QED BY <1>1, PredictingHolds, PTL

-----------------------------------------------------------------------------
(* What is sifted out of a list *)

(* The positions up to k of those that are wanted.                         *)
Wanted(items, reading, are, k) == {j \in 1 .. k : IsFallback(reading, items[j]) = are}

Taken(some, c, reading, are) == IF IsFallback(reading, c) = are THEN Append(some, c) ELSE some

Sifts(items, reading, are, n, G) ==
  G = [S \in SUBSET (1 .. n) |->
         IF S = {} THEN <<>> ELSE Taken(G[S \ {Max(S)}], items[Max(S)], reading, are)]

(* Any list can be sifted one by one.                                      *)
LEMMA SiftExists ==
  ASSUME NEW items, NEW reading, NEW are, NEW n \in Nat
  PROVE \E G : Sifts(items, reading, are, n, G)
  <1> DEFINE Bad == {k \in Nat : ~\E G : Sifts(items, reading, are, k, G)}
  <1>1. ASSUME Bad # {} PROVE FALSE
    <2>1. Bad \in SUBSET Nat
      OBVIOUS
    <2>2. PICK k \in Bad : \A j \in Bad : k <= j
      <3> HIDE DEF Bad
      <3>1. QED BY <1>1, <2>1, LeastNumber
    <2>3. k \in Nat /\ ~\E G : Sifts(items, reading, are, k, G)
      BY <2>2
    <2>4. CASE k = 0
      <3> DEFINE G == [S \in SUBSET (1 .. k) |-> <<>>]
      <3>1. \A S \in SUBSET (1 .. k) : S = {}
        BY <2>4
      <3>2. Sifts(items, reading, are, k, G)
        BY <3>1 DEF Sifts
      <3>3. QED BY <2>3, <3>2
    <2>5. CASE k # 0
      <3>1. k - 1 \in Nat /\ k \in Nat \ {0} /\ k - 1 \notin Bad
        BY <2>2, <2>3, <2>5
      <3>2. PICK G : Sifts(items, reading, are, k - 1, G)
        BY <3>1
      <3> DEFINE H == [S \in SUBSET (1 .. k) |->
                         IF k \in S THEN Taken(G[S \ {k}], items[k], reading, are) ELSE G[S]]
      <3>3. ASSUME NEW S \in SUBSET (1 .. k)
            PROVE H[S] = IF S = {} THEN <<>>
                         ELSE Taken(H[S \ {Max(S)}], items[Max(S)], reading, are)
        <4>1. CASE k \in S
          <5>1. Max(S) = k
            BY <3>1, <4>1, MaxIsTop
          <5>2. S \ {k} \in SUBSET (1 .. k) /\ k \notin S \ {k}
            OBVIOUS
          <5>3. H[S \ {k}] = G[S \ {k}]
            BY <5>2
          <5>4. QED BY <4>1, <5>1, <5>3
        <4>2. CASE k \notin S
          <5>1. S \in SUBSET (1 .. k - 1)
            BY <3>1, <4>2
          <5>2. G[S] = IF S = {} THEN <<>> ELSE Taken(G[S \ {Max(S)}], items[Max(S)], reading, are)
            BY <3>2, <5>1 DEF Sifts
          <5>3. H[S \ {Max(S)}] = G[S \ {Max(S)}]
            BY <4>2
          <5>4. H[S] = G[S]
            BY <4>2
          <5>5. QED BY <5>2, <5>3, <5>4
        <4>3. QED BY <4>1, <4>2
      <3>4. H = [S \in SUBSET (1 .. k) |-> H[S]]
        OBVIOUS
      <3> HIDE DEF H
      <3>5. Sifts(items, reading, are, k, H)
        BY <3>3, <3>4 DEF Sifts
      <3>6. QED BY <2>3, <3>5
    <2>6. QED BY <2>4, <2>5
  <1>2. QED BY <1>1

(* What s is when it has those of the first k that are wanted, in order.   *)
Sifted(s, items, reading, are, k) ==
  LET m == Cardinality(Wanted(items, reading, are, k))
      place(j) == Cardinality(Wanted(items, reading, are, j))
  IN /\ DOMAIN s = 1 .. m /\ s = [p \in 1 .. m |-> s[p]]
     /\ \A j \in Wanted(items, reading, are, k) : place(j) \in 1 .. m /\ s[place(j)] = items[j]
     /\ \A p \in 1 .. m : \E j \in Wanted(items, reading, are, k) : p = place(j) /\ s[p] = items[j]

(* The positions wanted, one further on.                                   *)
LEMMA WantedOn ==
  ASSUME NEW items, NEW reading, NEW are, NEW k \in Nat \ {0}
  PROVE LET w == IsFallback(reading, items[k]) = are
            before == Wanted(items, reading, are, k - 1)
            now == Wanted(items, reading, are, k)
        IN /\ IsFiniteSet(now) /\ Cardinality(now) \in Nat /\ Cardinality(before) \in Nat
           /\ IF w THEN now = before \cup {k} /\ k \notin before
                        /\ Cardinality(now) = Cardinality(before) + 1
              ELSE now = before
  <1> DEFINE w == IsFallback(reading, items[k]) = are
             before == Wanted(items, reading, are, k - 1)
             now == Wanted(items, reading, are, k)
  <1>1. IsFiniteSet(1 .. k)
    BY FS_Interval
  <1>2. now \in SUBSET (1 .. k) /\ before \in SUBSET (1 .. k) /\ k \notin before
    BY DEF Wanted
  <1>3. IsFiniteSet(now) /\ IsFiniteSet(before)
    BY <1>1, <1>2, FS_Subset
  <1>4. 1 .. k = (1 .. k - 1) \cup {k}
    OBVIOUS
  <1>5. IF w THEN now = before \cup {k} ELSE now = before
    BY <1>4 DEF Wanted
  <1> HIDE DEF w, before, now
  <1>6. Cardinality(now) \in Nat /\ Cardinality(before) \in Nat
    BY <1>3, FS_CardinalityType
  <1>7. w => Cardinality(now) = Cardinality(before) + 1
    BY <1>2, <1>3, <1>5, FS_AddElement
  <1>8. QED BY <1>2, <1>3, <1>5, <1>6, <1>7 DEF w, before, now

(* Taking one more, or leaving it.                                         *)
LEMMA SiftedOn ==
  ASSUME NEW items, NEW reading, NEW are, NEW k \in Nat \ {0}, NEW s,
         Sifted(s, items, reading, are, k - 1)
  PROVE Sifted(Taken(s, items[k], reading, are), items, reading, are, k)
  <1> DEFINE w == IsFallback(reading, items[k]) = are
             W(j) == Wanted(items, reading, are, j)
             P(j) == Cardinality(W(j))
             m == P(k - 1)
             n == P(k)
             t == Taken(s, items[k], reading, are)
  <1>1. /\ IsFiniteSet(W(k)) /\ n \in Nat /\ m \in Nat
        /\ IF w THEN W(k) = W(k - 1) \cup {k} /\ k \notin W(k - 1) /\ n = m + 1
           ELSE W(k) = W(k - 1)
    BY WantedOn
  <1>2. /\ DOMAIN s = 1 .. m /\ s = [p \in 1 .. m |-> s[p]]
        /\ \A j \in W(k - 1) : P(j) \in 1 .. m /\ s[P(j)] = items[j]
        /\ \A p \in 1 .. m : \E j \in W(k - 1) : p = P(j) /\ s[p] = items[j]
    BY DEF Sifted
  <1>3. CASE ~w
    <2>1. t = s
      BY <1>3 DEF Taken
    <2>2. W(k) = W(k - 1)
      BY <1>1, <1>3
    <2>3. QED BY <2>1, <2>2 DEF Sifted
  <1>4. CASE w
    <2>1. t = Append(s, items[k])
      BY <1>4 DEF Taken
    <2>2. W(k) = W(k - 1) \cup {k} /\ n = m + 1 /\ P(k) = n
      BY <1>1, <1>4
    <2> DEFINE c == items[k]
               M == 1 .. m
    <2> HIDE DEF w, W, P, m, n, t, c
    <2>3. t = Append(s, c)
      BY <2>1 DEF c
    <2>4. t = [p \in 1 .. m + 1 |-> IF p = m + 1 THEN c ELSE s[p]]
      <3>1. m \in Nat /\ s = [p \in 1 .. m |-> s[p]]
        BY <1>1, <1>2
      <3>2. Len(s) = m
        BY <3>1
      <3>3. QED BY <2>3, <3>1, <3>2
    <2>5. DOMAIN t = 1 .. n /\ t = [p \in 1 .. n |-> t[p]] /\ t[n] = c /\ \A p \in 1 .. m : t[p] = s[p] /\ p \in 1 .. n
      BY <1>1, <2>2, <2>4
    <2>6. \A j \in W(k) : P(j) \in 1 .. n /\ t[P(j)] = items[j]
      <3>1. n \in 1 .. n
        BY <1>1, <2>2
      <3>2. QED BY <1>2, <2>2, <2>5, <3>1 DEF c
    <2>7. \A p \in 1 .. n : \E j \in W(k) : p = P(j) /\ t[p] = items[j]
      <3>1. \A p \in 1 .. n : p \in 1 .. m \/ p = n
        BY <1>1, <2>2
      <3>2. QED BY <1>2, <2>2, <2>5, <3>1 DEF c
    <2>8. QED BY <2>5, <2>6, <2>7 DEF Sifted, n, P, W, t
  <1>5. QED BY <1>3, <1>4

(* Those are all that are wanted, in their order.                          *)
LEMMA ThoseAre ==
  ASSUME NEW T, NEW n \in Nat, NEW items \in [1 .. n -> T], NEW reading, NEW are
  PROVE Sifted(Those(items, reading, are), items, reading, are, n)
  <1> DEFINE G == CHOOSE G : G = [S \in SUBSET DOMAIN items |->
                    IF S = {} THEN <<>>
                    ELSE IF IsFallback(reading, items[Max(S)]) = are
                         THEN Append(G[S \ {Max(S)}], items[Max(S)]) ELSE G[S \ {Max(S)}]]
             those == Those(items, reading, are)
  <1>1. DOMAIN items = 1 .. n
    OBVIOUS
  <1>2. those = G[DOMAIN items]
    BY Zenon DEF Those, FoldLeft, MapThenFoldSet
  <1>3. \E H : H = [S \in SUBSET DOMAIN items |->
                    IF S = {} THEN <<>>
                    ELSE IF IsFallback(reading, items[Max(S)]) = are
                         THEN Append(H[S \ {Max(S)}], items[Max(S)]) ELSE H[S \ {Max(S)}]]
    <2>1. PICK H : Sifts(items, reading, are, n, H)
      BY SiftExists
    <2>2. QED BY <1>1, <2>1 DEF Sifts, Taken
  <1>4. Sifts(items, reading, are, n, G)
    <2>1. G = [S \in SUBSET DOMAIN items |->
                    IF S = {} THEN <<>>
                    ELSE IF IsFallback(reading, items[Max(S)]) = are
                         THEN Append(G[S \ {Max(S)}], items[Max(S)]) ELSE G[S \ {Max(S)}]]
      BY <1>3, Zenon
    <2> HIDE DEF G
    <2>2. QED BY <1>1, <2>1 DEF Sifts, Taken
  <1> HIDE DEF G, those
  <1>5. G[1 .. 0] = <<>>
    <2>1. 1 .. 0 \in SUBSET (1 .. n) /\ 1 .. 0 = {}
      OBVIOUS
    <2>2. QED BY <1>4, <2>1 DEF Sifts
  <1>6. ASSUME NEW k \in 1 .. n PROVE G[1 .. k] = Taken(G[1 .. k - 1], items[k], reading, are)
    <2>1. 1 .. k \in SUBSET (1 .. n) /\ 1 .. k # {} /\ k \in 1 .. k /\ k \in Nat \ {0}
      BY FirstOnes
    <2>2. Max(1 .. k) = k
      BY <2>1, MaxIsTop
    <2>3. (1 .. k) \ {k} = 1 .. k - 1
      BY <2>1
    <2>4. G[1 .. k] = Taken(G[(1 .. k) \ {Max(1 .. k)}], items[Max(1 .. k)], reading, are)
      BY <1>4, <2>1 DEF Sifts
    <2>5. QED BY <2>2, <2>3, <2>4
  <1> DEFINE Fine(k) == Sifted(G[1 .. k], items, reading, are, k)
             Good == {j \in 1 .. n + 1 : Fine(j - 1)}
  <1>7. ASSUME NEW j \in 1 .. n + 1, \A i \in 1 .. j - 1 : i \in Good PROVE Fine(j - 1)
    <2>1. CASE j = 1
      <3>1. Wanted(items, reading, are, 0) = {}
        BY DEF Wanted
      <3>2. Cardinality({}) = 0 /\ 1 .. 0 = {}
        BY FS_EmptySet
      <3> DEFINE e == <<>>
      <3>3. DOMAIN e = {} /\ e = [p \in {} |-> e[p]]
        OBVIOUS
      <3> HIDE DEF e
      <3>4. Sifted(e, items, reading, are, 0)
        BY <3>1, <3>2, <3>3 DEF Sifted
      <3>5. j - 1 = 0 /\ G[1 .. 0] = e
        BY <1>5, <2>1 DEF e
      <3>6. QED BY <3>4, <3>5
    <2>2. CASE j # 1
      <3> DEFINE k == j - 1
      <3>1. k \in 1 .. n /\ k \in 1 .. j - 1 /\ k \in Nat \ {0}
        BY <2>2
      <3>2. k \in Good
        BY <1>7, <3>1
      <3>3. Fine(k - 1)
        BY <3>2
      <3> HIDE DEF k
      <3>4. Fine(k)
        BY <1>6, <3>1, <3>3, SiftedOn
      <3>5. QED BY <3>4 DEF k
    <2>3. QED BY <2>1, <2>2
  <1>8. Fine(n)
    <2>1. \A j \in 1 .. n + 1 : (\A i \in 1 .. j - 1 : i \in Good) => j \in Good
      BY <1>7
    <2>2. Good \in SUBSET (1 .. n + 1) /\ n + 1 \in Nat /\ n + 1 \in 1 .. n + 1 /\ n + 1 - 1 = n
      OBVIOUS
    <2>3. n + 1 \in Good
      <3> HIDE DEF Good
      <3>1. QED BY <2>1, <2>2, EveryPosition
    <2>4. Fine(n + 1 - 1)
      BY <2>3
    <2> HIDE DEF Fine
    <2>5. QED BY <2>2, <2>4
  <1>9. QED BY <1>1, <1>2, <1>8 DEF those

(* Every item is a fallback or none.                                       *)
LEMMA FallbackOrNone ==
  ASSUME NEW items, NEW reading, NEW n \in Nat
  PROVE LET none == Wanted(items, reading, FALSE, n)
            some == Wanted(items, reading, TRUE, n)
        IN /\ Cardinality(none) \in Nat /\ Cardinality(some) \in Nat
           /\ Cardinality(none) + Cardinality(some) = n
  <1> DEFINE none == Wanted(items, reading, FALSE, n)
             some == Wanted(items, reading, TRUE, n)
             I == 1 .. n
  <1>1. \A j : IsFallback(reading, items[j]) \in BOOLEAN
    BY DEF IsFallback
  <1>2. none \cup some = I /\ none \cap some = {}
    BY <1>1 DEF Wanted
  <1>3. IsFiniteSet(I) /\ Cardinality(I) = n
    BY FS_Interval
  <1> HIDE DEF none, some, I
  <1>4. IsFiniteSet(none) /\ IsFiniteSet(some)
    <2>1. none \in SUBSET I /\ some \in SUBSET I
      BY <1>2
    <2>2. QED BY <1>3, <2>1, FS_Subset
  <1>5. Cardinality(none \cup some) = Cardinality(none) + Cardinality(some) - Cardinality(none \cap some)
    BY <1>4, FS_Union
  <1>6. Cardinality(none) \in Nat /\ Cardinality(some) \in Nat /\ Cardinality({}) = 0
    BY <1>4, FS_CardinalityType, FS_EmptySet
  <1> DEFINE k == Cardinality(none)
             m == Cardinality(some)
  <1>7. k \in Nat /\ m \in Nat /\ n = k + m - 0
    BY <1>2, <1>3, <1>5, <1>6
  <1> HIDE DEF k, m
  <1>8. k + m = n
    BY <1>7
  <1>9. QED BY <1>7, <1>8 DEF none, some, k, m

Reorders(surface, pos) == surface # <<>> /\ pos \in {"Particle", "Copula", "Ending", "Modal"}

(* A list holds the items of another, as many of them; what is no fallback *)
(* stands behind as many others that are none as before.                   *)
Rearranged(list, items, reading, n) ==
  LET place(j) == Cardinality(Wanted(items, reading, FALSE, j))
  IN /\ list = [p \in 1 .. n |-> list[p]]
     /\ \A p \in 1 .. n : \E j \in 1 .. n : list[p] = items[j]
     /\ \A j \in 1 .. n : \E p \in 1 .. n : list[p] = items[j]
     /\ \A j \in 1 .. n : ~IsFallback(reading, items[j]) =>
          place(j) \in 1 .. n /\ list[place(j)] = items[j]
     /\ \A p \in 1 .. n : ~IsFallback(reading, list[p]) =>
          \E j \in 1 .. n : p = place(j) /\ list[p] = items[j]

(* That is what the predictions are when they are reordered.               *)
LEMMA ReorderedAre ==
  ASSUME NEW T, NEW n \in Nat, NEW items \in [1 .. n -> T], NEW reading, NEW pos, NEW surface
  PROVE LET list == ReorderFallbackPredictions(reading, pos, surface, items)
        IN IF Reorders(surface, pos) THEN Rearranged(list, items, reading, n) ELSE list = items
  <1> DEFINE list == ReorderFallbackPredictions(reading, pos, surface, items)
             a == Those(items, reading, FALSE)
             b == Those(items, reading, TRUE)
             A == Wanted(items, reading, FALSE, n)
             B == Wanted(items, reading, TRUE, n)
             place(j) == Cardinality(Wanted(items, reading, FALSE, j))
             back(j) == Cardinality(Wanted(items, reading, TRUE, j))
             k == Cardinality(A)
             m == Cardinality(B)
  <1>1. CASE ~Reorders(surface, pos)
    BY <1>1 DEF Reorders, ReorderFallbackPredictions
  <1>2. CASE Reorders(surface, pos)
    <2>1. list = a \o b
      BY <1>2 DEF Reorders, ReorderFallbackPredictions
    <2>2. k \in Nat /\ m \in Nat /\ k + m = n
      BY FallbackOrNone
    <2>3. /\ DOMAIN a = 1 .. k /\ a = [p \in 1 .. k |-> a[p]]
          /\ \A j \in A : place(j) \in 1 .. k /\ a[place(j)] = items[j]
          /\ \A p \in 1 .. k : \E j \in A : p = place(j) /\ a[p] = items[j]
      <3>1. Sifted(a, items, reading, FALSE, n)
        BY ThoseAre
      <3>2. QED BY <3>1 DEF Sifted
    <2>4. /\ DOMAIN b = 1 .. m /\ b = [p \in 1 .. m |-> b[p]]
          /\ \A j \in B : back(j) \in 1 .. m /\ b[back(j)] = items[j]
          /\ \A p \in 1 .. m : \E j \in B : p = back(j) /\ b[p] = items[j]
      <3>1. Sifted(b, items, reading, TRUE, n)
        BY ThoseAre
      <3>2. QED BY <3>1 DEF Sifted
    <2>5. /\ \A j \in A : j \in 1 .. n /\ ~IsFallback(reading, items[j])
          /\ \A j \in B : j \in 1 .. n /\ IsFallback(reading, items[j])
          /\ \A j \in 1 .. n : IF IsFallback(reading, items[j]) THEN j \in B ELSE j \in A
      <3>1. \A j : IsFallback(reading, items[j]) \in BOOLEAN
        BY DEF IsFallback
      <3>2. QED BY <3>1 DEF Wanted
    <2> HIDE DEF list, a, b, A, B, place, back, k, m
    <2>6. /\ list = [p \in 1 .. n |-> list[p]]
          /\ \A p \in 1 .. k : p \in 1 .. n /\ list[p] = a[p]
          /\ \A p \in 1 .. m : p + k \in 1 .. n /\ list[p + k] = b[p]
          /\ \A p \in 1 .. n : p \notin 1 .. k => p - k \in 1 .. m /\ list[p] = b[p - k]
      <3>1. Len(a) = k /\ Len(b) = m
        BY <2>2, <2>3, <2>4
      <3>2. list = [p \in 1 .. k + m |-> IF p <= k THEN a[p] ELSE b[p - k]]
        <4>1. a \o b = [p \in 1 .. Len(a) + Len(b) |-> IF p <= Len(a) THEN a[p] ELSE b[p - Len(a)]]
          BY <2>2, <2>3, <2>4
        <4>2. QED BY <2>1, <3>1, <4>1
      <3>3. QED BY <2>2, <3>2
    <2>7. ASSUME NEW p \in 1 .. n PROVE \E j \in 1 .. n : list[p] = items[j]
      <3>1. CASE p \in 1 .. k
        BY <2>3, <2>5, <2>6, <3>1
      <3>2. CASE p \notin 1 .. k
        <4>1. p - k \in 1 .. m /\ list[p] = b[p - k]
          BY <2>6, <3>2
        <4> DEFINE q == p - k
        <4> HIDE DEF q
        <4>2. q \in 1 .. m /\ list[p] = b[q]
          BY <4>1 DEF q
        <4>3. QED BY <2>4, <2>5, <4>2
      <3>3. QED BY <3>1, <3>2
    <2>8. ASSUME NEW j \in 1 .. n PROVE \E p \in 1 .. n : list[p] = items[j]
      <3>1. CASE j \in A
        BY <2>3, <2>6, <3>1
      <3>2. CASE j \in B
        <4>1. back(j) \in 1 .. m /\ b[back(j)] = items[j]
          BY <2>4, <3>2
        <4>2. back(j) + k \in 1 .. n /\ list[back(j) + k] = b[back(j)]
          BY <2>6, <4>1
        <4>3. QED BY <4>1, <4>2
      <3>3. QED BY <2>5, <3>1, <3>2
    <2>9. \A j \in 1 .. n : ~IsFallback(reading, items[j]) => place(j) \in 1 .. n /\ list[place(j)] = items[j]
      BY <2>3, <2>5, <2>6
    <2>10. ASSUME NEW p \in 1 .. n, ~IsFallback(reading, list[p])
           PROVE \E j \in 1 .. n : p = place(j) /\ list[p] = items[j]
      <3>1. CASE p \in 1 .. k
        BY <2>3, <2>5, <2>6, <3>1
      <3>2. CASE p \notin 1 .. k
        <4>1. PICK j \in B : list[p] = items[j]
          <5>1. p - k \in 1 .. m /\ list[p] = b[p - k]
            BY <2>6, <3>2
          <5> DEFINE q == p - k
          <5> HIDE DEF q
          <5>2. q \in 1 .. m /\ list[p] = b[q]
            BY <5>1 DEF q
          <5>3. QED BY <2>4, <5>2
        <4>2. QED BY <2>5, <2>10, <4>1
      <3>3. QED BY <3>1, <3>2
    <2>11. Rearranged(list, items, reading, n)
      BY <2>6, <2>7, <2>8, <2>9, <2>10 DEF Rearranged, place
    <2>12. QED BY <1>2, <2>11 DEF list
  <1>3. QED BY <1>1, <1>2
-----------------------------------------------------------------------------
(* What stands before a word *)

Named(x, reading, text) == x.reading = reading /\ x.text = text
SameWord(x, y) == x.reading = y.reading /\ x.text = y.text

(* Of each in A there is one in B that scores as much.                     *)
Covers(B, A) == \A a \in A : \E b \in B : SameWord(a, b) /\ b.score >= a.score

(* Then B has as many.                                                     *)
LEMMA CoverCounts ==
  ASSUME NEW A, NEW B, IsFiniteSet(B), \A x, y \in A : SameWord(x, y) => x = y, Covers(B, A)
  PROVE IsFiniteSet(A) /\ Cardinality(A) <= Cardinality(B)
  <1> DEFINE g == [a \in A |-> CHOOSE b \in B : SameWord(a, b) /\ b.score >= a.score]
  <1>1. \A a \in A : g[a] \in B /\ SameWord(a, g[a])
    BY DEF Covers
  <1>2. g \in [A -> B]
    BY <1>1
  <1> HIDE DEF g
  <1>3. \A x, y \in A : g[x] = g[y] => x = y
    BY <1>1 DEF SameWord
  <1>4. g \in Injection(A, B)
    BY <1>2, <1>3 DEF Injection, IsInjective
  <1>5. QED BY <1>4, FS_Injection

(* One that scores more stays before what scores less.                     *)
LEMMA BetterWhenMore ==
  ASSUME NEW x, NEW y, NEW u, NEW v, Item(x), Item(y), Item(u), Item(v),
         SameWord(x, u), SameWord(y, v), u.score <= x.score, v.score >= y.score,
         Better(y, x) \/ Ties(y, x)
  PROVE /\ Better(v, u) \/ Ties(v, u)
        /\ Better(y, x) => Better(v, u)
  <1> DEFINE l == Len(x.reading)
             m == Len(y.reading)
             yx == TextLess(y.text, x.text)
             same == y.text = x.text
  <1>1. /\ x.score \in Int /\ y.score \in Int /\ u.score \in Int /\ v.score \in Int
        /\ l \in Nat /\ m \in Nat
    BY DEF Item
  <1>2. /\ Better(y, x) <=> y.score > x.score \/ (y.score = x.score /\ (m < l \/ (m = l /\ yx)))
        /\ Ties(y, x) <=> y.score = x.score /\ m = l /\ same
    BY DEF Better, Ties
  <1>3. /\ Better(v, u) <=> v.score > u.score \/ (v.score = u.score /\ (m < l \/ (m = l /\ yx)))
        /\ Ties(v, u) <=> v.score = u.score /\ m = l /\ same
    BY DEF Better, Ties, SameWord
  <1> HIDE DEF l, m, yx, same
  <1>4. QED BY <1>1, <1>2, <1>3

(* Candidates to choose from: each word once.                              *)
Selection(S) ==
  IsFiniteSet(S) /\ (\A x \in S : Item(x)) /\ \A x, y \in S : SameWord(x, y) => x = y
AsIs(S) == [c \in S |-> c]

(* They can be ranked; where nothing ties, by what is better.              *)
LEMMA SelectionIsRankable ==
  ASSUME NEW S, Selection(S)
  PROVE /\ DOMAIN AsIs(S) = S /\ \A x \in S : AsIs(S)[x] = x
        /\ Rankable(AsIs(S)) /\ \A limit : SortAndTrim(S, limit) = FirstOf(Ranked(AsIs(S)), limit)
        /\ IsDecided(AsIs(S)) => \A x, y \in S : Ties(x, y) => x = y
        /\ IsDecided(AsIs(S)) => \A x, y \in S : Ahead(AsIs(S), x, y) <=> Better(x, y)
        /\ \A x, y \in S : Ahead(AsIs(S), x, y) => Better(x, y) \/ Ties(x, y)
        /\ \A x \in S : ~Ahead(AsIs(S), x, x)
  <1>1. DOMAIN AsIs(S) = S /\ \A x \in S : AsIs(S)[x] = x
    BY DEF AsIs
  <1>2. Rankable(AsIs(S))
    BY <1>1 DEF Rankable, Selection
  <1>3. \A limit : SortAndTrim(S, limit) = FirstOf(Ranked(AsIs(S)), limit)
    BY DEF SortAndTrim, AsIs
  <1>4. IsDecided(AsIs(S)) => \A x, y \in S : Ties(x, y) => x = y
    BY <1>1 DEF IsDecided
  <1>5. \A x \in S : ~Ahead(AsIs(S), x, x)
    BY <1>1, <1>2, OneIsAhead
  <1>6. \A x, y \in S : Ahead(AsIs(S), x, y) => Better(x, y) \/ Ties(x, y)
    BY <1>1 DEF Ahead
  <1>7. \A x, y \in S : Better(x, y) => Ahead(AsIs(S), x, y)
    BY <1>1 DEF Ahead
  <1>8. QED BY <1>1, <1>2, <1>3, <1>4, <1>5, <1>6, <1>7

(* All that is before a word, or all there is if the word is not.          *)
InFront(S, reading, text) == {y \in S : \A x \in S : Named(x, reading, text) => Ahead(AsIs(S), y, x)}

(* From S to T the word scores no less, and all others no more.            *)
Raises(S, T, reading, text) ==
  /\ \A y \in T : ~Named(y, reading, text) => \E s \in S : SameWord(y, s) /\ s.score >= y.score
  /\ \A x \in S : Named(x, reading, text) => \E z \in T : SameWord(x, z) /\ z.score >= x.score

(* Then no more stand before it, if no tie decided what did.               *)
LEMMA FrontShrinks ==
  ASSUME NEW S, NEW T, Selection(S), Selection(T), IsDecided(AsIs(S)),
         NEW reading, NEW text, Raises(S, T, reading, text)
  PROVE /\ Covers(InFront(S, reading, text), InFront(T, reading, text))
        /\ IsFiniteSet(InFront(S, reading, text)) /\ IsFiniteSet(InFront(T, reading, text))
        /\ Cardinality(InFront(T, reading, text)) <= Cardinality(InFront(S, reading, text))
  <1> DEFINE A == InFront(T, reading, text)
             B == InFront(S, reading, text)
  <1>1. ASSUME NEW a \in A PROVE \E s \in B : SameWord(a, s) /\ s.score >= a.score
    <2>1. a \in T /\ \A x \in T : Named(x, reading, text) => Ahead(AsIs(T), a, x)
      BY DEF InFront
    <2>2. ~Named(a, reading, text)
      BY <2>1, SelectionIsRankable
    <2>3. PICK s \in S : SameWord(a, s) /\ s.score >= a.score
      BY <2>1, <2>2 DEF Raises
    <2>4. ASSUME NEW x \in S, Named(x, reading, text) PROVE Ahead(AsIs(S), s, x)
      <3>1. PICK z \in T : SameWord(x, z) /\ z.score >= x.score
        BY <2>4 DEF Raises
      <3>2. Ahead(AsIs(T), a, z)
        BY <2>1, <2>4, <3>1 DEF Named, SameWord
      <3>3. Item(a) /\ Item(z) /\ Item(s) /\ Item(x)
        BY <2>1 DEF Selection
      <3>4. SameWord(z, x) /\ SameWord(a, s) /\ x.score <= z.score /\ s.score >= a.score
        BY <2>3, <3>1, <3>3 DEF SameWord, Item
      <3>5. Better(a, z) \/ Ties(a, z)
        BY <2>1, <3>2, SelectionIsRankable
      <3>6. Better(s, x) \/ Ties(s, x)
        BY <3>3, <3>4, <3>5, BetterWhenMore
      <3>7. s # x
        BY <2>2, <2>3, <2>4 DEF Named, SameWord
      <3>8. QED BY <3>6, <3>7, SelectionIsRankable
    <2>5. s \in B
      BY <2>4 DEF InFront
    <2>6. QED BY <2>3, <2>5
  <1>2. A \in SUBSET T /\ B \in SUBSET S
    BY DEF InFront
  <1> HIDE DEF A, B
  <1>3. IsFiniteSet(A) /\ IsFiniteSet(B)
    BY <1>2, FS_Subset DEF Selection
  <1>4. \A x, y \in A : SameWord(x, y) => x = y
    BY <1>2 DEF Selection
  <1>5. Covers(B, A)
    BY <1>1 DEF Covers
  <1>6. Cardinality(A) <= Cardinality(B)
    BY <1>3, <1>4, <1>5, CoverCounts
  <1>7. QED BY <1>3, <1>5, <1>6 DEF A, B

(* Where a word stands in a list that has it once, and in one that has not.*)
LEMMA PlaceOf ==
  ASSUME NEW m \in Nat, NEW list, list = [p \in 1 .. m |-> list[p]], NEW reading, NEW text
  PROVE /\ \A p \in 1 .. m :
             /\ Named(list[p], reading, text)
             /\ \A q \in 1 .. m : Named(list[q], reading, text) => q = p
             => Place(list, reading, text) = p
        /\ (\A p \in 1 .. m : ~Named(list[p], reading, text)) => Place(list, reading, text) = m + 1
  <1> DEFINE I == {i \in 1 .. Len(list) : list[i].reading = reading /\ list[i].text = text}
             i == IF I # {} THEN Min(I) ELSE 0
  <1>1. Len(list) = m
    OBVIOUS
  <1>2. Place(list, reading, text) = IF i = 0 THEN m + 1 ELSE i
    BY <1>1 DEF Place, SelectInSeq
  <1>3. I = {p \in 1 .. m : Named(list[p], reading, text)}
    BY <1>1 DEF Named
  <1> HIDE DEF I
  <1>4. ASSUME NEW p \in 1 .. m, Named(list[p], reading, text),
               \A q \in 1 .. m : Named(list[q], reading, text) => q = p
        PROVE i = p /\ p # 0
    <2>1. I = {p}
      BY <1>3, <1>4
    <2>2. Min({p}) \in {p, p}
      <3>1. p \in Int /\ {p, p} = {p}
        OBVIOUS
      <3>2. QED BY <3>1, SmallerIs
    <2>3. QED BY <2>1, <2>2
  <1>5. (\A p \in 1 .. m : ~Named(list[p], reading, text)) => i = 0
    BY <1>3
  <1> HIDE DEF i
  <1>6. QED BY <1>2, <1>4, <1>5

(* What is shown of S: the first in their order.                           *)
Shows(list, S, m, limit) ==
  /\ m <= Cardinality(S) /\ m <= limit /\ (m = Cardinality(S) \/ m = limit)
  /\ list \in [1 .. m -> S] /\ list = [p \in 1 .. m |-> list[p]]
  /\ \A i \in 1 .. m : Rank(AsIs(S), list[i]) = i - 1
  /\ \A x \in S : /\ Rank(AsIs(S), x) \in Nat /\ Rank(AsIs(S), x) < Cardinality(S)
                  /\ Rank(AsIs(S), x) < m => list[Rank(AsIs(S), x) + 1] = x

LEMMA ShownIs ==
  ASSUME NEW S, Selection(S), NEW limit \in Nat
  PROVE /\ Cardinality(S) \in Nat
        /\ \E m \in Nat : Shows(SortAndTrim(S, limit), S, m, limit)
  <1> DEFINE n == Cardinality(S)
             r == Ranked(AsIs(S))
             list == SortAndTrim(S, limit)
  <1>0. DOMAIN AsIs(S) = S /\ Rankable(AsIs(S))
    BY SelectionIsRankable
  <1>1. n \in Nat
    BY FS_CardinalityType DEF Selection
  <1>2. /\ r \in [1 .. n -> S]
        /\ \A i \in 1 .. n : Rank(AsIs(S), r[i]) = i - 1
        /\ \A x \in S : Rank(AsIs(S), x) + 1 \in 1 .. n /\ r[Rank(AsIs(S), x) + 1] = x
    BY <1>0, RankedIs
  <1>3. \A x \in S : Rank(AsIs(S), x) \in 0 .. n - 1
    BY <1>0, RankIs
  <1>4. list = FirstOf(r, limit)
    BY SelectionIsRankable
  <1> HIDE DEF n, r, list
  <1>5. PICK m \in Nat : m <= n /\ m <= limit /\ (m = n \/ m = limit) /\ list = [i \in 1 .. m |-> r[i]]
    <2>1. StartOf(FirstOf(r, limit), r, n, limit)
      BY <1>1, <1>2, FirstOfIs
    <2>2. QED BY <1>4, <2>1 DEF StartOf
  <1>6. list \in [1 .. m -> S] /\ list = [p \in 1 .. m |-> list[p]]
    BY <1>1, <1>2, <1>5
  <1>7. \A i \in 1 .. m : i \in 1 .. n /\ list[i] = r[i]
    BY <1>1, <1>5
  <1>8. ASSUME NEW x \in S
        PROVE Rank(AsIs(S), x) \in Nat /\ Rank(AsIs(S), x) < n /\ (Rank(AsIs(S), x) < m => list[Rank(AsIs(S), x) + 1] = x)
    <2> DEFINE k == Rank(AsIs(S), x)
    <2>1. k \in 0 .. n - 1 /\ r[k + 1] = x
      BY <1>2, <1>3
    <2> HIDE DEF k
    <2>2. k \in Nat /\ k < n /\ (k < m => k + 1 \in 1 .. m)
      BY <1>1, <2>1
    <2>3. QED BY <1>7, <2>1, <2>2 DEF k
  <1>9. \A i \in 1 .. m : Rank(AsIs(S), list[i]) = i - 1
    BY <1>2, <1>7
  <1>10. Shows(list, S, m, limit)
    BY <1>5, <1>6, <1>8, <1>9 DEF Shows, n
  <1>11. QED BY <1>1, <1>10 DEF n, list

(* What is before a word that is there, and what if it is not.             *)
LEMMA FrontIs ==
  ASSUME NEW S, Selection(S), NEW reading, NEW text
  PROVE /\ \A x \in S : Named(x, reading, text) =>
             /\ InFront(S, reading, text) = Above(AsIs(S), x)
             /\ \A y \in S : Named(y, reading, text) => y = x
        /\ (\A x \in S : ~Named(x, reading, text)) => InFront(S, reading, text) = S
  <1>1. \A x, y \in S : Named(x, reading, text) /\ Named(y, reading, text) => x = y
    BY DEF Selection, Named, SameWord
  <1>2. ASSUME NEW x \in S, Named(x, reading, text) PROVE InFront(S, reading, text) = Above(AsIs(S), x)
    BY <1>1, <1>2, SelectionIsRankable DEF InFront, Above
  <1>3. (\A x \in S : ~Named(x, reading, text)) => InFront(S, reading, text) = S
    BY DEF InFront
  <1>4. QED BY <1>1, <1>2, <1>3

(* A word is shown behind what is better, or behind all that is shown.     *)
LEMMA ShownPlace ==
  ASSUME NEW S, Selection(S), NEW limit \in Nat, NEW reading, NEW text
  PROVE LET k == Cardinality(InFront(S, reading, text))
        IN k \in Nat /\ Place(SortAndTrim(S, limit), reading, text) = IF k < limit THEN k + 1 ELSE limit + 1
  <1> DEFINE F == InFront(S, reading, text)
             k == Cardinality(F)
             n == Cardinality(S)
             list == SortAndTrim(S, limit)
  <1>1. n \in Nat /\ \E m \in Nat : Shows(list, S, m, limit)
    BY ShownIs
  <1> HIDE DEF list
  <1>2. PICK m \in Nat : Shows(list, S, m, limit)
    BY <1>1
  <1>3. k \in Nat
    <2>1. F \in SUBSET S
      BY DEF InFront
    <2> HIDE DEF F
    <2>2. QED BY <2>1, FS_Subset, FS_CardinalityType DEF Selection
  <1>4. ASSUME \A x \in S : ~Named(x, reading, text)
        PROVE Place(list, reading, text) = IF k < limit THEN k + 1 ELSE limit + 1
    <2>1. k = n
      BY <1>4, FrontIs
    <2>2. Place(list, reading, text) = m + 1
      <3>1. \A p \in 1 .. m : ~Named(list[p], reading, text)
        BY <1>2, <1>4 DEF Shows
      <3>2. list = [p \in 1 .. m |-> list[p]]
        BY <1>2 DEF Shows
      <3>3. QED BY <3>1, <3>2, PlaceOf
    <2> HIDE DEF k, n
    <2>3. m <= n /\ m <= limit /\ (m = n \/ m = limit)
      BY <1>2 DEF Shows, n
    <2>4. QED BY <1>1, <1>3, <2>1, <2>2, <2>3 DEF n
  <1>5. ASSUME NEW x \in S, Named(x, reading, text)
        PROVE Place(list, reading, text) = IF k < limit THEN k + 1 ELSE limit + 1
    <2>1. F = Above(AsIs(S), x) /\ \A y \in S : Named(y, reading, text) => y = x
      BY <1>5, FrontIs
    <2>2. k = Rank(AsIs(S), x)
      BY <2>1 DEF Rank
    <2> HIDE DEF k, n
    <2>3. k < n /\ m <= n /\ m <= limit /\ (m = n \/ m = limit)
          /\ list = [p \in 1 .. m |-> list[p]] /\ (k < m => list[k + 1] = x)
          /\ (\A p \in 1 .. m : list[p] \in S /\ Rank(AsIs(S), list[p]) = p - 1)
      BY <1>2, <2>2 DEF Shows, n
    <2>4. \A p \in 1 .. m : Named(list[p], reading, text) => p - 1 = k
      BY <2>1, <2>2, <2>3
    <2>5. CASE k < m
      <3>1. k + 1 \in 1 .. m /\ \A q \in 1 .. m : Named(list[q], reading, text) => q = k + 1
        BY <1>3, <2>4, <2>5
      <3>2. Place(list, reading, text) = k + 1
        BY <1>5, <2>3, <2>5, <3>1, PlaceOf
      <3>3. k < limit
        BY <1>3, <2>3, <2>5
      <3>4. QED BY <3>2, <3>3
    <2>6. CASE ~(k < m)
      <3>1. \A p \in 1 .. m : ~Named(list[p], reading, text)
        BY <1>3, <2>4, <2>6
      <3>2. Place(list, reading, text) = m + 1
        BY <2>3, <3>1, PlaceOf
      <3>3. m = limit /\ ~(k < limit)
        BY <1>1, <1>3, <2>3, <2>6
      <3>4. QED BY <3>2, <3>3
    <2>7. QED BY <2>5, <2>6
  <1> DEFINE behind == Place(list, reading, text) = IF k < limit THEN k + 1 ELSE limit + 1
  <1>6. behind
    <2>1. ASSUME \A x \in S : ~Named(x, reading, text) PROVE behind
      BY <1>4, <2>1
    <2>2. ASSUME NEW x \in S, Named(x, reading, text) PROVE behind
      BY <1>5, <2>2
    <2> HIDE DEF behind
    <2>3. QED BY <2>1, <2>2
  <1>7. QED BY <1>3, <1>6 DEF list

(* So a word that is raised is shown no further down.                      *)
LEMMA StaysUp ==
  ASSUME NEW S, NEW T, Selection(S), Selection(T), IsDecided(AsIs(S)), NEW reading, NEW text, Raises(S, T, reading, text),
         NEW limit \in Nat
  PROVE Place(SortAndTrim(T, limit), reading, text) <= Place(SortAndTrim(S, limit), reading, text)
  <1> DEFINE a == Cardinality(InFront(T, reading, text))
             b == Cardinality(InFront(S, reading, text))
             p == Place(SortAndTrim(T, limit), reading, text)
             q == Place(SortAndTrim(S, limit), reading, text)
  <1>1. a <= b
    BY FrontShrinks
  <1>2. a \in Nat /\ p = IF a < limit THEN a + 1 ELSE limit + 1
    BY ShownPlace
  <1>3. b \in Nat /\ q = IF b < limit THEN b + 1 ELSE limit + 1
    BY ShownPlace
  <1> HIDE DEF a, b, p, q
  <1>4. p <= q
    BY <1>1, <1>2, <1>3
  <1>5. QED BY <1>4 DEF p, q
-----------------------------------------------------------------------------
(* What stands before a word when the fallbacks are put behind *)

(* What is a fallback is a matter of its text.                             *)
LEMMA FallbackByText ==
  ASSUME NEW reading, NEW c, NEW e, c.text = e.text
  PROVE IsFallback(reading, c) <=> IsFallback(reading, e)
  BY DEF IsFallback

NoFallbacks(S, typed) == {y \in S : ~IsFallback(typed, y)}

(* As many that are no fallbacks stand up to a word as are better than it, *)
(* and the word itself.                                                    *)
NonesStand(S, list, typed, x) ==
  LET none == NoFallbacks(Above(AsIs(S), x), typed)
  IN /\ IsFiniteSet(none) /\ Cardinality(none) \in Nat
     /\ Cardinality(Wanted(list, typed, FALSE, Rank(AsIs(S), x) + 1)) = Cardinality(none) + 1

LEMMA NonesBefore ==
  ASSUME NEW S, Selection(S), NEW limit \in Nat, NEW m \in Nat, NEW list, Shows(list, S, m, limit),
         NEW x \in S, Rank(AsIs(S), x) < m, NEW typed, ~IsFallback(typed, x)
  PROVE NonesStand(S, list, typed, x)
  <1> DEFINE k == Rank(AsIs(S), x)
             A == Wanted(list, typed, FALSE, k)
             B == NoFallbacks(Above(AsIs(S), x), typed)
             f == [j \in A |-> list[j]]
  <1>0. DOMAIN AsIs(S) = S /\ Rankable(AsIs(S))
    BY SelectionIsRankable
  <1>1. k \in Nat /\ k < m /\ list[k + 1] = x
    BY DEF Shows
  <1>2. \A j \in 1 .. m : list[j] \in S /\ Rank(AsIs(S), list[j]) = j - 1
    BY DEF Shows
  <1>3. \A y \in S : Rank(AsIs(S), y) \in Nat /\ (Rank(AsIs(S), y) < m => list[Rank(AsIs(S), y) + 1] = y)
    BY DEF Shows
  <1>4. \A y : IsFallback(typed, y) \in BOOLEAN
    BY DEF IsFallback
  <1>5. \A y \in S : Ahead(AsIs(S), y, x) => Rank(AsIs(S), y) < k
    BY <1>0, RankIs
  <1>6. ASSUME NEW j \in 1 .. k PROVE Ahead(AsIs(S), list[j], x)
    <2> DEFINE y == list[j]
    <2>1. j \in 1 .. m /\ y \in S /\ Rank(AsIs(S), y) = j - 1
      BY <1>1, <1>2
    <2>2. Rank(AsIs(S), y) # k
      BY <1>1, <2>1
    <2> HIDE DEF y
    <2>3. y # x
      BY <2>2
    <2>4. Ahead(AsIs(S), y, x) \/ Ahead(AsIs(S), x, y)
      BY <1>0, <2>1, <2>3, OneIsAhead
    <2>5. Ahead(AsIs(S), x, y) => k < Rank(AsIs(S), y)
      BY <1>0, <2>1, RankIs
    <2>6. ~(k < Rank(AsIs(S), y))
      BY <1>1, <2>1
    <2>7. QED BY <2>4, <2>5, <2>6 DEF y
  <1>7. \A j \in A : j \in 1 .. k /\ list[j] \in B
    <2>1. \A j \in 1 .. k : list[j] \in S
      BY <1>1, <1>2
    <2>2. QED BY <1>0, <1>6, <2>1 DEF Wanted, NoFallbacks, Above
  <1>8. ASSUME NEW y \in B PROVE \E j \in A : list[j] = y
    <2>1. y \in S /\ Ahead(AsIs(S), y, x) /\ ~IsFallback(typed, y)
      BY <1>0 DEF NoFallbacks, Above
    <2> DEFINE i == Rank(AsIs(S), y)
    <2>2. i < k /\ i \in Nat
      BY <1>3, <1>5, <2>1
    <2>3. i < m => list[i + 1] = y
      BY <1>3, <2>1
    <2> HIDE DEF i, k
    <2>4. i + 1 \in 1 .. k /\ list[i + 1] = y
      BY <1>1, <2>2, <2>3
    <2>5. QED BY <1>4, <2>1, <2>4 DEF Wanted
  <1>9. IsFiniteSet(B)
    <2>1. B \in SUBSET S
      BY <1>0 DEF NoFallbacks, Above
    <2> HIDE DEF B
    <2>2. QED BY <2>1, FS_Subset DEF Selection
  <1>10. \A i, j \in A : f[i] = f[j] => i = j
    <2> SUFFICES ASSUME NEW i \in A, NEW j \in A, f[i] = f[j] PROVE i = j
      OBVIOUS
    <2>1. list[i] = list[j]
      OBVIOUS
    <2>2. i \in 1 .. k /\ j \in 1 .. k
      BY <1>7
    <2> HIDE DEF k, A, f
    <2>3. i \in 1 .. m /\ j \in 1 .. m
      BY <1>1, <2>2
    <2>4. i - 1 = j - 1
      BY <1>2, <2>1, <2>3
    <2>5. QED BY <2>3, <2>4
  <1>11. f \in [A -> B]
    BY <1>7
  <1>12. \A y \in B : \E j \in A : f[j] = y
    BY <1>8
  <1> HIDE DEF f, A, B
  <1>13. Cardinality(A) = Cardinality(B)
    <2>1. f \in Injection(A, B)
      BY <1>10, <1>11 DEF Injection, IsInjective
    <2>2. f \in Surjection(A, B)
      BY <1>11, <1>12 DEF Surjection
    <2>3. QED BY <1>9, <2>1, <2>2, FS_Injection
  <1>14. Cardinality(Wanted(list, typed, FALSE, k + 1)) = Cardinality(A) + 1
    <2>1. k + 1 \in Nat \ {0} /\ k + 1 - 1 = k
      BY <1>1
    <2> DEFINE q == k + 1
    <2>2. q \in Nat \ {0} /\ q - 1 = k /\ IsFallback(typed, list[q]) = FALSE
      BY <1>1, <1>4, <2>1
    <2> HIDE DEF q, k
    <2>3. Cardinality(Wanted(list, typed, FALSE, q)) = Cardinality(Wanted(list, typed, FALSE, q - 1)) + 1
      BY <2>2, WantedOn
    <2>4. QED BY <2>2, <2>3 DEF q, A
  <1>15. QED BY <1>9, <1>13, <1>14, FS_CardinalityType DEF B, k, NonesStand

(* Where a word that is no fallback stands.                                *)
LEMMA ReorderedPlace ==
  ASSUME NEW S, Selection(S), NEW limit \in Nat, NEW reading, NEW text,
         NEW typed, ~IsFallback(typed, [text |-> text]), NEW pos, NEW surface, Reorders(surface, pos)
  PROVE LET front == InFront(S, reading, text)
            k == Cardinality(front)
            none == NoFallbacks(front, typed)
            p == Place(ReorderFallbackPredictions(typed, pos, surface, SortAndTrim(S, limit)), reading, text)
        IN /\ k \in Nat /\ IsFiniteSet(front)
           /\ (\E x \in S : Named(x, reading, text)) /\ k < limit =>
                IsFiniteSet(none) /\ Cardinality(none) \in Nat /\ p = Cardinality(none) + 1
           /\ ~(\E x \in S : Named(x, reading, text)) \/ ~(k < limit) =>
                p = (IF k < limit THEN k ELSE limit) + 1
  <1> DEFINE F == InFront(S, reading, text)
             k == Cardinality(F)
             none == NoFallbacks(F, typed)
             n == Cardinality(S)
             items == SortAndTrim(S, limit)
             list == ReorderFallbackPredictions(typed, pos, surface, items)
             p == Place(list, reading, text)
             place(j) == Cardinality(Wanted(items, typed, FALSE, j))
  <1>1. n \in Nat /\ \E m \in Nat : Shows(items, S, m, limit)
    BY ShownIs
  <1>2. k \in Nat /\ IsFiniteSet(F)
    <2>1. F \in SUBSET S
      BY DEF InFront
    <2> HIDE DEF F
    <2>2. QED BY <2>1, FS_Subset, FS_CardinalityType DEF Selection
  <1> HIDE DEF items
  <1>3. PICK m \in Nat : Shows(items, S, m, limit)
    BY <1>1
  <1>4. /\ m <= n /\ m <= limit /\ (m = n \/ m = limit) /\ items \in [1 .. m -> S]
        /\ \A i \in 1 .. m : Rank(AsIs(S), items[i]) = i - 1
        /\ \A x \in S : Rank(AsIs(S), x) \in Nat /\ Rank(AsIs(S), x) < n /\ (Rank(AsIs(S), x) < m => items[Rank(AsIs(S), x) + 1] = x)
    BY <1>3 DEF Shows
  <1>5. Rearranged(list, items, typed, m)
    BY <1>4, ReorderedAre
  <1>6. /\ list = [i \in 1 .. m |-> list[i]]
        /\ \A i \in 1 .. m : \E j \in 1 .. m : list[i] = items[j]
        /\ \A j \in 1 .. m : ~IsFallback(typed, items[j]) => place(j) \in 1 .. m /\ list[place(j)] = items[j]
        /\ \A i \in 1 .. m : ~IsFallback(typed, list[i]) => \E j \in 1 .. m : i = place(j) /\ list[i] = items[j]
    BY <1>5 DEF Rearranged
  <1>7. \A x : Named(x, reading, text) => ~IsFallback(typed, x)
    BY FallbackByText DEF Named
  <1> HIDE DEF list
  <1>8. ASSUME NEW x \in S, Named(x, reading, text), k < limit
        PROVE IsFiniteSet(none) /\ Cardinality(none) \in Nat /\ p = Cardinality(none) + 1
    <2> DEFINE i == k + 1
    <2>1. F = Above(AsIs(S), x) /\ \A y \in S : Named(y, reading, text) => y = x
      BY <1>8, FrontIs
    <2>2. k = Rank(AsIs(S), x)
      BY <2>1 DEF Rank
    <2>3. k < m /\ i \in 1 .. m /\ items[i] = x
      <3> HIDE DEF k, n
      <3>1. k < m /\ i \in 1 .. m
        BY <1>2, <1>4, <1>8, <2>2
      <3>2. QED BY <1>4, <2>2, <3>1
    <2>4. /\ IsFiniteSet(none) /\ Cardinality(none) \in Nat
          /\ place(i) = Cardinality(none) + 1
      <3> HIDE DEF k, F, i, none, place
      <3>0. Rank(AsIs(S), x) < m /\ ~IsFallback(typed, x)
        BY <1>7, <1>8, <2>2, <2>3
      <3>1. NonesStand(S, items, typed, x)
        BY <1>3, <3>0, NonesBefore
      <3>2. QED BY <2>1, <2>2, <3>1 DEF i, none, place, NonesStand
    <2> HIDE DEF i, none, k
    <2>5. place(i) \in 1 .. m /\ list[place(i)] = x
      BY <1>6, <1>7, <1>8, <2>3
    <2>6. ASSUME NEW q \in 1 .. m, Named(list[q], reading, text) PROVE q = place(i)
      <3>1. PICK j \in 1 .. m : q = place(j) /\ list[q] = items[j]
        BY <1>6, <1>7, <2>6
      <3>2. items[j] = x
        BY <1>4, <2>1, <2>6, <3>1
      <3>3. j - 1 = Rank(AsIs(S), x) /\ i - 1 = Rank(AsIs(S), x) /\ i \in Int /\ j \in Int
        BY <1>4, <2>3, <3>2
      <3>4. j = i
        BY <3>3
      <3>5. QED BY <3>1, <3>4
    <2> HIDE DEF place
    <2> DEFINE q == place(i)
    <2>9. q \in 1 .. m /\ Named(list[q], reading, text)
      BY <1>8, <2>5
    <2>10. \A j \in 1 .. m : Named(list[j], reading, text) => j = q
      BY <2>6
    <2>11. list = [j \in 1 .. m |-> list[j]]
      BY <1>6
    <2> HIDE DEF q
    <2>12. Place(list, reading, text) = q
      BY <2>9, <2>10, <2>11, PlaceOf
    <2>7. Place(list, reading, text) = place(i)
      BY <2>12 DEF q
    <2>8. QED BY <2>4, <2>7
  <1>9. ASSUME ~(\E x \in S : Named(x, reading, text)) \/ ~(k < limit)
        PROVE p = (IF k < limit THEN k ELSE limit) + 1
    <2>1. \A j \in 1 .. m : ~Named(items[j], reading, text)
      <3>1. CASE ~(\E x \in S : Named(x, reading, text))
        BY <1>4, <3>1
      <3>2. CASE ~(k < limit)
        <4> SUFFICES ASSUME NEW j \in 1 .. m, Named(items[j], reading, text) PROVE FALSE
          OBVIOUS
        <4>1. items[j] \in S /\ Rank(AsIs(S), items[j]) = j - 1
          BY <1>4
        <4>2. F = Above(AsIs(S), items[j])
          BY <4>1, FrontIs
        <4>3. k = j - 1
          BY <4>1, <4>2 DEF Rank
        <4> HIDE DEF k
        <4>4. QED BY <1>4, <3>2, <4>3
      <3>3. QED BY <1>9, <3>1, <3>2
    <2>2. \A i \in 1 .. m : ~Named(list[i], reading, text)
      BY <1>6, <2>1
    <2>3. Place(list, reading, text) = m + 1
      BY <1>6, <2>2, PlaceOf
    <2>4. m = IF k < limit THEN k ELSE limit
      <3>1. k <= n
        <4>1. F \in SUBSET S
          BY DEF InFront
        <4> HIDE DEF F
        <4>2. QED BY <4>1, FS_Subset DEF Selection
      <3>2. k < limit => k = n
        <4> SUFFICES ASSUME k < limit PROVE k = n
          OBVIOUS
        <4>1. \A x \in S : ~Named(x, reading, text)
          BY <1>9
        <4>2. F = S
          BY <4>1, FrontIs
        <4>3. QED BY <4>2
      <3> HIDE DEF k, n
      <3>3. QED BY <1>1, <1>2, <1>4, <3>1, <3>2
    <2>5. QED BY <2>3, <2>4
  <1> HIDE DEF k, none, p
  <1>10. QED BY <1>2, <1>8, <1>9 DEF list, items, k, none, p

(* So a word that is no fallback and is raised is not moved down either.   *)
LEMMA StaysUpReordered ==
  ASSUME NEW S, NEW T, Selection(S), Selection(T), IsDecided(AsIs(S)), NEW reading, NEW text, Raises(S, T, reading, text),
         NEW limit \in Nat, NEW typed, ~IsFallback(typed, [text |-> text]), NEW pos, NEW surface
  PROVE Place(ReorderFallbackPredictions(typed, pos, surface, SortAndTrim(T, limit)), reading, text)
          <= Place(ReorderFallbackPredictions(typed, pos, surface, SortAndTrim(S, limit)), reading, text)
  <1> DEFINE p(U) == Place(ReorderFallbackPredictions(typed, pos, surface, SortAndTrim(U, limit)), reading, text)
             front(U) == InFront(U, reading, text)
             a == Cardinality(front(T))
             b == Cardinality(front(S))
             noneT == NoFallbacks(front(T), typed)
             noneS == NoFallbacks(front(S), typed)
             isT == \E x \in T : Named(x, reading, text)
             isS == \E x \in S : Named(x, reading, text)
             c == Cardinality(noneT)
             d == Cardinality(noneS)
             t == p(T)
             s == p(S)
  <1>1. CASE ~Reorders(surface, pos)
    BY <1>1, StaysUp DEF Reorders, ReorderFallbackPredictions
  <1>2. CASE Reorders(surface, pos)
    <2>1. a <= b /\ Covers(front(S), front(T))
      BY FrontShrinks
    <2>2. isS => isT
      BY DEF Raises, Named, SameWord
    <2>3. /\ a \in Nat /\ IsFiniteSet(front(T))
          /\ isT /\ a < limit => IsFiniteSet(noneT) /\ c \in Nat /\ t = c + 1
          /\ ~isT \/ ~(a < limit) => t = (IF a < limit THEN a ELSE limit) + 1
      BY <1>2, ReorderedPlace
    <2>4. /\ b \in Nat /\ IsFiniteSet(front(S))
          /\ isS /\ b < limit => IsFiniteSet(noneS) /\ d \in Nat /\ s = d + 1
          /\ ~isS \/ ~(b < limit) => s = (IF b < limit THEN b ELSE limit) + 1
      BY <1>2, ReorderedPlace
    <2>5. c <= a
      <3>1. noneT \in SUBSET front(T)
        BY DEF NoFallbacks
      <3> HIDE DEF noneT, front
      <3>2. QED BY <2>3, <3>1, FS_Subset
    <2>6. c <= d
      <3>1. Covers(noneS, noneT)
        <4>1. \A x \in front(T) : \E y \in front(S) : SameWord(x, y) /\ y.score >= x.score
          BY <2>1 DEF Covers
        <4> HIDE DEF front
        <4>2. ASSUME NEW x \in noneT PROVE \E y \in noneS : SameWord(x, y) /\ y.score >= x.score
          <5>1. x \in front(T) /\ ~IsFallback(typed, x)
            BY DEF NoFallbacks
          <5>2. PICK y \in front(S) : SameWord(x, y) /\ y.score >= x.score
            BY <4>1, <5>1
          <5>3. y.text = x.text
            BY <5>2 DEF SameWord
          <5>4. ~IsFallback(typed, y)
            BY <5>1, <5>3, FallbackByText
          <5>5. y \in noneS
            BY <5>4 DEF NoFallbacks
          <5>6. QED BY <5>2, <5>5
        <4>3. QED BY <4>2 DEF Covers
      <3>2. noneT \in SUBSET T /\ noneS \in SUBSET front(S)
        BY DEF NoFallbacks, InFront
      <3> HIDE DEF noneS, noneT, front
      <3>3. IsFiniteSet(noneS)
        BY <2>4, <3>2, FS_Subset
      <3>4. \A x, y \in noneT : SameWord(x, y) => x = y
        BY <3>2 DEF Selection
      <3>5. QED BY <3>1, <3>3, <3>4, CoverCounts
    <2> HIDE DEF a, b, c, d, t, s, isS, isT, front, noneS, noneT
    <2>7. t <= s
      BY <2>1, <2>2, <2>3, <2>4, <2>5, <2>6
    <2>8. QED BY <2>7 DEF t, s
  <1>3. QED BY <1>1, <1>2
-----------------------------------------------------------------------------
(* What is offered *)

(* What an answer may hold, whatever is blocked.                           *)
Permitted(d, typed, list) ==
  /\ list # <<>>
  /\ \A i \in DOMAIN list :
       <<list[i].reading, list[i].text>> \in d.black =>
         list[i].reading = typed /\ list[i].text \in {ToRomaji(typed), ToKatakana(typed)}

(* Entries found, with their boosts.                                       *)
Boosted(boosted) == IsFiniteSet(boosted) /\ \A g \in boosted : g[1] \in Words /\ g[2] \in Int

Offer(d, boosted, typed, score, surface) ==
  EntryCandidates(d, boosted) \cup RawCandidate(d, typed, score) \cup SyntheticCandidates(d, typed, surface)

(* Candidates of which the blocked ones are only the reading in other      *)
(* letters, and every one the reading itself or something found.           *)
FairOffer(d, offer, boosted, typed) ==
  /\ offer \in SUBSET Candidates /\ IsFiniteSet(offer) /\ offer # {}
  /\ \A c \in offer : <<c.reading, c.text>> \in d.black =>
                        c.reading = typed /\ c.text \in {ToRomaji(typed), ToKatakana(typed)}
  /\ \A c \in offer : c.reading = typed \/ \E g \in boosted : c.reading = g[1].reading /\ c.text = g[1].text

(* That is what is offered.                                                *)
LEMMA OfferIs ==
  ASSUME NEW d, NEW boosted, Boosted(boosted), NEW typed \in Seq(Nat) \ {<<>>}, NEW score \in Int, NEW surface
  PROVE FairOffer(d, Offer(d, boosted, typed, score, surface), boosted, typed)
  <1> DEFINE entries == EntryCandidates(d, boosted)
             others == RawCandidate(d, typed, score) \cup SyntheticCandidates(d, typed, surface)
             offer == Offer(d, boosted, typed, score, surface)
  <1>1. entries \in SUBSET Candidates /\ IsFiniteSet(entries)
    BY EntryCandidatesAre DEF Boosted
  <1>2. others \in SUBSET Candidates /\ IsFiniteSet(others) /\ others # {}
    BY OtherCandidatesAre
  <1>3. offer = entries \cup others
    BY DEF Offer
  <1>4. ASSUME NEW c \in entries
        PROVE <<c.reading, c.text>> \notin d.black
              /\ \E g \in boosted : c.reading = g[1].reading /\ c.text = g[1].text
    <2>1. PICK g \in boosted : /\ ~IsBlocked(d, g[1].reading, g[1].text)
                               /\ c = Candidate(g[1].text, g[1].reading, Wrapped(g[1].score + g[2]))
      BY DEF EntryCandidates
    <2>2. c.reading = g[1].reading /\ c.text = g[1].text
      BY <2>1 DEF Candidate
    <2>3. QED BY <2>1, <2>2 DEF IsBlocked
  <1>5. ASSUME NEW c \in RawCandidate(d, typed, score)
        PROVE <<c.reading, c.text>> \notin d.black /\ c.reading = typed
    <2>1. c = Candidate(typed, typed, score) /\ <<typed, typed>> \notin d.black
      BY DEF RawCandidate, IsBlocked
    <2>2. c.reading = typed /\ c.text = typed
      BY <2>1 DEF Candidate
    <2>3. QED BY <2>1, <2>2
  <1>6. ASSUME NEW c \in SyntheticCandidates(d, typed, surface)
        PROVE c.reading = typed /\ c.text \in {ToRomaji(typed), ToKatakana(typed)}
    <2> DEFINE boost == SyntheticReadingGrammarBoost(surface)
    <2>1. \/ c = Candidate(ToRomaji(typed), typed, -10 + boost)
          \/ c = Candidate(ToKatakana(typed), typed, -20 + boost)
      BY DEF SyntheticCandidates
    <2> HIDE DEF boost
    <2>2. QED BY <2>1 DEF Candidate
  <1>7. offer \in SUBSET Candidates /\ IsFiniteSet(offer) /\ offer # {}
    <2> HIDE DEF entries, others, offer
    <2>1. QED BY <1>1, <1>2, <1>3, FS_Union
  <1>8. \A c \in offer : c \in entries \/ c \in RawCandidate(d, typed, score) \/ c \in SyntheticCandidates(d, typed, surface)
    BY DEF Offer
  <1> HIDE DEF entries, others, offer
  <1>9. \A c \in offer :
          /\ <<c.reading, c.text>> \in d.black => c.reading = typed /\ c.text \in {ToRomaji(typed), ToKatakana(typed)}
          /\ c.reading = typed \/ \E g \in boosted : c.reading = g[1].reading /\ c.text = g[1].text
    BY <1>4, <1>5, <1>6, <1>8
  <1>10. QED BY <1>7, <1>9 DEF offer, FairOffer

(* Of one reading and text only one candidate is left.                     *)
LEMMA UniqueIsSelection ==
  ASSUME NEW d, NEW boosted, Boosted(boosted), NEW typed \in Seq(Nat) \ {<<>>},
         NEW score \in Int, NEW surface
  PROVE Selection(Unique(Offer(d, boosted, typed, score, surface)))
        /\ Unique(Offer(d, boosted, typed, score, surface)) # {}
  <1> DEFINE offer == Offer(d, boosted, typed, score, surface)
             U == Unique(offer)
  <1>0. FairOffer(d, offer, boosted, typed)
    BY OfferIs
  <1> HIDE DEF offer
  <1>1. offer \in SUBSET Candidates /\ IsFiniteSet(offer) /\ offer # {}
    BY <1>0 DEF FairOffer
  <1>2. IsFiniteSet(U) /\ U # {} /\ U \in SUBSET Candidates /\ \A c \in U : Item(c)
    BY <1>1, UniqueAre
  <1>3. ASSUME NEW x \in U, NEW y \in U, SameWord(x, y) PROVE x = y
    <2>1. x \in offer /\ y \in offer /\ x \in Candidates /\ y \in Candidates
          /\ \A o \in offer : /\ o.text = x.text /\ o.reading = x.reading => o.score <= x.score
                              /\ o.text = y.text /\ o.reading = y.reading => o.score <= y.score
      BY <1>2 DEF Unique
    <2>2. x.reading = y.reading /\ x.text = y.text
      BY <1>3 DEF SameWord
    <2>3. x.score = y.score
      <3>1. x.score <= y.score /\ y.score <= x.score
        BY <2>1, <2>2
      <3>2. x.score \in Int /\ y.score \in Int
        BY <2>1 DEF Candidates
      <3>3. QED BY <3>1, <3>2
    <2>4. \A z \in Candidates : z = [text |-> z.text, reading |-> z.reading, score |-> z.score]
      BY DEF Candidates
    <2>5. /\ x = [text |-> x.text, reading |-> x.reading, score |-> x.score]
          /\ y = [text |-> y.text, reading |-> y.reading, score |-> y.score]
      BY <2>1, <2>4
    <2>6. QED BY <2>2, <2>3, <2>5
  <1>4. QED BY <1>2, <1>3 DEF Selection, offer

(* So what is shown is permitted.                                          *)
LEMMA ShownIsPermitted ==
  ASSUME NEW d, NEW boosted, Boosted(boosted), NEW typed \in Seq(Nat) \ {<<>>},
         NEW score \in Int, NEW surface, NEW limit \in Nat \ {0}
  PROVE LET list == SortAndTrim(Unique(Offer(d, boosted, typed, score, surface)), limit)
        IN \E m \in Nat \ {0} : list \in [1 .. m -> Candidates] /\ Permitted(d, typed, list)
  <1> DEFINE offer == Offer(d, boosted, typed, score, surface)
             U == Unique(offer)
             n == Cardinality(U)
             list == SortAndTrim(U, limit)
  <1>1. Selection(U) /\ U # {}
    BY UniqueIsSelection
  <1>2. /\ offer \in SUBSET Candidates
        /\ \A c \in offer : <<c.reading, c.text>> \in d.black =>
                              c.reading = typed /\ c.text \in {ToRomaji(typed), ToKatakana(typed)}
    BY OfferIs DEF FairOffer
  <1> HIDE DEF offer
  <1>3. U \in SUBSET offer
    BY DEF Unique
  <1> HIDE DEF U
  <1>4. n \in Nat /\ n # 0
    BY <1>1, FS_CardinalityType, FS_EmptySet DEF Selection
  <1>5. PICK m \in Nat : Shows(list, U, m, limit)
    BY <1>1, ShownIs
  <1> HIDE DEF list
  <1>6. m # 0 /\ DOMAIN list = 1 .. m /\ list \in [1 .. m -> U]
    <2> HIDE DEF n
    <2>1. (m = n \/ m = limit) /\ list \in [1 .. m -> U]
      BY <1>5 DEF Shows, n
    <2>2. QED BY <1>4, <2>1
  <1>7. list # <<>>
    <2>1. 1 \in DOMAIN list
      BY <1>6
    <2>2. QED BY <2>1
  <1>8. \A i \in 1 .. m : list[i] \in offer
    BY <1>3, <1>6
  <1>9. list \in [1 .. m -> Candidates]
    BY <1>2, <1>3, <1>6
  <1>10. Permitted(d, typed, list)
    BY <1>2, <1>6, <1>7, <1>8 DEF Permitted
  <1>11. QED BY <1>6, <1>9, <1>10 DEF list, U, offer
-----------------------------------------------------------------------------
(* What is found *)

(* Of the words J of a trie F are the n best, or all if there are no more. *)
Bests(e, J, n, F) ==
  /\ F \in SUBSET J /\ IsFiniteSet(J) /\ IsFiniteSet(F)
  /\ Cardinality(F) <= n /\ (F = J \/ Cardinality(F) = n)
  /\ \A i \in J \ F : \A j \in F : ~Better(e[i], e[j])

(* Those are the first on a list of the best.                              *)
LEMMA FirstAreBest ==
  ASSUME NEW e, NEW J, IsFiniteSet(J), NEW list, BestAmong(e, J, list), NEW limit \in Nat
  PROVE Bests(e, J, Min({TopPredictionCount, limit}), ToSet(FirstOf(list, limit)))
  <1> DEFINE K == TopPredictionCount
             m == Min({K, Cardinality(J)})
             n == Min({K, limit})
             first == FirstOf(list, limit)
             F == ToSet(first)
  <1>1. Cardinality(J) \in Nat /\ K \in Nat
    BY FS_CardinalityType, TopAssumption
  <1>2. /\ m \in {K, Cardinality(J)} /\ m <= K /\ m <= Cardinality(J)
        /\ n \in {K, limit} /\ n <= K /\ n <= limit
    <2> DEFINE c == Cardinality(J)
    <2>1. m = (IF K <= c THEN K ELSE c) /\ n = IF K <= limit THEN K ELSE limit
      <3> HIDE DEF K, c
      <3>1. QED BY <1>1, MinIs DEF c
    <2> HIDE DEF m, n, K, c
    <2>2. QED BY <1>1, <2>1 DEF c
  <1>3. /\ list \in [1 .. m -> J]
        /\ \A k, l \in 1 .. m : k < l => list[k] # list[l] /\ ~Better(e[list[l]], e[list[k]])
        /\ \A i \in J \ ToSet(list) : \A j \in ToSet(list) : ~Better(e[i], e[j])
    BY DEF BestAmong
  <1> HIDE DEF m, n, first
  <1>4. m \in Nat
    BY <1>1, <1>2
  <1>5. PICK p \in Nat : p <= m /\ p <= limit /\ (p = m \/ p = limit) /\ first = [i \in 1 .. p |-> list[i]]
    <2>1. StartOf(first, list, m, limit)
      BY <1>3, <1>4, FirstOfIs DEF first
    <2>2. QED BY <2>1 DEF StartOf
  <1>6. F = {list[k] : k \in 1 .. p}
    <2>1. DOMAIN first = 1 .. p /\ \A k \in 1 .. p : first[k] = list[k]
      BY <1>5
    <2> HIDE DEF first
    <2>2. QED BY <2>1 DEF ToSet
  <1> HIDE DEF F
  <1>7. \A k \in 1 .. p : k \in 1 .. m /\ list[k] \in J
    BY <1>3, <1>4, <1>5
  <1>8. F \in SUBSET J /\ IsFiniteSet(F)
    <2>1. F \in SUBSET J
      BY <1>6, <1>7
    <2>2. QED BY <2>1, FS_Subset
  <1>9. Cardinality(F) = p
    <2> DEFINE g == [k \in 1 .. p |-> list[k]]
               I == 1 .. p
    <2>1. g \in [I -> F] /\ \A y \in F : \E k \in I : g[k] = y
      BY <1>6
    <2>2. ASSUME NEW k \in I, NEW l \in I, g[k] = g[l] PROVE k = l
      <3>1. k \in 1 .. m /\ l \in 1 .. m /\ list[k] = list[l] /\ k \in Int /\ l \in Int
        BY <1>7, <2>2
      <3>2. ~(k < l) /\ ~(l < k)
        BY <1>3, <3>1
      <3>3. QED BY <3>1, <3>2
    <2>3. IsFiniteSet(I) /\ Cardinality(I) = p
      <3>1. 1 \in Int /\ p \in Int /\ (1 > p <=> p = 0)
        OBVIOUS
      <3>2. IsFiniteSet(1 .. p) /\ Cardinality(1 .. p) = p
        BY <3>1, FS_Interval
      <3>3. QED BY <3>2
    <2> HIDE DEF g, I
    <2>4. g \in Injection(I, F) /\ g \in Surjection(I, F)
      BY <2>1, <2>2 DEF Injection, Surjection, IsInjective
    <2>5. Cardinality(F) = Cardinality(I)
      BY <1>8, <2>3, <2>4, FS_Injection
    <2>6. QED BY <2>3, <2>5
  <1>10. Cardinality(F) <= n /\ (Cardinality(F) = Cardinality(J) \/ Cardinality(F) = n)
    BY <1>1, <1>2, <1>4, <1>5, <1>9
  <1>11. F = J \/ Cardinality(F) = n
    <2>1. Cardinality(F) = Cardinality(J) => F = J
      BY <1>8, FS_Subset
    <2>2. QED BY <1>10, <2>1
  <1>12. ASSUME NEW i \in J \ F, NEW j \in F PROVE ~Better(e[i], e[j])
    <2>1. PICK k \in 1 .. p : j = list[k]
      BY <1>6
    <2>2. DOMAIN list = 1 .. m /\ k \in 1 .. m
      BY <1>3, <1>7
    <2>3. ToSet(list) = {list[l] : l \in 1 .. m}
      BY <2>2 DEF ToSet
    <2>4. CASE i \in ToSet(list)
      <3>1. PICK l \in 1 .. m : i = list[l]
        BY <2>3, <2>4
      <3>2. l \notin 1 .. p
        BY <1>6, <3>1
      <3>3. k < l
        BY <1>4, <2>1, <3>1, <3>2
      <3>4. QED BY <1>3, <2>1, <2>2, <3>1, <3>3
    <2>5. CASE i \notin ToSet(list)
      BY <1>3, <2>1, <2>2, <2>3, <2>5
    <2>6. QED BY <2>4, <2>5
  <1>13. QED BY <1>8, <1>10, <1>11, <1>12 DEF Bests, F, n, first

(* So are those that are found for a prefix.                               *)
LEMMA TopAre ==
  ASSUME NEW t, Keyed(t), Sound(t), NEW prefix \in Seq(Nat), NEW limit \in Nat
  PROVE Bests(t.entries, Below(t, prefix), Min({TopPredictionCount, limit}),
              ToSet(TopPredictions(t, prefix, limit)))
  <1> DEFINE I == Below(t, prefix)
             e == t.entries
             top == TopPredictions(t, prefix, limit)
  <1>1. IsFiniteSet(I)
    <2>1. I \in SUBSET DOMAIN e
      BY DEF Below
    <2> HIDE DEF I
    <2>2. QED BY <2>1, WordsAreRankable
  <1>2. CASE prefix \in DOMAIN t.top
    <2>1. BestAmong(e, I, t.top[prefix])
      BY <1>2 DEF Sound, Right
    <2>2. top = FirstOf(t.top[prefix], limit)
      BY <1>2 DEF TopPredictions
    <2> HIDE DEF I, e, top
    <2>3. Bests(e, I, Min({TopPredictionCount, limit}), ToSet(FirstOf(t.top[prefix], limit)))
      BY <1>1, <2>1, FirstAreBest
    <2>4. QED BY <2>2, <2>3 DEF e, I, top
  <1>3. CASE prefix \notin DOMAIN t.top
    <2>1. top = <<>>
      BY <1>3 DEF TopPredictions
    <2>2. ToSet(top) = {}
      BY <2>1 DEF ToSet
    <2>3. I = {}
      <3> SUFFICES ASSUME NEW i \in I PROVE FALSE
        OBVIOUS
      <3> DEFINE x == e[i].reading
      <3>1. i \in DOMAIN e /\ IsPrefix(prefix, x)
        BY DEF Below
      <3>2. x \in DOMAIN t.top /\ x \in Seq(Nat) /\ \A l \in 0 .. Len(x) : SubSeq(x, 1, l) \in DOMAIN t.top
        BY <3>1 DEF Sound, Treed
      <3> HIDE DEF x
      <3>3. Len(prefix) \in 0 .. Len(x) /\ SubSeq(prefix, 1, Len(prefix)) = SubSeq(x, 1, Len(prefix))
        BY <3>1, <3>2 DEF IsPrefix
      <3>4. SubSeq(prefix, 1, Len(prefix)) = prefix
        OBVIOUS
      <3>5. prefix \in DOMAIN t.top
        BY <3>2, <3>3, <3>4
      <3>6. QED BY <1>3, <3>5
    <2>4. Cardinality({}) = 0 /\ IsFiniteSet({})
      BY FS_EmptySet
    <2>5. 0 <= Min({TopPredictionCount, limit})
      <3>1. TopPredictionCount \in Nat
        BY TopAssumption
      <3>2. QED BY <3>1, MinIs
    <2> HIDE DEF I, top, e
    <2>6. Bests(e, I, Min({TopPredictionCount, limit}), {})
      BY <2>3, <2>4, <2>5 DEF Bests
    <2>7. QED BY <2>2, <2>6 DEF e, I, top
  <1>4. QED BY <1>2, <1>3

(* Words found, each with its boost.                                       *)
LEMMA BoostedAre ==
  ASSUME NEW found \in SUBSET Words, IsFiniteSet(found), NEW more \in [found -> Int]
  PROVE /\ Boosted({<<e, more[e]>> : e \in found})
        /\ \A g \in {<<e, more[e]>> : e \in found} : g[1] \in found /\ g[2] = more[g[1]]
  <1> DEFINE h == [e \in found |-> <<e, more[e]>>]
             boosted == {<<e, more[e]>> : e \in found}
  <1>1. boosted = {h[e] : e \in found}
    OBVIOUS
  <1>2. IsFiniteSet({h[e] : e \in found})
    <2> HIDE DEF h
    <2>1. QED BY ImageIsFinite
  <1>3. \A g \in boosted : g[1] \in found /\ g[2] = more[g[1]]
    OBVIOUS
  <1>4. \A g \in boosted : g[1] \in Words /\ g[2] \in Int
    BY <1>3
  <1> HIDE DEF boosted, h
  <1>5. IsFiniteSet(boosted)
    BY <1>1, <1>2
  <1>6. QED BY <1>3, <1>4, <1>5 DEF Boosted, boosted

ExactFound(d, reading) ==
  At(DefaultDb, Exact(DefaultDb, reading)) \cup At(d.user, Exact(d.user, reading))
ExactBoosts(d, reading, pos, surface) ==
  [e \in ExactFound(d, reading) |-> EntryBoost(d, e, pos, surface)]
PredictedFound(d, prefix, limit) ==
  At(DefaultDb, ToSet(TopPredictions(DefaultDb, prefix, limit)))
    \cup At(d.user, ToSet(TopPredictions(d.user, prefix, limit)))
PredictedBoosts(d, prefix, limit, pos, surface) ==
  [e \in PredictedFound(d, prefix, limit) |-> LengthBoost(e.reading, prefix) + EntryBoost(d, e, pos, surface)]
With(boosts) == {<<e, boosts[e]>> : e \in DOMAIN boosts}

(* The candidates of a reading are the best of what is offered for it.     *)
LEMMA ExactIsShown ==
  ASSUME NEW d, NEW reading, NEW pos, NEW surface
  PROVE BuildExactCandidates(d, reading, pos, surface)
          = SortAndTrim(Unique(Offer(d, With(ExactBoosts(d, reading, pos, surface)), reading,
                                     RawReadingGrammarBoost(reading, surface), surface)), ExactLimit)
  <1> DEFINE found == ExactFound(d, reading)
             boosts == ExactBoosts(d, reading, pos, surface)
  <1>1. With(boosts) = {<<e, EntryBoost(d, e, pos, surface)>> : e \in found}
    BY DEF With, ExactBoosts
  <1>2. QED BY <1>1 DEF BuildExactCandidates, Offer, ExactFound

(* So are the predictions.                                                 *)
LEMMA PredictedIsShown ==
  ASSUME NEW d, NEW prefix, NEW limit, NEW pos, NEW surface
  PROVE /\ PredictedCandidates(d, prefix, limit, pos, surface)
             = Unique(Offer(d, With(PredictedBoosts(d, prefix, limit, pos, surface)), prefix,
                            50 + RawReadingGrammarBoost(prefix, surface), surface))
        /\ BuildPredictionCandidates(d, prefix, limit, pos, surface)
             = SortAndTrim(Unique(Offer(d, With(PredictedBoosts(d, prefix, limit, pos, surface)), prefix,
                                        50 + RawReadingGrammarBoost(prefix, surface), surface)), limit)
  <1> DEFINE found == PredictedFound(d, prefix, limit)
             boosts == PredictedBoosts(d, prefix, limit, pos, surface)
  <1>1. With(boosts) = {<<e, LengthBoost(e.reading, prefix) + EntryBoost(d, e, pos, surface)>> : e \in found}
    BY DEF With, PredictedBoosts
  <1>2. QED BY <1>1 DEF BuildPredictionCandidates, PredictedCandidates, Offer, PredictedFound

(* What is found for a reading is finitely many words of that reading.     *)
LEMMA ExactFoundAre ==
  ASSUME NEW d, Known(d), NEW reading
  PROVE /\ ExactFound(d, reading) \in SUBSET Words /\ IsFiniteSet(ExactFound(d, reading))
        /\ \A e \in ExactFound(d, reading) : e.reading = reading
  <1> DEFINE a == At(DefaultDb, Exact(DefaultDb, reading))
             b == At(d.user, Exact(d.user, reading))
  <1>1. a \in SUBSET Words /\ IsFiniteSet(a)
    BY DefaultIs, FoundAre
  <1>2. b \in SUBSET Words /\ IsFiniteSet(b)
    BY FoundAre DEF Known
  <1>3. \A e \in a \cup b : e.reading = reading
    BY DEF At, Exact
  <1> HIDE DEF a, b
  <1>4. a \cup b \in SUBSET Words /\ IsFiniteSet(a \cup b)
    BY <1>1, <1>2, FS_Union
  <1>5. QED BY <1>3, <1>4 DEF a, b, ExactFound

(* Their boosts are integers, and they can be ranked.                      *)
LEMMA ExactOfferIs ==
  ASSUME NEW d, Known(d), NEW reading \in Seq(Nat) \ {<<>>}, NEW pos \in PartsOfSpeech, NEW surface
  PROVE LET boosts == ExactBoosts(d, reading, pos, surface)
        IN /\ boosts \in [ExactFound(d, reading) -> Int]
           /\ Boosted(With(boosts))
           /\ RawReadingGrammarBoost(reading, surface) \in Int
  <1> DEFINE found == ExactFound(d, reading)
             boosts == ExactBoosts(d, reading, pos, surface)
  <1>1. boosts \in [found -> Int]
    <2>1. \A e \in found : EntryBoost(d, e, pos, surface) \in Int
      BY EntryBoostIsInt
    <2> HIDE DEF found
    <2>2. QED BY <2>1 DEF ExactBoosts, found
  <1>2. found \in SUBSET Words /\ IsFiniteSet(found) /\ \A e \in found : e.reading = reading
    BY ExactFoundAre
  <1> HIDE DEF boosts, found
  <1>3. With(boosts) = {<<e, boosts[e]>> : e \in found}
    BY <1>1 DEF With
  <1>4. Boosted(With(boosts)) /\ \A g \in With(boosts) : g[1] \in found
    BY <1>1, <1>2, <1>3, BoostedAre
  <1>5. RawReadingGrammarBoost(reading, surface) \in Int
    BY DEF RawReadingGrammarBoost
  <1>6. QED BY <1>1, <1>4, <1>5 DEF boosts, found

(* The lexicon is a trie like the user's.                                  *)
LEMMA LexiconIs ==
  /\ DefaultDb.entries = DefaultEntries /\ DefaultEntries \in Seq(Words)
  /\ Keyed(DefaultDb) /\ Sound(DefaultDb)
  <1> DEFINE W == [reading : Seq(Nat) \ {<<>>}, text : Seq(Nat) \ {<<>>},
                   score : 0 .. MaxScore, partOfSpeech : DOMAIN ContextualRows,
                   category : {"None", "PlaceName", "CurrencyCode", "CurrencySymbol"}]
  <1>1. DefaultEntries \in Seq(W)
    BY RankingAssumption
  <1>2. W \subseteq Words
    BY ScoreAssumption DEF Words, PartsOfSpeech
  <1> HIDE DEF W
  <1>3. DefaultEntries \in Seq(Words)
    BY <1>1, <1>2
  <1>4. DefaultDb.entries = DefaultEntries /\ Sound(DefaultDb)
    BY <1>3, BuildIsRight DEF DefaultDb
  <1>5. QED BY <1>3, <1>4 DEF Keyed

(* What is found for a prefix are words below it.                          *)
LEMMA PredictedFoundAre ==
  ASSUME NEW d, Known(d), Sound(d.user), NEW prefix \in Seq(Nat), NEW limit \in Nat
  PROVE LET found == PredictedFound(d, prefix, limit)
        IN /\ found \in SUBSET Words /\ IsFiniteSet(found)
           /\ \A e \in found : IsPrefix(prefix, e.reading)
  <1> DEFINE found == PredictedFound(d, prefix, limit)
             a == At(DefaultDb, ToSet(TopPredictions(DefaultDb, prefix, limit)))
             b == At(d.user, ToSet(TopPredictions(d.user, prefix, limit)))
  <1>1. Keyed(DefaultDb) /\ Sound(DefaultDb)
    BY LexiconIs
  <1>2. Keyed(d.user) /\ Sound(d.user)
    BY DEF Known, Keyed
  <1>3. found = a \cup b
    BY DEF PredictedFound
  <1>4. ASSUME NEW t, Keyed(t), Sound(t)
        PROVE LET s == At(t, ToSet(TopPredictions(t, prefix, limit)))
              IN s \in SUBSET Words /\ IsFiniteSet(s) /\ \A x \in s : IsPrefix(prefix, x.reading)
    <2> DEFINE I == ToSet(TopPredictions(t, prefix, limit))
               s == At(t, I)
               f == [i \in I |-> t.entries[i]]
    <2>1. I \in SUBSET Below(t, prefix) /\ IsFiniteSet(I)
      BY <1>4, TopAre DEF Bests
    <2> HIDE DEF I
    <2>2. \A i \in I : i \in DOMAIN t.entries /\ IsPrefix(prefix, t.entries[i].reading)
      BY <2>1 DEF Below
    <2>3. \A i \in DOMAIN t.entries : t.entries[i] \in Words
      BY <1>4 DEF Keyed
    <2>4. s = {f[i] : i \in I}
      BY DEF At
    <2>5. IsFiniteSet({f[i] : i \in I})
      <3> HIDE DEF f
      <3>1. QED BY <2>1, ImageIsFinite
    <2>6. \A x \in s : x \in Words /\ IsPrefix(prefix, x.reading)
      BY <2>2, <2>3, <2>4
    <2>7. QED BY <2>4, <2>5, <2>6 DEF I
  <1>5. a \in SUBSET Words /\ IsFiniteSet(a) /\ \A x \in a : IsPrefix(prefix, x.reading)
    BY <1>1, <1>4
  <1>6. b \in SUBSET Words /\ IsFiniteSet(b) /\ \A x \in b : IsPrefix(prefix, x.reading)
    BY <1>2, <1>4
  <1> HIDE DEF a, b, found
  <1>7. found \in SUBSET Words /\ IsFiniteSet(found)
    BY <1>3, <1>5, <1>6, FS_Union
  <1>8. QED BY <1>3, <1>5, <1>6, <1>7 DEF found

(* Their boosts are integers, and they can be ranked too.                  *)
LEMMA PredictedOfferIs ==
  ASSUME NEW d, Known(d), Sound(d.user), NEW prefix \in Seq(Nat) \ {<<>>}, NEW limit \in Nat,
         NEW pos \in PartsOfSpeech, NEW surface
  PROVE LET boosts == PredictedBoosts(d, prefix, limit, pos, surface)
        IN /\ boosts \in [PredictedFound(d, prefix, limit) -> Int]
           /\ Boosted(With(boosts))
           /\ 50 + RawReadingGrammarBoost(prefix, surface) \in Int
  <1> DEFINE found == PredictedFound(d, prefix, limit)
             boosts == PredictedBoosts(d, prefix, limit, pos, surface)
  <1>1. found \in SUBSET Words /\ IsFiniteSet(found)
    BY PredictedFoundAre
  <1>2. boosts = [e \in found |-> LengthBoost(e.reading, prefix) + EntryBoost(d, e, pos, surface)]
    BY DEF PredictedBoosts
  <1> HIDE DEF found
  <1>3. boosts \in [found -> Int]
    <2>1. ASSUME NEW e \in found PROVE LengthBoost(e.reading, prefix) + EntryBoost(d, e, pos, surface) \in Int
      <3> DEFINE l == Len(e.reading)
                 m == Len(prefix)
                 more == EntryBoost(d, e, pos, surface)
                 length == LengthBoost(e.reading, prefix)
      <3>1. more \in Int
        BY EntryBoostIsInt
      <3>2. e.reading \in Seq(Nat)
        BY <1>1 DEF Words
      <3>3. l \in Nat /\ m \in Nat
        BY <3>2
      <3>4. length = (IF l = m THEN 120 ELSE 0) - 8 * (l - m)
        BY DEF LengthBoost
      <3> HIDE DEF l, m, more, length
      <3>5. length \in Int
        BY <3>3, <3>4
      <3>6. length + more \in Int
        BY <3>1, <3>5
      <3>7. QED BY <3>6 DEF length, more
    <2>2. QED BY <1>2, <2>1
  <1> HIDE DEF boosts
  <1>4. With(boosts) = {<<e, boosts[e]>> : e \in found}
    BY <1>3 DEF With
  <1>5. Boosted(With(boosts)) /\ \A g \in With(boosts) : g[1] \in found
    BY <1>1, <1>3, <1>4, BoostedAre
  <1>6. 50 + RawReadingGrammarBoost(prefix, surface) \in Int
    BY DEF RawReadingGrammarBoost
  <1>7. QED BY <1>3, <1>5, <1>6 DEF boosts, found
-----------------------------------------------------------------------------
(* What survives blocking *)

(* The candidates of a reading are permitted,                              *)
LEMMA ExactArePermitted ==
  ASSUME NEW d, Known(d), NEW reading \in Seq(Nat) \ {<<>>}, NEW pos \in PartsOfSpeech, NEW surface
  PROVE Permitted(d, reading, BuildExactCandidates(d, reading, pos, surface))
  <1> DEFINE boosted == With(ExactBoosts(d, reading, pos, surface))
             score == RawReadingGrammarBoost(reading, surface)
             list == SortAndTrim(Unique(Offer(d, boosted, reading, score, surface)), ExactLimit)
  <1>1. Boosted(boosted) /\ score \in Int
    BY ExactOfferIs
  <1>2. BuildExactCandidates(d, reading, pos, surface) = list
    BY ExactIsShown
  <1>3. ExactLimit \in Nat \ {0}
    BY RankingAssumption
  <1> HIDE DEF boosted, score
  <1>4. Permitted(d, reading, list)
    BY <1>1, <1>3, ShownIsPermitted
  <1>5. QED BY <1>2, <1>4

(* and so are the predictions, in whatever order.                          *)
LEMMA PredictionsArePermitted ==
  ASSUME NEW d, Known(d), Sound(d.user), NEW reading \in Seq(Nat) \ {<<>>},
         NEW pos \in PartsOfSpeech, NEW surface
  PROVE Permitted(d, reading, Predictions(d, reading, pos, surface))
  <1> DEFINE limit == PredictionLimit(reading)
             boosted == With(PredictedBoosts(d, reading, limit, pos, surface))
             score == 50 + RawReadingGrammarBoost(reading, surface)
             items == BuildPredictionCandidates(d, reading, limit, pos, surface)
             shown == SortAndTrim(Unique(Offer(d, boosted, reading, score, surface)), limit)
             list == Predictions(d, reading, pos, surface)
  <1>1. limit \in Nat \ {0}
    BY DEF PredictionLimit
  <1> HIDE DEF limit
  <1>2. Boosted(boosted) /\ score \in Int
    BY <1>1, PredictedOfferIs
  <1>3. items = shown
    BY PredictedIsShown
  <1> HIDE DEF boosted, score, items
  <1>4. \E m \in Nat \ {0} : shown \in [1 .. m -> Candidates] /\ Permitted(d, reading, shown)
    BY <1>1, <1>2, ShownIsPermitted
  <1> HIDE DEF shown
  <1>5. PICK m \in Nat \ {0} : items \in [1 .. m -> Candidates] /\ Permitted(d, reading, items)
    BY <1>3, <1>4
  <1>6. list = ReorderFallbackPredictions(reading, pos, surface, items)
    BY DEF Predictions, items, limit
  <1> HIDE DEF list
  <1>7. IF Reorders(surface, pos) THEN Rearranged(list, items, reading, m) ELSE list = items
    <2> DEFINE again == ReorderFallbackPredictions(reading, pos, surface, items)
    <2>1. m \in Nat /\ items \in [1 .. m -> Candidates]
      BY <1>5
    <2>2. IF Reorders(surface, pos) THEN Rearranged(again, items, reading, m) ELSE again = items
      BY <2>1, ReorderedAre
    <2>3. QED BY <1>6, <2>2
  <1>8. CASE Reorders(surface, pos)
    <2>1. list = [p \in 1 .. m |-> list[p]] /\ \A p \in 1 .. m : \E j \in 1 .. m : list[p] = items[j]
      BY <1>7, <1>8 DEF Rearranged
    <2>2. DOMAIN list = 1 .. m /\ 1 \in DOMAIN list /\ DOMAIN items = 1 .. m
      BY <1>5, <2>1
    <2>3. list # <<>>
      BY <2>2
    <2>4. ASSUME NEW i \in DOMAIN list, <<list[i].reading, list[i].text>> \in d.black
          PROVE list[i].reading = reading /\ list[i].text \in {ToRomaji(reading), ToKatakana(reading)}
      <3>1. PICK j \in 1 .. m : list[i] = items[j]
        BY <2>1, <2>2
      <3>2. j \in DOMAIN items /\ <<items[j].reading, items[j].text>> \in d.black
        BY <2>2, <2>4, <3>1
      <3>3. items[j].reading = reading /\ items[j].text \in {ToRomaji(reading), ToKatakana(reading)}
        BY <1>5, <3>2 DEF Permitted
      <3>4. QED BY <3>1, <3>3
    <2>5. \A i \in DOMAIN list : <<list[i].reading, list[i].text>> \in d.black =>
                                list[i].reading = reading /\ list[i].text \in {ToRomaji(reading), ToKatakana(reading)}
      BY <2>4
    <2>6. Permitted(d, reading, list)
      BY <2>3, <2>5 DEF Permitted
    <2>7. QED BY <2>6 DEF list
  <1>9. QED BY <1>5, <1>7, <1>8 DEF list

(* What stands before a lookup has a part of speech.                       *)
LEMMA ContextsAre ==
  ASSUME NEW c \in Contexts
  PROVE c[1] \in PartsOfSpeech
  <1>1. "Unknown" \in PartsOfSpeech
    BY DEF PartsOfSpeech, ContextualRows
  <1>2. \A e \in ToSet(DefaultEntries) : e \in Words
    BY LexiconIs DEF ToSet
  <1>3. \/ c = <<"Unknown", <<>>>>
        \/ \E e \in ToSet(DefaultEntries) : c = <<e.partOfSpeech, e.text>>
    BY DEF Contexts
  <1>4. QED BY <1>1, <1>2, <1>3 DEF Words

(* After whatever commits, blockings and restarts: every lookup finds      *)
(* something, and of what is blocked it finds the reading in other letters *)
(* and no more.                                                            *)
THEOREM OnlySpellingsStay == Spec => []OnlySpellingsSurviveBlocking
  <1>1. Predicting => OnlySpellingsSurviveBlocking
    <2> SUFFICES ASSUME Predicting, NEW c \in Contexts, NEW typed \in Readings
                 PROVE /\ Permitted(dict, typed, BuildExactCandidates(dict, typed, c[1], c[2]))
                       /\ Permitted(dict, typed, Predictions(dict, typed, c[1], c[2]))
      BY DEF OnlySpellingsSurviveBlocking, Permitted
    <2>1. Known(dict) /\ Sound(dict.user)
      BY DEF Predicting, Inductive, TypedUser, Known
    <2>2. c[1] \in PartsOfSpeech
      BY ContextsAre
    <2>3. typed \in Seq(Nat) \ {<<>>}
      BY LearningAssumption
    <2>4. QED BY <2>1, <2>2, <2>3, ExactArePermitted, PredictionsArePermitted
  <1>2. QED BY <1>1, PredictingHolds, PTL
-----------------------------------------------------------------------------
(* One of two offers that favours a word *)

(* What is left of each candidate is the best.                             *)
LEMMA UniqueCovers ==
  ASSUME NEW offered \in SUBSET Candidates, IsFiniteSet(offered), NEW o \in offered
  PROVE \E c \in Unique(offered) : SameWord(o, c) /\ c.score >= o.score
  <1> DEFINE same == {x \in offered : SameWord(o, x)}
             score == [x \in same |-> x.score]
             scores == {score[x] : x \in same}
  <1>1. same \in SUBSET offered /\ o \in same
    BY DEF SameWord
  <1>2. scores \in SUBSET Int /\ scores # {}
    BY <1>1 DEF Candidates
  <1>3. IsFiniteSet(scores)
    <2>1. IsFiniteSet(same)
      BY <1>1, FS_Subset
    <2> HIDE DEF score, same
    <2>2. QED BY <2>1, ImageIsFinite
  <1>4. PICK most \in scores : \A y \in scores : y <= most
    <2> HIDE DEF scores
    <2>1. QED BY <1>2, <1>3, GreatestNumber
  <1>5. PICK c \in same : score[c] = most
    BY <1>4
  <1>6. \A x \in same : score[x] \in scores
    OBVIOUS
  <1>7. \A x \in same : x.score <= c.score
    <2>1. \A x \in same : score[x] <= score[c]
      BY <1>4, <1>5, <1>6
    <2>2. QED BY <2>1
  <1>8. c \in offered /\ SameWord(o, c)
    OBVIOUS
  <1>9. \A x \in offered : x.text = c.text /\ x.reading = c.reading => x \in same
    BY <1>8 DEF SameWord
  <1>10. c \in Unique(offered)
    BY <1>7, <1>8, <1>9 DEF Unique
  <1>11. o.score <= c.score /\ o.score \in Int /\ c.score \in Int
    BY <1>1, <1>7, <1>8 DEF Candidates
  <1>12. QED BY <1>8, <1>10, <1>11

(* So what favours a word in the offer favours it in what is left.         *)
LEMMA UniqueRaises ==
  ASSUME NEW A \in SUBSET Candidates, IsFiniteSet(A), NEW B \in SUBSET Candidates, IsFiniteSet(B),
         NEW reading, NEW text, Raises(A, B, reading, text)
  PROVE Raises(Unique(A), Unique(B), reading, text)
  <1>0. \A c \in Candidates : c.score \in Int
    BY DEF Candidates
  <1>1. Unique(A) \in SUBSET A /\ Unique(B) \in SUBSET B
    BY DEF Unique
  <1>2. ASSUME NEW y \in Unique(B), ~Named(y, reading, text)
        PROVE \E s \in Unique(A) : SameWord(y, s) /\ s.score >= y.score
    <2>1. PICK a \in A : SameWord(y, a) /\ a.score >= y.score
      BY <1>1, <1>2 DEF Raises
    <2>2. PICK s \in Unique(A) : SameWord(a, s) /\ s.score >= a.score
      BY UniqueCovers
    <2>3. SameWord(y, s)
      BY <2>1, <2>2 DEF SameWord
    <2>4. y.score \in Int /\ a.score \in Int /\ s.score \in Int
      BY <1>0, <1>1
    <2>5. QED BY <2>1, <2>2, <2>3, <2>4
  <1>3. ASSUME NEW x \in Unique(A), Named(x, reading, text)
        PROVE \E z \in Unique(B) : SameWord(x, z) /\ z.score >= x.score
    <2>1. PICK b \in B : SameWord(x, b) /\ b.score >= x.score
      BY <1>1, <1>3 DEF Raises
    <2>2. PICK z \in Unique(B) : SameWord(b, z) /\ z.score >= b.score
      BY UniqueCovers
    <2>3. SameWord(x, z)
      BY <2>1, <2>2 DEF SameWord
    <2>4. x.score \in Int /\ b.score \in Int /\ z.score \in Int
      BY <1>0, <1>1
    <2>5. QED BY <2>1, <2>2, <2>3, <2>4
  <1>4. QED BY <1>2, <1>3 DEF Raises

(* What an int32_t holds stays what it is.                                 *)
Fits(n) == n \in Int /\ -(MaxInt + 1) <= n /\ n <= MaxInt

LEMMA FitsIsKept ==
  ASSUME NEW n, Fits(n)
  PROVE Wrapped(n) = n
  <1> DEFINE m == 2 * (MaxInt + 1)
             k == n + MaxInt + 1
  <1>1. m \in Nat \ {0} /\ k \in Nat /\ k < m /\ MaxInt \in Nat /\ n \in Int
    BY ScoreAssumption DEF Fits
  <1>2. Wrapped(n) = (k % m) - (MaxInt + 1) /\ k - (MaxInt + 1) = n
    BY <1>1 DEF Wrapped
  <1> HIDE DEF m, k
  <1>3. k % m = k
    BY <1>1
  <1>4. QED BY <1>2, <1>3

(* A word with a greater score.                                            *)
Stronger(x, z) ==
  SameWord(x, z) /\ z.score >= x.score /\ z.partOfSpeech = x.partOfSpeech /\ z.category = x.category

(* From X to Z a word gets stronger and no other is new.                   *)
Lifted(X, Z, reading, text) ==
  /\ \A z \in Z : ~Named(z, reading, text) => z \in X
  /\ \A x \in X : Named(x, reading, text) => \E z \in Z : Stronger(x, z)

(* What is offered for words of which one is lifted, with its boosts, is   *)
(* offered with that one raised.                                           *)
LEMMA OfferRaises ==
  ASSUME NEW d, NEW f, f.black = d.black,
         NEW X \in SUBSET Words, NEW Z \in SUBSET Words, NEW reading, NEW text, Lifted(X, Z, reading, text),
         NEW a \in [X -> Int], NEW b \in [Z -> Int],
         \A x \in X : Fits(x.score + a[x]), \A z \in Z : Fits(z.score + b[z]),
         \A z \in Z : z \in X /\ ~Named(z, reading, text) => b[z] = a[z],
         \A x \in X, z \in Z : Named(x, reading, text) /\ Stronger(x, z) => b[z] >= a[x],
         NEW typed \in Seq(Nat) \ {<<>>}, NEW score \in Int, NEW surface
  PROVE Raises(Offer(d, With(a), typed, score, surface), Offer(f, With(b), typed, score, surface), reading, text)
  <1> DEFINE A == Offer(d, With(a), typed, score, surface)
             B == Offer(f, With(b), typed, score, surface)
             others == RawCandidate(d, typed, score) \cup SyntheticCandidates(d, typed, surface)
  <1>1. others = RawCandidate(f, typed, score) \cup SyntheticCandidates(f, typed, surface)
    BY DEF RawCandidate, SyntheticCandidates, IsBlocked
  <1>2. A = EntryCandidates(d, With(a)) \cup others /\ B = EntryCandidates(f, With(b)) \cup others
    BY <1>1 DEF Offer
  <1>3. ASSUME NEW c \in EntryCandidates(d, With(a))
        PROVE \E x \in X : /\ ~IsBlocked(d, x.reading, x.text) /\ x.score + a[x] \in Int
                           /\ c = Candidate(x.text, x.reading, x.score + a[x])
    <2>1. PICK g \in With(a) : /\ ~IsBlocked(d, g[1].reading, g[1].text)
                               /\ c = Candidate(g[1].text, g[1].reading, Wrapped(g[1].score + g[2]))
      BY DEF EntryCandidates
    <2>2. PICK x \in X : g = <<x, a[x]>>
      BY DEF With
    <2>3. g[1] = x /\ g[2] = a[x]
      BY <2>2
    <2>4. Fits(x.score + a[x])
      OBVIOUS
    <2>5. Wrapped(x.score + a[x]) = x.score + a[x] /\ x.score + a[x] \in Int
      BY <2>4, FitsIsKept DEF Fits
    <2>6. QED BY <2>1, <2>3, <2>5
  <1>4. ASSUME NEW c \in EntryCandidates(f, With(b))
        PROVE \E z \in Z : /\ ~IsBlocked(f, z.reading, z.text) /\ z.score + b[z] \in Int
                           /\ c = Candidate(z.text, z.reading, z.score + b[z])
    <2>1. PICK g \in With(b) : /\ ~IsBlocked(f, g[1].reading, g[1].text)
                               /\ c = Candidate(g[1].text, g[1].reading, Wrapped(g[1].score + g[2]))
      BY DEF EntryCandidates
    <2>2. PICK z \in Z : g = <<z, b[z]>>
      BY DEF With
    <2>3. g[1] = z /\ g[2] = b[z]
      BY <2>2
    <2>4. Fits(z.score + b[z])
      OBVIOUS
    <2>5. Wrapped(z.score + b[z]) = z.score + b[z] /\ z.score + b[z] \in Int
      BY <2>4, FitsIsKept DEF Fits
    <2>6. QED BY <2>1, <2>3, <2>5
  <1>5. ASSUME NEW e, NEW boosts, NEW W \in SUBSET Words, boosts \in [W -> Int], NEW w \in W,
               ~IsBlocked(e, w.reading, w.text), Fits(w.score + boosts[w])
        PROVE Candidate(w.text, w.reading, w.score + boosts[w]) \in EntryCandidates(e, With(boosts))
    <2> DEFINE g == <<w, boosts[w]>>
    <2>1. g \in With(boosts)
      BY <1>5 DEF With
    <2>2. g[1] = w /\ g[2] = boosts[w]
      OBVIOUS
    <2>3. Wrapped(w.score + boosts[w]) = w.score + boosts[w]
      BY <1>5, FitsIsKept
    <2> HIDE DEF g
    <2>4. Candidate(g[1].text, g[1].reading, Wrapped(g[1].score + g[2])) \in EntryCandidates(e, With(boosts))
      BY <1>5, <2>1, <2>2 DEF EntryCandidates
    <2>5. QED BY <2>2, <2>3, <2>4
  <1>6. \A t, r, n : /\ Named(Candidate(t, r, n), reading, text) <=> r = reading /\ t = text
                     /\ Candidate(t, r, n).score = n
                     /\ Candidate(t, r, n).text = t /\ Candidate(t, r, n).reading = r
    BY DEF Candidate, Named
  <1>7. \A c \in others : c.score \in Int
    <2>1. others \in SUBSET Candidates
      BY OtherCandidatesAre
    <2> HIDE DEF others
    <2>2. QED BY <2>1 DEF Candidates
  <1>8. \A r, t : IsBlocked(f, r, t) <=> IsBlocked(d, r, t)
    BY DEF IsBlocked
  <1> HIDE DEF others, A, B
  <1>9. ASSUME NEW y \in B, ~Named(y, reading, text) PROVE \E s \in A : SameWord(y, s) /\ s.score >= y.score
    <2>1. CASE y \in others
      BY <1>2, <1>7, <2>1 DEF SameWord
    <2>2. CASE y \in EntryCandidates(f, With(b))
      <3>1. PICK z \in Z : /\ ~IsBlocked(f, z.reading, z.text) /\ z.score + b[z] \in Int
                           /\ y = Candidate(z.text, z.reading, z.score + b[z])
        BY <1>4, <2>2
      <3>2. ~Named(z, reading, text)
        BY <1>6, <1>9, <3>1 DEF Named
      <3>3. z \in X
        BY <3>2 DEF Lifted
      <3>4. b[z] = a[z]
        BY <3>2, <3>3
      <3>5. ~IsBlocked(d, z.reading, z.text) /\ Fits(z.score + a[z])
        BY <1>8, <3>1, <3>3
      <3>6. Candidate(z.text, z.reading, z.score + a[z]) \in EntryCandidates(d, With(a))
        BY <1>5, <3>3, <3>5
      <3>7. y \in A
        BY <1>2, <3>1, <3>4, <3>6
      <3>8. y.score \in Int
        BY <1>6, <3>1
      <3>9. QED BY <3>7, <3>8 DEF SameWord
    <2>3. QED BY <1>2, <2>1, <2>2
  <1>10. ASSUME NEW c \in A, Named(c, reading, text) PROVE \E z \in B : SameWord(c, z) /\ z.score >= c.score
    <2>1. CASE c \in others
      BY <1>2, <1>7, <2>1 DEF SameWord
    <2>2. CASE c \in EntryCandidates(d, With(a))
      <3>1. PICK x \in X : /\ ~IsBlocked(d, x.reading, x.text) /\ x.score + a[x] \in Int
                           /\ c = Candidate(x.text, x.reading, x.score + a[x])
        BY <1>3, <2>2
      <3>2. Named(x, reading, text)
        BY <1>6, <1>10, <3>1 DEF Named
      <3>3. PICK z \in Z : Stronger(x, z)
        BY <3>2 DEF Lifted
      <3>4. b[z] >= a[x] /\ z.score >= x.score /\ z.reading = x.reading /\ z.text = x.text
        BY <3>2, <3>3 DEF Stronger, SameWord
      <3>5. ~IsBlocked(f, z.reading, z.text) /\ Fits(z.score + b[z])
        BY <1>8, <3>1, <3>4
      <3> DEFINE k == Candidate(z.text, z.reading, z.score + b[z])
      <3>6. k \in EntryCandidates(f, With(b))
        BY <1>5, <3>5
      <3>7. k.score = z.score + b[z] /\ c.score = x.score + a[x] /\ SameWord(c, k)
        BY <1>6, <3>1, <3>4 DEF SameWord
      <3>8. z.score \in Int /\ x.score \in Int /\ a[x] \in Int /\ b[z] \in Int
        BY DEF Words
      <3> HIDE DEF k
      <3>9. k.score >= c.score
        <4> DEFINE p == z.score
                   q == x.score
                   m == b[z]
                   n == a[x]
        <4>1. p \in Int /\ q \in Int /\ m \in Int /\ n \in Int /\ m >= n /\ p >= q
              /\ k.score = p + m /\ c.score = q + n
          BY <3>4, <3>7, <3>8
        <4> HIDE DEF p, q, m, n
        <4>2. QED BY <4>1
      <3>10. QED BY <1>2, <3>6, <3>7, <3>9
    <2>3. QED BY <1>2, <2>1, <2>2
  <1>11. QED BY <1>9, <1>10 DEF Raises, A, B
-----------------------------------------------------------------------------
(* What a commit changes *)

(* Each word is there once.                                                *)
EachOnce(entries) == \A i, j \in DOMAIN entries : SameWord(entries[i], entries[j]) => i = j

(* One database goes on from another with the word at w raised, or new.    *)
WordRaised(t, u, w, reading, text) ==
  /\ w \in DOMAIN u.entries /\ Named(u.entries[w], reading, text)
  /\ \A j \in DOMAIN u.entries \ {w} :
       j \in DOMAIN t.entries /\ u.entries[j] = t.entries[j] /\ ~Named(t.entries[j], reading, text)
  /\ \A j \in DOMAIN t.entries : j \in DOMAIN u.entries
  /\ w \in DOMAIN t.entries => Stronger(t.entries[w], u.entries[w])

(* Where a word comes from after a commit: it was there, or there with the *)
(* score before, or it is new.                                             *)
CameFrom(w, entries, reading, text) ==
  \/ \E k \in DOMAIN entries : w = entries[k]
  \/ \E k \in DOMAIN entries : SameWord(w, entries[k]) /\ w.score = Raised(entries[k].score)
  \/ Named(w, reading, text) /\ w.score = Raised(0)

(* A score within its bounds is raised.                                    *)
LEMMA RaisedIsMore ==
  ASSUME NEW n, Fits(n), n <= MaxScore
  PROVE Raised(n) >= n
  <1>1. /\ MaxInt \in Nat /\ MaxScore \in Nat /\ CommitScore \in Nat /\ MaxScore <= MaxInt
        /\ n \in Int /\ -(MaxInt + 1) <= n
    BY ScoreAssumption DEF Fits
  <1>2. CASE n > MaxScore - CommitScore
    BY <1>1, <1>2 DEF Raised
  <1>3. CASE ~(n > MaxScore - CommitScore)
    <2>1. Fits(n + CommitScore)
      BY <1>1, <1>3 DEF Fits
    <2>2. Raised(n) = n + CommitScore
      BY <1>3, <2>1, FitsIsKept DEF Raised
    <2>3. QED BY <1>1, <2>2
  <1>4. QED BY <1>2, <1>3

(* A commit raises the word it commits, and keeps all others.              *)
LEMMA CommitRaises ==
  ASSUME NEW u, TypedUser(u), \A i \in DOMAIN u.entries : Fits(u.entries[i].score) /\ u.entries[i].score <= MaxScore,
         EachOnce(u.entries), NEW reading \in Seq(Nat), NEW text \in Seq(Nat)
  PROVE /\ \E w : WordRaised(u, Commit(u, reading, text), w, reading, text)
        /\ EachOnce(Commit(u, reading, text).entries)
        /\ Commit(u, reading, text).contexts = u.contexts
        /\ \A j \in DOMAIN Commit(u, reading, text).entries :
             CameFrom(Commit(u, reading, text).entries[j], u.entries, reading, text)
  <1> DEFINE known == EnsureEntry(u, reading, text)
             i == IndexOf(known, reading, text)
             entry == [known.entries[i] EXCEPT !.score = Raised(@)]
             entries == [known.entries EXCEPT ![i] = entry]
             raised == [known EXCEPT !.entries = entries]
             v == Rebuild(raised, Path(reading))
             s == u.entries
             e == [reading |-> reading, text |-> text, score |-> 0,
                   partOfSpeech |-> "Unknown", category |-> "None"]
  <1>1. TypedUser(known)
    BY EnsuredIsTyped
  <1>2. Commit(u, reading, text) = v
    BY DEF Commit
  <1>3. s \in Seq(Words)
    BY DEF TypedUser
  <1>4. /\ \A j \in DOMAIN s : j \in DOMAIN known.entries /\ known.entries[j] = s[j]
        /\ \A j \in DOMAIN known.entries : j \in DOMAIN s \/ known.entries[j] = e
        /\ \A j, k \in DOMAIN known.entries : j \notin DOMAIN s /\ Named(known.entries[k], reading, text) => j = k
        /\ \E j \in DOMAIN known.entries : Named(known.entries[j], reading, text)
        /\ known.contexts = u.contexts
    <2>1. CASE IndexOf(u, reading, text) # 0
      <3>1. known = u
        BY <2>1 DEF EnsureEntry
      <3>2. \E j \in DOMAIN s : Named(s[j], reading, text)
        BY <1>3, <2>1, IndexIs DEF Named
      <3> HIDE DEF known
      <3>3. QED BY <3>1, <3>2
    <2>2. CASE IndexOf(u, reading, text) = 0
      <3>1. known = UserData(AddEntry(u, e), u.contexts)
        BY <2>2 DEF EnsureEntry
      <3>2. known.entries = Append(s, e) /\ known.contexts = u.contexts
        BY <3>1 DEF UserData, AddEntry
      <3>3. Named(e, reading, text)
        BY DEF Named
      <3> HIDE DEF known, s, e
      <3>4. /\ \A j \in DOMAIN s : j \in DOMAIN Append(s, e) /\ Append(s, e)[j] = s[j]
            /\ \A j \in DOMAIN Append(s, e) : j \in DOMAIN s \/ Append(s, e)[j] = e
            /\ Len(s) + 1 \in DOMAIN Append(s, e) /\ Append(s, e)[Len(s) + 1] = e
            /\ DOMAIN Append(s, e) = DOMAIN s \cup {Len(s) + 1} /\ Len(s) + 1 \notin DOMAIN s
        BY <1>3
      <3>5. \A k \in DOMAIN s : ~Named(s[k], reading, text)
        BY <1>3, <2>2, IndexIs DEF Named, s
      <3>6. \A j, k \in DOMAIN Append(s, e) : j \notin DOMAIN s /\ Named(Append(s, e)[k], reading, text) => j = k
        BY <3>4, <3>5
      <3>7. QED BY <3>2, <3>3, <3>4, <3>6
    <2>3. QED BY <2>1, <2>2
  <1>5. known.entries \in Seq(Words) /\ Named(e, reading, text) /\ e.score = 0
    BY <1>1 DEF TypedUser, Named
  <1> HIDE DEF known, e
  <1>6. i \in DOMAIN known.entries /\ Named(known.entries[i], reading, text)
    BY <1>4, <1>5, IndexIs DEF Named
  <1> HIDE DEF i
  <1>7. known.entries[i] \in Words
    BY <1>5, <1>6
  <1>8. /\ DOMAIN entries = DOMAIN known.entries
        /\ \A j \in DOMAIN known.entries : j # i => entries[j] = known.entries[j]
        /\ entries[i] = entry
    <2> DEFINE k == known.entries
    <2> HIDE DEF k, entry
    <2>1. DOMAIN [k EXCEPT ![i] = entry] = DOMAIN k
          /\ \A j \in DOMAIN k : [k EXCEPT ![i] = entry][j] = IF j = i THEN entry ELSE k[j]
      OBVIOUS
    <2>2. QED BY <1>6, <2>1 DEF k
  <1>9. /\ entry.reading = reading /\ entry.text = text /\ entry.score = Raised(known.entries[i].score)
        /\ entry.partOfSpeech = known.entries[i].partOfSpeech /\ entry.category = known.entries[i].category
    <2> DEFINE w == known.entries[i]
               r == Raised(known.entries[i].score)
    <2>1. entry = [w EXCEPT !.score = r] /\ w \in Words /\ w.reading = reading /\ w.text = text
      BY <1>6, <1>7 DEF Named
    <2> HIDE DEF entry, w, r
    <2>2. entry.reading = reading /\ entry.text = text /\ entry.score = r
          /\ entry.partOfSpeech = w.partOfSpeech /\ entry.category = w.category
      BY <2>1 DEF Words
    <2>3. QED BY <2>2 DEF w, r
  <1> HIDE DEF entries, entry
  <1>10. v.entries = entries /\ v.contexts = u.contexts
    <2>1. raised.entries = entries /\ raised.contexts = known.contexts /\ DOMAIN raised = DOMAIN known
      BY <1>1 DEF TypedUser
    <2> HIDE DEF raised
    <2>2. Kept(v, raised)
      <3>1. DOMAIN Path(reading) = 1 .. Len(reading) + 1 /\ Len(reading) + 1 \in Nat
        BY PathIs
      <3>2. QED BY <3>1, RebuildKeeps
    <2> HIDE DEF v
    <2>3. DOMAIN raised = {"entries", "nodes", "top", "contexts"}
      BY <1>1, <2>1 DEF TypedUser
    <2>4. v["entries"] = raised["entries"] /\ v["contexts"] = raised["contexts"]
      BY <2>2, <2>3 DEF Kept
    <2>5. QED BY <1>4, <2>1, <2>4
  <1> HIDE DEF v
  <1>11. ASSUME NEW j \in DOMAIN v.entries, j # i
         PROVE j \in DOMAIN s /\ v.entries[j] = s[j] /\ ~Named(s[j], reading, text)
    <2>1. j \in DOMAIN known.entries /\ v.entries[j] = known.entries[j]
      BY <1>8, <1>10, <1>11
    <2>2. j \in DOMAIN s /\ known.entries[j] = s[j]
      BY <1>4, <1>6, <1>11, <2>1
    <2>3. ~Named(known.entries[j], reading, text)
      <3>1. CASE i \in DOMAIN s
        <4>1. known.entries[i] = s[i]
          BY <1>4, <3>1
        <4>2. Named(s[j], reading, text) => SameWord(s[i], s[j])
          BY <1>6, <4>1 DEF Named, SameWord
        <4>3. QED BY <1>11, <2>2, <3>1, <4>2 DEF EachOnce
      <3>2. CASE i \notin DOMAIN s
        BY <1>4, <1>6, <1>11, <2>1, <3>2
      <3>3. QED BY <3>1, <3>2
    <2>4. QED BY <2>1, <2>2, <2>3
  <1>12. \A j \in DOMAIN s : j \in DOMAIN v.entries
    BY <1>4, <1>8, <1>10
  <1>13. i \in DOMAIN v.entries /\ v.entries[i] = entry /\ Named(entry, reading, text)
    BY <1>6, <1>8, <1>9, <1>10 DEF Named
  <1>14. ASSUME i \in DOMAIN s PROVE Stronger(s[i], v.entries[i])
    <2>1. known.entries[i] = s[i] /\ Named(s[i], reading, text)
      BY <1>4, <1>6, <1>14
    <2>2. Fits(s[i].score) /\ s[i].score <= MaxScore
      BY <1>14
    <2>3. Raised(s[i].score) >= s[i].score
      BY <2>2, RaisedIsMore
    <2>4. QED BY <1>9, <1>13, <2>1, <2>3 DEF Stronger, SameWord, Named
  <1> HIDE DEF s
  <1>15. WordRaised(u, v, i, reading, text) /\ EachOnce(v.entries)
    <2>1. WordRaised(u, v, i, reading, text)
      BY <1>11, <1>12, <1>13, <1>14 DEF WordRaised, s
    <2>2. ASSUME NEW j \in DOMAIN v.entries, NEW k \in DOMAIN v.entries,
                 SameWord(v.entries[j], v.entries[k])
          PROVE j = k
      <3>1. CASE j # i /\ k # i
        BY <1>11, <2>2, <3>1 DEF EachOnce, s
      <3>2. CASE j = i /\ k # i
        BY <1>11, <1>13, <2>2, <3>2 DEF Named, SameWord
      <3>3. CASE j # i /\ k = i
        BY <1>11, <1>13, <2>2, <3>3 DEF Named, SameWord
      <3>4. QED BY <3>1, <3>2, <3>3
    <2>3. QED BY <2>1, <2>2 DEF EachOnce
  <1>16. ASSUME NEW j \in DOMAIN v.entries PROVE CameFrom(v.entries[j], u.entries, reading, text)
    <2>1. j \in DOMAIN known.entries
      BY <1>8, <1>10
    <2>2. CASE j # i
      <3>1. v.entries[j] = known.entries[j]
        BY <1>8, <1>10, <2>1, <2>2
      <3>2. j \in DOMAIN s
        BY <1>4, <1>6, <2>1, <2>2
      <3>3. QED BY <1>4, <3>1, <3>2 DEF CameFrom, s
    <2>3. CASE j = i
      <3>1. v.entries[j] = entry /\ Named(entry, reading, text)
        BY <1>8, <1>9, <1>10, <2>3 DEF Named
      <3>2. CASE i \in DOMAIN s
        <4>1. known.entries[i] = s[i] /\ Named(s[i], reading, text)
          BY <1>4, <1>6, <3>2
        <4>2. SameWord(entry, s[i]) /\ entry.score = Raised(s[i].score)
          BY <1>9, <3>1, <4>1 DEF SameWord, Named
        <4>3. QED BY <3>1, <3>2, <4>2 DEF CameFrom, s
      <3>3. CASE i \notin DOMAIN s
        <4>1. known.entries[i] = e
          BY <1>4, <1>6, <3>3
        <4>2. entry.score = Raised(0)
          BY <1>5, <1>9, <4>1
        <4>3. QED BY <3>1, <4>2 DEF CameFrom
      <3>4. QED BY <3>2, <3>3
    <2>4. QED BY <2>2, <2>3
  <1>17. QED BY <1>2, <1>10, <1>15, <1>16

(* A word that followed another once more is boosted no less after it, and *)
(* no other word is boosted otherwise.                                     *)
ContextsOn(u, v, reading, text) ==
  \A surface, r, t :
    /\ ContextScore(v, surface, r, t) >= ContextScore(u, surface, r, t)
    /\ ~(r = reading /\ t = text) => ContextScore(v, surface, r, t) = ContextScore(u, surface, r, t)

LEMMA TransitionBoosts ==
  ASSUME NEW u, TypedUser(u), NEW previous, NEW reading, NEW text
  PROVE ContextsOn(u, RecordContextTransition(u, previous, reading, text), reading, text)
  <1> DEFINE v == RecordContextTransition(u, previous, reading, text)
             key == <<previous, reading, text>>
             count == IF key \in DOMAIN u.contexts THEN u.contexts[key] ELSE 0
             n == IF count < MaxContextCount THEN count + 1 ELSE count
             boost(k) == Min({k * ContextBoostStep, MaxContextBoost})
             score(w, k) == IF k \in DOMAIN w.contexts THEN boost(w.contexts[k]) ELSE 0
  <1>1. v.contexts = [k \in DOMAIN u.contexts \cup {key} |-> IF k # key THEN u.contexts[k] ELSE n]
    <2> DEFINE old == u.contexts
               contexts == [k \in DOMAIN old \cup {key} |-> IF k # key THEN old[k] ELSE n]
    <2>1. v = [u EXCEPT !.contexts = contexts]
      BY DEF RecordContextTransition
    <2>2. "contexts" \in DOMAIN u
      BY DEF TypedUser
    <2> HIDE DEF contexts, v
    <2>3. v.contexts = contexts
      BY <2>1, <2>2
    <2>4. QED BY <2>3 DEF contexts
  <1>2. /\ MaxContextCount \in Nat /\ ContextBoostStep \in Nat /\ MaxContextBoost \in Nat
        /\ \A k \in DOMAIN u.contexts : u.contexts[k] \in Nat
    BY ScoreAssumption DEF TypedUser
  <1>3. count \in Nat
    BY <1>2
  <1> HIDE DEF count, key
  <1>4. n \in Nat /\ count <= n
    BY <1>2, <1>3
  <1>5. ASSUME NEW a \in Nat, NEW b \in Nat, a <= b
        PROVE boost(a) \in Nat /\ boost(b) \in Nat /\ boost(a) <= boost(b)
    <2> DEFINE p == a * ContextBoostStep
               q == b * ContextBoostStep
    <2>1. p \in Nat /\ q \in Nat
      BY <1>2
    <2>2. p <= q
      <3> DEFINE m == b - a
                 z == ContextBoostStep
      <3>1. m \in Nat /\ b = a + m /\ z \in Nat
        BY <1>2, <1>5
      <3> HIDE DEF m, z
      <3>2. (a + m) * z = a * z + m * z /\ m * z \in Nat /\ a * z \in Nat
        BY <3>1
      <3>3. QED BY <3>1, <3>2 DEF z
    <2>3. /\ boost(a) = IF p <= MaxContextBoost THEN p ELSE MaxContextBoost
          /\ boost(b) = IF q <= MaxContextBoost THEN q ELSE MaxContextBoost
      BY <1>2, <2>1, MinIs
    <2> HIDE DEF p, q, boost
    <2>4. QED BY <1>2, <2>1, <2>2, <2>3
  <1>6. \A w, surface, r, t : ContextScore(w, surface, r, t) = score(w, <<surface, r, t>>)
    BY DEF ContextScore
  <1> HIDE DEF boost, n, v
  <1>7. ASSUME NEW k PROVE score(v, k) >= score(u, k) /\ (k # key => score(v, k) = score(u, k))
    <2>1. CASE k = key
      <3>1. score(v, k) = boost(n)
        BY <1>1, <2>1
      <3>2. CASE k \in DOMAIN u.contexts
        <4>1. score(u, k) = boost(count)
          BY <2>1, <3>2 DEF count
        <4> HIDE DEF score
        <4>2. QED BY <1>3, <1>4, <1>5, <2>1, <3>1, <4>1
      <3>3. CASE k \notin DOMAIN u.contexts
        <4>1. score(u, k) = 0
          BY <3>3
        <4> HIDE DEF score
        <4>2. boost(n) \in Nat
          BY <1>4, <1>5
        <4>3. QED BY <2>1, <3>1, <4>1, <4>2
      <3>4. QED BY <3>2, <3>3
    <2>2. CASE k # key
      <3>1. score(v, k) = score(u, k)
        BY <1>1, <2>2
      <3>2. score(u, k) \in Int
        <4>1. k \in DOMAIN u.contexts => boost(u.contexts[k]) \in Nat
          BY <1>2, <1>5
        <4>2. QED BY <4>1
      <3> HIDE DEF score
      <3>3. QED BY <2>2, <3>1, <3>2
    <2>3. QED BY <2>1, <2>2
  <1>8. \A surface, r, t : <<surface, r, t>> = key => r = reading /\ t = text
    BY DEF key
  <1> HIDE DEF score
  <1>9. ContextsOn(u, v, reading, text)
    BY <1>6, <1>7, <1>8 DEF ContextsOn
  <1>10. QED BY <1>9 DEF v
-----------------------------------------------------------------------------
(* What is found after a commit *)

(* A word keeps itself.                                                    *)
LEMMA StrongAsItself == \A w \in Words : Stronger(w, w)
  BY DEF Stronger, SameWord, Words

(* Of what is found for a reading the word committed gets stronger.        *)
LEMMA ExactLifted ==
  ASSUME NEW d, NEW f, Known(d), Known(f), NEW reading, NEW text,
         NEW w, WordRaised(d.user, f.user, w, reading, text), NEW typed
  PROVE Lifted(ExactFound(d, typed), ExactFound(f, typed), reading, text)
  <1> DEFINE a == At(DefaultDb, Exact(DefaultDb, typed))
  <1>0. a \in SUBSET Words
    BY DefaultIs, FoundAre
  <1> HIDE DEF a
  <1>1. ExactFound(d, typed) = a \cup At(d.user, Exact(d.user, typed))
        /\ ExactFound(f, typed) = a \cup At(f.user, Exact(f.user, typed))
    BY DEF ExactFound, a
  <1>2. \A t, x : x \in At(t, Exact(t, typed)) <=> x.reading = typed /\ \E i \in DOMAIN t.entries : x = t.entries[i]
    BY DEF At, Exact
  <1>3. ASSUME NEW z \in ExactFound(f, typed), ~Named(z, reading, text) PROVE z \in ExactFound(d, typed)
    <2>1. CASE z \in a
      BY <1>1, <2>1
    <2>2. CASE z \in At(f.user, Exact(f.user, typed))
      <3>1. PICK j \in DOMAIN f.user.entries : z = f.user.entries[j] /\ z.reading = typed
        BY <1>2, <2>2
      <3>2. \E i \in DOMAIN d.user.entries : z = d.user.entries[i]
        BY <1>3, <3>1 DEF WordRaised
      <3>3. QED BY <1>1, <1>2, <3>1, <3>2
    <2>3. QED BY <1>1, <2>1, <2>2
  <1>4. ASSUME NEW x \in ExactFound(d, typed), Named(x, reading, text)
        PROVE \E z \in ExactFound(f, typed) : Stronger(x, z)
    <2>1. CASE x \in a
      BY <1>0, <1>1, <2>1, StrongAsItself
    <2>2. CASE x \in At(d.user, Exact(d.user, typed))
      <3>1. PICK i \in DOMAIN d.user.entries : x = d.user.entries[i] /\ x.reading = typed
        BY <1>2, <2>2
      <3>2. PICK j \in DOMAIN f.user.entries : Stronger(x, f.user.entries[j])
        <4>1. i = w
          BY <1>4, <3>1 DEF WordRaised
        <4>2. QED BY <3>1, <4>1 DEF WordRaised
      <3>3. f.user.entries[j].reading = typed
        BY <3>1, <3>2 DEF Stronger, SameWord
      <3>4. f.user.entries[j] \in At(f.user, Exact(f.user, typed))
        BY <1>2, <3>3
      <3>5. QED BY <1>1, <3>2, <3>4
    <2>3. QED BY <1>1, <2>1, <2>2
  <1>5. QED BY <1>3, <1>4 DEF Lifted

(* So of the best words below a prefix only the one committed may be new,  *)
(* and it is not lost, if no tie decided which are the best: any other     *)
(* that is new would be behind all that were there before, and they are    *)
(* still there.                                                            *)
LEMMA BestStay ==
  ASSUME NEW t, NEW u, Keyed(t), Keyed(u), NEW w, NEW reading, NEW text,
         WordRaised(t, u, w, reading, text),
         NEW prefix, NEW n \in Nat, NEW F, NEW G,
         Bests(t.entries, Below(t, prefix), n, F), Bests(u.entries, Below(u, prefix), n, G),
         IsDecided(Restrict(t.entries, Below(t, prefix)))
  PROVE /\ \A j \in G \ {w} : j \in F
        /\ w \in F => w \in G
  <1> DEFINE I == Below(t, prefix)
             J == Below(u, prefix)
             e == t.entries
             f == u.entries
  <1>1. /\ \A j \in J \ {w} : j \in I /\ f[j] = e[j]
        /\ \A j \in I : j \in J
        /\ w \in I => Stronger(e[w], f[w])
    <2>1. \A j \in J \ {w} : j \in I /\ f[j] = e[j]
      BY DEF WordRaised, Below
    <2>2. w \in I => Stronger(e[w], f[w]) /\ w \in J
      BY DEF WordRaised, Below, Stronger, SameWord
    <2>3. \A j \in I : j # w => j \in J
      BY DEF WordRaised, Below
    <2>4. QED BY <2>1, <2>2, <2>3
  <1>2. (\A i \in I : Item(e[i])) /\ (\A j \in J : Item(f[j]))
    <2>1. I \in SUBSET DOMAIN e /\ J \in SUBSET DOMAIN f
      BY DEF Below
    <2> HIDE DEF I, J
    <2>2. QED BY <2>1, WordsAreRankable
  <1>3. \A i, j \in I : Ties(e[i], e[j]) => i = j
    <2> DEFINE r == Restrict(e, I)
    <2>1. r = [i \in I |-> e[i]]
      BY DEF Restrict
    <2>2. DOMAIN r = I /\ \A i \in I : r[i] = e[i]
      BY <2>1
    <2> HIDE DEF r, I, e
    <2>3. IsDecided(r)
      BY DEF r, I, e
    <2>4. QED BY <2>2, <2>3 DEF IsDecided
  <1> HIDE DEF I, J, e, f
  <1>4. /\ F \in SUBSET I /\ IsFiniteSet(F) /\ Cardinality(F) <= n /\ (F = I \/ Cardinality(F) = n)
        /\ \A i \in I \ F : \A j \in F : ~Better(e[i], e[j])
        /\ G \in SUBSET J /\ IsFiniteSet(G) /\ Cardinality(G) <= n /\ (G = J \/ Cardinality(G) = n)
        /\ \A i \in J \ G : \A j \in G : ~Better(f[i], f[j])
    BY DEF Bests, I, J, e, f
  <1>5. Cardinality(F) \in Nat /\ Cardinality(G) \in Nat
    BY <1>4, FS_CardinalityType
  <1>6. ASSUME NEW A, NEW B, IsFiniteSet(B), A \in SUBSET B, NEW x \in B, x \notin A
        PROVE Cardinality(A) < Cardinality(B)
    <2>1. Cardinality(A) <= Cardinality(B) /\ (Cardinality(A) = Cardinality(B) => A = B) /\ IsFiniteSet(A)
      BY <1>6, FS_Subset
    <2>2. Cardinality(A) \in Nat /\ Cardinality(B) \in Nat /\ A # B
      BY <1>6, <2>1, FS_CardinalityType
    <2>3. QED BY <2>1, <2>2
  <1>7. ASSUME NEW j \in G \ {w}, j \notin F PROVE FALSE
    <2>1. j \in I /\ j \in J /\ f[j] = e[j]
      BY <1>1, <1>4
    <2>2. Cardinality(F) = n
      BY <1>4, <1>7, <2>1
    <2>3. ASSUME NEW k \in F PROVE k \in G
      <3>1. k \in I /\ k \in J /\ k # j
        BY <1>1, <1>4, <1>7
      <3>2. Better(e[k], e[j])
        <4>1. ~Better(e[j], e[k]) /\ ~Ties(e[j], e[k])
          BY <1>3, <1>4, <1>7, <2>1, <3>1
        <4>2. QED BY <1>2, <2>1, <3>1, <4>1, TiesAre
      <3>3. Better(f[k], f[j])
        <4>1. CASE k = w
          <5> DEFINE x == e[j]
                     y == e[k]
                     v == f[k]
          <5>1. Item(x) /\ Item(y) /\ Item(v) /\ SameWord(y, v) /\ v.score >= y.score /\ Better(y, x)
            BY <1>1, <1>2, <2>1, <3>1, <3>2, <4>1 DEF Stronger
          <5> HIDE DEF x, y, v
          <5>2. SameWord(x, x) /\ x.score <= x.score
            BY <5>1 DEF SameWord, Item
          <5>3. Better(v, x)
            BY <5>1, <5>2, BetterWhenMore
          <5>4. QED BY <2>1, <5>3 DEF v, x
        <4>2. CASE k # w
          BY <1>1, <2>1, <3>1, <3>2, <4>2
        <4>3. QED BY <4>1, <4>2
      <3>4. QED BY <1>4, <3>1, <3>3
    <2>4. Cardinality(F) < Cardinality(G)
      BY <1>4, <1>6, <1>7, <2>3
    <2>5. QED BY <1>4, <1>5, <2>2, <2>4
  <1>8. ASSUME w \in F, w \notin G PROVE FALSE
    <2>1. w \in J
      BY <1>1, <1>4, <1>8
    <2>2. Cardinality(G) = n
      BY <1>4, <1>8, <2>1
    <2>3. G \in SUBSET F
      BY <1>7, <1>8
    <2>4. Cardinality(G) < Cardinality(F)
      BY <1>4, <1>6, <1>8, <2>3
    <2>5. QED BY <1>4, <1>5, <2>2, <2>4
  <1>9. QED BY <1>7, <1>8

(* So it is with what is found for a prefix.                               *)
LEMMA PredictedLifted ==
  ASSUME NEW d, NEW f, Known(d), Known(f), Sound(d.user), Sound(f.user),
         NEW w, NEW reading, NEW text, WordRaised(d.user, f.user, w, reading, text),
         NEW prefix \in Seq(Nat), NEW limit \in Nat,
         IsDecided(Restrict(d.user.entries, Below(d.user, prefix)))
  PROVE Lifted(PredictedFound(d, prefix, limit), PredictedFound(f, prefix, limit), reading, text)
  <1> DEFINE a == At(DefaultDb, ToSet(TopPredictions(DefaultDb, prefix, limit)))
             F == ToSet(TopPredictions(d.user, prefix, limit))
             G == ToSet(TopPredictions(f.user, prefix, limit))
             b == At(d.user, F)
             c == At(f.user, G)
             n == Min({TopPredictionCount, limit})
  <1>1. PredictedFound(d, prefix, limit) = a \cup b /\ PredictedFound(d, prefix, limit) \in SUBSET Words
    BY PredictedFoundAre DEF PredictedFound
  <1>2. PredictedFound(f, prefix, limit) = a \cup c
    BY DEF PredictedFound
  <1>3. Keyed(d.user) /\ Keyed(f.user)
    BY DEF Known, Keyed
  <1>4. n \in Nat
    <2>1. TopPredictionCount \in Nat
      BY TopAssumption
    <2>2. n \in {TopPredictionCount, limit}
      BY <2>1, SmallerIs
    <2>3. QED BY <2>1, <2>2
  <1>5. /\ Bests(d.user.entries, Below(d.user, prefix), n, F)
        /\ Bests(f.user.entries, Below(f.user, prefix), n, G)
    BY <1>3, TopAre
  <1> HIDE DEF F, G, n
  <1>6. (\A j \in G \ {w} : j \in F) /\ (w \in F => w \in G)
    <2> DEFINE t == d.user
               u == f.user
    <2>1. /\ Keyed(t) /\ Keyed(u) /\ WordRaised(t, u, w, reading, text)
          /\ Bests(t.entries, Below(t, prefix), n, F) /\ Bests(u.entries, Below(u, prefix), n, G)
          /\ IsDecided(Restrict(t.entries, Below(t, prefix)))
      BY <1>3, <1>5
    <2> HIDE DEF t, u
    <2>2. QED BY <1>4, <2>1, BestStay
  <1>7. F \in SUBSET DOMAIN d.user.entries /\ G \in SUBSET DOMAIN f.user.entries
    BY <1>5 DEF Bests, Below
  <1>8. ASSUME NEW z \in c, ~Named(z, reading, text) PROVE z \in b
    <2>1. PICK j \in G : z = f.user.entries[j]
      BY DEF At
    <2>2. j # w
      BY <1>8, <2>1 DEF WordRaised
    <2>3. j \in F /\ z = d.user.entries[j]
      BY <1>6, <1>7, <2>1, <2>2 DEF WordRaised
    <2>4. QED BY <2>3 DEF At
  <1>9. ASSUME NEW x \in b, Named(x, reading, text) PROVE \E z \in c : Stronger(x, z)
    <2>1. PICK j \in F : x = d.user.entries[j]
      BY DEF At
    <2>2. j = w
      BY <1>7, <1>9, <2>1 DEF WordRaised
    <2>3. w \in G /\ Stronger(x, f.user.entries[w])
      BY <1>6, <1>7, <2>1, <2>2 DEF WordRaised
    <2>4. QED BY <2>3 DEF At
  <1> HIDE DEF a, b, c
  <1>10. \A x \in a : Stronger(x, x)
    BY <1>1, StrongAsItself
  <1>11. Lifted(a \cup b, a \cup c, reading, text)
    BY <1>8, <1>9, <1>10 DEF Lifted
  <1>12. QED BY <1>1, <1>2, <1>11
-----------------------------------------------------------------------------
(* How much a boost can be *)

(* A column of a table is no less than its least and no more than its      *)
(* greatest, or nothing.                                                   *)
LEMMA ColumnWithin ==
  ASSUME NEW least \in Int, NEW greatest \in Int, least <= 0, 0 <= greatest,
         NEW row, \A p \in DOMAIN row : row[p] \in least .. greatest, NEW partOfSpeech
  PROVE Column(row, partOfSpeech) \in least .. greatest
  BY DEF Column

(* So the boost for the part of speech before is bounded,                  *)
LEMMA ContextualBoostWithin ==
  ASSUME NEW entry, NEW pos \in PartsOfSpeech
  PROVE ContextualPartOfSpeechBoost(entry, pos) \in -160 .. 220
  <1>1. \A p \in DOMAIN ContextualRows[pos] : ContextualRows[pos][p] \in -160 .. 220
    BY DEF PartsOfSpeech, ContextualRows, AfterPredicate
  <1>2. Column(ContextualRows[pos], entry.partOfSpeech) \in -160 .. 220
    <2> DEFINE row == ContextualRows[pos]
    <2>1. \A p \in DOMAIN row : row[p] \in -160 .. 220
      BY <1>1
    <2> HIDE DEF row
    <2>2. Column(row, entry.partOfSpeech) \in -160 .. 220
      BY <2>1, ColumnWithin, -160 \in Int, 220 \in Int, -160 <= 0, 0 <= 220
    <2>3. QED BY <2>2 DEF row
  <1>3. QED BY <1>2 DEF ContextualPartOfSpeechBoost

(* and the one for the surface before.                                     *)
LEMMA SurfaceBoostWithin ==
  ASSUME NEW entry, NEW pos, NEW surface
  PROVE SurfaceGrammarBoost(entry, pos, surface) \in -260 .. 260
  <1> DEFINE row == SurfaceRow(pos, surface)
  <1>1. \A p \in DOMAIN row : row[p] \in -260 .. 260
    <2>1. CASE surface = Wo
      BY <2>1 DEF SurfaceRow
    <2>2. CASE surface # Wo /\ surface = No
      BY <2>2 DEF SurfaceRow
    <2>3. CASE surface # Wo /\ surface # No /\ surface \in Topics
      BY <2>3 DEF SurfaceRow
    <2>4. CASE surface # Wo /\ surface # No /\ surface \notin Topics /\ surface \in Places
      BY <2>4 DEF SurfaceRow
    <2>5. CASE surface # Wo /\ surface # No /\ surface \notin Topics /\ surface \notin Places
               /\ surface \in PlaceTopics
      BY <2>5 DEF SurfaceRow
    <2>6. CASE surface # Wo /\ surface # No /\ surface \notin Topics /\ surface \notin Places
               /\ surface \notin PlaceTopics
      BY <2>6 DEF SurfaceRow
    <2>7. QED BY <2>1, <2>2, <2>3, <2>4, <2>5, <2>6
  <1> HIDE DEF row
  <1>2. Column(row, entry.partOfSpeech) \in -260 .. 260
    BY <1>1, ColumnWithin, -260 \in Int, 260 \in Int, -260 <= 0, 0 <= 260
  <1>3. QED BY <1>2 DEF SurfaceGrammarBoost, row

(* The boost for transitions has its own bound.                            *)
LEMMA ContextScoreWithin ==
  ASSUME NEW d, Known(d), NEW surface, NEW reading, NEW text
  PROVE ContextScore(d.user, surface, reading, text) \in 0 .. MaxContextBoost
  <1> DEFINE key == <<surface, reading, text>>
             n == d.user.contexts[key] * ContextBoostStep
  <1>1. MaxContextBoost \in Nat /\ ContextBoostStep \in Nat
    BY ScoreAssumption
  <1>2. CASE key \in DOMAIN d.user.contexts
    <2>1. d.user.contexts[key] \in Nat
      BY <1>2 DEF Known
    <2>2. n \in Nat
      BY <1>1, <2>1
    <2>3. ContextScore(d.user, surface, reading, text) = Min({n, MaxContextBoost})
      BY <1>2 DEF ContextScore
    <2> HIDE DEF n
    <2>4. Min({n, MaxContextBoost}) = IF n <= MaxContextBoost THEN n ELSE MaxContextBoost
      BY <1>1, <2>2, MinIs
    <2>5. QED BY <1>1, <2>2, <2>3, <2>4
  <1>3. CASE key \notin DOMAIN d.user.contexts
    BY <1>1, <1>3 DEF ContextScore
  <1>4. QED BY <1>2, <1>3

(* So a word is boosted by no more than all of them.                       *)
LEMMA EntryBoostWithin ==
  ASSUME NEW d, Known(d), NEW entry, NEW pos \in PartsOfSpeech, NEW surface
  PROVE EntryBoost(d, entry, pos, surface) \in -510 .. 480 + MaxContextBoost
  <1> DEFINE a == ContextualPartOfSpeechBoost(entry, pos)
             b == SurfaceGrammarBoost(entry, pos, surface)
             c == LexicalCategoryBoost(entry, pos)
             s == ContextScore(d.user, surface, entry.reading, entry.text)
  <1>1. a \in -160 .. 220
    BY ContextualBoostWithin
  <1>2. b \in -260 .. 260
    BY SurfaceBoostWithin
  <1>3. c \in -90 .. 0
    BY DEF LexicalCategoryBoost
  <1>4. s \in 0 .. MaxContextBoost /\ MaxContextBoost \in Nat
    BY ContextScoreWithin, ScoreAssumption
  <1>5. EntryBoost(d, entry, pos, surface) = a + b + c + s
    BY DEF EntryBoost
  <1> HIDE DEF a, b, c, s
  <1>6. QED BY <1>1, <1>2, <1>3, <1>4, <1>5

(* The sum of a score and its boosts fits.                                 *)
LEMMA SumsFit ==
  ASSUME NEW d, Known(d), NEW entry, entry.reading \in Seq(Nat), entry.score \in 0 .. MaxScore,
         NEW pos \in PartsOfSpeech, NEW surface, NEW typed \in Seq(Nat), IsPrefix(typed, entry.reading),
         MaxScore + MaxContextBoost + 600 <= MaxInt, 8 * Len(entry.reading) + 510 <= MaxInt
  PROVE /\ Fits(entry.score + EntryBoost(d, entry, pos, surface))
        /\ Fits(entry.score + (LengthBoost(entry.reading, typed) + EntryBoost(d, entry, pos, surface)))
  <1> DEFINE e == EntryBoost(d, entry, pos, surface)
             s == entry.score
             l == Len(entry.reading)
             k == Len(typed)
             g == LengthBoost(entry.reading, typed)
  <1>1. /\ MaxScore \in Nat /\ MaxContextBoost \in Nat /\ MaxInt \in Nat /\ s \in 0 .. MaxScore
        /\ MaxScore + MaxContextBoost + 600 <= MaxInt /\ 8 * l + 510 <= MaxInt
    BY ScoreAssumption
  <1>2. e \in -510 .. 480 + MaxContextBoost
    BY EntryBoostWithin
  <1>3. k \in Nat /\ l \in Nat /\ k <= l
    BY PrefixIs
  <1>4. g = (IF l = k THEN 120 ELSE 0) - 8 * (l - k)
    BY DEF LengthBoost
  <1> HIDE DEF e, s, l, k, g
  <1>5. g \in Int /\ g <= 120 /\ g >= -(8 * l)
    BY <1>3, <1>4
  <1>6. /\ s + e \in Int /\ -(MaxInt + 1) <= s + e /\ s + e <= MaxInt
        /\ s + (g + e) \in Int /\ -(MaxInt + 1) <= s + (g + e) /\ s + (g + e) <= MaxInt
    BY <1>1, <1>2, <1>3, <1>5
  <1>7. QED BY <1>6 DEF Fits, e, s, g
-----------------------------------------------------------------------------
(* Which words the user may have *)

(* What is typed, and the readings of the lexicon and the files.           *)
KnownReadings ==
  Readings \cup {e.reading : e \in ToSet(DefaultEntries)}
           \cup UNION {{e.reading : e \in ToSet(file.entries)} : file \in StartFiles}

(* A database such as commits lead to.                                     *)
Usual(u) ==
  /\ EachOnce(u.entries)
  /\ \A i \in DOMAIN u.entries :
       u.entries[i].reading \in KnownReadings /\ u.entries[i].score \in 0 .. MaxScore

(* No boosted score is beyond what an int32_t holds.                       *)
WithinBounds(d) ==
  /\ \A i \in DOMAIN d.user.entries : Fits(d.user.entries[i].score) /\ d.user.entries[i].score <= MaxScore
  /\ \A c \in Contexts, typed \in Readings, e \in ToSet(DefaultEntries) \cup ToSet(d.user.entries) :
       IsPrefix(typed, e.reading) =>
         /\ Fits(e.score + EntryBoost(d, e, c[1], c[2]))
         /\ Fits(e.score + (LengthBoost(e.reading, typed) + EntryBoost(d, e, c[1], c[2])))

(* That is so with a usual database.                                       *)
LEMMA UsualIsWithinBounds ==
  ASSUME NEW d, Known(d), Usual(d.user)
  PROVE WithinBounds(d)
  <1> DEFINE u == d.user.entries
  <1>1. DefaultEntries \in Seq(Words) /\ u \in Seq(Words)
    BY LexiconIs DEF Known
  <1>2. \A i \in DOMAIN u : u[i].reading \in KnownReadings /\ u[i].score \in 0 .. MaxScore
    BY DEF Usual
  <1> HIDE DEF u
  <1>3. /\ MaxScore + MaxContextBoost + 600 <= MaxInt
        /\ \A r \in KnownReadings : 8 * Len(r) + 510 <= MaxInt
    BY RoomAssumption DEF KnownReadings
  <1>4. ASSUME NEW e \in ToSet(DefaultEntries) \cup ToSet(u)
        PROVE e.reading \in Seq(Nat) /\ e.score \in 0 .. MaxScore /\ 8 * Len(e.reading) + 510 <= MaxInt
    <2>1. CASE e \in ToSet(DefaultEntries)
      <3>1. e \in Words /\ e.reading \in KnownReadings
        BY <1>1, <2>1 DEF KnownReadings, ToSet
      <3>2. e.score \in 0 .. MaxScore
        <4> DEFINE R == [reading : Seq(Nat) \ {<<>>}, text : Seq(Nat) \ {<<>>}, score : 0 .. MaxScore,
                         partOfSpeech : DOMAIN ContextualRows,
                         category : {"None", "PlaceName", "CurrencyCode", "CurrencySymbol"}]
        <4>1. DefaultEntries \in Seq(R)
          BY RankingAssumption
        <4>2. \A x \in R : x.score \in 0 .. MaxScore
          OBVIOUS
        <4> HIDE DEF R
        <4>3. e \in R
          BY <2>1, <4>1 DEF ToSet
        <4>4. QED BY <4>2, <4>3
      <3>3. QED BY <1>3, <3>1, <3>2 DEF Words
    <2>2. CASE e \in ToSet(u)
      <3>1. e.reading \in KnownReadings /\ e.score \in 0 .. MaxScore /\ e \in Words
        BY <1>1, <1>2, <2>2 DEF ToSet
      <3>2. QED BY <1>3, <3>1 DEF Words
    <2>3. QED BY <2>1, <2>2
  <1>5. ASSUME NEW c \in Contexts, NEW typed \in Readings, NEW e \in ToSet(DefaultEntries) \cup ToSet(u),
               IsPrefix(typed, e.reading)
        PROVE /\ Fits(e.score + EntryBoost(d, e, c[1], c[2]))
              /\ Fits(e.score + (LengthBoost(e.reading, typed) + EntryBoost(d, e, c[1], c[2])))
    <2>1. typed \in Seq(Nat) /\ c[1] \in PartsOfSpeech
      BY LearningAssumption, ContextsAre
    <2>2. QED BY <1>3, <1>4, <1>5, <2>1, SumsFit
  <1>6. \A i \in DOMAIN u : Fits(u[i].score) /\ u[i].score <= MaxScore
    <2>1. MaxScore \in Nat /\ MaxInt \in Nat /\ MaxScore <= MaxInt
      BY ScoreAssumption
    <2>2. QED BY <1>2, <2>1 DEF Fits
  <1>7. QED BY <1>5, <1>6 DEF WithinBounds, u

(* A score within its bounds is raised to one.                             *)
LEMMA RaisedIsWithin ==
  ASSUME NEW n \in 0 .. MaxScore
  PROVE Raised(n) \in 0 .. MaxScore
  <1>1. MaxInt \in Nat /\ MaxScore \in Nat /\ CommitScore \in Nat /\ MaxScore <= MaxInt
    BY ScoreAssumption
  <1>2. CASE n > MaxScore - CommitScore
    BY <1>1, <1>2 DEF Raised
  <1>3. CASE ~(n > MaxScore - CommitScore)
    <2>1. Fits(n + CommitScore)
      BY <1>1, <1>3 DEF Fits
    <2>2. Raised(n) = n + CommitScore
      BY <1>3, <2>1, FitsIsKept DEF Raised
    <2>3. QED BY <1>1, <1>3, <2>2
  <1>4. QED BY <1>2, <1>3

(* The database stays usual when a word is committed.                      *)
LEMMA LearningIsUsual ==
  ASSUME Predicting, Usual(dict.user), NEW reading \in Readings, NEW text \in Seq(Nat)
  PROVE LET f == Learned(dict, reading, text)
        IN /\ Usual(f.user)
           /\ \E w : WordRaised(dict.user, f.user, w, reading, text)
           /\ ContextsOn(dict.user, f.user, reading, text)
  <1> DEFINE user == IF dict.last = <<>> THEN dict.user
                     ELSE RecordContextTransition(dict.user, dict.last, reading, text)
             v == Commit(user, reading, text)
             s == dict.user.entries
             f == Learned(dict, reading, text)
  <1>1. Inductive /\ TypedUser(dict.user) /\ reading \in Seq(Nat)
    BY LearningAssumption DEF Predicting, Inductive
  <1>2. f.user = v
    BY <1>1, LearnedUser
  <1>3. TypedUser(user) /\ user.entries = s /\ ContextsOn(dict.user, user, reading, text)
    <2>1. CASE dict.last = <<>>
      <3>1. \A surface, r, t : ContextScore(dict.user, surface, r, t) \in Int
        BY <1>1, ContextScoreIsInt DEF Known, TypedUser
      <3>2. QED BY <1>1, <2>1, <3>1 DEF ContextsOn
    <2>2. CASE dict.last # <<>>
      BY <1>1, <2>2, TransitionIsTyped, TransitionBoosts
    <2>3. QED BY <2>1, <2>2
  <1> HIDE DEF user, f
  <1>4. /\ EachOnce(s)
        /\ \A i \in DOMAIN s : s[i].reading \in KnownReadings /\ s[i].score \in 0 .. MaxScore
    BY DEF Usual
  <1>5. MaxScore \in Nat /\ MaxInt \in Nat /\ MaxScore <= MaxInt
    BY ScoreAssumption
  <1> HIDE DEF s
  <1>6. \A i \in DOMAIN user.entries : Fits(user.entries[i].score) /\ user.entries[i].score <= MaxScore
    BY <1>3, <1>4, <1>5 DEF Fits
  <1>7. /\ \E w : WordRaised(user, v, w, reading, text)
        /\ EachOnce(v.entries) /\ v.contexts = user.contexts
        /\ \A j \in DOMAIN v.entries : CameFrom(v.entries[j], s, reading, text)
    BY <1>1, <1>3, <1>4, <1>6, CommitRaises
  <1> HIDE DEF v
  <1>8. ASSUME NEW j \in DOMAIN v.entries
        PROVE v.entries[j].reading \in KnownReadings /\ v.entries[j].score \in 0 .. MaxScore
    <2> DEFINE w == v.entries[j]
    <2>0. CameFrom(w, s, reading, text)
      BY <1>7
    <2> HIDE DEF w
    <2>1. ASSUME NEW k \in DOMAIN s, w = s[k]
          PROVE w.reading \in KnownReadings /\ w.score \in 0 .. MaxScore
      BY <1>4, <2>1
    <2>2. ASSUME NEW k \in DOMAIN s, SameWord(w, s[k]), w.score = Raised(s[k].score)
          PROVE w.reading \in KnownReadings /\ w.score \in 0 .. MaxScore
      BY <1>4, <2>2, RaisedIsWithin DEF SameWord
    <2>3. ASSUME Named(w, reading, text), w.score = Raised(0)
          PROVE w.reading \in KnownReadings /\ w.score \in 0 .. MaxScore
      <3>1. 0 \in 0 .. MaxScore
        BY <1>5
      <3>2. QED BY <2>3, <3>1, RaisedIsWithin DEF Named, KnownReadings
    <2>4. w.reading \in KnownReadings /\ w.score \in 0 .. MaxScore
      BY <2>0, <2>1, <2>2, <2>3 DEF CameFrom
    <2>5. QED BY <2>4 DEF w
  <1>9. Usual(v)
    BY <1>7, <1>8 DEF Usual
  <1>10. \E w : WordRaised(dict.user, v, w, reading, text)
    BY <1>3, <1>7 DEF WordRaised, s
  <1>11. ContextsOn(dict.user, v, reading, text)
    <2>1. \A surface, r, t : ContextScore(v, surface, r, t) = ContextScore(user, surface, r, t)
      BY <1>7 DEF ContextScore
    <2>2. QED BY <1>3, <2>1 DEF ContextsOn
  <1>12. QED BY <1>2, <1>9, <1>10, <1>11 DEF f

(* The database is usual in every state.                                   *)
LEMMA UsualHolds == Spec => []Usual(dict.user)
  <1> DEFINE I == Usual(dict.user)
  <1>1. Init => I
    <2> SUFFICES ASSUME Init PROVE Usual(dict.user)
      OBVIOUS
    <2>1. PICK file \in StartFiles : dict = Started(Loaded(file), {})
      BY DEF Init
    <2>2. dict.user = Loaded(file)
      BY <2>1 DEF Started
    <2>3. dict.user.entries = file.entries
      BY <2>2, FilesAreTyped, LoadedIsSound
    <2> DEFINE W == [reading : Seq(Nat), text : Seq(Nat), score : 0 .. MaxScore,
                     partOfSpeech : {"Unknown"}, category : {"None"}]
    <2>4. /\ file.entries \in Seq(W)
          /\ \A i, j \in DOMAIN file.entries :
               /\ file.entries[i].reading = file.entries[j].reading
               /\ file.entries[i].text = file.entries[j].text
               => i = j
      BY FileAssumption
    <2>5. \A w \in W : w.score \in 0 .. MaxScore
      OBVIOUS
    <2> HIDE DEF W
    <2>6. \A i \in DOMAIN file.entries : file.entries[i].score \in 0 .. MaxScore
      BY <2>4, <2>5
    <2>7. \A i \in DOMAIN file.entries : file.entries[i].reading \in KnownReadings
      BY DEF KnownReadings, ToSet
    <2>8. EachOnce(file.entries)
      BY <2>4 DEF EachOnce, SameWord
    <2>9. QED BY <2>3, <2>6, <2>7, <2>8 DEF Usual
  <1>2. Predicting /\ I /\ [Next]_vars => I'
    <2> SUFFICES ASSUME Predicting, Usual(dict.user), [Next]_vars PROVE Usual(dict'.user)
      OBVIOUS
    <2>0. TypedUser(dict.user)
      BY DEF Predicting, Inductive
    <2>1. ASSUME NEW reading \in Readings, NEW text \in Texts, RecordCommit(reading, text)
          PROVE Usual(dict'.user)
      <3>1. dict' = Learned(dict, reading, text)
        BY <2>1 DEF RecordCommit
      <3>2. text \in Seq(Nat)
        BY LearningAssumption
      <3>3. QED BY <3>1, <3>2, LearningIsUsual
    <2>2. ASSUME NEW reading \in Readings, NEW text \in Texts, BlockCandidate(reading, text)
          PROVE Usual(dict'.user)
      <3>1. dict' = [dict EXCEPT !.black = @ \cup {<<reading, text>>}]
        BY <2>2 DEF BlockCandidate
      <3>2. dict'.user = dict.user
        BY <3>1
      <3>3. QED BY <3>2
    <2>3. CASE Restart
      <3>1. dict'.user = Loaded(Saved(dict.user))
        BY <2>3 DEF Restart, Started
      <3> DEFINE file == Saved(dict.user)
      <3>2. file.entries = dict.user.entries
        BY DEF Saved
      <3>3. file.entries \in Seq(Words)
        BY <2>0, <3>2 DEF TypedUser
      <3> HIDE DEF file
      <3>4. Loaded(file).entries = file.entries
        BY <3>3, LoadedIsSound
      <3>5. dict'.user.entries = dict.user.entries
        BY <3>1, <3>2, <3>4 DEF file
      <3>6. QED BY <3>5 DEF Usual
    <2>4. CASE UNCHANGED vars
      BY <2>4 DEF vars
    <2>5. QED BY <2>1, <2>2, <2>3, <2>4 DEF Next
  <1> HIDE DEF I
  <1>3. Spec => []I
    BY <1>1, <1>2, PredictingHolds, PTL DEF Spec
  <1>4. QED BY <1>3 DEF I
-----------------------------------------------------------------------------
(* What is shown after a commit *)

(* One dictionary is another after a commit, as far as lookups go.         *)
Favours(d, f, reading, text) ==
  /\ f.black = d.black
  /\ \E w : WordRaised(d.user, f.user, w, reading, text)
  /\ ContextsOn(d.user, f.user, reading, text)

(* The word committed is boosted no less, the others as before.            *)
LEMMA BoostsOn ==
  ASSUME NEW d, NEW f, Known(d), Known(f), NEW reading, NEW text, ContextsOn(d.user, f.user, reading, text),
         NEW pos \in PartsOfSpeech, NEW surface
  PROVE /\ \A e : ~Named(e, reading, text) => EntryBoost(f, e, pos, surface) = EntryBoost(d, e, pos, surface)
        /\ \A x, z : Stronger(x, z) => EntryBoost(f, z, pos, surface) >= EntryBoost(d, x, pos, surface)
  <1> DEFINE a(e) == ContextualPartOfSpeechBoost(e, pos)
             b(e) == SurfaceGrammarBoost(e, pos, surface)
             c(e) == LexicalCategoryBoost(e, pos)
             s(w, e) == ContextScore(w.user, surface, e.reading, e.text)
  <1>1. \A w, e : EntryBoost(w, e, pos, surface) = a(e) + b(e) + c(e) + s(w, e)
    BY DEF EntryBoost
  <1>2. \A e : a(e) \in Int /\ b(e) \in Int /\ c(e) \in Int /\ s(d, e) \in Int /\ s(f, e) \in Int
    <2> SUFFICES ASSUME NEW e PROVE a(e) \in Int /\ b(e) \in Int /\ c(e) \in Int /\ s(d, e) \in Int /\ s(f, e) \in Int
      OBVIOUS
    <2>1. a(e) \in Int
      BY ContextualBoostIsInt
    <2>2. b(e) \in Int
      BY SurfaceBoostIsInt
    <2>3. c(e) \in Int
      BY DEF LexicalCategoryBoost
    <2>4. s(d, e) \in Int /\ s(f, e) \in Int
      BY ContextScoreIsInt
    <2>5. QED BY <2>1, <2>2, <2>3, <2>4
  <1>3. ASSUME NEW x, NEW z, Stronger(x, z)
        PROVE a(x) = a(z) /\ b(x) = b(z) /\ c(x) = c(z) /\ s(f, z) >= s(d, x)
    <2>1. x.reading = z.reading /\ x.text = z.text /\ x.partOfSpeech = z.partOfSpeech /\ x.category = z.category
      BY <1>3 DEF Stronger, SameWord
    <2>2. a(x) = a(z)
      BY <2>1 DEF ContextualPartOfSpeechBoost
    <2>3. b(x) = b(z)
      BY <2>1 DEF SurfaceGrammarBoost
    <2>4. c(x) = c(z)
      BY <2>1 DEF LexicalCategoryBoost
    <2>5. s(f, z) >= s(d, x)
      BY <2>1 DEF ContextsOn
    <2>6. QED BY <2>2, <2>3, <2>4, <2>5
  <1>4. \A e : ~Named(e, reading, text) => s(f, e) = s(d, e)
    BY DEF ContextsOn, Named
  <1> HIDE DEF a, b, c, s
  <1>5. ASSUME NEW x, NEW z, Stronger(x, z)
        PROVE EntryBoost(f, z, pos, surface) >= EntryBoost(d, x, pos, surface)
    <2>1. a(x) = a(z) /\ b(x) = b(z) /\ c(x) = c(z) /\ s(f, z) >= s(d, x)
      BY <1>3, <1>5
    <2>2. a(x) \in Int /\ b(x) \in Int /\ c(x) \in Int /\ s(d, x) \in Int /\ s(f, z) \in Int
      BY <1>2
    <2>3. a(z) + b(z) + c(z) + s(f, z) >= a(x) + b(x) + c(x) + s(d, x)
      BY <2>1, <2>2
    <2>4. QED BY <1>1, <2>3
  <1>6. QED BY <1>1, <1>4, <1>5

(* What is found for a prefix are words of the lexicon and of the user.    *)
LEMMA PredictedAreWords ==
  ASSUME NEW d, Known(d), Sound(d.user), NEW prefix \in Seq(Nat), NEW limit \in Nat
  PROVE \A e \in PredictedFound(d, prefix, limit) : e \in ToSet(DefaultEntries) \cup ToSet(d.user.entries)
  <1>1. ASSUME NEW t, Keyed(t), Sound(t), NEW x \in At(t, ToSet(TopPredictions(t, prefix, limit)))
        PROVE x \in ToSet(t.entries)
    <2> DEFINE J == ToSet(TopPredictions(t, prefix, limit))
    <2>1. J \in SUBSET DOMAIN t.entries
      BY <1>1, TopAre DEF Bests, Below
    <2> HIDE DEF J
    <2>2. x \in At(t, J)
      BY <1>1 DEF J
    <2>3. QED BY <2>1, <2>2 DEF At, ToSet
  <1>2. Keyed(d.user) /\ Keyed(DefaultDb) /\ Sound(DefaultDb) /\ DefaultDb.entries = DefaultEntries
    BY LexiconIs DEF Known, Keyed
  <1>3. QED BY <1>1, <1>2 DEF PredictedFound

(* So the word is shown no further down among the candidates of a reading, *)
LEMMA ExactUp ==
  ASSUME NEW d, NEW f, Known(d), Known(f), WithinBounds(d), WithinBounds(f),
         NEW reading, NEW text, Favours(d, f, reading, text), NEW typed \in Readings, NEW c \in Contexts
  PROVE Place(BuildExactCandidates(f, typed, c[1], c[2]), reading, text)
          <= Place(BuildExactCandidates(d, typed, c[1], c[2]), reading, text)
  <1> DEFINE X == ExactFound(d, typed)
             Z == ExactFound(f, typed)
             a == ExactBoosts(d, typed, c[1], c[2])
             b == ExactBoosts(f, typed, c[1], c[2])
             score == RawReadingGrammarBoost(typed, c[2])
             A == Offer(d, With(a), typed, score, c[2])
             B == Offer(f, With(b), typed, score, c[2])
             pos == c[1]
             surface == c[2]
  <1>1. typed \in Seq(Nat) \ {<<>>} /\ pos \in PartsOfSpeech
    BY LearningAssumption, ContextsAre
  <1>2. /\ a \in [X -> Int] /\ Boosted(With(a)) /\ score \in Int
        /\ b \in [Z -> Int] /\ Boosted(With(b))
    BY <1>1, ExactOfferIs
  <1>3. /\ X \in SUBSET Words /\ \A e \in X : e.reading = typed
        /\ Z \in SUBSET Words /\ \A e \in Z : e.reading = typed
    BY ExactFoundAre
  <1>4. Lifted(X, Z, reading, text)
    <2>1. PICK w : WordRaised(d.user, f.user, w, reading, text)
      BY DEF Favours
    <2>2. QED BY <2>1, ExactLifted
  <1>5. (\A e \in X : a[e] = EntryBoost(d, e, pos, surface)) /\ (\A e \in Z : b[e] = EntryBoost(f, e, pos, surface))
    BY DEF ExactBoosts
  <1>6. /\ \A e \in X : e \in ToSet(DefaultEntries) \cup ToSet(d.user.entries)
        /\ \A e \in Z : e \in ToSet(DefaultEntries) \cup ToSet(f.user.entries)
    BY LexiconIs DEF ExactFound, At, Exact, ToSet
  <1>7. IsPrefix(typed, typed)
    BY <1>1 DEF IsPrefix
  <1> HIDE DEF X, Z, a, b, score, pos, surface
  <1>8. (\A x \in X : Fits(x.score + a[x])) /\ (\A z \in Z : Fits(z.score + b[z]))
    BY <1>3, <1>5, <1>6, <1>7 DEF WithinBounds, pos, surface
  <1>9. /\ \A e : ~Named(e, reading, text) => EntryBoost(f, e, pos, surface) = EntryBoost(d, e, pos, surface)
        /\ \A x, z : Stronger(x, z) => EntryBoost(f, z, pos, surface) >= EntryBoost(d, x, pos, surface)
    BY <1>1, BoostsOn DEF Favours
  <1>10. /\ \A z \in Z : z \in X /\ ~Named(z, reading, text) => b[z] = a[z]
         /\ \A x \in X, z \in Z : Named(x, reading, text) /\ Stronger(x, z) => b[z] >= a[x]
    BY <1>5, <1>9
  <1>11. f.black = d.black
    BY DEF Favours
  <1>12. Raises(A, B, reading, text)
    BY <1>1, <1>2, <1>3, <1>4, <1>8, <1>10, <1>11, OfferRaises
  <1>13. /\ FairOffer(d, A, With(a), typed) /\ FairOffer(f, B, With(b), typed)
         /\ Selection(Unique(A)) /\ Selection(Unique(B))
    BY <1>1, <1>2, OfferIs, UniqueIsSelection
  <1>14. /\ BuildExactCandidates(d, typed, c[1], c[2]) = SortAndTrim(Unique(A), ExactLimit)
         /\ BuildExactCandidates(f, typed, c[1], c[2]) = SortAndTrim(Unique(B), ExactLimit)
    BY ExactIsShown DEF a, b, score
  <1> HIDE DEF A, B
  <1>15. Raises(Unique(A), Unique(B), reading, text)
    BY <1>12, <1>13, UniqueRaises DEF FairOffer
  <1>16. ExactLimit \in Nat
    BY RankingAssumption
  <1>17. IsDecided(AsIs(Unique(A)))
    <2>1. Unique(A) \in SUBSET A
      BY DEF Unique
    <2>2. \A g \in With(a) : g[1].reading = typed
      BY <1>2, <1>3 DEF With
    <2>3. \A x \in Unique(A) : x.reading = typed
      BY <1>13, <2>1, <2>2 DEF FairOffer
    <2>4. \A x, y \in Unique(A) : Ties(x, y) => x = y
      BY <1>13, <2>3 DEF Ties, SameWord, Selection
    <2> DEFINE S == Unique(A)
    <2>5. DOMAIN AsIs(S) = S /\ \A x \in S : AsIs(S)[x] = x
      BY DEF AsIs
    <2> HIDE DEF S
    <2>6. IsDecided(AsIs(S))
      BY <2>4, <2>5 DEF IsDecided, S
    <2>7. QED BY <2>6 DEF S
  <1> DEFINE S == Unique(A)
             T == Unique(B)
  <1>18. Selection(S) /\ Selection(T) /\ IsDecided(AsIs(S)) /\ Raises(S, T, reading, text)
    BY <1>13, <1>15, <1>17
  <1> HIDE DEF S, T
  <1>19. Place(SortAndTrim(T, ExactLimit), reading, text) <= Place(SortAndTrim(S, ExactLimit), reading, text)
    BY <1>16, <1>18, StaysUp
  <1>20. QED BY <1>14, <1>19 DEF S, T

(* nor among the predictions for what leads to it, though a fallback only  *)
(* until these are reordered.                                              *)
LEMMA PredictedUp ==
  ASSUME NEW d, NEW f, Known(d), Known(f), Sound(d.user), Sound(f.user),
         WithinBounds(d), WithinBounds(f),
         NEW reading, NEW text, Favours(d, f, reading, text), NEW typed \in Readings, NEW c \in Contexts,
         OrderIsDecided(d, typed, c[1], c[2])
  PROVE LET predicted(w) == BuildPredictionCandidates(w, typed, PredictionLimit(typed), c[1], c[2])
            reordered(w) == Predictions(w, typed, c[1], c[2])
        IN /\ Place(predicted(f), reading, text) <= Place(predicted(d), reading, text)
           /\ ~IsFallback(typed, [text |-> text]) =>
                Place(reordered(f), reading, text) <= Place(reordered(d), reading, text)
  <1> DEFINE limit == PredictionLimit(typed)
             pos == c[1]
             surface == c[2]
             X == PredictedFound(d, typed, limit)
             Z == PredictedFound(f, typed, limit)
             a == PredictedBoosts(d, typed, limit, pos, surface)
             b == PredictedBoosts(f, typed, limit, pos, surface)
             score == 50 + RawReadingGrammarBoost(typed, surface)
             A == Offer(d, With(a), typed, score, surface)
             B == Offer(f, With(b), typed, score, surface)
             predicted(w) == BuildPredictionCandidates(w, typed, limit, pos, surface)
             reordered(w) == Predictions(w, typed, pos, surface)
  <1>1. typed \in Seq(Nat) \ {<<>>} /\ pos \in PartsOfSpeech /\ limit \in Nat
    BY LearningAssumption, ContextsAre DEF PredictionLimit
  <1>0. /\ IsDecided(Restrict(d.user.entries, Below(d.user, typed)))
        /\ IsDecided(AsIs(PredictedCandidates(d, typed, limit, pos, surface)))
    BY DEF OrderIsDecided, AsIs
  <1> HIDE DEF limit, pos, surface
  <1>2. /\ a \in [X -> Int] /\ Boosted(With(a)) /\ score \in Int
        /\ b \in [Z -> Int] /\ Boosted(With(b))
    BY <1>1, PredictedOfferIs
  <1>3. /\ X \in SUBSET Words /\ \A e \in X : IsPrefix(typed, e.reading)
        /\ Z \in SUBSET Words /\ \A e \in Z : IsPrefix(typed, e.reading)
    BY <1>1, PredictedFoundAre
  <1>4. Lifted(X, Z, reading, text)
    <2>1. PICK w : WordRaised(d.user, f.user, w, reading, text)
      BY DEF Favours
    <2>2. QED BY <1>0, <1>1, <2>1, PredictedLifted
  <1>5. /\ \A e \in X : a[e] = LengthBoost(e.reading, typed) + EntryBoost(d, e, pos, surface)
        /\ \A e \in Z : b[e] = LengthBoost(e.reading, typed) + EntryBoost(f, e, pos, surface)
    BY DEF PredictedBoosts
  <1>6. /\ \A e \in X : e \in ToSet(DefaultEntries) \cup ToSet(d.user.entries)
        /\ \A e \in Z : e \in ToSet(DefaultEntries) \cup ToSet(f.user.entries)
    BY <1>1, PredictedAreWords
  <1> HIDE DEF X, Z, a, b, score
  <1>8. (\A x \in X : Fits(x.score + a[x])) /\ (\A z \in Z : Fits(z.score + b[z]))
    BY <1>3, <1>5, <1>6 DEF WithinBounds, pos, surface
  <1>9. /\ \A e : ~Named(e, reading, text) => EntryBoost(f, e, pos, surface) = EntryBoost(d, e, pos, surface)
        /\ \A x, z : Stronger(x, z) => EntryBoost(f, z, pos, surface) >= EntryBoost(d, x, pos, surface)
    BY <1>1, BoostsOn DEF Favours
  <1>10. /\ \A z \in Z : z \in X /\ ~Named(z, reading, text) => b[z] = a[z]
         /\ \A x \in X, z \in Z : Named(x, reading, text) /\ Stronger(x, z) => b[z] >= a[x]
    <2>1. ASSUME NEW z \in Z, z \in X, ~Named(z, reading, text) PROVE b[z] = a[z]
      BY <1>5, <1>9, <2>1
    <2>2. ASSUME NEW x \in X, NEW z \in Z, Stronger(x, z) PROVE b[z] >= a[x]
      <3> DEFINE l == LengthBoost(x.reading, typed)
                 m == EntryBoost(d, x, pos, surface)
                 n == EntryBoost(f, z, pos, surface)
      <3>1. a[x] = l + m /\ b[z] = l + n /\ n >= m
        BY <1>5, <1>9, <2>2 DEF Stronger, SameWord
      <3>2. m \in Int /\ n \in Int
        BY <1>1, EntryBoostIsInt
      <3>3. l \in Int
        <4> DEFINE p == Len(x.reading)
                   q == Len(typed)
        <4>1. x.reading \in Seq(Nat)
          BY <1>3 DEF Words
        <4>2. p \in Nat /\ q \in Nat
          BY <1>1, <4>1
        <4>3. l = (IF p = q THEN 120 ELSE 0) - 8 * (p - q)
          BY DEF LengthBoost
        <4> HIDE DEF p, q, l
        <4>4. QED BY <4>2, <4>3
      <3> HIDE DEF l, m, n
      <3>4. QED BY <3>1, <3>2, <3>3
    <2>3. QED BY <2>1, <2>2
  <1>11. f.black = d.black
    BY DEF Favours
  <1>12. Raises(A, B, reading, text)
    BY <1>1, <1>2, <1>3, <1>4, <1>8, <1>10, <1>11, OfferRaises
  <1>13. /\ FairOffer(d, A, With(a), typed) /\ FairOffer(f, B, With(b), typed)
         /\ Selection(Unique(A)) /\ Selection(Unique(B))
    BY <1>1, <1>2, OfferIs, UniqueIsSelection
  <1>20. PredictedCandidates(d, typed, limit, pos, surface) = Unique(A)
    BY PredictedIsShown DEF a, score
  <1>14. predicted(d) = SortAndTrim(Unique(A), limit) /\ predicted(f) = SortAndTrim(Unique(B), limit)
    BY PredictedIsShown DEF a, b, score
  <1>15. /\ reordered(d) = ReorderFallbackPredictions(typed, pos, surface, predicted(d))
         /\ reordered(f) = ReorderFallbackPredictions(typed, pos, surface, predicted(f))
    BY DEF Predictions, limit
  <1> HIDE DEF A, B, predicted, reordered
  <1>16. Raises(Unique(A), Unique(B), reading, text)
    BY <1>12, <1>13, UniqueRaises DEF FairOffer
  <1> DEFINE S == Unique(A)
             T == Unique(B)
  <1>21. Selection(S) /\ Selection(T) /\ IsDecided(AsIs(S)) /\ Raises(S, T, reading, text)
    BY <1>0, <1>13, <1>16, <1>20
  <1> HIDE DEF S, T
  <1>17. Place(predicted(f), reading, text) <= Place(predicted(d), reading, text)
    BY <1>1, <1>14, <1>21, StaysUp DEF S, T
  <1>18. ASSUME ~IsFallback(typed, [text |-> text])
         PROVE Place(reordered(f), reading, text) <= Place(reordered(d), reading, text)
    BY <1>1, <1>14, <1>15, <1>18, <1>21, StaysUpReordered DEF S, T
  <1>19. QED BY <1>17, <1>18 DEF predicted, reordered, limit, pos, surface

(* A commit leaves the dictionary favouring the word.                      *)
LEMMA CommitFavours ==
  ASSUME Predicting, Usual(dict.user), NEW reading \in Readings, NEW text \in Seq(Nat)
  PROVE Favours(dict, Learned(dict, reading, text), reading, text)
  <1> DEFINE f == Learned(dict, reading, text)
  <1>1. \E w : WordRaised(dict.user, f.user, w, reading, text)
    BY LearningIsUsual
  <1>2. ContextsOn(dict.user, f.user, reading, text)
    BY LearningIsUsual
  <1>3. f.black = dict.black
    <2> DEFINE user == IF dict.last = <<>> THEN dict.user
                       ELSE RecordContextTransition(dict.user, dict.last, reading, text)
               v == Commit(user, reading, text)
               next == [dict EXCEPT !.user = v, !.last = text]
    <2>1. f = [next EXCEPT !.pos = LookupPartOfSpeech(next, reading, text)]
      BY DEF Learned
    <2> HIDE DEF v, f
    <2>2. next.black = dict.black /\ DOMAIN next = {"user", "black", "pos", "last"}
      BY DEF Predicting, Inductive
    <2> HIDE DEF next
    <2>3. QED BY <2>1, <2>2
  <1>4. QED BY <1>1, <1>2, <1>3 DEF Favours

(* What is learned is remembered.                                          *)
Remembered == learned \in Seq(Readings \X Texts)

LEMMA RememberedHolds == Spec => []Remembered
  <1>1. Init => Remembered
    BY DEF Init, Remembered
  <1>2. Remembered /\ [Next]_vars => Remembered'
    <2> SUFFICES ASSUME Remembered, [Next]_vars PROVE Remembered'
      OBVIOUS
    <2>1. ASSUME NEW reading \in Readings, NEW text \in Texts, RecordCommit(reading, text) PROVE Remembered'
      BY <2>1 DEF RecordCommit, Remembered
    <2>2. CASE learned' = learned
      BY <2>2 DEF Remembered
    <2>3. QED BY <2>1, <2>2 DEF Next, BlockCandidate, Restart, vars
  <1>3. QED BY <1>1, <1>2, PTL DEF Spec

(* Whatever was committed and blocked, after whatever restarts: a commit   *)
(* moves the word it commits down in no list of candidates, and down among *)
(* no predictions whose order no tie decides.  It raises the score unless  *)
(* that is at its bound already, records the transition, wraps no sum      *)
(* around and brings no other word in.                                     *)
THEOREM CommitsOnlyRaise == Spec => CommitNeverDemotes
  <1> DEFINE A == learned' # learned =>
       LET reading == Last(learned')[1]
           text == Last(learned')[2]
           predicted(d, typed, c) ==
             IF IsFallback(typed, [text |-> text])
             THEN BuildPredictionCandidates(d, typed, PredictionLimit(typed), c[1], c[2])
             ELSE Predictions(d, typed, c[1], c[2])
       IN \A c \in Contexts :
            /\ Place(BuildExactCandidates(dict', reading, c[1], c[2]), reading, text)
                 <= Place(BuildExactCandidates(dict, reading, c[1], c[2]), reading, text)
            /\ \A typed \in {r \in Readings : IsPrefix(r, reading)} :
                 OrderIsDecided(dict, typed, c[1], c[2]) =>
                   Place(predicted(dict', typed, c), reading, text)
                     <= Place(predicted(dict, typed, c), reading, text)
             U == Usual(dict.user)
  <1>1. Predicting /\ Predicting' /\ U /\ U' /\ Remembered /\ [Next]_vars => [A]_vars
    <2> SUFFICES ASSUME Predicting, Predicting', Usual(dict.user), Usual(dict'.user), Remembered, [Next]_vars,
                        learned' # learned
                 PROVE A
      OBVIOUS
    <2> HIDE DEF A
    <2>1. PICK reading \in Readings, text \in Texts : RecordCommit(reading, text)
      BY DEF Next, BlockCandidate, Restart, vars
    <2>2. dict' = Learned(dict, reading, text) /\ learned' = Append(learned, <<reading, text>>)
      BY <2>1 DEF RecordCommit
    <2>3. Last(learned') = <<reading, text>>
      BY <2>2 DEF Remembered, Last
    <2>4. Last(learned')[1] = reading /\ Last(learned')[2] = text
      BY <2>3
    <2>5. text \in Seq(Nat)
      BY LearningAssumption
    <2>6. /\ Known(dict) /\ Sound(dict.user) /\ Known(dict') /\ Sound(dict'.user)
      BY DEF Predicting, Inductive, TypedUser, Known
    <2>7. WithinBounds(dict) /\ WithinBounds(dict')
      BY <2>6, UsualIsWithinBounds
    <2>8. Favours(dict, dict', reading, text)
      BY <2>2, <2>5, CommitFavours
    <2>9. ASSUME NEW c \in Contexts
          PROVE Place(BuildExactCandidates(dict', reading, c[1], c[2]), reading, text)
                  <= Place(BuildExactCandidates(dict, reading, c[1], c[2]), reading, text)
      BY <2>6, <2>7, <2>8, ExactUp
    <2>10. ASSUME NEW c \in Contexts, NEW typed \in Readings, OrderIsDecided(dict, typed, c[1], c[2])
           PROVE /\ Place(BuildPredictionCandidates(dict', typed, PredictionLimit(typed), c[1], c[2]), reading, text)
                      <= Place(BuildPredictionCandidates(dict, typed, PredictionLimit(typed), c[1], c[2]), reading, text)
                 /\ ~IsFallback(typed, [text |-> text]) =>
                      Place(Predictions(dict', typed, c[1], c[2]), reading, text)
                        <= Place(Predictions(dict, typed, c[1], c[2]), reading, text)
      BY <2>6, <2>7, <2>8, <2>10, PredictedUp
    <2>11. QED BY <2>4, <2>9, <2>10 DEF A
  <1> HIDE DEF U
  <1>2. Spec => []U
    BY UsualHolds DEF U
  <1>3. QED BY <1>1, <1>2, PredictingHolds, RememberedHolds, PTL DEF Spec, CommitNeverDemotes
=============================================================================
