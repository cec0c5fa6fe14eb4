------------------------- MODULE RomajiTyping_proofs -------------------------
(***************************************************************************)
(* Nothing typed is lost, for every romaji table: what convertRomajiTo-    *)
(* Hiragana makes of a buffer is a parse of it.  The scan and the grammar  *)
(* are recursive functions.  That they exist, and what their equations     *)
(* say, is shown by the least number for which it would fail; the rest     *)
(* follows the scan, pass by pass.                                         *)
(***************************************************************************)
EXTENDS RomajiTyping, SequenceTheorems, WellFoundedInduction, TLAPS

-----------------------------------------------------------------------------
(* Recursive functions *)

(* A set of natural numbers that is not empty has a smallest.              *)
LEMMA LeastNumber ==
  ASSUME NEW T \in SUBSET Nat, T # {}
  PROVE \E x \in T : \A y \in T : x <= y
  <1> DEFINE R == OpToRel(<, Nat)
  <1>1. IsWellFoundedOn(R, Nat)
    BY NatLessThanWellFounded
  <1>2. \A x, y \in Nat : y < x => <<y, x>> \in R
    BY DEF OpToRel
  <1> HIDE DEF R
  <1>3. \E x \in T : \A y \in T : ~ (<<y, x>> \in R)
    BY <1>1, WFMin
  <1>4. \A x, y \in Nat : ~(y < x) => x <= y
    OBVIOUS
  <1>5. QED BY <1>2, <1>3, <1>4

(* The loop of the scan from its first pass on: G has for every set of     *)
(* positions what as many passes as it has members come to.                *)
Begin == [index |-> 1, confirmed |-> <<>>, composing |-> <<>>]
Loop(s, r) == IF r.index > Len(s) THEN r ELSE Pass(s, r)
Scans(s, n, G) ==
  G = [S \in SUBSET (1 .. n) |-> IF S = {} THEN Begin ELSE Loop(s, G[S \ {Max(S)}])]

(* The greatest member of a set of positions up to n with n in it.         *)
LEMMA MaxIsTop ==
  ASSUME NEW n \in Nat \ {0}, NEW S \in SUBSET (1 .. n), n \in S
  PROVE Max(S) = n
  <1>1. \A x \in S : (\A y \in S : x >= y) => x = n
    OBVIOUS
  <1>2. \A y \in S : n >= y
    OBVIOUS
  <1>3. QED BY <1>1, <1>2 DEF Max

(* There is such a function.                                               *)
LEMMA ScanExists ==
  ASSUME NEW s, NEW n \in Nat
  PROVE \E G : Scans(s, n, G)
  <1> DEFINE Bad == {k \in Nat : ~\E G : Scans(s, k, G)}
  <1>1. ASSUME Bad # {} PROVE FALSE
    <2>1. Bad \in SUBSET Nat
      OBVIOUS
    <2>2. PICK k \in Bad : \A j \in Bad : k <= j
      <3> HIDE DEF Bad
      <3>1. QED BY <1>1, <2>1, LeastNumber
    <2>3. k \in Nat /\ ~\E G : Scans(s, k, G)
      BY <2>2
    <2>4. CASE k = 0
      <3> DEFINE G == [S \in SUBSET (1 .. k) |-> Begin]
      <3>1. \A S \in SUBSET (1 .. k) : S = {}
        BY <2>4
      <3>2. Scans(s, k, G)
        BY <3>1 DEF Scans
      <3>3. QED BY <2>3, <3>2
    <2>5. CASE k # 0
      <3>1. k - 1 \in Nat /\ k \in Nat \ {0} /\ k - 1 \notin Bad
        BY <2>2, <2>3, <2>5
      <3>2. PICK G : Scans(s, k - 1, G)
        BY <3>1
      <3> DEFINE H == [S \in SUBSET (1 .. k) |->
                         IF k \in S THEN Loop(s, G[S \ {k}]) ELSE G[S]]
      <3>3. ASSUME NEW S \in SUBSET (1 .. k)
            PROVE H[S] = IF S = {} THEN Begin ELSE Loop(s, H[S \ {Max(S)}])
        <4>1. CASE k \in S
          <5>1. Max(S) = k
            BY <3>1, <4>1, MaxIsTop
          <5>2. S \ {k} \in SUBSET (1 .. k) /\ k \notin S \ {k}
            OBVIOUS
          <5>3. H[S \ {k}] = G[S \ {k}]
            BY <5>2
          <5>4. QED BY <4>1, <5>1, <5>3
        <4>2. CASE k \notin S
          <5>1. S \in SUBSET (1 .. k - 1)
            BY <3>1, <4>2
          <5>2. G[S] = IF S = {} THEN Begin ELSE Loop(s, G[S \ {Max(S)}])
            BY <3>2, <5>1 DEF Scans
          <5>3. H[S \ {Max(S)}] = G[S \ {Max(S)}]
            BY <4>2
          <5>4. H[S] = G[S]
            BY <4>2
          <5>5. QED BY <5>2, <5>3, <5>4
        <4>3. QED BY <4>1, <4>2
      <3>4. H = [S \in SUBSET (1 .. k) |-> H[S]]
        OBVIOUS
      <3> HIDE DEF H
      <3>5. Scans(s, k, H)
        BY <3>3, <3>4 DEF Scans
      <3>6. QED BY <2>3, <3>5
    <2>6. QED BY <2>4, <2>5
  <1>2. QED BY <1>1

(* The converter's fold is one, and its end is the conversion.             *)
LEMMA ScanIs ==
  ASSUME NEW s, Len(s) \in Nat, DOMAIN s = 1 .. Len(s)
  PROVE \E G : /\ Scans(s, Len(s), G)
               /\ ConvertRomajiToHiragana(s) = [confirmed |-> G[1 .. Len(s)].confirmed,
                                                composing |-> G[1 .. Len(s)].composing]
  <1> DEFINE G == CHOOSE G : G = [S \in SUBSET DOMAIN s |->
                                    IF S = {} THEN [index |-> 1, confirmed |-> <<>>, composing |-> <<>>]
                                    ELSE IF G[S \ {Max(S)}].index > Len(s) THEN G[S \ {Max(S)}]
                                         ELSE Pass(s, G[S \ {Max(S)}])]
  <1>1. ConvertRomajiToHiragana(s) = [confirmed |-> G[DOMAIN s].confirmed,
                                      composing |-> G[DOMAIN s].composing]
    BY Zenon DEF ConvertRomajiToHiragana, FoldLeft, MapThenFoldSet
  <1>2. \E H : H = [S \in SUBSET DOMAIN s |->
                      IF S = {} THEN [index |-> 1, confirmed |-> <<>>, composing |-> <<>>]
                      ELSE IF H[S \ {Max(S)}].index > Len(s) THEN H[S \ {Max(S)}]
                           ELSE Pass(s, H[S \ {Max(S)}])]
    <2>1. PICK H : Scans(s, Len(s), H)
      BY ScanExists
    <2>2. H = [S \in SUBSET DOMAIN s |->
                 IF S = {} THEN [index |-> 1, confirmed |-> <<>>, composing |-> <<>>]
                 ELSE IF H[S \ {Max(S)}].index > Len(s) THEN H[S \ {Max(S)}]
                      ELSE Pass(s, H[S \ {Max(S)}])]
      BY <2>1, Zenon DEF Scans, Loop, Begin
    <2>3. QED BY <2>2
  <1>3. Scans(s, Len(s), G)
    BY <1>2, Zenon DEF Scans, Loop, Begin
  <1> HIDE DEF G
  <1>4. QED BY <1>1, <1>3

(* Pass after pass: what the first k of them come to.                      *)
LEMMA ScanSteps ==
  ASSUME NEW s, NEW n \in Nat, NEW G, Scans(s, n, G)
  PROVE G[1 .. 0] = Begin /\ \A k \in 1 .. n : G[1 .. k] = Loop(s, G[1 .. k - 1])
  <1>1. 1 .. 0 \in SUBSET (1 .. n) /\ 1 .. 0 = {}
    OBVIOUS
  <1>2. G[1 .. 0] = Begin
    BY <1>1 DEF Scans
  <1>3. ASSUME NEW k \in 1 .. n PROVE G[1 .. k] = Loop(s, G[1 .. k - 1])
    <2>1. 1 .. k \in SUBSET (1 .. n) /\ 1 .. k # {} /\ k \in 1 .. k /\ k \in Nat \ {0}
      OBVIOUS
    <2>2. Max(1 .. k) = k
      BY <2>1, MaxIsTop
    <2>3. (1 .. k) \ {k} = 1 .. k - 1
      OBVIOUS
    <2>4. G[1 .. k] = Loop(s, G[(1 .. k) \ {Max(1 .. k)}])
      BY <2>1 DEF Scans
    <2>5. QED BY <2>2, <2>3, <2>4
  <1>4. QED BY <1>2, <1>3

-----------------------------------------------------------------------------
(* The grammar.  P and Q take every parse that goes on from one they have. *)

Confirms(s, P) ==
  /\ <<>> \in P[0]
  /\ \A n \in 1 .. Len(s) : \A i \in 1 .. n : \A p \in P[i - 1] : \A t \in Kana(s, i, n) :
       p \o t \in P[n]
Composes(s, m, Q) ==
  /\ <<>> \in Q[m]
  /\ \A n \in m + 1 .. Len(s) : \A i \in m + 1 .. n : \A p \in Q[i - 1] :
       \A t \in Kana(s, i, n) \cup Raw(s, i, n) : p \o t \in Q[n]

(* What either function is at n, given what it is before.                  *)
Continued(A, B) == {p \o t : p \in A, t \in B}
ConfirmedAt(s, f, n) ==
  IF n = 0 THEN {<<>>} ELSE UNION {Continued(f[i - 1], Kana(s, i, n)) : i \in 1 .. n}
ComposingAt(s, m, f, n) ==
  IF n = m THEN {<<>>}
  ELSE UNION {Continued(f[i - 1], Kana(s, i, n) \cup Raw(s, i, n)) : i \in m + 1 .. n}

(* It depends on nothing else of the function.                             *)
LEMMA SameConfirmed ==
  ASSUME NEW s, NEW n \in Nat, NEW f, NEW g, \A i \in 0 .. n - 1 : f[i] = g[i]
  PROVE ConfirmedAt(s, f, n) = ConfirmedAt(s, g, n)
  <1>1. \A i \in 1 .. n : f[i - 1] = g[i - 1]
    OBVIOUS
  <1>2. {Continued(f[i - 1], Kana(s, i, n)) : i \in 1 .. n}
          = {Continued(g[i - 1], Kana(s, i, n)) : i \in 1 .. n}
    BY <1>1
  <1>3. QED BY <1>2 DEF ConfirmedAt
LEMMA SameComposing ==
  ASSUME NEW s, NEW m \in Nat, NEW n \in Nat, NEW f, NEW g, \A i \in m .. n - 1 : f[i] = g[i]
  PROVE ComposingAt(s, m, f, n) = ComposingAt(s, m, g, n)
  <1>1. \A i \in m + 1 .. n : f[i - 1] = g[i - 1]
    OBVIOUS
  <1>2. {Continued(f[i - 1], Kana(s, i, n) \cup Raw(s, i, n)) : i \in m + 1 .. n}
          = {Continued(g[i - 1], Kana(s, i, n) \cup Raw(s, i, n)) : i \in m + 1 .. n}
    BY <1>1
  <1>3. QED BY <1>2 DEF ComposingAt

(* Both functions exist, however far they go.                              *)
LEMMA ConfirmedExists ==
  ASSUME NEW s, NEW n \in Nat
  PROVE \E F : F = [j \in 0 .. n |-> ConfirmedAt(s, F, j)]
  <1> DEFINE Is(F, k) == F = [j \in 0 .. k |-> ConfirmedAt(s, F, j)]
             Bad == {k \in Nat : ~\E F : Is(F, k)}
  <1>1. ASSUME Bad # {} PROVE FALSE
    <2>1. Bad \in SUBSET Nat
      OBVIOUS
    <2>2. PICK k \in Bad : \A j \in Bad : k <= j
      <3> HIDE DEF Bad
      <3>1. QED BY <1>1, <2>1, LeastNumber
    <2>3. k \in Nat /\ ~\E F : Is(F, k)
      BY <2>2
    <2>4. PICK F : k # 0 => Is(F, k - 1)
      <3>1. CASE k = 0
        BY <3>1
      <3>2. CASE k # 0
        <4>1. k - 1 \in Nat /\ ~(k <= k - 1)
          BY <2>3, <3>2
        <4>2. k - 1 \notin Bad
          BY <2>2, <4>1
        <4>3. QED BY <4>1, <4>2
      <3>3. QED BY <3>1, <3>2
    <2> DEFINE H == [j \in 0 .. k |-> IF j < k THEN F[j] ELSE ConfirmedAt(s, F, k)]
    <2>5. \A j \in 0 .. k - 1 : H[j] = F[j]
      BY <2>3
    <2>6. H[k] = ConfirmedAt(s, F, k)
      BY <2>3
    <2>7. H = [j \in 0 .. k |-> H[j]]
      OBVIOUS
    <2> HIDE DEF H
    <2>8. ASSUME NEW j \in 0 .. k PROVE H[j] = ConfirmedAt(s, H, j)
      <3>1. /\ j \in Nat /\ 0 \in Nat /\ 0 <= j
            /\ \A i \in 0 .. j - 1 : F[i] = H[i]
        BY <2>3, <2>5
      <3>2. ConfirmedAt(s, F, j) = ConfirmedAt(s, H, j)
        BY <3>1, SameConfirmed
      <3>3. H[j] = ConfirmedAt(s, F, j)
        <4>1. CASE j = k
          BY <2>6, <4>1
        <4>2. CASE j # k
          <5>1. k # 0 /\ j \in 0 .. k - 1
            BY <2>3, <4>2
          <5>2. F = [i \in 0 .. k - 1 |-> ConfirmedAt(s, F, i)]
            BY <2>4, <5>1
          <5>3. F[j] = ConfirmedAt(s, F, j)
            BY <5>1, <5>2
          <5>4. QED BY <2>5, <5>1, <5>3
        <4>3. QED BY <4>1, <4>2
      <3>4. QED BY <3>2, <3>3
    <2>9. [j \in 0 .. k |-> H[j]] = [j \in 0 .. k |-> ConfirmedAt(s, H, j)]
      BY <2>8
    <2>10. Is(H, k)
      BY <2>7, <2>9
    <2>11. QED BY <2>3, <2>10
  <1>2. QED BY <1>1

LEMMA ComposingExists ==
  ASSUME NEW s, NEW m \in Nat, NEW n \in Nat, m <= n
  PROVE \E F : F = [j \in m .. n |-> ComposingAt(s, m, F, j)]
  <1> DEFINE Is(F, k) == F = [j \in m .. k |-> ComposingAt(s, m, F, j)]
             Bad == {k \in Nat : m <= k /\ ~\E F : Is(F, k)}
  <1>1. ASSUME Bad # {} PROVE FALSE
    <2>1. Bad \in SUBSET Nat
      OBVIOUS
    <2>2. PICK k \in Bad : \A j \in Bad : k <= j
      <3> HIDE DEF Bad
      <3>1. QED BY <1>1, <2>1, LeastNumber
    <2>3. k \in Nat /\ m <= k /\ ~\E F : Is(F, k)
      BY <2>2
    <2>4. PICK F : k # m => Is(F, k - 1)
      <3>1. CASE k = m
        BY <3>1
      <3>2. CASE k # m
        <4>1. k - 1 \in Nat /\ m <= k - 1 /\ ~(k <= k - 1)
          BY <2>3, <3>2
        <4>2. k - 1 \notin Bad
          BY <2>2, <4>1
        <4>3. QED BY <4>1, <4>2
      <3>3. QED BY <3>1, <3>2
    <2> DEFINE H == [j \in m .. k |-> IF j < k THEN F[j] ELSE ComposingAt(s, m, F, k)]
    <2>5. \A j \in m .. k - 1 : H[j] = F[j]
      BY <2>3
    <2>6. H[k] = ComposingAt(s, m, F, k)
      BY <2>3
    <2>7. H = [j \in m .. k |-> H[j]]
      OBVIOUS
    <2> HIDE DEF H
    <2>8. ASSUME NEW j \in m .. k PROVE H[j] = ComposingAt(s, m, H, j)
      <3>1. /\ j \in Nat /\ m <= j
            /\ \A i \in m .. j - 1 : F[i] = H[i]
        BY <2>3, <2>5
      <3>2. ComposingAt(s, m, F, j) = ComposingAt(s, m, H, j)
        BY <3>1, SameComposing
      <3>3. H[j] = ComposingAt(s, m, F, j)
        <4>1. CASE j = k
          BY <2>6, <4>1
        <4>2. CASE j # k
          <5>1. k # m /\ j \in m .. k - 1
            BY <2>3, <4>2
          <5>2. F = [i \in m .. k - 1 |-> ComposingAt(s, m, F, i)]
            BY <2>4, <5>1
          <5>3. F[j] = ComposingAt(s, m, F, j)
            BY <5>1, <5>2
          <5>4. QED BY <2>5, <5>1, <5>3
        <4>3. QED BY <4>1, <4>2
      <3>4. QED BY <3>2, <3>3
    <2>9. [j \in m .. k |-> H[j]] = [j \in m .. k |-> ComposingAt(s, m, H, j)]
      BY <2>8
    <2>10. Is(H, k)
      BY <2>7, <2>9
    <2>11. QED BY <2>3, <2>10
  <1>2. QED BY <1>1

(* So both go on from what they have, and the conversion's parses are what *)
(* they have at the end.                                                   *)
LEMMA ConfirmedParsesAre ==
  ASSUME NEW s, Len(s) \in Nat
  PROVE Confirms(s, ConfirmedParses(s))
  <1> DEFINE P == ConfirmedParses(s)
  <1>1. \E F : F = [n \in 0 .. Len(s) |-> ConfirmedAt(s, F, n)]
    BY ConfirmedExists
  <1>2. P = CHOOSE F : F = [n \in 0 .. Len(s) |-> ConfirmedAt(s, F, n)]
    BY DEF ConfirmedParses, ConfirmedAt, Continued
  <1> HIDE DEF P
  <1>3. P = [n \in 0 .. Len(s) |-> ConfirmedAt(s, P, n)]
    BY <1>1, <1>2, Zenon
  <1>4. P[0] = {<<>>}
    BY <1>3 DEF ConfirmedAt
  <1>5. ASSUME NEW n \in 1 .. Len(s), NEW i \in 1 .. n, NEW p \in P[i - 1], NEW t \in Kana(s, i, n)
        PROVE p \o t \in P[n]
    <2>a. n \in 0 .. Len(s) /\ n # 0
      OBVIOUS
    <2>b. P[n] = ConfirmedAt(s, P, n)
      BY <1>3, <2>a
    <2>1. P[n] = UNION {Continued(P[j - 1], Kana(s, j, n)) : j \in 1 .. n}
      BY <2>a, <2>b DEF ConfirmedAt
    <2>2. p \o t \in Continued(P[i - 1], Kana(s, i, n))
      BY DEF Continued
    <2>3. QED BY <2>1, <2>2
  <1>6. Confirms(s, P)
    BY <1>4, <1>5 DEF Confirms
  <1>7. QED BY <1>6 DEF P
LEMMA ComposingParsesAre ==
  ASSUME NEW s, NEW m \in Nat, Len(s) \in Nat, m <= Len(s)
  PROVE \E Q : Composes(s, m, Q) /\ ComposingParses(s, m) = Q[Len(s)]
  <1> DEFINE Q == CHOOSE F : F = [n \in m .. Len(s) |-> ComposingAt(s, m, F, n)]
  <1>1. \E F : F = [n \in m .. Len(s) |-> ComposingAt(s, m, F, n)]
    BY ComposingExists
  <1>2. ComposingParses(s, m) = Q[Len(s)]
    BY DEF ComposingParses, ComposingAt, Continued
  <1>3. Q = [n \in m .. Len(s) |-> ComposingAt(s, m, Q, n)]
    BY <1>1, Zenon
  <1> HIDE DEF Q
  <1>4. Q[m] = {<<>>}
    BY <1>3 DEF ComposingAt
  <1>5. ASSUME NEW n \in m + 1 .. Len(s), NEW i \in m + 1 .. n, NEW p \in Q[i - 1],
               NEW t \in Kana(s, i, n) \cup Raw(s, i, n)
        PROVE p \o t \in Q[n]
    <2>a. n \in m .. Len(s) /\ n # m
      OBVIOUS
    <2>b. Q[n] = ComposingAt(s, m, Q, n)
      BY <1>3, <2>a
    <2>1. Q[n] = UNION {Continued(Q[j - 1], Kana(s, j, n) \cup Raw(s, j, n)) : j \in m + 1 .. n}
      BY <2>a, <2>b DEF ComposingAt
    <2>2. p \o t \in Continued(Q[i - 1], Kana(s, i, n) \cup Raw(s, i, n))
      BY DEF Continued
    <2>3. QED BY <2>1, <2>2
  <1>6. Composes(s, m, Q)
    BY <1>4, <1>5 DEF Composes
  <1>7. QED BY <1>2, <1>6

-----------------------------------------------------------------------------
(* One pass *)

(* What stands at the position `index`: a beginning of the letters as      *)
(* confirmed kana, the rest of those before it as composing text.          *)
States == [index : Nat \ {0}, confirmed : Text, composing : Text]
Parsed(s, r) ==
  /\ r \in States /\ r.index <= Len(s) + 1
  /\ \E m \in 0 .. r.index - 1 :
       /\ r.composing = <<>> => m = r.index - 1
       /\ \A P : Confirms(s, P) => r.confirmed \in P[m]
       /\ \A Q : Composes(s, m, Q) => r.composing \in Q[r.index - 1]

(* The glyphs of a typed letter. *)
LEMMA NormIs ==
  ASSUME NEW s \in Seq(Keys), NEW i \in 1 .. Len(s)
  PROVE s[i] \in Glyphs /\ Norm(s[i]) \in Glyphs
  <1>1. s[i] \in Keys
    OBVIOUS
  <1>2. QED BY <1>1, TypingAssumption DEF Norm

(* Texts put together are a text, empty only if both are.                  *)
LEMMA JoinedText ==
  ASSUME NEW a \in Text, NEW b \in Text
  PROVE /\ a \o b \in Text /\ (a # <<>> => a \o b # <<>>)
        /\ (b # <<>> => a \o b # <<>>) /\ (a = <<>> => a \o b = b)
  <1>1. a \in Seq(Glyphs) /\ b \in Seq(Glyphs)
    BY DEF Text
  <1>2. a \o b \in Seq(Glyphs) /\ Len(a \o b) = Len(a) + Len(b)
    BY <1>1
  <1>3. Len(a) \in Nat /\ Len(b) \in Nat
    BY <1>1
  <1>4. a # <<>> => Len(a) # 0
    BY <1>1
  <1>5. b # <<>> => Len(b) # 0
    BY <1>1
  <1>6. a = <<>> => a \o b = b
    BY <1>1
  <1>7. Len(<<>>) = 0
    OBVIOUS
  <1>8. QED BY <1>2, <1>3, <1>4, <1>5, <1>6, <1>7 DEF Text

(* appendConvertedText: kana for the letters from here on, n of them.      *)
LEMMA KanaParsed ==
  ASSUME NEW s \in Seq(Keys), NEW r, Parsed(s, r), NEW n \in Nat \ {0}, r.index + n - 1 <= Len(s),
         NEW kana \in Text, kana \in Kana(s, r.index, r.index + n - 1)
  PROVE Parsed(s, [Append2(r, kana) EXCEPT !.index = r.index + n])
  <1> DEFINE f == [Append2(r, kana) EXCEPT !.index = r.index + n]
             i == r.index
             j == r.index + n - 1
  <1>1. /\ r \in States /\ i \in Nat \ {0} /\ Len(s) \in Nat /\ r.confirmed \in Text
        /\ r.composing \in Text
    BY DEF Parsed, States
  <1>2. j \in 1 .. Len(s) /\ i \in 1 .. j /\ r.index + n \in Nat \ {0} /\ r.index + n - 1 = j
        /\ r.index + n = j + 1 /\ j \in Nat /\ i <= j /\ j <= Len(s)
    BY <1>1
  <1>3. PICK m \in 0 .. i - 1 :
          /\ r.composing = <<>> => m = i - 1
          /\ \A P : Confirms(s, P) => r.confirmed \in P[m]
          /\ \A Q : Composes(s, m, Q) => r.composing \in Q[i - 1]
    BY DEF Parsed
  <1>4. CASE r.composing = <<>>
    <2>1. /\ f \in States /\ f.index = r.index + n /\ f.confirmed = r.confirmed \o kana
          /\ f.composing = <<>>
      BY <1>1, <1>2, <1>4, JoinedText DEF Append2, States
    <2> HIDE DEF f
    <2>2. \A P : Confirms(s, P) => f.confirmed \in P[j]
      BY <1>2, <1>3, <1>4, <2>1 DEF Confirms
    <2>3. \A Q : Composes(s, j, Q) => f.composing \in Q[j]
      BY <2>1 DEF Composes
    <2>4. j \in 0 .. f.index - 1 /\ j = f.index - 1 /\ f.index <= Len(s) + 1
      <3>1. f.index = j + 1
        BY <1>2, <2>1
      <3> HIDE DEF j
      <3>2. QED BY <1>1, <1>2, <3>1
    <2>5. Parsed(s, f)
      BY <2>1, <2>2, <2>3, <2>4 DEF Parsed
    <2>6. QED BY <2>5 DEF f
  <1>5. CASE r.composing # <<>>
    <2>1. /\ f \in States /\ f.index = r.index + n /\ f.confirmed = r.confirmed
          /\ f.composing = r.composing \o kana /\ f.composing # <<>>
      BY <1>1, <1>2, <1>5, JoinedText DEF Append2, States
    <2> HIDE DEF f
    <2>2. j \in m + 1 .. Len(s) /\ i \in m + 1 .. j
      BY <1>1, <1>2, <1>3
    <2>3. \A Q : Composes(s, m, Q) => f.composing \in Q[j]
      BY <1>3, <2>1, <2>2 DEF Composes
    <2>4. m \in 0 .. f.index - 1 /\ j = f.index - 1 /\ f.index <= Len(s) + 1
      <3>1. f.index = j + 1
        BY <1>2, <2>1
      <3>2. m \in Nat /\ m <= i - 1
        BY <1>1, <1>3
      <3> HIDE DEF j, i
      <3>3. i \in Nat
        BY <1>1
      <3>4. QED BY <1>1, <1>2, <3>1, <3>2, <3>3
    <2>5. Parsed(s, f)
      BY <1>3, <2>1, <2>3, <2>4 DEF Parsed
    <2>6. QED BY <2>5 DEF f
  <1>6. QED BY <1>4, <1>5

(* Letters that stay as they are, or as they are normalized: from here to  *)
(* j, `raw` is what they make of the composing text.                       *)
LEMMA RawParsed ==
  ASSUME NEW s \in Seq(Keys), NEW r, Parsed(s, r), NEW j \in r.index .. Len(s),
         NEW raw \in Text, raw # <<>>,
         \A m \in 0 .. r.index - 1 : \A Q :
           Composes(s, m, Q) /\ r.composing \in Q[r.index - 1] => r.composing \o raw \in Q[j]
  PROVE Parsed(s, [r EXCEPT !.composing = @ \o raw, !.index = j + 1])
  <1> DEFINE f == [r EXCEPT !.composing = @ \o raw, !.index = j + 1]
  <1>1. /\ r \in States /\ r.index \in Nat \ {0} /\ Len(s) \in Nat /\ r.composing \in Text
        /\ j \in Nat /\ j + 1 \in Nat \ {0}
    BY DEF Parsed, States
  <1>2. PICK m \in 0 .. r.index - 1 :
          /\ \A P : Confirms(s, P) => r.confirmed \in P[m]
          /\ \A Q : Composes(s, m, Q) => r.composing \in Q[r.index - 1]
    BY DEF Parsed
  <1>3. /\ f \in States /\ f.index = j + 1 /\ f.confirmed = r.confirmed
        /\ f.composing = r.composing \o raw /\ f.composing # <<>>
    BY <1>1, JoinedText DEF States
  <1> HIDE DEF f
  <1>4. \A Q : Composes(s, m, Q) => f.composing \in Q[j]
    BY <1>2, <1>3
  <1>5. m \in 0 .. f.index - 1 /\ j = f.index - 1 /\ f.index <= Len(s) + 1
    BY <1>1, <1>2, <1>3
  <1>6. Parsed(s, f)
    BY <1>2, <1>3, <1>4, <1>5 DEF Parsed
  <1>7. QED BY <1>6 DEF f

(* One letter. *)
LEMMA LetterParsed ==
  ASSUME NEW s \in Seq(Keys), NEW r, Parsed(s, r), r.index <= Len(s),
         NEW x, x = s[r.index] \/ x = Norm(s[r.index])
  PROVE Parsed(s, [r EXCEPT !.composing = Append(@, x), !.index = r.index + 1])
  <1> DEFINE i == r.index
             raw == <<x>>
  <1>1. i \in 1 .. Len(s) /\ i \in i .. Len(s) /\ r \in States /\ r.composing \in Seq(Glyphs)
    BY DEF Parsed, States, Text
  <1>2. x \in Glyphs
    BY <1>1, NormIs
  <1>3. raw \in Text /\ raw # <<>>
    BY <1>2 DEF Text
  <1>4. raw \in Raw(s, i, i)
    BY DEF Raw
  <1>5. Append(r.composing, x) = r.composing \o raw
    BY <1>1, <1>2
  <1> HIDE DEF raw
  <1>6. ASSUME NEW m \in 0 .. i - 1, NEW Q, Composes(s, m, Q), r.composing \in Q[i - 1]
        PROVE r.composing \o raw \in Q[i]
    <2>1. i \in m + 1 .. Len(s) /\ i \in m + 1 .. i
      BY <1>1
    <2>2. QED BY <1>4, <1>6, <2>1 DEF Composes
  <1>7. Parsed(s, [r EXCEPT !.composing = @ \o raw, !.index = i + 1])
    BY <1>1, <1>3, <1>6, RawParsed
  <1>8. QED BY <1>1, <1>5, <1>7 DEF States

(* The rest of the letters, one after the other.                           *)
LEMMA RestParsed ==
  ASSUME NEW s \in Seq(Keys), NEW r, Parsed(s, r), r.index <= Len(s)
  PROVE Parsed(s, [r EXCEPT !.composing = @ \o SubSeq(s, r.index, Len(s)),
                            !.index = r.index + (Len(s) - r.index + 1)])
  <1> DEFINE i == r.index
             n == Len(s)
             part(j) == SubSeq(s, i, j)
  <1>1. /\ i \in Nat \ {0} /\ n \in Nat /\ i <= n /\ r \in States /\ r.composing \in Seq(Glyphs)
        /\ s \in Seq(Glyphs)
    <2>1. Keys \subseteq Glyphs
      BY TypingAssumption
    <2>2. QED BY <2>1 DEF Parsed, States, Text
  <1>2. \A j \in i - 1 .. n : part(j) \in Seq(Glyphs) /\ Len(part(j)) = j - i + 1
    BY <1>1
  <1>3. part(i - 1) = <<>>
    BY <1>1
  <1>4. ASSUME NEW j \in i .. n PROVE part(j) = part(j - 1) \o <<s[j]>>
    <2>1. j - 1 \in i - 1 .. n /\ s[j] \in Glyphs
      BY <1>1
    <2>2. part(j) \in Seq(Glyphs) /\ part(j - 1) \in Seq(Glyphs) /\ <<s[j]>> \in Seq(Glyphs)
      BY <1>2, <2>1
    <2>3. Len(part(j)) = j - i + 1 /\ Len(part(j - 1)) = j - i
      BY <1>1, <1>2, <2>1
    <2>4. \A k \in 1 .. j - i + 1 : part(j)[k] = s[i + k - 1]
      BY <1>1
    <2>5. \A k \in 1 .. j - i : part(j - 1)[k] = s[i + k - 1]
      BY <1>1
    <2> HIDE DEF part
    <2>6. \A k \in 1 .. j - i + 1 : (part(j - 1) \o <<s[j]>>)[k] = s[i + k - 1]
      BY <1>1, <2>2, <2>3, <2>5
    <2>7. Len(part(j - 1) \o <<s[j]>>) = j - i + 1
      BY <1>1, <2>2, <2>3
    <2>8. part(j - 1) \o <<s[j]>> \in Seq(Glyphs)
      BY <2>2
    <2> DEFINE both == part(j - 1) \o <<s[j]>>
               len == j - i + 1
    <2>9. /\ both \in Seq(Glyphs) /\ Len(both) = len /\ \A k \in 1 .. len : both[k] = s[i + k - 1]
          /\ part(j) \in Seq(Glyphs) /\ Len(part(j)) = len
          /\ \A k \in 1 .. len : part(j)[k] = s[i + k - 1]
      BY <2>2, <2>3, <2>4, <2>6, <2>7, <2>8
    <2> HIDE DEF both, len
    <2>10. both = part(j)
      BY <2>9, SeqEqual
    <2>11. QED BY <2>10 DEF both
  <1>5. ASSUME NEW m \in 0 .. i - 1, NEW Q, Composes(s, m, Q), r.composing \in Q[i - 1]
        PROVE r.composing \o part(n) \in Q[n]
    <2> DEFINE Bad == {j \in Nat : j \in i - 1 .. n /\ r.composing \o part(j) \notin Q[j]}
    <2> HIDE DEF part
    <2>1. ASSUME Bad # {} PROVE FALSE
      <3>1. Bad \in SUBSET Nat
        OBVIOUS
      <3>2. PICK j \in Bad : \A k \in Bad : j <= k
        <4> HIDE DEF Bad
        <4>1. QED BY <2>1, <3>1, LeastNumber
      <3>3. j \in i - 1 .. n /\ r.composing \o part(j) \notin Q[j]
        BY <3>2
      <3>4. j # i - 1
        <4>1. r.composing \o <<>> = r.composing
          BY <1>1
        <4>2. QED BY <1>3, <1>5, <3>3, <4>1
      <3>5. j - 1 \in i - 1 .. n /\ j - 1 \in Nat /\ ~(j <= j - 1) /\ j \in i .. n
        BY <1>1, <3>3, <3>4
      <3>6. r.composing \o part(j - 1) \in Q[j - 1]
        BY <3>2, <3>5
      <3>7. <<s[j]>> \in Raw(s, j, j)
        BY DEF Raw
      <3>8. j \in m + 1 .. Len(s) /\ j \in m + 1 .. j
        BY <1>1, <3>5
      <3>9. (r.composing \o part(j - 1)) \o <<s[j]>> \in Q[j]
        BY <1>5, <3>6, <3>7, <3>8 DEF Composes
      <3>10. (r.composing \o part(j - 1)) \o <<s[j]>> = r.composing \o (part(j - 1) \o <<s[j]>>)
        <4>1. part(j - 1) \in Seq(Glyphs) /\ <<s[j]>> \in Seq(Glyphs)
          BY <1>1, <1>2, <3>5
        <4> DEFINE a == r.composing
                   b == part(j - 1)
                   c == <<s[j]>>
        <4>2. a \in Seq(Glyphs) /\ b \in Seq(Glyphs) /\ c \in Seq(Glyphs)
          BY <1>1, <4>1
        <4> HIDE DEF a, b, c
        <4>3. (a \o b) \o c = a \o (b \o c)
          BY <4>2
        <4>4. QED BY <4>3 DEF a, b, c
      <3>11. QED BY <1>4, <3>3, <3>5, <3>9, <3>10
    <2>2. n \in Nat /\ n \in i - 1 .. n
      BY <1>1
    <2>3. QED BY <2>1, <2>2
  <1>6. part(n) \in Text /\ part(n) # <<>>
    <2> DEFINE whole == part(n)
    <2>1. n \in i - 1 .. n /\ n - i + 1 # 0
      BY <1>1
    <2>2. whole \in Seq(Glyphs) /\ Len(whole) # 0
      BY <1>2, <2>1
    <2> HIDE DEF whole
    <2>3. whole \in Text /\ whole # <<>>
      BY <2>2 DEF Text
    <2>4. QED BY <2>3 DEF whole
  <1>7. r.index + (Len(s) - r.index + 1) = n + 1 /\ n \in r.index .. Len(s)
    BY <1>1
  <1> DEFINE raw == part(n)
  <1>8. raw \in Text /\ raw # <<>> /\ raw = SubSeq(s, r.index, Len(s))
    BY <1>6
  <1>9. \A m \in 0 .. r.index - 1 : \A Q :
          Composes(s, m, Q) /\ r.composing \in Q[r.index - 1] => r.composing \o raw \in Q[n]
    BY <1>5
  <1> HIDE DEF raw
  <1>10. Parsed(s, [r EXCEPT !.composing = @ \o raw, !.index = n + 1])
    BY <1>7, <1>8, <1>9, RawParsed
  <1>11. QED BY <1>7, <1>8, <1>10

(* The letters a rule of the converter takes are ones the grammar knows.   *)
LEMMA RulesAreKana ==
  ASSUME NEW s \in Seq(Keys), NEW i \in 1 .. Len(s)
  PROVE /\ IsSokuon(s, i) => <<SmallTsu>> \in Kana(s, i, i)
        /\ IsHatsuon(s, i) =>
             /\ HatsuonLength(s, i) \in 1 .. 2 /\ i + HatsuonLength(s, i) - 1 <= Len(s)
             /\ <<Hatsuon>> \in Kana(s, i, i + HatsuonLength(s, i) - 1)
  <1>1. Len(s) \in Nat /\ i \in Nat
    OBVIOUS
  <1>2. ASSUME IsSokuon(s, i) PROVE <<SmallTsu>> \in Kana(s, i, i)
    <2>1. i < Len(s) /\ Norm(s[i + 1]) = Norm(s[i]) /\ Norm(s[i]) \notin Vowels
      BY <1>2 DEF IsSokuon
    <2>2. s[i] \notin Vowels
      BY <2>1, TypingAssumption DEF Norm
    <2>3. QED BY <2>1, <2>2 DEF Kana
  <1>3. ASSUME IsHatsuon(s, i), Norm(s[i + 1]) \in {N, Apostrophe}
        PROVE /\ HatsuonLength(s, i) = 2 /\ i + 1 <= Len(s)
              /\ <<Hatsuon>> \in Kana(s, i, i + 1)
    <2>1. i < Len(s) /\ Norm(s[i]) = N
      BY <1>3 DEF IsHatsuon
    <2> DEFINE spelling == [k \in 1 .. (i + 1) - i + 1 |-> Norm(s[i + k - 1])]
    <2>2. (i + 1) - i + 1 = 2 /\ i + 1 - 1 = i /\ i + 2 - 1 = i + 1
      BY <1>1
    <2>3. spelling = <<Norm(s[i]), Norm(s[i + 1])>>
      BY <2>2
    <2>4. spelling \in {<<N, N>>, <<N, Apostrophe>>}
      BY <1>3, <2>1, <2>3
    <2>5. <<Hatsuon>> \in Kana(s, i, i + 1)
      BY <2>4 DEF Kana
    <2>6. QED BY <1>1, <1>3, <2>1, <2>5 DEF HatsuonLength
  <1>4. ASSUME IsHatsuon(s, i), Norm(s[i + 1]) \notin {N, Apostrophe}
        PROVE HatsuonLength(s, i) = 1 /\ <<Hatsuon>> \in Kana(s, i, i)
    <2>1. i < Len(s) /\ Norm(s[i]) = N
      BY <1>4 DEF IsHatsuon
    <2> DEFINE spelling == [k \in 1 .. i - i + 1 |-> Norm(s[i + k - 1])]
    <2>2. i - i + 1 = 1 /\ i + 1 - 1 = i
      BY <1>1
    <2>3. spelling = <<Norm(s[i])>>
      BY <2>2
    <2>4. <<Hatsuon>> \in Kana(s, i, i)
      BY <2>1, <2>3 DEF Kana
    <2>5. QED BY <1>4, <2>4 DEF HatsuonLength
  <1>5. i + 1 - 1 = i /\ i + 2 - 1 = i + 1 /\ 1 \in 1 .. 2 /\ 2 \in 1 .. 2 /\ i <= Len(s)
    BY <1>1
  <1>6. QED BY <1>2, <1>3, <1>4, <1>5

(* The longest spelling of the table is one.                               *)
LEMMA SpellingIsKana ==
  ASSUME NEW s \in Seq(Keys), NEW i \in 1 .. Len(s), Matches(s, i) # {}
  PROVE LET n == Len(Spelling(s, i)) IN
        /\ n \in Nat \ {0} /\ i + n - 1 <= Len(s)
        /\ Spelling(s, i) \in DOMAIN Table /\ Table[Spelling(s, i)] \in Kana(s, i, i + n - 1)
  <1> DEFINE M == Matches(s, i)
             n == Max(M)
             rest == Rest(s, i)
             left == Len(s) - i + 1
  <1>1. Len(s) \in Nat /\ i \in Nat /\ left \in Nat
    OBVIOUS
  <1>2. M \subseteq 1 .. 4
    BY DEF Matches, MaxLookahead
  <1>3. \E x \in M : \A y \in M : x >= y
    <2>1. CASE 4 \in M
      BY <1>2, <2>1
    <2>2. CASE 4 \notin M /\ 3 \in M
      BY <1>2, <2>2
    <2>3. CASE 4 \notin M /\ 3 \notin M /\ 2 \in M
      BY <1>2, <2>3
    <2>4. CASE 4 \notin M /\ 3 \notin M /\ 2 \notin M
      <3>1. PICK x \in M : TRUE
        OBVIOUS
      <3>2. x = 1 /\ \A y \in M : x >= y
        BY <1>2, <2>4
      <3>3. QED BY <3>2
    <2>5. QED BY <2>1, <2>2, <2>3, <2>4
  <1>4. n \in M
    <2> HIDE DEF M
    <2>1. QED BY <1>3 DEF Max
  <1>5. n \in 1 .. 4 /\ n <= left /\ SubSeq(rest, 1, n) \in DOMAIN Table
    BY <1>2, <1>4 DEF Matches
  <1>6. Spelling(s, i) = SubSeq(rest, 1, n)
    BY DEF Spelling
  <1> HIDE DEF n, M
  <1>7. rest \in Seq(Glyphs) /\ Len(rest) = left /\ \A k \in 1 .. left : rest[k] = Norm(s[i + k - 1])
    <2>1. rest = [k \in 1 .. left |-> Norm(s[i + k - 1])]
      BY DEF Rest
    <2>2. \A k \in 1 .. left : Norm(s[i + k - 1]) \in Glyphs
      <3>1. ASSUME NEW k \in 1 .. left PROVE Norm(s[i + k - 1]) \in Glyphs
        <4>1. i + k - 1 \in 1 .. Len(s)
          BY <1>1
        <4>2. QED BY <4>1, NormIs
      <3>2. QED BY <3>1
    <2> HIDE DEF left
    <2>3. QED BY <1>1, <2>1, <2>2
  <1> DEFINE spelling == SubSeq(rest, 1, n)
  <1> HIDE DEF rest
  <1>8. n \in Nat /\ 1 <= n /\ n <= Len(rest)
    BY <1>5, <1>7
  <1>9. spelling = [k \in 1 .. n |-> rest[k]] /\ Len(spelling) = n
    BY <1>7, <1>8
  <1>10. (i + n - 1) - i + 1 = n
    BY <1>1, <1>8
  <1>11. spelling = [k \in 1 .. (i + n - 1) - i + 1 |-> Norm(s[i + k - 1])]
    <2>1. \A k \in 1 .. n : rest[k] = Norm(s[i + k - 1])
      BY <1>5, <1>7
    <2>2. QED BY <1>9, <1>10, <2>1
  <1>12. i + n - 1 <= Len(s)
    BY <1>1, <1>5
  <1> HIDE DEF spelling
  <1>13. spelling \in DOMAIN Table
    BY <1>5 DEF spelling
  <1>14. Table[spelling] \in Kana(s, i, i + n - 1)
    BY <1>11, <1>13 DEF Kana
  <1>15. Spelling(s, i) = spelling
    BY <1>6 DEF spelling
  <1>16. QED BY <1>8, <1>9, <1>12, <1>13, <1>14, <1>15

(* A pass goes on, and what it leaves is still a parse of what it read.    *)
LEMMA PassParsed ==
  ASSUME NEW s \in Seq(Keys), NEW r, Parsed(s, r), r.index <= Len(s)
  PROVE Parsed(s, Pass(s, r)) /\ Pass(s, r).index >= r.index + 1
  <1> DEFINE i == r.index
             Take(n, t) == [t EXCEPT !.index = i + n]
  <1>1. /\ r \in States /\ i \in Nat \ {0} /\ Len(s) \in Nat /\ i \in 1 .. Len(s)
        /\ r.composing \in Text /\ r.confirmed \in Text
    BY DEF Parsed, States
  <1>2. <<SmallTsu>> \in Text /\ <<Hatsuon>> \in Text
    <2>1. SmallTsu \in Glyphs /\ Hatsuon \in Glyphs
      BY TypingAssumption
    <2>2. QED BY <2>1 DEF Text
  <1>3. ASSUME NEW n \in Nat \ {0}, i + n - 1 <= Len(s), NEW kana \in Text,
               kana \in Kana(s, i, i + n - 1), Pass(s, r) = Take(n, Append2(r, kana))
        PROVE Parsed(s, Pass(s, r)) /\ Pass(s, r).index >= i + 1
    <2>1. Parsed(s, Pass(s, r))
      BY <1>1, <1>3, KanaParsed
    <2>2. Append2(r, kana) \in [index : Nat \ {0}, confirmed : Text, composing : Text]
      BY <1>1, JoinedText DEF Append2, States
    <2>3. Pass(s, r).index = i + n
      BY <1>3, <2>2
    <2>4. QED BY <1>1, <2>1, <2>3
  <1>4. ASSUME NEW x, x = s[i] \/ x = Norm(s[i]),
               Pass(s, r) = Take(1, [r EXCEPT !.composing = Append(@, x)])
        PROVE Parsed(s, Pass(s, r)) /\ Pass(s, r).index >= i + 1
    <2>1. Pass(s, r) = [r EXCEPT !.composing = Append(@, x), !.index = i + 1]
      BY <1>1, <1>4 DEF States
    <2>2. Pass(s, r).index = i + 1
      BY <1>1, <2>1 DEF States
    <2>3. Parsed(s, Pass(s, r))
      <3>1. Parsed(s, [r EXCEPT !.composing = Append(@, x), !.index = r.index + 1])
        BY <1>4, LetterParsed
      <3>2. QED BY <2>1, <3>1
    <2>4. QED BY <1>1, <2>2, <2>3
  <1>5. CASE IsSokuon(s, i)
    <2>1. <<SmallTsu>> \in Kana(s, i, i) /\ i + 1 - 1 = i
      BY <1>1, <1>5, RulesAreKana
    <2>2. Pass(s, r) = Take(1, Append2(r, <<SmallTsu>>))
      BY <1>5 DEF Pass
    <2>3. 1 \in Nat \ {0} /\ i + 1 - 1 = i /\ i <= Len(s)
      BY <1>1
    <2>4. <<SmallTsu>> \in Kana(s, i, i + 1 - 1) /\ i + 1 - 1 <= Len(s)
      BY <2>1, <2>3
    <2>5. QED BY <1>2, <1>3, <2>2, <2>3, <2>4
  <1>6. CASE ~IsSokuon(s, i) /\ IsPendingN(s, i)
    <2>1. ~IsHatsuon(s, i)
      BY <1>1, <1>6 DEF IsPendingN, IsHatsuon
    <2>2. Pass(s, r) = Take(1, [r EXCEPT !.composing = Append(@, N)])
      BY <1>6, <2>1 DEF Pass
    <2>3. N = Norm(s[i])
      BY <1>6 DEF IsPendingN
    <2>4. QED BY <1>4, <2>2, <2>3
  <1>7. CASE ~IsSokuon(s, i) /\ ~IsPendingN(s, i) /\ IsHatsuon(s, i)
    <2>1. /\ HatsuonLength(s, i) \in 1 .. 2 /\ i + HatsuonLength(s, i) - 1 <= Len(s)
          /\ <<Hatsuon>> \in Kana(s, i, i + HatsuonLength(s, i) - 1)
      BY <1>1, <1>7, RulesAreKana
    <2>2. Pass(s, r) = Take(HatsuonLength(s, i), Append2(r, <<Hatsuon>>))
      BY <1>7 DEF Pass
    <2>3. HatsuonLength(s, i) \in Nat \ {0}
      BY <2>1
    <2>4. QED BY <1>2, <1>3, <2>1, <2>2, <2>3
  <1>8. CASE ~IsSokuon(s, i) /\ ~IsPendingN(s, i) /\ ~IsHatsuon(s, i)
    <2>1. CASE Matches(s, i) # {}
      <3> DEFINE n == Len(Spelling(s, i))
      <3>1. /\ n \in Nat \ {0} /\ i + n - 1 <= Len(s)
            /\ Spelling(s, i) \in DOMAIN Table /\ Table[Spelling(s, i)] \in Kana(s, i, i + n - 1)
        BY <1>1, <2>1, SpellingIsKana
      <3>2. Table[Spelling(s, i)] \in Text
        BY <3>1, TypingAssumption
      <3>3. Pass(s, r) = Take(n, Append2(r, Table[Spelling(s, i)]))
        BY <1>8, <2>1 DEF Pass
      <3>4. QED BY <1>3, <3>1, <3>2, <3>3
    <2>2. CASE Matches(s, i) = {} /\ IsPending(s, i)
      <3>1. Pass(s, r) = Take(Len(s) - i + 1, [r EXCEPT !.composing = @ \o SubSeq(s, i, Len(s))])
        BY <1>8, <2>2 DEF Pass
      <3>2. Pass(s, r) = [r EXCEPT !.composing = @ \o SubSeq(s, i, Len(s)),
                                   !.index = i + (Len(s) - i + 1)]
        BY <1>1, <3>1 DEF States
      <3>3. Parsed(s, Pass(s, r))
        BY <3>2, RestParsed
      <3>4. Pass(s, r).index = i + (Len(s) - i + 1)
        BY <1>1, <3>2 DEF States
      <3>5. QED BY <1>1, <3>3, <3>4
    <2>3. CASE Matches(s, i) = {} /\ ~IsPending(s, i)
      <3>1. Pass(s, r) = Take(1, [r EXCEPT !.composing = Append(@, s[i])])
        BY <1>8, <2>3 DEF Pass
      <3>2. QED BY <1>4, <3>1
    <2>4. QED BY <2>1, <2>2, <2>3
  <1>9. QED BY <1>5, <1>6, <1>7, <1>8

(* As many passes as the buffer has letters read all of it.                *)
LEMMA LoopParsed ==
  ASSUME NEW s \in Seq(Keys), NEW G, Scans(s, Len(s), G)
  PROVE \A k \in 0 .. Len(s) : Parsed(s, G[1 .. k]) /\ G[1 .. k].index >= k + 1
  <1> DEFINE n == Len(s)
             Holds(k) == Parsed(s, G[1 .. k]) /\ G[1 .. k].index >= k + 1
             Bad == {k \in Nat : k <= n /\ ~Holds(k)}
  <1>1. n \in Nat
    OBVIOUS
  <1>2. G[1 .. 0] = Begin /\ \A k \in 1 .. n : G[1 .. k] = Loop(s, G[1 .. k - 1])
    BY <1>1, ScanSteps
  <1>3. Holds(0)
    <2>1. <<>> \in Text
      BY DEF Text
    <2>2. Begin \in States /\ Begin.index = 1 /\ Begin.confirmed = <<>> /\ Begin.composing = <<>>
      BY <2>1 DEF Begin, States
    <2>3. \A P : Confirms(s, P) => Begin.confirmed \in P[0]
      BY <2>2 DEF Confirms
    <2>4. \A Q : Composes(s, 0, Q) => Begin.composing \in Q[Begin.index - 1]
      BY <2>2 DEF Composes
    <2>5. 0 \in 0 .. Begin.index - 1 /\ 0 = Begin.index - 1 /\ Begin.index <= n + 1
      BY <1>1, <2>2
    <2>6. Parsed(s, Begin)
      BY <2>2, <2>3, <2>4, <2>5 DEF Parsed
    <2>7. QED BY <1>2, <2>2, <2>6
  <1>4. ASSUME NEW k \in 1 .. n, Holds(k - 1) PROVE Holds(k)
    <2> DEFINE r == G[1 .. k - 1]
    <2>1. Parsed(s, r) /\ r.index >= k
      BY <1>4
    <2>2. G[1 .. k] = Loop(s, r)
      BY <1>2
    <2>3. r.index \in Nat
      BY <2>1 DEF Parsed, States
    <2> HIDE DEF r
    <2>4. CASE r.index > n
      BY <1>1, <2>1, <2>2, <2>3, <2>4 DEF Loop
    <2>5. CASE ~(r.index > n)
      <3>1. r.index <= Len(s)
        BY <1>1, <2>3, <2>5
      <3>2. Parsed(s, Pass(s, r)) /\ Pass(s, r).index >= r.index + 1
        BY <2>1, <3>1, PassParsed
      <3>3. G[1 .. k] = Pass(s, r)
        BY <2>2, <2>5 DEF Loop
      <3>4. Pass(s, r).index \in Nat
        BY <3>2 DEF Parsed, States
      <3>5. QED BY <2>1, <2>3, <3>2, <3>3, <3>4
    <2>6. QED BY <2>4, <2>5
  <1> HIDE DEF Holds
  <1>5. ASSUME Bad # {} PROVE FALSE
    <2>1. Bad \in SUBSET Nat
      OBVIOUS
    <2>2. PICK k \in Bad : \A j \in Bad : k <= j
      <3> HIDE DEF Bad
      <3>1. QED BY <1>5, <2>1, LeastNumber
    <2>3. k \in 1 .. n /\ ~Holds(k)
      <3>1. k \in Nat /\ k <= n /\ ~Holds(k)
        BY <2>2
      <3>2. k # 0
        BY <1>3, <3>1
      <3>3. QED BY <1>1, <3>1, <3>2
    <2>4. k - 1 \in Nat /\ k - 1 <= n /\ ~(k <= k - 1)
      BY <1>1, <2>3
    <2>5. Holds(k - 1)
      BY <2>2, <2>4
    <2>6. QED BY <1>4, <2>3, <2>5
  <1>6. \A k \in 0 .. n : Holds(k)
    BY <1>1, <1>5
  <1>7. QED BY <1>6 DEF Holds

(* Whatever the letters, what convertRomajiToHiragana makes of them is a   *)
(* parse of them: each letter goes into one kana or stands for itself.     *)
THEOREM ConversionParses ==
  ASSUME NEW s \in Seq(Keys)
  PROVE IsParse(s, ConvertRomajiToHiragana(s))
  <1> DEFINE n == Len(s)
  <1>1. n \in Nat /\ DOMAIN s = 1 .. n
    OBVIOUS
  <1>2. PICK G : /\ Scans(s, n, G)
                 /\ ConvertRomajiToHiragana(s) = [confirmed |-> G[1 .. n].confirmed,
                                                  composing |-> G[1 .. n].composing]
    BY <1>1, ScanIs
  <1> DEFINE r == G[1 .. n]
  <1>3. Parsed(s, r) /\ r.index >= n + 1
    BY <1>1, <1>2, LoopParsed
  <1>4. /\ ConvertRomajiToHiragana(s).confirmed = r.confirmed
        /\ ConvertRomajiToHiragana(s).composing = r.composing
    BY <1>2
  <1> HIDE DEF r
  <1>5. r.index = n + 1
    BY <1>1, <1>3 DEF Parsed, States
  <1>6. PICK m \in 0 .. n : /\ \A P : Confirms(s, P) => r.confirmed \in P[m]
                            /\ \A Q : Composes(s, m, Q) => r.composing \in Q[n]
    <2>1. r.index - 1 = n
      BY <1>1, <1>5
    <2>2. QED BY <1>3, <2>1 DEF Parsed
  <1>7. r.confirmed \in ConfirmedParses(s)[m]
    BY <1>1, <1>6, ConfirmedParsesAre
  <1>8. r.composing \in ComposingParses(s, m)
    <2>1. m \in Nat /\ m <= n
      BY <1>1
    <2>2. PICK Q : Composes(s, m, Q) /\ ComposingParses(s, m) = Q[n]
      BY <1>1, <2>1, ComposingParsesAre
    <2>3. QED BY <1>6, <2>2
  <1>9. QED BY <1>4, <1>7, <1>8 DEF IsParse

-----------------------------------------------------------------------------
(* The buffer *)

(* A slice of a sequence is a sequence.                                    *)
LEMMA SliceType ==
  ASSUME NEW S, NEW s \in Seq(S), NEW m \in Nat \ {0}, NEW n \in Nat, n <= Len(s)
  PROVE /\ SubSeq(s, m, n) \in Seq(S)
        /\ Len(SubSeq(s, m, n)) = IF m <= n THEN n - m + 1 ELSE 0
  OBVIOUS

(* Removing an element leaves a sequence shorter by one.                   *)
LEMMA RemoveAtType ==
  ASSUME NEW S, NEW s \in Seq(S), NEW i \in 1 .. Len(s)
  PROVE RemoveAt(s, i) \in Seq(S) /\ Len(RemoveAt(s, i)) = Len(s) - 1
  <1> DEFINE left == SubSeq(s, 1, i - 1)
             right == SubSeq(s, i + 1, Len(s))
  <1>1. left \in Seq(S) /\ Len(left) = i - 1
    BY SliceType
  <1>2. right \in Seq(S) /\ Len(right) = Len(s) - i
    BY SliceType
  <1>3. RemoveAt(s, i) = left \o right
    BY DEF RemoveAt
  <1> HIDE DEF left, right
  <1>4. left \o right \in Seq(S) /\ Len(left \o right) = Len(left) + Len(right)
    BY <1>1, <1>2, ConcatProperties
  <1>5. i \in Int /\ Len(s) \in Int
    OBVIOUS
  <1>6. QED BY <1>1, <1>2, <1>3, <1>4, <1>5

(* Inserting an element leaves a sequence longer by one.                   *)
LEMMA InsertAtType ==
  ASSUME NEW S, NEW s \in Seq(S), NEW i \in 1 .. Len(s) + 1, NEW x \in S
  PROVE InsertAt(s, i, x) \in Seq(S) /\ Len(InsertAt(s, i, x)) = Len(s) + 1
  <1> DEFINE left == SubSeq(s, 1, i - 1)
             right == SubSeq(s, i, Len(s))
             start == left \o <<x>>
  <1>1. left \in Seq(S) /\ Len(left) = i - 1
    BY SliceType
  <1>2. right \in Seq(S) /\ Len(right) = Len(s) - i + 1
    BY SliceType
  <1>3. InsertAt(s, i, x) = start \o right
    BY DEF InsertAt
  <1> HIDE DEF left, right
  <1>4. start \in Seq(S) /\ Len(start) = i
    BY <1>1
  <1> HIDE DEF start
  <1>5. QED BY <1>2, <1>3, <1>4, ConcatProperties

(* Letters typed, no more of them than fit, and the cursor among them.     *)
Inputs == {e \in [buffer : Seq(Keys), cursor : Nat] :
             e.cursor <= Len(e.buffer) /\ Len(e.buffer) <= MaxText}

LEMMA InputFacts ==
  ASSUME NEW e \in Inputs
  PROVE /\ e.buffer \in Seq(Keys) /\ e.cursor \in Nat /\ Len(e.buffer) \in Nat
        /\ MaxText \in Nat /\ e.cursor <= Len(e.buffer) /\ Len(e.buffer) <= MaxText
  BY TypingAssumption DEF Inputs

(* Another text, another cursor.                                           *)
LEMMA Edited ==
  ASSUME NEW e \in Inputs, NEW b \in Seq(Keys), Len(b) <= MaxText, NEW c \in Nat, c <= Len(b),
         NEW f, \/ f = [e EXCEPT !.buffer = b, !.cursor = c]
                \/ f = [e EXCEPT !.buffer = b] /\ c = e.cursor
                \/ f = [e EXCEPT !.cursor = c] /\ b = e.buffer
  PROVE f \in Inputs
  BY DEF Inputs

LEMMA InsertedInput ==
  ASSUME NEW e \in Inputs, Len(e.buffer) < MaxText, NEW ch \in Keys
  PROVE Insert(e, ch) \in Inputs
  <1> DEFINE b == InsertAt(e.buffer, e.cursor + 1, ch)
             c == e.cursor + 1
  <1>1. c \in 1 .. Len(e.buffer) + 1
    BY InputFacts
  <1>2. b \in Seq(Keys) /\ Len(b) = Len(e.buffer) + 1
    <2> HIDE DEF c
    <2>1. QED BY <1>1, InputFacts, InsertAtType DEF c
  <1>3. Insert(e, ch) = [e EXCEPT !.buffer = b, !.cursor = c]
    BY DEF Insert
  <1>4. c \in Nat /\ c <= Len(b) /\ Len(b) <= MaxText
    BY <1>1, <1>2, InputFacts
  <1> HIDE DEF b, c
  <1>5. QED BY <1>2, <1>3, <1>4, Edited

LEMMA RawBackspaceInput ==
  ASSUME NEW e \in Inputs
  PROVE RawBackspace(e) \in Inputs
  <1>1. CASE e.cursor = 0
    BY <1>1 DEF RawBackspace
  <1>2. CASE e.cursor # 0
    <2> DEFINE b == RemoveAt(e.buffer, e.cursor)
               c == e.cursor - 1
    <2>1. e.cursor \in 1 .. Len(e.buffer)
      BY <1>2, InputFacts
    <2>2. b \in Seq(Keys) /\ Len(b) = Len(e.buffer) - 1
      BY <2>1, InputFacts, RemoveAtType
    <2>3. RawBackspace(e) = [e EXCEPT !.buffer = b, !.cursor = c]
      BY <1>2 DEF RawBackspace, EraseAt, Inputs
    <2>4. c \in Nat /\ c <= Len(b) /\ Len(b) <= MaxText
      BY <2>1, <2>2, InputFacts
    <2> HIDE DEF b, c
    <2>5. QED BY <2>2, <2>3, <2>4, Edited
  <1>3. QED BY <1>1, <1>2

LEMMA RemoveLastInput ==
  ASSUME NEW e \in Inputs, e.cursor = Len(e.buffer), NEW k \in Nat, k <= Len(e.buffer)
  PROVE RemoveLast(e, k) \in Inputs
  <1> DEFINE b == SubSeq(e.buffer, 1, Len(e.buffer) - k)
             c == e.cursor - k
  <1>1. Len(e.buffer) - k \in Nat /\ Len(e.buffer) - k <= Len(e.buffer) /\ 1 \in Nat \ {0}
    BY InputFacts
  <1>2. b \in Seq(Keys) /\ Len(b) = Len(e.buffer) - k
    BY <1>1, InputFacts, SliceType
  <1>3. RemoveLast(e, k) = [e EXCEPT !.buffer = b, !.cursor = c]
    BY DEF RemoveLast
  <1>4. c \in Nat /\ c <= Len(b) /\ Len(b) <= MaxText
    BY <1>1, <1>2, InputFacts
  <1> HIDE DEF b, c
  <1>5. QED BY <1>2, <1>3, <1>4, Edited

LEMMA BackspaceInput ==
  ASSUME NEW e \in Inputs
  PROVE Backspace(e) \in Inputs
  <1> DEFINE units == Units(e)
             k == CHOOSE n \in units : \A j \in units : n <= j
  <1>1. CASE units = {}
    BY <1>1, RawBackspaceInput DEF Backspace
  <1>2. CASE units # {}
    <2>1. /\ units \in SUBSET (1 .. 4) /\ e.cursor = Len(e.buffer)
          /\ \A n \in units : n <= Len(e.buffer)
      BY <1>2 DEF Units, MaxRomajiUnitLength
    <2> HIDE DEF units
    <2>2. k \in units
      <3>1. units \in SUBSET Nat
        BY <2>1
      <3>2. QED BY <1>2, <3>1, LeastNumber
    <2>3. Backspace(e) = RemoveLast(e, k)
      BY <1>2 DEF Backspace, units
    <2> HIDE DEF k
    <2>4. k \in Nat /\ k <= Len(e.buffer)
      BY <2>1, <2>2
    <2>5. QED BY <2>1, <2>3, <2>4, RemoveLastInput
  <1>3. QED BY <1>1, <1>2

LEMMA DeleteForwardInput ==
  ASSUME NEW e \in Inputs
  PROVE DeleteForward(e) \in Inputs
  <1>1. CASE e.cursor >= Len(e.buffer)
    BY <1>1 DEF DeleteForward
  <1>2. CASE ~(e.cursor >= Len(e.buffer))
    <2> DEFINE b == RemoveAt(e.buffer, e.cursor + 1)
    <2>1. e.cursor + 1 \in 1 .. Len(e.buffer)
      BY <1>2, InputFacts
    <2>2. b \in Seq(Keys) /\ Len(b) = Len(e.buffer) - 1
      BY <2>1, InputFacts, RemoveAtType
    <2>3. DeleteForward(e) = [e EXCEPT !.buffer = b]
      BY <1>2 DEF DeleteForward, EraseAt
    <2>4. e.cursor \in Nat /\ e.cursor <= Len(b) /\ Len(b) <= MaxText
      BY <2>1, <2>2, InputFacts
    <2> HIDE DEF b
    <2>5. QED BY <2>2, <2>3, <2>4, Edited
  <1>3. QED BY <1>1, <1>2

LEMMA MovedInput ==
  ASSUME NEW e \in Inputs
  PROVE MoveCursorLeft(e) \in Inputs /\ MoveCursorRight(e) \in Inputs
  <1> DEFINE l == IF e.cursor = 0 THEN 0 ELSE e.cursor - 1
             r == IF e.cursor >= Len(e.buffer) THEN e.cursor ELSE e.cursor + 1
  <1>1. l \in Nat /\ l <= Len(e.buffer) /\ r \in Nat /\ r <= Len(e.buffer)
    BY InputFacts
  <1>2. MoveCursorLeft(e) = [e EXCEPT !.cursor = l] /\ MoveCursorRight(e) = [e EXCEPT !.cursor = r]
    BY DEF MoveCursorLeft, MoveCursorRight
  <1>3. e.buffer \in Seq(Keys) /\ Len(e.buffer) <= MaxText
    BY InputFacts
  <1> HIDE DEF l, r
  <1>4. QED BY <1>1, <1>2, <1>3, Edited

-----------------------------------------------------------------------------
(* Typing *)

Inductive == input \in Inputs

(* What the buffer holds is always letters typed, with the cursor inside:  *)
(* no key takes the cursor past the end, or the buffer past its bound.     *)
THEOREM TypeCorrect == Spec => []Inductive
  <1>1. Init => Inductive
    BY TypingAssumption DEF Init, Inputs, Inductive
  <1>2. ASSUME Inductive, [Next]_input PROVE Inductive'
    <2>0. input \in Inputs
      BY <1>2 DEF Inductive
    <2>1. ASSUME NEW ch \in Keys, Typed(ch) PROVE input' \in Inputs
      BY <2>0, <2>1, InsertedInput DEF Typed
    <2>2. CASE BackspaceKey
      BY <2>0, <2>2, BackspaceInput DEF Inductive, BackspaceKey
    <2>3. CASE DeleteKey
      BY <2>0, <2>3, DeleteForwardInput DEF Inductive, DeleteKey
    <2>4. CASE LeftKey
      BY <2>0, <2>4, MovedInput DEF Inductive, LeftKey
    <2>5. CASE RightKey
      BY <2>0, <2>5, MovedInput DEF Inductive, RightKey
    <2>6. CASE UNCHANGED input
      BY <2>0, <2>6 DEF Inductive
    <2>7. CASE \E ch \in Keys : Typed(ch)
      BY <2>1, <2>7 DEF Inductive
    <2>8. QED BY <1>2, <2>2, <2>3, <2>4, <2>5, <2>6, <2>7 DEF Next, Inductive
  <1>3. QED BY <1>1, <1>2, PTL DEF Spec

(* What is typed converts by the converter.                                *)
LEMMA ConvertIs ==
  ASSUME NEW b \in Seq(Keys), Len(b) <= MaxText
  PROVE Convert(b) = ConvertRomajiToHiragana(b)
  <1>1. b \in [1 .. Len(b) -> Keys] /\ Len(b) \in 0 .. MaxText
    BY TypingAssumption
  <1>2. b \in BoundedSeq(Keys, MaxText)
    BY <1>1 DEF BoundedSeq, SeqOf
  <1>3. b \in DOMAIN Conversion /\ Conversion[b] = ConvertRomajiToHiragana(b)
    BY <1>2, TypingAssumption
  <1>4. QED BY <1>3 DEF Convert

(* Whatever is typed and however it is edited, every character typed is    *)
(* accounted for, in order: the confirmed kana spell a beginning of the    *)
(* buffer and the composing text is the rest of it, as kana or as typed.   *)
(* No rule of convertRomajiToHiragana, in the order the loop tries them,   *)
(* drops a character, takes one twice, or ends the scan early.             *)
THEOREM NothingIsLostInTyping == Spec => []NothingTypedIsLost
  <1>1. ASSUME Inductive PROVE NothingTypedIsLost
    <2>1. input.buffer \in Seq(Keys) /\ Len(input.buffer) <= MaxText
      BY <1>1, InputFacts DEF Inductive
    <2>2. Convert(input.buffer) = ConvertRomajiToHiragana(input.buffer)
      BY <2>1, ConvertIs
    <2>3. IsParse(input.buffer, ConvertRomajiToHiragana(input.buffer))
      BY <2>1, ConversionParses
    <2>4. QED BY <2>2, <2>3 DEF NothingTypedIsLost
  <1>2. QED BY <1>1, TypeCorrect, PTL
=============================================================================
