----------------------------- MODULE LexiconTrie -----------------------------
(***************************************************************************)
(* The trie in which both databases keep their entries.  A node is named   *)
(* by the reading that leads to it; what it keeps besides its entries are  *)
(* its top predictions, the best entries of everything below it, computed  *)
(* from the lists of its children.                                         *)
(*                                                                         *)
(* A text is a sequence of UTF-16 units, an entry is named by its index.   *)
(***************************************************************************)
EXTENDS Integers, SequencesExt

CONSTANT TopPredictionCount   \* kTopPredictionCount

ASSUME TopAssumption == TopPredictionCount \in Nat \ {0}

-----------------------------------------------------------------------------
(* Orders *)

(* operator< of strings *)
TextLess(a, b) ==
  \E i \in DOMAIN b :
    /\ i <= Len(a) + 1 /\ SubSeq(a, 1, i - 1) = SubSeq(b, 1, i - 1)
    /\ i <= Len(a) => a[i] < b[i]

(* Entries and candidates are ranked alike: isBetterEntry, and the order   *)
(* of sortAndTrim.                                                         *)
Better(x, y) ==
  \/ x.score > y.score
  \/ x.score = y.score /\ Len(x.reading) < Len(y.reading)
  \/ x.score = y.score /\ Len(x.reading) = Len(y.reading) /\ TextLess(x.text, y.text)

(* isBetterEntry is silent about these, and std::sort leaves them in an    *)
(* order of its own.                                                       *)
Ties(x, y) == x.score = y.score /\ Len(x.reading) = Len(y.reading) /\ x.text = y.text
OrderOf(tied) == CHOOSE order \in [tied -> 1 .. Cardinality(tied)] : IsInjective(order)

(* The names of the items, in the order they are sorted into.              *)
Ranked(items) ==
  LET place == [j \in DOMAIN items |->
                  Cardinality({i \in DOMAIN items : Better(items[i], items[j])})
                    + OrderOf({i \in DOMAIN items : Ties(items[i], items[j])})[j]]
  IN [k \in 1 .. Cardinality(DOMAIN items) |-> CHOOSE j \in DOMAIN items : place[j] = k]

FirstOf(s, n) == SubSeq(s, 1, Min({n, Len(s)}))

-----------------------------------------------------------------------------
(* Entries *)

EmptyTrie == [entries |-> <<>>, nodes |-> <<<<>>>>, top |-> [node \in {<<>>} |-> <<>>]]

(* The nodes from the root to a reading's own. *)
Path(reading) == [i \in 1 .. Len(reading) + 1 |-> SubSeq(reading, 1, i - 1)]

IndexOf(trie, reading, text) ==
  SelectInSeq(trie.entries, LAMBDA e : e.reading = reading /\ e.text = text)

(* A new entry at the end, with the nodes its reading still lacks: those   *)
(* behind the last one on its path that is there.                          *)
AddEntry(trie, entry) ==
  LET path == Path(entry.reading)
      known == Max({i \in DOMAIN path : path[i] \in DOMAIN trie.top})
      new == SubSeq(path, known + 1, Len(path))
  IN [entries |-> Append(trie.entries, entry),
      nodes |-> trie.nodes \o new,
      top |-> [node \in DOMAIN trie.top \cup ToSet(new) |->
                 IF node \in DOMAIN trie.top THEN trie.top[node] ELSE <<>>]]

(* exactEntryIndices *)
Exact(trie, node) == {i \in DOMAIN trie.entries : trie.entries[i].reading = node}

Children(trie, node) ==
  {child \in DOMAIN trie.top : Len(child) = Len(node) + 1 /\ IsPrefix(node, child)}

-----------------------------------------------------------------------------
(* Top predictions *)

BestOf(trie, indices) ==
  FirstOf(Ranked(Restrict(trie.entries, indices)), TopPredictionCount)

Recompute(trie, node) ==
  LET merged == Exact(trie, node)
                  \cup UNION {ToSet(trie.top[child]) : child \in Children(trie, node)}
  IN [trie EXCEPT !.top = [@ EXCEPT ![node] = BestOf(trie, merged)]]

RebuildFirstToLast(trie, nodes) ==                                 \* mutant
  FoldLeft(Recompute, trie, nodes)
(* Each node after the nodes below it: rebuildPath walks from the leaf to  *)
(* the root, rebuildAllPredictions from the node made last to the first.   *)
Rebuild(trie, nodes) == FoldRight(LAMBDA node, t : Recompute(t, node), nodes, trie)

BuildTrie(entries) ==
  LET filled == FoldLeft(AddEntry, EmptyTrie, entries)
  IN Rebuild(filled, filled.nodes)

(* findPredictions *)
TopPredictions(trie, prefix, limit) ==
  IF prefix \in DOMAIN trie.top THEN FirstOf(trie.top[prefix], limit) ELSE <<>>

Below(trie, node) == {i \in DOMAIN trie.entries : IsPrefix(node, trie.entries[i].reading)}

(* What the lists stand for, with no detour over the children: words below *)
(* the node, better ones first, and none left out that is better than one  *)
(* of them.                                                                *)
ListsBest(trie, node) ==
  LET list == trie.top[node]
      below == Below(trie, node)
      isBetter(i, j) == Better(trie.entries[i], trie.entries[j])
  IN /\ list \in [1 .. Min({TopPredictionCount, Cardinality(below)}) -> below]
     /\ \A k, l \in DOMAIN list : k < l => list[k] # list[l] /\ ~isBetter(list[l], list[k])
     /\ \A i \in below \ ToSet(list) : \A j \in ToSet(list) : ~isBetter(i, j)
=============================================================================
