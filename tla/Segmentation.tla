---------------------------- MODULE Segmentation ----------------------------
(***************************************************************************)
(* How a conversion cuts a reading into segments: a dynamic program over   *)
(* the ends of the segments and the part of speech each leaves behind.     *)
(***************************************************************************)
EXTENDS CandidateRanking

CONSTANT MaxSegmentLength   \* kMaxSegmentLength

ASSUME SegmentAssumption == MaxSegmentLength \in Nat \ {0}

Particles == {\h306F, \h3092, \h304C, \h306B, \h3067, \h3068, \h3078, \h3082, \h306E}
SmallKana == SmallHiragana \cup {SmallTsu}

Clamp(n, low, high) == Max({low, Min({n, high})})
Quarter(n) == IF n < 0 THEN -((-n) \div 4) ELSE n \div 4   \* n / 4

(* scoreSegmentReading: what a segment counts after a word of this part of *)
(* speech, and the part of speech it leaves.  Every reading has            *)
(* candidates, so the branches for one without are never taken.            *)
ScoreSegmentReading(d, reading, isTerminal, pos) ==
  LET best == BuildExactCandidates(d, reading, pos, <<>>)[1]
      isParticle == reading[1] \in Particles
  IN [score |-> 200 + 12 * Len(reading) + Clamp(Quarter(best.score), -60, 120)
                - (IF ~isTerminal /\ Len(reading) = 1 /\ ~isParticle THEN 120 ELSE 0)
                + (IF ~isTerminal /\ Last(reading) \in Particles THEN 80 ELSE 0)
                - (IF Len(reading) >= 2 /\ isParticle THEN 60 ELSE 0),
      pos |-> LookupPartOfSpeech(d, reading, best.text)]

(* The segments a cut may make of reading[start .. end - 1]. *)
MayBeSegment(reading, start, end) ==
  /\ start < end /\ end - start <= MaxSegmentLength
  /\ reading[start] \notin SmallKana
  /\ end <= Len(reading) => reading[end] \notin SmallKana

(* The whole reading, where nothing else is allowed. *)
Uncut(reading) == <<1, Len(reading) + 1>>

(* A state of the program is reached at a position with a part of speech;  *)
(* it keeps its score and the cut that led to it.  Of two ways with one    *)
(* score the program keeps the one it finds first, the model both.         *)
Step(d, reading, from, end) ==
  LET start == Last(from.cut)
      scored == ScoreSegmentReading(d, SubSeq(reading, start, end - 1), end > Len(reading), from.pos)
  IN [score |-> from.score + scored.score, pos |-> scored.pos, cut |-> Append(from.cut, end)]

BestPerPosition(ways) ==                                           \* mutant
  {w \in ways : \A v \in ways : v.score <= w.score}
BestPerState(ways) ==
  {w \in ways : \A v \in ways : v.pos = w.pos => v.score <= w.score}

States(d, reading) ==
  LET reached[end \in 1 .. Len(reading) + 1] ==
        IF end = 1 THEN {[score |-> 0, pos |-> d.pos, cut |-> <<1>>]}
        ELSE BestPerState(
               UNION {{Step(d, reading, from, end) : from \in reached[start]} :
                        start \in {s \in 1 .. end - 1 : MayBeSegment(reading, s, end)}})
  IN reached[Len(reading) + 1]

(* rebuildSegmentsFromReading, as the positions its segments start at and  *)
(* the one behind the last: any of the cuts with the best score.           *)
Cuts(d, reading) ==
  LET ends == States(d, reading)
      best == {w \in ends : \A v \in ends : v.score <= w.score}
  IN IF ends = {} THEN {Uncut(reading)} ELSE {w.cut : w \in best}

-----------------------------------------------------------------------------
(* Reference: every cut there is, and what it counts from its first        *)
(* segment to its last.                                                    *)
AllCuts(reading) ==
  LET n == Len(reading)
      isCut(cut) == /\ Head(cut) = 1 /\ Last(cut) = n + 1
                    /\ \A i \in 1 .. Len(cut) - 1 : MayBeSegment(reading, cut[i], cut[i + 1])
  IN {cut \in UNION {[1 .. k + 1 -> 1 .. n + 1] : k \in 1 .. n} : isCut(cut)}

Total(d, reading, cut) ==
  LET after[i \in 1 .. Len(cut)] ==
        IF i = 1 THEN [score |-> 0, pos |-> d.pos, cut |-> <<1>>]
        ELSE Step(d, reading, after[i - 1], cut[i])
  IN after[Len(cut)].score
=============================================================================
