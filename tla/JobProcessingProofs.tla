------------------------ MODULE JobProcessingProofs ------------------------
(***************************************************************************)
(* Proofs about JobProcessing: the search of SmartShrink (QualitySearch),  *)
(* the recoveries of executeTranscode and the commands of EncodeCommand,   *)
(* for every set of scores, machines and sources and every chain of        *)
(* failures.                                                               *)
(*                                                                         *)
(* The search keeps a bracket: settings known to pass on one side and      *)
(* settings known to fail on the other, and scores the next one in between *)
(* (Divides).  With CRFs the bracket shrinks at every turn from what the   *)
(* first two leave, which is why seven scores are enough for them          *)
(* (Bracketed); with modifiers it may not, and the limit on the runs ends  *)
(* the search (SearchIInv).  The attempts go down the order of the         *)
(* encoders and leave none out (TriesInOrder).                             *)
(***************************************************************************)
EXTENDS JobProcessing, FiniteSetTheorems, TLAPS

-----------------------------------------------------------------------------
(* The search: the invariant.                                              *)

\* What QualityRange returns: the CRFs and the bit rate modifiers of the two codecs.
Scales ==
    {[bitrate |-> FALSE, best |-> 16,  smallest |-> 30], [bitrate |-> FALSE, best |-> 18,  smallest |-> 35],
     [bitrate |-> TRUE,  best |-> 800, smallest |-> 50], [bitrate |-> TRUE,  best |-> 700, smallest |-> 50]}

\* Where the search begins.
Middle == (scale.best + scale.smallest) \div 2

\* Setting q is one of the scale's.
InRange(q) ==
    IF scale.bitrate THEN scale.smallest <= q /\ q <= scale.best
                     ELSE scale.best <= q /\ q <= scale.smallest

\* Every set of attempts has a lowest and a highest setting.
Extremes(as) ==
    \A S \in SUBSET as : S # {} =>
        /\ \E a \in S : \A b \in S : a.q <= b.q
        /\ \E a \in S : \A b \in S : b.q <= a.q

\* Attempts are finitely many settings of the scale with their scores.
AttemptsTyped(as) ==
    /\ IsFiniteSet(as) /\ Extremes(as)
    /\ \A a \in as : a \in [q : Nat, score : Scores] /\ InRange(a.q)

\* Setting q is where good scores turn into bad ones: what compresses more was scored
\* too low, what compresses less was not.
Divides(as, q) ==
    \A a \in as : /\ a.q # q
                  /\ Smaller(a.q, q) => a.score < 0
                  /\ Smaller(q, a.q) => a.score >= 0

\* A CRF is scored within the last bracket: every score narrows it, and the first two
\* leave room for five more at most.
Bracketed(as, q) ==
    \E low, high \in Int :
        /\ low < q /\ q < high
        /\ Cardinality(as) + (high - low) <= 7
        /\ \A a \in as : a.q <= low \/ high <= a.q
        /\ low = scale.best - 1 \/ \E a \in as : a.q = low
        /\ high = scale.smallest + 1 \/ \E a \in as : a.q = high

\* How far the search is when it is about to score q.
Progress(as, q) ==
    /\ Cardinality(as) = 0 => q = Middle
    /\ Cardinality(as) = 1 => /\ \A a \in as : a.q = Middle
                              /\ q \in {Cut(Middle, scale.smallest), Cut(Middle, scale.best)}
    /\ Cardinality(as) >= 2 => /\ q = scale.smallest \/ \E a \in as : Smaller(a.q, q)
                               /\ q = scale.best \/ \E a \in as : Smaller(q, a.q)
                               /\ ~scale.bitrate => Bracketed(as, q)

\* The types of the search's variables.
SearchIsTyped ==
    /\ search \in {"off", "on", "found", "impossible", "failed"}
    /\ search # "off" => scale \in Scales
    /\ quality \in Nat /\ AttemptsTyped(attempts)
    /\ search \in {"on", "found"} => InRange(quality)

\* While the search goes on there is room for another run and a bracket to score in.
SearchGoesOn ==
    search = "on" => /\ Cardinality(attempts) < maxRuns
                     /\ Divides(attempts, quality)
                     /\ Progress(attempts, quality)

\* SearchIsSharp, one way to end at a time.
FoundIsSharp ==
    search = "found" =>
        \E a \in attempts :
            /\ a.q = quality /\ a.score >= 0
            /\ \A b \in attempts : b.score >= 0 => ~Smaller(b.q, a.q)
            /\ \/ a.score < Cardinality(attempts)
               \/ \E b \in attempts : b.score < 0 /\ Smaller(b.q, a.q) /\ Adjacent(a.q, b.q)
               \/ AtEnd(a.q, scale.smallest)
               \/ scale.bitrate /\ Cardinality(attempts) = maxRuns

\* The other way.
ImpossibleIsSharp ==
    search = "impossible" => \E a \in attempts : a.score < 0 /\ AtEnd(a.q, scale.best)

\* The invariant.
SearchIInv == SearchIsTyped /\ SearchGoesOn /\ FoundIsSharp /\ ImpossibleIsSharp

-----------------------------------------------------------------------------
(* The search: its helpers.                                                *)

\* The numbers of each scale.
Numbers(b, best, smallest, middle, cutSmall, cutBest) ==
    /\ scale.bitrate <=> b
    /\ scale.best = best /\ scale.smallest = smallest
    /\ Middle = middle /\ Cut(Middle, smallest) = cutSmall /\ Cut(Middle, best) = cutBest

\* Each scale has the numbers of its codec.
LEMMA ScaleNumbers ==
    ASSUME scale \in Scales
    PROVE  \/ Numbers(FALSE, 16, 30, 23, 27, 19)
           \/ Numbers(FALSE, 18, 35, 26, 31, 21)
           \/ Numbers(TRUE, 800, 50, 425, 200, 650)
           \/ Numbers(TRUE, 700, 50, 375, 180, 570)
  <1>1. CASE scale = [bitrate |-> FALSE, best |-> 16, smallest |-> 30]
    <2>1. scale.bitrate = FALSE /\ scale.best = 16 /\ scale.smallest = 30
      BY <1>1
    <2>2. Middle = 23 /\ Cut(23, 30) = 27 /\ Cut(23, 16) = 19
      BY <2>1 DEF Middle, Cut
    <2> QED BY <2>1, <2>2 DEF Numbers
  <1>2. CASE scale = [bitrate |-> FALSE, best |-> 18, smallest |-> 35]
    <2>1. scale.bitrate = FALSE /\ scale.best = 18 /\ scale.smallest = 35
      BY <1>2
    <2>2. Middle = 26 /\ Cut(26, 35) = 31 /\ Cut(26, 18) = 21
      BY <2>1 DEF Middle, Cut
    <2> QED BY <2>1, <2>2 DEF Numbers
  <1>3. CASE scale = [bitrate |-> TRUE, best |-> 800, smallest |-> 50]
    <2>1. scale.bitrate = TRUE /\ scale.best = 800 /\ scale.smallest = 50
      BY <1>3
    <2>2. Middle = 425 /\ Cut(425, 50) = 200 /\ Cut(425, 800) = 650
      BY <2>1 DEF Middle, Cut
    <2> QED BY <2>1, <2>2 DEF Numbers
  <1>4. CASE scale = [bitrate |-> TRUE, best |-> 700, smallest |-> 50]
    <2>1. scale.bitrate = TRUE /\ scale.best = 700 /\ scale.smallest = 50
      BY <1>4
    <2>2. Middle = 375 /\ Cut(375, 50) = 180 /\ Cut(375, 700) = 570
      BY <2>1 DEF Middle, Cut
    <2> QED BY <2>1, <2>2 DEF Numbers
  <1> QED BY <1>1, <1>2, <1>3, <1>4 DEF Scales

\* What all scales have in common.
LEMMA ScaleFacts ==
    ASSUME scale \in Scales
    PROVE  /\ scale.best \in Nat /\ scale.smallest \in Nat /\ Middle \in Nat
           /\ scale.bitrate => scale.smallest + 300 < Middle /\ Middle + 300 < scale.best
           /\ ~scale.bitrate => scale.best + 6 < Middle /\ Middle + 6 < scale.smallest
  <1> USE DEF Numbers
  <1>1. CASE Numbers(FALSE, 16, 30, 23, 27, 19)
    BY <1>1
  <1>2. CASE Numbers(FALSE, 18, 35, 26, 31, 21)
    BY <1>2
  <1>3. CASE Numbers(TRUE, 800, 50, 425, 200, 650)
    BY <1>3
  <1>4. CASE Numbers(TRUE, 700, 50, 375, 180, 570)
    BY <1>4
  <1> HIDE DEF Numbers
  <1> QED BY <1>1, <1>2, <1>3, <1>4, ScaleNumbers

\* A set of attempts with one more still has a lowest and a highest setting.
LEMMA ExtremesGrow ==
    ASSUME NEW as, \A a \in as : a.q \in Nat, Extremes(as), NEW x, x.q \in Nat
    PROVE  Extremes(as \cup {x})
  <1> SUFFICES ASSUME NEW S \in SUBSET (as \cup {x}), S # {}
               PROVE  /\ \E a \in S : \A b \in S : a.q <= b.q
                      /\ \E a \in S : \A b \in S : b.q <= a.q
    BY DEF Extremes
  <1>1. CASE S \ {x} = {}
    <2>1. S = {x}
      BY <1>1
    <2> QED BY <2>1
  <1>2. CASE S \ {x} # {}
    <2>1. S \ {x} \in SUBSET as
      OBVIOUS
    <2>2. PICK low \in S \ {x} : \A b \in S \ {x} : low.q <= b.q
      BY <1>2, <2>1 DEF Extremes
    <2>3. PICK high \in S \ {x} : \A b \in S \ {x} : b.q <= high.q
      BY <1>2, <2>1 DEF Extremes
    <2>4. \A b \in S : b.q \in Nat /\ (b = x \/ (low.q <= b.q /\ b.q <= high.q))
      BY <2>2, <2>3
    <2>5. CASE x \notin S
      <3>1. S \ {x} = S
        BY <2>5
      <3> QED BY <2>2, <2>3, <3>1
    <2>6. CASE x \in S
      <3>1. \E a \in S : \A b \in S : a.q <= b.q
        <4>1. CASE x.q <= low.q
          BY <2>4, <2>6, <4>1
        <4>2. CASE ~(x.q <= low.q)
          BY <2>4, <4>2
        <4> QED BY <4>1, <4>2
      <3>2. \E a \in S : \A b \in S : b.q <= a.q
        <4>1. CASE high.q <= x.q
          BY <2>4, <2>6, <4>1
        <4>2. CASE ~(high.q <= x.q)
          BY <2>4, <4>2
        <4> QED BY <4>1, <4>2
      <3> QED BY <3>1, <3>2
    <2> QED BY <2>5, <2>6
  <1> QED BY <1>1, <1>2

\* findUpperBound and findModLowerBound return the nearest attempt that compresses more.
LEMMA NearestSmallerIs ==
    ASSUME scale \in Scales, AttemptsTyped(attempts), NEW q \in Nat, HasSmaller(q)
    PROVE  /\ NearestSmaller(q) \in attempts
           /\ Smaller(NearestSmaller(q).q, q)
           /\ \A b \in attempts : Smaller(b.q, q) => ~Smaller(NearestSmaller(q).q, b.q)
  <1> DEFINE S == {a \in attempts : Smaller(a.q, q)}
  <1>1. S \in SUBSET attempts /\ S # {} /\ \A a \in S : a.q \in Nat
    BY DEF HasSmaller, AttemptsTyped
  <1>2. \E a \in S : \A b \in S : ~Smaller(a.q, b.q)
    <2>1. CASE scale.bitrate
      <3>1. PICK a \in S : \A b \in S : b.q <= a.q
        BY <1>1 DEF AttemptsTyped, Extremes
      <3> QED BY <1>1, <2>1, <3>1 DEF Smaller
    <2>2. CASE ~scale.bitrate
      <3>1. PICK a \in S : \A b \in S : a.q <= b.q
        BY <1>1 DEF AttemptsTyped, Extremes
      <3> QED BY <1>1, <2>2, <3>1 DEF Smaller
    <2> QED BY <2>1, <2>2
  <1>3. \E a \in attempts :
            Smaller(a.q, q) /\ \A b \in attempts : Smaller(b.q, q) => ~Smaller(a.q, b.q)
    BY <1>2
  <1> QED BY <1>3 DEF NearestSmaller

\* findLowerBound and findModUpperBound return the nearest attempt that compresses less.
LEMMA NearestLargerIs ==
    ASSUME scale \in Scales, AttemptsTyped(attempts), NEW q \in Nat, HasLarger(q)
    PROVE  /\ NearestLarger(q) \in attempts
           /\ Smaller(q, NearestLarger(q).q)
           /\ \A b \in attempts : Smaller(q, b.q) => ~Smaller(b.q, NearestLarger(q).q)
  <1> DEFINE S == {a \in attempts : Smaller(q, a.q)}
  <1>1. S \in SUBSET attempts /\ S # {} /\ \A a \in S : a.q \in Nat
    BY DEF HasLarger, AttemptsTyped
  <1>2. \E a \in S : \A b \in S : ~Smaller(b.q, a.q)
    <2>1. CASE scale.bitrate
      <3>1. PICK a \in S : \A b \in S : a.q <= b.q
        BY <1>1 DEF AttemptsTyped, Extremes
      <3> QED BY <1>1, <2>1, <3>1 DEF Smaller
    <2>2. CASE ~scale.bitrate
      <3>1. PICK a \in S : \A b \in S : b.q <= a.q
        BY <1>1 DEF AttemptsTyped, Extremes
      <3> QED BY <1>1, <2>2, <3>1 DEF Smaller
    <2> QED BY <2>1, <2>2
  <1>3. \E a \in attempts :
            Smaller(q, a.q) /\ \A b \in attempts : Smaller(q, b.q) => ~Smaller(b.q, a.q)
    BY <1>2
  <1> QED BY <1>3 DEF NearestLarger

\* findBestAttempt returns the smallest setting that passed.
LEMMA FindBestIs ==
    ASSUME scale \in Scales, NEW as, AttemptsTyped(as), Passing(as) # {}
    PROVE  /\ FindBest(as) \in as /\ FindBest(as).score >= 0
           /\ \A b \in as : b.score >= 0 => ~Smaller(b.q, FindBest(as).q)
  <1>1. PICK S : S = Passing(as)
    OBVIOUS
  <1>2. S \in SUBSET as /\ S # {} /\ \A a \in S : a.q \in Nat
    BY <1>1 DEF Passing, AttemptsTyped
  <1>3. \E a \in S : \A b \in S : ~Smaller(b.q, a.q)
    <2>1. CASE scale.bitrate
      <3>1. PICK a \in S : \A b \in S : a.q <= b.q
        BY <1>2 DEF AttemptsTyped, Extremes
      <3> QED BY <1>2, <2>1, <3>1 DEF Smaller
    <2>2. CASE ~scale.bitrate
      <3>1. PICK a \in S : \A b \in S : b.q <= a.q
        BY <1>2 DEF AttemptsTyped, Extremes
      <3> QED BY <1>2, <2>2, <3>1 DEF Smaller
    <2> QED BY <2>1, <2>2
  <1>4. FindBest(as) \in Passing(as) /\ \A b \in Passing(as) : ~Smaller(b.q, FindBest(as).q)
    BY <1>1, <1>3 DEF FindBest
  <1> QED BY <1>4 DEF Passing

\* Interpolation stays off both ends.
LEMMA LerpIsBetween ==
    ASSUME scale \in Scales, NEW worse, NEW better, worse.q \in Nat, better.q \in Nat,
           worse.score \in Int, better.score \in Int,
           ~Adjacent(worse.q, better.q), NEW r \in Lerp(worse, better)
    PROVE  LET margin == IF scale.bitrate THEN 25 ELSE 1 IN
           /\ r \in Nat
           /\ \/ worse.q + margin <= r /\ r + margin <= better.q
              \/ better.q + margin <= r /\ r + margin <= worse.q
  <1> DEFINE margin == IF scale.bitrate THEN 25 ELSE 1
             gap    == IF scale.bitrate THEN 50 ELSE 1
             span   == better.score - worse.score
             num    == worse.q * span + (worse.q - better.q) * worse.score
             low    == IF worse.q < better.q THEN worse.q + margin ELSE better.q + margin
             high   == IF worse.q < better.q THEN better.q - margin ELSE worse.q - margin
  <1>1. margin \in Nat /\ gap \in Nat /\ gap + 1 >= 2 * margin /\ gap = Gap
    BY ScaleFacts DEF Gap, minModRange
  <1>2. worse.q + gap < better.q \/ better.q + gap < worse.q
    BY <1>1 DEF Adjacent, Abs
  <1>3. low \in Nat /\ high \in Nat /\ low <= high
    BY <1>1, <1>2
  <1>4. minModRange \div 2 = 25
    BY DEF minModRange
  <1>5. low <= r /\ r <= high /\ r \in Nat
    <2>1. CASE span <= 0
      <3>1. r = (worse.q + better.q) \div 2
        BY <2>1 DEF Lerp
      <3> QED BY <1>1, <1>2, <3>1
    <2>2. CASE ~(span <= 0)
      <3>1. PICK x \in {num \div span, num \div span + 1} :
                    r = IF x <= low THEN low ELSE IF x >= high THEN high ELSE x
        BY <1>4, <2>2 DEF Lerp
      <3>2. num \in Int /\ span \in Int /\ span > 0
        BY <2>2
      <3>3. num \div span \in Int
        BY <3>2
      <3>4. x \in Int
        BY <3>3
      <3> QED BY <1>3, <3>1, <3>4
    <2> QED BY <2>1, <2>2
  <1> QED BY <1>1, <1>2, <1>3, <1>5

-----------------------------------------------------------------------------
(* The search: its steps.                                                  *)

\* The attempts after the one that is scored now.
After(score) == attempts \cup {[q |-> quality, score |-> score]}

\* Scoring adds one setting that was not scored before.
LEMMA OneMore ==
    ASSUME SearchIInv, search = "on", NEW score \in Scores
    PROVE  /\ AttemptsTyped(After(score))
           /\ Cardinality(attempts) \in Nat
           /\ Cardinality(After(score)) = Cardinality(attempts) + 1
           /\ scale \in Scales /\ quality \in Nat /\ InRange(quality)
           /\ score \in Int /\ \A a \in attempts : a.score \in Int
  <1> DEFINE x == [q |-> quality, score |-> score]
  <1>1. /\ scale \in Scales /\ quality \in Nat /\ InRange(quality) /\ AttemptsTyped(attempts)
        /\ \A a \in attempts : a.q # quality
    BY DEF SearchIInv, SearchIsTyped, SearchGoesOn, Divides
  <1>2. IsFiniteSet(attempts) /\ Extremes(attempts) /\ \A a \in attempts : a.q \in Nat
    BY <1>1 DEF AttemptsTyped
  <1>3. x \notin attempts /\ x.q = quality /\ x \in [q : Nat, score : Scores]
    BY <1>1
  <1> HIDE DEF x
  <1>4. /\ IsFiniteSet(attempts \cup {x}) /\ Cardinality(attempts) \in Nat
        /\ Cardinality(attempts \cup {x}) = Cardinality(attempts) + 1
    BY <1>2, <1>3, FS_AddElement, FS_CardinalityType
  <1>5. Extremes(attempts \cup {x})
    BY <1>1, <1>2, <1>3, ExtremesGrow
  <1>6. AttemptsTyped(attempts \cup {x})
    BY <1>1, <1>3, <1>4, <1>5 DEF AttemptsTyped
  <1>7. score \in Int /\ \A a \in attempts : a.score \in Int
    BY <1>1, ScoresAssumption DEF AttemptsTyped
  <1> QED BY <1>1, <1>4, <1>6, <1>7 DEF After, x

\* The search ends with a setting.
LEMMA EndsFound ==
    ASSUME scale \in Scales, scale' = scale, NEW as, AttemptsTyped(as), attempts' = as,
           NEW q, Ends("found", q),
           NEW a \in as, a.q = q, a.score >= 0,
           \A b \in as : b.score >= 0 => ~Smaller(b.q, q),
           \/ a.score < Cardinality(as)
           \/ \E b \in as : b.score < 0 /\ Smaller(b.q, q) /\ Adjacent(q, b.q)
           \/ AtEnd(q, scale.smallest)
           \/ scale.bitrate /\ Cardinality(as) = maxRuns
    PROVE  SearchIInv'
  <1>1. search' = "found" /\ quality' = q /\ q \in Nat /\ InRange(q)
    BY DEF Ends, AttemptsTyped
  <1>2. AttemptsTyped(attempts)' /\ InRange(quality)'
    BY <1>1 DEF AttemptsTyped, InRange
  <1>3. FoundIsSharp'
    BY <1>1 DEF FoundIsSharp, Smaller, Adjacent, AtEnd, Gap
  <1> QED BY <1>1, <1>2, <1>3
          DEF SearchIInv, SearchIsTyped, SearchGoesOn, ImpossibleIsSharp

\* The search ends without one.
LEMMA EndsImpossible ==
    ASSUME scale \in Scales, scale' = scale, NEW as, AttemptsTyped(as), attempts' = as,
           NEW q \in Nat, Ends("impossible", q),
           NEW a \in as, a.score < 0, AtEnd(a.q, scale.best)
    PROVE  SearchIInv'
  <1>1. search' = "impossible" /\ quality' = q
    BY DEF Ends
  <1>2. AttemptsTyped(attempts)'
    BY <1>1 DEF AttemptsTyped, InRange
  <1>3. ImpossibleIsSharp'
    BY <1>1 DEF ImpossibleIsSharp, AtEnd
  <1> QED BY <1>1, <1>2, <1>3
          DEF SearchIInv, SearchIsTyped, SearchGoesOn, FoundIsSharp

\* The search goes on with a setting it has not scored, or with the runs used up
\* it ends with the best there is.
LEMMA GoesOnWith ==
    ASSUME scale \in Scales, scale' = scale, NEW as, AttemptsTyped(as), attempts' = as,
           Cardinality(attempts) \in Nat, Cardinality(as) = Cardinality(attempts) + 1,
           NEW r \in Nat, InRange(r), Divides(as, r), Progress(as, r), ~HasAttempt(as, r),
           Cardinality(as) < maxRuns
               \/ (Cardinality(as) = maxRuns /\ scale.bitrate /\ Passing(as) # {}),
           Tries(r, as)
    PROVE  SearchIInv'
  <1>1. Clamped(r) = r
    BY ScaleFacts DEF Clamped, InRange
  <1>2. Run = Cardinality(as) /\ maxRuns = 8
    BY DEF Run, maxRuns
  <1>3. CASE Cardinality(as) < maxRuns
    <2>1. search' = "on" /\ quality' = r
      BY <1>1, <1>2, <1>3 DEF Tries
    <2>2. AttemptsTyped(attempts)' /\ InRange(quality)'
      BY <2>1 DEF AttemptsTyped, InRange
    <2>3. Divides(attempts, quality)'
      BY <2>1 DEF Divides, Smaller
    <2>4. Progress(attempts, quality)'
      BY <2>1 DEF Progress, Bracketed, Smaller, Middle
    <2>5. (Cardinality(attempts) < maxRuns)'
      BY <1>3 DEF maxRuns
    <2> QED BY <2>1, <2>2, <2>3, <2>4, <2>5
            DEF SearchIInv, SearchIsTyped, SearchGoesOn, FoundIsSharp, ImpossibleIsSharp
  <1>4. CASE ~(Cardinality(as) < maxRuns)
    <2>1. Ends("found", FindBest(as).q) /\ Passing(as) # {} /\ scale.bitrate
          /\ Cardinality(as) = maxRuns
      BY <1>1, <1>2, <1>4 DEF Tries
    <2> QED BY <2>1, FindBestIs, EndsFound
  <1> QED BY <1>3, <1>4

\* A setting between the one just scored and its neighbour, of which one is good and
\* the other is not.
LEMMA Interpolates ==
    ASSUME SearchIInv, search = "on", NEW score \in Scores,
           scale' = scale, attempts' = After(score),
           NEW o \in attempts,
           score >= 0 => o.score < 0 /\ Smaller(o.q, quality),
           score < 0 => o.score >= 0 /\ Smaller(quality, o.q),
           NEW low \in Nat, NEW high \in Nat, low < high,
           (low = o.q /\ high = quality) \/ (low = quality /\ high = o.q),
           \A b \in attempts : b.q <= low \/ high <= b.q,
           NEW r \in Nat,
           low + (IF scale.bitrate THEN 25 ELSE 1) <= r,
           r + (IF scale.bitrate THEN 25 ELSE 1) <= high,
           Tries(r, After(score))
    PROVE  SearchIInv'
  <1>1. PICK as : as = After(score)
    OBVIOUS
  <1>2. PICK x : x = [q |-> quality, score |-> score]
    OBVIOUS
  <1>3. as = attempts \cup {x} /\ x.q = quality /\ x.score = score
    BY <1>1, <1>2 DEF After
  <1>4. /\ AttemptsTyped(as) /\ Cardinality(attempts) \in Nat
        /\ Cardinality(as) = Cardinality(attempts) + 1
        /\ scale \in Scales /\ quality \in Nat /\ InRange(quality) /\ score \in Int
        /\ \A a \in as : a.q \in Nat /\ a.score \in Int /\ InRange(a.q)
    BY <1>1, OneMore, ScoresAssumption DEF AttemptsTyped
  <1>5. Divides(attempts, quality) /\ Progress(attempts, quality) /\ Cardinality(attempts) < maxRuns
    BY DEF SearchIInv, SearchGoesOn
  <1>6. low < r /\ r < high /\ \A a \in as : a.q <= low \/ high <= a.q
    BY <1>3, <1>4
  <1>7. Cardinality(attempts) # 0
    BY <1>4, FS_EmptySet DEF AttemptsTyped, SearchIInv, SearchIsTyped
  <1>8. Divides(as, r)
    <2> SUFFICES ASSUME NEW a \in as
                 PROVE  a.q # r /\ (Smaller(a.q, r) => a.score < 0) /\ (Smaller(r, a.q) => a.score >= 0)
      BY DEF Divides
    <2>1. a.q # r /\ a.q \in Nat
      <3>1. a.q \in Nat /\ (a.q <= low \/ high <= a.q)
        BY <1>4, <1>6
      <3> QED BY <1>6, <3>1
    <2>2. a = x \/ (a \in attempts /\ a.q # quality)
      BY <1>3, <1>5 DEF Divides
    <2>3. CASE a = x
      BY <1>3, <1>4, <1>6, <2>3 DEF Smaller
    <2>4. CASE a \in attempts /\ a.q # quality
      <3>1. (Smaller(a.q, quality) => a.score < 0) /\ (Smaller(quality, a.q) => a.score >= 0)
        BY <1>5, <2>4 DEF Divides
      <3> QED BY <1>4, <1>6, <2>1, <2>4, <3>1 DEF Smaller
    <2> QED BY <2>1, <2>2, <2>3, <2>4
  <1>9. /\ \E a \in as : Smaller(a.q, r)
        /\ \E a \in as : Smaller(r, a.q)
    <2>1. o \in as /\ x \in as
      BY <1>3
    <2>2. (Smaller(o.q, r) /\ Smaller(r, x.q)) \/ (Smaller(x.q, r) /\ Smaller(r, o.q))
      BY <1>3, <1>4, <1>6 DEF Smaller
    <2> QED BY <2>1, <2>2
  <1>10. ASSUME ~scale.bitrate
         PROVE  Cardinality(as) + (high - low) <= 7
    <2>1. CASE Cardinality(attempts) = 1
      <3>1. o.q = Middle /\ quality \in {Cut(Middle, scale.smallest), Cut(Middle, scale.best)}
        BY <1>5, <2>1 DEF Progress
      <3>2. high - low <= 5
        <4>1. CASE Numbers(FALSE, 16, 30, 23, 27, 19)
          BY <3>1, <4>1 DEF Numbers
        <4>2. CASE Numbers(FALSE, 18, 35, 26, 31, 21)
          BY <3>1, <4>2 DEF Numbers
        <4> QED BY <1>4, <1>10, <4>1, <4>2, ScaleNumbers DEF Numbers
      <3> QED BY <1>4, <2>1, <3>2
    <2>2. CASE Cardinality(attempts) >= 2
      <3>1. Bracketed(attempts, quality)
        BY <1>5, <1>10, <2>2 DEF Progress
      <3>2. PICK l, h \in Int :
                /\ l < quality /\ quality < h
                /\ Cardinality(attempts) + (h - l) <= 7
                /\ \A a \in attempts : a.q <= l \/ h <= a.q
                /\ l = scale.best - 1 \/ \E a \in attempts : a.q = l
                /\ h = scale.smallest + 1 \/ \E a \in attempts : a.q = h
        BY <3>1 DEF Bracketed
      <3>3. o.q \in Nat /\ scale.best <= o.q /\ o.q <= scale.smallest
        BY <1>3, <1>4, <1>10 DEF InRange
      <3>4. scale.best \in Nat /\ scale.smallest \in Nat
        BY <1>4, ScaleFacts
      <3>5. CASE low = o.q /\ high = quality
        <4>1. l = o.q
          <5>1. o.q <= l
            BY <1>4, <3>2, <3>3, <3>5
          <5>2. \E a \in attempts : a.q = l
            BY <3>2, <3>3, <3>4, <5>1
          <5> QED BY <1>4, <3>2, <3>3, <3>5, <5>1, <5>2
        <4> QED BY <1>4, <3>2, <3>5, <4>1
      <3>6. CASE low = quality /\ high = o.q
        <4>1. h = o.q
          <5>1. h <= o.q
            BY <1>4, <3>2, <3>3, <3>6
          <5>2. \E a \in attempts : a.q = h
            BY <3>2, <3>3, <3>4, <5>1
          <5> QED BY <1>4, <3>2, <3>3, <3>6, <5>1, <5>2
        <4> QED BY <1>4, <3>2, <3>6, <4>1
      <3> QED BY <3>5, <3>6
    <2> QED BY <1>4, <1>7, <2>1, <2>2
  <1>11. Progress(as, r)
    <2>1. Cardinality(as) >= 2
      BY <1>4, <1>7
    <2>2. ~scale.bitrate => Bracketed(as, r)
      <3> SUFFICES ASSUME ~scale.bitrate PROVE Bracketed(as, r)
        OBVIOUS
      <3>1. \E a \in as : a.q = low
        BY <1>3
      <3>2. \E a \in as : a.q = high
        BY <1>3
      <3>3. low \in Int /\ high \in Int
        OBVIOUS
      <3> QED BY <1>6, <1>10, <3>1, <3>2, <3>3 DEF Bracketed
    <2>3. Cardinality(as) # 0 /\ Cardinality(as) # 1
      BY <1>4, <2>1
    <2> QED BY <1>9, <2>2, <2>3 DEF Progress
  <1>12. ~HasAttempt(as, r)
    <2>1. minModRange \div 10 = 5
      BY DEF minModRange
    <2> SUFFICES ASSUME NEW a \in as
                 PROVE  ~(Abs(a.q - r) < (IF scale.bitrate THEN minModRange \div 10 ELSE 1))
      BY DEF HasAttempt
    <2>2. a.q \in Nat /\ (a.q <= low \/ high <= a.q)
      BY <1>4, <1>6
    <2> QED BY <2>1, <2>2 DEF Abs
  <1>13. Cardinality(as) < maxRuns
             \/ (Cardinality(as) = maxRuns /\ scale.bitrate /\ Passing(as) # {})
    <2>1. maxRuns = 8
      BY DEF maxRuns
    <2>2. ~scale.bitrate => Cardinality(as) < 8
      BY <1>4, <1>10
    <2>3. \E a \in as : a.score >= 0
      BY <1>3, <1>4
    <2>4. Passing(as) # {}
      BY <2>3 DEF Passing
    <2>5. Cardinality(as) < maxRuns \/ Cardinality(as) = maxRuns
      BY <1>4, <1>5, <2>1
    <2>6. ~scale.bitrate => Cardinality(as) # maxRuns
      BY <1>4, <2>1, <2>2
    <2> QED BY <2>4, <2>5, <2>6
  <1>14. Tries(r, as) /\ attempts' = as /\ InRange(r)
    <2>1. InRange(low) /\ InRange(high)
      BY <1>3, <1>4
    <2>2. scale.best \in Nat /\ scale.smallest \in Nat
      BY <1>4, ScaleFacts
    <2>3. InRange(r)
      BY <1>6, <2>1, <2>2 DEF InRange
    <2> QED BY <1>1, <2>3
  <1> QED BY <1>4, <1>8, <1>11, <1>12, <1>13, <1>14, GoesOnWith

\* The first step beyond the middle, and the one to the end.
LEMMA Steps ==
    ASSUME SearchIInv, search = "on", NEW score \in Scores,
           scale' = scale, attempts' = After(score), NEW r,
           \/ Cardinality(attempts) = 0 /\ score >= 0 /\ r = Cut(quality, scale.smallest)
           \/ Cardinality(attempts) = 0 /\ score < 0 /\ r = Cut(quality, scale.best)
           \/ Cardinality(attempts) = 1 /\ score >= 0 /\ ~HasSmaller(quality) /\ r = scale.smallest
           \/ Cardinality(attempts) = 1 /\ score < 0 /\ ~HasLarger(quality) /\ r = scale.best,
           Tries(r, After(score))
    PROVE  SearchIInv'
  <1>1. PICK as : as = After(score)
    OBVIOUS
  <1>2. PICK x : x = [q |-> quality, score |-> score]
    OBVIOUS
  <1>3. as = attempts \cup {x} /\ x.q = quality /\ x.score = score
    BY <1>1, <1>2 DEF After
  <1>4. /\ AttemptsTyped(as) /\ Cardinality(attempts) \in Nat
        /\ Cardinality(as) = Cardinality(attempts) + 1
        /\ scale \in Scales /\ quality \in Nat /\ InRange(quality) /\ score \in Int
        /\ \A a \in as : a.q \in Nat /\ a.score \in Int /\ InRange(a.q)
    BY <1>1, OneMore, ScoresAssumption DEF AttemptsTyped
  <1>5. Divides(attempts, quality) /\ Progress(attempts, quality)
    BY DEF SearchIInv, SearchGoesOn
  <1>6. minModRange \div 10 = 5 /\ maxRuns = 8
    BY DEF minModRange, maxRuns
  <1>7. CASE Cardinality(attempts) = 0
    <2>1. attempts = {} /\ quality = Middle
      BY <1>5, <1>7, FS_EmptySet DEF Progress, AttemptsTyped, SearchIInv, SearchIsTyped
    <2>2. \A a \in as : a = x
      BY <1>3, <2>1
    <2>3. /\ r \in {Cut(Middle, scale.smallest), Cut(Middle, scale.best)} /\ r \in Nat /\ InRange(r)
          /\ score >= 0 => Smaller(r, quality)
          /\ score < 0 => Smaller(quality, r)
          /\ r + (IF scale.bitrate THEN 5 ELSE 1) <= quality \/ quality + (IF scale.bitrate THEN 5 ELSE 1) <= r
      <3> USE <1>4, <1>7, <2>1 DEF Numbers, Smaller, InRange
      <3>1. CASE Numbers(FALSE, 16, 30, 23, 27, 19)
        BY <3>1
      <3>2. CASE Numbers(FALSE, 18, 35, 26, 31, 21)
        BY <3>2
      <3>3. CASE Numbers(TRUE, 800, 50, 425, 200, 650)
        BY <3>3
      <3>4. CASE Numbers(TRUE, 700, 50, 375, 180, 570)
        BY <3>4
      <3> HIDE DEF Numbers, Smaller, InRange
      <3> QED BY <3>1, <3>2, <3>3, <3>4, ScaleNumbers
    <2>4. Divides(as, r)
      BY <1>3, <1>4, <2>2, <2>3 DEF Divides, Smaller
    <2>5. Progress(as, r)
      BY <1>3, <1>4, <1>7, <2>1, <2>2, <2>3 DEF Progress
    <2>6. ~HasAttempt(as, r)
      BY <1>3, <1>4, <1>6, <2>2, <2>3 DEF HasAttempt, Abs
    <2>7. Cardinality(as) < maxRuns
      BY <1>4, <1>6, <1>7
    <2> QED BY <1>1, <1>4, <2>3, <2>4, <2>5, <2>6, <2>7, GoesOnWith
  <1>8. CASE Cardinality(attempts) = 1
    <2>1. PICK y : attempts = {y}
      BY <1>8, FS_Singleton DEF AttemptsTyped, SearchIInv, SearchIsTyped
    <2>2. y.q = Middle /\ quality \in {Cut(Middle, scale.smallest), Cut(Middle, scale.best)}
          /\ (Smaller(y.q, quality) => y.score < 0) /\ (Smaller(quality, y.q) => y.score >= 0)
      BY <1>5, <1>8, <2>1 DEF Progress, Divides
    <2>3. \A a \in as : a = x \/ a = y
      BY <1>3, <2>1
    <2>4. x \in as /\ y \in as
      BY <1>3, <2>1
    <2>5. \/ score >= 0 /\ ~Smaller(y.q, quality) /\ r = scale.smallest
          \/ score < 0 /\ ~Smaller(quality, y.q) /\ r = scale.best
      BY <1>8, <2>1 DEF HasSmaller, HasLarger
    <2>6. /\ r \in Nat /\ InRange(r)
          /\ score >= 0 => Smaller(r, quality) /\ Smaller(r, y.q) /\ Smaller(quality, y.q)
          /\ score < 0 => Smaller(quality, r) /\ Smaller(y.q, r) /\ Smaller(y.q, quality)
      <3> USE <1>4, <2>2, <2>5 DEF Numbers, Smaller, InRange
      <3>1. CASE Numbers(FALSE, 16, 30, 23, 27, 19)
        BY <3>1
      <3>2. CASE Numbers(FALSE, 18, 35, 26, 31, 21)
        BY <3>2
      <3>3. CASE Numbers(TRUE, 800, 50, 425, 200, 650)
        BY <3>3
      <3>4. CASE Numbers(TRUE, 700, 50, 375, 180, 570)
        BY <3>4
      <3> HIDE DEF Numbers, Smaller, InRange
      <3> QED BY <3>1, <3>2, <3>3, <3>4, ScaleNumbers
    <2>7. \A a \in as : \/ r + (IF scale.bitrate THEN 5 ELSE 1) <= a.q
                        \/ a.q + (IF scale.bitrate THEN 5 ELSE 1) <= r
      <3> USE <1>3, <1>4, <2>2, <2>3, <2>5 DEF Numbers, Smaller
      <3>1. CASE Numbers(FALSE, 16, 30, 23, 27, 19)
        BY <3>1
      <3>2. CASE Numbers(FALSE, 18, 35, 26, 31, 21)
        BY <3>2
      <3>3. CASE Numbers(TRUE, 800, 50, 425, 200, 650)
        BY <3>3
      <3>4. CASE Numbers(TRUE, 700, 50, 375, 180, 570)
        BY <3>4
      <3> HIDE DEF Numbers, Smaller
      <3> QED BY <3>1, <3>2, <3>3, <3>4, ScaleNumbers
    <2>8. Divides(as, r)
      BY <1>3, <1>4, <2>2, <2>3, <2>4, <2>6 DEF Divides, Smaller
    <2>9. ~HasAttempt(as, r)
      <3> SUFFICES ASSUME NEW a \in as
                   PROVE  ~(Abs(a.q - r) < (IF scale.bitrate THEN minModRange \div 10 ELSE 1))
        BY DEF HasAttempt
      <3>1. a.q \in Nat /\ r \in Nat
        BY <1>4, <2>6
      <3>2. \/ r + (IF scale.bitrate THEN 5 ELSE 1) <= a.q
            \/ a.q + (IF scale.bitrate THEN 5 ELSE 1) <= r
        BY <2>7
      <3> QED BY <1>6, <3>1, <3>2 DEF Abs
    <2>10. ~scale.bitrate => Bracketed(as, r)
      <3> SUFFICES ASSUME ~scale.bitrate PROVE Bracketed(as, r)
        OBVIOUS
      <3>1. Cardinality(as) = 2
        BY <1>4, <1>8
      <3>2. CASE score >= 0
        <4>1. r = scale.smallest /\ quality < r /\ (r + 1) - quality <= 5
              /\ \A a \in as : a.q <= quality
          <5> USE <1>3, <1>4, <2>2, <2>3, <2>5, <2>6, <3>2 DEF Numbers, Smaller
          <5>1. CASE Numbers(FALSE, 16, 30, 23, 27, 19)
            BY <5>1
          <5>2. CASE Numbers(FALSE, 18, 35, 26, 31, 21)
            BY <5>2
          <5> QED BY <5>1, <5>2, ScaleNumbers
        <4>2. r < scale.smallest + 1 /\ Cardinality(as) + ((scale.smallest + 1) - quality) <= 7
          BY <1>4, <2>6, <3>1, <4>1
        <4>3. quality \in Int /\ scale.smallest + 1 \in Int /\ \E a \in as : a.q = quality
          BY <1>3, <1>4, <2>4, ScaleFacts
        <4> QED BY <4>1, <4>2, <4>3 DEF Bracketed
      <3>3. CASE score < 0
        <4>1. r = scale.best /\ r < quality /\ quality - (r - 1) <= 5
              /\ \A a \in as : quality <= a.q
          <5> USE <1>3, <1>4, <2>2, <2>3, <2>5, <2>6, <3>3 DEF Numbers, Smaller
          <5>1. CASE Numbers(FALSE, 16, 30, 23, 27, 19)
            BY <5>1
          <5>2. CASE Numbers(FALSE, 18, 35, 26, 31, 21)
            BY <5>2
          <5> QED BY <5>1, <5>2, ScaleNumbers
        <4>2. scale.best - 1 < r /\ Cardinality(as) + (quality - (scale.best - 1)) <= 7
          BY <1>4, <2>6, <3>1, <4>1
        <4>3. quality \in Int /\ scale.best - 1 \in Int /\ \E a \in as : a.q = quality
          BY <1>3, <1>4, <2>4, ScaleFacts
        <4> QED BY <4>1, <4>2, <4>3 DEF Bracketed
      <3> QED BY <1>4, <3>2, <3>3
    <2>11. Progress(as, r)
      <3>1. Cardinality(as) # 0 /\ Cardinality(as) # 1
        BY <1>4, <1>8
      <3>2. r = scale.smallest \/ \E a \in as : Smaller(a.q, r)
        BY <1>4, <2>4, <2>5, <2>6
      <3>3. r = scale.best \/ \E a \in as : Smaller(r, a.q)
        BY <1>4, <2>4, <2>5, <2>6
      <3> QED BY <2>10, <3>1, <3>2, <3>3 DEF Progress
    <2>12. Cardinality(as) < maxRuns
      BY <1>4, <1>6, <1>8
    <2> QED BY <1>1, <1>4, <2>6, <2>8, <2>9, <2>11, <2>12, GoesOnWith
  <1> QED BY <1>7, <1>8

\* Scoring one more setting.
LEMMA ScoredStep ==
    ASSUME SearchIInv, search = "on", NEW score \in Scores, Scored(score)
    PROVE  SearchIInv'
  <1>0. /\ attempts' = After(score) /\ scale' = scale
        /\ AfterGood(score, After(score)) \/ AfterBad(score, After(score))
    BY DEF Scored, After
  <1>1. PICK as : as = After(score)
    OBVIOUS
  <1>2. PICK x : x = [q |-> quality, score |-> score]
    OBVIOUS
  <1>3. as = attempts \cup {x} /\ x.q = quality /\ x.score = score /\ x \in as
    BY <1>1, <1>2 DEF After
  <1>4. /\ AttemptsTyped(as) /\ Cardinality(attempts) \in Nat
        /\ Cardinality(as) = Cardinality(attempts) + 1
        /\ scale \in Scales /\ quality \in Nat /\ InRange(quality) /\ score \in Int
        /\ \A a \in as : a.q \in Nat /\ a.score \in Int /\ InRange(a.q)
    BY <1>1, OneMore, ScoresAssumption DEF AttemptsTyped
  <1>5. Divides(attempts, quality) /\ Progress(attempts, quality) /\ AttemptsTyped(attempts)
    BY DEF SearchIInv, SearchGoesOn, SearchIsTyped
  <1>6. Run = Cardinality(as)
    BY <1>4 DEF Run
  <1>7. Cardinality(attempts) = 0 \/ Cardinality(attempts) = 1 \/ Cardinality(attempts) >= 2
    BY <1>4
  <1>8. Cardinality(attempts) = 0 => attempts = {} /\ quality = Middle
    BY <1>5, FS_EmptySet DEF Progress, AttemptsTyped
  <1>9. ASSUME NEW q \in {scale.best, scale.smallest}
        PROVE  /\ ~Adjacent(Middle, q) /\ ~AtEnd(Middle, q)
               /\ ~AtEnd(Cut(Middle, q), q)
    <2> USE <1>4, <1>9 DEF Numbers, Adjacent, AtEnd, Abs, Gap, minModRange
    <2>1. CASE Numbers(FALSE, 16, 30, 23, 27, 19)
      BY <2>1
    <2>2. CASE Numbers(FALSE, 18, 35, 26, 31, 21)
      BY <2>2
    <2>3. CASE Numbers(TRUE, 800, 50, 425, 200, 650)
      BY <2>3
    <2>4. CASE Numbers(TRUE, 700, 50, 375, 180, 570)
      BY <2>4
    <2> HIDE DEF Numbers, Adjacent, AtEnd, Abs, Gap, minModRange
    <2> QED BY <2>1, <2>2, <2>3, <2>4, ScaleNumbers
  <1>10. AtEnd(scale.smallest, scale.smallest) /\ AtEnd(scale.best, scale.best)
    BY <1>4, ScaleFacts DEF AtEnd, Abs, minModRange
  <1>11. \A b \in attempts : b.score >= 0 => ~Smaller(b.q, quality)
    BY <1>4, <1>3, <1>5 DEF Divides
  <1>12. ~Smaller(quality, quality)
    BY <1>4 DEF Smaller
  <1>13. ASSUME NEW o \in attempts, ~Adjacent(o.q, quality),
                \/ score >= 0 /\ o.score < 0 /\ Smaller(o.q, quality)
                     /\ \A b \in attempts : Smaller(b.q, quality) => ~Smaller(o.q, b.q)
                \/ score < 0 /\ o.score >= 0 /\ Smaller(quality, o.q)
                     /\ \A b \in attempts : Smaller(quality, b.q) => ~Smaller(b.q, o.q),
                NEW r, r \in Lerp(o, x) \/ r \in Lerp(x, o), Tries(r, as)
         PROVE  SearchIInv'
    <2>1. o.q \in Nat /\ o.score \in Int /\ o.q # quality
      BY <1>3, <1>4, <1>5, <1>13 DEF Divides
    <2>2. \A b \in attempts : b.q \in Nat
      BY <1>3, <1>4
    <2>3. r \in Nat /\ \/ o.q + (IF scale.bitrate THEN 25 ELSE 1) <= r
                            /\ r + (IF scale.bitrate THEN 25 ELSE 1) <= quality
                       \/ quality + (IF scale.bitrate THEN 25 ELSE 1) <= r
                            /\ r + (IF scale.bitrate THEN 25 ELSE 1) <= o.q
      <3>1. ~Adjacent(quality, o.q)
        BY <1>4, <1>13, <2>1 DEF Adjacent, Abs, Gap, minModRange
      <3>2. CASE r \in Lerp(o, x)
        BY <1>3, <1>4, <1>13, <2>1, <3>2, LerpIsBetween
      <3>3. CASE r \in Lerp(x, o)
        BY <1>3, <1>4, <2>1, <3>1, <3>3, LerpIsBetween
      <3> QED BY <1>13, <3>2, <3>3
    <2>4. \/ score >= 0 /\ o.score < 0 /\ Smaller(o.q, quality)
          \/ score < 0 /\ o.score >= 0 /\ Smaller(quality, o.q)
      BY <1>13
    <2>5. PICK low, high \in Nat :
              /\ low < high
              /\ (low = o.q /\ high = quality) \/ (low = quality /\ high = o.q)
      <3>1. o.q < quality \/ quality < o.q
        BY <1>4, <2>1
      <3> QED BY <1>4, <2>1, <3>1
    <2>6. \A b \in attempts : b.q <= low \/ high <= b.q
      <3> SUFFICES ASSUME NEW b \in attempts PROVE b.q <= low \/ high <= b.q
        OBVIOUS
      <3>1. b.q \in Nat /\ b.q # quality
        BY <1>5, <2>2 DEF Divides
      <3>2. CASE score >= 0
        <4>1. Smaller(o.q, quality) /\ (Smaller(b.q, quality) => ~Smaller(o.q, b.q))
          BY <1>4, <1>13, <3>2
        <4> QED BY <1>4, <2>1, <2>5, <3>1, <4>1 DEF Smaller
      <3>3. CASE score < 0
        <4>1. Smaller(quality, o.q) /\ (Smaller(quality, b.q) => ~Smaller(b.q, o.q))
          BY <1>4, <1>13, <3>3
        <4> QED BY <1>4, <2>1, <2>5, <3>1, <4>1 DEF Smaller
      <3> QED BY <1>4, <3>2, <3>3
    <2>7. low + (IF scale.bitrate THEN 25 ELSE 1) <= r /\ r + (IF scale.bitrate THEN 25 ELSE 1) <= high
      BY <1>4, <2>1, <2>3, <2>5
    <2>8. score >= 0 => o.score < 0 /\ Smaller(o.q, quality)
      BY <1>4, <2>4
    <2>9. score < 0 => o.score >= 0 /\ Smaller(quality, o.q)
      BY <1>4, <2>4
    <2> QED BY <1>0, <1>1, <1>13, <2>3, <2>5, <2>6, <2>7, <2>8, <2>9, Interpolates
  <1>14. CASE AfterGood(score, as)
    <2>0. score >= 0 /\ \A b \in as : b.score >= 0 => ~Smaller(b.q, quality)
      BY <1>3, <1>11, <1>12, <1>14 DEF AfterGood
    <2>1. CASE score < Run /\ Ends("found", quality)
      BY <1>0, <1>1, <1>3, <1>4, <1>6, <2>0, <2>1, EndsFound
    <2>2. CASE HasSmaller(quality)
      <3>1. PICK o : o = NearestSmaller(quality)
        OBVIOUS
      <3>2. /\ o \in attempts /\ Smaller(o.q, quality)
            /\ \A b \in attempts : Smaller(b.q, quality) => ~Smaller(o.q, b.q)
        BY <1>4, <1>5, <2>2, <3>1, NearestSmallerIs
      <3>3. o.score < 0 /\ o \in as /\ o.q \in Nat
        BY <1>3, <1>4, <1>5, <3>2 DEF Divides
      <3>4. CASE Adjacent(o.q, quality) /\ Ends("found", quality)
        <4>1. Adjacent(quality, o.q)
          BY <1>4, <3>3, <3>4 DEF Adjacent, Abs, Gap, minModRange
        <4> QED BY <1>0, <1>1, <1>3, <1>4, <2>0, <3>2, <3>3, <3>4, <4>1, EndsFound
      <3>5. CASE ~Adjacent(o.q, quality) /\ \E r \in Lerp(o, x) : Tries(r, as)
        BY <1>13, <2>0, <3>2, <3>3, <3>5
      <3>6. CASE score < Run /\ Ends("found", quality)
        BY <2>1, <3>6
      <3> QED BY <1>2, <1>14, <2>2, <3>1, <3>4, <3>5, <3>6 DEF AfterGood
    <2>3. CASE ~HasSmaller(quality)
      <3>1. CASE Cardinality(attempts) = 0
        <4>1. Run = 1 /\ ~Adjacent(quality, scale.smallest)
          BY <1>4, <1>6, <1>8, <1>9, <3>1
        <4>2. Tries(Cut(quality, scale.smallest), as) \/ (score < Run /\ Ends("found", quality))
          BY <1>14, <2>3, <4>1 DEF AfterGood
        <4> QED BY <1>0, <1>1, <2>0, <2>1, <3>1, <4>2, Steps
      <3>2. CASE Cardinality(attempts) = 1
        <4>1. \A a \in attempts : a.q = Middle
          BY <1>5, <3>2 DEF Progress
        <4>2. quality \in {Cut(Middle, scale.smallest), Cut(Middle, scale.best)}
          BY <1>5, <3>2 DEF Progress
        <4>3. Run # 1 /\ Run = 2
          BY <1>4, <1>6, <3>2
        <4>4. PICK y \in attempts : y.q = Middle /\ ~Smaller(y.q, quality)
          <5>1. attempts # {}
            BY <3>2, FS_EmptySet
          <5> QED BY <2>3, <4>1, <5>1 DEF HasSmaller
        <4>5. ~AtEnd(quality, scale.smallest)
          <5> USE <1>4, <4>2, <4>4 DEF Numbers, AtEnd, Abs, minModRange, Smaller
          <5>1. CASE Numbers(FALSE, 16, 30, 23, 27, 19)
            BY <5>1
          <5>2. CASE Numbers(FALSE, 18, 35, 26, 31, 21)
            BY <5>2
          <5>3. CASE Numbers(TRUE, 800, 50, 425, 200, 650)
            BY <5>3
          <5>4. CASE Numbers(TRUE, 700, 50, 375, 180, 570)
            BY <5>4
          <5> HIDE DEF Numbers, AtEnd, Abs, minModRange, Smaller
          <5> QED BY <5>1, <5>2, <5>3, <5>4, ScaleNumbers
        <4>6. Tries(scale.smallest, as) \/ (score < Run /\ Ends("found", quality))
          BY <1>14, <2>3, <4>3, <4>5 DEF AfterGood
        <4> QED BY <1>0, <1>1, <2>0, <2>1, <2>3, <3>2, <4>6, Steps
      <3>3. CASE Cardinality(attempts) >= 2
        <4>1. quality = scale.smallest /\ Run # 1
          BY <1>4, <1>5, <1>6, <2>3, <3>3 DEF Progress, HasSmaller
        <4>2. Ends("found", quality)
          BY <1>10, <1>14, <2>3, <4>1 DEF AfterGood
        <4> QED BY <1>0, <1>1, <1>3, <1>4, <1>10, <2>0, <4>1, <4>2, EndsFound
      <3> QED BY <1>7, <3>1, <3>2, <3>3
    <2> QED BY <2>2, <2>3
  <1>15. CASE AfterBad(score, as)
    <2>0. score < 0
      BY <1>15 DEF AfterBad
    <2>1. CASE AtEnd(quality, scale.best) /\ Ends("impossible", quality)
      BY <1>0, <1>1, <1>3, <1>4, <2>0, <2>1, EndsImpossible
    <2>2. CASE ~AtEnd(quality, scale.best) /\ HasLarger(quality)
      <3>1. PICK o : o = NearestLarger(quality)
        OBVIOUS
      <3>2. /\ o \in attempts /\ Smaller(quality, o.q)
            /\ \A b \in attempts : Smaller(quality, b.q) => ~Smaller(b.q, o.q)
        BY <1>4, <1>5, <2>2, <3>1, NearestLargerIs
      <3>3. o.score >= 0 /\ o \in as /\ o.q \in Nat
        BY <1>3, <1>4, <1>5, <3>2 DEF Divides
      <3>4. CASE Adjacent(o.q, quality) /\ Ends("found", o.q)
        <4>1. \A b \in as : b.score >= 0 => ~Smaller(b.q, o.q)
          <5> SUFFICES ASSUME NEW b \in as, b.score >= 0 PROVE ~Smaller(b.q, o.q)
            OBVIOUS
          <5>1. b \in attempts /\ b.q \in Nat /\ b.q # quality
            BY <1>3, <1>4, <1>5, <2>0 DEF Divides
          <5>2. ~Smaller(b.q, quality)
            BY <1>11, <5>1
          <5>3. Smaller(quality, b.q)
            BY <1>4, <5>1, <5>2 DEF Smaller
          <5> QED BY <3>2, <5>1, <5>3
        <4> QED BY <1>0, <1>1, <1>3, <1>4, <2>0, <3>2, <3>3, <3>4, <4>1, EndsFound
      <3>5. CASE ~Adjacent(o.q, quality) /\ \E r \in Lerp(x, o) : Tries(r, as)
        BY <1>13, <2>0, <3>2, <3>3, <3>5
      <3> QED BY <1>2, <1>15, <2>2, <3>1, <3>3, <3>4, <3>5 DEF AfterBad
    <2>3. CASE ~AtEnd(quality, scale.best) /\ ~HasLarger(quality)
      <3>1. CASE Cardinality(attempts) = 0
        <4>1. Run = 1 /\ ~Adjacent(quality, scale.best)
          BY <1>4, <1>6, <1>8, <1>9, <3>1
        <4>2. Tries(Cut(quality, scale.best), as)
          BY <1>15, <2>3, <4>1 DEF AfterBad
        <4> QED BY <1>0, <1>1, <2>0, <3>1, <4>2, Steps
      <3>2. CASE Cardinality(attempts) = 1
        <4>1. Run # 1
          BY <1>4, <1>6, <3>2
        <4>2. Tries(scale.best, as)
          BY <1>15, <2>3, <4>1 DEF AfterBad
        <4> QED BY <1>0, <1>1, <2>0, <2>3, <3>2, <4>2, Steps
      <3>3. CASE Cardinality(attempts) >= 2
        <4>1. quality = scale.best
          BY <1>4, <1>5, <2>3, <3>3 DEF Progress, HasLarger
        <4> QED BY <1>10, <2>3, <4>1
      <3> QED BY <1>7, <3>1, <3>2, <3>3
    <2> QED BY <1>15, <2>1, <2>2, <2>3 DEF AfterBad
  <1> QED BY <1>0, <1>1, <1>14, <1>15

-----------------------------------------------------------------------------
(* The encoders.                                                           *)

\* The order of GetFallbackEncoder.
LEMMA RankIs ==
    /\ Rank("videotoolbox") = 1 /\ Rank("nvenc") = 2 /\ Rank("qsv") = 3
    /\ Rank("vaapi") = 4 /\ Rank("none") = 5
  <1>1. /\ priority[1] = "videotoolbox" /\ priority[2] = "nvenc" /\ priority[3] = "qsv"
        /\ priority[4] = "vaapi" /\ priority[5] = "none" /\ Len(priority) = 5
    BY DEF priority
  <1>2. ASSUME NEW i \in 1 .. 5, NEW a, priority[i] = a,
               \A j \in 1 .. 5 : priority[j] = a => j = i
        PROVE  Rank(a) = i
    BY <1>1, <1>2 DEF Rank
  <1>3. \A j \in 1 .. 5 : j = 1 \/ j = 2 \/ j = 3 \/ j = 4 \/ j = 5
    OBVIOUS
  <1>4. Rank("videotoolbox") = 1
    BY <1>1, <1>2, <1>3
  <1>5. Rank("nvenc") = 2
    BY <1>1, <1>2, <1>3
  <1>6. Rank("qsv") = 3
    BY <1>1, <1>2, <1>3
  <1>7. Rank("vaapi") = 4
    BY <1>1, <1>2, <1>3
  <1>8. Rank("none") = 5
    BY <1>1, <1>2, <1>3
  <1> QED BY <1>4, <1>5, <1>6, <1>7, <1>8

\* It is total, with software last.
LEMMA RankOrders ==
    /\ \A a \in HWAccel : Rank(a) \in 1 .. 5 /\ (Rank(a) = 5 => a = "none")
    /\ \A a, b \in HWAccel : Rank(a) = Rank(b) => a = b
  BY RankIs DEF HWAccel

\* Among any encoders there is a first.
LEMMA FirstExists ==
    ASSUME NEW S \in SUBSET HWAccel, S # {}
    PROVE  \E a \in S : \A b \in S : Rank(a) <= Rank(b)
  <1>1. ASSUME NEW a \in S, \A b \in S : Rank(a) <= Rank(b)
        PROVE  \E c \in S : \A b \in S : Rank(c) <= Rank(b)
    BY <1>1
  <1>2. CASE "videotoolbox" \in S
    BY <1>1, <1>2, RankIs DEF HWAccel
  <1>3. CASE "videotoolbox" \notin S /\ "nvenc" \in S
    BY <1>1, <1>3, RankIs DEF HWAccel
  <1>4. CASE "videotoolbox" \notin S /\ "nvenc" \notin S /\ "qsv" \in S
    BY <1>1, <1>4, RankIs DEF HWAccel
  <1>5. CASE "videotoolbox" \notin S /\ "nvenc" \notin S /\ "qsv" \notin S /\ "vaapi" \in S
    BY <1>1, <1>5, RankIs DEF HWAccel
  <1>6. CASE "videotoolbox" \notin S /\ "nvenc" \notin S /\ "qsv" \notin S /\ "vaapi" \notin S
    <2>1. \A b \in S : b = "none"
      BY <1>6 DEF HWAccel
    <2>2. "none" \in S
      BY <2>1
    <2> QED BY <1>1, <2>1, <2>2, RankIs
  <1> QED BY <1>2, <1>3, <1>4, <1>5, <1>6

\* GetBestEncoderForCodec returns an encoder that works, or software.
LEMMA BestEncoderIs ==
    ASSUME NEW found \in SUBSET HWAccel
    PROVE  GetBestEncoder(found) \in found \cup {"none"}
  <1>1. found \cup {"none"} \in SUBSET HWAccel /\ found \cup {"none"} # {}
    BY DEF HWAccel
  <1>2. PICK S : S = found \cup {"none"}
    OBVIOUS
  <1>3. \E a \in S : \A b \in S : Rank(a) <= Rank(b)
    BY <1>1, <1>2, FirstExists
  <1> QED BY <1>2, <1>3 DEF GetBestEncoder

\* GetFallbackEncoder returns the next encoder that works: behind the one that failed, and none
\* that works between the two.
LEMMA FallbackIs ==
    ASSUME NEW found \in SUBSET HWAccel, NEW accel \in HWAccel, Fallbacks(accel, found) # {}
    PROVE  LET next == GetFallbackEncoder(accel, found) IN
           /\ next \in found \cup {"none"} /\ Rank(accel) < Rank(next) /\ accel # "none"
           /\ \A e \in found \cup {"none"} : Rank(e) <= Rank(accel) \/ Rank(next) <= Rank(e)
  <1>1. PICK S : S = Fallbacks(accel, found)
    OBVIOUS
  <1>2. accel # "none" /\ S = {b \in found \cup {"none"} : Rank(b) > Rank(accel)}
    BY <1>1 DEF Fallbacks
  <1>3. S \in SUBSET HWAccel /\ S # {}
    BY <1>1, <1>2 DEF HWAccel
  <1>4. \E a \in S : \A b \in S : Rank(a) <= Rank(b)
    BY <1>3, FirstExists
  <1>5. PICK next : next = GetFallbackEncoder(accel, found)
    OBVIOUS
  <1>6. next \in S /\ \A b \in S : Rank(next) <= Rank(b)
    BY <1>1, <1>4, <1>5 DEF GetFallbackEncoder
  <1>7. next \in found \cup {"none"} /\ Rank(accel) < Rank(next)
    BY <1>2, <1>3, <1>6, RankOrders
  <1>8. ASSUME NEW e \in found \cup {"none"} PROVE Rank(e) <= Rank(accel) \/ Rank(next) <= Rank(e)
    <2>1. e \in HWAccel
      BY DEF HWAccel
    <2>2. Rank(e) > Rank(accel) => e \in S
      BY <1>2
    <2> QED BY <1>6, <2>1, <2>2, RankOrders
  <1> QED BY <1>2, <1>5, <1>7, <1>8

\* Only behind software there is nothing.
LEMMA NoFallback ==
    ASSUME NEW found \in SUBSET HWAccel, NEW accel \in HWAccel, Fallbacks(accel, found) = {}
    PROVE  accel = "none"
  <1> SUFFICES ASSUME accel # "none" PROVE FALSE
    OBVIOUS
  <1>1. Rank("none") > Rank(accel)
    BY RankIs, RankOrders
  <1>2. "none" \in Fallbacks(accel, found)
    BY <1>1 DEF Fallbacks
  <1> QED BY <1>2

-----------------------------------------------------------------------------
(* The job: the invariant.                                                 *)

\* The options an attempt may have.
Option == [encoder : HWAccel, codec : Codec, softwareDecode : BOOLEAN, tonemap : BOOLEAN,
           resize : BOOLEAN, quality : Nat, mod : Nat, kbps : SourceKbps \cup {0}]

\* Types, and that nothing has an outcome before it is done.
JobIsTyped ==
    /\ usable \subseteq HWAccel
    /\ job \in [video : Videos, hdr : {"no", "keep", "tonemap"}, short : BOOLEAN, kbps : SourceKbps]
    /\ preset \in [encoder : HWAccel, codec : Codec, resize : BOOLEAN, smart : BOOLEAN]
    /\ stage \in {"new", "analyzing", "encoding", "done"}
    /\ opts \in Option
    /\ tried \in [Attempts -> 0 .. 2]
    /\ cancelled \in BOOLEAN
    /\ outcome \in {"none", "encoded", "failed", "skipped", "cancelled"}
    /\ outcome # "none" => stage = "done"

\* How far the search is at each stage, and that its result is passed on.
SearchIsUsed ==
    /\ stage = "new" => search = "off"
    /\ search # "off" => scale = QualityRange(preset.encoder, preset.codec)
    /\ stage = "encoding" \/ outcome = "encoded" =>
          /\ preset.smart => search = "found"
          /\ search = "found" /\ ~scale.bitrate => opts.quality = quality

\* While attempts are made: those for the encoders up to the current one were made,
\* those behind it were not.
TriesInOrder ==
    /\ stage \in {"new", "analyzing"} => \A a \in Attempts : tried[a] = 0
    /\ \A a \in Attempts : tried[a] <= 1
    /\ stage = "encoding" =>
          /\ \A e \in usable \cup {"none"} :
                Rank(preset.encoder) <= Rank(e) /\ Rank(e) < Rank(opts.encoder) =>
                    tried[<<e, TRUE>>] = 1
          /\ \A e \in HWAccel, d \in BOOLEAN : Rank(opts.encoder) < Rank(e) => tried[<<e, d>>] = 0
          /\ tried[<<opts.encoder, opts.softwareDecode>>] = 1
          /\ ~opts.softwareDecode => tried[<<opts.encoder, TRUE>>] = 0
          /\ opts.encoder = "none" => ~opts.softwareDecode

\* The second half of FailureIsExhaustive.
Exhausted ==
    outcome = "failed" /\ search # "failed" =>
        \A e \in usable \cup {"none"} :
            Rank(e) >= Rank(preset.encoder) => tried[<<e, e # "none">>] = 1

\* The invariant.
JobIInv == SearchIInv /\ JobIsTyped /\ SearchIsUsed /\ TriesInOrder /\ Exhausted

\* GetQualityRange returns one of the four scales, of bit rates for VideoToolbox only.
LEMMA RangeIsScale ==
    ASSUME NEW accel, NEW codec \in Codec
    PROVE  /\ QualityRange(accel, codec) \in Scales
           /\ QualityRange(accel, codec).bitrate <=> accel \in UsesBitrate
  <1>1. CASE accel \in UsesBitrate
    <2>1. CASE codec = "hevc"
      BY <1>1, <2>1 DEF QualityRange, Scales, ModRange
    <2>2. CASE codec = "av1"
      BY <1>1, <2>2 DEF QualityRange, Scales, ModRange
    <2> QED BY <2>1, <2>2 DEF Codec
  <1>2. CASE accel \notin UsesBitrate
    <2>1. CASE codec = "hevc"
      BY <1>2, <2>1 DEF QualityRange, Scales, CrfRange
    <2>2. CASE codec = "av1"
      BY <1>2, <2>2 DEF QualityRange, Scales, CrfRange
    <2> QED BY <2>1, <2>2 DEF Codec
  <1> QED BY <1>1, <1>2

\* BinarySearch starts in the middle of its range.
LEMMA BeginsStep ==
    ASSUME SearchIInv, NEW s \in Scales, BeginSearch(s)
    PROVE  SearchIInv'
  <1>1. search' = "on" /\ scale' = s /\ attempts' = {} /\ quality' = Middle'
    BY DEF BeginSearch, Middle
  <1>2. /\ Cardinality({}) = 0 /\ IsFiniteSet({})
    BY FS_EmptySet
  <1>3. (scale \in Scales)'
    BY <1>1
  <1>4. /\ s.best \in Nat /\ s.smallest \in Nat
        /\ s.bitrate => s.smallest <= s.best
        /\ ~s.bitrate => s.best <= s.smallest
    BY DEF Scales
  <1>5. quality' \in Nat /\ InRange(quality)'
    BY <1>1, <1>4 DEF InRange, Middle
  <1>6. AttemptsTyped(attempts)'
    BY <1>1, <1>2 DEF AttemptsTyped, Extremes
  <1>7. Divides(attempts, quality)'
    BY <1>1 DEF Divides
  <1>8. Progress(attempts, quality)' /\ (Cardinality(attempts) < maxRuns)'
    BY <1>1, <1>2 DEF Progress, maxRuns
  <1> QED BY <1>1, <1>3, <1>5, <1>6, <1>7, <1>8
          DEF SearchIInv, SearchIsTyped, SearchGoesOn, FoundIsSharp, ImpossibleIsSharp

\* A failed sample ends the search.
LEMMA FailsStep ==
    ASSUME SearchIInv, SearchFails
    PROVE  SearchIInv'
  BY DEF SearchFails, SearchIInv, SearchIsTyped, SearchGoesOn, FoundIsSharp, ImpossibleIsSharp,
         AttemptsTyped, InRange

\* Steps that are not the search's.
LEMMA SameSearch ==
    ASSUME SearchIInv, UNCHANGED searchvars
    PROVE  SearchIInv'
  BY DEF searchvars, SearchIInv, SearchIsTyped, SearchGoesOn, FoundIsSharp, ImpossibleIsSharp,
         AttemptsTyped, InRange, Divides, Progress, Bracketed, Smaller, Middle, Adjacent, AtEnd, Gap

\* Initially.
LEMMA JobInit == Init => JobIInv
  <1> SUFFICES ASSUME Init PROVE JobIInv
    OBVIOUS
  <1>1. SearchIInv
    <2>1. search = "off" /\ quality = 0 /\ attempts = {}
      BY DEF Init, SearchInit
    <2>2. AttemptsTyped(attempts)
      BY <2>1, FS_EmptySet DEF AttemptsTyped, Extremes
    <2> QED BY <2>1, <2>2
            DEF SearchIInv, SearchIsTyped, SearchGoesOn, FoundIsSharp, ImpossibleIsSharp
  <1>2. usable \subseteq HWAccel
    BY MachinesAssumption DEF Init
  <1>3. GetBestEncoder(usable) \in HWAccel
    BY <1>2, BestEncoderIs DEF HWAccel
  <1>4. preset \in [encoder : HWAccel, codec : Codec, resize : BOOLEAN, smart : BOOLEAN]
    BY <1>3 DEF Init, Presets
  <1>5. NoOpts \in Option
    BY DEF NoOpts, Option, HWAccel, Codec
  <1>6. JobIsTyped
    <2>1. tried \in [Attempts -> 0 .. 2]
      BY DEF Init
    <2>2. job \in [video : Videos, hdr : {"no", "keep", "tonemap"}, short : BOOLEAN, kbps : SourceKbps]
      BY DEF Init
    <2>3. stage = "new" /\ cancelled = FALSE /\ outcome = "none" /\ opts \in Option
      BY <1>5 DEF Init
    <2> QED BY <1>2, <1>4, <2>1, <2>2, <2>3 DEF JobIsTyped
  <1> QED BY <1>1, <1>6 DEF Init, SearchInit, JobIInv, SearchIsUsed, TriesInOrder, Exhausted

\* The software encoder never asks for software decoding.
LEMMA SoftwareDecodes ==
    ASSUME NEW video
    PROVE  ~RequiresSoftwareDecode(video, "none")
  BY DEF RequiresSoftwareDecode

\* A step that changes nothing.
LEMMA SameJob ==
    ASSUME JobIInv, UNCHANGED vars
    PROVE  JobIInv'
  <1>1. SearchIInv'
    BY SameSearch DEF JobIInv, vars
  <1>2. /\ usable' = usable /\ job' = job /\ preset' = preset /\ stage' = stage /\ opts' = opts
        /\ tried' = tried /\ cancelled' = cancelled /\ outcome' = outcome
        /\ scale' = scale /\ quality' = quality /\ search' = search
    BY DEF vars, jobvars, searchvars
  <1>3. JobIsTyped'
    BY <1>2 DEF JobIInv, JobIsTyped
  <1>4. SearchIsUsed' /\ Exhausted'
    BY <1>2 DEF JobIInv, SearchIsUsed, Exhausted
  <1>5. TriesInOrder'
    BY <1>2 DEF JobIInv, TriesInOrder
  <1> QED BY <1>1, <1>3, <1>4, <1>5 DEF JobIInv

\* An attempt not made before is counted once.
LEMMA AttemptStep ==
    ASSUME tried \in [Attempts -> 0 .. 2], NEW o \in Option, Attempt(o),
           tried[<<o.encoder, o.softwareDecode>>] = 0
    PROVE  /\ opts' = o /\ stage' = "encoding"
           /\ tried' \in [Attempts -> 0 .. 2]
           /\ tried'[<<o.encoder, o.softwareDecode>>] = 1
           /\ \A a \in Attempts : a # <<o.encoder, o.softwareDecode>> => tried'[a] = tried[a]
  <1>1. <<o.encoder, o.softwareDecode>> \in Attempts
    BY DEF Option, Attempts
  <1>2. PICK a : a = <<o.encoder, o.softwareDecode>>
    OBVIOUS
  <1>3. tried' = [tried EXCEPT ![a] = IF tried[a] = 2 THEN 2 ELSE tried[a] + 1]
    BY <1>2 DEF Attempt
  <1>4. tried' = [tried EXCEPT ![a] = 1]
    BY <1>2, <1>3
  <1>5. tried' \in [Attempts -> 0 .. 2] /\ tried'[a] = 1
        /\ \A b \in Attempts : b # a => tried'[b] = tried[b]
    BY <1>1, <1>2, <1>4
  <1> QED BY <1>2, <1>5 DEF Attempt

\* Every step of the worker keeps the invariant.
LEMMA WorksStep ==
    ASSUME JobIInv, Works
    PROVE  JobIInv'
  <1>1. CASE AnalysisSkips
    <2>1. SearchIInv'
      BY <1>1, SameSearch DEF JobIInv, AnalysisSkips
    <2>2. /\ UNCHANGED <<usable, job, preset, opts, tried, cancelled, scale, quality, search>>
          /\ stage' = "done" /\ outcome' = "skipped"
      BY <1>1 DEF AnalysisSkips, Done, jobvars, searchvars
    <2> QED BY <2>1, <2>2 DEF JobIInv, JobIsTyped, SearchIsUsed, TriesInOrder, Exhausted
  <1>2. CASE AnalysisBegins
    <2>0. preset.codec \in Codec
      BY DEF JobIInv, JobIsTyped
    <2>1. SearchIInv'
      BY <1>2, <2>0, RangeIsScale, BeginsStep DEF JobIInv, AnalysisBegins
    <2>2. /\ UNCHANGED <<usable, job, preset, opts, tried, cancelled, outcome>>
          /\ stage = "new" /\ stage' = "analyzing"
          /\ scale' = QualityRange(preset.encoder, preset.codec)
      BY <1>2 DEF AnalysisBegins, BeginSearch, jobvars
    <2>3. outcome = "none"
      BY <2>2 DEF JobIInv, JobIsTyped
    <2> QED BY <2>1, <2>2, <2>3 DEF JobIInv, JobIsTyped, SearchIsUsed, TriesInOrder, Exhausted
  <1>3. CASE Analyzes
    <2>1. PICK score \in Scores : search = "on" /\ Scored(score)
      BY <1>3 DEF Analyzes, ScoreCRF, ScoreModifier
    <2>2. SearchIInv'
      BY <2>1, ScoredStep DEF JobIInv
    <2>3. /\ UNCHANGED <<usable, job, preset, stage, opts, tried, cancelled, outcome>>
          /\ stage = "analyzing" /\ scale' = scale
      BY <1>3, <2>1 DEF Analyzes, Scored, jobvars
    <2>4. outcome = "none"
      BY <2>3 DEF JobIInv, JobIsTyped
    <2> QED BY <2>1, <2>2, <2>3, <2>4 DEF JobIInv, JobIsTyped, SearchIsUsed, TriesInOrder, Exhausted
  <1>4. CASE AnalysisBreaks
    <2>1. SearchIInv'
      BY <1>4, FailsStep DEF JobIInv, AnalysisBreaks
    <2>2. /\ UNCHANGED <<usable, job, preset, stage, opts, tried, cancelled, outcome>>
          /\ stage = "analyzing" /\ scale' = scale /\ search = "on"
      BY <1>4 DEF AnalysisBreaks, SearchFails, jobvars
    <2>3. outcome = "none"
      BY <2>2 DEF JobIInv, JobIsTyped
    <2> QED BY <2>1, <2>2, <2>3 DEF JobIInv, JobIsTyped, SearchIsUsed, TriesInOrder, Exhausted
  <1>5. CASE AnalysisEnds
    <2>1. SearchIInv'
      BY <1>5, SameSearch DEF JobIInv, AnalysisEnds
    <2>2. /\ UNCHANGED <<usable, job, preset, opts, tried, cancelled, scale, quality, search>>
          /\ stage' = "done" /\ outcome' \in {"skipped", "cancelled", "failed"}
          /\ outcome' = "failed" => search = "failed"
      BY <1>5 DEF AnalysisEnds, Done, jobvars, searchvars
    <2> QED BY <2>1, <2>2 DEF JobIInv, JobIsTyped, SearchIsUsed, TriesInOrder, Exhausted
  <1>6. CASE BeginsEncoding
    <2>1. SearchIInv'
      BY <1>6, SameSearch DEF JobIInv, BeginsEncoding
    <2>2. UNCHANGED <<usable, job, preset, cancelled, scale, quality, search>>
      BY <1>6 DEF BeginsEncoding, jobvars, searchvars
    <2>3. CASE Done("cancelled") /\ UNCHANGED <<opts, tried>>
      <3>1. stage' = "done" /\ outcome' = "cancelled" /\ opts' = opts /\ tried' = tried
        BY <2>3 DEF Done
      <3> QED BY <2>1, <2>2, <3>1 DEF JobIInv, JobIsTyped, SearchIsUsed, TriesInOrder, Exhausted
    <2>4. CASE Attempt(Opts) /\ UNCHANGED outcome
      <3>1. stage \in {"new", "analyzing"} /\ (preset.smart => search = "found") /\ outcome = "none"
        BY <1>6 DEF BeginsEncoding, JobIInv, JobIsTyped
      <3>2. PICK o : o = Opts
        OBVIOUS
      <3>3. /\ o \in Option /\ o.encoder = preset.encoder
            /\ search = "found" /\ ~scale.bitrate => o.quality = quality
            /\ o.encoder = "none" => ~o.softwareDecode
        <4>1. /\ RequiresSoftwareDecode(job.video, preset.encoder) \in BOOLEAN
              /\ (job.hdr = "tonemap") \in BOOLEAN
          BY DEF RequiresSoftwareDecode
        <4>2. UserQuality \in Nat /\ quality \in Nat
          BY MachinesAssumption DEF JobIInv, SearchIInv, SearchIsTyped
        <4>3. preset.encoder \in HWAccel /\ preset.codec \in Codec /\ preset.resize \in BOOLEAN
              /\ job.kbps \in SourceKbps
          BY DEF JobIInv, JobIsTyped
        <4>4. (IF search = "found" /\ ~scale.bitrate THEN quality ELSE UserQuality) \in Nat
          BY <4>2
        <4>5. (IF search = "found" /\ scale.bitrate THEN quality ELSE 0) \in Nat
          BY <4>2
        <4>6. o \in Option
          BY <3>2, <4>1, <4>3, <4>4, <4>5 DEF Opts, Option
        <4>7. o.encoder = preset.encoder
              /\ o.softwareDecode = RequiresSoftwareDecode(job.video, preset.encoder)
              /\ (search = "found" /\ ~scale.bitrate => o.quality = quality)
          BY <3>2 DEF Opts
        <4> QED BY <4>6, <4>7, SoftwareDecodes
      <3>4. \A a \in Attempts : tried[a] = 0
        BY <3>1 DEF JobIInv, TriesInOrder
      <3>5. <<o.encoder, o.softwareDecode>> \in Attempts /\ tried \in [Attempts -> 0 .. 2]
        BY <3>3 DEF Option, Attempts, JobIInv, JobIsTyped
      <3>6. /\ opts' = o /\ stage' = "encoding"
            /\ tried' \in [Attempts -> 0 .. 2]
            /\ tried'[<<o.encoder, o.softwareDecode>>] = 1
            /\ \A a \in Attempts : a # <<o.encoder, o.softwareDecode>> => tried'[a] = tried[a]
        BY <2>4, <3>2, <3>3, <3>4, <3>5, AttemptStep
      <3>7. JobIsTyped'
        BY <2>2, <2>4, <3>1, <3>3, <3>6 DEF JobIInv, JobIsTyped
      <3>8. SearchIsUsed'
        BY <2>2, <2>4, <3>1, <3>3, <3>6 DEF JobIInv, SearchIsUsed
      <3>9. TriesInOrder'
        <4>1. \A a \in Attempts : tried'[a] <= 1
          BY <3>4, <3>5, <3>6
        <4>2. ASSUME NEW e \in HWAccel, NEW d \in BOOLEAN, Rank(o.encoder) < Rank(e)
              PROVE  tried'[<<e, d>>] = 0
          <5>1. <<e, d>> \in Attempts /\ e # o.encoder
            BY <4>2, <3>3, RankOrders DEF Attempts, Option
          <5> QED BY <3>4, <3>6, <5>1
        <4>3. ASSUME NEW e \in usable \cup {"none"},
                     Rank(preset.encoder) <= Rank(e), Rank(e) < Rank(o.encoder)
              PROVE  FALSE
          <5>1. e \in HWAccel /\ o.encoder \in HWAccel
            BY <3>3 DEF JobIInv, JobIsTyped, HWAccel, Option
          <5> QED BY <3>3, <4>3, <5>1, RankOrders
        <4>4. ~o.softwareDecode => tried'[<<o.encoder, TRUE>>] = 0
          <5>1. <<o.encoder, TRUE>> \in Attempts
            BY <3>3 DEF Attempts, Option
          <5> QED BY <3>4, <3>6, <5>1
        <4> QED BY <2>2, <3>3, <3>6, <4>1, <4>2, <4>3, <4>4 DEF TriesInOrder
      <3>10. Exhausted'
        BY <2>4, <3>1 DEF Exhausted
      <3> QED BY <2>1, <3>7, <3>8, <3>9, <3>10 DEF JobIInv
    <2> QED BY <1>6, <2>3, <2>4 DEF BeginsEncoding
  <1>7. CASE Encodes
    <2>1. SearchIInv'
      BY <1>7, SameSearch DEF JobIInv, Encodes
    <2>2. /\ UNCHANGED <<usable, job, preset, opts, tried, cancelled, scale, quality, search>>
          /\ stage = "encoding" /\ stage' = "done" /\ outcome' \in {"cancelled", "encoded"}
      BY <1>7 DEF Encodes, Done, jobvars, searchvars
    <2> QED BY <2>1, <2>2 DEF JobIInv, JobIsTyped, SearchIsUsed, TriesInOrder, Exhausted
  <1>8. CASE Recovers
    <2>1. SearchIInv'
      BY <1>8, SameSearch DEF JobIInv, Recovers
    <2>2. UNCHANGED <<usable, job, preset, cancelled, scale, quality, search>> /\ stage = "encoding"
      BY <1>8 DEF Recovers, jobvars, searchvars
    <2>3. /\ usable \in SUBSET HWAccel /\ opts \in Option /\ opts.encoder \in HWAccel
          /\ opts.softwareDecode \in BOOLEAN /\ tried \in [Attempts -> 0 .. 2]
          /\ preset.encoder \in HWAccel
          /\ outcome = "none" /\ \A a \in Attempts : tried[a] <= 1
      BY <2>2 DEF JobIInv, JobIsTyped, Option, TriesInOrder
    <2>4. /\ \A e \in usable \cup {"none"} :
                Rank(preset.encoder) <= Rank(e) /\ Rank(e) < Rank(opts.encoder) =>
                    tried[<<e, TRUE>>] = 1
          /\ \A e \in HWAccel, d \in BOOLEAN : Rank(opts.encoder) < Rank(e) => tried[<<e, d>>] = 0
          /\ tried[<<opts.encoder, opts.softwareDecode>>] = 1
          /\ ~opts.softwareDecode => tried[<<opts.encoder, TRUE>>] = 0
          /\ opts.encoder = "none" => ~opts.softwareDecode
      BY <2>2 DEF JobIInv, TriesInOrder
    <2>5. CASE ShouldRetryDecode(opts) /\ Attempt([opts EXCEPT !.softwareDecode = TRUE])
               /\ UNCHANGED outcome
      <3>1. PICK o : o = [opts EXCEPT !.softwareDecode = TRUE]
        OBVIOUS
      <3>2. o \in Option /\ o.encoder = opts.encoder /\ o.softwareDecode = TRUE
            /\ o.quality = opts.quality
        BY <2>3, <3>1 DEF Option
      <3>3. ~opts.softwareDecode /\ opts.encoder # "none"
        BY <2>5 DEF ShouldRetryDecode
      <3>4. PICK next : next = <<o.encoder, o.softwareDecode>>
        OBVIOUS
      <3>5. next \in Attempts /\ tried[next] = 0 /\ next = <<opts.encoder, TRUE>>
        BY <2>3, <2>4, <3>2, <3>3, <3>4 DEF Attempts
      <3>6. /\ opts' = o /\ stage' = "encoding"
            /\ tried' \in [Attempts -> 0 .. 2]
            /\ tried'[next] = 1
            /\ \A a \in Attempts : a # next => tried'[a] = tried[a]
        BY <2>3, <2>5, <3>1, <3>2, <3>4, <3>5, AttemptStep
      <3>7. JobIsTyped'
        BY <2>2, <2>5, <3>2, <3>6 DEF JobIInv, JobIsTyped
      <3>8. SearchIsUsed'
        BY <2>2, <2>3, <2>5, <3>2, <3>6 DEF JobIInv, SearchIsUsed
      <3>9. TriesInOrder'
        <4>1. \A a \in Attempts : tried'[a] <= 1
          <5>1. ASSUME NEW a \in Attempts PROVE tried'[a] = 1 \/ tried'[a] = tried[a]
            BY <3>6
          <5> QED BY <2>3, <5>1
        <4>2. ASSUME NEW e \in HWAccel, NEW d \in BOOLEAN, Rank(o.encoder) < Rank(e)
              PROVE  tried'[<<e, d>>] = 0
          <5>1. <<e, d>> \in Attempts /\ e # o.encoder
            BY <4>2, <2>3, <3>2, RankOrders DEF Attempts
          <5>2. tried[<<e, d>>] = 0
            BY <4>2, <2>4, <3>2
          <5> QED BY <3>2, <3>5, <3>6, <5>1, <5>2
        <4>3. ASSUME NEW e \in usable \cup {"none"},
                     Rank(preset.encoder) <= Rank(e), Rank(e) < Rank(o.encoder)
              PROVE  tried'[<<e, TRUE>>] = 1
          <5>1. e \in HWAccel
            BY <2>3 DEF HWAccel
          <5>2. <<e, TRUE>> \in Attempts
            BY <5>1 DEF Attempts
          <5>4. e # opts.encoder
            BY <2>3, <3>2, <4>3, <5>1, RankOrders
          <5>3. tried[<<e, TRUE>>] = 1
            BY <2>4, <3>2, <4>3
          <5> QED BY <3>2, <3>4, <3>6, <5>2, <5>3, <5>4
        <4> QED BY <2>2, <3>2, <3>3, <3>4, <3>6, <4>1, <4>2, <4>3 DEF TriesInOrder
      <3>10. Exhausted'
        BY <2>3, <2>5 DEF Exhausted
      <3> QED BY <2>1, <3>7, <3>8, <3>9, <3>10 DEF JobIInv
    <2>6. CASE ~ShouldRetryDecode(opts) /\ Fallbacks(opts.encoder, usable) # {}
               /\ Attempt(WithFallback(opts)) /\ UNCHANGED outcome
      <3>1. PICK o : o = WithFallback(opts)
        OBVIOUS
      <3>2. PICK e1 : e1 = GetFallbackEncoder(opts.encoder, usable)
        OBVIOUS
      <3>3. /\ e1 \in usable \cup {"none"} /\ Rank(opts.encoder) < Rank(e1)
            /\ opts.encoder # "none"
            /\ \A e \in usable \cup {"none"} : Rank(e) <= Rank(opts.encoder) \/ Rank(e1) <= Rank(e)
        BY <2>3, <2>6, <3>2, FallbackIs
      <3>4. e1 \in HWAccel
        BY <2>3, <3>3 DEF HWAccel
      <3>5. RequiresSoftwareDecode(job.video, e1) \in BOOLEAN
        BY DEF RequiresSoftwareDecode
      <3>6. o = [opts EXCEPT !.encoder = e1, !.softwareDecode = RequiresSoftwareDecode(job.video, e1)]
        BY <3>1, <3>2 DEF WithFallback
      <3>7. o \in Option /\ o.encoder = e1 /\ o.quality = opts.quality
            /\ o.softwareDecode = RequiresSoftwareDecode(job.video, e1)
        BY <2>3, <3>4, <3>5, <3>6 DEF Option
      <3>8. opts.softwareDecode
        BY <2>6, <3>3 DEF ShouldRetryDecode
      <3>9. PICK next : next = <<o.encoder, o.softwareDecode>>
        OBVIOUS
      <3>10. next \in Attempts /\ tried[next] = 0
        BY <2>4, <3>3, <3>4, <3>5, <3>7, <3>9 DEF Attempts
      <3>11. /\ opts' = o /\ stage' = "encoding"
             /\ tried' \in [Attempts -> 0 .. 2]
             /\ tried'[next] = 1
             /\ \A a \in Attempts : a # next => tried'[a] = tried[a]
        BY <2>3, <2>6, <3>1, <3>7, <3>9, <3>10, AttemptStep
      <3>12. JobIsTyped'
        BY <2>2, <2>6, <3>7, <3>11 DEF JobIInv, JobIsTyped
      <3>13. SearchIsUsed'
        BY <2>2, <2>3, <2>6, <3>7, <3>11 DEF JobIInv, SearchIsUsed
      <3>14. TriesInOrder'
        <4>1. \A a \in Attempts : tried'[a] <= 1
          BY <2>3, <3>10, <3>11
        <4>2. ASSUME NEW e \in HWAccel, NEW d \in BOOLEAN, Rank(o.encoder) < Rank(e)
              PROVE  tried'[<<e, d>>] = 0
          <5>1. <<e, d>> \in Attempts /\ e # o.encoder
            BY <4>2, <3>4, <3>7, RankOrders DEF Attempts
          <5>2. tried[<<e, d>>] = 0
            BY <4>2, <2>3, <2>4, <3>3, <3>4, <3>7, RankOrders
          <5> QED BY <3>9, <3>11, <5>1, <5>2
        <4>3. ASSUME NEW e \in usable \cup {"none"},
                     Rank(preset.encoder) <= Rank(e), Rank(e) < Rank(o.encoder)
              PROVE  tried'[<<e, TRUE>>] = 1
          <5>1. e \in HWAccel
            BY <2>3 DEF HWAccel
          <5>2. <<e, TRUE>> \in Attempts
            BY <5>1 DEF Attempts
          <5>4. e # o.encoder
            BY <3>4, <3>7, <4>3, <5>1, RankOrders
          <5>3. tried[<<e, TRUE>>] = 1
            <6>1. Rank(e) <= Rank(opts.encoder)
              BY <3>3, <3>4, <3>7, <4>3, <5>1, RankOrders
            <6>2. CASE e = opts.encoder
              BY <2>3, <2>4, <3>8, <6>2
            <6>3. CASE e # opts.encoder
              <7>1. Rank(e) < Rank(opts.encoder)
                BY <2>3, <5>1, <6>1, <6>3, RankOrders
              <7> QED BY <2>4, <4>3, <7>1
            <6> QED BY <6>2, <6>3
          <5> QED BY <3>9, <3>11, <5>2, <5>3, <5>4
        <4>4. ~o.softwareDecode => tried'[<<o.encoder, TRUE>>] = 0
          <5>1. <<o.encoder, TRUE>> \in Attempts
            BY <3>4, <3>7 DEF Attempts
          <5>2. tried[<<o.encoder, TRUE>>] = 0
            BY <2>4, <3>3, <3>4, <3>7
          <5> QED BY <3>9, <3>11, <5>1, <5>2
        <4>5. o.encoder = "none" => ~o.softwareDecode
          BY <3>7, SoftwareDecodes
        <4> QED BY <2>2, <3>9, <3>11, <4>1, <4>2, <4>3, <4>4, <4>5 DEF TriesInOrder
      <3>15. Exhausted'
        BY <2>3, <2>6 DEF Exhausted
      <3> QED BY <2>1, <3>12, <3>13, <3>14, <3>15 DEF JobIInv
    <2>7. CASE ~ShouldRetryDecode(opts) /\ Fallbacks(opts.encoder, usable) = {}
               /\ Done("failed") /\ UNCHANGED <<opts, tried>>
      <3>1. stage' = "done" /\ outcome' = "failed" /\ opts' = opts /\ tried' = tried
        BY <2>7 DEF Done
      <3>2. opts.encoder = "none" /\ ~opts.softwareDecode
        BY <2>3, <2>4, <2>7, NoFallback
      <3>3. ASSUME NEW e \in usable \cup {"none"}, Rank(e) >= Rank(preset.encoder)
            PROVE  tried[<<e, e # "none">>] = 1
        <4>1. CASE e = "none"
          <5>1. <<e, e # "none">> = <<opts.encoder, opts.softwareDecode>>
            BY <2>3, <3>2, <4>1
          <5> QED BY <2>4, <5>1
        <4>2. CASE e # "none"
          <5>1. e \in HWAccel
            BY <2>3 DEF HWAccel
          <5>2. Rank(e) < Rank(opts.encoder) /\ Rank(preset.encoder) <= Rank(e)
            BY <2>3, <3>2, <3>3, <4>2, <5>1, RankIs, RankOrders
          <5>3. <<e, e # "none">> = <<e, TRUE>>
            BY <4>2
          <5> QED BY <2>4, <5>2, <5>3
        <4> QED BY <4>1, <4>2
      <3>4. Exhausted'
        BY <2>2, <3>1, <3>3 DEF Exhausted
      <3> QED BY <2>1, <2>2, <2>3, <3>1, <3>4 DEF JobIInv, JobIsTyped, SearchIsUsed, TriesInOrder
    <2> QED BY <1>8, <2>5, <2>6, <2>7 DEF Recovers
  <1>9. CASE Interrupted
    <2>1. SearchIInv'
      BY <1>9, SameSearch DEF JobIInv, Interrupted
    <2>2. /\ UNCHANGED <<usable, job, preset, opts, tried, cancelled, scale, quality, search>>
          /\ stage' = "done" /\ outcome' = "cancelled"
      BY <1>9 DEF Interrupted, Done, jobvars, searchvars
    <2> QED BY <2>1, <2>2 DEF JobIInv, JobIsTyped, SearchIsUsed, TriesInOrder, Exhausted
  <1> QED BY <1>1, <1>2, <1>3, <1>4, <1>5, <1>6, <1>7, <1>8, <1>9 DEF Works

\* The inductive invariant of processing a job: the search's bracket, how far the job is and
\* what was passed on, and the encoders tried so far.
THEOREM JobInductiveInvariant == Spec => []JobIInv
  <1>1. Init => JobIInv
    BY JobInit
  <1>2. JobIInv /\ [Next]_vars => JobIInv'
    <2> SUFFICES ASSUME JobIInv, [Next]_vars PROVE JobIInv'
      OBVIOUS
    <2>1. CASE Works
      BY <2>1, WorksStep
    <2>2. CASE Cancel
      <3>1. SearchIInv'
        BY <2>2, SameSearch DEF JobIInv, Cancel
      <3>2. /\ UNCHANGED <<usable, job, preset, stage, opts, tried, outcome, scale, quality, search>>
            /\ cancelled' = TRUE
        BY <2>2 DEF Cancel, jobvars, searchvars
      <3> QED BY <3>1, <3>2 DEF JobIInv, JobIsTyped, SearchIsUsed, TriesInOrder, Exhausted
    <2>3. CASE UNCHANGED vars
      BY <2>3, SameJob
    <2> QED BY <2>1, <2>2, <2>3 DEF Next, Idle
  <1> QED BY <1>1, <1>2, PTL DEF Spec

-----------------------------------------------------------------------------
(* The commands.                                                           *)

\* Where frames are, and chains of filters.
Memory == {"cpu", "gpu", "nowhere"}
Filter == {"tonemap", "scale", "format", "negotiate", "upload", "hwscale"}
Chains == Seq(Filter)

\* A chain takes frames from one place to another.
Passes(chain, before, after, device) ==
    \E frames \in [0 .. Len(chain) -> Memory] :
        /\ frames[0] = before /\ frames[Len(chain)] = after
        /\ \A i \in 1 .. Len(chain) : frames[i] = AfterFilter(chain[i], frames[i - 1], device)

\* The filters on the frames they can take.
LEMMA AfterFilterIs ==
    ASSUME NEW m \in Memory, NEW device \in BOOLEAN
    PROVE  /\ AfterFilter("tonemap", "cpu", device) = "cpu"
           /\ AfterFilter("scale", "cpu", device) = "cpu"
           /\ AfterFilter("format", "cpu", device) = "cpu"
           /\ AfterFilter("negotiate", m, device) = m
           /\ device /\ m # "nowhere" => AfterFilter("upload", m, device) = "gpu"
           /\ AfterFilter("hwscale", "gpu", device) = "gpu"
  BY DEF AfterFilter

\* No filter: the frames stay where they are.
LEMMA EmptyPasses ==
    ASSUME NEW m \in Memory, NEW device
    PROVE  <<>> \in Chains /\ Passes(<<>>, m, m, device)
  <1>1. PICK chain : chain = <<>>
    OBVIOUS
  <1>2. Len(chain) = 0 /\ chain \in Chains
    BY <1>1 DEF Chains
  <1>3. PICK f : f = [i \in 0 .. 0 |-> m]
    OBVIOUS
  <1>4. f \in [0 .. 0 -> Memory] /\ f[0] = m
    BY <1>3
  <1>5. \A i \in 1 .. 0 : f[i] = AfterFilter(chain[i], f[i - 1], device)
    OBVIOUS
  <1>6. Passes(chain, m, m, device)
    BY <1>2, <1>4, <1>5 DEF Passes
  <1> QED BY <1>1, <1>2, <1>6

\* One filter.
LEMMA OnePasses ==
    ASSUME NEW m \in Memory, NEW device, NEW a \in Filter, AfterFilter(a, m, device) \in Memory
    PROVE  <<a>> \in Chains /\ Passes(<<a>>, m, AfterFilter(a, m, device), device)
  <1>1. PICK n \in Memory : n = AfterFilter(a, m, device)
    OBVIOUS
  <1>2. PICK f : f = [i \in 0 .. 1 |-> IF i = 0 THEN m ELSE n]
    OBVIOUS
  <1>3. f[0] = m /\ f[1] = n
    BY <1>2
  <1>4. f \in [0 .. 1 -> Memory]
    BY <1>2, <1>3
  <1>5. PICK chain : chain = <<a>>
    OBVIOUS
  <1>6. Len(chain) = 1 /\ chain[1] = a
    BY <1>5
  <1>7. chain \in Chains
    BY <1>5 DEF Chains
  <1>8. \A i \in 1 .. 1 : f[i] = AfterFilter(chain[i], f[i - 1], device)
    <2>1. f[1] = AfterFilter(chain[1], f[0], device)
      BY <1>1, <1>3, <1>6
    <2>2. \A i \in 1 .. 1 : i = 1 /\ i - 1 = 0
      OBVIOUS
    <2> QED BY <2>1, <2>2
  <1>9. Passes(chain, m, n, device)
    BY <1>3, <1>4, <1>6, <1>8 DEF Passes
  <1> QED BY <1>1, <1>5, <1>7, <1>9

\* Two chains, one after the other.
LEMMA BothPass ==
    ASSUME NEW s \in Chains, NEW t \in Chains, NEW a, NEW b, NEW c, NEW device,
           Passes(s, a, b, device), Passes(t, b, c, device)
    PROVE  s \o t \in Chains /\ Passes(s \o t, a, c, device)
  <1>1. PICK k \in Nat, l \in Nat : k = Len(s) /\ l = Len(t)
    BY DEF Chains
  <1>2. PICK f \in [0 .. k -> Memory] :
            /\ f[0] = a /\ f[k] = b
            /\ \A i \in 1 .. k : f[i] = AfterFilter(s[i], f[i - 1], device)
    BY <1>1 DEF Passes
  <1>3. PICK g \in [0 .. l -> Memory] :
            /\ g[0] = b /\ g[l] = c
            /\ \A i \in 1 .. l : g[i] = AfterFilter(t[i], g[i - 1], device)
    BY <1>1 DEF Passes
  <1>4. PICK st : st = s \o t
    OBVIOUS
  <1>5. /\ st \in Chains /\ Len(st) = k + l
        /\ \A i \in 1 .. k + l : st[i] = IF i <= k THEN s[i] ELSE t[i - k]
    BY <1>1, <1>4 DEF Chains
  <1> DEFINE h == [i \in 0 .. k + l |-> IF i <= k THEN f[i] ELSE g[i - k]]
  <1>6. h \in [0 .. k + l -> Memory]
    <2>1. ASSUME NEW i \in 0 .. k + l PROVE (IF i <= k THEN f[i] ELSE g[i - k]) \in Memory
      <3>1. CASE i <= k
        BY <3>1
      <3>2. CASE ~(i <= k)
        <4>1. i - k \in 0 .. l
          BY <3>2
        <4> QED BY <3>2, <4>1
      <3> QED BY <3>1, <3>2
    <2> QED BY <2>1
  <1>7. h[0] = a /\ h[k + l] = c
    <2>1. CASE l = 0
      BY <1>2, <1>3, <2>1
    <2>2. CASE l # 0
      BY <1>2, <1>3, <2>2
    <2> QED BY <2>1, <2>2
  <1>8. ASSUME NEW i \in 1 .. k + l
        PROVE  h[i] = AfterFilter(st[i], h[i - 1], device)
    <2>1. CASE i <= k
      <3>1. h[i] = f[i] /\ h[i - 1] = f[i - 1] /\ st[i] = s[i] /\ i \in 1 .. k
        BY <1>5, <2>1
      <3> QED BY <1>2, <3>1
    <2>2. CASE i = k + 1
      <3>1. h[i] = g[1] /\ h[i - 1] = f[k] /\ st[i] = t[1] /\ 1 \in 1 .. l /\ 1 - 1 = 0
        BY <1>5, <2>2
      <3>2. g[1] = AfterFilter(t[1], g[0], device)
        BY <1>3, <3>1
      <3> QED BY <1>2, <1>3, <3>1, <3>2
    <2>3. CASE k + 1 < i
      <3>1. h[i] = g[i - k] /\ h[i - 1] = g[(i - k) - 1] /\ st[i] = t[i - k] /\ i - k \in 1 .. l
        <4>1. (i - 1) - k = (i - k) - 1 /\ i - 1 \in 0 .. k + l /\ ~(i - 1 <= k) /\ ~(i <= k)
          BY <2>3
        <4>2. i - k \in 1 .. l
          BY <2>3
        <4> QED BY <1>5, <4>1, <4>2
      <3> QED BY <1>3, <3>1
    <2> QED BY <2>1, <2>2, <2>3
  <1> HIDE DEF h
  <1> QED BY <1>4, <1>5, <1>6, <1>7, <1>8 DEF Passes

\* Two filters.
LEMMA BothFiltersPass ==
    ASSUME NEW m \in Memory, NEW device, NEW a \in Filter, NEW b \in Filter,
           NEW n \in Memory, n = AfterFilter(a, m, device),
           NEW k \in Memory, k = AfterFilter(b, n, device)
    PROVE  <<a, b>> \in Chains /\ Passes(<<a, b>>, m, k, device)
  <1>1. PICK f : f = [i \in 0 .. 2 |-> IF i = 0 THEN m ELSE IF i = 1 THEN n ELSE k]
    OBVIOUS
  <1>2. f[0] = m /\ f[1] = n /\ f[2] = k
    BY <1>1
  <1>3. f \in [0 .. 2 -> Memory]
    BY <1>1
  <1>4. PICK chain : chain = <<a, b>>
    OBVIOUS
  <1>5. Len(chain) = 2 /\ chain[1] = a /\ chain[2] = b
    BY <1>4
  <1>6. chain \in Chains
    BY <1>4 DEF Chains
  <1>7. \A i \in 1 .. 2 : f[i] = AfterFilter(chain[i], f[i - 1], device)
    <2>1. f[1] = AfterFilter(chain[1], f[0], device)
      BY <1>2, <1>5
    <2>2. f[2] = AfterFilter(chain[2], f[1], device)
      BY <1>2, <1>5
    <2>3. \A i \in 1 .. 2 : (i = 1 /\ i - 1 = 0) \/ (i = 2 /\ i - 1 = 1)
      OBVIOUS
    <2> QED BY <2>1, <2>2, <2>3
  <1>8. Passes(chain, m, k, device)
    BY <1>2, <1>3, <1>5, <1>7 DEF Passes
  <1> QED BY <1>4, <1>6, <1>8

\* A chain that is there only if it is needed.
LEMMA IfPasses ==
    ASSUME NEW m, NEW chain \in Chains, NEW device, NEW condition \in BOOLEAN, NEW n \in Memory,
           condition => Passes(chain, m, n, device),
           ~condition => m = n
    PROVE  If(condition, chain) \in Chains /\ Passes(If(condition, chain), m, n, device)
  <1>1. CASE condition
    BY <1>1 DEF If
  <1>2. CASE ~condition
    BY <1>2, EmptyPasses DEF If
  <1> QED BY <1>1, <1>2

\* A command runs if its chain ends where the encoder takes the frames.
LEMMA PassingRuns ==
    ASSUME NEW o, NEW m, NEW n, Passes(FilterChain(o), m, n, HasDevice(o)),
           \/ n = "gpu" /\ o.encoder \in HasScaler
           \/ n = "cpu" /\ o.encoder \notin NeedsUpload
    PROVE  CanRun(o, m)
  BY DEF Passes, CanRun, Memory

\* So does the command of any combination of options.
LEMMA CommandRuns ==
    ASSUME NEW o \in Option
    PROVE  CanRun(o, IF "gpu" \in DecodedTo(o) THEN "gpu" ELSE "cpu")
  <1> DEFINE device == HasDevice(o)
             upload == If(o.encoder \in NeedsUpload, <<"format", "upload">>)
             scaled == If(o.resize, <<"scale">>)
             uploaded == IF o.encoder \in NeedsUpload THEN "gpu" ELSE "cpu"
  <1>1. /\ o.encoder \in HWAccel /\ device \in BOOLEAN /\ (o.encoder \in NeedsUpload => device)
        /\ o.resize \in BOOLEAN /\ (o.encoder \in NeedsUpload) \in BOOLEAN
        /\ (o.encoder \in NeedsUpload => o.encoder \in HasScaler)
    BY DEF Option, HasDevice, NeedsUpload, HasScaler
  <1>2. "cpu" \in Memory /\ "gpu" \in Memory /\ uploaded \in Memory
        /\ \A f \in {"tonemap", "scale", "format", "negotiate", "upload", "hwscale"} : f \in Filter
    BY DEF Memory, Filter
  <1>3. upload \in Chains /\ Passes(upload, "cpu", uploaded, device)
    <2>1. ASSUME o.encoder \in NeedsUpload
          PROVE  Passes(<<"format", "upload">>, "cpu", "gpu", device)
      BY <1>1, <1>2, <2>1, AfterFilterIs, BothFiltersPass
    <2>2. <<"format", "upload">> \in Chains
      BY <1>2 DEF Chains
    <2> HIDE DEF device
    <2> QED BY <1>1, <1>2, <2>1, <2>2, IfPasses
  <1>4. scaled \in Chains /\ Passes(scaled, "cpu", "cpu", device)
    <2>1. <<"scale">> \in Chains /\ Passes(<<"scale">>, "cpu", "cpu", device)
      BY <1>1, <1>2, AfterFilterIs, OnePasses
    <2> HIDE DEF device
    <2> QED BY <1>1, <1>2, <2>1, IfPasses
  <1>5. <<"tonemap">> \in Chains /\ Passes(<<"tonemap">>, "cpu", "cpu", device)
    BY <1>1, <1>2, AfterFilterIs, OnePasses
  <1>6. CASE o.tonemap
    <2>1. DecodedTo(o) = {"cpu"} /\ FilterChain(o) = <<"tonemap">> \o scaled \o upload
      BY <1>6 DEF DecodedTo, DecodesInSoftware, FilterChain
    <2> HIDE DEF device, upload, scaled
    <2>2. <<"tonemap">> \o scaled \in Chains /\ Passes(<<"tonemap">> \o scaled, "cpu", "cpu", device)
      BY <1>4, <1>5, BothPass
    <2>3. Passes(FilterChain(o), "cpu", uploaded, device)
      BY <1>3, <2>1, <2>2, BothPass
    <2> USE DEF device
    <2> QED BY <1>1, <2>1, <2>3, PassingRuns
  <1>7. CASE ~o.tonemap /\ o.softwareDecode
    <2>1. DecodedTo(o) = {"cpu"} /\ FilterChain(o) = scaled \o upload
      BY <1>7 DEF DecodedTo, DecodesInSoftware, FilterChain
    <2> HIDE DEF device, upload, scaled
    <2>2. Passes(FilterChain(o), "cpu", uploaded, device)
      BY <1>3, <1>4, <2>1, BothPass
    <2> USE DEF device
    <2> QED BY <1>1, <2>1, <2>2, PassingRuns
  <1>8. CASE ~o.tonemap /\ ~o.softwareDecode
    <2> DEFINE negotiated == If(o.encoder \in NeedsUpload, <<"negotiate", "upload">>)
    <2>1. FilterChain(o) = negotiated
                   \o (IF o.encoder \in HasScaler THEN <<"hwscale">> ELSE scaled)
      BY <1>8 DEF FilterChain
    <2>2. CASE o.encoder \in HasScaler
      <3>1. "gpu" \in DecodedTo(o)
        BY <1>8, <2>2 DEF DecodedTo, DecodesInSoftware, HasScaler
      <3>2. negotiated \in Chains /\ Passes(negotiated, "gpu", "gpu", device)
        <4>1. ASSUME o.encoder \in NeedsUpload
              PROVE  Passes(<<"negotiate", "upload">>, "gpu", "gpu", device)
          BY <1>1, <1>2, <4>1, AfterFilterIs, BothFiltersPass
        <4>2. <<"negotiate", "upload">> \in Chains
          BY <1>2 DEF Chains
        <4> HIDE DEF device
        <4> QED BY <1>1, <1>2, <4>1, <4>2, IfPasses
      <3>3. <<"hwscale">> \in Chains /\ Passes(<<"hwscale">>, "gpu", "gpu", device)
        BY <1>1, <1>2, AfterFilterIs, OnePasses
      <3> HIDE DEF device, negotiated
      <3>4. Passes(FilterChain(o), "gpu", "gpu", device)
        BY <2>1, <2>2, <3>2, <3>3, BothPass
      <3> USE DEF device
      <3> QED BY <2>2, <3>1, <3>4, PassingRuns
    <2>3. CASE o.encoder \notin HasScaler
      <3>1. DecodedTo(o) = {"cpu"} /\ o.encoder \notin NeedsUpload
        BY <1>1, <2>3 DEF DecodedTo, DecodesInSoftware, HasScaler, NeedsUpload, HWAccel
      <3>2. negotiated \in Chains /\ Passes(negotiated, "cpu", "cpu", device)
        BY <1>2, <3>1, EmptyPasses DEF If
      <3> HIDE DEF device, negotiated, scaled
      <3>3. Passes(FilterChain(o), "cpu", "cpu", device)
        BY <1>4, <2>1, <2>3, <3>2, BothPass
      <3> USE DEF device
      <3> QED BY <3>1, <3>3, PassingRuns
    <2> QED BY <2>2, <2>3
  <1> QED BY <1>6, <1>7, <1>8

\* The command of every attempt can run on the frames its decoder delivers (BuildPresetArgs).
THEOREM CommandFitsCorrect == Spec => []CommandFits
  <1>1. JobIInv => CommandFits
    BY CommandRuns DEF JobIInv, JobIsTyped, CommandFits
  <1> QED BY <1>1, JobInductiveInvariant, PTL

\* What the search finds was scored, passed, is the smallest that did, and the search stopped for
\* a reason (interpolatedSearchCRF, interpolatedSearchBitrate): for every set of scores, monotone
\* or not.
THEOREM SearchIsSharpCorrect == Spec => []SearchIsSharp
  <1>1. JobIInv => SearchIsSharp
    BY DEF JobIInv, SearchIInv, FoundIsSharp, ImpossibleIsSharp, SearchIsSharp
  <1> QED BY <1>1, JobInductiveInvariant, PTL

\* Types, and that the search never leaves the range of its scale.
THEOREM ProcessingTypeCorrect == Spec => []TypeOK
  <1>1. JobIInv => TypeOK
    <2> SUFFICES ASSUME JobIInv PROVE TypeOK
      OBVIOUS
    <2>1. search \in {"on", "found"} => Clamped(quality) = quality
      <3> SUFFICES ASSUME search \in {"on", "found"} PROVE Clamped(quality) = quality
        OBVIOUS
      <3>1. scale \in Scales /\ quality \in Nat /\ InRange(quality)
        BY DEF JobIInv, SearchIInv, SearchIsTyped
      <3> QED BY <3>1, ScaleFacts DEF Clamped, InRange
    <2>2. attempts \subseteq [q : Nat, score : Scores]
      BY DEF JobIInv, SearchIInv, SearchIsTyped, AttemptsTyped
    <2> QED BY <2>1, <2>2 DEF TypeOK, JobIInv, JobIsTyped, SearchIInv, SearchIsTyped
  <1> QED BY <1>1, JobInductiveInvariant, PTL

\* A job fails in encoding only after every usable encoder from its own on was tried, once each
\* (tryEncoderFallbacks), for every machine and source.
THEOREM FailureIsExhaustiveCorrect == Spec => []FailureIsExhaustive
  <1>1. JobIInv => FailureIsExhaustive
    BY DEF JobIInv, TriesInOrder, Exhausted, FailureIsExhaustive
  <1> QED BY <1>1, JobInductiveInvariant, PTL

\* The quality that was scored is the quality of the output (buildTranscodeOpts).
THEOREM OutputWasScoredCorrect == Spec => []OutputWasScored
  <1>1. JobIInv => OutputWasScored
    <2> SUFFICES ASSUME JobIInv, outcome = "encoded", preset.smart, opts.encoder = preset.encoder,
                        ~scale.bitrate
                 PROVE  \E a \in attempts : a.score >= 0 /\
                            QualityValue(opts) = QualityValue(ForSample([opts EXCEPT !.quality = a.q]))
      BY DEF OutputWasScored
    <2>1. search = "found" /\ opts.quality = quality /\ opts \in Option /\ preset.codec \in Codec
      BY DEF JobIInv, JobIsTyped, SearchIsUsed
    <2>2. PICK a \in attempts : a.q = quality /\ a.score >= 0
      BY <2>1 DEF JobIInv, SearchIInv, FoundIsSharp
    <2>3. opts.encoder \notin UsesBitrate
      BY <2>1, RangeIsScale DEF JobIInv, SearchIsUsed
    <2>4. PICK o : o = ForSample([opts EXCEPT !.quality = a.q])
      OBVIOUS
    <2>5. o.encoder = opts.encoder /\ o.codec = opts.codec /\ o.quality = opts.quality
      BY <2>1, <2>2, <2>4 DEF ForSample, Option
    <2>6. QualityValue(o) = QualityValue(opts)
      BY <2>3, <2>5 DEF QualityValue
    <2> QED BY <2>2, <2>4, <2>6
  <1> QED BY <1>1, JobInductiveInvariant, PTL
=============================================================================
