--------------------------- MODULE QualitySearch ---------------------------
(***************************************************************************)
(* The search of SmartShrink for the quality setting that gives the        *)
(* smallest file at or above a VMAF score: BinarySearch of                 *)
(* internal/ffmpeg/vmaf/search.go, one encoded and scored quality at a     *)
(* time.  interpolatedSearchCRF and interpolatedSearchBitrate are the same *)
(* steps on two scales: a higher CRF compresses more, a higher bit rate    *)
(* modifier less; neighbours are one apart or minModRange.                 *)
(*                                                                         *)
(* Data.  Scores are in half points above the threshold, and any quality   *)
(* may get any score: samples are noisy, and nothing makes VMAF monotonic. *)
(* Modifiers are in thousandths, so interpolated ones are rounded.         *)
(***************************************************************************)
EXTENDS Integers, FiniteSets

CONSTANT Scores     \* the scores a quality may get

ASSUME ScoresAssumption == Scores \subseteq Int

VARIABLES
    scale,      \* the settings to search: bitrate (BOOLEAN), best, smallest
    quality,    \* the setting to score next, or the one found
    attempts,   \* the settings scored and their scores
    search      \* "off", "on", "found", "impossible" or "failed"

searchvars == <<scale, quality, attempts, search>>

maxRuns     == 8                                    \* maxSearchIters + 2
minModRange == 50
Gap         == IF scale.bitrate THEN minModRange ELSE 1
Abs(x)      == IF x < 0 THEN -x ELSE x
Run         == Cardinality(attempts) + 1            \* counts the loop

\* Does setting a compress more than setting b?
Smaller(a, b) == IF scale.bitrate THEN a < b ELSE a > b
Adjacent(a, b) == Abs(a - b) <= Gap
AtEnd(a, end) == Abs(a - end) <= (IF scale.bitrate THEN minModRange ELSE 0)

-----------------------------------------------------------------------------
(* The helpers.                                                            *)

\* findUpperBound, findModLowerBound: the nearest attempt that compresses more.
HasSmaller(q) == \E a \in attempts : Smaller(a.q, q)
NearestSmaller(q) == CHOOSE a \in attempts :
    Smaller(a.q, q) /\ \A b \in attempts : Smaller(b.q, q) => ~Smaller(a.q, b.q)

\* findLowerBound, findModUpperBound: the nearest that compresses less.
HasLarger(q) == \E a \in attempts : Smaller(q, a.q)
NearestLarger(q) == CHOOSE a \in attempts :
    Smaller(q, a.q) /\ \A b \in attempts : Smaller(q, b.q) => ~Smaller(b.q, a.q)

\* hasAttempt, hasModAttempt (within a tenth of the gap).
HasAttempt(as, q) == \E a \in as : Abs(a.q - q) < (IF scale.bitrate THEN minModRange \div 10 ELSE 1)

\* findBestAttempt, findBestModAttempt.
Passing(as) == {a \in as : a.score >= 0}
FindBest(as) == CHOOSE a \in Passing(as) : \A b \in Passing(as) : ~Smaller(b.q, a.q)

\* vmafLerpCRF, vmafLerpMod: where the line through two scores meets the threshold,
\* rounded (a tie may go either way in floating point) and kept off both ends.
Lerp(worse, better) ==
    LET span   == better.score - worse.score
        num    == worse.q * span + (worse.q - better.q) * worse.score
        margin == IF scale.bitrate THEN minModRange \div 2 ELSE 1
        low    == IF worse.q < better.q THEN worse.q + margin ELSE better.q + margin
        high   == IF worse.q < better.q THEN better.q - margin ELSE worse.q - margin
    IN  IF span <= 0 THEN {(worse.q + better.q) \div 2}
        ELSE {IF r <= low THEN low ELSE IF r >= high THEN high ELSE r :
                r \in {r \in {num \div span, num \div span + 1} :
                         Abs(2 * (r * span - num)) <= span}}

\* The first step beyond the middle: 40/60 towards an end.
Cut(q, end) == (4 * q + 6 * end + 5) \div 10

-----------------------------------------------------------------------------
(* The loop.                                                               *)

SearchInit ==
    /\ scale = [bitrate |-> FALSE, best |-> 0, smallest |-> 0]
    /\ quality = 0
    /\ attempts = {}
    /\ search = "off"

\* Mutant: from half the range, not its middle.
BeginSearchHalf(s) ==
    /\ search = "off"
    /\ search' = "on"
    /\ scale' = s
    /\ quality' = Abs(s.best - s.smallest) \div 2
    /\ attempts' = {}

\* BinarySearch: from the middle.
BeginSearch(s) ==
    /\ search = "off"
    /\ search' = "on"
    /\ scale' = s
    /\ quality' = (s.best + s.smallest) \div 2
    /\ attempts' = {}

Clamped(q) ==
    LET low  == IF scale.bitrate THEN scale.smallest ELSE scale.best
        high == IF scale.bitrate THEN scale.best ELSE scale.smallest
    IN  IF q < low THEN low ELSE IF q > high THEN high ELSE q

Ends(how, q) == search' = how /\ quality' = q

\* Go on with a setting of the range, unless the runs are used up or it has been
\* scored before.
Tries(setting, as) ==
    LET q == Clamped(setting) IN
    IF Run < maxRuns /\ ~HasAttempt(as, q) THEN search' = "on" /\ quality' = q
    ELSE IF Passing(as) # {} THEN Ends("found", FindBest(as).q)
    ELSE Ends("impossible", q)

\* Mutant: with nothing smaller scored yet, the search is content.
AfterGoodContent(score, as) ==
    /\ score >= 0
    /\ IF score < Run \/ ~HasSmaller(quality) \/ Adjacent(NearestSmaller(quality).q, quality)
       THEN Ends("found", quality)
       ELSE \E q \in Lerp(NearestSmaller(quality), [q |-> quality, score |-> score]) :
               Tries(q, as)

\* The score is good: accept it, or try to compress more.
AfterGood(score, as) ==
    /\ score >= 0
    /\ \/ score < Run /\ Ends("found", quality)
       \/ /\ score >= Run
          /\ \/ /\ HasSmaller(quality)
                /\ IF Adjacent(NearestSmaller(quality).q, quality) THEN Ends("found", quality)
                   ELSE \E q \in Lerp(NearestSmaller(quality), [q |-> quality, score |-> score]) :
                           Tries(q, as)
             \/ /\ ~HasSmaller(quality)
                /\ IF Run = 1 /\ ~Adjacent(quality, scale.smallest)
                   THEN Tries(Cut(quality, scale.smallest), as)
                   ELSE IF AtEnd(quality, scale.smallest) THEN Ends("found", quality)
                   ELSE Tries(scale.smallest, as)

\* Mutant: the search gives up when two scores in a row are bad.
GiveUpEarly(score, as) ==
    /\ score < 0
    /\ IF Run > 1 THEN Ends("impossible", quality) ELSE Tries(Cut(quality, scale.best), as)

\* The score is too low: try to compress less, or see that nothing is good enough.
AfterBad(score, as) ==
    /\ score < 0
    /\ \/ AtEnd(quality, scale.best) /\ Ends("impossible", quality)
       \/ /\ ~AtEnd(quality, scale.best)
          /\ HasLarger(quality)
          /\ LET larger == NearestLarger(quality) IN
             IF ~Adjacent(larger.q, quality)
             THEN \E q \in Lerp([q |-> quality, score |-> score], larger) : Tries(q, as)
             ELSE IF larger.score >= 0 THEN Ends("found", larger.q)
             ELSE Ends("impossible", quality)
       \/ /\ ~AtEnd(quality, scale.best)
          /\ ~HasLarger(quality)
          /\ IF Run = 1 /\ ~Adjacent(quality, scale.best)
             THEN Tries(Cut(quality, scale.best), as)
             ELSE Tries(scale.best, as)

Scored(score) ==
    LET as == attempts \cup {[q |-> quality, score |-> score]} IN
    /\ attempts' = as
    /\ AfterGood(score, as) \/ AfterBad(score, as)
    /\ UNCHANGED scale

\* interpolatedSearchCRF, one turn.
ScoreCRF(score) == search = "on" /\ ~scale.bitrate /\ Scored(score)

\* interpolatedSearchBitrate, one turn.
ScoreModifier(score) == search = "on" /\ scale.bitrate /\ Scored(score)

\* Encoding or scoring a sample fails, or is cancelled: the search ends with the error.
SearchFails ==
    /\ search = "on"
    /\ search' = "failed"
    /\ UNCHANGED <<scale, quality, attempts>>
=============================================================================
