---------------------------- MODULE LoopDetection ----------------------------
(***************************************************************************)
(* detect_repeat and detect_loop of detector.cc, which look for the length *)
(* of a song that has no end.                                              *)
(*                                                                         *)
(* What the sums over the samples come to is left open: how often the      *)
(* difference of two windows crosses its mean, and how far apart, where a  *)
(* window begins to repeat, where the loudest samples are.  What is made   *)
(* of it is arithmetic with positions in the samples, and that is here:    *)
(* each operator is the set of the results that n samples may give.        *)
(***************************************************************************)
EXTENDS SongEndDetector

CONSTANTS
  AcrPerSec,        \* ACR_PER_SEC: values a second that get_looplen looks at
  RepeatThreshold,  \* REPEAT_THRESHOLD, in ms
  LoopSeconds       \* 60: seconds that a loop may take to begin, at least

ASSUME LoopAssumption ==
  {AcrPerSec, RepeatThreshold, LoopSeconds} \subseteq Nat \ {0}

(* UINT64_MAX, which as a number without a sign is -1.                     *)
NotFound == -1

(* REPEAT_THRESHOLD in samples *)
Repeat == SamplesIn(RepeatThreshold)
------------------------------------------------------------------------------
(* get_looplen: the distances of the crossings, up and down: how many of   *)
(* them are in their middle third, and their mean.                         *)
Distances(n) ==
  [cnt : {0}, avg : {0}]
    \cup [cnt : 1 .. 3, avg : 1 .. (n * AcrPerSec) \div SamplesPerSec]

Enough(a, b, mincnt) ==
  b.cnt >= mincnt /\ (a.cnt > mincnt \/ a.cnt * 2 = b.cnt)

(* a is so much shorter than b, and so much more frequent, that it is what *)
(* counts                                                                  *)
Outweighs(a, b) ==
  a.avg >= 5 * AcrPerSec /\ b.avg >= a.avg * 3 /\ a.cnt >= b.cnt * 3

Length(p, m, strict) ==
  LET mincnt == IF strict THEN 2 ELSE 1
      pok == Enough(p, m, mincnt)
      nok == Enough(m, p, mincnt)
  IN  CASE pok # nok -> IF pok THEN p.avg ELSE m.avg
        [] pok = nok -> IF pok /\ Outweighs(p, m) THEN p.avg
                        ELSE IF nok /\ Outweighs(m, p) THEN m.avg
                        ELSE Largest(p.avg, m.avg)

(* Mutant of GetLooplen: a loop of any length is taken.                    *)
GetLooplenAny(n, p, m, strict) ==
  LET len == Length(p, m, strict)
  IN  IF strict /\ len <= AcrPerSec THEN 0
      ELSE (len * SamplesPerSec) \div AcrPerSec

(* ... in samples; 0, if it is a third of them or more, or too short       *)
GetLooplen(n, p, m, strict) ==
  LET len     == Length(p, m, strict)
      samples == (len * SamplesPerSec) \div AcrPerSec
  IN  IF samples >= n \div 3 \/ (strict /\ len <= AcrPerSec)
      THEN 0 ELSE samples

(* _looplen: the best of four of them, as the samples are and stretched    *)
Looplens(n, strict) ==
  {GetLooplen(n, p, m, strict) : p \in Distances(n), m \in Distances(n)}

(* get_loopstart: the windows grow up to a quarter of the samples; it is   *)
(* found inside of them, not at all, or, if they are all but the same, at  *)
(* 0.                                                                      *)
Window(n) == n \div 4 - 1

LoopStarts(n, offs) == {NotFound, 0} \cup offs .. offs + Window(n) - 1

(* the end of what it reads of the samples for that: two windows, and two  *)
(* that are one loop further on                                            *)
ReadTo(n, looplen, offs) == offs + (2 * Window(n)) + looplen
------------------------------------------------------------------------------
(* detect_repeat: the loudest and the lowest samples of the second half    *)
(* come back within dist = max(maxmin, maxmax) samples, and so they do to  *)
(* the beginning of the song.  If get_loopstart does not find anything,    *)
(* the sum overflows to looplen - 1, and the product to something large.   *)
RepeatLen(dist) == Largest(Repeat \div 2, dist * 2)

RepeatFromStart(dist, start) ==
  LET looplen   == RepeatLen(dist)
      loopstart == IF start = NotFound THEN start
                   ELSE Largest(Repeat \div 2, start)
      repeat    == ((looplen + loopstart) * 3 * MsPerSec)
                     \div (2 * SamplesPerSec)
      atStart   == /\ loopstart # NotFound
                   /\ MillisOf(loopstart) <= RepeatThreshold \div 2
  IN  IF \/ repeat > 10 * RepeatThreshold
         \/ atStart /\ repeat > (3 * RepeatThreshold) \div 2
      THEN 0 ELSE repeat

(* ... or not all the way, but to sample last.                             *)
RepeatFrom(dist, last) ==
  MillisOf(last) + Largest(RepeatThreshold,
                           (dist * 3 * MsPerSec) \div (2 * SamplesPerSec))

Repeats(n) ==
  {0} \cup {RepeatFromStart(dist, start) :
              dist \in 1 .. Repeat, start \in LoopStarts(n, 0)}
      \cup {RepeatFrom(dist, last) :
              dist \in 1 .. Repeat, last \in 0 .. (n \div 2) + Repeat}
------------------------------------------------------------------------------
(* detect_loop: the length of a song with a loop of looplen samples that   *)
(* begins at loopstart                                                     *)
SongLen(looplen, loopstart) == MillisOf(loopstart + looplen) + MsPerSec

(* _songlen0 *)
FromStart(n, looplens) ==
  {SongLen(l, s) : l \in looplens \ {0}, s \in LoopStarts(n, 0) \ {NotFound}}

(* A short loop is given the length of the threshold; ...                  *)
StrictLens(n) ==
  {IF l > 0 THEN Largest(l, Repeat) ELSE 0 : l \in Looplens(n, TRUE)}
ShortLens(n) == {l \in StrictLens(n) \ {0} : l <= 2 * Repeat}

(* ... _songlen1 looks for it again from where the last third of the song  *)
(* begins to be less than the rest, in the first third.                    *)
Again(n) == 0 .. n \div 3

(* If there is no loop in the last two thirds, all but the first minute is *)
(* searched.                                                               *)
Loops(n) ==
  {0} \cup FromStart(n, StrictLens(n))
      \cup {SongLen(l, s) : l \in ShortLens(n),
                            s \in UNION {LoopStarts(n, o) : o \in Again(n)}
                                    \ {NotFound}}
      \cup FromStart(n, Looplens(n, FALSE))

(* Every read of get_looplen begins, and every one of get_loopstart ends,  *)
(* inside of the samples.                                                  *)
ReadsIn(n) ==
  /\ LoopSeconds * SamplesPerSec <= n
  /\ \A dist \in 1 .. Repeat : ReadTo(n, RepeatLen(dist), 0) <= n
  /\ \A l \in StrictLens(n) \cup Looplens(n, FALSE) : ReadTo(n, l, 0) <= n
  /\ \A l \in ShortLens(n), offs \in Again(n) : ReadTo(n, l, offs) <= n
==============================================================================
