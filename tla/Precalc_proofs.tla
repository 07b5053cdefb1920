---------------------------- MODULE Precalc_proofs ----------------------------
(***************************************************************************)
(* The detector's update stays within its buffers and loses no frame, the  *)
(* searches for loops stay within the samples, and no song is cut short of *)
(* what sounds, for songs and buffers of every size.                       *)
(***************************************************************************)
EXTENDS Precalc, SequenceTheorems, NaturalsInduction, WellFoundedInduction,
        TLAPS

(* The ring holds numbers, and so do the samples made of them.             *)
RingInv ==
  /\ tmp \in [0 .. 7 -> Int]
  /\ itmp \in 0 .. 7 /\ ctmp \in 0 .. 7
  /\ buftmp \in Seq(Int)

(* An update stays within the song.                                        *)
SongInv ==
  /\ sound \in Seq(Int)
  /\ fed \in Nat /\ chunk \in Nat /\ left \in 0 .. chunk
  /\ fed + left <= Len(sound)

(* Each pair of samples uses up four frames, of this update or of up to    *)
(* seven that were there before, and leaves at least four in the ring.     *)
RoomInv ==
  /\ 2 * Len(buftmp) + ctmp <= 7 + chunk - left
  /\ Len(buftmp) > 0 => ctmp >= 4
  /\ pc # "update" => Len(buftmp) = 0 /\ left = 0

IInv == RingInv /\ SongInv /\ RoomInv
------------------------------------------------------------------------------
(* Division of an integer by a positive one gives an integer.              *)
LEMMA QuotientInt ==
  ASSUME NEW a \in Int, NEW b \in Nat \ {0}
  PROVE  Quotient(a, b) \in Int
  BY DEF Quotient

(* Eight numbers are smoothed to two.                                      *)
LEMMA SmoothedInt ==
  ASSUME NEW b \in [0 .. 7 -> Int]
  PROVE  /\ Smoothed(b) \in Seq(Int)
         /\ Len(Smoothed(b)) = 2
         /\ Smoothed(b)[1] \in Int /\ Smoothed(b)[2] \in Int
  <1>. DEFINE mid == b[2] + b[3] + b[4] + b[5]
              x   == Quotient(b[0] + b[1] + mid, 6 * Scale)
              y   == Quotient(mid + b[6] + b[7], 6 * Scale)
  <1>1. mid \in Int /\ b[0] + b[1] + mid \in Int /\ mid + b[6] + b[7] \in Int
    OBVIOUS
  <1>2. 6 * Scale \in Nat \ {0}
    BY RateAssumption
  <1>3. x \in Int /\ y \in Int
    BY <1>1, <1>2, QuotientInt
  <1>4. Smoothed(b) = <<x, y>>
    BY DEF Smoothed
  <1>. HIDE DEF x, y
  <1>. QED
    BY <1>3, <1>4

(* Room is enough for what RoomInv allows.                                 *)
LEMMA RoomIsEnough ==
  ASSUME NEW n \in Nat, NEW l \in Nat, 2 * l <= n + 7, l > 0 => 2 * l <= n + 3
  PROVE  l <= Room(n)
  BY DEF Room

(* Before the first update the ring is empty.                              *)
LEMMA InitIInv == Init => IInv
  <1>. SUFFICES ASSUME Init PROVE IInv
    OBVIOUS
  <1>1. sound \in Seq(Int)
    BY SongAssumption DEF Init
  <1>2. Len(sound) \in Nat
    BY <1>1, LenProperties
  <1>3. tmp \in [0 .. 7 -> Int]
    BY GarbageAssumption DEF Init, InitDetector
  <1>4. buftmp = <<>> /\ Len(buftmp) = 0 /\ buftmp \in Seq(Int)
    BY DEF Init, InitDetector
  <1>. QED
    BY <1>1, <1>2, <1>3, <1>4
    DEF Init, InitDetector, IInv, RingInv, SongInv, RoomInv

(* The loop's body uses up a frame, and four of them when it adds samples. *)
LEMMA UpdateStep ==
  ASSUME IInv, Update
  PROVE  IInv'
  <1>. USE DEF IInv, endVars
  <1>. DEFINE val  == sound[fed + 1]
              ring == [tmp EXCEPT ![itmp] = val]
              next == (itmp + 1) % 8
              b    == [i \in 0 .. 7 |-> ring[(next + i) % 8]]
              s    == Smoothed(b)
  <1>1. fed + 1 \in 1 .. Len(sound) /\ Len(sound) \in Nat
    BY LenProperties DEF Update, SongInv
  <1>2. val \in Int
    BY <1>1, ElementOfSeq DEF SongInv
  <1>3. ring \in [0 .. 7 -> Int] /\ next \in 0 .. 7
    BY <1>2 DEF RingInv
  <1>4. b \in [0 .. 7 -> Int]
    BY <1>3
  <1>5. s \in Seq(Int) /\ Len(s) = 2
    BY <1>4, SmoothedInt
  <1>6. /\ tmp' = ring /\ itmp' = next
        /\ \/ ctmp + 1 = 8 /\ ctmp' = 4 /\ buftmp' = buftmp \o s
           \/ ctmp + 1 # 8 /\ ctmp' = ctmp + 1 /\ buftmp' = buftmp
    BY Zenon DEF Update, Feed
  <1>7. /\ fed' = fed + 1 /\ left' = left - 1 /\ sound' = sound
        /\ chunk' = chunk /\ pc' = pc /\ pc = "update" /\ left > 0
    BY DEF Update
  <1>. HIDE DEF ring, next, b, s
  <1>8. Len(buftmp) \in Nat
    BY LenProperties DEF RingInv
  <1>9. RingInv'
    <2>1. CASE ctmp + 1 = 8 /\ ctmp' = 4 /\ buftmp' = buftmp \o s
      <3>1. buftmp \o s \in Seq(Int)
        BY <1>5, ConcatProperties DEF RingInv
      <3>. QED
        BY <1>3, <1>6, <2>1, <3>1 DEF RingInv
    <2>2. CASE ctmp + 1 # 8 /\ ctmp' = ctmp + 1 /\ buftmp' = buftmp
      BY <1>3, <1>6, <2>2 DEF RingInv
    <2>. QED
      BY <1>6, <2>1, <2>2
  <1>10. SongInv'
    BY <1>1, <1>7 DEF SongInv
  <1>11. RoomInv'
    <2>1. CASE ctmp + 1 = 8 /\ ctmp' = 4 /\ buftmp' = buftmp \o s
      <3>. DEFINE l == Len(buftmp)
      <3>1. Len(buftmp \o s) = l + Len(s)
        <4>1. buftmp \in Seq(Int)
          BY DEF RingInv
        <4>. HIDE DEF IInv
        <4>. QED
          BY <1>5, <4>1, ConcatProperties
      <3>2. Len(buftmp') = l + 2
        BY <1>5, <2>1, <3>1
      <3>3. /\ l \in Nat /\ ctmp = 7 /\ chunk \in Nat /\ left \in 0 .. chunk
            /\ 2 * l + ctmp <= 7 + chunk - left
        BY <1>8, <2>1 DEF RingInv, SongInv, RoomInv
      <3>. HIDE DEF l, IInv
      <3>4. 2 * (l + 2) + 4 <= 7 + chunk - (left - 1)
        BY <3>3
      <3>5. 2 * Len(buftmp') + ctmp' <= 7 + chunk' - left'
        BY <1>7, <2>1, <3>2, <3>4
      <3>. QED
        BY <1>7, <2>1, <3>5 DEF RoomInv
    <2>2. CASE ctmp + 1 # 8 /\ ctmp' = ctmp + 1 /\ buftmp' = buftmp
      BY <1>7, <1>8, <2>2 DEF RoomInv, SongInv, RingInv
    <2>. QED
      BY <1>6, <2>1, <2>2
  <1>. QED
    BY <1>9, <1>10, <1>11

(* Every step keeps the invariant.                                         *)
LEMMA IInvStep == IInv /\ [Next]_vars => IInv'
  <1>. SUFFICES ASSUME IInv, [Next]_vars PROVE IInv'
    OBVIOUS
  <1>. USE DEF detectorVars, ringVars, sampleVars, songVars, endVars
  <1>1. Len(buftmp) \in Nat /\ Len(sound) \in Nat
    BY LenProperties DEF IInv, RingInv, SongInv
  <1>2. ASSUME NEW n \in Buffers, Write(n) PROVE IInv'
    <2>1. n \in Nat
      BY SongAssumption
    <2>2. /\ chunk' = n /\ left' = n /\ pc = "play" /\ pc' = "update"
          /\ fed + n <= Len(sound) /\ sound' = sound /\ fed' = fed
          /\ tmp' = tmp /\ itmp' = itmp /\ ctmp' = ctmp /\ buftmp' = buftmp
      BY <1>2 DEF Write
    <2>3. Len(buftmp) = 0
      BY <2>2 DEF IInv, RoomInv
    <2>4. RingInv' /\ SongInv'
      BY <1>1, <2>1, <2>2 DEF IInv, RingInv, SongInv
    <2>5. RoomInv'
      BY <2>1, <2>2, <2>3 DEF IInv, RingInv, RoomInv
    <2>. QED
      BY <2>4, <2>5 DEF IInv
  <1>3. CASE Update
    BY <1>3, UpdateStep
  <1>4. CASE UpdateEnds
    <2>1. /\ buftmp' = <<>> /\ left = 0 /\ left' = left /\ chunk' = chunk
          /\ sound' = sound /\ fed' = fed
          /\ tmp' = tmp /\ itmp' = itmp /\ ctmp' = ctmp
      BY <1>4 DEF UpdateEnds, Keep
    <2>2. buftmp' \in Seq(Int) /\ Len(buftmp') = 0
      BY <2>1
    <2>. QED
      BY <1>1, <2>1, <2>2 DEF IInv, RingInv, SongInv, RoomInv
  <1>5. ASSUME UNCHANGED <<detectorVars, songVars>>,
               pc' = pc \/ (pc # "update" /\ pc' # "update")
        PROVE  IInv'
    BY <1>5 DEF IInv, RingInv, SongInv, RoomInv
  <1>6. CASE LimitEnds \/ PlayFails \/ ApplyDetector \/ ApplyTrimmer \/ Done
             \/ UNCHANGED vars
    <2>1. UNCHANGED <<detectorVars, songVars>>
      BY <1>6
      DEF LimitEnds, PlayFails, ApplyDetector, ApplyTrimmer, Done, vars
    <2>2. pc' = pc \/ (pc # "update" /\ pc' # "update")
      BY <1>6
      DEF LimitEnds, PlayFails, ApplyDetector, ApplyTrimmer, Done, vars
    <2>. QED
      BY <1>5, <2>1, <2>2
  <1>7. ASSUME NEW s, NEW n, SongEnds(s, n) PROVE IInv'
    BY <1>5, <1>7 DEF SongEnds
  <1>. QED
    BY <1>2, <1>3, <1>4, <1>6, <1>7 DEF Next

(* The invariant holds throughout.                                         *)
LEMMA Invariance == Spec => []IInv
  BY InitIInv, IInvStep, PTL DEF Spec

(* For songs, buffers and rates of every size, update never writes past    *)
(* the end of buftmp, whatever its ring still holds of the last update.    *)
THEOREM BufTmpIsEnough == Spec => []BufTmpFits
  <1>1. IInv => BufTmpFits
    <2>. SUFFICES ASSUME IInv PROVE Len(buftmp) <= Room(chunk)
      BY DEF BufTmpFits
    <2>1. Len(buftmp) \in Nat
      BY LenProperties DEF IInv, RingInv
    <2>2. /\ 2 * Len(buftmp) <= chunk + 7
          /\ Len(buftmp) > 0 => 2 * Len(buftmp) <= chunk + 3
      <3>. DEFINE l == Len(buftmp)
      <3>1. /\ l \in Nat /\ ctmp \in 0 .. 7
            /\ chunk \in Nat /\ left \in 0 .. chunk
            /\ 2 * l + ctmp <= 7 + chunk - left
            /\ l > 0 => ctmp >= 4
        BY <2>1 DEF IInv, RingInv, SongInv, RoomInv
      <3>. HIDE DEF l
      <3>2. 2 * l <= chunk + 7 /\ (l > 0 => 2 * l <= chunk + 3)
        BY <3>1
      <3>. QED
        BY <3>2 DEF l
    <2>3. chunk \in Nat
      BY DEF IInv, SongInv
    <2>. QED
      BY <2>1, <2>2, <2>3, RoomIsEnough
  <1>. QED
    BY <1>1, Invariance, PTL

LEMMA DivIsNat ==
  ASSUME NEW a \in Nat, NEW b \in Nat \ {0}
  PROVE  a \div b \in Nat
  OBVIOUS

LEMMA ProductIsNat ==
  ASSUME NEW a \in Nat, NEW b \in Nat
  PROVE  a * b \in Nat
  OBVIOUS

LEMMA RepeatIsNat == Repeat \in Nat /\ SamplesPerSec \in Nat
  <1>1. SamplesPerSec \in Nat
    BY DivIsNat, RateAssumption DEF SamplesPerSec
  <1>2. RepeatThreshold \in Nat
    BY LoopAssumption
  <1>3. RepeatThreshold * SamplesPerSec \in Nat
    BY <1>1, <1>2, ProductIsNat
  <1>. QED
    BY <1>1, <1>3, DivIsNat, RateAssumption DEF Repeat, SamplesIn

(* Whatever the crossings are, a loop is shorter than a third.             *)
LEMMA LooplenIsShort ==
  ASSUME NEW n \in Nat, n >= 3, NEW strict, NEW l \in Looplens(n, strict)
  PROVE  l \in Nat /\ l < n \div 3
  <1>. DEFINE D == Distances(n)
  <1>1. PICK p \in D, m \in D : l = GetLooplen(n, p, m, strict)
    BY DEF Looplens
  <1>2. p.avg \in Nat /\ m.avg \in Nat
    BY <1>1 DEF Distances
  <1>3. Length(p, m, strict) \in Nat
    BY <1>2 DEF Length, Largest
  <1>. DEFINE len == Length(p, m, strict)
              samples == (len * SamplesPerSec) \div AcrPerSec
  <1>4. samples \in Nat
    <2>1. len * SamplesPerSec \in Nat
      BY <1>3, RepeatIsNat, ProductIsNat
    <2>. QED
      BY <2>1, DivIsNat, LoopAssumption
  <1>5. l = IF samples >= n \div 3 \/ (strict /\ len <= AcrPerSec)
            THEN 0 ELSE samples
    BY <1>1 DEF GetLooplen
  <1>6. n \div 3 \in Nat /\ n \div 3 > 0
    OBVIOUS
  <1>. HIDE DEF samples, len
  <1>7. l = 0 \/ (l = samples /\ ~ (samples >= n \div 3))
    BY <1>5, Zenon
  <1>. QED
    BY <1>4, <1>6, <1>7

(* detect_repeat and detect_loop never read past the samples of a song     *)
(* that is at least twelve times REPEAT_THRESHOLD, 72 s, and the minute    *)
(* they skip: PRECALC_TIMEOUT, when they are called, is an hour.           *)
THEOREM LoopSearchStaysInside ==
  ASSUME NEW n \in Nat, n >= 12 * Repeat, n >= 3,
         n >= LoopSeconds * SamplesPerSec
  PROVE  ReadsIn(n)
  <1>1. Repeat \in Nat
    BY RepeatIsNat
  <1>2. LoopSeconds * SamplesPerSec <= n
    <2>1. LoopSeconds * SamplesPerSec \in Nat
      BY RepeatIsNat, ProductIsNat, LoopAssumption
    <2>. QED
      BY <2>1
  <1>3. ASSUME NEW l \in Nat, NEW offs \in Nat,
               offs + l + (n \div 2) - 2 <= n
        PROVE  ReadTo(n, l, offs) <= n
    BY <1>3 DEF ReadTo, Window
  <1>4. ASSUME NEW dist \in 1 .. Repeat
        PROVE  ReadTo(n, RepeatLen(dist), 0) <= n
    <2>1. RepeatLen(dist) \in Nat /\ RepeatLen(dist) <= 2 * Repeat
      BY <1>1 DEF RepeatLen, Largest
    <2>. QED
      BY <1>1, <1>3, <2>1
  <1>5. ASSUME NEW l \in StrictLens(n)
        PROVE  l \in Nat /\ (l < n \div 3 \/ l = Repeat)
    <2>1. PICK k \in Looplens(n, TRUE) :
            l = IF k > 0 THEN Largest(k, Repeat) ELSE 0
      BY DEF StrictLens
    <2>2. k \in Nat /\ k < n \div 3
      BY LooplenIsShort
    <2>. QED
      BY <1>1, <2>1, <2>2 DEF Largest
  <1>6. ASSUME NEW l \in StrictLens(n) \cup Looplens(n, FALSE)
        PROVE  ReadTo(n, l, 0) <= n
    <2>1. l \in Nat /\ (l < n \div 3 \/ l = Repeat)
      BY <1>5, LooplenIsShort
    <2>. QED
      BY <1>1, <1>3, <2>1
  <1>7. ASSUME NEW l \in ShortLens(n), NEW offs \in Again(n)
        PROVE  ReadTo(n, l, offs) <= n
    <2>1. l \in Nat /\ l <= 2 * Repeat
      BY <1>5 DEF ShortLens
    <2>2. offs \in Nat /\ offs <= n \div 3
      BY DEF Again
    <2>. QED
      BY <1>1, <1>3, <2>1, <2>2
  <1>. QED
    BY <1>2, <1>4, <1>6, <1>7 DEF ReadsIn
------------------------------------------------------------------------------
(* What the samples are.                                                   *)

(* The frame that is i places after the oldest of the last eight.          *)
Ringed(i) == tmp[(itmp + i) % 8]

RingHolds ==
  /\ ctmp = IF fed < 8 THEN fed ELSE 4 + (fed % 4)
  /\ \A i \in 0 .. 7 : fed - 7 + i >= 1 => Ringed(i) = sound[fed - 7 + i]

(* The mean of six frames of s, from the first on.                         *)
Mean(s, first) ==
  Quotient(s[first] + s[first + 1] + s[first + 2] + s[first + 3]
           + s[first + 4] + s[first + 5], 6 * Scale)

(* The samples that n frames of s give.                                    *)
SamplesAre(all, s, n) ==
  /\ all \in Seq(Int)
  /\ Len(all) = IF n < 8 THEN 0 ELSE 2 * (n \div 4 - 1)
  /\ \A j \in 1 .. Len(all) : all[j] = Mean(s, 2 * j - 1)

SmoothInv ==
  RingHolds /\ buf \in Seq(Int) /\ SamplesAre(buf \o buftmp, sound, fed)

LEMMA InitSmooth == Init => SmoothInv
  <1>. SUFFICES ASSUME Init PROVE SmoothInv
    OBVIOUS
  <1>1. buf = <<>> /\ buftmp = <<>> /\ fed = 0 /\ ctmp = 0
    BY DEF Init, InitDetector
  <1>2. buf \o buftmp = <<>>
    BY <1>1
  <1>3. SamplesAre(<<>>, sound, fed)
    BY <1>1 DEF SamplesAre
  <1>. QED
    BY <1>1, <1>2, <1>3 DEF SmoothInv, RingHolds

(* A frame more turns the ring by one.                                     *)
LEMMA RingTurns ==
  ASSUME NEW at \in 0 .. 7, NEW r \in [0 .. 7 -> Int], NEW val \in Int
  PROVE  LET turned == [r EXCEPT ![at] = val]
             next   == (at + 1) % 8
         IN
         /\ turned[(next + 7) % 8] = val
         /\ \A i \in 0 .. 6 : turned[(next + i) % 8] = r[(at + (i + 1)) % 8]
  <1>1. (((at + 1) % 8) + 7) % 8 = at
    OBVIOUS
  <1>2. ASSUME NEW i \in 0 .. 6
        PROVE  /\ (((at + 1) % 8) + i) % 8 = (at + (i + 1)) % 8
               /\ (at + (i + 1)) % 8 \in 0 .. 7
               /\ (at + (i + 1)) % 8 # at
    OBVIOUS
  <1>. QED
    BY <1>1, <1>2

(* The ring is at its start again every eight frames, and every four make  *)
(* two samples.                                                            *)
LEMMA FramesAndSamples ==
  ASSUME NEW n \in Nat, NEW c, NEW l,
         c = IF n < 8 THEN n ELSE 4 + (n % 4),
         l = IF n < 8 THEN 0 ELSE 2 * (n \div 4 - 1)
  PROVE  /\ (IF c + 1 = 8 THEN 4 ELSE c + 1)
              = IF n + 1 < 8 THEN n + 1 ELSE 4 + ((n + 1) % 4)
         /\ (IF c + 1 = 8 THEN l + 2 ELSE l)
              = IF n + 1 < 8 THEN 0 ELSE 2 * ((n + 1) \div 4 - 1)
         /\ c + 1 = 8 => /\ l \in Nat /\ n >= 7
                        /\ 2 * (l + 1) - 1 = n - 6
                        /\ 2 * (l + 2) - 1 = n - 4
  <1>1. CASE n < 7
    BY <1>1
  <1>2. CASE n = 7
    <2>1. /\ n + 1 = 8 /\ 8 \div 4 = 2 /\ 8 % 4 = 0
          /\ c = 7 /\ l = 0
      BY <1>2
    <2>. QED
      BY <1>2, <2>1
  <1>3. CASE n >= 8
    <2>. DEFINE q == n \div 4
                r == n % 4
    <2>1. n = 4 * q + r /\ q \in Nat /\ r \in 0 .. 3 /\ q >= 2
      BY <1>3
    <2>2. /\ (n + 1) \div 4 = IF r = 3 THEN q + 1 ELSE q
          /\ (n + 1) % 4 = IF r = 3 THEN 0 ELSE r + 1
      BY <1>3
    <2>. HIDE DEF q, r
    <2>3. c = 4 + r /\ l = 2 * (q - 1)
      <3>1. ~(n < 8)
        BY <1>3
      <3>. QED
        BY <3>1, Zenon DEF q, r
    <2>4. CASE r = 3
      BY <1>3, <2>1, <2>2, <2>3, <2>4
    <2>5. CASE r # 3
      BY <1>3, <2>1, <2>2, <2>3, <2>5
    <2>. QED
      BY <2>4, <2>5
  <1>. QED
    BY <1>1, <1>2, <1>3

(* Two samples more.                                                       *)
LEMMA TwoMore ==
  ASSUME NEW p \in Seq(Int), NEW q \in Seq(Int), NEW x \in Int, NEW y \in Int
  PROVE  /\ p \o (q \o <<x, y>>) \in Seq(Int)
         /\ Len(p \o (q \o <<x, y>>)) = Len(p \o q) + 2
         /\ \A j \in 1 .. Len(p \o q) :
              (p \o (q \o <<x, y>>))[j] = (p \o q)[j]
         /\ (p \o (q \o <<x, y>>))[Len(p \o q) + 1] = x
         /\ (p \o (q \o <<x, y>>))[Len(p \o q) + 2] = y
  <1>1. ASSUME NEW a \in Seq(Int)
        PROVE  /\ a \o <<x, y>> \in Seq(Int)
               /\ Len(a \o <<x, y>>) = Len(a) + 2
               /\ \A j \in 1 .. Len(a) : (a \o <<x, y>>)[j] = a[j]
               /\ (a \o <<x, y>>)[Len(a) + 1] = x
               /\ (a \o <<x, y>>)[Len(a) + 2] = y
    OBVIOUS
  <1>2. p \o (q \o <<x, y>>) = (p \o q) \o <<x, y>>
    <2>1. ASSUME NEW t \in Seq(Int) PROVE (p \o q) \o t = p \o (q \o t)
      BY ConcatAssociative
    <2>. QED
      BY <2>1
  <1>3. p \o q \in Seq(Int)
    OBVIOUS
  <1>. QED
    BY <1>1, <1>2, <1>3

(* A turn of update's loop.                                                *)
LEMMA UpdateSmooth ==
  ASSUME IInv, SmoothInv, Update
  PROVE  SmoothInv'
  <1>. DEFINE val  == sound[fed + 1]
              ring == [tmp EXCEPT ![itmp] = val]
              next == (itmp + 1) % 8
              b    == [i \in 0 .. 7 |-> ring[(next + i) % 8]]
              all  == buf \o buftmp
              l    == Len(all)
  <1>1. fed + 1 \in 1 .. Len(sound) /\ Len(sound) \in Nat /\ fed \in Nat
    BY LenProperties DEF Update, IInv, SongInv
  <1>2. val \in Int
    BY <1>1, ElementOfSeq DEF IInv, SongInv
  <1>3. tmp \in [0 .. 7 -> Int] /\ itmp \in 0 .. 7 /\ buftmp \in Seq(Int)
    BY DEF IInv, RingInv
  <1>4. ring \in [0 .. 7 -> Int] /\ next \in 0 .. 7
    BY <1>2, <1>3
  <1>5. /\ tmp' = ring /\ itmp' = next
        /\ ctmp' = IF ctmp + 1 = 8 THEN 4 ELSE ctmp + 1
        /\ ctmp + 1 = 8 => buftmp' = buftmp \o Smoothed(b)
        /\ ctmp + 1 # 8 => buftmp' = buftmp
        /\ buf' = buf /\ fed' = fed + 1 /\ sound' = sound
    BY Zenon DEF Update, Feed
  <1>6. /\ ring[(next + 7) % 8] = val
        /\ \A i \in 0 .. 6 : ring[(next + i) % 8] = Ringed(i + 1)
    <2>. QED
      BY <1>2, <1>3, RingTurns DEF Ringed
  <1>. HIDE DEF ring, next
  <1>7. \A i \in 0 .. 7 : fed - 6 + i >= 1 => b[i] = sound[fed - 6 + i]
    <2>. SUFFICES ASSUME NEW i \in 0 .. 7, fed - 6 + i >= 1
                  PROVE  ring[(next + i) % 8] = sound[fed - 6 + i]
      OBVIOUS
    <2>1. CASE i = 7
      <3>1. fed - 6 + i = fed + 1
        BY <1>1, <2>1
      <3>. QED
        BY <1>6, <2>1, <3>1
    <2>2. CASE i # 7
      <3>1. /\ i \in 0 .. 6 /\ i + 1 \in 0 .. 7
            /\ fed - 7 + (i + 1) = fed - 6 + i
        BY <1>1, <2>2
      <3>2. Ringed(i + 1) = sound[fed - 7 + (i + 1)]
        BY <3>1 DEF SmoothInv, RingHolds
      <3>. QED
        BY <1>6, <3>1, <3>2
    <2>. QED
      BY <2>1, <2>2
  <1>8. RingHolds'
    <2>1. ctmp' = IF fed + 1 < 8 THEN fed + 1 ELSE 4 + ((fed + 1) % 4)
      BY <1>1, <1>5, FramesAndSamples DEF SmoothInv, RingHolds
    <2>2. ASSUME NEW i \in 0 .. 7, fed' - 7 + i >= 1
          PROVE  Ringed(i)' = sound'[fed' - 7 + i]
      <3>1. fed' - 7 + i = fed - 6 + i /\ fed - 6 + i >= 1
        BY <1>1, <1>5, <2>2
      <3>2. Ringed(i)' = b[i]
        BY <1>5 DEF Ringed
      <3>. QED
        BY <1>5, <1>7, <3>1, <3>2
    <2>. QED
      BY <1>5, <2>1, <2>2 DEF RingHolds
  <1>9. SamplesAre(all, sound, fed) /\ all \in Seq(Int) /\ buf \in Seq(Int)
    BY DEF SmoothInv, SamplesAre
  <1>10. /\ ctmp = IF fed < 8 THEN fed ELSE 4 + (fed % 4)
         /\ l = IF fed < 8 THEN 0 ELSE 2 * (fed \div 4 - 1)
    BY <1>9 DEF SmoothInv, RingHolds, SamplesAre
  <1>. HIDE DEF l
  <1>11. CASE ctmp + 1 = 8
    <2>2. /\ l \in Nat /\ fed >= 7
          /\ 2 * (l + 1) - 1 = fed - 6 /\ 2 * (l + 2) - 1 = fed - 4
          /\ l + 2 = IF fed + 1 < 8 THEN 0 ELSE 2 * ((fed + 1) \div 4 - 1)
      BY <1>1, <1>10, <1>11, FramesAndSamples
    <2>4. b \in [0 .. 7 -> Int]
      BY <1>4
    <2>. HIDE DEF b
    <2>3. ASSUME NEW i \in 0 .. 7 PROVE b[i] = sound[fed - 6 + i]
      <3>1. fed - 6 + i >= 1
        BY <1>1, <2>2
      <3>. QED
        BY <1>7, <3>1
    <2>. DEFINE x == Mean(sound, fed - 6)
                y == Mean(sound, fed - 4)
    <2>5. Smoothed(b) = <<x, y>>
      <3>0. fed - 6 + 0 = fed - 6
        BY <1>1
      <3>1. /\ b[0] = sound[fed - 6] /\ b[1] = sound[fed - 6 + 1]
            /\ b[2] = sound[fed - 6 + 2] /\ b[3] = sound[fed - 6 + 3]
            /\ b[4] = sound[fed - 6 + 4] /\ b[5] = sound[fed - 6 + 5]
        BY <2>3, <3>0
      <3>2. /\ fed - 6 + 2 = fed - 4 /\ fed - 6 + 3 = fed - 4 + 1
            /\ fed - 6 + 4 = fed - 4 + 2 /\ fed - 6 + 5 = fed - 4 + 3
            /\ fed - 6 + 6 = fed - 4 + 4 /\ fed - 6 + 7 = fed - 4 + 5
        BY <1>1
      <3>3. /\ b[2] = sound[fed - 4] /\ b[3] = sound[fed - 4 + 1]
            /\ b[4] = sound[fed - 4 + 2] /\ b[5] = sound[fed - 4 + 3]
            /\ b[6] = sound[fed - 4 + 4] /\ b[7] = sound[fed - 4 + 5]
        BY <2>3, <3>2
      <3>4. /\ b[0] \in Int /\ b[1] \in Int /\ b[2] \in Int /\ b[3] \in Int
            /\ b[4] \in Int /\ b[5] \in Int /\ b[6] \in Int /\ b[7] \in Int
        BY <2>4
      <3>5. x = Quotient(b[0] + b[1] + (b[2] + b[3] + b[4] + b[5]), 6 * Scale)
        <4>1. b[0] + b[1] + (b[2] + b[3] + b[4] + b[5])
                = b[0] + b[1] + b[2] + b[3] + b[4] + b[5]
          BY <3>4
        <4>. QED
          BY <3>1, <4>1 DEF Mean
      <3>6. y = Quotient(b[2] + b[3] + b[4] + b[5] + b[6] + b[7], 6 * Scale)
        BY <3>3 DEF Mean
      <3>. HIDE DEF x, y
      <3>. QED
        BY <3>5, <3>6 DEF Smoothed
    <2>6. x \in Int /\ y \in Int
      <3>1. Smoothed(b)[1] \in Int /\ Smoothed(b)[2] \in Int
        BY <2>4, SmoothedInt
      <3>. HIDE DEF x, y
      <3>. QED
        BY <2>5, <3>1
    <2>. HIDE DEF x, y
    <2>. DEFINE new == buf \o (buftmp \o Smoothed(b))
    <2>7. /\ new \in Seq(Int) /\ Len(new) = Len(all) + 2
          /\ \A j \in 1 .. Len(all) : new[j] = all[j]
          /\ new[Len(all) + 1] = x /\ new[Len(all) + 2] = y
      <3>1. new = buf \o (buftmp \o <<x, y>>)
        BY <2>5
      <3>2. buf \in Seq(Int) /\ buftmp \in Seq(Int)
        BY <1>3, <1>9
      <3>. HIDE DEF new
      <3>. DEFINE o == buf \o (buftmp \o <<x, y>>)
      <3>3. /\ o \in Seq(Int) /\ Len(o) = Len(all) + 2
            /\ o[Len(all) + 1] = x /\ o[Len(all) + 2] = y
        BY <2>6, <3>2, TwoMore
      <3>4. \A j \in 1 .. Len(all) : o[j] = all[j]
        BY <2>6, <3>2, TwoMore
      <3>. QED
        BY <3>1, <3>3, <3>4
    <2>8. (buf \o buftmp)' = new
      BY <1>5, <1>11
    <2>. HIDE DEF new, all
    <2>9. ASSUME NEW j \in 1 .. Len(new) PROVE new[j] = Mean(sound, 2 * j - 1)
      <3>1. \A k \in 1 .. l : all[k] = Mean(sound, 2 * k - 1)
        BY <1>9 DEF SamplesAre, l
      <3>2. CASE j \in 1 .. l
        BY <2>7, <3>1, <3>2 DEF l
      <3>3. CASE j = l + 1
        BY <2>2, <2>7, <3>3 DEF x, l
      <3>4. CASE j = l + 2
        BY <2>2, <2>7, <3>4 DEF y, l
      <3>5. Len(new) = l + 2
        BY <2>7 DEF l
      <3>. QED
        BY <2>2, <3>2, <3>3, <3>4, <3>5
    <2>10. SamplesAre(new, sound, fed + 1)
      <3>1. Len(new) = l + 2
        BY <2>7 DEF l
      <3>. QED
        BY <2>2, <2>7, <2>9, <3>1 DEF SamplesAre
    <2>11. SamplesAre(buf' \o buftmp', sound', fed')
      BY <1>5, <2>8, <2>10
    <2>. QED
      BY <1>5, <1>8, <1>9, <2>11 DEF SmoothInv
  <1>12. CASE ctmp + 1 # 8
    <2>1. buf' \o buftmp' = all
      BY <1>5, <1>12
    <2>2. l = IF fed + 1 < 8 THEN 0 ELSE 2 * ((fed + 1) \div 4 - 1)
      BY <1>1, <1>10, <1>12, FramesAndSamples
    <2>. HIDE DEF all
    <2>3. SamplesAre(all, sound, fed + 1)
      BY <1>9, <2>2 DEF SamplesAre, l
    <2>4. SamplesAre(buf' \o buftmp', sound', fed')
      BY <1>5, <2>1, <2>3
    <2>. QED
      BY <1>5, <1>8, <1>9, <2>4 DEF SmoothInv
  <1>. QED
    BY <1>11, <1>12

(* The samples are kept, and what comes before and after a song is over    *)
(* leaves them as they are.                                                *)
LEMMA SmoothStep == IInv /\ SmoothInv /\ [Next]_vars => SmoothInv'
  <1>. SUFFICES ASSUME IInv, SmoothInv, [Next]_vars PROVE SmoothInv'
    OBVIOUS
  <1>. USE DEF detectorVars, ringVars, sampleVars, songVars
  <1>1. ASSUME tmp' = tmp, itmp' = itmp, ctmp' = ctmp, fed' = fed,
               sound' = sound, buf' \in Seq(Int),
               buf' \o buftmp' = buf \o buftmp
        PROVE  SmoothInv'
    <2>1. RingHolds'
      BY <1>1 DEF SmoothInv, RingHolds, Ringed
    <2>2. SamplesAre(buf' \o buftmp', sound', fed')
      BY <1>1 DEF SmoothInv
    <2>. QED
      BY <1>1, <2>1, <2>2 DEF SmoothInv
  <1>2. CASE Update
    BY <1>2, UpdateSmooth
  <1>3. CASE UpdateEnds
    <2>1. /\ buf' = buf \o buftmp /\ buftmp' = <<>> /\ tmp' = tmp
          /\ itmp' = itmp /\ ctmp' = ctmp /\ fed' = fed /\ sound' = sound
      BY <1>3 DEF UpdateEnds, Keep
    <2>2. buf \o buftmp \in Seq(Int)
      BY DEF SmoothInv, IInv, RingInv
    <2>3. buf' \o buftmp' = buf \o buftmp
      <3>. DEFINE all == buf \o buftmp
      <3>. HIDE DEF all
      <3>1. all \in Seq(Int) /\ buf' = all
        BY <2>1, <2>2 DEF all
      <3>2. all \o <<>> = all
        BY <3>1
      <3>. QED
        BY <2>1, <3>1, <3>2 DEF all
    <2>. QED
      BY <1>1, <2>1, <2>2, <2>3
  <1>4. CASE UNCHANGED <<detectorVars, fed, sound>>
    <2>1. buf' \o buftmp' = buf \o buftmp
      BY <1>4
    <2>. QED
      BY <1>1, <1>4, <2>1 DEF SmoothInv
  <1>5. CASE \/ \E n \in Buffers : Write(n)
             \/ LimitEnds \/ PlayFails \/ ApplyDetector \/ ApplyTrimmer
             \/ Done \/ UNCHANGED vars
             \/ \E s \in {"PLAYER", "ERROR", "DETECT_SILENCE"},
                   n \in Buffers \cup {0} : SongEnds(s, n)
    <2>1. UNCHANGED <<detectorVars, fed, sound>>
      BY <1>5 DEF Write, LimitEnds, PlayFails, ApplyDetector, ApplyTrimmer,
        Done, vars, SongEnds
    <2>. QED
      BY <1>4, <2>1
  <1>. QED
    BY <1>2, <1>3, <1>5 DEF Next

LEMMA SmoothInvariance == Spec => []SmoothInv
  BY InitSmooth, SmoothStep, Invariance, PTL DEF Spec

(* Whatever the song, and wherever it is split into buffers, the samples   *)
(* are the means of its frames, with none lost and nothing in between.     *)
THEOREM SamplesAreMeans == Spec => []BufIsSmoothed
  <1>1. SmoothInv => BufIsSmoothed
    <2>. SUFFICES ASSUME SmoothInv, NEW j \in 1 .. Len(buf \o buftmp)
                  PROVE  (buf \o buftmp)[j] =
                           Quotient(sound[2 * j - 1] + sound[2 * j]
                                    + sound[2 * j + 1] + sound[2 * j + 2]
                                    + sound[2 * j + 3] + sound[2 * j + 4],
                                    6 * Scale)
      BY DEF SmoothInv, SamplesAre, BufIsSmoothed
    <2>1. (buf \o buftmp)[j] = Mean(sound, 2 * j - 1)
      BY DEF SmoothInv, SamplesAre
    <2>2. /\ (2 * j - 1) + 1 = 2 * j /\ (2 * j - 1) + 2 = 2 * j + 1
          /\ (2 * j - 1) + 3 = 2 * j + 2 /\ (2 * j - 1) + 4 = 2 * j + 3
          /\ (2 * j - 1) + 5 = 2 * j + 4
      OBVIOUS
    <2>. QED
      BY <2>1, <2>2 DEF Mean
  <1>. QED
    BY <1>1, SmoothInvariance, PTL
------------------------------------------------------------------------------
(* What is known when the detector is asked.                               *)

(* A song that reaches the limit is over it by less than a second.         *)
StageInv ==
  /\ fed + left < Limit + Freq
  /\ pc \in {"play", "update", "detect"} =>
       status = "TIMEOUT" /\ length = PrecalcTimeout * MsPerSec
  /\ pc = "detect" => fed >= Limit

LEMMA TimesMono ==
  ASSUME NEW c \in Nat, NEW a \in Int, NEW b \in Int, a <= b
  PROVE  c * a <= c * b
  OBVIOUS

LEMMA TimesCancels ==
  ASSUME NEW c \in Nat \ {0}, NEW a \in Int, NEW b \in Int, c * a < c * b
  PROVE  a < b
  <1>. SUFFICES ASSUME b <= a PROVE FALSE
    OBVIOUS
  <1>1. c * b <= c * a
    BY TimesMono
  <1>. QED
    BY <1>1

LEMMA DivBounds ==
  ASSUME NEW a \in Int, NEW d \in Nat \ {0}
  PROVE  a \div d \in Int /\ d * (a \div d) <= a /\ a < d * (a \div d) + d
  OBVIOUS

(* A second has at least four samples a ms.                                *)
LEMMA RateFacts ==
  /\ SamplesPerSec \in Nat \ {0} /\ MsPerSec \in Nat \ {0}
  /\ Freq \in Nat
  /\ SamplesPerSec >= 4 * MsPerSec
  /\ 2 * SamplesPerSec <= Freq /\ Freq <= 2 * SamplesPerSec + 1
  BY RateAssumption, ValuesAssumption DEF SamplesPerSec

LEMMA LimitFacts ==
  /\ PrecalcTimeout \in Nat /\ Limit \in Nat /\ PrecalcTimeout >= 3
  /\ Limit = PrecalcTimeout * Freq
  /\ PrecalcTimeout * MsPerSec \in Nat
  <1>1. PrecalcTimeout \in Nat /\ Freq \in Nat /\ MsPerSec \in Nat
    BY LimitsAssumption, RateFacts
  <1>. QED
    BY <1>1, ProductIsNat, ValuesAssumption DEF Limit

LEMMA InitStage == Init => StageInv
  <1>. SUFFICES ASSUME Init PROVE StageInv
    OBVIOUS
  <1>1. 0 + 0 < Limit + Freq
    BY LimitFacts, RateAssumption
  <1>. QED
    BY <1>1 DEF Init, StageInv

LEMMA StageStep == IInv /\ StageInv /\ [Next]_vars => StageInv'
  <1>. SUFFICES ASSUME IInv, StageInv, [Next]_vars PROVE StageInv'
    OBVIOUS
  <1>. USE DEF detectorVars, songVars, endVars
  <1>1. /\ fed \in Nat /\ left \in Int /\ Limit \in Nat /\ Freq \in Nat
        /\ pc # "update" => left = 0
    BY LimitFacts, RateFacts DEF IInv, SongInv, RoomInv
  <1>2. ASSUME NEW n \in Buffers, Write(n) PROVE StageInv'
    <2>1. n \in Nat /\ n <= Freq
      BY SongAssumption, ValuesAssumption
    <2>2. /\ fed' = fed /\ left' = n /\ fed < Limit /\ pc = "play"
          /\ pc' = "update" /\ status' = status /\ length' = length
      BY <1>2 DEF Write
    <2>3. fed' + left' < Limit + Freq
      BY <1>1, <2>1, <2>2
    <2>. QED
      BY <2>2, <2>3 DEF StageInv
  <1>3. CASE Update
    <2>1. /\ fed' = fed + 1 /\ left' = left - 1 /\ pc' = pc /\ pc = "update"
          /\ status' = status /\ length' = length
      BY <1>3 DEF Update
    <2>2. fed' + left' = fed + left
      BY <1>1, <2>1
    <2>. QED
      BY <2>1, <2>2 DEF StageInv
  <1>4. CASE UpdateEnds
    BY <1>4 DEF UpdateEnds, StageInv
  <1>5. CASE LimitEnds
    BY <1>5 DEF LimitEnds, StageInv
  <1>6. CASE \/ PlayFails \/ ApplyDetector \/ ApplyTrimmer
             \/ \E s \in {"PLAYER", "ERROR", "DETECT_SILENCE"},
                   n \in Buffers \cup {0} : SongEnds(s, n)
    <2>1. UNCHANGED songVars /\ pc' \in {"trim", "done"}
      BY <1>6 DEF PlayFails, ApplyDetector, ApplyTrimmer, SongEnds
    <2>. QED
      BY <2>1 DEF StageInv
  <1>7. CASE Done \/ UNCHANGED vars
    BY <1>7 DEF Done, vars, StageInv
  <1>. QED
    BY <1>2, <1>3, <1>4, <1>5, <1>6, <1>7 DEF Next

LEMMA StageInvariance == Spec => []StageInv
  BY InitStage, StageStep, Invariance, PTL DEF Spec

(* A song that reaches the limit gives half as many samples as frames, but *)
(* for what is held back of them.                                          *)
LEMMA SamplesAtLimit ==
  ASSUME IInv, SmoothInv, StageInv, pc = "detect"
  PROVE  LET n == Len(buf) IN
         /\ n \in Nat
         /\ n >= PrecalcTimeout * SamplesPerSec - 3
         /\ n \div 2 \in Nat
         /\ 4 * (n \div 2) <
              2 * (PrecalcTimeout * SamplesPerSec) + PrecalcTimeout
                + 2 * SamplesPerSec
  <1>. DEFINE g == PrecalcTimeout * SamplesPerSec
              n == Len(buf)
  <1>1. buftmp = <<>> /\ buf \in Seq(Int)
    <2>1. Len(buftmp) = 0 /\ buftmp \in Seq(Int)
      BY DEF IInv, RoomInv, RingInv
    <2>. QED
      BY <2>1, EmptySeq DEF SmoothInv
  <1>2. n \in Nat /\ n = IF fed < 8 THEN 0 ELSE 2 * (fed \div 4 - 1)
    <2>1. buf \o buftmp = buf
      BY <1>1
    <2>. QED
      BY <1>1, <2>1, LenProperties DEF SmoothInv, SamplesAre
  <1>3. /\ fed \in Nat /\ fed >= Limit /\ fed < Limit + Freq
    <2>1. left = 0 /\ fed \in Nat
      BY DEF IInv, RoomInv, SongInv
    <2>. QED
      BY <2>1, LimitFacts, RateFacts DEF StageInv
  <1>4. g \in Nat /\ g >= 12
    <2>1. SamplesPerSec \in Nat /\ SamplesPerSec >= 4
      BY RateFacts
    <2>2. PrecalcTimeout * 4 <= PrecalcTimeout * SamplesPerSec
      BY <2>1, LimitFacts, TimesMono
    <2>. QED
      BY <2>1, <2>2, LimitFacts, ProductIsNat
  <1>5. 2 * g <= Limit /\ Limit <= 2 * g + PrecalcTimeout
    <2>1. /\ PrecalcTimeout * (2 * SamplesPerSec) <= PrecalcTimeout * Freq
          /\ PrecalcTimeout * Freq <= PrecalcTimeout * (2 * SamplesPerSec + 1)
      BY LimitFacts, RateFacts, TimesMono
    <2>2. /\ PrecalcTimeout * (2 * SamplesPerSec) = 2 * g
          /\ PrecalcTimeout * (2 * SamplesPerSec + 1) = 2 * g + PrecalcTimeout
      BY LimitFacts, RateFacts
    <2>. QED
      BY <2>1, <2>2, LimitFacts
  <1>. HIDE DEF g, n
  <1>6. fed >= 24 /\ n = 2 * (fed \div 4 - 1)
    BY <1>2, <1>3, <1>4, <1>5, LimitFacts
  <1>7. n >= g - 3 /\ n \div 2 = fed \div 4 - 1
    BY <1>3, <1>4, <1>5, <1>6, LimitFacts
  <1>8. 4 * (fed \div 4 - 1) < 2 * g + PrecalcTimeout + 2 * SamplesPerSec
    BY <1>3, <1>4, <1>5, LimitFacts, RateFacts
  <1>. QED
    BY <1>2, <1>3, <1>6, <1>7, <1>8 DEF g, n

(* The threshold for a repeat, in samples.                                 *)
LEMMA RepeatFacts ==
  /\ Repeat \in Nat /\ RepeatThreshold \in Nat \ {0}
  /\ MsPerSec * Repeat <= RepeatThreshold * SamplesPerSec
  <1>1. RepeatThreshold \in Nat \ {0}
    BY LoopAssumption
  <1>2. RepeatThreshold * SamplesPerSec \in Nat
    BY <1>1, RateFacts, ProductIsNat
  <1>. QED
    BY <1>1, <1>2, RateFacts, RepeatIsNat, DivBounds DEF Repeat, SamplesIn

(* Samples that reach the limit are enough to look for loops in.           *)
LEMMA LimitIsEnough ==
  ASSUME NEW n \in Nat, n >= PrecalcTimeout * SamplesPerSec - 3
  PROVE  /\ n >= 12 * Repeat /\ n >= 3
         /\ n >= LoopSeconds * SamplesPerSec
  <1>. DEFINE s == SamplesPerSec
              m == MsPerSec
              g == PrecalcTimeout * s
              r == Repeat
              h == PrecalcTimeout * m
              t == RepeatThreshold * s
  <1>1. /\ s \in Nat /\ m \in Nat \ {0} /\ s >= 4 * m /\ r \in Nat
        /\ LoopSeconds \in Nat
    BY RateFacts, RepeatFacts, LoopAssumption
  <1>2. g \in Nat /\ h \in Nat /\ t \in Nat
    BY <1>1, LimitFacts, RepeatFacts, ProductIsNat
  <1>3. /\ (LoopSeconds + 1) * s <= g
        /\ (LoopSeconds + 1) * s = LoopSeconds * s + s
    <2>1. LoopSeconds + 1 <= PrecalcTimeout
      BY <1>1, LimitFacts, ValuesAssumption
    <2>2. s * (LoopSeconds + 1) <= s * PrecalcTimeout
      BY <1>1, <2>1, LimitFacts, TimesMono
    <2>. QED
      BY <1>1, <2>2, LimitFacts
  <1>4. 3 * s <= g
    <2>1. s * 3 <= s * PrecalcTimeout
      BY <1>1, LimitFacts, TimesMono
    <2>. QED
      BY <1>1, <2>1, LimitFacts
  <1>5. m * g >= m * (18 * r)
    <2>1. s * h >= s * (18 * RepeatThreshold)
      <3>1. 18 * RepeatThreshold <= h
        BY ValuesAssumption
      <3>. QED
        BY <1>1, <1>2, <3>1, RepeatFacts, TimesMono
    <2>2. s * h = m * g
      BY <1>1, LimitFacts
    <2>3. s * (18 * RepeatThreshold) = 18 * t
      BY <1>1, RepeatFacts
    <2>4. m * (18 * r) = 18 * (m * r)
      BY <1>1
    <2>5. m * r <= t /\ m * r \in Nat
      BY <1>1, RepeatFacts, ProductIsNat
    <2>. HIDE DEF s, m, g, r, h, t
    <2>6. m * (18 * r) <= 18 * t /\ m * (18 * r) \in Int
      BY <1>2, <2>4, <2>5
    <2>7. 18 * t <= m * g /\ 18 * t \in Int /\ m * g \in Int
      BY <1>1, <1>2, <2>1, <2>2, <2>3
    <2>. QED
      BY <2>6, <2>7
  <1>. HIDE DEF s, m, g, r, h, t
  <1>6. ~(g < 18 * r)
    <2>. SUFFICES ASSUME g + 1 <= 18 * r PROVE FALSE
      BY <1>1, <1>2
    <2>1. m * (g + 1) <= m * (18 * r)
      BY <1>1, <1>2, TimesMono
    <2>2. m * (g + 1) = m * g + m /\ m * g \in Nat
      BY <1>1, <1>2
    <2>. QED
      BY <1>1, <1>5, <2>1, <2>2
  <1>7. n >= g - 3
    BY DEF g, s
  <1>8. n >= 12 * r /\ n >= 3
    BY <1>1, <1>2, <1>4, <1>6, <1>7
  <1>9. n >= LoopSeconds * s
    <2>1. LoopSeconds * s \in Nat
      BY <1>1, ProductIsNat
    <2>. QED
      BY <1>1, <1>2, <1>3, <1>7, <2>1
  <1>. QED
    BY <1>8, <1>9 DEF r, s

(* The end of the samples that a repeat may go on to, in ms.               *)
LEMMA RepeatIsShort ==
  ASSUME NEW n \in Nat, n \div 2 \in Nat,
         4 * (n \div 2) < 2 * (PrecalcTimeout * SamplesPerSec)
                            + PrecalcTimeout + 2 * SamplesPerSec,
         NEW repeat \in Repeats(n)
  PROVE  repeat < PrecalcTimeout * MsPerSec
  <1>. DEFINE s == SamplesPerSec
              m == MsPerSec
              r == Repeat
              rt == RepeatThreshold
              g == PrecalcTimeout * s
              h == PrecalcTimeout * m
  <1>1. /\ s \in Nat \ {0} /\ m \in Nat \ {0} /\ s >= 4 * m /\ r \in Nat
        /\ rt \in Nat \ {0} /\ m * r <= rt * s
    BY RateFacts, RepeatFacts
  <1>2. /\ g \in Nat /\ h \in Nat /\ rt * s \in Nat /\ h >= 18 * rt
        /\ PrecalcTimeout \in Nat
    BY <1>1, LimitFacts, RepeatFacts, ProductIsNat, ValuesAssumption
  <1>3. CASE repeat = 0
    BY <1>1, <1>2, <1>3
  <1>4. ASSUME NEW dist \in 1 .. r, NEW start \in LoopStarts(n, 0),
               repeat = RepeatFromStart(dist, start)
        PROVE  repeat < h
    <2>. DEFINE looplen   == RepeatLen(dist)
                loopstart == IF start = NotFound THEN start
                             ELSE Largest(Repeat \div 2, start)
                x == (looplen + loopstart) * 3 * MsPerSec
                v == x \div (2 * SamplesPerSec)
    <2>1. repeat = 0 \/ (repeat = v /\ ~(v > 10 * RepeatThreshold))
      BY <1>4, Zenon DEF RepeatFromStart
    <2>2. start \in Int
      BY DEF LoopStarts, NotFound, Window
    <2>3. looplen \in Int /\ loopstart \in Int
      BY <1>1, <2>2 DEF RepeatLen, Largest, NotFound
    <2>. HIDE DEF looplen, loopstart
    <2>4. x \in Int /\ 2 * SamplesPerSec \in Nat \ {0}
      BY <2>3, RateFacts
    <2>. HIDE DEF x
    <2>5. v \in Int
      BY <2>4, DivBounds
    <2>. HIDE DEF v, h
    <2>. QED
      BY <1>1, <1>2, <2>1, <2>5
  <1>5. ASSUME NEW dist \in 1 .. r, NEW last \in 0 .. (n \div 2) + r,
               repeat = RepeatFrom(dist, last)
        PROVE  repeat < h
    <2>. DEFINE t == MillisOf(last)
                v == (dist * 3 * MsPerSec) \div (2 * SamplesPerSec)
                k == n \div 2
    <2>1. repeat = t + Largest(rt, v)
      BY <1>5 DEF RepeatFrom
    <2>2. t \in Int /\ s * t <= m * last
      <3>1. last * m \in Nat /\ last * m = m * last
        BY <1>1, ProductIsNat
      <3>. QED
        BY <1>1, <3>1, DivBounds DEF MillisOf
    <2>3. v \in Int /\ (2 * s) * v <= 3 * (m * dist)
      <3>1. dist * 3 * m \in Nat /\ dist * 3 * m = 3 * (m * dist)
        BY <1>1
      <3>2. 2 * s \in Nat \ {0}
        BY <1>1
      <3>. QED
        BY <3>1, <3>2, DivBounds
    <2>4. m * last <= m * (k + r) /\ m * (k + r) = m * k + m * r
          /\ m * k \in Nat /\ m * r \in Nat /\ m * last \in Nat
      BY <1>1, TimesMono
    <2>5. m * dist <= m * r /\ m * dist \in Nat
      BY <1>1, TimesMono
    <2>6. 4 * (m * k) < 2 * (s * h) + h + 2 * (s * m)
      <3>1. m * (4 * k) < m * (2 * g + PrecalcTimeout + 2 * s)
        <4>1. 4 * k + 1 <= 2 * g + PrecalcTimeout + 2 * s
          BY <1>1, <1>2
        <4>2. m * (4 * k + 1) <= m * (2 * g + PrecalcTimeout + 2 * s)
          BY <1>1, <1>2, <4>1, TimesMono
        <4>3. m * (4 * k + 1) = m * (4 * k) + m /\ m * (4 * k) \in Int
          BY <1>1
        <4>4. m * (2 * g + PrecalcTimeout + 2 * s) \in Int
          BY <1>1, <1>2
        <4>. HIDE DEF g, k, m, s
        <4>. QED
          BY <1>1, <4>2, <4>3, <4>4
      <3>2. m * (2 * g + PrecalcTimeout + 2 * s)
              = 2 * (s * h) + h + 2 * (s * m)
        BY <1>1, <1>2
      <3>3. m * (4 * k) = 4 * (m * k)
        BY <1>1
      <3>. QED
        BY <3>1, <3>2, <3>3
    <2>7. 4 * h <= s * h /\ s * h \in Nat /\ s * m \in Nat
      BY <1>1, <1>2
    <2>. HIDE DEF s, m, r, rt, g, h, t, v, k
    <2>8. s * t \in Int /\ 4 * (s * t) <= 4 * (m * k) + 4 * (rt * s)
      BY <1>1, <1>2, <2>2, <2>4
    <2>9. 16 * (s * t) < 9 * (s * h) + 8 * (s * m) + 16 * (rt * s)
      BY <1>2, <2>4, <2>6, <2>7, <2>8
    <2>10. 16 * t < 9 * h + 8 * m + 16 * rt
      <3>1. s * (16 * t) < s * (9 * h + 8 * m + 16 * rt)
        <4>1. s * (16 * t) = 16 * (s * t)
          BY <1>1, <2>2
        <4>2. s * (9 * h + 8 * m + 16 * rt)
                = 9 * (s * h) + 8 * (s * m) + 16 * (rt * s)
          BY <1>1, <1>2
        <4>. QED
          BY <2>9, <4>1, <4>2
      <3>2. 16 * t \in Int /\ 9 * h + 8 * m + 16 * rt \in Int
        BY <1>1, <1>2, <2>2
      <3>. QED
        BY <1>1, <3>1, <3>2, TimesCancels
    <2>11. 2 * v <= 3 * rt
      <3>1. s * (2 * v) <= s * (3 * rt)
        <4>1. s * (2 * v) = (2 * s) * v /\ s * (3 * rt) = 3 * (rt * s)
          BY <1>1, <2>3
        <4>2. 3 * (m * dist) <= 3 * (rt * s)
          BY <1>1, <1>2, <2>4, <2>5
        <4>3. (2 * s) * v \in Int /\ 3 * (m * dist) \in Int
              /\ 3 * (rt * s) \in Int
          BY <1>1, <1>2, <2>3, <2>5
        <4>. QED
          BY <2>3, <4>1, <4>2, <4>3
      <3>2. ~(3 * rt < 2 * v)
        <4>. SUFFICES ASSUME 3 * rt + 1 <= 2 * v PROVE FALSE
          BY <1>1, <2>3
        <4>1. s * (3 * rt + 1) <= s * (2 * v)
          BY <1>1, <2>3, TimesMono
        <4>2. s * (3 * rt + 1) = s * (3 * rt) + s /\ s * (3 * rt) \in Nat
          BY <1>1
        <4>3. s * (2 * v) \in Int
          BY <1>1, <2>3
        <4>. QED
          BY <1>1, <3>1, <4>1, <4>2, <4>3
      <3>. QED
        BY <1>1, <2>3, <3>2
    <2>12. 3 * m <= h
      <3>1. m * 3 <= m * PrecalcTimeout
        BY <1>1, LimitFacts, TimesMono
      <3>2. m * PrecalcTimeout = h
        BY <1>1, LimitFacts DEF h
      <3>. QED
        BY <1>1, <3>1, <3>2
    <2>. QED
      BY <1>1, <1>2, <2>1, <2>2, <2>3, <2>10, <2>11, <2>12 DEF Largest
  <1>. QED
    BY <1>3, <1>4, <1>5 DEF Repeats

(* No search for a loop reads past the samples of a song, and no repeat is *)
(* longer than what was heard, at every rate and with buffers of all sizes.*)
THEOREM LoopsAlwaysInBounds == Spec => []LoopsInBounds
  <1>1. IInv /\ SmoothInv /\ StageInv => LoopsInBounds
    <2>. SUFFICES ASSUME IInv, SmoothInv, StageInv, pc = "detect"
                  PROVE  /\ ReadsIn(Len(buf))
                         /\ \A repeat \in Repeats(Len(buf)) : repeat < length
      BY DEF LoopsInBounds
    <2>1. ReadsIn(Len(buf))
      BY SamplesAtLimit, LimitIsEnough, LoopSearchStaysInside
    <2>2. length = PrecalcTimeout * MsPerSec
      BY DEF StageInv
    <2>. QED
      BY <2>1, <2>2, SamplesAtLimit, RepeatIsShort
  <1>. QED
    BY <1>1, Invariance, SmoothInvariance, StageInvariance, PTL
------------------------------------------------------------------------------
(* What is quiet, and where.                                               *)

(* Until something sounds, all of it is silence.                           *)
SoundInv ==
  /\ maxi \in Int /\ mini \in Int
  /\ ~audio => \A f \in 1 .. fed : sound[f] = 0

LEMMA InitSound == Init => SoundInv
  BY DEF Init, InitDetector, SoundInv

LEMMA SoundStep == IInv /\ SoundInv /\ [Next]_vars => SoundInv'
  <1>. SUFFICES ASSUME IInv, SoundInv, [Next]_vars PROVE SoundInv'
    OBVIOUS
  <1>1. CASE Update
    <2>. DEFINE val  == sound[fed + 1]
                ring == [tmp EXCEPT ![itmp] = val]
                next == (itmp + 1) % 8
                b    == [i \in 0 .. 7 |-> ring[(next + i) % 8]]
                s    == Smoothed(b)
    <2>1. fed \in Nat /\ fed + 1 \in 1 .. Len(sound)
      BY <1>1, LenProperties DEF Update, IInv, SongInv
    <2>2. val \in Int
      BY <2>1, ElementOfSeq DEF IInv, SongInv
    <2>3. s[1] \in Int /\ s[2] \in Int
      <3>1. ring \in [0 .. 7 -> Int] /\ next \in 0 .. 7
        BY <2>2 DEF IInv, RingInv
      <3>2. b \in [0 .. 7 -> Int]
        BY <3>1
      <3>. HIDE DEF b
      <3>. QED
        BY <3>2, SmoothedInt
    <2>4. /\ audio' = (audio \/ val # 0)
          /\ fed' = fed + 1 /\ sound' = sound
          /\ \/ /\ maxi' = Largest(maxi, Largest(s[1], s[2]))
                /\ mini' = Smallest(mini, Smallest(s[1], s[2]))
             \/ maxi' = maxi /\ mini' = mini
      <3>. HIDE DEF s
      <3>. QED
        BY <1>1, Zenon DEF Update, Feed, s
    <2>. HIDE DEF s
    <2>5. maxi' \in Int /\ mini' \in Int
      BY <2>3, <2>4 DEF SoundInv, Largest, Smallest
    <2>6. ASSUME ~audio', NEW f \in 1 .. fed' PROVE sound'[f] = 0
      <3>1. ~audio /\ val = 0
        BY <2>4, <2>6
      <3>2. f \in 1 .. fed \/ f = fed + 1
        BY <2>1, <2>4
      <3>. QED
        BY <2>4, <3>1, <3>2 DEF SoundInv
    <2>. QED
      BY <2>5, <2>6 DEF SoundInv
  <1>2. CASE UNCHANGED <<audio, maxi, mini, fed, sound>>
    BY <1>2 DEF SoundInv
  <1>3. CASE \/ \E n \in Buffers : Write(n)
             \/ UpdateEnds \/ LimitEnds \/ PlayFails \/ ApplyDetector
             \/ ApplyTrimmer \/ Done \/ UNCHANGED vars
             \/ \E s \in {"PLAYER", "ERROR", "DETECT_SILENCE"},
                   n \in Buffers \cup {0} : SongEnds(s, n)
    <2>1. UNCHANGED <<audio, maxi, mini, fed, sound>>
      BY <1>3 DEF Write, UpdateEnds, Keep, LimitEnds, PlayFails, ApplyDetector,
        ApplyTrimmer, Done, vars, SongEnds, detectorVars, sampleVars, songVars
    <2>. QED
      BY <1>2, <2>1
  <1>. QED
    BY <1>1, <1>3 DEF Next

LEMMA SoundInvariance == Spec => []SoundInv
  BY InitSound, SoundStep, Invariance, PTL DEF Spec

(* Samples of silence are quiet at every threshold.                        *)
LEMMA SilenceIsQuiet ==
  ASSUME IInv, SmoothInv, SoundInv, ~audio, pc # "update",
         NEW t \in Nat, NEW i \in 1 .. Len(buf)
  PROVE  Quiet(i, Threshold(t))
  <1>1. buf \o buftmp = buf
    <2>1. Len(buftmp) = 0 /\ buftmp \in Seq(Int)
      BY DEF IInv, RoomInv, RingInv
    <2>2. buftmp = <<>> /\ buf \in Seq(Int)
      BY <2>1, EmptySeq DEF SmoothInv
    <2>. QED
      BY <2>2
  <1>2. /\ Len(buf) = IF fed < 8 THEN 0 ELSE 2 * (fed \div 4 - 1)
        /\ buf[i] = Mean(sound, 2 * i - 1)
    BY <1>1 DEF SmoothInv, SamplesAre
  <1>3. fed \in Nat
    BY DEF IInv, SongInv
  <1>4. i \in Nat /\ 2 * i - 1 >= 1 /\ 2 * i + 4 <= fed
    <2>1. Len(buf) \in Nat
      BY LenProperties DEF SmoothInv
    <2>. DEFINE n == Len(buf)
    <2>. HIDE DEF n
    <2>2. i \in 1 .. n /\ n = IF fed < 8 THEN 0 ELSE 2 * (fed \div 4 - 1)
      BY <1>2 DEF n
    <2>. QED
      BY <1>3, <2>2
  <1>5. \A f \in (2 * i - 1) .. (2 * i + 4) : sound[f] = 0
    BY <1>3, <1>4 DEF SoundInv
  <1>6. buf[i] = 0
    <2>. DEFINE k == 2 * i - 1
    <2>1. /\ sound[k] = 0 /\ sound[k + 1] = 0 /\ sound[k + 2] = 0
          /\ sound[k + 3] = 0 /\ sound[k + 4] = 0 /\ sound[k + 5] = 0
      BY <1>4, <1>5
    <2>. HIDE DEF k
    <2>2. Mean(sound, k) = Quotient(0, 6 * Scale)
      BY <2>1 DEF Mean
    <2>3. 6 * Scale \in Nat \ {0}
      BY RateAssumption
    <2>. QED
      BY <1>2, <2>2, <2>3 DEF Quotient, k
  <1>7. Threshold(t) \in Nat
    BY DEF SoundInv, Threshold, Smallest, Largest, Magnitude
  <1>. QED
    BY <1>6, <1>7 DEF Quiet, Magnitude
------------------------------------------------------------------------------
(* What the trims and the detectors find.                                  *)

(* The first n samples are quiet, or quiet from their last loud one on.    *)
AllQuiet(t, n) == \A i \in 1 .. n : Quiet(i, t)

LastLoud(t, n, last) ==
  /\ last \in 1 .. n
  /\ ~Quiet(last, t)
  /\ \A i \in last + 1 .. n : Quiet(i, t)

LEMMA LeastOf ==
  ASSUME NEW S, S \subseteq Nat, S # {}
  PROVE  \E x \in S : \A y \in S : x <= y
  <1>1. PICK x \in S : \A y \in S : ~ (<<y, x>> \in OpToRel(<, Nat))
    BY WFMin, NatLessThanWellFounded
  <1>2. ASSUME NEW y \in S PROVE x <= y
    <2>. SUFFICES ASSUME y < x PROVE FALSE
      OBVIOUS
    <2>1. <<y, x>> \in OpToRel(<, Nat)
      BY DEF OpToRel
    <2>. QED
      BY <1>1, <2>1
  <1>. QED
    BY <1>2

LEMMA GreatestOf ==
  ASSUME NEW n \in Nat, NEW S, S \subseteq 1 .. n, S # {}
  PROVE  \E x \in S : \A y \in S : y <= x
  <1>. DEFINE R == {n - x : x \in S}
  <1>1. R \subseteq Nat /\ R # {}
    <2>1. ASSUME NEW x \in S PROVE n - x \in Nat
      OBVIOUS
    <2>2. \A z \in R : z \in Nat
      BY <2>1
    <2>3. PICK x \in S : TRUE
      OBVIOUS
    <2>4. n - x \in R
      OBVIOUS
    <2>. HIDE DEF R
    <2>. QED
      BY <2>2, <2>4
  <1>. HIDE DEF R
  <1>2. PICK z \in R : \A w \in R : z <= w
    BY <1>1, LeastOf
  <1>3. PICK x \in S : z = n - x
    BY DEF R
  <1>4. ASSUME NEW y \in S PROVE y <= x
    <2>1. n - y \in R
      BY DEF R
    <2>2. n - x <= n - y
      BY <1>2, <1>3, <2>1
    <2>3. x \in 1 .. n /\ y \in 1 .. n
      OBVIOUS
    <2>. QED
      BY <2>2, <2>3
  <1>. QED
    BY <1>4

(* volume_trim *)
LEMMA VolumeTrimIs ==
  ASSUME NEW t, NEW n \in Nat
  PROVE  \/ AllQuiet(t, n) /\ VolumeTrim(t, n) = 0
         \/ \E last \in Nat : /\ LastLoud(t, n, last)
                              /\ VolumeTrim(t, n) = n - last
  <1>. DEFINE loud == {i \in 1 .. n : ~Quiet(i, t)}
              last == CHOOSE i \in loud : \A j \in loud : j <= i
  <1>1. CASE loud = {}
    BY <1>1 DEF AllQuiet, VolumeTrim
  <1>2. CASE loud # {}
    <2>1. \E i \in loud : \A j \in loud : j <= i
      <3>1. loud \subseteq 1 .. n
        OBVIOUS
      <3>. HIDE DEF loud
      <3>. QED
        BY <1>2, <3>1, GreatestOf
    <2>2. last \in loud /\ \A j \in loud : j <= last
      <3>. HIDE DEF loud
      <3>. QED
        BY <2>1
    <2>3. VolumeTrim(t, n) = n - last
      BY <1>2 DEF VolumeTrim
    <2>. HIDE DEF last
    <2>4. LastLoud(t, n, last)
      BY <2>2 DEF LastLoud
    <2>. QED
      BY <2>2, <2>3, <2>4
  <1>. QED
    BY <1>1, <1>2

(* A quiet stretch of more than len samples begins after sample start.     *)
QuietAfter(t, len, start) ==
  /\ start \in 1 .. Len(buf) - len - 1
  /\ ~Quiet(start, t)
  /\ \A i \in start + 1 .. start + len + 1 : Quiet(i, t)

(* volume_detect *)
LEMMA VolumeDetectIs ==
  ASSUME NEW t, NEW len \in Nat, Len(buf) \in Nat
  PROVE  \/ VolumeDetect(len, t) = 0
         \/ QuietAfter(t, len, VolumeDetect(len, t))
  <1>. DEFINE starts == {i \in 1 .. Len(buf) - len - 1 :
                           /\ ~Quiet(i, t)
                           /\ \A j \in i + 1 .. i + len + 1 : Quiet(j, t)}
              start == CHOOSE i \in starts : \A j \in starts : i <= j
  <1>1. CASE starts = {}
    BY <1>1 DEF VolumeDetect
  <1>2. CASE starts # {}
    <2>1. \E i \in starts : \A j \in starts : i <= j
      <3>1. starts \subseteq Nat
        OBVIOUS
      <3>. HIDE DEF starts
      <3>. QED
        BY <1>2, <3>1, LeastOf
    <2>2. start \in starts
      <3>. HIDE DEF starts
      <3>. QED
        BY <2>1
    <2>3. VolumeDetect(len, t) = start
      BY <1>2, Zenon DEF VolumeDetect
    <2>. HIDE DEF start
    <2>. QED
      BY <2>2, <2>3 DEF QuietAfter
  <1>. QED
    BY <1>1, <1>2

(* Samples and ms.                                                         *)
LEMMA MillisBounds ==
  \A n \in Nat : /\ MillisOf(n) \in Nat
                 /\ SamplesPerSec * MillisOf(n) <= MsPerSec * n
                 /\ MsPerSec * n < SamplesPerSec * MillisOf(n) + SamplesPerSec
  <1>. SUFFICES ASSUME NEW n \in Nat
                PROVE  /\ MillisOf(n) \in Nat
                       /\ SamplesPerSec * MillisOf(n) <= MsPerSec * n
                       /\ MsPerSec * n
                            < SamplesPerSec * MillisOf(n) + SamplesPerSec
    OBVIOUS
  <1>1. n * MsPerSec \in Nat /\ n * MsPerSec = MsPerSec * n
    BY RateFacts, ProductIsNat
  <1>. QED
    BY <1>1, RateFacts, DivBounds, DivIsNat DEF MillisOf

LEMMA SamplesBounds ==
  \A ms \in Nat : /\ SamplesIn(ms) \in Nat
                  /\ MsPerSec * SamplesIn(ms) <= SamplesPerSec * ms
                  /\ SamplesPerSec * ms < MsPerSec * SamplesIn(ms) + MsPerSec
  <1>. SUFFICES ASSUME NEW ms \in Nat
                PROVE  /\ SamplesIn(ms) \in Nat
                       /\ MsPerSec * SamplesIn(ms) <= SamplesPerSec * ms
                       /\ SamplesPerSec * ms
                            < MsPerSec * SamplesIn(ms) + MsPerSec
    OBVIOUS
  <1>1. ms * SamplesPerSec \in Nat /\ ms * SamplesPerSec = SamplesPerSec * ms
    BY RateFacts, ProductIsNat
  <1>. QED
    BY <1>1, RateFacts, DivBounds, DivIsNat DEF SamplesIn

(* n samples end by the end of a ms, or begin after it.                    *)
LEMMA SamplesReach ==
  ASSUME NEW n \in Nat, NEW ms \in Nat
  PROVE  /\ MsPerSec * n <= SamplesPerSec * ms => n <= SamplesIn(ms)
         /\ SamplesPerSec * ms < MsPerSec * n + MsPerSec => n >= SamplesIn(ms)
  <1>. DEFINE m == MsPerSec
              k == SamplesIn(ms)
              x == SamplesPerSec * ms
  <1>1. k \in Nat /\ m * k <= x /\ x < m * k + m
    BY SamplesBounds
  <1>2. m \in Nat \ {0} /\ x \in Nat
    BY RateFacts, ProductIsNat
  <1>3. m * n \in Nat /\ m * k \in Nat
    BY <1>1, <1>2
  <1>4. m * (k + 1) = m * k + m /\ m * (n + 1) = m * n + m
    BY <1>1, <1>2
  <1>. HIDE DEF m, k, x
  <1>5. m * n <= x => n <= k
    <2>. SUFFICES ASSUME m * n <= x, k + 1 <= n PROVE FALSE
      BY <1>1
    <2>1. m * (k + 1) <= m * n
      BY <1>1, <1>2, TimesMono
    <2>. QED
      BY <1>1, <1>2, <1>3, <1>4, <2>1
  <1>6. x < m * n + m => n >= k
    <2>. SUFFICES ASSUME x < m * n + m, n + 1 <= k PROVE FALSE
      BY <1>1
    <2>1. m * (n + 1) <= m * k
      BY <1>1, <1>2, TimesMono
    <2>. QED
      BY <1>1, <1>2, <1>3, <1>4, <2>1
  <1>. QED
    BY <1>5, <1>6 DEF m, k, x

LEMMA MarginIsNat ==
  Margin \in Nat /\ MaxSilence \in Nat /\ Margin <= MaxSilence
  <1>1. SamplesPerSec \div MsPerSec >= 1 /\ SamplesPerSec \div MsPerSec \in Int
    BY RateFacts
  <1>. QED
    BY <1>1, ValuesAssumption, LimitsAssumption DEF Margin

(* Where a song of ms has its last sample, of those there are.             *)
LastOf(ms) == Smallest(SamplesIn(ms), Len(buf))

LEMMA LastOfIs ==
  ASSUME NEW ms \in Nat, Len(buf) \in Nat
  PROVE  /\ LastOf(ms) \in Nat
         /\ LastOf(ms) <= Len(buf)
         /\ LastOf(ms) <= SamplesIn(ms)
         /\ MsPerSec * LastOf(ms) <= SamplesPerSec * ms
         /\ MsPerSec * LastOf(ms) \in Nat
  <1>1. SamplesIn(ms) \in Nat
    BY SamplesBounds
  <1>2. /\ LastOf(ms) \in Nat
        /\ LastOf(ms) <= Len(buf) /\ LastOf(ms) <= SamplesIn(ms)
    BY <1>1 DEF LastOf, Smallest
  <1>3. MsPerSec * LastOf(ms) <= MsPerSec * SamplesIn(ms)
    BY <1>1, <1>2, RateFacts, TimesMono
  <1>4. MsPerSec * SamplesIn(ms) <= SamplesPerSec * ms
    BY SamplesBounds
  <1>5. /\ MsPerSec * LastOf(ms) \in Nat /\ MsPerSec * SamplesIn(ms) \in Nat
        /\ SamplesPerSec * ms \in Nat
    BY <1>1, <1>2, RateFacts, ProductIsNat
  <1>. HIDE DEF LastOf
  <1>. QED
    BY <1>2, <1>3, <1>4, <1>5

(* The silence at the end of n samples, of which the last loud one is      *)
(* last, in ms, and what it leaves of ms.                                  *)
LEMMA TailFacts ==
  ASSUME NEW n \in Nat, NEW last \in 1 .. n, NEW ms \in Nat,
         MsPerSec * n <= SamplesPerSec * ms
  PROVE  LET tail == MillisOf(n - last) IN
         /\ tail \in Nat /\ tail <= ms
         /\ MsPerSec * last <= SamplesPerSec * (ms - tail)
         /\ MsPerSec * n < MsPerSec * last + SamplesPerSec * tail
                             + SamplesPerSec
  <1>. DEFINE s == SamplesPerSec
              m == MsPerSec
              tail == MillisOf(n - last)
  <1>1. s \in Nat \ {0} /\ m \in Nat \ {0} /\ n - last \in Nat /\ last \in Nat
    BY RateFacts
  <1>2. /\ tail \in Nat /\ s * tail <= m * (n - last)
        /\ m * (n - last) < s * tail + s
    BY <1>1, MillisBounds
  <1>. HIDE DEF tail
  <1>3. /\ m * n \in Nat /\ m * last \in Nat /\ s * ms \in Nat
        /\ s * tail \in Nat /\ m * (n - last) = m * n - m * last
    BY <1>1, <1>2
  <1>4. m * n <= s * ms
    OBVIOUS
  <1>5. m * last >= 1
    <2>1. m * 1 <= m * last
      BY <1>1, TimesMono
    <2>. QED
      BY <1>1, <1>3, <2>1
  <1>. HIDE DEF s, m
  <1>6. tail <= ms
    <2>1. s * tail < s * ms
      BY <1>2, <1>3, <1>4, <1>5
    <2>. QED
      BY <1>1, <1>2, <2>1, TimesCancels
  <1>7. s * (ms - tail) = s * ms - s * tail
    BY <1>1, <1>2
  <1>8. m * last <= s * (ms - tail)
    BY <1>2, <1>3, <1>4, <1>7
  <1>9. m * n < m * last + s * tail + s
    BY <1>1, <1>2, <1>3
  <1>. QED
    BY <1>2, <1>6, <1>8, <1>9 DEF s, m, tail

(* trim_silence and trim_volume of ms: all of it, by the margin, or what   *)
(* is quiet after the last loud sample.                                    *)
LEMMA TrimmedIs ==
  ASSUME NEW t, NEW ms \in Nat, Len(buf) \in Nat
  PROVE  \/ AllQuiet(t, LastOf(ms)) /\ Trimmed(t, ms) \in {0, ms}
         \/ \E last \in Nat :
              /\ LastLoud(t, LastOf(ms), last)
              /\ \/ Trimmed(t, ms) = ms /\ last <= SamplesIn(Margin)
                 \/ /\ Trimmed(t, ms) = MillisOf(LastOf(ms) - last)
                    /\ Trimmed(t, ms) < ms
  <1>. DEFINE n == LastOf(ms)
              trimmed == MillisOf(VolumeTrim(t, n))
  <1>1. n \in Nat /\ MsPerSec * n <= SamplesPerSec * ms
    BY LastOfIs
  <1>2. Trimmed(t, ms) = IF Magnitude(ms - trimmed) <= Margin
                         THEN ms ELSE trimmed
    BY Zenon DEF Trimmed, LastOf
  <1>. HIDE DEF n
  <1>3. CASE AllQuiet(t, n) /\ VolumeTrim(t, n) = 0
    <2>1. trimmed = 0
      <3>1. MillisOf(0) = 0
        <4>1. 0 * MsPerSec = 0
          BY RateFacts
        <4>. QED
          BY <4>1, RateFacts DEF MillisOf
      <3>. QED
        BY <1>3, <3>1
    <2>. HIDE DEF trimmed
    <2>. QED
      BY <1>2, <1>3, <2>1 DEF n
  <1>4. ASSUME NEW last \in Nat, LastLoud(t, n, last),
               VolumeTrim(t, n) = n - last
        PROVE  \/ Trimmed(t, ms) = ms /\ last <= SamplesIn(Margin)
               \/ /\ Trimmed(t, ms) = MillisOf(n - last)
                  /\ Trimmed(t, ms) < ms
    <2>1. trimmed = MillisOf(n - last)
      BY <1>4
    <2>2. last \in 1 .. n
      BY <1>4 DEF LastLoud
    <2>. HIDE DEF trimmed
    <2>3. /\ trimmed \in Nat /\ trimmed <= ms
          /\ MsPerSec * last <= SamplesPerSec * (ms - trimmed)
      BY <1>1, <2>1, <2>2, TailFacts
    <2>4. Magnitude(ms - trimmed) = ms - trimmed /\ ms - trimmed \in Nat
      BY <2>3 DEF Magnitude
    <2>5. CASE ms - trimmed <= Margin
      <3>1. SamplesPerSec * (ms - trimmed) <= SamplesPerSec * Margin
        BY <2>4, <2>5, MarginIsNat, RateFacts, TimesMono
      <3>2. MsPerSec * last \in Nat /\ SamplesPerSec * (ms - trimmed) \in Nat
            /\ SamplesPerSec * Margin \in Nat
        BY <2>4, MarginIsNat, RateFacts, ProductIsNat
      <3>. DEFINE a == MsPerSec * last
                  b == SamplesPerSec * (ms - trimmed)
                  c == SamplesPerSec * Margin
      <3>3. a <= c
        <4>1. a \in Nat /\ b \in Nat /\ c \in Nat /\ a <= b /\ b <= c
          BY <2>3, <3>1, <3>2
        <4>. HIDE DEF a, b, c
        <4>. QED
          BY <4>1
      <3>4. last <= SamplesIn(Margin)
        BY <3>3, MarginIsNat, SamplesReach
      <3>. QED
        BY <1>2, <2>4, <2>5, <3>4
    <2>6. CASE ~(ms - trimmed <= Margin)
      <3>1. trimmed < ms
        BY <2>3, <2>6, MarginIsNat
      <3>. QED
        BY <1>2, <2>1, <2>4, <2>6, <3>1
    <2>. QED
      BY <2>5, <2>6
  <1>5. \/ AllQuiet(t, n) /\ VolumeTrim(t, n) = 0
        \/ \E last \in Nat :
             LastLoud(t, n, last) /\ VolumeTrim(t, n) = n - last
    BY <1>1, VolumeTrimIs
  <1>. QED
    BY <1>3, <1>4, <1>5 DEF n

(* What is left of ms when the tail is cut off reaches past the last loud  *)
(* sample, whatever is left of the tail.                                   *)
LEMMA CutKeepsLoud ==
  ASSUME NEW ms \in Nat, Len(buf) \in Nat, NEW t,
         NEW last \in Nat, LastLoud(t, LastOf(ms), last),
         NEW rest \in Nat
  PROVE  LET tail == MillisOf(LastOf(ms) - last) IN
         /\ ms - tail + rest \in Nat
         /\ last <= SamplesIn(ms - tail + rest)
  <1>. DEFINE n == LastOf(ms)
              tail == MillisOf(n - last)
              a == ms - tail
  <1>1. n \in Nat /\ MsPerSec * n <= SamplesPerSec * ms /\ last \in 1 .. n
    BY LastOfIs DEF LastLoud
  <1>. HIDE DEF n
  <1>2. tail \in Nat /\ tail <= ms /\ MsPerSec * last <= SamplesPerSec * a
    BY <1>1, TailFacts
  <1>. HIDE DEF tail
  <1>3. a \in Nat /\ a <= a + rest /\ a + rest \in Nat
    BY <1>2
  <1>4. SamplesPerSec * a <= SamplesPerSec * (a + rest)
    BY <1>3, RateFacts, TimesMono
  <1>5. /\ MsPerSec * last \in Nat /\ SamplesPerSec * a \in Nat
        /\ SamplesPerSec * (a + rest) \in Nat
    BY <1>3, RateFacts, ProductIsNat
  <1>6. MsPerSec * last <= SamplesPerSec * (a + rest)
    BY <1>2, <1>4, <1>5
  <1>7. last <= SamplesIn(a + rest)
    BY <1>3, <1>6, SamplesReach
  <1>. QED
    BY <1>3, <1>7 DEF n, tail

(* What is left of the tail, and what rounding and update held back, is    *)
(* all that comes after the last loud sample.                              *)
LEMMA CutIsClose ==
  ASSUME NEW ms \in Nat, Len(buf) \in Nat, NEW t,
         NEW last \in Nat, LastLoud(t, LastOf(ms), last),
         SamplesPerSec * ms
           <= MsPerSec * LastOf(ms) + SamplesPerSec + MsPerSec,
         NEW tail \in Nat, MillisOf(LastOf(ms) - last) <= tail,
         ms >= tail + 2
  PROVE  last >= SamplesIn(ms - tail - 2)
  <1>. DEFINE n == LastOf(ms)
              s == SamplesPerSec
              m == MsPerSec
              r == MillisOf(n - last)
  <1>1. n \in Nat /\ m * n <= s * ms /\ last \in 1 .. n
    BY LastOfIs DEF LastLoud
  <1>2. r \in Nat /\ m * n < m * last + s * r + s /\ r <= tail
    BY <1>1, TailFacts
  <1>3. s \in Nat /\ m \in Nat \ {0}
    BY RateFacts
  <1>4. s * ms <= m * n + s + m
    OBVIOUS
  <1>. HIDE DEF n, s, m, r
  <1>5. s * r <= s * tail
    BY <1>2, <1>3, TimesMono
  <1>6. /\ m * n \in Nat /\ m * last \in Nat /\ s * r \in Nat
        /\ s * tail \in Nat /\ s * ms \in Nat
        /\ s * (ms - tail - 2) = s * ms - s * tail - 2 * s
    BY <1>1, <1>2, <1>3
  <1>7. s * (ms - tail - 2) < m * last + m
    BY <1>2, <1>3, <1>4, <1>5, <1>6
  <1>8. ms - tail - 2 \in Nat
    OBVIOUS
  <1>. QED
    BY <1>7, <1>8, SamplesReach DEF s, m
------------------------------------------------------------------------------
(* What is cut off a song that ended by itself.                            *)

LEMMA SamplesMono ==
  ASSUME NEW a \in Nat, NEW b \in Nat, a <= b
  PROVE  SamplesIn(a) <= SamplesIn(b) /\ SamplesIn(a) \in Nat
  <1>1. SamplesIn(a) \in Nat /\ MsPerSec * SamplesIn(a) <= SamplesPerSec * a
    BY SamplesBounds
  <1>2. SamplesPerSec * a <= SamplesPerSec * b
    BY RateFacts, TimesMono
  <1>3. /\ MsPerSec * SamplesIn(a) \in Nat
        /\ SamplesPerSec * a \in Nat /\ SamplesPerSec * b \in Nat
    BY <1>1, RateFacts, ProductIsNat
  <1>. DEFINE n == SamplesIn(a)
  <1>. HIDE DEF n
  <1>4. MsPerSec * n <= SamplesPerSec * b
    BY <1>1, <1>2, <1>3 DEF n
  <1>5. n <= SamplesIn(b)
    <2>1. n \in Nat
      BY <1>1 DEF n
    <2>. QED
      BY <1>4, <2>1, SamplesReach
  <1>. QED
    BY <1>1, <1>5 DEF n

(* update holds back less than two ms of what was heard.                   *)
Reaches(ms) ==
  SamplesPerSec * ms <= MsPerSec * LastOf(ms) + SamplesPerSec + MsPerSec

LEMMA SamplesReachEnd ==
  ASSUME IInv, SmoothInv, pc # "update",
         NEW ms \in Nat, Freq * ms <= MsPerSec * fed
  PROVE  Len(buf) \in Nat /\ Reaches(ms)
  <1>. DEFINE s == SamplesPerSec
              m == MsPerSec
              n == Len(buf)
              last == LastOf(ms)
  <1>1. fed \in Nat
    BY DEF IInv, SongInv
  <1>2. n \in Nat /\ n = IF fed < 8 THEN 0 ELSE 2 * (fed \div 4 - 1)
    <2>1. Len(buftmp) = 0 /\ buftmp \in Seq(Int)
      BY DEF IInv, RoomInv, RingInv
    <2>2. buftmp = <<>> /\ buf \in Seq(Int)
      BY <2>1, EmptySeq DEF SmoothInv
    <2>3. buf \o buftmp = buf
      BY <2>2
    <2>. QED
      BY <2>2, <2>3, LenProperties DEF SmoothInv, SamplesAre
  <1>3. fed <= 2 * n + 7
    <2>. HIDE DEF n
    <2>. QED
      BY <1>1, <1>2
  <1>4. /\ s \in Nat /\ m \in Nat \ {0} /\ Freq \in Nat
        /\ s >= 4 * m /\ 2 * s <= Freq
    BY RateFacts
  <1>5. last \in Nat /\ (last = n \/ (last = SamplesIn(ms) /\ last <= n))
    BY <1>2, SamplesBounds DEF LastOf, Smallest
  <1>6. Freq * ms <= m * fed
    OBVIOUS
  <1>. HIDE DEF s, m, n, last
  <1>7. CASE last = n
    <2>1. m * fed <= m * (2 * n + 7) /\ m * (2 * n + 7) = 2 * (m * n) + 7 * m
      BY <1>1, <1>2, <1>3, <1>4, TimesMono
    <2>2. ms * (2 * s) <= ms * Freq
      BY <1>4, TimesMono
    <2>3. /\ ms * (2 * s) = 2 * (s * ms) /\ ms * Freq = Freq * ms
          /\ s * ms \in Nat /\ Freq * ms \in Nat
          /\ m * n \in Nat /\ m * fed \in Nat
      BY <1>1, <1>2, <1>4
    <2>4. 2 * (s * ms) <= 2 * (m * n) + 7 * m
      BY <1>4, <1>6, <2>1, <2>2, <2>3
    <2>5. s * ms <= m * n + s + m
      BY <1>4, <2>3, <2>4
    <2>. QED
      BY <1>2, <1>7, <2>5 DEF Reaches, s, m, n, last
  <1>8. CASE last = SamplesIn(ms)
    <2>1. s * ms < m * last + m
      BY <1>8, SamplesBounds DEF s, m
    <2>2. s * ms \in Nat /\ m * last \in Nat
      BY <1>4, <1>5
    <2>3. s * ms <= m * last + s + m
      BY <1>4, <2>1, <2>2
    <2>. QED
      BY <1>2, <2>3 DEF Reaches, s, m, n, last
  <1>. QED
    BY <1>5, <1>7, <1>8

(* There is nothing to hear in the song from ms on.                        *)
QuietFrom(ms, t) == \A i \in From(ms) : Quiet(i, t)

LEMMA FromLast ==
  ASSUME NEW t, NEW ms \in Nat, played \in Nat, Len(buf) \in Nat,
         \/ AllQuiet(t, LastOf(played))
         \/ \E last \in Nat : /\ LastLoud(t, LastOf(played), last)
                              /\ last <= SamplesIn(ms)
  PROVE  QuietFrom(ms, t)
  <1>. SUFFICES ASSUME NEW i \in From(ms) PROVE Quiet(i, t)
    BY DEF QuietFrom
  <1>1. /\ LastOf(played) \in Nat
        /\ SamplesIn(ms) \in Nat
    BY LastOfIs, SamplesBounds
  <1>2. i \in Largest(1, SamplesIn(ms) + 2) .. LastOf(played)
    BY DEF From, LastOf
  <1>3. i \in Nat /\ i >= 1 /\ i >= SamplesIn(ms) + 2 /\ i <= LastOf(played)
    <2>. HIDE DEF LastOf
    <2>. QED
      BY <1>1, <1>2 DEF Largest
  <1>. HIDE DEF LastOf
  <1>4. CASE AllQuiet(t, LastOf(played))
    BY <1>1, <1>3, <1>4 DEF AllQuiet
  <1>5. ASSUME NEW last \in Nat, LastLoud(t, LastOf(played), last),
               last <= SamplesIn(ms)
        PROVE  Quiet(i, t)
    BY <1>1, <1>3, <1>5 DEF LastLoud
  <1>. QED
    BY <1>4, <1>5

(* All of the song, but for the margin, is quiet.                          *)
LEMMA NoSoundIsQuiet ==
  ASSUME IInv, SmoothInv, SoundInv, pc # "update", played \in Nat,
         Len(buf) \in Nat, TrimSilence(played) >= played
  PROVE  QuietFrom(Margin, Threshold(ThresholdSilence))
  <1>. DEFINE t == Threshold(ThresholdSilence)
  <1>1. CASE ~audio
    <2>1. \A i \in 1 .. Len(buf) : Quiet(i, t)
      BY <1>1, SilenceIsQuiet, ThresholdAssumption
    <2>2. LastOf(played) \in Nat /\ LastOf(played) <= Len(buf)
      BY LastOfIs
    <2>. HIDE DEF t
    <2>3. AllQuiet(t, LastOf(played))
      <3>. DEFINE n == LastOf(played)
      <3>. HIDE DEF n
      <3>. SUFFICES ASSUME NEW i \in 1 .. n PROVE Quiet(i, t)
        BY DEF AllQuiet, n
      <3>1. n \in Nat /\ n <= Len(buf)
        BY <2>2 DEF n
      <3>2. i \in 1 .. Len(buf)
        BY <3>1
      <3>. QED
        BY <2>1, <3>2
    <2>. QED
      BY <2>3, MarginIsNat, FromLast DEF t
  <1>2. CASE audio
    <2>1. Trimmed(t, played) >= played
      BY <1>2 DEF TrimSilence
    <2>. HIDE DEF t
    <2>2. \/ AllQuiet(t, LastOf(played))
          \/ \E last \in Nat : /\ LastLoud(t, LastOf(played), last)
                               /\ last <= SamplesIn(Margin)
      <3>1. ASSUME Trimmed(t, played) < played,
                   Trimmed(t, played) \in Nat PROVE FALSE
        BY <2>1, <3>1
      <3>2. ASSUME NEW last \in Nat, LastLoud(t, LastOf(played), last),
                   Trimmed(t, played) = MillisOf(LastOf(played) - last)
            PROVE  Trimmed(t, played) \in Nat
        <4>1. LastOf(played) - last \in Nat
          <5>. DEFINE n == LastOf(played)
          <5>1. n \in Nat
            BY LastOfIs
          <5>2. last \in 1 .. n
            BY <3>2 DEF LastLoud
          <5>. HIDE DEF n
          <5>3. n - last \in Nat
            BY <5>1, <5>2
          <5>. QED
            BY <5>3 DEF n
        <4>. QED
          BY <3>2, <4>1, MillisBounds
      <3>. QED
        BY <3>1, <3>2, TrimmedIs
    <2>. QED
      BY <2>2, MarginIsNat, FromLast DEF t
  <1>. QED
    BY <1>1, <1>2

(* Something sounds in the last MAX_SILENCE of len, about.                 *)
EndsLoud(t, len) ==
  \E i \in 1 .. LastOf(len) :
    ~Quiet(i, t) /\ i >= SamplesIn(len - MaxSilence - 2)

LEMMA LoudEnds ==
  ASSUME NEW len \in Nat, Len(buf) \in Nat, NEW t,
         NEW last \in Nat, last >= 1, last <= Len(buf),
         last <= SamplesIn(len), ~Quiet(last, t),
         last >= SamplesIn(len - MaxSilence - 2)
  PROVE  EndsLoud(t, len)
  <1>1. last \in 1 .. LastOf(len)
    BY SamplesBounds DEF LastOf, Smallest
  <1>. QED
    BY <1>1 DEF EndsLoud

(* A quiet end is cut, and only that.                                      *)
LEMMA CutIsRight ==
  ASSUME NEW t, played \in Nat, Len(buf) \in Nat, Reaches(played),
         MaxSilence < Trimmed(t, played)
  PROVE  LET len == Cut(played, Trimmed(t, played)) IN
         /\ QuietFrom(len, t)
         /\ len > MaxSilence + 2 => EndsLoud(t, len)
  <1>. DEFINE n == LastOf(played)
              r == Trimmed(t, played)
              len == Cut(played, r)
  <1>1. n \in Nat /\ n <= Len(buf) /\ MaxSilence \in Nat
    BY LastOfIs, MarginIsNat
  <1>2. ASSUME r = played PROVE len = MaxSilence
    BY <1>1, <1>2 DEF Cut
  <1>3. CASE AllQuiet(t, n) /\ r \in {0, played}
    <2>1. r = played
      BY <1>1, <1>3
    <2>2. len = MaxSilence
      BY <1>2, <2>1
    <2>. HIDE DEF len
    <2>3. QuietFrom(len, t)
      BY <1>1, <1>3, <2>2, FromLast
    <2>. QED
      BY <1>1, <2>2, <2>3 DEF len
  <1>4. ASSUME NEW last \in Nat, LastLoud(t, n, last), r = played,
               last <= SamplesIn(Margin)
        PROVE  QuietFrom(len, t) /\ (len > MaxSilence + 2 => EndsLoud(t, len))
    <2>1. len = MaxSilence
      BY <1>2, <1>4
    <2>2. SamplesIn(Margin) <= SamplesIn(MaxSilence)
          /\ SamplesIn(Margin) \in Nat /\ SamplesIn(MaxSilence) \in Nat
      BY MarginIsNat, SamplesMono, SamplesBounds
    <2>3. last <= SamplesIn(MaxSilence)
      BY <1>4, <2>2
    <2>. HIDE DEF len
    <2>4. QuietFrom(len, t)
      BY <1>1, <1>4, <2>1, <2>3, FromLast
    <2>. QED
      BY <1>1, <2>1, <2>4
  <1>5. ASSUME NEW last \in Nat, LastLoud(t, n, last), r = MillisOf(n - last),
               r < played
        PROVE  QuietFrom(len, t) /\ (len > MaxSilence + 2 => EndsLoud(t, len))
    <2>1. last \in 1 .. n /\ ~Quiet(last, t)
      BY <1>5 DEF LastLoud
    <2>2. r \in Nat
      <3>1. n - last \in Nat
        BY <1>1, <2>1
      <3>. QED
        BY <1>5, <3>1, MillisBounds
    <2>3. len \in Nat /\ last <= SamplesIn(len)
      BY <1>1, <1>5, CutKeepsLoud DEF Cut
    <2>4. QuietFrom(len, t)
      <3>. HIDE DEF len
      <3>. QED
        BY <1>5, <2>3, FromLast
    <2>5. ASSUME len > MaxSilence + 2 PROVE EndsLoud(t, len)
      <3>1. played >= r + 2 /\ played - r - 2 = len - MaxSilence - 2
        <4>. HIDE DEF r
        <4>. QED
          BY <1>1, <2>2, <2>5 DEF Cut
      <3>2. r \in Nat /\ MillisOf(n - last) <= r
        BY <1>5, <2>2
      <3>3. last >= SamplesIn(played - r - 2)
        <4>. HIDE DEF r
        <4>. QED
          BY <1>5, <3>1, <3>2, CutIsClose DEF Reaches
      <3>4. last >= SamplesIn(len - MaxSilence - 2)
        BY <3>1, <3>3
      <3>5. last >= 1 /\ last <= Len(buf)
        <4>. HIDE DEF n
        <4>. QED
          BY <1>1, <2>1
      <3>. HIDE DEF len
      <3>. QED
        BY <2>1, <2>3, <3>4, <3>5, LoudEnds
    <2>. QED
      BY <2>4, <2>5
  <1>6. \/ AllQuiet(t, n) /\ r \in {0, played}
        \/ \E last \in Nat :
             /\ LastLoud(t, n, last)
             /\ \/ r = played /\ last <= SamplesIn(Margin)
                \/ r = MillisOf(n - last) /\ r < played
    BY TrimmedIs
  <1>. QED
    BY <1>3, <1>4, <1>5, <1>6

(* An end that is not cut is short.                                        *)
LEMMA UncutIsShort ==
  ASSUME NEW t, played \in Nat, Len(buf) \in Nat, Reaches(played),
         Trimmed(t, played) < played, Trimmed(t, played) <= MaxSilence,
         played > MaxSilence + 2, ~AllQuiet(t, LastOf(played))
  PROVE  EndsLoud(t, played)
  <1>. DEFINE n == LastOf(played)
              r == Trimmed(t, played)
  <1>1. n \in Nat /\ n <= Len(buf) /\ n <= SamplesIn(played)
        /\ MaxSilence \in Nat
    BY LastOfIs, MarginIsNat
  <1>2. PICK last \in Nat : /\ LastLoud(t, n, last)
                            /\ r = played \/ r = MillisOf(n - last)
    BY TrimmedIs
  <1>3. last \in 1 .. n /\ ~Quiet(last, t)
    BY <1>2 DEF LastLoud
  <1>4. MillisOf(n - last) <= MaxSilence
    BY <1>2
  <1>5. last >= SamplesIn(played - MaxSilence - 2)
    <2>1. played >= MaxSilence + 2
      BY <1>1
    <2>. QED
      BY <1>1, <1>2, <1>4, <2>1, CutIsClose DEF Reaches
  <1>6. last >= 1 /\ last <= Len(buf) /\ last <= SamplesIn(played)
    <2>1. SamplesIn(played) \in Nat
      BY SamplesBounds
    <2>. HIDE DEF n
    <2>. QED
      BY <1>1, <1>3, <2>1
  <1>. QED
    BY <1>3, <1>5, <1>6, LoudEnds
------------------------------------------------------------------------------
(* What is cut off a song that has no end.                                 *)

(* Where SILENCE_TIMEOUT seconds of quiet begin, and MAX_SILENCE more.     *)
StartsQuiet(t, start) == QuietAfter(t, SamplesPerSec * SilenceTimeout, start)

CutAfter(t, len) ==
  \E start \in 1 .. Len(buf) :
    StartsQuiet(t, start) /\ len = MillisOf(start) + MaxSilence

LEMMA TimesFacts ==
  /\ SilenceTimeout \in Nat /\ MaxSilence \in Nat /\ MaxSilence >= 3
  /\ SamplesPerSec * SilenceTimeout \in Nat
  /\ SamplesPerSec * MaxSilence <= MsPerSec * (SamplesPerSec * SilenceTimeout)
  <1>1. SilenceTimeout \in Nat /\ SamplesPerSec * SilenceTimeout \in Nat
    BY LimitsAssumption, RateFacts, ProductIsNat
  <1>2. SamplesPerSec \div MsPerSec >= 4
    BY RateFacts
  <1>3. MaxSilence \in Nat /\ MaxSilence >= 3
    <2>1. SamplesPerSec \div MsPerSec \in Int
      BY RateFacts
    <2>. QED
      BY <1>2, <2>1, MarginIsNat DEF Margin
  <1>4. SamplesPerSec * MaxSilence
          <= SamplesPerSec * (SilenceTimeout * MsPerSec)
    <2>1. MaxSilence <= SilenceTimeout * MsPerSec
      BY ValuesAssumption
    <2>2. SilenceTimeout * MsPerSec \in Nat
      BY <1>1, RateFacts, ProductIsNat
    <2>. QED
      BY <1>3, <2>1, <2>2, RateFacts, TimesMono
  <1>5. SamplesPerSec * (SilenceTimeout * MsPerSec)
          = MsPerSec * (SamplesPerSec * SilenceTimeout)
    BY <1>1, RateFacts
  <1>. QED
    BY <1>1, <1>3, <1>4, <1>5

(* The cut comes after the last loud sample before the quiet, and before   *)
(* the quiet is over.                                                      *)
LEMMA CutAfterFacts ==
  ASSUME NEW t, Len(buf) \in Nat, NEW start \in 1 .. Len(buf),
         StartsQuiet(t, start)
  PROVE  LET ms == MillisOf(start)
             len == ms + MaxSilence
         IN
         /\ ms \in Nat /\ len \in Nat
         /\ start <= SamplesIn(len) /\ SamplesIn(ms) <= start
         /\ SamplesIn(len) <= start + SamplesPerSec * SilenceTimeout
         /\ LastLoud(t, LastOf(len), start)
         /\ MillisOf(LastOf(len) - start) <= MaxSilence
  <1>. DEFINE s == SamplesPerSec
              m == MsPerSec
              ms == MillisOf(start)
              len == ms + MaxSilence
              k == SamplesIn(len)
              q == s * SilenceTimeout
              n == LastOf(len)
  <1>1. /\ ms \in Nat /\ s * ms <= m * start /\ m * start < s * ms + s
    BY MillisBounds
  <1>2. s \in Nat \ {0} /\ m \in Nat \ {0} /\ start \in Nat
    BY RateFacts
  <1>3. MaxSilence \in Nat /\ MaxSilence >= 1 /\ q \in Nat
        /\ s * MaxSilence <= m * q
    BY TimesFacts
  <1>. HIDE DEF ms
  <1>4. len \in Nat /\ s * len = s * ms + s * MaxSilence
    BY <1>1, <1>2, <1>3
  <1>. HIDE DEF len
  <1>5. k \in Nat /\ m * k <= s * len
    BY <1>4, SamplesBounds
  <1>6. /\ m * start \in Nat /\ s * ms \in Nat /\ s * MaxSilence \in Nat
        /\ s <= s * MaxSilence /\ m * q \in Nat /\ m * k \in Nat
        /\ m * (start + q) = m * start + m * q
    <2>1. s * 1 <= s * MaxSilence
      BY <1>2, <1>3, TimesMono
    <2>2. s * 1 = s
      BY <1>2
    <2>. HIDE DEF q, k, s, m
    <2>3. m * (start + q) = m * start + m * q
      BY <1>2, <1>3
    <2>. QED
      BY <1>1, <1>2, <1>3, <1>5, <2>1, <2>2, <2>3, ProductIsNat
  <1>7. start <= k
    <2>1. m * start <= s * len
      <3>. HIDE DEF s, m, q, k
      <3>. QED
        BY <1>1, <1>2, <1>4, <1>6
    <2>. QED
      BY <1>2, <1>4, <2>1, SamplesReach
  <1>8. SamplesIn(ms) <= start
    <2>1. s * ms < m * start + m
      <3>. HIDE DEF s, m, q, k
      <3>. QED
        BY <1>1, <1>2, <1>6
    <2>. QED
      BY <1>1, <1>2, <2>1, SamplesReach
  <1>9. k <= start + q
    <2>1. m * k <= m * (start + q)
      <3>. HIDE DEF s, m, q, k
      <3>. QED
        BY <1>1, <1>2, <1>3, <1>4, <1>5, <1>6
    <2>. HIDE DEF s, m, q, k
    <2>. SUFFICES ASSUME start + q + 1 <= k PROVE FALSE
      BY <1>2, <1>3, <1>5
    <2>2. m * (start + q + 1) <= m * k
      BY <1>2, <1>3, <1>5, TimesMono
    <2>3. m * (start + q + 1) = m * (start + q) + m /\ m * (start + q) \in Nat
      BY <1>2, <1>3
    <2>. QED
      BY <1>2, <1>6, <2>1, <2>2, <2>3
  <1>10. n \in Nat /\ n <= k /\ n <= Len(buf) /\ start <= n /\ m * n <= s * len
    <2>1. start <= LastOf(len)
      BY <1>5, <1>7 DEF LastOf, Smallest
    <2>. QED
      BY <1>4, <2>1, LastOfIs
  <1>11. LastLoud(t, n, start)
    <2>1. /\ ~Quiet(start, t)
          /\ \A i \in start + 1 .. start + q + 1 : Quiet(i, t)
      BY DEF StartsQuiet, QuietAfter
    <2>. HIDE DEF n, q, k
    <2>2. ASSUME NEW i \in start + 1 .. n PROVE Quiet(i, t)
      <3>1. i \in start + 1 .. start + q + 1
        BY <1>2, <1>3, <1>5, <1>9, <1>10
      <3>. QED
        BY <2>1, <3>1
    <2>3. start \in 1 .. n
      BY <1>2, <1>10
    <2>. QED
      BY <2>1, <2>2, <2>3 DEF LastLoud
  <1>12. MillisOf(n - start) <= MaxSilence
    <2>. DEFINE r == MillisOf(n - start)
    <2>. HIDE DEF n, q, k
    <2>1. n - start \in Nat
      BY <1>2, <1>10
    <2>2. r \in Nat /\ s * r <= m * (n - start)
      BY <2>1, MillisBounds
    <2>. HIDE DEF r, s, m
    <2>3. m * (n - start) = m * n - m * start /\ m * n \in Nat
      BY <1>2, <1>10
    <2>4. s * r < s * (MaxSilence + 1)
      <3>1. s * (MaxSilence + 1) = s * MaxSilence + s /\ s * r \in Nat
        BY <1>2, <1>3, <2>2
      <3>. QED
        BY <1>1, <1>2, <1>4, <1>6, <1>10, <2>2, <2>3, <3>1
    <2>5. r < MaxSilence + 1
      BY <1>2, <1>3, <2>2, <2>4, TimesCancels
    <2>. QED
      BY <1>3, <2>2, <2>5 DEF r
  <1>. QED
    BY <1>1, <1>4, <1>7, <1>8, <1>9, <1>11, <1>12 DEF ms, len

(* Where such a song is cut, there is quiet for as long as it takes.       *)
QuietBriefly(t, len) ==
  \A i \in From(len) :
    i <= SamplesIn(len - MaxSilence) + SilenceTimeout * SamplesPerSec
      => Quiet(i, t)

LEMMA CutAfterIsRight ==
  ASSUME NEW t, Len(buf) \in Nat, played \in Nat, NEW len, CutAfter(t, len)
  PROVE  /\ len \in Nat
         /\ QuietBriefly(t, len)
         /\ len > MaxSilence + 2 => EndsLoud(t, len)
         /\ Trimmed(t, len) = len \/ Trimmed(t, len) \in 0 .. MaxSilence
  <1>1. PICK start \in 1 .. Len(buf) :
          StartsQuiet(t, start) /\ len = MillisOf(start) + MaxSilence
    BY DEF CutAfter
  <1>. DEFINE ms == MillisOf(start)
              q == SamplesPerSec * SilenceTimeout
              n == LastOf(len)
              r == Trimmed(t, len)
  <1>2. /\ ms \in Nat /\ len \in Nat /\ len = ms + MaxSilence
        /\ start <= SamplesIn(len) /\ SamplesIn(ms) <= start
        /\ LastLoud(t, n, start)
        /\ MillisOf(n - start) <= MaxSilence
    BY <1>1, CutAfterFacts
  <1>3. /\ start \in Nat /\ SamplesIn(len) \in Nat /\ SamplesIn(ms) \in Nat
        /\ MaxSilence \in Nat /\ q \in Nat
    BY <1>2, SamplesBounds, TimesFacts
  <1>8. q = SilenceTimeout * SamplesPerSec
    BY TimesFacts, RateFacts
  <1>4. /\ ~Quiet(start, t)
        /\ \A i \in start + 1 .. start + q + 1 : Quiet(i, t)
    BY <1>1 DEF StartsQuiet, QuietAfter
  <1>. HIDE DEF q, n, ms
  <1>5. QuietBriefly(t, len)
    <2>. SUFFICES ASSUME NEW i \in From(len),
                         i <= SamplesIn(len - MaxSilence)
                                + SilenceTimeout * SamplesPerSec
                  PROVE  Quiet(i, t)
      BY DEF QuietBriefly
    <2>1. len - MaxSilence = ms
      BY <1>2, <1>3
    <2>2. i <= SamplesIn(ms) + q
      BY <1>8, <2>1
    <2>3. i \in Int /\ i >= SamplesIn(len) + 2
      <3>1. i \in Largest(1, SamplesIn(len) + 2) .. LastOf(played)
        BY DEF From, LastOf
      <3>2. LastOf(played) \in Nat
        BY LastOfIs
      <3>. QED
        BY <1>3, <3>1, <3>2 DEF Largest
    <2>4. i \in start + 1 .. start + q + 1
      BY <1>2, <1>3, <2>2, <2>3
    <2>. QED
      BY <1>4, <2>4
  <1>6. ASSUME len > MaxSilence + 2 PROVE EndsLoud(t, len)
    <2>1. len - MaxSilence - 2 \in Nat /\ len - MaxSilence - 2 <= ms
      BY <1>2, <1>3, <1>6
    <2>2. /\ SamplesIn(len - MaxSilence - 2) <= SamplesIn(ms)
          /\ SamplesIn(len - MaxSilence - 2) \in Nat
      BY <1>2, <2>1, SamplesMono
    <2>3. start >= SamplesIn(len - MaxSilence - 2)
      BY <1>2, <1>3, <2>2
    <2>4. start >= 1 /\ start <= Len(buf)
      OBVIOUS
    <2>. QED
      BY <1>2, <1>3, <1>4, <2>3, <2>4, LoudEnds
  <1>7. r = len \/ r \in 0 .. MaxSilence
    <2>1. n \in Nat
      BY <1>2, LastOfIs DEF n
    <2>2. \/ AllQuiet(t, n) /\ r \in {0, len}
          \/ \E last \in Nat :
               LastLoud(t, n, last) /\ (r = len \/ r = MillisOf(n - last))
      BY <1>2, TrimmedIs DEF n
    <2>. HIDE DEF r
    <2>3. CASE AllQuiet(t, n) /\ r \in {0, len}
      BY <1>3, <2>3
    <2>4. ASSUME NEW last \in Nat, LastLoud(t, n, last), r = MillisOf(n - last)
          PROVE  r \in 0 .. MaxSilence
      <3>1. last = start
        BY <1>2, <2>1, <2>4 DEF LastLoud
      <3>2. n - start \in Nat
        BY <1>2, <2>1 DEF LastLoud
      <3>3. MillisOf(n - start) \in Nat
        BY <3>2, MillisBounds
      <3>. QED
        BY <1>2, <1>3, <2>4, <3>1, <3>3
    <2>. QED
      BY <2>2, <2>3, <2>4
  <1>. QED
    BY <1>2, <1>5, <1>6, <1>7
------------------------------------------------------------------------------
(* What the trims are given, and what they make of it.                     *)

TrimInv ==
  /\ pc \in {"play", "update"} => ended = "NONE"
  /\ pc = "detect" => ended = "TIMEOUT" /\ played = length
  /\ pc = "trim" => ended \in {"PLAYER", "DETECT_SILENCE", "ERROR", "TIMEOUT"}
  /\ pc \in {"trim", "done"} => played \in Nat
  /\ pc = "trim" /\ ended \in {"PLAYER", "DETECT_SILENCE"} =>
       /\ status = ended /\ length = played
       /\ Freq * played <= MsPerSec * fed
  /\ pc = "trim" /\ ended = "ERROR" => status = "ERROR"
  /\ pc = "trim" /\ ended = "TIMEOUT" =>
       /\ status # "PLAYER"
       /\ status = "DETECT_SILENCE" =>
            \/ ~audio /\ length \in Nat
            \/ CutAfter(Threshold(ThresholdSilence), length)
       /\ status = "DETECT_VOLUME" =>
            CutAfter(Threshold(ThresholdVolume), length)

(* OnlyQuietIsCut and TailIsShort for a song of status s and length len    *)
QuietIsCut(s, len) ==
  /\ ended \in {"PLAYER", "DETECT_SILENCE"} =>
       QuietFrom(IF s = "NOSOUND" THEN Margin ELSE len, QuietFor(s))
  /\ ended = "TIMEOUT" /\ s \in {"DETECT_SILENCE", "DETECT_VOLUME"} =>
       QuietBriefly(QuietFor(s), len)

ShortTail(s, len) ==
  /\ len > MaxSilence + 2
  /\ ~AllQuiet(QuietFor(s), LastOf(len))
  /\ ended \in {"PLAYER", "DETECT_SILENCE"} \/ s = "DETECT_SILENCE"
  => EndsLoud(QuietFor(s), len)

LEMMA TheProperties ==
  /\ OnlyQuietIsCut <=> (pc = "done" => QuietIsCut(status, length))
  /\ (pc = "done" => ShortTail(status, length)) => TailIsShort
  <1>1. OnlyQuietIsCut <=> (pc = "done" => QuietIsCut(status, length))
    BY DEF OnlyQuietIsCut, QuietIsCut, QuietFrom, QuietBriefly
  <1>2. ASSUME pc = "done" => ShortTail(status, length) PROVE TailIsShort
    <2>. DEFINE t == QuietFor(status)
                loud == {i \in 1 .. LastOf(length) : ~Quiet(i, t)}
    <2>1. ASSUME pc = "done", length > MaxSilence + 2, loud # {},
                 ended \in {"PLAYER", "DETECT_SILENCE"}
                   \/ status = "DETECT_SILENCE"
          PROVE  \E i \in loud : i >= SamplesIn(length - MaxSilence - 2)
      <3>1. ~AllQuiet(t, LastOf(length))
        BY <2>1 DEF AllQuiet
      <3>2. EndsLoud(t, length)
        <4>. HIDE DEF t
        <4>. QED
          BY <1>2, <2>1, <3>1 DEF ShortTail, t
      <3>. QED
        BY <3>2 DEF EndsLoud
    <2>. QED
      BY <2>1 DEF TailIsShort, LastOf
  <1>. QED
    BY <1>1, <1>2

(* Nothing of a song is there after its end.                               *)
LEMMA NothingAfterEnd ==
  ASSUME played \in Nat, Len(buf) \in Nat, NEW t
  PROVE  QuietFrom(played, t)
  <1>1. LastOf(played) \in Nat /\ LastOf(played) <= SamplesIn(played)
        /\ SamplesIn(played) \in Nat
    BY LastOfIs, SamplesBounds
  <1>. SUFFICES ASSUME NEW i \in From(played) PROVE FALSE
    BY DEF QuietFrom
  <1>2. i \in Largest(1, SamplesIn(played) + 2) .. LastOf(played)
    BY DEF From, LastOf
  <1>. QED
    BY <1>1, <1>2 DEF Largest

(* apply_trimmer, for a song that ended by itself                          *)
LEMMA TrimOfEnded ==
  ASSUME IInv, SmoothInv, SoundInv, TrimInv, pc = "trim", ApplyTrimmer,
         ended \in {"PLAYER", "DETECT_SILENCE"}
  PROVE  QuietIsCut(status', length') /\ ShortTail(status', length')
  <1>. DEFINE tS == Threshold(ThresholdSilence)
              tV == Threshold(ThresholdVolume)
              silence == TrimSilence(played)
              volume == TrimVolume(played)
  <1>1. /\ status = ended /\ length = played /\ played \in Nat
        /\ Freq * played <= MsPerSec * fed
    BY DEF TrimInv
  <1>2. Len(buf) \in Nat /\ Reaches(played)
    BY <1>1, SamplesReachEnd
  <1>3. MaxSilence \in Nat
    BY TimesFacts
  <1>4. ASSUME silence >= played, status' = "NOSOUND", length' = 0
        PROVE  QuietIsCut(status', length') /\ ShortTail(status', length')
    <2>1. QuietFrom(Margin, tS)
      BY <1>1, <1>2, <1>4, NoSoundIsQuiet
    <2>. QED
      BY <1>3, <1>4, <2>1 DEF QuietIsCut, ShortTail, QuietFor
  <1>5. ASSUME NEW t, MaxSilence < Trimmed(t, played),
               length' = Cut(played, Trimmed(t, played)),
               QuietFor(status') = t, status' # "NOSOUND"
        PROVE  QuietIsCut(status', length') /\ ShortTail(status', length')
    <2>1. /\ QuietFrom(length', t)
          /\ length' > MaxSilence + 2 => EndsLoud(t, length')
      BY <1>1, <1>2, <1>5, CutIsRight
    <2>. QED
      BY <1>5, <2>1 DEF QuietIsCut, ShortTail
  <1>6. ASSUME silence < played
        PROVE  silence = Trimmed(tS, played)
    BY <1>1, <1>6 DEF TrimSilence
  <1>7. ASSUME silence < played, silence > MaxSilence, status' \in
                 {"PLAYER_PLUS_SILENCE", "DETECT_SILENCE"},
               length' = Cut(played, silence)
        PROVE  QuietIsCut(status', length') /\ ShortTail(status', length')
    <2>1. QuietFor(status') = tS
      BY <1>7 DEF QuietFor
    <2>2. silence = Trimmed(tS, played)
      BY <1>6, <1>7
    <2>. HIDE DEF silence, tS
    <2>3. MaxSilence < Trimmed(tS, played)
      BY <1>7, <2>2
    <2>. QED
      BY <1>5, <1>7, <2>1, <2>2, <2>3
  <1>8. ASSUME volume > MaxSilence, status' = "PLAYER_PLUS_VOLUME",
               length' = Cut(played, volume)
        PROVE  QuietIsCut(status', length') /\ ShortTail(status', length')
    <2>1. QuietFor(status') = tV
      BY <1>8 DEF QuietFor
    <2>2. volume = Trimmed(tV, played)
      BY <1>3, <1>8 DEF TrimVolume
    <2>. HIDE DEF volume, tV
    <2>3. MaxSilence < Trimmed(tV, played)
      BY <1>8, <2>2
    <2>. QED
      BY <1>5, <1>8, <2>1, <2>2, <2>3
  <1>9. ASSUME silence < played, played <= MaxSilence \/ silence <= MaxSilence,
               UNCHANGED endVars
        PROVE  QuietIsCut(status', length') /\ ShortTail(status', length')
    <2>1. status' = ended /\ length' = played /\ status' # "NOSOUND"
      BY <1>1, <1>9 DEF endVars
    <2>2. QuietFor(status') = tS
      BY <2>1 DEF QuietFor
    <2>3. QuietFrom(length', tS)
      BY <1>1, <1>2, <2>1, NothingAfterEnd
    <2>4. ASSUME length' > MaxSilence + 2, ~AllQuiet(tS, LastOf(length'))
          PROVE  EndsLoud(tS, length')
      <3>1. silence = Trimmed(tS, played)
        BY <1>6, <1>9
      <3>2. played > MaxSilence + 2 /\ ~AllQuiet(tS, LastOf(played))
        BY <2>1, <2>4
      <3>. HIDE DEF silence, tS
      <3>3. silence <= MaxSilence
        BY <1>1, <1>3, <1>9, <3>2
      <3>4. /\ Trimmed(tS, played) < played
            /\ Trimmed(tS, played) <= MaxSilence
        BY <1>9, <3>1, <3>3
      <3>. QED
        BY <1>1, <1>2, <2>1, <3>2, <3>4, UncutIsShort
    <2>. QED
      BY <2>1, <2>2, <2>3, <2>4 DEF QuietIsCut, ShortTail
  <1>10. CASE TrimPlayer(silence, volume)
    <2>. HIDE DEF silence, volume
    <2>. QED
      BY <1>1, <1>4, <1>7, <1>8, <1>9, <1>10 DEF TrimPlayer, Result
  <1>11. CASE TrimSilent(silence)
    <2>. HIDE DEF silence, volume
    <2>. QED
      BY <1>1, <1>4, <1>7, <1>9, <1>11 DEF TrimSilent, Result
  <1>. QED
    BY <1>1, <1>10, <1>11 DEF ApplyTrimmer

(* ... and for one that had to be ended                                    *)
LEMMA TrimOfEndless ==
  ASSUME IInv, SmoothInv, TrimInv, pc = "trim", ApplyTrimmer,
         ended \in {"ERROR", "TIMEOUT"}
  PROVE  QuietIsCut(status', length') /\ ShortTail(status', length')
  <1>1. Len(buf) \in Nat /\ played \in Nat
    BY LenProperties DEF SmoothInv, TrimInv
  <1>2. ASSUME status' \notin {"DETECT_SILENCE", "DETECT_VOLUME"}
        PROVE  QuietIsCut(status', length') /\ ShortTail(status', length')
    BY <1>2 DEF QuietIsCut, ShortTail
  <1>3. CASE status \notin {"PLAYER", "DETECT_SILENCE", "DETECT_VOLUME"}
    BY <1>2, <1>3 DEF ApplyTrimmer, endVars
  <1>4. CASE status = "DETECT_VOLUME"
    <2>1. status' = status /\ length' = length
      BY <1>4 DEF ApplyTrimmer, endVars
    <2>2. CutAfter(Threshold(ThresholdVolume), length)
      BY <1>4 DEF TrimInv
    <2>3. QuietBriefly(Threshold(ThresholdVolume), length)
      BY <1>1, <2>2, CutAfterIsRight
    <2>. QED
      BY <1>4, <2>1, <2>3 DEF QuietIsCut, ShortTail, QuietFor
  <1>5. CASE status = "DETECT_SILENCE"
    <2>. DEFINE t == Threshold(ThresholdSilence)
                silence == TrimSilence(length)
    <2>1. ended = "TIMEOUT" /\ TrimSilent(silence)
      BY <1>5 DEF TrimInv, ApplyTrimmer
    <2>2. CASE ~audio /\ length \in Nat
      <3>1. silence = length
        BY <2>2 DEF TrimSilence
      <3>. HIDE DEF silence
      <3>2. status' = "NOSOUND"
        BY <2>1, <2>2, <3>1 DEF TrimSilent, Result
      <3>. QED
        BY <1>2, <3>2
    <2>3. CASE audio /\ CutAfter(t, length)
      <3>1. silence = Trimmed(t, length)
        BY <2>3 DEF TrimSilence
      <3>2. /\ length \in Nat /\ QuietBriefly(t, length)
            /\ length > MaxSilence + 2 => EndsLoud(t, length)
            /\ silence = length \/ silence \in 0 .. MaxSilence
        <4>. HIDE DEF t, silence
        <4>. QED
          BY <1>1, <2>3, <3>1, CutAfterIsRight
      <3>3. status' = "NOSOUND" \/ (status' = status /\ length' = length)
        <4>. HIDE DEF t, silence
        <4>1. MaxSilence \in Nat
          BY TimesFacts
        <4>. QED
          BY <2>1, <3>2, <4>1 DEF TrimSilent, Result, endVars
      <3>4. QuietFor("DETECT_SILENCE") = t
        BY DEF QuietFor
      <3>. HIDE DEF t
      <3>. QED
        BY <1>2, <1>5, <2>1, <3>2, <3>3, <3>4 DEF QuietIsCut, ShortTail
    <2>4. CASE CutAfter(t, length) /\ ~audio
      <3>1. length \in Nat
        BY <1>1, <2>4, CutAfterIsRight
      <3>. QED
        BY <2>2, <2>4, <3>1
    <2>. QED
      BY <1>5, <2>1, <2>2, <2>3, <2>4 DEF TrimInv
  <1>6. status # "PLAYER"
    BY DEF TrimInv
  <1>. QED
    BY <1>3, <1>4, <1>5, <1>6
------------------------------------------------------------------------------
(* Up to the trims.                                                        *)

LEMMA FoundIsCut ==
  ASSUME NEW t, Len(buf) \in Nat,
         MillisOf(VolumeDetect(SamplesPerSec * SilenceTimeout, t)) > 0
  PROVE  CutAfter(t, MillisOf(VolumeDetect(SamplesPerSec * SilenceTimeout, t))
                       + MaxSilence)
  <1>. DEFINE q == SamplesPerSec * SilenceTimeout
              start == VolumeDetect(q, t)
  <1>1. q \in Nat
    BY TimesFacts
  <1>2. start # 0
    <2>. SUFFICES ASSUME start = 0 PROVE FALSE
      OBVIOUS
    <2>1. MillisOf(0) = 0
      <3>1. 0 * MsPerSec = 0
        BY RateFacts
      <3>. QED
        BY <3>1, RateFacts DEF MillisOf
    <2>2. MillisOf(start) > 0
      OBVIOUS
    <2>. HIDE DEF start
    <2>. QED
      BY <2>1, <2>2
  <1>. HIDE DEF q
  <1>3. QuietAfter(t, q, start)
    BY <1>1, <1>2, VolumeDetectIs
  <1>. HIDE DEF start
  <1>4. start \in 1 .. Len(buf)
    BY <1>1, <1>3 DEF QuietAfter
  <1>. QED
    BY <1>3, <1>4 DEF CutAfter, StartsQuiet, start, q

(* What the detector finds in a song that reached the limit                *)
LEMMA DetectedIs ==
  ASSUME IInv, SmoothInv, StageInv, pc = "detect", ApplyDetector
  PROVE  /\ status' # "PLAYER"
         /\ status' = "DETECT_SILENCE" =>
              \/ ~audio /\ length' \in Nat
              \/ CutAfter(Threshold(ThresholdSilence), length')
         /\ status' = "DETECT_VOLUME" =>
              CutAfter(Threshold(ThresholdVolume), length')
  <1>. DEFINE silence == DetectSilence(SilenceTimeout)
              volume  == DetectVolume(SilenceTimeout)
              tS == Threshold(ThresholdSilence)
              tV == Threshold(ThresholdVolume)
              Goal == /\ status' # "PLAYER"
                      /\ status' = "DETECT_SILENCE" =>
                           \/ ~audio /\ length' \in Nat
                           \/ CutAfter(tS, length')
                      /\ status' = "DETECT_VOLUME" => CutAfter(tV, length')
  <1>1. status = "TIMEOUT" /\ Len(buf) \in Nat
    BY LenProperties DEF StageInv, SmoothInv
  <1>2. ASSUME DetectedSilence(silence) PROVE Goal
    <2>1. ASSUME status' = "DETECT_SILENCE",
                 length' = silence + MaxSilence, silence > 0
          PROVE  \/ ~audio /\ length' \in Nat
                 \/ CutAfter(tS, length')
      <3>1. CASE ~audio
        <4>1. silence = MillisOf(Len(buf)) + 1
          BY <3>1 DEF DetectSilence
        <4>2. MillisOf(Len(buf)) \in Nat
          BY <1>1, MillisBounds
        <4>. HIDE DEF silence
        <4>. QED
          BY <2>1, <3>1, <4>1, <4>2, TimesFacts
      <3>2. CASE audio
        <4>1. silence = MillisOf(VolumeDetect(SamplesPerSec * SilenceTimeout,
                                              tS))
          BY <3>2 DEF DetectSilence
        <4>. HIDE DEF silence, tS
        <4>. QED
          BY <1>1, <2>1, <4>1, FoundIsCut
      <3>. QED
        BY <3>1, <3>2
    <2>. HIDE DEF silence, tS, tV
    <2>2. /\ silence > 0
          /\ \/ status' = "NOSOUND"
             \/ status' = "DETECT_SILENCE" /\ length' = silence + MaxSilence
             \/ status' = status
      BY <1>2 DEF DetectedSilence, Result, endVars
    <2>. QED
      BY <1>1, <2>1, <2>2
  <1>3. ASSUME DetectedVolume(volume) PROVE Goal
    <2>1. /\ volume > 0 /\ status' = "DETECT_VOLUME"
          /\ length' = volume + MaxSilence
      <3>. HIDE DEF volume
      <3>. QED
        BY <1>3 DEF DetectedVolume, Result
    <2>2. volume = MillisOf(VolumeDetect(SamplesPerSec * SilenceTimeout, tV))
      <3>1. volume = IF tV = 0 THEN 0
                     ELSE MillisOf(VolumeDetect(
                                     SamplesPerSec * SilenceTimeout, tV))
        BY DEF DetectVolume
      <3>. HIDE DEF volume, tV
      <3>. QED
        BY <2>1, <3>1
    <2>. HIDE DEF volume, tV
    <2>. QED
      BY <1>1, <2>1, <2>2, FoundIsCut
  <1>4. ASSUME status' \in {"TIMEOUT", "DETECT_REPEAT", "DETECT_LOOP",
                            "LOOP_PLUS_SILENCE", "LOOP_PLUS_VOLUME"}
        PROVE  Goal
    BY <1>4
  <1>5. ASSUME UNCHANGED endVars PROVE Goal
    BY <1>1, <1>4, <1>5 DEF endVars
  <1>6. ASSUME NEW repeat, Result("DETECT_REPEAT", repeat) PROVE Goal
    BY <1>4, <1>6 DEF Result
  <1>7. ASSUME NEW loop, DetectedLoop(loop) PROVE Goal
    BY <1>4, <1>7 DEF DetectedLoop, Result
  <1>8. \/ DetectedSilence(silence) \/ DetectedVolume(volume)
        \/ UNCHANGED endVars
        \/ \E repeat : Result("DETECT_REPEAT", repeat)
        \/ \E loop : DetectedLoop(loop)
    <2>. HIDE DEF silence, volume
    <2>. QED
      BY DEF ApplyDetector, silence, volume
  <1>. HIDE DEF Goal
  <1>9. Goal
    <2>. HIDE DEF silence, volume
    <2>. QED
      BY <1>2, <1>3, <1>5, <1>6, <1>7, <1>8
  <1>. QED
    BY <1>9 DEF Goal

(* The length that was heard is that of what update was given, at most.    *)
LEMMA HeardIsFed ==
  ASSUME IInv
  PROVE  /\ Heard \in Nat /\ Freq * Heard <= MsPerSec * fed
         /\ SilentAtEnd => /\ HeardWithoutSilence \in Nat
                           /\ Freq * HeardWithoutSilence <= MsPerSec * fed
  <1>1. fed \in Nat /\ Freq \in Nat \ {0} /\ MsPerSec \in Nat \ {0}
    BY RateAssumption DEF IInv, SongInv
  <1>2. fed * MsPerSec \in Nat /\ fed * MsPerSec = MsPerSec * fed
    BY <1>1
  <1>3. Heard \in Nat /\ Freq * Heard <= MsPerSec * fed
    BY <1>1, <1>2, DivBounds, DivIsNat DEF Heard
  <1>4. MsPerSec * fed < Freq * Heard + Freq
    BY <1>1, <1>2, DivBounds DEF Heard
  <1>5. ASSUME SilentAtEnd
        PROVE  /\ HeardWithoutSilence \in Nat
               /\ Freq * HeardWithoutSilence <= MsPerSec * fed
    <2>. DEFINE k == SilenceTimeout
                h == Heard
                x == HeardWithoutSilence
    <2>1. k \in Nat /\ MaxSilence \in Nat
      BY LimitsAssumption
    <2>2. fed >= k * Freq
      BY <1>5 DEF SilentAtEnd
    <2>3. x = h - k + (IF k > MaxSilence THEN MaxSilence ELSE 0)
      BY Zenon DEF HeardWithoutSilence
    <2>. HIDE DEF h, k, x
    <2>4. h >= k
      <3>1. MsPerSec * (k * Freq) <= MsPerSec * fed
        BY <1>1, <2>1, <2>2, TimesMono, ProductIsNat
      <3>2. MsPerSec * (k * Freq) = (k * Freq) * MsPerSec
        BY <1>1, <2>1
      <3>3. (k * Freq) * 1 <= (k * Freq) * MsPerSec
        BY <1>1, <2>1, TimesMono, ProductIsNat
      <3>4. (k * Freq) * 1 = Freq * k /\ k * Freq \in Nat
        BY <1>1, <2>1
      <3>5. Freq * (h + 1) = Freq * h + Freq
        BY <1>1, <1>3 DEF h
      <3>6. Freq * k \in Nat /\ MsPerSec * fed \in Nat
            /\ Freq * h \in Nat /\ (k * Freq) * MsPerSec \in Nat
        BY <1>1, <1>3, <2>1, ProductIsNat DEF h
      <3>7. Freq * k < Freq * (h + 1)
        BY <1>1, <1>4, <3>1, <3>2, <3>3, <3>4, <3>5, <3>6 DEF h
      <3>8. h + 1 \in Nat
        BY <1>3 DEF h
      <3>9. k < h + 1
        BY <1>1, <2>1, <3>7, <3>8, TimesCancels
      <3>. QED
        BY <2>1, <3>8, <3>9, <1>3 DEF h
    <2>5. h \in Nat /\ Freq * h <= MsPerSec * fed
      BY <1>3 DEF h
    <2>6. x \in Nat /\ x <= h
      BY <2>1, <2>3, <2>4, <2>5
    <2>7. Freq * x <= Freq * h
      BY <1>1, <2>5, <2>6, TimesMono
    <2>8. Freq * x \in Nat /\ Freq * h \in Nat /\ MsPerSec * fed \in Nat
      BY <1>1, <2>5, <2>6, ProductIsNat
    <2>9. Freq * x <= MsPerSec * fed
      BY <2>5, <2>7, <2>8
    <2>. QED
      BY <2>6, <2>9 DEF x
  <1>. QED
    BY <1>3, <1>5

LEMMA InitTrim == Init => TrimInv
  BY DEF Init, TrimInv

LEMMA TrimStep ==
  IInv /\ SmoothInv /\ StageInv /\ TrimInv /\ [Next]_vars => TrimInv'
  <1>. SUFFICES ASSUME IInv, SmoothInv, StageInv, TrimInv, [Next]_vars
                PROVE  TrimInv'
    OBVIOUS
  <1>1. ASSUME NEW n \in Buffers, Write(n) PROVE TrimInv'
    BY <1>1 DEF Write, TrimInv
  <1>2. CASE Update \/ UpdateEnds
    BY <1>2 DEF Update, UpdateEnds, TrimInv
  <1>3. CASE LimitEnds
    <2>1. /\ pc' = "detect" /\ ended' = "TIMEOUT" /\ played' = length
          /\ length' = length
      BY <1>3 DEF LimitEnds, StageInv, endVars
    <2>. QED
      BY <2>1 DEF TrimInv
  <1>4. CASE PlayFails
    BY <1>4 DEF PlayFails, TrimInv
  <1>5. ASSUME NEW s \in {"PLAYER", "ERROR", "DETECT_SILENCE"},
               NEW n \in Buffers \cup {0}, SongEnds(s, n)
        PROVE  TrimInv'
    <2>1. /\ pc' = "trim" /\ status' = s /\ ended' = s
          /\ played' = length' /\ fed' = fed
          /\ s = "PLAYER" => length' = Heard
          /\ s = "DETECT_SILENCE" =>
               SilentAtEnd /\ length' = HeardWithoutSilence
          /\ s = "ERROR" => length' = ((fed + n) * MsPerSec) \div Freq
      BY <1>5 DEF SongEnds, songVars
    <2>2. /\ s # "ERROR" => Freq * played' <= MsPerSec * fed'
          /\ played' \in Nat
      <3>1. CASE s = "PLAYER"
        BY <2>1, <3>1, HeardIsFed
      <3>2. CASE s = "DETECT_SILENCE"
        BY <2>1, <3>2, HeardIsFed
      <3>3. CASE s = "ERROR"
        <4>1. n \in Nat /\ fed \in Nat
          BY SongAssumption DEF IInv, SongInv
        <4>2. (fed + n) * MsPerSec \in Nat
          BY <4>1, RateFacts, ProductIsNat
        <4>3. ((fed + n) * MsPerSec) \div Freq \in Nat
          BY <4>2, RateAssumption, DivIsNat
        <4>. QED
          BY <2>1, <3>3, <4>3
      <3>. QED
        BY <3>1, <3>2, <3>3
    <2>. QED
      BY <2>1, <2>2 DEF TrimInv
  <1>6. CASE ApplyDetector
    <2>1. /\ pc = "detect" /\ pc' = "trim" /\ ended' = ended
          /\ played' = played /\ UNCHANGED detectorVars
      BY <1>6 DEF ApplyDetector
    <2>2. ended = "TIMEOUT" /\ played \in Nat
      BY <2>1, LimitFacts DEF TrimInv, StageInv
    <2>3. /\ status' # "PLAYER"
          /\ status' = "DETECT_SILENCE" =>
               \/ ~audio /\ length' \in Nat
               \/ CutAfter(Threshold(ThresholdSilence), length')
          /\ status' = "DETECT_VOLUME" =>
               CutAfter(Threshold(ThresholdVolume), length')
      BY <1>6, <2>1, DetectedIs
    <2>4. /\ audio' = audio
          /\ CutAfter(Threshold(ThresholdSilence), length)'
               = CutAfter(Threshold(ThresholdSilence), length')
          /\ CutAfter(Threshold(ThresholdVolume), length)'
               = CutAfter(Threshold(ThresholdVolume), length')
      BY <2>1 DEF detectorVars, sampleVars, CutAfter, StartsQuiet, QuietAfter,
        Quiet, Threshold
    <2>. QED
      BY <2>1, <2>2, <2>3, <2>4 DEF TrimInv
  <1>7. CASE ApplyTrimmer
    BY <1>7 DEF ApplyTrimmer, TrimInv
  <1>8. CASE Done \/ UNCHANGED vars
    <2>1. UNCHANGED vars
      BY <1>8 DEF Done
    <2>2. /\ CutAfter(Threshold(ThresholdSilence), length)'
               = CutAfter(Threshold(ThresholdSilence), length)
          /\ CutAfter(Threshold(ThresholdVolume), length)'
               = CutAfter(Threshold(ThresholdVolume), length)
      BY <2>1 DEF vars, endVars, detectorVars, sampleVars, CutAfter,
        StartsQuiet, QuietAfter, Quiet, Threshold
    <2>. QED
      BY <2>1, <2>2
      DEF vars, endVars, detectorVars, sampleVars, songVars, TrimInv
  <1>. QED
    BY <1>1, <1>2, <1>3, <1>4, <1>5, <1>6, <1>7, <1>8 DEF Next

LEMMA TrimInvariance == Spec => []TrimInv
  BY InitTrim, TrimStep, Invariance, SmoothInvariance, StageInvariance, PTL
  DEF Spec

(* The two properties once more, to be carried along.                      *)
EndInv ==
  pc = "done" => QuietIsCut(status, length) /\ ShortTail(status, length)

LEMMA InitEnd == Init => EndInv
  BY DEF Init, EndInv

LEMMA EndStep ==
  IInv /\ SmoothInv /\ SoundInv /\ TrimInv /\ EndInv /\ [Next]_vars => EndInv'
  <1>. SUFFICES ASSUME IInv, SmoothInv, SoundInv, TrimInv, EndInv, [Next]_vars
                PROVE  EndInv'
    OBVIOUS
  <1>1. ASSUME UNCHANGED detectorVars, ended' = ended, played' = played
        PROVE  /\ QuietIsCut(status, length)' = QuietIsCut(status', length')
               /\ ShortTail(status, length)' = ShortTail(status', length')
    BY <1>1 DEF detectorVars, sampleVars, QuietIsCut, ShortTail, QuietFrom,
      QuietBriefly, From, AllQuiet, LastOf, EndsLoud, QuietFor, Threshold,
      Quiet
  <1>2. CASE ApplyTrimmer
    <2>1. /\ pc = "trim" /\ UNCHANGED detectorVars
          /\ ended' = ended /\ played' = played
      BY <1>2 DEF ApplyTrimmer
    <2>2. ended \in {"PLAYER", "DETECT_SILENCE", "ERROR", "TIMEOUT"}
      BY <2>1 DEF TrimInv
    <2>3. QuietIsCut(status', length') /\ ShortTail(status', length')
      BY <1>2, <2>1, <2>2, TrimOfEnded, TrimOfEndless
    <2>. QED
      BY <1>1, <2>1, <2>3 DEF EndInv
  <1>3. CASE PlayFails
    <2>1. ended' = "ERROR" /\ status' = "ERROR"
      BY <1>3 DEF PlayFails
    <2>. QED
      BY <2>1 DEF EndInv, QuietIsCut, ShortTail
  <1>4. CASE Done \/ UNCHANGED vars
    <2>1. UNCHANGED vars
      BY <1>4 DEF Done
    <2>2. /\ QuietIsCut(status, length)' = QuietIsCut(status, length)
          /\ ShortTail(status, length)' = ShortTail(status, length)
      BY <1>1, <2>1 DEF vars, endVars
    <2>. QED
      BY <2>1, <2>2 DEF vars, EndInv
  <1>5. CASE \/ \E n \in Buffers : Write(n)
             \/ Update \/ UpdateEnds \/ LimitEnds \/ ApplyDetector
             \/ \E s \in {"PLAYER", "ERROR", "DETECT_SILENCE"},
                   n \in Buffers \cup {0} : SongEnds(s, n)
    <2>1. pc' # "done"
      BY <1>5
      DEF Write, Update, UpdateEnds, LimitEnds, ApplyDetector, SongEnds
    <2>. QED
      BY <2>1 DEF EndInv
  <1>. QED
    BY <1>2, <1>3, <1>4, <1>5 DEF Next

LEMMA EndInvariance == Spec => []EndInv
  BY InitEnd, EndStep, Invariance, SmoothInvariance, SoundInvariance,
     TrimInvariance, PTL DEF Spec

(* At every rate, for every song and however it ended, nothing that can be *)
(* heard is cut off its end.                                               *)
THEOREM NothingHeardIsCut == Spec => []OnlyQuietIsCut
  <1>1. EndInv => OnlyQuietIsCut
    BY TheProperties DEF EndInv
  <1>. QED
    BY <1>1, EndInvariance, PTL

(* ... and no more than MAX_SILENCE of silence is left there.              *)
THEOREM TailIsAlwaysShort == Spec => []TailIsShort
  <1>1. EndInv => TailIsShort
    BY TheProperties DEF EndInv
  <1>. QED
    BY <1>1, EndInvariance, PTL
==============================================================================
