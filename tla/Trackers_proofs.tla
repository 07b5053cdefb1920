-------------------------- MODULE Trackers_proofs ----------------------------
(***************************************************************************)
(* The walk over any module, of any size, finds subsongs that start at     *)
(* different orders, in the order of the list, each with a pattern; it     *)
(* reads what the module has; it ends; and a song that is restarted plays  *)
(* as one that has just been loaded.                                       *)
(***************************************************************************)
EXTENDS Trackers, WellFoundedInduction, FiniteSetTheorems, TLAPS

(* The orders the walk has not seen come after the start of the last       *)
(* subsong it has found; before its first step, order 0 is among them.     *)
UnseenInv ==
  \/ seen = {} /\ songPos = 0 /\ Len(subsongs) = 1 /\ subsongs[1] = 0
  \/ \A o \in notseen : o > subsongs[Len(subsongs)]

IInv ==
  /\ subsongs \in Seq(Nat) /\ Len(subsongs) >= 1
  /\ notseen \subseteq {i \in 0 .. OrdNum - 1 : Ord(i) <= PatNum}
  /\ UnseenInv
  /\ SubsongsAscend

(* A set of numbers that is not empty has a least element.                 *)
LEMMA MinOfNat ==
  ASSUME NEW S \in SUBSET Nat, S # {}
  PROVE  Min(S) \in S /\ \A y \in S : Min(S) <= y
<1>1. PICK x \in S : \A y \in S : ~ (<<y, x>> \in OpToRel(<, Nat))
  BY WFMin, NatLessThanWellFounded
<1>2. \A y \in S : x <= y
  <2>1. SUFFICES ASSUME NEW y \in S PROVE x <= y
    OBVIOUS
  <2>2. <<y, x>> \in OpToRel(<, Nat) <=> y < x
    BY DEF OpToRel
  <2>3. ~ (y < x)
    BY <1>1, <2>2, Zenon
  <2>4. QED
    BY <2>3
<1>3. QED
  BY <1>1, <1>2 DEF Min

LEMMA InitIsCorrect == Init => IInv
<1>1. SUFFICES ASSUME Init PROVE IInv
  OBVIOUS
<1>2. subsongs = <<0>>
  BY <1>1 DEF Init, InitWalk
<1>3. QED
  BY <1>1, <1>2 DEF Init, InitWalk, IInv, UnseenInv, SubsongsAscend

(* What the body of the loop does to the subsongs: it appends none, or the *)
(* first of the orders not seen, which it then has seen.                   *)
LEMMA VisitKeeps ==
  ASSUME IInv, Visit, UNCHANGED songVars, seen' # {}
  PROVE  IInv'
<1>1. song' = song /\ player' = player
  BY DEF songVars
<1>2. /\ OrdNum' = OrdNum /\ PatNum' = PatNum
      /\ \A i : Ord(i)' = Ord(i)
  BY <1>1 DEF OrdNum, PatNum, Ord
<1>3. notseen' = notseen \ {Here}
  BY DEF Visit
<1>4. notseen' \subseteq {i \in 0 .. OrdNum - 1 : Ord(i) <= PatNum}'
  BY <1>2, <1>3 DEF IInv
<1>5. CASE subsongs' = subsongs
  <2>1. SubsongsAscend'
    BY <1>2, <1>5 DEF IInv, SubsongsAscend
  <2>2. UnseenInv'
    <3>1. CASE \A o \in notseen : o > subsongs[Len(subsongs)]
      BY <1>3, <1>5, <3>1 DEF UnseenInv
    <3>2. CASE seen = {} /\ songPos = 0 /\ Len(subsongs) = 1
                 /\ subsongs[1] = 0
      <4>1. Here = 0
        BY <3>2 DEF Here, Closed
      <4>2. \A o \in notseen' : o > 0
        BY <1>3, <4>1 DEF IInv
      <4>3. QED
        BY <1>5, <3>2, <4>2 DEF UnseenInv
    <3>3. QED
      BY <3>1, <3>2 DEF IInv, UnseenInv
  <2>3. QED
    BY <1>4, <1>5, <2>1, <2>2 DEF IInv
<1>6. CASE Closed /\ subsongs' = Append(subsongs, First)
  <2>1. notseen # {} /\ notseen \in SUBSET Nat /\ seen # {}
    BY <1>6 DEF Closed, IInv
  <2>2. First \in notseen /\ \A y \in notseen : First <= y
    BY <2>1, MinOfNat DEF First
  <2>3. Here = First
    BY <1>6 DEF Here
  <2>4. First > subsongs[Len(subsongs)]
    BY <2>1, <2>2 DEF IInv, UnseenInv
  <2>5. First \in Nat /\ Ord(First) <= PatNum
    BY <2>2 DEF IInv
  <2>6. /\ subsongs' \in Seq(Nat)
        /\ Len(subsongs') = Len(subsongs) + 1
        /\ \A i \in 1 .. Len(subsongs) : subsongs'[i] = subsongs[i]
        /\ subsongs'[Len(subsongs) + 1] = First
    BY <1>6, <2>5 DEF IInv
  <2>7. SubsongsAscend'
    <3>1. SUFFICES ASSUME NEW i \in 2 .. Len(subsongs')
                   PROVE  (subsongs[i] > subsongs[i - 1]
                             /\ Ord(subsongs[i]) <= PatNum)'
      BY DEF SubsongsAscend
    <3>2. /\ subsongs \in Seq(Nat) /\ Len(subsongs) \in Nat
          /\ Len(subsongs) >= 1
      BY DEF IInv
    <3>3. CASE i = Len(subsongs) + 1
      BY <1>1, <2>4, <2>5, <2>6, <3>2, <3>3 DEF Ord, OrdNum, PatNum
    <3>4. CASE i \in 2 .. Len(subsongs)
      <4>1. subsongs'[i] = subsongs[i] /\ subsongs'[i - 1] = subsongs[i - 1]
        <5>1. i \in 1 .. Len(subsongs) /\ i - 1 \in 1 .. Len(subsongs)
          BY <3>2, <3>4
        <5>2. QED
          BY <2>6, <5>1
      <4>2. subsongs[i] > subsongs[i - 1] /\ Ord(subsongs[i]) <= PatNum
        BY <3>4 DEF IInv, SubsongsAscend
      <4>3. QED
        BY <1>1, <4>1, <4>2 DEF Ord, OrdNum, PatNum
    <3>5. QED
      BY <2>6, <3>2, <3>3, <3>4
  <2>8. UnseenInv'
    <3>1. \A o \in notseen' : o > First
      BY <1>3, <2>1, <2>2, <2>3, <2>5
    <3>2. QED
      BY <2>6, <3>1 DEF UnseenInv, IInv
  <2>9. QED
    BY <1>4, <2>6, <2>7, <2>8 DEF IInv
<1>7. QED
  BY <1>5, <1>6 DEF Visit

LEMMA SkipKeeps ==
  ASSUME IInv, SkipEmpty
  PROVE  IInv'
<1>1. /\ song' = song /\ player' = player /\ subsongs' = subsongs
      /\ notseen' \subseteq notseen /\ seen # {}
  BY DEF SkipEmpty, songVars, Closed
<1>2. /\ OrdNum' = OrdNum /\ PatNum' = PatNum
      /\ \A i : Ord(i)' = Ord(i)
  BY <1>1 DEF OrdNum, PatNum, Ord
<1>3. UnseenInv'
  BY <1>1 DEF IInv, UnseenInv
<1>4. SubsongsAscend'
  BY <1>1, <1>2 DEF IInv, SubsongsAscend
<1>5. QED
  BY <1>1, <1>2, <1>3, <1>4 DEF IInv

LEMMA IdleKeeps ==
  ASSUME IInv, UNCHANGED <<songVars, walkVars>>
  PROVE  IInv'
<1>1. /\ song' = song /\ player' = player /\ subsongs' = subsongs
      /\ notseen' = notseen /\ seen' = seen /\ songPos' = songPos
  BY DEF songVars, walkVars
<1>2. /\ OrdNum' = OrdNum /\ PatNum' = PatNum
      /\ \A i : Ord(i)' = Ord(i)
  BY <1>1 DEF OrdNum, PatNum, Ord
<1>3. QED
  BY <1>1, <1>2 DEF IInv, UnseenInv, SubsongsAscend

LEMMA StepIsCorrect == IInv /\ [Next]_vars => IInv'
<1>1. SUFFICES ASSUME IInv, [Next]_vars PROVE IInv'
  OBVIOUS
<1>2. CASE SkipEmpty
  BY <1>1, <1>2, SkipKeeps
<1>3. CASE AllSeen
  BY <1>1, <1>3, VisitKeeps DEF AllSeen, SeenNow
<1>4. CASE Separator
  BY <1>1, <1>4, VisitKeeps DEF Separator, SeenNow
<1>5. CASE Leap
  <2>1. Visit /\ UNCHANGED songVars /\ seen' # {}
    BY <1>5 DEF Leap, SeenNow
  <2>2. QED
    BY <1>1, <2>1, VisitKeeps
<1>6. CASE NextRow
  BY <1>1, <1>6, VisitKeeps DEF NextRow, SeenNow
<1>7. CASE UNCHANGED <<songVars, walkVars>>
  BY <1>1, <1>7, IdleKeeps
<1>8. CASE UNCHANGED vars
  BY <1>7, <1>8 DEF vars
<1>9. CASE Next
  <2>1. CASE WalkStep
    BY <1>2, <1>3, <1>4, <1>5, <1>6, <2>1
    DEF WalkStep, Walk, It2Walk, Ft2Walk, St3Walk
  <2>2. CASE \E n \in Mixed : RenderTicks(n)
    BY <1>7, <2>2 DEF RenderTicks
  <2>3. CASE Restart
    BY <1>7, <2>3 DEF Restart
  <2>4. CASE \E s \in 1 .. Len(subsongs) : Play(s)
    BY <1>7, <2>4 DEF Play
  <2>5. QED
    BY <1>9, <2>1, <2>2, <2>3, <2>4 DEF Next
<1>10. QED
  BY <1>1, <1>8, <1>9

(* The subsongs of every module start at orders of their own, in ascending *)
(* order, and never at an order whose pattern is out of range: the number  *)
(* of subsongs get_subsongs returns is at most that of the orders.         *)
THEOREM SubsongsAreAscending == Spec => []SubsongsAscend
<1>1. IInv => SubsongsAscend
  BY DEF IInv
<1>2. QED
  BY <1>1, InitIsCorrect, StepIsCorrect, PTL DEF Spec
------------------------------------------------------------------------------
(* Where the walk is.                                                      *)

(* A row other than the first is one of the pattern; Impulse Tracker's     *)
(* walk comes to a separator at row 0 only.                                *)
RowInv ==
  pattPos # 0 =>
    /\ pattPos < Rows(Ord(songPos))
    /\ player = "it2play" => ~Separates(Ord(songPos))

WalkInv ==
  /\ player \in Players /\ song \in Songs
  /\ phase = "walk" /\ notseen # {} =>
       songPos \in 0 .. OrdNum - 1 /\ pattPos \in Nat /\ RowInv

LEMMA RowsAndOrders ==
  ASSUME WalkInv
  PROVE  /\ OrdNum \in Nat /\ PatNum \in Nat /\ PatNum < SEP
         /\ \A i \in Nat : Ord(i) \in Nat
         /\ \A p \in Nat : Rows(p) \in Nat
<1>1. /\ song.orders \in Seq(Nat) /\ song.patnum \in 0 .. SEP - 1
      /\ \A p \in 0 .. song.patnum - 1 : song.rows[p] \in Nat
      /\ MaxRows \in Nat /\ player \in Players
  BY SongsAssumption DEF WalkInv
<1>2. OrdNum \in Nat /\ PatNum \in Nat /\ PatNum < SEP
  <2>1. SEP \in Nat
    BY DEF SEP
  <2>2. song.patnum \in Nat /\ song.patnum < SEP
    BY <1>1, <2>1
  <2>. QED
    BY <1>1, <2>2 DEF OrdNum, PatNum
<1>3. ASSUME NEW i \in Nat PROVE Ord(i) \in Nat
  <2>1. i < OrdNum => i + 1 \in 1 .. Len(song.orders)
    BY <1>2 DEF OrdNum
  <2>. QED
    BY <1>1, <2>1 DEF Ord, END
<1>4. ASSUME NEW p \in Nat PROVE Rows(p) \in Nat
  <2>1. p < PatNum => p \in 0 .. song.patnum - 1
    BY <1>2 DEF PatNum
  <2>2. p < PatNum => song.rows[p] \in Nat
    BY <1>1, <2>1
  <2>3. CASE player = "it2play"
    BY <2>2, <2>3 DEF Rows
  <2>4. CASE player = "ft2play"
    BY <1>1, <2>2, <2>4 DEF Rows
  <2>5. CASE player = "st3play"
    BY <1>1, <2>5 DEF Rows
  <2>. QED
    BY <1>1, <2>3, <2>4, <2>5 DEF Players
<1>. QED
  BY <1>2, <1>3, <1>4

(* The effects of a row the pattern has are bytes or none.                 *)
LEMMA JumpsAreBytes ==
  ASSUME WalkInv, NEW p \in Nat, NEW row \in Nat, row = 0 \/ row < Rows(p)
  PROVE  PosJump(p, row)[1] \in Param /\ PosJump(p, row)[2] \in Param
<1>1. /\ Rows(p) \in Nat /\ PatNum \in Nat /\ MaxRows \in Nat \ {0}
      /\ player \in Players /\ song.patnum = PatNum
  BY RowsAndOrders, SongsAssumption DEF WalkInv, PatNum
<1>2. Cell(p, row).b \in Param /\ Cell(p, row).c \in Param
  <2>1. CASE ~HasData(p)
    BY <2>1 DEF Cell, NoCell, Param
  <2>2. CASE HasData(p)
    <3>1. p \in 0 .. song.patnum - 1
      BY <1>1, <2>2 DEF HasData
    <3>2. Rows(p) = song.rows[p] \/ Rows(p) = MaxRows
      BY <1>1, <2>2 DEF Rows, HasData, Players
    <3>3. row \in (0 .. MaxRows - 1) \cup (0 .. song.rows[p] - 1)
      BY <1>1, <3>2
    <3>4. song.cells[p][row].b \in Param /\ song.cells[p][row].c \in Param
      BY <3>1, <3>3, SongsAssumption DEF WalkInv
    <3>. QED
      BY <2>2, <3>4 DEF Cell
  <2>. QED
    BY <2>1, <2>2
<1>3. ASSUME NEW c \in Nat PROVE Bcd(c) \in Nat
  <2>1. c \div Hex \in Nat /\ c % Hex \in Nat /\ Dec \in Nat
    BY SongsAssumption
  <2>. QED
    BY <2>1 DEF Bcd
<1>4. CASE player = "it2play"
  BY <1>2, <1>4 DEF PosJump, It2PosJump, Param
<1>5. CASE player = "st3play"
  BY <1>2, <1>5 DEF PosJump, St3PosJump
<1>6. CASE player = "ft2play"
  BY <1>2, <1>3, <1>6 DEF PosJump, Ft2PosJump, Param, None
<1>. QED
  BY <1>1, <1>4, <1>5, <1>6 DEF Players

LEMMA InitWalkInv == Init => WalkInv
<1>. SUFFICES ASSUME Init PROVE WalkInv
  OBVIOUS
<1>1. player \in Players /\ song \in Songs
  BY DEF Init, InitWalk
<1>2. OrdNum \in Nat
  BY <1>1, SongsAssumption DEF OrdNum
<1>3. songPos = 0 /\ pattPos = 0 /\ notseen \subseteq 0 .. OrdNum - 1
  BY DEF Init, InitWalk
<1>4. ASSUME NEW o \in notseen PROVE songPos \in 0 .. OrdNum - 1
  <2>1. o \in 0 .. OrdNum - 1
    BY <1>3, <1>4
  <2>. QED
    BY <1>2, <1>3, <2>1
<1>. QED
  BY <1>1, <1>3, <1>4 DEF WalkInv, RowInv

(* Where the body of the loop goes on is a place, too.                     *)
LEMMA HereFacts ==
  ASSUME IInv, WalkInv, phase = "walk", notseen # {}
  PROVE  /\ Here \in 0 .. OrdNum - 1 /\ HereRow \in Nat
         /\ HereRow # 0 => /\ HereRow < Rows(Ord(Here))
                           /\ player = "it2play" => ~Separates(Ord(Here))
<1>1. CASE Closed
  <2>1. notseen \subseteq 0 .. OrdNum - 1 /\ notseen \in SUBSET Nat
    <3>1. notseen \subseteq 0 .. OrdNum - 1
      BY DEF IInv
    <3>2. \A o \in 0 .. OrdNum - 1 : o \in Nat
      BY RowsAndOrders
    <3>. QED
      BY <3>1, <3>2
  <2>2. First \in notseen
    BY <2>1, MinOfNat DEF First
  <2>. QED
    BY <1>1, <2>1, <2>2 DEF Here, HereRow
<1>2. CASE ~Closed
  BY <1>2 DEF Here, HereRow, WalkInv, RowInv
<1>. QED
  BY <1>1, <1>2

LEMMA WalkStepInv == IInv /\ WalkInv /\ [Next]_vars => WalkInv'
<1>. SUFFICES ASSUME IInv, WalkInv, [Next]_vars PROVE WalkInv'
  OBVIOUS
<1>1. player' = player /\ song' = song
  BY DEF Next, WalkStep, Walk, It2Walk, Ft2Walk, St3Walk, SkipEmpty, AllSeen,
    Separator, Leap, NextRow, RenderTicks, Restart, Play, vars, songVars
<1>2. /\ OrdNum' = OrdNum /\ PatNum' = PatNum
      /\ \A i : Ord(i)' = Ord(i)
      /\ \A p : Rows(p)' = Rows(p) /\ Separates(p)' = Separates(p)
  BY <1>1 DEF OrdNum, PatNum, Ord, Rows, Separates
<1>3. ASSUME phase' = "walk", notseen' # {},
             songPos' \in 0 .. OrdNum - 1, pattPos' \in Nat,
             pattPos' # 0 =>
               /\ pattPos' < Rows(Ord(songPos'))
               /\ player = "it2play" => ~Separates(Ord(songPos'))
      PROVE  WalkInv'
  <2>1. Ord(songPos)' = Ord(songPos')
    BY <1>1 DEF Ord, OrdNum
  <2>2. Rows(Ord(songPos))' = Rows(Ord(songPos'))
    BY <1>1, <2>1 DEF Rows, PatNum
  <2>3. Separates(Ord(songPos))' = Separates(Ord(songPos'))
    BY <1>1, <2>1 DEF Separates
  <2>. QED
    BY <1>1, <1>2, <1>3, <2>2, <2>3 DEF WalkInv, RowInv
<1>4. ASSUME phase' # "walk" \/ notseen' = {} PROVE WalkInv'
  BY <1>1, <1>4 DEF WalkInv
<1>5. CASE SkipEmpty
  <2>1. notseen \in SUBSET Nat /\ notseen # {} /\ OrdNum \in Nat
    <3>1. notseen \subseteq 0 .. OrdNum - 1
      BY DEF IInv
    <3>2. OrdNum \in Nat /\ \A o \in 0 .. OrdNum - 1 : o \in Nat
      BY RowsAndOrders
    <3>. QED
      BY <1>5, <3>1, <3>2 DEF SkipEmpty, Closed
  <2>2. First \in Nat
    BY <2>1, MinOfNat DEF First
  <2>3. CASE First + 1 >= OrdNum
    BY <1>4, <1>5, <2>3 DEF SkipEmpty, EndWalk
  <2>4. CASE ~(First + 1 >= OrdNum)
    BY <1>3, <1>4, <1>5, <2>1, <2>2, <2>4 DEF SkipEmpty
  <2>. QED
    BY <2>3, <2>4
<1>6. CASE AllSeen
  BY <1>4, <1>6 DEF AllSeen
<1>7. CASE Separator \/ Leap \/ NextRow
  <2>0. Visit /\ notseen' # {}
    BY <1>7 DEF Separator, Leap, NextRow
  <2>1. phase = "walk" /\ notseen # {}
    BY <2>0 DEF Visit
  <2>2. /\ Here \in 0 .. OrdNum - 1 /\ HereRow \in Nat
        /\ HereRow # 0 => /\ HereRow < Rows(Ord(Here))
                          /\ player = "it2play" => ~Separates(Ord(Here))
    BY <2>1, HereFacts
  <2>3. OrdNum \in Nat /\ Here \in Nat /\ Ord(Here) \in Nat
        /\ Rows(Ord(Here)) \in Nat
    BY <2>2, RowsAndOrders
  <2>4. CASE Separator
    <3>1. CASE Here + 1 >= OrdNum
      BY <1>4, <2>4, <3>1 DEF Separator, EndWalk
    <3>2. CASE ~(Here + 1 >= OrdNum)
      <4>1. songPos' = Here + 1 /\ pattPos' = HereRow /\ phase' = "walk"
            /\ Separates(Ord(Here))
        BY <2>1, <2>4, <3>2 DEF Separator
      <4>2. songPos' \in 0 .. OrdNum - 1
        BY <2>3, <3>2, <4>1
      <4>3. HereRow # 0 => player = "st3play"
        BY <2>2, <4>1 DEF WalkInv, Players, Separates
      <4>4. player = "st3play" => \A p : Rows(p) = MaxRows
        BY DEF Rows
      <4>. QED
        BY <1>3, <2>0, <2>2, <4>1, <4>2, <4>3, <4>4
    <3>. QED
      BY <3>1, <3>2
  <2>5. CASE Leap
    <3>. DEFINE pj   == PosJump(Ord(Here), HereRow)
                next == IF pj[1] = None THEN Here + 1 ELSE pj[1]
                row  == Landing(next, pj[2])
    <3>1. pj[1] \in Param /\ pj[2] \in Param
      BY <2>2, <2>3, JumpsAreBytes
    <3>2. next \in Nat
      BY <2>3, <3>1 DEF Param, None
    <3>3. Rows(Ord(next)) \in Nat
      BY <3>2, RowsAndOrders
    <3>4. row # 0 => /\ row \in Nat /\ row < Rows(Ord(next))
                     /\ player = "it2play" => ~Separates(Ord(next))
      BY <3>1, <3>3 DEF Landing, Param, None
    <3>5. CASE next >= OrdNum \/ (next = Here /\ row = HereRow)
      BY <1>4, <2>5, <3>5 DEF Leap, EndWalk
    <3>6. CASE ~(next >= OrdNum \/ (next = Here /\ row = HereRow))
      <4>1. songPos' = next /\ pattPos' = row /\ phase' = "walk"
        BY <2>1, <2>5, <3>6 DEF Leap
      <4>. HIDE DEF next, row
      <4>2. next \in 0 .. OrdNum - 1
        BY <2>3, <3>2, <3>6
      <4>. QED
        BY <1>3, <2>0, <3>4, <4>1, <4>2
    <3>. QED
      BY <3>5, <3>6
  <2>6. CASE NextRow
    <3>1. CASE HereRow + 1 < Rows(Ord(Here))
      <4>1. /\ songPos' = Here /\ pattPos' = HereRow + 1 /\ phase' = "walk"
            /\ ~Separates(Ord(Here))
        BY <2>1, <2>6, <3>1 DEF NextRow
      <4>. QED
        BY <1>3, <2>0, <2>2, <3>1, <4>1
    <3>2. CASE ~(HereRow + 1 < Rows(Ord(Here)))
      <4>1. songPos' = Here + 1 /\ pattPos' = 0
            /\ (phase' = "walk" => ~(Here + 1 >= OrdNum))
        BY <2>6, <3>2 DEF NextRow, EndWalk
      <4>. QED
        BY <1>3, <1>4, <2>0, <2>2, <2>3, <4>1
    <3>. QED
      BY <3>1, <3>2
  <2>. QED
    BY <1>7, <2>4, <2>5, <2>6
<1>8. CASE (\E n \in Mixed : RenderTicks(n)) \/ Restart
            \/ \E s \in 1 .. Len(subsongs) : Play(s)
  BY <1>4, <1>8 DEF RenderTicks, Restart, Play
<1>9. CASE UNCHANGED vars
  BY <1>9 DEF vars, songVars, walkVars, WalkInv, RowInv, OrdNum, PatNum, Ord,
    Rows, Separates
<1>10. CASE WalkStep
  <2>1. SkipEmpty \/ AllSeen \/ Separator \/ Leap \/ NextRow
    BY <1>10 DEF WalkStep, Walk, It2Walk, Ft2Walk, St3Walk
  <2>. QED
    BY <1>5, <1>6, <1>7, <2>1
<1>. QED
  BY <1>8, <1>9, <1>10 DEF Next

(* No jump, break, separator or end of a pattern takes the walk to an order*)
(* or a row that is not there, in modules of every size.                   *)
THEOREM WalkStaysInside == Spec => []WalkInBounds
<1>1. WalkInv => WalkInBounds
  BY RowsAndOrders DEF WalkInv, WalkInBounds, RowInv
<1>2. Spec => []IInv
  BY InitIsCorrect, StepIsCorrect, PTL DEF Spec
<1>3. QED
  BY <1>1, <1>2, InitWalkInv, WalkStepInv, PTL DEF Spec
------------------------------------------------------------------------------
(* That the walk ends.                                                     *)

(* A set of numbers that a number bounds has a greatest element.           *)
LEMMA MaxOfNat ==
  ASSUME NEW S \in SUBSET Nat, S # {}, NEW n \in Nat, \A y \in S : y <= n
  PROVE  Max(S) \in S /\ \A y \in S : y <= Max(S)
<1>. DEFINE bounds == {m \in Nat : \A y \in S : y <= m}
            m == Min(bounds)
<1>1. bounds \in SUBSET Nat /\ n \in bounds
  OBVIOUS
<1>2. m \in bounds /\ \A b \in bounds : m <= b
  BY <1>1, MinOfNat
<1>3. m \in Nat /\ \A y \in S : y <= m
  BY <1>2
<1>. HIDE DEF m
<1>4. m \in S
  <2>1. SUFFICES ASSUME m \notin S PROVE FALSE
    OBVIOUS
  <2>2. \A y \in S : y < m
    BY <1>3, <2>1
  <2>3. m - 1 \in Nat /\ \A y \in S : y <= m - 1
    <3>1. PICK y \in S : y \in Nat /\ y < m
      BY <2>2
    <3>2. m - 1 \in Nat
      BY <1>3, <3>1
    <3>3. ASSUME NEW z \in S PROVE z <= m - 1
      <4>1. z \in Nat /\ z < m
        BY <2>2
      <4>. QED
        BY <1>3, <4>1
    <3>. QED
      BY <3>2, <3>3
  <2>4. m - 1 \in bounds
    BY <2>3
  <2>5. m <= m - 1
    BY <1>2, <2>4
  <2>. QED
    BY <1>3, <2>5
<1>5. \E x \in S : \A y \in S : x >= y
  BY <1>3, <1>4
<1>6. Max(S) \in S /\ \A y \in S : Max(S) >= y
  BY <1>5 DEF Max
<1>. QED
  BY <1>6

(* The patterns of a song have a longest one.                              *)
LEMMA LongestFacts ==
  ASSUME WalkInv
  PROVE  /\ Longest \in Nat \ {0}
         /\ \A o \in 0 .. OrdNum - 1 : Rows(Ord(o)) <= Longest
<1>. DEFINE S(k) == {MaxRows} \cup {Rows(Ord(o)) : o \in 0 .. k - 1}
            bounded == {k \in Nat : \E n \in Nat : \A y \in S(k) : y <= n}
            rest == Nat \ bounded
<1>1. OrdNum \in Nat /\ MaxRows \in Nat \ {0}
  BY RowsAndOrders, SongsAssumption
<1>2. \A o \in Nat : Rows(Ord(o)) \in Nat
  BY RowsAndOrders
<1>3. rest = {}
  <2>1. SUFFICES ASSUME rest # {} PROVE FALSE
    OBVIOUS
  <2>2. PICK k \in rest : \A y \in rest : k <= y
    <3>1. rest \in SUBSET Nat
      OBVIOUS
    <3>2. Min(rest) \in rest /\ \A y \in rest : Min(rest) <= y
      BY <2>1, <3>1, MinOfNat
    <3>. QED
      BY <3>2
  <2>3. k \in Nat /\ k \notin bounded
    OBVIOUS
  <2>4. k # 0
    <3>1. S(0) = {MaxRows}
      OBVIOUS
    <3>2. 0 \in bounded
      BY <1>1, <3>1
    <3>. QED
      BY <2>3, <3>2
  <2>5. k - 1 \in bounded
    <3>1. k - 1 \in Nat /\ ~(k <= k - 1)
      BY <2>3, <2>4
    <3>2. k - 1 \notin rest
      BY <2>2, <3>1
    <3>. QED
      BY <3>1, <3>2
  <2>6. PICK n \in Nat : \A y \in S(k - 1) : y <= n
    BY <2>5
  <2>7. PICK m \in Nat : n <= m /\ Rows(Ord(k - 1)) <= m
    <3>1. Rows(Ord(k - 1)) \in Nat
      BY <1>2, <2>3, <2>4
    <3>. QED
      BY <3>1
  <2>8. ASSUME NEW y \in S(k) PROVE y <= m
    <3>1. CASE y = MaxRows
      BY <1>1, <2>6, <2>7, <3>1
    <3>2. CASE y # MaxRows
      <4>1. PICK o \in 0 .. k - 1 : y = Rows(Ord(o))
        BY <2>8, <3>2
      <4>2. CASE o = k - 1
        BY <2>7, <4>1, <4>2
      <4>3. CASE o # k - 1
        <5>1. o \in 0 .. (k - 1) - 1 /\ o \in Nat
          BY <2>3, <4>3
        <5>2. y <= n /\ y \in Nat
          BY <1>2, <2>6, <4>1, <5>1
        <5>. QED
          BY <2>7, <5>2
      <4>. QED
        BY <4>2, <4>3
    <3>. QED
      BY <3>1, <3>2
  <2>9. k \in bounded
    BY <2>3, <2>8
  <2>. QED
    BY <2>3, <2>9
<1>4. OrdNum \in bounded
  BY <1>1, <1>3
<1>5. PICK n \in Nat : \A y \in S(OrdNum) : y <= n
  BY <1>4
<1>6. S(OrdNum) \in SUBSET Nat /\ S(OrdNum) # {}
  BY <1>1, <1>2
<1>7. Longest = Max(S(OrdNum))
  BY DEF Longest
<1>8. Longest \in S(OrdNum) /\ \A y \in S(OrdNum) : y <= Longest
  BY <1>5, <1>6, <1>7, MaxOfNat
<1>9. MaxRows <= Longest /\ Longest \in Nat
  BY <1>6, <1>8
<1>10. ASSUME NEW o \in 0 .. OrdNum - 1 PROVE Rows(Ord(o)) <= Longest
  <2>1. Rows(Ord(o)) \in S(OrdNum)
    OBVIOUS
  <2>. QED
    BY <1>8, <2>1
<1>11. Longest # 0
  BY <1>1, <1>9
<1>. QED
  BY <1>9, <1>10, <1>11

LEMMA SeparatorFacts ==
  ASSUME WalkInv, NEW i \in Nat
  PROVE  /\ Separators(i) \in Nat /\ Separators(i) <= Separators(0)
         /\ i < OrdNum /\ Separates(Ord(i)) =>
              Separators(i) = Separators(i + 1) + 1
<1>. DEFINE S(k) == {o \in k .. OrdNum - 1 : Separates(Ord(o))}
<1>1. OrdNum \in Nat
  BY RowsAndOrders
<1>2. IsFiniteSet(0 .. OrdNum - 1)
  BY <1>1, FS_Interval
<1>3. S(0) \subseteq 0 .. OrdNum - 1 /\ S(i) \subseteq S(0)
  BY <1>1
<1>4. IsFiniteSet(S(0))
  BY <1>2, <1>3, FS_Subset
<1>5. IsFiniteSet(S(i)) /\ Cardinality(S(i)) <= Cardinality(S(0))
  BY <1>3, <1>4, FS_Subset
<1>6. Cardinality(S(i)) \in Nat
  BY <1>5, FS_CardinalityType
<1>7. ASSUME i < OrdNum, Separates(Ord(i))
      PROVE  Cardinality(S(i)) = Cardinality(S(i + 1)) + 1
  <2>1. i \in S(i) /\ S(i + 1) = S(i) \ {i}
    BY <1>1, <1>7
  <2>2. Cardinality(S(i + 1)) = Cardinality(S(i)) - 1
    BY <1>5, <2>1, FS_RemoveElement
  <2>. QED
    BY <1>6, <2>2
<1>. QED
  BY <1>5, <1>6, <1>7 DEF Separators

(* The orders the walk has still to come to: not yet seen, or seen only as *)
(* the one after a separator.                                              *)
Pending == (0 .. OrdNum - 1) \ (seen \ notseen)

(* The jump inside an order has been taken.                                *)
Taken(o, jumped) == \E row \in Inside(o) : PosJump(Ord(o), row) = jumped

(* The turns the walk may take from a row of an order to one that is       *)
(* pending: through the separators that follow; to the end of the pattern; *)
(* and before that to the jump inside of it, and once more from where the  *)
(* jump goes.                                                              *)
LeftAt(o, row, jumped) ==
  IF Separates(Ord(o)) THEN 1 + (2 * Longest) + Separators(o)
  ELSE IF Taken(o, jumped) THEN 1 + Longest - row
  ELSE 1 + (2 * Longest) - row

Left == IF jump \/ songPos \in Pending THEN 0
        ELSE LeftAt(songPos, pattPos, prevJump)

(* All turns it may take.                                                  *)
AllLeft == (Cardinality(Pending) * Turns) + Left

StepsInv ==
  /\ steps \in Nat
  /\ ~Ping =>
       /\ steps <= 1 + (OrdNum * Turns)
       /\ phase = "walk" => steps <= OrdNum * Turns
       /\ phase = "walk" /\ notseen # {} => steps + AllLeft <= OrdNum * Turns

LEMMA LeftFacts ==
  ASSUME WalkInv, NEW o \in 0 .. OrdNum - 1, NEW jumped,
         NEW row \in Nat, row = 0 \/ row < Rows(Ord(o))
  PROVE  LeftAt(o, row, jumped) \in 1 .. Turns - 1
<1>1. /\ OrdNum \in Nat /\ o \in Nat /\ Longest \in Nat \ {0}
      /\ Rows(Ord(o)) \in Nat /\ Rows(Ord(o)) <= Longest
  BY LongestFacts, RowsAndOrders
<1>2. /\ Separators(o) \in Nat /\ Separators(0) \in Nat
      /\ Separators(o) <= Separators(0)
  BY <1>1, SeparatorFacts
<1>. QED
  BY <1>1, <1>2 DEF LeftAt, Turns

(* Nothing the measure is made of changes with a step but the walk.        *)
LEMMA SongStays ==
  ASSUME player' = player, song' = song
  PROVE  /\ OrdNum' = OrdNum /\ Ping' = Ping /\ Turns' = Turns
         /\ LeftAt(songPos, pattPos, prevJump)'
              = LeftAt(songPos', pattPos', prevJump')
<1>1. /\ OrdNum' = OrdNum /\ PatNum' = PatNum
      /\ \A i : Ord(i)' = Ord(i)
      /\ \A p : Rows(p)' = Rows(p) /\ Separates(p)' = Separates(p)
  BY DEF OrdNum, PatNum, Ord, Rows, Separates
<1>2. \A p, row : PosJump(p, row)' = PosJump(p, row)
  BY DEF PosJump, It2PosJump, Ft2PosJump, St3PosJump, Cell, HasData, PatNum,
    Rows
<1>3. \A o : Inside(o)' = Inside(o) /\ (HasData(Ord(o))' <=> HasData(Ord(o)))
  BY <1>1, <1>2 DEF Inside, HasData
<1>4. Ping' = Ping
  BY <1>1, <1>3 DEF Ping
<1>5. Longest' = Longest
  BY <1>1 DEF Longest
<1>6. \A i : Separators(i)' = Separators(i)
  BY <1>1 DEF Separators
<1>7. Turns' = Turns
  BY <1>5, <1>6 DEF Turns
<1>8. /\ Ord(songPos)' = Ord(songPos')
      /\ Separators(songPos)' = Separators(songPos')
  BY <1>1 DEF Ord, Separators
<1>9. Separates(Ord(songPos))' = Separates(Ord(songPos'))
  BY <1>8 DEF Separates
<1>10. Taken(songPos, prevJump)' = Taken(songPos', prevJump')
  <2>1. Inside(songPos)' = Inside(songPos')
    BY <1>1, <1>2, <1>8 DEF Inside, Rows, PosJump, It2PosJump, Ft2PosJump,
      St3PosJump, Cell, HasData, PatNum
  <2>. QED
    BY <1>2, <1>8, <2>1 DEF Taken
<1>. QED
  BY <1>1, <1>4, <1>5, <1>7, <1>8, <1>9, <1>10 DEF LeftAt


LEMMA PendingFacts ==
  ASSUME WalkInv
  PROVE  /\ IsFiniteSet(Pending) /\ Cardinality(Pending) \in 0 .. OrdNum
<1>1. OrdNum \in Nat
  BY RowsAndOrders
<1>2. IsFiniteSet(0 .. OrdNum - 1) /\ Cardinality(0 .. OrdNum - 1) = OrdNum
  BY <1>1, FS_Interval
<1>3. Pending \in SUBSET (0 .. OrdNum - 1)
  BY DEF Pending
<1>4. IsFiniteSet(Pending) /\ Cardinality(Pending) <= OrdNum
  BY <1>2, <1>3, FS_Subset
<1>5. Cardinality(Pending) \in Nat
  BY <1>4, FS_CardinalityType
<1>. QED
  BY <1>1, <1>4, <1>5

(* An order that is visited is no longer pending.                          *)
LEMMA PendingSinks ==
  ASSUME WalkInv, OrdNum' = OrdNum, NEW o,
         seen \cup {o} \subseteq seen', notseen' = notseen \ {o}
  PROVE  /\ Cardinality(Pending') \in Nat
         /\ Cardinality(Pending') <= Cardinality(Pending)
         /\ o \in Pending => Cardinality(Pending') < Cardinality(Pending)
<1>1. IsFiniteSet(Pending) /\ Cardinality(Pending) \in Nat
  BY PendingFacts, RowsAndOrders
<1>2. Pending' = (0 .. OrdNum - 1) \ (seen' \ notseen')
  BY DEF Pending
<1>3. Pending' \subseteq Pending /\ o \notin Pending'
  BY <1>2 DEF Pending
<1>4. IsFiniteSet(Pending') /\ Cardinality(Pending') <= Cardinality(Pending)
  BY <1>1, <1>3, FS_Subset
<1>5. Cardinality(Pending') \in Nat
  BY <1>4, FS_CardinalityType
<1>6. ASSUME o \in Pending PROVE Cardinality(Pending') < Cardinality(Pending)
  <2>1. IsFiniteSet(Pending \ {o})
        /\ Cardinality(Pending \ {o}) = Cardinality(Pending) - 1
    BY <1>1, <1>6, FS_RemoveElement
  <2>2. Pending' \subseteq Pending \ {o}
    BY <1>3
  <2>3. Cardinality(Pending') <= Cardinality(Pending \ {o})
    BY <2>1, <2>2, FS_Subset
  <2>. QED
    BY <1>1, <1>5, <2>1, <2>3
<1>. QED
  BY <1>4, <1>5, <1>6

(* The jump inside an order is a single one, unless the walk may ping.     *)
LEMMA OneInside ==
  ASSUME WalkInv, ~Ping, NEW o \in 0 .. OrdNum - 1, HasData(Ord(o)),
         NEW a \in Inside(o), NEW b \in Inside(o)
  PROVE  a = b
<1>1. /\ Rows(Ord(o)) \in Nat
  BY RowsAndOrders
<1>2. IsFiniteSet(0 .. Rows(Ord(o)) - 1)
  BY <1>1, FS_Interval
<1>3. IsFiniteSet(Inside(o))
  BY <1>2, FS_Subset DEF Inside
<1>4. Cardinality(Inside(o)) \in Nat /\ Cardinality(Inside(o)) <= 1
  <2>1. Cardinality(Inside(o)) \in Nat
    BY <1>3, FS_CardinalityType
  <2>2. ~(Cardinality(Inside(o)) > 1)
    BY DEF Ping
  <2>. QED
    BY <2>1, <2>2
<1>5. Cardinality({a}) = 1 /\ Cardinality({a, b}) <= 1
  <2>1. {a, b} \subseteq Inside(o)
    OBVIOUS
  <2>2. IsFiniteSet({a, b}) /\ Cardinality({a, b}) <= Cardinality(Inside(o))
    BY <1>3, <2>1, FS_Subset
  <2>3. Cardinality({a, b}) \in Nat
    BY <2>2, FS_CardinalityType
  <2>. QED
    BY <1>4, <2>2, <2>3, FS_Singleton
<1>6. SUFFICES ASSUME a # b PROVE FALSE
  OBVIOUS
<1>7. Cardinality({a, b}) = 2
  <2>1. {a, b} = {a} \cup {b} /\ b \notin {a}
    BY <1>6
  <2>2. IsFiniteSet({a})
    BY FS_Singleton
  <2>3. Cardinality({a} \cup {b}) = Cardinality({a}) + 1
    BY <2>1, <2>2, FS_AddElement
  <2>. QED
    BY <1>5, <2>1, <2>3
<1>. QED
  BY <1>5, <1>7

(* A row that jumps but does not end the walk is one of the pattern; one   *)
(* that jumps to its own order is the jump inside of it.                   *)
LEMMA JumpIsInside ==
  ASSUME WalkInv, NEW o \in 0 .. OrdNum - 1, NEW row \in Nat,
         row = 0 \/ row < Rows(Ord(o)), PosJump(Ord(o), row)[1] = o,
         Landing(o, PosJump(Ord(o), row)[2]) # row
  PROVE  HasData(Ord(o)) /\ row \in Inside(o)
<1>1. /\ o \in Nat /\ Ord(o) \in Nat /\ Rows(Ord(o)) \in Nat
      /\ player \in Players
  BY RowsAndOrders DEF WalkInv
<1>2. /\ PosJump(Ord(o), row)[1] \in Param
      /\ PosJump(Ord(o), row)[2] \in Param
  BY <1>1, JumpsAreBytes
<1>3. HasData(Ord(o))
  <2>1. SUFFICES ASSUME ~HasData(Ord(o)) PROVE FALSE
    OBVIOUS
  <2>2. PosJump(Ord(o), row)[1] = None
    BY <1>1, <2>1 DEF PosJump, It2PosJump, Ft2PosJump, St3PosJump, Cell,
      NoCell, Players
  <2>. QED
    BY <1>1, <2>2 DEF None
<1>4. row < Rows(Ord(o))
  <2>1. SUFFICES ASSUME row = 0, Rows(Ord(o)) = 0 PROVE FALSE
    BY <1>1
  <2>2. Landing(o, PosJump(Ord(o), row)[2]) = 0
    BY <1>2, <2>1 DEF Landing, Param, None
  <2>. QED
    BY <2>1, <2>2
<1>. QED
  BY <1>1, <1>3, <1>4 DEF Inside


(* Inside an order that is not pending, each turn leaves fewer.            *)
LEMMA LeftSinks ==
  ASSUME WalkInv, ~Ping, phase' = "walk", ~jump, ~jump',
         songPos \in 0 .. OrdNum - 1, pattPos \in Nat,
         pattPos = 0 \/ pattPos < Rows(Ord(songPos)),
         Here = songPos, HereRow = pattPos,
         Separator \/ Leap \/ NextRow
  PROVE  LeftAt(songPos', pattPos', prevJump')
           < LeftAt(songPos, pattPos, prevJump)
<1>. DEFINE row == pattPos
            rows == Rows(Ord(songPos))
<1>1. /\ OrdNum \in Nat /\ songPos \in Nat /\ Ord(songPos) \in Nat
      /\ Longest \in Nat \ {0} /\ rows \in Nat /\ rows <= Longest
      /\ row \in Nat /\ row < Longest
  BY LongestFacts, RowsAndOrders
<1>2. CASE Separator
  <2>1. ~(songPos + 1 >= OrdNum)
    BY <1>2 DEF Separator, EndWalk
  <2>2. /\ Separates(Ord(songPos)) /\ songPos' = songPos + 1
        /\ pattPos' = row /\ prevJump' = prevJump
    BY <1>2, <2>1 DEF Separator
  <2>3. /\ Separators(songPos) = Separators(songPos + 1) + 1
        /\ Separators(songPos + 1) \in Nat
    BY <1>1, <2>1, <2>2, SeparatorFacts
  <2>4. LeftAt(songPos, row, prevJump)
          = 2 + (2 * Longest) + Separators(songPos + 1)
    BY <1>1, <2>2, <2>3 DEF LeftAt
  <2>5. LeftAt(songPos + 1, row, prevJump)
          <= 1 + (2 * Longest) + Separators(songPos + 1)
    BY <1>1, <2>3 DEF LeftAt
  <2>6. LeftAt(songPos + 1, row, prevJump) \in Int
    BY <1>1, <2>3 DEF LeftAt
  <2>. QED
    BY <1>1, <2>2, <2>3, <2>4, <2>5, <2>6
<1>3. CASE NextRow
  <2>1. CASE row + 1 < rows
    <3>1. /\ ~Separates(Ord(songPos)) /\ songPos' = songPos
          /\ pattPos' = row + 1 /\ prevJump' = prevJump
      BY <1>3, <2>1 DEF NextRow
    <3>2. LeftAt(songPos, row + 1, prevJump)
            = LeftAt(songPos, row, prevJump) - 1
      BY <1>1, <3>1 DEF LeftAt
    <3>3. LeftAt(songPos, row, prevJump) \in Int
      BY <1>1, <3>1 DEF LeftAt
    <3>. QED
      BY <3>1, <3>2, <3>3
  <2>2. CASE ~(row + 1 < rows)
    BY <1>3, <2>2 DEF NextRow
  <2>. QED
    BY <2>1, <2>2
<1>4. CASE Leap
  <2>. DEFINE pj   == PosJump(Ord(songPos), row)
              next == IF pj[1] = None THEN songPos + 1 ELSE pj[1]
              to   == Landing(next, pj[2])
  <2>1. ~(next >= OrdNum \/ (next = songPos /\ to = row))
    BY <1>4 DEF Leap, EndWalk
  <2>2. /\ ~Separates(Ord(songPos)) /\ songPos' = next /\ pattPos' = to
        /\ prevJump' = pj
        /\ jump' = ((pj = prevJump /\ pj[1] # None) \/ next # songPos
                      \/ (to # row /\ to = 0))
    BY <1>4, <2>1 DEF Leap
  <2>3. next = songPos /\ to # 0 /\ to # row
        /\ ~(pj = prevJump /\ pj[1] # None)
    BY <2>1, <2>2
  <2>4. pj[1] = songPos /\ pj[1] # None
    BY <1>1, <2>3 DEF None
  <2>5. HasData(Ord(songPos)) /\ row \in Inside(songPos)
    BY <1>1, <2>3, <2>4, JumpIsInside
  <2>6. pj # prevJump
    BY <2>3, <2>4
  <2>7. ~Taken(songPos, prevJump)
    <3>1. ASSUME NEW r \in Inside(songPos) PROVE r = row
      BY <2>5, <3>1, OneInside
    <3>. QED
      BY <2>6, <3>1 DEF Taken
  <2>8. Taken(songPos, pj)
    BY <2>5 DEF Taken
  <2>9. to \in Nat
    <3>1. pj[2] \in Param
      BY <1>1, JumpsAreBytes
    <3>. QED
      BY <3>1, <2>3 DEF Landing, Param, None
  <2>. HIDE DEF pj, next, to
  <2>10. LeftAt(songPos, row, prevJump) = 1 + (2 * Longest) - row
    BY <2>2, <2>7 DEF LeftAt
  <2>11. LeftAt(songPos, to, pj) = 1 + Longest - to
    BY <2>2, <2>8 DEF LeftAt
  <2>12. 1 + Longest - to < 1 + (2 * Longest) - row
    BY <1>1, <2>9
  <2>. QED
    BY <2>2, <2>3, <2>10, <2>11, <2>12
<1>. QED
  BY <1>2, <1>3, <1>4

LEMMA AllLeftFacts ==
  ASSUME IInv, WalkInv, phase = "walk", notseen # {}
  PROVE  AllLeft \in Nat \ {0}
<1>1. /\ OrdNum \in Nat /\ Longest \in Nat /\ Separators(0) \in Nat
      /\ Cardinality(Pending) \in Nat
  BY RowsAndOrders, LongestFacts, SeparatorFacts, PendingFacts
<1>2. Turns \in Nat \ {0}
  BY <1>1 DEF Turns
<1>3. Cardinality(Pending) # 0
  <2>1. notseen \subseteq Pending
    BY DEF IInv, Pending
  <2>. QED
    BY <2>1, PendingFacts, FS_EmptySet
<1>4. Cardinality(Pending) * Turns \in Nat \ {0}
  BY <1>1, <1>2, <1>3
<1>5. Left \in Nat
  <2>1. songPos \in 0 .. OrdNum - 1 /\ pattPos \in Nat
        /\ (pattPos = 0 \/ pattPos < Rows(Ord(songPos)))
    BY DEF WalkInv, RowInv
  <2>2. LeftAt(songPos, pattPos, prevJump) \in 1 .. Turns - 1
    BY <2>1, LeftFacts
  <2>. QED
    BY <1>2, <2>2 DEF Left
<1>. QED
  BY <1>4, <1>5 DEF AllLeft

(* Each turn leaves fewer.                                                 *)
LEMMA AllLeftSinks ==
  ASSUME IInv, WalkInv, WalkInv', ~Ping, phase = "walk", notseen # {},
         player' = player, song' = song,
         phase' = "walk", notseen' # {},
         SkipEmpty \/ Separator \/ Leap \/ NextRow
  PROVE  AllLeft \in Nat /\ AllLeft' \in Nat /\ AllLeft' < AllLeft
<1>. DEFINE P == Cardinality(Pending)
            Q == Cardinality(Pending')
<1>1. OrdNum' = OrdNum /\ Turns' = Turns
      /\ LeftAt(songPos, pattPos, prevJump)'
           = LeftAt(songPos', pattPos', prevJump')
  BY SongStays
<1>2. OrdNum \in Nat /\ Turns \in Nat /\ P \in Nat
  <2>1. OrdNum \in Nat
    BY RowsAndOrders
  <2>2. P \in Nat
    BY <2>1, PendingFacts
  <2>3. Longest \in Nat /\ Separators(0) \in Nat
    BY LongestFacts, SeparatorFacts
  <2>. QED
    BY <2>1, <2>2, <2>3 DEF Turns
<1>3. songPos \in 0 .. OrdNum - 1 /\ pattPos \in Nat
      /\ (pattPos = 0 \/ pattPos < Rows(Ord(songPos)))
  BY DEF WalkInv, RowInv
<1>4. /\ songPos' \in 0 .. OrdNum - 1 /\ pattPos' \in Nat
      /\ (pattPos' = 0 \/ pattPos' < Rows(Ord(songPos')))
  <2>1. /\ songPos' \in 0 .. OrdNum' - 1 /\ pattPos' \in Nat
        /\ (pattPos' = 0 \/ pattPos' < Rows(Ord(songPos))')
    BY DEF WalkInv, RowInv
  <2>2. Ord(songPos)' = Ord(songPos')
    BY <1>1 DEF Ord
  <2>3. Rows(Ord(songPos))' = Rows(Ord(songPos'))
    BY <2>2 DEF Rows, PatNum
  <2>. QED
    BY <1>1, <2>1, <2>3
<1>5. Left \in 0 .. Turns - 1
  <2>1. LeftAt(songPos, pattPos, prevJump) \in 1 .. Turns - 1
    BY <1>3, LeftFacts
  <2>. QED
    BY <1>2, <2>1 DEF Left
<1>6. Left' \in 0 .. Turns - 1
  <2>1. LeftAt(songPos', pattPos', prevJump') \in 1 .. Turns - 1
    BY <1>4, LeftFacts
  <2>. QED
    BY <1>1, <1>2, <2>1 DEF Left
<1>7. PICK o : /\ seen \cup {o} \subseteq seen' /\ notseen' = notseen \ {o}
               /\ o \in Pending \/ (~SkipEmpty /\ ~Closed /\ o = songPos)
  <2>1. First \in notseen /\ First \in Pending
    <3>1. notseen \in SUBSET Nat /\ notseen \subseteq 0 .. OrdNum - 1
      BY <1>2 DEF IInv
    <3>2. First \in notseen
      BY <3>1, MinOfNat DEF First
    <3>. QED
      BY <3>1, <3>2 DEF Pending
  <2>2. CASE SkipEmpty
    BY <2>1, <2>2 DEF SkipEmpty
  <2>3. CASE ~SkipEmpty
    <3>1. Visit /\ SeenNow \subseteq seen'
      BY <2>3 DEF Separator, Leap, NextRow
    <3>2. seen \cup {Here} \subseteq seen' /\ notseen' = notseen \ {Here}
      BY <3>1 DEF SeenNow, Visit
    <3>. QED
      BY <2>1, <2>3, <3>2 DEF Here
  <2>. QED
    BY <2>2, <2>3
<1>8. /\ Q \in Nat /\ Q <= P /\ (o \in Pending => Q < P)
  BY <1>1, <1>7, PendingSinks
<1>9. AllLeft = (P * Turns) + Left /\ AllLeft' = (Q * Turns) + Left'
  BY <1>1 DEF AllLeft
<1>10. Q < P \/ (Q = P /\ Left' < Left)
  <2>1. SUFFICES ASSUME o \notin Pending PROVE Q < P \/ Left' < Left
    BY <1>2, <1>5, <1>6, <1>8
  <2>2. ~SkipEmpty /\ ~Closed /\ o = songPos
    BY <1>7, <2>1
  <2>3. songPos \in seen /\ ~jump
    BY <1>3, <2>1, <2>2 DEF Pending, Closed
  <2>4. Here = songPos /\ HereRow = pattPos
    BY <2>2 DEF Here, HereRow
  <2>5. Left = LeftAt(songPos, pattPos, prevJump)
    BY <2>1, <2>2, <2>3 DEF Left
  <2>6. LeftAt(songPos, pattPos, prevJump) \in 1 .. Turns - 1
    BY <1>3, LeftFacts
  <2>7. CASE jump' \/ songPos' \in Pending'
    <3>1. Left' = 0
      BY <2>7 DEF Left
    <3>. QED
      BY <1>2, <2>5, <2>6, <3>1
  <2>8. CASE ~(jump' \/ songPos' \in Pending')
    <3>1. Left' = LeftAt(songPos', pattPos', prevJump')
      BY <1>1, <2>8 DEF Left
    <3>2. LeftAt(songPos', pattPos', prevJump')
            < LeftAt(songPos, pattPos, prevJump)
      BY <1>3, <2>2, <2>3, <2>4, <2>8, LeftSinks
    <3>. QED
      BY <2>5, <3>1, <3>2
  <2>. QED
    BY <2>7, <2>8
<1>. HIDE DEF P, Q
<1>11. P * Turns \in Nat /\ Q * Turns \in Nat
  BY <1>2, <1>8
<1>12. CASE Q < P
  <2>1. PICK z \in Nat : P = Q + 1 + z
    BY <1>2, <1>8, <1>12
  <2>2. P * Turns = (Q * Turns) + Turns + (z * Turns) /\ z * Turns \in Nat
    BY <1>2, <1>8, <2>1
  <2>. QED
    BY <1>2, <1>5, <1>6, <1>9, <1>11, <2>2
<1>13. CASE Q = P /\ Left' < Left
  <2>1. Q * Turns = P * Turns
    BY <1>13
  <2>2. Left \in Nat /\ Left' \in Nat
    BY <1>2, <1>5, <1>6
  <2>. QED
    BY <1>9, <1>11, <1>13, <2>1, <2>2
<1>. QED
  BY <1>10, <1>12, <1>13


LEMMA InitStepsInv == Init => StepsInv
<1>. SUFFICES ASSUME Init PROVE StepsInv
  OBVIOUS
<1>1. /\ WalkInv /\ steps = 0 /\ seen = {} /\ songPos = 0
      /\ notseen \subseteq 0 .. OrdNum - 1
  BY InitWalkInv DEF Init, InitWalk
<1>2. OrdNum \in Nat /\ Longest \in Nat /\ Separators(0) \in Nat
  BY <1>1, RowsAndOrders, LongestFacts, SeparatorFacts
<1>3. Turns \in Nat
  BY <1>2 DEF Turns
<1>4. OrdNum * Turns \in Nat
  BY <1>2, <1>3
<1>5. ASSUME notseen # {} PROVE AllLeft = OrdNum * Turns
  <2>1. Pending = 0 .. OrdNum - 1
    BY <1>1 DEF Pending
  <2>2. Cardinality(0 .. OrdNum - 1) = OrdNum
    BY <1>2, FS_Interval
  <2>3. songPos \in Pending
    <3>1. PICK o \in 0 .. OrdNum - 1 : TRUE
      BY <1>1, <1>5
    <3>. QED
      BY <1>1, <1>2, <2>1, <3>1
  <2>4. Left = 0
    BY <2>3 DEF Left
  <2>. QED
    BY <1>4, <2>1, <2>2, <2>4 DEF AllLeft
<1>. QED
  BY <1>1, <1>4, <1>5 DEF StepsInv

LEMMA StepsStep ==
  IInv /\ WalkInv /\ WalkInv' /\ StepsInv /\ [Next]_vars => StepsInv'
<1>. SUFFICES ASSUME IInv, WalkInv, WalkInv', StepsInv, [Next]_vars
              PROVE  StepsInv'
  OBVIOUS
<1>1. player' = player /\ song' = song
  BY DEF Next, WalkStep, Walk, It2Walk, Ft2Walk, St3Walk, SkipEmpty, AllSeen,
    Separator, Leap, NextRow, RenderTicks, Restart, Play, vars, songVars
<1>2. OrdNum' = OrdNum /\ Turns' = Turns /\ Ping' = Ping
      /\ LeftAt(songPos, pattPos, prevJump)'
           = LeftAt(songPos', pattPos', prevJump')
  BY <1>1, SongStays
<1>3. OrdNum * Turns \in Nat
  <2>1. OrdNum \in Nat /\ Longest \in Nat /\ Separators(0) \in Nat
    BY RowsAndOrders, LongestFacts, SeparatorFacts
  <2>2. Turns \in Nat
    BY <2>1 DEF Turns
  <2>. QED
    BY <2>1, <2>2
<1>4. CASE WalkStep
  <2>1. SkipEmpty \/ AllSeen \/ Separator \/ Leap \/ NextRow
    BY <1>4 DEF WalkStep, Walk, It2Walk, Ft2Walk, St3Walk
  <2>2. phase = "walk" /\ (notseen = {} => AllSeen)
    BY <2>1 DEF SkipEmpty, AllSeen, Separator, Leap, NextRow, Visit, Closed
  <2>3. steps' \in Nat /\ steps' <= steps + 1
    <3>1. steps' = IF steps < StepLimit THEN steps + 1 ELSE steps
      BY <1>4 DEF WalkStep, Walk, It2Walk, Ft2Walk, St3Walk, Count
    <3>2. steps \in Nat
      BY DEF StepsInv
    <3>. QED
      BY <3>1, <3>2
  <2>4. AllSeen => phase' # "walk"
    BY DEF AllSeen, EndWalk
  <2>5. SUFFICES ASSUME ~Ping
        PROVE /\ steps' <= 1 + (OrdNum * Turns)
              /\ phase' = "walk" => steps' <= OrdNum * Turns
              /\ phase' = "walk" /\ notseen' # {} =>
                   steps' + AllLeft' <= OrdNum * Turns
    BY <1>2, <2>3 DEF StepsInv
  <2>6. CASE notseen = {}
    BY <1>3, <2>2, <2>3, <2>4, <2>5, <2>6 DEF StepsInv
  <2>7. CASE notseen # {}
    <3>1. steps + AllLeft <= OrdNum * Turns /\ steps \in Nat
      BY <2>2, <2>5, <2>7 DEF StepsInv
    <3>2. AllLeft \in Nat \ {0}
      BY <2>2, <2>5, <2>7, AllLeftFacts
    <3>3. steps' <= OrdNum * Turns
      BY <1>3, <2>3, <3>1, <3>2
    <3>4. CASE phase' = "walk" /\ notseen' # {}
      <4>1. AllLeft' \in Nat /\ AllLeft' < AllLeft
        BY <1>1, <2>1, <2>2, <2>4, <2>5, <2>7, <3>4, AllLeftSinks
      <4>2. steps' + AllLeft' <= OrdNum * Turns
        BY <1>3, <2>3, <3>1, <3>2, <4>1
      <4>. QED
        BY <1>3, <2>3, <3>3, <4>2
    <3>. QED
      BY <1>3, <2>3, <3>3, <3>4
  <2>. QED
    BY <2>6, <2>7
<1>5. CASE UNCHANGED walkVars /\ phase' # "walk"
  BY <1>2, <1>3, <1>5 DEF StepsInv, walkVars
<1>6. CASE UNCHANGED vars
  <2>1. /\ steps' = steps /\ phase' = phase /\ notseen' = notseen
        /\ seen' = seen /\ jump' = jump /\ songPos' = songPos
        /\ pattPos' = pattPos /\ prevJump' = prevJump
    BY <1>6 DEF vars, walkVars
  <2>2. Pending' = Pending
    BY <1>2, <2>1 DEF Pending
  <2>3. Left' = Left
    BY <1>2, <2>1, <2>2 DEF Left
  <2>4. AllLeft' = AllLeft
    BY <1>2, <2>2, <2>3 DEF AllLeft
  <2>. QED
    BY <1>2, <2>1, <2>4 DEF StepsInv
<1>7. CASE (\E n \in Mixed : RenderTicks(n)) \/ Restart
            \/ \E s \in 1 .. Len(subsongs) : Play(s)
  BY <1>5, <1>7 DEF RenderTicks, Restart, Play
<1>. QED
  BY <1>4, <1>6, <1>7 DEF Next

(* The walk of every module ends: unless two rows of an order jump back and*)
(* forth, its turns are at most two for each row of the longest pattern and*)
(* one for each separator, for every order, and one more.                  *)
THEOREM WalksEnd == Spec => []WalkIsShort
<1>1. StepsInv => WalkIsShort
  BY DEF StepsInv, WalkIsShort
<1>2. Spec => []IInv
  BY InitIsCorrect, StepIsCorrect, PTL DEF Spec
<1>3. Spec => []WalkInv
  BY <1>2, InitWalkInv, WalkStepInv, PTL DEF Spec
<1>. QED
  BY <1>1, <1>2, <1>3, InitStepsInv, StepsStep, PTL DEF Spec
------------------------------------------------------------------------------
(* What a restart makes of the state of a replayer.                        *)

It2Fields == {"ord", "row", "pat", "tick", "speed", "pord", "prow", "brow",
              "lrow", "lcnt", "flag", "stop"}
Ft2Fields == {"ord", "row", "pat", "tick", "speed", "jmp", "brk", "brow",
              "lrow", "lcnt", "flag", "dump"}
St3Fields == {"ord", "row", "pat", "tick", "speed", "brk", "jord", "brow",
              "lrow", "lcnt", "jrow", "stop"}

(* A replayer's state, as far as a restart has to know it.                 *)
Replayer(r) ==
  /\ player = "it2play" => DOMAIN r = It2Fields /\ r.flag \in BOOLEAN
  /\ player = "ft2play" => /\ DOMAIN r = Ft2Fields
                           /\ r.flag \in BOOLEAN /\ r.dump \in BOOLEAN
  /\ player = "st3play" => DOMAIN r = St3Fields

(* The same, but for what only the end of a song depends on.               *)
Alike(r, q) ==
  DOMAIN q = DOMAIN r /\ \A f \in DOMAIN r \ {"flag", "dump"} : q[f] = r[f]

(* st3play at a row it leaves with the next tick, for order o.             *)
Leaving(r, o) ==
  /\ DOMAIN r = St3Fields
  /\ r.ord = o /\ r.speed = song.speed /\ r.tick = song.speed
  /\ r.brk = TRUE /\ r.brow = 0
  /\ r.lcnt = 0 /\ r.jord = None /\ r.jrow = None /\ r.stop = FALSE

(* The first subsong starts at the first order.                            *)
StartInv ==
  /\ subsongs[1] = 0
  /\ phase = "playing" => subsong \in 1 .. Len(subsongs)

FieldsInv == phase = "playing" => Replayer(now.r)

(* A restarted song is where it would be had it just been loaded; st3play  *)
(* leaves another row first.                                               *)
LeavingBoth ==
  /\ player = "st3play"
  /\ Leaving(now.r, subsongs[subsong])
  /\ Leaving(twin.r, subsongs[subsong])

RowsInv ==
  phase = "playing" /\ Starts /\ ~stale.rows =>
    IF player = "st3play" THEN now.r = twin.r \/ LeavingBoth
                          ELSE Alike(now.r, twin.r)

EndInv ==
  phase = "playing" /\ Starts /\ ~stale.rows /\ ~stale.end /\ RowsLast =>
    \/ now = twin
    \/ /\ LeavingBoth
       /\ now.seen = {} /\ twin.seen = {} /\ now.end = "" /\ twin.end = ""

PlayInv == StartInv /\ FieldsInv /\ RowsInv /\ EndInv

(* The order list ends, at the latest, where it has been filled up.        *)
LEMMA PastIs ==
  ASSUME WalkInv, NEW i \in 0 .. OrdNum
  PROVE  Past(i) \in i .. OrdNum /\ (Ord(i) # SEP => Past(i) = i)
<1>. DEFINE S == {k \in i .. OrdNum : Ord(k) # SEP}
<1>1. OrdNum \in Nat
  BY RowsAndOrders
<1>2. OrdNum \in S
  BY <1>1 DEF Ord, END, SEP
<1>3. Min(S) \in S /\ \A y \in S : Min(S) <= y
  <2>1. S \in SUBSET Nat
    BY <1>1
  <2>. QED
    BY <1>2, <2>1, MinOfNat
<1>. DEFINE P(k) == Ord(k) # SEP /\ \A l \in i .. k - 1 : Ord(l) = SEP
<1>4. \E k \in i .. OrdNum : P(k)
  <2>1. \A l \in i .. Min(S) - 1 : l \notin S /\ l \in i .. OrdNum
    BY <1>1, <1>3
  <2>2. P(Min(S))
    BY <1>3, <2>1
  <2>. QED
    BY <1>3, <2>2
<1>5. Past(i) \in i .. OrdNum /\ P(Past(i))
  BY <1>4 DEF Past
<1>6. ASSUME Ord(i) # SEP PROVE Past(i) = i
  <2>1. ASSUME Past(i) # i PROVE FALSE
    <3>1. i \in i .. Past(i) - 1
      BY <1>1, <1>5, <2>1
    <3>. QED
      BY <1>5, <1>6, <3>1
  <2>. QED
    BY <2>1
<1>. QED
  BY <1>5, <1>6

(* A subsong starts at the first order or at a pattern.                    *)
LEMMA StartsAtPattern ==
  ASSUME IInv, WalkInv, StartInv, phase = "playing"
  PROVE  LET o == subsongs[subsong] IN
         /\ o \in 0 .. OrdNum
         /\ o = 0 \/ (Ord(o) # SEP /\ Ord(o) # END)
<1>1. OrdNum \in Nat /\ PatNum \in Nat /\ PatNum < SEP
  BY RowsAndOrders
<1>2. subsong \in 1 .. Len(subsongs) /\ subsongs \in Seq(Nat)
  BY DEF StartInv, IInv
<1>3. CASE subsong = 1
  <2>1. subsongs[subsong] = 0 /\ 0 \in 0 .. OrdNum
    BY <1>1, <1>3 DEF StartInv
  <2>. QED
    BY <2>1
<1>4. CASE subsong # 1
  <2>1. subsong \in 2 .. Len(subsongs)
    BY <1>2, <1>4
  <2>2. Ord(subsongs[subsong]) <= PatNum
    BY <2>1 DEF IInv, SubsongsAscend
  <2>3. subsongs[subsong] \in Nat
    BY <1>2
  <2>4. Ord(subsongs[subsong]) \in Nat
    BY <2>3, RowsAndOrders
  <2>5. Ord(subsongs[subsong]) # SEP /\ Ord(subsongs[subsong]) # END
    BY <1>1, <2>2, <2>4 DEF SEP, END
  <2>. QED
    BY <1>1, <2>3, <2>5 DEF Ord
<1>. QED
  BY <1>3, <1>4

(* ... the pattern it starts with, if there is one.                        *)
LEMMA StartsThere ==
  ASSUME IInv, WalkInv, StartInv, phase = "playing", Starts
  PROVE  LET o == subsongs[subsong] IN
         o \in 0 .. OrdNum - 1 /\ Ord(Past(o)) # END
<1>. DEFINE o == subsongs[subsong]
<1>1. OrdNum \in Nat /\ o \in 0 .. OrdNum
  BY RowsAndOrders, StartsAtPattern
<1>. HIDE DEF o
<1>2. PICK k \in o .. OrdNum : /\ Ord(k) \notin {SEP, END}
                               /\ \A l \in o .. k - 1 : Ord(l) = SEP
  BY DEF Starts, o
<1>3. k < OrdNum
  BY <1>1, <1>2 DEF Ord
<1>4. Past(o) = k
  <2>1. /\ Past(o) \in o .. OrdNum /\ Ord(Past(o)) # SEP
        /\ \A l \in o .. Past(o) - 1 : Ord(l) = SEP
    <3>1. \E m \in o .. OrdNum : Ord(m) # SEP
                                 /\ \A l \in o .. m - 1 : Ord(l) = SEP
      BY <1>2
    <3>. QED
      BY <3>1 DEF Past
  <2>. QED
    BY <1>1, <1>2, <2>1
<1>. QED
  BY <1>1, <1>2, <1>3, <1>4 DEF o

(* Replayers that are alike stay so, with every row and every tick.        *)
LEMMA It2RowAlike ==
  ASSUME NEW r, NEW q, Alike(r, q), DOMAIN r = It2Fields
  PROVE  Alike(It2Row(r), It2Row(q)) /\ DOMAIN It2Row(r) = It2Fields
<1>. DEFINE x == It2Row(r)
            y == It2Row(q)
<1>1. /\ q.prow = r.prow /\ q.pat = r.pat /\ q.pord = r.pord
      /\ q.brow = r.brow
  BY DEF Alike, It2Fields
<1>. DEFINE row == (r.prow + 1) % Word
<1>2. CASE row >= Length(r.pat)
  <2>. DEFINE next == (r.pord + 1) % Word
              o == Past(IF next > OrdNum THEN OrdNum ELSE next)
              to == IF Ord(o) = END THEN <<0, r.pat>> ELSE <<o, Ord(o)>>
              a == to[1]
              b == to[2]
              w == IF r.brow >= Length(b) THEN 0 ELSE r.brow
              e == Ord(o) = END
              X == [r EXCEPT !.ord = a, !.pord = a, !.pat = b, !.row = w,
                      !.prow = w, !.brow = 0, !.stop = @ \/ e]
              Y == [q EXCEPT !.ord = a, !.pord = a, !.pat = b, !.row = w,
                      !.prow = w, !.brow = 0, !.stop = @ \/ e]
  <2>1. x = X /\ y = Y
    BY <1>1, <1>2 DEF It2Row, It2NextOrder
  <2>. HIDE DEF a, b, w, e
  <2>2. /\ DOMAIN X = It2Fields /\ X.ord = a /\ X.row = w /\ X.pat = b
        /\ X.tick = r.tick /\ X.speed = r.speed /\ X.pord = a
        /\ X.prow = w /\ X.brow = 0 /\ X.lrow = r.lrow
        /\ X.lcnt = r.lcnt /\ X.stop = (r.stop \/ e)
    BY DEF It2Fields
  <2>3. /\ DOMAIN Y = It2Fields /\ Y.ord = a /\ Y.row = w /\ Y.pat = b
        /\ Y.tick = q.tick /\ Y.speed = q.speed /\ Y.pord = a
        /\ Y.prow = w /\ Y.brow = 0 /\ Y.lrow = q.lrow
        /\ Y.lcnt = q.lcnt /\ Y.stop = (q.stop \/ e)
    BY DEF Alike, It2Fields
  <2>4. /\ q.tick = r.tick /\ q.speed = r.speed /\ q.lrow = r.lrow
        /\ q.lcnt = r.lcnt /\ q.stop = r.stop
    BY DEF Alike, It2Fields
  <2>. HIDE DEF X, Y
  <2>5. Alike(X, Y)
    BY <2>2, <2>3, <2>4 DEF Alike, It2Fields
  <2>. QED
    BY <2>1, <2>2, <2>5
<1>3. CASE ~(row >= Length(r.pat))
  <2>1. /\ x = [r EXCEPT !.row = row, !.prow = row]
        /\ y = [q EXCEPT !.row = row, !.prow = row]
    BY <1>1, <1>3 DEF It2Row
  <2>. HIDE DEF row
  <2>. QED
    BY <2>1 DEF Alike, It2Fields
<1>. QED
  BY <1>2, <1>3

LEMMA It2TickAlike ==
  ASSUME NEW r, NEW q, Alike(r, q),
         DOMAIN r = It2Fields, r.flag \in BOOLEAN
  PROVE  /\ Alike(It2Tick(r), It2Tick(q))
         /\ DOMAIN It2Tick(r) = It2Fields /\ It2Tick(r).flag \in BOOLEAN
         /\ ~(r.tick > 1) => It2Tick(r) = It2Tick(q)
<1>1. CASE r.tick > 1
  BY <1>1 DEF It2Tick, Alike, It2Fields
<1>2. CASE ~(r.tick > 1)
  <2>. DEFINE x == It2Row(r)
              y == It2Row(q)
              x2 == [x EXCEPT !.flag = FALSE, !.speed = NewSpeed(x),
                              !.tick = NewSpeed(x)]
              y2 == [y EXCEPT !.flag = FALSE, !.speed = NewSpeed(y),
                              !.tick = NewSpeed(y)]
  <2>1. Alike(x, y) /\ DOMAIN x = It2Fields
    BY It2RowAlike
  <2>. HIDE DEF x, y
  <2>2. NewSpeed(x) = NewSpeed(y)
    BY <2>1 DEF NewSpeed, Alike, It2Fields
  <2>3. x2 = y2 /\ DOMAIN x2 = It2Fields /\ x2.flag = FALSE
    <3>1. DOMAIN x2 = It2Fields /\ DOMAIN y2 = It2Fields /\ x2.flag = FALSE
      BY <2>1 DEF Alike, It2Fields
    <3>2. \A f \in It2Fields : x2[f] = y2[f]
      BY <2>1, <2>2 DEF Alike, It2Fields
    <3>3. x2 = [f \in It2Fields |-> x2[f]] /\ y2 = [f \in It2Fields |-> y2[f]]
      BY <3>1
    <3>. QED
      BY <3>1, <3>2, <3>3
  <2>4. It2Tick(r) = It2Effects(x2) /\ It2Tick(q) = It2Effects(y2)
    BY <1>2 DEF It2Tick, Alike, It2Fields, x, y
  <2>. HIDE DEF x2, y2
  <2>5. ASSUME NEW z, NEW c, NEW e,
               DOMAIN z = It2Fields, z.flag \in BOOLEAN
        PROVE  /\ DOMAIN It2Effect(z, c, e) = It2Fields
               /\ It2Effect(z, c, e).flag \in BOOLEAN
    BY <2>5 DEF It2Effect, It2Loop, It2Fields
  <2>6. DOMAIN It2Effects(x2) = It2Fields /\ It2Effects(x2).flag \in BOOLEAN
    <3>. DEFINE c  == Cell(x2.pat, x2.row)
                z1 == It2Effect(x2, c, c.order[1])
                z2 == It2Effect(z1, c, c.order[2])
                z3 == It2Effect(z2, c, c.order[3])
    <3>1. It2Effects(x2) = z3
      BY DEF It2Effects
    <3>2. DOMAIN z1 = It2Fields /\ z1.flag \in BOOLEAN
      BY <2>3, <2>5
    <3>3. DOMAIN z2 = It2Fields /\ z2.flag \in BOOLEAN
      <4>. HIDE DEF z1
      <4>. QED
        BY <2>5, <3>2
    <3>4. DOMAIN z3 = It2Fields /\ z3.flag \in BOOLEAN
      <4>. HIDE DEF z2
      <4>. QED
        BY <2>5, <3>3
    <3>. QED
      BY <3>1, <3>4
  <2>. QED
    BY <2>3, <2>4, <2>6 DEF Alike
<1>. QED
  BY <1>1, <1>2

LEMMA Ft2TickAlike ==
  ASSUME NEW r, NEW q, Alike(r, q),
         DOMAIN r = Ft2Fields, r.flag \in BOOLEAN, r.dump \in BOOLEAN
  PROVE  LET to(x) == Ft2Dump(Ft2Tick(x)) IN
         /\ Alike(to(r), to(q)) /\ DOMAIN to(r) = Ft2Fields
         /\ to(r).flag \in BOOLEAN /\ to(r).dump \in BOOLEAN
<1>. DEFINE Ok(x, y) == /\ Alike(x, y) /\ DOMAIN x = Ft2Fields
                        /\ x.flag \in BOOLEAN /\ x.dump \in BOOLEAN
<1>1. ASSUME NEW x, NEW y, NEW c, NEW e, Ok(x, y)
      PROVE  Ok(Ft2Effect(x, c, e), Ft2Effect(y, c, e))
  BY <1>1 DEF Ft2Effect, Ft2Loop, Alike, Ft2Fields
<1>2. ASSUME NEW x, NEW y, Ok(x, y)
      PROVE  Ok(Ft2Effects(x), Ft2Effects(y))
  <2>1. Cell(x.pat, x.row) = Cell(y.pat, y.row)
    BY <1>2 DEF Alike, Ft2Fields
  <2>. HIDE DEF Ok
  <2>. QED
    BY <1>1, <1>2, <2>1 DEF Ft2Effects
<1>3. ASSUME NEW x, NEW y, Ok(x, y)
      PROVE  Ok(Ft2NextPos(x), Ft2NextPos(y))
  <2>1. /\ y.brk = x.brk /\ y.brow = x.brow /\ y.row = x.row
        /\ y.ord = x.ord /\ y.pat = x.pat /\ y.jmp = x.jmp
    BY <1>3 DEF Alike, Ft2Fields
  <2>. DEFINE row == IF x.brk THEN x.brow ELSE x.row + 1
              o   == IF x.ord + 1 >= OrdNum THEN song.repeat ELSE x.ord + 1
              w   == IF x.brow < Length(Ord(o)) THEN x.brow ELSE 0
  <2>2. CASE row < Length(x.pat) /\ ~x.jmp
    <3>1. /\ Ft2NextPos(x) = [x EXCEPT !.row = row, !.brk = FALSE]
          /\ Ft2NextPos(y) = [y EXCEPT !.row = row, !.brk = FALSE]
      BY <2>1, <2>2 DEF Ft2NextPos
    <3>. HIDE DEF row
    <3>. QED
      BY <1>3, <3>1 DEF Alike, Ft2Fields
  <2>3. CASE ~(row < Length(x.pat) /\ ~x.jmp)
    <3>. DEFINE X == [x EXCEPT !.ord = o, !.pat = Ord(o), !.brow = 0,
                        !.jmp = FALSE, !.row = w, !.brk = FALSE]
                Y == [y EXCEPT !.ord = o, !.pat = Ord(o), !.brow = 0,
                        !.jmp = FALSE, !.row = w, !.brk = FALSE]
    <3>1. Ft2NextPos(x) = X /\ Ft2NextPos(y) = Y
      BY <2>1, <2>3 DEF Ft2NextPos
    <3>. HIDE DEF o, w
    <3>2. /\ DOMAIN X = Ft2Fields /\ X.ord = o /\ X.row = w /\ X.pat = Ord(o)
          /\ X.tick = x.tick /\ X.speed = x.speed /\ X.jmp = FALSE
          /\ X.brk = FALSE /\ X.brow = 0 /\ X.lrow = x.lrow
          /\ X.lcnt = x.lcnt /\ X.flag = x.flag /\ X.dump = x.dump
      BY <1>3 DEF Ft2Fields
    <3>3. /\ DOMAIN Y = Ft2Fields /\ Y.ord = o /\ Y.row = w /\ Y.pat = Ord(o)
          /\ Y.tick = y.tick /\ Y.speed = y.speed /\ Y.jmp = FALSE
          /\ Y.brk = FALSE /\ Y.brow = 0 /\ Y.lrow = y.lrow
          /\ Y.lcnt = y.lcnt
      BY <1>3 DEF Ft2Fields, Alike
    <3>4. /\ y.tick = x.tick /\ y.speed = x.speed /\ y.lrow = x.lrow
          /\ y.lcnt = x.lcnt
      BY <1>3 DEF Alike, Ft2Fields
    <3>. HIDE DEF X, Y
    <3>5. Alike(X, Y)
      BY <3>2, <3>3, <3>4 DEF Alike, Ft2Fields
    <3>. QED
      BY <1>3, <3>1, <3>2, <3>5
  <2>. QED
    BY <2>2, <2>3
<1>4. ASSUME NEW x, NEW y, Ok(x, y)
      PROVE  Ok(Ft2Dump(x), Ft2Dump(y))
  BY <1>4 DEF Ft2Dump, Alike, Ft2Fields
<1>. DEFINE x1 == [r EXCEPT !.speed = NewSpeed(r), !.tick = NewSpeed(r)]
            y1 == [q EXCEPT !.speed = NewSpeed(q), !.tick = NewSpeed(q)]
            x2 == [r EXCEPT !.tick = @ - 1]
            y2 == [q EXCEPT !.tick = @ - 1]
<1>5. Ok(x1, y1) /\ Ok(x2, y2)
  BY DEF Alike, Ft2Fields, NewSpeed
<1>6. r.tick = q.tick
  BY DEF Alike, Ft2Fields
<1>. DEFINE x3 == IF r.tick = 1 THEN Ft2Effects(x1) ELSE x2
            y3 == IF q.tick = 1 THEN Ft2Effects(y1) ELSE y2
<1>7. Ok(x3, y3)
  <2>. HIDE DEF Ok, x1, y1, x2, y2
  <2>. QED
    BY <1>2, <1>5, <1>6
<1>8. /\ Ft2Tick(r) = IF x3.tick = 1 THEN Ft2NextPos(x3) ELSE x3
      /\ Ft2Tick(q) = IF y3.tick = 1 THEN Ft2NextPos(y3) ELSE y3
  BY DEF Ft2Tick
<1>. HIDE DEF x3, y3
<1>9. x3.tick = y3.tick
  BY <1>7 DEF Alike, Ft2Fields
<1>10. Ok(Ft2Tick(r), Ft2Tick(q))
  <2>. HIDE DEF Ok
  <2>. QED
    BY <1>3, <1>7, <1>8, <1>9
<1>11. Ok(Ft2Dump(Ft2Tick(r)), Ft2Dump(Ft2Tick(q)))
  <2>. HIDE DEF Ok
  <2>. QED
    BY <1>4, <1>10
<1>. QED
  BY <1>11

LEMMA St3TickKeeps ==
  ASSUME NEW r, DOMAIN r = St3Fields
  PROVE  DOMAIN St3Tick(r) = St3Fields
<1>. DEFINE r1 == IF r.tick = 0 THEN St3Effects(r) ELSE r
<1>0. DOMAIN St3Effects(r) = St3Fields
  <2>1. \A n : DOMAIN St3Loop(r, n) = St3Fields
    BY DEF St3Loop
  <2>. QED
    BY <2>1 DEF St3Effects
<1>1. DOMAIN r1 = St3Fields
  BY <1>0
<1>2. ASSUME NEW x, DOMAIN x = St3Fields
      PROVE  DOMAIN St3NewOrder(x) = St3Fields
  BY <1>2 DEF St3NewOrder
<1>3. St3Tick(r) = IF r1.tick + 1 >= r1.speed THEN St3NextRow(r1)
                   ELSE [r1 EXCEPT !.tick = @ + 1]
  BY DEF St3Tick
<1>. HIDE DEF r1
<1>4. DOMAIN St3NextRow(r1) = St3Fields
  BY <1>1, <1>2 DEF St3NextRow
<1>. QED
  BY <1>1, <1>3, <1>4

LEMMA TickAlike ==
  ASSUME player \in Players, NEW r, NEW q, Replayer(r)
  PROVE  /\ Replayer(Tick(r))
         /\ player # "st3play" /\ Alike(r, q) => Alike(Tick(r), Tick(q))
<1>1. Alike(r, r)
  BY DEF Alike
<1>2. CASE player = "it2play"
  <2>1. DOMAIN r = It2Fields /\ r.flag \in BOOLEAN
    BY <1>2 DEF Replayer
  <2>2. \A x : Tick(x) = It2Tick(x)
    BY <1>2 DEF Tick
  <2>3. DOMAIN It2Tick(r) = It2Fields /\ It2Tick(r).flag \in BOOLEAN
    BY <1>1, <2>1, It2TickAlike
  <2>4. Alike(r, q) => Alike(It2Tick(r), It2Tick(q))
    BY <2>1, It2TickAlike
  <2>. QED
    BY <1>2, <2>2, <2>3, <2>4 DEF Replayer
<1>3. CASE player = "ft2play"
  <2>1. DOMAIN r = Ft2Fields /\ r.flag \in BOOLEAN /\ r.dump \in BOOLEAN
    BY <1>3 DEF Replayer
  <2>2. \A x : Tick(x) = Ft2Dump(Ft2Tick(x))
    BY <1>3 DEF Tick
  <2>3. /\ DOMAIN Tick(r) = Ft2Fields
        /\ Tick(r).flag \in BOOLEAN /\ Tick(r).dump \in BOOLEAN
    BY <1>1, <2>1, <2>2, Ft2TickAlike
  <2>4. Alike(r, q) => Alike(Tick(r), Tick(q))
    BY <2>1, <2>2, Ft2TickAlike
  <2>. QED
    BY <1>3, <2>3, <2>4 DEF Replayer
<1>4. CASE player = "st3play"
  <2>1. DOMAIN Tick(r) = St3Fields
    BY <1>4, St3TickKeeps DEF Replayer, Tick
  <2>. QED
    BY <1>4, <2>1 DEF Replayer
<1>. QED
  BY <1>2, <1>3, <1>4 DEF Players

LEMMA TicksAlike ==
  ASSUME player \in Players, NEW r, NEW q, Replayer(r), NEW n \in 0 .. 3
  PROVE  /\ Replayer(Ticks(r, n))
         /\ player # "st3play" /\ Alike(r, q)
              => Alike(Ticks(r, n), Ticks(q, n))
<1>. DEFINE Ok(x, y) == /\ Replayer(x)
                        /\ player # "st3play" /\ Alike(r, q) => Alike(x, y)
<1>1. ASSUME NEW x, NEW y, Ok(x, y) PROVE Ok(Tick(x), Tick(y))
  BY <1>1, TickAlike
<1>2. Ok(r, q)
  OBVIOUS
<1>. HIDE DEF Ok
<1>3. Ok(Tick(r), Tick(q))
  BY <1>1, <1>2
<1>4. Ok(Tick(Tick(r)), Tick(Tick(q)))
  BY <1>1, <1>3
<1>5. Ok(Tick(Tick(Tick(r))), Tick(Tick(Tick(q))))
  BY <1>1, <1>4
<1>6. Ok(Ticks(r, n), Ticks(q, n))
  <2>1. n = 0 \/ n = 1 \/ n = 2 \/ n = 3
    OBVIOUS
  <2>. QED
    BY <1>2, <1>3, <1>4, <1>5, <2>1 DEF Ticks
<1>. QED
  BY <1>6 DEF Ok

(* What is heard is not what they differ in.                               *)
LEMMA AlikePlays ==
  ASSUME player \in Players, player # "st3play",
         NEW r, NEW q, Replayer(r), Alike(r, q)
  PROVE  Plays(r) = Plays(q)
<1>1. CASE player = "it2play"
  <2>1. q.tick = r.tick
    BY <1>1 DEF Replayer, Alike, It2Fields
  <2>2. Pos(It2Row(r)) = Pos(It2Row(q))
    <3>1. Alike(It2Row(r), It2Row(q)) /\ DOMAIN It2Row(r) = It2Fields
      BY <1>1, It2RowAlike DEF Replayer
    <3>. QED
      BY <1>1, <3>1 DEF Alike, It2Fields, Pos
  <2>. QED
    BY <1>1, <2>1, <2>2 DEF Plays
<1>2. CASE player = "ft2play"
  <2>1. q.tick = r.tick /\ q.ord = r.ord /\ q.row = r.row
    BY <1>2 DEF Replayer, Alike, Ft2Fields
  <2>. QED
    BY <1>2, <2>1 DEF Plays, Pos
<1>. QED
  BY <1>1, <1>2 DEF Players

(* Whatever row it leaves, it goes to the same.                            *)
LEMMA LeavingTick ==
  ASSUME WalkInv, NEW o \in 0 .. OrdNum, Ord(Past(o)) # END
  PROVE  \E to :
           /\ \A r : Leaving(r, o) => St3Tick(r) = to
           /\ DOMAIN to = St3Fields
           /\ to.ord # o /\ to.tick = 0 /\ to.speed = song.speed
           /\ to.pat = Ord(Past(o)) /\ to.row = 0
<1>. DEFINE i  == Past(o)
            to == [ord |-> i + 1, row |-> 0, pat |-> Ord(i), tick |-> 0,
                   speed |-> song.speed, brk |-> FALSE, jord |-> None,
                   brow |-> 0, lrow |-> None, lcnt |-> 0, jrow |-> None,
                   stop |-> FALSE]
<1>1. song.speed \in Nat \ {0} /\ OrdNum \in Nat
  BY SongsAssumption, RowsAndOrders DEF WalkInv
<1>2. i \in Nat /\ i + 1 # o
  <2>1. i \in o .. OrdNum
    BY PastIs
  <2>. QED
    BY <1>1, <2>1
<1>3. ASSUME NEW r, Leaving(r, o)
      PROVE  St3Tick(r) = to
  <2>. DEFINE x == [r EXCEPT !.ord = IF r.jord # None THEN r.jord ELSE @,
                             !.jord = None, !.jrow = None, !.brk = FALSE,
                             !.tick = 0]
  <2>1. St3Tick(r) = St3NextRow(r)
    BY <1>1, <1>3 DEF St3Tick, Leaving
  <2>2. St3NextRow(r) = St3NewOrder(x)
    BY <1>3 DEF St3NextRow, Leaving
  <2>3. /\ DOMAIN x = St3Fields
        /\ x.ord = o /\ x.tick = 0 /\ x.speed = song.speed
        /\ x.brk = FALSE /\ x.jord = None
        /\ x.brow = 0 /\ x.lcnt = 0 /\ x.stop = FALSE
    BY <1>3 DEF Leaving, St3Fields
  <2>. HIDE DEF x
  <2>4. St3NewOrder(x)
          = [x EXCEPT !.ord = i + 1, !.pat = Ord(i), !.row = 0, !.brow = 0,
                      !.lrow = None, !.jrow = None, !.stop = FALSE]
    BY <2>3 DEF St3NewOrder
  <2>. HIDE DEF i
  <2>5. [x EXCEPT !.ord = i + 1, !.pat = Ord(i), !.row = 0, !.brow = 0,
                  !.lrow = None, !.jrow = None, !.stop = FALSE] = to
    <3>. DEFINE y == [x EXCEPT !.ord = i + 1, !.pat = Ord(i), !.row = 0,
                               !.brow = 0, !.lrow = None, !.jrow = None,
                               !.stop = FALSE]
    <3>1. y = [f \in St3Fields |-> y[f]] /\ to = [f \in St3Fields |-> to[f]]
      BY <2>3 DEF St3Fields
    <3>2. /\ y.ord = i + 1 /\ y.pat = Ord(i) /\ y.row = 0 /\ y.brow = 0
          /\ y.lrow = None /\ y.jrow = None /\ y.stop = FALSE
          /\ y.tick = 0 /\ y.brk = FALSE /\ y.jord = None /\ y.lcnt = 0
          /\ y.speed = song.speed
      BY <2>3 DEF St3Fields
    <3>3. /\ to.ord = i + 1 /\ to.pat = Ord(i) /\ to.row = 0 /\ to.brow = 0
          /\ to.lrow = None /\ to.jrow = None /\ to.stop = FALSE
          /\ to.tick = 0 /\ to.brk = FALSE /\ to.jord = None /\ to.lcnt = 0
          /\ to.speed = song.speed
      OBVIOUS
    <3>. HIDE DEF y, to
    <3>4. \A f \in St3Fields : y[f] = to[f]
      BY <3>2, <3>3 DEF St3Fields
    <3>. QED
      BY <3>1, <3>4 DEF y
  <2>. QED
    BY <2>1, <2>2, <2>4, <2>5
<1>4. /\ DOMAIN to = St3Fields
      /\ to.ord # o /\ to.tick = 0 /\ to.speed = song.speed
      /\ to.pat = Ord(i) /\ to.row = 0
  BY <1>2 DEF St3Fields
<1>. HIDE DEF to
<1>. QED
  BY <1>3, <1>4

(* ... and stays there for a buffer, if its rows last that long.           *)
LEMMA StaysThere ==
  ASSUME WalkInv, RowsLast, player = "st3play",
         NEW to, DOMAIN to = St3Fields, to.tick = 0, to.speed = song.speed,
         to.pat \in Nat, to.row = 0, NEW n \in 1 .. 3, n \in Mixed
  PROVE  Ticks(to, n - 1).ord = to.ord
<1>. DEFINE v == NewSpeed(to)
            q == [St3Effects(to) EXCEPT !.tick = @ + 1]
<1>1. v \in Nat /\ n <= v
  <2>1. song.speed \in Nat \ {0} /\ song.speed \in Speeds
    BY SongsAssumption DEF WalkInv, Speeds
  <2>2. n <= song.speed
    BY <2>1 DEF RowsLast, None
  <2>3. CASE ~HasData(to.pat)
    BY <2>1, <2>2, <2>3 DEF NewSpeed, Cell, NoCell
  <2>4. CASE HasData(to.pat)
    <3>1. PatNum \in Nat /\ to.pat \in 0 .. song.patnum - 1
      BY <2>4, RowsAndOrders DEF HasData, PatNum
    <3>2. Rows(to.pat) = MaxRows /\ MaxRows \in Nat \ {0}
      BY SongsAssumption DEF Rows
    <3>3. Cell(to.pat, 0).speed \in Speeds
      <4>1. 0 \in 0 .. Rows(to.pat) - 1
        BY <3>2
      <4>. QED
        BY <3>1, <4>1 DEF Speeds, PatNum
    <3>4. song.cells[to.pat][0].speed \in Param
      <4>1. 0 \in 0 .. MaxRows - 1
        BY <3>2
      <4>. QED
        BY <3>1, <4>1, SongsAssumption DEF WalkInv
    <3>5. Cell(to.pat, 0).speed \in Nat \cup {None}
      BY <2>4, <3>4 DEF Cell, Param
    <3>. DEFINE w == Cell(to.pat, 0).speed
    <3>6. w \notin {None, 0} => n <= w
      BY <3>3 DEF RowsLast
    <3>7. v = IF w \in {None, 0} THEN song.speed ELSE w
      BY DEF NewSpeed
    <3>. HIDE DEF w, v
    <3>. QED
      BY <2>1, <2>2, <3>5, <3>6, <3>7 DEF w
  <2>. QED
    BY <2>3, <2>4
<1>2. /\ DOMAIN St3Effects(to) = St3Fields
      /\ St3Effects(to).ord = to.ord /\ St3Effects(to).tick = 0
      /\ St3Effects(to).speed = v
  <2>. DEFINE l == Cell(to.pat, to.row).loop
              x == St3Loop(to, l)
  <2>1. DOMAIN x = St3Fields /\ x.ord = to.ord /\ x.tick = 0
    BY DEF St3Loop, St3Fields
  <2>. HIDE DEF x, v
  <2>2. /\ DOMAIN St3Effects(to) = DOMAIN x
        /\ St3Effects(to).ord = x.ord /\ St3Effects(to).tick = x.tick
    BY <2>1 DEF St3Effects, x, St3Fields
  <2>3. St3Effects(to).speed = NewSpeed(to)
    BY <2>1 DEF St3Effects, x, St3Fields
  <2>. QED
    BY <2>1, <2>2, <2>3 DEF v
<1>. HIDE DEF v
<1>3. n >= 2 => Tick(to) = q
  <2>1. n >= 2 => ~(0 + 1 >= v)
    BY <1>1
  <2>2. Tick(to) = St3Tick(to)
    BY DEF Tick
  <2>. QED
    BY <1>2, <2>1, <2>2 DEF St3Tick
<1>4. DOMAIN q = St3Fields /\ q.ord = to.ord /\ q.tick = 1 /\ q.speed = v
  BY <1>2 DEF St3Fields
<1>. HIDE DEF q
<1>5. n = 3 => Tick(q).ord = to.ord
  <2>1. n = 3 => ~(1 + 1 >= v)
    BY <1>1
  <2>2. n = 3 => Tick(q) = [q EXCEPT !.tick = @ + 1]
    BY <1>4, <2>1 DEF Tick, St3Tick
  <2>. QED
    BY <1>4, <2>2 DEF St3Fields
<1>6. CASE n = 1
  BY <1>6 DEF Ticks
<1>7. CASE n = 2
  BY <1>3, <1>4, <1>7 DEF Ticks
<1>8. CASE n = 3
  BY <1>3, <1>5, <1>8 DEF Ticks
<1>. QED
  BY <1>6, <1>7, <1>8

(* ... and sees the same.                                                  *)
LEMMA LeavingTicks ==
  ASSUME IInv, WalkInv, StartInv, phase = "playing", Starts,
         player = "st3play", NEW n \in 0 .. 3, NEW s, NEW u,
         Leaving(s.r, subsongs[subsong]), Leaving(u.r, subsongs[subsong])
  PROVE  /\ n = 0 => Ticks(s.r, n) = s.r /\ Ticks(u.r, n) = u.r
         /\ n # 0 => Ticks(s.r, n) = Ticks(u.r, n)
         /\ n \in Mixed \ {0} /\ RowsLast
              => Ticks(s.r, n).ord # subsongs[subsong]
<1>. DEFINE o == subsongs[subsong]
<1>1. o \in 0 .. OrdNum /\ Ord(Past(o)) # END /\ OrdNum \in Nat
  BY StartsThere, RowsAndOrders
<1>2. PICK to : /\ \A r : Leaving(r, o) => St3Tick(r) = to
                /\ DOMAIN to = St3Fields
                /\ to.ord # o /\ to.tick = 0 /\ to.speed = song.speed
                /\ to.pat = Ord(Past(o)) /\ to.row = 0
  <2>1. \E to : /\ \A r : Leaving(r, o) => St3Tick(r) = to
                /\ DOMAIN to = St3Fields
                /\ to.ord # o /\ to.tick = 0 /\ to.speed = song.speed
                /\ to.pat = Ord(Past(o)) /\ to.row = 0
    BY <1>1, LeavingTick
  <2>. QED
    BY <2>1
<1>3. to.pat \in Nat
  <2>1. Past(o) \in Nat
    BY <1>1, PastIs
  <2>. QED
    BY <1>2, <2>1, RowsAndOrders
<1>4. Tick(s.r) = to /\ Tick(u.r) = to
  <2>1. St3Tick(s.r) = to /\ St3Tick(u.r) = to
    BY <1>2
  <2>. QED
    BY <2>1 DEF Tick
<1>5. ASSUME n # 0
      PROVE  /\ Ticks(s.r, n) = Ticks(to, n - 1)
             /\ Ticks(u.r, n) = Ticks(to, n - 1)
  <2>1. n = 1 \/ n = 2 \/ n = 3
    BY <1>5
  <2>. QED
    BY <1>4, <2>1 DEF Ticks
<1>6. n \in Mixed \ {0} /\ RowsLast => Ticks(to, n - 1).ord = to.ord
  BY <1>2, <1>3, StaysThere
<1>7. n = 0 => Ticks(s.r, n) = s.r /\ Ticks(u.r, n) = u.r
  BY DEF Ticks
<1>. QED
  BY <1>2, <1>5, <1>6, <1>7

LEMMA LeavingRender ==
  ASSUME IInv, WalkInv, StartInv, phase = "playing", Starts, RowsLast,
         player = "st3play", NEW n \in 0 .. 3, n \in Mixed,
         NEW s, NEW u, s.seen = {}, u.seen = {},
         Leaving(s.r, subsongs[subsong]), Leaving(u.r, subsongs[subsong])
  PROVE  LET to(x) == Render(x, Ticks(x.r, n)) IN
         /\ n # 0 /\ s.end = u.end => to(s) = to(u)
         /\ n = 0 /\ s.end = "" => to(s) = Rendered(s.r, {}, "")
         /\ n = 0 /\ u.end = "" => to(u) = Rendered(u.r, {}, "")
<1>. DEFINE o == subsongs[subsong]
<1>1. o \in 0 .. OrdNum - 1 /\ OrdNum \in Nat
  BY StartsThere, RowsAndOrders
<1>2. /\ s.r.lcnt = 0 /\ u.r.lcnt = 0 /\ s.r.ord = o /\ u.r.ord = o
      /\ s.r.stop = FALSE /\ u.r.stop = FALSE
  BY DEF Leaving
<1>3. /\ n = 0 => Ticks(s.r, n) = s.r /\ Ticks(u.r, n) = u.r
      /\ n # 0 => Ticks(s.r, n) = Ticks(u.r, n)
      /\ n # 0 => Ticks(s.r, n).ord # o
  BY LeavingTicks
<1>. HIDE DEF o
<1>4. ~JumpLoop(s.r) /\ ~JumpLoop(u.r)
  BY <1>2 DEF JumpLoop, St3JumpLoop
<1>5. \A r : Unlooped(s.r, r, s.seen) = {} /\ Unlooped(u.r, r, u.seen) = {}
  BY <1>4 DEF Unlooped
<1>6. CASE n = 0
  <2>1. ~Counts(s.r, s.r) /\ ~Counts(u.r, u.r)
    BY DEF Counts
  <2>2. ~(o >= OrdNum)
    BY <1>1
  <2>3. /\ St3Render(s, s.r) = Rendered(s.r, {}, "")
        /\ St3Render(u, u.r) = Rendered(u.r, {}, "")
    BY <1>2, <1>5, <2>1, <2>2 DEF St3Render
  <2>4. /\ s.end = "" => Render(s, s.r) = Rendered(s.r, {}, "")
        /\ u.end = "" => Render(u, u.r) = Rendered(u.r, {}, "")
    BY <2>3 DEF Render, Rendered
  <2>. QED
    BY <1>3, <1>6, <2>4
<1>7. CASE n # 0
  <2>. DEFINE r == Ticks(s.r, n)
  <2>1. Ticks(u.r, n) = r /\ r.ord # o
    BY <1>3, <1>7
  <2>. HIDE DEF r
  <2>2. Counts(s.r, r) = Counts(u.r, r)
    <3>1. Pos(r) # Pos(s.r) /\ Pos(r) # Pos(u.r)
      BY <1>2, <2>1 DEF Pos
    <3>. QED
      BY <1>4, <3>1 DEF Counts
  <2>3. St3Render(s, r) = St3Render(u, r)
    BY <1>5, <2>2 DEF St3Render
  <2>4. s.end = u.end => Render(s, r) = Render(u, r)
    BY <2>3 DEF Render
  <2>. QED
    BY <1>7, <2>1, <2>4 DEF r
<1>. QED
  BY <1>6, <1>7

LEMMA InitPlayInv == Init => PlayInv
  BY DEF Init, InitWalk, PlayInv, StartInv, FieldsInv, RowsInv, EndInv

LEMMA PlayStarts ==
  ASSUME IInv, PlayInv, NEW s \in 1 .. Len(subsongs), Play(s)
  PROVE  PlayInv'
<1>1. PICK left \in BOOLEAN : now' = Fresh(s, left) /\ twin' = now'
  BY DEF Play
<1>2. /\ player' = player /\ subsongs' = subsongs /\ subsong' = s
  BY DEF Play, songVars, walkVars
<1>3. StartInv'
  BY <1>2 DEF PlayInv, StartInv
<1>4. RowsInv' /\ EndInv'
  BY <1>1 DEF RowsInv, EndInv, Alike
<1>5. FieldsInv'
  <2>1. CASE player = "it2play"
    <3>1. now'.r = It2Start(subsongs[s], left)
      BY <1>1, <2>1 DEF Fresh, It2Play
    <3>2. DOMAIN now'.r = It2Fields /\ now'.r.flag = left
      BY <3>1 DEF It2Start, It2Fields
    <3>. QED
      BY <1>2, <2>1, <3>2 DEF FieldsInv, Replayer
  <2>2. CASE player = "ft2play"
    <3>1. now'.r = Ft2Start(subsongs[s], left)
      BY <1>1, <2>2 DEF Fresh, Ft2Play
    <3>2. /\ DOMAIN now'.r = Ft2Fields /\ now'.r.flag = left
          /\ now'.r.dump = FALSE
      BY <3>1 DEF Ft2Start, Ft2Fields
    <3>. QED
      BY <1>2, <2>2, <3>2 DEF FieldsInv, Replayer
  <2>3. CASE player = "st3play"
    <3>1. now'.r = St3Play(s)
      BY <1>1, <2>3 DEF Fresh
    <3>2. DOMAIN St3Load = St3Fields
      BY DEF St3Load, St3NewOrder, St3Fields
    <3>3. DOMAIN St3Play(s) = St3Fields
      BY <3>2 DEF St3Play, St3Goto
    <3>. QED
      BY <1>2, <2>3, <3>1, <3>3 DEF FieldsInv, Replayer
  <2>. QED
    BY <1>2, <2>1, <2>2, <2>3 DEF FieldsInv, Replayer
<1>. QED
  BY <1>3, <1>4, <1>5 DEF PlayInv

LEMMA RenderKeeps ==
  ASSUME IInv, WalkInv, PlayInv, NEW n \in Mixed, RenderTicks(n)
  PROVE  PlayInv'
<1>1. /\ phase = "playing" /\ phase' = phase
      /\ player' = player /\ song' = song
      /\ subsongs' = subsongs /\ subsong' = subsong /\ stale' = stale
  BY DEF RenderTicks, songVars, walkVars
<1>2. /\ now' = Render(now, Ticks(now.r, n))
      /\ twin' = Render(twin, Ticks(twin.r, n))
  BY DEF RenderTicks
<1>3. n \in 0 .. 3 /\ player \in Players
  <2>1. song.ticks \subseteq 0 .. 3
    BY SongsAssumption DEF WalkInv
  <2>. QED
    BY <2>1 DEF WalkInv, Mixed
<1>4. \A s, r : Render(s, r).r = r
  <2>. SUFFICES ASSUME NEW s, NEW r PROVE Render(s, r).r = r
    OBVIOUS
  <2>1. CASE player = "it2play"
    BY <2>1 DEF Render, It2Render, Rendered
  <2>2. CASE player = "ft2play"
    BY <2>2 DEF Render, Ft2Render, Rendered
  <2>3. CASE player = "st3play"
    BY <2>3 DEF Render, St3Render, Rendered
  <2>. QED
    BY <1>3, <2>1, <2>2, <2>3 DEF Players
<1>5. now'.r = Ticks(now.r, n) /\ twin'.r = Ticks(twin.r, n)
  BY <1>2, <1>4
<1>6. Replayer(now.r)
  BY <1>1 DEF PlayInv, FieldsInv
<1>7. /\ Starts' = Starts /\ RowsLast' = RowsLast
      /\ \A r, o : Leaving(r, o)' = Leaving(r, o)
  BY <1>1 DEF Starts, RowsLast, Leaving, Ord, OrdNum, Mixed, Speeds, Cell,
    HasData, PatNum, Rows
<1>8. StartInv'
  BY <1>1 DEF PlayInv, StartInv
<1>9. FieldsInv'
  <2>1. Replayer(Ticks(now.r, n))
    BY <1>3, <1>6, TicksAlike
  <2>. QED
    BY <1>1, <1>5, <2>1 DEF FieldsInv, Replayer
<1>10. ASSUME LeavingBoth, Starts, n = 0 PROVE LeavingBoth'
  <2>1. now'.r = now.r /\ twin'.r = twin.r
    BY <1>5, <1>10 DEF Ticks
  <2>. QED
    BY <1>1, <1>10, <2>1 DEF LeavingBoth, Leaving
<1>11. RowsInv'
  <2>. SUFFICES ASSUME Starts, ~stale.rows
                PROVE  IF player = "st3play"
                       THEN now'.r = twin'.r \/ LeavingBoth'
                       ELSE Alike(now'.r, twin'.r)
    BY <1>1, <1>7 DEF RowsInv, Alike
  <2>1. CASE player # "st3play"
    <3>1. Alike(now.r, twin.r)
      BY <1>1, <2>1 DEF PlayInv, RowsInv
    <3>. QED
      BY <1>3, <1>5, <1>6, <2>1, <3>1, TicksAlike
  <2>2. CASE player = "st3play" /\ now.r = twin.r
    BY <1>5, <2>2
  <2>3. CASE player = "st3play" /\ LeavingBoth
    <3>1. n # 0 => Ticks(now.r, n) = Ticks(twin.r, n)
      BY <1>1, <1>3, <2>3, LeavingTicks DEF LeavingBoth, PlayInv
    <3>. QED
      BY <1>5, <1>10, <2>3, <3>1
  <2>. QED
    BY <1>1, <2>1, <2>2, <2>3 DEF PlayInv, RowsInv
<1>12. EndInv'
  <2>. SUFFICES ASSUME Starts, ~stale.rows, ~stale.end, RowsLast
                PROVE  \/ now' = twin'
                       \/ /\ LeavingBoth'
                          /\ now'.seen = {} /\ twin'.seen = {}
                          /\ now'.end = "" /\ twin'.end = ""
    BY <1>1, <1>7 DEF EndInv
  <2>1. CASE now = twin
    BY <1>2, <2>1
  <2>2. CASE LeavingBoth /\ now.seen = {} /\ twin.seen = {}
               /\ now.end = "" /\ twin.end = ""
    <3>1. /\ player = "st3play"
          /\ Leaving(now.r, subsongs[subsong])
          /\ Leaving(twin.r, subsongs[subsong])
      BY <2>2 DEF LeavingBoth
    <3>2. /\ n # 0 => now' = twin'
          /\ n = 0 => /\ now' = Rendered(now.r, {}, "")
                      /\ twin' = Rendered(twin.r, {}, "")
      BY <1>1, <1>2, <1>3, <2>2, <3>1, LeavingRender DEF PlayInv
    <3>3. CASE n # 0
      BY <3>2, <3>3
    <3>4. CASE n = 0
      <4>1. /\ now' = [r |-> now.r, seen |-> {}, end |-> ""]
            /\ twin' = [r |-> twin.r, seen |-> {}, end |-> ""]
        BY <3>2, <3>4 DEF Rendered
      <4>. QED
        BY <1>10, <2>2, <3>4, <4>1
    <3>. QED
      BY <3>3, <3>4
  <2>. QED
    BY <1>1, <2>1, <2>2 DEF PlayInv, EndInv
<1>. QED
  BY <1>8, <1>9, <1>11, <1>12 DEF PlayInv

LEMMA RestartKeeps ==
  ASSUME IInv, WalkInv, PlayInv, Restart
  PROVE  PlayInv'
<1>. DEFINE o == subsongs[subsong]
<1>1. /\ phase = "playing" /\ player' = player /\ song' = song
      /\ subsongs' = subsongs /\ subsong' = subsong
      /\ stale'.rows = (stale.rows \/ LeavesRows(now.r))
      /\ stale'.end = (stale.end \/ LeavesEnd(now.r))
      /\ now' = Restarted(now) /\ twin' = Replayed
  BY DEF Restart, songVars, walkVars
<1>2. StartInv'
  BY <1>1 DEF PlayInv, StartInv
<1>3. Replayer(now.r) /\ player \in Players
  BY <1>1 DEF PlayInv, FieldsInv, WalkInv
<1>4. CASE player = "it2play"
  <2>1. /\ now' = [r |-> It2Start(o, now.r.flag), seen |-> {}, end |-> ""]
        /\ twin' = [r |-> It2Start(o, FALSE), seen |-> {}, end |-> ""]
    BY <1>1, <1>4 DEF Restarted, It2Restart, Replayed, Fresh, It2Play
  <2>2. ~stale'.end => now.r.flag = FALSE
    BY <1>1, <1>3, <1>4 DEF LeavesEnd, Replayer
  <2>3. EndInv'
    BY <2>1, <2>2 DEF EndInv
  <2>4. DOMAIN now'.r = It2Fields /\ now'.r.flag = now.r.flag
    BY <2>1 DEF It2Start, It2Fields
  <2>5. FieldsInv'
    BY <1>1, <1>3, <1>4, <2>4 DEF FieldsInv, Replayer
  <2>6. ASSUME NEW a, NEW b
        PROVE  Alike(It2Start(o, a), It2Start(o, b))
    <3>. DEFINE x == It2Start(o, a)
                y == It2Start(o, b)
    <3>1. /\ DOMAIN x = It2Fields /\ x.ord = o /\ x.row = 0 /\ x.pat = 0
          /\ x.tick = 1 /\ x.speed = song.speed /\ x.pord = Before(o)
          /\ x.prow = Break /\ x.brow = 0 /\ x.lrow = 0 /\ x.lcnt = 0
          /\ x.stop = FALSE
      BY DEF It2Start, It2Fields
    <3>2. /\ DOMAIN y = It2Fields /\ y.ord = o /\ y.row = 0 /\ y.pat = 0
          /\ y.tick = 1 /\ y.speed = song.speed /\ y.pord = Before(o)
          /\ y.prow = Break /\ y.brow = 0 /\ y.lrow = 0 /\ y.lcnt = 0
          /\ y.stop = FALSE
      BY DEF It2Start, It2Fields
    <3>. HIDE DEF x, y
    <3>3. Alike(x, y)
      BY <3>1, <3>2 DEF Alike, It2Fields
    <3>. QED
      BY <3>3 DEF x, y
  <2>7. Alike(now'.r, twin'.r)
    BY <2>1, <2>6
  <2>8. RowsInv'
    BY <1>1, <1>4, <2>7 DEF RowsInv, Alike
  <2>. QED
    BY <1>2, <2>3, <2>5, <2>8 DEF PlayInv
<1>5. CASE player = "ft2play"
  <2>. DEFINE f == [Ft2Start(o, now.r.flag) EXCEPT
                      !.speed = now.r.speed, !.lrow = now.r.lrow,
                      !.lcnt = now.r.lcnt, !.dump = now.r.dump]
              g == Ft2Start(o, FALSE)
  <2>1. /\ now' = [r |-> f, seen |-> {}, end |-> ""]
        /\ twin' = [r |-> g, seen |-> {}, end |-> ""]
    BY <1>1, <1>5 DEF Restarted, Ft2Restart, Replayed, Fresh, Ft2Play
  <2>2. /\ DOMAIN f = Ft2Fields
        /\ f.ord = o /\ f.row = 0 /\ f.pat = Ord(o) /\ f.tick = 1
        /\ f.jmp = FALSE /\ f.brk = FALSE /\ f.brow = 0
        /\ f.speed = now.r.speed
        /\ f.lrow = now.r.lrow /\ f.lcnt = now.r.lcnt
        /\ f.flag = now.r.flag /\ f.dump = now.r.dump
    BY DEF Ft2Start, Ft2Fields
  <2>3. /\ DOMAIN g = Ft2Fields
        /\ g.ord = o /\ g.row = 0 /\ g.pat = Ord(o) /\ g.tick = 1
        /\ g.jmp = FALSE /\ g.brk = FALSE /\ g.brow = 0
        /\ g.speed = song.speed
        /\ g.lrow = 0 /\ g.lcnt = 0 /\ g.flag = FALSE /\ g.dump = FALSE
    BY DEF Ft2Start, Ft2Fields
  <2>4. f = [x \in Ft2Fields |-> f[x]] /\ g = [x \in Ft2Fields |-> g[x]]
    BY DEF Ft2Start, Ft2Fields
  <2>. HIDE DEF f, g
  <2>5. ~stale'.rows => /\ now.r.speed = song.speed
                        /\ now.r.lrow = 0 /\ now.r.lcnt = 0
    BY <1>1, <1>5 DEF LeavesRows
  <2>6. ~stale'.end => now.r.flag = FALSE /\ now.r.dump = FALSE
    BY <1>1, <1>3, <1>5 DEF LeavesEnd, Replayer
  <2>7. ~stale'.rows => Alike(f, g)
    BY <2>2, <2>3, <2>5 DEF Alike, Ft2Fields
  <2>8. ~stale'.rows /\ ~stale'.end => f = g
    <3>1. ~stale'.rows /\ ~stale'.end => \A x \in Ft2Fields : f[x] = g[x]
      BY <2>2, <2>3, <2>5, <2>6 DEF Ft2Fields
    <3>. QED
      BY <2>4, <3>1
  <2>9. EndInv'
    BY <2>1, <2>8 DEF EndInv
  <2>10. FieldsInv'
    <3>1. /\ DOMAIN now'.r = Ft2Fields
          /\ now'.r.flag = now.r.flag /\ now'.r.dump = now.r.dump
      BY <2>1, <2>2
    <3>. QED
      BY <1>1, <1>3, <1>5, <3>1 DEF FieldsInv, Replayer
  <2>11. RowsInv'
    <3>1. ~stale'.rows => Alike(now'.r, twin'.r)
      BY <2>1, <2>7
    <3>. QED
      BY <1>1, <1>5, <3>1 DEF RowsInv, Alike
  <2>. QED
    BY <1>2, <2>9, <2>10, <2>11 DEF PlayInv
<1>6. CASE player = "st3play"
  <2>1. /\ now' = [r |-> St3Restart(now.r), seen |-> {}, end |-> ""]
        /\ twin' = [r |-> St3Restart(St3Load), seen |-> {}, end |-> ""]
    BY <1>1, <1>6 DEF Restarted, Replayed, Fresh
  <2>2. ASSUME NEW r, DOMAIN r = St3Fields
        PROVE  /\ DOMAIN St3Restart(r) = St3Fields
               /\ r.lcnt = 0 /\ r.jord = None /\ r.jrow = None
                    /\ r.speed = song.speed => Leaving(St3Restart(r), o)
    BY <2>2 DEF St3Restart, St3Goto, St3Fields, Leaving
  <2>3. /\ DOMAIN St3Load = St3Fields
        /\ St3Load.lcnt = 0 /\ St3Load.jord = None /\ St3Load.jrow = None
        /\ St3Load.speed = song.speed
    BY DEF St3Load, St3NewOrder, St3Fields
  <2>4. ~stale'.rows => /\ now.r.lcnt = 0 /\ now.r.jord = None
                        /\ now.r.jrow = None /\ now.r.speed = song.speed
    BY <1>1, <1>6 DEF LeavesRows
  <2>5. DOMAIN now.r = St3Fields
    BY <1>3, <1>6 DEF Replayer
  <2>6. DOMAIN now'.r = St3Fields
    BY <2>1, <2>2, <2>5
  <2>7. ~stale'.rows => Leaving(now'.r, o) /\ Leaving(twin'.r, o)
    BY <2>1, <2>2, <2>3, <2>4, <2>5
  <2>8. ~stale'.rows => LeavingBoth'
    BY <1>1, <1>6, <2>7 DEF LeavingBoth, Leaving
  <2>9. /\ now'.seen = {} /\ twin'.seen = {}
        /\ now'.end = "" /\ twin'.end = ""
    BY <2>1
  <2>10. RowsInv' /\ EndInv'
    BY <1>1, <1>6, <2>8, <2>9 DEF RowsInv, EndInv
  <2>11. FieldsInv'
    BY <1>1, <1>6, <2>6 DEF FieldsInv, Replayer
  <2>. QED
    BY <1>2, <2>10, <2>11 DEF PlayInv
<1>. QED
  BY <1>3, <1>4, <1>5, <1>6 DEF Players

LEMMA PlayInvStep == IInv /\ WalkInv /\ PlayInv /\ [Next]_vars => PlayInv'
<1>. SUFFICES ASSUME IInv, WalkInv, PlayInv, [Next]_vars PROVE PlayInv'
  OBVIOUS
<1>1. CASE WalkStep
  <2>1. SkipEmpty \/ AllSeen \/ Separator \/ Leap \/ NextRow
    BY <1>1 DEF WalkStep, Walk, It2Walk, Ft2Walk, St3Walk
  <2>2. phase = "walk" /\ phase' # "playing"
    BY <2>1 DEF SkipEmpty, AllSeen, Separator, Leap, NextRow, Visit, EndWalk
  <2>3. subsongs' = subsongs \/ subsongs' = Append(subsongs, First)
    BY <2>1 DEF SkipEmpty, AllSeen, Separator, Leap, NextRow, Visit
  <2>4. subsongs'[1] = 0
    BY <2>3 DEF PlayInv, StartInv, IInv
  <2>. QED
    BY <2>2, <2>4 DEF PlayInv, StartInv, FieldsInv, RowsInv, EndInv
<1>2. ASSUME NEW n \in Mixed, RenderTicks(n) PROVE PlayInv'
  BY <1>2, RenderKeeps
<1>3. CASE Restart
  BY <1>3, RestartKeeps
<1>4. ASSUME NEW s \in 1 .. Len(subsongs), Play(s) PROVE PlayInv'
  BY <1>4, PlayStarts
<1>5. CASE UNCHANGED vars
  <2>1. /\ player' = player /\ song' = song /\ phase' = phase
        /\ subsongs' = subsongs /\ subsong' = subsong /\ stale' = stale
        /\ now' = now /\ twin' = twin
    BY <1>5 DEF vars, songVars, walkVars, playVars
  <2>2. Starts' = Starts /\ RowsLast' = RowsLast
    BY <2>1 DEF Starts, RowsLast, Ord, OrdNum, Mixed, Speeds, Cell, HasData,
      PatNum, Rows
  <2>3. LeavingBoth' = LeavingBoth
    BY <2>1 DEF LeavingBoth, Leaving
  <2>4. StartInv' /\ FieldsInv'
    BY <2>1 DEF PlayInv, StartInv, FieldsInv, Replayer
  <2>5. RowsInv' /\ EndInv'
    BY <2>1, <2>2, <2>3 DEF PlayInv, RowsInv, EndInv, Alike
  <2>. QED
    BY <2>4, <2>5 DEF PlayInv
<1>. QED
  BY <1>1, <1>2, <1>3, <1>4, <1>5 DEF Next

(* A restarted song, of any module and from any place, plays the rows it   *)
(* would had it just been loaded, tick by tick, unless a restart has left  *)
(* something of what LeavesRows lists behind, and ends when it would,      *)
(* unless one has left something of what LeavesEnd lists, either.  (As far *)
(* as the subsong has a pattern to start at and, for the end, rows that    *)
(* last a buffer.)                                                         *)
THEOREM RestartsReplay == Spec => []RestartReplays
<1>1. IInv /\ WalkInv /\ PlayInv => RestartReplays
  <2>. SUFFICES ASSUME IInv, WalkInv, PlayInv, phase = "playing", Starts,
                       ~stale.rows
                PROVE  PlaysAlike /\ (RowsLast /\ ~stale.end
                                        => now.end = twin.end)
    BY DEF RestartReplays
  <2>1. RowsLast /\ ~stale.end => now.end = twin.end
    BY DEF PlayInv, EndInv
  <2>2. PlaysAlike
    <3>. SUFFICES ASSUME NEW n \in Mixed, NEW i \in 0 .. n - 1
                  PROVE  Plays(Ticks(now.r, i)) = Plays(Ticks(twin.r, i))
      BY DEF PlaysAlike
    <3>1. /\ song.ticks \subseteq 0 .. 3 /\ song.speed # 0
          /\ player \in Players
      BY SongsAssumption DEF WalkInv
    <3>2. n \in 0 .. 3 /\ i \in 0 .. 3
      <4>1. n \in 0 .. 3
        BY <3>1 DEF Mixed
      <4>. QED
        BY <4>1
    <3>3. Replayer(now.r)
      BY DEF PlayInv, FieldsInv
    <3>4. CASE player # "st3play"
      <4>1. Alike(now.r, twin.r)
        BY <3>4 DEF PlayInv, RowsInv
      <4>2. /\ Replayer(Ticks(now.r, i))
            /\ Alike(Ticks(now.r, i), Ticks(twin.r, i))
        BY <3>1, <3>2, <3>3, <3>4, <4>1, TicksAlike
      <4>. QED
        BY <3>1, <3>4, <4>2, AlikePlays
    <3>5. CASE player = "st3play" /\ now.r = twin.r
      BY <3>5
    <3>6. CASE player = "st3play" /\ LeavingBoth
      <4>1. /\ now.r.tick = song.speed /\ twin.r.tick = song.speed
            /\ Leaving(now.r, subsongs[subsong])
            /\ Leaving(twin.r, subsongs[subsong])
        BY <3>6 DEF LeavingBoth, Leaving
      <4>2. Plays(now.r) = {} /\ Plays(twin.r) = {}
        BY <3>1, <3>6, <4>1 DEF Plays
      <4>3. i = 0 => Ticks(now.r, i) = now.r /\ Ticks(twin.r, i) = twin.r
        BY DEF Ticks
      <4>4. i # 0 => Ticks(now.r, i) = Ticks(twin.r, i)
        BY <3>2, <3>6, <4>1, LeavingTicks DEF PlayInv
      <4>. QED
        BY <4>2, <4>3, <4>4
    <3>. QED
      BY <3>4, <3>5, <3>6 DEF PlayInv, RowsInv
  <2>. QED
    BY <2>1, <2>2
<1>2. Spec => []IInv
  BY InitIsCorrect, StepIsCorrect, PTL DEF Spec
<1>3. Spec => []WalkInv
  BY <1>2, InitWalkInv, WalkStepInv, PTL DEF Spec
<1>. QED
  BY <1>1, <1>2, <1>3, InitPlayInv, PlayInvStep, PTL DEF Spec
==============================================================================
