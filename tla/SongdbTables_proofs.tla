------------------------- MODULE SongdbTables_proofs --------------------------
(***************************************************************************)
(* The searches find a key if, and only if, it is in the table, and the    *)
(* hashes, the songs, the modinfos and the metadata that are looked up are *)
(* those of the files.  What a number, an index or the end of a file is,   *)
(* is defined recursively; AllUpTo and Recursion are what is needed of     *)
(* induction for functions on the numbers up to one.                       *)
(***************************************************************************)
EXTENDS SongdbTables, WellFoundedInduction, TLAPS

(* A set of numbers that is not empty has a least element.                 *)
LEMMA LeastElement ==
  ASSUME NEW S \in SUBSET Nat, S # {}
  PROVE  \E x \in S : \A y \in S : x <= y
<1>1. PICK x \in S : \A y \in S : ~ (<<y, x>> \in OpToRel(<, Nat))
  BY WFMin, NatLessThanWellFounded
<1>2. \A y \in S : x <= y
  <2>1. SUFFICES ASSUME NEW y \in S PROVE x <= y
    OBVIOUS
  <2>2. <<y, x>> \in OpToRel(<, Nat) <=> y < x
    BY DEF OpToRel
  <2>3. ~ (y < x)
    BY <1>1, <2>2, Zenon
  <2>. QED
    BY <2>3
<1>. QED
  BY <1>2

(* Induction over the places of a sequence: the numbers up to N are all in *)
(* a set that has zero and, with a number, the next.                       *)
LEMMA AllUpTo ==
  ASSUME NEW N \in Nat, NEW G, 0 \in G,
         \A n \in 1 .. N : n - 1 \in G => n \in G
  PROVE  \A n \in 0 .. N : n \in G
<1>. DEFINE S == {n \in 0 .. N : n \notin G}
<1>1. SUFFICES ASSUME S # {} PROVE FALSE
  OBVIOUS
<1>2. PICK x \in S : \A y \in S : x <= y
  <2>1. S \in SUBSET Nat
    OBVIOUS
  <2>. QED
    BY <1>1, <2>1, LeastElement
<1>3. x \in 1 .. N /\ x - 1 \in 0 .. N /\ ~(x <= x - 1)
  BY <1>2
<1>4. x - 1 \in G
  BY <1>2, <1>3
<1>. QED
  BY <1>2, <1>3, <1>4

(* A value for each number up to N that starts with zero and is made, step *)
(* by step, of the one before.                                             *)
MadeOf(f, N, S, zero, step) ==
  /\ f \in [0 .. N -> S] /\ f[0] = zero
  /\ \A k \in 1 .. N : f[k] = step[k][f[k - 1]]

LEMMA Recursion ==
  ASSUME NEW N \in Nat, NEW S, NEW zero \in S,
         NEW step \in [1 .. N -> [S -> S]]
  PROVE  \E f : MadeOf(f, N, S, zero, step)
<1>. DEFINE Made(n, f) == MadeOf(f, n, S, zero, step)
            G == {n \in 0 .. N : \E f : Made(n, f)}
<1>1. 0 \in G
  <2>1. Made(0, [k \in 0 .. 0 |-> zero])
    BY DEF MadeOf
  <2>. HIDE DEF Made
  <2>2. 0 \in 0 .. N
    OBVIOUS
  <2>. QED
    BY <2>1, <2>2, Zenon
<1>2. ASSUME NEW n \in 1 .. N, n - 1 \in G PROVE n \in G
  <2>1. PICK f : Made(n - 1, f)
    BY <1>2
  <2>. DEFINE g == [k \in 0 .. n |-> IF k < n THEN f[k]
                                     ELSE step[n][f[n - 1]]]
  <2>2. f[n - 1] \in S /\ step[n] \in [S -> S]
    BY <2>1 DEF MadeOf
  <2>3. \A k \in 0 .. n - 1 : g[k] = f[k] /\ f[k] \in S
    BY <2>1 DEF MadeOf
  <2>4. g[n] = step[n][f[n - 1]] /\ g[n] \in S
    BY <2>2
  <2>5. g \in [0 .. n -> S]
    <3>1. \A k \in 0 .. n : g[k] \in S
      <4>1. \A k \in 0 .. n : k \in 0 .. n - 1 \/ k = n
        OBVIOUS
      <4>. HIDE DEF g
      <4>. QED
        BY <2>3, <2>4, <4>1
    <3>. QED
      BY <3>1
  <2>. HIDE DEF g
  <2>6. ASSUME NEW k \in 1 .. n PROVE g[k] = step[k][g[k - 1]]
    <3>1. k - 1 \in 0 .. n - 1 /\ g[k - 1] = f[k - 1]
      BY <2>3
    <3>2. CASE k = n
      BY <2>4, <3>1, <3>2
    <3>3. CASE k # n
      <4>1. k \in 1 .. n - 1
        BY <3>3
      <4>. QED
        BY <2>1, <2>3, <3>1, <4>1 DEF MadeOf
    <3>. QED
      BY <3>2, <3>3
  <2>7. g[0] = zero
    BY <2>1, <2>3 DEF MadeOf
  <2>8. Made(n, g)
    BY <2>5, <2>6, <2>7 DEF MadeOf
  <2>. QED
    BY <2>8
<1>. HIDE DEF G
<1>3. \A n \in 0 .. N : n \in G
  BY <1>1, <1>2, AllUpTo
<1>. QED
  BY <1>3 DEF G

(* What a number is, digit by digit.                                       *)
LEMMA NumberIs ==
  ASSUME NEW ds, Len(ds) \in Nat, \A i \in 1 .. Len(ds) : ds[i] \in Nat
  PROVE  \E n \in [0 .. Len(ds) -> Nat] :
           /\ Number(ds) = n[Len(ds)]
           /\ n[0] = 0
           /\ \A i \in 1 .. Len(ds) : n[i] = (n[i - 1] * Base) + ds[i]
<1>. DEFINE N == Len(ds)
            Is(n) == n = [i \in 0 .. N |->
                            IF i = 0 THEN 0 ELSE (n[i - 1] * Base) + ds[i]]
            step == [i \in 1 .. N |-> [x \in Nat |-> (x * Base) + ds[i]]]
            n == CHOOSE m : Is(m)
<1>1. Number(ds) = n[N]
  BY DEF Number
<1>2. step \in [1 .. N -> [Nat -> Nat]]
  <2>1. ASSUME NEW i \in 1 .. N
        PROVE  [x \in Nat |-> (x * Base) + ds[i]] \in [Nat -> Nat]
    BY SizesAssumption
  <2>. QED
    BY <2>1
<1>3. \E f : MadeOf(f, N, Nat, 0, step)
  <2>. HIDE DEF step, N
  <2>1. N \in Nat /\ 0 \in Nat
    BY DEF N
  <2>. QED
    BY <1>2, <2>1, Recursion
<1>4. PICK f : MadeOf(f, N, Nat, 0, step)
  BY <1>3
<1>a. \A i \in 1 .. N : \A x \in Nat : step[i][x] = (x * Base) + ds[i]
  OBVIOUS
<1>. HIDE DEF step
<1>5. \A i \in 1 .. N : f[i] = (f[i - 1] * Base) + ds[i]
  BY <1>4, <1>a DEF MadeOf
<1>6. Is(f)
  <2>1. \A i \in 0 .. N : f[i] = IF i = 0 THEN 0
                                 ELSE (f[i - 1] * Base) + ds[i]
    BY <1>4, <1>5 DEF MadeOf
  <2>2. f = [i \in 0 .. N |-> f[i]]
    BY <1>4 DEF MadeOf
  <2>. QED
    BY <2>1, <2>2
<1>7. Is(n)
  BY <1>6
<1>. HIDE DEF n
<1>8. n[0] = 0 /\ \A i \in 1 .. N : n[i] = (n[i - 1] * Base) + ds[i]
  BY <1>7
<1>9. n \in [0 .. N -> Nat]
  <2>. DEFINE G == {i \in 0 .. N : n[i] \in Nat}
  <2>1. 0 \in G
    BY <1>8
  <2>3. ASSUME NEW i \in 1 .. N, i - 1 \in G PROVE i \in G
    <3>. DEFINE x == n[i - 1]
    <3>1. x \in Nat /\ n[i] = (x * Base) + ds[i]
      BY <1>8, <2>3
    <3>. HIDE DEF x
    <3>2. n[i] \in Nat
      BY <3>1, SizesAssumption
    <3>. QED
      BY <3>2
  <2>2. \A i \in 0 .. N : i \in G
    <3>. HIDE DEF G
    <3>. QED
      BY <2>1, <2>3, AllUpTo
  <2>4. n = [i \in 0 .. N |-> n[i]]
    BY <1>7
  <2>. QED
    BY <2>2, <2>4
<1>. QED
  BY <1>1, <1>8, <1>9

(* A hash's difference is the number its digits are, in one part or in two.*)
LEMMA DiffIsNumber ==
  \A ds : IsNumber(ds) => Diff(ds) = Number(ds) /\ Number(ds) \in Nat
<1>. SUFFICES ASSUME NEW ds, IsNumber(ds)
              PROVE  Diff(ds) = Number(ds) /\ Number(ds) \in Nat
  OBVIOUS
<1>0. Base \in Nat
  BY SizesAssumption
<1>1. Len(ds) \in 1 .. 6 /\ \A i \in 1 .. Len(ds) : ds[i] \in Nat
  BY <1>0 DEF IsNumber
<1>2. PICK n \in [0 .. Len(ds) -> Nat] :
        /\ Number(ds) = n[Len(ds)]
        /\ n[0] = 0
        /\ \A i \in 1 .. Len(ds) : n[i] = (n[i - 1] * Base) + ds[i]
  BY <1>1, NumberIs
<1>3. CASE Len(ds) <= 5
  BY <1>1, <1>2, <1>3 DEF Diff
<1>4. CASE Len(ds) = 6
  <2>. DEFINE high == SubSeq(ds, 1, 3)
              low  == SubSeq(ds, 4, 6)
  <2>1. /\ Len(high) = 3 /\ Len(low) = 3
        /\ high[1] = ds[1] /\ high[2] = ds[2] /\ high[3] = ds[3]
        /\ low[1] = ds[4] /\ low[2] = ds[5] /\ low[3] = ds[6]
    BY <1>4 DEF IsNumber
  <2>2. /\ ds[1] \in Nat /\ ds[2] \in Nat /\ ds[3] \in Nat
        /\ ds[4] \in Nat /\ ds[5] \in Nat /\ ds[6] \in Nat
    BY <1>1, <1>4
  <2>3. Diff(ds) = (Number(high) * Base * Base * Base) + Number(low)
    BY <1>4 DEF Diff
  <2>. HIDE DEF high, low
  <2>4. Number(high) = n[3]
    <3>1. PICK m \in [0 .. 3 -> Nat] :
            /\ Number(high) = m[3]
            /\ m[0] = 0
            /\ \A i \in 1 .. 3 : m[i] = (m[i - 1] * Base) + high[i]
      <4>1. \A i \in 1 .. 3 : high[i] \in Nat
        BY <2>1, <2>2
      <4>. QED
        BY <2>1, <4>1, NumberIs
    <3>2. m[1] = n[1]
      BY <1>2, <1>4, <2>1, <3>1
    <3>3. m[2] = n[2]
      BY <1>2, <1>4, <2>1, <3>1, <3>2
    <3>4. m[3] = n[3]
      BY <1>2, <1>4, <2>1, <3>1, <3>3
    <3>. QED
      BY <3>1, <3>4
  <2>5. Number(low) = (((ds[4] * Base) + ds[5]) * Base) + ds[6]
    <3>1. PICK m \in [0 .. 3 -> Nat] :
            /\ Number(low) = m[3]
            /\ m[0] = 0
            /\ \A i \in 1 .. 3 : m[i] = (m[i - 1] * Base) + low[i]
      <4>1. \A i \in 1 .. 3 : low[i] \in Nat
        BY <2>1, <2>2
      <4>. QED
        BY <2>1, <4>1, NumberIs
    <3>2. m[1] = ds[4]
      <4>1. m[1] = (m[0] * Base) + low[1]
        BY <3>1
      <4>2. 0 * Base = 0
        BY <1>0
      <4>. QED
        BY <2>1, <2>2, <3>1, <4>1, <4>2
    <3>3. m[2] = (ds[4] * Base) + ds[5]
      BY <2>1, <3>1, <3>2
    <3>4. m[3] = (((ds[4] * Base) + ds[5]) * Base) + ds[6]
      BY <2>1, <3>1, <3>3
    <3>. QED
      BY <3>1, <3>4
  <2>6. /\ n[4] = (n[3] * Base) + ds[4] /\ n[5] = (n[4] * Base) + ds[5]
        /\ n[6] = (n[5] * Base) + ds[6] /\ n[3] \in Nat
    BY <1>2, <1>4
  <2>. DEFINE a == n[3]
              b == ds[4]
              c == ds[5]
              d == ds[6]
  <2>7. (a * Base * Base * Base) + ((((b * Base) + c) * Base) + d)
          = (((((a * Base) + b) * Base) + c) * Base) + d
    <3>1. a \in Nat /\ b \in Nat /\ c \in Nat /\ d \in Nat
      BY <2>2, <2>6
    <3>. HIDE DEF a, b, c, d
    <3>. QED
      BY <1>0, <3>1
  <2>8. Diff(ds) = n[6]
    BY <2>3, <2>4, <2>5, <2>6, <2>7
  <2>. QED
    BY <1>2, <1>4, <2>8
<1>. QED
  BY <1>1, <1>3, <1>4

(* The hash of a row is so much more than that of the row before.          *)
LEMMA HashOfIs ==
  ASSUME NEW rows, Len(rows) \in Nat,
         \A k \in 2 .. Len(rows) : Number(rows[k]) \in Nat
  PROVE  LET h == HashOf(rows) IN
         /\ \A k \in 0 .. Len(rows) : k <= 1 => h[k] = 0
         /\ \A k \in 2 .. Len(rows) : h[k] = h[k - 1] + Number(rows[k])
<1>. DEFINE N == Len(rows)
            Is(h) == h = [k \in 0 .. N |->
                            IF k <= 1 THEN 0 ELSE h[k - 1] + Number(rows[k])]
            step == [k \in 1 .. N |-> [x \in Nat |->
                       IF k = 1 THEN 0 ELSE x + Number(rows[k])]]
            h == CHOOSE g : Is(g)
<1>1. HashOf(rows) = h
  BY DEF HashOf
<1>2. step \in [1 .. N -> [Nat -> Nat]]
  <2>1. ASSUME NEW k \in 1 .. N
        PROVE  [x \in Nat |-> IF k = 1 THEN 0 ELSE x + Number(rows[k])]
                 \in [Nat -> Nat]
    OBVIOUS
  <2>. QED
    BY <2>1
<1>3. \A k \in 1 .. N : \A x \in Nat :
        step[k][x] = IF k = 1 THEN 0 ELSE x + Number(rows[k])
  OBVIOUS
<1>. HIDE DEF step
<1>4. PICK f : MadeOf(f, N, Nat, 0, step)
  <2>. HIDE DEF N
  <2>1. N \in Nat /\ 0 \in Nat
    BY DEF N
  <2>. QED
    BY <1>2, <2>1, Recursion
<1>5. ASSUME NEW k \in 1 .. N
      PROVE  f[k] = IF k <= 1 THEN 0 ELSE f[k - 1] + Number(rows[k])
  <2>1. f[k - 1] \in Nat /\ f[k] = step[k][f[k - 1]]
    <3>1. k - 1 \in 0 .. N
      OBVIOUS
    <3>. HIDE DEF N
    <3>. QED
      BY <1>4, <3>1 DEF MadeOf
  <2>2. k = 1 <=> k <= 1
    OBVIOUS
  <2>. QED
    BY <1>3, <2>1, <2>2
<1>6. Is(f)
  <2>1. \A k \in 0 .. N : f[k] = IF k <= 1 THEN 0
                                 ELSE f[k - 1] + Number(rows[k])
    BY <1>4, <1>5 DEF MadeOf
  <2>2. f = [k \in 0 .. N |-> f[k]]
    BY <1>4 DEF MadeOf
  <2>. QED
    BY <2>1, <2>2
<1>7. Is(h)
  BY <1>6
<1>. HIDE DEF h
<1>8. /\ \A k \in 0 .. N : k <= 1 => h[k] = 0
      /\ \A k \in 2 .. N : h[k] = h[k - 1] + Number(rows[k])
  BY <1>7
<1>. QED
  BY <1>1, <1>8

(* The index of a row is its number, or so much more than that of the row  *)
(* before.                                                                 *)
LEMMA IndexOfIs ==
  ASSUME NEW rows, Len(rows) \in Nat, AreNumbered(rows)
  PROVE  LET i == IndexOf(rows) IN
         /\ i \in [0 .. Len(rows) -> Nat] /\ i[0] = 0
         /\ \A k \in 1 .. Len(rows) :
              i[k] = IF rows[k].full THEN Number(rows[k].num)
                     ELSE i[k - 1] + Number(rows[k].num)
<1>. DEFINE N == Len(rows)
            Is(i) == i = [k \in 0 .. N |->
                            IF k = 0 THEN 0
                            ELSE IF rows[k].full THEN Number(rows[k].num)
                            ELSE i[k - 1] + Number(rows[k].num)]
            step == [k \in 1 .. N |-> [x \in Nat |->
                       IF rows[k].full THEN Number(rows[k].num)
                       ELSE x + Number(rows[k].num)]]
            i == CHOOSE g : Is(g)
<1>0. \A k \in 1 .. N : Number(rows[k].num) \in Nat
  BY DiffIsNumber DEF AreNumbered
<1>1. IndexOf(rows) = i
  BY DEF IndexOf
<1>2. step \in [1 .. N -> [Nat -> Nat]]
  <2>1. ASSUME NEW k \in 1 .. N
        PROVE  [x \in Nat |-> IF rows[k].full THEN Number(rows[k].num)
                              ELSE x + Number(rows[k].num)] \in [Nat -> Nat]
    BY <1>0
  <2>. QED
    BY <2>1
<1>3. \A k \in 1 .. N : \A x \in Nat :
        step[k][x] = IF rows[k].full THEN Number(rows[k].num)
                     ELSE x + Number(rows[k].num)
  OBVIOUS
<1>. HIDE DEF step
<1>4. PICK f : MadeOf(f, N, Nat, 0, step)
  <2>. HIDE DEF N
  <2>1. N \in Nat /\ 0 \in Nat
    BY DEF N
  <2>. QED
    BY <1>2, <2>1, Recursion
<1>5. ASSUME NEW k \in 1 .. N
      PROVE  f[k] = IF rows[k].full THEN Number(rows[k].num)
                    ELSE f[k - 1] + Number(rows[k].num)
  <2>1. f[k - 1] \in Nat /\ f[k] = step[k][f[k - 1]]
    BY <1>4 DEF MadeOf
  <2>. QED
    BY <1>3, <2>1
<1>6. Is(f)
  <2>1. \A k \in 0 .. N : f[k] = IF k = 0 THEN 0
                                 ELSE IF rows[k].full THEN Number(rows[k].num)
                                 ELSE f[k - 1] + Number(rows[k].num)
    BY <1>4, <1>5 DEF MadeOf
  <2>2. f = [k \in 0 .. N |-> f[k]]
    BY <1>4 DEF MadeOf
  <2>. QED
    BY <2>1, <2>2
<1>7. Is(i)
  BY <1>6
<1>. HIDE DEF i
<1>8. /\ i[0] = 0
      /\ \A k \in 1 .. N : i[k] = IF rows[k].full THEN Number(rows[k].num)
                                  ELSE i[k - 1] + Number(rows[k].num)
  BY <1>7
<1>9. i \in [0 .. N -> Nat]
  <2>. DEFINE G == {k \in 0 .. N : i[k] \in Nat}
  <2>1. 0 \in G
    BY <1>8
  <2>2. \A k \in 1 .. N : k - 1 \in G => k \in G
    BY <1>0, <1>8
  <2>3. \A k \in 0 .. N : k \in G
    <3>. HIDE DEF G
    <3>. QED
      BY <2>1, <2>2, AllUpTo
  <2>4. i = [k \in 0 .. N |-> i[k]]
    BY <1>7
  <2>. QED
    BY <2>3, <2>4
<1>. QED
  BY <1>1, <1>8, <1>9

(* The entries that are used, when an entry has the index it is at, or is  *)
(* not used: all of them, in the order of the indices.                     *)
LEMMA UsedAre ==
  ASSUME NEW E, NEW entries \in [Indices -> E],
         \A i \in Indices : entries[i].hash \in {0, i}
  PROVE  LET used == Used(entries) IN
         /\ used \in Seq(E)
         /\ \A p \in 1 .. Len(used) :
              /\ used[p].hash \in Indices \ {0}
              /\ used[p] = entries[used[p].hash]
         /\ \A p, q \in 1 .. Len(used) : p < q => used[p].hash < used[q].hash
         /\ \A i \in Indices \ {0} : entries[i].hash = i =>
              \E p \in 1 .. Len(used) : used[p] = entries[i]
<1>. DEFINE Is(db) == db = [j \in 0 .. Size |->
               IF j = 0 THEN <<>>
               ELSE IF entries[j - 1].hash > 0
                    THEN Append(db[j - 1], entries[j - 1])
                    ELSE db[j - 1]]
            step == [j \in 1 .. Size |-> [x \in Seq(E) |->
                       IF entries[j - 1].hash > 0
                       THEN Append(x, entries[j - 1]) ELSE x]]
            db == CHOOSE g : Is(g)
<1>0. /\ Size \in Nat
      /\ \A j \in 1 .. Size : j - 1 \in Indices /\ entries[j - 1] \in E
  BY SizesAssumption DEF Indices
<1>1. Used(entries) = db[Size]
  BY DEF Used
<1>2. step \in [1 .. Size -> [Seq(E) -> Seq(E)]]
  <2>1. ASSUME NEW j \in 1 .. Size
        PROVE  [x \in Seq(E) |-> IF entries[j - 1].hash > 0
                                 THEN Append(x, entries[j - 1]) ELSE x]
                 \in [Seq(E) -> Seq(E)]
    BY <1>0
  <2>. QED
    BY <2>1
<1>3. \A j \in 1 .. Size : \A x \in Seq(E) :
        step[j][x] = IF entries[j - 1].hash > 0
                     THEN Append(x, entries[j - 1]) ELSE x
  OBVIOUS
<1>. HIDE DEF step
<1>4. PICK f : MadeOf(f, Size, Seq(E), <<>>, step)
  <2>1. <<>> \in Seq(E)
    OBVIOUS
  <2>. QED
    BY <1>0, <1>2, <2>1, Recursion
<1>5. ASSUME NEW j \in 1 .. Size
      PROVE  f[j] = IF entries[j - 1].hash > 0
                    THEN Append(f[j - 1], entries[j - 1]) ELSE f[j - 1]
  <2>1. f[j - 1] \in Seq(E) /\ f[j] = step[j][f[j - 1]]
    BY <1>0, <1>4 DEF MadeOf
  <2>. QED
    BY <1>3, <2>1
<1>6. Is(f)
  <2>1. \A j \in 0 .. Size :
          f[j] = IF j = 0 THEN <<>>
                 ELSE IF entries[j - 1].hash > 0
                      THEN Append(f[j - 1], entries[j - 1])
                      ELSE f[j - 1]
    <3>1. \A j \in 0 .. Size : j = 0 \/ j \in 1 .. Size
      BY <1>0
    <3>2. f[0] = <<>>
      BY <1>4 DEF MadeOf
    <3>3. \A j \in 1 .. Size : j # 0
      BY <1>0
    <3>. QED
      BY <1>5, <3>1, <3>2, <3>3
  <2>2. f = [j \in 0 .. Size |-> f[j]]
    BY <1>4 DEF MadeOf
  <2>. QED
    BY <2>1, <2>2
<1>7. Is(db)
  BY <1>6
<1>. HIDE DEF db
<1>8. /\ db[0] = <<>>
      /\ \A j \in 1 .. Size :
           db[j] = IF entries[j - 1].hash > 0
                   THEN Append(db[j - 1], entries[j - 1]) ELSE db[j - 1]
  <2>1. \A j \in 0 .. Size :
          db[j] = IF j = 0 THEN <<>>
                  ELSE IF entries[j - 1].hash > 0
                       THEN Append(db[j - 1], entries[j - 1])
                       ELSE db[j - 1]
    BY <1>7
  <2>. QED
    BY <1>0, <2>1
<1>. DEFINE Good(j, used) ==
              /\ used \in Seq(E)
              /\ \A p \in 1 .. Len(used) :
                   /\ used[p].hash \in Indices \ {0} /\ used[p].hash < j
                   /\ used[p] = entries[used[p].hash]
              /\ \A p, q \in 1 .. Len(used) :
                   p < q => used[p].hash < used[q].hash
              /\ \A i \in Indices \ {0} : i < j /\ entries[i].hash = i =>
                   \E p \in 1 .. Len(used) : used[p] = entries[i]
            G == {j \in 0 .. Size : Good(j, db[j])}
<1>9. 0 \in G
  <2>1. Len(<<>>) = 0 /\ <<>> \in Seq(E)
    OBVIOUS
  <2>2. Good(0, db[0])
    BY <1>8, <2>1 DEF Indices
  <2>. QED
    BY <1>0, <2>2
<1>10. ASSUME NEW j \in 1 .. Size, j - 1 \in G PROVE j \in G
  <2>. DEFINE old == db[j - 1]
              e   == entries[j - 1]
              new == db[j]
  <2>1. Good(j - 1, old)
    BY <1>10
  <2>2. /\ e.hash \in {0, j - 1} /\ e \in E /\ j - 1 \in Indices
        /\ j - 1 \in Nat
    BY <1>0
  <2>3. new = IF e.hash > 0 THEN Append(old, e) ELSE old
    BY <1>8
  <2>4. e = entries[j - 1]
    OBVIOUS
  <2>. HIDE DEF old, e, new
  <2>5. CASE e.hash > 0
    <3>1. e.hash = j - 1 /\ j - 1 \in Indices \ {0} /\ e.hash < j
      BY <2>2, <2>5
    <3>2. /\ new \in Seq(E) /\ Len(new) = Len(old) + 1 /\ Len(old) \in Nat
          /\ new[Len(old) + 1] = e
          /\ \A p \in 1 .. Len(old) : new[p] = old[p]
      BY <2>1, <2>2, <2>3, <2>5
    <3>3. \A p \in 1 .. Len(new) : p \in 1 .. Len(old) \/ p = Len(old) + 1
      BY <3>2
    <3>4. ASSUME NEW p \in 1 .. Len(new)
          PROVE  /\ new[p].hash \in Indices \ {0} /\ new[p].hash < j
                 /\ new[p] = entries[new[p].hash]
      <4>1. CASE p \in 1 .. Len(old)
        <5>1. /\ old[p].hash \in Indices \ {0} /\ old[p].hash < j - 1
              /\ old[p] = entries[old[p].hash]
          BY <2>1, <4>1
        <5>2. old[p].hash < j
          BY <5>1 DEF Indices
        <5>. QED
          BY <3>2, <4>1, <5>1, <5>2
      <4>2. CASE p = Len(old) + 1
        BY <2>4, <3>1, <3>2, <4>2
      <4>. QED
        BY <3>3, <4>1, <4>2
    <3>5. ASSUME NEW p \in 1 .. Len(new), NEW q \in 1 .. Len(new), p < q
          PROVE  new[p].hash < new[q].hash
      <4>1. p \in 1 .. Len(old) /\ new[p] = old[p]
        BY <3>2, <3>5
      <4>2. CASE q \in 1 .. Len(old)
        BY <2>1, <3>2, <3>5, <4>1, <4>2
      <4>3. CASE q = Len(old) + 1
        BY <2>1, <3>1, <3>2, <4>1, <4>3
      <4>. QED
        BY <3>3, <4>2, <4>3
    <3>6. ASSUME NEW i \in Indices \ {0}, i < j, entries[i].hash = i
          PROVE  \E p \in 1 .. Len(new) : new[p] = entries[i]
      <4>1. CASE i = j - 1
        <5>1. Len(old) + 1 \in 1 .. Len(new)
          BY <3>2
        <5>. QED
          BY <2>4, <3>2, <4>1, <5>1
      <4>2. CASE i # j - 1
        <5>1. i < j - 1
          BY <3>6, <4>2 DEF Indices
        <5>2. PICK p \in 1 .. Len(old) : old[p] = entries[i]
          BY <2>1, <3>6, <5>1
        <5>3. p \in 1 .. Len(new) /\ new[p] = old[p]
          BY <3>2
        <5>. QED
          BY <5>2, <5>3
      <4>. QED
        BY <4>1, <4>2
    <3>7. Good(j, new)
      BY <3>2, <3>4, <3>5, <3>6
    <3>. QED
      BY <3>7 DEF new
  <2>6. CASE ~(e.hash > 0)
    <3>1. e.hash = 0 /\ new = old
      BY <2>2, <2>3, <2>6
    <3>2. ASSUME NEW i \in Indices \ {0}, i < j, entries[i].hash = i
          PROVE  i < j - 1
      <4>1. i # j - 1
        BY <2>4, <3>1, <3>2
      <4>. QED
        BY <3>2, <4>1 DEF Indices
    <3>3. \A p \in 1 .. Len(old) : old[p].hash < j
      BY <2>1 DEF Indices
    <3>4. Good(j, new)
      BY <2>1, <3>1, <3>2, <3>3
    <3>. QED
      BY <3>4 DEF new
  <2>. QED
    BY <2>5, <2>6
<1>11. \A j \in 0 .. Size : j \in G
  <2>. HIDE DEF G
  <2>. QED
    BY <1>0, <1>9, <1>10, AllUpTo
<1>12. Good(Size, db[Size])
  BY <1>0, <1>11
<1>13. \A i \in Indices \ {0} : i < Size
  BY <1>0 DEF Indices
<1>. QED
  BY <1>1, <1>12, <1>13

(* The guess is a place in the table: assert(idx < HASH_IDX_SIZE) holds    *)
(* for every hash but the largest.                                         *)
THEOREM GuessIsAPlace ==
  ASSUME NEW size \in Nat \ {0}, NEW range \in Nat \ {0},
         NEW wanted \in 0 .. range - 1
  PROVE  Guess(wanted, size, range) \in 0 .. size - 1
<1>. DEFINE a == wanted * size
            b == range * size
            q == a \div range
<1>1. a \in Nat /\ b \in Nat
  OBVIOUS
<1>2. a < b
  OBVIOUS
<1>3. q \in Nat
  BY <1>1
<1>4. range * q <= a
  BY <1>1
<1>5. CASE q >= size
  <2>1. range * q >= range * size
    BY <1>3, <1>5
  <2>. QED
    BY <1>1, <1>2, <1>3, <1>4, <2>1
<1>. QED
  BY <1>3, <1>5 DEF Guess

(* The way down stops at a place in the table.                             *)
LEMMA DownStops ==
  ASSUME NEW top \in Nat, NEW key \in [0 .. top -> Nat],
         NEW from \in 0 .. top, NEW wanted \in Nat
  PROVE  LET i == StopsDown(key, from, wanted)
         IN  /\ i \in 0 .. from
             /\ \A j \in i + 1 .. from : key[j] > wanted
             /\ i = 0 \/ key[i] <= wanted
<1>. DEFINE S == {i \in 0 .. from : \A j \in i + 1 .. from : key[j] > wanted}
<1>1. from \in S /\ S \in SUBSET Nat
  OBVIOUS
<1>2. PICK i \in S : \A y \in S : i <= y
  BY <1>1, LeastElement
<1>3. i = 0 \/ key[i] <= wanted
  <2>1. SUFFICES ASSUME i > 0, key[i] > wanted PROVE FALSE
    BY <1>1, <1>2
  <2>2. i - 1 \in 0 .. from
    BY <1>2, <2>1
  <2>3. \A j \in (i - 1) + 1 .. from : key[j] > wanted
    BY <1>2, <2>1
  <2>4. i - 1 \in S /\ i \in Int
    BY <1>2, <2>2, <2>3
  <2>5. i <= i - 1
    BY <1>2, <2>4
  <2>. QED
    BY <2>4, <2>5
<1>. QED
  BY <1>2, <1>3 DEF StopsDown

(* So does the way up.                                                     *)
LEMMA UpStops ==
  ASSUME NEW top \in Nat, NEW key \in [0 .. top -> Nat],
         NEW from \in 0 .. top, NEW wanted \in Nat
  PROVE  LET i == StopsUp(key, from, top, wanted)
         IN  /\ i \in from .. top
             /\ \A j \in from .. i - 1 : key[j] < wanted
             /\ i = top \/ key[i] >= wanted
<1>. DEFINE S == {i \in from .. top : i = top \/ key[i] >= wanted}
<1>1. top \in S /\ S \in SUBSET Nat
  OBVIOUS
<1>2. PICK i \in S : \A y \in S : i <= y
  BY <1>1, LeastElement
<1>3. \A j \in from .. i - 1 : key[j] < wanted
  <2>1. SUFFICES ASSUME NEW j \in from .. i - 1, ~ (key[j] < wanted)
                 PROVE  FALSE
    OBVIOUS
  <2>2. j \in from .. top /\ j < i
    BY <1>2
  <2>3. j \in S
    BY <2>1, <2>2
  <2>. QED
    BY <1>2, <2>2, <2>3
<1>. QED
  BY <1>2, <1>3 DEF StopsUp

(* From any guess, in a table of any size in ascending order, Walk returns *)
(* the place of the key if the table has it and NotFound if it has not:    *)
(* what _hashidx and _find are for.                                        *)
THEOREM SearchIsCorrect ==
  ASSUME NEW top \in Nat, NEW key \in [0 .. top -> Nat],
         \A i, j \in 0 .. top : i < j => key[i] < key[j],
         NEW from \in 0 .. top, NEW wanted \in Nat
  PROVE  /\ \A k \in 0 .. top :
              key[k] = wanted => Walk(key, from, top, wanted) = k
         /\ (\A k \in 0 .. top : key[k] # wanted)
              => Walk(key, from, top, wanted) = NotFound
<1>. DEFINE down == StopsDown(key, from, wanted)
            up   == StopsUp(key, from, top, wanted)
            stop == IF key[from] > wanted THEN down ELSE up
<1>1. Walk(key, from, top, wanted)
        = IF key[stop] = wanted THEN stop ELSE NotFound
  BY DEF Walk
<1>2. /\ down \in 0 .. from
      /\ \A j \in down + 1 .. from : key[j] > wanted
      /\ down = 0 \/ key[down] <= wanted
  BY DownStops
<1>3. /\ up \in from .. top
      /\ \A j \in from .. up - 1 : key[j] < wanted
      /\ up = top \/ key[up] >= wanted
  BY UpStops
<1>. HIDE DEF down, up
<1>4. stop \in 0 .. top
  BY <1>2, <1>3
<1>5. ASSUME NEW k \in 0 .. top, key[k] = wanted
      PROVE  stop = k
  <2>1. CASE key[from] > wanted
    <3>1. k < from
      BY <1>5, <2>1
    <3>2. k <= down
      BY <1>2, <1>5, <3>1
    <3>3. down <= k
      BY <1>2, <1>5, <3>1
    <3>. QED
      BY <1>2, <2>1, <3>2, <3>3
  <2>2. CASE ~ (key[from] > wanted)
    <3>1. from <= k
      BY <1>5, <2>2
    <3>2. up <= k
      BY <1>3, <1>5, <3>1
    <3>3. k <= up
      BY <1>3, <1>5, <3>1
    <3>. QED
      BY <1>3, <2>2, <3>2, <3>3
  <2>. QED
    BY <2>1, <2>2
<1>. HIDE DEF stop
<1>6. ASSUME NEW k \in 0 .. top, key[k] = wanted
      PROVE  Walk(key, from, top, wanted) = k
  BY <1>1, <1>5, <1>6
<1>7. ASSUME \A k \in 0 .. top : key[k] # wanted
      PROVE  Walk(key, from, top, wanted) = NotFound
  BY <1>1, <1>4, <1>7
<1>. QED
  BY <1>6, <1>7
------------------------------------------------------------------------------
(* What init has read, and what it has still to read.                      *)

DbFiles == Sources \cup {"hash"}

TodoInv ==
  /\ dir \in Installs
  /\ todo \subseteq DbFiles /\ todo \cap initialized = {}
  /\ line \in Nat \ {0} /\ (todo = {} => line = 1)

(* So far the hashes ascend, each by its difference to the one before.     *)
Ascend(n) ==
  \A k \in 1 .. Size - 1 :
    k < n => /\ hash_idx[k] > hash_idx[k - 1]
             /\ hash_idx[k] = hash_idx[k - 1] + Diff(dir.hash[k + 1])

HashInv ==
  /\ hash_idx \in [Indices -> Nat] /\ hash_idx[0] = 0
  /\ Reading("hash") => Ascend(line - 1)
  /\ Reading("hash") /\ dir.hash # None => line <= Len(dir.hash) + 1
  /\ Loaded("hash") => Ascend(Size) /\ Size <= Len(dir.hash)

(* A song's subsongs are numbered by bytes.                                *)
Table(i) ==
  LET more == db_subsongs[i] IN
  /\ db_songinfos[i].min \in Nat
  /\ Len(more) \in Nat
  /\ db_songinfos[i].has <=> Len(more) > 0
  /\ db_songinfos[i].min + Len(more) <= 255

(* A row of songlengths is in the tables.                                  *)
Filled(i) ==
  LET es    == dir.songlengths[i].entries
      infos == Entries(es)
  IN
  /\ i \in 1 .. Len(dir.songlengths)
  /\ \A k \in 1 .. Len(es) :
       es[k].kind = "given" => Number(es[k].len) <= LengthSize
  /\ db_songinfos[i].info = infos[1]
  /\ Len(db_subsongs[i]) = Len(infos) - 1
  /\ \A k \in 1 .. Len(infos) - 1 : db_subsongs[i][k] = infos[k + 1]

SongInv ==
  /\ DOMAIN db_songinfos = Indices /\ DOMAIN db_subsongs = Indices
  /\ \A i \in Indices : Table(i)
  /\ Reading("songlengths") => \A i \in 1 .. Size - 1 : i < line => Filled(i)
  /\ Loaded("songlengths") => \A i \in 1 .. Size - 1 : Filled(i)

(* A file that is being read is the open one.                              *)
LEMMA OpenIs ==
  ASSUME TodoInv
  PROVE  /\ \A f \in DbFiles : Reading(f) => Open = f
         /\ todo # {} => Open \in todo /\ Reading(Open)
<1>1. ASSUME NEW f \in DbFiles, NEW g \in todo, Reading(f), Reading(g)
      PROVE  f = g
  <2>1. f \in todo /\ todo \cap Earlier[f] = {} /\ todo \cap Earlier[g] = {}
    BY <1>1 DEF Reading
  <2>2. f \notin Earlier[g] /\ g \notin Earlier[f]
    BY <1>1, <2>1
  <2>3. f \in {"hash", "songlengths", "modinfos", "metadata"}
        /\ g \in {"hash", "songlengths", "modinfos", "metadata"}
    BY <1>1 DEF TodoInv, DbFiles, Sources
  <2>. QED
    BY <2>2, <2>3 DEF Earlier
<1>2. ASSUME NEW f \in DbFiles, Reading(f)
      PROVE  Open = f
  <2>1. f \in todo
    BY <1>2 DEF Reading
  <2>2. Open \in todo /\ Reading(Open)
    BY <1>2, <2>1 DEF Open
  <2>. QED
    BY <1>1, <1>2, <2>2
<1>3. ASSUME todo # {} PROVE \E f \in todo : Reading(f)
  <2>1. todo \subseteq {"hash", "songlengths", "modinfos", "metadata"}
    BY DEF TodoInv, DbFiles, Sources
  <2>2. CASE "hash" \in todo
    BY <2>2 DEF Reading, Earlier
  <2>3. CASE "hash" \notin todo /\ "songlengths" \in todo
    BY <2>3 DEF Reading, Earlier
  <2>4. CASE "hash" \notin todo /\ "songlengths" \notin todo
             /\ "modinfos" \in todo
    BY <2>4 DEF Reading, Earlier
  <2>5. CASE todo = {"metadata"}
    BY <2>5 DEF Reading, Earlier
  <2>. QED
    BY <1>3, <2>1, <2>2, <2>3, <2>4, <2>5
<1>4. todo # {} => Open \in todo /\ Reading(Open)
  BY <1>3 DEF Open
<1>. QED
  BY <1>2, <1>4

LEMMA InitTables == Init => TodoInv /\ HashInv /\ SongInv
<1>. SUFFICES ASSUME Init PROVE TodoInv /\ HashInv /\ SongInv
  OBVIOUS
<1>1. TodoInv
  <2>1. dir \in Installs /\ todo = {} /\ line = 1
    BY DEF Init, InitLocals
  <2>. QED
    BY <2>1 DEF TodoInv
<1>2. HashInv
  <2>1. 0 \in Indices
    BY SizesAssumption DEF Indices
  <2>. QED
    BY <2>1 DEF Init, HashInv, Reading, Loaded
<1>3. \A i \in Indices : Table(i)
  <2>1. \A i \in Indices : db_songinfos[i] = NoSong /\ db_subsongs[i] = <<>>
    BY DEF Init
  <2>2. Len(<<>>) = 0
    OBVIOUS
  <2>. QED
    BY <2>1, <2>2 DEF Table, NoSong
<1>. QED
  BY <1>1, <1>2, <1>3 DEF Init, SongInv, Reading, Loaded

LEMMA TodoStep == TodoInv /\ [Next]_vars => TodoInv'
<1>. SUFFICES ASSUME TodoInv, [Next]_vars PROVE TodoInv'
  OBVIOUS
<1>1. ASSUME NEW sources \in SourceSets, InitDb(sources) PROVE TodoInv'
  <2>1. sources \subseteq Sources
    BY SourcesAssumption
  <2>. QED
    BY <1>1, <2>1 DEF InitDb, TodoInv, DbFiles, localVars
<1>2. CASE HashRow \/ SonglengthsRow \/ ModinfosRow \/ MetadataRow
  <2>1. line' = line + 1 /\ todo # {} /\ UNCHANGED <<dir, todo, initialized>>
    BY <1>2 DEF HashRow, SonglengthsRow, ModinfosRow, MetadataRow, Reading
  <2>. QED
    BY <2>1 DEF TodoInv
<1>3. CASE EndOfFile
  BY <1>3 DEF EndOfFile, TodoInv
<1>4. CASE UNCHANGED vars
  BY <1>4 DEF vars, localVars, TodoInv
<1>. QED
  BY <1>1, <1>2, <1>3, <1>4 DEF Next

LEMMA HashStep == TodoInv /\ HashInv /\ [Next]_vars => HashInv'
<1>. SUFFICES ASSUME TodoInv, HashInv, [Next]_vars PROVE HashInv'
  OBVIOUS
<1>0. /\ line \in Nat \ {0} /\ dir \in Installs
      /\ dir.hash # None => Len(dir.hash) \in Nat
  BY HashesAssumption DEF TodoInv
<1>1. ASSUME NEW sources \in SourceSets, InitDb(sources) PROVE HashInv'
  <2>1. line = 1 /\ UNCHANGED <<dir, initialized, line, hash_idx>>
    BY <1>1 DEF InitDb, TodoInv, localVars, tableVars
  <2>2. Ascend(line - 1)'
    BY <2>1 DEF Ascend
  <2>3. Loaded("hash")' => Ascend(Size)' /\ Size <= Len(dir'.hash)
    BY <2>1 DEF HashInv, Loaded, Ascend
  <2>4. dir.hash # None => line <= Len(dir.hash) + 1
    BY <1>0, <2>1
  <2>. QED
    BY <2>1, <2>2, <2>3, <2>4 DEF HashInv
<1>2. CASE HashRow
  <2>1. /\ Reading("hash") /\ Open = "hash" /\ "hash" \notin initialized
    BY <1>2, OpenIs DEF HashRow, Reading, TodoInv, DbFiles
  <2>2. dir.hash # None /\ line \in 1 .. Len(dir.hash)
    BY <1>0, <1>2, <2>1 DEF HashRow, Rows
  <2>3. line > 1 => Diff(dir.hash[line]) \in Nat
    BY <1>0, <2>2, HashesAssumption, DiffIsNumber
  <2>4. PICK hash : /\ hash = IF line = 1 THEN 0
                             ELSE hash_idx[line - 2] + Diff(dir.hash[line])
                    /\ line > 1 => hash > hash_idx[line - 2]
                    /\ hash_idx' = [hash_idx EXCEPT ![line - 1] = hash]
    BY <1>2, <2>1, <2>2 DEF HashRow, Row, Rows
  <2>5. line' = line + 1 /\ UNCHANGED <<dir, todo, initialized>>
    BY <1>2 DEF HashRow
  <2>6. hash_idx' \in [Indices -> Nat]
    <3>1. CASE line - 1 \in Indices
      <4>1. line # 1 => line - 2 \in Indices
        BY <1>0, <3>1, SizesAssumption DEF Indices
      <4>2. hash \in Nat
        <5>1. CASE line = 1
          BY <2>4, <5>1
        <5>2. CASE line # 1
          <6>1. line > 1
            BY <1>0, <5>2
          <6>. QED
            BY <2>3, <2>4, <4>1, <5>2, <6>1 DEF HashInv
        <5>. QED
          BY <5>1, <5>2
      <4>. QED
        BY <2>4, <4>2 DEF HashInv
    <3>2. CASE line - 1 \notin Indices
      BY <2>4, <3>2 DEF HashInv
    <3>. QED
      BY <3>1, <3>2
  <2>7. ASSUME NEW k \in 1 .. Size - 1, k < line
        PROVE  /\ hash_idx'[k] > hash_idx'[k - 1]
               /\ hash_idx'[k] = hash_idx'[k - 1] + Diff(dir.hash[k + 1])
    <3>2. k \in Indices /\ k - 1 \in Indices /\ k - 1 # line - 1
      BY <1>0, <2>7, SizesAssumption DEF Indices
    <3>3. hash_idx'[k - 1] = hash_idx[k - 1]
      BY <2>4, <3>2 DEF HashInv
    <3>4. CASE k = line - 1
      BY <1>0, <2>4, <3>2, <3>3, <3>4 DEF HashInv
    <3>5. CASE k # line - 1
      <4>1. hash_idx'[k] = hash_idx[k] /\ k < line - 1
        BY <1>0, <2>4, <2>7, <3>2, <3>5 DEF HashInv
      <4>. QED
        BY <2>1, <2>7, <3>3, <4>1 DEF HashInv, Ascend
    <3>. QED
      BY <3>4, <3>5
  <2>8. Ascend(line - 1)'
    <3>1. line' - 1 = line /\ dir' = dir
      BY <1>0, <2>5
    <3>. QED
      BY <2>7, <3>1 DEF Ascend
  <2>9. ~Loaded("hash")'
    BY <2>1, <2>5 DEF Loaded
  <2>10. line' <= Len(dir'.hash) + 1
    BY <1>0, <2>2, <2>5
  <2>11. hash_idx'[0] = 0
    <3>1. 0 \in Indices
      BY SizesAssumption DEF Indices
    <3>2. CASE line = 1
      BY <2>4, <3>1, <3>2 DEF HashInv
    <3>3. CASE line # 1
      <4>1. line - 1 # 0
        BY <1>0, <3>3
      <4>. QED
        BY <2>4, <3>1, <4>1 DEF HashInv
    <3>. QED
      BY <3>2, <3>3
  <2>. QED
    BY <2>6, <2>8, <2>9, <2>10, <2>11 DEF HashInv
<1>3. CASE SonglengthsRow \/ ModinfosRow \/ MetadataRow
  <2>1. \E f \in Sources : Reading(f) /\ f # "hash"
    BY <1>3 DEF SonglengthsRow, ModinfosRow, MetadataRow, Sources
  <2>2. ~Reading("hash")
    BY <2>1, OpenIs DEF DbFiles
  <2>3. UNCHANGED <<dir, todo, initialized, hash_idx>>
    BY <1>3 DEF SonglengthsRow, ModinfosRow, MetadataRow
  <2>4. ~Reading("hash")'
    BY <2>2, <2>3 DEF Reading
  <2>5. Loaded("hash")' => Ascend(Size)' /\ Size <= Len(dir'.hash)
    BY <2>3 DEF HashInv, Loaded, Ascend
  <2>. QED
    BY <2>3, <2>4, <2>5 DEF HashInv
<1>4. CASE EndOfFile
  <2>1. /\ todo' = todo \ {Open} /\ initialized' = initialized \cup {Open}
        /\ line' = 1 /\ UNCHANGED <<dir, hash_idx>> /\ todo # {}
    BY <1>4 DEF EndOfFile
  <2>2. Ascend(line - 1)'
    BY <2>1 DEF Ascend
  <2>3. dir.hash # None => line' <= Len(dir.hash) + 1
    BY <1>0, <2>1
  <2>4. ASSUME Loaded("hash")' PROVE Ascend(Size)' /\ Size <= Len(dir.hash)
    <3>1. CASE "hash" \in initialized
      BY <2>1, <2>4, <3>1 DEF HashInv, Loaded, Ascend
    <3>2. CASE "hash" \notin initialized
      <4>1. Open = "hash" /\ Reading("hash")
        BY <2>1, <2>4, <3>2, OpenIs DEF Loaded
      <4>2. dir.hash # None
        BY <2>1, <2>4 DEF Loaded
      <4>3. line - 1 = Size
        BY <1>4, <4>1, <4>2 DEF EndOfFile
      <4>4. line <= Len(dir.hash) + 1
        BY <4>1, <4>2 DEF HashInv
      <4>5. Size <= Len(dir.hash)
        BY <1>0, <4>2, <4>3, <4>4
      <4>. QED
        BY <2>1, <4>1, <4>3, <4>5 DEF HashInv, Ascend
    <3>. QED
      BY <3>1, <3>2
  <2>. QED
    BY <2>1, <2>2, <2>3, <2>4 DEF HashInv
<1>5. CASE UNCHANGED vars
  BY <1>5 DEF vars, localVars, tableVars, HashInv, Reading, Loaded, Ascend
<1>. QED
  BY <1>1, <1>2, <1>3, <1>4, <1>5 DEF Next

(* A subsong's entry is made of the one before it.                         *)
LEMMA EntriesAre ==
  ASSUME NEW es, Len(es) \in Nat
  PROVE  LET infos == Entries(es)
             blank == [NoSub EXCEPT !.end = "ERROR"]
         IN  /\ Len(infos) = Len(es)
             /\ DOMAIN infos = 1 .. Len(es)
             /\ \A k \in 1 .. Len(es) :
                  infos[k] = Entry(IF k = 1 THEN blank ELSE infos[k - 1],
                                   es[k])
<1>. DEFINE blank == [NoSub EXCEPT !.end = "ERROR"]
            N     == Len(es)
            Made(n, g) ==
              g = [k \in 0 .. n |->
                     IF k = 0 THEN blank ELSE Entry(g[k - 1], es[k])]
            info  == CHOOSE g : Made(N, g)
<1>1. Entries(es) = [k \in 1 .. N |-> info[k]]
  BY DEF Entries
<1>. HIDE DEF blank
<1>2. \E g : Made(N, g)
  <2>. DEFINE S == {n \in 0 .. N : ~ \E g : Made(n, g)}
  <2>1. SUFFICES ASSUME S # {} PROVE FALSE
    OBVIOUS
  <2>2. PICK x \in S : \A y \in S : x <= y
    <3>1. S \in SUBSET Nat
      OBVIOUS
    <3>. QED
      BY <2>1, <3>1, LeastElement
  <2>3. x # 0
    <3>. DEFINE g == [k \in 0 .. 0 |-> blank]
    <3>1. Made(0, g)
      OBVIOUS
    <3>. QED
      BY <2>2, <3>1
  <2>4. x - 1 \in 0 .. N /\ x - 1 \notin S
    <3>1. x \in 0 .. N
      OBVIOUS
    <3>. HIDE DEF S
    <3>. QED
      BY <2>2, <2>3, <3>1
  <2>5. PICK g : Made(x - 1, g)
    BY <2>4
  <2>. DEFINE h == [k \in 0 .. x |->
                      IF k < x THEN g[k] ELSE Entry(g[x - 1], es[x])]
  <2>6. Made(x, h)
    <3>1. ASSUME NEW k \in 0 .. x
          PROVE  h[k] = IF k = 0 THEN blank ELSE Entry(h[k - 1], es[k])
      <4>1. CASE k < x
        <5>1. g[k] = IF k = 0 THEN blank ELSE Entry(g[k - 1], es[k])
          BY <2>2, <2>5, <4>1
        <5>2. h[k] = g[k] /\ (k # 0 => h[k - 1] = g[k - 1])
          BY <2>2, <4>1
        <5>. QED
          BY <5>1, <5>2
      <4>2. CASE k = x
        BY <2>2, <2>3, <4>2
      <4>. QED
        BY <2>2, <4>1, <4>2
    <3>2. h = [k \in 0 .. x |-> h[k]]
      OBVIOUS
    <3>. QED
      BY <3>1, <3>2
  <2>. QED
    BY <2>2, <2>6
<1>3. Made(N, info)
  BY <1>2
<1>. HIDE DEF info
<1>4. \A k \in 0 .. N :
        info[k] = IF k = 0 THEN blank ELSE Entry(info[k - 1], es[k])
  BY <1>3
<1>5. \A k \in 1 .. N :
        Entries(es)[k]
          = Entry(IF k = 1 THEN blank ELSE Entries(es)[k - 1], es[k])
  <2>1. SUFFICES ASSUME NEW k \in 1 .. N
                 PROVE  Entries(es)[k]
                          = Entry(IF k = 1 THEN blank
                                  ELSE Entries(es)[k - 1], es[k])
    OBVIOUS
  <2>2. k \in 0 .. N /\ info[0] = blank /\ info[k] = Entry(info[k - 1], es[k])
    BY <1>4
  <2>3. Entries(es)[k] = info[k] /\ (k # 1 => Entries(es)[k - 1] = info[k - 1])
    BY <1>1
  <2>. QED
    BY <2>2, <2>3
<1>6. Len(Entries(es)) = N /\ DOMAIN Entries(es) = 1 .. N
  BY <1>1
<1>. QED
  BY <1>5, <1>6 DEF blank

(* What follows the first entry.                                           *)
LEMMA RestOf ==
  ASSUME NEW es, Len(es) \in Nat \ {0}
  PROVE  LET infos == Entries(es) IN
         /\ Len(Tail(infos)) = Len(es) - 1
         /\ \A k \in 1 .. Len(es) - 1 : Tail(infos)[k] = infos[k + 1]
<1>. DEFINE infos == Entries(es)
            X     == {infos[k] : k \in 1 .. Len(es)}
<1>1. Len(infos) = Len(es) /\ DOMAIN infos = 1 .. Len(es)
  BY EntriesAre
<1>2. infos = [k \in 1 .. Len(es) |-> infos[k]]
  BY DEF Entries
<1>. HIDE DEF infos
<1>3. infos \in Seq(X) /\ infos # <<>>
  BY <1>1, <1>2
<1>. QED
  BY <1>1, <1>3 DEF infos

LEMMA SongStep == TodoInv /\ SongInv /\ [Next]_vars => SongInv'
<1>. SUFFICES ASSUME TodoInv, SongInv, [Next]_vars PROVE SongInv'
  OBVIOUS
<1>0. line \in Nat \ {0} /\ dir \in Installs
  BY DEF TodoInv
<1>1. ASSUME NEW sources \in SourceSets, InitDb(sources) PROVE SongInv'
  <2>1. line = 1 /\ UNCHANGED <<dir, initialized, line, songVars>>
    BY <1>1 DEF InitDb, TodoInv, localVars, tableVars
  <2>. QED
    BY <2>1 DEF songVars, SongInv, Loaded, Table, Filled
<1>2. CASE SonglengthsRow
  <2>1. /\ Reading("songlengths") /\ Open = "songlengths"
        /\ "songlengths" \notin initialized
    BY <1>2, OpenIs DEF SonglengthsRow, Reading, TodoInv, DbFiles, Sources
  <2>2. dir.songlengths # None /\ line \in 1 .. Len(dir.songlengths)
    BY <1>0, <1>2, <2>1 DEF SonglengthsRow, Rows
  <2>. DEFINE es    == dir.songlengths[line].entries
              m     == dir.songlengths[line].min
              min   == IF m = None THEN 1 ELSE m
              infos == Entries(es)
  <2>3. Len(es) \in Nat \ {0} /\ min \in Nat /\ min + Len(es) <= 256
    BY <1>0, <2>2, SonglengthsAssumption
  <2>4. /\ db_songinfos' = [db_songinfos EXCEPT ![line] =
             [has |-> Len(infos) > 1, min |-> min, info |-> infos[1]]]
        /\ db_subsongs' = [db_subsongs EXCEPT ![line] = Tail(infos)]
        /\ \A k \in 1 .. Len(es) :
             es[k].kind = "given" => Number(es[k].len) <= LengthSize
        /\ line < Size
    BY <1>2, <2>1, <2>2 DEF SonglengthsRow, Row, Rows
  <2>5. line' = line + 1 /\ UNCHANGED <<dir, todo, initialized>>
    BY <1>2 DEF SonglengthsRow
  <2>6. line \in Indices
    BY <1>0, <2>4, SizesAssumption DEF Indices
  <2>7. /\ Len(infos) = Len(es) /\ Len(Tail(infos)) = Len(es) - 1
        /\ \A k \in 1 .. Len(es) - 1 : Tail(infos)[k] = infos[k + 1]
    BY <2>3, EntriesAre, RestOf
  <2>. HIDE DEF infos, es, min
  <2>8. /\ db_songinfos'[line].has = (Len(es) > 1)
        /\ db_songinfos'[line].min = min
        /\ db_songinfos'[line].info = infos[1]
        /\ db_subsongs'[line] = Tail(infos)
    BY <2>4, <2>6, <2>7 DEF SongInv
  <2>9. \A i \in Indices \ {line} : /\ db_songinfos'[i] = db_songinfos[i]
                                    /\ db_subsongs'[i] = db_subsongs[i]
    BY <2>4 DEF SongInv
  <2>10. ASSUME NEW i \in Indices PROVE Table(i)'
    <3>1. CASE i = line
      <4>1. Len(db_subsongs'[i]) = Len(es) - 1
        BY <2>7, <2>8, <3>1
      <4>2. db_songinfos'[i].has <=> Len(db_subsongs'[i]) > 0
        <5>1. Len(es) > 1 <=> Len(db_subsongs'[i]) > 0
          BY <2>3, <4>1
        <5>2. db_songinfos'[i].has = (Len(es) > 1)
          BY <2>8, <3>1
        <5>. QED
          BY <5>1, <5>2, Zenon
      <4>3. db_songinfos'[i].min = min
        BY <2>8, <3>1
      <4>4. Len(db_subsongs'[i]) \in Nat /\ min + Len(db_subsongs'[i]) <= 255
        BY <2>3, <4>1
      <4>. QED
        BY <2>3, <4>2, <4>3, <4>4 DEF Table
    <3>2. CASE i # line
      BY <2>9, <3>2 DEF Table, SongInv
    <3>. QED
      BY <3>1, <3>2
  <2>11. ASSUME NEW i \in 1 .. Size - 1, i < line + 1 PROVE Filled(i)'
    <3>1. CASE i = line
      BY <2>2, <2>4, <2>5, <2>7, <2>8, <3>1 DEF Filled, infos, es
    <3>2. CASE i # line
      <4>1. i \in Indices \ {line} /\ i < line
        BY <1>0, <2>11, <3>2, SizesAssumption DEF Indices
      <4>. QED
        BY <2>1, <2>5, <2>9, <2>11, <4>1 DEF Filled, SongInv
    <3>. QED
      BY <3>1, <3>2
  <2>12. ~Loaded("songlengths")'
    BY <2>1, <2>5 DEF Loaded
  <2>. QED
    BY <2>4, <2>5, <2>10, <2>11, <2>12 DEF SongInv
<1>3. CASE HashRow \/ ModinfosRow \/ MetadataRow
  <2>1. \E f \in DbFiles : Reading(f) /\ f # "songlengths"
    BY <1>3 DEF HashRow, ModinfosRow, MetadataRow, DbFiles, Sources
  <2>2. ~Reading("songlengths")
    BY <2>1, OpenIs DEF DbFiles, Sources
  <2>3. UNCHANGED <<dir, todo, initialized, songVars>>
    BY <1>3 DEF HashRow, ModinfosRow, MetadataRow
  <2>. QED
    BY <2>2, <2>3 DEF songVars, SongInv, Reading, Loaded, Table, Filled
<1>4. CASE EndOfFile
  <2>1. /\ todo' = todo \ {Open} /\ initialized' = initialized \cup {Open}
        /\ line' = 1 /\ UNCHANGED <<dir, songVars>> /\ todo # {}
    BY <1>4 DEF EndOfFile
  <2>2. \A i \in 1 .. Size - 1 : ~(i < line')
    BY <2>1, SizesAssumption
  <2>3. ASSUME Loaded("songlengths")', NEW i \in 1 .. Size - 1
        PROVE  Filled(i)
    <3>1. CASE "songlengths" \in initialized
      BY <2>1, <2>3, <3>1 DEF SongInv, Loaded
    <3>2. CASE "songlengths" \notin initialized
      <4>1. Open = "songlengths" /\ Reading("songlengths")
        BY <2>1, <2>3, <3>2, OpenIs DEF Loaded
      <4>2. dir.songlengths # None
        BY <2>1, <2>3 DEF Loaded
      <4>3. line = Size
        BY <1>4, <4>1, <4>2 DEF EndOfFile
      <4>. QED
        BY <2>3, <4>1, <4>3, SizesAssumption DEF SongInv
    <3>. QED
      BY <3>1, <3>2
  <2>4. \A i \in 1 .. Size - 1 : Loaded("songlengths")' => Filled(i)'
    BY <2>1, <2>3 DEF songVars, Filled
  <2>5. \A i \in Indices : Table(i)'
    BY <2>1 DEF songVars, SongInv, Table
  <2>. QED
    BY <2>1, <2>2, <2>4, <2>5 DEF songVars, SongInv
<1>5. CASE UNCHANGED vars
  BY <1>5 DEF vars, localVars, tableVars, songVars, SongInv, Reading, Loaded,
    Table, Filled
<1>. QED
  BY <1>1, <1>2, <1>3, <1>4, <1>5 DEF Next

LEMMA TablesAre == Spec => [](TodoInv /\ HashInv /\ SongInv)
  BY InitTables, TodoStep, HashStep, SongStep, PTL DEF Spec

(* Once the hashes are read, the table has each of the file's, every one   *)
(* being so much more than the one before, and _hashidx finds the place of *)
(* a hash that is among them, and none for one that is not, whatever hashes*)
(* there are: SearchFinds, of the hashes.                                  *)
HashesAreFound ==
  Ready /\ Loaded("hash") =>
    /\ \A k \in 1 .. Size - 1 :
         hash_idx[k] = hash_idx[k - 1] + Diff(dir.hash[k + 1])
    /\ \A h \in 0 .. HashTop - 1 :
         /\ \A k \in Indices : hash_idx[k] = h => HashIdx(h) = k
         /\ (\A k \in Indices : hash_idx[k] # h) => HashIdx(h) = NotFound

LEMMA SortedHashesAreFound == HashInv => HashesAreFound
<1>. SUFFICES ASSUME HashInv, Loaded("hash") PROVE HashesAreFound
  BY DEF HashesAreFound
<1>1. Size \in Nat \ {0} /\ HashTop \in Nat \ {0} /\ Size - 1 \in Nat
  BY SizesAssumption
<1>2. /\ hash_idx \in [0 .. Size - 1 -> Nat]
      /\ \A k \in 1 .. Size - 1 :
           /\ hash_idx[k] > hash_idx[k - 1]
           /\ hash_idx[k] = hash_idx[k - 1] + Diff(dir.hash[k + 1])
  BY <1>1 DEF HashInv, Ascend, Indices
<1>3. \A i, j \in 0 .. Size - 1 : i < j => hash_idx[i] < hash_idx[j]
  <2>. SUFFICES ASSUME NEW i \in 0 .. Size - 1
                PROVE  \A j \in 0 .. Size - 1 :
                         i < j => hash_idx[i] < hash_idx[j]
    OBVIOUS
  <2>. DEFINE S == {j \in 0 .. Size - 1 :
                      i < j /\ ~(hash_idx[i] < hash_idx[j])}
  <2>1. SUFFICES ASSUME S # {} PROVE FALSE
    OBVIOUS
  <2>2. PICK x \in S : \A y \in S : x <= y
    <3>1. S \in SUBSET Nat
      OBVIOUS
    <3>. QED
      BY <2>1, <3>1, LeastElement
  <2>3. /\ x \in 1 .. Size - 1 /\ x - 1 \in 0 .. Size - 1
        /\ ~(x <= x - 1) /\ i < x
    BY <1>1, <2>2
  <2>4. hash_idx[x] > hash_idx[x - 1] /\ ~(hash_idx[i] < hash_idx[x])
    BY <1>2, <2>2, <2>3
  <2>5. x - 1 \notin S
    BY <2>2, <2>3
  <2>6. CASE i = x - 1
    BY <2>4, <2>6
  <2>7. CASE i # x - 1
    <3>1. hash_idx[i] < hash_idx[x - 1]
      BY <1>1, <2>3, <2>5, <2>7
    <3>2. /\ hash_idx[i] \in Nat /\ hash_idx[x] \in Nat
          /\ hash_idx[x - 1] \in Nat
      BY <1>2, <2>3
    <3>. QED
      BY <2>4, <3>1, <3>2
  <2>. QED
    BY <2>6, <2>7
<1>4. ASSUME NEW h \in 0 .. HashTop - 1
      PROVE  /\ \A k \in Indices : hash_idx[k] = h => HashIdx(h) = k
             /\ (\A k \in Indices : hash_idx[k] # h)
                  => HashIdx(h) = NotFound
  <2>1. Guess(h, Size, HashTop) \in 0 .. Size - 1 /\ h \in Nat
    BY <1>1, GuessIsAPlace
  <2>. QED
    BY <1>1, <1>2, <1>3, <2>1, SearchIsCorrect DEF HashIdx, Indices
<1>. QED
  BY <1>2, <1>4 DEF HashesAreFound

(* What lookup(hash) lists of the subsongs.                                *)
LEMMA SongsListed ==
  ASSUME SongInv, NEW i \in Indices
  PROVE  LET songs == LookupSongs(i)
             song  == db_songinfos[i]
             more  == db_subsongs[i]
         IN  /\ Len(songs) = Len(more) + 1
             /\ songs[1] = MakeSubsong(song.min, song.info)
             /\ \A k \in 1 .. Len(more) :
                  songs[k + 1] = MakeSubsong(song.min + k, more[k])
<1>. DEFINE songs == LookupSongs(i)
            song  == db_songinfos[i]
            more  == db_subsongs[i]
            rest  == IF song.has THEN more ELSE <<>>
            tail  == [k \in 1 .. Len(rest) |->
                        MakeSubsong((song.min + k) % 256, rest[k])]
<1>1. /\ song.min \in Nat /\ Len(more) \in Nat /\ song.min + Len(more) <= 255
      /\ (song.has <=> Len(more) > 0)
  BY DEF SongInv, Table
<1>2. songs = <<MakeSubsong(song.min, song.info)>> \o tail
  BY DEF LookupSongs
<1>3. Len(rest) = Len(more) /\ (Len(more) > 0 => rest = more)
  BY <1>1
<1>. HIDE DEF songs, song, more, rest
<1>4. Len(tail) = Len(more) /\ tail \in Seq({tail[k] : k \in 1 .. Len(more)})
  BY <1>1, <1>3
<1>5. \A k \in 1 .. Len(more) : tail[k] = MakeSubsong(song.min + k, more[k])
  BY <1>1, <1>3
<1>. DEFINE first == MakeSubsong(song.min, song.info)
<1>. HIDE DEF tail, first
<1>6. /\ Len(songs) = Len(more) + 1 /\ songs[1] = first
      /\ \A k \in 1 .. Len(more) : songs[k + 1] = tail[k]
  <2>1. songs = <<first>> \o tail
    BY <1>2 DEF first
  <2>. QED
    BY <1>1, <1>4, <2>1
<1>7. \A k \in 1 .. Len(more) :
        songs[k + 1] = MakeSubsong(song.min + k, more[k])
  BY <1>5, <1>6
<1>. QED
  BY <1>6, <1>7 DEF songs, song, more, first

(* Asked for a subsong, the database gives what it lists of it when asked  *)
(* for the song; and what it lists is numbered without a gap.              *)
THEOREM LookupsAlwaysAgree == Spec => []LookupsAgree
<1>1. SongInv => LookupsAgree
  <2>. SUFFICES
         ASSUME SongInv, NEW i \in Indices \ {0},
                NEW s \in 0 .. LookupSongs(i)[1].subsong
                                 + Len(LookupSongs(i)) + 1
         PROVE  LookupSong(i, s) =
                  IF \E k \in 1 .. Len(LookupSongs(i)) :
                       LookupSongs(i)[k].subsong = s
                  THEN LookupSongs(i)[CHOOSE k \in 1 .. Len(LookupSongs(i)) :
                                        LookupSongs(i)[k].subsong = s]
                  ELSE None
    BY DEF LookupsAgree
  <2>. DEFINE songs == LookupSongs(i)
              song  == db_songinfos[i]
              more  == db_subsongs[i]
  <2>1. /\ song.min \in Nat /\ Len(more) \in Nat
        /\ (song.has <=> Len(more) > 0)
    BY DEF SongInv, Table
  <2>2. /\ Len(songs) = Len(more) + 1
        /\ songs[1] = MakeSubsong(song.min, song.info)
        /\ \A k \in 1 .. Len(more) :
             songs[k + 1] = MakeSubsong(song.min + k, more[k])
    BY SongsListed
  <2>3. LookupSong(i, s) =
          IF s = song.min THEN MakeSubsong(s, song.info)
          ELSE IF s < song.min \/ ~song.has \/ song.min + Len(more) < s
               THEN None ELSE MakeSubsong(s, more[s - song.min])
    BY DEF LookupSong
  <2>. HIDE DEF songs, song, more
  <2>4. \A k \in 1 .. Len(songs) : songs[k].subsong = song.min + k - 1
    <3>1. SUFFICES ASSUME NEW k \in 1 .. Len(songs)
                   PROVE  songs[k].subsong = song.min + k - 1
      OBVIOUS
    <3>2. CASE k = 1
      BY <2>1, <2>2, <3>2 DEF MakeSubsong
    <3>3. CASE k # 1
      <4>1. k - 1 \in 1 .. Len(more)
        BY <2>1, <2>2, <3>3
      <4>2. songs[(k - 1) + 1] = MakeSubsong(song.min + (k - 1), more[k - 1])
        BY <2>2, <4>1
      <4>. QED
        BY <2>1, <4>2 DEF MakeSubsong
    <3>. QED
      BY <3>2, <3>3
  <2>5. s \in Nat
    <3>1. songs[1].subsong \in Nat /\ Len(songs) \in Nat
      BY <2>1, <2>2, <2>4
    <3>. QED
      BY <3>1 DEF songs
  <2>6. CASE \E k \in 1 .. Len(songs) : songs[k].subsong = s
    <3>. DEFINE c == CHOOSE k \in 1 .. Len(songs) : songs[k].subsong = s
    <3>1. c \in 1 .. Len(songs) /\ songs[c].subsong = s
      BY <2>6
    <3>. HIDE DEF c
    <3>2. s = song.min + c - 1
      BY <2>4, <3>1
    <3>3. LookupSong(i, s) = songs[c]
      <4>1. CASE c = 1
        BY <2>1, <2>2, <2>3, <3>2, <4>1
      <4>2. CASE c # 1
        <5>1. /\ c - 1 \in 1 .. Len(more) /\ s - song.min = c - 1
              /\ ~(s < song.min) /\ ~(song.min + Len(more) < s)
              /\ s # song.min /\ Len(more) > 0
          BY <2>1, <2>2, <3>1, <3>2, <4>2
        <5>2. songs[(c - 1) + 1] = MakeSubsong(song.min + (c - 1), more[c - 1])
          BY <2>2, <5>1
        <5>3. songs[c] = MakeSubsong(s, more[s - song.min])
          BY <2>1, <3>1, <3>2, <5>1, <5>2
        <5>. QED
          BY <2>1, <2>3, <5>1, <5>3
      <4>. QED
        BY <4>1, <4>2
    <3>. QED
      BY <2>6, <3>3 DEF songs, c
  <2>7. CASE ~ \E k \in 1 .. Len(songs) : songs[k].subsong = s
    <3>1. s < song.min \/ song.min + Len(more) < s
      <4>1. SUFFICES ASSUME ~(s < song.min), ~(song.min + Len(more) < s)
                     PROVE  FALSE
        OBVIOUS
      <4>2. s - song.min + 1 \in 1 .. Len(songs)
        BY <2>1, <2>2, <2>5, <4>1
      <4>3. songs[s - song.min + 1].subsong = song.min + (s - song.min + 1) - 1
        BY <2>4, <4>2
      <4>. QED
        BY <2>1, <2>5, <2>7, <4>2, <4>3
    <3>2. LookupSong(i, s) = None
      BY <2>1, <2>3, <2>5, <3>1
    <3>. QED
      BY <2>7, <3>2 DEF songs
  <2>. QED
    BY <2>6, <2>7
<1>. QED
  BY <1>1, TablesAre, PTL

(* The last row up to the k-th that gives a length and an end.             *)
LEMMA GivenIs ==
  ASSUME NEW es, Len(es) \in Nat, NEW k \in 1 .. Len(es),
         es[1].kind = "given"
  PROVE  LET G == {j \in 1 .. k : es[j].kind = "given"} IN
         /\ Max(G) \in G
         /\ \A j \in G : j <= Max(G)
<1>. DEFINE G == {j \in 1 .. k : es[j].kind = "given"}
            U == {k - j : j \in G}
<1>1. 1 \in G /\ U \in SUBSET Nat /\ U # {}
  OBVIOUS
<1>2. PICK u \in U : \A y \in U : u <= y
  BY <1>1, LeastElement
<1>3. PICK m \in G : u = k - m
  BY <1>2
<1>4. \A j \in G : j <= m
  <2>1. SUFFICES ASSUME NEW j \in G PROVE j <= m
    OBVIOUS
  <2>2. k - j \in U
    OBVIOUS
  <2>3. k - m <= k - j
    BY <1>2, <1>3, <2>2
  <2>. QED
    BY <2>3
<1>. QED
  BY <1>4 DEF Max

(* An entry has the length and the end of the last that is given.          *)
LEMMA EntriesRepeat ==
  ASSUME NEW es, Len(es) \in Nat, es[1].kind = "given",
         \A j \in 1 .. Len(es) : es[j].kind \in {"empty", "!", "given"}
  PROVE  \A k \in 1 .. Len(es) :
           LET info == Entries(es)[k]
               text == Given(es, k)
           IN  /\ {"len", "end", "dup"} \subseteq DOMAIN info
               /\ info.len = Number(text.len) % LengthSize
               /\ info.end = IF text.end \in {None, "!"} THEN "PLAYER"
                                                         ELSE text.end
<1>. DEFINE Tells(info, text) ==
              /\ {"len", "end", "dup"} \subseteq DOMAIN info
              /\ info.len = Number(text.len) % LengthSize
              /\ info.end = IF text.end \in {None, "!"} THEN "PLAYER"
                                                        ELSE text.end
            Good(k) == Tells(Entries(es)[k], Given(es, k))
            S == {k \in 1 .. Len(es) : ~Good(k)}
<1>1. SUFFICES ASSUME S # {} PROVE FALSE
  OBVIOUS
<1>. HIDE DEF Good
<1>2. PICK x \in S : \A y \in S : x <= y
  <2>1. S \in SUBSET Nat
    OBVIOUS
  <2>. QED
    BY <1>1, <2>1, LeastElement
<1>3. x \in 1 .. Len(es) /\ ~Good(x)
  BY <1>2
<1>4. \A y \in 1 .. Len(es) : y < x => Good(y)
  BY <1>2
<1>. HIDE DEF S
<1>. DEFINE G(k) == {j \in 1 .. k : es[j].kind = "given"}
<1>. HIDE DEF Tells
<1>5. \A k \in 1 .. Len(es) :
        Max(G(k)) \in G(k) /\ \A j \in G(k) : j <= Max(G(k))
  BY GivenIs
<1>6. CASE es[x].kind = "given"
  <2>1. Max(G(x)) = x
    <3>1. x \in G(x)
      BY <1>3, <1>6
    <3>2. x <= Max(G(x)) /\ Max(G(x)) \in 1 .. x
      BY <1>3, <1>5, <3>1
    <3>. QED
      BY <1>3, <3>2
  <2>2. Given(es, x) = es[x]
    BY <2>1 DEF Given
  <2>3. PICK before : Entries(es)[x] = Entry(before, es[x])
    BY <1>3, EntriesAre
  <2>4. Tells(Entry(before, es[x]), es[x])
    BY <1>6 DEF Entry, Tells
  <2>5. Good(x)
    BY <2>2, <2>3, <2>4 DEF Good
  <2>. QED
    BY <1>3, <2>5
<1>7. CASE es[x].kind # "given"
  <2>1. x # 1 /\ x - 1 \in 1 .. Len(es) /\ x - 1 < x
    BY <1>3, <1>7
  <2>2. G(x) = G(x - 1)
    BY <1>3, <1>7, <2>1
  <2>3. Given(es, x) = Given(es, x - 1)
    BY <2>2 DEF Given
  <2>4. Tells(Entries(es)[x - 1], Given(es, x - 1))
    BY <1>4, <2>1 DEF Good
  <2>5. Entries(es)[x] = Entry(Entries(es)[x - 1], es[x])
    BY <1>3, <2>1, EntriesAre
  <2>. DEFINE before == Entries(es)[x - 1]
  <2>6. \E d : Entry(before, es[x]) = [before EXCEPT !.dup = d]
    BY <1>3, <1>7 DEF Entry
  <2>7. PICK d : Entries(es)[x] = [before EXCEPT !.dup = d]
    BY <2>5, <2>6
  <2>8. Good(x)
    <3>1. DOMAIN Entries(es)[x] = DOMAIN before
      BY <2>7
    <3>2. /\ Entries(es)[x].len = before.len
          /\ Entries(es)[x].end = before.end
      BY <2>4, <2>7 DEF Tells
    <3>. QED
      BY <2>3, <2>4, <3>1, <3>2 DEF Good, Tells
  <2>. QED
    BY <1>3, <2>8
<1>. QED
  BY <1>6, <1>7

(* An entry is a duplicate if it is marked as one itself, before a third   *)
(* column.                                                                 *)
LEMMA EntriesMark ==
  ASSUME NEW es, Len(es) \in Nat, es[1].kind = "given",
         \A j \in 1 .. Len(es) : es[j].kind \in {"empty", "!", "given"},
         NEW k \in 1 .. Len(es), ~ThirdMark(es[k])
  PROVE  Entries(es)[k].dup = Marked(es[k])
<1>1. CASE es[k].kind = "given"
  <2>1. PICK before : Entries(es)[k] = Entry(before, es[k])
    BY EntriesAre
  <2>2. Entry(before, es[k]).dup = (es[k].end = "!")
    BY <1>1 DEF Entry
  <2>3. Marked(es[k]) = (es[k].end = "!")
    BY <1>1 DEF Marked, ThirdMark
  <2>. QED
    BY <2>1, <2>2, <2>3
<1>2. CASE es[k].kind # "given"
  <2>. DEFINE before == Entries(es)[k - 1]
  <2>1. k # 1 /\ k - 1 \in 1 .. Len(es)
    BY <1>2
  <2>2. Entries(es)[k] = Entry(before, es[k])
    BY <2>1, EntriesAre
  <2>3. "dup" \in DOMAIN before
    BY <2>1, EntriesRepeat
  <2>. HIDE DEF before
  <2>4. CASE es[k].kind = "empty"
    <3>1. Entries(es)[k].dup = FALSE
      BY <2>2, <2>3, <2>4 DEF Entry
    <3>2. Marked(es[k]) = FALSE
      BY <2>4 DEF Marked
    <3>. QED
      BY <3>1, <3>2
  <2>5. CASE es[k].kind = "!"
    <3>1. Entries(es)[k].dup = TRUE
      BY <2>2, <2>3, <2>5 DEF Entry
    <3>2. Marked(es[k]) = TRUE
      BY <2>5 DEF Marked
    <3>. QED
      BY <3>1, <3>2
  <2>. QED
    BY <1>2, <2>4, <2>5
<1>. QED
  BY <1>1, <1>2

(* A lookup lists the subsongs of the song's row, each with the length and *)
(* the end the row has for it, or refers to, and as a duplicate where the  *)
(* row marks it as one before a third column: LookupsTellTheFiles, of the  *)
(* songs.                                                                  *)
THEOREM SongsTellTheFile == Spec => []SongAgrees
<1>1. TodoInv /\ SongInv => SongAgrees
  <2>. SUFFICES
         ASSUME TodoInv, SongInv, Loaded("songlengths"),
                NEW i \in 1 .. Size - 1,
                NEW k \in 1 .. Len(dir.songlengths[i].entries)
         PROVE  LET es   == dir.songlengths[i].entries
                    info == LookupSongs(i)[k].info
                    text == Given(es, k)
                IN  /\ Len(LookupSongs(i)) = Len(es)
                    /\ info.len = IF Number(text.len) = LengthSize
                                  THEN 0 ELSE Number(text.len)
                    /\ info.end = IF text.end \in {None, "!"} THEN "PLAYER"
                                                              ELSE text.end
                    /\ ~ThirdMark(es[k]) => info.dup = Marked(es[k])
    BY DEF SongAgrees
  <2>. DEFINE es    == dir.songlengths[i].entries
              infos == Entries(es)
              songs == LookupSongs(i)
  <2>1. Filled(i) /\ i \in Indices
    BY SizesAssumption DEF SongInv, Indices
  <2>2. /\ Len(es) \in Nat \ {0} /\ es[1].kind = "given"
        /\ \A j \in 1 .. Len(es) :
             /\ es[j].kind \in {"empty", "!", "given"}
             /\ es[j].kind = "given" => Number(es[j].len) \in Nat
    BY <2>1, SonglengthsAssumption DEF Filled, TodoInv, Loaded
  <2>3. Len(infos) = Len(es)
    BY <2>2, EntriesAre
  <2>4. /\ Len(songs) = Len(db_subsongs[i]) + 1
        /\ songs[1] = MakeSubsong(db_songinfos[i].min, db_songinfos[i].info)
        /\ \A j \in 1 .. Len(db_subsongs[i]) :
             songs[j + 1] = MakeSubsong(db_songinfos[i].min + j,
                                        db_subsongs[i][j])
    BY <2>1, SongsListed
  <2>5. /\ db_songinfos[i].info = infos[1]
        /\ Len(db_subsongs[i]) = Len(infos) - 1
        /\ \A j \in 1 .. Len(infos) - 1 : db_subsongs[i][j] = infos[j + 1]
        /\ \A j \in 1 .. Len(es) :
             es[j].kind = "given" => Number(es[j].len) <= LengthSize
    BY <2>1 DEF Filled
  <2>. HIDE DEF songs, infos, es
  <2>0. k \in 1 .. Len(es)
    BY DEF es
  <2>6. Len(songs) = Len(es)
    BY <2>2, <2>3, <2>4, <2>5
  <2>7. songs[k].info = infos[k]
    <3>1. CASE k = 1
      BY <2>4, <2>5, <3>1 DEF MakeSubsong
    <3>2. CASE k # 1
      <4>1. k - 1 \in 1 .. Len(infos) - 1
        BY <2>0, <2>2, <2>3, <3>2
      <4>2. songs[(k - 1) + 1] = MakeSubsong(db_songinfos[i].min + (k - 1),
                                             db_subsongs[i][k - 1])
        BY <2>4, <2>5, <4>1
      <4>3. songs[(k - 1) + 1].info = db_subsongs[i][k - 1]
        BY <4>2 DEF MakeSubsong
      <4>4. db_subsongs[i][k - 1] = infos[(k - 1) + 1]
        BY <2>5, <4>1
      <4>. QED
        BY <2>0, <4>1, <4>3, <4>4
    <3>. QED
      BY <3>1, <3>2
  <2>. DEFINE text == Given(es, k)
  <2>8. /\ infos[k].len = Number(text.len) % LengthSize
        /\ infos[k].end = IF text.end \in {None, "!"} THEN "PLAYER"
                                                      ELSE text.end
    BY <2>0, <2>2, EntriesRepeat DEF infos
  <2>11. ~ThirdMark(es[k]) => infos[k].dup = Marked(es[k])
    BY <2>0, <2>2, EntriesMark DEF infos
  <2>9. Number(text.len) \in 0 .. LengthSize
    <3>. DEFINE G == {j \in 1 .. k : es[j].kind = "given"}
                g == Max(G)
    <3>1. g \in G
      BY <2>0, <2>2, GivenIs
    <3>2. text = es[g]
      BY DEF Given
    <3>3. g \in 1 .. Len(es) /\ es[g].kind = "given"
      BY <2>0, <2>2, <3>1
    <3>. HIDE DEF g, text
    <3>4. Number(es[g].len) \in Nat
      BY <2>2, <3>3
    <3>5. Number(es[g].len) <= LengthSize
      BY <2>5, <3>3
    <3>. QED
      BY <3>2, <3>4, <3>5, SizesAssumption
  <2>. HIDE DEF text
  <2>10. Number(text.len) % LengthSize
           = IF Number(text.len) = LengthSize THEN 0 ELSE Number(text.len)
    <3>. DEFINE n == Number(text.len)
    <3>1. n \in 0 .. LengthSize /\ LengthSize \in Nat \ {0}
      BY <2>9, SizesAssumption
    <3>. HIDE DEF n
    <3>2. n % LengthSize = IF n = LengthSize THEN 0 ELSE n
      BY <3>1
    <3>. QED
      BY <3>2 DEF n
  <2>. QED
    BY <2>6, <2>7, <2>8, <2>10, <2>11 DEF songs, text, es
<1>. QED
  BY <1>1, TablesAre, PTL
------------------------------------------------------------------------------
(* What the rows that repeat stand for, and how the texts are kept.        *)

(* A row gives a column itself, or stands for what the row before does.    *)
LEMMA StandsIs ==
  ASSUME NEW rows, NEW k \in Nat \ {0}, NEW col
  PROVE  /\ Gives(rows, 0, col) = {} /\ Stands(rows, 0, col) = None
         /\ rows[k].full /\ rows[k][col] # Repeat =>
              /\ Gives(rows, k, col) # {}
              /\ Stands(rows, k, col) = rows[k][col]
         /\ ~(rows[k].full /\ rows[k][col] # Repeat) =>
              /\ Gives(rows, k, col) = Gives(rows, k - 1, col)
              /\ Stands(rows, k, col) = Stands(rows, k - 1, col)
<1>1. Gives(rows, 0, col) = {}
  BY DEF Gives
<1>2. ASSUME rows[k].full, rows[k][col] # Repeat
      PROVE  /\ Gives(rows, k, col) # {}
             /\ Stands(rows, k, col) = rows[k][col]
  <2>. DEFINE G == Gives(rows, k, col)
  <2>1. k \in G /\ \A j \in G : j \in Nat /\ k >= j
    BY <1>2 DEF Gives
  <2>. HIDE DEF G
  <2>2. Max(G) \in G /\ \A j \in G : Max(G) >= j
    BY <2>1 DEF Max
  <2>3. Max(G) = k
    <3>. DEFINE m == Max(G)
    <3>1. m \in Nat /\ k >= m /\ m >= k
      BY <2>1, <2>2
    <3>. HIDE DEF m
    <3>2. m = k
      BY <3>1
    <3>. QED
      BY <3>2 DEF m
  <2>. QED
    BY <2>1, <2>3 DEF Stands, G
<1>3. ASSUME ~(rows[k].full /\ rows[k][col] # Repeat)
      PROVE  Gives(rows, k, col) = Gives(rows, k - 1, col)
  <2>1. \A j : j \in 1 .. k <=> j \in 1 .. k - 1 \/ j = k
    OBVIOUS
  <2>2. ~(k \in 1 .. k - 1)
    OBVIOUS
  <2>. QED
    BY <1>3, <2>1, <2>2 DEF Gives
<1>. QED
  BY <1>1, <1>2, <1>3 DEF Stands

(* A place in a pool, or NotFound, is for a text.                          *)
IsPool(pool) == \E S : pool \in Seq(S)
StandsFor(pool, s, text) ==
  s \in -1 .. Len(pool) - 1 /\ Text(pool, s) = text

(* A text that is added to a pool moves none of the others.                *)
LEMMA PoolGrows ==
  ASSUME NEW pool, IsPool(pool), NEW text
  PROVE  LET new == Append(pool, text) IN
         /\ IsPool(new) /\ Len(pool) \in Nat
         /\ StandsFor(new, Len(pool), text)
         /\ \A s, t : StandsFor(pool, s, t) => StandsFor(new, s, t)
<1>. DEFINE new == Append(pool, text)
<1>1. PICK S : pool \in Seq(S)
  BY DEF IsPool
<1>. DEFINE T == S \cup {text}
<1>2. pool \in Seq(T) /\ text \in T
  BY <1>1
<1>. HIDE DEF T
<1>3. /\ new \in Seq(T) /\ Len(pool) \in Nat /\ Len(new) = Len(pool) + 1
      /\ new[Len(pool) + 1] = text
      /\ \A j \in 1 .. Len(pool) : new[j] = pool[j]
  BY <1>2
<1>. HIDE DEF new
<1>4. StandsFor(new, Len(pool), text)
  BY <1>3 DEF StandsFor, Text, NotFound
<1>5. ASSUME NEW s, NEW t, StandsFor(pool, s, t) PROVE StandsFor(new, s, t)
  <2>1. s \in -1 .. Len(pool) - 1 /\ s \in -1 .. Len(new) - 1
    BY <1>3, <1>5 DEF StandsFor
  <2>2. Text(new, s) = Text(pool, s)
    <3>1. CASE s = NotFound
      BY <3>1 DEF Text
    <3>2. CASE s # NotFound
      <4>1. s + 1 \in 1 .. Len(pool)
        BY <1>3, <2>1, <3>2 DEF NotFound
      <4>. QED
        BY <1>3, <3>2, <4>1 DEF Text
    <3>. QED
      BY <3>1, <3>2
  <2>. QED
    BY <1>5, <2>1, <2>2 DEF StandsFor
<1>6. IsPool(new)
  BY <1>3 DEF IsPool
<1>. QED
  BY <1>3, <1>4, <1>5, <1>6 DEF new

(* What parse_tsv_row makes of a column stands for the column's text, or   *)
(* for that of the row before.                                             *)
LEMMA ColumnIsPlaced ==
  ASSUME NEW pool, IsPool(pool), NEW text, NEW before, NEW empty, NEW old,
         text = Repeat => StandsFor(pool, before, old),
         StandsFor(pool, empty, NoText)
  PROVE  LET new == Grown(pool, text) IN
         /\ IsPool(new)
         /\ StandsFor(new, Place(text, before, empty, pool),
                      IF text = Repeat THEN old ELSE TextOf(text))
         /\ \A s, t : StandsFor(pool, s, t) => StandsFor(new, s, t)
<1>1. CASE text = None
  <2>1. text # Repeat /\ Place(text, before, empty, pool) = empty
        /\ Grown(pool, text) = pool /\ TextOf(text) = NoText
    BY <1>1, MarksAssumption DEF Place, Grown, TextOf
  <2>. QED
    BY <2>1
<1>2. CASE text = Repeat
  <2>1. Place(text, before, empty, pool) = before /\ Grown(pool, text) = pool
    BY <1>2, MarksAssumption DEF Place, Grown
  <2>. QED
    BY <1>2, <2>1
<1>3. CASE text # None /\ text # Repeat
  <2>1. Place(text, before, empty, pool) = Len(pool)
        /\ Grown(pool, text) = Append(pool, text) /\ TextOf(text) = text
    BY <1>3 DEF Place, Grown, TextOf
  <2>. QED
    BY <1>3, <2>1, PoolGrows
<1>. QED
  BY <1>1, <1>2, <1>3
------------------------------------------------------------------------------
(* What the tables have of the rows that were read.                        *)

(* An entry of modinfos is what the k-th row stands for.                   *)
ModOf(m, pool, rows, k) ==
  /\ StandsFor(pool, m.format, TextOf(Stands(rows, k, "format")))
  /\ m.format = NotFound <=> Gives(rows, k, "format") = {}
  /\ m.channels = CountOf(Stands(rows, k, "channels"))
  /\ m.channels \in Nat

ModKept(mods, pool, rows, k) ==
  /\ IndexOf(rows)[k] \in Indices
  /\ ModOf(mods[IndexOf(rows)[k]], pool, rows, k)

ModsRead(rows) ==
  /\ line <= Len(rows) + 1
  /\ idx = IndexOf(rows)[line - 1]
  /\ ModOf([format |-> format_t, channels |-> channels], format_pool, rows,
           line - 1)
  /\ \A k \in 1 .. Len(rows) :
       k < line => ModKept(db_modinfos, format_pool, rows, k)

ModInv ==
  /\ DOMAIN db_modinfos = Indices /\ IsPool(format_pool)
  /\ Reading("modinfos") /\ dir.modinfos # None => ModsRead(dir.modinfos)
  /\ Loaded("modinfos") =>
       \A k \in 1 .. Len(dir.modinfos) :
         ModKept(db_modinfos, format_pool, dir.modinfos, k)

(* At the first line the locals are as the parsers declare them.           *)
LocalsInv == line = 1 => InitLocals

LEMMA LocalsStep == TodoInv /\ LocalsInv /\ [Next]_vars => LocalsInv'
<1>. SUFFICES ASSUME TodoInv, LocalsInv, [Next]_vars PROVE LocalsInv'
  OBVIOUS
<1>1. ASSUME NEW sources \in SourceSets, InitDb(sources) PROVE LocalsInv'
  BY <1>1 DEF InitDb, localVars, LocalsInv, InitLocals
<1>2. CASE HashRow \/ SonglengthsRow \/ ModinfosRow \/ MetadataRow
  <2>1. line' = line + 1 /\ line \in Nat \ {0}
    BY <1>2 DEF HashRow, SonglengthsRow, ModinfosRow, MetadataRow, TodoInv
  <2>. QED
    BY <2>1 DEF LocalsInv
<1>3. CASE EndOfFile
  BY <1>3 DEF EndOfFile, LocalsInv, InitLocals
<1>4. CASE UNCHANGED vars
  BY <1>4 DEF vars, localVars, LocalsInv, InitLocals
<1>. QED
  BY <1>1, <1>2, <1>3, <1>4 DEF Next

(* Before the first row there is nothing to repeat.                        *)
ModsFirst ==
  InitLocals /\ dir \in Installs /\ dir.modinfos # None /\ IsPool(format_pool)
    => ModsRead(dir.modinfos)

LEMMA ModsAtFirst == ModsFirst
<1>. SUFFICES ASSUME InitLocals, dir \in Installs, dir.modinfos # None,
                     IsPool(format_pool)
              PROVE  ModsRead(dir.modinfos)
  BY DEF ModsFirst
<1>. DEFINE rows == dir.modinfos
<1>0. Len(rows) \in Nat /\ AreNumbered(rows)
  BY ModinfosAssumption
<1>. HIDE DEF rows
<1>1. line = 1 /\ idx = 0 /\ format_t = NotFound /\ channels = 0
  BY DEF InitLocals
<1>2. IndexOf(rows)[line - 1] = 0 /\ line - 1 = 0
  BY <1>0, <1>1, IndexOfIs
<1>3. /\ Gives(rows, 0, "format") = {} /\ Stands(rows, 0, "format") = None
      /\ Stands(rows, 0, "channels") = None
  <2>1. 1 \in Nat \ {0}
    OBVIOUS
  <2>. QED
    BY <2>1, StandsIs
<1>4. StandsFor(format_pool, NotFound, NoText)
  <2>1. Len(format_pool) \in Nat
    BY PoolGrows
  <2>. QED
    BY <2>1 DEF StandsFor, Text, NotFound
<1>. DEFINE m == [format |-> format_t, channels |-> channels]
<1>5. m.format = NotFound /\ m.channels = 0
  BY <1>1
<1>. HIDE DEF m
<1>6. ModOf(m, format_pool, rows, 0)
  BY <1>3, <1>4, <1>5 DEF ModOf, TextOf, CountOf
<1>7. ~(\E k \in 1 .. Len(rows) : k < line)
  BY <1>1
<1>8. line <= Len(rows) + 1
  BY <1>0, <1>1
<1>. QED
  BY <1>1, <1>2, <1>6, <1>7, <1>8 DEF ModsRead, m, rows

LEMMA ModsAtFirstNext == ModsFirst'
  BY ModsAtFirst, PTL

(* A row of modinfos repeats what the locals have of the row before it.    *)
LEMMA ModinfosRowStep ==
  TodoInv /\ ModInv /\ ModinfosRow => ModInv'
<1>. SUFFICES ASSUME TodoInv, ModInv, ModinfosRow PROVE ModInv'
  OBVIOUS
<1>. DEFINE rows == dir.modinfos
            row  == rows[line]
            IX   == IndexOf(rows)
            old  == [format |-> format_t, channels |-> channels]
            new  == [format |-> format_t', channels |-> channels']
<1>1. /\ Reading("modinfos") /\ Open = "modinfos"
      /\ "modinfos" \notin initialized
  BY OpenIs DEF ModinfosRow, Reading, TodoInv, DbFiles, Sources
<1>2. /\ dir \in Installs /\ line \in Nat \ {0} /\ rows # None
      /\ line <= Len(rows) /\ Row = row
  BY <1>1 DEF ModinfosRow, Rows, Row, TodoInv
<1>3. /\ Len(rows) \in Nat /\ AreNumbered(rows)
      /\ row.full \in BOOLEAN
      /\ row.full => row.channels \in Nat \cup {None, Repeat}
  <2>1. /\ Len(rows) \in Nat /\ AreNumbered(rows)
        /\ \A k \in 1 .. Len(rows) :
             rows[k].full => rows[k].channels \in Nat \cup {None, Repeat}
    BY <1>2, ModinfosAssumption
  <2>2. line \in 1 .. Len(rows)
    BY <1>2, <2>1
  <2>. HIDE DEF rows
  <2>. QED
    BY <2>1, <2>2 DEF AreNumbered
<1>4. /\ idx' = IF row.full THEN Number(row.num) ELSE idx + Number(row.num)
      /\ idx' < Size
      /\ IF row.full /\ row.format # Repeat
         THEN /\ format_t' = Len(format_pool)
              /\ format_pool' = Append(format_pool, TextOf(row.format))
         ELSE format_t' = format_t /\ format_pool' = format_pool
      /\ channels' = IF ~row.full \/ row.channels = Repeat THEN channels
                     ELSE IF row.channels = None THEN 0 ELSE row.channels
      /\ db_modinfos' = [db_modinfos EXCEPT ![idx'] = new]
      /\ line' = line + 1 /\ UNCHANGED <<dir, todo, initialized>>
  BY <1>2 DEF ModinfosRow
<1>5. ModsRead(rows) /\ DOMAIN db_modinfos = Indices /\ IsPool(format_pool)
  BY <1>1, <1>2 DEF ModInv
<1>6. /\ idx = IX[line - 1] /\ ModOf(old, format_pool, rows, line - 1)
      /\ \A k \in 1 .. Len(rows) :
           k < line => ModKept(db_modinfos, format_pool, rows, k)
  BY <1>5 DEF ModsRead
<1>. HIDE DEF row
<1>7. idx' = IX[line] /\ idx' \in Indices
  <2>1. /\ line \in 1 .. Len(rows) /\ IX \in [0 .. Len(rows) -> Nat]
        /\ IX[line] = IF row.full THEN Number(row.num)
                      ELSE IX[line - 1] + Number(row.num)
    BY <1>2, <1>3, IndexOfIs DEF row
  <2>2. idx' = IX[line]
    BY <1>4, <1>6, <2>1
  <2>3. IX[line] \in Nat
    BY <2>1
  <2>. HIDE DEF IX, rows
  <2>. QED
    BY <1>4, <2>2, <2>3, SizesAssumption DEF Indices
<1>8. \A col : /\ row.full /\ row[col] # Repeat =>
                    /\ Gives(rows, line, col) # {}
                    /\ Stands(rows, line, col) = row[col]
               /\ ~(row.full /\ row[col] # Repeat) =>
                    /\ Gives(rows, line, col) = Gives(rows, line - 1, col)
                    /\ Stands(rows, line, col) = Stands(rows, line - 1, col)
  BY <1>2, StandsIs DEF row
<1>. HIDE DEF rows, IX
<1>9. /\ IsPool(format_pool')
      /\ \A s, t : StandsFor(format_pool, s, t)
                     => StandsFor(format_pool', s, t)
  <2>1. CASE row.full /\ row.format # Repeat
    BY <1>4, <1>5, <2>1, PoolGrows
  <2>2. CASE ~(row.full /\ row.format # Repeat)
    BY <1>4, <1>5, <2>2
  <2>. QED
    BY <2>1, <2>2
<1>10. ModOf(new, format_pool', rows, line)
  <2>1. /\ StandsFor(format_pool, format_t,
                     TextOf(Stands(rows, line - 1, "format")))
        /\ format_t = NotFound <=> Gives(rows, line - 1, "format") = {}
        /\ channels = CountOf(Stands(rows, line - 1, "channels"))
        /\ channels \in Nat
    BY <1>6 DEF ModOf
  <2>2. /\ StandsFor(format_pool', format_t',
                     TextOf(Stands(rows, line, "format")))
        /\ format_t' = NotFound <=> Gives(rows, line, "format") = {}
    <3>1. CASE row.full /\ row.format # Repeat
      <4>1. /\ StandsFor(format_pool', format_t', TextOf(row.format))
            /\ format_t' # NotFound
        <5>1. Len(format_pool) \in Nat
          BY <1>5, PoolGrows
        <5>2. Len(format_pool) # NotFound
          BY <5>1 DEF NotFound
        <5>. QED
          BY <1>4, <1>5, <3>1, <5>2, PoolGrows
      <4>. QED
        BY <1>8, <3>1, <4>1
    <3>2. CASE ~(row.full /\ row.format # Repeat)
      BY <1>4, <1>8, <2>1, <3>2
    <3>. QED
      BY <3>1, <3>2
  <2>3. /\ channels' = CountOf(Stands(rows, line, "channels"))
        /\ channels' \in Nat
    <3>1. CASE row.full /\ row.channels # Repeat
      BY <1>3, <1>4, <1>8, <3>1 DEF CountOf
    <3>2. CASE ~(row.full /\ row.channels # Repeat)
      BY <1>4, <1>8, <2>1, <3>2
    <3>. QED
      BY <3>1, <3>2
  <2>4. new.format = format_t' /\ new.channels = channels'
    OBVIOUS
  <2>. HIDE DEF new
  <2>. QED
    BY <2>2, <2>3, <2>4 DEF ModOf
<1>. HIDE DEF new, old
<1>11. ASSUME NEW k \in 1 .. Len(rows), k < line + 1
       PROVE  ModKept(db_modinfos', format_pool', rows, k)
  <2>1. CASE k = line
    <3>1. db_modinfos'[IX[k]] = new
      BY <1>4, <1>5, <1>7, <2>1
    <3>. QED
      BY <1>7, <1>10, <2>1, <3>1 DEF ModKept, IX
  <2>2. CASE k # line
    <3>1. k < line
      BY <1>2, <1>11, <2>2
    <3>2. IX[k] \in Indices /\ ModOf(db_modinfos[IX[k]], format_pool, rows, k)
      BY <1>6, <3>1 DEF ModKept, IX
    <3>3. IX[k] # IX[line]
      <4>1. line \in 1 .. Len(rows)
        BY <1>2, <1>3
      <4>. QED
        BY <1>3, <2>2, <4>1 DEF AreNumbered, IX
    <3>4. db_modinfos'[IX[k]] = db_modinfos[IX[k]]
      BY <1>4, <1>5, <1>7, <3>2, <3>3
    <3>5. ModOf(db_modinfos[IX[k]], format_pool', rows, k)
      BY <1>9, <3>2 DEF ModOf
    <3>. QED
      BY <3>2, <3>4, <3>5 DEF ModKept, IX
  <2>. QED
    BY <2>1, <2>2
<1>12. ModsRead(rows)'
  <2>1. line' - 1 = line /\ line' <= Len(rows) + 1 /\ rows' = rows
    BY <1>2, <1>3, <1>4 DEF rows
  <2>. QED
    BY <1>4, <1>7, <1>10, <1>11, <2>1 DEF ModsRead, IX, new
<1>13. ~Loaded("modinfos")'
  BY <1>1, <1>4 DEF Loaded
<1>14. DOMAIN db_modinfos' = Indices
  BY <1>4, <1>5
<1>. QED
  BY <1>9, <1>12, <1>13, <1>14 DEF ModInv, rows

LEMMA ModStep == TodoInv /\ LocalsInv /\ ModInv /\ [Next]_vars => ModInv'
<1>. SUFFICES ASSUME TodoInv, LocalsInv, ModInv, [Next]_vars PROVE ModInv'
  OBVIOUS
<1>0. dir \in Installs /\ dir' = dir /\ line' \in Nat \ {0} /\ LocalsInv'
  BY TodoStep, LocalsStep DEF TodoInv, Next, InitDb, HashRow, SonglengthsRow,
    ModinfosRow, MetadataRow, EndOfFile, vars
<1>1. ASSUME line' = 1, dir.modinfos # None, IsPool(format_pool)'
      PROVE  ModsRead(dir.modinfos)'
  <2>1. InitLocals'
    BY <1>0, <1>1 DEF LocalsInv
  <2>. QED
    BY <1>0, <1>1, <2>1, ModsAtFirstNext DEF ModsFirst
<1>2. ASSUME NEW sources \in SourceSets, InitDb(sources) PROVE ModInv'
  <2>1. line' = 1 /\ UNCHANGED <<initialized, db_modinfos, format_pool>>
    BY <1>2 DEF InitDb, TodoInv, localVars, tableVars, modVars
  <2>. QED
    BY <1>0, <1>1, <2>1 DEF ModInv, Loaded
<1>3. CASE ModinfosRow
  BY <1>3, ModinfosRowStep
<1>4. CASE HashRow \/ SonglengthsRow \/ MetadataRow
  <2>1. \E f \in DbFiles : Reading(f) /\ f # "modinfos"
    BY <1>4 DEF HashRow, SonglengthsRow, MetadataRow, DbFiles, Sources
  <2>2. ~Reading("modinfos")
    BY <2>1, OpenIs DEF DbFiles, Sources
  <2>3. UNCHANGED <<dir, todo, initialized, modVars>>
    BY <1>4 DEF HashRow, SonglengthsRow, MetadataRow
  <2>. QED
    BY <2>2, <2>3 DEF modVars, ModInv, Reading, Loaded
<1>5. CASE EndOfFile
  <2>1. /\ initialized' = initialized \cup {Open} /\ todo # {}
        /\ line' = 1 /\ UNCHANGED <<db_modinfos, format_pool>>
        /\ line > Len(Rows)
    BY <1>5 DEF EndOfFile, modVars
  <2>2. ASSUME Loaded("modinfos")', NEW k \in 1 .. Len(dir.modinfos)
        PROVE  ModKept(db_modinfos, format_pool, dir.modinfos, k)
    <3>1. CASE "modinfos" \in initialized
      BY <1>0, <2>2, <3>1 DEF ModInv, Loaded
    <3>2. CASE "modinfos" \notin initialized
      <4>1. Open = "modinfos" /\ Reading("modinfos")
        BY <2>1, <2>2, <3>2, OpenIs DEF Loaded
      <4>2. dir.modinfos # None
        BY <1>0, <2>2 DEF Loaded
      <4>3. line > Len(dir.modinfos) /\ line \in Nat
        BY <2>1, <4>1, <4>2 DEF Rows, TodoInv
      <4>4. Len(dir.modinfos) \in Nat
        BY <1>0, <4>2, ModinfosAssumption
      <4>5. k < line
        BY <4>3, <4>4
      <4>. QED
        BY <4>1, <4>2, <4>5 DEF ModInv, ModsRead
    <3>. QED
      BY <3>1, <3>2
  <2>. QED
    BY <1>0, <1>1, <2>1, <2>2 DEF ModInv
<1>6. CASE UNCHANGED vars
  BY <1>6 DEF vars, localVars, tableVars, modVars, ModInv, ModsRead, Reading,
    Loaded
<1>. QED
  BY <1>2, <1>3, <1>4, <1>5, <1>6 DEF Next

Metas == [hash : Nat, author : Int, album : Int, publisher : Int, year : Nat]

(* An entry of metadata is what the k-th row stands for.                   *)
MetaOf(m, authors, publishers, albums, rows, k) ==
  /\ StandsFor(authors, m.author, TextOf(Stands(rows, k, "author")))
  /\ StandsFor(publishers, m.publisher, TextOf(Stands(rows, k, "publisher")))
  /\ StandsFor(albums, m.album, TextOf(Stands(rows, k, "album")))
  /\ (IF m.year > 0 THEN 1900 + m.year ELSE 0)
       = CountOf(Stands(rows, k, "year"))

(* The entries are where their songs are; those of no row are blank.       *)
MetaKept(entries, authors, publishers, albums, rows, k) ==
  /\ IndexOf(rows)[k] \in Indices \ {0}
  /\ MetaOf(entries[IndexOf(rows)[k]], authors, publishers, albums, rows, k)

Listed(rows, n, i) ==
  \E k \in 1 .. Len(rows) : k < n /\ IndexOf(rows)[k] = i

MetasRead(rows) ==
  /\ line <= Len(rows) + 1
  /\ idx = IndexOf(rows)[line - 1]
  /\ tmp \in [Indices -> Metas]
  /\ \A i \in Indices :
       /\ tmp[i].hash \in {0, i}
       /\ i # 0 => (tmp[i].hash = i <=> Listed(rows, line, i))
  /\ \A k \in 1 .. Len(rows) :
       k < line => MetaKept(tmp, author_pool, publisher_pool, album_pool,
                            rows, k)

MetasLoaded(rows) ==
  /\ Len(db_metadata) = MetaSize
  /\ \A j \in 1 .. MetaSize : db_metadata[j].hash \in Nat
  /\ \A i, j \in 1 .. MetaSize :
       i < j => db_metadata[i].hash < db_metadata[j].hash
  /\ \A j \in 1 .. MetaSize : \E k \in 1 .. Len(rows) :
       IndexOf(rows)[k] = db_metadata[j].hash
  /\ \A k \in 1 .. Len(rows) : \E j \in 1 .. MetaSize :
       /\ db_metadata[j].hash = IndexOf(rows)[k]
       /\ IndexOf(rows)[k] \in Indices
       /\ MetaOf(db_metadata[j], author_pool, publisher_pool, album_pool,
                 rows, k)

MetaInv ==
  /\ IsPool(author_pool) /\ IsPool(publisher_pool) /\ IsPool(album_pool)
  /\ StandsFor(author_pool, 0, NoText)
  /\ Reading("metadata") /\ dir.metadata # None => MetasRead(dir.metadata)
  /\ Loaded("metadata") => MetasLoaded(dir.metadata)

MetasFirst ==
  InitLocals /\ dir \in Installs /\ dir.metadata # None
    => MetasRead(dir.metadata)

LEMMA MetasAtFirst == MetasFirst
<1>. SUFFICES ASSUME InitLocals, dir \in Installs, dir.metadata # None
              PROVE  MetasRead(dir.metadata)
  BY DEF MetasFirst
<1>. DEFINE rows == dir.metadata
<1>0. Len(rows) \in Nat /\ AreNumbered(rows)
  BY MetadataAssumption
<1>. HIDE DEF rows
<1>1. line = 1 /\ idx = 0 /\ tmp = [i \in Indices |-> NoMeta]
  BY DEF InitLocals
<1>2. IndexOf(rows)[line - 1] = 0
  BY <1>0, <1>1, IndexOfIs
<1>3. tmp \in [Indices -> Metas] /\ \A i \in Indices : tmp[i].hash = 0
  BY <1>1 DEF NoMeta, Metas
<1>4. /\ line <= Len(rows) + 1
      /\ \A k \in 1 .. Len(rows) : ~(k < line)
  BY <1>0, <1>1
<1>5. \A i \in Indices : ~Listed(rows, line, i)
  BY <1>4 DEF Listed
<1>. QED
  BY <1>1, <1>2, <1>3, <1>4, <1>5 DEF MetasRead, rows

LEMMA MetasAtFirstNext == MetasFirst'
  BY MetasAtFirst, PTL

(* A year that is given is kept in a byte.                                 *)
LEMMA YearIsKept ==
  ASSUME NEW year, year \in (1901 .. 2155) \cup {None},
         NEW kept, kept = IF year = None THEN 0 ELSE (year - 1900) % 256
  PROVE  kept \in Nat
         /\ (IF kept > 0 THEN 1900 + kept ELSE 0) = CountOf(year)
<1>1. CASE year = None
  BY <1>1 DEF CountOf
<1>2. CASE year # None
  <2>1. year \in 1901 .. 2155
    BY <1>2
  <2>2. (year - 1900) % 256 = year - 1900
    BY <2>1
  <2>. QED
    BY <1>2, <2>1, <2>2 DEF CountOf
<1>. QED
  BY <1>1, <1>2

(* What a row of the file is known to be.                                  *)
LEMMA MetadataRowIs ==
  ASSUME NEW d \in Installs, d.metadata # None,
         NEW k \in Nat \ {0}, k <= Len(d.metadata)
  PROVE  LET rows == d.metadata
             row  == d.metadata[k]
         IN  /\ Len(rows) \in Nat /\ AreNumbered(rows) /\ k \in 1 .. Len(rows)
             /\ row.full \in BOOLEAN
             /\ row.full => row.year \in (1901 .. 2155) \cup {None, Repeat}
             /\ k = 1 => /\ row.full /\ row.author # Repeat
                         /\ row.publisher # Repeat /\ row.album # Repeat
                         /\ row.year # Repeat
<1>. DEFINE rows == d.metadata
<1>1. Len(rows) \in Nat /\ AreNumbered(rows)
  BY MetadataAssumption
<1>2. \A j \in 1 .. Len(rows) :
        rows[j].full => rows[j].year \in (1901 .. 2155) \cup {None, Repeat}
  BY MetadataAssumption
<1>3. Len(rows) > 0 =>
        /\ rows[1].full
        /\ \A col \in {"author", "publisher", "album", "year"} :
             rows[1][col] # Repeat
  BY MetadataAssumption
<1>. HIDE DEF rows
<1>4. k \in 1 .. Len(rows) /\ Len(rows) > 0
  BY <1>1 DEF rows
<1>5. rows[k].full \in BOOLEAN
  BY <1>1, <1>4 DEF AreNumbered
<1>. QED
  BY <1>1, <1>2, <1>3, <1>4, <1>5 DEF rows

(* A row of metadata repeats what the entry of the row before it has, which*)
(* no other row has overwritten.                                           *)
LEMMA MetadataRowStep ==
  TodoInv /\ MetaInv /\ MetadataRow => MetaInv'
<1>. SUFFICES ASSUME TodoInv, MetaInv, MetadataRow PROVE MetaInv'
  OBVIOUS
<1>. DEFINE rows == dir.metadata
            row  == rows[line]
            IX   == IndexOf(rows)
            n    == Number(row.num)
            i    == IF row.full THEN n ELSE tmp[idx].hash + n
            prev == tmp[idx]
            year == CASE row.year = None   -> 0
                      [] row.year = Repeat -> prev.year
                      [] OTHER -> (row.year - 1900) % 256
            full == [hash |-> i,
                     author |-> Place(row.author, prev.author, 0,
                                      author_pool),
                     publisher |-> Place(row.publisher, prev.publisher,
                                         NotFound, publisher_pool),
                     album |-> Place(row.album, prev.album, NotFound,
                                     album_pool),
                     year |-> year]
            new  == IF row.full THEN full ELSE [prev EXCEPT !.hash = i]
<1>1. /\ Reading("metadata") /\ Open = "metadata"
      /\ "metadata" \notin initialized
  BY OpenIs DEF MetadataRow, Reading, TodoInv, DbFiles, Sources
<1>2. /\ dir \in Installs /\ line \in Nat \ {0} /\ rows # None
      /\ line <= Len(rows) /\ Row = row
  BY <1>1 DEF MetadataRow, Rows, Row, TodoInv
<1>3. /\ Len(rows) \in Nat /\ AreNumbered(rows) /\ line \in 1 .. Len(rows)
      /\ row.full \in BOOLEAN
      /\ row.full => row.year \in (1901 .. 2155) \cup {None, Repeat}
      /\ line = 1 => /\ row.full /\ row.author # Repeat
                     /\ row.publisher # Repeat /\ row.album # Repeat
                     /\ row.year # Repeat
  BY <1>2, MetadataRowIs
<1>4. /\ i \in 1 .. Size - 1 /\ idx' = i
      /\ tmp' = [tmp EXCEPT ![i] = new]
      /\ line' = line + 1 /\ UNCHANGED <<dir, todo, initialized>>
  BY <1>2 DEF MetadataRow, TheRowBefore
<1>5. IF ~row.full
      THEN /\ author_pool' = author_pool /\ publisher_pool' = publisher_pool
           /\ album_pool' = album_pool
      ELSE /\ author_pool' = Grown(author_pool, row.author)
           /\ publisher_pool' = Grown(publisher_pool, row.publisher)
           /\ album_pool' = Grown(album_pool, row.album)
  BY <1>2 DEF MetadataRow, poolVars
<1>6. /\ MetasRead(rows) /\ IsPool(author_pool) /\ IsPool(publisher_pool)
      /\ IsPool(album_pool) /\ StandsFor(author_pool, 0, NoText)
  BY <1>1, <1>2 DEF MetaInv
<1>7. /\ idx = IX[line - 1] /\ tmp \in [Indices -> Metas]
      /\ \A j \in Indices :
           /\ tmp[j].hash \in {0, j}
           /\ j # 0 => (tmp[j].hash = j <=> Listed(rows, line, j))
      /\ \A k \in 1 .. Len(rows) :
           k < line => MetaKept(tmp, author_pool, publisher_pool, album_pool,
                                rows, k)
  BY <1>6 DEF MetasRead
<1>. HIDE DEF row
<1>8. \A col : /\ row.full /\ row[col] # Repeat =>
                    Stands(rows, line, col) = row[col]
               /\ ~(row.full /\ row[col] # Repeat) =>
                    Stands(rows, line, col) = Stands(rows, line - 1, col)
  BY <1>2, StandsIs DEF row
<1>9. /\ IX \in [0 .. Len(rows) -> Nat] /\ IX[0] = 0
      /\ IX[line] = IF row.full THEN n ELSE IX[line - 1] + n
  BY <1>3, IndexOfIs DEF row
<1>10. \A k \in 1 .. Len(rows) : IX[k] = IX[line] => k = line
  BY <1>3 DEF AreNumbered
<1>. HIDE DEF rows, IX, n
<1>11. line # 1 => /\ prev \in Metas /\ prev.hash = idx
                   /\ MetaOf(prev, author_pool, publisher_pool, album_pool,
                             rows, line - 1)
  <2>. SUFFICES ASSUME line # 1
                PROVE  /\ prev \in Metas /\ prev.hash = idx
                       /\ MetaOf(prev, author_pool, publisher_pool,
                                 album_pool, rows, line - 1)
    OBVIOUS
  <2>1. line - 1 \in 1 .. Len(rows) /\ line - 1 < line
    BY <1>3
  <2>2. /\ idx \in Indices \ {0}
        /\ MetaOf(tmp[idx], author_pool, publisher_pool, album_pool, rows,
                  line - 1)
    BY <1>7, <2>1 DEF MetaKept, IX
  <2>3. Listed(rows, line, idx)
    BY <1>7, <2>1 DEF Listed, IX
  <2>. QED
    BY <1>7, <2>2, <2>3
<1>12. i = IX[line] /\ i \in Indices \ {0}
  <2>1. i = IX[line]
    <3>1. CASE row.full
      BY <1>9, <3>1
    <3>2. CASE ~row.full
      <4>1. tmp[idx].hash = IX[line - 1]
        BY <1>3, <1>7, <1>11, <3>2
      <4>. QED
        BY <1>9, <3>2, <4>1
    <3>. QED
      BY <3>1, <3>2
  <2>2. i \in Indices \ {0}
    BY <1>4, SizesAssumption DEF Indices
  <2>. QED
    BY <2>1, <2>2
<1>. HIDE DEF i, prev
<1>13. /\ StandsFor(publisher_pool, NotFound, NoText)
       /\ StandsFor(album_pool, NotFound, NoText)
  <2>1. Len(publisher_pool) \in Nat /\ Len(album_pool) \in Nat
    BY <1>6, PoolGrows
  <2>. QED
    BY <2>1 DEF StandsFor, Text, NotFound
<1>14. /\ IsPool(author_pool') /\ IsPool(publisher_pool')
       /\ IsPool(album_pool')
       /\ \A s, t : StandsFor(author_pool, s, t)
                      => StandsFor(author_pool', s, t)
       /\ \A s, t : StandsFor(publisher_pool, s, t)
                      => StandsFor(publisher_pool', s, t)
       /\ \A s, t : StandsFor(album_pool, s, t)
                      => StandsFor(album_pool', s, t)
       /\ new \in Metas /\ new.hash = i
       /\ MetaOf(new, author_pool', publisher_pool', album_pool', rows, line)
  <2>1. CASE row.full
    <3>. DEFINE OldOf(col) == Stands(rows, line - 1, col)
    <3>1. line # 1 =>
            /\ StandsFor(author_pool, prev.author, TextOf(OldOf("author")))
            /\ StandsFor(publisher_pool, prev.publisher,
                         TextOf(OldOf("publisher")))
            /\ StandsFor(album_pool, prev.album, TextOf(OldOf("album")))
            /\ (IF prev.year > 0 THEN 1900 + prev.year ELSE 0)
                 = CountOf(OldOf("year"))
            /\ prev.year \in Nat
      BY <1>11 DEF MetaOf, Metas
    <3>. HIDE DEF OldOf
    <3>2. /\ IsPool(author_pool')
          /\ StandsFor(author_pool', full.author,
                       IF row.author = Repeat THEN TextOf(OldOf("author"))
                       ELSE TextOf(row.author))
          /\ \A s, t : StandsFor(author_pool, s, t)
                         => StandsFor(author_pool', s, t)
      <4>1. row.author = Repeat =>
              StandsFor(author_pool, prev.author, TextOf(OldOf("author")))
        BY <1>3, <3>1
      <4>2. full.author = Place(row.author, prev.author, 0, author_pool)
        OBVIOUS
      <4>. HIDE DEF full
      <4>. QED
        BY <1>5, <1>6, <2>1, <4>1, <4>2, ColumnIsPlaced
    <3>3. /\ IsPool(publisher_pool')
          /\ StandsFor(publisher_pool', full.publisher,
                       IF row.publisher = Repeat
                       THEN TextOf(OldOf("publisher"))
                       ELSE TextOf(row.publisher))
          /\ \A s, t : StandsFor(publisher_pool, s, t)
                         => StandsFor(publisher_pool', s, t)
      <4>1. row.publisher = Repeat =>
              StandsFor(publisher_pool, prev.publisher,
                        TextOf(OldOf("publisher")))
        BY <1>3, <3>1
      <4>2. full.publisher = Place(row.publisher, prev.publisher, NotFound,
                                   publisher_pool)
        OBVIOUS
      <4>. HIDE DEF full
      <4>. QED
        BY <1>5, <1>6, <1>13, <2>1, <4>1, <4>2, ColumnIsPlaced
    <3>4. /\ IsPool(album_pool')
          /\ StandsFor(album_pool', full.album,
                       IF row.album = Repeat THEN TextOf(OldOf("album"))
                       ELSE TextOf(row.album))
          /\ \A s, t : StandsFor(album_pool, s, t)
                         => StandsFor(album_pool', s, t)
      <4>1. row.album = Repeat =>
              StandsFor(album_pool, prev.album, TextOf(OldOf("album")))
        BY <1>3, <3>1
      <4>2. full.album = Place(row.album, prev.album, NotFound, album_pool)
        OBVIOUS
      <4>. HIDE DEF full
      <4>. QED
        BY <1>5, <1>6, <1>13, <2>1, <4>1, <4>2, ColumnIsPlaced
    <3>5. /\ year \in Nat
          /\ (IF year > 0 THEN 1900 + year ELSE 0)
               = IF row.year = Repeat THEN CountOf(OldOf("year"))
                 ELSE CountOf(row.year)
      <4>1. CASE row.year = Repeat
        <5>1. year = prev.year
          BY <4>1, MarksAssumption
        <5>. QED
          BY <1>3, <3>1, <4>1, <5>1
      <4>2. CASE row.year # Repeat
        <5>1. row.year \in (1901 .. 2155) \cup {None}
          BY <1>3, <2>1, <4>2
        <5>2. year = IF row.year = None THEN 0 ELSE (row.year - 1900) % 256
          BY <4>2
        <5>. HIDE DEF year
        <5>. QED
          BY <4>2, <5>1, <5>2, YearIsKept
      <4>. QED
        BY <4>1, <4>2
    <3>6. \A col : Stands(rows, line, col)
                     = IF row[col] = Repeat THEN OldOf(col) ELSE row[col]
      BY <1>8, <2>1 DEF OldOf
    <3>. HIDE DEF year
    <3>7. new = full /\ full.hash = i /\ full.year = year
      BY <2>1
    <3>8. MetaOf(full, author_pool', publisher_pool', album_pool', rows, line)
      <4>1. /\ StandsFor(author_pool', full.author,
                         TextOf(Stands(rows, line, "author")))
            /\ StandsFor(publisher_pool', full.publisher,
                         TextOf(Stands(rows, line, "publisher")))
            /\ StandsFor(album_pool', full.album,
                         TextOf(Stands(rows, line, "album")))
        <5>. HIDE DEF full
        <5>. QED
          BY <3>2, <3>3, <3>4, <3>6
      <4>2. (IF full.year > 0 THEN 1900 + full.year ELSE 0)
              = CountOf(Stands(rows, line, "year"))
        <5>. HIDE DEF full
        <5>. QED
          BY <3>5, <3>6, <3>7
      <4>. QED
        BY <4>1, <4>2 DEF MetaOf
    <3>9. full \in Metas
      <4>1. /\ full.author \in Int /\ full.publisher \in Int
            /\ full.album \in Int
        <5>1. \A pool, s, t : IsPool(pool) /\ StandsFor(pool, s, t)
                                => s \in Int
          <6>. SUFFICES ASSUME NEW pool, NEW s, NEW t, IsPool(pool),
                               StandsFor(pool, s, t)
                        PROVE  s \in Int
            OBVIOUS
          <6>1. Len(pool) \in Nat
            BY PoolGrows
          <6>. QED
            BY <6>1 DEF StandsFor
        <5>. HIDE DEF full
        <5>. QED
          BY <3>2, <3>3, <3>4, <5>1
      <4>2. i \in Nat
        BY <1>12, SizesAssumption DEF Indices
      <4>. QED
        BY <3>5, <4>1, <4>2 DEF Metas
    <3>. QED
      BY <3>2, <3>3, <3>4, <3>7, <3>8, <3>9
  <2>2. CASE ~row.full
    <3>1. line # 1
      BY <1>3, <2>2
    <3>2. /\ prev \in Metas
          /\ MetaOf(prev, author_pool, publisher_pool, album_pool, rows,
                    line - 1)
      BY <1>11, <3>1
    <3>3. i \in Nat
      BY <1>12, SizesAssumption DEF Indices
    <3>4. new = [prev EXCEPT !.hash = i]
      BY <2>2
    <3>. HIDE DEF new
    <3>5. /\ new \in Metas /\ new.hash = i /\ new.author = prev.author
          /\ new.publisher = prev.publisher /\ new.album = prev.album
          /\ new.year = prev.year
      BY <3>2, <3>3, <3>4 DEF Metas
    <3>6. \A col : Stands(rows, line, col) = Stands(rows, line - 1, col)
      BY <1>8, <2>2
    <3>7. /\ author_pool' = author_pool /\ publisher_pool' = publisher_pool
          /\ album_pool' = album_pool
      BY <1>5, <2>2
    <3>8. MetaOf(new, author_pool, publisher_pool, album_pool, rows, line)
      BY <3>2, <3>5, <3>6 DEF MetaOf
    <3>. QED
      BY <1>6, <3>5, <3>7, <3>8
  <2>. QED
    BY <1>3, <2>1, <2>2
<1>. HIDE DEF new, full, year
<1>15. /\ tmp' \in [Indices -> Metas] /\ tmp'[i] = new
       /\ \A j \in Indices \ {i} : tmp'[j] = tmp[j]
  BY <1>4, <1>7, <1>12, <1>14
<1>16. \A j : Listed(rows, line + 1, j) <=> Listed(rows, line, j) \/ j = i
  <2>1. \A k \in 1 .. Len(rows) : k < line + 1 <=> k < line \/ k = line
    BY <1>3
  <2>. QED
    BY <1>3, <1>12, <2>1 DEF Listed, IX
<1>17. ASSUME NEW j \in Indices
       PROVE  /\ tmp'[j].hash \in {0, j}
              /\ j # 0 => (tmp'[j].hash = j <=> Listed(rows, line + 1, j))
  <2>1. CASE j = i
    BY <1>14, <1>15, <1>16, <2>1
  <2>2. CASE j # i
    BY <1>7, <1>15, <1>16, <2>2
  <2>. QED
    BY <2>1, <2>2
<1>18. ASSUME NEW k \in 1 .. Len(rows), k < line + 1
       PROVE  MetaKept(tmp', author_pool', publisher_pool', album_pool',
                       rows, k)
  <2>1. CASE k = line
    BY <1>12, <1>14, <1>15, <2>1 DEF MetaKept, IX
  <2>2. CASE k # line
    <3>1. k < line
      BY <1>2, <1>18, <2>2
    <3>2. /\ IX[k] \in Indices \ {0}
          /\ MetaOf(tmp[IX[k]], author_pool, publisher_pool, album_pool,
                    rows, k)
      BY <1>7, <3>1 DEF MetaKept, IX
    <3>3. IX[k] # i
      BY <1>10, <1>12, <2>2
    <3>4. tmp'[IX[k]] = tmp[IX[k]]
      BY <1>15, <3>2, <3>3
    <3>5. MetaOf(tmp[IX[k]], author_pool', publisher_pool', album_pool',
                 rows, k)
      BY <1>14, <3>2 DEF MetaOf
    <3>. QED
      BY <3>2, <3>4, <3>5 DEF MetaKept, IX
  <2>. QED
    BY <2>1, <2>2
<1>19. MetasRead(rows)'
  <2>1. line' - 1 = line /\ line' <= Len(rows) + 1 /\ rows' = rows
    BY <1>2, <1>3, <1>4 DEF rows
  <2>. QED
    BY <1>4, <1>12, <1>15, <1>17, <1>18, <2>1 DEF MetasRead, IX
<1>20. ~Loaded("metadata")'
  BY <1>1, <1>4 DEF Loaded
<1>21. StandsFor(author_pool, 0, NoText)'
  BY <1>6, <1>14
<1>. QED
  BY <1>14, <1>19, <1>20, <1>21 DEF MetaInv, rows

(* At the end of the file the entries that are used are the table.         *)
LEMMA MetadataEnds ==
  ASSUME dir \in Installs, dir.metadata # None, MetasRead(dir.metadata),
         line > Len(dir.metadata), line \in Nat, Len(Used(tmp)) = MetaSize,
         db_metadata' = Used(tmp),
         UNCHANGED <<dir, author_pool, publisher_pool, album_pool>>
  PROVE  MetasLoaded(dir.metadata)'
<1>. DEFINE rows == dir.metadata
            IX   == IndexOf(rows)
            used == Used(tmp)
<1>1. Len(rows) \in Nat
  BY MetadataAssumption
<1>2. /\ tmp \in [Indices -> Metas]
      /\ \A i \in Indices :
           /\ tmp[i].hash \in {0, i}
           /\ i # 0 => (tmp[i].hash = i <=> Listed(rows, line, i))
      /\ \A k \in 1 .. Len(rows) :
           k < line => MetaKept(tmp, author_pool, publisher_pool, album_pool,
                                rows, k)
  BY DEF MetasRead
<1>. HIDE DEF rows
<1>3. \A k \in 1 .. Len(rows) : k < line
  BY <1>1 DEF rows
<1>4. /\ \A p \in 1 .. Len(used) :
           /\ used[p].hash \in Indices \ {0}
           /\ used[p] = tmp[used[p].hash]
      /\ \A p, q \in 1 .. Len(used) : p < q => used[p].hash < used[q].hash
      /\ \A i \in Indices \ {0} : tmp[i].hash = i =>
           \E p \in 1 .. Len(used) : used[p] = tmp[i]
  <2>1. \A i \in Indices : tmp[i].hash \in {0, i}
    BY <1>2
  <2>. QED
    BY <1>2, <2>1, UsedAre
<1>5. db_metadata' = used /\ Len(used) = MetaSize
  OBVIOUS
<1>. HIDE DEF used, IX
<1>6. \A j \in 1 .. MetaSize : used[j].hash \in Nat
  BY <1>4, <1>5, SizesAssumption DEF Indices
<1>7. ASSUME NEW j \in 1 .. MetaSize
      PROVE  \E k \in 1 .. Len(rows) : IX[k] = used[j].hash
  <2>. DEFINE i == used[j].hash
  <2>1. i \in Indices \ {0} /\ tmp[i].hash = i
    BY <1>4, <1>5
  <2>. HIDE DEF i
  <2>2. Listed(rows, line, i)
    BY <1>2, <2>1
  <2>. QED
    BY <2>2 DEF Listed, IX, i
<1>8. ASSUME NEW k \in 1 .. Len(rows)
      PROVE  \E j \in 1 .. MetaSize :
               /\ used[j].hash = IX[k] /\ IX[k] \in Indices
               /\ MetaOf(used[j], author_pool, publisher_pool, album_pool,
                         rows, k)
  <2>1. /\ IX[k] \in Indices \ {0}
        /\ MetaOf(tmp[IX[k]], author_pool, publisher_pool, album_pool,
                  rows, k)
    BY <1>2, <1>3 DEF MetaKept, IX
  <2>2. Listed(rows, line, IX[k])
    BY <1>3 DEF Listed, IX
  <2>3. tmp[IX[k]].hash = IX[k]
    BY <1>2, <2>1, <2>2
  <2>4. PICK j \in 1 .. MetaSize : used[j] = tmp[IX[k]]
    BY <1>4, <1>5, <2>1, <2>3
  <2>. QED
    BY <2>1, <2>3, <2>4
<1>9. dir'.metadata = rows
  BY DEF rows
<1>. QED
  BY <1>4, <1>5, <1>6, <1>7, <1>8, <1>9 DEF MetasLoaded, IX

LEMMA MetaStep == TodoInv /\ LocalsInv /\ MetaInv /\ [Next]_vars => MetaInv'
<1>. SUFFICES ASSUME TodoInv, LocalsInv, MetaInv, [Next]_vars PROVE MetaInv'
  OBVIOUS
<1>0. dir \in Installs /\ dir' = dir /\ line' \in Nat \ {0} /\ LocalsInv'
  BY TodoStep, LocalsStep DEF TodoInv, Next, InitDb, HashRow, SonglengthsRow,
    ModinfosRow, MetadataRow, EndOfFile, vars
<1>1. ASSUME line' = 1, dir.metadata # None
      PROVE  MetasRead(dir.metadata)'
  <2>1. InitLocals'
    BY <1>0, <1>1 DEF LocalsInv
  <2>. QED
    BY <1>0, <1>1, <2>1, MetasAtFirstNext DEF MetasFirst
<1>2. ASSUME NEW sources \in SourceSets, InitDb(sources) PROVE MetaInv'
  <2>1. line' = 1 /\ UNCHANGED <<dir, initialized, db_metadata, poolVars>>
    BY <1>2 DEF InitDb, TodoInv, localVars, tableVars
  <2>. QED
    BY <1>0, <1>1, <2>1 DEF MetaInv, MetasLoaded, Loaded, poolVars
<1>3. CASE MetadataRow
  BY <1>3, MetadataRowStep
<1>4. CASE HashRow \/ SonglengthsRow \/ ModinfosRow
  <2>1. \E f \in DbFiles : Reading(f) /\ f # "metadata"
    BY <1>4 DEF HashRow, SonglengthsRow, ModinfosRow, DbFiles, Sources
  <2>2. ~Reading("metadata")
    BY <2>1, OpenIs DEF DbFiles, Sources
  <2>3. UNCHANGED <<dir, todo, initialized, db_metadata, poolVars>>
    BY <1>4 DEF HashRow, SonglengthsRow, ModinfosRow
  <2>. QED
    BY <2>2, <2>3 DEF poolVars, MetaInv, MetasLoaded, Reading, Loaded
<1>5. CASE EndOfFile
  <2>1. /\ initialized' = initialized \cup {Open} /\ todo # {}
        /\ line' = 1 /\ line > Len(Rows)
        /\ UNCHANGED <<dir, author_pool, publisher_pool, album_pool>>
        /\ db_metadata' = IF Open = "metadata" /\ dir[Open] # None
                          THEN Used(tmp) ELSE db_metadata
        /\ \/ dir[Open] = None \/ Open # "metadata"
           \/ Len(Used(tmp)) = MetaSize
    BY <1>5 DEF EndOfFile, poolVars
  <2>2. Open \in todo /\ Reading(Open) /\ "metadata" \in DbFiles
    BY <2>1, OpenIs DEF DbFiles, Sources
  <2>3. ASSUME Loaded("metadata")'
        PROVE  MetasLoaded(dir.metadata)'
    <3>1. "metadata" \in initialized' /\ dir.metadata # None
      BY <1>0, <2>3 DEF Loaded
    <3>2. CASE "metadata" \in initialized
      <4>1. Open # "metadata"
        BY <2>2, <3>2 DEF TodoInv
      <4>2. db_metadata' = db_metadata
        BY <2>1, <4>1
      <4>3. MetasLoaded(dir.metadata)
        BY <3>1, <3>2 DEF MetaInv, Loaded
      <4>4. UNCHANGED <<dir, author_pool, publisher_pool, album_pool>>
        BY <2>1
      <4>. QED
        BY <4>2, <4>3, <4>4 DEF MetasLoaded
    <3>3. CASE "metadata" \notin initialized
      <4>1. Open = "metadata"
        BY <2>1, <3>1, <3>3
      <4>2. MetasRead(dir.metadata)
        BY <2>2, <3>1, <4>1 DEF MetaInv
      <4>3. line > Len(dir.metadata) /\ line \in Nat
        BY <2>1, <3>1, <4>1 DEF Rows, TodoInv
      <4>4. db_metadata' = Used(tmp) /\ Len(Used(tmp)) = MetaSize
        BY <2>1, <3>1, <4>1
      <4>. QED
        BY <1>0, <2>1, <3>1, <4>2, <4>3, <4>4, MetadataEnds
    <3>. QED
      BY <3>2, <3>3
  <2>. QED
    BY <1>0, <1>1, <2>1, <2>3 DEF MetaInv
<1>6. CASE UNCHANGED vars
  BY <1>6 DEF vars, localVars, tableVars, poolVars, MetaInv, MetasRead,
    MetasLoaded, Reading, Loaded
<1>. QED
  BY <1>2, <1>3, <1>4, <1>5, <1>6 DEF Next

LEMMA InitRepeats == Init => LocalsInv /\ ModInv /\ MetaInv
<1>. SUFFICES ASSUME Init PROVE LocalsInv /\ ModInv /\ MetaInv
  OBVIOUS
<1>1. /\ todo = {} /\ initialized = {} /\ InitLocals
      /\ db_modinfos = [i \in Indices |-> NoMod]
      /\ format_pool = <<>> /\ author_pool = <<NoText>>
      /\ publisher_pool = <<>> /\ album_pool = <<>>
  BY DEF Init
<1>2. IsPool(<<>>) /\ IsPool(<<NoText>>)
  <2>1. <<>> \in Seq({NoText}) /\ <<NoText>> \in Seq({NoText})
    OBVIOUS
  <2>. QED
    BY <2>1 DEF IsPool
<1>3. StandsFor(<<NoText>>, 0, NoText)
  BY DEF StandsFor, Text, NotFound
<1>4. DOMAIN db_modinfos = Indices
  BY <1>1
<1>. QED
  BY <1>1, <1>2, <1>3, <1>4 DEF LocalsInv, ModInv, MetaInv, Reading, Loaded

LEMMA RepeatsAre ==
  Spec => [](TodoInv /\ HashInv /\ SongInv /\ ModInv /\ MetaInv)
<1>1. Init => TodoInv /\ LocalsInv /\ ModInv /\ MetaInv
  BY InitTables, InitRepeats
<1>2. TodoInv /\ LocalsInv /\ ModInv /\ MetaInv /\ [Next]_vars
        => (TodoInv /\ LocalsInv /\ ModInv /\ MetaInv)'
  BY TodoStep, LocalsStep, ModStep, MetaStep
<1>. QED
  BY <1>1, <1>2, TablesAre, PTL DEF Spec
------------------------------------------------------------------------------
(* The searches, and what the lookups tell                                 *)

(* _find finds the one entry of an index in the table, if there is one.    *)
LEMMA FindIs ==
  ASSUME MetasLoaded(dir.metadata), NEW i \in Indices
  PROVE  /\ \A j \in 1 .. MetaSize :
              db_metadata[j].hash = i => Find(i) = j - 1
         /\ (\A j \in 1 .. MetaSize : db_metadata[j].hash # i)
              => Find(i) = NotFound
<1>. DEFINE top == MetaSize - 1
            key == [j \in 0 .. top |-> db_metadata[j + 1].hash]
            from == Guess(i, MetaSize, Size)
<1>1. /\ \A j \in 1 .. MetaSize : db_metadata[j].hash \in Nat
      /\ \A p, q \in 1 .. MetaSize :
           p < q => db_metadata[p].hash < db_metadata[q].hash
  BY DEF MetasLoaded
<1>2. /\ MetaSize \in Nat \ {0} /\ Size \in Nat \ {0} /\ top \in Nat
      /\ i \in 0 .. Size - 1 /\ i \in Nat /\ ~(i >= Size)
  BY SizesAssumption DEF Indices
<1>3. from \in 0 .. top
  BY <1>2, GuessIsAPlace
<1>4. Find(i) = Walk(key, from, top, i)
  BY <1>2 DEF Find
<1>5. \A j \in 0 .. top : j + 1 \in 1 .. MetaSize
                          /\ key[j] = db_metadata[j + 1].hash
  BY <1>2
<1>6. key \in [0 .. top -> Nat]
  BY <1>1, <1>5
<1>7. ASSUME NEW p \in 0 .. top, NEW q \in 0 .. top, p < q
      PROVE  key[p] < key[q]
  <2>1. p + 1 < q + 1
    BY <1>7
  <2>. QED
    BY <1>1, <1>5, <2>1
<1>. HIDE DEF key, from
<1>8. /\ \A k \in 0 .. top : key[k] = i => Walk(key, from, top, i) = k
      /\ (\A k \in 0 .. top : key[k] # i)
           => Walk(key, from, top, i) = NotFound
  <2>. HIDE DEF top
  <2>. QED
    BY <1>2, <1>3, <1>6, <1>7, SearchIsCorrect
<1>9. ASSUME NEW j \in 1 .. MetaSize, db_metadata[j].hash = i
      PROVE  Find(i) = j - 1
  <2>1. j - 1 \in 0 .. top /\ (j - 1) + 1 = j
    BY <1>2
  <2>2. key[j - 1] = i
    BY <1>5, <1>9, <2>1
  <2>. QED
    BY <1>4, <1>8, <2>1, <2>2
<1>10. ASSUME \A j \in 1 .. MetaSize : db_metadata[j].hash # i
       PROVE  Find(i) = NotFound
  BY <1>4, <1>5, <1>8, <1>10
<1>. QED
  BY <1>9, <1>10

(* The hashes in the table are those of the rows.                          *)
LEMMA HashesAreTheRows ==
  ASSUME TodoInv, HashInv, Loaded("hash")
  PROVE  \A k \in 1 .. Size : HashOf(dir.hash)[k] = hash_idx[k - 1]
<1>. DEFINE rows == dir.hash
            h    == HashOf(rows)
<1>1. /\ dir \in Installs /\ rows # None /\ Size <= Len(rows) /\ Ascend(Size)
      /\ hash_idx[0] = 0 /\ Size \in Nat \ {0}
  BY SizesAssumption DEF TodoInv, HashInv, Loaded
<1>2. /\ Len(rows) \in Nat
      /\ \A k \in 2 .. Len(rows) :
           Diff(rows[k]) = Number(rows[k]) /\ Number(rows[k]) \in Nat
  BY <1>1, HashesAssumption, DiffIsNumber
<1>3. /\ \A k \in 1 .. Size - 1 : hash_idx[k] = hash_idx[k - 1]
                                                + Diff(rows[k + 1])
  BY <1>1 DEF Ascend
<1>. HIDE DEF rows
<1>4. /\ \A k \in 0 .. Len(rows) : k <= 1 => h[k] = 0
      /\ \A k \in 2 .. Len(rows) : h[k] = h[k - 1] + Number(rows[k])
  BY <1>2, HashOfIs
<1>. HIDE DEF h
<1>. DEFINE G == {k \in 0 .. Size - 1 : h[k + 1] = hash_idx[k]}
<1>5. 0 \in G
  <2>1. h[1] = 0
    BY <1>1, <1>2, <1>4
  <2>. QED
    BY <1>1, <2>1
<1>6. ASSUME NEW k \in 1 .. Size - 1, k - 1 \in G PROVE k \in G
  <2>1. h[k] = hash_idx[k - 1]
    BY <1>1, <1>6
  <2>2. k + 1 \in 2 .. Len(rows) /\ (k + 1) - 1 = k
    BY <1>1, <1>2
  <2>3. h[k + 1] = h[k] + Number(rows[k + 1])
    BY <1>4, <2>2
  <2>4. hash_idx[k] = hash_idx[k - 1] + Number(rows[k + 1])
    BY <1>2, <1>3, <2>2
  <2>5. k \in 0 .. Size - 1
    BY <1>1
  <2>. QED
    BY <2>1, <2>3, <2>4, <2>5
<1>7. \A k \in 0 .. Size - 1 : k \in G
  <2>1. Size - 1 \in Nat
    BY <1>1
  <2>. HIDE DEF G
  <2>. QED
    BY <1>5, <1>6, <2>1, AllUpTo
<1>8. ASSUME NEW k \in 1 .. Size PROVE h[k] = hash_idx[k - 1]
  <2>1. k - 1 \in 0 .. Size - 1 /\ (k - 1) + 1 = k
    BY <1>1
  <2>2. k - 1 \in G
    BY <1>7, <2>1
  <2>. QED
    BY <2>1, <2>2
<1>. QED
  BY <1>8 DEF h, rows

(* Whatever the files list, the searches find what they have, and nothing  *)
(* else: the guesses are places in the tables, the tables ascend, and they *)
(* have the hashes and the indices of all of the rows.                     *)
THEOREM SearchesAlwaysFind == Spec => []SearchFinds
<1>1. TodoInv /\ HashInv /\ MetaInv => SearchFinds
  <2>. SUFFICES ASSUME TodoInv, HashInv, MetaInv, Ready PROVE SearchFinds
    BY DEF SearchFinds
  <2>. DEFINE hashes == HashOf(dir.hash)
              Has(h, k) == k \in 1 .. Size /\ hashes[k] = h
  <2>1. ASSUME Loaded("hash"), NEW h \in 0 .. HashTop - 1
        PROVE  HashIdx(h) = IF \E k \in 1 .. Size : hashes[k] = h
                            THEN (CHOOSE k \in 1 .. Size : hashes[k] = h) - 1
                            ELSE NotFound
    <3>1. \A k \in 1 .. Size : hashes[k] = hash_idx[k - 1]
      BY <2>1, HashesAreTheRows
    <3>2. /\ \A k \in Indices : hash_idx[k] = h => HashIdx(h) = k
          /\ (\A k \in Indices : hash_idx[k] # h) => HashIdx(h) = NotFound
      BY <2>1, SortedHashesAreFound DEF HashesAreFound
    <3>3. /\ \A k \in 1 .. Size : k - 1 \in Indices
          /\ \A k \in Indices : k + 1 \in 1 .. Size /\ (k + 1) - 1 = k
      BY SizesAssumption DEF Indices
    <3>. HIDE DEF hashes
    <3>4. CASE \E k \in 1 .. Size : hashes[k] = h
      <4>. DEFINE c == CHOOSE k \in 1 .. Size : hashes[k] = h
      <4>1. c \in 1 .. Size /\ hashes[c] = h
        BY <3>4
      <4>. HIDE DEF c
      <4>2. HashIdx(h) = c - 1
        BY <3>1, <3>2, <3>3, <4>1
      <4>. QED
        BY <3>4, <4>2 DEF c
    <3>5. CASE ~ \E k \in 1 .. Size : hashes[k] = h
      <4>1. ASSUME NEW k \in Indices PROVE hash_idx[k] # h
        <5>1. k + 1 \in 1 .. Size /\ (k + 1) - 1 = k
          BY <3>3
        <5>2. hashes[k + 1] = hash_idx[k]
          BY <3>1, <5>1
        <5>. QED
          BY <3>5, <5>1, <5>2
      <4>. QED
        BY <3>2, <3>5, <4>1
    <3>. QED
      BY <3>4, <3>5
  <2>2. ASSUME Loaded("metadata"), NEW i \in Indices
        PROVE  (Find(i) # NotFound) = (\E k \in 1 .. Len(dir.metadata) :
                                         IndexOf(dir.metadata)[k] = i)
    <3>1. MetasLoaded(dir.metadata)
      BY <2>2 DEF MetaInv
    <3>2. /\ \A j \in 1 .. MetaSize :
               db_metadata[j].hash = i => Find(i) = j - 1
          /\ (\A j \in 1 .. MetaSize : db_metadata[j].hash # i)
               => Find(i) = NotFound
      BY <3>1, FindIs
    <3>3. (\E k \in 1 .. Len(dir.metadata) : IndexOf(dir.metadata)[k] = i)
            <=> \E j \in 1 .. MetaSize : db_metadata[j].hash = i
      BY <3>1 DEF MetasLoaded
    <3>4. \A j \in 1 .. MetaSize : j - 1 # NotFound
      BY SizesAssumption DEF NotFound
    <3>5. Find(i) # NotFound <=> \E j \in 1 .. MetaSize :
                                   db_metadata[j].hash = i
      BY <3>2, <3>4
    <3>. QED
      BY <3>3, <3>5
  <2>. QED
    BY <2>1, <2>2 DEF SearchFinds
<1>. QED
  BY <1>1, RepeatsAre, PTL

(* A lookup gives what the row of the song says, the columns that repeat   *)
(* being those of the last row that gives them, whatever the order of the  *)
(* rows and of the tables that init is asked for.                          *)
THEOREM LookupsAlwaysTellTheFiles == Spec => []LookupsTellTheFiles
<1>1. TodoInv /\ ModInv => ModAgrees
  <2>. SUFFICES
         ASSUME ModInv, Loaded("modinfos"), NEW k \in 1 .. Len(dir.modinfos)
         PROVE  LET rows   == dir.modinfos
                    format == TextOf(Stands(rows, k, "format"))
                    count  == CountOf(Stands(rows, k, "channels"))
                IN  MakeModinfo(IndexOf(rows)[k]) =
                      IF Gives(rows, k, "format") = {} /\ count = 0
                      THEN None ELSE [format |-> format, channels |-> count]
    BY DEF ModAgrees
  <2>. DEFINE rows   == dir.modinfos
              format == TextOf(Stands(rows, k, "format"))
              count  == CountOf(Stands(rows, k, "channels"))
              m      == db_modinfos[IndexOf(rows)[k]]
  <2>1. ModOf(m, format_pool, rows, k)
    BY DEF ModInv, ModKept
  <2>2. /\ Text(format_pool, m.format) = format
        /\ m.format = NotFound <=> Gives(rows, k, "format") = {}
        /\ m.channels = count /\ count \in Nat
    BY <2>1 DEF ModOf, StandsFor
  <2>3. MakeModinfo(IndexOf(rows)[k])
          = IF m.format # NotFound \/ m.channels > 0
            THEN [format |-> Text(format_pool, m.format),
                  channels |-> m.channels]
            ELSE None
    BY DEF MakeModinfo
  <2>. HIDE DEF rows, format, count, m
  <2>4. m.channels > 0 <=> count # 0
    BY <2>2
  <2>5. MakeModinfo(IndexOf(rows)[k]) =
          IF Gives(rows, k, "format") = {} /\ count = 0
          THEN None ELSE [format |-> format, channels |-> count]
    BY <2>2, <2>3, <2>4
  <2>. QED
    BY <2>5 DEF rows, format, count
<1>2. TodoInv /\ MetaInv => MetaAgrees
  <2>. SUFFICES
         ASSUME MetaInv, Loaded("metadata"), NEW k \in 1 .. Len(dir.metadata)
         PROVE  LET rows == dir.metadata IN
                MakeMeta(IndexOf(rows)[k]) =
                  [author    |-> TextOf(Stands(rows, k, "author")),
                   album     |-> TextOf(Stands(rows, k, "album")),
                   publisher |-> TextOf(Stands(rows, k, "publisher")),
                   year      |-> CountOf(Stands(rows, k, "year"))]
    BY DEF MetaAgrees
  <2>. DEFINE rows == dir.metadata
              i    == IndexOf(rows)[k]
  <2>1. MetasLoaded(dir.metadata)
    BY DEF MetaInv
  <2>2. PICK j \in 1 .. MetaSize :
          /\ db_metadata[j].hash = i /\ i \in Indices
          /\ MetaOf(db_metadata[j], author_pool, publisher_pool, album_pool,
                    rows, k)
    BY <2>1 DEF MetasLoaded
  <2>3. Find(i) = j - 1
    BY <2>1, <2>2, FindIs
  <2>4. Find(i) # NotFound /\ Find(i) + 1 = j
    BY <2>3, SizesAssumption DEF NotFound
  <2>. DEFINE m == db_metadata[j]
  <2>. HIDE DEF rows, i
  <2>5. MakeMeta(i) = [author    |-> Text(author_pool, m.author),
                       album     |-> Text(album_pool, m.album),
                       publisher |-> Text(publisher_pool, m.publisher),
                       year      |-> IF m.year > 0 THEN 1900 + m.year ELSE 0]
    BY <2>4 DEF MakeMeta
  <2>6. /\ Text(author_pool, m.author) = TextOf(Stands(rows, k, "author"))
        /\ Text(album_pool, m.album) = TextOf(Stands(rows, k, "album"))
        /\ Text(publisher_pool, m.publisher)
             = TextOf(Stands(rows, k, "publisher"))
        /\ (IF m.year > 0 THEN 1900 + m.year ELSE 0)
             = CountOf(Stands(rows, k, "year"))
    BY <2>2 DEF MetaOf, StandsFor
  <2>. HIDE DEF m
  <2>7. MakeMeta(i) = [author    |-> TextOf(Stands(rows, k, "author")),
                       album     |-> TextOf(Stands(rows, k, "album")),
                       publisher |-> TextOf(Stands(rows, k, "publisher")),
                       year      |-> CountOf(Stands(rows, k, "year"))]
    BY <2>5, <2>6
  <2>. QED
    BY <2>7 DEF rows, i
<1>3. SongAgrees /\ ModAgrees /\ MetaAgrees => LookupsTellTheFiles
  BY DEF LookupsTellTheFiles
<1>. QED
  BY <1>1, <1>2, <1>3, RepeatsAre, SongsTellTheFile, PTL
==============================================================================
