--------------------------- MODULE MCSongdbTables ----------------------------
(***************************************************************************)
(* Directories for five hashes: every ascending list of hashes made of     *)
(* five differences, one of them of six digits; every row of subsongs up   *)
(* to three before a single one; and, for three of the songs in any       *)
(* order, rows of every kind of modinfo and metadata.  One file at a time  *)
(* varies, or is missing.                                                  *)
(***************************************************************************)
EXTENDS SongdbTables

Digits[n \in 0 .. 63] == IF n < Base THEN <<n>>
                         ELSE Append(Digits[n \div Base], n % Base)

Differences == {d \in [1 .. 4 -> {1, 3, 8, 20, 33}] :
                  d[1] + d[2] + d[3] + d[4] <= HashTop}
HashFiles == {<<Digits[0]>> \o [k \in 1 .. 4 |-> Digits[d[k]]] :
                d \in Differences}

Sub(len, end, third) == [kind |-> "given", len |-> len, end |-> end,
                         third |-> third]
Short(kind) == [kind |-> kind, len |-> <<>>, end |-> None, third |-> None]
Givens  == {Sub(<<1>>, None, None), Sub(<<1, 0>>, "DETECT_SILENCE", None),
            Sub(<<1, 1>>, "DETECT_SILENCE", "!"), Sub(<<>>, "!", None)}
Others  == Givens \cup {Short("empty"), Short("!")}
Ones    == {<<g>> : g \in Givens}
Longest == <<Sub(Digits[LengthSize], None, None)>>
Twos    == {Append(r, e) : r \in Ones, e \in Others}
Threes  == {Append(r, e) : r \in Twos, e \in Others}
LengthRow(es, min) == [entries |-> es, min |-> min]
LastRows == [k \in 1 .. Size - 3 |-> LengthRow(<<Sub(<<1>>, None, None)>>, 0)]
LengthFiles ==
  {<<LengthRow(r, m), LengthRow(q, None)>> \o LastRows :
     r \in Ones \cup Twos \cup Threes \cup {Longest}, q \in Ones,
     m \in {None, 0, 7}}

(* rows for the songs of an order: the full ones, or those one after       *)
(* another by the difference                                               *)
Orders == {o \in [1 .. MetaSize -> 1 .. Size - 1] :
             \A j, k \in 1 .. MetaSize : o[j] = o[k] => j = k}
Delta(n) == [num |-> Digits[n], full |-> FALSE]
RowsFor(o, k, Full(_)) ==
  Full(o[k]) \cup IF o[k] > o[k - 1] THEN {Delta(o[k] - o[k - 1])} ELSE {}
FilesOf(First(_), Full(_)) ==
  UNION {{<<f, g, h>> : f \in First(o[1]), g \in RowsFor(o, 2, Full),
                        h \in RowsFor(o, 3, Full)} : o \in Orders}

Mod(n, f, c) == [num |-> Digits[n], full |-> TRUE, format |-> f,
                 channels |-> c]
ModFiles ==
  FilesOf(LAMBDA n : {Mod(n, "a", c) : c \in {None, 4}} \cup {Delta(n)},
          LAMBDA n : {Mod(n, f, c) : f \in {"b", Repeat},
                                     c \in {None, 8, Repeat}})

Meta(n, a, p, b, y) == [num |-> Digits[n], full |-> TRUE, author |-> a,
                        publisher |-> p, album |-> b, year |-> y]
Metas(n) == {Meta(n, "a", None, None, 1988), Meta(n, None, "p", "b", None)}
MetaFiles ==
  FilesOf(Metas,
          LAMBDA n : Metas(n) \cup
            {Meta(n, Repeat, "q", Repeat, 1990),
             Meta(n, "c", Repeat, Repeat, Repeat)})

Standard ==
  [hash        |-> <<<<0>>, <<1>>, <<1>>, <<1, 1>>, <<1>>>>,
   songlengths |-> <<LengthRow(<<Sub(<<1>>, None, None)>>, None),
                     LengthRow(<<Sub(<<1>>, None, None)>>, None)>> \o LastRows,
   modinfos    |-> <<Mod(1, "a", 4), Delta(1), Delta(2)>>,
   metadata    |-> <<Meta(2, "a", "p", "b", 1988), Delta(1), Delta(1)>>]
With(file, S) == {[Standard EXCEPT ![file] = rows] : rows \in S \cup {None}}

MCInstalls ==
  UNION {With("hash", HashFiles), With("songlengths", LengthFiles),
         With("modinfos", ModFiles), With("metadata", MetaFiles)}

MCSources == {Sources, {"modinfos"}}
==============================================================================
