----------------------------- MODULE SongdbTables -----------------------------
(***************************************************************************)
(* The built-in part of the song database (songdb.cc): init, which reads   *)
(* its files line by line into tables, and the lookups in these tables.    *)
(* The files that are installed are a constant; a text is a string, or     *)
(* None for an empty one, and a number is a sequence of digits, as the     *)
(* files have it.  What lookup falls back to is in module Songdb.          *)
(***************************************************************************)
EXTENDS TableSearch, Sequences, FiniteSetsExt

CONSTANTS
  None,         \* an empty column, no result, or a file that is missing
  Repeat,       \* REPEAT, the mark for the value of the row before
  HashTop,      \* HASH_T_MAX
  Size,         \* HASH_IDX_SIZE
  MetaSize,     \* METADATA_SIZE
  Base,         \* of the digits: 64
  LengthSize,   \* 2 to the 18, the bits of a length
  Installs,     \* the songdb directories the plugin may find
  SourceSets    \* the arguments init is called with

Sources == {"songlengths", "modinfos", "metadata"}

(* the files that init reads before a file, if it has to *)
Earlier == [hash        |-> {},
            songlengths |-> {"hash"},
            modinfos    |-> {"hash", "songlengths"},
            metadata    |-> {"hash", "songlengths", "modinfos"}]

(* A directory has a sequence of rows, or None, for each file:             *)
(*   hash         the difference to the hash before                        *)
(*   songlengths  [entries, min], an entry of a subsong being              *)
(*                [kind : "empty", "!" or "given", len, end, third]        *)
(*   modinfos     [num, full, format, channels]                            *)
(*   metadata     [num, full, author, publisher, album, year]              *)
(* where a row that is not full has nothing but the number.                *)
ASSUME InstallsAssumption ==
  \A d \in Installs : DOMAIN d = Sources \cup {"hash"}
ASSUME SourcesAssumption == SourceSets \subseteq (SUBSET Sources) \ {{}}
ASSUME SizesAssumption ==
  /\ Size \in Nat \ {0} /\ MetaSize \in Nat \ {0} /\ HashTop \in Nat \ {0}
  /\ Base \in Nat \ {0} /\ LengthSize \in Nat \ {0}

VARIABLES
  dir,            \* the directory
  todo,           \* the files init has still to read, the open one too
  line,           \* the number of the next line in it
  idx, format_t, channels, tmp,    \* locals of the parsers
  initialized,
  hash_idx,       \* index -> hash
  db_songinfos, db_subsongs, db_modinfos,    \* index -> entry
  db_metadata,    \* a sequence ordered by index
  format_pool, author_pool, publisher_pool, album_pool

localVars == <<line, idx, format_t, channels, tmp>>
poolVars  == <<author_pool, publisher_pool, album_pool>>
songVars  == <<db_songinfos, db_subsongs>>
modVars   == <<db_modinfos, format_pool>>
tableVars == <<hash_idx, songVars, modVars, db_metadata, poolVars>>
vars      == <<dir, todo, initialized, localVars, tableVars>>

Indices == 0 .. Size - 1

NoText == ""

(* the string, or the number, a column that may be empty gives *)
TextOf(v) == IF v = None THEN NoText ELSE v
CountOf(v) == IF v = None THEN 0 ELSE v

(* static storage is zero *)
NoSub  == [len |-> 0, end |-> "NONE", dup |-> FALSE]
NoSong == [has |-> FALSE, min |-> 0, info |-> NoSub]
NoMod  == [format |-> 0, channels |-> 0]
NoMeta == [hash |-> 0, author |-> 0, album |-> 0, publisher |-> 0, year |-> 0]

(* NotFound is STRING_NOT_FOUND, too. *)
InitLocals ==
  /\ line = 1 /\ idx = 0 /\ format_t = NotFound /\ channels = 0
  /\ tmp = [i \in Indices |-> NoMeta]

Init ==
  /\ dir \in Installs
  /\ todo = {} /\ initialized = {} /\ InitLocals
  /\ hash_idx = [i \in Indices |-> 0]
  /\ db_songinfos = [i \in Indices |-> NoSong]
  /\ db_subsongs = [i \in Indices |-> <<>>]
  /\ db_modinfos = [i \in Indices |-> NoMod]
  /\ db_metadata = [i \in 1 .. MetaSize |-> NoMeta]
  /\ format_pool = <<>> /\ author_pool = <<NoText>>
  /\ publisher_pool = <<>> /\ album_pool = <<>>
------------------------------------------------------------------------------
(* The numbers *)

Number(ds) ==
  LET n[i \in 0 .. Len(ds)] == IF i = 0 THEN 0 ELSE (n[i - 1] * Base) + ds[i]
  IN  n[Len(ds)]

(* b64diff2hash: six digits are more than 32 bits and come in two parts.   *)
Diff(ds) ==
  IF Len(ds) <= 5 THEN Number(ds)
  ELSE (Number(SubSeq(ds, 1, 3)) * Base * Base * Base)
         + Number(SubSeq(ds, 4, 6))

(* The index a row of modinfos or metadata is about, by the number of the  *)
(* row: its number, or so much more than that of the row before.           *)
IndexOf(rows) ==
  LET i[k \in 0 .. Len(rows)] ==
        IF k = 0 THEN 0
        ELSE IF rows[k].full THEN Number(rows[k].num)
        ELSE i[k - 1] + Number(rows[k].num)
  IN  i

IsNumber(ds) == ds \in Seq(0 .. Base - 1) /\ Len(ds) \in 1 .. 6

AreNumbered(rows) ==
  /\ \A k \in 1 .. Len(rows) :
       rows[k].full \in BOOLEAN /\ IsNumber(rows[k].num)
  /\ \A j, k \in 1 .. Len(rows) :
       IndexOf(rows)[j] = IndexOf(rows)[k] => j = k

(* A hash is so much more than the one before it, but for the first, which *)
(* is not read.                                                            *)
ASSUME HashesAssumption ==
  \A d \in Installs : d.hash # None =>
    /\ Len(d.hash) \in Nat
    /\ \A k \in 2 .. Len(d.hash) : IsNumber(d.hash[k])

(* A song has subsongs, the first of which is given; their numbers are     *)
(* bytes (uint8_t, as update asserts of those it adds).                    *)
ASSUME SonglengthsAssumption ==
  \A d \in Installs : d.songlengths # None =>
    \A k \in 1 .. Len(d.songlengths) :
      LET es  == d.songlengths[k].entries
          min == d.songlengths[k].min
      IN  /\ min \in Nat \cup {None}
          /\ Len(es) \in Nat \ {0} /\ es[1].kind = "given"
          /\ (IF min = None THEN 1 ELSE min) + Len(es) <= 256
          /\ \A j \in 1 .. Len(es) :
               /\ es[j].kind \in {"empty", "!", "given"}
               /\ es[j].kind = "given" => Number(es[j].len) \in Nat

(* Rows of modinfos and of metadata are about one song each.  The first of *)
(* metadata repeats nothing, and years fit in a byte.                      *)
ASSUME MarksAssumption == None # Repeat
ASSUME ModinfosAssumption ==
  \A d \in Installs : d.modinfos # None =>
    /\ Len(d.modinfos) \in Nat /\ AreNumbered(d.modinfos)
    /\ \A k \in 1 .. Len(d.modinfos) :
         d.modinfos[k].full =>
           d.modinfos[k].channels \in Nat \cup {None, Repeat}
ASSUME MetadataAssumption ==
  \A d \in Installs : d.metadata # None =>
    /\ Len(d.metadata) \in Nat /\ AreNumbered(d.metadata)
    /\ \A k \in 1 .. Len(d.metadata) :
         d.metadata[k].full =>
           d.metadata[k].year \in (1901 .. 2155) \cup {None, Repeat}
    /\ Len(d.metadata) > 0 =>
         /\ d.metadata[1].full
         /\ \A col \in {"author", "publisher", "album", "year"} :
              d.metadata[1][col] # Repeat
------------------------------------------------------------------------------
(* init and the four parsers; an assertion is a guard                      *)

Reading(file) == file \in todo /\ todo \cap Earlier[file] = {}
Open == CHOOSE file \in todo : Reading(file)
Rows == IF dir[Open] = None THEN <<>> ELSE dir[Open]
Row  == Rows[line]

InitDb(sources) ==
  /\ todo = {}
  /\ todo' = (sources \cup {"hash"}) \ initialized
  /\ UNCHANGED <<dir, initialized, localVars, tableVars>>

HashRow ==
  /\ Reading("hash") /\ line <= Len(Rows)
  /\ LET hash == IF line = 1 THEN 0 ELSE hash_idx[line - 2] + Diff(Row) IN
     /\ line > 1 => hash > hash_idx[line - 2]
     /\ hash_idx' = [hash_idx EXCEPT ![line - 1] = hash]
  /\ line' = line + 1
  /\ UNCHANGED <<dir, todo, initialized, idx, format_t, channels, tmp,
                 songVars, modVars, db_metadata, poolVars>>

(* A subsong's entry, given the one before it.  A third column is not read:*)
(* split_view<2> makes two columns of an entry of three.                   *)
Entry(before, e) ==
  CASE e.kind = "empty" -> [before EXCEPT !.dup = FALSE]
    [] e.kind = "!" -> [before EXCEPT !.dup = TRUE]
    [] OTHER -> [len |-> Number(e.len) % LengthSize,
                 end |-> IF e.end \in {None, "!"} THEN "PLAYER" ELSE e.end,
                 dup |-> e.end = "!"]

Entries(es) ==
  LET info[k \in 0 .. Len(es)] ==
        IF k = 0 THEN [NoSub EXCEPT !.end = "ERROR"]
        ELSE Entry(info[k - 1], es[k])
  IN  [k \in 1 .. Len(es) |-> info[k]]

SonglengthsRow ==
  /\ Reading("songlengths") /\ line <= Len(Rows)
  /\ line < Size
  /\ LET infos == Entries(Row.entries)
         min   == IF Row.min = None THEN 1 ELSE Row.min
     IN  /\ min <= 127
         /\ \A k \in 1 .. Len(Row.entries) :
              Row.entries[k].kind = "given" =>
                Number(Row.entries[k].len) <= LengthSize
         /\ db_songinfos' = [db_songinfos EXCEPT ![line] =
                [has |-> Len(infos) > 1, min |-> min, info |-> infos[1]]]
         /\ db_subsongs' = [db_subsongs EXCEPT ![line] = Tail(infos)]
  /\ line' = line + 1
  /\ UNCHANGED <<dir, todo, initialized, idx, format_t, channels, tmp,
                 hash_idx, modVars, db_metadata, poolVars>>

ModinfosRow ==
  /\ Reading("modinfos") /\ line <= Len(Rows)
  /\ idx' = IF Row.full THEN Number(Row.num) ELSE idx + Number(Row.num)
  /\ idx' < Size
  /\ IF Row.full /\ Row.format # Repeat
     THEN /\ format_t' = Len(format_pool)
          /\ format_pool' = Append(format_pool, TextOf(Row.format))
     ELSE UNCHANGED <<format_t, format_pool>>
  /\ channels' = IF ~Row.full \/ Row.channels = Repeat THEN channels
                 ELSE IF Row.channels = None THEN 0 ELSE Row.channels
  /\ db_modinfos' = [db_modinfos EXCEPT ![idx'] =
                       [format |-> format_t', channels |-> channels']]
  /\ line' = line + 1
  /\ UNCHANGED <<dir, todo, initialized, tmp, hash_idx, songVars,
                 db_metadata, poolVars>>

(* What parse_tsv_row makes of a column: the string's place in the pool.   *)
Place(text, before, empty, pool) ==
  CASE text = None   -> empty
    [] text = Repeat -> before
    [] OTHER         -> Len(pool)

Grown(pool, text) == IF text \in {None, Repeat} THEN pool
                                                ELSE Append(pool, text)

(* Mutant of TheRowBefore: the one before in the table, not in the file.   *)
TheEntryBefore(i) == tmp[IF i = 0 THEN 0 ELSE i - 1]

TheRowBefore(i) == tmp[idx]

MetadataRow ==
  /\ Reading("metadata") /\ line <= Len(Rows)
  /\ Number(Row.num) \in 1 .. Size - 1
  /\ LET n    == Number(Row.num)
         i    == IF Row.full THEN n ELSE tmp[idx].hash + n
         prev == TheRowBefore(i)
     IN
     /\ i \in 1 .. Size - 1
     /\ idx' = i
     /\ IF ~Row.full
        THEN /\ tmp' = [tmp EXCEPT ![i] = [prev EXCEPT !.hash = i]]
             /\ UNCHANGED poolVars
        ELSE /\ tmp' = [tmp EXCEPT ![i] =
                  [hash |-> i,
                   author |-> Place(Row.author, prev.author, 0, author_pool),
                   publisher |-> Place(Row.publisher, prev.publisher,
                                       NotFound, publisher_pool),
                   album |-> Place(Row.album, prev.album, NotFound,
                                   album_pool),
                   year |-> CASE Row.year = None   -> 0
                              [] Row.year = Repeat -> prev.year
                              [] OTHER -> (Row.year - 1900) % 256]]
             /\ author_pool' = Grown(author_pool, Row.author)
             /\ publisher_pool' = Grown(publisher_pool, Row.publisher)
             /\ album_pool' = Grown(album_pool, Row.album)
  /\ line' = line + 1
  /\ UNCHANGED <<dir, todo, initialized, format_t, channels, hash_idx,
                 songVars, modVars, db_metadata>>

(* the entries that were filled, in the order of the indices *)
Used(entries) ==
  LET db[j \in 0 .. Size] ==
        IF j = 0 THEN <<>>
        ELSE IF entries[j - 1].hash > 0 THEN Append(db[j - 1], entries[j - 1])
        ELSE db[j - 1]
  IN  db[Size]

(* The end of a file, or no such file: either way it counts as read.       *)
EndOfFile ==
  /\ todo # {} /\ line > Len(Rows)
  /\ LET file == Open
         used == Used(tmp)
     IN  /\ \/ dir[file] = None
            \/ file = "modinfos"
            \/ file = "hash" /\ line - 1 = Size
            \/ file = "songlengths" /\ line = Size
            \/ file = "metadata" /\ Len(used) = MetaSize
         /\ db_metadata' = IF file = "metadata" /\ dir[file] # None
                           THEN used ELSE db_metadata
         /\ initialized' = initialized \cup {file}
  /\ todo' = todo \ {Open}
  /\ line' = 1 /\ idx' = 0 /\ format_t' = NotFound /\ channels' = 0
  /\ tmp' = [i \in Indices |-> NoMeta]
  /\ UNCHANGED <<dir, hash_idx, songVars, modVars, poolVars>>

Next ==
  \/ \E sources \in SourceSets : InitDb(sources)
  \/ HashRow \/ SonglengthsRow \/ ModinfosRow \/ MetadataRow
  \/ EndOfFile

Spec == Init /\ [][Next]_vars
------------------------------------------------------------------------------
(* The lookups *)

(* assert(idx < HASH_IDX_SIZE) fails for HASH_T_MAX itself. *)
HashIdx(hash) ==
  Walk(hash_idx, Guess(hash, Size, HashTop), Size - 1, hash)

Find(i) ==
  IF i >= Size THEN NotFound
  ELSE Walk([j \in 0 .. MetaSize - 1 |-> db_metadata[j + 1].hash],
            Guess(i, MetaSize, Size), MetaSize - 1, i)

(* make_format, make_author, make_publisher, make_album *)
Text(pool, s) == IF s = NotFound THEN NoText ELSE pool[s + 1]

MakeModinfo(i) ==
  LET m == db_modinfos[i]
  IN  IF m.format # NotFound \/ m.channels > 0
      THEN [format |-> Text(format_pool, m.format), channels |-> m.channels]
      ELSE None

MakeMeta(i) ==
  LET m == db_metadata[Find(i) + 1]
  IN  IF Find(i) = NotFound THEN None
      ELSE [author    |-> Text(author_pool, m.author),
            album     |-> Text(album_pool, m.album),
            publisher |-> Text(publisher_pool, m.publisher),
            year      |-> IF m.year > 0 THEN 1900 + m.year ELSE 0]

(* in units of 20 ms, as the files have it *)
MakeSubsong(s, info) == [subsong |-> s, info |-> info]

(* lookup(hash)'s subsongs *)
LookupSongs(i) ==
  LET song == db_songinfos[i]
      more == IF song.has THEN db_subsongs[i] ELSE <<>>
  IN  <<MakeSubsong(song.min, song.info)>>
        \o [k \in 1 .. Len(more) |->
             MakeSubsong((song.min + k) % 256, more[k])]

(* Mutant of LookupSong: the last subsong is out of range.                 *)
LookupSongShort(i, s) ==
  LET song == db_songinfos[i]
      more == db_subsongs[i]
  IN  IF s = song.min THEN MakeSubsong(s, song.info)
      ELSE IF s < song.min \/ ~song.has \/ song.min + Len(more) <= s
           THEN None ELSE MakeSubsong(s, more[s - song.min])

(* lookup(hash, subsong) *)
LookupSong(i, s) ==
  LET song == db_songinfos[i]
      more == db_subsongs[i]
  IN  IF s = song.min THEN MakeSubsong(s, song.info)
      ELSE IF s < song.min \/ ~song.has \/ song.min + Len(more) < s
           THEN None ELSE MakeSubsong(s, more[s - song.min])
------------------------------------------------------------------------------
(* What the files say                                                      *)

Loaded(file) == file \in initialized /\ dir[file] # None

(* the hash of each row *)
HashOf(rows) ==
  LET h[k \in 0 .. Len(rows)] ==
        IF k <= 1 THEN 0 ELSE h[k - 1] + Number(rows[k])
  IN  h

(* What a column of the k-th row stands for: what the last row up to it    *)
(* gives that does not repeat another.                                     *)
Gives(rows, k, col) ==
  {j \in 1 .. k : rows[j].full /\ rows[j][col] # Repeat}
Stands(rows, k, col) ==
  IF Gives(rows, k, col) = {} THEN None
  ELSE rows[Max(Gives(rows, k, col))][col]

(* An entry marks its subsong as a duplicate by itself, in place of an end *)
(* or after one.                                                           *)
ThirdMark(e) == e.kind = "given" /\ e.third = "!"
Marked(e) == e.kind = "!" \/ (e.kind = "given" /\ "!" \in {e.end, e.third})

(* The text an entry of a row of songlengths repeats, or is. *)
Given(es, k) == es[Max({j \in 1 .. k : es[j].kind = "given"})]

Ready == todo = {}

(* The interpolating searches find what is in their tables, and nothing    *)
(* else, whatever hashes the files list.                                   *)
SearchFinds ==
  /\ Ready /\ Loaded("hash") =>
       LET hashes == HashOf(dir.hash) IN
       \A h \in 0 .. HashTop - 1 :
         HashIdx(h) = IF \E k \in 1 .. Size : hashes[k] = h
                      THEN (CHOOSE k \in 1 .. Size : hashes[k] = h) - 1
                      ELSE NotFound
  /\ Ready /\ Loaded("metadata") =>
       \A i \in Indices :
         (Find(i) # NotFound) = (\E k \in 1 .. Len(dir.metadata) :
                                   IndexOf(dir.metadata)[k] = i)

(* lookup(hash, subsong) is what lookup(hash) lists for the subsong.       *)
LookupsAgree ==
  Ready /\ Loaded("songlengths") =>
    \A i \in Indices \ {0} :
      LET songs == LookupSongs(i) IN
      \A s \in 0 .. songs[1].subsong + Len(songs) + 1 :
        LookupSong(i, s) = IF \E k \in 1 .. Len(songs) : songs[k].subsong = s
                           THEN songs[CHOOSE k \in 1 .. Len(songs) :
                                        songs[k].subsong = s]
                           ELSE None

(* A lookup gives what the row of the song says, whatever has to be taken  *)
(* from the rows before it and in whatever order they come, but for two    *)
(* things.  A length of 2 to the 18 passes the assertion, but not the 18   *)
(* bits it is kept in, and whether a song is a duplicate is not claimed of *)
(* an entry with a mark in a third column: `e.size() > 2 && e[2] == "!"`   *)
(* (songdb.cc:310) is never true, so that the mark is lost.  A song has no *)
(* modinfo if no row up to its own gives any: the first rows of the file   *)
(* that is installed are of such songs.                                    *)
SongAgrees ==
  Loaded("songlengths") =>
    \A i \in 1 .. Size - 1 :
      LET es == dir.songlengths[i].entries IN
      \A k \in 1 .. Len(es) :
        LET info == LookupSongs(i)[k].info
            text == Given(es, k)
        IN  /\ Len(LookupSongs(i)) = Len(es)
            /\ info.len = IF Number(text.len) = LengthSize
                          THEN 0 ELSE Number(text.len)
            /\ info.end = IF text.end \in {None, "!"} THEN "PLAYER"
                                                      ELSE text.end
            /\ ~ThirdMark(es[k]) => info.dup = Marked(es[k])

ModAgrees ==
  Loaded("modinfos") =>
    LET rows == dir.modinfos IN
    \A k \in 1 .. Len(rows) :
      LET format == TextOf(Stands(rows, k, "format"))
          count  == CountOf(Stands(rows, k, "channels"))
      IN  MakeModinfo(IndexOf(rows)[k]) =
            IF Gives(rows, k, "format") = {} /\ count = 0
            THEN None ELSE [format |-> format, channels |-> count]

MetaAgrees ==
  Loaded("metadata") =>
    LET rows == dir.metadata IN
    \A k \in 1 .. Len(rows) :
      MakeMeta(IndexOf(rows)[k]) =
        [author    |-> TextOf(Stands(rows, k, "author")),
         album     |-> TextOf(Stands(rows, k, "album")),
         publisher |-> TextOf(Stands(rows, k, "publisher")),
         year      |-> CountOf(Stands(rows, k, "year"))]

LookupsTellTheFiles == Ready => SongAgrees /\ ModAgrees /\ MetaAgrees
==============================================================================
