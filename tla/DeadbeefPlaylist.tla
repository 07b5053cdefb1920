-------------------------- MODULE DeadbeefPlaylist ---------------------------
(***************************************************************************)
(* The DeaDBeeF plugin between a file and a stream: uade_insert makes the  *)
(* items of a playlist, with the lengths the song database or a            *)
(* precalculation has for them; uade_init starts a stream on an item and   *)
(* measures one whose length nobody knows yet.                             *)
(*                                                                         *)
(* The host is external: it inserts files at the end of its playlist, on   *)
(* another thread than the one that plays.  An insertion shares nothing    *)
(* with the calls of a stream that runs, so its steps are only interleaved *)
(* with what happens between two streams.  The settings are read at every  *)
(* use and may be others each time.                                        *)
(***************************************************************************)
EXTENDS DeadbeefStream, PlayerChecks

CONSTANTS
  Modules,      \* the files
  Saved,        \* the playlists the host may start with
  MinLengths,   \* values of min_songlength, in s
  MaxItems      \* bound: no more files are inserted into a longer playlist

(* What precalc_song_end makes of a subsong: 0 if it is silent, broken or  *)
(* does not play.                                                          *)
Subsong == [song : Songs, length : Nat, is_duplicate : BOOLEAN]

Module ==
  [file   : ModuleFile,
   listed : BOOLEAN,       \* is_blacklisted_hash
   db     : BOOLEAN,       \* the song database has it
   subs   : Seq(Subsong)]  \* from minsubsong on

(* A playlist item, with the duration in ms; negative if it is not set.    *)
PlaylistItem ==
  [module   : Modules,
   sub      : Nat,                         \* the place of the subsong
   player   : Players \cup {"NONE"},
   duration : Int,
   songend  : {"none", "yes", "dup"},    \* none, one, of a duplicate
   measured : Nat]                         \* history: how often it has been

Unset == -1000

Item(m, s, p) ==
  [module |-> m, sub |-> s, player |-> p, duration |-> Unset,
   songend |-> "none", measured |-> 0]

(* known_timeout: ms that have been s in single precision lose one at times *)
KnownTimeout(duration) ==
  IF duration > 0 THEN {duration, duration - 1} ELSE {duration}

ASSUME ModulesAssumption ==
  /\ Modules \subseteq Module
  /\ \A m \in Modules :
       /\ m.subs # <<>>
       /\ \A k \in DOMAIN m.subs :
            KnownTimeout(m.subs[k].length) \subseteq KnownTimeouts
  /\ Unset \in KnownTimeouts
ASSUME SavedAssumption ==
  /\ Saved \subseteq Seq(PlaylistItem)
  /\ \A list \in Saved : \A i \in DOMAIN list :
       \E m \in Modules : \E s \in DOMAIN m.subs :
         list[i] = Item(m, s, "NONE")
ASSUME PlaylistBounds == MinLengths \subseteq Nat /\ MaxItems \in Nat

VARIABLES
  playlist,   \* the items
  todo,       \* the insertion in progress
  current,    \* the item the stream was started on
  asked       \* history: its duration when it was

listVars  == <<playlist, todo, current, asked>>
allVars   == <<vars, listVars>>

NoTodo == [next |-> 0]
NoItem == 0

PInit ==
  /\ Init
  /\ song = CHOOSE s \in Songs : TRUE
  /\ known = CHOOSE k \in KnownTimeouts : TRUE
  /\ playlist \in Saved
  /\ todo = NoTodo
  /\ current = NoItem /\ asked = Unset
------------------------------------------------------------------------------
(* uade_insert *)

(* up to the loop over the subsongs: files that cannot be read, that no    *)
(* player knows, that are blacklisted or do not parse insert nothing       *)
InsertBegin(m) ==
  /\ todo = NoTodo /\ Len(playlist) < MaxItems
  /\ life \notin {"failed", "ready"}
  /\ check(m.file) # {} /\ ~m.listed /\ FirstThatParses(m.file) # "NONE"
  /\ \E skip_broken \in BOOLEAN, min_length \in MinLengths :
       todo' = [next |-> 1, module |-> m, skip_broken |-> skip_broken,
                min_length |-> min_length]
  /\ UNCHANGED <<vars, playlist, current, asked>>

(* Only what the song database tells can be a reason to skip a subsong.    *)
Skips(ss) ==
  /\ todo.module.db
  /\ \/ /\ todo.skip_broken
        /\ \/ ss.length = 0 \/ ss.is_duplicate
           \/ ss.length >= 1000 * PrecalcTimeout
     \/ todo.min_length > 0 /\ ss.length < 1000 * todo.min_length

(* pl_add_meta of songend, and plt_set_item_duration *)
WithSongEnd(it, ss, mark) ==
  [it EXCEPT !.songend = mark, !.duration = ss.length]

(* The length of a new item: from the song database, or precalculated, or  *)
(* unknown.                                                                *)
NewItems(ss) ==
  LET m  == todo.module
      it == Item(m, todo.next, FirstThatParses(m.file))
  IN  IF m.db
      THEN {WithSongEnd(it, ss, IF ss.is_duplicate THEN "dup" ELSE "yes")}
      ELSE {[WithSongEnd(it, ss, "yes") EXCEPT !.measured = 1], it}

InsertSubsong ==
  /\ todo # NoTodo
  /\ life \notin {"failed", "ready"}
  /\ LET ss == todo.module.subs[todo.next] IN
     IF Skips(ss) THEN UNCHANGED playlist
     ELSE \E it \in NewItems(ss) : playlist' = Append(playlist, it)
  /\ todo' = IF todo.next < Len(todo.module.subs)
             THEN [todo EXCEPT !.next = @ + 1] ELSE NoTodo
  /\ UNCHANGED <<vars, current, asked>>
------------------------------------------------------------------------------
(* uade_init, of the item at i *)

SubsongOf(it) == it.module.subs[it.sub]

(* Items of other makes have no name of a player. *)
PlayerOf(it) ==
  IF it.player # "NONE" THEN it.player ELSE FirstThatParses(it.module.file)

(* Mutant of Lacking: that it has been measured does not count.            *)
LackingLength(it) == it.duration <= 0

(* The length is looked for if neither it nor a songend is known.          *)
Lacking(it) == it.duration <= 0 /\ it.songend = "none"

Measured(it) ==
  [WithSongEnd(it, SubsongOf(it), "yes") EXCEPT !.measured = @ + 1]

(* With precalc_songlengths and a current playlist, an item that lacks its *)
(* length gets it, if it still parses.                                     *)
MeasureItem(i) ==
  LET it == playlist[i] IN
  \/ UNCHANGED playlist
  \/ /\ Lacking(it) /\ parse(it.module.file, PlayerOf(it))
     /\ playlist' = [playlist EXCEPT ![i] = Measured(it)]

(* Mutant of InitItem: known_timeout is in s.                              *)
InitItemSeconds(i) ==
  LET it == playlist[i] IN
  /\ PlayerOf(it) # "NONE" /\ play(it.module.file, PlayerOf(it))
  /\ MeasureItem(i)
  /\ InitOk(SubsongOf(it).song, it.duration \div 1000)
  /\ current' = i /\ asked' = it.duration
  /\ UNCHANGED todo

(* known_timeout is what the duration was before the item was measured.    *)
InitItem(i) ==
  LET it == playlist[i] IN
  /\ PlayerOf(it) # "NONE" /\ play(it.module.file, PlayerOf(it))
  /\ MeasureItem(i)
  /\ \E timeout \in KnownTimeout(it.duration) :
       InitOk(SubsongOf(it).song, timeout)
  /\ current' = i /\ asked' = it.duration
  /\ UNCHANGED todo

(* The file cannot be read, has no player, or does not parse or play.      *)
InitItemFails(i) ==
  LET it == playlist[i] IN
  /\ InitFails
  /\ \/ UNCHANGED playlist
     \/ PlayerOf(it) # "NONE" /\ ~play(it.module.file, PlayerOf(it))
        /\ MeasureItem(i)
  /\ UNCHANGED <<todo, current, asked>>
------------------------------------------------------------------------------
Stream ==
  \/ Open \/ Free
  \/ ReadNothing \/ \E n \in ReadSizes : ReadBegin(n)
  \/ \E ms \in SeekTargets : SeekBegin(ms)
  \/ Call

PNext ==
  \/ \E m \in Modules : InsertBegin(m)
  \/ InsertSubsong
  \/ \E i \in DOMAIN playlist : InitItem(i) \/ InitItemFails(i)
  \/ Stream /\ UNCHANGED listVars

PSpec     == PInit /\ [][PNext]_allVars
PFairSpec == PSpec /\ WF_allVars(Call /\ UNCHANGED listVars)
------------------------------------------------------------------------------
(* The playlist tells the truth about the files it has been filled with:   *)
(* an item has a songend and the length that goes with it, or neither; is  *)
(* measured at most once, however often it is played and whatever came of  *)
(* it; and has a player that can parse its file.                           *)
ItemsTellTheFile ==
  \A i \in DOMAIN playlist :
    LET it == playlist[i] IN
    /\ it.measured <= 1
    /\ it.songend # "none" => it.duration = SubsongOf(it).length
    /\ it.songend = "none" => it.duration = Unset
    /\ it.player # "NONE" => parse(it.module.file, it.player)

(* A song that the playlist has a length for is played to that length or   *)
(* to its end, to the buffer and the ms; one without a length is, too,     *)
(* the next time, but goes on to the limit while it is being measured.     *)
PlayedToItsLength ==
  LET shown == IF asked > 0 THEN asked ELSE 1000 * PrecalcTimeout
      lasts == 1000 * song.frames
      Ms(n) == n * Freq     \* in readpos' unit
      Over  == /\ life = "ready" /\ pc = "idle" /\ seeks = 0
               /\ eof /\ ~lost /\ known # 0
  IN  Over =>
        /\ readpos < Ms(shown) + 1000 * BufFrames
        /\ \/ readpos + 1000 * BufFrames >= lasts
           \/ readpos + Ms(1) + 1000 > Ms(shown)
==============================================================================
