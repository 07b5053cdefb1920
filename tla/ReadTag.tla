------------------------------- MODULE ReadTag -------------------------------
(***************************************************************************)
(* UADEPlugin::read_tag of the Audacious plugin.  The host's scanner calls *)
(* it on several threads at a time, with a subsong to read the tags of it, *)
(* or without one (a probe) to list the subsongs of a file.  What one call *)
(* measures is left in the song database for the next.                     *)
(*                                                                         *)
(* Files that is_blacklisted_hash turns away at once are not among Files.  *)
(***************************************************************************)
EXTENDS Songdb

CONSTANTS
  Threads,       \* the host's scanner threads
  PLAYER_all,    \* all players are built in
  SkipBroken     \* the setting skip_broken_subsongs

ASSUME ReadTagAssumption ==
  /\ PLAYER_all \in BOOLEAN
  /\ SkipBroken \in BOOLEAN

VARIABLES
  pc,       \* where each thread is in its call
  file, sub,  \* what it was called with
  needfix,  \* ... or not: the subsong is no part of the uri
  quick,    \* for_playback, or precalc_songlengths is off
  range,    \* info: minsubsong .. maxsubsong
  found,    \* songinfo or songend
  tuple,    \* the length and the comment of the tuple
  list      \* the subtunes in the tuple

callVars == <<file, sub, needfix, quick, range, found, tuple, list>>
vars     == <<dbVars, callVars, pc>>

Goto(t, from, to) ==
  /\ pc[t] = from
  /\ pc' = [pc EXCEPT ![t] = to]

AnyFile == CHOOSE f \in Files : TRUE

Init ==
  /\ InitDb
  /\ pc = [t \in Threads |-> "idle"]
  /\ file = [t \in Threads |-> AnyFile]
  /\ sub = [t \in Threads |-> 0]
  /\ needfix = [t \in Threads |-> FALSE]
  /\ quick = [t \in Threads |-> FALSE]
  /\ range = [t \in Threads |-> {}]
  /\ found = [t \in Threads |-> "absent"]
  /\ tuple = [t \in Threads |-> "none"]
  /\ list = [t \in Threads |-> {}]
------------------------------------------------------------------------------
(* Listing the subsongs *)

CallProbe(t, f) ==
  /\ Goto(t, "idle", "probe")
  /\ file' = [file EXCEPT ![t] = f]
  /\ UNCHANGED <<dbVars, sub, needfix, quick, range, found, tuple, list>>

(* min_songlength works like skip_broken_subsongs, with its own notion of  *)
(* what is too short.                                                      *)
Skipped(f, s) ==
  SkipBroken /\ InfoEntry(f, s) \in {"broken", "duplicate", "NONE"}

FirstOf(S) == CHOOSE s \in S : \A x \in S : s <= x

(* update_tuple_subsong_range, where info has the subsongs lookup returned *)
Subtunes(f, all) ==
  LET subs == InfoSubsongs(f)
      kept == {s \in subs : ~Skipped(f, s)}
  IN  IF Cardinality(subs) > 1
      THEN IF kept # {} THEN kept ELSE {FirstOf(subs)}
      ELSE all

(* The short cut: the song database alone, for a single subsong. *)
SingleInDb(f) == PLAYER_all /\ Cardinality(InfoSubsongs(f)) = 1

ProbeDb(t) ==
  LET f == file[t] IN
  /\ Goto(t, "probe", IF SingleInDb(f) THEN "listed" ELSE "parseList")
  /\ list' = IF SingleInDb(f)
             THEN [list EXCEPT ![t] = Subtunes(f, InfoSubsongs(f))] ELSE list
  /\ UNCHANGED <<dbVars, file, sub, needfix, quick, range, found, tuple>>

(* parse_info's range: the song database's if it has everything, and else  *)
(* what the player says of the file.                                       *)
InfoRange(f) ==
  IF PLAYER_all /\ f.single /\ InfoModinfo(f) /\ InfoSubsongs(f) # {}
  THEN InfoSubsongs(f) ELSE f.range

ProbeFile(t) ==
  LET f == file[t] IN
  /\ Goto(t, "parseList", "listed")
  /\ list' = [list EXCEPT ![t] = Subtunes(f, InfoRange(f))]
  /\ UNCHANGED <<dbVars, file, sub, needfix, quick, range, found, tuple>>
------------------------------------------------------------------------------
(* Reading the tags of a subsong *)

(* The subsong of a uri without one, or with one that is a part of the     *)
(* name of the file, is the first one lookup knows of; without any the     *)
(* calls fail.                                                             *)
applySubsongHack(f) ==
  IF InfoSubsongs(f) = {} THEN -1 ELSE FirstOf(InfoSubsongs(f))

CallRead(t, f, s, fix) ==
  /\ Goto(t, "idle", "parse")
  /\ IF fix THEN s = applySubsongHack(f) ELSE s \in f.range \cup f.db
  /\ file' = [file EXCEPT ![t] = f]
  /\ sub' = [sub EXCEPT ![t] = s]
  /\ needfix' = [needfix EXCEPT ![t] = fix]
  /\ \E q \in BOOLEAN : quick' = [quick EXCEPT ![t] = q]
  /\ UNCHANGED <<dbVars, range, found, tuple, list>>

(* parse_info *)
Parse(t) ==
  /\ Goto(t, "parse", "lookup")
  /\ range' = [range EXCEPT ![t] = InfoRange(file[t])]
  /\ UNCHANGED <<dbVars, file, sub, needfix, quick, found, tuple, list>>

(* update_tuple_songdb: a duplicate has a comment, and a length, too *)
SongdbTuple(known) == IF known = "broken" THEN "invalid" ELSE "length"

(* update_tuple_song_end *)
SongEndTuple(known) == IF known = "good" THEN "length" ELSE "invalid"

(* update_tuple, and the decision to precalculate *)
Lookup(t) ==
  LET info == LookupSong(file[t], sub[t]) IN
  /\ Goto(t, "lookup", IF info # "absent" \/ quick[t] THEN "tagged"
                                                      ELSE "precalc")
  /\ tuple' = [tuple EXCEPT ![t] =
                 IF info # "absent" THEN SongdbTuple(info) ELSE @]
  /\ UNCHANGED <<dbVars, file, sub, needfix, quick, range, found, list>>

(* precalc_song_end plays the subsong, without any lock *)
Precalc(t) ==
  LET known == Measure(file[t], sub[t]) IN
  /\ Goto(t, "precalc", "update")
  /\ found' = [found EXCEPT ![t] = known]
  /\ tuple' = [tuple EXCEPT ![t] = SongEndTuple(known)]
  /\ UNCHANGED <<dbVars, file, sub, needfix, quick, range, list>>

Update(t) ==
  /\ Goto(t, "update", "updateMod")
  /\ UpdateSong(file[t], sub[t], found[t], range[t])
  /\ UNCHANGED callVars

UpdateModinfo(t) ==
  /\ Goto(t, "updateMod", "tagged")
  /\ UpdateMod(file[t])
  /\ UNCHANGED callVars

(* The call returns; the thread forgets it. *)
Return(t) ==
  /\ pc[t] \in {"listed", "tagged"}
  /\ pc' = [pc EXCEPT ![t] = "idle"]
  /\ file' = [file EXCEPT ![t] = AnyFile]
  /\ sub' = [sub EXCEPT ![t] = 0]
  /\ needfix' = [needfix EXCEPT ![t] = FALSE]
  /\ quick' = [quick EXCEPT ![t] = FALSE]
  /\ range' = [range EXCEPT ![t] = {}]
  /\ found' = [found EXCEPT ![t] = "absent"]
  /\ tuple' = [tuple EXCEPT ![t] = "none"]
  /\ list' = [list EXCEPT ![t] = {}]
  /\ UNCHANGED dbVars
------------------------------------------------------------------------------
Step(t) ==
  \/ ProbeDb(t) \/ ProbeFile(t)
  \/ Parse(t) \/ Lookup(t) \/ Precalc(t) \/ Update(t) \/ UpdateModinfo(t)

Calls(t) ==
  \E f \in Files :
    \/ CallProbe(t, f)
    \/ \E s \in Subsongs, fix \in BOOLEAN : CallRead(t, f, s, fix)

Next == \E t \in Threads : Calls(t) \/ Step(t) \/ Return(t)

Spec == Init /\ [][Next]_vars
------------------------------------------------------------------------------
(* What the song database has learned it neither changes nor forgets,      *)
(* whichever of two concurrent precalculations comes last.                 *)
NothingForgotten ==
  [][\A f \in Files, s \in Subsongs :
       /\ extra_subsongs[f][s] \in Known =>
            extra_subsongs'[f][s] = extra_subsongs[f][s]
       /\ extra_subsongs[f][s] # "absent" => extra_subsongs'[f][s] # "absent"
    ]_vars

(* The search in update finds the subsong (its assert(false) is not        *)
(* reached), also when another thread has made the vector meanwhile.       *)
UpdateAlwaysFinds ==
  \A t \in Threads : pc[t] = "update" => UpdateFinds(file[t], sub[t])

(* What is stored of a file covers exactly the subsongs it has, is stored  *)
(* before its modinfo, and is true.                                        *)
StoredAgrees ==
  /\ UpdateAlwaysFinds
  /\ \A f \in Files :
       /\ Stored(f) \in {{}, f.range}
       /\ f \in extra_modinfos => Stored(f) # {}
       /\ \A s \in Subsongs :
            extra_subsongs[f][s] \in Known =>
              extra_subsongs[f][s] = Measure(f, s)

(* make_info reads the modinfo of what lookup returned: there is one.      *)
MakeInfoHasModinfo ==
  \A t \in Threads :
    pc[t] = "probe" /\ SingleInDb(file[t]) => InfoModinfo(file[t])
==============================================================================
