------------------------------- MODULE Songdb --------------------------------
(***************************************************************************)
(* The song database of songdb.cc as the plugins see it: a read-only part  *)
(* loaded from files, and a part that grows at run time under extra_mutex. *)
(* Every operation holds the mutex from its first access to the run-time   *)
(* part to its last, so each is one step.                                  *)
(*                                                                         *)
(* A file stands for its hash.  Loading and searching the read-only part   *)
(* is modelled in SongdbTables; here db is what it yields for the file.    *)
(***************************************************************************)
EXTENDS Integers, FiniteSets

CONSTANTS
  Files,      \* the module files
  Subsongs    \* the subsong numbers

(* What is known of a subsong.  A broken one has length 0, a failing one   *)
(* ends with an error after a while; NONE is the placeholder of one that   *)
(* was not measured.                                                       *)
Known  == {"good", "broken", "failing"}
Entry  == Known \cup {"NONE", "absent"}

File == [id     : Nat,
         range  : SUBSET Subsongs,    \* as player::parse reports it
         broken : SUBSET Subsongs,
         failing : SUBSET Subsongs,
         db     : SUBSET Subsongs,    \* in the read-only part; {} if it is not
         dups   : SUBSET Subsongs,    \* ... as duplicates of other subsongs
         dbmod  : BOOLEAN,            \* ... with its modinfo
         listed : BOOLEAN,            \* is_blacklisted_songdb_hash
         single : BOOLEAN]            \* only one player takes the file

ASSUME SubsongsAssumption == 0 \in Subsongs /\ Subsongs \subseteq 0 .. 255
ASSUME FilesAssumption ==
  \A f \in Files : f \in File /\ f.range # {}

VARIABLES
  extra_subsongs,    \* by file and subsong; all absent if not in the map
  extra_modinfos     \* the files in the map

dbVars == <<extra_subsongs, extra_modinfos>>

InitDb ==
  /\ extra_subsongs = [f \in Files |-> [s \in Subsongs |-> "absent"]]
  /\ extra_modinfos = {}

(* What playing the subsong to its end would find out. *)
Measure(f, s) ==
  IF s \in f.failing THEN "failing"
  ELSE IF s \in f.range \ f.broken THEN "good" ELSE "broken"

(* The tool that makes the read-only part gives a failing one no length.   *)
(* Only there are duplicates marked; they have a length.                   *)
InFile(f, s) ==
  IF Measure(f, s) # "good" THEN "broken"
  ELSE IF s \in f.dups THEN "duplicate" ELSE "good"

BuiltIn(f) == f.db # {}
Stored(f)  == {s \in Subsongs : extra_subsongs[f][s] # "absent"}

(* lookup(hash, subsong) *)
LookupSong(f, s) ==
  IF BuiltIn(f) THEN IF s \in f.db THEN InFile(f, s) ELSE "absent"
                ELSE IF extra_subsongs[f][s] = "NONE" THEN "absent"
                     ELSE extra_subsongs[f][s]

(* lookup(hash): the subsongs, whether there is a modinfo, and each entry *)
InfoSubsongs(f) == IF BuiltIn(f) THEN f.db ELSE Stored(f)
InfoModinfo(f)  == IF BuiltIn(f) THEN f.dbmod ELSE f \in extra_modinfos
InfoEntry(f, s) == IF BuiltIn(f) THEN InFile(f, s) ELSE extra_subsongs[f][s]

(* Mutant of UpdateSong: the vector is made anew for every subsong.        *)
UpdateSongAnew(f, s, known, range) ==
  /\ IF f.listed
     THEN UNCHANGED extra_subsongs
     ELSE extra_subsongs' = [extra_subsongs EXCEPT ![f] =
            [x \in Subsongs |-> IF x \notin range THEN "absent"
                                ELSE IF x = s THEN known ELSE "NONE"]]
  /\ UNCHANGED extra_modinfos

(* Mutant of UpdateSong: the vector has no room for the other subsongs.    *)
UpdateSongAlone(f, s, known, range) ==
  /\ IF f.listed \/ Stored(f) # {}
     THEN UNCHANGED extra_subsongs
     ELSE extra_subsongs' = [extra_subsongs EXCEPT ![f][s] = known]
  /\ UNCHANGED extra_modinfos

(* update(hash, SubSongInfo, minsubsong, maxsubsong) *)
UpdateSong(f, s, known, range) ==
  /\ IF f.listed \/ (Stored(f) # {} /\ extra_subsongs[f][s] # "NONE")
     THEN UNCHANGED extra_subsongs
     ELSE extra_subsongs' = [extra_subsongs EXCEPT ![f] =
            IF Stored(f) # {}
            THEN [@ EXCEPT ![s] = known]
            ELSE [x \in Subsongs |-> IF x \notin range THEN "absent"
                                     ELSE IF x = s THEN known ELSE "NONE"]]
  /\ UNCHANGED extra_modinfos

(* The assert(false) after update's search for the subsong.                *)
UpdateFinds(f, s) == ~f.listed /\ Stored(f) # {} => s \in Stored(f)

(* update(hash, ModInfo) *)
UpdateMod(f) ==
  /\ extra_modinfos' = IF f.listed THEN extra_modinfos
                                   ELSE extra_modinfos \cup {f}
  /\ UNCHANGED extra_subsongs
==============================================================================
