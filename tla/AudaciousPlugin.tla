--------------------------- MODULE AudaciousPlugin ---------------------------
(***************************************************************************)
(* The Audacious plugin between two of the host's threads: while scanners  *)
(* read tags (ReadTag), the playback thread plays.                         *)
(*                                                                         *)
(* The host is external.  Of its playlist one entry is modelled, any one:  *)
(* entries have nothing to do with each other but what ReadTag shows.  It  *)
(* takes the tuple of a read_tag of its uri, and what play makes of it.    *)
(***************************************************************************)
EXTENDS ReadTag

(* The read-only part of the song database is made with the players that   *)
(* read it: it has all the subsongs they report of a file, or none.        *)
ASSUME DbAssumption ==
  /\ Files # {}
  /\ \A f \in Files : f.db \in {{}, f.range}

VARIABLES
  watched,   \* the entry: its file and its subsong
  entry,     \* its tuple
  playing    \* the tuple play was called with, or "no"

hostVars == <<watched, entry, playing>>
allVars  == <<vars, hostVars>>

NoSubsong == -1    \* of a uri that applySubsongHack deals with

(* The tuple's length is that of the song, or the limit of playback_loop   *)
(* for one that is shorter, or there is none; which a comment explains, or *)
(* nothing does.                                                           *)
Tags == {"length", "limit", "invalid", "none"}

AInit ==
  /\ Init
  /\ watched \in {[file |-> f, sub |-> s] : f \in Files,
                                           s \in Subsongs \cup {NoSubsong}}
  /\ watched.sub \in watched.file.range \cup {NoSubsong}
  /\ entry = "none"
  /\ playing = "no"

(* The subsong that is read and played for the entry. *)
Subsong ==
  IF watched.sub = NoSubsong THEN applySubsongHack(watched.file)
                             ELSE watched.sub
------------------------------------------------------------------------------
(* A thread reads the tag of the entry. *)
IsEntry(t) ==
  /\ file[t] = watched.file
  /\ IF watched.sub = NoSubsong THEN needfix[t]
     ELSE ~needfix[t] /\ sub[t] = watched.sub

(* The host takes over what read_tag returns. *)
Deliver(t) ==
  /\ Return(t)
  /\ entry' = IF pc[t] = "tagged" /\ IsEntry(t) THEN tuple[t] ELSE entry
  /\ UNCHANGED <<watched, playing>>

(* play, unless it skips a known invalid subsong, or fails at once *)
PlayBegin ==
  /\ playing = "no" /\ entry # "invalid" /\ Subsong # -1
  /\ playing' = entry
  /\ UNCHANGED <<vars, watched, entry>>

(* update_tuple_song_end after playback_loop: of a song that was played    *)
(* through, or else of one of which nothing is known but the limit.  A     *)
(* silent song has a length here, an empty one has none.                   *)
PlayedTuples(stopped) ==
  IF stopped THEN {"limit"}
  ELSE IF Measure(watched.file, Subsong) = "good" THEN {"length"}
  ELSE {"length", "invalid"}

Failing == Measure(watched.file, Subsong) = "failing"

(* Mutant of PlayEnd: a stop or a seek is no reason to keep the tuple.     *)
PlayEndAnyhow(stopped) ==
  /\ playing # "no"
  /\ playing' = "no"
  /\ entry' \in IF playing = "length" \/ (Failing /\ ~stopped)
                 THEN {entry} ELSE PlayedTuples(stopped)
  /\ UNCHANGED <<vars, watched>>

(* The song is stopped, sought in, or over: only a song that was played    *)
(* through without an error tells its length, if it was not known.         *)
PlayEnd(stopped) ==
  /\ playing # "no"
  /\ playing' = "no"
  /\ entry' \in IF playing = "length" \/ Failing \/ stopped
                 THEN {entry} ELSE PlayedTuples(stopped)
  /\ UNCHANGED <<vars, watched>>
------------------------------------------------------------------------------
ANext ==
  \/ \E t \in Threads : (Calls(t) \/ Step(t)) /\ UNCHANGED hostVars
  \/ \E t \in Threads : Deliver(t)
  \/ PlayBegin
  \/ \E stopped \in BOOLEAN : PlayEnd(stopped)

ASpec == AInit /\ [][ANext]_allVars
------------------------------------------------------------------------------
(* A tag of subsong s of file f that is true: a length is that of the      *)
(* song, and a song with nothing wrong is not marked as invalid, which     *)
(* play would skip ever after.                                             *)
IsTrue(tag, f, s) ==
  /\ tag \in Tags \ {"limit"}
  /\ tag = "invalid" => Measure(f, s) # "good"

(* Whatever reads, precalculations and plays of the same entry overlap,    *)
(* and however they end, its tag is true; and one that was read with       *)
(* precalculation on does not lack its length or the reason for it.        *)
TagsAreTrue ==
  /\ Subsong # -1 => IsTrue(entry, watched.file, Subsong)
  /\ \A t \in Threads : pc[t] = "tagged" =>
       /\ IsTrue(tuple[t], file[t], sub[t])
       /\ quick[t] \/ tuple[t] # "none"
==============================================================================
