# Verification of audacious-uade

audacious-uade plays tracker modules in the Audacious and DeaDBeeF music
players.  It puts a dozen replay libraries and UADE (an Amiga emulator that runs
in child processes) behind one interface, keeps a database of song lengths, and
finds out the lengths the database does not have by playing songs silently.

This directory holds TLA+ models of the parts of it that are hard to get right
and hard to test, the TLC configurations that check them, and TLAPS proofs.
Paths below are relative to `src/src/` of the repository; `PROJECT.json` lists,
for every definition, the lines it models.

## The system

| Component | State | Operations | Correct if |
|---|---|---|---|
| UADE probe pool (`player/players/player_uade.cc`) | `probes[8]`, `probe_mutex`, one uadecore process per probe | `get_probe_context`, `release/stop/cleanup_probe_context`, reached from `parse`, `play`, `stop`; `init`, `shutdown` | a probe has one user; it is handed over alive, stopped and at the right rate; it comes back on every path; no process outlives the plugin |
| Players (`player/players/*.cc`) | a context per song; it2play, ft2play and st3play drive a global replayer, guarded in a probe by `probe_guard` from `parse`/`play` to `stop` | `is_our_file`, `parse`, `play`, `render`, `stop`, `restart` | guards are released; the subsongs found are there; what is rendered is the song, to its end and no further, also after a restart |
| Player dispatch (`player/player.cc`) | `initialized[]`, `init_guard` | `check`, `parse`, `play`, `stop`, lazy init, `shutdown` | a player is initialized once, before its first use |
| Playback (`player/player.cc`) | `PlayerState`: position in bytes and ms, the decoder | `render`, `restart`, `seek`, `playback_loop`, `playback_step` | position follows the decoder through any seeks; songs end; lengths are those of the audio |
| DeaDBeeF plugin (`plugin/deadbeef/plugin.cc`) | playlist items; `uade_info_t`: state, leftover bytes, readpos | `insert`, `open`, `init`, `read`, `seek`, `free` | items tell what their files are; the host hears the song, gapless, to its end |
| Audacious plugin (`plugin/audacious/plugin.cc`) | tuples of the host | `is_our_file`, `read_tag`, `play` | what one call learns the next one uses, and the tuples are true |
| Song database (`songdb/`) | built-in tables; `extra_subsongs`, `extra_modinfos` under `extra_mutex`; blacklists | `init`, two `lookup`s, two `update`s | lookups return what the files say; nothing learned is lost or changed |
| Precalculation and detection (`songend/`) | samples of one song | `precalc_song_end`, detector and trims | positions stay inside the samples; only quiet is cut off |
| Converter (`converter/`) | none | `needs_conversion`, `convert` | reads stay in the file |

How they interact: the hosts call the plugins on several threads.  Reading a
file's tags (or inserting it) calls `player::check` and `player::parse`, looks the
file up in the song database and, if it is not there, plays it to its end
(`precalc_song_end`, `playback_loop`) and, in Audacious, updates the database.
UADE's share of this goes through the probe pool.  Playback itself runs on one
thread of the host, which may stop it or seek in it between any two buffers
(Audacious: callbacks polled by `playback_loop`; DeaDBeeF: the host calls `read`
and `seek`).

What is hard: the steps of several scanner threads in the pool and in the song
database; paths that leave a probe by an error; uadecore processes that fail to
stop; buffers, blocks and ends of songs that do not line up; positions through
sequences of seeks; walks over patterns that jump back; tables that are
searched from a guess; state computed before a precalculation of minutes and
used after it.  `PROJECT.json` lists these hazards at their lines.

## Modules

| Module | Models | Built on |
|---|---|---|
| `ProbePool` | what a pool promises (abstract) | |
| `UadeProbes` | the probe pool, lock by lock | implements `ProbePool` |
| `Players` | initialization of the players, the life of their contexts, `probe_guard` | implements `ProbePool` |
| `PlayerState` | position, decoder, `render`, `restart`, uade's `seek` | |
| `PlaybackLoop` | `playback_loop` with `player::seek` | `PlayerState` |
| `Decoders` | `parse`, `play`, `render`, `restart` of ten players over what their libraries do | `PlaybackLoop` |
| `DecodedLoop` | the playback loop driving these decoders | `Decoders` |
| `Subsongs` | the walk of it2play, ft2play and st3play that counts subsongs | |
| `Trackers` | `play`, `render` and `restart` of the same three | `Subsongs` |
| `PlayerChecks` | `check`, `parse` and `play` of `player.cc` | |
| `DeadbeefStream` | the DeaDBeeF decoder with `playback_step` and `player::seek` | `PlayerState` |
| `DeadbeefPlaylist` | `uade_insert` and `uade_init` on the items of a playlist | `DeadbeefStream`, `PlayerChecks` |
| `Songdb` | run-time part of the song database | |
| `ReadTag` | `read_tag` on several threads | `Songdb` |
| `AudaciousPlugin` | `play` beside it, and the tuple of a playlist entry | `ReadTag` |
| `TableSearch` | the interpolating search of the song database | |
| `SongdbTables` | loading the song database from its files, and the lookups in it | `TableSearch` |
| `SongEndDetector` | `update`, `detect_silence`, `detect_volume`, the trims | |
| `LoopDetection` | `detect_repeat`, `detect_loop` | `SongEndDetector` |
| `Precalc` | `precalc_song_end` | `LoopDetection` |
| `*_proofs` | the theorems about the module they are named after | |
| `MC*` | instances for TLC | |

### UadeProbes

A thread's call is a sequence of steps, cut wherever another thread can observe
the pool: the locking of `probe_mutex`, the test and the claim of a record, its
construction, the unlocking, the use of the probe without the lock, and the way
back.  `initialized`, `available`, `state` and `freq` are the fields of
`uade_context`; `state` tells what the `uade_state` can be used for ("idle" after
a good `uade_stop`, "broken" after a failed one, "freed" after
`uade_cleanup_state`).  `cores` counts uadecore processes.  `uade_play_from_buffer`
and `uade_stop` may succeed or fail.

Startup and shutdown are guarded by `Quiet`: the hosts load and unload a plugin
only while none of its calls is running.  That is an assumption on the hosts,
as the code does nothing to see to it.

### Players, PlayerChecks

A thread's call of the plugin is a sequence of calls of players: `read_tag`
tries the candidates one by one ("try"), then parses ("measure") and plays
("measuring") the file to find its length; `play` tries them if there are several
and then plays ("play").  Each call of a player is `INIT_PLAYER` (`Test` to
`UnlockInit`), the constructor of a context (`Create`, which takes `probe_guard`
if the player has one and this is a probe), `Load`, `Stop` and the two halves of
the destructor (`Delete`, `Unguard`).  `loaded` is the set of replayers that hold a
module; a replayer is the global "play" or "probe" instance of a player that has
such, or else belongs to the thread.

`initialized[]` is a plain array of `bool`, read by `INIT_PLAYER` without the lock:
a data race.  In a behaviour with `inOrder = FALSE` a reader may get the old value,
and what `init()` stored and the flag become visible in any order; otherwise in the
order of the code.  Which of them a build has is up to the compiler and the
processor, so the half `InitBeforeUse` of `InitOnceBeforeUse` is claimed for `inOrder` only, and
everything else for both.

`PlayerChecks` tells which players a file is given to: a file is what its players
make of it, and how its conversion ends if it needs one.  That `uade` is among the
players built in, to which converted files are given, is assumed (`UadeIsBuilt`).

### PlayerState, PlaybackLoop, Decoders, DecodedLoop

In `PlayerState` a decoder is a record: how many frames it yields, with which
status it ends, and whether that status comes with the last frames or after them.
It makes progress as long as it reports no status, and restarted it plays the same
frames again.  It may end early then: libdigibooster3's restart keeps that the song has ended
(`player_libdigibooster3.cc:183`), with which its next buffer is its last, and ft2play's that the
last order has begun (`pmp_mix.c:354`), with which its next order is.  `keeps` are the frames at
which a song is in such a state, `cuts` those at which it ends after a restart that met one, and
`stale` records that one did.  The loop only restarts songs before their end, and none of its ten
players is ft2play, so there both are empty.  `total` and `pos` are `total_bytes` and `pos_millis` with the integer
arithmetic of the code.  `PlaybackLoop` lets the user stop at any turn and seek to
any of a few positions; `written` records what was handed to the host.

`Decoders` says what the ten players without a global replayer make of what their
libraries report (a repeat, a last frame, a position back at the top, a duration),
buffer by buffer, and `DecodedLoop` runs the playback loop on them: each render,
restart or seek of the loop moves the decoder (`at`) too.  `DecoderAgrees` then says
that the simple decoder of `PlayerState`, and all that is shown with it, is what
these players are.  Known exceptions are stated in the property: st23play after a
restart, which leaves tempo and tick of the replayer as they were
(`player_st23play.cc:204`).  `NothingPastEnd` excepts what the tests of st23play and
noisetrekker2 cannot see (`Unwatched`): an order, or what is left of it from a jump on, that
begins and ends between two buffers (`player_st23play.cc:187`), and a song that is back at its
top with the first frame of a buffer or from a position with a single line
(`player_noisetrekker2.cc:155`).  A tune's orders and lines and the frame where it repeats go
together (`FramesAssumption`).
uade's own timeouts are those `create_uade_state` hands it (`known / 1000 + 1` s).

### Subsongs, Trackers

`Subsongs` has one action per way through the body of the loop of `get_subsongs`,
for the three players that walk over orders and rows; a cell says what the effects
of all channels of a row amount to.  `Trackers` plays a subsong buffer by buffer, and
within a buffer tick by tick: the replayers in `3rdparty/replay` are modelled as far as
`render` can see where they are, with their loop counters, jumps, breaks and speed.
ft2play's buffer is one tick; it2play and st3play mix a 50th of a second, in which none to
three ticks start, as the tempo has it (`RenderTicks`, `Mixed`; the tempo is not modelled, a
song has the numbers it may come to).  Pattern delays and loops in more than one channel are
left out.  `twin` is a history variable: the same song had `play` been called at the last
restart, with which `RestartReplays` compares.  `play` is called with the subsongs there are,
as it asserts.

Exceptions are part of the properties.  `WalkIsShort` excepts a song with two rows
of an order that jump back to it, each with a row of its own to break to (`Ping`):
on such a song the walk (`while (true)`, `player_it2play.cc:341`) does not end.
`EndIsTheEnd` is about ends noticed by a position seen before; it2play's and
st3play's other reasons (`np_ord >= ordNum`, true as the last order starts, and a
hack of it2play) report ends that are none.  It is claimed of songs each row of which lasts
a buffer (`RowsLast`).  Above tempo 125 a row of speed 1 or 2 may not, and then `render` may miss
the row at which a pattern loop goes back, and takes the row it goes back to for the end.

`RestartReplays` excepts a restart that leaves something behind.  For the rows played that is
`LeavesRows`: another speed than the song is loaded with (ft2play, st3play), a loop
of a channel or the row E60 has set for one (ft2play), a pattern loop under way, or a jump or
loop back not taken yet (st3play).  For the end it is also `LeavesEnd`: the flag of a pattern
loop (it2play, ft2play), and ft2play's `dump_Flag`, set from the top of the last order on
(`pmp_mix.c:354`): a song restarted after it ends at the next top of a pattern.  Once a restart has
found such a state the property claims nothing of that song any more; and it claims nothing
of subsongs that have no pattern to start at (`Starts`), nor of the end without `RowsLast`.

### DeadbeefStream, DeadbeefPlaylist

`DeadbeefStream` names frames by their place in the song, so that what a read hands
out can be compared with what the host must hear next (`heard`, `gap`).  `readpos` is
counted in units of 1/(1000 * Freq) s, in which both milliseconds and frames are
whole.  The host reads blocks no smaller than a buffer, stops reading after a short
read, frees every stream it has opened, also one whose `init` failed, and may open
another afterwards.

A seek back restarts the song, so what a decoder keeps over a restart is heard.  `EofIsTheEnd`
excepts no more than that: a song whose decoder has kept an end (`stale`) may be short
where that decoder cuts it, and nowhere else, and has handed over what it rendered.  If a seek
fails on such a song (`Adrift`), the decoder may stand anywhere, so `NoGap` and
`ReadposTracksHeard` claim nothing until the next that succeeds.

`DeadbeefPlaylist` adds where streams come from.  `uade_insert` makes items subsong by
subsong with the length the song database has, or a precalculation finds, or
none; `uade_init` finds the player of an item that names none, measures an item
nobody has measured, and starts the stream with the duration read before that,
in ms that have been a number of seconds in single precision (`KnownTimeout`: one may
be lost).  The settings (`skip_broken_subsongs`, `min_songlength`,
`precalc_songlengths`) may be others at each use.  Insertions run on another thread but
share nothing with the calls of a stream, so their steps are interleaved only with
what happens between two streams, and the host inserts at the end.

### Songdb, ReadTag, AudaciousPlugin

Each lookup or update holds `extra_mutex` for all of its accesses and is one
step; between the steps of a `read_tag` other threads run.  A file is its hash.
Lengths matter only as good, broken (length 0 or duplicate), failing (the song
ends with an error after a while), placeholder and absent.  Measuring a subsong
always gives the same result.  The host asks for the subsongs the plugin has
listed, or has a uri that `applySubsongHack` finds one for.

`AudaciousPlugin` adds `play`, which gets the tuple of a playlist entry, skips one
marked as invalid, and sets the length when the song has been played through.
One entry is modelled, any one (`watched` is chosen at the start): entries influence
each other only through the song database.

### TableSearch, SongdbTables

`TableSearch` is the search `_hashidx` and `_find` share: from the guessed place down or
up to the key or past it.  The guess is exact here; the code divides in floating
point.  `SongdbTables` reads a directory of files row by row as `init` does, with the
numbers as sequences of digits to a base, the run-length marks, the rows that repeat
a column of the row before, and missing files; the lookups read the tables.
Assertions of the code are guards, with deadlock checked.  What the files are is assumed by
name and holds for those in `conf/songdb`: numbers have up to six digits (`HashesAssumption`), the
last subsong of a row has a number that fits a byte (`SonglengthsAssumption`), which
`lookup(hash)` counts in, rows are about one song each (`ModinfosAssumption`), and the first of
metadata repeats nothing (`MetadataAssumption`).  The first 22 rows of `modinfos.tsv` are
differences only: these songs have no modinfo, as `ModAgrees` says.  Of an entry with a mark in
the third column, which is lost, `SongAgrees` does not claim that it is a duplicate.

### SongEndDetector, LoopDetection, Precalc

A frame is its mono value.  `update` is modelled frame by frame, with the ring of
eight frames it carries over and what the ring held before it was written; the
detections and trims are operators on the samples, defined by what their loops
find.  `LoopDetection` leaves the sums over the samples open and keeps the arithmetic
with positions: each operator is the set of the results that samples of a length
may give, with the reads it makes.  `Precalc` plays a song into the detector in
buffers of varying size, lets it end in each way `playback_loop` can (by its decoder,
with or without a last buffer, by uade's silence detection, with an error, at the
limit) and applies `apply_detector` and `apply_trimmer`.  The bound `precalc.cc:44`
asserts of a loop is a guard.  What uade takes for silence is not in the repository; it is all zeros
here (`SilentAtEnd`), which may be narrower.  Not modelled: a decoder that reports `TIMEOUT` itself
(uade, whose own limit in a probe is the same `PRECALC_TIMEOUT`, `player_uade.cc:287`).

## Runs

| Run | Question | Bounds |
|---|---|---|
| `probes` | exclusive, found and usable, not lost, processes accounted for; every call ends and every probe returns; refinement of `ProbePool` | 3 threads, 3 probes, 2 rates, 1 call per thread, in either of 2 lives of the plugin |
| `players` | replayers not shared, not left loaded; players initialized once, before their use; every call ends; refinement of `ProbePool` | 2 threads, 3 players (one with a global replayer), 2 calls each, 2 lives; stores seen in order or not |
| `loop` | positions, seeks, lengths, limits, ends of the ten decoders, termination | 11 frames a second, 3-frame buffers, 5 ticks a second, limits of 4 and 3 s, uade's silence timeout 2 s, 2 seeks to 5 places; tunes of every player that last a few buffers, with and without a known length |
| `loop_rate` | are buffers whole frames at every rate of the settings? **no** | 7 frames and 5 ticks a second, which do not go into each other, as 8025 Hz and 50 ticks do not |
| `stream` | gapless, complete, position shown, playlist items true, known lengths played, every call returns | 3 frames a second, 2-frame buffers, songs of 0 to 40 frames, one that ends at once and one that ends with an order after a restart, blocks of 2, 3 and 5 frames, 2 seeks, a limit of 4 s, modules of each kind, playlists of up to two items |
| `stream_free` | does `stop` get a player? **no** | as `stream` |
| `readtag` | what is stored is complete, true and kept; tuples are true | 2 threads and the playback thread; files of one and two subsongs, two in the database, one of them with a duplicate; a failing and a broken subsong |
| `readtag_modinfo` | is there always a modinfo? **no** | one file of one subsong |
| `precalc` | samples independent of buffers, `buftmp` large enough, loops and cuts in bounds, cuts take only quiet and leave little of it | songs of up to 170 frames in three or four parts (silent, faint, low, loud), buffers of 5 and 8 frames; 54 frames and 6 ms a second, a limit of 3 s |
| `trackers` | the subsongs found ascend and are there, the walk stays in the module and ends, restarts replay, ends are ends | one or two patterns of up to three rows with every jump, break or loop in one or two rows, some with changes of speed, with a loop and a jump in one row, or with 0 to 3 ticks in a buffer; order lists with and without an end mark, with separators and missing patterns; 1 restart |
| `trackers_restart` | does loop detection start afresh with a restart? **no** | as `trackers` |
| `songdb` | search, lookups and tables agree with the files | 5 hashes, numbers to base 2, files of up to three rows of which one varies or is missing at a time |

Why the bounds are enough.  The pool treats all probes and threads alike; two
threads suffice for a conflict over one probe, a third makes one wait while the
other two conflict, and in the second life a probe is reused after each way of
leaving it.  The proofs remove these bounds.  In the playback modules every
effect is a matter of where an end, a limit or a target falls in a buffer: the
songs, limits and targets cover a buffer's start, inside and end, and 11 (or 3) frames
a second make milliseconds and frames never line up.  Two seeks give every
pair of forward and backward.  `Horizon`, the buffers in which the end of a song of st23play
or noisetrekker2 is looked for, reaches beyond every limit and target
(`HorizonAssumption`).  In `ReadTag` the conflicts are between two threads on one
file.  `Precalc` is scaled down in a way that keeps its roundings: a "second" of 54 frames
and 6 ms has 27 samples, four and a half for each ms, as at 8062 Hz (4.03) neither
a multiple nor a divisor, and `MARGIN` is 3 as it is there.  Buffers of 5 and 8
frames end at every place of the ring.  The walks of `Trackers` are decided by
which rows and orders were seen before: with three rows and three orders jumps go back,
ahead, to themselves and out of the pattern.  The guess of a search is off by
one place in a table of five hashes that is not evenly filled, in either direction.

Every property has a mutant in `PROJECT.json`: a small bug in a modelled
definition with which TLC finds that property violated.  Mutants stand in the modules,
right before what they change.

Fairness.  `UadeProbes!Fairness`: a thread inside a call keeps running (weak
fairness of each thread's steps); a mutex is free again as soon as its holder
has run on, and calls per thread are bounded, so weak fairness of the waiting
thread's lock step is enough.  `Players!FairSpec`: the same, where holding
`probe_guard` may take as long as a song plays; songs end or are stopped, which
`DecodedLoop` shows of the loop (`LoopEnds`).  `DecodedLoop!DFairSpec` is weak fairness of
the next step, of a loop of one thread that never waits; `DeadbeefPlaylist!PFairSpec` of the
steps of a call in progress (`Call`) only.  No fairness is put on the
hosts: they need not call, seek, insert or stop.

## Findings

* `loop_rate`: hivelytracker renders a tick of `frequency * 4 / 50` bytes, rounded down.  At
  8025 Hz, which the settings offer, that is 642 bytes, and `render` asserts whole frames
  (`player.cc:219`).
* `stream_free`: a stream is stopped that was never initialized.
* `readtag_modinfo`: the two updates another thread can come between.
* `trackers_restart`: "loop detection state must not survive a seek/restart"
  (`player_st3play.cc:145`), but `setPos` clears `seen` only: `patloopcount`, which `jumpLoop()`
  reads, is left, and the song plays on in the loop of the order it was in.

Met while modelling, without a run (no line of the repository says otherwise, or it is
outside what the models tell apart):

* `silence_timeout` is in seconds, `songend.length` in milliseconds, from which playback takes
  it off (`player.cc:343`, `389`): a song that uade ends for silence is given a length that is too
  long by nearly all of it.  A change of the units alone would not do: of a song that is all
  silence the last buffer has been taken off already, and the length would wrap around.
* An entry `len,end,!` of the song database loses its mark of a duplicate: `e.size() > 2 &&
  e[2] == "!"` (`songdb.cc:310`) is to see it, but `split_view<2>` makes two columns of three
  (`songdb.cc:307`).  124 shipped entries have that form, and `skip_broken_subsongs` does not
  leave out their subsongs as duplicates.
* ft2play does not reset `dump_Flag` (`pmp_mix.c:354`): restarted or sought back from its last
  order, a song ends at the next top of a pattern (`LeavesEnd`).  It keeps the loops of its
  channels and the speed, too, and st3play the speed and a jump (`LeavesRows`); st23play keeps
  its tempo (`player_st23play.cc:204`).
* libdigibooster3 keeps over a restart that the song has ended (`player_libdigibooster3.cc:183`):
  in DeaDBeeF, after a seek past the end, which fails, a seek back succeeds and the next read is
  short (`cuts`).
* Above tempo 125 a buffer of it2play and st3play may hold several rows of a low speed, and a
  pattern loop may be taken for the end (`player_it2play.cc:501`, `player_st3play.cc:444`;
  `RowsLast`).
* noisetrekker2 misses the end of a song that is back at its top with the first frame of a
  buffer or from a position with a single line, and leaves the last frame of a buffer unwritten
  (`player_noisetrekker2.cc:155`).
* st23play misses the end of a song whose last order jumps to itself with its first tick, and
  may miss it if an order is shorter than a buffer (`player_st23play.cc:187`).  Every position
  jump goes to the order after the one numbered as the effect, 2 (`st23play.c:554`).
* A song that ends with an error is marked as invalid by the `read_tag` that measures it and
  gets a length from the next (`plugin/audacious/plugin.cc:104-106`, `151`), while the tool
  that makes the database files gives it none (`precalc_main.cc:55`).
* A DeaDBeeF stream that measures its own item plays to the limit the first time, as the
  length is read before it is known (`plugin/deadbeef/plugin.cc:226`).
* The walk of it2play does not end on a song with two rows of one order that jump back to it
  in turn (`player_it2play.cc:341`; `Ping` in `Subsongs`).
* A missing file of the song database does not keep it from counting as initialized; without
  `modinfos.tsv` a lookup reads a format that is not there (`songdb.cc:591`).
* `_SubSongInfo` lets a length of 2 to the 18 pass and keeps it in 18 bits: it is lost
  (`songdb/internal.h:168`).  `SongAgrees` has it so; no shipped row is that long.

## Proofs

Every theorem holds for every value of the constants that satisfies the
assumptions of its module.  Each safety property comes from one inductive
invariant `IInv` (`InitIInv`, one lemma `...Step` per conjunct, `IInvStep`,
`Invariance`).

`UadeProbes_proofs` assumes finitely many threads, at least one probe and rates
above 0 (`ThreadsAssumption`, `ProbesAssumption`, `FreqsAssumption`).

* `TypeCorrect`, `ProbesAreExclusive`, `ProbesAreUsable`, `NoProbeIsLost`: that a
  probe has one owner is not inductive.  What makes it so is that one thread is in
  the critical section (`MutexInv`), that the loop index points where the search
  has got to (`SlotInv`), and that a probe with an owner is marked unavailable
  (`OwnedInv`), so that a claim never hits it.  That a probe is usable needs to
  know what state free probes (`FreeInv`) and owned ones (`BuiltInv`) are in, at
  each step of the ways through `get_probe_context` and back.
* `ProbeIsFound`: if there are as many probes as threads, the assertion at the end
  of the search holds.  Every unavailable probe has an owner (`NoProbeLost`), no two
  the same one (`ProbeExclusive`), and the searching thread owns none; were none
  available, there would be an injection of the probes into the other threads
  (`SomeProbeIsFree`).  The search does not miss the free one because those behind
  its index are unavailable (`SlotInv`) as long as it holds the lock.
* `Refinement`: the claim of a probe is `Acquire` of `ProbePool`, the store to
  `available` in `release_probe_context` is `Release`, every other step changes
  nothing of the pool.
* `NoCoreIsLost`: the probes that own a process are those that are built, in use or not, and
  `cores` is their number (`CoresInv`); when the plugin is down, no call runs and none is built.

`Players_proofs` assumes only that there is a player, that candidate lists are not
empty and that the eagerly initialized players have no global replayer.

* `ReplayersAreExclusive`: a user of a probe instance holds its guard
  (`ProbeGuardInv`), and only one thread plays (`PlaybackInv`).
* `LoadsAreClean`: a loaded replayer has a user (`LoadedInv`), who is not
  a second one because of exclusion.
* `InitIsOnce`: a player without its flag has never been initialized in this life
  of the plugin or a thread is at it (`FlagInv`), and that one holds `init_guard`
  (`InitGuardInv`).  The order in which the two stores are seen (`StoresInv`)
  does not matter, because the second test is made under the lock.
* `InitIsBeforeUse`: for stores seen in order (`OrderInv`).  `InitIsOnceBeforeUse` joins both.
* `Refinement`: the constructor of a context is `Acquire`, the destructor `Release`.

`DecodedLoop_proofs` assumes that a buffer lasts a ms at least (`BufLasts`; `mixBufSize` makes
it a 50th of a second) and of tunes what `Tunes` says of each player's library
(`FilesAssumption`); rates, buffers, songs, limits and targets are of any size.

* `PositionIsTheDecoders`: apart from a seek of uade, `total` and `pos` change together
  with the decoder, also where a song is restarted or its buffers are dropped on the way
  to a target.
* `SeekLandsAtTarget`: a seek that renders goes on only while it is less than a buffer past a
  place before its target (`SeekInv`).  It needs that `Millis`, which rounds down, grows with
  each buffer (`TimeGoesOn`).
* `LengthIsWhatWasHeard`: while nobody seeks what is rendered is written, but for the tail of a
  song that has ended (`HeardInv`), and the loop is left with the status of a limit or of the
  song's end (`EndInv`).
* `DecodedLoopIsALoop`: `DSpec => Spec`, so the three hold with the ten decoders too.
* `KnownTimeIsAlwaysPlayed`: uade's own limits are made of the known length rounded to more
  than it (`TuneInv`, `UadeLimits`), and the loop is left for a limit only when it has counted
  as much (`KnownInv`).
* `DecodersYieldTheSong`: `DecoderAgrees` for tunes, buffers and rates of any size, if a tick of
  hivelytracker is some whole frames (`WholeTicks`; run `loop_rate` is about other rates).
  While the loop goes on, the decoder is where its song is (`Along`, in `DecoderInv`): at the
  frame, at the tick that begins with it, at a whole number of buffers, or, for st23play and
  noisetrekker2, in the context that so many buffers leave (`PlayedTo`).  From there each
  player renders the song's next buffer and says of it what the song says (`GoesOn`, one lemma
  for each): libdigibooster3's callback comes in the buffer past the end, libxmp's two tests
  for the end meet in the lesser of two lengths, protrekkr's in the first buffer that reaches
  the length in ms (`PtkBuffersReach`).  The two trackers need that nothing is rendered beyond
  the limit or the target (`RenderingIsEarly`), where `Horizon` ends.
* `RepeatsAreNotPlayed`: `NothingPastEnd`.  Eight players know the end by frames or time.
  st23play is followed frame by frame through its orders (`Playing`, `FrameMoves`), each
  of which lasts for a buffer before and after its jump, so that a buffer meets one change at
  most (`BufferMoves`).  Until a status comes `vpnt` differs from what every order before has left
  in it, all of which was seen (`OnRoute`); the order before the repeat would leave what the one
  before its first time has left (`LastIsNotLeft`), and a repeat of the first is a restart.
  noisetrekker2 is a multiple of a buffer less a frame into its song (`LinesAreFollowed`),
  and a buffer that gets to the top has met the last line (`LastLine`, `LinesStay`).  That needs
  the assumption that the tunes' frames are those of their orders and lines.

`Precalc_proofs` assumes that songs are sequences of integers, that buffers hold from one
frame to a second, and that rate, limit, thresholds and timeouts stand to each other as
`player.h:29` to `33` have it (`ValuesAssumption`: eight frames a ms, a limit of more than
`LoopSeconds` and of eighteen `RepeatThreshold`s, a `SilenceTimeout` of no less than `MaxSilence`).

* `BufTmpIsEnough`: the bound alone is not inductive.  Each pair of samples takes four
  frames, which are of this update or among the up to seven left by the one before, and
  leaves at least four in the ring: `2 * Len(buftmp) + ctmp <= 7 + chunk - left`
  (`RoomInv`).  The two bytes that `nbytes / 8 + 2` adds are just what that takes.
* `SamplesAreMeans`: `SmoothInv` says what the ring holds, the last eight frames by their place in
  the song, that it waits for the next four wherever a buffer ends (`RingHolds`), and that the
  samples so far are the means up to there (`SamplesAre`).
* `LoopSearchStaysInside`, `LoopsAlwaysInBounds`: a song is searched for loops only at the limit
  (`StageInv`), where it has at least as many samples as the searches skip and compare
  (`SamplesAtLimit`), whatever the samples are; what a search returns is shorter than the song.
* `NothingHeardIsCut`, `TailIsAlwaysShort`: a song without `audio` is all zeros (`SoundInv`).
  `TrimInv` says of the trims to come how the song ended, and that its length is what was
  played or what a detection has cut (`CutAfter`).  What the trims find is stated once, as the
  last sample that can be heard (`LastLoud`); the rest is rounding between ms and samples.

`Trackers_proofs` assumes modules of any number of orders and rows, with a speed above 0 and
fewer patterns than the separators' numbers (`SongsAssumption`: the loaders of it2play and
st3play refuse more than 200 and 100; modules of FastTracker with more than 253 are left out).

* `SubsongsAreAscending`: the subsongs found start at ascending orders, each with a pattern.
  It follows from `UnseenInv`: all orders that were not seen lie behind the start of the
  subsong found last.
* `WalkStaysInside`: a row other than the first is one the pattern of its order has
  (`RowInv`), at every step of the walk; a separator is reached at row 0 only.  While an order
  has not been seen the walk is at one there is: a song without any is left before it is read.
* `WalksEnd`: each turn lowers a measure (`AllLeft`): the number of orders that are still pending,
  that is not seen, or seen only as the one after a separator; and within an order that is not
  pending, the turns left until it is left (`LeftAt`).  There a row that jumps back to its
  order is met twice at most, as the second time the jump is the last one taken (`Taken`) and
  sets `jump`; with two such rows each hides the other, hence `Ping`.  Rows are counted by
  the longest pattern (`Longest`; Impulse Tracker's have up to 200, not 64), and separators again
  for each order, since an order may jump in front of those that were walked before.
* `RestartsReplay`: after a restart that leaves nothing behind for the rows the song is in the
  state of one just loaded, but for the fields only its end depends on (`Alike`, `RowsInv`), and,
  with nothing left for the end either, in that state (`EndInv`).  What a tick makes of
  states that are alike is alike (`TickAlike`), and plays the same (`AlikePlays`).  st3play is the
  exception: it takes the restart as a break out of a row it was in, which differs, but goes to
  the same one with the next tick (`Leaving`, `LeavingTick`); a buffer with several ticks
  ends there too, as the row lasts (`StaysThere`), and so sees the same (`LeavingRender`).

`SongdbTables_proofs` assumes tables of any size and digits to any base, and what the
assumptions above say of the files.  The numbers, the indices and the end of a file are recursive
functions; `AllUpTo` (a set that has zero and, with a number, the next has all) and `Recursion`
(such functions exist) stand for induction, with sets and functions in the place of the
operators a library theorem would take.

* `GuessIsAPlace`, `SearchIsCorrect`: the interpolated guess is a place of the table, and from
  any place the search, down or up, finds the key if it is there and returns
  nothing if it is not, without leaving the table.
* `SearchesAlwaysFind`: a file is read once and after those that `Earlier` says (`TodoInv`,
  `OpenIs`); up to the row being read the hashes ascend by the differences of the file
  (`HashInv`), which in one part or in two are the numbers of their digits (`DiffIsNumber`).  The
  entries of metadata that are filled are those with their own index (`MetasRead`), so they go
  to the table in ascending order (`UsedAre`), and both searches are in ascending tables.
* `LookupsAlwaysAgree`: a song has the mark for further subsongs if and only if it has any, and
  the last has a number below 256 (`Table`), which keeps the two ways of counting them, in an
  `int` and in a `uint8_t`, the same.
* `SongsTellTheFile`: the tables hold the entries made of the rows read so far (`Filled`); an
  entry has what the last given one had (`EntriesRepeat`), by induction over the row, as a least
  entry that has not, and its own mark of a duplicate, but for a third column (`EntriesMark`).
* `LookupsAlwaysTellTheFiles`: that, and for modinfos and metadata that the locals, or the entry of
  the row before, stand for the last row that gives a column (`ModsRead`, `MetasRead`), that no
  later row is about the same song, and that texts already in a pool never move (`PoolGrows`).

`DeadbeefPlaylist_proofs` assumes of the host what `StreamAssumption` and the assumptions of
`DeadbeefPlaylist` say and blocks no smaller than a buffer; rates, buffers, lengths,
files, playlists and settings are of any size.

* `StreamHasNoGap`: a read can only go wrong if the decoder is not where the host
  is.  It is ahead of it by what the tail holds, or at the end of the song
  (`NextInv`), and the tail begins with what the host must be given next
  (`TailInv`).  That a read drops its tail when `readpos` is 0 loses nothing since
  there is none then (`LeftInv`), which needs blocks to be larger than 0 frames.
* `EofIsAtTheEnd`: within a read, the tail is filled only by the buffer that fills
  the block (`ReadInv`), so a read that is short leaves none; the loop is left
  early only at the end or the limit.  After a seek that failed on its way
  the host has been told -1 and the decoder is at the end (`lost`), or where it has cut the song
  after a restart (`CutShort`), which takes one that has kept an end (`FreshInv`).
* `ReadposAlwaysTracks`: reads add to `readpos` what they hand out, so only seeks set what is shown
  apart from what is heard (`AheadInv`), by as much as they land beside their target
  (`ForwardInv`), which they tell from the bytes counted (`CountInv`).
* `ItemsAlwaysTellTheFile`: each item is as it was made or as measuring it left it
  (`ListInv`); an insertion in progress has a player that parses its file.
* `PlaylistPlaysStreams`: `PSpec => Spec`, streams started on items are streams of
  `DeadbeefStream`, and so `PlaylistHasNoGap`, `PlaylistEndsAtTheEnd` and
  `PlaylistShowsTheTime` follow from its theorems.
* `AllArePlayedToTheirLength`: a stream is started with the duration its item had, to the ms that
  single precision may lose (`AskedInv`), goes over its limit by less than a buffer
  (`LimitInv`), and ends early only with its song (`EofIsAtTheEnd`).

`AudaciousPlugin_proofs` assumes that there is a file, that subsongs are numbers, and that the
database knows all subsongs of a file or none (`DbAssumption`); any number of threads.

* `StoredAlwaysAgrees`, `NothingIsForgotten`: what a call stores is the truth about its
  subsong, which the file has (`SubInv`, `FoundInv`), and the range it stores with it is always
  that of the file, wherever it got it from (`RangeIsTheFiles`).
* `TagsAreAlwaysTrue`: for an entry without a subsong in its uri it is not enough that
  its tuple is true of the subsong the hack finds, since that appears only after a
  first call; the invariant says that the tuple is true of the first subsong of the file
  (`EntryInv`, `Target`), which is what the hack finds once it finds any
  (`HackIsFirst`), and ever after (`SubsongStays`).

Only model-checked: everything under fairness (`AllProbesReturn`, `CallsEnd`,
`LoopEnds`, `CallsReturn`; TLAPS has no liveness), and that an end by position is one
(`EndIsTheEnd` would need what the replayers have played so far).

## Not modelled

See "components" in `PROJECT.json`.  Vendored replayers and UADE are external: the
models take from them what the calling code relies on, which for it2play, ft2play and
st3play is where they are in the song.  Left out besides:

* the converter, the command line tools, the common utilities and the format tables and
  sniffers, which keep no state;
* the blacklist's rules on names, settings other than those named, texts and tuple fields;
* pattern delays, pattern loops in more than one channel of a row, songs loaded with a speed
  of 0, and st3play's B with 255;
* floating point: the guess of a search and durations are exact but for the ms that single
  precision may lose;
* assertions that the inputs cannot reach (`internal.h:168`) or that depend on the sums over samples
  (`detector.cc:524`, of a constant signal);
* playlists and databases made with players that number subsongs otherwise (`songdb.cc:690`,
  `plugin/deadbeef/plugin.cc:406`).

## What is left

1. The converter's bounded reader, and the filters of the command line tools.
