----------------------- MODULE AudaciousPlugin_proofs ------------------------
(***************************************************************************)
(* What the Audacious plugin tells of its files is true, and what the song *)
(* database learns from it is true and stays, for files, subsongs and      *)
(* threads of every number.                                                *)
(***************************************************************************)
EXTENDS AudaciousPlugin, NaturalsInduction, WellFoundedInduction, TLAPS

Pcs == {"idle", "probe", "parseList", "listed", "parse", "lookup", "precalc",
        "update", "updateMod", "tagged"}

Reading == {"parse", "lookup", "precalc", "update", "updateMod", "tagged"}
Tagged  == {"update", "updateMod", "tagged"}

(* What the variables of the song database, of the calls and of the host   *)
(* can be.                                                                 *)
TypeInv ==
  /\ extra_subsongs \in [Files -> [Subsongs -> Entry]]
  /\ extra_modinfos \in SUBSET Files
  /\ pc \in [Threads -> Pcs]
  /\ file \in [Threads -> Files]
  /\ sub \in [Threads -> Subsongs]
  /\ needfix \in [Threads -> BOOLEAN]
  /\ quick \in [Threads -> BOOLEAN]
  /\ range \in [Threads -> SUBSET Subsongs]
  /\ found \in [Threads -> Known \cup {"absent"}]
  /\ tuple \in [Threads -> {"none", "length", "invalid"}]
  /\ watched.file \in Files
  /\ watched.sub \in watched.file.range \cup {NoSubsong}
  /\ entry \in Tags
  /\ playing \in Tags \cup {"no"}

(* The part of StoredAgrees that is about the database alone.              *)
StoredInv ==
  \A f \in Files :
    /\ Stored(f) \in {{}, f.range}
    /\ f \in extra_modinfos => Stored(f) # {}
    /\ \A s \in Subsongs :
         extra_subsongs[f][s] \in Known => extra_subsongs[f][s] = Measure(f, s)

(* A call reads a subsong the file has; without one in the uri, its first. *)
SubInv ==
  \A t \in Threads : pc[t] \in Reading =>
    /\ sub[t] \in file[t].range
    /\ needfix[t] => sub[t] = FirstOf(file[t].range)

(* What a call is going to store.                                          *)
FoundInv ==
  \A t \in Threads :
    /\ pc[t] \in {"lookup", "precalc", "update"} => range[t] = file[t].range
    /\ pc[t] = "update" => found[t] = Measure(file[t], sub[t])
    /\ pc[t] = "updateMod" => file[t].listed \/ Stored(file[t]) # {}

(* A call has tags from the lookup or the precalculation on.               *)
TupleInv ==
  \A t \in Threads :
    /\ pc[t] \notin Tagged => tuple[t] = "none"
    /\ pc[t] \in Tagged => IsTrue(tuple[t], file[t], sub[t])
    /\ pc[t] \in {"update", "updateMod"} => tuple[t] # "none"
    /\ pc[t] = "tagged" => quick[t] \/ tuple[t] # "none"

(* The subsong of the entry, also before applySubsongHack can find it.     *)
Target ==
  IF watched.sub = NoSubsong THEN FirstOf(watched.file.range) ELSE watched.sub

EntryInv ==
  /\ IsTrue(entry, watched.file, Target)
  /\ playing # "no" => Subsong = Target

IInv == TypeInv /\ StoredInv /\ SubInv /\ FoundInv /\ TupleInv /\ EntryInv

(* What the assumptions say of a file.                                     *)
LEMMA FileFacts ==
  ASSUME NEW f \in Files
  PROVE  /\ f.range \in SUBSET Subsongs /\ f.range # {}
         /\ f.db \in {{}, f.range}
  BY FilesAssumption, DbAssumption DEF File

LEMMA SubsongsAreNaturals ==
  Subsongs \in SUBSET Nat /\ NoSubsong \notin Subsongs
  BY SubsongsAssumption DEF NoSubsong

(* The first of some subsongs is one of them.                              *)
LEMMA FirstIsOne ==
  ASSUME NEW S \in SUBSET Subsongs, S # {}
  PROVE  FirstOf(S) \in S
  <1>1. PICK x \in S : \A y \in S : ~ (<<y, x>> \in OpToRel(<, Nat))
    BY SubsongsAreNaturals, WFMin, NatLessThanWellFounded
  <1>2. \A y \in S : x <= y
    <2>. SUFFICES ASSUME NEW y \in S, ~ (x <= y) PROVE FALSE
      OBVIOUS
    <2>1. x \in Nat /\ y \in Nat /\ y < x
      BY SubsongsAreNaturals
    <2>2. <<y, x>> \in OpToRel(<, Nat)
      BY <2>1 DEF OpToRel
    <2>. QED
      BY <1>1, <2>2
  <1>. QED
    BY <1>2 DEF FirstOf

LEMMA MeasureIsKnown ==
  ASSUME NEW f, NEW s
  PROVE  Measure(f, s) \in Known
  BY DEF Measure, Known

(* The database knows all subsongs of a file or none, so what              *)
(* applySubsongHack finds is always the same.                              *)
LEMMA HackIsFirst ==
  ASSUME StoredInv, NEW f \in Files
  PROVE  /\ InfoSubsongs(f) \in {{}, f.range}
         /\ applySubsongHack(f) \in {NoSubsong, FirstOf(f.range)}
         /\ InfoSubsongs(f) # {} => applySubsongHack(f) = FirstOf(f.range)
  <1>1. InfoSubsongs(f) \in {{}, f.range}
    BY FileFacts DEF StoredInv, InfoSubsongs
  <1>. QED
    BY <1>1 DEF applySubsongHack, NoSubsong

(* The first subsong of a file is a subsong of it.                         *)
LEMMA FirstIsASubsong ==
  ASSUME NEW f \in Files
  PROVE  FirstOf(f.range) \in f.range /\ FirstOf(f.range) \in Subsongs
  <1>1. f.range \in SUBSET Subsongs /\ f.range # {}
    BY FileFacts
  <1>2. FirstOf(f.range) \in f.range
    BY <1>1, FirstIsOne
  <1>. QED
    BY <1>1, <1>2

(* The range a call passes to update is that of the file.                  *)
LEMMA RangeIsTheFiles ==
  ASSUME StoredInv, NEW f \in Files
  PROVE  InfoRange(f) = f.range
  BY HackIsFirst DEF InfoRange

(* What a lookup returns for a subsong is what it is like.                 *)
LEMMA LookupIsTrue ==
  ASSUME TypeInv, StoredInv, NEW f \in Files, NEW s \in Subsongs,
         LookupSong(f, s) # "absent"
  PROVE  IsTrue(SongdbTuple(LookupSong(f, s)), f, s)
  <1>1. SongdbTuple(LookupSong(f, s)) \in {"length", "invalid"}
    BY DEF SongdbTuple
  <1>2. CASE BuiltIn(f)
    <2>1. LookupSong(f, s) = InFile(f, s)
      BY <1>2 DEF LookupSong
    <2>. QED
      BY <1>1, <2>1 DEF IsTrue, Tags, SongdbTuple, InFile
  <1>3. CASE ~BuiltIn(f)
    <2>1. LookupSong(f, s) = extra_subsongs[f][s] /\ LookupSong(f, s) # "NONE"
      BY <1>3 DEF LookupSong
    <2>2. LookupSong(f, s) \in Known
      BY <2>1 DEF TypeInv, Entry
    <2>3. LookupSong(f, s) = Measure(f, s)
      BY <2>1, <2>2 DEF StoredInv
    <2>. QED
      BY <1>1, <2>3 DEF IsTrue, Tags, SongdbTuple
  <1>. QED
    BY <1>2, <1>3

THEOREM InitIInv == AInit => IInv
  <1>. SUFFICES ASSUME AInit PROVE IInv
    OBVIOUS
  <1>. USE DEF AInit, Init, InitDb
  <1>1. AnyFile \in Files
    BY DbAssumption DEF AnyFile
  <1>2. \A f \in Files : Stored(f) = {}
    BY DEF Stored
  <1>3. TypeInv
    BY <1>1, SubsongsAssumption DEF TypeInv, Entry, Pcs, Tags
  <1>4. StoredInv
    BY <1>2 DEF StoredInv, Known
  <1>5. SubInv /\ FoundInv /\ TupleInv
    BY DEF SubInv, FoundInv, TupleInv, Reading, Tagged
  <1>6. EntryInv
    BY DEF EntryInv, IsTrue, Tags
  <1>. QED
    BY <1>3, <1>4, <1>5, <1>6 DEF IInv

(* A step of the song database: nothing, or one of the two updates.        *)
LEMMA DbSteps ==
  ASSUME IInv, [ANext]_allVars
  PROVE  \/ UNCHANGED dbVars
         \/ \E t \in Threads : Update(t) \/ UpdateModinfo(t)
  BY DEF ANext, Calls, CallProbe, CallRead, Step, ProbeDb, ProbeFile, Parse,
         Lookup, Precalc, Deliver, Return, PlayBegin, PlayEnd, allVars, vars

(* What is in the database of a file stays as it was, or the subsongs it   *)
(* has, and the one just measured is what it was measured to be.           *)
LEMMA DbMoves ==
  ASSUME IInv, [ANext]_allVars
  PROVE  /\ extra_subsongs' \in [Files -> [Subsongs -> Entry]]
         /\ extra_modinfos' \in SUBSET Files
         /\ StoredInv'
         /\ \A f \in Files : Stored(f) # {} => Stored(f)' = Stored(f)
  <1>1. CASE UNCHANGED dbVars
    <2>1. \A f : Stored(f)' = Stored(f)
      BY <1>1 DEF Stored, dbVars
    <2>. QED
      BY <1>1, <2>1 DEF IInv, TypeInv, StoredInv, Measure, dbVars
  <1>2. CASE \E t \in Threads : Update(t)
    <2>. PICK t \in Threads : Update(t)
      BY <1>2
    <2>1. PICK f \in Files, s \in Subsongs :
            /\ f = file[t] /\ s = sub[t] /\ s \in f.range
            /\ UpdateSong(f, s, Measure(f, s), f.range)
      BY DEF IInv, TypeInv, Update, Goto, SubInv, FoundInv, Reading
    <2>2. /\ Measure(f, s) \in Known /\ Known \subseteq Entry
          /\ "NONE" \in Entry \ Known /\ "absent" \in Entry \ Known
      BY MeasureIsKnown DEF Known, Entry
    <2>3. f.range \in SUBSET Subsongs /\ f.range # {}
      BY <2>1, FileFacts
    <2>4. UNCHANGED extra_modinfos
      BY <2>1 DEF UpdateSong
    <2>5. CASE UNCHANGED extra_subsongs
      <3>1. \A g : Stored(g)' = Stored(g)
        BY <2>5 DEF Stored
      <3>. QED
        BY <2>4, <2>5, <3>1 DEF IInv, TypeInv, StoredInv, Measure
    <2>6. CASE /\ Stored(f) # {} /\ extra_subsongs[f][s] = "NONE"
               /\ extra_subsongs' = [extra_subsongs EXCEPT
                                       ![f] = [@ EXCEPT ![s] = Measure(f, s)]]
      <3>1. extra_subsongs' \in [Files -> [Subsongs -> Entry]]
        BY <2>1, <2>2, <2>6 DEF IInv, TypeInv
      <3>2. ASSUME NEW g \in Files, NEW x \in Subsongs
            PROVE  extra_subsongs'[g][x] =
                     IF g = f /\ x = s THEN Measure(f, s)
                                       ELSE extra_subsongs[g][x]
        BY <2>1, <2>6 DEF IInv, TypeInv
      <3>3. \A g \in Files : Stored(g)' = Stored(g)
        BY <2>2, <2>6, <3>2 DEF Stored
      <3>4. StoredInv'
        BY <2>4, <3>2, <3>3 DEF IInv, StoredInv, Measure
      <3>. QED
        BY <2>4, <3>1, <3>3, <3>4 DEF IInv, TypeInv
    <2>7. CASE /\ Stored(f) = {}
               /\ extra_subsongs' = [extra_subsongs EXCEPT ![f] =
                    [x \in Subsongs |-> IF x \notin f.range THEN "absent"
                                        ELSE IF x = s THEN Measure(f, s)
                                                      ELSE "NONE"]]
      <3>1. extra_subsongs' \in [Files -> [Subsongs -> Entry]]
        BY <2>1, <2>2, <2>7 DEF IInv, TypeInv
      <3>2. ASSUME NEW g \in Files, NEW x \in Subsongs
            PROVE  extra_subsongs'[g][x] =
                     IF g # f THEN extra_subsongs[g][x]
                     ELSE IF x \notin f.range THEN "absent"
                     ELSE IF x = s THEN Measure(f, s) ELSE "NONE"
        BY <2>1, <2>7 DEF IInv, TypeInv
      <3>3. \A g \in Files \ {f} : Stored(g)' = Stored(g)
        BY <3>2 DEF Stored
      <3>4. Stored(f)' = f.range
        BY <2>1, <2>2, <2>3, <3>2 DEF Stored
      <3>5. StoredInv'
        BY <2>2, <2>3, <2>4, <3>2, <3>3, <3>4 DEF IInv, StoredInv, Measure
      <3>. QED
        BY <2>4, <2>7, <3>1, <3>3, <3>5 DEF IInv, TypeInv
    <2>. QED
      BY <2>1, <2>5, <2>6, <2>7 DEF UpdateSong
  <1>3. CASE \E t \in Threads : UpdateModinfo(t)
    <2>. PICK t \in Threads : UpdateModinfo(t)
      BY <1>3
    <2>1. /\ file[t] \in Files
          /\ file[t].listed \/ Stored(file[t]) # {}
          /\ UpdateMod(file[t])
      BY DEF IInv, TypeInv, UpdateModinfo, Goto, FoundInv
    <2>2. /\ extra_subsongs' = extra_subsongs
          /\ \A f \in extra_modinfos' :
               f \in extra_modinfos \/ (f \in Files /\ Stored(f) # {})
      BY <2>1 DEF UpdateMod
    <2>3. \A f : Stored(f)' = Stored(f)
      BY <2>2 DEF Stored
    <2>. QED
      BY <2>2, <2>3 DEF IInv, TypeInv, StoredInv
  <1>. QED
    BY <1>1, <1>2, <1>3, DbSteps

(* The subsong of the entry, if there is one, is the one there is to be.   *)
LEMMA SubsongIsTarget ==
  ASSUME IInv, Subsong # -1
  PROVE  Subsong = Target
  <1>1. watched.file \in Files
    BY DEF IInv, TypeInv
  <1>. QED
    BY <1>1, HackIsFirst DEF IInv, Subsong, Target, NoSubsong

(* The subsong of the entry, once there is one, stays the same.            *)
LEMMA SubsongStays ==
  ASSUME IInv, [ANext]_allVars, Subsong # -1
  PROVE  Subsong = Target /\ Subsong' = Target
  <1>1. watched' = watched
    BY DEF ANext, Deliver, PlayBegin, PlayEnd, hostVars, allVars
  <1>2. CASE watched.sub # NoSubsong
    BY <1>1, <1>2 DEF Subsong, Target
  <1>3. CASE watched.sub = NoSubsong
    <2>1. PICK f \in Files : f = watched.file /\ f = watched'.file
      BY <1>1 DEF IInv, TypeInv
    <2>2. InfoSubsongs(f) # {} /\ applySubsongHack(f) = FirstOf(f.range)
      BY <1>3, <2>1, HackIsFirst DEF Subsong, applySubsongHack, IInv
    <2>3. InfoSubsongs(f)' = InfoSubsongs(f)
      BY <2>2, DbMoves DEF InfoSubsongs
    <2>4. applySubsongHack(f)' = applySubsongHack(f)
      BY <2>3 DEF applySubsongHack
    <2>. QED
      BY <1>1, <1>3, <2>1, <2>2, <2>4 DEF Subsong, Target
  <1>. QED
    BY <1>2, <1>3

LEMMA TypeStep ==
  ASSUME IInv, [ANext]_allVars
  PROVE  TypeInv'
  <1>. USE DEF Pcs, Goto
  <1>1. /\ extra_subsongs' \in [Files -> [Subsongs -> Entry]]
        /\ extra_modinfos' \in SUBSET Files
    BY DbMoves
  <1>2. TypeInv /\ AnyFile \in Files /\ 0 \in Subsongs
    BY DbAssumption, SubsongsAssumption DEF IInv, AnyFile
  <1>3. ASSUME NEW t \in Threads, Calls(t), UNCHANGED hostVars PROVE TypeInv'
    <2>1. ASSUME NEW f \in Files, CallProbe(t, f) PROVE TypeInv'
      BY <1>1, <1>2, <1>3, <2>1 DEF CallProbe, hostVars, TypeInv
    <2>2. ASSUME NEW f \in Files, NEW s \in Subsongs, NEW fix \in BOOLEAN,
                 CallRead(t, f, s, fix)
          PROVE  TypeInv'
      BY <1>1, <1>2, <1>3, <2>2 DEF CallRead, hostVars, TypeInv
    <2>. QED
      BY <1>3, <2>1, <2>2 DEF Calls
  <1>4. ASSUME NEW t \in Threads, Step(t), UNCHANGED hostVars PROVE TypeInv'
    <2>1. CASE ProbeDb(t) \/ ProbeFile(t)
      BY <1>1, <1>2, <1>4, <2>1
         DEF ProbeDb, ProbeFile, callVars, hostVars, TypeInv
    <2>2. CASE Parse(t)
      <3>1. InfoRange(file[t]) \in SUBSET Subsongs
        BY RangeIsTheFiles, FileFacts DEF IInv, TypeInv
      <3>. QED
        BY <1>1, <1>2, <1>4, <2>2, <3>1 DEF Parse, callVars, hostVars, TypeInv
    <2>3. CASE Lookup(t)
      BY <1>1, <1>2, <1>4, <2>3
         DEF Lookup, SongdbTuple, callVars, hostVars, TypeInv
    <2>4. CASE Precalc(t)
      <3>1. Measure(file[t], sub[t]) \in Known
        BY MeasureIsKnown
      <3>. QED
        BY <1>1, <1>2, <1>4, <2>4, <3>1
           DEF Precalc, SongEndTuple, callVars, hostVars, TypeInv
    <2>5. CASE Update(t) \/ UpdateModinfo(t)
      BY <1>1, <1>2, <1>4, <2>5
         DEF Update, UpdateModinfo, callVars, hostVars, TypeInv
    <2>. QED
      BY <1>4, <2>1, <2>2, <2>3, <2>4, <2>5 DEF Step
  <1>5. ASSUME NEW t \in Threads, Deliver(t) PROVE TypeInv'
    BY <1>1, <1>2, <1>5 DEF Deliver, Return, TypeInv, Tags
  <1>6. CASE PlayBegin
    BY <1>1, <1>2, <1>6 DEF PlayBegin, vars, callVars, TypeInv
  <1>7. ASSUME NEW stopped \in BOOLEAN, PlayEnd(stopped) PROVE TypeInv'
    BY <1>1, <1>2, <1>7
       DEF PlayEnd, PlayedTuples, vars, callVars, TypeInv, Tags
  <1>8. CASE UNCHANGED allVars
    BY <1>1, <1>2, <1>8 DEF allVars, vars, callVars, hostVars, TypeInv
  <1>. QED
    BY <1>3, <1>4, <1>5, <1>6, <1>7, <1>8 DEF ANext

(* What a step leaves of a call: another thread's is as it was.            *)
LEMMA CallsAreTheirOwn ==
  ASSUME IInv, [ANext]_allVars, NEW t \in Threads
  PROVE  \/ UNCHANGED <<pc[t], file[t], sub[t], needfix[t], quick[t], range[t],
                        found[t], tuple[t]>>
         \/ Calls(t) \/ Step(t) \/ Return(t)
  <1>. USE DEF Goto
  <1>0. TypeInv
    BY DEF IInv
  <1>1. ASSUME NEW u \in Threads, u # t, Calls(u)
        PROVE  UNCHANGED <<pc[t], file[t], sub[t], needfix[t], quick[t],
                           range[t], found[t], tuple[t]>>
    BY <1>0, <1>1 DEF Calls, CallProbe, CallRead, TypeInv
  <1>2. ASSUME NEW u \in Threads, u # t, Step(u)
        PROVE  UNCHANGED <<pc[t], file[t], sub[t], needfix[t], quick[t],
                           range[t], found[t], tuple[t]>>
    BY <1>0, <1>2 DEF Step, ProbeDb, ProbeFile, Parse, Lookup, Precalc, Update,
                      UpdateModinfo, callVars, TypeInv
  <1>3. ASSUME NEW u \in Threads, u # t, Return(u)
        PROVE  UNCHANGED <<pc[t], file[t], sub[t], needfix[t], quick[t],
                           range[t], found[t], tuple[t]>>
    BY <1>0, <1>3 DEF Return, TypeInv
  <1>4. CASE UNCHANGED vars
    BY <1>4 DEF vars, callVars
  <1>. QED
    BY <1>1, <1>2, <1>3, <1>4 DEF ANext, Deliver, PlayBegin, PlayEnd, allVars

LEMMA SubStep ==
  ASSUME IInv, [ANext]_allVars
  PROVE  SubInv'
  <1>. USE DEF Goto, Reading
  <1>. SUFFICES ASSUME NEW t \in Threads, pc'[t] \in Reading
                PROVE  /\ sub'[t] \in file'[t].range
                       /\ needfix'[t] => sub'[t] = FirstOf(file'[t].range)
    BY DEF SubInv
  <1>0. TypeInv /\ SubInv
    BY DEF IInv
  <1>1. CASE UNCHANGED <<pc[t], file[t], sub[t], needfix[t]>>
    BY <1>0, <1>1 DEF SubInv
  <1>2. CASE Calls(t)
    <2>1. PICK f \in Files, s \in Subsongs, fix \in BOOLEAN :
            CallRead(t, f, s, fix)
      BY <1>0, <1>2 DEF Calls, CallProbe, TypeInv
    <2>2. file'[t] = f /\ sub'[t] = s /\ needfix'[t] = fix
      BY <1>0, <2>1 DEF CallRead, TypeInv
    <2>3. CASE fix
      <3>1. s = FirstOf(f.range)
        BY <2>1, <2>3, HackIsFirst, SubsongsAreNaturals DEF CallRead, IInv
      <3>. QED
        BY <2>2, <3>1, FirstIsASubsong
    <2>4. CASE ~fix
      BY <2>1, <2>2, <2>4, FileFacts DEF CallRead
    <2>. QED
      BY <2>3, <2>4
  <1>3. CASE Step(t)
    BY <1>0, <1>3 DEF Step, ProbeDb, ProbeFile, Parse, Lookup, Precalc, Update,
                      UpdateModinfo, callVars, TypeInv, SubInv
  <1>4. CASE Return(t)
    BY <1>0, <1>4 DEF Return, TypeInv
  <1>. QED
    BY <1>1, <1>2, <1>3, <1>4, CallsAreTheirOwn

LEMMA FoundStep ==
  ASSUME IInv, [ANext]_allVars
  PROVE  FoundInv'
  <1>. USE DEF Goto
  <1>. SUFFICES ASSUME NEW t \in Threads
                PROVE  /\ pc'[t] \in {"lookup", "precalc", "update"} =>
                            range'[t] = file'[t].range
                       /\ pc'[t] = "update" =>
                            found'[t] = Measure(file'[t], sub'[t])
                       /\ pc'[t] = "updateMod" =>
                            file'[t].listed \/ Stored(file[t])' # {}
    BY DEF FoundInv, Measure
  <1>0. TypeInv /\ FoundInv
    BY DEF IInv
  <1>1. CASE UNCHANGED <<pc[t], file[t], sub[t], range[t], found[t]>>
    <2>1. Stored(file[t]) # {} => Stored(file[t])' # {}
      <3>1. PICK f \in Files : f = file[t] /\ f = file'[t]
        BY <1>0, <1>1 DEF TypeInv
      <3>. QED
        BY <3>1, DbMoves
    <2>. QED
      BY <1>0, <1>1, <2>1 DEF FoundInv
  <1>2. CASE Calls(t)
    BY <1>0, <1>2 DEF Calls, CallProbe, CallRead, TypeInv
  <1>3. CASE ProbeDb(t) \/ ProbeFile(t) \/ UpdateModinfo(t)
    BY <1>0, <1>3 DEF ProbeDb, ProbeFile, UpdateModinfo, callVars, TypeInv
  <1>4. CASE Parse(t)
    <2>1. InfoRange(file[t]) = file[t].range
      BY RangeIsTheFiles DEF IInv, TypeInv
    <2>. QED
      BY <1>0, <1>4, <2>1 DEF Parse, TypeInv
  <1>5. CASE Lookup(t) \/ Precalc(t)
    BY <1>0, <1>5 DEF Lookup, Precalc, TypeInv, FoundInv
  <1>6. CASE Update(t)
    <2>1. PICK f \in Files, s \in Subsongs :
            /\ f = file[t] /\ f = file'[t]
            /\ s \in f.range /\ f.range \in SUBSET Subsongs
            /\ UpdateSong(f, s, Measure(f, s), f.range)
      BY <1>6, FileFacts
         DEF IInv, TypeInv, Update, SubInv, FoundInv, Reading, callVars
    <2>2. f.listed \/ Stored(f)' # {}
      <3>1. CASE Stored(f) # {}
        BY <3>1, DbMoves
      <3>2. CASE f.listed
        BY <3>2
      <3>3. CASE Stored(f) = {} /\ ~f.listed
        <4>1. extra_subsongs'[f][s] = Measure(f, s)
          BY <1>0, <2>1, <3>3 DEF UpdateSong, TypeInv
        <4>2. Measure(f, s) # "absent"
          BY DEF Measure
        <4>. QED
          BY <4>1, <4>2 DEF Stored
      <3>. QED
        BY <3>1, <3>2, <3>3
    <2>. QED
      BY <1>0, <1>6, <2>1, <2>2 DEF Update, TypeInv
  <1>7. CASE Return(t)
    BY <1>0, <1>7 DEF Return, TypeInv
  <1>. QED
    BY <1>1, <1>2, <1>3, <1>4, <1>5, <1>6, <1>7, CallsAreTheirOwn DEF Step

LEMMA TupleStep ==
  ASSUME IInv, [ANext]_allVars
  PROVE  TupleInv'
  <1>. USE DEF Goto, Tagged
  <1>. SUFFICES ASSUME NEW t \in Threads
                PROVE  /\ pc'[t] \notin Tagged => tuple'[t] = "none"
                       /\ pc'[t] \in Tagged =>
                            IsTrue(tuple'[t], file'[t], sub'[t])
                       /\ pc'[t] \in {"update", "updateMod"} =>
                            tuple'[t] # "none"
                       /\ pc'[t] = "tagged" => quick'[t] \/ tuple'[t] # "none"
    BY DEF TupleInv, IsTrue, Measure
  <1>0. TypeInv /\ TupleInv
    BY DEF IInv
  <1>1. CASE UNCHANGED <<pc[t], file[t], sub[t], quick[t], tuple[t]>>
    BY <1>0, <1>1 DEF TupleInv
  <1>2. CASE Calls(t)
    BY <1>0, <1>2 DEF Calls, CallProbe, CallRead, TypeInv, TupleInv
  <1>3. CASE ProbeDb(t) \/ ProbeFile(t) \/ Parse(t)
    BY <1>0, <1>3 DEF ProbeDb, ProbeFile, Parse, callVars, TypeInv, TupleInv
  <1>4. CASE Lookup(t)
    <2>1. file[t] \in Files /\ sub[t] \in Subsongs /\ tuple[t] = "none"
      BY <1>0, <1>4 DEF Lookup, TypeInv, TupleInv
    <2>2. CASE LookupSong(file[t], sub[t]) # "absent"
      <3>1. IsTrue(SongdbTuple(LookupSong(file[t], sub[t])), file[t], sub[t])
        BY <2>1, <2>2, LookupIsTrue DEF IInv
      <3>2. SongdbTuple(LookupSong(file[t], sub[t])) # "none"
        BY DEF SongdbTuple
      <3>. QED
        BY <1>0, <1>4, <2>2, <3>1, <3>2 DEF Lookup, TypeInv
    <2>3. CASE LookupSong(file[t], sub[t]) = "absent"
      BY <1>0, <1>4, <2>1, <2>3 DEF Lookup, TypeInv, IsTrue, Tags
    <2>. QED
      BY <2>2, <2>3
  <1>5. CASE Precalc(t)
    BY <1>0, <1>5 DEF Precalc, SongEndTuple, TypeInv, IsTrue, Tags
  <1>6. CASE Update(t) \/ UpdateModinfo(t)
    BY <1>0, <1>6 DEF Update, UpdateModinfo, callVars, TypeInv, TupleInv
  <1>7. CASE Return(t)
    BY <1>0, <1>7 DEF Return, TypeInv
  <1>. QED
    BY <1>1, <1>2, <1>3, <1>4, <1>5, <1>6, <1>7, CallsAreTheirOwn DEF Step

LEMMA EntryStep ==
  ASSUME IInv, [ANext]_allVars
  PROVE  EntryInv'
  <1>1. TypeInv /\ SubInv /\ TupleInv /\ EntryInv
    BY DEF IInv
  <1>2. watched' = watched /\ Target' = Target
    <2>1. watched' = watched
      BY DEF ANext, Deliver, PlayBegin, PlayEnd, hostVars, allVars
    <2>. QED
      BY <2>1 DEF Target
  <1>3. ASSUME Subsong # -1 PROVE Subsong' = Target
    BY <1>3, SubsongStays
  <1>4. Target # -1
    <2>1. watched.file.range \in SUBSET Subsongs
      BY <1>1, FileFacts DEF TypeInv
    <2>2. FirstOf(watched.file.range) \in Subsongs
      BY <1>1, FirstIsASubsong DEF TypeInv
    <2>. QED
      BY <1>1, <2>1, <2>2, SubsongsAreNaturals DEF Target, NoSubsong, TypeInv
  <1>5. /\ IsTrue(entry', watched.file, Target)
        /\ playing' # "no" => Subsong' = Target
    <2>1. CASE UNCHANGED <<entry, playing>>
      BY <1>1, <1>3, <1>4, <2>1 DEF EntryInv
    <2>2. ASSUME NEW t \in Threads, Deliver(t)
          PROVE  IsTrue(entry', watched.file, Target)
      <3>1. CASE pc[t] = "tagged" /\ IsEntry(t)
        <4>1. file[t] = watched.file /\ sub[t] = Target
          BY <1>1, <3>1 DEF IsEntry, SubInv, Reading, Target
        <4>. QED
          BY <1>1, <2>2, <3>1, <4>1 DEF Deliver, TupleInv, Tagged
      <3>2. CASE ~ (pc[t] = "tagged" /\ IsEntry(t))
        BY <1>1, <2>2, <3>2 DEF Deliver, EntryInv
      <3>. QED
        BY <3>1, <3>2
    <2>3. ASSUME NEW t \in Threads, Deliver(t)
          PROVE  playing' # "no" => Subsong' = Target
      BY <1>1, <1>3, <1>4, <2>3 DEF Deliver, EntryInv
    <2>4. CASE PlayBegin
      BY <1>1, <1>3, <2>4 DEF PlayBegin, EntryInv
    <2>5. ASSUME NEW stopped \in BOOLEAN, PlayEnd(stopped)
          PROVE  IsTrue(entry', watched.file, Target)
      <3>1. Subsong = Target
        BY <1>1, <2>5 DEF PlayEnd, EntryInv
      <3>2. CASE entry' = entry
        BY <1>1, <3>2 DEF EntryInv
      <3>3. CASE entry' \in PlayedTuples(FALSE)
        BY <3>1, <3>3 DEF PlayedTuples, IsTrue, Tags
      <3>. QED
        BY <2>5, <3>2, <3>3 DEF PlayEnd
    <2>6. ASSUME NEW stopped \in BOOLEAN, PlayEnd(stopped)
          PROVE  playing' = "no"
      BY <2>6 DEF PlayEnd
    <2>. QED
      BY <2>1, <2>2, <2>3, <2>4, <2>5, <2>6 DEF ANext, hostVars, allVars
  <1>. QED
    BY <1>2, <1>5 DEF EntryInv, IsTrue, Measure

LEMMA IInvStep ==
  ASSUME IInv, [ANext]_allVars
  PROVE  IInv'
  BY TypeStep, DbMoves, SubStep, FoundStep, TupleStep, EntryStep DEF IInv

LEMMA Invariance == ASpec => []IInv
  BY InitIInv, IInvStep, PTL DEF ASpec

(* The database holds entries of subsongs, and calls and playlist entries  *)
(* hold files, subsongs and tags.                                          *)
THEOREM TypeCorrect == ASpec => []TypeInv
  BY Invariance, PTL DEF IInv

(* The subsong of a call that is about to update is one that is stored, if *)
(* any are.                                                                *)
LEMMA UpdatesFind ==
  ASSUME IInv
  PROVE  UpdateAlwaysFinds
  <1>. SUFFICES ASSUME NEW t \in Threads, pc[t] = "update",
                       Stored(file[t]) # {}
                PROVE  sub[t] \in Stored(file[t])
    BY DEF UpdateAlwaysFinds, UpdateFinds
  <1>1. file[t] \in Files /\ sub[t] \in file[t].range
    BY DEF IInv, TypeInv, SubInv, Reading
  <1>. QED
    BY <1>1 DEF IInv, StoredInv

(* Whatever two scanners do with the same file, the database ends up with  *)
(* all of its subsongs, with what is true of those that were measured, and *)
(* the search in update finds the one it was called with.                  *)
THEOREM StoredAlwaysAgrees == ASpec => []StoredAgrees
  <1>1. IInv => StoredAgrees
    BY UpdatesFind DEF IInv, StoredInv, StoredAgrees
  <1>. QED
    BY <1>1, Invariance, PTL

(* The tuple of a playlist entry is true whatever reads, precalculations   *)
(* and plays of it overlap, and however they end.                          *)
THEOREM TagsAreAlwaysTrue == ASpec => []TagsAreTrue
  <1>1. ASSUME IInv PROVE TagsAreTrue
    <2>1. Subsong # -1 => IsTrue(entry, watched.file, Subsong)
      BY <1>1, SubsongIsTarget DEF IInv, EntryInv
    <2>. QED
      BY <1>1, <2>1 DEF IInv, TupleInv, Tagged, TagsAreTrue
  <1>. QED
    BY <1>1, Invariance, PTL

(* No step takes back what the song database knows of a subsong.           *)
THEOREM NothingIsForgotten == ASpec => NothingForgotten
  <1>. DEFINE Kept ==
         \A f \in Files, s \in Subsongs :
           /\ extra_subsongs[f][s] \in Known =>
                extra_subsongs'[f][s] = extra_subsongs[f][s]
           /\ extra_subsongs[f][s] # "absent" =>
                extra_subsongs'[f][s] # "absent"
  <1>1. ASSUME IInv, [ANext]_allVars PROVE Kept
    <2>1. CASE UNCHANGED extra_subsongs
      BY <2>1
    <2>2. CASE \E t \in Threads : Update(t)
      <3>1. PICK t \in Threads : Update(t)
        BY <2>2
      <3>2. PICK g \in Files, x \in Subsongs :
              /\ x \in g.range
              /\ UpdateSong(g, x, Measure(g, x), g.range)
        BY <1>1, <3>1
           DEF IInv, TypeInv, Update, Goto, SubInv, FoundInv, Reading
      <3>3. Measure(g, x) # "absent" /\ "NONE" \notin Known
        BY DEF Measure, Known
      <3>4. CASE Stored(g) # {} /\ extra_subsongs[g][x] = "NONE"
        BY <1>1, <3>2, <3>3, <3>4 DEF IInv, TypeInv, UpdateSong
      <3>5. CASE Stored(g) = {}
        <4>1. \A s \in Subsongs : extra_subsongs[g][s] = "absent"
          BY <3>5 DEF Stored
        <4>. QED
          BY <1>1, <3>2, <4>1 DEF IInv, TypeInv, UpdateSong, Known
      <3>. QED
        BY <2>1, <3>2, <3>4, <3>5 DEF UpdateSong
    <2>. QED
      BY <1>1, <2>1, <2>2, DbSteps DEF dbVars, UpdateModinfo, UpdateMod
  <1>2. IInv /\ [ANext]_allVars => [Kept]_vars
    BY <1>1
  <1>. QED
    BY <1>2, Invariance, PTL DEF ASpec, NothingForgotten
==============================================================================
