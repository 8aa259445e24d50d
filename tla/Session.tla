------------------------------ MODULE Session ------------------------------
(***************************************************************************)
(* What outlives a request in a process that speaks: its KokoroTTS         *)
(* objects with the voice each has loaded, the one espeak engine that they *)
(* share, and the files: the voices, which the export script may be        *)
(* writing at that time, and the temporary file of a word that espeak is   *)
(* asked to pronounce.                                                     *)
(*                                                                         *)
(* A voice file is a number of rows of 256 floats.  Its size is counted in *)
(* half rows, an odd one standing for any that is not a whole number of    *)
(* rows.                                                                   *)
(***************************************************************************)
EXTENDS Integers

CONSTANTS
  Voices,      \* the names of voices
  Objects,     \* the KokoroTTS objects the process may build
  Rows,        \* the rows of a complete voice file
  MaxTokens,   \* the longest sentence, in tokens without the pads
  MaxKills     \* how often the process is stopped

ASSUME SessionAssumption ==
  /\ Rows \in Nat \ {0} /\ MaxTokens \in Nat /\ MaxKills \in Nat

Full   == 2 * Rows
NoFile == -1
NoPack == [of |-> "none", rows |-> 0]
Idle   == [at |-> "idle"]
Gone   == [state |-> "gone"]

VARIABLES
  file,      \* voices_dir: the size of each file
  export,    \* the voice the export script is writing, or "none"
  tts,       \* the objects; alone: no other one was there since it was built
  call,      \* what the one thread of the process is doing
  engine,    \* whether espeak is initialized
  trace,     \* its phoneme trace: "none", an "open" or a "closed" file
  temps,     \* how many temporary files there are
  style,     \* the row of the pack that was asked for last, out of how many
  kills

vars == <<file, export, tts, call, engine, trace, temps, style, kills>>

Init ==
  /\ file \in [Voices -> {NoFile, Full}]
  /\ export = "none"
  /\ tts = [o \in Objects |-> Gone]
  /\ call = Idle
  /\ engine = FALSE
  /\ trace = "none"
  /\ temps = 0
  /\ style = [index |-> 0, of |-> 1]
  /\ kills = 0

Live    == {o \in Objects : tts[o].state # "gone"}
Ready   == {o \in Objects : tts[o].state = "ready"}
IsIdle  == call = Idle
At(pos) == call.at = pos

-----------------------------------------------------------------------------
(* The export script, a process of its own                                 *)

\* open(bin_path, "wb") leaves nothing of the older file.
ExportOpen(v) ==
  /\ export = "none"
  /\ export' = v
  /\ file' = [file EXCEPT ![v] = 0]
  /\ UNCHANGED <<tts, call, engine, trace, temps, style, kills>>

ExportWrite ==
  /\ export # "none" /\ file[export] < Full
  /\ \E size \in (file[export] + 1)..Full : file' = [file EXCEPT ![export] = size]
  /\ UNCHANGED <<export, tts, call, engine, trace, temps, style, kills>>

\* The end of the file, or of the script: it may be stopped half-way.
ExportEnd ==
  /\ export # "none"
  /\ export' = "none"
  /\ UNCHANGED <<file, tts, call, engine, trace, temps, style, kills>>

-----------------------------------------------------------------------------
(* Objects and voices                                                      *)

\* init_espeak, which may fail.
InitEspeak(ok) == engine' = (engine \/ ok)

\* The destructor of the G2P of object o.
Terminates(o) == engine' = (engine /\ ~tts[o].espeak)

\* The constructor, up to load_voice: G2P's own initializes espeak, or not.
Construct(o, v) ==
  /\ IsIdle /\ o \notin Live
  /\ \E ok \in BOOLEAN :
       /\ InitEspeak(ok)
       /\ tts' = [p \in Objects |->
                    IF p = o
                    THEN [state |-> "building", espeak |-> ok, voice |-> v,
                          pack |-> NoPack, alone |-> Live = {}]
                    ELSE IF p \in Live THEN [tts[p] EXCEPT !.alone = FALSE]
                    ELSE tts[p]]
  /\ call' = [at |-> "measure", who |-> o, want |-> v]
  /\ UNCHANGED <<file, export, trace, temps, style, kills>>

SetVoice(o, v) ==
  /\ IsIdle /\ o \in Ready
  /\ call' = [at |-> "measure", who |-> o, want |-> v]
  /\ UNCHANGED <<file, export, tts, engine, trace, temps, style, kills>>

-----------------------------------------------------------------------------
(* Seeded faults, for the runs that show a property notices them           *)

\* A constructor that throws never deletes the G2P it has made.
ThrowLeaking ==
  /\ call' = Idle
  /\ tts' = IF tts[call.who].state = "building"
            THEN [tts EXCEPT ![call.who] = Gone] ELSE tts
  /\ UNCHANGED engine

\* A set_voice that throws ends the engine.
ThrowEnding ==
  /\ call' = Idle
  /\ tts' = IF tts[call.who].state = "building"
            THEN [tts EXCEPT ![call.who] = Gone] ELSE tts
  /\ Terminates(call.who)

\* The name is set before the file has been read.
LoadNaming(size) ==
  /\ call' = [at |-> "read", who |-> call.who, want |-> call.want, size |-> size]
  /\ tts' = [tts EXCEPT ![call.who].voice = call.want]
  /\ UNCHANGED engine

\* The index is not held below the size of the pack.
StyleIndexUnbounded(n, of) == n

\* The trace is not taken back.
IpaResetNothing ==
  /\ At("reset")
  /\ call' = [call EXCEPT !.at = "unlink"]
  /\ UNCHANGED <<file, export, tts, engine, trace, temps, style, kills>>

\* A file that cannot be opened for writing stays.
IpaOpenLeaving ==
  /\ At("open")
  /\ \/ trace' = "open" /\ call' = [call EXCEPT !.at = "synth"]
     \/ call' = Idle /\ UNCHANGED trace
  /\ UNCHANGED <<file, export, tts, engine, temps, style, kills>>

-----------------------------------------------------------------------------
(* Loading a voice                                                         *)

\* load_voice throws: a constructor then destroys the members it has built.
Throw ==
  /\ call' = Idle
  /\ IF tts[call.who].state = "building"
     THEN tts' = [tts EXCEPT ![call.who] = Gone] /\ Terminates(call.who)
     ELSE UNCHANGED <<tts, engine>>

\* The size was fine: go on to read that much.
Load(size) ==
  /\ call' = [at |-> "read", who |-> call.who, want |-> call.want, size |-> size]
  /\ UNCHANGED <<tts, engine>>

\* tellg at the end of the file.
Measure ==
  /\ At("measure")
  /\ LET size == file[call.want]
     IN IF size = NoFile \/ size % 2 = 1 THEN Throw ELSE Load(size)
  /\ UNCHANGED <<file, export, trace, temps, style, kills>>

\* The file may have been cut since it was measured; a longer one goes
\* unnoticed.
Read ==
  /\ At("read")
  /\ IF file[call.want] < call.size
     THEN Throw
     ELSE /\ tts' = [tts EXCEPT ![call.who] =
                     [state |-> "ready", espeak |-> @.espeak, voice |-> call.want,
                      pack  |-> [of |-> call.want, rows |-> call.size \div 2],
                      alone |-> @.alone]]
          /\ call' = Idle
          /\ UNCHANGED engine
  /\ UNCHANGED <<file, export, trace, temps, style, kills>>

Destroy(o) ==
  /\ IsIdle /\ o \in Ready
  /\ tts' = [tts EXCEPT ![o] = Gone]
  /\ Terminates(o)
  /\ UNCHANGED <<file, export, call, trace, temps, style, kills>>

\* The row for n tokens between the pads in a pack of so many rows.
StyleIndex(n, of) ==
  LET last == of - 1
      idx  == IF n < last THEN n ELSE last
  IN IF idx > 0 THEN idx ELSE 0

\* select_style: an index outside of the pack throws, and nothing changes.
SelectStyle(o) ==
  /\ IsIdle /\ o \in Ready
  /\ \E n \in 1..MaxTokens :
       style' = [index |-> StyleIndex(n, tts[o].pack.rows), of |-> tts[o].pack.rows]
  /\ UNCHANGED <<file, export, tts, call, engine, trace, temps, kills>>

-----------------------------------------------------------------------------
(* A word that espeak is asked for                                         *)

\* mkstemp; without a file, or without espeak, there is no pronunciation.
IpaFile(o) ==
  /\ IsIdle /\ o \in Ready /\ tts[o].espeak
  /\ temps' = temps + 1
  /\ call' = [at |-> "open", who |-> o]
  /\ UNCHANGED <<file, export, tts, engine, trace, style, kills>>

IpaOpen ==
  /\ At("open")
  /\ \/ /\ trace' = "open"
        /\ call' = [call EXCEPT !.at = "synth"]
        /\ UNCHANGED temps
     \/ /\ temps' = temps - 1
        /\ call' = Idle
        /\ UNCHANGED trace
  /\ UNCHANGED <<file, export, tts, engine, style, kills>>

\* espeak_Synth and espeak_Synchronize, then fclose.
IpaSynth ==
  /\ At("synth")
  /\ trace' = "closed"
  /\ call' = [call EXCEPT !.at = "reset"]
  /\ UNCHANGED <<file, export, tts, engine, temps, style, kills>>

IpaReset ==
  /\ At("reset")
  /\ trace' = "none"
  /\ call' = [call EXCEPT !.at = "unlink"]
  /\ UNCHANGED <<file, export, tts, engine, temps, style, kills>>

\* Whatever could be read of the file, it is removed.
IpaUnlink ==
  /\ At("unlink")
  /\ temps' = temps - 1
  /\ call' = Idle
  /\ UNCHANGED <<file, export, tts, engine, trace, style, kills>>

-----------------------------------------------------------------------------

\* The process is stopped, and another one started.
Kill ==
  /\ kills < MaxKills
  /\ kills' = kills + 1
  /\ tts' = [o \in Objects |-> Gone]
  /\ call' = Idle
  /\ engine' = FALSE
  /\ trace' = "none"
  /\ UNCHANGED <<file, export, temps, style>>

Next ==
  \/ \E v \in Voices : ExportOpen(v)
  \/ ExportWrite \/ ExportEnd
  \/ \E o \in Objects, v \in Voices : Construct(o, v) \/ SetVoice(o, v)
  \/ Measure \/ Read
  \/ \E o \in Objects : Destroy(o) \/ SelectStyle(o) \/ IpaFile(o)
  \/ IpaOpen \/ IpaSynth \/ IpaReset \/ IpaUnlink
  \/ Kill

Spec == Init /\ [][Next]_vars

-----------------------------------------------------------------------------
(* Properties                                                              *)

Packs == [of : Voices, rows : 0..Rows]

Object ==
  {Gone} \cup
  [state : {"building"}, espeak : BOOLEAN, voice : Voices, pack : {NoPack}, alone : BOOLEAN] \cup
  [state : {"ready"}, espeak : BOOLEAN, voice : Voices, pack : Packs, alone : BOOLEAN]

Call ==
  {Idle} \cup
  [at : {"measure"}, who : Objects, want : Voices] \cup
  [at : {"read"}, who : Objects, want : Voices, size : {2 * n : n \in 0..Rows}] \cup
  [at : {"open", "synth", "reset", "unlink"}, who : Objects]

(* Types; between two calls no object is half built.                       *)
TypeOK ==
  /\ file \in [Voices -> NoFile..Full]
  /\ export \in Voices \cup {"none"}
  /\ tts \in [Objects -> Object]
  /\ call \in Call
  /\ engine \in BOOLEAN
  /\ trace \in {"none", "open", "closed"}
  /\ temps \in Nat /\ kills \in 0..MaxKills
  /\ style.of \in 0..Rows /\ style.index \in Nat
  /\ IsIdle => Live = Ready

(* The voice an object says it has is the one whose rows it holds, also    *)
(* after a set_voice that threw, whatever the export script did to the     *)
(* file meanwhile.                                                         *)
PackIsNamed == \A o \in Ready : tts[o].pack.of = tts[o].voice

(* However long a sentence is, it is spoken with a row the pack has; only   *)
(* a pack without any, of a file the export script has just opened, fails. *)
StyleInPack == style.of > 0 => style.index < style.of

(* An object that found espeak keeps it, whatever set_voice throws, as     *)
(* long as the process builds no other object beside it.                   *)
AloneKeepsEngine ==
  \A o \in Live : tts[o].alone /\ tts[o].espeak => engine

(* The engine goes with the last object, one whose constructor threw too.  *)
EngineReleased == Live = {} => ~engine

(* espeak speaks into an open file, and but for the step that takes it     *)
(* back it has none otherwise, so that nothing it does between two words,  *)
(* or once the object is gone, is written to a file that was closed.       *)
TraceIsOpen ==
  /\ At("synth") => trace = "open"
  /\ trace # "none" => At("synth") \/ At("reset")

(* A temporary file is only left by a process that was stopped.            *)
NoFileLeft ==
  temps <= kills + (IF call.at \in {"open", "synth", "reset", "unlink"} THEN 1 ELSE 0)
=============================================================================
