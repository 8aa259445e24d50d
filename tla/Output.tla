------------------------------- MODULE Output -------------------------------
(***************************************************************************)
(* The two files of a request, and what the program says of them: the end  *)
(* of KokoroTTS::synthesize_to_wav and audio::WavWriter, with main around  *)
(* them, run again and again over the same output path.                    *)
(*                                                                         *)
(* Any step that touches the file system may fail and the process may be   *)
(* stopped between two.  A stream holds what it was given until it is      *)
(* flushed; the samples are too many for its buffer and are written at     *)
(* once, the timestamps may wait for the destructor, whose errors nobody   *)
(* sees.                                                                   *)
(***************************************************************************)
EXTENDS Naturals, Sequences

CONSTANTS
  MaxRuns,     \* how often the program is run
  Lengths,     \* how many samples a text may give, none included
  WordSize     \* 2^32: what the sizes of the header are counted modulo

ASSUME OutputAssumption ==
  MaxRuns \in Nat /\ Lengths \subseteq Nat /\ WordSize \in Nat \ {0}

VARIABLES
  run,       \* the number of the current or the last run
  pc,        \* where it is, "idle" between two runs
  samples,   \* all_samples.size(), of each run
  wav,       \* the audio file: which run opened it last, is it all there
  json,      \* the timestamp file, likewise
  said,      \* the files the run reported with "Wrote: "
  verdict    \* how each run ended: "ok", "error" or "killed"

vars == <<run, pc, samples, wav, json, said, verdict>>

\* What is there before the first run: nothing, or files of other origin.
Older == [of |-> 0, whole |-> TRUE]

Init ==
  /\ run = 0
  /\ pc = "idle"
  /\ samples = [r \in 1..MaxRuns |-> 0]
  /\ wav = Older /\ json = Older
  /\ said = {}
  /\ verdict = [r \in 1..MaxRuns |-> "none"]

\* data_bytes, and so the number of bytes of samples that are written.
DataBytes(count) == (4 * count) % WordSize

\* Seeded fault: the fmt chunk of PCM, without the field that a float format adds.
FmtSizePCM == 16

FmtSize == 18

\* The chunks of the file: the size each announces, and the bytes of what is
\* written after it, the fields of fmt one by one.
Chunks(count) ==
  << [size |-> FmtSize, bytes |-> 2 + 2 + 4 + 4 + 2 + 2 + 2],
     [size |-> 4, bytes |-> 4],
     [size |-> DataBytes(count), bytes |-> DataBytes(count)] >>

\* riff_size, in which the fact chunk is not counted, and what there is of the
\* file behind that field.
RiffSize(count)  == (4 + (8 + FmtSize) + (8 + DataBytes(count))) % WordSize
BytesAfter(count) ==
  LET c == Chunks(count) IN 4 + (8 + c[1].bytes) + (8 + c[2].bytes) + (8 + c[3].bytes)

Ends(how) ==
  /\ pc' = "idle"
  /\ verdict' = [verdict EXCEPT ![run] = how]

-----------------------------------------------------------------------------
(* Seeded faults, for the runs that show a property notices them           *)

\* write_impl does not ask f.good().
WriteWavUnchecked ==
  /\ pc = "samples"
  /\ \E good \in BOOLEAN : wav' = [of |-> run, whole |-> good]
  /\ pc' = "json"
  /\ UNCHANGED <<run, samples, json, said, verdict>>

\* The result of WavWriter::write is dropped.
OpenWavUnchecked ==
  /\ pc = "speak" /\ samples[run] > 0
  /\ \/ wav' = [of |-> run, whole |-> FALSE] /\ pc' = "samples"
     \/ pc' = "json" /\ UNCHANGED wav
  /\ UNCHANGED <<run, samples, json, said, verdict>>

\* An exception that main does not catch: no exit code of its own.
FailUncaught ==
  /\ pc = "speak"
  /\ pc' = "idle"
  /\ UNCHANGED <<run, samples, wav, json, said, verdict>>

\* A .json file that cannot be opened is no error.
OpenJsonUnchecked ==
  /\ pc = "json"
  /\ \/ json' = [of |-> run, whole |-> FALSE] /\ pc' = "stamps"
     \/ pc' = "report" /\ UNCHANGED json
  /\ UNCHANGED <<run, samples, wav, said, verdict>>

-----------------------------------------------------------------------------
(* One run                                                                 *)

\* main up to the text being spoken.
Launch ==
  /\ pc = "idle" /\ run < MaxRuns
  /\ run' = run + 1
  /\ pc' = "speak"
  /\ \E n \in Lengths : samples' = [samples EXCEPT ![run + 1] = n]
  /\ said' = {}
  /\ UNCHANGED <<wav, json, verdict>>

\* Whatever throws before a file is opened: no model, no voice, no memory.
FailToSpeak ==
  /\ pc = "speak"
  /\ Ends("error")
  /\ UNCHANGED <<run, samples, wav, json, said>>

\* Nothing to hear: a warning, and a normal return.
Silent ==
  /\ pc = "speak" /\ samples[run] = 0
  /\ pc' = "report"
  /\ UNCHANGED <<run, samples, wav, json, said, verdict>>

\* Opening truncates what was there.
OpenWav ==
  /\ pc = "speak" /\ samples[run] > 0
  /\ \/ /\ wav' = [of |-> run, whole |-> FALSE]
        /\ pc' = "samples"
        /\ UNCHANGED verdict
     \/ Ends("error") /\ UNCHANGED wav
  /\ UNCHANGED <<run, samples, json, said>>

WriteWav ==
  /\ pc = "samples"
  /\ \/ /\ wav' = [of |-> run, whole |-> DataBytes(samples[run]) = 4 * samples[run]]
        /\ pc' = "json"
        /\ UNCHANGED verdict
     \/ Ends("error") /\ UNCHANGED wav
  /\ UNCHANGED <<run, samples, json, said>>

OpenJson ==
  /\ pc = "json"
  /\ \/ /\ json' = [of |-> run, whole |-> FALSE]
        /\ pc' = "stamps"
        /\ UNCHANGED verdict
     \/ Ends("error") /\ UNCHANGED json
  /\ UNCHANGED <<run, samples, wav, said>>

\* The stream takes the text, or what it could not hold did not get through.
WriteJson ==
  /\ pc = "stamps"
  /\ \/ /\ said' = said \cup {"json"}
        /\ pc' = "flush"
        /\ UNCHANGED verdict
     \/ Ends("error") /\ UNCHANGED said
  /\ UNCHANGED <<run, samples, wav, json>>

\* The destructor of the stream: what it cannot write is lost in silence.
CloseJson ==
  /\ pc = "flush"
  /\ \E whole \in BOOLEAN : json' = [json EXCEPT !.whole = whole]
  /\ pc' = "report"
  /\ UNCHANGED <<run, samples, wav, said, verdict>>

\* synthesize_to_wav has returned; main says so, and exits with 0.
Report ==
  /\ pc = "report"
  /\ said' = said \cup {"wav"}
  /\ Ends("ok")
  /\ UNCHANGED <<run, samples, wav, json>>

\* The process is stopped.
Kill ==
  /\ pc # "idle"
  /\ Ends("killed")
  /\ UNCHANGED <<run, samples, wav, json, said>>

Next ==
  \/ Launch \/ FailToSpeak \/ Silent \/ OpenWav \/ WriteWav \/ OpenJson
  \/ WriteJson \/ CloseJson \/ Report \/ Kill

Spec == Init /\ [][Next]_vars

-----------------------------------------------------------------------------
(* Properties                                                              *)

\* The audio of run r is short enough for the header's sizes.
Fits(r) == 4 * samples[r] < WordSize

File == [of : 0..run, whole : BOOLEAN]

(* Types; a run that has ended has a verdict, no other one has.            *)
TypeOK ==
  /\ run \in 0..MaxRuns
  /\ pc \in {"idle", "speak", "samples", "json", "stamps", "flush", "report"}
  /\ samples \in [1..MaxRuns -> Nat]
  /\ wav \in File /\ json \in File
  /\ said \subseteq {"wav", "json"}
  /\ verdict \in [1..MaxRuns -> {"none", "ok", "error", "killed"}]
  /\ \A r \in 1..MaxRuns :
       verdict[r] = "none" <=> r > run \/ (r = run /\ pc # "idle")

(* After a run with something to hear that exits with 0, the audio is all  *)
(* there and is this run's, and the timestamps were replaced too: neither  *)
(* WavWriter::write nor an open that fails goes unnoticed.                 *)
SuccessReplacesBoth ==
  pc = "idle" /\ run > 0 /\ samples[run] > 0 /\ Fits(run) /\ verdict[run] = "ok" =>
    wav = [of |-> run, whole |-> TRUE] /\ json.of = run

(* The timestamps never describe audio that is not there: they are of the  *)
(* run that wrote the audio or of an earlier one, and where they are of    *)
(* the same run all its audio was written before them.                     *)
JsonFollowsWav ==
  /\ json.of <= wav.of
  /\ json.of = wav.of /\ wav.of > 0 /\ Fits(wav.of) => wav.whole

(* Audio beside the timestamps of another run is only ever left by a run   *)
(* that did not exit with 0.                                               *)
MismatchOnlyAfterFailure ==
  pc = "idle" /\ wav.of # json.of => verdict[wav.of] \in {"error", "killed"}

(* A player that goes from chunk to chunk of a whole file finds each where *)
(* the one before says, and every sample behind the last; one that stops   *)
(* where riff_size says is not sent past the end of the file, and loses no *)
(* more than what the fact chunk takes.                                    *)
HeaderReadable ==
  wav.of > 0 /\ wav.whole =>
    LET count == samples[wav.of]
    IN /\ \A k \in 1..3 : Chunks(count)[k].size = Chunks(count)[k].bytes
       /\ DataBytes(count) = 4 * count
       /\ RiffSize(count) <= BytesAfter(count)
       /\ BytesAfter(count) < WordSize => BytesAfter(count) <= RiffSize(count) + 12

(* main.cpp:112 and kokoro_tts.cpp:445 print "Wrote: " and the name of a   *)
(* file: the file named is one this run has written, and whole.            *)
SaidIsWritten ==
  pc = "idle" =>
    /\ "wav" \in said => wav = [of |-> run, whole |-> TRUE]
    /\ "json" \in said => json = [of |-> run, whole |-> TRUE]
=============================================================================
