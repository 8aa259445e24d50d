---------------------------- MODULE OutputProofs ----------------------------
(***************************************************************************)
(* What may lie side by side under an output path, for any number of runs, *)
(* any lengths of audio and any width of the header's sizes; and what main *)
(* makes of its arguments, for any command lines.                          *)
(***************************************************************************)
EXTENDS Command, SequenceFacts, TLAPS

Pcs      == {"idle", "speak", "samples", "json", "stamps", "flush", "report"}
Verdicts == {"none", "ok", "error", "killed"}
Failed   == {"error", "killed"}

Types ==
  /\ run \in 0..MaxRuns
  /\ pc \in Pcs
  /\ pc # "idle" => run > 0
  /\ samples \in [1..MaxRuns -> Nat]
  /\ wav \in [of : Nat, whole : BOOLEAN]
  /\ json \in [of : Nat, whole : BOOLEAN]
  /\ said \in SUBSET {"wav", "json"}
  /\ verdict \in [1..MaxRuns -> Verdicts]

\* Which run each file is of, while a run is between its two opens, before
\* them and after them.
Positions ==
  /\ json.of <= wav.of /\ wav.of <= run
  /\ pc = "speak" => wav.of < run
  /\ pc = "samples" => wav.of = run /\ json.of < run
  /\ pc = "json" => wav.of = run /\ json.of < run
  /\ pc \in {"stamps", "flush"} => wav.of = run /\ json.of = run

\* The audio is all there once the next step has begun.
Whole ==
  /\ pc = "json" /\ Fits(run) => wav.whole
  /\ json.of = wav.of /\ wav.of > 0 /\ Fits(wav.of) => wav.whole

\* Files of different runs: the run is between the two opens, or it failed.
Mismatch ==
  /\ wav.of # json.of =>
       \/ wav.of = run /\ pc \in {"samples", "json"}
       \/ (wav.of < run \/ pc = "idle") /\ verdict[wav.of] \in Failed

\* A run that gets as far as its report, with something to hear, has opened
\* both files.
Success ==
  /\ pc = "report" /\ samples[run] > 0 => wav.of = run /\ json.of = run
  /\ pc = "idle" /\ run > 0 /\ samples[run] > 0 /\ verdict[run] = "ok" =>
       wav.of = run /\ json.of = run

\* A run has a verdict when it has ended.
Ended ==
  \A r \in 1..MaxRuns :
    verdict[r] = "none" <=> r > run \/ (r = run /\ pc # "idle")

Inv == Types /\ Positions /\ Whole /\ Mismatch /\ Success /\ Ended

(* Of sizes that fit, the header keeps all.                                *)
LEMMA SizeFits ==
  ASSUME OutputAssumption, NEW n \in Nat, 4 * n < WordSize
  PROVE  DataBytes(n) = 4 * n
BY DEF DataBytes, OutputAssumption

(* A path under which nothing was ever written satisfies it.               *)
LEMMA InitInv == Init => Inv
BY OutputAssumption
   DEF Init, Inv, Types, Positions, Whole, Mismatch, Success, Ended, Older, Pcs, Verdicts, OutputAssumption

(* A run that ends in failure leaves both files as they are.               *)
LEMMA EndsInv ==
  ASSUME Inv, NEW how \in Failed, Ends(how), pc # "idle",
         UNCHANGED <<run, samples, wav, json>>, said' \in SUBSET {"wav", "json"}
  PROVE  Inv'
<1> USE OutputAssumption DEF OutputAssumption
<1>1. Types'
  BY DEF Inv, Types, Ends, Failed, Verdicts, Pcs
<1>2. Positions'
  BY DEF Inv, Positions, Ends
<1>3. Whole'
  BY DEF Inv, Whole, Ends, Fits
<1>4. Mismatch'
  <2>1. run \in 1..MaxRuns /\ verdict' = [verdict EXCEPT ![run] = how]
        /\ verdict \in [1..MaxRuns -> Verdicts] /\ wav.of \in Nat /\ json.of \in Nat
        /\ json.of <= wav.of /\ wav.of <= run /\ pc' = "idle"
    BY DEF Inv, Types, Positions, Ends
  <2>2. CASE wav.of = run
    BY <2>1, <2>2 DEF Mismatch, Inv
  <2>3. CASE wav.of < run
    BY <2>1, <2>3 DEF Mismatch, Inv
  <2> QED BY <2>1, <2>2, <2>3
<1>5. Success' /\ Ended'
  <2>1. run \in 1..MaxRuns /\ verdict' = [verdict EXCEPT ![run] = how]
        /\ verdict \in [1..MaxRuns -> Verdicts] /\ pc' = "idle" /\ run' = run
        /\ how # "ok" /\ how # "none"
    BY DEF Inv, Types, Ends, Failed
  <2>2. Success'
    BY <2>1 DEF Success
  <2>3. Ended'
    BY <2>1 DEF Inv, Ended
  <2> QED BY <2>2, <2>3
<1> QED BY <1>1, <1>2, <1>3, <1>4, <1>5 DEF Inv

(* A step within a run neither ends it nor gives a verdict.                *)
LEMMA EndedStep ==
  ASSUME Ended, pc # "idle", pc' # "idle", UNCHANGED <<run, verdict>>
  PROVE  Ended'
BY DEF Ended

(* Every step keeps it, the ones that fail and the stop included.          *)
LEMMA NextInv == Inv /\ [Next]_vars => Inv'
<1> USE OutputAssumption DEF OutputAssumption
<1> SUFFICES ASSUME Inv, [Next]_vars PROVE Inv'
  OBVIOUS
<1>0. "error" \in Failed /\ "killed" \in Failed /\ said \in SUBSET {"wav", "json"}
      /\ run \in Nat /\ wav.of \in Nat /\ json.of \in Nat /\ samples \in [1..MaxRuns -> Nat]
      /\ wav \in [of : Nat, whole : BOOLEAN] /\ json \in [of : Nat, whole : BOOLEAN]
  BY DEF Failed, Inv, Types
<1>1. CASE Launch
  <2>1. Types'
    <3>1. PICK n \in Lengths : samples' = [samples EXCEPT ![run + 1] = n]
      BY <1>1 DEF Launch
    <3> QED BY <1>1, <3>1 DEF Launch, Inv, Types, Pcs
  <2>2. Positions'
    BY <1>0, <1>1 DEF Launch, Inv, Positions, Types
  <2>3. Whole'
    <3>1. wav.of = 0 \/ (wav.of <= run /\ samples'[wav.of] = samples[wav.of])
      BY <1>0, <1>1 DEF Launch, Inv, Positions, Types
    <3> QED BY <1>0, <1>1, <3>1 DEF Launch, Inv, Whole, Fits
  <2>4. Mismatch'
    BY <1>0, <1>1 DEF Launch, Inv, Mismatch, Positions
  <2>5. Success' /\ Ended'
    <3>1. verdict' = verdict /\ run' = run + 1 /\ pc' = "speak" /\ pc = "idle"
      BY <1>1 DEF Launch
    <3> QED BY <1>0, <3>1 DEF Inv, Success, Ended
  <2> QED BY <2>1, <2>2, <2>3, <2>4, <2>5 DEF Inv
<1>2. CASE FailToSpeak
  BY <1>0, <1>2, EndsInv DEF FailToSpeak
<1>3. CASE Silent
  BY <1>0, <1>3, EndedStep DEF Silent, Inv, Types, Positions, Whole, Mismatch, Success, Fits, Pcs
<1>4. CASE OpenWav
  <2>1. CASE Ends("error") /\ UNCHANGED wav
    BY <1>0, <1>4, <2>1, EndsInv DEF OpenWav
  <2>2. CASE wav' = [of |-> run, whole |-> FALSE] /\ pc' = "samples" /\ UNCHANGED verdict
    BY <1>0, <1>4, <2>2, EndedStep DEF OpenWav, Inv, Types, Positions, Whole, Mismatch, Success, Fits, Pcs
  <2> QED BY <1>4, <2>1, <2>2 DEF OpenWav
<1>5. CASE WriteWav
  <2>1. CASE Ends("error") /\ UNCHANGED wav
    BY <1>0, <1>5, <2>1, EndsInv DEF WriteWav
  <2>2. CASE /\ wav' = [of |-> run, whole |-> DataBytes(samples[run]) = 4 * samples[run]]
             /\ pc' = "json" /\ UNCHANGED verdict
    <3>1. samples[run] \in Nat /\ samples' = samples /\ run' = run /\ json' = json
          /\ pc = "samples"
      BY <1>0, <1>5 DEF WriteWav, Inv, Types
    <3>2. wav'.of = run /\ (Fits(run) => wav'.whole)
      BY <2>2, <3>1, SizeFits DEF Fits
    <3>3. wav' \in [of : Nat, whole : BOOLEAN]
      BY <1>0, <2>2
    <3>4. Types'
      BY <1>5, <2>2, <3>3 DEF WriteWav, Inv, Types, Pcs
    <3>5. Positions' /\ Mismatch'
      BY <1>0, <1>5, <2>2, <3>1, <3>2 DEF WriteWav, Inv, Positions, Mismatch
    <3>6. Whole'
      BY <1>0, <2>2, <3>1, <3>2 DEF Inv, Positions, Whole, Fits
    <3>7. Success' /\ Ended'
      BY <1>5, <2>2, EndedStep DEF WriteWav, Inv, Success
    <3> QED BY <3>4, <3>5, <3>6, <3>7 DEF Inv
  <2> QED BY <1>5, <2>1, <2>2 DEF WriteWav
<1>6. CASE OpenJson
  <2>1. CASE Ends("error") /\ UNCHANGED json
    BY <1>0, <1>6, <2>1, EndsInv DEF OpenJson
  <2>2. CASE json' = [of |-> run, whole |-> FALSE] /\ pc' = "stamps" /\ UNCHANGED verdict
    BY <1>0, <1>6, <2>2, EndedStep DEF OpenJson, Inv, Types, Positions, Whole, Mismatch, Success, Fits, Pcs
  <2> QED BY <1>6, <2>1, <2>2 DEF OpenJson
<1>7. CASE WriteJson
  <2>1. CASE Ends("error") /\ UNCHANGED said
    BY <1>0, <1>7, <2>1, EndsInv DEF WriteJson
  <2>2. CASE said' = said \cup {"json"} /\ pc' = "flush" /\ UNCHANGED verdict
    <3>1. said' \in SUBSET {"wav", "json"}
      BY <1>0, <2>2
    <3> QED BY <1>0, <1>7, <2>2, <3>1, EndedStep
            DEF WriteJson, Inv, Types, Positions, Whole, Mismatch, Success, Fits, Pcs
  <2> QED BY <1>7, <2>1, <2>2 DEF WriteJson
<1>8. CASE CloseJson
  <2>1. PICK whole \in BOOLEAN : json' = [json EXCEPT !.whole = whole]
    BY <1>8 DEF CloseJson
  <2>2. json'.of = json.of /\ json' \in [of : Nat, whole : BOOLEAN]
    BY <1>0, <2>1
  <2> QED BY <1>0, <1>8, <2>2, EndedStep
          DEF CloseJson, Inv, Types, Positions, Whole, Mismatch, Success, Fits, Pcs
<1>9. CASE Report
  <2>1. pc = "report" /\ pc' = "idle" /\ verdict' = [verdict EXCEPT ![run] = "ok"]
        /\ said' = said \cup {"wav"} /\ UNCHANGED <<run, samples, wav, json>>
    BY <1>9 DEF Report, Ends
  <2>2. Types' /\ Positions' /\ Whole'
    <3>1. said' \in SUBSET {"wav", "json"}
      BY <1>0, <2>1
    <3> QED BY <1>0, <2>1, <3>1 DEF Inv, Types, Positions, Whole, Fits, Pcs, Verdicts
  <2>3. Mismatch'
    BY <1>0, <2>1 DEF Inv, Types, Positions, Mismatch
  <2>4. Success' /\ Ended'
    BY <1>0, <2>1 DEF Inv, Types, Success, Ended
  <2> QED BY <2>2, <2>3, <2>4 DEF Inv
<1>10. CASE Kill
  BY <1>0, <1>10, EndsInv DEF Kill
<1>11. CASE UNCHANGED vars
  BY <1>11 DEF vars, Inv, Types, Positions, Whole, Mismatch, Success, Ended, Fits
<1> QED
  BY <1>1, <1>2, <1>3, <1>4, <1>5, <1>6, <1>7, <1>8, <1>9, <1>10, <1>11 DEF Next

(* What the theorems below follow from: between its two opens a run is the *)
(* only one whose files may differ without a verdict of failure.           *)
THEOREM Invariance == Spec => []Inv
<1>1. Init => Inv
  BY InitInv
<1>2. Inv /\ [Next]_vars => Inv'
  BY NextInv
<1> QED BY <1>1, <1>2, PTL DEF Spec

(* The model is well typed and each run that has ended has one verdict.    *)
THEOREM TypeCorrect == Spec => []TypeOK
<1>1. Inv => TypeOK
  <2> SUFFICES ASSUME Inv PROVE TypeOK
    OBVIOUS
  <2>1. wav \in File /\ json \in File
    <3>1. wav.of \in 0..run /\ json.of \in 0..run
      BY OutputAssumption DEF Inv, Types, Positions, OutputAssumption
    <3> QED BY <3>1 DEF Inv, Types, File
  <2> QED BY <2>1 DEF Inv, Types, Ended, TypeOK, Pcs, Verdicts
<1> QED BY <1>1, Invariance, PTL

(* Exit code 0 with something to hear means that the audio is this run's,  *)
(* and whole, and that the timestamps were replaced.                       *)
THEOREM SuccessCorrect == Spec => []SuccessReplacesBoth
<1>1. Inv => SuccessReplacesBoth
  <2> SUFFICES ASSUME Inv, pc = "idle", run > 0, samples[run] > 0, Fits(run), verdict[run] = "ok"
               PROVE  wav = [of |-> run, whole |-> TRUE] /\ json.of = run
    BY DEF SuccessReplacesBoth
  <2>1. wav.of = run /\ json.of = run
    BY DEF Inv, Success
  <2>2. wav.whole = TRUE
    BY <2>1 DEF Inv, Whole, Types
  <2> QED BY <2>1, <2>2 DEF Inv, Types
<1> QED BY <1>1, Invariance, PTL

(* However many runs there are and wherever each stops or fails, the       *)
(* timestamps are never of a later run than the audio, and those of the    *)
(* same run were written after all of it.                                  *)
THEOREM FollowsCorrect == Spec => []JsonFollowsWav
<1>1. Inv => JsonFollowsWav
  BY DEF Inv, Positions, Whole, JsonFollowsWav
<1> QED BY <1>1, Invariance, PTL

(* Audio and timestamps of two runs lie side by side only where the run    *)
(* that wrote the audio has failed or was stopped.                         *)
THEOREM MismatchCorrect == Spec => []MismatchOnlyAfterFailure
<1>1. Inv => MismatchOnlyAfterFailure
  BY DEF Inv, Mismatch, Failed, MismatchOnlyAfterFailure
<1> QED BY <1>1, Invariance, PTL

\* A whole file is one whose samples the sizes of the header can count.
Counted == wav.of > 0 /\ wav.whole => DataBytes(samples[wav.of]) = 4 * samples[wav.of]

(* Only the write that gets through makes the file whole, and the samples  *)
(* of a run that has begun do not change.                                  *)
LEMMA CountedStep == Inv /\ Counted /\ [Next]_vars => Counted'
<1> SUFFICES ASSUME Inv, Counted, [Next]_vars PROVE Counted'
  OBVIOUS
<1>1. /\ run \in Nat /\ wav.of \in Nat /\ wav.of <= run
      /\ wav \in [of : Nat, whole : BOOLEAN] /\ samples \in [1..MaxRuns -> Nat]
  BY OutputAssumption DEF Inv, Types, Positions, OutputAssumption
<1>2. CASE Launch
  <2>1. wav' = wav /\ (wav.of > 0 => samples'[wav.of] = samples[wav.of])
    BY <1>1, <1>2 DEF Launch
  <2> QED BY <2>1 DEF Counted, DataBytes
<1>3. CASE OpenWav
  <2>1. wav'.whole = FALSE \/ wav' = wav
    BY <1>3 DEF OpenWav
  <2> QED BY <1>3, <2>1 DEF OpenWav, Counted, DataBytes
<1>4. CASE WriteWav
  <2>1. CASE wav' = wav
    BY <1>4, <2>1 DEF WriteWav, Counted, DataBytes
  <2>2. CASE wav' = [of |-> run, whole |-> DataBytes(samples[run]) = 4 * samples[run]]
    BY <1>4, <2>2 DEF WriteWav, Counted, DataBytes
  <2> QED BY <1>4, <2>1, <2>2 DEF WriteWav
<1>5. CASE UNCHANGED <<wav, samples>>
  BY <1>5 DEF Counted, DataBytes
<1> QED
  BY <1>2, <1>3, <1>4, <1>5
  DEF Next, vars, FailToSpeak, Silent, OpenJson, WriteJson, CloseJson, Report, Kill, Ends

(* The size at the head of the file is never past its end, and no more     *)
(* than the fact chunk short of it while it can be counted.                *)
LEMMA RiffFacts ==
  ASSUME NEW count \in Nat, DataBytes(count) = 4 * count
  PROVE  /\ RiffSize(count) <= BytesAfter(count)
         /\ BytesAfter(count) < WordSize => BytesAfter(count) <= RiffSize(count) + 12
<1>1. WordSize \in Nat \ {0}
  BY OutputAssumption DEF OutputAssumption
<1> DEFINE n == 38 + 4 * count
<1>2. n \in Nat /\ RiffSize(count) = n % WordSize /\ BytesAfter(count) = n + 12
  BY DEF RiffSize, BytesAfter, Chunks, FmtSize
<1> HIDE DEF n
<1>3. n % WordSize \in 0..(WordSize - 1) /\ (n < WordSize => n % WordSize = n)
  BY <1>1, <1>2
<1> QED BY <1>1, <1>2, <1>3

(* Whatever was written before and wherever a run stops, a player finds    *)
(* its way through every file that is whole.                               *)
THEOREM HeaderCorrect == Spec => []HeaderReadable
<1>1. Init => Counted
  BY DEF Init, Older, Counted
<1>2. Inv /\ Inv' /\ Counted /\ [Next]_vars => Counted'
  BY CountedStep
<1>3. Inv /\ Counted => HeaderReadable
  <2> SUFFICES ASSUME Inv, Counted, wav.of > 0, wav.whole, NEW count, count = samples[wav.of]
               PROVE  /\ \A k \in 1..3 : Chunks(count)[k].size = Chunks(count)[k].bytes
                      /\ DataBytes(count) = 4 * count
                      /\ RiffSize(count) <= BytesAfter(count)
                      /\ BytesAfter(count) < WordSize => BytesAfter(count) <= RiffSize(count) + 12
    BY DEF HeaderReadable
  <2>1. count \in Nat
    BY OutputAssumption DEF Inv, Types, Positions, OutputAssumption
  <2>2. DataBytes(count) = 4 * count
    BY DEF Counted
  <2>3. ASSUME NEW k \in 1..3 PROVE Chunks(count)[k].size = Chunks(count)[k].bytes
    <3>1. k = 1 \/ k = 2 \/ k = 3
      OBVIOUS
    <3> QED BY <3>1 DEF Chunks, FmtSize
  <2> QED BY <2>1, <2>2, <2>3, RiffFacts
<1>4. Spec => []Inv
  BY Invariance
<1> QED BY <1>1, <1>2, <1>3, <1>4, PTL DEF Spec

-----------------------------------------------------------------------------
(* The command line                                                        *)

(* Whatever is typed, the files change as a run of Output changes them.    *)
THEOREM CommandRunsOutput == CommandSpec => Spec
<1>1. CommandInit => Init
  BY DEF CommandInit
<1>2. [CommandNext]_commandVars => [Next]_vars
  BY DEF CommandNext, commandVars, vars, Type, Help, Flag, Value, MissingValue, BadSpeed, Text,
         Unknown, ParseEnd, Load, ListVoices, NoText, Speak, Go, Next
<1> QED BY <1>1, <1>2, PTL DEF Spec, CommandSpec

\* The places before the next argument that are part of the text.
InText(k) == \E n \in 1..Len(text) : text[n] = k

\* What the arguments read so far have been taken for.
ReadSoFar ==
  /\ i \in 1..(Len(argv) + 1)
  /\ ~IsValue(i)
  /\ list => \E k \in 1..(i - 1) : argv[k] = "--list-voices" /\ ~IsValue(k)
  /\ \A k \in 1..(i - 1) :
       /\ InText(k) <=> argv[k] \notin Options /\ ~IsValue(k)
       /\ ~IsValue(k) => /\ argv[k] \notin {"--help", "-word"}
                         /\ argv[k] = "--list-voices" => list
  /\ text \in Seq(Nat)
  /\ \A n \in 1..Len(text) : text[n] < i
  /\ \A m, n \in 1..Len(text) : m < n => text[m] < text[n]

ParseInv ==
  /\ argv \in Seq(Args)
  /\ stage # "shell" => ReadSoFar
  /\ stage \notin {"shell", "parse"} => i > Len(argv)
  /\ stage = "speak" => ~list

(* What follows an option that takes a value is its value, unless that     *)
(* option is itself the value of one.                                      *)
LEMMA ValueFacts ==
  ASSUME NEW p \in Nat \ {0}, ~IsValue(p), argv[p] \in Valued
  PROVE  IsValue(p + 1) /\ ~IsValue(p + 2)
<1> DEFINE M == {m \in 0..p : m > 0 => argv[m] \notin Valued}
           last == Max(M)
<1>1. last \in M /\ \A m \in M : m <= last
  <2>1. M \in SUBSET (0..p) /\ 0 \in M
    OBVIOUS
  <2> HIDE DEF M
  <2> QED BY <2>1, MaxFacts
<1>2. last \in 0..p /\ (last > 0 => argv[last] \notin Valued)
  BY <1>1
<1>3. ASSUME NEW n \in (last + 1)..p PROVE argv[n] \in Valued
  <2>1. n \in 0..p /\ n > 0 /\ ~(n <= last)
    BY <1>2
  <2> QED BY <1>1, <2>1
<1> HIDE DEF last, M
<1>4. last \in 0..(p - 1)
  <2>1. last # p
    BY <1>2
  <2> QED BY <1>2, <2>1
<1>5. (p - 1 - last) % 2 # 1
  <2>1. \A n \in (last + 1)..(p - 1) : argv[n] \in Valued
    BY <1>2, <1>3
  <2> QED BY <1>2, <1>4, <2>1 DEF IsValue
<1>6. (p - last) % 2 = 1
  BY <1>4, <1>5
<1>7. IsValue(p + 1)
  <2>1. (p + 1) - 1 = p
    OBVIOUS
  <2> QED BY <1>2, <1>3, <1>6, <2>1 DEF IsValue
<1>8. ASSUME IsValue(p + 2) PROVE FALSE
  <2>1. PICK m \in 0..(p + 1) :
          /\ m > 0 => argv[m] \notin Valued
          /\ \A n \in (m + 1)..(p + 1) : argv[n] \in Valued
          /\ (p + 1 - m) % 2 = 1
    <3>1. (p + 2) - 1 = p + 1
      OBVIOUS
    <3> QED BY <1>8, <3>1 DEF IsValue
  <2>2. m # p + 1 /\ m # p
    BY <2>1
  <2>3. m \in 0..(p - 1) /\ (p - 1 - m) % 2 = 1
    BY <2>1, <2>2
  <2>4. \A n \in (m + 1)..(p - 1) : argv[n] \in Valued
    BY <2>1, <2>3
  <2> QED BY <2>1, <2>3, <2>4 DEF IsValue
<1> QED BY <1>7, <1>8

(* Nothing is the value of what takes none.                                *)
LEMMA PlainFacts ==
  ASSUME NEW p \in Nat \ {0}, argv[p] \notin Valued
  PROVE  ~IsValue(p + 1)
<1> SUFFICES ASSUME NEW m \in 0..p,
                    \A n \in (m + 1)..p : argv[n] \in Valued, (p - m) % 2 = 1
             PROVE  FALSE
  <2>1. (p + 1) - 1 = p
    OBVIOUS
  <2> QED BY <2>1 DEF IsValue
<1>1. m # p
  OBVIOUS
<1>2. p \in (m + 1)..p
  BY <1>1
<1> QED BY <1>2

(* A sequence with one element more.                                       *)
LEMMA AppendFacts ==
  ASSUME NEW a \in Seq(Nat), NEW e \in Nat
  PROVE  LET r == Append(a, e)
         IN /\ r \in Seq(Nat) /\ Len(r) = Len(a) + 1
            /\ \A n \in 1..Len(a) : r[n] = a[n]
            /\ r[Len(a) + 1] = e
OBVIOUS

(* Each round of the loop takes an argument for what it is.                *)
LEMMA ReadStep ==
  ASSUME argv \in Seq(Args), ReadSoFar, Flag \/ Value \/ Text
  PROVE  ReadSoFar'
<1>1. /\ Len(argv) \in Nat /\ i \in Nat \ {0} /\ i <= Len(argv) /\ argv' = argv
      /\ ~IsValue(i)
      /\ text \in Seq(Nat) /\ Len(text) \in Nat
  <2>1. i \in 1..(Len(argv) + 1) /\ ~IsValue(i) /\ text \in Seq(Nat)
    BY DEF ReadSoFar
  <2>2. i <= Len(argv) /\ argv' = argv
    BY DEF Flag, Value, Text, Parsing
  <2>3. Len(argv) \in Nat /\ Len(text) \in Nat
    BY <2>1
  <2> QED BY <2>1, <2>2, <2>3
<1>2. \A k : IsValue(k)' <=> IsValue(k)
  BY <1>1 DEF IsValue
<1>3. CASE Flag
  <2>1. /\ argv[i] \in {"--list-voices", "--gpu"}
        /\ list' = (list \/ argv[i] = "--list-voices")
        /\ i' = i + 1 /\ text' = text
    BY <1>3 DEF Flag
  <2>2. argv[i] \notin Valued /\ argv[i] \in Options /\ argv[i] \notin {"--help", "-word"}
    BY <2>1 DEF Valued, Options
  <2>3. ~IsValue(i + 1)
    BY <1>1, <2>2, PlainFacts
  <2>4. \A n \in 1..Len(text) : text[n] < i /\ text[n] \in Nat
    BY <1>1 DEF ReadSoFar
  <2>5. ~InText(i)
    BY <1>1, <2>4 DEF InText
  <2>6. \A k : InText(k)' <=> InText(k)
    BY <2>1 DEF InText
  <2>7. ASSUME NEW k \in 1..(i' - 1) PROVE k \in 1..(i - 1) \/ k = i
    BY <1>1, <2>1
  <2>8. list' => \E k \in 1..(i' - 1) : argv[k] = "--list-voices" /\ ~IsValue(k)
    <3>1. \A k \in 1..(i - 1) : k \in 1..(i' - 1)
      BY <1>1, <2>1
    <3>2. i \in 1..(i' - 1)
      BY <1>1, <2>1
    <3> QED BY <1>1, <2>1, <3>1, <3>2 DEF ReadSoFar
  <2>9. \A k \in 1..(i' - 1) :
       /\ InText(k) <=> argv[k] \notin Options /\ ~IsValue(k)
       /\ ~IsValue(k) => /\ argv[k] \notin {"--help", "-word"}
                         /\ argv[k] = "--list-voices" => list'
    BY <2>1, <2>2, <2>5, <2>7 DEF ReadSoFar
  <2>10. \A n \in 1..Len(text) : text[n] < i'
    BY <1>1, <2>1, <2>4
  <2> QED BY <1>1, <1>2, <2>1, <2>3, <2>6, <2>8, <2>9, <2>10 DEF ReadSoFar
<1>4. CASE Text
  <2>1. /\ argv[i] \in {"word", "", "1.5"}
        /\ i' = i + 1 /\ list' = list
    BY <1>4 DEF Text
  <2>2. /\ argv[i] \notin Valued /\ argv[i] \notin Options
        /\ argv[i] \notin {"--help", "-word", "--list-voices"}
    BY <2>1 DEF Valued, Options
  <2>3. ~IsValue(i + 1)
    BY <1>1, <2>2, PlainFacts
  <2>4. /\ text' \in Seq(Nat) /\ Len(text') = Len(text) + 1
        /\ \A n \in 1..Len(text) : text'[n] = text[n]
        /\ text'[Len(text) + 1] = i
    <3>1. i \in Nat /\ text \in Seq(Nat)
      BY <1>1
    <3>2. text' = Append(text, i)
      BY <1>4 DEF Text
    <3> QED BY <3>1, <3>2, AppendFacts
  <2>5. \A n \in 1..Len(text') : n \in 1..Len(text) \/ n = Len(text) + 1
    BY <1>1, <2>4
  <2>6. ASSUME NEW k PROVE InText(k)' <=> InText(k) \/ k = i
    <3>1. Len(text) + 1 \in 1..Len(text') /\ \A n \in 1..Len(text) : n \in 1..Len(text')
      BY <1>1, <2>4
    <3> QED BY <2>4, <2>5, <3>1 DEF InText
  <2>7. \A n \in 1..Len(text) : text[n] < i /\ text[n] \in Nat
    BY <1>1 DEF ReadSoFar
  <2>0. i \in Nat /\ i' = i + 1
    BY <1>1, <2>1
  <2>8. ASSUME NEW k \in 1..(i' - 1) PROVE k \in 1..(i - 1) \/ k = i
    BY <2>0
  <2>9. list' => \E k \in 1..(i' - 1) : argv[k] = "--list-voices" /\ ~IsValue(k)
    <3>1. \A k \in 1..(i - 1) : k \in 1..(i' - 1)
      BY <2>0
    <3> QED BY <2>1, <3>1 DEF ReadSoFar
  <2>10. ASSUME NEW k \in 1..(i' - 1)
         PROVE  /\ InText(k)' <=> argv[k] \notin Options /\ ~IsValue(k)
                /\ ~IsValue(k) => /\ argv[k] \notin {"--help", "-word"}
                                  /\ argv[k] = "--list-voices" => list'
    <3>1. CASE k \in 1..(i - 1)
      <4>1. k # i
        BY <1>1, <3>1
      <4>2. InText(k)' <=> InText(k)
        BY <2>6, <4>1
      <4> QED BY <2>1, <3>1, <4>2 DEF ReadSoFar
    <3>2. CASE k = i
      BY <1>1, <2>2, <2>6, <3>2
    <3> QED BY <2>8, <3>1, <3>2
  <2>11. \A n \in 1..Len(text') : text'[n] < i'
    <3>1. ASSUME NEW n \in 1..Len(text) PROVE text'[n] < i'
      <4>1. text'[n] = text[n] /\ text[n] < i /\ text[n] \in Nat
        BY <2>4, <2>7
      <4> QED BY <2>0, <4>1
    <3>2. text'[Len(text) + 1] < i'
      BY <2>4, <2>0
    <3> QED BY <2>5, <3>1, <3>2
  <2>12. ASSUME NEW m \in 1..Len(text'), NEW n \in 1..Len(text'), m < n
         PROVE  text'[m] < text'[n]
    <3>1. m \in 1..Len(text)
      BY <1>1, <2>4, <2>12
    <3>2. CASE n \in 1..Len(text)
      BY <2>4, <2>12, <3>1, <3>2 DEF ReadSoFar
    <3>3. CASE n = Len(text) + 1
      BY <2>4, <2>7, <3>1, <3>3
    <3> QED BY <2>5, <3>2, <3>3
  <2>13. i' \in 1..(Len(argv') + 1) /\ ~IsValue(i')
    <3>1. i \in Nat /\ 1 <= i /\ argv' = argv /\ i <= Len(argv) /\ Len(argv) \in Nat
      BY <1>1
    <3>2. i' \in 1..(Len(argv') + 1)
      BY <2>0, <3>1
    <3>3. ~IsValue(i')
      BY <1>2, <2>0, <2>3
    <3> QED BY <3>2, <3>3
  <2> QED BY <1>1, <1>2, <2>4, <2>9, <2>10, <2>11, <2>12, <2>13 DEF ReadSoFar
<1>5. CASE Value
  <2>1. /\ argv[i] \in Valued /\ i < Len(argv) /\ i' = i + 2 /\ list' = list /\ text' = text
    BY <1>5 DEF Value
  <2>2. argv[i] \in Options /\ argv[i] \notin {"--help", "-word", "--list-voices"}
    BY <2>1 DEF Valued, Options
  <2>3. IsValue(i + 1) /\ ~IsValue(i + 2)
    BY <1>1, <2>1, ValueFacts
  <2>4. \A n \in 1..Len(text) : text[n] < i /\ text[n] \in Nat
    BY <1>1 DEF ReadSoFar
  <2>5. ~InText(i) /\ ~InText(i + 1)
    BY <1>1, <2>4 DEF InText
  <2>6. \A k : InText(k)' <=> InText(k)
    BY <2>1 DEF InText
  <2>7. ASSUME NEW k \in 1..(i' - 1) PROVE k \in 1..(i - 1) \/ k = i \/ k = i + 1
    BY <1>1, <2>1
  <2>8. list' => \E k \in 1..(i' - 1) : argv[k] = "--list-voices" /\ ~IsValue(k)
    <3>1. \A k \in 1..(i - 1) : k \in 1..(i' - 1)
      BY <1>1, <2>1
    <3> QED BY <2>1, <3>1 DEF ReadSoFar
  <2>9. \A k \in 1..(i' - 1) :
       /\ InText(k) <=> argv[k] \notin Options /\ ~IsValue(k)
       /\ ~IsValue(k) => /\ argv[k] \notin {"--help", "-word"}
                         /\ argv[k] = "--list-voices" => list'
    BY <2>1, <2>2, <2>3, <2>5, <2>7 DEF ReadSoFar
  <2>10. \A n \in 1..Len(text) : text[n] < i'
    BY <1>1, <2>1, <2>4
  <2>11. i' \in 1..(Len(argv') + 1) /\ ~IsValue(i')
    BY <1>1, <2>1, <2>3
  <2> QED BY <1>1, <1>2, <2>1, <2>6, <2>8, <2>9, <2>10, <2>11 DEF ReadSoFar
<1> QED BY <1>3, <1>4, <1>5

(* What the arguments were taken for holds until the process ends.         *)
THEOREM ParseInvariance == CommandSpec => []ParseInv
<1>1. CommandInit => ParseInv
  BY DEF CommandInit, ParseInv
<1>2. ParseInv /\ [CommandNext]_commandVars => ParseInv'
  <2> SUFFICES ASSUME ParseInv, [CommandNext]_commandVars PROVE ParseInv'
    OBVIOUS
  <2>1. ASSUME NEW how, Exits(how) PROVE ParseInv'
    BY <2>1 DEF Exits, ParseInv
  <2>2. ASSUME UNCHANGED argVars, stage # "shell", stage' # "shell",
               stage' \notin {"shell", "parse"} => i > Len(argv), stage' = "speak" => ~list
        PROVE  ParseInv'
    <3>1. ReadSoFar'
      BY <2>2 DEF ParseInv, ReadSoFar, argVars, IsValue, InText
    <3> QED BY <2>2, <3>1 DEF ParseInv, argVars
  <2>3. CASE Type
    <3>1. /\ argv' \in Seq(Args) /\ i' = 1 /\ list' = FALSE /\ text' = <<>> /\ stage' = "parse"
      BY <2>3, CommandsAssumption DEF Type, CommandsAssumption
    <3>2. Len(argv') \in Nat
      BY <3>1
    <3>3. ~IsValue(1)'
      BY DEF IsValue
    <3>4. ReadSoFar'
      BY <3>1, <3>2, <3>3 DEF ReadSoFar
    <3> QED BY <3>1, <3>4 DEF ParseInv
  <2>4. CASE Flag \/ Value \/ Text
    <3>1. ReadSoFar'
      BY <2>4, ReadStep DEF ParseInv, Flag, Value, Text, Parsing
    <3> QED BY <2>4, <3>1 DEF ParseInv, Flag, Value, Text, Parsing
  <2>5. CASE Help \/ MissingValue \/ BadSpeed \/ Unknown \/ ListVoices \/ NoText
    BY <2>1, <2>5 DEF Help, MissingValue, BadSpeed, Unknown, ListVoices, NoText
  <2>6. CASE ParseEnd
    BY <2>2, <2>6 DEF ParseEnd
  <2>7. CASE Load
    BY <2>1, <2>2, <2>7 DEF Load, ParseInv
  <2>8. CASE Speak
    BY <2>2, <2>8 DEF Speak, ParseInv
  <2>9. CASE Go
    BY <2>1, <2>2, <2>9 DEF Go, ParseInv
  <2>10. CASE UNCHANGED commandVars
    BY <2>10 DEF commandVars, argVars, ParseInv, ReadSoFar, IsValue, InText
  <2> QED BY <2>3, <2>4, <2>5, <2>6, <2>7, <2>8, <2>9, <2>10 DEF CommandNext
<1> QED BY <1>1, <1>2, PTL DEF CommandSpec

(* Of whatever is typed, only a command that is understood to its last     *)
(* argument and asks for speech touches the files, and it speaks exactly   *)
(* the arguments that are neither options nor values, in order.            *)
THEOREM AskedCorrect == CommandSpec => FilesOnlyWhenAsked
<1>1. ParseInv /\ [CommandNext]_commandVars =>
        [<<wav, json>>' # <<wav, json>> =>
           /\ Given \cap {"--help", "--list-voices", "-word"} = {}
           /\ \A k \in 1..Len(argv) :
                (\E n \in 1..Len(text) : text[n] = k) <=> argv[k] \notin Options /\ ~IsValue(k)
           /\ \A m, n \in 1..Len(text) : m < n => text[m] < text[n]]_commandVars
  <2> SUFFICES ASSUME ParseInv, CommandNext, <<wav, json>>' # <<wav, json>>
               PROVE  /\ Given \cap {"--help", "--list-voices", "-word"} = {}
                      /\ \A k \in 1..Len(argv) :
                           (\E n \in 1..Len(text) : text[n] = k)
                             <=> argv[k] \notin Options /\ ~IsValue(k)
                      /\ \A m, n \in 1..Len(text) : m < n => text[m] < text[n]
    OBVIOUS
  <2>1. stage = "speak"
    BY DEF CommandNext, Type, Help, Flag, Value, MissingValue, BadSpeed, Text, Unknown, ParseEnd,
           Load, ListVoices, NoText, Speak, Launch, Go, vars
  <2>2. ReadSoFar /\ i > Len(argv) /\ ~list /\ Len(argv) \in Nat
    BY <2>1 DEF ParseInv
  <2>3. ASSUME NEW k \in 1..Len(argv) PROVE k \in 1..(i - 1)
    BY <2>2 DEF ReadSoFar
  <2> QED BY <2>2, <2>3 DEF ReadSoFar, Given, InText
<1> QED BY <1>1, ParseInvariance, PTL DEF CommandSpec, FilesOnlyWhenAsked

(* Of whatever is typed and however a run ends, the exit code is 0 only of *)
(* what was asked for and done.                                            *)
THEOREM ExitCorrect == CommandSpec => ExitTellsOutcome
<1>1. ParseInv /\ [CommandNext]_commandVars =>
        [exit' # exit =>
           /\ exit' = "0" => \/ Given \cap {"--help", "--list-voices"} # {}
                             \/ stage = "speak" /\ verdict'[run] = "ok"
           /\ exit' = "aborted" => \E k \in 1..(Len(argv) - 1) :
                                     argv[k] = "--speed" /\ argv[k + 1] # "1.5"]_commandVars
  <2> SUFFICES ASSUME ParseInv, CommandNext, exit' # exit
               PROVE  /\ exit' = "0" => \/ Given \cap {"--help", "--list-voices"} # {}
                                        \/ stage = "speak" /\ verdict'[run] = "ok"
                      /\ exit' = "aborted" => \E k \in 1..(Len(argv) - 1) :
                                                argv[k] = "--speed" /\ argv[k + 1] # "1.5"
    OBVIOUS
  <2>1. CASE Help
    <3>1. i \in 1..Len(argv) /\ ~IsValue(i) /\ argv[i] = "--help" /\ exit' = "0"
      BY <2>1 DEF Help, Parsing, Exits, ParseInv, ReadSoFar
    <3> QED BY <3>1 DEF Given
  <2>2. CASE ListVoices
    <3>1. ReadSoFar /\ list /\ Len(argv) \in Nat /\ exit' = "0"
      BY <2>2 DEF ListVoices, Exits, ParseInv
    <3>2. PICK k \in 1..(i - 1) : argv[k] = "--list-voices" /\ ~IsValue(k)
      BY <3>1 DEF ReadSoFar
    <3>3. k \in 1..Len(argv)
      BY <3>1 DEF ReadSoFar
    <3> QED BY <3>1, <3>2, <3>3 DEF Given
  <2>3. CASE BadSpeed
    <3>1. /\ i \in Nat /\ 1 <= i /\ i < Len(argv) /\ Len(argv) \in Nat
          /\ argv[i] = "--speed" /\ argv[i + 1] # "1.5" /\ exit' = "aborted"
      BY <2>3 DEF BadSpeed, Parsing, NotASpeed, Exits, ParseInv, ReadSoFar
    <3>2. i \in 1..(Len(argv) - 1)
      BY <3>1
    <3> QED BY <3>1, <3>2
  <2>4. CASE Go
    <3>1. stage = "speak" /\ exit' = ExitCode(verdict'[run])
      BY <2>4 DEF Go, Exits
    <3> QED BY <3>1 DEF ExitCode
  <2>5. CASE Type \/ Flag \/ Value \/ MissingValue \/ Text \/ Unknown \/ ParseEnd \/ Load
             \/ NoText \/ Speak
    BY <2>5 DEF Type, Flag, Value, MissingValue, Text, Unknown, ParseEnd, Load, NoText, Speak, Exits
  <2> QED BY <2>1, <2>2, <2>3, <2>4, <2>5 DEF CommandNext
<1> QED BY <1>1, ParseInvariance, PTL DEF CommandSpec, ExitTellsOutcome
=============================================================================
