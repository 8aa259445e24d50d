--------------------------- MODULE SessionProofs ---------------------------
(***************************************************************************)
(* The voices, the engine and the temporary files of a process, for any    *)
(* number of objects and voices.                                           *)
(***************************************************************************)
EXTENDS Session, TLAPS

Building == [state : {"building"}, espeak : BOOLEAN, voice : Voices, pack : {NoPack}, alone : BOOLEAN]
Usable   == [state : {"ready"}, espeak : BOOLEAN, voice : Voices, pack : Packs, alone : BOOLEAN]
Loads    == {"measure", "read"}
Asks     == {"open", "synth", "reset", "unlink"}

-----------------------------------------------------------------------------
(* Objects                                                                 *)

\* An object is there, half built or ready; half built only in the call of
\* its constructor.
ObjectsInv ==
  /\ DOMAIN tts = Objects
  /\ \A o \in Objects : tts[o] = Gone \/ tts[o] \in Building \/ tts[o] \in Usable
  /\ engine \in BOOLEAN
  /\ call \in Call
  /\ \A o \in Objects : tts[o] \in Building => call.at \in Loads /\ call.who = o
  /\ call.at \in Loads => call.who \in Live

\* The engine is on only for an object that found it, and on for one that has
\* been alone since it was built, beside which there is no other.
EngineInv ==
  /\ engine => \E o \in Live : tts[o].espeak
  /\ \A o, p \in Live : tts[o].alone => p = o
  /\ AloneKeepsEngine

Inv == ObjectsInv /\ EngineInv /\ PackIsNamed

(* What a state says of the fields an object has.                          *)
LEMMA Fields ==
  ASSUME NEW x, x = Gone \/ x \in Building \/ x \in Usable
  PROVE  /\ x.state = "gone" <=> x = Gone
         /\ x.state = "building" <=> x \in Building
         /\ x.state = "ready" <=> x \in Usable
         /\ x # Gone => x.espeak \in BOOLEAN /\ x.alone \in BOOLEAN /\ x.voice \in Voices
BY DEF Gone, Building, Usable

(* An object that goes takes the engine with it if it found one.           *)
LEMMA GoneInv ==
  ASSUME Inv, NEW o \in Live, tts' = [tts EXCEPT ![o] = Gone], Terminates(o),
         call' = Idle, \A p \in Objects : tts[p] \in Building => p = o
  PROVE  Inv'
<1>1. /\ o \in Objects /\ DOMAIN tts' = Objects
      /\ tts'[o] = Gone
      /\ \A p \in Objects : p # o => tts'[p] = tts[p]
  BY DEF Inv, ObjectsInv, Live
<1>2. Gone.state = "gone"
  BY DEF Gone
<1>3. Live' = Live \ {o} /\ Ready' \subseteq Ready \ {o}
  BY <1>1, <1>2 DEF Live, Ready
<1>4. tts[o].espeak \in BOOLEAN /\ engine' = (engine /\ ~tts[o].espeak) /\ engine \in BOOLEAN
  BY <1>1, <1>2, Fields DEF Inv, ObjectsInv, Live, Terminates
<1>5. ObjectsInv'
  <2>1. \A p \in Objects : tts'[p] = Gone \/ tts'[p] \in Building \/ tts'[p] \in Usable
    BY <1>1 DEF Inv, ObjectsInv
  <2>2. \A p \in Objects : tts'[p] \notin Building
    BY <1>1, <1>2 DEF Building, Gone
  <2>3. call' \in Call /\ engine' \in BOOLEAN
    BY <1>4 DEF Call
  <2>4. call'.at \notin Loads
    BY DEF Idle, Loads
  <2> QED BY <1>1, <2>1, <2>2, <2>3, <2>4 DEF ObjectsInv, Building, Usable, Packs, Call
<1>6. EngineInv'
  <2>1. \A p, q \in Live' : tts'[p].alone => q = p
    BY <1>1, <1>3 DEF Inv, EngineInv, Live
  <2>2. ASSUME engine' PROVE \E p \in Live' : tts'[p].espeak
    <3>1. PICK p \in Live : tts[p].espeak
      BY <1>4, <2>2 DEF Inv, EngineInv
    <3> QED BY <1>1, <1>3, <1>4, <2>2, <3>1 DEF Live
  <2>3. ASSUME NEW p \in Live', tts'[p].alone, tts'[p].espeak PROVE engine'
    BY <1>1, <1>3, <2>3 DEF Inv, EngineInv, Live
  <2> QED BY <2>1, <2>2, <2>3 DEF EngineInv, AloneKeepsEngine
<1>7. PackIsNamed'
  BY <1>1, <1>3 DEF Inv, PackIsNamed, Ready
<1> QED BY <1>5, <1>6, <1>7 DEF Inv

(* A step that leaves the objects and the engine alone.                    *)
LEMMA SameInv ==
  ASSUME Inv, UNCHANGED <<tts, engine>>, call' \in Call,
         \A o \in Objects : tts[o] \in Building => call'.at \in Loads /\ call'.who = o,
         call'.at \in Loads => call'.who \in Live
  PROVE  Inv'
<1>1. ObjectsInv'
  BY DEF Inv, ObjectsInv, Building, Usable, Packs, Call, Live
<1>2. EngineInv' /\ PackIsNamed'
  BY DEF Inv, EngineInv, AloneKeepsEngine, PackIsNamed, Live, Ready
<1> QED BY <1>1, <1>2 DEF Inv

(* An exception of load_voice: out of set_voice nothing changes, out of a  *)
(* constructor the object is gone.                                         *)
LEMMA ThrowInv ==
  ASSUME Inv, At("measure") \/ At("read"), Throw
  PROVE  Inv'
<1>1. call.who \in Objects /\ call' = Idle /\ Idle \in Call
  BY DEF Inv, ObjectsInv, Call, At, Throw, Idle
<1>2. CASE tts[call.who].state = "building"
  <2>1. call.who \in Live
    BY <1>1, <1>2 DEF Live
  <2>2. \A p \in Objects : tts[p] \in Building => p = call.who
    BY DEF Inv, ObjectsInv
  <2> QED BY <1>1, <1>2, <2>1, <2>2, GoneInv DEF Throw
<1>3. CASE tts[call.who].state # "building"
  <2>1. \A p \in Objects : tts[p] \notin Building
    BY <1>1, <1>3 DEF Inv, ObjectsInv, Building
  <2>2. call'.at \notin Loads
    BY <1>1 DEF Idle, Loads
  <2> QED BY <1>1, <1>3, <2>1, <2>2, SameInv DEF Throw
<1> QED BY <1>2, <1>3

(* A constructor has started its G2P and is about to load its voice.       *)
LEMMA ConstructInv ==
  ASSUME Inv, NEW o \in Objects, NEW v \in Voices, Construct(o, v)
  PROVE  Inv'
<1>1. PICK ok \in BOOLEAN :
        /\ InitEspeak(ok)
        /\ tts' = [p \in Objects |->
                     IF p = o
                     THEN [state |-> "building", espeak |-> ok, voice |-> v,
                           pack |-> NoPack, alone |-> Live = {}]
                     ELSE IF p \in Live THEN [tts[p] EXCEPT !.alone = FALSE]
                     ELSE tts[p]]
  BY DEF Construct
<1>2. /\ IsIdle /\ o \notin Live
      /\ call' = [at |-> "measure", who |-> o, want |-> v]
      /\ engine' = (engine \/ ok) /\ engine \in BOOLEAN
  BY <1>1 DEF Construct, InitEspeak, Inv, ObjectsInv
<1>3. /\ tts'[o] \in Building
      /\ tts'[o].state = "building" /\ tts'[o].espeak = ok
      /\ tts'[o].alone => Live = {}
  <2>1. PICK a \in BOOLEAN : a <=> Live = {}
    BY Zenon
  <2>2. a = (Live = {})
    BY <2>1, Zenon
  <2>3. tts'[o] = [state |-> "building", espeak |-> ok, voice |-> v,
                   pack |-> NoPack, alone |-> a]
    BY <1>1, <2>2, Zenon
  <2>4. tts'[o] \in Building /\ tts'[o].state = "building" /\ tts'[o].espeak = ok
    BY <2>3 DEF Building
  <2>5. tts'[o].alone = a
    BY <2>3
  <2> QED BY <2>1, <2>4, <2>5
<1>4. ASSUME NEW p \in Objects, p # o, p \notin Live
      PROVE  tts'[p] = Gone
  BY <1>1, <1>4, Fields DEF Live, Inv, ObjectsInv
<1>5. ASSUME NEW p \in Live, p # o
      PROVE  /\ tts'[p] \in Usable /\ tts[p] \in Usable
             /\ tts'[p].alone = FALSE /\ tts'[p].state = "ready"
             /\ tts'[p].espeak = tts[p].espeak /\ tts'[p].voice = tts[p].voice
             /\ tts'[p].pack = tts[p].pack
  <2>1. p \in Objects /\ tts[p] \in Usable
    BY <1>2, <1>5, Fields DEF Live, Inv, ObjectsInv, IsIdle, Idle, Loads
  <2>2. tts'[p] = [tts[p] EXCEPT !.alone = FALSE]
    BY <1>1, <1>5, <2>1
  <2> QED BY <2>1, <2>2 DEF Usable
<1>6. Live' = Live \cup {o} /\ Ready' = Ready
  <2>1. Gone.state = "gone"
    BY DEF Gone
  <2>2. \A p \in Live : tts'[p].state = "ready" /\ tts'[p].state # "gone"
    BY <1>2, <1>5
  <2>3. \A p \in Objects : p # o /\ p \notin Live => tts'[p].state = "gone"
    BY <1>4, <2>1
  <2>4. \A p \in Ready : p \in Live
    BY DEF Ready, Live
  <2>5. \A p \in Live : p \in Ready
    <3>1. SUFFICES ASSUME NEW p \in Live PROVE tts[p].state = "ready"
      BY DEF Ready, Live
    <3>2. p # o
      BY <1>2
    <3> QED BY <1>5, <3>2 DEF Usable
  <2>6. Live' = Live \cup {o}
    BY <1>2, <1>3, <2>2, <2>3 DEF Live
  <2>7. Ready' = Ready
    BY <1>2, <1>3, <2>2, <2>3, <2>4, <2>5 DEF Ready
  <2> QED BY <2>6, <2>7
<1>7. ObjectsInv'
  <2>1. DOMAIN tts' = Objects
    BY <1>1
  <2>2. \A p \in Objects : tts'[p] = Gone \/ tts'[p] \in Building \/ tts'[p] \in Usable
    BY <1>3, <1>4, <1>5
  <2>3. call' \in Call /\ call'.at \in Loads /\ call'.who = o
    BY <1>2 DEF Call, Loads
  <2>4. \A p \in Objects : tts'[p] \in Building => p = o
    <3>1. SUFFICES ASSUME NEW p \in Objects, p # o PROVE tts'[p] \notin Building
      OBVIOUS
    <3>2. CASE p \in Live
      BY <1>5, <3>1, <3>2 DEF Building
    <3>3. CASE p \notin Live
      BY <1>4, <3>1, <3>3 DEF Building, Gone
    <3> QED BY <3>2, <3>3
  <2>5. call'.at \in Loads => call'.who \in Live'
    BY <1>6, <2>3
  <2> QED BY <2>5, <1>2, <2>1, <2>2, <2>3, <2>4 DEF ObjectsInv, Building, Usable, Packs, Call
<1>8. EngineInv'
  <2>1. \A p, q \in Live' : tts'[p].alone => q = p
    <3>1. SUFFICES ASSUME NEW p \in Live', NEW q \in Live', tts'[p].alone PROVE q = p
      OBVIOUS
    <3>2. p = o
      BY <1>2, <1>5, <1>6, <3>1
    <3> QED BY <1>3, <1>6, <3>1, <3>2
  <2>2. ASSUME engine' PROVE \E p \in Live' : tts'[p].espeak
    <3>1. CASE ok
      BY <1>3, <1>6, <3>1
    <3>2. CASE engine
      <4>1. PICK p \in Live : tts[p].espeak
        BY <3>2 DEF Inv, EngineInv
      <4> QED BY <1>2, <1>5, <1>6, <4>1
    <3> QED BY <1>2, <2>2, <3>1, <3>2
  <2>3. ASSUME NEW p \in Live', tts'[p].alone, tts'[p].espeak PROVE engine'
    <3>1. p = o
      BY <1>2, <1>5, <1>6, <2>3
    <3> QED BY <1>2, <1>3, <2>3, <3>1
  <2> QED BY <2>1, <2>2, <2>3 DEF EngineInv, AloneKeepsEngine
<1>9. PackIsNamed'
  BY <1>2, <1>5, <1>6 DEF Inv, PackIsNamed, Ready, Live
<1> QED BY <1>7, <1>8, <1>9 DEF Inv

(* A voice was read, or the file was shorter than it was measured.         *)
LEMMA ReadInv ==
  ASSUME SessionAssumption, Inv, Read
  PROVE  Inv'
<1> DEFINE o == call.who
<1>1. /\ o \in Objects /\ call.want \in Voices /\ call.size \div 2 \in 0..Rows
  BY DEF Read, At, Inv, ObjectsInv, Call, Idle, SessionAssumption
<1>2. CASE file[call.want] < call.size
  BY <1>2, ThrowInv DEF Read
<1>3. CASE ~(file[call.want] < call.size)
  <2>1. /\ tts' = [tts EXCEPT ![o] =
                     [state |-> "ready", espeak |-> @.espeak, voice |-> call.want,
                      pack  |-> [of |-> call.want, rows |-> call.size \div 2],
                      alone |-> @.alone]]
        /\ call' = Idle /\ engine' = engine
        /\ DOMAIN tts = Objects
    BY <1>3 DEF Read, Inv, ObjectsInv
  <2>2. o \in Live /\ (tts[o] \in Building \/ tts[o] \in Usable)
    BY <1>1, Fields DEF Read, At, Loads, Inv, ObjectsInv, Live
  <2>3. /\ tts'[o] \in Usable /\ tts'[o].state = "ready"
        /\ tts'[o].voice = call.want /\ tts'[o].pack.of = call.want
        /\ tts'[o].espeak = tts[o].espeak /\ tts'[o].alone = tts[o].alone
    <3>1. tts'[o] = [state |-> "ready", espeak |-> tts[o].espeak, voice |-> call.want,
                     pack  |-> [of |-> call.want, rows |-> call.size \div 2],
                     alone |-> tts[o].alone]
      BY <1>1, <2>1
    <3>2. [of |-> call.want, rows |-> call.size \div 2] \in Packs
      BY <1>1 DEF Packs
    <3>3. tts[o].espeak \in BOOLEAN /\ tts[o].alone \in BOOLEAN
      BY <2>2 DEF Building, Usable
    <3> QED BY <1>1, <3>1, <3>2, <3>3 DEF Usable
  <2>4. \A p \in Objects : p # o => tts'[p] = tts[p]
    BY <1>1, <2>1
  <2>5. Live' = Live /\ Ready' = Ready \cup {o}
    BY <1>1, <2>2, <2>3, <2>4 DEF Live, Ready
  <2>6. ObjectsInv'
    <3>1. DOMAIN tts' = Objects
      BY <2>1 DEF Inv, ObjectsInv
    <3>2. \A p \in Objects : tts'[p] = Gone \/ tts'[p] \in Building \/ tts'[p] \in Usable
      BY <2>3, <2>4 DEF Inv, ObjectsInv
    <3>3. \A p \in Objects : tts'[p] \notin Building
      <4>1. tts'[o] \notin Building
        BY <2>3 DEF Building
      <4> QED BY <2>4, <4>1 DEF Inv, ObjectsInv
    <3>4. call' \in Call /\ call'.at \notin Loads
      BY <2>1 DEF Call, Idle, Loads
    <3> QED BY <2>1, <3>1, <3>2, <3>3, <3>4 DEF Inv, ObjectsInv, Building, Usable, Packs, Call
  <2>7. EngineInv'
    BY <2>1, <2>2, <2>3, <2>4, <2>5 DEF Inv, EngineInv, AloneKeepsEngine, Live
  <2>8. PackIsNamed'
    BY <2>3, <2>4, <2>5 DEF Inv, PackIsNamed, Ready
  <2> QED BY <2>6, <2>7, <2>8 DEF Inv
<1> QED BY <1>2, <1>3

\* A file is absent or at most as long as the export script makes it.
FilesInv ==
  /\ file \in [Voices -> NoFile..Full]
  /\ export \in Voices \cup {"none"}

(* A file has no more rows than the export script writes.                  *)
LEMMA FilesInvariance == Spec => []FilesInv
<1> USE SessionAssumption DEF SessionAssumption, FilesInv, NoFile, Full
<1>1. Init => FilesInv
  BY DEF Init
<1>2. FilesInv /\ [Next]_vars => FilesInv'
  <2> SUFFICES ASSUME FilesInv, [Next]_vars PROVE FilesInv'
    OBVIOUS
  <2>1. CASE \E v \in Voices : ExportOpen(v)
    BY <2>1 DEF ExportOpen
  <2>2. CASE ExportWrite
    <3>1. PICK size \in (file[export] + 1)..Full : file' = [file EXCEPT ![export] = size]
      BY <2>2 DEF ExportWrite
    <3>2. size \in NoFile..Full /\ export' = export
      <4>1. file[export] \in NoFile..Full
        BY <2>2 DEF ExportWrite
      <4> QED BY <2>2, <3>1, <4>1 DEF ExportWrite
    <3> QED BY <3>1, <3>2
  <2>3. CASE ExportEnd
    BY <2>3 DEF ExportEnd
  <2>4. CASE UNCHANGED <<file, export>>
    BY <2>4
  <2> QED
    BY <2>1, <2>2, <2>3, <2>4
    DEF Next, vars, Construct, SetVoice, Measure, Read, Destroy, SelectStyle, IpaFile,
        IpaOpen, IpaSynth, IpaReset, IpaUnlink, Kill
<1> QED BY <1>1, <1>2, PTL DEF Spec

(* Each step of espeak_ipa is for the same object as the one before.       *)
LEMMA Asking ==
  ASSUME call \in Call, call.at \in Asks, NEW at, call' = [call EXCEPT !.at = at]
  PROVE  call' = [at |-> at, who |-> call.who] /\ call.who \in Objects
BY DEF Call, Idle, Asks

(* Every step keeps what is said of the objects and the engine.            *)
LEMMA NextInv == SessionAssumption /\ FilesInv /\ Inv /\ [Next]_vars => Inv'
<1> SUFFICES ASSUME SessionAssumption, FilesInv, Inv, [Next]_vars PROVE Inv'
  OBVIOUS
<1>1. CASE \E v \in Voices : ExportOpen(v)
  BY <1>1, SameInv DEF ExportOpen, Inv, ObjectsInv
<1>2. CASE ExportWrite \/ ExportEnd
  BY <1>2, SameInv DEF ExportWrite, ExportEnd, Inv, ObjectsInv
<1>3. CASE \E o \in Objects, v \in Voices : Construct(o, v)
  BY <1>3, ConstructInv
<1>4. CASE \E o \in Objects, v \in Voices : SetVoice(o, v)
  <2>1. PICK o \in Objects, v \in Voices : SetVoice(o, v)
    BY <1>4
  <2>2. /\ call' = [at |-> "measure", who |-> o, want |-> v]
        /\ o \in Ready /\ call = Idle /\ UNCHANGED <<tts, engine>>
    BY <2>1 DEF SetVoice, IsIdle
  <2>3. call' \in Call /\ call'.who = o
    BY <2>2 DEF Call
  <2>4. o \in Live
    BY <2>2 DEF Ready, Live
  <2>5. \A p \in Objects : tts[p] \notin Building
    BY <2>2 DEF Inv, ObjectsInv, Idle, Loads
  <2> QED BY <2>2, <2>3, <2>4, <2>5, SameInv
<1>5. CASE Measure
  <2>1. CASE Throw
    BY <1>5, <2>1, ThrowInv DEF Measure
  <2>2. CASE Load(file[call.want]) /\ ~Throw
    <3>1. /\ call.who \in Objects /\ call.want \in Voices /\ At("measure")
      BY <1>5 DEF Measure, At, Inv, ObjectsInv, Call, Idle
    <3>2. file[call.want] \in {2 * n : n \in 0..Rows}
      <4> DEFINE size == file[call.want]
      <4>1. size \in NoFile..Full /\ size # NoFile /\ size % 2 # 1
        BY <1>5, <2>2, <3>1 DEF Measure, FilesInv
      <4>2. size \in 0..(2 * Rows) /\ size = 2 * (size \div 2)
        BY <4>1, SessionAssumption DEF SessionAssumption, NoFile, Full
      <4>3. size \div 2 \in 0..Rows
        BY <4>2, SessionAssumption DEF SessionAssumption
      <4> QED BY <4>2, <4>3
    <3>3. /\ call' = [at |-> "read", who |-> call.who, want |-> call.want,
                      size |-> file[call.want]]
          /\ UNCHANGED <<tts, engine>>
      BY <2>2 DEF Load
    <3>4. call' \in Call /\ call'.who = call.who /\ call'.at \in Loads /\ call.at \in Loads
      BY <3>1, <3>2, <3>3 DEF Call, Loads, At
    <3> QED BY <3>3, <3>4, SameInv DEF Inv, ObjectsInv
  <2> QED BY <1>5, <2>1, <2>2 DEF Measure
<1>6. CASE Read
  BY <1>6, ReadInv
<1>7. CASE \E o \in Objects : Destroy(o)
  <2>1. PICK o \in Objects : Destroy(o)
    BY <1>7
  <2>2. o \in Live /\ call = Idle
    BY <2>1 DEF Destroy, IsIdle, Ready, Live
  <2>3. \A p \in Objects : tts[p] \notin Building
    BY <2>2 DEF Inv, ObjectsInv, Idle, Loads
  <2> QED BY <2>1, <2>2, <2>3, GoneInv DEF Destroy
<1>8. CASE \E o \in Objects : SelectStyle(o)
  BY <1>8, SameInv DEF SelectStyle, Inv, ObjectsInv
<1>9. CASE (\E o \in Objects : IpaFile(o)) \/ IpaOpen \/ IpaSynth \/ IpaReset \/ IpaUnlink
  <2>1. UNCHANGED <<tts, engine>> /\ call'.at \notin Loads /\ call' \in Call
    <3>1. CASE \E o \in Objects : IpaFile(o)
      BY <3>1 DEF IpaFile, Loads, Call
    <3>2. CASE IpaOpen \/ IpaSynth \/ IpaReset \/ IpaUnlink
      <4>1. call = [at |-> call.at, who |-> call.who] /\ call.who \in Objects
        BY <3>2 DEF IpaOpen, IpaSynth, IpaReset, IpaUnlink, At, Inv, ObjectsInv, Call, Idle
      <4>2. call' = Idle \/ \E at \in Asks : call' = [at |-> at, who |-> call.who]
        BY <3>2, <4>1, Asking
           DEF IpaOpen, IpaSynth, IpaReset, IpaUnlink, Asks, At, Inv, ObjectsInv
      <4> QED BY <3>2, <4>1, <4>2
              DEF IpaOpen, IpaSynth, IpaReset, IpaUnlink, Asks, Loads, Call, Idle
    <3> QED BY <1>9, <3>1, <3>2
  <2>2. \A p \in Objects : tts[p] \notin Building
    BY <1>9 DEF IpaFile, IpaOpen, IpaSynth, IpaReset, IpaUnlink, IsIdle, At,
                Inv, ObjectsInv, Idle, Loads
  <2> QED BY <2>1, <2>2, SameInv
<1>10. CASE Kill
  <2>1. /\ tts' = [o \in Objects |-> Gone] /\ call' = Idle /\ engine' = FALSE
    BY <1>10 DEF Kill
  <2>2. Live' = {} /\ Ready' = {}
    BY <2>1 DEF Live, Ready, Gone
  <2> QED BY <2>1, <2>2
          DEF Inv, ObjectsInv, EngineInv, AloneKeepsEngine, PackIsNamed,
              Building, Gone, Idle, Call, Loads
<1>11. CASE UNCHANGED vars
  BY <1>11, SameInv DEF vars, Inv, ObjectsInv
<1> QED
  BY <1>1, <1>2, <1>3, <1>4, <1>5, <1>6, <1>7, <1>8, <1>9, <1>10, <1>11 DEF Next

(* What is said of the objects and the engine holds throughout.            *)
THEOREM Invariance == Spec => []Inv
<1>1. Init => Inv
  <2> SUFFICES ASSUME Init PROVE Inv
    OBVIOUS
  <2>1. tts = [o \in Objects |-> Gone] /\ call = Idle /\ engine = FALSE
    BY DEF Init
  <2>2. Live = {} /\ Ready = {}
    BY <2>1 DEF Live, Ready, Gone
  <2> QED BY <2>1, <2>2
          DEF Inv, ObjectsInv, EngineInv, AloneKeepsEngine, PackIsNamed,
              Building, Gone, Idle, Call, Loads
<1>2. FilesInv /\ Inv /\ [Next]_vars => Inv'
  BY NextInv, SessionAssumption
<1> QED BY <1>1, <1>2, FilesInvariance, PTL DEF Spec

(* An object that found espeak and was never beside another one finds it   *)
(* as long as it lives, whatever set_voice throws meanwhile.               *)
THEOREM EngineCorrect == Spec => []AloneKeepsEngine
<1>1. Inv => AloneKeepsEngine
  BY DEF Inv, EngineInv
<1> QED BY <1>1, Invariance, PTL

(* No engine is left on by an object that is gone, or never came to be.    *)
THEOREM ReleaseCorrect == Spec => []EngineReleased
<1>1. Inv => EngineReleased
  BY DEF Inv, EngineInv, EngineReleased
<1> QED BY <1>1, Invariance, PTL

(* The pack an object speaks with is that of the voice it names, whatever  *)
(* happens to the files and whatever fails.                                *)
THEOREM NameCorrect == Spec => []PackIsNamed
<1>1. Inv => PackIsNamed
  BY DEF Inv
<1> QED BY <1>1, Invariance, PTL

-----------------------------------------------------------------------------
(* The temporary file and the trace                                        *)

\* Where the trace is at each step of espeak_ipa, and whose the files are.
IpaInv ==
  /\ trace = IF At("synth") THEN "open" ELSE IF At("reset") THEN "closed" ELSE "none"
  /\ temps \in Nat /\ kills \in 0..MaxKills
  /\ call.at \in Asks => temps > 0
  /\ NoFileLeft

(* Which files there are and what the trace points to follows from where   *)
(* the call of espeak_ipa is.                                              *)
THEOREM IpaInvariance == Spec => []IpaInv
<1>1. Init => IpaInv
  BY SessionAssumption DEF SessionAssumption, Init, IpaInv, NoFileLeft, At, Idle, Asks
<1>2. Inv /\ IpaInv /\ [Next]_vars => IpaInv'
  <2> SUFFICES ASSUME Inv, IpaInv, [Next]_vars PROVE IpaInv'
    OBVIOUS
  <2>0. call \in Call
    BY DEF Inv, ObjectsInv
  <2> USE SessionAssumption DEF SessionAssumption, IpaInv, NoFileLeft, At, Idle, Asks
  <2>1. CASE \E v \in Voices : ExportOpen(v)
    BY <2>1 DEF ExportOpen
  <2>2. CASE ExportWrite \/ ExportEnd
    BY <2>2 DEF ExportWrite, ExportEnd
  <2>3. CASE \E o \in Objects, v \in Voices : Construct(o, v) \/ SetVoice(o, v)
    BY <2>3 DEF Construct, SetVoice, IsIdle
  <2>4. CASE Measure \/ Read
    <3>1. /\ call.at \in Loads /\ UNCHANGED <<trace, temps, kills>>
          /\ call' = Idle \/ call'.at = "read"
      BY <2>4 DEF Measure, Read, Throw, Load, Loads
    <3> QED BY <3>1 DEF Loads
  <2>5. CASE \E o \in Objects : Destroy(o) \/ SelectStyle(o)
    BY <2>5 DEF Destroy, SelectStyle
  <2>6. CASE \E o \in Objects : IpaFile(o)
    BY <2>6 DEF IpaFile, IsIdle
  <2>7. CASE IpaOpen
    <3>1. call' = Idle \/ call'.at = "synth"
      BY <2>0, <2>7, Asking DEF IpaOpen, Asks
    <3> QED BY <2>7, <3>1 DEF IpaOpen
  <2>8. CASE IpaSynth \/ IpaReset \/ IpaUnlink
    <3>1. CASE IpaSynth
      <4>1. call'.at = "reset"
        BY <2>0, <3>1, Asking DEF IpaSynth, Asks
      <4> QED BY <3>1, <4>1 DEF IpaSynth
    <3>2. CASE IpaReset
      <4>1. call'.at = "unlink"
        BY <2>0, <3>2, Asking DEF IpaReset, Asks
      <4> QED BY <3>2, <4>1 DEF IpaReset
    <3>3. CASE IpaUnlink
      BY <3>3 DEF IpaUnlink
    <3> QED BY <2>8, <3>1, <3>2, <3>3
  <2>9. CASE Kill
    BY <2>9 DEF Kill
  <2>10. CASE UNCHANGED vars
    BY <2>10 DEF vars
  <2> QED BY <2>1, <2>2, <2>3, <2>4, <2>5, <2>6, <2>7, <2>8, <2>9, <2>10 DEF Next
<1> QED BY <1>1, <1>2, Invariance, PTL DEF Spec

(* espeak never writes to a file that was closed, whichever way the call   *)
(* that gave it the file has ended.                                        *)
THEOREM TraceCorrect == Spec => []TraceIsOpen
<1>1. IpaInv => TraceIsOpen
  BY DEF IpaInv, TraceIsOpen, At
<1> QED BY <1>1, IpaInvariance, PTL

(* Every temporary file is removed but those of processes that were        *)
(* stopped.                                                                *)
THEOREM FilesCorrect == Spec => []NoFileLeft
<1>1. IpaInv => NoFileLeft
  BY DEF IpaInv
<1> QED BY <1>1, IpaInvariance, PTL

-----------------------------------------------------------------------------
(* The row of the pack                                                     *)

\* A row of a pack that a voice file may hold.
StyleInv ==
  /\ style.of \in 0..Rows /\ style.index \in Nat
  /\ StyleInPack

(* A pack has no more rows than a file the export script writes, and the   *)
(* index is held below them.                                               *)
THEOREM StyleInvariance == Spec => []StyleInv
<1>1. Init => StyleInv
  <2>1. 1 \in 0..Rows
    BY SessionAssumption DEF SessionAssumption
  <2> QED BY <2>1 DEF Init, StyleInv, StyleInPack
<1>2. Inv /\ StyleInv /\ [Next]_vars => StyleInv'
  <2> SUFFICES ASSUME Inv, StyleInv, [Next]_vars PROVE StyleInv'
    OBVIOUS
  <2>1. CASE \E o \in Objects : SelectStyle(o)
    <3>1. PICK o \in Ready, n \in 1..MaxTokens :
            style' = [index |-> StyleIndex(n, tts[o].pack.rows), of |-> tts[o].pack.rows]
      BY <2>1 DEF SelectStyle
    <3>2. tts[o].pack.rows \in 0..Rows /\ Rows \in Nat
      <4>1. tts[o] \in Usable
        BY Fields DEF Inv, ObjectsInv, Ready
      <4> QED BY <4>1, SessionAssumption DEF Usable, Packs, SessionAssumption
    <3>3. n \in Nat
      BY SessionAssumption DEF SessionAssumption
    <3> DEFINE rows == tts[o].pack.rows
    <3>4. style'.of = rows /\ style'.index = StyleIndex(n, rows)
      BY <3>1
    <3>5. rows \in 0..Rows
      BY <3>2
    <3> HIDE DEF rows
    <3>6. StyleIndex(n, rows) \in Nat /\ (rows > 0 => StyleIndex(n, rows) < rows)
      BY <3>2, <3>3, <3>5 DEF StyleIndex
    <3> QED BY <3>4, <3>5, <3>6 DEF StyleInv, StyleInPack
  <2>2. CASE UNCHANGED style
    BY <2>2 DEF StyleInv, StyleInPack
  <2> QED
    BY <2>1, <2>2
    DEF Next, vars, ExportOpen, ExportWrite, ExportEnd, Construct, SetVoice, Measure, Read,
        Destroy, IpaFile, IpaOpen, IpaSynth, IpaReset, IpaUnlink, Kill
<1> QED BY <1>1, <1>2, Invariance, PTL DEF Spec

(* However short the pack is, no sentence is given a row beyond it.        *)
THEOREM StyleCorrect == Spec => []StyleInPack
<1>1. StyleInv => StyleInPack
  BY DEF StyleInv
<1> QED BY <1>1, StyleInvariance, PTL

\* The objects are a function of their names.
Mapped == tts = [o \in DOMAIN tts |-> tts[o]]

(* Every step replaces the objects as a whole or one of them.              *)
LEMMA MappedInvariance == Spec => []Mapped
<1>1. Init => Mapped
  BY DEF Init, Mapped
<1>2. Mapped /\ [Next]_vars => Mapped'
  BY DEF Mapped, Next, vars, ExportOpen, ExportWrite, ExportEnd, Construct, SetVoice, Measure,
         Throw, Load, Read, Destroy, SelectStyle, IpaFile, IpaOpen, IpaSynth, IpaReset,
         IpaUnlink, Kill
<1> QED BY <1>1, <1>2, PTL DEF Spec

(* The session is well typed, and between two calls no object is half      *)
(* built.                                                                  *)
THEOREM TypeCorrect == Spec => []TypeOK
<1>1. FilesInv /\ Inv /\ IpaInv /\ StyleInv /\ Mapped => TypeOK
  <2> SUFFICES ASSUME FilesInv, Inv, IpaInv, StyleInv, Mapped PROVE TypeOK
    OBVIOUS
  <2>1. tts \in [Objects -> Object]
    <3>1. \A o \in Objects : tts[o] \in Object
      BY DEF Inv, ObjectsInv, Object, Building, Usable
    <3>2. tts = [o \in Objects |-> tts[o]]
      BY DEF Inv, ObjectsInv, Mapped
    <3> QED BY <3>1, <3>2
  <2>2. IsIdle => Live = Ready
    <3> SUFFICES ASSUME call = Idle, NEW o \in Live PROVE o \in Ready
      BY Fields DEF IsIdle, Live, Ready, Inv, ObjectsInv
    <3>1. call.at \notin Loads
      BY DEF Idle, Loads
    <3>2. tts[o] \in Usable
      BY <3>1, Fields DEF Live, Inv, ObjectsInv
    <3> QED BY <3>2, Fields DEF Live, Ready
  <2>3. trace \in {"none", "open", "closed"}
    BY DEF IpaInv
  <2> QED BY <2>1, <2>2, <2>3 DEF FilesInv, Inv, ObjectsInv, IpaInv, StyleInv, TypeOK
<1> QED BY <1>1, FilesInvariance, Invariance, IpaInvariance, StyleInvariance, MappedInvariance, PTL
=============================================================================
