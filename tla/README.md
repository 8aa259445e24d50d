# A verification development for kokoro_tts

kokoro_tts turns a text into speech: a C++ command-line program that
normalizes the text, finds out how each word is pronounced, has a TorchScript
model speak it sentence by sentence, and writes a `.wav` file and beside it a
`.json` file that says when each word is heard. This directory holds TLA+
models of it, the TLC configurations that check them and the proofs that TLAPS
checks.

Source paths below are relative to the repository's own `src/` directory.

## 1. The system

### Components

| component | code | state it keeps | operations |
|---|---|---|---|
| command line | `main.cpp` | the arguments, the text put together from them | take an argument, load, list the voices or speak, exit with a code |
| request pipeline | `kokoro/kokoro_tts.cpp` 300-446 | per request: samples, words, time offset, `first` | `synthesize` (a sentence), `synthesize_to_wav` (a text) |
| sentence splitter | `kokoro_tts.cpp` 18-50 | none outside a call | `split_sentences` |
| text normalizer | `misaki/text_normalizer.cpp` | none outside a call | five passes: abbreviations, currency, ordinals, numbers, white space |
| grapheme-to-phoneme loop | `misaki/g2p.cpp` 150-251 | per call: position, `need_space`, tokens, words | `text_to_tokens_ex`, `word_to_tokens` |
| pronouncing dictionary | `misaki/cmudict.cpp` | word to phones, loaded once | `load`, `lookup` |
| espeak bridge | `g2p.cpp` 51-148 | `espeak_ok_`; an engine shared by the whole process; a temporary file per word | start, stop, `espeak_ipa` |
| word timestamp builder | `kokoro_tts.cpp` 75-174 | per call: word being gathered, words labelled | `build_word_timestamps` |
| voices | `kokoro_tts.cpp` 245-294 | the voice pack, the current name | `load_voice`, `set_voice`, `list_voices`, `select_style` |
| output | `audio/wav_writer.cpp`, `kokoro_tts.cpp` 427-445 | two files | `WavWriter::write`, `timestamps_to_json` |
| export script | `scripts/export_model.py` | files on disk | trace the model, convert the voices |
| tokenizer class | `misaki/tokenizer.cpp` | none | a member of `G2P` that nothing calls |
| neural network | `scripts/istftnet.py`, `modules.py`, `custom_stft.py` | weights | external to the C++ program |

### How they interact

Everything runs in one thread, by plain calls:

    main -> synthesize_to_wav -> split_sentences
                              -> for each sentence: synthesize
                                     -> text_to_tokens_ex -> normalize
                                                          -> word_to_tokens -> dictionary, else espeak
                                     -> select_style
                                     -> model.forward         (tokens, style) -> (audio, rows)
                                     -> build_word_timestamps (tokens, rows, words)
                              -> WavWriter::write, then the .json file

So there are no data races in it. What is hard is that its parts agree only by
convention, over sequences that each builds in many steps:

- The front end returns tokens and words side by side, and nothing but the
  position of SPACE tokens says which tokens are whose. The builder derives
  the boundaries again, one group at a time, and takes the words in order. A
  single SPACE too many or too few shifts the label of every later word.
- The model's rows line up with the tokens only because another program, the
  exporter, stacks one row per token, pads included; their unit is a constant
  of that program.
- The cap of 512 tokens cuts one of the two outputs of the front end and not
  the other.
- Times are added up across sentences, some of which have no sound.
- Files and the espeak engine are the only state that outlives a call: the
  engine is global to the process while instances of `G2P` are not, and the
  two files are written one after the other over those of an earlier run.

The hazards are listed, line by line, in `PROJECT.json`.

### What makes each part correct

- Front end: frames its tokens with one pad at each end, fits the model, never
  has a SPACE that does not separate two groups, lists a word exactly when it
  emits tokens for it, and on well-spaced text keeps the n-th group the n-th
  word's. It reads the text to its end.
- Timestamp builder: words in order, over non-empty spans that do not overlap;
  word k over group k; the last one to the end of the audio.
- Request pipeline: a word's time in the file is where its tokens are heard in
  the file, whatever was skipped before.
- Normalizer: a number is read as words that say its value, by the pass that is
  meant for it; only a number too long for the machine fails.
- Splitter: no character lost but white space, no empty sentence.
- Request as a whole: however the text is cut and normalized, the words in the
  file are those of its sentences, in its order, none twice; their printed times
  are still in order.
- Output: the two files belong together, success is reported only of what was
  written, and a player that goes by the sizes in the header reads all of it.
- Command line: files are touched only for a command that was understood and
  asks for speech, the text is what is left of the arguments, and the exit code
  says what came of it.
- espeak bridge: nobody calls an engine that was ended; no file is left behind.
- Voices: a voice that cannot be loaded leaves the one there was.

## 2. The modules

| module | what it models |
|---|---|
| `Vocab` | the token ids: all that the vocabulary assigns, and those with a meaning of their own (pad, SPACE, the marks) |
| `G2P` | the loop of `text_to_tokens_ex`, an action per branch |
| `WordTimestamps` | `build_word_timestamps`, an action per branch of its loop, the last flush and the tail fix |
| `Timeline` | abstract: what the two files promise, whatever the text and the model |
| `Synthesis` | a request, from its text to the printed timestamps: composes `Splitter`, `G2P` and `WordTimestamps` with the loop of `synthesize_to_wav`, and is shown to implement `Timeline` |
| `Splitter` | `split_sentences`, an action per branch |
| `Output` | the two files of a request over several runs of the program: the end of `synthesize_to_wav` and `WavWriter::write` |
| `Command` | `main` around `Output`: the loop over the arguments, an action per branch, and the exit codes |
| `Session` | what outlives a request: the objects and the voice each holds, the espeak engine, the voice files and the temporary file of `espeak_ipa` |
| `Normalizer` | `TextNormalizer::normalize`, an action per pass |
| `Lexicon` | the dictionary, from its download to `word_to_tokens` |
| `FrontEnd` | composes `Normalizer` and `Lexicon`: from a text to the pronunciation of its words |
| `MCG2P`, `MCWordTimestamps`, `MCSynthesis`, `MCSplitter`, `MCCommand`, `MCFrontEnd` | bounded instances for TLC; `Session` and the run `output_said` of `Output` need none |
| `SequenceFacts`, `G2PProofs`, `WordTimestampsProofs`, `SynthesisProofs`, `SplitterProofs`, `OutputProofs`, `SessionProofs`, `FrontEndProofs` | theorems and lemmas |

### G2P

| in the module | in `g2p.cpp` |
|---|---|
| `text`, `pos` | `normalized`, `pos` (counted in characters, the decoding of UTF-8 being in the classes) |
| `needSpace`, `tokenIds`, `words` | `need_space`, `out.token_ids`, `out.words` |
| `owner` | nothing: a history of how many words were listed when a token was emitted |
| `Whitespace` | 205-210 |
| `Punctuation` | 195-201 for multi-byte marks, 212-223 for the others |
| `SkipWide` | 190-203 where the character is no mark |
| `Word` = `VoicedWord` or `SilentWord` | 225-241 |
| `Finish` | 244-245, and the early exit at 192 |

A character is its class, a token its id. What a word is pronounced as is a
parameter, the set `Pronunciations`, so that the loop is checked against any
dictionary and any espeak; a word without letters has no pronunciation, as
`strip_punct` leaves nothing of it. `IsNormalized` is what
`normalize_whitespace` (text_normalizer.cpp:166-181) leaves, and bounds the texts
of the run `g2p`; the theorems do without it. `IsWord` takes the
whole inner loop in one step, as nothing happens between its iterations.

### WordTimestamps

Time is counted in samples, in whole numbers: the rows of the model are whole
numbers of frames, at least one each (`clamp(min=1)`, export_model.py:122),
added up. `ends[k]` is the last frame of token k, `Frames` the last row's,
`ModelTotal` what the model writes there, in samples of its own unit, and
`Scaled` multiplies by `scale` and rounds down where the code keeps a double.
`Reject` is the shape check at 97, `SkipPad`, `EndGroup` and `Extend` the three
branches of 138-156, `FlushWord` the lambda at 129, called by `EndGroup` and
`FlushLast`, and `ExtendTail` is 160-169. `Emit` and `Gather` are the bodies of
the lambda and of the third branch, with what a seeded fault changes as their
parameters.

### Synthesis

The variables of its three components are its own, and it runs their next-state
relations: `S!Next` in `Split`, `G!Next` in `Tokenize` and `W!Next` in `Label`.
`Begin` is the fallback for a text without a sentence (390-391),
`StartSentence`, `SkipSilent` and `Infer` are the steps of `synthesize`,
`AppendChunk` the body of the loop of `synthesize_to_wav` (403-424) and `Finish`
what comes after it, with the rounding of `timestamps_to_json`.

A character of the document is one class for the scan (`ClassOf`) and another for
the front end (`Normal`), and `Places` is where the characters that are left of a
sentence by the first and the last pass of the normalizer stand in the document.
The words an abbreviation is written out as begin where it does; its period is
taken out and nothing put there (`expand_abbreviations`,
text_normalizer.cpp:147-162, writes no space), so that `Dr.smith` is the one word
`doctorsmith`. `etc.`, `i.e.` and `e.g.` become two words: the space between them
stands at the `c` or at the first period (`gap`), the second word of `etc.` at its
period (`cetera`), that of the others at their second letter. How long the words
are is left out, as what a word is pronounced as is a parameter. A word is known
by the place its first character comes of: that is what lets a property say that a
timestamp names a word of the sentences, and which one. `segments` is a history:
where in the samples each sentence is heard. The model is the choice of a row of
`Rows` that has an entry per token; its audio has `HopLength` samples per frame,
as the exporter's own constant says. `Unit` is what the last of the digits that a
stream prints is worth, which grows with the time (six digits in the code,
`Precision` here), by the powers of ten.

### Timeline

Two sequences: the spans of the samples that hold speech, and the marks of the
words. One action, `Speak`, appends a segment one silence after the last one,
and marks in order inside it. `Synthesis` implements it under the mapping
`marks <- Spans(allWords)`: `AppendChunk` is a `Speak`, every other step
stutters.

### Splitter

A character is its class; `abbrev` is a period that ends an abbreviation the
normalizer knows, which the scan takes for any other stop. `cur` is never
built: it is what lies between `start` and `i`. `Stop` takes the whole branch of
24-40 in one step, `LastCloser` being where the loop over closing marks stops
(a multi-byte mark counts as one character) and `EndsAfter` the test of what
follows. `Sentence` drops leading white space.

### Output

`wav` and `json` say which run of the program opened the file last and whether
all of it is there. `OpenWav` and `OpenJson` are the two opens, which truncate,
`WriteWav` the writing of header and samples with the test of `good()`,
`WriteJson` the insertion and its test, `CloseJson` the destructor of the
stream, which may still have something to write and reports nothing. Every one
of them may fail, with the exception that `main` turns into exit code 1, and
`Kill` may come between any two. `DataBytes` is the size of the samples modulo
2^32, which is also how many bytes are written. `Chunks` is what is written of the
three chunks: the size that each announces beside the bytes that follow, the
fields of the fmt chunk counted one by one; `RiffSize` is the size of the whole
file in its header, and `BytesAfter` what is there.

### Command

An argument is the option it is, or its kind. `Help`, `Flag`, `Value`,
`MissingValue`, `BadSpeed`, `Text` and `Unknown` are the branches of the loop of
`main`, `ParseEnd` its end. What comes then is `Load` (the constructor, which needs
a model and a voice whatever was asked for), `ListVoices`, `NoText`, or `Speak`,
which is `Launch` of `Output`; `Go` runs `Output`'s next-state relation, and turns
the verdict of the run into an exit code. `text` is the places of the arguments
the text is put together from. `stof` at 77 stands outside of the `try` block:
`BadSpeed` ends the process with no exit code of its own.

### Session

`tts` holds for each object its state, the voice it names, the rows it holds,
whether its `G2P` found espeak, and as a history whether it was ever beside
another one (`alone`). `call` is what the one thread is doing: `load_voice` is
`Measure` (open, `tellg`) and `Read`, between which the export script, the
process of `ExportOpen`, `ExportWrite` and `ExportEnd`, may truncate and fill the
file again; `espeak_ipa` is five steps. `Throw` is an exception of `load_voice`:
out of `set_voice` it changes nothing, out of a constructor it destroys the
`G2P` that was built before, which ends the engine (`Terminates`). That a model
file cannot be loaded comes before all of this and leaves no trace.

### Normalizer

An item of the text is a character, by its class, or a run of words that a pass
has put in place of some. A pass is a regular expression and what is written for a
match. `expand_abbreviations` is ten expressions one after the other: a word that
one of them has put in place may take the `\b` from the abbreviation right behind
it, so that of `Mr.Dr.` only one is written out, or both, by the order of the
expressions; which abbreviation is which is left out, and an abbreviation right
behind another may stay or not (`ExpandAbbreviations`). `Rewrite` is the loop over
`sregex_iterator` that all of them have, `Grouped`, `Digits`, `Fraction` and
`Boundary` are the parts of the expressions, and `NumberEnds` the one of 93, whose
second alternative counts only where the first, taken back as far as `\b` demands,
has no match. Among the ends of a match the largest is the one the greedy
expression takes. `Words` is `integer_to_words` with a word as a kind and a
number. A number that is `TooLong` makes `stoll` throw, and where that is not in a
`try` block (52, 77) the whole request fails (`Thrown`). `Endless` is
`integer_to_words` of the least `long long`, which is its own negative, so that
line 23 calls itself until the stack ends. `MaxValue` is the largest number
`stoll` returns, 2^63 - 1 in the code; the models take any that has two digits or
more, as the two digits of the cents are read by `stoll` too (`TextsAssumption`).

`NumbersAreRead` and `AmountsAreRead` are the reference definition: `Understood`
hears the words of a number and says its value, which is compared with that of
the digits. A hundred multiplies what was heard since the last scale, a thousand
and a million close it, and a billion, past which `integer_to_words` knows no
scale, counts all that came before it: 10^12 is `one thousand billion`.

### Lexicon and FrontEnd

`disk` is `data/cmudict.dict`: how many whole lines it has and, where it ends in
the middle of one, what is there of that line (`Cuts`). `StartFetch`, `Receive` and
`EndFetch` are the download, which writes under the file's final name and takes a
file that exists for a whole one; it may end at any time, and the program may
start at any time. `Load` is `CmuDict::load` within the constructor of `G2P`, in
one step, as every read of a growing file is a read of one that had grown so far;
`AddLine` is a round of its loop. `Singles` and `Diphthongs` are the table of
`phone_to_tokens` in full, with `AH` and `ER`, which look at the stress, in `Sound`;
`IPA_SUBSTITUTIONS` is that of `g2p.cpp` and `Vocabulary` (in `Vocab`) the numbers
that `vocab.h` assigns. A character of IPA is one the vocabulary has, known by its
number, one that others stand for, one that neither has, or one that is cut.

`FrontEnd` runs the actions of both, in the order of the constructor and of
`text_to_tokens_ex`, and looks up the words of the normalized text (`WordsOf`: what
the loop separates and `strip_punct` leaves). Which tokens come before and after a
word is `G2P`'s matter; what `G2P` assumes of a pronunciation, that it holds no
pad, follows from `OneGroup` here, and what it assumes of its text is `Spaced`.

## 3. The runs

| run | expected | shows |
|---|---|---|
| `g2p` | pass | `TypeOK`, `Framed`, `SpacesSeparate`, `AlignedWhenWellSpaced`, `ListedWordsAreSpoken`, `Terminates` |
| `g2p_spacing` | violation | `OneEntryPerGroup`: an opening quotation mark makes two words share a group |
| `g2p_marks` | violation | `EveryMarkIsAToken`: a word swallows the multi-byte mark after it |
| `timestamps` | pass | `TypeOK`, `InOrder`, `LabelsMatchGroups`, `LastWordEndsWithAudio` |
| `timestamps_tail` | violation | `NoWordOutlivesAudio`: the tail fix ignores the rescaling |
| `synthesis` | pass | `OffsetIsLength`, `WordsWhereSpoken`, `MarkedInTextOrder`, `PrintedInOrder`, `TimelineSpec`, `Finishes` |
| `output` | pass | `TypeOK`, `SuccessReplacesBoth`, `JsonFollowsWav`, `MismatchOnlyAfterFailure`, `HeaderReadable`, `FilesOnlyWhenAsked`, `ExitTellsOutcome` |
| `output_said` | violation | `SaidIsWritten`: the program names a file it has not written |
| `splitter` | pass | `NothingLost`, `CutsBeforeCapitals`, `Terminates` |
| `splitter_order` | violation | `NoCutAfterAbbreviation`: sentences are split before abbreviations are expanded |
| `front_end` | pass | `NumbersAreRead`, `AmountsAreRead`, `DigitsLeftInWords`, `Spaced`, `FailsOnlyOnLong`, `OnlyCutEntryDiffers`, `OneGroup`, `NumbersAreSpoken` |
| `session` | pass | `PackIsNamed`, `StyleInPack`, `AloneKeepsEngine`, `EngineReleased`, `TraceIsOpen`, `NoFileLeft` |

Bounds, and why they are enough.

- `g2p`: every normalized text of at most 5 characters (`MCMaxText`) over a
  letter, another character, a space, an ASCII mark, a multi-byte mark, a
  multi-byte character and one that is cut off. Each branch of the loop looks
  at the flag, at the last token and at what it reads, so two words with
  everything that may stand between them (three characters) already meet every
  pair of branches. Pronunciations are none, one token, two, and one that ends
  in a SPACE. `TokenCap` is 6 in place of 512, so that the cap cuts before a
  word, within one, and at its SPACE.
- `timestamps`: up to 5 tokens between the pads (`MCMaxBody`), up to 3 labels,
  a row per token, one too few or none, up to 7 frames, of which each renders
  to 0, 1 or 2 samples while the exporter assumes 2: three groups with fewer,
  as many and more labels, empty groups, and every way a scale below one
  rounds.
- `synthesis`: twelve documents of one to three sentences or lines, chosen so that
  between them they have blanks only, a mark alone, two sentences with and
  without a space between, either of them silent, a stop in quotes, an
  abbreviation cut off from its name, one that runs into the next word, two that
  become two words each, further closers, an empty line, words that meet without a
  space and a character that nobody pronounces; three pronunciations (none, one
  token, two), up to 7 frames with one or two to a token (`MCMaxFrames`,
  `MCMaxDuration`), two samples to a frame, pauses of 3, and times printed with one
  digit (`Precision`), so that rounding moves them. The state carried from a
  sentence to the next is the offset and `first`, so two sentences, the first of
  which may be silent, show each value it may have. `TokenCap` is 7, which cuts
  the longest.
- `output`: three runs, so that there are files of a run before the last and of
  one before that; every command line of at most three arguments (`MCMaxArgs`)
  of nine kinds, of which an option with a value takes two and the third meets
  what is left, and a complete one with every kind of value; texts of no
  samples, of few, and of too many for a size counted modulo 64 (`WordSize`, in
  place of 2^32).
- `splitter`: every text of at most 5 characters over all classes but tabs, which
  are blanks to everything that looks at them. What a stop does depends on the
  run of closers and the run of spaces behind it and on one more character;
  five characters hold two stops with all of that between them, or one with
  something before it.
- `session`: two objects, two voices, voices of 2 rows and sentences of up to 3
  tokens, so that the index is below, at and past the end of the pack, and
  packs of no row, one and two; one stop of the process.
- `front_end`: every text of at most 3 characters over ten classes (two digits,
  zero among them, the marks of numbers, a space, letters, a suffix, an
  abbreviation) and of at most 4 over the six that numbers are made of; and round
  numbers and the largest of their kind, with 1 to 7, 9 and 10 digits, with commas
  and without, with cents, decimals, a suffix or a letter behind them and a dollar
  sign, a word or another number before. `MaxValue` is 1999999998, so that ten
  digits reach the scale of billions, the limit, the one number past it that has a
  negative, and what is longer still. These come with a dictionary of the words of
  numbers; a text of two words comes with two dictionaries of four lines
  (comments, several entries in either order, entries without phones, phones that
  are another one when they are cut), there before or downloaded meanwhile, and
  with espeak or without; three others have a word with every phone, under one
  stress each, and espeak's answers have between them every character of the
  vocabulary and every one there is a substitute for. The passes and the
  dictionary meet in the words only, so that not every pair is needed.
- `CHECK_DEADLOCK FALSE` in every configuration but that of `session`: the other
  models are of a call, or of a given number of runs, and end.

Fairness. `G2P`, `Splitter` and `Synthesis` assume weak fairness of the next-state
relation as a whole: the program is one thread that goes on with its loop as long
as it can. No action is assumed to be preferred. `WordTimestamps`, `Output`,
`Command`, `Session` and `FrontEnd` are checked for safety only.

`AlignedWhenWellSpaced` and `WordsWhereSpoken` have a precondition, `WellSpaced`:
each mark that was read comes after a word and is followed by a space, another
mark or the end. Outside of it the alignment does not hold, which is what
`g2p_spacing` shows. `OneGroupPronunciations` leaves out an espeak that answers
one word with several; `SpacesSeparate` and `ListedWordsAreSpoken` assume it too.
`OneRowPerToken` in the properties of `WordTimestamps` is what the exporter
guarantees; calls without it are in the run, and `TypeOK` is checked of them too.
`MarkedInTextOrder` and `PrintedInOrder` have no precondition: a word that is
given another's time is still in its place. The words of `MarkedInTextOrder` are
those of the normalized sentences: `etc.` is two of them, one at its `e` and one
at its period, and `Dr.smith` is one, at its `D`. `PrintedInOrder` lets a word
last no time at all where it is shorter than the last digit printed.

`HeaderReadable` allows for the 12 bytes that `riff_size` leaves out in every file
(wav_writer.cpp:27 does not count the fact chunk of 48-50): a player that goes from
chunk to chunk finds all the samples, one that stops where `riff_size` says misses
the last three.

`SuccessReplacesBoth` and `JsonFollowsWav` are about audio whose size the header
can say (`Fits`): more samples than that are cut and nobody is told.
`SuccessReplacesBoth` does not say that the timestamps are whole, as the
destructor that writes the last of them reports nothing. `AloneKeepsEngine` is
about an object beside which no other was built: with two, the first that is
destroyed, or whose constructor throws, ends the engine of both while the other
goes on to use it. `StyleInPack` leaves out an empty pack, which `load_voice`
accepts of a file that the export script has just opened; `select_style` throws
on it.

`NumbersAreRead` and `AmountsAreRead` are about a number between spaces. They
promise nothing of a number glued to something else, where the passes do what
their expressions say and nobody would read it so: `$1234`, with no comma, is 123
dollars and a digit behind them; the range `3-5` is `three` and `negative five`
in one word; `21st` is `twenty oneth` and `1ST` is `oneth`, as the table of
ordinals has small letters and stops at the twelfth. `DigitsLeftInWords` is what
does hold of all texts: digits that no pass has taken stand next to a word
character (or to words already written), or belong to a run of nothing but digits
and commas that says more than `stoll` holds.

`NumbersAreSpoken` is about a whole dictionary that has the 33 words numbers are
said with. It does not speak of ordinals: from the thirteenth on they are a number
and `th`, which is a word for `thirteenth` and `hundredth`, but not for
`twentyth`, which no dictionary has, so that without espeak it is passed over in
silence. `OneGroup` is about tables that were typed by hand: no phone and no
substitute may have a number that the vocabulary does not assign, a pad's or, in
the dictionary, a SPACE's or a mark's. It says less of espeak's answers than of
the dictionary's, as espeak may print a space or a parenthesis, and both are
tokens. `OnlyCutEntryDiffers` leaves the word that a part of a dictionary ends in:
`ZYWICKI Z IH0` is taken for all there is of it, by every later run.

### What the violations say

1. **Words that share a group** (g2p.cpp:200, 219). The header promises one
   word per SPACE-delimited group (g2p.h:43). A mark resets `need_space`, so in
   `He said "hello" to me` no SPACE comes before the opening mark: `said` and
   `hello` share a group, `hello` is given the time of `to`, and the last word
   of the sentence has no timestamp. So with an opening parenthesis or an em
   dash set between spaces, and with `word,word`.
2. **Swallowed marks** (g2p.cpp:228). Words are said to be split on white space
   and punctuation (g2p.h:15). The inner loop steps over every multi-byte
   character, marks included: in `wait… what` the model never sees the
   ellipsis.
3. **An end past the end** (kokoro_tts.cpp:165-167). The comment at 102-106
   promises times correct whatever the exporter's hop length. The tail fix
   compares a scaled end with an unscaled one.
4. **Wrote nothing** (main.cpp:112). `synthesize_to_wav` returns normally when no
   sentence had a token, and `main` then says that it wrote the file, which is
   missing or an earlier run's (kokoro_tts.h:53-54 promises the file and its
   timestamps).
5. **Cut abbreviations** (kokoro_tts.cpp:389). The README puts `TextNormalizer`
   before the sentence splitter (28-33); the code splits the raw text, so a pause
   is made in the middle of `Dr. Smith`.

## 4. The proofs

| theorem | module | says |
|---|---|---|
| `TypeCorrect` | `G2PProofs` | `Spec => []TypeOK` of `G2P` |
| `FrameCorrect` | `G2PProofs` | `Spec => []Framed` |
| `SpacesCorrect` | `G2PProofs` | `Spec => []SpacesSeparate` |
| `AlignedCorrect` | `G2PProofs` | `Spec => []AlignedWhenWellSpaced` |
| `ListedCorrect` | `G2PProofs` | `Spec => []ListedWordsAreSpoken` |
| `PassIsBounded` | `G2PProofs` | `Spec => [][RemainingFalls]_vars` |
| `TypeCorrect` | `WordTimestampsProofs` | `Spec => []TypeOK` of `WordTimestamps` |
| `OrderCorrect` | `WordTimestampsProofs` | `Spec => []InOrder` |
| `LabelsCorrect` | `WordTimestampsProofs` | `Spec => []LabelsMatchGroups` |
| `BuilderIsBounded` | `WordTimestampsProofs` | `Spec => [][RemainingFalls]_vars` |
| `LastWordCorrect` | `WordTimestampsProofs` | `Spec => []LastWordEndsWithAudio` |
| `OffsetCorrect` | `SynthesisProofs` | `Spec => []OffsetIsLength` |
| `TimelineImplemented` | `SynthesisProofs` | `Spec => T!Spec`: `Synthesis` implements `Timeline` |
| `WhereSpokenCorrect` | `SynthesisProofs` | `Spec => []WordsWhereSpoken` |
| `MarkedCorrect` | `SynthesisProofs` | `Spec => []MarkedInTextOrder` |
| `PrintedCorrect` | `SynthesisProofs` | `Spec => []PrintedInOrder` |
| `TimelineCorrect` | `SynthesisProofs` | `Timeline`'s segments are apart, its marks in order and inside segments |
| `NothingLostCorrect` | `SplitterProofs` | `Spec => []NothingLost` |
| `CutsCorrect` | `SplitterProofs` | `Spec => []CutsBeforeCapitals` |
| `ScanIsBounded` | `SplitterProofs` | `Spec => [][RemainingFalls]_vars` |
| `TypeCorrect` | `OutputProofs` | `Spec => []TypeOK` of `Output` |
| `SuccessCorrect` | `OutputProofs` | `Spec => []SuccessReplacesBoth` |
| `FollowsCorrect` | `OutputProofs` | `Spec => []JsonFollowsWav` |
| `MismatchCorrect` | `OutputProofs` | `Spec => []MismatchOnlyAfterFailure` |
| `HeaderCorrect` | `OutputProofs` | `Spec => []HeaderReadable` |
| `CommandRunsOutput` | `OutputProofs` | `CommandSpec => Spec`: what `Command` does to the files is what `Output` says |
| `AskedCorrect` | `OutputProofs` | `CommandSpec => FilesOnlyWhenAsked` |
| `ExitCorrect` | `OutputProofs` | `CommandSpec => ExitTellsOutcome` |
| `TypeCorrect` | `SessionProofs` | every object, file and call of `Session` is of its type |
| `StyleCorrect` | `SessionProofs` | `Spec => []StyleInPack` |
| `EngineCorrect` | `SessionProofs` | `Spec => []AloneKeepsEngine` |
| `ReleaseCorrect` | `SessionProofs` | `Spec => []EngineReleased` |
| `NameCorrect` | `SessionProofs` | `Spec => []PackIsNamed` |
| `TraceCorrect` | `SessionProofs` | `Spec => []TraceIsOpen` |
| `FilesCorrect` | `SessionProofs` | `Spec => []NoFileLeft` |
| `CutEntryCorrect` | `FrontEndProofs` | `Spec => []OnlyCutEntryDiffers` |
| `OneGroupCorrect` | `FrontEndProofs` | `Spec => []OneGroup` |
| `FailureCorrect` | `FrontEndProofs` | `Spec => []FailsOnlyOnLong` |
| `SpacedCorrect` | `FrontEndProofs` | `Spec => []Spaced` |
| `DigitsCorrect` | `FrontEndProofs` | `Spec => []DigitsLeftInWords` |
| `NumbersReadCorrect` | `FrontEndProofs` | `Spec => []NumbersAreRead` |
| `AmountsReadCorrect` | `FrontEndProofs` | `Spec => []AmountsAreRead` |
| `NumbersSpokenCorrect` | `FrontEndProofs` | `Spec => []NumbersAreSpoken` |
| `WordsUnderstood` | `FrontEndProofs` | the words of a number say that number: `Understood(Words[n]) = n` for every natural number |

They hold for every value of the constants that satisfies the modules'
assumptions: any texts, normalized or not, any pronunciations without a pad token,
a cap of 2 or more, any model rows that increase, a positive hop length and any
silence; command lines of any length; any number of runs over an output path and
any width of the header's sizes; any objects, voices and lengths of voice files;
dictionaries of any length, whatever words and phones they have, any answers of
espeak, texts of any length, and any largest number of two digits or more.

- **Frame.** `Framed` is inductive with `TypeOK`: no branch appends a pad (marks
  and pronunciations have none), `Kept` never drops the leading one, as it is no
  SPACE, and `Fit` leaves room for the trailing one. The lemmas of
  `SequenceFacts` say what three sequences in a row are, index by index.
- **Spaces.** `SpacesInv` adds to `SpacesSeparate` that `needSpace` is only set
  behind a phoneme or a mark (`Asked`), which is what makes the SPACE put before
  the next word one that separates.
- **Groups.** `GroupsInv` is about `owner`, the history: it starts at no word and
  ends at all those listed (`OwnerInv`), each listed word has a token that opens
  its group (`ListedInv`), and on well-spaced text `owner` goes up exactly where
  a group opens (`AlignInv`). The last is not inductive without `Settled`:
  where neither a separator nor a space is behind, the next character is one
  that opens no group. What is well spaced was so before (`WellSpacedBefore`),
  so that the precondition can be used at the step before.
- **Labels.** `LabelInv` says that the groups seen so far and the words reported are
  as many (`Counted`), that each word reported has the span of its group
  (`Reported`), and after the scan that no group is left but for want of a label
  (`Settled`). `Group` is a cardinality: `GroupNext` says how it goes from one
  token to the next, over `SpacesCount` and `SectionsFinite`.
- **Last word.** `EndInv`: no word reported or gathered ends after the audio, and
  once the tail is fixed the last one ends with it.
- **Order.** `InOrder` is not inductive: it says nothing of the word being
  gathered. `OrderInv` adds that all that was reported, and the word being
  gathered after it, ends before the next token starts (`Gathering`), and that
  a word's index is the number reported so far. A token's span is not empty
  because a row has at least one frame and scaling by at least one sample per
  frame keeps two frame counts apart after rounding (`ScaledApart`, over
  `DivApart`).
- **Offset.** `OffsetInv` adds that a sentence that reached the model has a
  sample, without which `first` could be false of an empty file.
- **Timeline.** The inductive invariant adds types and that a segment is not
  empty, from which the last segment is the one that ends last.
- **Splitter.** `Inv` adds to `NothingLost` and `CutsBeforeCapitals` that what
  comes after the last cut starts with a capital, where no line ended
  (`CapitalNext`).
- **Request.** `SP`, `GP` and `WP` are the proof modules of the three components
  under the mapping by which `Synthesis` runs them, so that their lemmas are
  about the request: the steps are the same (`SameSplitter`, `SameFrontEnd`,
  `SameBuilder`), and each component's inductive invariant holds while it runs.
  `RequestInv` puts them together: `SpansInv` for the cuts and the sentences that
  are left of them, `TokenInv` for the front end, `LabelInv` for the builder, which
  is given what the model returned for just these tokens, and `FileInv` for the
  files. `AppendChunk` is then a `Speak` (`AppendStep`), which is
  `TimelineImplemented`.
- **Words where they are spoken.** The front end says on well-spaced text that
  `owner` goes up where a group opens, the builder counts a group wherever a voiced
  token follows one that is not, so that the two count the same
  (`GroupsAreWords`, by `GroupsCounted` of `WordTimestampsProofs`); the words that
  are heard are then the first `GroupCount` ones (`HeardFacts`), and
  `LabelsMatchGroups` and `EndInv` of the builder say the rest.
- **Order of the text.** `PlaceInv`: the characters of a sentence keep the order of
  their places, before all that is left to speak, as the cuts are spans one after
  the other and what `Places` takes of a span goes up (`PlacesFacts`, by
  `RankExists` and `RankGrows` of `SequenceFacts`). `MarkInv`: the words that are
  timed come before the sentence at hand. Within a sentence the words start one
  after the other at a letter or a symbol (`StartsInv` of `G2PProofs`).
- **Header.** The sizes are added up by the prover for any number of samples; that
  of the samples, taken modulo the width, is what is written too.
- **Command.** `Go` and the steps after it are steps of `Output`, and no other step
  of `Command` touches its variables, which is `CommandRunsOutput`; `ParseInv` says
  of the loop what the arguments read so far have left in its variables.
- **Output.** `Inv` of `OutputProofs` follows the program counter: before the first
  open both files are of earlier runs, between the opens the audio is this run's
  and the timestamps an earlier one's (`Positions`); the audio is whole once the
  next step has begun, as the test of `good()` comes before it (`Whole`); files of
  two runs mean that the run is between its opens or has failed (`Mismatch`), for
  which one must know which runs have a verdict (`Ended`).
- **Session.** An object is half built only in the call of its own constructor, so
  that an exception out of `set_voice` finds none (`ObjectsInv`); the engine is on
  only for an object that found it, and one that was always alone has no other
  beside it, so that no other destructor can have ended its engine
  (`EngineInv`); a file never has more rows than the exporter writes, so that what
  was measured and then read in full is a pack (`FilesInv`). Where the trace
  points and how many temporary files there are follows from the step that
  `espeak_ipa` is at (`IpaInv`). An index into a pack is one of a pack that was
  read in full and has a row (`StyleInPack`).

- **Induction.** The library's induction takes an operator, which the installed
  provers cannot instantiate. `SequenceFacts` has it for sets instead: `Descent`
  and `Induction` say when every number is in a set, and follow from what the
  library says of a well-founded order. `RecursiveFunction` says that there is a
  function that a rule defines where the rule only looks at arguments of a
  smaller rank, which gives every recursive function and every fold of the
  models its equation (`RecursionOnNat`, `FlattenRows`, `LoadRows`, `RewriteRows`,
  `WordsFacts`, `HeardRows`).
- **Printed times.** `Unit` is a power of ten, and no unit is larger than the one
  of a later time. Both ends of a word are rounded to units of their own; a time
  that is rounded across a power of ten lands on it, which is a multiple of both
  units, so that the order stays.
- **Dictionary.** `LexInv` says what is on the disk, what was read of it and what
  was made of that: `Loaded`, with a row for each line that was there (`LoadRows`),
  in which a word has the phones of the first of the lines that has any
  (`FirstEntryListed`). A line that is cut is a line of the same word (`CutLine`),
  and the last, so that the lines of all other words are the dictionary's own.
  The numbers in the tables for phones and for IPA are compared with those that the
  vocabulary assigns, one by one (`SinglesSound`, `DiphthongsSound`, `PhonesSound`,
  `CharsSound`), from which it goes on to whole answers (`AnswersSound`); no entry
  for phones is a SPACE or a mark.
- **Passes.** `NormInv` says that the characters that are left come from the text
  as it was, side by side where they stood side by side (`Tracks`), as long as
  passes write words: a match is left as it is or becomes one run of words
  (`Written`, over `Prepended`). So what a pass takes for a number was one before
  (`LongStays`), and what `stoll` is given is the part of it before the point, a
  run of digits and commas (`NumberRuns`, `WholeIsRun`). The last pass is followed
  from the end of the text to its start (`IsTail`): a space that stays has
  something behind it that stays.
- **Digits that are left.** `DigitsInv` says it of the text as soon as the numbers
  are read. Digits with no word before or behind them start a match
  (`NumberThere`), so that if they are still there they came out of the middle of
  another, which stays together (`Laid`); a match ends in a digit with no word
  behind it (`NumberCloses`) and stays only where `stoll` throws, as a minus sign or
  not and a run of digits and commas (`LeavesLong`), so that the digits are part of
  a number that is too long (`NumbersLeave`). The last
  pass takes spaces away and joins nothing by it: `Keeps` says where what is left
  comes from, and that what is side by side now was so before (`RestKept`).
- **Words of a number.** `HeardBoth`: words in a row are heard one part after the
  other. Up to a hundred, up to a thousand, up to a billion and beyond, each from
  the one before (`WordsToHundred`, `WordsToThousand`, `WordsToBillion`); a number
  of billions is heard before the word billion is, whatever its size.
- **Numbers and amounts.** `NumbersAreRead` says nothing of a text on its way;
  `ChunksInv` does: before and after each pass there are as many parts between
  spaces as there were in the text as it came, and the part that came as a number
  (or an amount) is still that, or is its words where the pass that reads it is
  done (`Becomes`). No expression matches over a space, so that what a pass makes
  of a part does not depend on what stands beside it (`PassTurns`: `IsSolid`
  matches turn each part by itself; `DroppingTurns` for the last pass, which
  takes only spaces away). Then it is one part alone that counts: the passes
  before leave it alone (`AbbreviationsPiece`, `CurrencyPiece`, `OrdinalsPiece`),
  the greedy expression takes all of it (`NumberFound`, `AmountFound`) and what is
  written for it is `NumberSaid` or `AmountSaid`. These are heard as the number by
  `WordsUnderstood`, once the words before `point` or `dollars` are told from those
  behind it (`SplitAt`).
- **Numbers that are heard.** What is asked about a number is each of its words
  alone, as a space is put before every one but the first (`Apart`,
  `NumberAsked`). `LexInv` alone lets any word go unanswered; `AskedInv` adds that
  what was asked was asked of the loaded dictionary, which has every word it
  lists, if it was loaded whole (`WholeDictionary`, by the half of `LoadedWords`
  that says that no word is missing).

- **What is left to do.** `Remaining` counts the characters (or tokens) not yet
  read and the steps that follow the loop. It is a natural number that every step
  of the splitter, of the front end's loop and of the builder lowers
  (`RemainingFalls`), whatever the text: this is the half of termination that needs
  no fairness, and bounds the steps by the length of the text.

Every invariant and every action property that the passing runs check is proved.
Only model-checked is liveness (`Terminates` of `G2P` and of `Splitter`,
`Finishes`), as liveness under fairness is out of the prover's reach: what the
theorems leave to TLC is that a scan that is not done can always take a step.

## 5. The plan

The modules were written in the order of what matters most: the front end and the
timestamp builder, which agree only by convention; the request that they are
parts of; the files; what outlives a request; the splitter, the normalizer and the
lexicon; the command line. What is left, in that order:

1. `FrontEnd` composed with `G2P`: the text of the one is the result of the
   normalizer, the pronunciations of the other are those of `Lexicon`. The
   interface is checked from both sides now: `Spaced` and `OneGroup` say of
   `FrontEnd` what `G2P` assumes of its text and its pronunciations.
2. `Output` composed with `Synthesis`, where the number of samples is chosen now.
3. A measure for `FrontEnd` and `Synthesis` as there is one for the splitter, the
   loop and the builder.

## 6. Not modelled, and why

- `Config::speed`: set from `--speed` (main.cpp) and read by nothing, so that no
  step depends on it, although the repository's README (104) calls it a runtime
  multiplier.
- The fields of the `.wav` header that say how a sample is to be played (rate,
  format, channels); their sizes are counted, their values are fixed.
- A tensor of times with three columns, which the shape check accepts
  (kokoro_tts.cpp:97) and the loop reads with a stride of four (113): the exporter
  always writes four.
- Which number a mark has: a slash is token 7 (g2p.cpp:19), which the vocabulary
  leaves unassigned (vocab.h:19); to the loop it is a mark like any other.
- Wording and layout: messages, usage, the debugging output of `synthesize`
  (345-378), JSON escaping.
- `extract_words` (kokoro_tts.cpp:56-73) and the `Tokenizer` class: nothing
  calls them.
- The neural network: numeric code. With the export script's tracing it is most of
  `scripts/`.
- `libtorch/`: a library that is kept in the repository, some nine hundred thousand
  lines of headers of which this program calls a handful. Counted with them the
  models cover next to nothing of the repository; of the program's own code, about
  2900 lines of C++ and Python, about a third, and of the C++ without its tables,
  its messages and the code nothing calls, most.
- Digits within a request: `Synthesis` has none, as what the normalizer makes of
  them is `FrontEnd`'s.
- Floating-point error: times are whole samples, rounded down. A `float` holds
  the seconds of a row exactly enough for the few seconds of a sentence, but
  no property here is about the last digit.
- The letter-to-sound rules of espeak: what comes out of them is a parameter.
- The wording of the normalizer: which abbreviation says what, `dollar` and
  `dollars`, and the `and` before the cents.
