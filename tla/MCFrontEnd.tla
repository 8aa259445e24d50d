----------------------------- MODULE MCFrontEnd -----------------------------
(* A bounded instance of FrontEnd for TLC: every short text over a few     *)
(* characters and longer ones with large numbers, with a dictionary that   *)
(* has the words of numbers; and a short text with small dictionaries that *)
(* are downloaded, or a part of them.                                      *)
EXTENDS FrontEnd

CONSTANTS
  MCAlphabet,    \* the characters of the short texts
  MCNumeric,     \* those of them that longer ones are made of
  MCMaxText,     \* the longest text of MCNumeric, one more than of MCAlphabet
  MCLong         \* the lengths of long numbers

\* Numbers of so many digits, round ones and the largest of their kind.
MCDigits(n) ==
  {[k \in 1..n |-> IF k = 1 THEN first ELSE rest] : first \in {"1", "2"}, rest \in {"0", "9"}}

\* Its digits in groups of three.
MCGrouped(d) ==
  LET Put(k) == IF k < Len(d) /\ (Len(d) - k) % 3 = 0 THEN <<d[k], ",">> ELSE <<d[k]>>
  IN FlattenSeq([k \in 1..Len(d) |-> Put(k)])

MCNumbers ==
  LET numbers == UNION {MCDigits(n) : n \in MCLong}
      written == numbers \cup {MCGrouped(d) : d \in numbers}
      affixes == {<<>>, <<" ">>, <<".", "2">>, <<".", "2", "0">>, <<"th">>, <<"x">>}
  IN {p \o d \o a : p \in {<<>>, <<"$">>, <<"x", " ">>, <<"2", "-">>}, d \in written, a \in affixes}

MCAsked == <<"x", " ", "th">>
MCTexts == BoundedSeq(MCAlphabet, MCMaxText - 1) \cup BoundedSeq(MCNumeric, MCMaxText)
           \cup MCNumbers \cup {MCAsked}

MCLine(word, marker, phones) == [word |-> word, marker |-> marker, phones |-> phones]
MCX  == << <<"char", "x">> >>
MCTh == << <<"char", "th">> >>

\* Each word of a number, and nothing else.
MCOfNumbers ==
  LET words == [n \in 1..20 |-> <<"ones", n - 1>>] \o [n \in 1..8 |-> <<"tens", n + 1>>] \o
               << <<"scale", 100>>, <<"scale", 1000>>, <<"scale", 1000000>>,
                  <<"scale", 1000000000>>, <<"point", 0>> >>
  IN [k \in 1..Len(words) |-> MCLine(<<words[k]>>, FALSE, << <<"N", 0>> >>)]

\* Comments, words of several entries, in either order, entries without a
\* phone or without one that is known, and phones of one token and of two, of
\* which some are still a phone where they are cut.
MCSmall ==
  { << MCLine(<<>>, FALSE, << <<"IY", 1>> >>),
       MCLine(MCX, FALSE, << <<"AH", 1>>, <<"TH", 0>> >>),
       MCLine(MCX, TRUE, << <<"ER", 1>>, <<"unknown", 0>> >>),
       MCLine(MCTh, FALSE, << <<"OY", 2>>, <<"AA", 0>> >>) >>,
    << MCLine(MCX, TRUE, << <<"AH", 0>>, <<"ER", 0>> >>),
       MCLine(MCX, FALSE, << <<"IY", 1>> >>),
       MCLine(MCTh, FALSE, <<>>),
       MCLine(MCTh, TRUE, << <<"unknown", 0>> >>) >> }

\* For the tables of Lexicon, which depend on no constant.
Tables == INSTANCE Lexicon WITH Dictionaries <- {}, Answers <- {}

MCInARow(set) == FoldSet(LAMBDA x, row : Append(row, x), <<>>, set)

\* For each stress a word with every phone in it.
MCEveryPhone ==
  {<<MCLine(MCX, FALSE, MCInARow(Tables!PhoneNames \X {stress}))>> : stress \in 0..2}

MCDictionaries == MCSmall \cup {MCOfNumbers} \cup MCEveryPhone
MCInputs == ((MCTexts \ {MCAsked}) \X {MCOfNumbers} \X {TRUE})
            \cup ({MCAsked} \X MCSmall \X BOOLEAN)
            \cup ({MCAsked} \X MCEveryPhone \X {TRUE})

\* Nothing; a word, one with a SPACE behind it, one cut off; and so that every
\* character is in some answer, those of the vocabulary, in four parts, and the
\* others.
MCWord == << <<"vocab", 156>>, <<"vocab", 51>> >>
MCAnswers ==
  LET listed == {c \in Tables!IpaChars : c[1] = "vocab"}
  IN { <<>>, MCWord, MCWord \o << <<"vocab", SPACE_TOKEN>> >>,
       MCWord \o << <<"unknown", 0>>, <<"vocab", 12>>, <<"cut", 0>> >>,
       MCInARow(Tables!IpaChars \ (listed \cup {<<"cut", 0>>})) }
     \cup {MCInARow({c \in listed : c[2] % 4 = part}) : part \in 0..3}
=============================================================================
