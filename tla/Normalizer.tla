----------------------------- MODULE Normalizer -----------------------------
(***************************************************************************)
(* What becomes of a text before it is pronounced: the five passes of      *)
(* TextNormalizer::normalize (src/misaki/text_normalizer.cpp), each over   *)
(* what the one before has left.                                           *)
(*                                                                         *)
(* An item of the text is a character, <<"char", c>>, or a run of words    *)
(* that a pass has written in place of some characters, <<"said", words>>. *)
(* A character is a digit, one of , . $ - and the space, "abbrev" for an   *)
(* abbreviation the normalizer knows with its period, "th" for the suffix  *)
(* the ordinal before it takes, in small letters, or "x" for another       *)
(* letter.                                                                 *)
(*                                                                         *)
(* Words are not spelled: <<"ones", 12>> is twelve, <<"tens", 3>> thirty,  *)
(* <<"scale", 1000>> thousand.                                             *)
(***************************************************************************)
EXTENDS Integers, SequencesExt

CONSTANTS
  Texts,      \* the texts to normalize, as sequences of characters
  MaxValue    \* the largest number stoll returns

DigitNames  == <<"0", "1", "2", "3", "4", "5", "6", "7", "8", "9">>
DigitChars  == ToSet(DigitNames)
LetterChars == {"x", "th", "abbrev"}
Chars       == DigitChars \cup LetterChars \cup {",", ".", "$", "-", " "}

VARIABLES
  source,   \* the text as it came
  text,     \* result, the items it has become
  pass      \* which pass is next, "done", "failed" where one has thrown, or "crashed"

vars == <<source, text, pass>>

Init ==
  /\ source \in Texts
  /\ text = [i \in 1..Len(source) |-> <<"char", source[i]>>]
  /\ pass = "abbreviations"

-----------------------------------------------------------------------------
(* Numbers and words                                                       *)

\* Seeded fault: the branch of the millions is missing.
ScaleToThousand(n) == IF n < 1000 THEN 100 ELSE 1000

\* The largest scale there is in a number of a hundred and more.
Scale(n) ==
  CHOOSE s \in {100, 1000, 1000000, 1000000000} :
    /\ s <= n
    /\ s = 100 => n < 1000
    /\ s > 100 => n \div s < 1000 \/ s = 1000000000

\* integer_to_words, of a number that is not negative.
Words[n \in Nat] ==
  LET Then(rest) == IF rest = 0 THEN <<>> ELSE Words[rest]
  IN IF n < 20 THEN << <<"ones", n>> >>
     ELSE IF n < 100 THEN << <<"tens", n \div 10>> >> \o Then(n % 10)
     ELSE Words[n \div Scale(n)] \o << <<"scale", Scale(n)>> >> \o Then(n % Scale(n))

IntegerToWords(n) ==
  IF n < 0 THEN << <<"negative", 0>> >> \o Words[-n] ELSE Words[n]

DigitValue(c) == (CHOOSE k \in 1..10 : DigitNames[k] = c) - 1

-----------------------------------------------------------------------------
(* Regular expressions                                                     *)

Is(t, i, c)  == i \in DOMAIN t /\ t[i] = <<"char", c>>
Digit(t, i)  == i \in DOMAIN t /\ t[i][1] = "char" /\ t[i][2] \in DigitChars
Word(t, i)   == i \in DOMAIN t /\ (t[i][1] = "said" \/ t[i][2] \in DigitChars \cup LetterChars)

\* \b before the item at i; an abbreviation ends with its period.
Boundary(t, i) == (Word(t, i - 1) /\ ~Is(t, i - 1, "abbrev")) # Word(t, i)

\* \d+ from i to j.
Digits(t, i, j) == i <= j /\ \A k \in i..j : Digit(t, k)

\* \d{1,3}(?:,\d{3})* from i to j.
Grouped(t, i, j) ==
  \E a \in i..(i + 2) :
    /\ a <= j /\ Digits(t, i, a) /\ (j - a) % 4 = 0
    /\ \A k \in (a + 1)..j : IF (k - a) % 4 = 1 THEN Is(t, k, ",") ELSE Digit(t, k)

\* (?:\.\d{1,most})? from i to j.
Fraction(t, i, j, most) ==
  i > j \/ (Is(t, i, ".") /\ Digits(t, i + 1, j) /\ j - i <= most)

\* The value of the number that the digits from i to j spell, MaxValue + 2
\* standing for all that are larger than MaxValue + 1.
Read(n, item) ==
  LET d == DigitValue(item[2])
  IN IF ~(item[1] = "char" /\ item[2] \in DigitChars) THEN n
     ELSE IF n > (MaxValue + 1 - d) \div 10 THEN MaxValue + 2
     ELSE 10 * n + d
NumberOf(t, i, j) == FoldLeft(Read, 0, SubSeq(t, i, j))

\* The end of the part before the point of a match from i to j.
WholeEnd(t, i, j) ==
  IF \E k \in i..j : Is(t, k, ".") THEN (CHOOSE k \in i..j : Is(t, k, ".")) - 1 ELSE j

\* t with every match, taken from the left, replaced by what is said of it:
\* ends[i] are the ends of the matches that start at i, of which the longest
\* is taken, and put[i][j] is what is put in place of it.
Rewrite(t, ends, put) ==
  LET from[i \in 1..(Len(t) + 1)] ==
        IF i > Len(t) THEN <<>>
        ELSE IF ends[i] = {} THEN <<t[i]>> \o from[i + 1]
        ELSE LET j == Max(ends[i]) IN put[i][j] \o from[j + 1]
  IN from[1]

Said(words) == << <<"said", words>> >>

\* What an exception leaves, and what a recursion that does not end.
Thrown  == << <<"failed", 0>> >>
Endless == << <<"crashed", 0>> >>

\* Seeded fault: a number is read with stoi.
TooLongForInt(n) == n > MaxValue \div 2

\* stoll throws of a number it cannot hold.
TooLong(n) == n > MaxValue

-----------------------------------------------------------------------------
(* Seeded faults, for the runs that show a property notices them           *)

\* "$2.5" is two dollars and five cents.
CentsUnpadded(t, i, j) == NumberOf(t, WholeEnd(t, i, j) + 1, j)

\* The first alternative of num_re; alone it is a fault, as numbers of four
\* digits and more then need their commas.
NumberEndsGrouped(t, i) ==
  LET b == IF Is(t, i, "-") THEN i + 1 ELSE i
  IN {j \in b..Len(t) :
        /\ Boundary(t, i) /\ Boundary(t, j + 1)
        /\ \E m \in b..j : Grouped(t, b, m) /\ Fraction(t, m + 1, j, Len(t))}

\* The space at the end stays.
SpaceStaysAtEnd(t, i) == i > 1 /\ ~Is(t, i - 1, " ")

-----------------------------------------------------------------------------
(* The passes                                                              *)

\* The step of one pass to the next, or to the end of the request.
Pass(this, result, next) ==
  /\ pass = this
  /\ text' = result
  /\ LET end == SelectInSeq(result, LAMBDA item : item[1] \in {"failed", "crashed"})
     IN pass' = IF end = 0 THEN next ELSE result[end][1]
  /\ UNCHANGED source

\* One replacement after the other, in the order of the table: \b fails before
\* an abbreviation if the one right before it has been replaced by then, as it
\* does in `Mr.Dr.`, so that any of those may be left.
ExpandAbbreviations ==
  LET known == {i \in DOMAIN text : Is(text, i, "abbrev") /\ Boundary(text, i)}
  IN \E left \in SUBSET {i \in known : i - 1 \in known} :
       /\ \A i \in left : i - 1 \notin left
       /\ LET ends == [i \in DOMAIN text |-> IF i \in known \ left THEN {i} ELSE {}]
              put  == [i \in DOMAIN text |->
                         [j \in DOMAIN text |-> Said(<< <<"abbrev", 0>> >>)]]
          IN Pass("abbreviations", Rewrite(text, ends, put), "currency")

\* The part of a dollar after the point, in cents.
Cents(t, i, j) ==
  NumberOf(t, WholeEnd(t, i, j) + 1, j) * (IF j - WholeEnd(t, i, j) = 2 THEN 10 ELSE 1)

\* \$(\d{1,3}(?:,\d{3})*(?:\.\d{1,2})?)
AmountEnds(t, i) ==
  {j \in (i + 1)..Len(t) :
     /\ Is(t, i, "$")
     /\ \E m \in (i + 1)..j : Grouped(t, i + 1, m) /\ Fraction(t, m + 1, j, 2)}

AmountWords(t, i, j) ==
  LET whole == WholeEnd(t, i, j)
      n     == NumberOf(t, i + 1, whole)
  IN IF TooLong(n) THEN Thrown
     ELSE Said(IntegerToWords(n) \o << <<"dollars", 0>> >> \o
               (IF whole = j THEN <<>>
                ELSE IntegerToWords(Cents(t, i, j)) \o << <<"cents", 0>> >>))

ExpandCurrency ==
  LET ends == [i \in DOMAIN text |-> AmountEnds(text, i)]
      put  == [i \in DOMAIN text |-> [j \in DOMAIN text |-> AmountWords(text, i, j)]]
  IN Pass("currency", Rewrite(text, ends, put), "ordinals")

\* The table has the first twelve, as they are written without a zero.
OrdinalWords(t, i, j) ==
  LET n == NumberOf(t, i, j - 1)
  IN IF n \in 1..12 /\ ~Is(t, i, "0") THEN Said(<< <<"ordinal", n>> >>)
     ELSE IF TooLong(n) THEN SubSeq(t, i, j)
     ELSE Said(IntegerToWords(n) \o << <<"suffix", 0>> >>)

\* \b(\d+)(st|nd|rd|th)\b
OrdinalEnds(t, i) ==
  {j \in (i + 1)..Len(t) :
     /\ Boundary(t, i) /\ Boundary(t, j + 1)
     /\ Digits(t, i, j - 1) /\ Is(t, j, "th")}

ExpandOrdinals ==
  LET ends == [i \in DOMAIN text |-> OrdinalEnds(text, i)]
      put  == [i \in DOMAIN text |-> [j \in DOMAIN text |-> OrdinalWords(text, i, j)]]
  IN Pass("ordinals", Rewrite(text, ends, put), "numbers")

\* \b(-?\d{1,3}(?:,\d{3})*(?:\.\d+)?|-?\d+(?:\.\d+)?)\b, the second
\* alternative only where the first has no match.
NumberEnds(t, i) ==
  LET b == IF Is(t, i, "-") THEN i + 1 ELSE i
      plain == {j \in b..Len(t) :
                  /\ Boundary(t, i) /\ Boundary(t, j + 1)
                  /\ \E m \in b..j : Digits(t, b, m) /\ Fraction(t, m + 1, j, Len(t))}
      grouped == NumberEndsGrouped(t, i)
  IN IF grouped = {} THEN plain ELSE grouped

\* The least number of all has no opposite, of which integer_to_words could
\* go on to say the words.
CardinalWords(t, i, j) ==
  LET whole == WholeEnd(t, i, j)
      minus == Is(t, i, "-")
      n     == NumberOf(t, IF minus THEN i + 1 ELSE i, whole)
      words == IntegerToWords(IF minus THEN -n ELSE n)
  IN IF minus /\ n = MaxValue + 1 THEN Endless
     ELSE IF whole = j
     THEN IF TooLong(n) THEN SubSeq(t, i, j) ELSE Said(words)
     ELSE IF TooLong(n) THEN Thrown
     ELSE Said(words \o << <<"point", 0>> >> \o
               [k \in 1..(j - whole - 1) |-> <<"ones", DigitValue(t[whole + 1 + k][2])>>])

ExpandNumbers ==
  LET ends == [i \in DOMAIN text |-> NumberEnds(text, i)]
      put  == [i \in DOMAIN text |-> [j \in DOMAIN text |-> CardinalWords(text, i, j)]]
  IN Pass("numbers", Rewrite(text, ends, put), "whitespace")

\* Of a run of spaces the first is kept, at neither end of the text.
SpaceStays(t, i) ==
  i > 1 /\ ~Is(t, i - 1, " ") /\ \E k \in (i + 1)..Len(t) : ~Is(t, k, " ")

NormalizeWhitespace ==
  LET ends == [i \in DOMAIN text |->
                 IF Is(text, i, " ") /\ ~SpaceStays(text, i) THEN {i} ELSE {}]
      put  == [i \in DOMAIN text |-> [j \in DOMAIN text |-> <<>>]]
  IN Pass("whitespace", Rewrite(text, ends, put), "done")

Next ==
  \/ ExpandAbbreviations \/ ExpandCurrency \/ ExpandOrdinals \/ ExpandNumbers
  \/ NormalizeWhitespace

Spec == Init /\ [][Next]_vars

-----------------------------------------------------------------------------
(* Properties                                                              *)

\* How words are understood: a hundred multiplies what was said since the
\* last scale, a thousand and a million close it, and a billion, larger than
\* which none is said, is that many times all before it.
Hear(heard, w) ==
  CASE w[1] = "ones"  -> [heard EXCEPT !.group = @ + w[2]]
    [] w[1] = "tens"  -> [heard EXCEPT !.group = @ + 10 * w[2]]
    [] w = <<"scale", 100>> -> [heard EXCEPT !.group = 100 * @]
    [] w = <<"scale", 1000000000>> ->
         [total |-> (heard.total + heard.group) * 1000000000, group |-> 0]
    [] w[1] = "scale" /\ w[2] \notin {100, 1000000000} ->
         [total |-> heard.total + heard.group * w[2], group |-> 0]
    [] OTHER -> heard

Silence == [total |-> 0, group |-> 0]
Understood(words) ==
  LET all == FoldLeft(Hear, Silence, words) IN all.total + all.group

\* The words of a sequence before and after the first of a kind.
Before(words, kind) == SelectInSeq(words, LAMBDA w : w[1] = kind) - 1
UpTo(words, kind)   == SubSeq(words, 1, Before(words, kind))
From(words, kind)   == SubSeq(words, Before(words, kind) + 2, Len(words))

\* The parts of a sequence of items between its spaces.
Chunks(t) ==
  LET ends == [i \in DOMAIN t |->
                 IF Is(t, i, " ") THEN {i}
                 ELSE {j \in i..Len(t) : \A k \in i..j : ~Is(t, k, " ")}]
      put  == [i \in DOMAIN t |-> [j \in DOMAIN t |->
                 IF Is(t, i, " ") THEN <<>> ELSE <<SubSeq(t, i, j)>>]]
  IN Rewrite(t, ends, put)

Original == Chunks([i \in 1..Len(source) |-> <<"char", source[i]>>])
Result   == Chunks(text)

\* A number and nothing else, with or without commas, from position i.
Plain(c, i) ==
  \E m \in i..Len(c) :
    /\ Grouped(c, i, m) \/ Digits(c, i, m)
    /\ Fraction(c, m + 1, Len(c), Len(c))
    /\ ~TooLong(NumberOf(c, i, m))

Whole(c)    == NumberOf(c, 1, WholeEnd(c, 1, Len(c)))
Decimals(c) == SubSeq(c, WholeEnd(c, 1, Len(c)) + 2, Len(c))

(* A number set off by spaces is read as words that say its value, however *)
(* it is written and whatever stands beside it.                            *)
NumbersAreRead ==
  pass = "done" => \A n \in DOMAIN Original :
    LET c == Original[n] IN Plain(c, 1) =>
      LET words == Result[n][1][2]
      IN /\ Len(Result[n]) = 1
         /\ IF Decimals(c) = <<>> /\ WholeEnd(c, 1, Len(c)) = Len(c)
            THEN Understood(words) = Whole(c)
            ELSE /\ Understood(UpTo(words, "point")) = Whole(c)
                 /\ From(words, "point") =
                      [k \in DOMAIN Decimals(c) |-> <<"ones", DigitValue(Decimals(c)[k][2])>>]

(* So is an amount in dollars, with its cents, where the dollars have no   *)
(* more than three digits or are grouped by commas.                        *)
AmountsAreRead ==
  pass = "done" => \A n \in DOMAIN Original :
    LET c == Original[n]
        IsAmount == /\ Is(c, 1, "$")
                    /\ \E m \in 2..Len(c) : Grouped(c, 2, m) /\ Fraction(c, m + 1, Len(c), 2)
        words == Result[n][1][2]
        cents == [k \in 1..2 |-> IF k \in DOMAIN Decimals(c)
                                 THEN DigitValue(Decimals(c)[k][2]) ELSE 0]
    IN IsAmount =>
         /\ Len(Result[n]) = 1
         /\ Understood(UpTo(words, "dollars")) = Whole(c)
         /\ Understood(From(words, "dollars")) = 10 * cents[1] + cents[2]

(* The digits that are left for the pronunciation to stumble on are part   *)
(* of a word, follow the words of an amount, or belong to a number that,   *)
(* its commas left out, is more than stoll holds.                          *)
DigitsLeftInWords ==
  pass = "done" => \A i, j \in DOMAIN text :
    Digits(text, i, j) /\ ~Digit(text, i - 1) /\ ~Digit(text, j + 1) =>
      \/ Word(text, i - 1) \/ Word(text, j + 1)
      \/ \E m, n \in DOMAIN text :
           /\ m <= i /\ j <= n /\ TooLong(NumberOf(text, m, n))
           /\ \A k \in m..n : Digit(text, k) \/ Is(text, k, ",")

(* What is left has no space at its ends and no two in a row: it is one of *)
(* the texts the tokenizing loop of G2P is written for.                    *)
Spaced ==
  pass = "done" => \A k \in DOMAIN text :
    Is(text, k, " ") => k > 1 /\ k < Len(text) /\ ~Is(text, k + 1, " ")

(* Only a number that is too long makes a request fail here, with an       *)
(* exception of stoll or in the negation of integer_to_words.              *)
FailsOnlyOnLong ==
  pass \in {"failed", "crashed"} => \E i, j \in DOMAIN source :
    LET t == [k \in 1..Len(source) |-> <<"char", source[k]>>]
    IN /\ \A k \in i..j : Digit(t, k) \/ Is(t, k, ",")
       /\ NumberOf(t, i, j) > MaxValue
=============================================================================
