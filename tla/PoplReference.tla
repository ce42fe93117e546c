--------------------------- MODULE PoplReference ---------------------------
(***************************************************************************)
(* What a parse promises, said of the command line as a whole: which words *)
(* are arguments of the word before, and which values every option gets    *)
(* from which word.  No word is looked at twice and nothing depends on the *)
(* order the parser works in.                                              *)
(***************************************************************************)
EXTENDS Popl

Args == call.args
Takes(o, kind) == o # 0 /\ ArgumentType(options[o]) = kind

\* The words by form; the parts of a long one.
Dashes(i) == Args[i] = <<Dash, Dash>>
Long(i) == Len(Args[i]) > 2 /\ Args[i][1] = Dash /\ Args[i][2] = Dash
Short(i) == Args[i] # <<>> /\ Args[i][1] = Dash /\ ~Dashes(i) /\ ~Long(i)
Positions(t, c) == {k \in DOMAIN t : t[k] = c}
NameEnd(i) == IF Positions(Args[i], Equal) = {} THEN Len(Args[i])
              ELSE Min(Positions(Args[i], Equal)) - 1
Explicit(i) == SubSeq(Args[i], NameEnd(i) + 2, Len(Args[i]))

\* The active option of that long name, the first one when the name is empty and
\* several options have none; the active option a letter names.
WithName(name) ==
    {o \in OptionIds : /\ options[o].long = name /\ options[o].attribute # Inactive
                       /\ \A p \in 1..(o - 1) : options[p].long # name}
ByName(i) == WithName(SubSeq(Args[i], 3, NameEnd(i)))
ByLetter(c) == {o \in OptionIds : /\ options[o].short = c
                                  /\ options[o].attribute # Inactive}

\* Letter k of a short word is read as an option when no letter before it takes
\* an argument; otherwise it belongs to that argument.
ReadAsLetter(i, k) ==
    ~\E j \in 2..(k - 1) : \E o \in ByLetter(Args[i][j]) : ~Takes(o, "no")

\* The word leaves its option without the argument it requires.
LacksArgument(i) ==
    \/ Long(i) /\ Explicit(i) = <<>> /\ \E o \in ByName(i) : Takes(o, "required")
    \/ /\ Short(i) /\ Len(Args[i]) > 1 /\ ReadAsLetter(i, Len(Args[i]))
       /\ \E o \in ByLetter(Args[i][Len(Args[i])]) : Takes(o, "required")

\* Word i is the argument of the word before.  Of words that lack their argument
\* in a row, the first gets the second, the third the fourth: i is an argument
\* when the row that ends before it is odd.
IsArgument(i) ==
    LET other == {j \in 1..(i - 1) : ~LacksArgument(j)}
    IN (i - 1 - Max({0} \cup other)) % 2 = 1

ArgumentAfter(i) == IF i < Len(Args) THEN Args[i + 1] ELSE <<>>

\* The places of word i that give option o a text, and the text.
PlacesFor(i, o) ==
    CASE Long(i) -> IF o \in ByName(i) /\ (Takes(o, "no") => Explicit(i) = <<>>)
                    THEN {<<i, 1>>} ELSE {}
      [] Short(i) -> {<<i, k>> : k \in {m \in 2..Len(Args[i]) :
                                   ReadAsLetter(i, m) /\ o \in ByLetter(Args[i][m])}}
      [] OTHER -> {}

TextAt(i, k, o) ==
    CASE Long(i) -> IF LacksArgument(i) THEN ArgumentAfter(i) ELSE Explicit(i)
      [] Short(i) /\ Takes(o, "no") -> <<>>
      [] OTHER -> IF k = Len(Args[i]) /\ LacksArgument(i) THEN ArgumentAfter(i)
                  ELSE SubSeq(Args[i], k + 1, Len(Args[i]))

\* Some part of word i names no option that can take it.
NamesUnknown(i) ==
    \/ Long(i) /\ \A o \in OptionIds : PlacesFor(i, o) = {}
    \/ Short(i) /\ \E k \in 2..Len(Args[i]) :
                      ReadAsLetter(i, k) /\ ByLetter(Args[i][k]) = {}

\* The words before position n that are not arguments.
WordsBefore(n) == {i \in 1..(n - 1) : ~IsArgument(i)}

\* The texts converted; the one that fails is the one that threw.
ResultAt(p, o) == ParseOption(options[o], default[o], TextAt(p[1], p[2], o))

ReferenceValues(o, n) ==
    LET given == {p \in UNION {PlacesFor(i, o) : i \in WordsBefore(n)} :
                     ResultAt(p, o).error = "none"}
    IN [k \in 1..Cardinality(given) |-> ResultAt(InOrder(given)[k], o).value]

\* Word p[2], entered at word p[1], for these places p in order.
WordsAt(places) == [k \in 1..Cardinality(places) |-> Args[InOrder(places)[k][2]]]

ReferenceUnknown(n) == WordsAt({<<i, i>> : i \in {j \in WordsBefore(n) : NamesUnknown(j)}})

\* The words that are no options.
Plain(i) == ~Dashes(i) /\ ~Long(i) /\ ~Short(i)
ReferenceNonOption(n) == WordsAt({<<i, i>> : i \in {j \in WordsBefore(n) : Plain(j)}})

\* A "--" stands before word n: from there on there are only non-option words.
PastDashes(n) == \E i \in WordsBefore(n) : Dashes(i)

-----------------------------------------------------------------------------
(* Properties.                                                             *)

\* The word that threw has made its parse calls up to the throw.
WordsDone == IF call.phase = "threw" /\ call.n <= Len(Args) THEN call.n + 1 ELSE call.n

\* The parse under way, returned or thrown out of.
Parsing(source) == call.source = source /\ call.phase # "idle"

\* At every word of a command line up to the first "--", also when parse() throws
\* in the middle: each option has the values it had plus those the words so far
\* give it, whatever the clusters, arguments taken from the next word and inactive
\* options among them, and the words that name no option are in the two lists,
\* once each and in order.
ParseIsReference ==
    Parsing("argv") /\ ~PastDashes(call.n) =>
        /\ \A o \in OptionIds :
              values[o] = start.values[o] \o ReferenceValues(o, WordsDone)
        /\ unknown = start.unknown \o ReferenceUnknown(call.n)
        /\ nonOption = start.nonOption \o ReferenceNonOption(call.n)

\* What popl.hpp says of "--" (the example of non_option_args, and the comment in
\* parse): the words after the first one are non-option arguments, each listed
\* once, and no more than that.
OnlyNonOptionsAfterDashes ==
    Parsing("argv") =>
        \A d \in WordsBefore(call.n) : Dashes(d) /\ ~PastDashes(d) =>
            /\ \A o \in OptionIds :
                  values[o] = start.values[o] \o ReferenceValues(o, d)
            /\ unknown = start.unknown \o ReferenceUnknown(d)
            /\ nonOption = start.nonOption \o ReferenceNonOption(d)
                              \o SubSeq(Args, d + 1, Len(Args))

\* The section a line stands in: that of the last section line above it.
Section(i) == IsPrefix(<<"[">>, Args[i]) /\ IsSuffix(<<"]">>, Args[i])
SectionOf(i) ==
    LET above == {j \in 1..(i - 1) : Section(j)}
    IN IF above = {} THEN <<>> ELSE SubSeq(Args[Max(above)], 2, Len(Args[Max(above)]) - 1)

\* Line i gives option o a value: its key, up to the first "=", is the long name,
\* after the section and a dot.
LineKey(i) ==
    LET key == SubSeq(Args[i], 1, NameEnd(i))
    IN IF SectionOf(i) = <<>> THEN key ELSE SectionOf(i) \o <<".">> \o key

GivesTo(i, o) ==
    /\ ~Section(i) /\ ~IsPrefix(<<"#">>, Args[i])
    /\ Positions(Args[i], Equal) # {} /\ NameEnd(i) > 0
    /\ options[o].long = LineKey(i) /\ options[o].attribute # Inactive

ResultOf(i, o) == ParseOption(options[o], default[o], Explicit(i))

\* At every line of an ini file: each option has the values it had plus those of
\* the lines so far that are for it, by the section each line stands in; a key
\* of another section or of an inactive option sets nothing.
IniIsReference ==
    Parsing("ini") =>
        \A o \in OptionIds :
            LET lines == {<<i, 1>> : i \in {j \in 1..(WordsDone - 1) :
                              GivesTo(j, o) /\ ResultOf(j, o).error = "none"}}
            IN values[o] = start.values[o]
                           \o [k \in 1..Cardinality(lines) |->
                                  ResultOf(InOrder(lines)[k][1], o).value]

\* What a program reads of an option agrees however it reads it: value_or is
\* value wherever value does not throw, and with at most one value given the
\* bound variable, which follows the last value, is value(0), which is the first.
AccessorsAgree ==
    \A o \in OptionIds :
        /\ \A idx \in 0..Len(values[o]) :
              Value(o, idx) # Throws =>
                  ValueOr(o, Uninitialised, idx) = Value(o, idx)
        /\ Len(values[o]) <= 1 /\ assigned[o] # <<>> /\ Value(o, 0) # Throws =>
              assigned[o] = Value(o, 0)

\* Every line of a help message and every word bash completes is true of the
\* parser: the name is found, names the option of that line, is not inactive,
\* and takes an argument as shown.
HelpIsParsable ==
    /\ \A entry \in Help(options, Expert) :
          LET long == IfActive(options, FindLong(options, entry.long))
              short == IfActive(options, FindShort(options, entry.short))
          IN /\ entry.long # <<>> => long # 0 /\ HelpEntry(options[long]) = entry
             /\ entry.short # NoName => short # 0 /\ HelpEntry(options[short]) = entry
    /\ \A word \in Completions(options) :
          IfActive(options,
                   IF IsPrefix(<<Dash, Dash>>, word)
                   THEN FindLong(options, SubSeq(word, 3, Len(word)))
                   ELSE FindShort(options, word[2])) # 0
=============================================================================
