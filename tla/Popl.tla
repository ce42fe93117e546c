-------------------------------- MODULE Popl --------------------------------
(***************************************************************************)
(* OptionParser of popl with its options: the program adds options, binds  *)
(* variables to them, sets values and defaults, and has command lines and  *)
(* ini files parsed.  A parse goes word by word (line by line) and ends by *)
(* returning or by throwing in the middle.                                 *)
(***************************************************************************)
EXTENDS PoplOptions

CONSTANTS
    Catalogue,  \* the options the program adds, in this order
    Commands,   \* the command lines, argv without argv[0]
    IniFiles,   \* the ini files, each a sequence of trimmed lines
    SetTexts,   \* the values the program itself sets, by type of option
    MaxCalls    \* bound: calls of the program after an option was added

\* An option has at most one default; words and lines are texts, and none of
\* their tokens is empty.
ASSUME PoplAssumption ==
    /\ Catalogue \in Seq(Descriptor)
    /\ \A i \in DOMAIN Catalogue : Len(Catalogue[i].default) <= 1
    /\ Commands \cup IniFiles \subseteq Seq(Seq(Token))
    /\ MaxCalls \in Nat

VARIABLES
    options,    \* options_: the registered descriptors
    values,     \* values_ of every option
    default,    \* default_ of every option, <<>> for null
    assigned,   \* what *assign_to_ holds, <<>> when no variable is bound
    nonOption,  \* non_option_args_
    unknown,    \* unknown_options_
    call,       \* the parse under way, or how the last call ended
    start,      \* history: values and lists when that parse began
    added,      \* how many options of the catalogue were given to add
    calls       \* other calls made so far

vars == <<options, values, default, assigned, nonOption, unknown, call, start,
          added, calls>>

Uninitialised == <<"uninitialised">>
Idle == [phase |-> "idle", source |-> "none", args |-> <<>>, n |-> 1, section |-> <<>>,
         error |-> "none"]
Calling == call.phase = "parsing"
OptionIds == DOMAIN options

-----------------------------------------------------------------------------
(* Values.                                                                 *)

\* Mutant: the variable gets the first value given.
UpdateReferenceFirst(vs, ds, var) ==
    [o \in DOMAIN var |->
        IF var[o] = <<>> THEN <<>>
        ELSE IF vs[o] # <<>> THEN <<Head(vs[o])>>
        ELSE IF ds[o] # <<>> THEN ds[o] ELSE var[o]]

\* update_reference of every option: a bound variable gets the last value, or
\* the default; without either it keeps what it holds.
UpdateReference(vs, ds, var) ==
    [o \in DOMAIN var |->
        IF var[o] = <<>> THEN <<>>
        ELSE IF vs[o] # <<>> THEN <<Last(vs[o])>>
        ELSE IF ds[o] # <<>> THEN ds[o] ELSE var[o]]

Throws == <<>>

\* value(idx): the default only while nothing is set.
Value(o, idx) ==
    IF values[o] = <<>> /\ default[o] # <<>> THEN default[o]
    ELSE IF idx < Len(values[o]) THEN <<values[o][idx + 1]>> ELSE Throws

\* Mutant: the caller's fallback goes before the option's default.
ValueOrFallback(o, fallback, idx) ==
    IF idx < Len(values[o]) THEN <<values[o][idx + 1]>> ELSE <<fallback>>

\* value_or(default_value, idx)
ValueOr(o, fallback, idx) ==
    IF idx < Len(values[o]) THEN <<values[o][idx + 1]>>
    ELSE IF default[o] # <<>> THEN default[o] ELSE <<fallback>>

-----------------------------------------------------------------------------
(* Calls of the program between two parses.                                *)

\* The values and variables after a change of either.
SetState(vs, ds, var) ==
    /\ values' = vs
    /\ default' = ds
    /\ assigned' = UpdateReference(vs, ds, var)

\* No parse is under way after a call.
CallDone(error) ==
    /\ call' = [Idle EXCEPT !.error = error]
    /\ start' = <<>>

\* add: throws, and registers nothing, when a name is missing or taken.
AddOption(d) ==
    IF Named(d) /\ ~\E o \in OptionIds : Clash(d, options[o])
    THEN /\ options' = Append(options, d)
         /\ SetState(Append(values, <<>>), Append(default, d.default),
                     Append(assigned, IF d.bound THEN <<Uninitialised>> ELSE <<>>))
         /\ CallDone("none")
    ELSE /\ CallDone("invalid_argument")
         /\ UNCHANGED <<options, values, default, assigned>>

Add ==
    /\ ~Calling
    /\ added < Len(Catalogue)
    /\ AddOption(Catalogue[added + 1])
    /\ added' = added + 1
    /\ UNCHANGED <<nonOption, unknown, calls>>

\* A call of the program, at most MaxCalls of them.
Program ==
    /\ ~Calling
    /\ calls < MaxCalls
    /\ calls' = calls + 1
    /\ UNCHANGED added

\* assign_to(var)
AssignTo(o) ==
    /\ Program
    /\ SetState(values, default,
                [assigned EXCEPT ![o] = IF @ = <<>> THEN <<Uninitialised>> ELSE @])
    /\ CallDone("none")
    /\ UNCHANGED <<options, nonOption, unknown>>

\* set_default(value); a Switch has none.
SetDefault(o, t) ==
    /\ Program
    /\ options[o].kind # "Switch"
    /\ SetState(values, [default EXCEPT ![o] = <<t>>], assigned)
    /\ CallDone("none")
    /\ UNCHANGED <<options, nonOption, unknown>>

\* set_value(value): clear, then add the value.
SetValue(o, t) ==
    /\ Program
    /\ SetState([values EXCEPT ![o] = <<t>>], default, assigned)
    /\ CallDone("none")
    /\ UNCHANGED <<options, nonOption, unknown>>

\* set_attribute(attribute)
SetAttribute(o, attribute) ==
    /\ Program
    /\ options' = [options EXCEPT ![o].attribute = attribute]
    /\ CallDone("none")
    /\ UNCHANGED <<values, default, assigned, nonOption, unknown>>

\* reset: clear every option, and the lists.
Reset ==
    /\ Program
    /\ SetState([o \in OptionIds |-> <<>>], default, assigned)
    /\ nonOption' = <<>>
    /\ unknown' = <<>>
    /\ CallDone("none")
    /\ UNCHANGED options

-----------------------------------------------------------------------------
(* Parsing a command line.                                                 *)

Begin(source, args) ==
    /\ Program
    /\ call' = [Idle EXCEPT !.phase = "parsing", !.source = source, !.args = args]
    /\ start' = [values |-> values, nonOption |-> nonOption, unknown |-> unknown]
    /\ UNCHANGED <<options, values, default, assigned, nonOption, unknown>>

\* parse(argc, argv)
ParseCommand(args) == Begin("argv", args)

\* A word is left to parse.
AtWord(source) == Calling /\ call.source = source /\ call.n <= Len(call.args)
AtEnd(source) == Calling /\ call.source = source /\ call.n > Len(call.args)

Parsed(c) == ParseOption(options[c.option], default[c.option], c.text)

\* The values after the parse calls at these places.
AddValues(cs, made) ==
    [o \in OptionIds |->
        LET mine == {p \in made : cs[p].option = o}
        IN values[o] \o [k \in 1..Cardinality(mine) |-> Parsed(cs[InOrder(mine)[k]]).value]]

\* The parse calls of one word, in order, up to the first that throws; the word
\* is entered in its lists only when none does.
Apply(e, taken) ==
    LET failing == {p \in DOMAIN e.calls : Parsed(e.calls[p]).error # "none"}
        made == {p \in DOMAIN e.calls : \A q \in failing : Before(p, q)}
    IN /\ SetState(AddValues(e.calls, made), default, assigned)
       /\ IF failing = {}
          THEN /\ unknown' = unknown \o e.unknown
               /\ nonOption' = nonOption \o e.nonOption
               /\ call' = [call EXCEPT !.n = @ + taken]
          ELSE /\ call' = [call EXCEPT !.phase = "threw",
                              !.error = Parsed(e.calls[InOrder(failing)[1]]).error]
               /\ UNCHANGED <<unknown, nonOption>>
       /\ UNCHANGED <<options, start, added, calls>>

\* Mutant: a word taken as an argument is parsed again as a word.
WordsTakenOne(e) == 1

\* Mutant: every option is given a second word.
WordsTakenTwo(e) == IF DOMAIN e.calls # {} THEN 2 ELSE 1

\* The words an argument uses up.
WordsTaken(e) == IF e.next THEN 2 ELSE 1

ParseWord(e) == Apply(e, WordsTaken(e))

Word == call.args[call.n]
IsDashes == Word = <<Dash, Dash>>
IsLong == ~IsDashes /\ IsPrefix(<<Dash, Dash>>, Word)
IsShort == ~IsDashes /\ ~IsLong /\ IsPrefix(<<Dash>>, Word)

\* The four cases of the loop of parse(argc, argv).
ParseDashes ==
    /\ AtWord("argv")
    /\ IsDashes
    /\ ParseWord(DashesEffect(call.args, call.n))

ParseLong ==
    /\ AtWord("argv")
    /\ IsLong
    /\ ParseWord(LongEffect(options, call.args, call.n))

ParseShort ==
    /\ AtWord("argv")
    /\ IsShort
    /\ ParseWord(ShortEffect(options, call.args, call.n))

ParsePlain ==
    /\ AtWord("argv")
    /\ ~IsDashes /\ ~IsLong /\ ~IsShort
    /\ ParseWord(PlainEffect(call.args, call.n))

MissingOption ==
    \E o \in OptionIds : options[o].attribute = Required /\ values[o] = <<>>

\* The end of parse(argc, argv): throws for a required option without a value.
EndCommand ==
    /\ AtEnd("argv")
    /\ call' = [call EXCEPT !.phase = IF MissingOption THEN "threw" ELSE "returned",
                            !.error = IF MissingOption THEN "missing_option" ELSE "none"]
    /\ UNCHANGED <<options, values, default, assigned, nonOption, unknown, start,
                   added, calls>>

-----------------------------------------------------------------------------
(* Parsing an ini file.                                                    *)

\* parse(ini_filename)
ParseFile(lines) == Begin("ini", lines)

EqualIdx == SelectInSeq(Word, LAMBDA c : c = Equal)
IsSection == Word # <<>> /\ Head(Word) = "[" /\ Last(Word) = "]"
IsComment == Word # <<>> /\ Head(Word) = "#"
IsEntry == ~IsSection /\ ~IsComment /\ EqualIdx > 1
Key == SubSeq(Word, 1, EqualIdx - 1)
KeyValue == SubSeq(Word, EqualIdx + 1, Len(Word))

\* A blank line, a comment, a line without a key or without "=": no effect.
SkipLine ==
    /\ AtWord("ini")
    /\ ~IsSection /\ ~IsEntry
    /\ call' = [call EXCEPT !.n = @ + 1]
    /\ UNCHANGED <<options, values, default, assigned, nonOption, unknown, start,
                   added, calls>>

\* [section]
SectionLine ==
    /\ AtWord("ini")
    /\ IsSection
    /\ call' = [call EXCEPT !.n = @ + 1, !.section = SubSeq(Word, 2, Len(Word) - 1)]
    /\ UNCHANGED <<options, values, default, assigned, nonOption, unknown, start,
                   added, calls>>

\* Mutant: the section is left out of the key.
QualifiedKeyBare(section, key) == key

\* The long name a key stands for.
QualifiedKey(section, key) ==
    IF section = <<>> THEN key ELSE section \o <<".">> \o key

\* key = value: one parse call whatever the kind of the option, so a Switch is
\* set by any value; the unknown keys are entered, not the line.
EntryLine ==
    /\ AtWord("ini")
    /\ IsEntry
    /\ LET key == QualifiedKey(call.section, Key)
           o == IfActive(options, FindLong(options, key))
       IN Apply(IF o = 0 THEN Effect(NoCalls, FALSE, <<key>>, <<>>)
                ELSE Effect(OneCall(call.n, o, KeyValue), FALSE, <<>>, <<>>), 1)

\* The end of the file: required options are not looked at.
EndFile ==
    /\ AtEnd("ini")
    /\ call' = [call EXCEPT !.phase = "returned"]
    /\ UNCHANGED <<options, values, default, assigned, nonOption, unknown, start,
                   added, calls>>

-----------------------------------------------------------------------------
(* The specification.                                                      *)

Init ==
    /\ options = <<>> /\ values = <<>> /\ default = <<>> /\ assigned = <<>>
    /\ nonOption = <<>> /\ unknown = <<>>
    /\ call = Idle
    /\ start = <<>>
    /\ added = 0
    /\ calls = 0

ProgramCall ==
    \/ Add
    \/ Reset
    \/ \E o \in OptionIds :
          \/ AssignTo(o)
          \/ \E t \in SetTexts[options[o].type] : SetDefault(o, t) \/ SetValue(o, t)
          \/ \E a \in Attribute : SetAttribute(o, a)
    \/ \E args \in Commands : ParseCommand(args)
    \/ \E lines \in IniFiles : ParseFile(lines)

ParseStep ==
    \/ ParseDashes \/ ParseLong \/ ParseShort \/ ParsePlain \/ EndCommand
    \/ SkipLine \/ SectionLine \/ EntryLine \/ EndFile

Next == ProgramCall \/ ParseStep
Spec == Init /\ [][Next]_vars

-----------------------------------------------------------------------------
(* Properties.                                                             *)

\* The form of the state; the lists of one option per registered option.
PoplTypeOK ==
    /\ added \in 0..Len(Catalogue)
    /\ calls \in 0..MaxCalls
    /\ DOMAIN options = 1..Len(options)
    /\ Len(options) <= added
    /\ \A f \in {values, default, assigned} : DOMAIN f = OptionIds
    /\ \A o \in OptionIds : Len(default[o]) <= 1 /\ Len(assigned[o]) <= 1
    /\ call.phase \in {"idle", "parsing", "returned", "threw"}
    /\ call.n \in 1..(Len(call.args) + 1)

\* A bound variable always holds the last value given on the command line, in a
\* file or by the program, or the default when no value is given, also in the
\* middle of a parse and after one that threw.
VariableFollows ==
    \A o \in OptionIds :
        assigned[o] # <<>> =>
            /\ values[o] # <<>> => assigned[o] = <<Last(values[o])>>
            /\ values[o] = <<>> /\ default[o] # <<>> => assigned[o] = default[o]
=============================================================================
