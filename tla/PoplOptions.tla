---------------------------- MODULE PoplOptions ----------------------------
(***************************************************************************)
(* The options of popl, the command line parser of the example program,    *)
(* and what one word of a command line asks of them.                       *)
(*                                                                         *)
(* A text is a sequence of tokens: "-", "=", a letter, a number or a whole *)
(* name.  The words <<"-", "c", "5">> and <<"-", "-", "cnt", "=", "5">>    *)
(* are -c5 and --cnt=5.  A pointer that may be null is a sequence of at    *)
(* most one element, and option 0 is the null Option_ptr.                  *)
(***************************************************************************)
EXTENDS Naturals, Sequences, SequencesExt

CONSTANTS
    Number,    \* the tokens that read as an int
    Space      \* the token of white space

Dash == "-"
Equal == "="
NoName == ""       \* short_name() of an option without a short name
Token == STRING \ {NoName}
True == <<"1">>
False == <<"0">>

\* enum class Attribute, with the order the printers compare by.
Inactive == 0
Hidden == 1
Required == 2
Optional == 3
Advanced == 4
Expert == 5
Attribute == {Inactive, Hidden, Required, Optional, Advanced, Expert}

-----------------------------------------------------------------------------
(* Descriptors: what an Option is constructed with.                        *)

\* An option as it is constructed; `default' is the value of the constructor.
Descriptor ==
    [kind : {"Value", "Implicit", "Switch"}, type : {"int", "string", "bool"},
     short : STRING, long : Seq(STRING), default : Seq(Seq(STRING)),
     attribute : Attribute, bound : BOOLEAN]

\* argument_type(): whether an option takes an argument.
ArgumentType(d) ==
    [Value |-> "required", Implicit |-> "optional", Switch |-> "no"][d.kind]

\* The constructor throws on an option without any name.
Named(d) == d.short # NoName \/ d.long # <<>>

\* The names add() refuses to register a second time.
Clash(d, e) ==
    \/ d.short # NoName /\ d.short = e.short
    \/ d.long # <<>> /\ d.long = e.long

\* find_option: the first option of that name, active or not.
FindLong(options, name) == SelectInSeq(options, LAMBDA d : d.long = name)
FindShort(options, c) == SelectInSeq(options, LAMBDA d : d.short = c)

\* The parsers treat an inactive option as unknown.
IfActive(options, o) ==
    IF o # 0 /\ options[o].attribute # Inactive THEN o ELSE 0

-----------------------------------------------------------------------------
(* Conversion of a text to a value of the option's type.                   *)

Ok(v) == [error |-> "none", value |-> v]
Error(e) == [error |-> e, value |-> <<>>]

\* Reading ints to the end of the text fails: something else than a number,
\* a sign without its number, or white space at the end.
ReadFails(t) ==
    \/ t # <<>> /\ Last(t) \notin Number
    \/ \E i \in DOMAIN t :
          \/ t[i] \notin Number \cup {Dash, Space}
          \/ t[i] = Dash /\ i < Len(t) /\ t[i + 1] \notin Number

\* Value<int>::parse: exactly one number.
ParseInt(t) ==
    IF ReadFails(t) THEN Error("invalid_argument")
    ELSE IF Len(SelectSeq(t, LAMBDA c : c \in Number)) > 1
         THEN Error("too_many_arguments")
    ELSE IF t = <<>> THEN Error("missing_argument")
    ELSE Ok(SelectSeq(t, LAMBDA c : c # Space))

\* Value<std::string>::parse: any text but the empty one.
ParseString(t) == IF t = <<>> THEN Error("missing_argument") ELSE Ok(t)

\* Value<bool>::parse: anything that is not true is false.
ParseBool(t) ==
    Ok(IF t \in {True, <<"true">>, <<"True">>, <<"TRUE">>} THEN True ELSE False)

\* Value<T>::parse by the type of the option.
ParseValue(type, t) ==
    [int |-> ParseInt(t), string |-> ParseString(t), bool |-> ParseBool(t)][type]

\* option->parse: a Switch ignores the text, an Implicit has a value without.
ParseOption(d, default, t) ==
    CASE d.kind = "Switch" -> Ok(True)
      [] d.kind = "Implicit" /\ t = <<>> -> Ok(default[1])
      [] OTHER -> ParseValue(d.type, t)

-----------------------------------------------------------------------------
(* What word n of a command line does: the parse calls it makes, each at   *)
(* the place <<n, m>> of the token that asks for it and made in the order  *)
(* of the places, whether it takes the next word, and the lists it is      *)
(* entered in.                                                             *)

Before(p, q) == p[1] < q[1] \/ (p[1] = q[1] /\ p[2] < q[2])

\* A set of places in order: the k-th has k - 1 before it.
InOrder(S) ==
    [k \in 1..Cardinality(S) |->
        CHOOSE p \in S : Cardinality({q \in S : Before(q, p)}) = k - 1]

Effect(calls, next, unknown, nonOption) ==
    [calls |-> calls, next |-> next, unknown |-> unknown, nonOption |-> nonOption]

Call(o, t) == [option |-> o, text |-> t]
OneCall(n, o, t) == [p \in {<<n, 1>>} |-> Call(o, t)]
NoCalls == [p \in {} |-> Call(0, <<>>)]

\* "--": every later word is entered as a non-option argument; the loop goes
\* on with the next word all the same.
DashesEffect(args, n) == Effect(NoCalls, FALSE, <<>>, SubSeq(args, n + 1, Len(args)))

\* --name, --name=text
LongEffect(options, args, n) ==
    LET word == args[n]
        equalIdx == SelectInSubSeq(word, 3, Len(word), LAMBDA c : c = Equal)
        name == SubSeq(word, 3, IF equalIdx = 0 THEN Len(word) ELSE equalIdx - 1)
        optarg == IF equalIdx = 0 THEN <<>> ELSE SubSeq(word, equalIdx + 1, Len(word))
        found == IfActive(options, FindLong(options, name))
        o == IF found # 0 /\ ArgumentType(options[found]) = "no" /\ optarg # <<>>
             THEN 0 ELSE found
        next == /\ o # 0 /\ ArgumentType(options[o]) = "required"
                /\ optarg = <<>> /\ n < Len(args)
    IN Effect(IF o = 0 THEN NoCalls
              ELSE OneCall(n, o, IF next THEN args[n + 1] ELSE optarg),
              next, IF o = 0 THEN <<word>> ELSE <<>>, <<>>)

\* -abc: one parse call per known letter, up to the first letter whose option
\* takes an argument: the rest of the word, or for a required one the next word.
ShortEffect(options, args, n) ==
    LET word == args[n]
        o(c) == IfActive(options, FindShort(options, c))
        takes(c) == o(c) # 0 /\ ArgumentType(options[o(c)]) # "no"
        stop == SelectInSubSeq(word, 2, Len(word), takes)
        read == 2..(IF stop = 0 THEN Len(word) ELSE stop)
        known == {<<n, m>> : m \in {k \in read : o(word[k]) # 0}}
        rest == SubSeq(word, stop + 1, Len(word))
        next == /\ stop # 0 /\ ArgumentType(options[o(word[stop])]) = "required"
                /\ rest = <<>> /\ n < Len(args)
        optarg(m) == IF m # stop THEN <<>> ELSE IF next THEN args[n + 1] ELSE rest
    IN Effect([p \in known |-> Call(o(word[p[2]]), optarg(p[2]))], next,
              IF \E m \in read : o(word[m]) = 0 THEN <<word>> ELSE <<>>, <<>>)

\* Any other word.
PlainEffect(args, n) == Effect(NoCalls, FALSE, <<>>, <<args[n]>>)

-----------------------------------------------------------------------------
(* The printers: what the help text shows of an option.                    *)

\* Mutant: the attribute is compared with the limit only.
ShownBelow(options, max) == {o \in DOMAIN options : options[o].attribute <= max}

\* The options a help message of that level lists; bash completion offers those
\* of the highest level.
Shown(options, max) ==
    {o \in DOMAIN options : options[o].attribute > Hidden /\ options[o].attribute <= max}

\* to_string: the names and the form of the argument, with its default.
HelpEntry(d) ==
    [short |-> d.short, long |-> d.long,
     form |-> [required |-> " arg", optional |-> " [=arg]", no |-> ""][ArgumentType(d)]]

\* The lines of help(max_attribute): refused below Optional.
Help(options, max) ==
    IF max < Optional THEN {} ELSE {HelpEntry(options[o]) : o \in Shown(options, max)}

\* The words offered by bash completion.
Completions(options) ==
    LET shown == {options[o] : o \in Shown(options, Expert)}
    IN {<<Dash, d.short>> : d \in {e \in shown : e.short # NoName}}
       \cup {<<Dash, Dash>> \o d.long : d \in {e \in shown : e.long # <<>>}}
=============================================================================
