----------------------------- MODULE PoplProofs -----------------------------
(***************************************************************************)
(* For every catalogue of options, command line and ini file: the variable *)
(* bound to an option follows its values, what a program reads of an       *)
(* option agrees however it reads it, and the help text and the words bash *)
(* completes are true of the parser.  The invariant has five parts: the    *)
(* lists agree on which options exist (PoplInv), no two options share a    *)
(* name (NamesApart), the options are those of the catalogue but for the   *)
(* attribute (FromCatalogue), the lists of one option have their form      *)
(* (ValuesShape), and a parse stands at a word of its line (CallShape).    *)
(***************************************************************************)
EXTENDS PoplReference, SequenceTheorems, FiniteSetTheorems, WellFoundedInduction, TLAPS

\* f is a sequence.
IsSequence(f) == \E k \in Nat : f = [i \in 1..k |-> f[i]]

\* One entry per registered option, in all four lists.
ListsAgree ==
    /\ \A f \in {options, values, default, assigned} : IsSequence(f)
    /\ DOMAIN values = DOMAIN options
    /\ DOMAIN default = DOMAIN options
    /\ DOMAIN assigned = DOMAIN options

PoplInv == ListsAgree /\ VariableFollows

\* An interval from 1 determines its end.
LEMMA IntervalsEqual == \A a, b \in Nat : 1..a = 1..b => a = b
<1>. SUFFICES ASSUME NEW a \in Nat, NEW b \in Nat, 1..a = 1..b, a # b PROVE FALSE
  OBVIOUS
<1>1. CASE a < b
  <2>1. b \in 1..b /\ b \notin 1..a
    BY <1>1
  <2>. QED
    BY <2>1
<1>2. CASE b < a
  <2>1. a \in 1..a /\ a \notin 1..b
    BY <1>2
  <2>. QED
    BY <2>1
<1>. QED
  BY <1>1, <1>2

\* Appending to a sequence adds exactly one index, the next one.
LEMMA AppendDomain ==
    ASSUME NEW f, IsSequence(f), NEW e
    PROVE  /\ IsSequence(Append(f, e))
           /\ DOMAIN Append(f, e) = 1..(Len(f) + 1)
           /\ DOMAIN f = 1..Len(f)
           /\ Len(f) \in Nat
<1>1. PICK k \in Nat : f = [i \in 1..k |-> f[i]]
  BY DEF IsSequence
<1>. DEFINE S == {f[i] : i \in 1..k} \cup {e}
<1>2. f \in Seq(S)
  BY <1>1
<1>3. Append(f, e) \in Seq(S) /\ Len(Append(f, e)) = Len(f) + 1
  BY <1>2
<1>4. Append(f, e) = [i \in 1..(Len(f) + 1) |-> Append(f, e)[i]]
  BY <1>3, LenProperties
<1>5. Len(f) \in Nat /\ DOMAIN f = 1..Len(f)
  BY <1>2
<1>6. Len(Append(f, e)) \in Nat /\ DOMAIN Append(f, e) = 1..(Len(f) + 1)
  BY <1>3, LenProperties
<1>. HIDE DEF S
<1>7. IsSequence(Append(f, e))
  <2>. DEFINE g == Append(f, e)
              m == Len(f) + 1
  <2>1. m \in Nat /\ g = [i \in 1..m |-> g[i]]
    BY <1>4, <1>5
  <2>. HIDE DEF g, m
  <2>2. IsSequence(g)
    BY <2>1 DEF IsSequence
  <2>. QED
    BY <2>2 DEF g
<1>. QED
  BY <1>5, <1>6, <1>7

\* Whatever the variables held, after update_reference they follow the values.
LEMMA ReferenceFollows ==
    ASSUME NEW var, assigned' = UpdateReference(values', default', var),
           DOMAIN var = DOMAIN options'
    PROVE  VariableFollows'
<1>. SUFFICES ASSUME NEW o \in DOMAIN options', assigned'[o] # <<>>
              PROVE  /\ values'[o] # <<>> => assigned'[o] = <<Last(values'[o])>>
                     /\ values'[o] = <<>> /\ default'[o] # <<>> => assigned'[o] = default'[o]
  BY DEF VariableFollows, OptionIds
<1>1. assigned'[o] =
          IF var[o] = <<>> THEN <<>>
          ELSE IF values'[o] # <<>> THEN <<Last(values'[o])>>
          ELSE IF default'[o] # <<>> THEN default'[o] ELSE var[o]
  BY DEF UpdateReference
<1>2. var[o] # <<>>
  BY <1>1
<1>. QED
  BY <1>1, <1>2

\* A call that keeps the options and leaves one list entry per option keeps the
\* invariant; every call but add() is one.
LEMMA SetStateKeeps ==
    ASSUME NEW vs, NEW ds, NEW var, SetState(vs, ds, var), ListsAgree,
           IsSequence(options'), DOMAIN options' = DOMAIN options,
           vs = [o \in DOMAIN options |-> vs[o]],
           ds = [o \in DOMAIN options |-> ds[o]],
           DOMAIN var = DOMAIN options
    PROVE  PoplInv'
<1>1. PICK k \in Nat : options = [i \in 1..k |-> options[i]]
  BY DEF ListsAgree, IsSequence
<1>2. DOMAIN options = 1..k
  BY <1>1
<1>3. assigned' = [o \in DOMAIN options |-> assigned'[o]]
  BY DEF SetState, UpdateReference
<1>4. IsSequence(values') /\ IsSequence(default') /\ IsSequence(assigned')
  BY <1>2, <1>3 DEF SetState, IsSequence
<1>5. /\ DOMAIN values' = DOMAIN options /\ DOMAIN default' = DOMAIN options
      /\ DOMAIN assigned' = DOMAIN options
  BY <1>3 DEF SetState
<1>6. VariableFollows'
  BY ReferenceFollows DEF SetState
<1>. QED
  BY <1>4, <1>5, <1>6 DEF PoplInv, ListsAgree

\* What the lists look like to SetStateKeeps when a call leaves them alone.
LEMMA ListsAreFunctions ==
    ASSUME ListsAgree
    PROVE  /\ values = [o \in DOMAIN options |-> values[o]]
           /\ default = [o \in DOMAIN options |-> default[o]]
           /\ assigned = [o \in DOMAIN options |-> assigned[o]]
           /\ options = [o \in DOMAIN options |-> options[o]]
           /\ IsSequence(options)
BY DEF ListsAgree, IsSequence

\* add() gives the new option an entry of its own in every list.
LEMMA AddKeeps == PoplInv /\ Add => PoplInv'
<1>. SUFFICES ASSUME PoplInv, Add PROVE PoplInv'
  OBVIOUS
<1>. DEFINE d == Catalogue[added + 1]
<1>1. CASE options' = options
  <2>1. UNCHANGED <<options, values, default, assigned>>
    <3>1. options # Append(options, d)
      <4>1. DOMAIN options # DOMAIN Append(options, d)
        <5>1. IsSequence(options)
          BY DEF PoplInv, ListsAgree
        <5>. HIDE DEF d
        <5>. QED
          BY <5>1, AppendDomain
      <4>. QED
        BY <4>1
    <3>. QED
      BY <3>1, <1>1 DEF Add, AddOption
  <2>. QED
    BY <2>1 DEF PoplInv, ListsAgree, VariableFollows, OptionIds
<1>2. CASE options' # options
  <2>. DEFINE v == <<>>
              b == IF d.bound THEN <<Uninitialised>> ELSE <<>>
              e == d.default
  <2>1. /\ options' = Append(options, d)
        /\ values' = Append(values, v)
        /\ default' = Append(default, e)
        /\ assigned' = UpdateReference(values', default', Append(assigned, b))
    BY <1>2 DEF Add, AddOption, SetState
  <2>2. /\ IsSequence(options) /\ IsSequence(values) /\ IsSequence(default)
        /\ IsSequence(assigned)
        /\ DOMAIN values = DOMAIN options /\ DOMAIN default = DOMAIN options
        /\ DOMAIN assigned = DOMAIN options
    BY DEF PoplInv, ListsAgree
  <2>. HIDE DEF v, b, e, d
  <2>3. Len(values) = Len(options) /\ Len(default) = Len(options)
        /\ Len(assigned) = Len(options)
    <3>1. ASSUME NEW f, IsSequence(f), DOMAIN f = DOMAIN options
          PROVE  Len(f) = Len(options)
      <4>1. DOMAIN f = 1..Len(f) /\ Len(f) \in Nat
        BY <3>1, AppendDomain
      <4>2. DOMAIN options = 1..Len(options) /\ Len(options) \in Nat
        BY <2>2, AppendDomain
      <4>3. 1..Len(f) = 1..Len(options)
        BY <3>1, <4>1, <4>2
      <4>. QED
        BY <4>1, <4>2, <4>3, IntervalsEqual
    <3>. QED
      BY <2>2, <3>1
  <2>4. /\ IsSequence(options') /\ DOMAIN options' = 1..(Len(options) + 1)
        /\ Len(options) \in Nat
    BY <2>1, <2>2, AppendDomain
  <2>5. IsSequence(values') /\ DOMAIN values' = DOMAIN options'
    BY <2>1, <2>2, <2>3, <2>4, AppendDomain
  <2>6. IsSequence(default') /\ DOMAIN default' = DOMAIN options'
    BY <2>1, <2>2, <2>3, <2>4, AppendDomain
  <2>7. DOMAIN Append(assigned, b) = DOMAIN options'
    BY <2>1, <2>2, <2>3, <2>4, AppendDomain
  <2>8. assigned' = [o \in DOMAIN options' |-> assigned'[o]]
    BY ONLY <2>1, <2>7 DEF UpdateReference
  <2>9. IsSequence(assigned') /\ DOMAIN assigned' = DOMAIN options'
    BY <2>4, <2>8 DEF IsSequence
  <2>10. VariableFollows'
    BY <2>1, <2>7, ReferenceFollows
  <2>. QED
    BY <2>4, <2>5, <2>6, <2>9, <2>10 DEF PoplInv, ListsAgree
<1>. QED
  BY <1>1, <1>2

\* The parse calls of one word or one line.
LEMMA ApplyKeeps ==
    ASSUME PoplInv, NEW e, NEW taken, Apply(e, taken)
    PROVE  PoplInv'
<1>. DEFINE failing == {p \in DOMAIN e.calls : Parsed(e.calls[p]).error # "none"}
            made == {p \in DOMAIN e.calls : \A q \in failing : Before(p, q)}
            vs == AddValues(e.calls, made)
<1>1. SetState(vs, default, assigned) /\ options' = options
  BY DEF Apply
<1>2. vs = [o \in DOMAIN options |-> vs[o]]
  BY DEF AddValues, OptionIds
<1>3. ListsAgree /\ DOMAIN assigned = DOMAIN options
  BY DEF PoplInv, ListsAgree
<1>. HIDE DEF vs
<1>. QED
  BY <1>1, <1>2, <1>3, ListsAreFunctions, SetStateKeeps

\* The calls of the program that change values, defaults or variables.
LEMMA ProgramKeeps == PoplInv /\ ProgramCall => PoplInv'
<1>. SUFFICES ASSUME PoplInv, ProgramCall PROVE PoplInv'
  OBVIOUS
<1>1. ListsAgree /\ DOMAIN assigned = DOMAIN options
  BY DEF PoplInv, ListsAgree
<1>2. CASE Add
  BY <1>2, AddKeeps
<1>3. CASE Reset
  <2>1. SetState([o \in OptionIds |-> <<>>], default, assigned) /\ options' = options
    BY <1>3 DEF Reset
  <2>2. [o \in OptionIds |-> <<>>]
           = [o \in DOMAIN options |-> [p \in OptionIds |-> <<>>][o]]
    BY DEF OptionIds
  <2>. QED
    BY <1>1, <2>1, <2>2, ListsAreFunctions, SetStateKeeps
<1>4. ASSUME NEW o \in OptionIds, AssignTo(o) PROVE PoplInv'
  <2>. DEFINE var == [assigned EXCEPT ![o] = IF @ = <<>> THEN <<Uninitialised>> ELSE @]
  <2>1. SetState(values, default, var) /\ options' = options
    BY <1>4 DEF AssignTo
  <2>2. DOMAIN var = DOMAIN options
    BY <1>1
  <2>. HIDE DEF var
  <2>. QED
    BY <1>1, <2>1, <2>2, ListsAreFunctions, SetStateKeeps
<1>5. ASSUME NEW o \in OptionIds, NEW t, SetDefault(o, t) PROVE PoplInv'
  <2>. DEFINE ds == [default EXCEPT ![o] = <<t>>]
  <2>1. SetState(values, ds, assigned) /\ options' = options
    BY <1>5 DEF SetDefault
  <2>2. ds = [i \in DOMAIN options |-> ds[i]]
    BY <1>1 DEF ListsAgree
  <2>. HIDE DEF ds
  <2>. QED
    BY <1>1, <2>1, <2>2, ListsAreFunctions, SetStateKeeps
<1>6. ASSUME NEW o \in OptionIds, NEW t, SetValue(o, t) PROVE PoplInv'
  <2>. DEFINE vs == [values EXCEPT ![o] = <<t>>]
  <2>1. SetState(vs, default, assigned) /\ options' = options
    BY <1>6 DEF SetValue
  <2>2. vs = [i \in DOMAIN options |-> vs[i]]
    BY <1>1 DEF ListsAgree
  <2>. HIDE DEF vs
  <2>. QED
    BY <1>1, <2>1, <2>2, ListsAreFunctions, SetStateKeeps
<1>7. ASSUME NEW o \in OptionIds, NEW a \in Attribute, SetAttribute(o, a) PROVE PoplInv'
  <2>1. options' = [options EXCEPT ![o].attribute = a]
        /\ UNCHANGED <<values, default, assigned>>
    BY <1>7 DEF SetAttribute
  <2>2. DOMAIN options' = DOMAIN options /\ IsSequence(options')
    BY <1>1, <2>1, ListsAreFunctions DEF IsSequence
  <2>. QED
    BY <1>1, <2>1, <2>2 DEF PoplInv, ListsAgree, VariableFollows, OptionIds
<1>8. ASSUME NEW source, NEW args, Begin(source, args) PROVE PoplInv'
  BY <1>8 DEF Begin, PoplInv, ListsAgree, VariableFollows, OptionIds
<1>. QED
  BY <1>2, <1>3, <1>4, <1>5, <1>6, <1>7, <1>8 DEF ProgramCall, ParseCommand, ParseFile

LEMMA InvKept == PoplInv /\ [Next]_vars => PoplInv'
<1>. SUFFICES ASSUME PoplInv, [Next]_vars PROVE PoplInv'
  OBVIOUS
<1>1. CASE ProgramCall
  BY <1>1, ProgramKeeps
<1>2. CASE ParseStep
  <2>1. CASE ParseDashes \/ ParseLong \/ ParseShort \/ ParsePlain
    BY <2>1, ApplyKeeps DEF ParseDashes, ParseLong, ParseShort, ParsePlain, ParseWord
  <2>2. CASE EntryLine
    BY <2>2, ApplyKeeps DEF EntryLine
  <2>3. CASE EndCommand \/ SkipLine \/ SectionLine \/ EndFile
    <3>1. UNCHANGED <<options, values, default, assigned>>
      BY <2>3 DEF EndCommand, SkipLine, SectionLine, EndFile
    <3>. QED
      BY <3>1 DEF PoplInv, ListsAgree, VariableFollows, OptionIds
  <2>. QED
    BY <1>2, <2>1, <2>2, <2>3 DEF ParseStep
<1>3. CASE UNCHANGED vars
  BY <1>3 DEF vars, PoplInv, ListsAgree, VariableFollows, OptionIds
<1>. QED
  BY <1>1, <1>2, <1>3 DEF Next

\* In every state, also in the middle of a parse and after one that threw, the
\* variable a program bound to an option holds the option's last value, or its
\* default while it has none.
THEOREM VariablesFollow == Spec => []VariableFollows
<1>1. Init => PoplInv
  <2>. SUFFICES ASSUME Init PROVE PoplInv
    OBVIOUS
  <2>1. IsSequence(<<>>)
    BY DEF IsSequence
  <2>. QED
    BY <2>1 DEF Init, PoplInv, ListsAgree, VariableFollows, OptionIds
<1>2. PoplInv => VariableFollows
  BY DEF PoplInv
<1>. QED
  BY <1>1, <1>2, InvKept, PTL DEF Spec

-----------------------------------------------------------------------------
(* The form of the state.                                                  *)

\* A sequence of a set is one.
LEMMA SeqIsSequence ==
    ASSUME NEW S, NEW s \in Seq(S)
    PROVE  IsSequence(s) /\ DOMAIN s = 1..Len(s) /\ Len(s) \in Nat
<1>1. Len(s) \in Nat /\ s = [i \in 1..Len(s) |-> s[i]] /\ DOMAIN s = 1..Len(s)
  BY LenProperties
<1>. QED
  BY <1>1 DEF IsSequence

\* The length of a sequence, and that only <<>> has none.
LEMMA SequenceLength ==
    ASSUME NEW s, IsSequence(s)
    PROVE  Len(s) \in Nat /\ (s # <<>> => Len(s) >= 1)
<1>1. PICK k \in Nat : s = [i \in 1..k |-> s[i]]
  BY DEF IsSequence
<1>2. DOMAIN s = 1..Len(s) /\ Len(s) \in Nat
  BY AppendDomain
<1>3. DOMAIN s = 1..k
  BY <1>1
<1>4. Len(s) = k
  BY <1>2, <1>3, IntervalsEqual
<1>5. CASE k = 0
  <2>1. s = <<>>
    <3>1. DOMAIN s = {}
      BY <1>3, <1>5
    <3>. QED
      BY <1>1, <3>1
  <2>. QED
    BY <1>2, <2>1
<1>6. CASE k # 0
  BY <1>2, <1>4, <1>6
<1>. QED
  BY <1>5, <1>6

\* Two sequences one after the other are one.
LEMMA ConcatIsSequence ==
    ASSUME NEW f, NEW g, IsSequence(f), IsSequence(g)
    PROVE  IsSequence(f \o g)
<1>1. PICK k \in Nat : f = [i \in 1..k |-> f[i]]
  BY DEF IsSequence
<1>2. PICK m \in Nat : g = [i \in 1..m |-> g[i]]
  BY DEF IsSequence
<1>. DEFINE S == {f[i] : i \in 1..k} \cup {g[i] : i \in 1..m}
<1>3. /\ \A i \in 1..k : f[i] \in S
      /\ \A i \in 1..m : g[i] \in S
  OBVIOUS
<1>. HIDE DEF S
<1>5. f \in Seq(S)
  BY <1>1, <1>3
<1>6. g \in Seq(S)
  BY <1>2, <1>3
<1>4. f \o g \in Seq(S)
  BY <1>5, <1>6, ConcatProperties
<1>. QED
  BY ONLY <1>4, SeqIsSequence


\* A sequence has the elements it had after another one is appended.
LEMMA AppendElements ==
    ASSUME NEW f, IsSequence(f), NEW e
    PROVE  /\ \A i \in DOMAIN f : Append(f, e)[i] = f[i]
           /\ Append(f, e)[Len(f) + 1] = e
<1>1. PICK k \in Nat : f = [i \in 1..k |-> f[i]]
  BY DEF IsSequence
<1>. DEFINE S == {f[i] : i \in 1..k} \cup {e}
<1>2. (\A i \in 1..k : f[i] \in S) /\ e \in S
  OBVIOUS
<1>. HIDE DEF S
<1>3. f \in Seq(S)
  BY <1>1, <1>2
<1>4. DOMAIN f = 1..Len(f) /\ Len(f) \in Nat
  BY <1>3
<1>5. /\ \A i \in 1..Len(f) : Append(f, e)[i] = f[i]
      /\ Append(f, e)[Len(f) + 1] = e
  BY <1>2, <1>3, AppendProperties
<1>. QED
  BY <1>4, <1>5

\* No two registered options have a name in common.
NamesApart == \A i, j \in DOMAIN options : i # j => ~Clash(options[i], options[j])

\* The registered options are options of the catalogue but for the attribute.
FromCatalogue ==
    \A o \in DOMAIN options :
        /\ options[o] \in Descriptor
        /\ \E i \in DOMAIN Catalogue : options[o].short = Catalogue[i].short

Counted ==
    /\ added \in 0..Len(Catalogue)
    /\ calls \in 0..MaxCalls
    /\ Len(options) <= added

OptionsShape == NamesApart /\ FromCatalogue /\ Counted

LEMMA AddOptionsShape == PoplInv /\ OptionsShape /\ Add => OptionsShape'
<1>. SUFFICES ASSUME PoplInv, OptionsShape, Add PROVE OptionsShape'
  OBVIOUS
<1>. DEFINE d == Catalogue[added + 1]
<1>1. Catalogue \in Seq(Descriptor) /\ Len(Catalogue) \in Nat
  BY PoplAssumption
<1>2. added + 1 \in DOMAIN Catalogue /\ added' \in 0..Len(Catalogue) /\ added' = added + 1
      /\ calls' = calls
  BY <1>1 DEF OptionsShape, Counted, Add
<1>3. d \in Descriptor
  BY <1>1, <1>2
<1>4. IsSequence(options) /\ DOMAIN options = 1..Len(options) /\ Len(options) \in Nat
  BY AppendDomain DEF PoplInv, ListsAgree
<1>5. CASE options' = options
  BY <1>2, <1>4, <1>5 DEF OptionsShape, NamesApart, FromCatalogue, Counted
<1>6. CASE options' # options
  <2>1. options' = Append(options, d) /\ \A o \in OptionIds : ~Clash(d, options[o])
    BY <1>6 DEF Add, AddOption
  <2>. DEFINE c == Len(options) + 1
  <2>2. /\ DOMAIN options' = 1..c
        /\ \A i \in 1..Len(options) : options'[i] = options[i]
        /\ options'[c] = d
        /\ IsSequence(options')
    <3>. HIDE DEF d
    <3>. QED
      BY <1>4, <2>1, AppendDomain, AppendElements
  <2>3. DOMAIN options' = 1..Len(options') /\ Len(options') \in Nat
    BY <2>2, AppendDomain
  <2>4. Len(options') = c
    BY <1>4, <2>2, <2>3, IntervalsEqual
  <2>5. NamesApart'
    <3>. SUFFICES ASSUME NEW i \in DOMAIN options', NEW j \in DOMAIN options', i # j
                  PROVE  ~Clash(options'[i], options'[j])
      BY DEF NamesApart
    <3>. HIDE DEF d
    <3>1. CASE i # c /\ j # c
      BY <1>4, <2>2, <3>1 DEF OptionsShape, NamesApart
    <3>2. CASE i = c
      <4>1. j \in DOMAIN options
        BY <1>4, <2>2, <3>2
      <4>. QED
        BY <1>4, <2>1, <2>2, <3>2, <4>1 DEF OptionIds
    <3>3. CASE j = c
      <4>1. i \in DOMAIN options
        BY <1>4, <2>2, <3>3
      <4>2. ~Clash(d, options[i])
        BY <2>1, <4>1 DEF OptionIds
      <4>. QED
        BY <1>4, <2>2, <3>3, <4>1, <4>2 DEF Clash
    <3>. QED
      BY <3>1, <3>2, <3>3
  <2>6. FromCatalogue'
    <3>. SUFFICES ASSUME NEW o \in DOMAIN options'
                  PROVE  /\ options'[o] \in Descriptor
                         /\ \E i \in DOMAIN Catalogue : options'[o].short = Catalogue[i].short
      BY DEF FromCatalogue
    <3>1. CASE o = c
      BY <1>2, <1>3, <2>2, <3>1
    <3>2. CASE o # c
      <4>1. o \in DOMAIN options /\ options'[o] = options[o]
        BY <1>4, <2>2, <3>2
      <4>. QED
        BY <4>1 DEF OptionsShape, FromCatalogue
    <3>. QED
      BY <3>1, <3>2
  <2>7. Len(options') <= added'
    BY <1>1, <1>2, <1>4, <2>4 DEF OptionsShape, Counted
  <2>. QED
    BY <1>2, <2>5, <2>6, <2>7 DEF OptionsShape, Counted
<1>. QED
  BY <1>5, <1>6

\* set_attribute() keeps the names.
LEMMA AttributeOptionsShape ==
    ASSUME PoplInv, OptionsShape, NEW o \in OptionIds, NEW a \in Attribute, SetAttribute(o, a)
    PROVE  OptionsShape'
<1>1. options' = [options EXCEPT ![o].attribute = a] /\ added' = added
      /\ calls' = calls + 1 /\ calls < MaxCalls
  BY DEF SetAttribute, Program
<1>2. DOMAIN options = 1..Len(options) /\ Len(options) \in Nat /\ IsSequence(options)
  BY AppendDomain DEF PoplInv, ListsAgree
<1>3. DOMAIN options' = DOMAIN options
  BY <1>1
<1>4. Len(options') = Len(options)
  <2>1. IsSequence(options')
    BY <1>1, <1>2, <1>3 DEF IsSequence
  <2>2. DOMAIN options' = 1..Len(options') /\ Len(options') \in Nat
    BY <2>1, AppendDomain
  <2>. QED
    BY <1>2, <1>3, <2>2, IntervalsEqual
<1>5. ASSUME NEW i \in DOMAIN options
      PROVE  /\ options'[i] \in Descriptor
             /\ options'[i].short = options[i].short /\ options'[i].long = options[i].long
  <2>1. options[i] \in Descriptor
    BY DEF OptionsShape, FromCatalogue
  <2>2. CASE i = o
    <3>1. options'[i] = [options[i] EXCEPT !.attribute = a]
      BY <1>1, <2>2
    <3>. QED
      BY <2>1, <3>1 DEF Descriptor
  <2>3. CASE i # o
    BY <1>1, <2>1, <2>3
  <2>. QED
    BY <2>2, <2>3
<1>6. NamesApart'
  BY <1>3, <1>5 DEF OptionsShape, NamesApart, Clash
<1>7. FromCatalogue'
  BY <1>3, <1>5 DEF OptionsShape, FromCatalogue
<1>8. Counted'
  BY <1>1, <1>4, PoplAssumption DEF OptionsShape, Counted
<1>. QED
  BY <1>6, <1>7, <1>8 DEF OptionsShape

LEMMA OptionsShapeKept == PoplInv /\ OptionsShape /\ [Next]_vars => OptionsShape'
<1>. SUFFICES ASSUME PoplInv, OptionsShape, [Next]_vars PROVE OptionsShape'
  OBVIOUS
<1>1. CASE Add
  BY <1>1, AddOptionsShape
<1>2. ASSUME NEW o \in OptionIds, NEW a \in Attribute, SetAttribute(o, a)
      PROVE  OptionsShape'
  BY <1>2, AttributeOptionsShape
<1>3. CASE Program /\ options' = options
  <2>1. calls' = calls + 1 /\ calls < MaxCalls /\ added' = added
    BY <1>3 DEF Program
  <2>2. Counted'
    BY <1>3, <2>1, PoplAssumption DEF OptionsShape, Counted
  <2>. QED
    BY <1>3, <2>2 DEF OptionsShape, NamesApart, FromCatalogue
<1>4. CASE ParseStep
  <2>1. UNCHANGED <<options, added, calls>>
    <3>1. ASSUME NEW e, NEW taken, Apply(e, taken) PROVE UNCHANGED <<options, added, calls>>
      BY <3>1 DEF Apply
    <3>. QED
      BY <1>4, <3>1 DEF ParseStep, ParseDashes, ParseLong, ParseShort, ParsePlain,
         ParseWord, EndCommand, SkipLine, SectionLine, EntryLine, EndFile
  <2>. QED
    BY <2>1 DEF OptionsShape, NamesApart, FromCatalogue, Counted
<1>5. CASE UNCHANGED vars
  BY <1>5 DEF vars, OptionsShape, NamesApart, FromCatalogue, Counted
<1>6. ProgramCall => \/ Add
                     \/ Program /\ options' = options
                     \/ \E o \in OptionIds, a \in Attribute : SetAttribute(o, a)
  BY DEF ProgramCall, Reset, AssignTo, SetDefault, SetValue, ParseCommand, ParseFile, Begin
<1>. QED
  BY <1>1, <1>2, <1>3, <1>4, <1>5, <1>6 DEF Next

\* At most one element.
AtMostOne(s) == s = <<>> \/ \E v : s = <<v>>

\* Every option has a sequence of values, and at most one default and variable.
ValuesShape ==
    \A o \in DOMAIN options :
        IsSequence(values[o]) /\ AtMostOne(default[o]) /\ AtMostOne(assigned[o])

LEMMA AtMostOneLen == ASSUME NEW s, AtMostOne(s) PROVE Len(s) <= 1
<1>1. CASE s = <<>>
  BY <1>1
<1>2. ASSUME NEW v, s = <<v>> PROVE Len(s) <= 1
  BY <1>2
<1>. QED
  BY <1>1, <1>2 DEF AtMostOne

LEMMA EmptyAndOne ==
    /\ IsSequence(<<>>) /\ AtMostOne(<<>>)
    /\ \A v : IsSequence(<<v>>) /\ AtMostOne(<<v>>)
<1>1. IsSequence(<<>>)
  BY DEF IsSequence
<1>2. ASSUME NEW v PROVE IsSequence(<<v>>)
  <2>1. <<v>> = [i \in 1..1 |-> <<v>>[i]]
    OBVIOUS
  <2>. DEFINE s == <<v>>
  <2>2. s = [i \in 1..1 |-> s[i]]
    BY <2>1
  <2>. HIDE DEF s
  <2>3. IsSequence(s)
    BY <2>2 DEF IsSequence
  <2>. QED
    BY <2>3 DEF s
<1>. QED
  BY <1>1, <1>2 DEF AtMostOne

\* update_reference leaves every variable with at most one value.
LEMMA ReferenceAtMostOne ==
    ASSUME NEW vs, NEW ds, NEW var, NEW o \in DOMAIN var,
           AtMostOne(ds[o]), AtMostOne(var[o])
    PROVE  AtMostOne(UpdateReference(vs, ds, var)[o])
BY DEF UpdateReference, AtMostOne

\* A call that keeps the options and gives SetState lists of that form.
LEMMA SetStateShape ==
    ASSUME NEW vs, NEW ds, NEW var, SetState(vs, ds, var),
           DOMAIN var = DOMAIN options',
           \A o \in DOMAIN options' :
              IsSequence(vs[o]) /\ AtMostOne(ds[o]) /\ AtMostOne(var[o])
    PROVE  ValuesShape'
<1>. SUFFICES ASSUME NEW o \in DOMAIN options'
              PROVE  /\ IsSequence(values'[o]) /\ AtMostOne(default'[o])
                     /\ AtMostOne(assigned'[o])
  BY DEF ValuesShape
<1>1. IsSequence(vs[o]) /\ AtMostOne(ds[o]) /\ AtMostOne(var[o]) /\ o \in DOMAIN var
  OBVIOUS
<1>2. AtMostOne(UpdateReference(vs, ds, var)[o])
  BY <1>1, ReferenceAtMostOne
<1>. QED
  BY <1>1, <1>2 DEF SetState

\* A sequence no longer than one.
LEMMA ShortSequence ==
    ASSUME NEW S, NEW s \in Seq(S), Len(s) <= 1
    PROVE  AtMostOne(s)
<1>1. Len(s) \in Nat /\ s = [j \in 1..Len(s) |-> s[j]]
  BY LenProperties
<1>2. Len(s) = 0 \/ Len(s) = 1
  BY <1>1
<1>3. CASE Len(s) = 0
  <2>1. s = <<>>
    BY <1>3, EmptySeq
  <2>. QED
    BY <2>1 DEF AtMostOne
<1>4. CASE Len(s) = 1
  <2>1. s = <<s[1]>>
    <3>1. s = [j \in 1..1 |-> s[j]]
      BY <1>1, <1>4
    <3>. QED
      BY <3>1
  <2>. QED
    BY <2>1 DEF AtMostOne
<1>. QED
  BY <1>2, <1>3, <1>4

\* The default a catalogue entry comes with.
LEMMA CatalogueDefault ==
    ASSUME NEW i \in DOMAIN Catalogue
    PROVE  AtMostOne(Catalogue[i].default)
<1>1. Catalogue[i] \in Descriptor
  BY PoplAssumption
<1>2. Catalogue[i].default \in Seq(Seq(STRING))
  BY <1>1 DEF Descriptor
<1>3. Len(Catalogue[i].default) <= 1
  BY PoplAssumption
<1>. QED
  BY <1>2, <1>3, ShortSequence

LEMMA AddValuesShape == PoplInv /\ OptionsShape /\ ValuesShape /\ Add => ValuesShape'
<1>. SUFFICES ASSUME PoplInv, OptionsShape, ValuesShape, Add PROVE ValuesShape'
  OBVIOUS
<1>. DEFINE d == Catalogue[added + 1]
<1>1. AtMostOne(d.default)
  <2>1. added + 1 \in DOMAIN Catalogue
    <3>1. Catalogue \in Seq(Descriptor) /\ Len(Catalogue) \in Nat
      BY PoplAssumption
    <3>. QED
      BY <3>1 DEF OptionsShape, Counted, Add
  <2>. QED
    BY <2>1, CatalogueDefault
<1>2. /\ IsSequence(options) /\ IsSequence(values) /\ IsSequence(default)
      /\ IsSequence(assigned)
      /\ DOMAIN values = DOMAIN options /\ DOMAIN default = DOMAIN options
      /\ DOMAIN assigned = DOMAIN options
  BY DEF PoplInv, ListsAgree
<1>. DEFINE v == <<>>
            b == IF d.bound THEN <<Uninitialised>> ELSE <<>>
            e == d.default
<1>3. \/ UNCHANGED <<options, values, default, assigned>>
      \/ /\ options' = Append(options, d)
         /\ SetState(Append(values, v), Append(default, e), Append(assigned, b))
  BY DEF Add, AddOption
<1>4. IsSequence(v) /\ AtMostOne(b) /\ AtMostOne(e)
  BY <1>1, EmptyAndOne
<1>. HIDE DEF v, b, e, d
<1>5. ASSUME NEW f, IsSequence(f), DOMAIN f = DOMAIN options, NEW x
      PROVE  /\ \A i \in DOMAIN options : Append(f, x)[i] = f[i]
             /\ Append(f, x)[Len(options) + 1] = x
             /\ DOMAIN Append(f, x) = 1..(Len(options) + 1)
  <2>1. DOMAIN f = 1..Len(f) /\ Len(f) \in Nat
    BY <1>5, AppendDomain
  <2>2. DOMAIN options = 1..Len(options) /\ Len(options) \in Nat
    BY <1>2, AppendDomain
  <2>3. Len(f) = Len(options)
    BY <1>5, <2>1, <2>2, IntervalsEqual
  <2>. QED
    BY <1>5, <2>3, AppendDomain, AppendElements
<1>6. CASE UNCHANGED <<options, values, default, assigned>>
  BY <1>6 DEF ValuesShape
<1>7. CASE /\ options' = Append(options, d)
           /\ SetState(Append(values, v), Append(default, e), Append(assigned, b))
  <2>. DEFINE c == Len(options) + 1
  <2>1. DOMAIN options' = 1..c /\ DOMAIN options = 1..Len(options) /\ Len(options) \in Nat
    BY <1>2, <1>7, AppendDomain
  <2>2. DOMAIN Append(assigned, b) = DOMAIN options'
    BY <1>2, <1>5, <2>1
  <2>3. ASSUME NEW o \in DOMAIN options'
        PROVE  /\ IsSequence(Append(values, v)[o]) /\ AtMostOne(Append(default, e)[o])
               /\ AtMostOne(Append(assigned, b)[o])
    <3>1. CASE o = c
      <4>1. /\ Append(values, v)[o] = v /\ Append(default, e)[o] = e
            /\ Append(assigned, b)[o] = b
        BY <1>2, <1>5, <3>1
      <4>. QED
        BY <1>4, <4>1
    <3>2. CASE o # c
      <4>1. o \in DOMAIN options
        BY <2>1, <3>2
      <4>2. /\ Append(values, v)[o] = values[o] /\ Append(default, e)[o] = default[o]
            /\ Append(assigned, b)[o] = assigned[o]
        BY <1>2, <1>5, <4>1
      <4>. QED
        BY <4>1, <4>2 DEF ValuesShape
    <3>. QED
      BY <3>1, <3>2
  <2>. HIDE DEF c
  <2>. QED
    BY <1>7, <2>2, <2>3, SetStateShape
<1>. QED
  BY <1>3, <1>6, <1>7

\* A set of numbers that is not empty has a least one.
LEMMA MinProperties ==
    ASSUME NEW I \in SUBSET Nat, I # {}
    PROVE  Min(I) \in I /\ \A y \in I : Min(I) <= y
<1>1. \E x \in I : \A y \in I : ~(<<y, x>> \in OpToRel(<, Nat))
  BY NatLessThanWellFounded, WFMin
<1>2. PICK x \in I : \A y \in I : ~(<<y, x>> \in OpToRel(<, Nat))
  BY <1>1
<1>3. \A y \in I : x <= y
  <2>. SUFFICES ASSUME NEW y \in I, ~(x <= y) PROVE FALSE
    OBVIOUS
  <2>1. y < x /\ y \in Nat /\ x \in Nat
    OBVIOUS
  <2>2. <<y, x>> \in OpToRel(<, Nat)
    BY <2>1 DEF OpToRel
  <2>. QED
    BY <1>2, <2>2
<1>. QED
  BY <1>3 DEF Min

\* A subsequence of anything is a sequence.
LEMMA SubSeqIsSequence ==
    ASSUME NEW s, NEW m \in Int, NEW n \in Int
    PROVE  IsSequence(SubSeq(s, m, n))
<1>. DEFINE S == {s[i] : i \in m..n}
<1>1. \A i \in m..n : s[i] \in S
  OBVIOUS
<1>. HIDE DEF S
<1>2. SubSeq(s, m, n) \in Seq(S)
  BY <1>1, SubSeqProperties
<1>. DEFINE t == SubSeq(s, m, n)
<1>. HIDE DEF t
<1>3. t \in Seq(S)
  BY <1>2 DEF t
<1>4. IsSequence(t)
  BY ONLY <1>3, SeqIsSequence
<1>. QED
  BY <1>4 DEF t

\* The parse calls made leave every option a sequence of values.
LEMMA MadeIsSequence ==
    ASSUME ValuesShape, NEW cs, NEW made, IsFiniteSet(made), NEW o \in DOMAIN options
    PROVE  IsSequence(AddValues(cs, made)[o])
<1>. DEFINE mine == {p \in made : cs[p].option = o}
            new == [k \in 1..Cardinality(mine) |-> Parsed(cs[InOrder(mine)[k]]).value]
<1>1. AddValues(cs, made)[o] = values[o] \o new
  BY DEF AddValues, OptionIds
<1>2. Cardinality(mine) \in Nat
  <2>1. mine \in SUBSET made
    OBVIOUS
  <2>. HIDE DEF mine
  <2>. QED
    BY <2>1, FS_Subset, FS_CardinalityType
<1>3. IsSequence(new)
  <2>1. new = [k \in 1..Cardinality(mine) |-> new[k]]
    OBVIOUS
  <2>. HIDE DEF new, mine
  <2>. QED
    BY <1>2, <2>1 DEF IsSequence
<1>. HIDE DEF new, mine
<1>4. IsSequence(values[o])
  BY DEF ValuesShape
<1>5. IsSequence(values[o] \o new)
  BY <1>3, <1>4, ConcatIsSequence
<1>. QED
  BY <1>1, <1>5

\* Every step that parses a word or a line.
LEMMA ApplyValuesShape ==
    ASSUME PoplInv, ValuesShape, NEW e, NEW taken, Apply(e, taken),
           IsFiniteSet(DOMAIN e.calls)
    PROVE  ValuesShape'
<1>. DEFINE failing == {p \in DOMAIN e.calls : Parsed(e.calls[p]).error # "none"}
            made == {p \in DOMAIN e.calls : \A q \in failing : Before(p, q)}
            vs == AddValues(e.calls, made)
<1>1. SetState(vs, default, assigned) /\ options' = options
  BY DEF Apply
<1>2. IsFiniteSet(made)
  <2>1. made \in SUBSET DOMAIN e.calls
    OBVIOUS
  <2>. HIDE DEF made
  <2>. QED
    BY <2>1, FS_Subset
<1>. HIDE DEF made
<1>3. \A o \in DOMAIN options : IsSequence(vs[o])
  BY <1>2, MadeIsSequence
<1>. HIDE DEF vs
<1>4. DOMAIN assigned = DOMAIN options'
  BY <1>1 DEF PoplInv, ListsAgree
<1>5. \A o \in DOMAIN options' :
         IsSequence(vs[o]) /\ AtMostOne(default[o]) /\ AtMostOne(assigned[o])
  BY <1>1, <1>3 DEF ValuesShape
<1>. QED
  BY <1>1, <1>4, <1>5, SetStateShape

-----------------------------------------------------------------------------

\* Places of the words and tokens up to some numbers are finitely many.
LEMMA PlacesFinite ==
    ASSUME NEW n, NEW m \in Int, NEW S, S \subseteq {n} \X (1..m)
    PROVE  IsFiniteSet(S)
<1>1. IsFiniteSet({n}) /\ IsFiniteSet(1..m)
  BY FS_Singleton, FS_Interval
<1>2. IsFiniteSet({n} \X (1..m))
  BY <1>1, FS_Product
<1>. QED
  BY <1>2, FS_Subset

\* What the parsers make of one word: finitely many parse calls, and the next
\* word only where there is one.
GoodEffect(e, args, n) == IsFiniteSet(DOMAIN e.calls) /\ (e.next => n < Len(args))

LEMMA EffectParts ==
    ASSUME NEW cs, NEW next, NEW u, NEW o
    PROVE  /\ Effect(cs, next, u, o).calls = cs /\ (Effect(cs, next, u, o).next = next)
           /\ Effect(cs, next, u, o).unknown = u /\ Effect(cs, next, u, o).nonOption = o
BY DEF Effect

LEMMA FewCalls ==
    /\ DOMAIN NoCalls = {} /\ IsFiniteSet(DOMAIN NoCalls)
    /\ \A n, o, t : DOMAIN OneCall(n, o, t) = {<<n, 1>>} /\ IsFiniteSet(DOMAIN OneCall(n, o, t))
<1>1. DOMAIN NoCalls = {}
  BY DEF NoCalls
<1>2. ASSUME NEW n, NEW o, NEW t PROVE DOMAIN OneCall(n, o, t) = {<<n, 1>>}
  BY DEF OneCall
<1>3. IsFiniteSet({}) /\ \A n : IsFiniteSet({<<n, 1>>})
  BY FS_EmptySet, FS_Singleton
<1>. QED
  BY <1>1, <1>2, <1>3

LEMMA DashesGood == ASSUME NEW args, NEW n PROVE GoodEffect(DashesEffect(args, n), args, n)
BY FewCalls DEF GoodEffect, DashesEffect, Effect

LEMMA PlainGood == ASSUME NEW args, NEW n PROVE GoodEffect(PlainEffect(args, n), args, n)
BY FewCalls DEF GoodEffect, PlainEffect, Effect

LEMMA LongGood ==
    ASSUME NEW args, NEW n
    PROVE  GoodEffect(LongEffect(options, args, n), args, n)
<1>. DEFINE e == LongEffect(options, args, n)
            word == args[n]
            equalIdx == SelectInSubSeq(word, 3, Len(word), LAMBDA c : c = Equal)
            name == SubSeq(word, 3, IF equalIdx = 0 THEN Len(word) ELSE equalIdx - 1)
            optarg == IF equalIdx = 0 THEN <<>> ELSE SubSeq(word, equalIdx + 1, Len(word))
            found == IfActive(options, FindLong(options, name))
            o == IF found # 0 /\ ArgumentType(options[found]) = "no" /\ optarg # <<>>
                 THEN 0 ELSE found
            next == /\ o # 0 /\ ArgumentType(options[o]) = "required"
                    /\ optarg = <<>> /\ n < Len(args)
            cs == IF o = 0 THEN NoCalls
                  ELSE OneCall(n, o, IF next THEN args[n + 1] ELSE optarg)
            u == IF o = 0 THEN <<word>> ELSE <<>>
<1>1. e = Effect(cs, next, u, <<>>)
  BY DEF LongEffect
<1>2. next => n < Len(args)
  OBVIOUS
<1>3. IsFiniteSet(DOMAIN cs)
  <2>. HIDE DEF o, next, optarg
  <2>. QED
    BY FewCalls
<1>. HIDE DEF e, cs, next, u
<1>4. GoodEffect(e, args, n)
  BY <1>1, <1>2, <1>3, EffectParts DEF GoodEffect
<1>. QED
  BY <1>4 DEF e

\* The letters of a short word: one parse call for each known one, and the next
\* word for the last of them.
LEMMA ShortGood ==
    ASSUME NEW args, NEW n, Len(args[n]) \in Nat
    PROVE  GoodEffect(ShortEffect(options, args, n), args, n)
<1>. DEFINE e == ShortEffect(options, args, n)
            word == args[n]
            o(c) == IfActive(options, FindShort(options, c))
            takes(c) == o(c) # 0 /\ ArgumentType(options[o(c)]) # "no"
            stop == SelectInSubSeq(word, 2, Len(word), takes)
            read == 2..(IF stop = 0 THEN Len(word) ELSE stop)
            known == {<<n, m>> : m \in {k \in read : o(word[k]) # 0}}
            rest == SubSeq(word, stop + 1, Len(word))
            next == /\ stop # 0 /\ ArgumentType(options[o(word[stop])]) = "required"
                    /\ rest = <<>> /\ n < Len(args)
            optarg(m) == IF m # stop THEN <<>> ELSE IF next THEN args[n + 1] ELSE rest
            cs == [p \in known |-> Call(o(word[p[2]]), optarg(p[2]))]
            u == IF \E m \in read : o(word[m]) = 0 THEN <<word>> ELSE <<>>
<1>1. e = Effect(cs, next, u, <<>>)
  BY DEF ShortEffect
<1>2. next => n < Len(args)
  OBVIOUS
<1>3. stop = 0 \/ stop \in 2..Len(word)
  <2>. DEFINE I == {m \in 2..Len(word) : takes(word[m])}
  <2>1. stop = IF I # {} THEN Min(I) ELSE 0
    BY DEF SelectInSubSeq
  <2>2. I \in SUBSET Nat /\ I \subseteq 2..Len(word)
    OBVIOUS
  <2>. HIDE DEF I, stop
  <2>3. I # {} => Min(I) \in I
    BY <2>2, MinProperties
  <2>. QED
    BY <2>1, <2>2, <2>3
<1>4. IsFiniteSet(DOMAIN cs)
  <2>1. read \subseteq 1..Len(word)
    <3>. HIDE DEF stop
    <3>. QED
      BY <1>3
  <2>. HIDE DEF read, o
  <2>2. known \subseteq {n} \X (1..Len(word))
    BY <2>1
  <2>3. DOMAIN cs = known
    OBVIOUS
  <2>. HIDE DEF known, cs
  <2>. QED
    <3>1. Len(word) \in Int
      OBVIOUS
    <3>. HIDE DEF word
    <3>2. IsFiniteSet(known)
      BY <2>2, <3>1, PlacesFinite
    <3>. QED
      BY <2>3, <3>2
<1>. HIDE DEF e, cs, next, u
<1>5. GoodEffect(e, args, n)
  BY <1>1, <1>2, <1>4, EffectParts DEF GoodEffect
<1>. QED
  BY <1>5 DEF e

-----------------------------------------------------------------------------

\* The parse under way stands at a word or just behind the last one.
CallShape ==
    /\ DOMAIN call = {"phase", "source", "args", "n", "section", "error"}
    /\ call.phase \in {"idle", "parsing", "returned", "threw"}
    /\ call.args \in Seq(Seq(Token))
    /\ call.n \in 1..(Len(call.args) + 1)

LEMMA IdleShape == ASSUME NEW error, CallDone(error) PROVE CallShape'
<1>1. call' = [phase |-> "idle", source |-> "none", args |-> <<>>, n |-> 1,
               section |-> <<>>, error |-> error]
  BY DEF CallDone, Idle
<1>2. <<>> \in Seq(Seq(Token)) /\ Len(<<>>) = 0
  BY EmptySeq
<1>. QED
  BY <1>1, <1>2 DEF CallShape

LEMMA BeginShape ==
    ASSUME NEW source, NEW args \in Seq(Seq(Token)), Begin(source, args)
    PROVE  CallShape'
<1>1. call' = [phase |-> "parsing", source |-> source, args |-> args, n |-> 1,
               section |-> <<>>, error |-> "none"]
  BY DEF Begin, Idle
<1>2. Len(args) \in Nat
  OBVIOUS
<1>. QED
  BY <1>1, <1>2 DEF CallShape

LEMMA ApplyCallShape ==
    ASSUME CallShape, NEW e, NEW taken \in Nat, Apply(e, taken),
           call.n + taken <= Len(call.args) + 1
    PROVE  CallShape'
<1>1. \/ call' = [call EXCEPT !.n = @ + taken]
      \/ \E x : call' = [call EXCEPT !.phase = "threw", !.error = x]
  BY DEF Apply
<1>2. Len(call.args) \in Nat
  BY DEF CallShape
<1>3. CASE call' = [call EXCEPT !.n = @ + taken]
  <2>1. /\ DOMAIN call' = DOMAIN call /\ call'.phase = call.phase
        /\ call'.args = call.args /\ call'.n = call.n + taken
    BY <1>3 DEF CallShape
  <2>2. call'.n \in 1..(Len(call.args) + 1)
    BY <1>2, <2>1 DEF CallShape
  <2>. QED
    BY <2>1, <2>2 DEF CallShape
<1>4. ASSUME NEW x, call' = [call EXCEPT !.phase = "threw", !.error = x]
      PROVE  CallShape'
  BY <1>4 DEF CallShape
<1>. QED
  BY <1>1, <1>3, <1>4

LEMMA ParseWordShape ==
    ASSUME CallShape, call.n <= Len(call.args), NEW e, ParseWord(e),
           GoodEffect(e, call.args, call.n)
    PROVE  CallShape'
<1>1. /\ WordsTaken(e) \in Nat
      /\ call.n + WordsTaken(e) <= Len(call.args) + 1
  <2>1. Len(call.args) \in Nat /\ call.n \in Nat
    BY DEF CallShape
  <2>2. CASE e.next
    BY <2>1, <2>2 DEF GoodEffect, WordsTaken
  <2>3. CASE ~e.next
    BY <2>1, <2>3 DEF WordsTaken
  <2>. QED
    BY <2>2, <2>3
<1>. QED
  BY <1>1, ApplyCallShape DEF ParseWord

Shape == OptionsShape /\ ValuesShape /\ CallShape

LEMMA WordShape ==
    ASSUME PoplInv, Shape, ParseDashes \/ ParseLong \/ ParseShort \/ ParsePlain
    PROVE  ValuesShape' /\ CallShape'
<1>1. call.n <= Len(call.args)
  BY DEF ParseDashes, ParseLong, ParseShort, ParsePlain, AtWord
<1>2. \E e : ParseWord(e) /\ GoodEffect(e, call.args, call.n)
  <2>1. CASE ParseDashes
    BY <2>1, DashesGood DEF ParseDashes
  <2>2. CASE ParseLong
    BY <2>2, LongGood DEF ParseLong
  <2>3. CASE ParseShort
    <3>1. Word \in Seq(Token)
      BY <1>1 DEF Word, Shape, CallShape
    <3>2. Len(Word) \in Nat
      BY <3>1
    <3>. QED
      BY <2>3, <3>2, ShortGood DEF ParseShort, Word
  <2>4. CASE ParsePlain
    BY <2>4, PlainGood DEF ParsePlain
  <2>. QED
    BY <2>1, <2>2, <2>3, <2>4
<1>3. PICK e : ParseWord(e) /\ GoodEffect(e, call.args, call.n)
  BY <1>2
<1>4. CallShape'
  BY <1>1, <1>3, ParseWordShape DEF Shape
<1>5. ValuesShape'
  BY <1>3, ApplyValuesShape DEF ParseWord, GoodEffect, Shape
<1>. QED
  BY <1>4, <1>5

LEMMA LineShape ==
    ASSUME PoplInv, Shape, EntryLine \/ SkipLine \/ SectionLine \/ EndFile \/ EndCommand
    PROVE  ValuesShape' /\ CallShape'
<1>1. Len(call.args) \in Nat /\ call.n \in Nat /\ call.n >= 1
  BY DEF Shape, CallShape
<1>2. CASE EntryLine
  <2>1. \E e : Apply(e, 1) /\ IsFiniteSet(DOMAIN e.calls)
    <3>1. \A u : IsFiniteSet(DOMAIN Effect(NoCalls, FALSE, u, <<>>).calls)
      BY FewCalls DEF Effect
    <3>2. \A n, o, t : IsFiniteSet(DOMAIN Effect(OneCall(n, o, t), FALSE, <<>>, <<>>).calls)
      BY FewCalls DEF Effect
    <3>. QED
      BY <1>2, <3>1, <3>2 DEF EntryLine
  <2>2. call.n <= Len(call.args)
    BY <1>2 DEF EntryLine, AtWord
  <2>3. PICK e : Apply(e, 1) /\ IsFiniteSet(DOMAIN e.calls)
    BY <2>1
  <2>4. 1 \in Nat /\ call.n + 1 <= Len(call.args) + 1
    BY <1>1, <2>2
  <2>5. CallShape'
    BY <2>3, <2>4, ApplyCallShape DEF Shape
  <2>. QED
    BY <2>3, <2>5, ApplyValuesShape DEF Shape
<1>3. CASE SkipLine \/ SectionLine \/ EndFile \/ EndCommand
  <2>1. UNCHANGED <<options, values, default, assigned>>
    BY <1>3 DEF SkipLine, SectionLine, EndFile, EndCommand
  <2>2. CallShape'
    <3>1. CASE SkipLine \/ SectionLine
      <4>1. call.n <= Len(call.args)
        BY <3>1 DEF SkipLine, SectionLine, AtWord
      <4>2. /\ DOMAIN call' = DOMAIN call /\ call'.phase = call.phase
            /\ call'.args = call.args /\ call'.n = call.n + 1
        BY <3>1 DEF SkipLine, SectionLine, Shape, CallShape
      <4>3. call'.n \in 1..(Len(call.args) + 1)
        BY <1>1, <4>1, <4>2
      <4>. QED
        BY <4>2, <4>3 DEF Shape, CallShape
    <3>2. CASE EndFile
      BY <3>2 DEF EndFile, Shape, CallShape
    <3>3. CASE EndCommand
      <4>1. \E p \in {"threw", "returned"} : \E x :
               call' = [call EXCEPT !.phase = p, !.error = x]
        BY <3>3 DEF EndCommand
      <4>. QED
        BY <4>1 DEF Shape, CallShape
    <3>. QED
      BY <1>3, <3>1, <3>2, <3>3
  <2>. QED
    BY <2>1, <2>2 DEF Shape, ValuesShape
<1>. QED
  BY <1>2, <1>3

LEMMA ProgramShape ==
    ASSUME PoplInv, Shape, ProgramCall
    PROVE  ValuesShape' /\ CallShape'
<1>1. /\ DOMAIN assigned = DOMAIN options /\ DOMAIN values = DOMAIN options
      /\ DOMAIN default = DOMAIN options
  BY DEF PoplInv, ListsAgree
<1>2. \A o \in DOMAIN options :
         IsSequence(values[o]) /\ AtMostOne(default[o]) /\ AtMostOne(assigned[o])
  BY DEF Shape, ValuesShape
<1>3. CASE Add
  <2>1. ValuesShape'
    BY <1>3, AddValuesShape DEF Shape
  <2>2. \E error : CallDone(error)
    BY <1>3 DEF Add, AddOption
  <2>. QED
    BY <2>1, <2>2, IdleShape
<1>4. CASE Reset
  <2>. DEFINE vs == [o \in OptionIds |-> <<>>]
  <2>1. SetState(vs, default, assigned) /\ options' = options /\ CallDone("none")
    BY <1>4 DEF Reset
  <2>2. \A o \in DOMAIN options : IsSequence(vs[o])
    BY EmptyAndOne DEF OptionIds
  <2>. HIDE DEF vs
  <2>3. ValuesShape'
    BY <1>1, <1>2, <2>1, <2>2, SetStateShape
  <2>. QED
    BY <2>1, <2>3, IdleShape
<1>5. ASSUME NEW o \in OptionIds, AssignTo(o) PROVE ValuesShape' /\ CallShape'
  <2>. DEFINE var == [assigned EXCEPT ![o] = IF @ = <<>> THEN <<Uninitialised>> ELSE @]
  <2>1. SetState(values, default, var) /\ options' = options /\ CallDone("none")
    BY <1>5 DEF AssignTo
  <2>2. DOMAIN var = DOMAIN options
    BY <1>1
  <2>3. \A i \in DOMAIN options : AtMostOne(var[i])
    BY <1>1, <1>2, EmptyAndOne
  <2>. HIDE DEF var
  <2>4. ValuesShape'
    BY <1>1, <1>2, <2>1, <2>2, <2>3, SetStateShape
  <2>. QED
    BY <2>1, <2>4, IdleShape
<1>6. ASSUME NEW o \in OptionIds, NEW t, SetDefault(o, t) PROVE ValuesShape' /\ CallShape'
  <2>. DEFINE ds == [default EXCEPT ![o] = <<t>>]
  <2>1. SetState(values, ds, assigned) /\ options' = options /\ CallDone("none")
    BY <1>6 DEF SetDefault
  <2>2. \A i \in DOMAIN options : AtMostOne(ds[i])
    BY <1>1, <1>2, EmptyAndOne
  <2>. HIDE DEF ds
  <2>3. ValuesShape'
    BY <1>1, <1>2, <2>1, <2>2, SetStateShape
  <2>. QED
    BY <2>1, <2>3, IdleShape
<1>7. ASSUME NEW o \in OptionIds, NEW t, SetValue(o, t) PROVE ValuesShape' /\ CallShape'
  <2>. DEFINE vs == [values EXCEPT ![o] = <<t>>]
  <2>1. SetState(vs, default, assigned) /\ options' = options /\ CallDone("none")
    BY <1>7 DEF SetValue
  <2>2. \A i \in DOMAIN options : IsSequence(vs[i])
    BY <1>1, <1>2, EmptyAndOne
  <2>. HIDE DEF vs
  <2>3. ValuesShape'
    BY <1>1, <1>2, <2>1, <2>2, SetStateShape
  <2>. QED
    BY <2>1, <2>3, IdleShape
<1>8. ASSUME NEW o \in OptionIds, NEW a \in Attribute, SetAttribute(o, a)
      PROVE  ValuesShape' /\ CallShape'
  <2>1. DOMAIN options' = DOMAIN options /\ UNCHANGED <<values, default, assigned>>
        /\ CallDone("none")
    BY <1>8 DEF SetAttribute
  <2>2. ValuesShape'
    BY <1>2, <2>1 DEF ValuesShape
  <2>. QED
    BY <2>1, <2>2, IdleShape
<1>9. ASSUME NEW source, NEW args \in Commands \cup IniFiles, Begin(source, args)
      PROVE  ValuesShape' /\ CallShape'
  <2>1. UNCHANGED <<options, values, default, assigned>>
    BY <1>9 DEF Begin
  <2>2. ValuesShape'
    BY <1>2, <2>1 DEF ValuesShape
  <2>3. args \in Seq(Seq(Token))
    BY PoplAssumption
  <2>. QED
    BY <1>9, <2>2, <2>3, BeginShape
<1>. QED
  BY <1>3, <1>4, <1>5, <1>6, <1>7, <1>8, <1>9 DEF ProgramCall, ParseCommand, ParseFile

LEMMA ShapeInit == Init => PoplInv /\ Shape
<1>. SUFFICES ASSUME Init PROVE PoplInv /\ Shape
  OBVIOUS
<1>1. IsSequence(<<>>) /\ DOMAIN <<>> = {} /\ Len(<<>>) = 0
  BY EmptyAndOne
<1>2. PoplInv
  BY <1>1 DEF Init, PoplInv, ListsAgree, VariableFollows, OptionIds
<1>3. OptionsShape
  <2>1. Len(Catalogue) \in Nat /\ MaxCalls \in Nat
    BY PoplAssumption
  <2>. QED
    BY <1>1, <2>1 DEF Init, OptionsShape, NamesApart, FromCatalogue, Counted
<1>4. ValuesShape
  BY <1>1 DEF Init, ValuesShape
<1>5. CallShape
  <2>1. <<>> \in Seq(Seq(Token))
    BY EmptySeq
  <2>. QED
    BY <1>1, <2>1 DEF Init, Idle, CallShape
<1>. QED
  BY <1>2, <1>3, <1>4, <1>5 DEF Shape

LEMMA ShapeKept == PoplInv /\ Shape /\ [Next]_vars => Shape'
<1>. SUFFICES ASSUME PoplInv, Shape, [Next]_vars PROVE Shape'
  OBVIOUS
<1>1. OptionsShape'
  BY OptionsShapeKept DEF Shape
<1>2. ValuesShape' /\ CallShape'
  <2>1. CASE ProgramCall
    BY <2>1, ProgramShape
  <2>2. CASE ParseDashes \/ ParseLong \/ ParseShort \/ ParsePlain
    BY <2>2, WordShape
  <2>3. CASE EntryLine \/ SkipLine \/ SectionLine \/ EndFile \/ EndCommand
    BY <2>3, LineShape
  <2>4. CASE UNCHANGED vars
    BY <2>4 DEF vars, Shape, ValuesShape, CallShape
  <2>. QED
    BY <2>1, <2>2, <2>3, <2>4 DEF Next, ParseStep
<1>. QED
  BY <1>1, <1>2 DEF Shape

\* The lists stay in step with the options, whatever is added, refused, set, or
\* parsed, a default and a variable are at most one value, and a parse stands at
\* a word of its command line or just behind the last.
THEOREM OptionsTyped == Spec => []PoplTypeOK
<1>1. PoplInv /\ Shape => PoplTypeOK
  <2>. SUFFICES ASSUME PoplInv, Shape PROVE PoplTypeOK
    OBVIOUS
  <2>1. DOMAIN options = 1..Len(options)
    BY AppendDomain DEF PoplInv, ListsAgree
  <2>2. \A f \in {values, default, assigned} : DOMAIN f = OptionIds
    BY DEF PoplInv, ListsAgree, OptionIds
  <2>3. \A o \in OptionIds : Len(default[o]) <= 1 /\ Len(assigned[o]) <= 1
    BY AtMostOneLen DEF Shape, ValuesShape, OptionIds
  <2>. QED
    BY <2>1, <2>2, <2>3 DEF PoplTypeOK, Shape, OptionsShape, Counted, CallShape
<1>. QED
  BY ShapeInit, ShapeKept, <1>1, InvKept, PTL DEF Spec


\* What a program reads of an option agrees however it reads it: value() and
\* value_or() with each other, and with the bound variable while the option has
\* no more than one value.
THEOREM ReadingsAgree == Spec => []AccessorsAgree
<1>1. PoplInv /\ Shape => AccessorsAgree
  <2>. SUFFICES ASSUME PoplInv, Shape, NEW o \in OptionIds
                PROVE  /\ \A idx \in 0..Len(values[o]) :
                             Value(o, idx) # Throws =>
                                 ValueOr(o, Uninitialised, idx) = Value(o, idx)
                       /\ Len(values[o]) <= 1 /\ assigned[o] # <<>> /\ Value(o, 0) # Throws =>
                             assigned[o] = Value(o, 0)
    BY DEF AccessorsAgree
  <2>1. Len(values[o]) \in Nat /\ (values[o] # <<>> => Len(values[o]) >= 1)
    <3>1. IsSequence(values[o])
      BY DEF Shape, ValuesShape, OptionIds
    <3>. QED
      BY <3>1, SequenceLength
  <2>2. Len(<<>>) = 0
    BY EmptySeq
  <2>3. ASSUME NEW idx \in 0..Len(values[o]), Value(o, idx) # Throws
        PROVE  ValueOr(o, Uninitialised, idx) = Value(o, idx)
    <3>1. CASE values[o] = <<>>
      <4>1. ~(idx < Len(values[o]))
        BY <2>2, <3>1
      <4>. QED
        BY <2>3, <3>1, <4>1 DEF Value, ValueOr, Throws
    <3>2. CASE values[o] # <<>>
      BY <2>3, <3>2 DEF Value, ValueOr, Throws
    <3>. QED
      BY <3>1, <3>2
  <2>4. ASSUME Len(values[o]) <= 1, assigned[o] # <<>>, Value(o, 0) # Throws
        PROVE  assigned[o] = Value(o, 0)
    <3>1. /\ values[o] # <<>> => assigned[o] = <<Last(values[o])>>
          /\ values[o] = <<>> /\ default[o] # <<>> => assigned[o] = default[o]
      BY <2>4 DEF PoplInv, VariableFollows
    <3>2. CASE values[o] = <<>>
      <4>1. ~(0 < Len(values[o]))
        BY <2>2, <3>2
      <4>. QED
        BY <2>4, <3>1, <3>2, <4>1 DEF Value, Throws
    <3>3. CASE values[o] # <<>>
      <4>1. Len(values[o]) = 1
        <5>. DEFINE k == Len(values[o])
        <5>1. k \in Nat /\ k >= 1 /\ k <= 1
          BY <2>1, <2>4, <3>3
        <5>. HIDE DEF k
        <5>2. k = 1
          BY <5>1
        <5>. QED
          BY <5>2 DEF k
      <4>2. Last(values[o]) = values[o][1]
        BY <4>1 DEF Last
      <4>3. Value(o, 0) = <<values[o][1]>>
        BY <3>3, <4>1 DEF Value
      <4>. QED
        BY <3>1, <3>3, <4>2, <4>3
    <3>. QED
      BY <3>2, <3>3
  <2>. QED
    BY <2>3, <2>4
<1>. QED
  BY ShapeInit, ShapeKept, <1>1, InvKept, PTL DEF Spec

-----------------------------------------------------------------------------

\* A name that a registered option has is found at that option and no other.
LEMMA FoundByLong ==
    ASSUME PoplInv, NamesApart, NEW o \in DOMAIN options, options[o].long # <<>>
    PROVE  FindLong(options, options[o].long) = o
<1>. DEFINE I == {i \in 1..Len(options) : options[i].long = options[o].long}
<1>1. FindLong(options, options[o].long) = IF I # {} THEN Min(I) ELSE 0
  BY DEF FindLong, SelectInSeq
<1>2. DOMAIN options = 1..Len(options) /\ Len(options) \in Nat
  BY AppendDomain DEF PoplInv, ListsAgree
<1>3. I = {o}
  BY <1>2 DEF NamesApart, Clash
<1>4. {o} \in SUBSET Nat /\ {o} # {}
  BY <1>2
<1>. HIDE DEF I
<1>5. Min({o}) \in {o}
  BY <1>4, MinProperties
<1>. QED
  BY <1>1, <1>3, <1>5

LEMMA FoundByShort ==
    ASSUME PoplInv, NamesApart, NEW o \in DOMAIN options, options[o].short # NoName
    PROVE  FindShort(options, options[o].short) = o
<1>. DEFINE I == {i \in 1..Len(options) : options[i].short = options[o].short}
<1>1. FindShort(options, options[o].short) = IF I # {} THEN Min(I) ELSE 0
  BY DEF FindShort, SelectInSeq
<1>2. DOMAIN options = 1..Len(options) /\ Len(options) \in Nat
  BY AppendDomain DEF PoplInv, ListsAgree
<1>3. I = {o}
  BY <1>2 DEF NamesApart, Clash
<1>4. {o} \in SUBSET Nat /\ {o} # {}
  BY <1>2
<1>. HIDE DEF I
<1>5. Min({o}) \in {o}
  BY <1>4, MinProperties
<1>. QED
  BY <1>1, <1>3, <1>5

\* An option that is shown is one the parsers take.
LEMMA ShownIsActive ==
    ASSUME PoplInv, NEW o \in Shown(options, Expert)
    PROVE  o \in DOMAIN options /\ IfActive(options, o) = o
<1>1. o \in DOMAIN options /\ options[o].attribute > Hidden
  BY DEF Shown
<1>2. options[o].attribute # Inactive
  BY <1>1 DEF Hidden, Inactive
<1>3. o # 0
  <2>1. DOMAIN options = 1..Len(options) /\ Len(options) \in Nat
    BY AppendDomain DEF PoplInv, ListsAgree
  <2>. QED
    BY <1>1, <2>1
<1>. QED
  BY <1>1, <1>2, <1>3 DEF IfActive

\* The words bash completes: -c is no long word unless the letter is a dash, and
\* --name is one, of that name.
LEMMA ShortWord ==
    ASSUME NEW S, NEW a \in S, NEW c \in S, c # a
    PROVE  ~IsPrefix(<<a, a>>, <<a, c>>) /\ <<a, c>>[2] = c
<1>. DEFINE s == <<a, a>>
            t == <<a, c>>
<1>1. Len(s) = 2 /\ Len(t) = 2 /\ s[2] = a /\ t[2] = c /\ s[1] \in S /\ t[1] \in S
  OBVIOUS
<1>2. s[2] \in S /\ t[2] \in S
  OBVIOUS
<1>. HIDE DEF s, t
<1>3. SubSeq(s, 1, 2)[2] = a
  <2>1. \A i \in 1..2 : s[i] \in S
    BY <1>1, <1>2
  <2>2. \A i \in 1..(2 - 1 + 1) : SubSeq(s, 1, 2)[i] = s[1 + i - 1]
    BY <2>1, SubSeqProperties
  <2>3. SubSeq(s, 1, 2)[2] = s[1 + 2 - 1]
    BY <2>2
  <2>. QED
    BY <1>1, <2>3
<1>4. SubSeq(t, 1, 2)[2] = c
  <2>1. \A i \in 1..2 : t[i] \in S
    BY <1>1, <1>2
  <2>2. \A i \in 1..(2 - 1 + 1) : SubSeq(t, 1, 2)[i] = t[1 + i - 1]
    BY <2>1, SubSeqProperties
  <2>3. SubSeq(t, 1, 2)[2] = t[1 + 2 - 1]
    BY <2>2
  <2>. QED
    BY <1>1, <2>3
<1>5. ~IsPrefix(s, t)
  BY <1>1, <1>3, <1>4 DEF IsPrefix
<1>. QED
  BY <1>1, <1>5 DEF s, t

LEMMA LongWord ==
    ASSUME NEW S, NEW a \in S, NEW name \in Seq(S), NEW word, word = <<a, a>> \o name
    PROVE  IsPrefix(<<a, a>>, word) /\ SubSeq(word, 3, Len(word)) = name
<1>. DEFINE s == <<a, a>>
<1>1. s \in Seq(S) /\ Len(s) = 2
  OBVIOUS
<1>. HIDE DEF s
<1>2. word = s \o name
  BY DEF s
<1>3. /\ word \in Seq(S) /\ Len(word) = 2 + Len(name)
      /\ \A i \in 1..Len(s) : word[i] = s[i]
      /\ \A i \in 1..Len(name) : word[2 + i] = name[i]
  <2>1. /\ s \o name \in Seq(S)
        /\ Len(s \o name) = Len(s) + Len(name)
        /\ \A i \in 1..(Len(s) + Len(name)) :
              (s \o name)[i] = IF i <= Len(s) THEN s[i] ELSE name[i - Len(s)]
    BY <1>1, ConcatProperties
  <2>2. Len(name) \in Nat
    OBVIOUS
  <2>3. ASSUME NEW i \in 1..Len(s) PROVE word[i] = s[i]
    <3>1. i \in 1..(Len(s) + Len(name)) /\ i <= Len(s)
      BY <1>1, <2>2
    <3>. QED
      BY <1>2, <2>1, <3>1
  <2>4. ASSUME NEW i \in 1..Len(name) PROVE word[2 + i] = name[i]
    <3>1. 2 + i \in 1..(Len(s) + Len(name)) /\ ~(2 + i <= Len(s)) /\ (2 + i) - Len(s) = i
      BY <1>1, <2>2
    <3>. QED
      BY <1>2, <2>1, <3>1
  <2>. QED
    BY <1>1, <1>2, <2>1, <2>3, <2>4
<1>4. Len(name) \in Nat
  OBVIOUS
<1>5. IsPrefix(s, word)
  <2>1. /\ SubSeq(s, 1, 2) \in Seq(S) /\ Len(SubSeq(s, 1, 2)) = 2
        /\ \A i \in 1..2 : SubSeq(s, 1, 2)[i] = s[i]
    <3>1. \A i \in 1..2 : s[i] \in S
      <4>1. s[1] \in S /\ s[2] \in S
        BY DEF s
      <4>. QED
        BY <4>1
    <3>2. /\ SubSeq(s, 1, 2) \in Seq(S)
          /\ Len(SubSeq(s, 1, 2)) = IF 1 <= 2 THEN 2 - 1 + 1 ELSE 0
          /\ \A i \in 1..(2 - 1 + 1) : SubSeq(s, 1, 2)[i] = s[1 + i - 1]
      BY <3>1, SubSeqProperties
    <3>. QED
      BY <3>2
  <2>2. /\ SubSeq(word, 1, 2) \in Seq(S) /\ Len(SubSeq(word, 1, 2)) = 2
        /\ \A i \in 1..2 : SubSeq(word, 1, 2)[i] = word[i]
    <3>1. \A i \in 1..2 : word[i] \in S
      BY <1>1, <1>3
    <3>2. /\ SubSeq(word, 1, 2) \in Seq(S)
          /\ Len(SubSeq(word, 1, 2)) = IF 1 <= 2 THEN 2 - 1 + 1 ELSE 0
          /\ \A i \in 1..(2 - 1 + 1) : SubSeq(word, 1, 2)[i] = word[1 + i - 1]
      BY <3>1, SubSeqProperties
    <3>. QED
      BY <3>2
  <2>3. SubSeq(s, 1, 2) = SubSeq(word, 1, 2)
    BY <1>1, <1>3, <2>1, <2>2, SeqEqual
  <2>. QED
    BY <1>1, <1>3, <1>4, <2>3 DEF IsPrefix
<1>6. SubSeq(word, 3, Len(word)) = name
  <2>. DEFINE r == SubSeq(word, 3, Len(word))
  <2>1. \A i \in 3..Len(word) : word[i] \in S
    BY <1>3, <1>4
  <2>2. /\ r \in Seq(S)
        /\ Len(r) = IF 3 <= Len(word) THEN Len(word) - 3 + 1 ELSE 0
        /\ \A i \in 1..(Len(word) - 3 + 1) : r[i] = word[3 + i - 1]
    <3>1. 3 \in Int /\ Len(word) \in Int
      BY <1>3, <1>4
    <3>. QED
      BY <2>1, <3>1, SubSeqProperties
  <2>. HIDE DEF r
  <2>3. Len(r) = Len(name)
    BY <1>3, <1>4, <2>2
  <2>4. ASSUME NEW i \in 1..Len(r) PROVE r[i] = name[i]
    <3>1. i \in 1..(Len(word) - 3 + 1) /\ 3 + i - 1 = 2 + i /\ i \in 1..Len(name)
      BY <1>3, <1>4, <2>3
    <3>. QED
      BY <1>3, <2>2, <3>1
  <2>5. r = name
    BY <2>2, <2>3, <2>4, SeqEqual
  <2>. QED
    BY <2>5 DEF r
<1>. QED
  BY <1>5, <1>6 DEF s

\* Every line of a help message and every word bash completes is true of the
\* parser, as long as no option has a dash for its short name: its word would be
\* "--", which the parser does not read as an option.
THEOREM HelpIsTrue ==
    ASSUME \A i \in DOMAIN Catalogue : Catalogue[i].short # Dash
    PROVE  Spec => []HelpIsParsable
<1>1. PoplInv /\ Shape => HelpIsParsable
  <2>. SUFFICES ASSUME PoplInv, Shape PROVE HelpIsParsable
    OBVIOUS
  <2>1. NamesApart /\ FromCatalogue
    BY DEF Shape, OptionsShape
  <2>2. ASSUME NEW entry \in Help(options, Expert)
        PROVE  LET long == IfActive(options, FindLong(options, entry.long))
                   short == IfActive(options, FindShort(options, entry.short))
               IN /\ entry.long # <<>> => long # 0 /\ HelpEntry(options[long]) = entry
                  /\ entry.short # NoName => short # 0 /\ HelpEntry(options[short]) = entry
    <3>1. PICK o \in Shown(options, Expert) : entry = HelpEntry(options[o])
      BY DEF Help, Expert, Optional
    <3>2. /\ o \in DOMAIN options /\ IfActive(options, o) = o /\ o # 0
          /\ entry.long = options[o].long /\ entry.short = options[o].short
      <4>1. o # 0
        <5>1. DOMAIN options = 1..Len(options) /\ Len(options) \in Nat
          BY AppendDomain DEF PoplInv, ListsAgree
        <5>. QED
          BY <5>1, ShownIsActive
      <4>. QED
        BY <3>1, <4>1, ShownIsActive DEF HelpEntry
    <3>3. entry.long # <<>> => FindLong(options, entry.long) = o
      BY <2>1, <3>2, FoundByLong
    <3>4. entry.short # NoName => FindShort(options, entry.short) = o
      BY <2>1, <3>2, FoundByShort
    <3>. QED
      BY <3>1, <3>2, <3>3, <3>4
  <2>3. ASSUME NEW word \in Completions(options)
        PROVE  IfActive(options,
                   IF IsPrefix(<<Dash, Dash>>, word)
                   THEN FindLong(options, SubSeq(word, 3, Len(word)))
                   ELSE FindShort(options, word[2])) # 0
    <3>1. \E o \in Shown(options, Expert) :
             \/ options[o].short # NoName /\ word = <<Dash, options[o].short>>
             \/ options[o].long # <<>> /\ word = <<Dash, Dash>> \o options[o].long
      BY DEF Completions
    <3>2. PICK o \in Shown(options, Expert) :
             \/ options[o].short # NoName /\ word = <<Dash, options[o].short>>
             \/ options[o].long # <<>> /\ word = <<Dash, Dash>> \o options[o].long
      BY <3>1
    <3>3. o \in DOMAIN options /\ IfActive(options, o) = o /\ o # 0
      <4>1. DOMAIN options = 1..Len(options) /\ Len(options) \in Nat
        BY AppendDomain DEF PoplInv, ListsAgree
      <4>. QED
        BY <4>1, ShownIsActive
    <3>4. options[o] \in Descriptor /\ options[o].short # Dash
      BY <2>1, <3>3 DEF FromCatalogue
    <3>. DEFINE S == STRING \cup {Dash}
    <3>5. options[o].short \in S /\ options[o].long \in Seq(S) /\ Dash \in S
      <4>1. options[o].short \in STRING /\ options[o].long \in Seq(STRING)
        BY <3>4 DEF Descriptor
      <4>. QED
        BY <4>1
    <3>. HIDE DEF S
    <3>6. CASE options[o].short # NoName /\ word = <<Dash, options[o].short>>
      <4>1. ~IsPrefix(<<Dash, Dash>>, word) /\ word[2] = options[o].short
        BY <3>4, <3>5, <3>6, ShortWord
      <4>2. FindShort(options, word[2]) = o
        BY <2>1, <3>3, <3>6, <4>1, FoundByShort
      <4>. QED
        BY <3>3, <4>1, <4>2
    <3>7. CASE options[o].long # <<>> /\ word = <<Dash, Dash>> \o options[o].long
      <4>. DEFINE name == options[o].long
      <4>3. name \in Seq(S) /\ Dash \in S /\ word = <<Dash, Dash>> \o name
        BY <3>5, <3>7
      <4>. HIDE DEF name
      <4>1. IsPrefix(<<Dash, Dash>>, word) /\ SubSeq(word, 3, Len(word)) = name
        BY ONLY <4>3, LongWord
      <4>. USE DEF name
      <4>2. FindLong(options, SubSeq(word, 3, Len(word))) = o
        BY <2>1, <3>3, <3>7, <4>1, FoundByLong
      <4>. QED
        BY <3>3, <4>1, <4>2
    <3>. QED
      BY <3>2, <3>6, <3>7
  <2>. QED
    BY <2>2, <2>3 DEF HelpIsParsable
<1>. QED
  BY ShapeInit, ShapeKept, <1>1, InvKept, PTL DEF Spec
=============================================================================
