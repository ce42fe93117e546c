------------------------------- MODULE MCPopl -------------------------------
(* A small instance: the kinds of option main() adds, with an implicit one,  *)
(* an inactive one, a required one, and two that clash with the first.       *)
EXTENDS PoplReference

MCNumber == {"0", "1", "5"}
Option(kind, type, short, long, init, attribute, bound) ==
    [kind |-> kind, type |-> type, short |-> short, long |-> long,
     default |-> init, attribute |-> attribute, bound |-> bound]

MCCatalogue ==
    <<Option("Switch", "bool", "h", <<"help">>, <<False>>, Optional, TRUE),
      Option("Value", "int", "c", <<"cnt">>, <<<<"1">>>>, Optional, TRUE),
      Option("Value", "int", "k", <<"help">>, <<>>, Optional, FALSE),
      Option("Implicit", "int", "i", <<"net", ".", "id">>, <<<<"0">>>>, Advanced, FALSE),
      Option("Value", "string", "x", <<>>, <<>>, Required, FALSE),
      Option("Value", "bool", "q", <<"old">>, <<>>, Inactive, FALSE)>>

Words ==
    {<<"-", "h">>, <<"-", "h", "h">>, <<"-", "h", "c", "5">>, <<"-", "z", "h", "c">>,
     <<"-", "i", "h">>, <<"-", "i", "1">>, <<"-", "x">>, <<"-", "q", "1">>, <<"-">>,
     <<"-", "-", "cnt">>, <<"-", "-", "cnt", "=", "5">>, <<"-", "-", "cnt", "=">>,
     <<"-", "-", "help">>, <<"-", "-", "help", "=", "1">>,
     <<"-", "-", "net", ".", "id">>, <<"-", "-", "old", "=", "1">>,
     <<"-", "-">>, <<"5">>, <<"5", " ", "1">>}
Leading == {<<"-", "z", "h", "c">>, <<"-", "h", "h">>, <<"-", "x">>, <<"-", "-">>,
            <<"-", "-", "cnt">>}
MCCommands == {<<>>} \cup {<<w>> : w \in Words} \cup {<<v, w>> : v \in Leading, w \in Words}
              \cup {<<<<"-", "-", "cnt">>, w, <<"5">>>> : w \in Leading}

MCIniFiles ==
    {<<>>,
     <<<<"#", "c">>, <<"cnt", "=", "5">>, <<"[", "net", "]">>, <<"id", "=", "1">>>>,
     <<<<"[", "net", "]">>, <<"cnt", "=", "5">>, <<"id", "=">>>>,
     <<<<"help", "=", "0">>, <<>>, <<"old", "=", "TRUE">>, <<"cnt">>, <<"=", "5">>>>,
     <<<<"cnt", "=", "5">>, <<"cnt", "=", "h">>, <<"help", "=", "1">>>>,
     <<<<"[", "a", "]">>, <<"[", "]">>, <<"cnt", "=", "5", "=", "1">>>>,
     <<<<"net", ".", "id", "=", "1">>, <<"cnt", "=", "1">>>>}
MCSetTexts == [int |-> {<<"5">>}, string |-> {<<"c">>}, bool |-> {True}]
=============================================================================
