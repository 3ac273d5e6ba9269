------------------------------ MODULE MCGroups ------------------------------
(* Values of the constants of Groups that a configuration file cannot write. *)
EXTENDS Groups

Plain(kind, tries) ==
  [kind |-> kind, skipped |-> FALSE, declared |-> FALSE, tries |-> tries, settable |-> FALSE]

Accepted == Plain("method", <<"TypeError", "returns">>)
Refusing == Plain("dunder", <<"TypeError", "TypeError">>)
TooLate  == Plain("method", <<"TypeError", "TypeError", "returns">>)
Raising  == Plain("function", <<"raises">>)
Skipped  == [Accepted EXCEPT !.skipped = TRUE]
Property == [Plain("property", <<"returns">>) EXCEPT !.settable = TRUE]
Private  == [Plain("private", <<"returns">>) EXCEPT !.declared = TRUE]
Static   == Plain("static", <<"returns">>)

Type(factory, unsendable, members) ==
  [kind |-> "type", factory |-> factory, unsendable |-> unsendable, members |-> members]

\* A type with a property, one without a factory, one confined to its thread; a
\* type of which some members cannot be called; module functions.
MCModuleOf == [g \in Groups |-> IF g = 1 THEN "a" ELSE "b"]

MCShapesOf ==
  [g \in Groups |->
     CASE g = 1 -> {Type("found", FALSE, <<Property>>), Type("raises", FALSE, <<Accepted, Private>>),
                    Type("found", TRUE, <<Skipped, Accepted>>)}
       [] g = 2 -> {Type("found", FALSE, <<Refusing, TooLate, Private>>),
                    Type("found", TRUE, <<Property, Static>>)}
       [] OTHER -> {[kind |-> "functions", factory |-> "found", unsendable |-> FALSE,
                     members |-> <<Raising, Plain("function", <<"returns">>)>>],
                    Type("none", FALSE, <<Accepted>>)}]

\* The members of an unsendable type are in the order of their names.
StaticFirst == [g \in Groups |-> {Type("found", TRUE, <<Static, Accepted>>),
                                  Type("found", TRUE, <<Accepted, Static>>)}]
=============================================================================
