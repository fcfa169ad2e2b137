---------------------------- MODULE MCCraftFile ----------------------------
(* Up to three fields out of those that could be confused: values that     *)
(* contain keys, with quotes and without, values with a character of two   *)
(* bytes or a blank at the edge, nested fields, lower case and missing     *)
(* hangars; a head that ends within the third.                             *)
EXTENDS CraftFile

F(key, value) == [key |-> key, value |-> value, quoted |-> TRUE, nested |-> FALSE]
Nested(key, value) == [F(key, value) EXCEPT !.nested = TRUE]
Bare(key, value) == [F(key, value) EXCEPT !.quoted = FALSE]

MCKsp1Fields ==
    {F("ship", <<"a", " ", "b">>), F("Ship", <<"C3", "A9">>), F("ship", <<>>),
     F("description", <<"ship", " ", "=", " ", "x">>), F("version", <<"1">>),
     F("type", <<"sph">>), F("type", <<"part">>), Nested("type", <<"VAB">>)}

MCKsp2Fields ==
    {F("name", <<"a", " ", "b">>), F("name", <<"C3", "A9">>), F("title", <<"name">>),
     F("gameVersion", <<"2">>), Bare("gameVersion", <<"null">>), F("type", <<"SPH">>),
     F("shipType", <<"VAB">>), F("shipType", <<"type">>), Bare("type", <<"type">>),
     F("gameVersion", <<" ", "1">>)}

MCCraft ==
    {[generation |-> "Ksp1", fields |-> f] : f \in BoundedSeq(MCKsp1Fields, 3) \ {<<>>}} \cup
    {[generation |-> "Ksp2", fields |-> f] : f \in BoundedSeq(MCKsp2Fields, 3) \ {<<>>}}

File == <<"f", ".craft">>
MCPaths ==
    {<<<<"home">>, <<"Ships">>, <<"VAB">>, File>>, <<<<"home">>, <<"Ships">>, <<"SPH">>, File>>,
     <<<<"SPH">>, <<"Ships">>, <<"VAB">>, File>>, <<File>>}
=============================================================================
