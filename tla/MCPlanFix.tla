------------------------------ MODULE MCPlanFix ------------------------------
(***************************************************************************)
(* Tests for TLC: one call with an address of every kind, well written or   *)
(* not, and plans of one or two resources built up in every order.          *)
(***************************************************************************)
EXTENDS PlanFix

Tokens == {".", "[", "]", "\"", "\\", "9", "sg", "module", "data"}
Strung(n) == UNION {[1 .. k -> Tokens] : k \in 0 .. n}

Number(n) == <<"int", n>>
String(key) == <<"string", key>>
Keys == UNION {[1 .. k -> {".", "[", "]", "\"", "\\", "9"}] : k \in 0 .. 2}
Indexes == {NoIndex, Number(9), Number(99)} \cup {String(key) : key \in Keys}

Instance(modules, mode, index) ==
    [modules |-> modules, mode |-> mode, type |-> <<"sg">>, name |-> <<"web">>, index |-> index]
InModule(index) == [name |-> <<"net">>, index |-> index]

MCInstances ==
    {Instance(ms, mode, i) :
        ms \in {<< >>, <<InModule(NoIndex)>>, <<InModule(String(<<"]", ".">>)), InModule(Number(9))>>},
        mode \in {"managed", "data"}, i \in Indexes}
      \cup {Instance(<<InModule(i)>>, "managed", NoIndex) : i \in Indexes}

-----------------------------------------------------------------------------
ResourceCall(text, actions) == [op |-> "Resource", text |-> text, actions |-> actions]
PriorCall(text, deps) == [op |-> "PriorResource", text |-> text, dependsOn |-> deps]
Set(n, field, value) == [op |-> "Set", n |-> n, field |-> field, value |-> value]
Depends(n, addresses) == [op |-> "DependsOn", n |-> n, addresses |-> addresses]
OptionCall(field, value) == [op |-> "Option", field |-> field, value |-> value]

\* Addresses, alone and in the last brackets of one.
AddressTests ==
    {<<ResourceCall(t, << >>)>> :
        t \in {WrittenAs(x) : x \in MCInstances} \cup Strung(3)
                 \cup {<<"sg", ".", "web", "[">> \o t \o <<"]">> : t \in Strung(3)}
                 \cup {<<"sg", ".">> \o t : t \in Strung(3)}}

Root == WrittenAs(Instance(<< >>, "managed", NoIndex))
Deep == WrittenAs(Instance(<<InModule(String(<<"]", ".">>)), InModule(Number(9))>>, "managed", Number(99)))
Shallow == WrittenAs(Instance(<<InModule(NoIndex)>>, "data", String(<<".", "\"">>)))

Paths == <<<<String(<<"sg">>), Number(9)>>, <<String(<<"9">>)>>>>
Setters(n) ==
    {Set(n, "before", "v"), Set(n, "before", Nil), Set(n, "after", "v"), Set(n, "afterSensitive", "m"),
     Set(n, "beforeSensitive", "m"), Set(n, "previous", Shallow), Set(n, "previous", <<"sg">>),
     Set(n, "replacePaths", Paths), Depends(n, << >>), Depends(n, <<Root>>)}

\* One resource with up to three setters.
SetterTests ==
    {<<ResourceCall(t, actions)>> \o s :
        t \in {Root, Deep}, actions \in {<<"update">>, <<"delete", "create">>},
        s \in UNION {[1 .. k -> Setters(1)] : k \in 0 .. 3}}

\* Two resources, a setter or two of each in any order, and more prior ones.
PairTests ==
    {<<ResourceCall(t, <<"update">>), ResourceCall(u, <<"grow">>), s, v>> \o p :
        t \in {Root, Deep}, u \in {Root, Shallow},
        s \in Setters(1) \cup Setters(2), v \in Setters(2),
        p \in {<< >>, <<PriorCall(Deep, <<Root>>)>>, <<PriorCall(<<"sg", ".">>, << >>)>>,
               <<PriorCall(Root, << >>), PriorCall(Shallow, <<Deep, Root>>)>>}}

OptionTests ==
    {<<OptionCall("complete", c), OptionCall("version", v), ResourceCall(Root, << >>)>> \o e :
        c \in {"true", "false"}, v \in {<<"1", "0">>, <<"2", "0">>, <<"10">>},
        e \in {<< >>, <<OptionCall("errored", TRUE)>>}}

MCTests == AddressTests \cup SetterTests \cup PairTests \cup OptionTests

=============================================================================
