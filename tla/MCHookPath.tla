---------------------------- MODULE MCHookPath ----------------------------
(* Values for HookPath. *)
EXTENDS HookPath

\* No value and the empty one, separators at every place, a name of a system
\* assembly, and values that have no room on Windows.
Values == {Unset, <<>>, <<";">>, <<"a">>, <<";", "b">>, <<"a", ";">>, <<"a", "b">>,
           <<"a", ";", "b">>, <<"b", ";", "System">>, <<"a", ";", ";", "b">>,
           <<"a", ";", "b", ";", "a">>, <<"b", "a", "b", "System", "a">>}

AssemblyNames == {<<"a">>, <<"b", "a">>, <<"b", "System">>, <<"Internal">>}
\* Memory that nobody has written: nothing, a name, and part of another.
Leftovers == {<<>>, <<"a">>, <<"Internal", "b">>}
EveryAssembly == [Functions -> [name : AssemblyNames, known : Lookups]]
Ordinary == [name |-> <<"a">>, known |-> "all"]
OneAssembly == {[f \in Functions |-> Ordinary]}
NoNames == {<<>>}
=============================================================================
