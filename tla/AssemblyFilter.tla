--------------------------- MODULE AssemblyFilter ---------------------------
(***************************************************************************)
(* The assembly filter of CoreProfiler: how the constructor reads the list *)
(* of assemblies from PROFILER_ENABLE_ASSEMBLIES and how Mapper judges an  *)
(* assembly by it.  Texts are sequences of pieces: the separator, and any  *)
(* other values, each of which stands for a run of letters.                *)
(***************************************************************************)
EXTENDS Integers, Sequences

Separator == ";"
Unset     == <<"unset">>          \* the environment has no such variable
SystemNames == {"System", "Internal"}

\* What OS::ReadEnvironmentVariable may return for the value of a variable.
\* On Windows it has room for size pieces with the end of the text, and a
\* longer text leaves the buffer as the stack left it: any of garbage.  On
\* Linux a variable that is not set is a null pointer, and no result.
ReadEnvironmentVariable(value, windows, size, garbage) ==
  IF value = Unset THEN IF windows THEN {<<>>} ELSE {}
  ELSE IF windows /\ Len(value) >= size THEN garbage ELSE {value}

\* std::string::find: the places where part occurs in text.
Places(text, part) ==
  {k \in 1 .. Len(text) - Len(part) + 1 :
     SubSeq(text, k, k + Len(part) - 1) = part}
Occurs(part, text) == Places(text, part) # {}
Foremost(S)        == CHOOSE k \in S : \A m \in S : k <= m

\* The loop of the constructor: what stands before the first separator is
\* an entry and is erased with it; what is left at the end is an entry too.
Mutant_LastDropped(value) ==
  LET after[rest \in {SubSeq(value, k, Len(value)) : k \in 1 .. Len(value) + 1}] ==
        LET seps == Places(rest, <<Separator>>)
            pos  == Foremost(seps)
        IN IF seps = {} THEN <<>>
           ELSE <<SubSeq(rest, 1, pos - 1)>> \o after[SubSeq(rest, pos + 1, Len(rest))]
  IN IF value = <<>> THEN <<>> ELSE after[value]
listOfAllowedAssemblies(value) ==
  LET after[rest \in {SubSeq(value, k, Len(value)) : k \in 1 .. Len(value) + 1}] ==
        LET seps == Places(rest, <<Separator>>)
            pos  == Foremost(seps)
        IN IF seps = {} THEN <<rest>>
           ELSE <<SubSeq(rest, 1, pos - 1)>> \o after[SubSeq(rest, pos + 1, Len(rest))]
  IN IF value = <<>> THEN <<>> ELSE after[value]

\* The test of Mapper: an entry occurs in the name; without a list, neither
\* of the two names of system assemblies does.
isInAllowedAssemblies(list, name) ==
  IF list # <<>> THEN \E i \in DOMAIN list : Occurs(list[i], name)
  ELSE \A s \in SystemNames : ~Occurs(<<s>>, name)
-----------------------------------------------------------------------------
(* What README.md:67 promises of the variable: "name of assemblies you     *)
(* want to profile seperated by ;", so those that bear one of its names.   *)

\* The names of a value: what lies between separators and the two ends.
Names(value) ==
  LET ends == {k \in 0 .. Len(value) + 1 :
                 k \in 1 .. Len(value) => value[k] = Separator}
      next(k) == Foremost({m \in ends : m > k})
  IN {SubSeq(value, k + 1, next(k) - 1) : k \in ends \ {Len(value) + 1}}

\* No other name of the value is a part of this one.  It is where the code
\* departs from the promise: in "CacheManager;CacheManagerExample", the
\* example of README.md, the first is a part of the second, and the empty
\* name that a separator at either end makes is a part of every one.
Apart(value, name) == \A n \in Names(value) \ {name} : ~Occurs(n, name)
=============================================================================
