--------------------------- MODULE MCCreateSetup ---------------------------
(***************************************************************************)
(* Generated setup.py texts for CreateSetup: one dependency with up to     *)
(* three constraints, or two items (python_requires or a dependency, then  *)
(* a dependency) with up to two constraints each.  Every operator poetry   *)
(* prints is there, with one version number and one environment marker;   *)
(* and the requirement strings of the repository's own generated setup.py. *)
(***************************************************************************)
EXTENDS CreateSetup

Ops == {<<">", "=">>, <<"<">>, <<"<", "=">>, <<"!", "=">>}
Constraints == {[op |-> o, ver |-> <<"1">>] : o \in Ops}
Marker == <<";", " ", "n", "<", "1">>

Dep(cs, m) == [key |-> FALSE, name |-> <<"n">>, cons |-> cs, marker |-> m]
Python(cs) == [key |-> TRUE, name |-> <<>>, cons |-> cs, marker |-> <<>>]

ConsUpTo(n) == SeqOf(Constraints, n) \ {<<>>}
Deps(n) == {Dep(cs, m) : cs \in ConsUpTo(n), m \in {<<>>, Marker}}

\* The requirement strings of the setup.py this script generated for the
\* manager (src/manager/setup.py): install_requires names with no
\* constraint, then python_requires '>=3.8,<4.0'.  Its other literals
\* (metadata, packages, extras_require, entry points) contain no ">=" and
\* so no match; the five dependency names are two here, as the pattern
\* treats every name alike.
RepoSetup ==
    <<Dep(<<>>, <<>>), Dep(<<>>, <<>>),
      Python(<<[op |-> <<">", "=">>, ver |-> <<"3", ".", "8">>],
               [op |-> <<"<">>, ver |-> <<"4", ".", "0">>]>>)>>

MCSetups ==
    {RepoSetup}
    \cup {<<d>> : d \in Deps(3)}
    \cup {<<Python(cs), d>> : cs \in ConsUpTo(2), d \in Deps(2)}
    \cup {<<d1, d2>> : d1, d2 \in Deps(2)}
=============================================================================
