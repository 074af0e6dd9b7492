---------------------------- MODULE MCModelling ----------------------------
(***************************************************************************)
(* A bounded instance of Modelling: a handful of schemas that exercise     *)
(* every branch of the validator and of the construction protocol, and    *)
(* every parsed document with at most the two keys "a" and "b", whose      *)
(* values are drawn from fourteen small values of every YAML shape.        *)
(***************************************************************************)
EXTENDS Modelling

A == <<"a">>
B == <<"b">>
Hidden == <<"_", "p">>

Field(n, t) == [name |-> n, type |-> t, default |-> <<>>, transform |-> <<>>]
WithDefault(n, t, d) == [Field(n, t) EXCEPT !.default = <<d>>]
Transformed(n, t, arity, body, key) ==
    [Field(n, t) EXCEPT !.transform = <<[arity |-> arity, body |-> body, key |-> key]>>]

MCSchemas == {"Base", "Scalars", "Choice", "Collections", "Nested", "Derived",
              "Leafy", "FromLeafy", "Computed",
              "Labelled", "Plain", "LiteralOne",
              "Conflicted", "Keyed", "Sourced", "ValidateNamed", "Extended"}

MCFields == [s \in MCSchemas |->
    CASE s = "Base"        -> <<Field(A, TInt)>>
      [] s = "Scalars"     -> <<Field(A, TUnion(<<TInt, TStr>>)), Field(B, TOptional(TBool))>>
      [] s = "Choice"      -> <<WithDefault(A, TLiteral(VStr(A)), VStr(A)),
                                Field(B, TUnion(<<TBool, TInt>>))>>
      [] s = "Collections" -> <<WithDefault(A, TList(TStr), VList(<<>>)),
                                Field(B, TOptional(TTuple(<<TInt, TInt>>)))>>
      [] s = "Nested"      -> <<Field(A, TOptional(TSchema("Base"))),
                                Field(B, TOptional(TDict(TStr, TSchema("Base"))))>>
      [] s = "Derived"     -> <<WithDefault(Hidden, TInt, VInt(0)),
                                Transformed(B, TInt, 1, "double", A)>>
      [] s = "Leafy"       -> <<Field(A, TCustom("Port")), Field(B, TOptional(TCustom("Name")))>>
      [] s = "FromLeafy"   -> <<Transformed(A, TInt, 2, "copy", A), Transformed(B, TStr, 2, "copy", B)>>
      [] s = "Computed"    -> <<Field(A, TOptional(TInt)), Transformed(B, TInt, 2, "double", A)>>
      \* a default that is an instance of a custom type without __int__
      [] s = "Labelled"    -> <<WithDefault(A, TUnion(<<TInt, TStr>>), VCustom("Name", VStr(A)))>>
      [] s = "Plain"       -> <<Field(A, TInt)>>
      [] s = "LiteralOne"  -> <<Field(A, TLiteral(VInt(1)))>>
      \* a default and a transformation for b, after a required field
      [] s = "Conflicted"  -> <<Field(A, TInt),
                                [WithDefault(B, TInt, VInt(0)) EXCEPT
                                    !.transform = <<[arity |-> 1, body |-> "copy", key |-> A]>>]>>
      [] s = "Keyed"       -> <<Field(A, TDict(TStr, TSchema("Sourced")))>>
      \* fields whose names collide with SchemaNode's _source and _validate
      [] s = "Sourced"     -> <<Field(SourceName, TOptional(TInt))>>
      [] s = "ValidateNamed" -> <<Field(ValidateName, TInt)>>
      \* class Extended(Plain): its own annotations only
      [] s = "Extended"    -> <<Field(B, TOptional(TBool))>>]

MCPrevious == [s \in MCSchemas |->
    CASE s = "Derived" -> <<"Base">>
      [] s = "FromLeafy" -> <<"Leafy">>
      [] OTHER -> <<>>]

MCBases == [s \in MCSchemas |-> IF s = "Extended" THEN <<"Plain">> ELSE <<>>]

MCCheck == [s \in MCSchemas |-> IF s = "Base" THEN <<[field |-> A, min |-> 1]>> ELSE <<>>]

MCCustomAccepts == [c \in {"Port", "Name"} |-> IF c = "Port" THEN {VInt(1)} ELSE {VStr(A)}]

MCIntLike == {"Port"}

\* Scalars, sequences and mappings of every shape a YAML parser produces.
Values ==
    {VNone, VBool(TRUE), VInt(0), VInt(1), VStr(<<>>), VStr(A), VStr(<<"1">>),
     VFloat(<<"1", ".", "5">>), VList(<<>>), VList(<<VInt(1)>>), VList(<<VStr(A)>>),
     VDict(<<<<VStr(A), VInt(1)>>>>), VDict(<<<<VStr(A), VBool(TRUE)>>>>),
     VDict(<<<<VStr(A), VDict(<<>>)>>>>)}

MCDocs ==
    {VNone, VDict(<<>>)}
    \cup {VDict(<<<<VStr(k), v>>>>) : k \in {A, B}, v \in Values}
    \cup {VDict(<<<<VStr(A), v>>, <<VStr(B), w>>>>) : v, w \in Values}
    \* keys named like SchemaNode's own attributes _source and _validate
    \cup {VDict(<<<<VStr(k), VInt(1)>>>>) : k \in {SourceName, ValidateName}}

\* Well-formed schemas without a List or Tuple field, chained or not.
RootsContract == {"Scalars", "Choice", "Nested", "Derived", "Leafy", "FromLeafy", "Computed"}
\* Every well-formed schema.
RootsWellFormed == RootsContract \cup {"Collections"}
RootsSequences == {"Collections"}
\* Well-formed schemas without transformations or previous schemas, whose
\* conformance the reference decides on the document alone.
RootsComplete == {"Scalars", "Choice", "Nested", "Leafy", "Plain"}
\* Schemas on which Python semantics decide acceptance: iteration of str
\* and dict, int() of a custom value, == between bool and int, and the
\* class's own __annotations__ without those of its base.
RootsConformance == {"Collections", "Labelled", "LiteralOne", "Extended"}
\* Schemas with a definition defect: a default with a transformation, and
\* field names that collide with SchemaNode's own attributes.
RootsDefects == {"Conflicted", "Keyed", "ValidateNamed"}
\* A subclass inherits _PREVIOUS_SCHEMA and _validate from its base, and
\* annotates no field its base already has.
ASSUME \A s \in MCSchemas : MCBases[s] # <<>> =>
           LET b == MCBases[s][1]
           IN /\ MCPrevious[s] = MCPrevious[b]
              /\ MCCheck[s] = MCCheck[b]
              /\ \A i \in DOMAIN MCFields[s], j \in DOMAIN MCFields[b] :
                     MCFields[s][i].name # MCFields[b][j].name
=============================================================================
