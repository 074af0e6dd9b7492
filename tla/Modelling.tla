----------------------------- MODULE Modelling -----------------------------
(***************************************************************************)
(* The configuration schema engine of knot_resolver_manager:               *)
(* src/manager/knot_resolver_manager/utils/modelling.py.                   *)
(*                                                                         *)
(* _validated_object_type (the type-directed validator) and the SchemaNode *)
(* construction protocol (__init__, _assign_fields, _get_converted_value)  *)
(* call each other recursively; both are RECURSIVE operators here.  The    *)
(* state machine is the caller: it holds one parsed document and one       *)
(* schema and performs the one SchemaNode(...) call on them.               *)
(*                                                                         *)
(* Python values are records [t |-> type tag, v |-> payload]; a string is  *)
(* the sequence of its characters, because the code iterates over strings. *)
(* A result is [ok, val, exc, path, why]: exc names the Python exception   *)
(* class, path is the object_path as a sequence of segments, and why is    *)
(* an abstract tag for the message.                                        *)
(***************************************************************************)
EXTENDS Integers, Sequences, FiniteSets, TLC

CONSTANTS
    Schemas,        \* the SchemaNode subclasses
    Fields,         \* Fields[s]: the annotated fields of s, in annotation order
    Previous,       \* Previous[s]: <<>>, or <<s0>> when s._PREVIOUS_SCHEMA = s0
    Check,          \* Check[s]: <<>>, or <<[field, min]>>: s._validate raises
                    \*   ValueError when that int field is below min
    CustomAccepts,  \* CustomAccepts[c]: raw values the constructor of the
                    \*   CustomValueType subclass c accepts
    IntLike,        \* the CustomValueType subclasses that implement __int__
    Bases,          \* Bases[s]: <<>>, or <<b>> when s subclasses the schema b
    Roots,          \* the schemas a caller instantiates
    Docs            \* the parsed documents a caller passes in

VARIABLES
    schema,         \* the SchemaNode subclass being instantiated
    doc,            \* the source document (a ParsedTree or None)
    result          \* the outcome of the constructor call

vars == <<schema, doc, result>>

-----------------------------------------------------------------------------
(* Python values *)

VNone == [t |-> "none", v |-> 0]
VBool(b) == [t |-> "bool", v |-> b]
VInt(n) == [t |-> "int", v |-> n]
VStr(cs) == [t |-> "str", v |-> cs]
VFloat(repr) == [t |-> "float", v |-> repr]
VList(s) == [t |-> "list", v |-> s]
VTuple(s) == [t |-> "tuple", v |-> s]
VDict(pairs) == [t |-> "dict", v |-> pairs]   \* insertion-ordered <<key, value>> pairs
VCustom(c, raw) == [t |-> "custom", v |-> [c |-> c, raw |-> raw]]
VNode(s, f, src) == [t |-> "node", v |-> [s |-> s, f |-> f, src |-> src]]

(* Type descriptors (the typing annotations the validator dispatches on) *)

TNone == [k |-> "none"]
TInt == [k |-> "int"]
TStr == [k |-> "str"]
TBool == [k |-> "bool"]
TFloat == [k |-> "float"]
TUnion(ts) == [k |-> "union", args |-> ts]
TOptional(t) == TUnion(<<t, TNone>>)
TLiteral(v) == [k |-> "literal", arg |-> v]
TDict(kt, vt) == [k |-> "dict", key |-> kt, val |-> vt]
TEnum(e) == [k |-> "enum", arg |-> e]
TList(t) == [k |-> "list", arg |-> t]
TTuple(ts) == [k |-> "tuple", args |-> ts]
TCustom(c) == [k |-> "custom", arg |-> c]
TSchema(s) == [k |-> "schema", arg |-> s]
TClass(c) == [k |-> "class", arg |-> c]        \* any other class

Ok(v) == [ok |-> TRUE, val |-> v, exc |-> "", path |-> <<>>, why |-> ""]
Err(e, p, w) == [ok |-> FALSE, val |-> VNone, exc |-> e, path |-> p, why |-> w]

NoResult == Err("", <<>>, "pending")

Exceptions == {"Schema", "NotImplemented", "Runtime", "Attribute", "Type",
               "Value", "Key"}

MinOf(a, b) == IF a < b THEN a ELSE b

-----------------------------------------------------------------------------
(* Helpers of the validator *)

\* Mutant: isinstance() in place of type(), under which a bool is an int.
IsObjTypeIsinstance(obj, types) == obj.t \in types \/ ("int" \in types /\ obj.t = "bool")

\* is_obj_type: type(obj) is one of the given types (bool is not int).
IsObjType(obj, types) == obj.t \in types

\* Python's ==, under which True == 1 and False == 0.
PyEq(a, b) ==
    LET IsNum(x) == x.t \in {"bool", "int"}
        Num(x) == IF x.t = "bool" THEN (IF x.v THEN 1 ELSE 0) ELSE x.v
    IN IF IsNum(a) /\ IsNum(b) THEN Num(a) = Num(b)
                               ELSE a.t = b.t /\ a.v = b.v

\* str(obj) for the primitive values the str case casts.
StrOf(obj) ==
    LET Digits(n) == <<ToString(n)>>        \* ints are kept to one digit
    IN CASE obj.t = "str"    -> obj.v
         [] obj.t = "int"    -> Digits(obj.v)
         [] obj.t = "float"  -> obj.v
         [] obj.t = "custom" -> IF obj.v.raw.t = "int" THEN Digits(obj.v.raw.v)
                                                      ELSE obj.v.raw.v

\* int(obj) in the int case: a CustomValueType without __int__ raises ValueError.
IntOf(obj, p) ==
    CASE obj.t = "int" -> Ok(obj)
      [] obj.t = "bool" -> Ok(VInt(IF obj.v THEN 1 ELSE 0))
      [] obj.t = "custom" /\ obj.v.c \in IntLike -> Ok(VInt(obj.v.raw.v))
      [] obj.t = "custom" -> Err("Value", p, "int_conversion")

\* The str case: primitives are cast, a bool gets its own diagnostic.
StrCoerced(obj, p) ==
    CASE IsObjType(obj, {"str", "float", "int"}) \/ obj.t = "custom" -> Ok(VStr(StrOf(obj)))
      [] IsObjType(obj, {"bool"}) -> Err("Schema", p, "bool_as_str")
      [] OTHER -> Err("Schema", p, "expected_str")

\* iter(obj), as used by the list comprehension and zip() of the
\* List and Tuple cases: a string yields its characters, a dict its keys.
Iter(obj) ==
    CASE obj.t \in {"list", "tuple"} -> Ok(VList(obj.v))
      [] obj.t = "str"  -> Ok(VList([i \in DOMAIN obj.v |-> VStr(<<obj.v[i]>>)]))
      [] obj.t = "dict" -> Ok(VList([i \in DOMAIN obj.v |-> obj.v[i][1]]))
      [] OTHER -> Err("Type", <<>>, "not_iterable")

\* d[k] = v in a dict comprehension: an equal key keeps its place.
DictPut(pairs, k, v) ==
    IF \E i \in DOMAIN pairs : PyEq(pairs[i][1], k)
    THEN LET i == CHOOSE i \in DOMAIN pairs : PyEq(pairs[i][1], k)
         IN [pairs EXCEPT ![i] = <<pairs[i][1], v>>]
    ELSE Append(pairs, <<k, v>>)

\* Mutant: the pass-through of an existing instance is dropped.
CustomValidatedAlwaysConstruct(cls, obj, p) ==
    IF obj \in CustomAccepts[cls.arg] THEN Ok(VCustom(cls.arg, obj))
    ELSE Err("Schema", p, "custom_rejected")

\* The CustomValueType case: pass an instance through, else construct one.
CustomValidated(cls, obj, p) ==
    IF obj.t = "custom" /\ obj.v.c = cls.arg THEN Ok(obj)
    ELSE IF obj \in CustomAccepts[cls.arg] THEN Ok(VCustom(cls.arg, obj))
    ELSE Err("Schema", p, "custom_rejected")

\* Which branch of the if/elif chain of _validated_object_type applies.
ValidatorCase(cls, obj) ==
    IF cls.k \in {"none", "union"} THEN cls.k
    ELSE IF obj.t = "none" THEN "none_value"
    ELSE cls.k

\* is_optional: a Union with NoneType among its arguments.
IsOptional(t) == t.k = "union" /\ \E i \in DOMAIN t.args : t.args[i].k = "none"

-----------------------------------------------------------------------------
(* Helpers of the construction protocol *)

SourceName == <<"s", "o", "u", "r", "c", "e">>
ValidateName == <<"v", "a", "l", "i", "d", "a", "t", "e">>

\* is_internal_field_name: the name starts with an underscore.
IsInternalFieldName(name) == name # <<>> /\ Head(name) = "_"

\* hasattr(self, name): a class-level default value.
HasAttr(fd) == fd.default # <<>>

\* hasattr(self, "_" + name): a transformation function, the instance
\* attribute _source, or the method _validate.
HasUnderAttr(fd) == fd.transform # <<>> \/ fd.name \in {SourceName, ValidateName}

\* getattr(cls, name, None) in _assign_default.
DefaultOf(fd) == IF fd.default # <<>> THEN fd.default[1] ELSE VNone

DictKeys(d) == {d.v[i][1] : i \in DOMAIN d.v}

\* name in source / source[name], for a ParsedTree or a SchemaNode source
\* (SchemaNode.__contains__ and __getitem__ use hasattr and getattr).
SourceHas(src, name) ==
    IF src.t = "dict" THEN VStr(name) \in DictKeys(src) ELSE name \in DOMAIN src.v.f

SourceGet(src, name) ==
    IF src.t = "dict"
    THEN (CHOOSE pr \in {src.v[i] : i \in DOMAIN src.v} : pr[1] = VStr(name))[2]
    ELSE src.v.f[name]

\* source[key] as a transformation function reads it: a ParsedTree raises
\* KeyError, SchemaNode.__getitem__ raises RuntimeError.
SourceItem(src, key) ==
    IF SourceHas(src, key) THEN Ok(SourceGet(src, key))
    ELSE Err(IF src.t = "dict" THEN "Key" ELSE "Runtime", <<>>, "no_item")

\* _create_untouchable("self"): any attribute access or assignment on the
\* placeholder a two-argument transformation gets raises RuntimeError.
Untouchable == Err("Runtime", <<>>, "untouchable")

\* SchemaNode._validate, the hook a schema does not override: returns None.
ValidateDefault == Ok(VNone)

\* x * 2, as the "double" transformation function computes it.
Times2(x) ==
    CASE x.t = "int"  -> Ok(VInt(2 * x.v))
      [] x.t = "bool" -> Ok(VInt(IF x.v THEN 2 ELSE 0))
      [] x.t \in {"str", "list"} -> Ok([x EXCEPT !.v = x.v \o x.v])
      [] OTHER -> Err("Type", <<>>, "unsupported_operand")

\* The body of a schema's transformation function (schema code, outside
\* modelling.py): copy or double a key of the source, raise ValueError or
\* DataException, or touch the untouchable "self" placeholder.
TransformBody(tf, src) ==
    CASE tf.body = "copy"        -> SourceItem(src, tf.key)
      [] tf.body = "double"      -> LET x == SourceItem(src, tf.key)
                                    IN IF x.ok THEN Times2(x.val) ELSE x
      [] tf.body = "value_error" -> Err("Value", <<>>, "transform_failed")
      [] tf.body = "data_error"  -> Err("Data", <<>>, "transform_failed")
      [] tf.body = "read_self"   -> Untouchable

\* _get_converted_value: find the transformation function by name, call it
\* by its arity, translate ValueError and DataException.
GetConvertedValue(fd, src, p) ==
    IF fd.transform = <<>>
    THEN IF fd.name = ValidateName
         THEN ValidateDefault              \* SchemaNode._validate(source)
         ELSE Err("Attribute", p, "no_class_attribute")    \* _source is per instance
    ELSE LET tf == fd.transform[1]
             out == TransformBody(tf, src)
         IN IF tf.arity \notin {1, 2} THEN Err("Runtime", p, "transform_arity")
            ELSE IF ~out.ok /\ out.exc \in {"Value", "Data"} THEN Err("Schema", p, out.why)
            ELSE out

\* Mutant: internal (underscore) fields are not skipped.
FieldSourceNoSkip(fd, src) ==
    IF HasUnderAttr(fd) /\ HasAttr(fd) THEN "conflict"
    ELSE IF HasUnderAttr(fd) THEN "transform"
    ELSE IF SourceHas(src, fd.name) THEN "direct"
    ELSE IF HasAttr(fd) \/ IsOptional(fd.type) THEN "default"
    ELSE "missing"

\* Which branch of the if/elif chain of _assign_fields a field takes.
FieldSource(fd, src) ==
    IF IsInternalFieldName(fd.name) THEN "skip"
    ELSE IF HasUnderAttr(fd) /\ HasAttr(fd) THEN "conflict"
    ELSE IF HasUnderAttr(fd) THEN "transform"
    ELSE IF SourceHas(src, fd.name) THEN "direct"
    ELSE IF HasAttr(fd) \/ IsOptional(fd.type) THEN "default"
    ELSE "missing"

\* The _validate hook of a schema, and its translation to SchemaException.
ValidateRaises(s, node) ==
    /\ Check[s] # <<>>
    /\ node.v.f[Check[s][1].field].v < Check[s][1].min

-----------------------------------------------------------------------------
(* The validator and the construction protocol *)

RECURSIVE Validated(_, _, _), FirstVariant(_, _, _, _),
          ValidatedEach(_, _, _, _, _), ValidatedPairs(_, _, _, _, _, _),
          Construct(_, _, _), AssignFields(_, _, _, _, _, _)

\* Mutant: the union gives up after its first variant.
FirstVariantNoRetry(variants, obj, p, i) ==
    IF i > Len(variants) THEN Err("Schema", p, "union_no_variant")
    ELSE Validated(variants[i], obj, p)

\* Union: the first variant that does not raise SchemaException.
FirstVariant(variants, obj, p, i) ==
    IF i > Len(variants) THEN Err("Schema", p, "union_no_variant")
    ELSE LET r == Validated(variants[i], obj, p)
         IN IF ~r.ok /\ r.exc = "Schema" THEN FirstVariant(variants, obj, p, i + 1) ELSE r

\* Validate xs[i] against ts[i] in order; the first failure propagates.
ValidatedEach(ts, xs, p, i, acc) ==
    IF i > Len(xs) THEN Ok(VList(acc))
    ELSE LET r == Validated(ts[i], xs[i], p)
         IN IF r.ok THEN ValidatedEach(ts, xs, p, i + 1, Append(acc, r.val)) ELSE r

\* The dict comprehension of the Dict case: key, then value, per item.
ValidatedPairs(kt, vt, pairs, p, i, acc) ==
    IF i > Len(pairs) THEN Ok(VDict(acc))
    ELSE LET key == pairs[i][1]
             rk == Validated(kt, key, Append(p, <<"@key", key.v>>))
             rv == Validated(vt, pairs[i][2], Append(p, <<"@value", key.v>>))
         IN IF ~rk.ok THEN rk
            ELSE IF ~rv.ok THEN rv
            ELSE ValidatedPairs(kt, vt, pairs, p, i + 1, DictPut(acc, rk.val, rv.val))

\* _validated_object_type(cls, obj, object_path=p)
Validated(cls, obj, p) ==
    LET case == ValidatorCase(cls, obj)
        elems == Iter(obj)
        n == IF elems.ok /\ cls.k = "tuple" THEN MinOf(Len(cls.args), Len(elems.val.v)) ELSE 0
        tup == ValidatedEach(SubSeq(cls.args, 1, n), SubSeq(elems.val.v, 1, n), p, 1, <<>>)
        pairs == ValidatedPairs(cls.key, cls.val, obj.v, p, 1, <<>>)
    IN CASE case = "none" -> IF obj.t = "none" THEN Ok(VNone) ELSE Err("Schema", p, "expected_none")
         [] case = "union" -> FirstVariant(cls.args, obj, p, 1)
         [] case = "none_value" -> Err("Schema", p, "unexpected_none")
         [] case = "int" -> IF IsObjType(obj, {"int"}) \/ obj.t = "custom"
                            THEN IntOf(obj, p) ELSE Err("Schema", p, "expected_int")
         [] case = "str" -> StrCoerced(obj, p)
         [] case = "bool" -> IF IsObjType(obj, {"bool"}) THEN Ok(obj) ELSE Err("Schema", p, "expected_bool")
         [] case = "float" -> Err("NotImplemented", p, "float")
         [] case = "literal" -> IF PyEq(obj, cls.arg) THEN Ok(obj) ELSE Err("Schema", p, "literal")
         \* obj.items() raises AttributeError, and so may anything below it
         [] case = "dict" -> IF obj.t # "dict" \/ (~pairs.ok /\ pairs.exc = "Attribute")
                             THEN Err("Schema", p, "expected_dict") ELSE pairs
         [] case = "enum" -> IF obj.t = "enum" /\ obj.v.e = cls.arg THEN Ok(obj)
                             ELSE Err("Schema", p, "enum")
         [] case = "list" -> IF ~elems.ok THEN elems
                             ELSE ValidatedEach([i \in DOMAIN elems.val.v |-> cls.arg],
                                                elems.val.v, Append(p, <<"[]">>), 1, <<>>)
         [] case = "tuple" -> IF ~elems.ok THEN elems
                              ELSE IF tup.ok THEN Ok(VTuple(tup.val.v)) ELSE tup
         [] case = "custom" -> CustomValidated(cls, obj, p)
         [] case = "schema" -> CASE obj.t = "node" /\ obj.v.s = cls.arg -> Ok(obj)
                                 [] obj.t \in {"dict", "node"} -> Construct(cls.arg, obj, p)
                                 [] OTHER -> Err("Schema", p, "expected_dict")
         [] case = "class" -> IF obj.t = "object" /\ obj.v = cls.arg THEN Ok(obj)
                              ELSE Err("Schema", p, "unparseable_type")

\* _assign_fields from the i-th annotated field on; fs and used are the
\* fields assigned and the source keys consumed so far.
AssignFields(s, src, p, i, fs, used) ==
    IF i > Len(Fields[s]) THEN [r |-> Ok(VNone), fields |-> fs, used |-> used]
    ELSE LET fd == Fields[s][i]
             fp == Append(p, <<"/", fd.name>>)
             Stop(r) == [r |-> r, fields |-> fs, used |-> used]
             Assign(r, u) == IF r.ok THEN AssignFields(s, src, p, i + 1, fs @@ (fd.name :> r.val), u)
                             ELSE Stop(r)
             conv == GetConvertedValue(fd, src, p)
             branch == FieldSource(fd, src)
         IN CASE branch = "skip" -> AssignFields(s, src, p, i + 1, fs, used)
              [] branch = "conflict" -> Stop(Err("Runtime", p, "default_and_transform"))
              [] branch = "transform" -> IF conv.ok THEN Assign(Validated(fd.type, conv.val, fp), used \cup {fd.name})
                                         ELSE Stop(conv)
              [] branch = "direct" -> Assign(Validated(fd.type, SourceGet(src, fd.name), fp), used \cup {fd.name})
              [] branch = "default" -> Assign(Validated(fd.type, DefaultOf(fd), fp), used)
              [] branch = "missing" -> Stop(Err("Schema", p, "missing_attribute"))

\* SchemaNode.__init__(source, object_path=p) of schema s.
Construct(s, source, p) ==
    LET src == IF source.t = "none" THEN VDict(<<>>) ELSE source
        prev == IF Previous[s] = <<>> THEN Ok(src) ELSE Construct(Previous[s][1], src, p)
        a == AssignFields(s, prev.val, p, 1, <<>>, {})
        unused == {k \in DictKeys(prev.val) : k.v \notin a.used}
        node == VNode(s, a.fields, src)
    IN IF ~prev.ok THEN prev
       ELSE IF ~a.r.ok THEN a.r
       ELSE IF prev.val.t = "dict" /\ unused # {} THEN Err("Schema", p, "unused_keys")
       ELSE IF ValidateRaises(s, node) THEN Err("Schema", p, "validate")
       ELSE Ok(node)

-----------------------------------------------------------------------------
(* The caller *)

Init ==
    /\ schema \in Roots
    /\ doc \in Docs
    /\ result = NoResult

\* SchemaNode(doc): one synchronous constructor call.
Instantiate ==
    /\ result = NoResult
    /\ result' = Construct(schema, doc, <<>>)
    /\ UNCHANGED <<schema, doc>>

Next == Instantiate

Spec == Init /\ [][Next]_vars

-----------------------------------------------------------------------------
(* Reference: the documents the spec's contract (spec.md 4.2, 4.3) lets a  *)
(* schema accept.  Necessary conditions only: the code may reject more.   *)

RECURSIVE Accepts(_, _), SchemaAccepts(_, _), DeclaredFields(_)

\* The fields of s as a dataclass declares them (the SchemaNode docstring):
\* those s inherits from its base schema first, then its own annotations.
DeclaredFields(s) ==
    IF Bases[s] = <<>> THEN Fields[s] ELSE DeclaredFields(Bases[s][1]) \o Fields[s]

Accepts(t, x) ==
    CASE t.k = "none"    -> x.t = "none"
      [] t.k = "union"   -> \E i \in DOMAIN t.args : Accepts(t.args[i], x)
      [] t.k = "int"     -> x.t \in {"int", "custom"}
      [] t.k = "str"     -> x.t \in {"str", "int", "float", "custom"}
      [] t.k = "bool"    -> x.t = "bool"
      [] t.k = "literal" -> x = t.arg
      [] t.k = "dict"    -> x.t = "dict" /\ \A i \in DOMAIN x.v :
                                Accepts(t.key, x.v[i][1]) /\ Accepts(t.val, x.v[i][2])
      [] t.k = "list"    -> x.t \in {"list", "tuple"} /\ \A i \in DOMAIN x.v : Accepts(t.arg, x.v[i])
      [] t.k = "tuple"   -> x.t \in {"list", "tuple"} /\
                                \A i \in 1..MinOf(Len(t.args), Len(x.v)) : Accepts(t.args[i], x.v[i])
      [] t.k = "custom"  -> (x.t = "custom" /\ x.v.c = t.arg) \/ x \in CustomAccepts[t.arg]
      [] t.k = "schema"  -> (x.t = "node" /\ x.v.s = t.arg) \/ (x.t = "dict" /\ SchemaAccepts(t.arg, x))
      [] OTHER           -> FALSE

\* A mapping document conforms to schema s: every key names a field, every
\* present field, its own or inherited, conforms, every absent field has a
\* default, is optional or is computed, and the _validate hook holds; a
\* chained schema needs its
\* document to conform to the schema it is built on.
SchemaAccepts(s, d) ==
    IF Previous[s] # <<>> THEN SchemaAccepts(Previous[s][1], d)
    ELSE LET F == {DeclaredFields(s)[i] : i \in DOMAIN DeclaredFields(s)}
             ValueOf(fd) == IF SourceHas(d, fd.name) THEN SourceGet(d, fd.name) ELSE DefaultOf(fd)
         IN /\ \A k \in DictKeys(d) : \E fd \in F : fd.name = k.v /\ ~IsInternalFieldName(fd.name)
            /\ \A fd \in F : IsInternalFieldName(fd.name) \/ fd.transform # <<>> \/
                   IF SourceHas(d, fd.name) THEN Accepts(fd.type, SourceGet(d, fd.name))
                   ELSE (HasAttr(fd) \/ IsOptional(fd.type)) /\ Accepts(fd.type, DefaultOf(fd))
            /\ Check[s] # <<>> =>
                   \A fd \in F : fd.name = Check[s][1].field =>
                       ValueOf(fd).t = "int" /\ ValueOf(fd).v >= Check[s][1].min

RECURSIVE TypeDefective(_), SchemaDefective(_)

\* A declaration the validator has no case for, or that it cannot carry out.
TypeDefective(t) ==
    CASE t.k \in {"float", "class"}  -> TRUE
      [] t.k \in {"union", "tuple"}  -> \E i \in DOMAIN t.args : TypeDefective(t.args[i])
      [] t.k = "list"                -> TypeDefective(t.arg)
      [] t.k = "dict"                -> TypeDefective(t.key) \/ TypeDefective(t.val)
      [] t.k = "schema"              -> SchemaDefective(t.arg)
      [] OTHER                       -> FALSE

\* A schema-definition defect (spec.md 3 and 7): default and transformation
\* together, a transformation of unsupported arity, a field name that
\* collides with SchemaNode's own attributes, or a defective type.
SchemaDefective(s) ==
    \/ \E i \in DOMAIN Fields[s] :
         LET fd == Fields[s][i] IN
         \/ fd.default # <<>> /\ fd.transform # <<>>
         \/ fd.transform # <<>> /\ fd.transform[1].arity \notin {1, 2}
         \/ fd.transform = <<>> /\ fd.name \in {SourceName, ValidateName}
         \/ TypeDefective(fd.type)
    \/ Previous[s] # <<>> /\ SchemaDefective(Previous[s][1])


-----------------------------------------------------------------------------
(* Properties *)

\* Type invariant: the constructor either raises one of the exception
\* classes the code can raise, or returns an instance of the schema that
\* was called whose attributes are exactly its non-internal fields.
TypeOK ==
    /\ schema \in Roots
    /\ doc \in Docs
    /\ result.ok \in BOOLEAN
    /\ result # NoResult /\ ~result.ok => result.exc \in Exceptions
    /\ result.ok =>
         /\ result.val.t = "node"
         /\ result.val.v.s = schema
         /\ DOMAIN result.val.v.f =
              {Fields[schema][i].name : i \in {j \in DOMAIN Fields[schema] :
                                              ~IsInternalFieldName(Fields[schema][j].name)}}

\* Every document SchemaNode.__init__ accepts conforms to the schema as
\* spec.md 4.2 and 4.3 describe it: no bool taken for an int or a str, no
\* key left unused, no required field missing, the _validate hook and the
\* previous schema of a chain satisfied, sequences given where declared.
AcceptedDocsConform ==
    result.ok => Accepts(TSchema(schema), IF doc.t = "none" THEN VDict(<<>>) ELSE doc)

\* Validating a value the constructor produced, against the type of its
\* field, succeeds and gives back the same value (spec.md 8, idempotence).
Idempotent ==
    result.ok =>
        \A i \in DOMAIN Fields[schema] :
            LET fd == Fields[schema][i]
                r == Validated(fd.type, result.val.v.f[fd.name], <<>>)
            IN ~IsInternalFieldName(fd.name) => r.ok /\ r.val = result.val.v.f[fd.name]

\* For a schema without definition defects, everything the constructor
\* raises is a SchemaException carrying a path (spec.md 7): malformed
\* operator input never surfaces as another exception class.
OperatorErrorsOnly ==
    result # NoResult /\ ~SchemaDefective(schema) => result.ok \/ result.exc = "Schema"

\* A missing required field is reported at the path of that field, e.g.
\* /port for a missing port (spec.md 8, required-field absence).
MissingFieldAtItsPath ==
    result.why = "missing_attribute" =>
        result.path # <<>> /\ result.path[Len(result.path)][1] = "/"


\* The document a constructor call actually reads: None is read as {}.
Normalized(d) == IF d.t = "none" THEN VDict(<<>>) ELSE d

\* The outcome of the constructor call, as the caller tells it apart.
Verdict ==
    IF result = NoResult THEN "pending" ELSE IF result.ok THEN "accepted" ELSE "rejected"

DocConforms(s, d) == SchemaAccepts(s, Normalized(d))

Abstract == INSTANCE ConfigValidation WITH verdict <- Verdict, Conforms <- DocConforms

\* SchemaNode(doc) implements the abstract constructor call: it accepts
\* exactly the documents that conform to the schema, in one step.
ValidationRefines == Abstract!Spec

RECURSIVE ConflictDeclared(_)

\* A field of s, or of the schema s is built on, declares both a default
\* value and a transformation function (spec.md 3).
ConflictDeclared(s) ==
    \/ \E i \in DOMAIN Fields[s] : Fields[s][i].default # <<>> /\ Fields[s][i].transform # <<>>
    \/ Previous[s] # <<>> /\ ConflictDeclared(Previous[s][1])

\* Schema-definition defects are never blamed on the operator's document
\* (spec.md 3, 4.2 and 8): a schema declaring a default together with a
\* transformation aborts every call with a defect diagnostic, before any
\* field is checked; a conforming document is never rejected with a
\* SchemaException, whatever the field names or the nesting.
DefectsReportedAsDefects ==
    result # NoResult =>
        /\ ConflictDeclared(schema) => ~result.ok /\ result.exc # "Schema"
        /\ DocConforms(schema, doc) /\ ~result.ok => result.exc # "Schema"

=============================================================================
