---------------------------- MODULE CreateSetup ----------------------------
(***************************************************************************)
(* The patch step of src/scripts/poe-tasks/utils/create_setup.py: the      *)
(* setup.py text that poetry generates is rewritten by                     *)
(*                                                                         *)
(*   re.subn of the pattern  ( '[^']+>=[^<>=,']* ) ,<[^<>=,']* '        *)
(*   (spaces added), replacing each match by group 1                       *)
(*   followed by a quote (create_setup.py line 62),                        *)
(*                                                                         *)
(* "so that it does not contain upper bounds in dependencies (but it       *)
(* should contain them in python version)".  The text is a sequence of     *)
(* one-character strings, because the property is about the text.  The     *)
(* generated text is abstracted to its quoted requirement strings: the     *)
(* entries of install_requires and the python_requires item, joined as     *)
(* poetry prints them.  The I/O around the patch (locating poetry, building *)
(* the sdist blob, printing) is not modelled.                              *)
(***************************************************************************)
EXTENDS Integers, Sequences, SequencesExt

CONSTANTS
    Setups          \* the generated texts: sequences of entries (see Text)

VARIABLES
    entries,        \* the requirement entries poetry generated
    out             \* the text printed to stdout, <<>> before the patch

vars == <<entries, out>>

-----------------------------------------------------------------------------
(* Generated text *)

Q == "'"

\* A constraint "<op><version>"; one of an entry's comma-separated constraints.
Constraint(c) == c.op \o c.ver

\* An entry is [key, name, cons, marker]: key is TRUE for the
\* 'python_requires': '...' item, whose value has no project name.
Requirement(e) ==
    LET cs == [i \in DOMAIN e.cons |-> IF i = 1 THEN Constraint(e.cons[i])
                                       ELSE <<",">> \o Constraint(e.cons[i])]
    IN e.name \o FlattenSeq(cs) \o e.marker

Entry(e) ==
    (IF e.key THEN <<Q, "k", Q, ":", " ">> ELSE <<>>) \o <<Q>> \o Requirement(e) \o <<Q>>

\* The entries as poetry prints them, separated by ", ".
Text(es) ==
    FlattenSeq([i \in DOMAIN es |-> IF i = 1 THEN Entry(es[i]) ELSE <<",", " ">> \o Entry(es[i])])

-----------------------------------------------------------------------------
(* The regular expression *)

\* The last index of the run of characters outside the class starting at i
\* (i - 1 for an empty run): the greedy [^...]* of the pattern.
RunEnd(s, i, class) ==
    LET stops == {k \in i..Len(s) : s[k] \in class}
    IN IF stops = {} THEN Len(s) ELSE (CHOOSE k \in stops : \A m \in stops : k <= m) - 1

Bare == {"<", ">", "=", ",", Q}

\* The rest of the pattern after [^']+ when the ">=" is matched at j:
\* [^<>=,']*,<[^<>=,']*' (no backtracking helps, as the runs stop at the
\* very characters that must follow them).
TailAt(s, j) ==
    LET v1 == RunEnd(s, j + 2, Bare)
        v2 == RunEnd(s, v1 + 3, Bare)
    IN [ok |-> /\ v1 + 2 <= Len(s) /\ s[v1 + 1] = "," /\ s[v1 + 2] = "<"
               /\ v2 + 1 <= Len(s) /\ s[v2 + 1] = Q,
        group |-> v1, last |-> v2 + 1]

\* Mutant: [^']* in place of [^']+, so the name of the requirement may be empty.
MatchAtOptionalName(s, i) ==
    LET run == RunEnd(s, i + 1, {Q})
        js == {j \in i + 1..run - 1 : s[j] = ">" /\ s[j + 1] = "=" /\ TailAt(s, j).ok}
    IN IF s[i] = Q /\ js # {} THEN TailAt(s, CHOOSE j \in js : \A m \in js : m <= j)
       ELSE [ok |-> FALSE, group |-> 0, last |-> 0]

\* The match of the pattern starting at i: a quote, at least one non-quote
\* character, ">=": [^']+ is greedy, so the last ">=" of the quote-free run
\* after which the rest matches is taken.
MatchAt(s, i) ==
    LET run == RunEnd(s, i + 1, {Q})
        js == {j \in i + 2..run - 1 : s[j] = ">" /\ s[j + 1] = "=" /\ TailAt(s, j).ok}
    IN IF s[i] = Q /\ js # {} THEN TailAt(s, CHOOSE j \in js : \A m \in js : m <= j)
       ELSE [ok |-> FALSE, group |-> 0, last |-> 0]

RECURSIVE Scan(_, _, _)

\* re.subn from index i on: each leftmost match is replaced by group 1 and
\* a quote, and the search resumes after it.
Scan(s, i, acc) ==
    IF i > Len(s) THEN acc
    ELSE LET m == MatchAt(s, i)
         IN IF m.ok THEN Scan(s, m.last + 1, acc \o SubSeq(s, i, m.group) \o <<Q>>)
            ELSE Scan(s, i + 1, Append(acc, s[i]))

Subn(s) == Scan(s, 1, <<>>)

-----------------------------------------------------------------------------

Init ==
    /\ entries \in Setups
    /\ out = <<>>

\* The script: patch the generated text and print it.
Patch ==
    /\ out = <<>>
    /\ out' = Subn(Text(entries))
    /\ UNCHANGED entries

Next == Patch

Spec == Init /\ [][Next]_vars

-----------------------------------------------------------------------------
(* Reference: the rewrite the script's comment describes *)

IsUpper(c) == c.op \in {<<"<">>, <<"<", "=">>}

\* The entry with the constraints at the indices in drop removed.
Without(e, drop) ==
    [e EXCEPT !.cons = FlattenSeq([i \in DOMAIN e.cons |-> IF i \in drop THEN <<>> ELSE <<e.cons[i]>>])]

UpperIndices(e) == {i \in DOMAIN e.cons : IsUpper(e.cons[i])}

\* A dependency without any upper bound; python_requires as it was.
Unbounded(e) == IF e.key THEN e ELSE Without(e, UpperIndices(e))

-----------------------------------------------------------------------------
(* Properties *)

\* The patch only ever deletes upper bounds of dependencies: every entry
\* of the printed text is the generated one with some of its upper bounds
\* removed, its name, lower bounds and markers intact, and the
\* python_requires item is printed exactly as poetry generated it.
PatchOnlyDropsUpperBounds ==
    out # <<>> =>
        \E kept \in [DOMAIN entries -> SUBSET UNION {DOMAIN e.cons : e \in ToSet(entries)}] :
            /\ \A i \in DOMAIN entries : kept[i] \subseteq UpperIndices(entries[i])
            /\ \A i \in DOMAIN entries : entries[i].key => kept[i] = {}
            /\ out = Text([i \in DOMAIN entries |-> Without(entries[i], kept[i])])

\* No version upper bound is left in the dependency list, as the comment of
\* the script says.
NoUpperBoundsInDependencies ==
    out # <<>> => out = Text([i \in DOMAIN entries |-> Unbounded(entries[i])])

=============================================================================
