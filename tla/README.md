# TLA+ models of knot_resolver_manager

This directory holds TLA+ models of the Python manager of Knot Resolver and of its `setup.py` generator. It also holds the TLC configurations that check them, and `PROJECT.json`. That file:
- maps every modelled definition to the source lines it translates;
- lists the runs, the mutants, the findings and the hazards.

## The system and its parts

| Part | Source | Module | Status |
|---|---|---|---|
| Validator / coercer (`_validated_object_type`, `is_obj_type`) | `utils/modelling.py` 23-178 | `Modelling` | modelled |
| Schema construction (`SchemaNode.__init__`, `_assign_fields`, `_assign_default`, `_assign_field`, `_get_converted_value`, `__getitem__`, `__contains__`) | `utils/modelling.py` 184-389 | `Modelling`, `MCModelling`; abstract `ConfigValidation` | modelled |
| Type descriptors and custom leaf types (`utils/types.py`, `custom_types.py`, datamodel) | not under `src/` | `MCModelling` | partly: small stand-in schemas |
| Parsed tree (`utils/parsing.py`) | not under `src/` | `Modelling` | partly: a document is an ordered string-keyed map |
| Metrics export (`collect`, `_generate_instance_metrics`) | `statistics.py` | `Statistics`, `MCStatistics` | modelled |
| `KresManager.command_all`, worker lifecycle | not under `src/` | `Statistics` | partly: only what `collect` sees |
| `setup.py` generator patch | `scripts/poe-tasks/utils/create_setup.py` | `CreateSetup`, `MCCreateSetup` | partly: the text patch; poetry I/O left out |
| Generated `setup.py` | `src/manager/setup.py` | `MCCreateSetup` | partly: its requirement strings are an input of the `patch` run; the `setup()` call itself has no logic |

How they interact:
- The configuration pipeline parses YAML/JSON into a tree. It then builds a `SchemaNode` subclass from that tree.
- Construction is recursive. Each field is validated against its annotation by `_validated_object_type`, which may build nested `SchemaNode`s.
- A schema may name a `_PREVIOUS_SCHEMA`. In that case the tree is first built as that schema, and the result becomes the source of the next stage.
- Transformation functions `_<field>` compute fields from that source.
- Independently, the HTTP endpoint `/metrics` calls `collect()`. It asks every kresd worker for statistics through `command_all` and copies them into the process-global Prometheus registry.
- At build time, `create_setup.py` has poetry generate a `setup.py`, rewrites its requirement strings with a regular expression, and prints the result.

## Modules

### `Modelling.tla`: the schema engine

A Python value is a record `[t, v]`:
- scalars: `VNone`, `VBool`, `VInt`, `VStr`;
- `VFloat`;
- collections: `VList`, `VTuple`, and `VDict` (an insertion-ordered sequence of pairs);
- `VCustom` (an instance of a custom leaf type);
- `VNode` (a built `SchemaNode` with its fields and its `_source`).

Strings are sequences of one-character strings, because the code iterates over them in the List and Tuple cases. Type annotations are records built by `TInt`, `TUnion`, `TOptional`, `TList`, `TTuple`, `TDict`, `TLiteral`, `TEnum`, `TCustom`, `TSchema` and `TClass`.

Each result is a record `[ok, val, exc, path, why]`. `exc` is the Python exception class that escapes: Schema, Data, Type, Value, Key, Attribute or Runtime. `path` is the `object_path` in the message.

The code is translated as follows:
- **`Validated`** (RECURSIVE) is `_validated_object_type`. `ValidatorCase` gives its branches in the code's order.
  - Unions try their variants with `FirstVariant`. Like the code, this catches only SchemaException.
  - `List` and `Tuple` iterate with `Iter`. It gives characters for a string and keys for a dict, and raises TypeError otherwise.
  - `Tuple` truncates to the shorter length, as `zip` does.
  - The `Dict` case turns an AttributeError from below into "expected dict".
  - `int()` of a custom value that is not int-like raises (`IntOf`).
- **`Construct`** (RECURSIVE) is `SchemaNode.__init__`, which:
  1. normalises `None` to `{}`;
  2. runs the previous schema first;
  3. runs `AssignFields` (`_assign_fields`) over the fields in annotation order. `FieldSource` is the code's if/elif chain: internal skip, the default/transformation conflict, a transformation, a direct key, a default or Optional, and otherwise "missing";
  4. checks for unused keys (dict sources only);
  5. calls the `_validate` hook.
- **`GetConvertedValue`** is `_get_converted_value`. It dispatches on arity, passes self or a source to the transformation, and translates only ValueError and DataException.

The module's state is one constructor call: `schema`, `doc` and `result`. `Instantiate` is that call.

`Accepts` and `SchemaAccepts` are the reference, written from spec.md §4.2/§4.3 and not from the code. They say which documents conform to a schema. A default must itself conform, because the code validates defaults.

The constant `Bases` gives each schema its base schema (`<<>>` for none). The reference reads a schema's fields through `DeclaredFields`: the base's fields first, then the schema's own, as a dataclass declares them (the `SchemaNode` docstring). The code model ignores `Bases`, because `_assign_fields` reads only the class's own `__annotations__` (modelling.py:277). `MCModelling` assumes that a subclass has the same previous schema and `_validate` hook as its base, and no field name in common with it, so the two differ only in the inherited fields.

### `ConfigValidation.tla`: what a constructor call promises

This is an abstract one-step call: `Decide` sets `verdict` to "accepted" exactly when `Conforms(schema, doc)` holds, and to "rejected" otherwise.

`Modelling` instantiates it as `Abstract`:
- `verdict` is mapped from `result` (pending, accepted or rejected);
- `Conforms` becomes the reference `SchemaAccepts`.

`ValidationRefines == Abstract!Spec` then says that the code accepts exactly the conforming documents.

### `MCModelling.tla`: the instances

It declares seventeen small schemas:

| Schema | What it exercises |
|---|---|
| `Base` | an int field and a `_validate` hook |
| `Scalars` | a union and an Optional |
| `Choice` | a Literal with a default |
| `Collections` | a list and an optional tuple |
| `Nested` | a nested schema and a Dict of schemas |
| `Derived` | chained on `Base`, with a hidden field and a transformation |
| `Leafy` | custom leaf types; `Port` implements `__int__` |
| `FromLeafy` | a transformation with arity 2 over the previous stage |
| `Computed` | a transformation reading a key that may be missing |
| `Labelled` | a `Union[int, str]` field whose default is a custom string value |
| `Plain` | a single required int |
| `LiteralOne` | `Literal[1]` |
| `Conflicted` | a required int, then a field with both a default and a transformation |
| `Keyed` | `Dict[str, Sourced]` |
| `Sourced` | an optional int field named `source`, which collides with the instance attribute `_source` |
| `ValidateNamed` | an int field named `validate`, which collides with the method `_validate` |
| `Extended` | a subclass of `Plain` with an optional bool `b` |

The documents are `None`, `{}`, and every document of one or two keys `a`, `b` over fourteen values, plus `{source: 1}` and `{validate: 1}`: 228 documents. The values are None, booleans, 0 and 1, strings `""`, `"a"`, `"1"`, a float, lists, a tuple, and nested mappings (one of them holding an empty mapping).

### `Statistics.tla`: concurrent scrapes

`collect()` is an aiohttp coroutine. It has one suspension point, `await manager.command_all(...)` (statistics.py:136). After that, the loop, `_generate_instance_metrics` and `generate_latest` run without suspending. The model has three actions per scrape:
- `Collect` calls `collect()` and suspends.
- `Answer` is `command_all` completing, with one reply per running worker. Any subset of the replies may be `Malformed`, meaning `json.loads` or a metric key lookup will raise.
- `Resume` is the atomic rest of the call.
  - With no bad reply, it sets every answered worker's child and returns the exposition.
  - Otherwise it writes the workers the loop reached before the bad one, and then raises.
  - The loop order is `dict` order, which is not modelled, so any subset of the good replies may come before the bad one.

Workers act through `Serve`, `StopWorker` and `StartWorker`. Their counters and their restarts are bounded.

One counter per worker stands for all of that worker's metrics, because they are set together from one reply. A reading also carries an incarnation, a ghost count of restarts. It lets a property tell a legitimate reset from a counter going backwards. `seen` is a ghost: the last reading of each worker that a monitoring server received.


### `CreateSetup.tla`: the `setup.py` patch

`create_setup.py:62` runs `re.subn` with the pattern `('[^']+>=[^<>=,']*),<[^<>=,']*'` and the replacement group 1 followed by a quote. The script's comment says this removes upper bounds from dependencies but keeps them in the Python version.

The generated text is built from entries (`Text`), with the characters as one-character strings:
- dependencies `'n<constraints><marker>'`;
- the `'k': '<constraints>'` item of `python_requires`.

`Subn` is the regular-expression scan:
- `MatchAt` finds a match at each position. It takes the greedy `[^']+` (the last `>=` after which the rest matches), then the two `[^<>=,']*` runs (`RunEnd`) and the literal `,<` and `'` (`TailAt`).
- `Scan` walks the text the way `re.subn` does: it takes the leftmost match, skips past it without overlap, and copies every other character.

`Subn` was compared with Python's `re.subn` on all 2,568 generated texts and agrees on every one.

`MCCreateSetup` enumerates the inputs:
- one dependency with up to three constraints;
- or two entries (`python_requires` or a dependency, followed by a dependency) with up to two constraints each.

The constraint operators are `>=`, `<`, `<=` and `!=`, and a dependency may carry the environment marker `; n<1`.

The inputs also include `RepoSetup`, the requirement strings of the repository's generated `src/manager/setup.py`: its dependencies, which carry no constraints (two of the five stand for them all, since the pattern needs a `>=` inside a string), and `python_requires` `'>=3.8,<4.0'`. Python's `re.subn` makes no substitution on it, and neither does `Subn`.

## Runs

| Run | Expect | Checks | Shows |
|---|---|---|---|
| `contract` | pass | `TypeOK`, `AcceptedDocsConform`, `Idempotent` | For seven well-formed schemas, including chained and transformed ones, and all 228 documents: <br>• every accepted document conforms to the spec contract; <br>• the built node has exactly the non-internal fields; <br>• every produced value validates again to itself (spec.md §8). |
| `refinement` | pass | `ValidationRefines` | For the schemas without transformations or previous schemas (`Scalars`, `Choice`, `Nested`, `Leafy`, `Plain`), the constructor refines `ConfigValidation`: it accepts a document exactly when the document conforms. |
| `conformance` | violation | `ValidationRefines` | On `Collections`, `Labelled`, `LiteralOne` and `Extended`, Python semantics break accept-exactly-the-conforming-documents: <br>• `List[str]` accepts `"a"` as `["a"]`; <br>• `Labelled` rejects `{}`, because `int()` of the custom default raises something other than a SchemaException, so the union never tries `str`; <br>• `Literal[1]` accepts `True`; <br>• `Extended` ignores the inherited field `a`: it accepts `None` without `a` and rejects `{a: 1}` for an unused key. <br>TLC reports the first of these it meets; each was also confirmed with the roots restricted to that one schema. |
| `defects` | violation | `DefectsReportedAsDefects` | Schema-definition defects surface as errors in the document: <br>• `Conflicted` with `{}` fails with "missing a" before the conflict is checked (spec.md §8 says the conflict aborts every call); <br>• `Keyed`'s nested field `source` raises AttributeError, which the Dict case turns into "expected dict"; <br>• `ValidateNamed` with `{validate: 1}` computes the field with `_validate(source)`, gets None, and fails. |
| `operator_errors` | violation | `OperatorErrorsOnly` | `True` for `Optional[Tuple[int,int]]` raises TypeError. It is not a SchemaException, and the Optional does not catch it. |
| `missing_path` | violation | `MissingFieldAtItsPath` | A missing field is reported at the parent's path, not at `/field` as spec.md §8 says. |
| `exposure` | pass | `TypeOK`, `ExportsNeverAhead` | The metrics never run ahead of the workers. A reply is read before the await and applied after it, in any order, and perhaps only partly before a parse error. Even so, no reply, registry entry, exposition or reading the monitoring server saw holds a value the worker has not reached in that incarnation. The run has concurrent scrapes, restarts and malformed replies. |
| `monotonic` | violation | `CountersMonotonic` (action property) | Two overlapping scrapes resume in the opposite order of their replies, so the exported counter goes backwards with no restart. |
| `stale` | violation | `NoStaleSamples` | A stopped worker's labelled children are never removed, and it keeps being exported. |
| `patch` | pass | `PatchOnlyDropsUpperBounds` | The patch only deletes dependency upper bounds. `python_requires`, names, lower bounds and markers stay intact. |
| `upper_bounds` | violation | `NoUpperBoundsInDependencies` | Upper bounds survive the patch: `'n<1'`, `'n>=1,<=1'`, `'n<1,>=1'`, or one followed by a marker. |

Each violation run is a finding in `PROJECT.json`.

Each property of a passing run has a mutant: a plausible bug in the mapped code that TLC must catch.

| Property | Mutant |
|---|---|
| `TypeOK` (`contract`) | the internal-field skip dropped |
| `AcceptedDocsConform` | `isinstance` in place of `type() ==` |
| `Idempotent` | the custom pass-through dropped |
| `ValidationRefines` | the union gives up after its first variant |
| `TypeOK`, `ExportsNeverAhead` (`exposure`) | `.inc()` in place of `.set()` |
| `PatchOnlyDropsUpperBounds` | `[^']*` in place of `[^']+` |

## Bounds and why they suffice

- **Modelling.** The runs reach every branch of `_validated_object_type` except the float, enum and fallback branches. They also reach every arm of the field-source chain, including the default/transformation conflict and the name collisions with `_source` and `_validate`.
  - The documents cover each value kind against each annotation.
  - There are two fields, so ordering effects appear, such as a transformation reading another key.
  - One level of nesting and one level of chaining are enough, because the code treats deeper levels the same way.
- **Statistics.**
  - The safety runs use two workers and two scrapers, the least that show overlapping scrapes and per-worker effects. They bound counters to 1 and allow one restart per worker, with symmetry: 1.49 million states in about 40 s.
- **CreateSetup.**
  - Three constraints make the order of an upper and a lower bound, and a trailing third constraint, possible.
  - Two entries make a match across the closing quote of one string and the opening quote of the next possible, including after the `python_requires` key.

## Fairness

- `Modelling` and `CreateSetup` make one call per behaviour and then stop. Their cfgs say `CHECK_DEADLOCK FALSE` for that reason, and they need no fairness.
- `Statistics` checks only safety, so it assumes no fairness.
  - After the await, `collect()` runs to the end without blocking. A scrape therefore completes exactly when `manager.command_all` returns.
  - `command_all` is outside `src/`, and `collect()` sets no timeout of its own. Whether every scrape completes cannot be derived from this code.
  - A liveness property would either assume that `command_all` returns, and then hold by fairness alone, or fail for want of that assumption. Neither says anything about this code. The hazard at statistics.py:136 records this.

## Not modelled, and why

- YAML/JSON parsing and key normalisation (`utils/parsing.py`). These are not under `src/`. A document enters the model already parsed.
- The real `KresConfig` schema tree and its leaf types, outside `src/`. The stand-in schemas exercise the same engine paths.
- The Prometheus text format. The registry's contents are what the properties look at.
- Poetry's discovery and sdist building, and printing, in `create_setup.py`: pure I/O.
- The `setup()` call of the generated `setup.py`: a literal with no behaviour. Only its requirement strings are modelled.
- The fallback in a Union: the fallback for an unparseable type raises SchemaException, so a Union hides the "unparseable type" diagnostic (modelling.py:174). spec.md §9 leaves open whether a union keeps the reasons of its variants, so no property claims this is wrong.
- `get_unparsed_data`: a read-only accessor that changes no state.
- A reply missing a metric key tears one worker's metrics between two replies (statistics.py:98). The model keeps one reading per worker. A torn worker is overwritten by the next scrape that returns with it, so it shows only for a worker that stopped answering, which `stale` reports.
- The histogram `_sum` is never set (statistics.py:93 TODO). That is a constant value, not a behaviour.

## Open items

1. **Mapping keys that coerce to the same key** (modelling.py:123). Add a document such as `{1: x, "1": y}` and a property that no entry of the source is lost.
2. **Statistics.**
   - Add a refinement against an abstract registry that always holds the latest reading. The `monotonic` run shows the code does not refine it.
   - Split a worker's metrics into two groups to show torn updates.
