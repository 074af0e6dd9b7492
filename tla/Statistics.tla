----------------------------- MODULE Statistics -----------------------------
(***************************************************************************)
(* Metrics export of knot_resolver_manager:                                *)
(* src/manager/knot_resolver_manager/statistics.py.                        *)
(*                                                                         *)
(* collect() is an aiohttp handler coroutine: it awaits                    *)
(* manager.command_all() for the statistics of every kresd worker, then,   *)
(* with no further await, writes every worker's values into the process-   *)
(* global prometheus_client registry (_generate_instance_metrics) and     *)
(* renders the whole registry (exposition.generate_latest).  Several       *)
(* scrapes may be in flight at once, and workers are started, stopped and  *)
(* restarted by the manager meanwhile.                                     *)
(*                                                                         *)
(* All metrics of one worker are set together from one parsed reply, so    *)
(* one counter per worker stands for them.  A reading is the value a       *)
(* worker reported together with its incarnation (a ghost: how many times  *)
(* the worker has been restarted), so that properties can tell a restart   *)
(* from a counter going backwards.                                         *)
(***************************************************************************)
EXTENDS Integers, FiniteSets

CONSTANTS
    Instances,      \* the kresd workers (KresID)
    Scrapers,       \* concurrent HTTP requests for /metrics
    MaxCount,       \* bound on a worker's counter
    MaxRestarts,    \* bound on restarts of a worker
    Malformed       \* a reply that json.loads or a metric key lookup rejects

VARIABLES
    running,        \* workers the manager currently runs
    counter,        \* counter[i]: the statistic inside worker i
    incarnation,    \* incarnation[i]: restarts of worker i so far (ghost)
    registry,       \* registry[i]: the labelled child of worker i, or NoSample
    phase,          \* phase[s]: where the collect() call of scraper s is
    reply,          \* reply[s]: stats_raw, what command_all returned to s
    exposed,        \* exposed[s]: what generate_latest returned to s
    seen            \* seen[i]: the reading of i the monitoring server saw last (ghost)

vars == <<running, counter, incarnation, registry, phase, reply, exposed, seen>>

Reading == [val : 0..MaxCount, inc : 0..MaxRestarts]
NoSample == [val |-> -1, inc |-> -1]

-----------------------------------------------------------------------------

TypeOK ==
    /\ running \subseteq Instances
    /\ counter \in [Instances -> 0..MaxCount]
    /\ incarnation \in [Instances -> 0..MaxRestarts]
    /\ registry \in [Instances -> Reading \cup {NoSample}]
    /\ phase \in [Scrapers -> {"idle", "awaiting", "resumable", "returned", "raised"}]
    /\ \A s \in Scrapers : reply[s] \in [DOMAIN reply[s] -> Reading \cup {Malformed}]
    /\ \A s \in Scrapers : DOMAIN reply[s] \subseteq Instances
    /\ exposed \in [Scrapers -> [Instances -> Reading \cup {NoSample}]]
    /\ seen \in [Instances -> Reading \cup {NoSample}]

Init ==
    /\ running = Instances
    /\ counter = [i \in Instances |-> 0]
    /\ incarnation = [i \in Instances |-> 0]
    /\ registry = [i \in Instances |-> NoSample]
    /\ phase = [s \in Scrapers |-> "idle"]
    /\ reply = [s \in Scrapers |-> [i \in {} |-> NoSample]]
    /\ exposed = [s \in Scrapers |-> [i \in Instances |-> NoSample]]
    /\ seen = [i \in Instances |-> NoSample]

\* The worker answers a query and its statistics grow.
Serve(i) ==
    /\ i \in running
    /\ counter[i] < MaxCount
    /\ counter' = [counter EXCEPT ![i] = @ + 1]
    /\ UNCHANGED <<running, incarnation, registry, phase, reply, exposed, seen>>

\* The manager stops a worker.
StopWorker(i) ==
    /\ i \in running
    /\ running' = running \ {i}
    /\ UNCHANGED <<counter, incarnation, registry, phase, reply, exposed, seen>>

\* The manager starts a worker again: a fresh process, fresh statistics.
StartWorker(i) ==
    /\ i \notin running
    /\ incarnation[i] < MaxRestarts
    /\ running' = running \cup {i}
    /\ counter' = [counter EXCEPT ![i] = 0]
    /\ incarnation' = [incarnation EXCEPT ![i] = @ + 1]
    /\ UNCHANGED <<registry, phase, reply, exposed, seen>>

\* collect() is called and suspends in `await manager.command_all(cmd)`;
\* what an earlier call of the same scraper held is gone.
Collect(s) ==
    /\ phase[s] \in {"idle", "returned", "raised"}
    /\ phase' = [phase EXCEPT ![s] = "awaiting"]
    /\ reply' = [reply EXCEPT ![s] = [i \in {} |-> NoSample]]
    /\ exposed' = [exposed EXCEPT ![s] = [i \in Instances |-> NoSample]]
    /\ UNCHANGED <<running, counter, incarnation, registry, seen>>

\* command_all completes: one reply per running worker, each either the
\* worker's statistics or something the parsing in collect() will reject.
Answer(s) ==
    /\ phase[s] = "awaiting"
    /\ \E bad \in SUBSET running :
         reply' = [reply EXCEPT ![s] =
                     [i \in running |-> IF i \in bad THEN Malformed
                                        ELSE [val |-> counter[i], inc |-> incarnation[i]]]]
    /\ phase' = [phase EXCEPT ![s] = "resumable"]
    /\ UNCHANGED <<running, counter, incarnation, registry, exposed, seen>>

\* Mutant: Counter.inc() by the reported value in place of _value.set().
GeneratedInc(reg, stats, done) ==
    [i \in Instances |->
        IF i \in done
        THEN [val |-> (IF reg[i] = NoSample THEN 0 ELSE reg[i].val) + stats[i].val,
              inc |-> stats[i].inc]
        ELSE reg[i]]

\* _generate_instance_metrics for the workers in done: .set() of every
\* labelled child to the worker's values.
Generated(reg, stats, done) ==
    [i \in Instances |-> IF i \in done THEN stats[i] ELSE reg[i]]

\* The rest of collect(), which runs without suspending: the loop over
\* stats_raw in the order command_all returned it, then generate_latest.
\* A reply that does not parse raises out of the loop, after the workers
\* before it have been written to the registry.
Resume(s) ==
    /\ phase[s] = "resumable"
    /\ LET stats == reply[s]
           bad == {i \in DOMAIN stats : stats[i] = Malformed}
       IN \/ /\ bad = {}
             /\ registry' = Generated(registry, stats, DOMAIN stats)
             /\ exposed' = [exposed EXCEPT ![s] = registry']
             /\ seen' = [i \in Instances |-> IF registry'[i] = NoSample THEN seen[i] ELSE registry'[i]]
             /\ phase' = [phase EXCEPT ![s] = "returned"]
          \/ /\ bad # {}
             /\ \E before \in SUBSET (DOMAIN stats \ bad) :
                  registry' = Generated(registry, stats, before)
             /\ phase' = [phase EXCEPT ![s] = "raised"]
             /\ UNCHANGED <<exposed, seen>>
    /\ UNCHANGED <<running, counter, incarnation, reply>>

Next ==
    \/ \E i \in Instances : Serve(i) \/ StopWorker(i) \/ StartWorker(i)
    \/ \E s \in Scrapers : Collect(s) \/ Answer(s) \/ Resume(s)

Spec == Init /\ [][Next]_vars

-----------------------------------------------------------------------------
(* Properties *)

\* A reading is not older than another: same incarnation and no smaller
\* value, or a later incarnation (a restart may reset a counter).
NotOlder(new, old) ==
    \/ old = NoSample
    \/ new.inc > old.inc
    \/ new.inc = old.inc /\ new.val >= old.val

\* A reading is not ahead of worker i as it is now: from an earlier
\* incarnation, or from the current one with a value the worker has reached.
NotAhead(r, i) ==
    \/ r = NoSample
    \/ r.inc < incarnation[i]
    \/ r.inc = incarnation[i] /\ r.val <= counter[i]

\* The metrics never run ahead of the workers.  A reply read before the
\* await in collect() is written after it, possibly after the worker served
\* more, restarted, or was overwritten by a later scrape, and possibly only
\* partly before a reply fails to parse; still every value in a reply, in
\* the registry, in an exposition or seen by the monitoring server is one
\* the worker has actually reached in its incarnation.
ExportsNeverAhead ==
    \A i \in Instances :
        /\ NotAhead(registry[i], i)
        /\ NotAhead(seen[i], i)
        /\ \A s \in Scrapers :
             /\ NotAhead(exposed[s][i], i)
             /\ i \in DOMAIN reply[s] /\ reply[s][i] # Malformed => NotAhead(reply[s][i], i)

\* Prometheus counters never go backwards: successive scrapes show a
\* worker's counter no smaller than before, unless the worker restarted.
CountersMonotonic ==
    [][\A i \in Instances : NotOlder(seen'[i], seen[i])]_vars

\* A scrape exposes only workers that answered it: a worker the manager
\* stopped no longer appears in the metrics.
NoStaleSamples ==
    \A s \in Scrapers : phase[s] = "returned" =>
        \A i \in Instances : exposed[s][i] # NoSample => i \in DOMAIN reply[s]

=============================================================================
