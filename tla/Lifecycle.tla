----------------------------- MODULE Lifecycle -----------------------------
(***************************************************************************)
(* The life of a server process: the layers it builds at startup (app.ts), *)
(* the signals that end it, and Application.stop, which drains the HTTP    *)
(* server and closes the database, Valkey and the tracer while requests    *)
(* are still running.                                                      *)
(*                                                                         *)
(* Signals come at any time and in any number.  Every one that is let      *)
(* through runs a stop of its own, so that the model can say what it would *)
(* mean if two ran.  Time is one bit: whether app.shutdown_timeout has     *)
(* passed since the drain began.                                           *)
(***************************************************************************)
EXTENDS Health, Sequences, FiniteSets

CONSTANTS
    Requests,       \* requests of the features that reach the server at some time
    KeptAlive       \* clients whose connections are open when the drain begins

Clients == Requests \cup Probes

ASSUME LifecycleAssumption == Requests \cap Probes = {} /\ KeptAlive \subseteq Clients

VARIABLES
    boot,           \* the number of the layer that is being built
    registered,     \* the keys of the container
    exit,           \* "running", or how the process ended
    shuttingDown,   \* the guard of the signal handler
    stops,          \* where each stop is, in the order in which they began
    late,           \* the drain has reached its deadline
    listening,      \* new connections are accepted
    forced          \* all connections have been closed by force

(* Recorded for the properties: the order of the closes, and the requests  *)
(* and probes that came before the database was closed.                    *)
VARIABLES closes, early

process == <<boot, registered, exit, shuttingDown, stops, late, listening, forced, ended>>
health == <<path, dependency, check, seenUp>>
vars == <<process, pc, heard, closes, early, health>>

(* A layer throws without what it needs; what it merely uses it looks up   *)
(* with tryResolve, and does without.  The tracer is registered only if    *)
(* there is an exporter.  All features are enabled.                        *)
Layer(needs, uses, provides, optional) ==
    [needs |-> needs, uses |-> uses, provides |-> provides, optional |-> optional]

ConfigLayer    == Layer({}, {}, {"Config"}, {})
TelemetryLayer == Layer({"Config"}, {}, {"Logger", "Meter", "HealthRegistry"}, {"Tracer"})
DBLayer        == Layer({"Config", "HealthRegistry"}, {}, {"DB"}, {})
ValkeyLayer    == Layer({"Config", "HealthRegistry"}, {}, {"Valkey", "CacheAside"}, {})
ServerLayer    == Layer({"Config", "Logger", "HealthRegistry"}, {}, {"App", "Application"}, {})
CatalogLayer   == Layer({"Config", "DB", "App"}, {"CacheAside"}, {"CatalogRouter"}, {})
MachinesLayer  == Layer({"Config", "DB", "App"}, {}, {"MachinesRouter"}, {})
SalesLayer     == Layer({"Config", "DB", "App"}, {}, {"SalesRouter"}, {})
ReportingLayer == Layer({"Config", "DB", "App"}, {}, {"ReportingRouter"}, {})
ServeLayer     == Layer({"Application", "Logger", "App"}, {}, {}, {})

Features == <<CatalogLayer, MachinesLayer, SalesLayer, ReportingLayer>>

(* Variant: the features before the resource they can do without.          *)
LayersFeaturesEarly ==
    <<ConfigLayer, TelemetryLayer, DBLayer, ServerLayer>> \o Features
        \o <<ValkeyLayer, ServeLayer>>

Layers ==
    <<ConfigLayer, TelemetryLayer, DBLayer, ValkeyLayer, ServerLayer>> \o Features
        \o <<ServeLayer>>

Busy == {"handling", "inTransaction", "racing"}

Init ==
    /\ boot = 1 /\ registered = {} /\ exit = "running" /\ shuttingDown = FALSE
    /\ stops = <<>>
    /\ late = FALSE /\ listening = FALSE /\ forced = FALSE
    /\ ended = {} /\ closes = <<>> /\ early = {}
    /\ pc = [r \in Clients |-> "idle"]
    /\ heard = [r \in Clients |-> "nothing"]
    /\ ProbesInit

Up == boot > Len(Layers)

(* Bun's pendingRequests. *)
Pending == {r \in Clients : pc[r] \in Busy /\ heard[r] = "nothing"}

(* The connections of these clients are closed. *)
CutOff(R) == heard' = [r \in Clients |-> IF r \in R THEN "closed" ELSE heard[r]]

(* process.exit, or death: nothing of the process remains. *)
ExitWith(how) == exit' = how /\ listening' = FALSE /\ CutOff(Pending)

----------------------------------------------------------------------------
(* Startup. *)

(* The layers of the database and of Valkey wait for an answer.  The last  *)
(* layer is Application.start, which nothing separates from the            *)
(* installation of the signal handlers.                                    *)
BuildLayer ==
    /\ exit = "running" /\ ~Up /\ Layers[boot].needs \subseteq registered
    /\ \A d \in Layers[boot].provides \cap Dependencies : dependency[d] = "up"
    /\ boot' = boot + 1
    /\ \E optional \in SUBSET Layers[boot].optional :
           registered' = registered \cup Layers[boot].provides \cup optional
    /\ listening' = (boot = Len(Layers))
    /\ UNCHANGED <<exit, shuttingDown, stops, late, forced, ended, pc, heard, closes, early, health>>

(* A layer fails, main logs and exits. *)
LayerFails ==
    /\ exit = "running" /\ ~Up
    /\ ExitWith("1")
    /\ UNCHANGED <<boot, registered, shuttingDown, stops, late, forced, ended, pc, closes, early, health>>

(* There is no handler yet. *)
KilledAtStartup ==
    /\ exit = "running" /\ ~Up
    /\ ExitWith("killed")
    /\ UNCHANGED <<boot, registered, shuttingDown, stops, late, forced, ended, pc, closes, early, health>>

----------------------------------------------------------------------------
(* Shutdown. *)

(* Variant: a second signal is not ignored.                                *)
SignalUnguarded ==
    /\ exit = "running" /\ Up /\ Len(stops) < 2
    /\ stops' = Append(stops, "draining")
    /\ shuttingDown' = TRUE /\ listening' = FALSE
    /\ UNCHANGED <<boot, registered, exit, late, forced, ended, pc, heard, closes, early, health>>

(* The handler, up to the first poll of stopServer; the server may fail to *)
(* stop, which ends the process.  A signal during a shutdown does nothing. *)
Signal ==
    /\ exit = "running" /\ Up /\ ~shuttingDown
    /\ stops' = Append(stops, "draining")
    /\ shuttingDown' = TRUE
    /\ \/ listening' = FALSE /\ UNCHANGED <<exit, heard>>
       \/ ExitWith("1")
    /\ UNCHANGED <<boot, registered, late, forced, ended, pc, closes, early, health>>

DeadlinePasses ==
    /\ exit = "running" /\ ~late /\ \E s \in DOMAIN stops : stops[s] = "draining"
    /\ late' = TRUE
    /\ UNCHANGED <<boot, registered, exit, shuttingDown, stops, listening, forced, ended>>
    /\ UNCHANGED <<pc, heard, closes, early, health>>

(* The next close is called as soon as the one before has ended. *)
Close(s, resource, to) ==
    /\ stops' = [stops EXCEPT ![s] = to]
    /\ ended' = ended \cup {resource}
    /\ closes' = Append(closes, resource)

(* Variant: the drain waits for every request.                             *)
DrainWithoutDeadline(s) ==
    /\ exit = "running" /\ stops[s] = "draining"
    /\ Pending = {}
    /\ forced' = FALSE /\ UNCHANGED heard
    /\ Close(s, "DB", "closingDB")
    /\ UNCHANGED <<boot, registered, exit, shuttingDown, late, listening, pc, early, health>>

(* Variant: the drain is not awaited.                                      *)
DrainNotAwaited(s) ==
    /\ exit = "running" /\ stops[s] = "draining"
    /\ forced' = FALSE /\ UNCHANGED heard
    /\ Close(s, "DB", "closingDB")
    /\ UNCHANGED <<boot, registered, exit, shuttingDown, late, listening, pc, early, health>>

(* The poll that ends the drain: nothing is pending, or the deadline has   *)
(* passed and what is pending is cut off.                                  *)
DrainEnds(s) ==
    /\ exit = "running" /\ stops[s] = "draining"
    /\ Pending = {} \/ late
    /\ forced' = (Pending # {}) /\ CutOff(Pending)
    /\ Close(s, "DB", "closingDB")
    /\ UNCHANGED <<boot, registered, exit, shuttingDown, late, listening, pc, early, health>>

(* Variant: handle.end() is not awaited.                                   *)
DatabaseNotAwaited(s) ==
    /\ exit = "running" /\ stops[s] = "closingDB"
    /\ Close(s, "Valkey", "closingValkey")
    /\ UNCHANGED <<boot, registered, exit, shuttingDown, late, listening, forced, pc, heard, early, health>>

(* sql.end() lets the transactions and the checks that are open come to    *)
(* their end.  The failure of a close is logged, and stop goes on.         *)
DatabaseClosed(s) ==
    /\ exit = "running" /\ stops[s] = "closingDB"
    /\ Quiet("DB") /\ \A r \in Requests : pc[r] # "inTransaction"
    /\ Close(s, "Valkey", "closingValkey")
    /\ UNCHANGED <<boot, registered, exit, shuttingDown, late, listening, forced, pc, heard, early, health>>

(* Variant: the tracer is taken to be there.                               *)
ValkeyClosedUnchecked(s) ==
    /\ exit = "running" /\ stops[s] = "closingValkey"
    /\ Close(s, "Tracer", "closingTracer")
    /\ UNCHANGED <<boot, registered, exit, shuttingDown, late, listening, forced, pc, heard, early, health>>

(* QUIT is answered after the PINGs before it.  The tracer is shut down if *)
(* there is one.                                                           *)
ValkeyClosed(s) ==
    /\ exit = "running" /\ stops[s] = "closingValkey" /\ Quiet("Valkey")
    /\ \/ /\ "Tracer" \in registered /\ Close(s, "Tracer", "closingTracer")
          /\ UNCHANGED <<exit, listening, heard>>
       \/ /\ "Tracer" \notin registered
          /\ stops' = [stops EXCEPT ![s] = "stopped"] /\ ExitWith("0")
          /\ UNCHANGED <<ended, closes>>
    /\ UNCHANGED <<boot, registered, shuttingDown, late, forced, pc, early, health>>

TracerClosed(s) ==
    /\ exit = "running" /\ stops[s] = "closingTracer"
    /\ stops' = [stops EXCEPT ![s] = "stopped"] /\ ExitWith("0")
    /\ UNCHANGED <<boot, registered, shuttingDown, late, forced, ended, pc, closes, early, health>>

----------------------------------------------------------------------------
(* Requests. *)

Reachable(r) ==
    exit = "running" /\ Up /\ (listening \/ (r \in KeptAlive /\ ~forced))

Record(r) == early' = IF "DB" \in ended THEN early ELSE early \cup {r}

Arrive(r) ==
    /\ Reachable(r) /\ pc[r] = "idle"
    /\ pc' = [pc EXCEPT ![r] = "handling"] /\ Record(r)
    /\ UNCHANGED <<process, heard, closes, health>>

(* A database that is down rejects the BEGIN. *)
Begin(r) ==
    /\ exit = "running" /\ pc[r] = "handling"
    /\ "DB" \notin ended /\ dependency["DB"] # "down"
    /\ pc' = [pc EXCEPT ![r] = "inTransaction"]
    /\ UNCHANGED <<process, heard, closes, early, health>>

(* The transaction is committed or rolled back. *)
End(r) ==
    /\ exit = "running" /\ pc[r] = "inTransaction" /\ dependency["DB"] # "silent"
    /\ pc' = [pc EXCEPT ![r] = "handling"]
    /\ UNCHANGED <<process, heard, closes, early, health>>

Return(r) ==
    /\ exit = "running" /\ pc[r] = "handling" /\ Reply(r, "answer")
    /\ UNCHANGED <<process, closes, early, health>>

(* The closed database rejects the next statement. *)
Refused(r) ==
    /\ exit = "running" /\ pc[r] = "handling" /\ "DB" \in ended /\ Reply(r, "refused")
    /\ UNCHANGED <<process, closes, early, health>>

ProbeArrives(p) ==
    /\ Reachable(p) /\ Probe(p) /\ Record(p)
    /\ UNCHANGED <<process, closes>>

ProbeProceeds(p) ==
    /\ exit = "running" /\ ProbeGoesOn(p)
    /\ UNCHANGED <<process, closes, early>>

DependencyTurns(d, how) ==
    /\ exit = "running" /\ Turns(d, how)
    /\ UNCHANGED <<process, closes, early>>

Next ==
    \/ BuildLayer \/ LayerFails
    \/ KilledAtStartup \/ Signal \/ DeadlinePasses
    \/ \E s \in DOMAIN stops :
           DrainEnds(s) \/ DatabaseClosed(s) \/ ValkeyClosed(s) \/ TracerClosed(s)
    \/ \E r \in Requests : Arrive(r) \/ Begin(r) \/ End(r) \/ Return(r) \/ Refused(r)
    \/ \E p \in Probes : ProbeArrives(p) \/ ProbeProceeds(p)
    \/ \E d \in Dependencies : \E how \in {"up", "down", "silent"} : DependencyTurns(d, how)

(* Time passes, polls go on, settled promises are handled; the database,   *)
(* Valkey and the exporter answer unless they are silent, which they may   *)
(* be for ever.  Handlers may hang for ever.                               *)
Fairness ==
    /\ WF_vars(DeadlinePasses)
    /\ WF_vars(\E s \in DOMAIN stops :
          DrainEnds(s) \/ DatabaseClosed(s) \/ ValkeyClosed(s) \/ TracerClosed(s))
    /\ \A r \in Requests : WF_vars(End(r))
    /\ \A p \in Probes : WF_vars(ProbeProceeds(p))

Spec == Init /\ [][Next]_vars /\ Fairness

----------------------------------------------------------------------------
(***************************************************************************)
(* Properties.                                                             *)
(***************************************************************************)
TypeOK ==
    /\ boot \in 1 .. Len(Layers) + 1
    /\ exit \in {"running", "0", "1", "killed"}
    /\ stops \in Seq({"draining", "closingDB", "closingValkey", "closingTracer", "stopped"})
    /\ {shuttingDown, late, listening, forced} \subseteq BOOLEAN
    /\ registered \subseteq
           UNION {Layers[i].provides \cup Layers[i].optional : i \in DOMAIN Layers}
    /\ ended \subseteq registered \cap {"DB", "Valkey", "Tracer"}
    /\ pc \in [Clients -> Busy \cup {"idle", "over"}]
    /\ \A r \in Requests : heard[r] \in {"nothing", "answer", "refused", "closed"}
    /\ \A p \in Probes : heard[p] \in {"nothing", "200", NotOk(p), "closed"}
    /\ early \subseteq Clients
    /\ path \in [Probes -> {"/healthz", "/readyz"}]
    /\ dependency \in [Dependencies -> {"up", "down", "silent"}]
    /\ check \in [Probes -> [Dependencies -> {"none", "running", "resolved", "rejected"}]]
    /\ \A p \in Probes : \A d \in Dependencies \ Checkers(p) : check[p][d] = "none"
    /\ seenUp \in [Probes -> SUBSET Dependencies]

(* No layer asks the container for what is not there yet.  For the cache   *)
(* of the catalog it would not even fail, but serve every read from the    *)
(* database without a word (features/catalog/di.ts).                       *)
LayersFindTheirNeeds ==
    exit = "running" /\ ~Up =>
        Layers[boot].needs \cup Layers[boot].uses \subseteq registered

(* A request or a probe that came before the closing began is cut off, or  *)
(* meets a closed database, only when the drain has run out of time; also  *)
(* if it came over a kept-alive connection in the middle of the drain      *)
(* (application.ts: the HTTP server is drained before anything is closed). *)
DrainProtectsRequests ==
    exit \in {"running", "0"} /\ ~late =>
        \A r \in early : heard[r] \notin {"refused", "closed"}

(* However late it is, a shutdown that exits with 0 has waited for every   *)
(* open transaction, also for those of requests it has cut off: none is    *)
(* left to be rolled back by the death of the process (closeDB).           *)
TransactionsEndBeforeExit ==
    exit = "0" => \A r \in Requests : pc[r] # "inTransaction"

(* However many signals come, each resource is closed once, and in the     *)
(* order of application.ts: database, Valkey, tracer.                      *)
ClosesInOrder ==
    /\ Len(closes) <= 3
    /\ closes = SubSeq(<<"DB", "Valkey", "Tracer">>, 1, Len(closes))

(* A server says that it is ready only if each of its dependencies was up, *)
(* and not yet closed by the server itself, at some time during the probe  *)
(* -- not all of them at the same time (http.ts, runCheckers).             *)
ReadyMeansSeenUp ==
    \A p \in Probes : path[p] = "/readyz" /\ heard[p] = "200" => seenUp[p] = Dependencies

(* Every probe is answered, or its connection is gone with the process,    *)
(* also when a dependency is silent for ever (withTimeout).                *)
ProbesAnswered ==
    \A p \in Probes : pc[p] = "racing" ~> (pc[p] = "over" \/ exit # "running")

(* A shutdown that has begun ends, even when a handler hangs, unless a     *)
(* dependency falls silent: only the drain has a time limit, the closes    *)
(* have none (application.ts).                                             *)
ShutdownEnds ==
    <>[](\A d \in Dependencies : dependency[d] # "silent")
        => (shuttingDown ~> exit # "running")
=============================================================================
