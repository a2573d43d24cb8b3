------------------------------- MODULE Health -------------------------------
(***************************************************************************)
(* The probes of the server (infrastructure/server/http.ts) over the       *)
(* registry of checkers (infrastructure/telemetry/health.ts).  A probe     *)
(* runs all checkers of its list at once and races them against a timer;   *)
(* a checker asks its dependency and waits for as long as that takes, also *)
(* when its probe has been answered.                                       *)
(*                                                                         *)
(* Lifecycle composes these actions with the server they belong to: it     *)
(* says when a probe can arrive, closes the clients of the dependencies    *)
(* and cuts connections.                                                   *)
(***************************************************************************)
EXTENDS Integers

CONSTANT Probes     \* GETs of /healthz and /readyz

Dependencies == {"DB", "Valkey"}

VARIABLES
    path,           \* what each probe asks for
    dependency,     \* "up", "down" (it rejects) or "silent" (it does not answer)
    ended,          \* the resources that the server has closed or is closing
    pc,             \* where the handler of each client is; of a probe: "idle", "racing", "over"
    heard,          \* what each client has heard: "nothing", "closed" or an answer
    check           \* how far each check of each probe is

(* Recorded for the properties: the dependencies that were up, and not     *)
(* closed by the server, at some time between the arrival of a probe and   *)
(* its answer.                                                             *)
VARIABLE seenUp

(* No register adds a liveness checker; db and valkey add one each for     *)
(* readiness.                                                              *)
Liveness == {}
Readiness == {"DB", "Valkey"}

Checkers(p) == IF path[p] = "/healthz" THEN Liveness ELSE Readiness

NotOk(p) == IF path[p] = "/healthz" THEN "500" ELSE "503"

Usable == {d \in Dependencies \ ended : dependency[d] = "up"}

Running(p) == {d \in Dependencies : check[p][d] = "running"}
Rejected(p) == {d \in Dependencies : check[p][d] = "rejected"}

ProbesInit ==
    /\ path \in [Probes -> {"/healthz", "/readyz"}]
    /\ dependency \in [Dependencies -> {"up", "down", "silent"}]
    /\ check = [p \in Probes |-> [d \in Dependencies |-> "none"]]
    /\ seenUp = [p \in Probes |-> {}]

----------------------------------------------------------------------------
(* The client of a connection that has been closed hears nothing more. *)
Reply(r, answer) ==
    /\ pc' = [pc EXCEPT ![r] = "over"]
    /\ heard' = [heard EXCEPT ![r] = IF @ = "closed" THEN @ ELSE answer]

Answer(p, code) == Reply(p, code) /\ UNCHANGED <<path, dependency, check, seenUp>>

(* Variant: every probe runs all checkers there are.                       *)
ProbeRunsEverything(p) ==
    /\ pc[p] = "idle"
    /\ pc' = [pc EXCEPT ![p] = "racing"]
    /\ check' = [check EXCEPT ![p] = [d \in Dependencies |-> "running"]]
    /\ seenUp' = [seenUp EXCEPT ![p] = Usable]
    /\ UNCHANGED <<path, dependency, heard>>

(* The handler, up to its await: every checker has sent its command, and   *)
(* the timer runs.  A client that has been closed rejects at once.         *)
Probe(p) ==
    /\ pc[p] = "idle"
    /\ pc' = [pc EXCEPT ![p] = "racing"]
    /\ check' = [check EXCEPT ![p] = [d \in Dependencies |->
            IF d \notin Checkers(p) THEN "none"
            ELSE IF d \in ended THEN "rejected" ELSE "running"]]
    /\ seenUp' = [seenUp EXCEPT ![p] = Usable]
    /\ UNCHANGED <<path, dependency, heard>>

(* SELECT 1 or PING is answered, sooner or later, or never. *)
CheckEnds(p, d) ==
    /\ d \in Running(p) /\ dependency[d] # "silent"
    /\ check' = [check EXCEPT ![p][d] = IF dependency[d] = "up" THEN "resolved" ELSE "rejected"]
    /\ UNCHANGED <<path, dependency, pc, heard, seenUp>>

(* Variant: the first check that resolves decides (Promise.any).           *)
ChecksSettleOnFirst(p) ==
    /\ pc[p] = "racing"
    /\ \/ Checkers(p) = {} /\ Answer(p, "200")
       \/ (\E d \in Checkers(p) : check[p][d] = "resolved") /\ Answer(p, "200")
       \/ Checkers(p) # {} /\ Rejected(p) = Checkers(p) /\ Answer(p, NotOk(p))

(* allSettled: the last check decides when, all of them decide what.       *)
ChecksSettle(p) ==
    /\ pc[p] = "racing" /\ Running(p) = {}
    /\ \/ Rejected(p) = {} /\ Answer(p, "200")
       \/ Rejected(p) # {} /\ Answer(p, NotOk(p))

(* Variant: the timer is started when the checks are through.              *)
TimerFiresAfterChecks(p) ==
    /\ pc[p] = "racing" /\ Running(p) = {} /\ Rejected(p) # {}
    /\ Answer(p, NotOk(p))

(* A promise that is settled is handled before any timer. *)
TimerFires(p) ==
    /\ pc[p] = "racing" /\ Running(p) # {}
    /\ Answer(p, NotOk(p))

ProbeGoesOn(p) ==
    ChecksSettle(p) \/ TimerFires(p) \/ \E d \in Dependencies : CheckEnds(p, d)

Turns(d, how) ==
    /\ dependency[d] # how
    /\ dependency' = [dependency EXCEPT ![d] = how]
    /\ seenUp' = [p \in Probes |->
            IF pc[p] = "racing" /\ how = "up" /\ d \notin ended
            THEN seenUp[p] \cup {d} ELSE seenUp[p]]
    /\ UNCHANGED <<path, pc, heard, check>>

(* Nothing of the process is waiting for d, and d would answer a farewell. *)
Quiet(d) == dependency[d] # "silent" /\ \A p \in Probes : d \notin Running(p)
=============================================================================
