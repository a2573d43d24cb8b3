-------------------------- MODULE LifecycleProofs --------------------------
(***************************************************************************)
(* Startup, drain and shutdown for any requests, probes and kept-alive     *)
(* connections, any number of signals, and dependencies that fail at any   *)
(* moment.                                                                 *)
(***************************************************************************)
EXTENDS Lifecycle, SequenceTheorems, TLAPS

(* Everything a layer that has been built provides is in the container.    *)
Booted == \A i \in 1 .. boot - 1 : Layers[i].provides \subseteq registered

(* How far the closing has got when a stop is at a point.                  *)
Progress(stop) ==
    \/ stop = "draining" /\ closes = <<>> /\ ended = {}
    \/ stop = "closingDB" /\ closes = <<"DB">> /\ ended = {"DB"}
    \/ stop \in {"closingValkey", "stopped"} /\ closes = <<"DB", "Valkey">>
       /\ ended = {"DB", "Valkey"}
    \/ stop \in {"closingTracer", "stopped"} /\ closes = <<"DB", "Valkey", "Tracer">>
       /\ ended = {"DB", "Valkey", "Tracer"}

StopStates == {"draining", "closingDB", "closingValkey", "closingTracer", "stopped"}

(* There is one stop at most, however many signals come. *)
OneStop ==
    \/ ~shuttingDown /\ stops = <<>> /\ closes = <<>> /\ ended = {} /\ exit # "0"
    \/ /\ shuttingDown /\ Up
       /\ \E stop \in StopStates :
             stops = <<stop>> /\ Progress(stop) /\ (stop = "stopped" <=> exit = "0")

(* A client whose handler is running has heard nothing, or has lost its    *)
(* connection.                                                             *)
Told == {"nothing", "answer", "refused", "closed", "200", "500", "503"}

HeardAt ==
    /\ heard \in [Clients -> Told]
    /\ \A r \in Clients : /\ pc[r] \in Busy => heard[r] \in {"nothing", "closed"}
                          /\ pc[r] = "idle" => heard[r] = "nothing"

(* Valkey is closed when the database has let the last transaction end.    *)
TransactionsOver ==
    "Valkey" \in ended => \A r \in Requests : pc[r] # "inTransaction"

(* When the database is closed in time, who came before has been answered. *)
EarlyServed ==
    exit \in {"running", "0"} /\ ~late =>
        \A r \in early : /\ pc[r] # "idle" /\ heard[r] \notin {"refused", "closed"}
                         /\ "DB" \in ended => pc[r] = "over"

(* A check that may still be counted has seen its dependency up: a probe   *)
(* that was racing when the closing began has lost its connection, and one *)
(* that came later has been rejected by the closed database.               *)
ProbeSound(p) ==
    path[p] = "/readyz" =>
        /\ heard[p] = "200" => seenUp[p] = Dependencies /\ pc[p] = "over"
        /\ pc[p] = "racing" => \A d \in Dependencies : check[p][d] # "none"
        /\ pc[p] = "racing" /\ heard[p] = "nothing" /\ Rejected(p) = {} =>
              \A d \in Dependencies :
                  /\ d \notin ended
                  /\ check[p][d] = "resolved" \/ dependency[d] = "up" => d \in seenUp[p]

ProbesSound == \A p \in Probes : ProbeSound(p)

ServerInv == TypeOK /\ HeardAt /\ Booted /\ OneStop /\ TransactionsOver /\ EarlyServed

LifeInv == ServerInv /\ ProbesSound

----------------------------------------------------------------------------
(***************************************************************************)
(* The data: layers and closes.                                            *)
(***************************************************************************)
(* What the concatenation of two sequences consists of. *)
LEMMA Joined ==
    ASSUME NEW S, NEW s \in Seq(S), NEW t \in Seq(S)
    PROVE  /\ s \o t \in Seq(S) /\ Len(s \o t) = Len(s) + Len(t)
           /\ \A i \in 1 .. Len(s) : (s \o t)[i] = s[i]
           /\ \A i \in 1 .. Len(t) : (s \o t)[Len(s) + i] = t[i]
<1>1. Len(s) \in Nat /\ Len(t) \in Nat
  BY LenProperties
<1>2. /\ s \o t \in Seq(S) /\ Len(s \o t) = Len(s) + Len(t)
      /\ \A i \in 1 .. Len(s) + Len(t) :
            (s \o t)[i] = IF i <= Len(s) THEN s[i] ELSE t[i - Len(s)]
  BY ConcatProperties
<1>3. \A i \in 1 .. Len(s) : (s \o t)[i] = s[i]
  BY <1>1, <1>2
<1>4. \A i \in 1 .. Len(t) : (s \o t)[Len(s) + i] = t[i]
  <2> TAKE i \in 1 .. Len(t)
  <2>1. /\ Len(s) + i \in 1 .. Len(s) + Len(t) /\ ~(Len(s) + i <= Len(s))
        /\ (Len(s) + i) - Len(s) = i
    BY <1>1
  <2> QED
    BY <1>2, <2>1
<1> QED
  BY <1>2, <1>3, <1>4

(* The ten layers, in their order. *)
LEMMA LayersAre ==
    /\ Len(Layers) = 10 /\ DOMAIN Layers = 1 .. 10
    /\ Layers[1] = ConfigLayer /\ Layers[2] = TelemetryLayer /\ Layers[3] = DBLayer
    /\ Layers[4] = ValkeyLayer /\ Layers[5] = ServerLayer /\ Layers[6] = CatalogLayer
    /\ Layers[7] = MachinesLayer /\ Layers[8] = SalesLayer /\ Layers[9] = ReportingLayer
    /\ Layers[10] = ServeLayer
<1> DEFINE all == {ConfigLayer, TelemetryLayer, DBLayer, ValkeyLayer, ServerLayer,
                   CatalogLayer, MachinesLayer, SalesLayer, ReportingLayer, ServeLayer}
           first == <<ConfigLayer, TelemetryLayer, DBLayer, ValkeyLayer, ServerLayer>>
           last == <<ServeLayer>>
<1>1. first \in Seq(all) /\ Features \in Seq(all) /\ last \in Seq(all)
  BY DEF Features
<1>2. Len(first) = 5 /\ Len(Features) = 4 /\ Len(last) = 1
  BY DEF Features
<1>3. /\ first[1] = ConfigLayer /\ first[2] = TelemetryLayer /\ first[3] = DBLayer
      /\ first[4] = ValkeyLayer /\ first[5] = ServerLayer /\ last[1] = ServeLayer
  OBVIOUS
<1>4. /\ Features[1] = CatalogLayer /\ Features[2] = MachinesLayer
      /\ Features[3] = SalesLayer /\ Features[4] = ReportingLayer
  BY DEF Features
<1> HIDE DEF all, first, last
<1> DEFINE most == first \o Features
<1>5. /\ most \in Seq(all) /\ Len(most) = Len(first) + Len(Features)
      /\ \A i \in 1 .. Len(first) : most[i] = first[i]
      /\ \A i \in 1 .. Len(Features) : most[Len(first) + i] = Features[i]
  BY <1>1, Joined
<1> HIDE DEF most
<1>6. Layers = most \o last
  BY DEF Layers, most, first, last
<1>7. /\ Layers \in Seq(all) /\ Len(Layers) = Len(most) + Len(last)
      /\ \A i \in 1 .. Len(most) : Layers[i] = most[i]
      /\ \A i \in 1 .. Len(last) : Layers[Len(most) + i] = last[i]
  <2>1. most \in Seq(all) /\ last \in Seq(all)
    BY <1>1, <1>5
  <2>2. /\ most \o last \in Seq(all) /\ Len(most \o last) = Len(most) + Len(last)
        /\ \A i \in 1 .. Len(most) : (most \o last)[i] = most[i]
        /\ \A i \in 1 .. Len(last) : (most \o last)[Len(most) + i] = last[i]
    BY <2>1, Joined
  <2> QED
    BY <2>2, <1>6
<1>8. /\ Len(most) = 9 /\ \A i \in 1 .. 5 : most[i] = first[i]
      /\ \A i \in 1 .. 4 : most[5 + i] = Features[i]
  BY <1>2, <1>5
<1>9. /\ Len(Layers) = 10 /\ \A i \in 1 .. 9 : Layers[i] = most[i]
      /\ \A i \in 1 .. 1 : Layers[9 + i] = last[i]
  BY <1>2, <1>7, <1>8
<1>10. Layers[10] = last[1]
  BY <1>9
<1>11. DOMAIN Layers = 1 .. 10
  BY <1>7, <1>9, LenProperties
<1>12. /\ Layers[6] = Features[1] /\ Layers[7] = Features[2]
       /\ Layers[8] = Features[3] /\ Layers[9] = Features[4]
  BY <1>8, <1>9
<1>13. /\ Layers[1] = first[1] /\ Layers[2] = first[2] /\ Layers[3] = first[3]
       /\ Layers[4] = first[4] /\ Layers[5] = first[5]
  BY <1>8, <1>9
<1> QED
  BY <1>3, <1>4, <1>9, <1>10, <1>11, <1>12, <1>13

(* Tuples of up to three, element by element. *)
LEMMA Appends ==
    ASSUME NEW S, NEW a \in S, NEW b \in S, NEW c \in S
    PROVE  /\ Append(<<a>>, b) = <<a, b>>
           /\ Append(<<a, b>>, c) = <<a, b, c>>
<1>1. <<a>> \in Seq(S) /\ <<a, b>> \in Seq(S) /\ <<a, b, c>> \in Seq(S)
  OBVIOUS
<1>2. Append(<<a>>, b) \in Seq(S) /\ Append(<<a, b>>, c) \in Seq(S)
  BY <1>1, AppendProperties
<1>3. Append(<<a>>, b) = <<a, b>>
  <2>1. Len(Append(<<a>>, b)) = 2 /\ Append(<<a>>, b)[1] = a /\ Append(<<a>>, b)[2] = b
    BY <1>1, AppendProperties
  <2>2. \A i \in 1 .. 2 : Append(<<a>>, b)[i] = <<a, b>>[i]
    BY <2>1
  <2> QED
    BY <1>1, <1>2, <2>1, <2>2, SeqEqual
<1>4. Append(<<a, b>>, c) = <<a, b, c>>
  <2>1. /\ Len(Append(<<a, b>>, c)) = 3 /\ Append(<<a, b>>, c)[1] = a
        /\ Append(<<a, b>>, c)[2] = b /\ Append(<<a, b>>, c)[3] = c
    BY <1>1, AppendProperties
  <2>2. \A i \in 1 .. 3 : Append(<<a, b>>, c)[i] = <<a, b, c>>[i]
    BY <2>1
  <2> QED
    BY <1>1, <1>2, <2>1, <2>2, SeqEqual
<1> QED
  BY <1>3, <1>4

(* The order of application.ts. *)
Order == <<"DB", "Valkey", "Tracer">>

(* What the closes can be. *)
LEMMA Prefixes ==
    /\ SubSeq(Order, 1, 0) = <<>> /\ SubSeq(Order, 1, 1) = <<"DB">>
    /\ SubSeq(Order, 1, 2) = <<"DB", "Valkey">> /\ SubSeq(Order, 1, 3) = Order
<1> DEFINE names == {"DB", "Valkey", "Tracer"}
<1>1. \A n \in 1 .. 3 : /\ SubSeq(Order, 1, n) \in Seq(names)
                        /\ Len(SubSeq(Order, 1, n)) = n
                        /\ \A i \in 1 .. n : SubSeq(Order, 1, n)[i] = Order[i]
  <2> TAKE n \in 1 .. 3
  <2>1. \A i \in 1 .. n : Order[i] \in names
    BY DEF Order
  <2>2. n \in Int /\ 1 <= n
    OBVIOUS
  <2> HIDE DEF names
  <2> QED
    BY <2>1, <2>2, SubSeqProperties
<1>2. <<"DB">> \in Seq(names) /\ <<"DB", "Valkey">> \in Seq(names) /\ Order \in Seq(names)
  BY DEF Order
<1>3. Order[1] = "DB" /\ Order[2] = "Valkey" /\ Order[3] = "Tracer" /\ Len(Order) = 3
  BY DEF Order
<1> HIDE DEF names
<1>4. SubSeq(Order, 1, 0) = <<>>
  BY SubSeqEmpty
<1> DEFINE one == SubSeq(Order, 1, 1)
           two == SubSeq(Order, 1, 2)
<1>5. one = <<"DB">>
  <2>1. one \in Seq(names) /\ Len(one) = 1 /\ one[1] = "DB"
    BY <1>1, <1>3
  <2> HIDE DEF one
  <2> QED
    BY <2>1, <1>2, SeqEqual
<1>6. two = <<"DB", "Valkey">>
  <2>1. two \in Seq(names) /\ Len(two) = 2 /\ two[1] = "DB" /\ two[2] = "Valkey"
    BY <1>1, <1>3
  <2> HIDE DEF two
  <2> QED
    BY <2>1, <1>2, SeqEqual
<1>7. SubSeq(Order, 1, 3) = Order
  BY <1>1, <1>2, <1>3, SeqEqual
<1> QED
  BY <1>4, <1>5, <1>6, <1>7

(* What every layer brings is in the vocabulary of the container. *)
Keys == UNION {Layers[i].provides \cup Layers[i].optional : i \in DOMAIN Layers}

(* TypeOK in three parts. *)
ServerType ==
    /\ boot \in 1 .. Len(Layers) + 1
    /\ exit \in {"running", "0", "1", "killed"}
    /\ stops \in Seq(StopStates)
    /\ {shuttingDown, late, listening, forced} \subseteq BOOLEAN
    /\ registered \subseteq Keys
    /\ ended \subseteq registered \cap {"DB", "Valkey", "Tracer"}

ClientType ==
    /\ pc \in [Clients -> Busy \cup {"idle", "over"}]
    /\ \A r \in Requests : heard[r] \in {"nothing", "answer", "refused", "closed"}
    /\ \A p \in Probes : heard[p] \in {"nothing", "200", NotOk(p), "closed"}
    /\ early \subseteq Clients

ProbeType ==
    /\ path \in [Probes -> {"/healthz", "/readyz"}]
    /\ dependency \in [Dependencies -> {"up", "down", "silent"}]
    /\ check \in [Probes -> [Dependencies -> {"none", "running", "resolved", "rejected"}]]
    /\ \A p \in Probes : \A d \in Dependencies \ Checkers(p) : check[p][d] = "none"
    /\ seenUp \in [Probes -> SUBSET Dependencies]

LEMMA TypeParts == TypeOK <=> ServerType /\ ClientType /\ ProbeType
  BY DEF TypeOK, ServerType, ClientType, ProbeType, Keys, StopStates

LEMMA TypePartsNext == TypeOK' <=> ServerType' /\ ClientType' /\ ProbeType'
  BY DEF TypeOK, ServerType, ClientType, ProbeType, Keys, StopStates

(* A layer can only bring what is in the vocabulary. *)
LEMMA LayerKeys ==
    ASSUME NEW i \in 1 .. 10, NEW more \in SUBSET Layers[i].optional
    PROVE  Layers[i].provides \cup more \subseteq Keys
<1>1. i \in DOMAIN Layers
  BY LayersAre
<1>2. Layers[i].provides \cup Layers[i].optional \subseteq Keys
  BY <1>1 DEF Keys
<1> QED
  BY <1>2

(* When all layers are built, the database and Valkey are registered. *)
LEMMA UpHasAll ==
    ASSUME Booted, Up, boot \in Int
    PROVE  "DB" \in registered /\ "Valkey" \in registered
<1>1. boot > 10
  BY LayersAre DEF Up
<1>2. 3 \in 1 .. boot - 1 /\ 4 \in 1 .. boot - 1
  BY <1>1
<1>3. Layers[3].provides \subseteq registered /\ Layers[4].provides \subseteq registered
  BY <1>2 DEF Booted
<1>4. Layers[3].provides = {"DB"} /\ Layers[4].provides = {"Valkey", "CacheAside"}
  BY LayersAre DEF DBLayer, ValkeyLayer, Layer
<1> QED
  BY <1>3, <1>4

----------------------------------------------------------------------------
(***************************************************************************)
(* What a step leaves alone.                                               *)
(***************************************************************************)
LEMMA ProbeTypeStays ==
    ASSUME ProbeType, UNCHANGED health
    PROVE  ProbeType'
  BY DEF ProbeType, health, Checkers, Liveness, Readiness

LEMMA ServerTypeStays ==
    ASSUME ServerType, UNCHANGED process
    PROVE  ServerType'
  BY DEF ServerType, process

LEMMA ClientTypeStays ==
    ASSUME ClientType, UNCHANGED <<pc, heard, early, path>>
    PROVE  ClientType'
  BY DEF ClientType, NotOk

LEMMA HeardAtStays ==
    ASSUME HeardAt, UNCHANGED <<pc, heard>>
    PROVE  HeardAt'
  BY DEF HeardAt

LEMMA BootedStays ==
    ASSUME Booted, UNCHANGED <<boot, registered>>
    PROVE  Booted'
  BY DEF Booted

LEMMA OneStopStays ==
    ASSUME OneStop, UNCHANGED <<process, closes>>
    PROVE  OneStop'
  BY DEF OneStop, process, Progress, Up

LEMMA TransactionsOverStays ==
    ASSUME TransactionsOver, UNCHANGED <<ended, pc>>
    PROVE  TransactionsOver'
  BY DEF TransactionsOver

LEMMA EarlyServedStays ==
    ASSUME EarlyServed, UNCHANGED <<exit, late, early, pc, heard, ended>>
    PROVE  EarlyServed'
  BY DEF EarlyServed

LEMMA ProbesSoundStays ==
    ASSUME ProbesSound, UNCHANGED <<health, pc, heard, ended>>
    PROVE  ProbesSound'
  BY DEF ProbesSound, ProbeSound, Rejected, health

(* Connections are cut while their handlers run. *)
LEMMA Cutting ==
    ASSUME ClientType, HeardAt, CutOff(Pending), UNCHANGED <<pc, early, path>>
    PROVE  ClientType' /\ HeardAt'
<1>1. \A r \in Clients : heard'[r] = IF r \in Pending THEN "closed" ELSE heard[r]
  BY DEF CutOff
<1>2. Requests \subseteq Clients /\ Probes \subseteq Clients
  BY DEF Clients
<1>3. ClientType'
  BY <1>1, <1>2 DEF ClientType, NotOk
<1>4. heard' \in [Clients -> Told]
  BY DEF CutOff, HeardAt, Told
<1>5. \A r \in Pending : pc[r] \in Busy
  BY DEF Pending
<1>6. ASSUME NEW r \in Clients
      PROVE  /\ pc[r] \in Busy => heard'[r] \in {"nothing", "closed"}
             /\ pc[r] = "idle" => heard'[r] = "nothing"
  BY <1>1, <1>5, <1>6 DEF HeardAt, Busy
<1> QED
  BY <1>3, <1>4, <1>6 DEF HeardAt

(* Nobody who has been cut off is told that the server is ready. *)
LEMMA CuttingIsSound ==
    ASSUME ProbesSound, CutOff(Pending), UNCHANGED <<health, pc, ended>>
    PROVE  ProbesSound'
<1>1. \A r \in Clients : heard'[r] = IF r \in Pending THEN "closed" ELSE heard[r]
  BY DEF CutOff
<1>2. Probes \subseteq Clients
  BY DEF Clients
<1>3. ASSUME NEW p \in Probes
      PROVE  ProbeSound(p)'
  <2>1. ProbeSound(p)
    BY DEF ProbesSound
  <2>2. heard'[p] = "closed" \/ heard'[p] = heard[p]
    BY <1>1, <1>2
  <2> QED
    BY <2>1, <2>2 DEF ProbeSound, Rejected, health
<1> QED
  BY <1>3 DEF ProbesSound

----------------------------------------------------------------------------
(***************************************************************************)
(* Startup.                                                                *)
(***************************************************************************)
LEMMA BuildLayerKeeps ==
    ASSUME LifeInv, BuildLayer
    PROVE  LifeInv'
<1> USE DEF LifeInv, ServerInv
<1>1. ServerType /\ ClientType /\ ProbeType
  BY TypeParts
<1>2. /\ exit = "running" /\ boot \in 1 .. 10 /\ boot' = boot + 1
      /\ \E optional \in SUBSET Layers[boot].optional :
            registered' = registered \cup Layers[boot].provides \cup optional
      /\ listening' = (boot = Len(Layers))
  <2>1. boot \in 1 .. 11 /\ ~(boot > 10)
    BY <1>1, LayersAre DEF BuildLayer, ServerType, Up
  <2>2. boot \in 1 .. 10
    BY <2>1
  <2> QED
    BY <2>2, Zenon DEF BuildLayer
<1>3. UNCHANGED <<exit, shuttingDown, stops, late, forced, ended>>
  BY DEF BuildLayer
<1>4. UNCHANGED <<pc, heard, closes, early, health>>
  BY DEF BuildLayer
<1>5. ~shuttingDown /\ stops = <<>> /\ closes = <<>> /\ ended = {} /\ exit # "0"
  BY DEF BuildLayer, OneStop
<1>6. ServerType'
  <2>1. registered' \subseteq Keys
    BY <1>1, <1>2, LayerKeys DEF ServerType
  <2>2. boot' \in 1 .. Len(Layers) + 1 /\ listening' \in BOOLEAN
    BY <1>2, LayersAre
  <2>3. exit' \in {"running", "0", "1", "killed"} /\ stops' \in Seq(StopStates)
    BY <1>1, <1>3 DEF ServerType
  <2>4. shuttingDown' \in BOOLEAN /\ late' \in BOOLEAN /\ forced' \in BOOLEAN
    BY <1>1, <1>3 DEF ServerType
  <2>5. ended' = {}
    BY <1>3, <1>5
  <2> QED
    BY <2>1, <2>2, <2>3, <2>4, <2>5 DEF ServerType, Keys
<1>7. Booted'
  <2>1. \A i \in 1 .. boot' - 1 : i \in 1 .. boot - 1 \/ i = boot
    BY <1>2
  <2> QED
    BY <1>2, <2>1 DEF Booted
<1>8. OneStop'
  BY <1>3, <1>4, <1>5 DEF OneStop
<1>9. ClientType' /\ ProbeType' /\ HeardAt' /\ ProbesSound'
  BY <1>1, <1>3, <1>4, ClientTypeStays, ProbeTypeStays, HeardAtStays, ProbesSoundStays
     DEF health
<1>10. TransactionsOver' /\ EarlyServed'
  BY <1>3, <1>4, TransactionsOverStays, EarlyServedStays
<1> QED
  BY <1>6, <1>7, <1>8, <1>9, <1>10, TypePartsNext

(* The first stop is the only element. *)
LEMMA FirstStop == Append(<<>>, "draining") = <<"draining">> /\ <<"draining">> \in Seq(StopStates)
  BY DEF StopStates

(* The process ends without a farewell. *)
LEMMA DeathKeeps ==
    ASSUME LifeInv, exit = "running", NEW how \in {"1", "killed"}, ExitWith(how),
           \/ UNCHANGED <<stops, shuttingDown>>
           \/ /\ ~shuttingDown /\ Up
              /\ stops' = Append(stops, "draining") /\ shuttingDown' = TRUE,
           UNCHANGED <<boot, registered, late, forced, ended, pc, closes, early, health>>
    PROVE  LifeInv'
<1> USE DEF LifeInv, ServerInv
<1>1. ServerType /\ ClientType /\ ProbeType
  BY TypeParts
<1>2. exit' = how /\ listening' = FALSE /\ CutOff(Pending)
  BY DEF ExitWith
<1>3. ServerType' /\ OneStop'
  <2>1. CASE UNCHANGED <<stops, shuttingDown>>
    <3>1. ServerType'
      BY <1>1, <1>2, <2>1 DEF ServerType
    <3>2. OneStop'
      BY <1>2, <2>1 DEF OneStop, Progress, Up
    <3> QED
      BY <3>1, <3>2
  <2>2. CASE ~shuttingDown /\ Up /\ stops' = Append(stops, "draining") /\ shuttingDown' = TRUE
    <3>1. stops = <<>> /\ closes = <<>> /\ ended = {}
      BY <2>2 DEF OneStop
    <3>2. stops' = <<"draining">>
      BY <2>2, <3>1, FirstStop
    <3>3. ServerType'
      BY <1>1, <1>2, <2>2, <3>2, FirstStop DEF ServerType
    <3>4. OneStop'
      BY <1>2, <2>2, <3>1, <3>2 DEF OneStop, Progress, Up, StopStates
    <3> QED
      BY <3>3, <3>4
  <2> QED
    BY <2>1, <2>2
<1>6. ClientType' /\ HeardAt'
  BY <1>1, <1>2, Cutting DEF health
<1>7. ProbeType' /\ Booted' /\ ProbesSound' /\ TransactionsOver'
  BY <1>1, <1>2, ProbeTypeStays, BootedStays, CuttingIsSound, TransactionsOverStays
<1>8. EarlyServed'
  BY <1>2 DEF EarlyServed
<1> QED
  BY <1>3, <1>6, <1>7, <1>8, TypePartsNext

----------------------------------------------------------------------------
(***************************************************************************)
(* Shutdown.                                                               *)
(***************************************************************************)
(* A stop that has not ended is the only one.                              *)
LEMMA StopIs ==
    ASSUME OneStop, NEW s \in DOMAIN stops
    PROVE  /\ s = 1 /\ shuttingDown /\ Up /\ stops[s] \in StopStates
           /\ stops = <<stops[s]>> /\ Progress(stops[s]) /\ (stops[s] = "stopped" <=> exit = "0")
<1>1. PICK stop \in StopStates :
          stops = <<stop>> /\ Progress(stop) /\ (stop = "stopped" <=> exit = "0")
  BY DEF OneStop
<1>2. s = 1 /\ stops[s] = stop
  BY <1>1
<1> QED
  BY <1>1, <1>2 DEF OneStop

LEMMA SignalKeeps ==
    ASSUME LifeInv, Signal
    PROVE  LifeInv'
<1> USE DEF LifeInv, ServerInv
<1>1. ServerType /\ ClientType /\ ProbeType
  BY TypeParts
<1>2. /\ exit = "running" /\ Up /\ ~shuttingDown
      /\ stops' = Append(stops, "draining") /\ shuttingDown' = TRUE
      /\ UNCHANGED <<boot, registered, late, forced, ended, pc, closes, early, health>>
  BY DEF Signal
<1>3. CASE ExitWith("1")
  BY <1>2, <1>3, DeathKeeps
<1>4. CASE listening' = FALSE /\ UNCHANGED <<exit, heard>>
  <2>1. stops = <<>> /\ closes = <<>> /\ ended = {}
    BY <1>2 DEF OneStop
  <2>6. stops' = <<"draining">>
    BY <1>2, <2>1, FirstStop
  <2>2. ServerType'
    BY <1>1, <1>2, <1>4, <2>1, <2>6, FirstStop DEF ServerType
  <2>3. OneStop'
    BY <1>2, <1>4, <2>1, <2>6 DEF OneStop, Progress, Up, StopStates
  <2>4. ClientType' /\ ProbeType' /\ HeardAt' /\ ProbesSound'
    BY <1>1, <1>2, <1>4, ClientTypeStays, ProbeTypeStays, HeardAtStays, ProbesSoundStays
       DEF health
  <2>5. Booted' /\ TransactionsOver' /\ EarlyServed'
    BY <1>2, <1>4, BootedStays, TransactionsOverStays, EarlyServedStays
  <2> QED
    BY <2>2, <2>3, <2>4, <2>5, TypePartsNext
<1> QED
  BY <1>3, <1>4 DEF Signal

LEMMA DeadlinePassesKeeps ==
    ASSUME LifeInv, DeadlinePasses
    PROVE  LifeInv'
<1> USE DEF LifeInv, ServerInv
<1>1. ServerType /\ ClientType /\ ProbeType
  BY TypeParts
<1>2. /\ late' = TRUE
      /\ UNCHANGED <<boot, registered, exit, shuttingDown, stops, listening, forced, ended>>
      /\ UNCHANGED <<pc, heard, closes, early, health>>
  BY DEF DeadlinePasses
<1>3. ServerType'
  BY <1>1, <1>2 DEF ServerType
<1>4. OneStop'
  BY <1>2 DEF OneStop, Progress, Up
<1>5. EarlyServed'
  BY <1>2 DEF EarlyServed
<1>6. ClientType' /\ ProbeType' /\ HeardAt' /\ ProbesSound'
  BY <1>1, <1>2, ClientTypeStays, ProbeTypeStays, HeardAtStays, ProbesSoundStays DEF health
<1>7. Booted' /\ TransactionsOver'
  BY <1>2, BootedStays, TransactionsOverStays
<1> QED
  BY <1>3, <1>4, <1>5, <1>6, <1>7, TypePartsNext

(* A close moves the only stop one resource on. *)
LEMMA Closing ==
    ASSUME OneStop, NEW s \in DOMAIN stops, NEW resource, NEW to, Close(s, resource, to),
           \/ stops[s] = "draining" /\ resource = "DB" /\ to = "closingDB"
           \/ stops[s] = "closingDB" /\ resource = "Valkey" /\ to = "closingValkey"
           \/ stops[s] = "closingValkey" /\ resource = "Tracer" /\ to = "closingTracer"
    PROVE  /\ stops' = <<to>> /\ to \in StopStates \ {"stopped"} /\ Progress(to)'
           /\ ended' = ended \cup {resource}
<1> DEFINE names == {"DB", "Valkey", "Tracer"}
<1>0. "DB" \in names /\ "Valkey" \in names /\ "Tracer" \in names
  OBVIOUS
<1> HIDE DEF names
<1>1. /\ s = 1 /\ stops = <<stops[s]>> /\ Progress(stops[s])
  BY StopIs
<1>2. /\ stops' = [stops EXCEPT ![s] = to] /\ ended' = ended \cup {resource}
      /\ closes' = Append(closes, resource)
  BY DEF Close
<1>3. stops' = <<to>>
  <2>1. \A a : [<<a>> EXCEPT ![1] = to] = <<to>>
    OBVIOUS
  <2> QED
    BY <1>1, <1>2, <2>1
<1>4. to \in StopStates \ {"stopped"}
  BY DEF StopStates
<1>5. Progress(to)'
  <2>1. CASE stops[s] = "draining" /\ resource = "DB" /\ to = "closingDB"
    <3>1. Append(<<>>, "DB") = <<"DB">>
      OBVIOUS
    <3> QED
      BY <1>1, <1>2, <2>1, <3>1 DEF Progress
  <2>2. CASE stops[s] = "closingDB" /\ resource = "Valkey" /\ to = "closingValkey"
    <3>1. Append(<<"DB">>, "Valkey") = <<"DB", "Valkey">>
      BY <1>0, Appends, Zenon
    <3>2. closes = <<"DB">> /\ ended = {"DB"}
      BY <1>1, <2>2 DEF Progress
    <3> QED
      BY <1>2, <2>2, <3>1, <3>2 DEF Progress
  <2>3. CASE stops[s] = "closingValkey" /\ resource = "Tracer" /\ to = "closingTracer"
    <3>1. Append(<<"DB", "Valkey">>, "Tracer") = <<"DB", "Valkey", "Tracer">>
      BY <1>0, Appends, Zenon
    <3>2. closes = <<"DB", "Valkey">> /\ ended = {"DB", "Valkey"}
      BY <1>1, <2>3 DEF Progress
    <3> QED
      BY <1>2, <2>3, <3>1, <3>2 DEF Progress
  <2> QED
    BY <2>1, <2>2, <2>3
<1> QED
  BY <1>2, <1>3, <1>4, <1>5

(* Whoever came before the closing has been answered when the drain ends   *)
(* in time, and no probe that was racing hears of its result.              *)
LEMMA DrainEndsKeeps ==
    ASSUME LifeInv, NEW s \in DOMAIN stops, DrainEnds(s)
    PROVE  LifeInv'
<1> USE DEF LifeInv, ServerInv
<1>1. ServerType /\ ClientType /\ ProbeType
  BY TypeParts
<1>2. /\ exit = "running" /\ stops[s] = "draining" /\ (Pending = {} \/ late)
      /\ forced' = (Pending # {}) /\ CutOff(Pending) /\ Close(s, "DB", "closingDB")
      /\ UNCHANGED <<boot, registered, exit, shuttingDown, late, listening, pc, early, health>>
  BY DEF DrainEnds
<1>3. shuttingDown /\ Up /\ Progress(stops[s])
  BY StopIs
<1>4. ended = {}
  BY <1>2, <1>3 DEF Progress
<1>5. /\ stops' = <<"closingDB">> /\ "closingDB" \in StopStates \ {"stopped"}
      /\ Progress("closingDB")' /\ ended' = {"DB"}
  BY <1>2, <1>4, Closing
<1>6. "DB" \in registered
  BY <1>1, <1>3, UpHasAll DEF ServerType
<1>7. ServerType'
  <2>1. stops' \in Seq(StopStates)
    BY <1>5
  <2>2. forced' \in BOOLEAN
    BY <1>2
  <2>3. ended' \subseteq registered' \cap {"DB", "Valkey", "Tracer"}
    BY <1>2, <1>5, <1>6
  <2> QED
    BY <1>1, <1>2, <2>1, <2>2, <2>3 DEF ServerType, Keys
<1>8. OneStop'
  BY <1>2, <1>3, <1>5 DEF OneStop, Up
<1>9. ClientType' /\ HeardAt'
  BY <1>1, <1>2, Cutting DEF health
<1>10. ProbeType' /\ Booted'
  BY <1>1, <1>2, ProbeTypeStays, BootedStays
<1>11. TransactionsOver'
  BY <1>5 DEF TransactionsOver
<1>12. \A r \in Clients : heard'[r] = IF r \in Pending THEN "closed" ELSE heard[r]
  BY <1>2 DEF CutOff
<1>13. EarlyServed'
  <2> SUFFICES ASSUME ~late, NEW r \in early
               PROVE  /\ pc[r] # "idle" /\ heard'[r] \notin {"refused", "closed"}
                      /\ pc[r] = "over"
    BY <1>2 DEF EarlyServed
  <2>1. pc[r] # "idle" /\ heard[r] \notin {"refused", "closed"} /\ r \in Clients
    BY <1>1, <1>2 DEF EarlyServed, ClientType
  <2>2. r \notin Pending
    BY <1>2
  <2>3. pc[r] \notin Busy
    BY <2>1, <2>2 DEF Pending, HeardAt
  <2>4. pc[r] \in Busy \cup {"idle", "over"}
    BY <1>1, <2>1 DEF ClientType
  <2> QED
    BY <1>12, <2>1, <2>2, <2>3, <2>4
<1>14. ProbesSound'
  <2>1. ASSUME NEW p \in Probes
        PROVE  ProbeSound(p)'
    <3>1. ProbeSound(p) /\ p \in Clients
      BY DEF ProbesSound, Clients
    <3>2. pc[p] = "racing" => heard'[p] # "nothing"
      BY <1>12, <3>1 DEF Pending, Busy
    <3>3. heard'[p] = "200" => heard[p] = "200"
      BY <1>12, <3>1
    <3> QED
      BY <1>2, <3>1, <3>2, <3>3 DEF ProbeSound, health
  <2> QED
    BY <2>1 DEF ProbesSound
<1> QED
  BY <1>7, <1>8, <1>9, <1>10, <1>11, <1>13, <1>14, TypePartsNext

(* Once the closing has begun, closing more takes nothing from a probe     *)
(* that may still hear of its result.                                      *)
LEMMA NothingNewIsSound ==
    ASSUME ProbesSound, "DB" \in ended, UNCHANGED <<health, pc, heard>>
    PROVE  ProbesSound'
<1>1. ASSUME NEW p \in Probes
      PROVE  ProbeSound(p)'
  <2>1. ProbeSound(p)
    BY DEF ProbesSound
  <2>2. path[p] = "/readyz" /\ pc[p] = "racing" /\ heard[p] = "nothing" => Rejected(p) # {}
    BY <2>1 DEF ProbeSound, Dependencies
  <2> QED
    BY <2>1, <2>2 DEF ProbeSound, Rejected, health
<1> QED
  BY <1>1 DEF ProbesSound

(* The end of a stop, with exit code 0. *)
LEMMA FarewellKeeps ==
    ASSUME LifeInv, exit = "running", NEW s \in DOMAIN stops,
           stops[s] \in {"closingValkey", "closingTracer"},
           stops' = [stops EXCEPT ![s] = "stopped"], ExitWith("0"),
           UNCHANGED <<boot, registered, shuttingDown, late, forced, ended, pc, closes, early,
                       health>>
    PROVE  LifeInv'
<1> USE DEF LifeInv, ServerInv
<1>1. ServerType /\ ClientType /\ ProbeType
  BY TypeParts
<1>2. s = 1 /\ shuttingDown /\ Up /\ stops = <<stops[s]>> /\ Progress(stops[s])
  BY StopIs
<1>3. exit' = "0" /\ listening' = FALSE /\ CutOff(Pending)
  BY DEF ExitWith
<1>4. stops' = <<"stopped">>
  <2>1. \A a : [<<a>> EXCEPT ![1] = "stopped"] = <<"stopped">>
    OBVIOUS
  <2> QED
    BY <1>2, <2>1
<1>5. Progress("stopped")' /\ "DB" \in ended
  BY <1>2 DEF Progress
<1>6. "stopped" \in StopStates /\ <<"stopped">> \in Seq(StopStates)
  BY DEF StopStates
<1>7. ServerType'
  BY <1>1, <1>3, <1>4, <1>6 DEF ServerType, Keys
<1>8. OneStop'
  BY <1>2, <1>3, <1>4, <1>5, <1>6 DEF OneStop, Up
<1>9. ClientType' /\ HeardAt'
  BY <1>1, <1>3, Cutting DEF health
<1>10. ProbeType' /\ Booted' /\ ProbesSound' /\ TransactionsOver'
  BY <1>1, <1>3, ProbeTypeStays, BootedStays, CuttingIsSound, TransactionsOverStays
<1>11. EarlyServed'
  <2> SUFFICES ASSUME ~late, NEW r \in early
               PROVE  /\ pc[r] # "idle" /\ heard'[r] \notin {"refused", "closed"}
                      /\ pc[r] = "over"
    BY DEF EarlyServed
  <2>1. /\ pc[r] # "idle" /\ heard[r] \notin {"refused", "closed"} /\ pc[r] = "over"
        /\ r \in Clients
    BY <1>1, <1>5 DEF EarlyServed, ClientType
  <2>2. r \notin Pending
    BY <2>1 DEF Pending, Busy
  <2>3. heard'[r] = heard[r]
    BY <1>3, <2>1, <2>2 DEF CutOff
  <2> QED
    BY <2>1, <2>3
<1> QED
  BY <1>7, <1>8, <1>9, <1>10, <1>11, TypePartsNext

(* From now on nobody is in a transaction. *)
LEMMA DatabaseClosedKeeps ==
    ASSUME LifeInv, NEW s \in DOMAIN stops, DatabaseClosed(s)
    PROVE  LifeInv'
<1> USE DEF LifeInv, ServerInv
<1>1. ServerType /\ ClientType /\ ProbeType
  BY TypeParts
<1>2. /\ exit = "running" /\ stops[s] = "closingDB" /\ Close(s, "Valkey", "closingValkey")
      /\ \A r \in Requests : pc[r] # "inTransaction"
      /\ UNCHANGED <<boot, registered, exit, shuttingDown, late, listening, forced, pc, heard,
                     early, health>>
  BY DEF DatabaseClosed
<1>3. shuttingDown /\ Up /\ Progress(stops[s])
  BY StopIs
<1>4. ended = {"DB"}
  BY <1>2, <1>3 DEF Progress
<1>5. /\ stops' = <<"closingValkey">> /\ "closingValkey" \in StopStates \ {"stopped"}
      /\ Progress("closingValkey")' /\ ended' = {"DB", "Valkey"}
  BY <1>2, <1>4, Closing
<1>6. "DB" \in registered /\ "Valkey" \in registered
  BY <1>1, <1>3, UpHasAll DEF ServerType
<1>7. ServerType'
  <2>1. stops' \in Seq(StopStates)
    BY <1>5
  <2>2. ended' \subseteq registered' \cap {"DB", "Valkey", "Tracer"}
    BY <1>2, <1>5, <1>6
  <2> QED
    BY <1>1, <1>2, <2>1, <2>2 DEF ServerType, Keys
<1>8. OneStop'
  BY <1>2, <1>3, <1>5 DEF OneStop, Up
<1>9. ClientType' /\ HeardAt' /\ ProbeType' /\ Booted'
  BY <1>1, <1>2, ClientTypeStays, HeardAtStays, ProbeTypeStays, BootedStays DEF health
<1>10. TransactionsOver'
  BY <1>2 DEF TransactionsOver
<1>11. EarlyServed'
  BY <1>2, <1>4 DEF EarlyServed
<1>12. ProbesSound'
  BY <1>2, <1>4, NothingNewIsSound
<1> QED
  BY <1>7, <1>8, <1>9, <1>10, <1>11, <1>12, TypePartsNext

LEMMA ValkeyClosedKeeps ==
    ASSUME LifeInv, NEW s \in DOMAIN stops, ValkeyClosed(s)
    PROVE  LifeInv'
<1> USE DEF LifeInv, ServerInv
<1>1. ServerType /\ ClientType /\ ProbeType
  BY TypeParts
<1>2. /\ exit = "running" /\ stops[s] = "closingValkey"
      /\ UNCHANGED <<boot, registered, shuttingDown, late, forced, pc, early, health>>
  BY DEF ValkeyClosed
<1>3. shuttingDown /\ Up /\ Progress(stops[s])
  BY StopIs
<1>4. ended = {"DB", "Valkey"} /\ closes = <<"DB", "Valkey">>
  BY <1>2, <1>3 DEF Progress
<1>5. CASE "Tracer" \in registered /\ Close(s, "Tracer", "closingTracer")
           /\ UNCHANGED <<exit, listening, heard>>
  <2>1. /\ stops' = <<"closingTracer">> /\ "closingTracer" \in StopStates \ {"stopped"}
        /\ Progress("closingTracer")' /\ ended' = {"DB", "Valkey", "Tracer"}
    BY <1>2, <1>4, <1>5, Closing
  <2>2. ServerType'
    <3>1. stops' \in Seq(StopStates)
      BY <2>1
    <3>2. ended' \subseteq registered' \cap {"DB", "Valkey", "Tracer"}
      BY <1>1, <1>2, <1>4, <1>5, <2>1 DEF ServerType
    <3> QED
      BY <1>1, <1>2, <1>5, <3>1, <3>2 DEF ServerType, Keys
  <2>3. OneStop'
    BY <1>2, <1>3, <1>5, <2>1 DEF OneStop, Up
  <2>4. ClientType' /\ HeardAt' /\ ProbeType' /\ Booted'
    BY <1>1, <1>2, <1>5, ClientTypeStays, HeardAtStays, ProbeTypeStays, BootedStays
       DEF health
  <2>5. TransactionsOver' /\ EarlyServed'
    BY <1>2, <1>4, <1>5 DEF TransactionsOver, EarlyServed
  <2>6. ProbesSound'
    BY <1>2, <1>4, <1>5, <2>1, NothingNewIsSound
  <2> QED
    BY <2>2, <2>3, <2>4, <2>5, <2>6, TypePartsNext
<1>6. CASE stops' = [stops EXCEPT ![s] = "stopped"] /\ ExitWith("0") /\ UNCHANGED <<ended, closes>>
  BY <1>2, <1>6, FarewellKeeps
<1> QED
  BY <1>5, <1>6 DEF ValkeyClosed

LEMMA TracerClosedKeeps ==
    ASSUME LifeInv, NEW s \in DOMAIN stops, TracerClosed(s)
    PROVE  LifeInv'
  BY FarewellKeeps DEF TracerClosed

----------------------------------------------------------------------------
(***************************************************************************)
(* Requests.                                                               *)
(***************************************************************************)
LEMMA ValkeyIsSecond ==
    ASSUME OneStop, "Valkey" \in ended
    PROVE  "DB" \in ended
  BY DEF OneStop, Progress

(* The handler of a request moves on, and perhaps its client hears of it.  *)
LEMMA RequestMoves ==
    ASSUME LifeInv, exit = "running", NEW r \in Requests, pc[r] # "over",
           NEW to \in {"handling", "inTransaction", "over"}, pc' = [pc EXCEPT ![r] = to],
           NEW told \in {"nothing", "answer", "refused", "closed"},
           heard' = [heard EXCEPT ![r] = told],
           to # "over" => told \in {"nothing", "closed"},
           to = "inTransaction" => "Valkey" \notin ended,
           early' = early \/ (early' = early \cup {r} /\ "DB" \notin ended),
           ~late /\ r \in early' => told \notin {"refused", "closed"},
           UNCHANGED <<process, closes, health>>
    PROVE  LifeInv'
<1> USE DEF LifeInv, ServerInv
<1>1. ServerType /\ ClientType /\ ProbeType
  BY TypeParts
<1>2. r \in Clients /\ r \notin Probes
  BY LifecycleAssumption DEF Clients
<1>3. \A q \in Clients : /\ pc'[q] = IF q = r THEN to ELSE pc[q]
                         /\ heard'[q] = IF q = r THEN told ELSE heard[q]
  BY <1>1, <1>2 DEF ClientType, HeardAt
<1>4. UNCHANGED <<exit, late, ended, path>>
  BY DEF process, health
<1>5. ServerType' /\ ProbeType' /\ Booted' /\ OneStop'
  BY <1>1, ServerTypeStays, ProbeTypeStays, BootedStays, OneStopStays DEF process
<1>6. ClientType'
  <2>1. pc' \in [Clients -> Busy \cup {"idle", "over"}]
    BY <1>1 DEF ClientType, Busy
  <2>2. early' \subseteq Clients
    BY <1>1, <1>2 DEF ClientType
  <2>3. \A q \in Requests : heard'[q] \in {"nothing", "answer", "refused", "closed"}
    BY <1>1, <1>3 DEF ClientType, Clients
  <2>4. \A p \in Probes : heard'[p] = heard[p]
    BY <1>2, <1>3 DEF Clients
  <2> QED
    BY <1>1, <1>4, <2>1, <2>2, <2>3, <2>4 DEF ClientType, NotOk
<1>7. HeardAt'
  <2>1. heard' \in [Clients -> Told]
    BY DEF HeardAt, Told
  <2> QED
    BY <1>3, <2>1 DEF HeardAt, Busy
<1>8. TransactionsOver'
  BY <1>2, <1>3, <1>4 DEF TransactionsOver, Clients
<1>9. EarlyServed'
  <2> SUFFICES ASSUME ~late, NEW q \in early'
               PROVE  /\ pc'[q] # "idle" /\ heard'[q] \notin {"refused", "closed"}
                      /\ "DB" \in ended => pc'[q] = "over"
    BY <1>4 DEF EarlyServed
  <2>1. q \in Clients
    BY <1>6 DEF ClientType
  <2>2. CASE q = r
    <3>1. "DB" \in ended => r \notin early'
      BY DEF EarlyServed
    <3> QED
      BY <1>2, <1>3, <2>2, <3>1
  <2>3. CASE q # r
    <3>1. q \in early
      BY <2>3
    <3> QED
      BY <1>3, <2>1, <2>3, <3>1 DEF EarlyServed
  <2> QED
    BY <2>2, <2>3
<1>10. ProbesSound'
  <2>1. ASSUME NEW p \in Probes
        PROVE  ProbeSound(p)'
    <3>1. pc'[p] = pc[p] /\ heard'[p] = heard[p]
      BY <1>2, <1>3 DEF Clients
    <3> QED
      BY <1>4, <3>1 DEF ProbesSound, ProbeSound, Rejected, health
  <2> QED
    BY <2>1 DEF ProbesSound
<1> QED
  BY <1>5, <1>6, <1>7, <1>8, <1>9, <1>10, TypePartsNext

LEMMA RequestsKeep ==
    ASSUME LifeInv, NEW r \in Requests,
           Arrive(r) \/ Begin(r) \/ End(r) \/ Return(r) \/ Refused(r)
    PROVE  LifeInv'
<1>1. ClientType /\ HeardAt /\ OneStop /\ EarlyServed /\ r \in Clients
  BY TypeParts DEF LifeInv, ServerInv, Clients
<1>2. heard[r] \in {"nothing", "answer", "refused", "closed"}
  BY <1>1 DEF ClientType
<1>3. UNCHANGED heard => heard' = [heard EXCEPT ![r] = heard[r]]
  BY <1>1 DEF HeardAt
<1>4. pc[r] \in {"handling", "inTransaction"} => heard[r] \in {"nothing", "closed"}
  BY <1>1 DEF HeardAt, Busy
<1>5. exit = "running" /\ ~late /\ r \in early =>
          heard[r] \notin {"refused", "closed"} /\ ("DB" \in ended => pc[r] = "over")
  BY <1>1 DEF EarlyServed
<1>6. CASE Arrive(r)
  <2>1. /\ exit = "running" /\ pc[r] = "idle" /\ pc' = [pc EXCEPT ![r] = "handling"]
        /\ UNCHANGED <<process, heard, closes, health>>
        /\ early' = early \/ (early' = early \cup {r} /\ "DB" \notin ended)
    BY <1>6 DEF Arrive, Reachable, Record
  <2>2. heard[r] = "nothing"
    BY <1>1, <2>1 DEF HeardAt
  <2> QED
    BY <1>2, <1>3, <2>1, <2>2, RequestMoves
<1>7. CASE Begin(r)
  <2>1. /\ exit = "running" /\ pc[r] = "handling" /\ pc' = [pc EXCEPT ![r] = "inTransaction"]
        /\ "DB" \notin ended /\ UNCHANGED <<process, heard, closes, early, health>>
    BY <1>7 DEF Begin
  <2>2. "Valkey" \notin ended
    BY <1>1, <2>1, ValkeyIsSecond
  <2> QED
    BY <1>2, <1>3, <1>4, <1>5, <2>1, <2>2, RequestMoves
<1>8. CASE End(r)
  <2>1. /\ exit = "running" /\ pc[r] = "inTransaction" /\ pc' = [pc EXCEPT ![r] = "handling"]
        /\ UNCHANGED <<process, heard, closes, early, health>>
    BY <1>8 DEF End
  <2> QED
    BY <1>2, <1>3, <1>4, <1>5, <2>1, RequestMoves
<1>9. CASE Return(r)
  <2>1. /\ exit = "running" /\ pc[r] = "handling" /\ pc' = [pc EXCEPT ![r] = "over"]
        /\ UNCHANGED <<process, closes, early, health>>
    BY <1>9 DEF Return, Reply
  <2> DEFINE told == IF heard[r] = "closed" THEN "closed" ELSE "answer"
  <2>2. heard' = [heard EXCEPT ![r] = told]
    BY <1>1, <1>9 DEF Return, Reply, HeardAt
  <2>3. /\ told \in {"nothing", "answer", "refused", "closed"}
        /\ ~late /\ r \in early' => told \notin {"refused", "closed"}
    BY <1>5, <2>1
  <2> HIDE DEF told
  <2> QED
    BY <2>1, <2>2, <2>3, RequestMoves
<1>10. CASE Refused(r)
  <2>1. /\ exit = "running" /\ pc[r] = "handling" /\ pc' = [pc EXCEPT ![r] = "over"]
        /\ "DB" \in ended /\ UNCHANGED <<process, closes, early, health>>
    BY <1>10 DEF Refused, Reply
  <2> DEFINE told == IF heard[r] = "closed" THEN "closed" ELSE "refused"
  <2>2. heard' = [heard EXCEPT ![r] = told]
    BY <1>1, <1>10 DEF Refused, Reply, HeardAt
  <2>3. /\ told \in {"nothing", "answer", "refused", "closed"}
        /\ ~(~late /\ r \in early')
    BY <1>5, <2>1
  <2> HIDE DEF told
  <2> QED
    BY <2>1, <2>2, <2>3, RequestMoves
<1> QED
  BY <1>6, <1>7, <1>8, <1>9, <1>10

----------------------------------------------------------------------------
(***************************************************************************)
(* Probes and dependencies.                                                *)
(***************************************************************************)
LEMMA ProbeArrivesKeeps ==
    ASSUME LifeInv, NEW p \in Probes, ProbeArrives(p)
    PROVE  LifeInv'
<1> USE DEF LifeInv, ServerInv
<1>1. ServerType /\ ClientType /\ ProbeType
  BY TypeParts
<1>2. p \in Clients /\ p \notin Requests
  BY LifecycleAssumption DEF Clients
<1> DEFINE asked == [d \in Dependencies |->
            IF d \notin Checkers(p) THEN "none"
            ELSE IF d \in ended THEN "rejected" ELSE "running"]
<1>3. /\ exit = "running" /\ pc[p] = "idle" /\ pc' = [pc EXCEPT ![p] = "racing"]
      /\ check' = [check EXCEPT ![p] = asked] /\ seenUp' = [seenUp EXCEPT ![p] = Usable]
      /\ UNCHANGED <<path, dependency, heard>> /\ UNCHANGED <<process, closes>>
      /\ early' = early \/ (early' = early \cup {p} /\ "DB" \notin ended)
  BY DEF ProbeArrives, Reachable, Probe, Record
<1>4. heard[p] = "nothing"
  BY <1>2, <1>3 DEF HeardAt
<1>5. \A q \in Clients : pc'[q] = IF q = p THEN "racing" ELSE pc[q]
  BY <1>1, <1>3 DEF ClientType
<1>6. \A q \in Probes : /\ check'[q] = IF q = p THEN asked ELSE check[q]
                        /\ seenUp'[q] = IF q = p THEN Usable ELSE seenUp[q]
  BY <1>1, <1>3 DEF ProbeType
<1>7. asked \in [Dependencies -> {"none", "running", "resolved", "rejected"}]
  OBVIOUS
<1>8. UNCHANGED <<exit, late, ended>>
  BY <1>3 DEF process
<1>9. ServerType' /\ Booted' /\ OneStop'
  BY <1>1, <1>3, ServerTypeStays, BootedStays, OneStopStays DEF process
<1>10. ClientType'
  <2>1. pc' \in [Clients -> Busy \cup {"idle", "over"}]
    BY <1>1, <1>3 DEF ClientType, Busy
  <2> QED
    BY <1>1, <1>2, <1>3, <2>1 DEF ClientType, NotOk
<1>11. ProbeType'
  <2>1. check' \in [Probes -> [Dependencies -> {"none", "running", "resolved", "rejected"}]]
    BY <1>1, <1>3, <1>7 DEF ProbeType
  <2>2. Usable \subseteq Dependencies
    BY DEF Usable
  <2>3. seenUp' \in [Probes -> SUBSET Dependencies]
    BY <1>1, <1>3, <2>2 DEF ProbeType
  <2>4. \A q \in Probes : Checkers(q)' = Checkers(q)
    BY <1>3 DEF Checkers, Liveness, Readiness
  <2>5. \A d \in Dependencies \ Checkers(p) : asked[d] = "none"
    OBVIOUS
  <2> HIDE DEF asked
  <2>6. \A q \in Probes : \A d \in Dependencies \ Checkers(q) : check'[q][d] = "none"
    BY <1>1, <1>6, <2>5 DEF ProbeType
  <2> QED
    BY <1>1, <1>3, <2>1, <2>3, <2>4, <2>6 DEF ProbeType
<1>12. HeardAt'
  BY <1>3, <1>4, <1>5 DEF HeardAt, Busy
<1>13. TransactionsOver'
  BY <1>2, <1>5, <1>8 DEF TransactionsOver, Clients
<1>14. EarlyServed'
  <2> SUFFICES ASSUME ~late, NEW q \in early'
               PROVE  /\ pc'[q] # "idle" /\ heard[q] \notin {"refused", "closed"}
                      /\ "DB" \in ended => pc'[q] = "over"
    BY <1>3, <1>8 DEF EarlyServed
  <2>1. q \in Clients
    BY <1>10 DEF ClientType
  <2>2. p \notin early
    BY <1>3 DEF EarlyServed
  <2> QED
    BY <1>3, <1>4, <1>5, <2>1, <2>2 DEF EarlyServed
<1>15. ProbesSound'
  <2>1. ASSUME NEW q \in Probes
        PROVE  ProbeSound(q)'
    <3>1. CASE q # p
      <4>1. /\ pc'[q] = pc[q] /\ check'[q] = check[q] /\ seenUp'[q] = seenUp[q]
            /\ Rejected(q)' = Rejected(q)
        BY <1>5, <1>6, <3>1 DEF Clients, Rejected
      <4>2. ProbeSound(q)
        BY DEF ProbesSound
      <4> QED
        BY <1>3, <1>8, <4>1, <4>2 DEF ProbeSound
    <3>2. CASE q = p
      <4> SUFFICES ASSUME path[p] = "/readyz"
                   PROVE  /\ \A d \in Dependencies : asked[d] # "none"
                          /\ Rejected(p)' = {} =>
                                \A d \in Dependencies :
                                    /\ d \notin ended
                                    /\ asked[d] = "resolved" \/ dependency[d] = "up" =>
                                          d \in Usable
        BY <1>2, <1>3, <1>4, <1>5, <1>6, <1>8, <3>2 DEF ProbeSound
      <4>1. Checkers(p) = Dependencies
        BY DEF Checkers, Readiness, Dependencies
      <4>2. \A d \in Dependencies : asked[d] = IF d \in ended THEN "rejected" ELSE "running"
        BY <4>1
      <4>3. Rejected(p)' = {d \in Dependencies : asked[d] = "rejected"}
        BY <1>6 DEF Rejected
      <4> HIDE DEF asked
      <4> QED
        BY <4>2, <4>3 DEF Usable
    <3> QED
      BY <3>1, <3>2
  <2> QED
    BY <2>1 DEF ProbesSound
<1> QED
  BY <1>9, <1>10, <1>11, <1>12, <1>13, <1>14, <1>15, TypePartsNext

(* The handler answers, with 200 only when all checks have ended well. *)
LEMMA AnswerKeeps ==
    ASSUME LifeInv, exit = "running", NEW p \in Probes, pc[p] = "racing",
           NEW code \in {"200", NotOk(p)}, Answer(p, code),
           code = "200" => Rejected(p) = {} /\ Running(p) = {},
           UNCHANGED <<process, closes, early>>
    PROVE  LifeInv'
<1> USE DEF LifeInv, ServerInv
<1>1. ServerType /\ ClientType /\ ProbeType
  BY TypeParts
<1>2. p \in Clients /\ p \notin Requests
  BY LifecycleAssumption DEF Clients
<1>3. heard[p] \in {"nothing", "closed"}
  BY <1>2 DEF HeardAt, Busy
<1> DEFINE told == IF heard[p] = "closed" THEN "closed" ELSE code
<1>4. pc' = [pc EXCEPT ![p] = "over"] /\ heard' = [heard EXCEPT ![p] = told] /\ UNCHANGED health
  BY DEF Answer, Reply, HeardAt, health
<1>5. \A q \in Clients : /\ pc'[q] = IF q = p THEN "over" ELSE pc[q]
                         /\ heard'[q] = IF q = p THEN told ELSE heard[q]
  BY <1>1, <1>4 DEF ClientType, HeardAt
<1>6. UNCHANGED <<exit, late, ended, path>>
  BY <1>4 DEF process, health
<1>7. ServerType' /\ ProbeType' /\ Booted' /\ OneStop'
  BY <1>1, <1>4, ServerTypeStays, ProbeTypeStays, BootedStays, OneStopStays DEF process
<1>8. NotOk(p) \in {"500", "503"}
  BY DEF NotOk
<1>9. told \in Told /\ told \in {"200", NotOk(p), "closed"} /\ told # "refused"
  BY <1>8 DEF Told
<1>10. ClientType'
  <2>1. pc' \in [Clients -> Busy \cup {"idle", "over"}]
    BY <1>1, <1>4 DEF ClientType
  <2>2. \A q \in Requests : heard'[q] = heard[q]
    BY <1>2, <1>5 DEF Clients
  <2>3. \A q \in Probes : heard'[q] \in {"nothing", "200", NotOk(q), "closed"}
    BY <1>1, <1>5, <1>9 DEF ClientType, Clients
  <2> QED
    BY <1>1, <1>6, <2>1, <2>2, <2>3 DEF ClientType, NotOk
<1>11. HeardAt'
  <2>1. heard' \in [Clients -> Told]
    BY <1>4, <1>9 DEF HeardAt
  <2> QED
    BY <1>5, <2>1 DEF HeardAt, Busy
<1>12. TransactionsOver'
  BY <1>2, <1>5, <1>6 DEF TransactionsOver, Clients
<1>13. EarlyServed'
  <2> SUFFICES ASSUME ~late, NEW q \in early
               PROVE  /\ pc'[q] # "idle" /\ heard'[q] \notin {"refused", "closed"}
                      /\ "DB" \in ended => pc'[q] = "over"
    BY <1>6 DEF EarlyServed
  <2>1. q \in Clients
    BY <1>1 DEF ClientType
  <2>2. /\ pc[q] # "idle" /\ heard[q] \notin {"refused", "closed"}
        /\ "DB" \in ended => pc[q] = "over"
    BY DEF EarlyServed
  <2>3. CASE q = p
    <3>1. told = code
      BY <2>2, <2>3
    <3>2. code \notin {"refused", "closed"}
      BY <1>8
    <3> QED
      BY <1>5, <2>1, <2>3, <3>1, <3>2
  <2> QED
    BY <1>5, <2>1, <2>2, <2>3
<1>14. ProbesSound'
  <2>1. ASSUME NEW q \in Probes
        PROVE  ProbeSound(q)'
    <3>1. ProbeSound(q) /\ q \in Clients /\ Rejected(q)' = Rejected(q)
      BY <1>4 DEF ProbesSound, Clients, Rejected, health
    <3>2. CASE q # p
      BY <1>4, <1>5, <1>6, <3>1, <3>2 DEF ProbeSound, health
    <3>3. CASE q = p
      <4> SUFFICES ASSUME path[p] = "/readyz", told = "200"
                   PROVE  seenUp[p] = Dependencies
        BY <1>4, <1>5, <1>6, <3>1, <3>3 DEF ProbeSound, health
      <4>1. heard[p] = "nothing" /\ code = "200"
        BY <1>3
      <4>2. \A d \in Dependencies : check[p][d] = "resolved"
        <5>1. \A d \in Dependencies : check[p][d] \in {"none", "running", "resolved", "rejected"}
          BY <1>1 DEF ProbeType
        <5> QED
          BY <3>1, <3>3, <4>1, <5>1 DEF ProbeSound, Rejected, Running
      <4>3. Dependencies \subseteq seenUp[p]
        BY <3>1, <3>3, <4>1, <4>2 DEF ProbeSound
      <4>4. seenUp[p] \subseteq Dependencies
        BY <1>1 DEF ProbeType
      <4> QED
        BY <4>3, <4>4
    <3> QED
      BY <3>2, <3>3
  <2> QED
    BY <2>1 DEF ProbesSound
<1> QED
  BY <1>7, <1>10, <1>11, <1>12, <1>13, <1>14, TypePartsNext

(* A check resolves only while its dependency is up, and a dependency that *)
(* is up while the probe races has been seen.                              *)
LEMMA CheckEndsKeeps ==
    ASSUME LifeInv, NEW p \in Probes, NEW d \in Dependencies, CheckEnds(p, d),
           UNCHANGED <<process, closes, early>>
    PROVE  LifeInv'
<1> USE DEF LifeInv, ServerInv
<1>1. ServerType /\ ClientType /\ ProbeType
  BY TypeParts
<1> DEFINE result == IF dependency[d] = "up" THEN "resolved" ELSE "rejected"
<1>2. /\ check[p][d] = "running" /\ check' = [check EXCEPT ![p][d] = result]
      /\ UNCHANGED <<path, dependency, pc, heard, seenUp>>
  BY DEF CheckEnds, Running
<1>3. \A q \in Probes : \A e \in Dependencies :
          check'[q][e] = IF q = p /\ e = d THEN result ELSE check[q][e]
  BY <1>1, <1>2 DEF ProbeType
<1>4. UNCHANGED <<exit, late, ended>>
  BY DEF process
<1>5. ServerType' /\ ClientType' /\ Booted' /\ OneStop' /\ HeardAt'
  BY <1>1, <1>2, ServerTypeStays, ClientTypeStays, BootedStays, OneStopStays, HeardAtStays
     DEF process
<1>6. TransactionsOver' /\ EarlyServed'
  BY <1>2, <1>4, TransactionsOverStays, EarlyServedStays
<1>7. ProbeType'
  <2>1. check' \in [Probes -> [Dependencies -> {"none", "running", "resolved", "rejected"}]]
    BY <1>1, <1>2 DEF ProbeType
  <2>2. \A q \in Probes : Checkers(q)' = Checkers(q)
    BY <1>2 DEF Checkers, Liveness, Readiness
  <2>3. \A q \in Probes : \A e \in Dependencies \ Checkers(q) : check'[q][e] = "none"
    BY <1>1, <1>2, <1>3 DEF ProbeType
  <2> QED
    BY <1>1, <1>2, <2>1, <2>2, <2>3 DEF ProbeType
<1>8. ProbesSound'
  <2>1. ASSUME NEW q \in Probes
        PROVE  ProbeSound(q)'
    <3>1. ProbeSound(q)
      BY DEF ProbesSound
    <3>2. Rejected(q) \subseteq Rejected(q)'
      BY <1>2, <1>3 DEF Rejected
    <3>3. \A e \in Dependencies :
              /\ check[q][e] # "none" => check'[q][e] # "none"
              /\ check'[q][e] = "resolved" => check[q][e] = "resolved" \/ dependency[e] = "up"
      BY <1>3
    <3> QED
      BY <1>2, <1>4, <3>1, <3>2, <3>3 DEF ProbeSound
  <2> QED
    BY <2>1 DEF ProbesSound
<1> QED
  BY <1>5, <1>6, <1>7, <1>8, TypePartsNext

LEMMA ProbeProceedsKeeps ==
    ASSUME LifeInv, NEW p \in Probes, ProbeProceeds(p)
    PROVE  LifeInv'
<1>1. exit = "running" /\ ProbeGoesOn(p) /\ UNCHANGED <<process, closes, early>>
  BY DEF ProbeProceeds
<1>2. CASE ChecksSettle(p) \/ TimerFires(p)
  <2>1. pc[p] = "racing"
    BY <1>2 DEF ChecksSettle, TimerFires
  <2>2. \/ Answer(p, "200") /\ Rejected(p) = {} /\ Running(p) = {}
        \/ Answer(p, NotOk(p))
    BY <1>2 DEF ChecksSettle, TimerFires
  <2>3. NotOk(p) # "200"
    BY DEF NotOk
  <2> QED
    BY <1>1, <2>1, <2>2, <2>3, AnswerKeeps
<1>3. CASE \E d \in Dependencies : CheckEnds(p, d)
  BY <1>1, <1>3, CheckEndsKeeps
<1> QED
  BY <1>1, <1>2, <1>3 DEF ProbeGoesOn

LEMMA DependencyTurnsKeeps ==
    ASSUME LifeInv, NEW d \in Dependencies, NEW how \in {"up", "down", "silent"},
           DependencyTurns(d, how)
    PROVE  LifeInv'
<1> USE DEF LifeInv, ServerInv
<1>1. ServerType /\ ClientType /\ ProbeType
  BY TypeParts
<1>2. /\ dependency' = [dependency EXCEPT ![d] = how]
      /\ seenUp' = [p \in Probes |-> IF pc[p] = "racing" /\ how = "up" /\ d \notin ended
                                     THEN seenUp[p] \cup {d} ELSE seenUp[p]]
      /\ UNCHANGED <<path, pc, heard, check>> /\ UNCHANGED <<process, closes, early>>
  BY DEF DependencyTurns, Turns
<1>3. UNCHANGED <<exit, late, ended>>
  BY <1>2 DEF process
<1>4. ServerType' /\ ClientType' /\ Booted' /\ OneStop' /\ HeardAt'
  BY <1>1, <1>2, ServerTypeStays, ClientTypeStays, BootedStays, OneStopStays, HeardAtStays
     DEF process
<1>5. TransactionsOver' /\ EarlyServed'
  BY <1>2, <1>3, TransactionsOverStays, EarlyServedStays
<1>6. ProbeType'
  <2>1. dependency' \in [Dependencies -> {"up", "down", "silent"}]
    BY <1>1, <1>2 DEF ProbeType
  <2>2. seenUp' \in [Probes -> SUBSET Dependencies]
    BY <1>1, <1>2 DEF ProbeType
  <2> QED
    BY <1>1, <1>2, <2>1, <2>2 DEF ProbeType, Checkers, Liveness, Readiness
<1>7. ProbesSound'
  <2>1. ASSUME NEW p \in Probes
        PROVE  ProbeSound(p)'
    <3>1. ProbeSound(p) /\ Rejected(p)' = Rejected(p)
      BY <1>2 DEF ProbesSound, Rejected
    <3>2. seenUp'[p] = IF pc[p] = "racing" /\ how = "up" /\ d \notin ended
                       THEN seenUp[p] \cup {d} ELSE seenUp[p]
      BY <1>2
    <3>3. \A e \in Dependencies : dependency'[e] = IF e = d THEN how ELSE dependency[e]
      BY <1>1, <1>2 DEF ProbeType
    <3> QED
      BY <1>2, <1>3, <3>1, <3>2, <3>3 DEF ProbeSound
  <2> QED
    BY <2>1 DEF ProbesSound
<1> QED
  BY <1>4, <1>5, <1>6, <1>7, TypePartsNext

----------------------------------------------------------------------------
(***************************************************************************)
(* All together.                                                           *)
(***************************************************************************)
LEMMA LifeInitially == Init => LifeInv
<1> SUFFICES ASSUME Init PROVE LifeInv
  OBVIOUS
<1>1. /\ boot = 1 /\ registered = {} /\ exit = "running" /\ shuttingDown = FALSE
      /\ stops = <<>> /\ late = FALSE /\ listening = FALSE /\ forced = FALSE
      /\ ended = {} /\ closes = <<>> /\ early = {}
      /\ pc = [r \in Clients |-> "idle"] /\ heard = [r \in Clients |-> "nothing"]
  BY DEF Init
<1>2. /\ path \in [Probes -> {"/healthz", "/readyz"}]
      /\ dependency \in [Dependencies -> {"up", "down", "silent"}]
      /\ check = [p \in Probes |-> [d \in Dependencies |-> "none"]]
      /\ seenUp = [p \in Probes |-> {}]
  BY DEF Init, ProbesInit
<1>3. Requests \subseteq Clients /\ Probes \subseteq Clients
  BY DEF Clients
<1>4. ServerType
  <2>1. boot \in 1 .. Len(Layers) + 1
    BY <1>1, LayersAre
  <2>2. stops \in Seq(StopStates)
    BY <1>1
  <2> QED
    BY <1>1, <2>1, <2>2 DEF ServerType
<1>5. ClientType
  BY <1>1, <1>3 DEF ClientType, Busy
<1>6. ProbeType
  BY <1>2 DEF ProbeType
<1>7. HeardAt
  BY <1>1 DEF HeardAt, Busy, Told
<1>8. Booted /\ OneStop /\ TransactionsOver /\ EarlyServed
  BY <1>1 DEF Booted, OneStop, TransactionsOver, EarlyServed
<1>9. ProbesSound
  BY <1>1, <1>3 DEF ProbesSound, ProbeSound
<1> QED
  BY <1>4, <1>5, <1>6, <1>7, <1>8, <1>9, TypeParts DEF LifeInv, ServerInv

LEMMA LifeStep == LifeInv /\ [Next]_vars => LifeInv'
<1> SUFFICES ASSUME LifeInv, [Next]_vars PROVE LifeInv'
  OBVIOUS
<1>1. CASE BuildLayer
  BY <1>1, BuildLayerKeeps
<1>2. CASE LayerFails
  BY <1>2, DeathKeeps DEF LayerFails
<1>3. CASE KilledAtStartup
  BY <1>3, DeathKeeps DEF KilledAtStartup
<1>4. CASE Signal
  BY <1>4, SignalKeeps
<1>5. CASE DeadlinePasses
  BY <1>5, DeadlinePassesKeeps
<1>6. CASE \E s \in DOMAIN stops :
              DrainEnds(s) \/ DatabaseClosed(s) \/ ValkeyClosed(s) \/ TracerClosed(s)
  BY <1>6, DrainEndsKeeps, DatabaseClosedKeeps, ValkeyClosedKeeps, TracerClosedKeeps
<1>7. CASE \E r \in Requests : Arrive(r) \/ Begin(r) \/ End(r) \/ Return(r) \/ Refused(r)
  BY <1>7, RequestsKeep
<1>8. CASE \E p \in Probes : ProbeArrives(p) \/ ProbeProceeds(p)
  BY <1>8, ProbeArrivesKeeps, ProbeProceedsKeeps
<1>9. CASE \E d \in Dependencies : \E how \in {"up", "down", "silent"} : DependencyTurns(d, how)
  BY <1>9, DependencyTurnsKeeps
<1>10. CASE UNCHANGED vars
  <2>1. UNCHANGED <<process, pc, heard, closes, early, health>>
    BY <1>10 DEF vars
  <2>2. UNCHANGED <<boot, registered, exit, late, ended, path>>
    BY <2>1 DEF process, health
  <2>3. ServerType' /\ ClientType' /\ ProbeType'
    BY <2>1, <2>2, TypeParts, ServerTypeStays, ClientTypeStays, ProbeTypeStays
       DEF LifeInv, ServerInv
  <2>4. HeardAt' /\ Booted' /\ OneStop' /\ TransactionsOver' /\ EarlyServed' /\ ProbesSound'
    BY <2>1, <2>2, HeardAtStays, BootedStays, OneStopStays, TransactionsOverStays,
       EarlyServedStays, ProbesSoundStays DEF LifeInv, ServerInv
  <2> QED
    BY <2>3, <2>4, TypePartsNext DEF LifeInv, ServerInv
<1> QED
  BY <1>1, <1>2, <1>3, <1>4, <1>5, <1>6, <1>7, <1>8, <1>9, <1>10 DEF Next

LEMMA LifeInvariant == Spec => []LifeInv
<1>1. Init => LifeInv
  BY LifeInitially
<1>2. LifeInv /\ [Next]_vars => LifeInv'
  BY LifeStep
<1> QED
  BY <1>1, <1>2, PTL DEF Spec

(* Every variable of the server, of its clients and of its probes stays in *)
(* its range, and nothing is closed that was never registered.             *)
THEOREM LifecycleTyped == Spec => []TypeOK
<1>1. LifeInv => TypeOK
  BY DEF LifeInv, ServerInv
<1> QED
  BY <1>1, LifeInvariant, PTL

(* Whatever fails and whenever the process is killed, no layer asks the    *)
(* container for something that is built after it; in particular not the   *)
(* catalog for its cache, which it would do without (app.ts, di.ts).       *)
THEOREM LayersFind == Spec => []LayersFindTheirNeeds
<1>1. LifeInv => LayersFindTheirNeeds
  <2> SUFFICES ASSUME LifeInv, ~Up
               PROVE  Layers[boot].needs \cup Layers[boot].uses \subseteq registered
    BY DEF LayersFindTheirNeeds
  <2>1. boot \in 1 .. 10
    <3>1. boot \in 1 .. 11 /\ ~(boot > 10)
      BY TypeParts, LayersAre DEF LifeInv, ServerInv, ServerType, Up
    <3> QED
      BY <3>1
  <2>2. \A i \in 1 .. 10 : i < boot => Layers[i].provides \subseteq registered
    BY <2>1 DEF LifeInv, ServerInv, Booted
  <2>3. /\ boot > 1 => {"Config"} \subseteq registered
        /\ boot > 2 => {"Logger", "Meter", "HealthRegistry"} \subseteq registered
        /\ boot > 3 => {"DB"} \subseteq registered
        /\ boot > 4 => {"Valkey", "CacheAside"} \subseteq registered
        /\ boot > 5 => {"App", "Application"} \subseteq registered
    BY <2>1, <2>2, LayersAre
       DEF ConfigLayer, TelemetryLayer, DBLayer, ValkeyLayer, ServerLayer, Layer
  <2>4. CASE boot \in {1, 2, 3, 4, 5}
    BY <2>3, <2>4, LayersAre
       DEF ConfigLayer, TelemetryLayer, DBLayer, ValkeyLayer, ServerLayer, Layer
  <2>5. CASE boot \in {6, 7, 8, 9, 10}
    BY <2>3, <2>5, LayersAre
       DEF CatalogLayer, MachinesLayer, SalesLayer, ReportingLayer, ServeLayer, Layer
  <2> QED
    BY <2>1, <2>4, <2>5
<1> QED
  BY <1>1, LifeInvariant, PTL

(* A shutdown that keeps to its deadline refuses and cuts off nobody who   *)
(* came before the closing began (application.ts).                         *)
THEOREM DrainProtects == Spec => []DrainProtectsRequests
<1>1. LifeInv => DrainProtectsRequests
  BY DEF LifeInv, ServerInv, EarlyServed, DrainProtectsRequests
<1> QED
  BY <1>1, LifeInvariant, PTL

(* A process that exits with 0 leaves no transaction open, also when the   *)
(* drain was cut short.                                                    *)
THEOREM TransactionsEnd == Spec => []TransactionsEndBeforeExit
<1>1. LifeInv => TransactionsEndBeforeExit
  <2> SUFFICES ASSUME LifeInv, exit = "0"
               PROVE  \A r \in Requests : pc[r] # "inTransaction"
    BY DEF TransactionsEndBeforeExit
  <2>1. "Valkey" \in ended
    BY DEF LifeInv, ServerInv, OneStop, Progress
  <2> QED
    BY <2>1 DEF LifeInv, ServerInv, TransactionsOver
<1> QED
  BY <1>1, LifeInvariant, PTL

(* However many signals come, one stop runs, and it closes the resources   *)
(* once each and in order.                                                 *)
THEOREM ClosesAreInOrder == Spec => []ClosesInOrder
<1>1. LifeInv => ClosesInOrder
  <2> SUFFICES ASSUME LifeInv PROVE ClosesInOrder
    OBVIOUS
  <2>1. closes \in {<<>>, <<"DB">>, <<"DB", "Valkey">>, Order}
    BY DEF LifeInv, ServerInv, OneStop, Progress, Order
  <2>2. /\ Len(<<>>) = 0 /\ Len(<<"DB">>) = 1 /\ Len(<<"DB", "Valkey">>) = 2 /\ Len(Order) = 3
        /\ 0 \in 0 .. 3 /\ 1 \in 0 .. 3 /\ 2 \in 0 .. 3 /\ 3 \in 0 .. 3
    BY DEF Order
  <2>3. \A known \in {<<>>, <<"DB">>, <<"DB", "Valkey">>, Order} :
            Len(known) \in 0 .. 3 /\ known = SubSeq(Order, 1, Len(known))
    BY <2>2, Prefixes, Zenon
  <2>4. Len(closes) \in 0 .. 3 /\ closes = SubSeq(Order, 1, Len(closes))
    BY <2>1, <2>3, Zenon
  <2> QED
    BY <2>4 DEF ClosesInOrder, Order
<1> QED
  BY <1>1, LifeInvariant, PTL

(* However the probes, the timers, the dependencies and the shutdown       *)
(* interleave, a server says that it is ready only if it has seen each     *)
(* dependency up during that probe (http.ts).                              *)
THEOREM ReadyIsSound == Spec => []ReadyMeansSeenUp
<1>1. LifeInv => ReadyMeansSeenUp
  BY DEF LifeInv, ProbesSound, ProbeSound, ReadyMeansSeenUp
<1> QED
  BY <1>1, LifeInvariant, PTL
=============================================================================
