---------------------------- MODULE ProductCache ----------------------------
(***************************************************************************)
(* Reads of one product through the cache-aside store: the catalog's       *)
(* CachedProductRepository.getById over CacheAside.get, while sales lower  *)
(* the stock.  Each server process has one connection to the Valkey that   *)
(* all of them share, and an inFlight map of its own.                      *)
(*                                                                         *)
(* A step is what runs between two awaits.  Only the stock of a product is *)
(* modelled; its other columns never change.  The connection answers       *)
(* commands in the order they were sent, and a command whose answer was    *)
(* lost with the connection is sent again (ioredis, whose retry limits     *)
(* createValkey switches off).                                             *)
(***************************************************************************)
EXTENDS Integers, Sequences

CONSTANTS
    Readers,        \* requests for GET /products/:id that may be under way at once
    Servers,        \* server processes
    Deployments,    \* which readers come, and to which server
    Products,       \* ids of products
    InitStock,      \* what each product was created with
    Missing,        \* no entry: the null of a GET
    Nobody,         \* no promise in the inFlight map
    MaxDrops        \* bound: how often the Valkey connection is lost

ASSUME StockAssumption == InitStock \in [Products -> Nat]
ASSUME DeploymentsAssumption ==
    Deployments \subseteq UNION {[R -> Servers] : R \in SUBSET Readers}
ASSUME NullsAssumption == Nobody \notin Readers /\ Missing \notin Nat
ASSUME MaxDropsAssumption == MaxDrops \in Nat

VARIABLES
    server,         \* the server of each reader that comes
    stock,          \* catalog_products.stock
    entry,          \* what Valkey stores for each product
    pipe,           \* commands of each server not yet fulfilled, oldest first
    replies,        \* replies on their way, to the oldest commands of the pipe
    drops,          \* how often the connection has been lost
    pc,             \* where each reader is
    asked,          \* the product each reader asked for
    inFlight,       \* whose loader promise each server's map holds for each product
    awaits,         \* whose loader promise each reader is waiting for
    loaded          \* what the loader of each reader returned

(* Recorded for the properties: the stock shown last for each product, and *)
(* the most that a read which found nothing cached or in flight, on any    *)
(* server, may show.                                                       *)
VARIABLES shown, atMost

valkey == <<entry, pipe, replies, drops>>
vars == <<server, stock, valkey, pc, asked, inFlight, awaits, loaded, shown, atMost>>

(* A command names the reader whose code it was sent by. *)
Get(r, k) == [kind |-> "GET", reader |-> r, product |-> k, value |-> 0]
Set(r) == [kind |-> "SET", reader |-> r, product |-> asked[r], value |-> loaded[r]]

Failure == [ok |-> FALSE, value |-> Missing]
Reply(value) == [ok |-> TRUE, value |-> value]

Loading == {"loading", "read", "storing"}

OneServer == \A r, q \in DOMAIN server : server[r] = server[q]

Init ==
    /\ server \in Deployments
    /\ stock = InitStock
    /\ entry = [k \in Products |-> Missing]
    /\ pipe = [s \in Servers |-> <<>>] /\ replies = [s \in Servers |-> <<>>] /\ drops = 0
    /\ pc = [r \in Readers |-> "idle"]
    /\ asked \in {[r \in Readers |-> k] : k \in Products}
    /\ inFlight = [s \in Servers |-> [k \in Products |-> Nobody]]
    /\ awaits = [r \in Readers |-> Nobody]
    /\ loaded = [r \in Readers |-> 0]
    /\ shown = InitStock
    /\ atMost = [r \in Readers |-> 0]

----------------------------------------------------------------------------
(* CacheAside.get. *)

Lookup(r, k) ==
    /\ r \in DOMAIN server /\ pc[r] = "idle"
    /\ pc' = [pc EXCEPT ![r] = "looking"]
    /\ asked' = [asked EXCEPT ![r] = k]
    /\ pipe' = [pipe EXCEPT ![server[r]] = Append(@, Get(r, k))]
    /\ atMost' = [atMost EXCEPT ![r] =
                    IF entry[k] = Missing /\ \A s \in Servers : inFlight[s][k] = Nobody
                    THEN stock[k] ELSE InitStock[k]]
    /\ UNCHANGED <<server, stock, entry, replies, drops, inFlight, awaits, loaded, shown>>

(* The oldest reply reaches the server. *)
Deliver(s, kind) ==
    /\ replies[s] # <<>> /\ Head(pipe[s]).kind = kind
    /\ pipe' = [pipe EXCEPT ![s] = Tail(@)] /\ replies' = [replies EXCEPT ![s] = Tail(@)]
    /\ UNCHANGED <<server, stock, entry, drops, asked>>

(* A hit is returned, an error thrown. *)
LookupEnds(s) ==
    LET r == Head(pipe[s]).reader
        reply == Head(replies[s])
    IN
    /\ Deliver(s, "GET")
    /\ ~reply.ok \/ reply.value # Missing
    /\ pc' = [pc EXCEPT ![r] = "idle"]
    /\ shown' = IF reply.ok THEN [shown EXCEPT ![asked[r]] = reply.value] ELSE shown
    /\ atMost' = [atMost EXCEPT ![r] = 0]
    /\ UNCHANGED <<inFlight, awaits, loaded>>

(* Variant: the inFlight map is not asked.                                 *)
MissAlwaysLoads(s) ==
    LET r == Head(pipe[s]).reader
        k == asked[r]
    IN
    /\ Deliver(s, "GET") /\ Head(replies[s]) = Reply(Missing)
    /\ pc' = [pc EXCEPT ![r] = "loading"]
    /\ inFlight' = [inFlight EXCEPT ![s][k] = r]
    /\ awaits' = [awaits EXCEPT ![r] = r]
    /\ UNCHANGED <<loaded, shown, atMost>>

(* A miss waits for the loader in flight, or starts one of its own.        *)
Miss(s) ==
    LET r == Head(pipe[s]).reader
        k == asked[r]
    IN
    /\ Deliver(s, "GET") /\ Head(replies[s]) = Reply(Missing)
    /\ \/ /\ inFlight[s][k] # Nobody
          /\ pc' = [pc EXCEPT ![r] = "waiting"]
          /\ awaits' = [awaits EXCEPT ![r] = inFlight[s][k]]
          /\ UNCHANGED inFlight
       \/ /\ inFlight[s][k] = Nobody
          /\ pc' = [pc EXCEPT ![r] = "loading"]
          /\ awaits' = [awaits EXCEPT ![r] = r]
          /\ inFlight' = [inFlight EXCEPT ![s][k] = r]
    /\ UNCHANGED <<loaded, shown, atMost>>

(* The loader's SELECT is executed. *)
ReadDatabase(r) ==
    /\ pc[r] = "loading"
    /\ pc' = [pc EXCEPT ![r] = "read"]
    /\ loaded' = [loaded EXCEPT ![r] = stock[asked[r]]]
    /\ UNCHANGED <<server, stock, valkey, asked, inFlight, awaits, shown, atMost>>

(* The promise of r's loader settles: every reader that waits for it goes  *)
(* on, and `finally` takes the promise out of the map.                     *)
Settle(r) ==
    /\ inFlight' = [inFlight EXCEPT ![server[r]][asked[r]] = Nobody]
    /\ pc' = [q \in Readers |-> IF awaits[q] = r THEN "idle" ELSE pc[q]]
    /\ awaits' = [q \in Readers |-> IF awaits[q] = r THEN Nobody ELSE awaits[q]]
    /\ atMost' = [q \in Readers |-> IF awaits[q] = r THEN 0 ELSE atMost[q]]
    /\ loaded' = [loaded EXCEPT ![r] = 0]

(* Variant: SET is sent, but not awaited.                                  *)
LoaderReturnsAtOnce(r) ==
    /\ pc[r] = "read"
    /\ pipe' = [pipe EXCEPT ![server[r]] = Append(@, Set(r))]
    /\ Settle(r)
    /\ shown' = [shown EXCEPT ![asked[r]] = loaded[r]]
    /\ UNCHANGED <<server, stock, entry, replies, drops, asked>>

(* The row arrives and is sent to Valkey. *)
LoaderReturns(r) ==
    /\ pc[r] = "read"
    /\ pc' = [pc EXCEPT ![r] = "storing"]
    /\ pipe' = [pipe EXCEPT ![server[r]] = Append(@, Set(r))]
    /\ UNCHANGED <<server, stock, entry, replies, drops, asked, inFlight, awaits, loaded, shown, atMost>>

(* Variant: only the reader that ran the loader hears of its failure.      *)
LoaderFailsForOwnerOnly(r) ==
    /\ pc[r] \in {"loading", "read"}
    /\ pc' = [pc EXCEPT ![r] = "idle"]
    /\ awaits' = [awaits EXCEPT ![r] = Nobody]
    /\ inFlight' = [inFlight EXCEPT ![server[r]][asked[r]] = Nobody]
    /\ loaded' = [loaded EXCEPT ![r] = 0]
    /\ atMost' = [atMost EXCEPT ![r] = 0]
    /\ UNCHANGED <<server, stock, valkey, asked, shown>>

(* No such product, or the database fails: nothing is cached. *)
LoaderFails(r) ==
    /\ pc[r] \in {"loading", "read"}
    /\ Settle(r)
    /\ UNCHANGED <<server, stock, valkey, asked, shown>>

(* SET is answered: the value is returned to everyone who waits, or, when  *)
(* SET failed, the error is.                                               *)
Stored(s) ==
    LET r == Head(pipe[s]).reader IN
    /\ Deliver(s, "SET")
    /\ Settle(r)
    /\ shown' = IF Head(replies[s]).ok THEN [shown EXCEPT ![asked[r]] = loaded[r]] ELSE shown

----------------------------------------------------------------------------
(* Valkey, its connection, and the sales. *)

(* Valkey executes the oldest command of a server that it has not answered *)
(* yet, or answers it with an error.                                       *)
Execute(s) ==
    /\ Len(replies[s]) < Len(pipe[s])
    /\ LET command == pipe[s][Len(replies[s]) + 1]
           k == command.product
       IN  \/ /\ replies' = [replies EXCEPT ![s] = Append(@, Failure)] /\ UNCHANGED entry
           \/ /\ command.kind = "GET"
              /\ replies' = [replies EXCEPT ![s] = Append(@, Reply(entry[k]))] /\ UNCHANGED entry
           \/ /\ command.kind = "SET"
              /\ entry' = [entry EXCEPT ![k] = command.value]
              /\ replies' = [replies EXCEPT ![s] = Append(@, Reply(command.value))]
    /\ UNCHANGED <<server, stock, pipe, drops, pc, asked, inFlight, awaits, loaded, shown, atMost>>

(* A connection is lost: the replies on their way are too, and the         *)
(* commands are executed again once the client has reconnected.            *)
Drop(s) ==
    /\ drops < MaxDrops /\ pipe[s] # <<>>
    /\ drops' = drops + 1 /\ replies' = [replies EXCEPT ![s] = <<>>]
    /\ UNCHANGED <<server, stock, entry, pipe, pc, asked, inFlight, awaits, loaded, shown, atMost>>

(* Variant: SET without EX.                                                *)
ExpireNever(k) == entry[k] # Missing /\ UNCHANGED vars

(* The entry's ttl has passed, or Valkey has evicted it or was restarted.  *)
Expire(k) ==
    /\ entry[k] # Missing
    /\ entry' = [entry EXCEPT ![k] = Missing]
    /\ UNCHANGED <<server, stock, pipe, replies, drops, pc, asked, inFlight, awaits, loaded, shown, atMost>>

(* Variant: without WHERE stock > 0.                                       *)
SellUnguarded(k) ==
    /\ stock[k] > -1
    /\ stock' = [stock EXCEPT ![k] = @ - 1]
    /\ UNCHANGED <<server, valkey, pc, asked, inFlight, awaits, loaded, shown, atMost>>

(* A sale commits; it neither knows nor deletes the cache entry.           *)
Sell(k) ==
    /\ stock[k] > 0
    /\ stock' = [stock EXCEPT ![k] = @ - 1]
    /\ UNCHANGED <<server, valkey, pc, asked, inFlight, awaits, loaded, shown, atMost>>

Next ==
    \/ \E r \in Readers : \E k \in Products : Lookup(r, k)
    \/ \E s \in Servers : LookupEnds(s) \/ Miss(s) \/ Stored(s) \/ Execute(s) \/ Drop(s)
    \/ \E r \in Readers : ReadDatabase(r) \/ LoaderReturns(r) \/ LoaderFails(r)
    \/ \E k \in Products : Expire(k) \/ Sell(k)

(* Valkey and the database answer, and the event loop runs what is ready;  *)
(* after MaxDrops losses the connections stay up long enough for that.     *)
(* Every entry has a ttl.                                                  *)
Fairness ==
    /\ \A s \in Servers : WF_vars(Execute(s)) /\ WF_vars(LookupEnds(s) \/ Miss(s) \/ Stored(s))
    /\ \A r \in Readers : WF_vars(ReadDatabase(r)) /\ WF_vars(LoaderReturns(r))
    /\ \A k \in Products : WF_vars(Expire(k))

Spec == Init /\ [][Next]_vars /\ Fairness

----------------------------------------------------------------------------
(***************************************************************************)
(* Properties.                                                             *)
(***************************************************************************)
TypeOK ==
    /\ stock \in [Products -> Nat] /\ shown \in [Products -> Nat]
    /\ entry \in [Products -> Nat \cup {Missing}]
    /\ server \in Deployments
    /\ \A s \in Servers : Len(pipe[s]) >= Len(replies[s])
    /\ drops \in 0 .. MaxDrops
    /\ pc \in [Readers -> {"idle", "looking", "waiting"} \cup Loading]
    /\ asked \in [Readers -> Products]
    /\ inFlight \in [Servers -> [Products -> Readers \cup {Nobody}]]
    /\ awaits \in [Readers -> Readers \cup {Nobody}]
    /\ loaded \in [Readers -> Nat] /\ atMost \in [Readers -> Nat]

(* Stock only falls, and whatever is cached, expired, in flight or sent    *)
(* again, the answers of a server that is alone with its Valkey never go   *)
(* back up: none shows an older stock than an answer before it.            *)
MonotonicReads == [][OneServer => \A k \in Products : shown'[k] <= shown[k]]_vars

(* The loader runs only when nothing is cached and no other loader of the  *)
(* same product runs (cache-aside.ts: "on a cache miss the loader runs     *)
(* once while concurrent misses for the same key wait").  A miss may be    *)
(* delivered long after it was answered; the order of the replies is what  *)
(* keeps a load that has been stored meanwhile from being repeated.  Two   *)
(* servers may both load.                                                  *)
LoadsOnlyWhatIsMissing ==
    [][\A r \in Readers : OneServer /\ pc[r] # "loading" /\ pc'[r] = "loading" =>
          /\ entry[asked[r]] = Missing
          /\ \A q \in Readers : asked[q] = asked[r] => pc[q] \notin Loading]_vars

(* A read that begins when its product is neither cached nor being loaded, *)
(* by any server, shows a stock no older than its beginning.               *)
ColdReadsAreFresh ==
    [][\A r \in Readers :
          /\ pc[r] # "idle" /\ pc'[r] = "idle"
          /\ LookupEnds(server[r]) \/ Stored(server[r])
          /\ Head(replies[server[r]]).ok
          => shown'[asked[r]] <= atMost[r]]_vars

(* Every read is answered, whether its loader or that of another reader    *)
(* succeeds or fails: no promise stays behind in the map after it settled  *)
(* (cache-aside.ts: "A loader error [...] is *not* cached, so the next     *)
(* `get` re-invokes the loader").                                          *)
EveryReadAnswered == \A r \in Readers : pc[r] # "idle" ~> pc[r] = "idle"

(* No sale deletes an entry and servers overwrite the entries of others    *)
(* with older ones, but when the sales are over the cache comes to hold    *)
(* the stock of the database, or nothing, and stays so: every entry runs   *)
(* out (SET ... EX ttl), and what is loaded then is current.               *)
CacheConverges == <>[](\A k \in Products : entry[k] \in {Missing, stock[k]})
=============================================================================
