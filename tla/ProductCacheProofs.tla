------------------------- MODULE ProductCacheProofs -------------------------
(***************************************************************************)
(* Proofs about the cache-aside reads of ProductCache, for any number of   *)
(* readers, servers, products and lost connections, and any stock: what    *)
(* TLC checks for three readers of one product.                            *)
(***************************************************************************)
EXTENDS ProductCache, SequenceTheorems, TLAPS

----------------------------------------------------------------------------
(***************************************************************************)
(* The invariant.                                                          *)
(***************************************************************************)
Commands == [kind : {"GET", "SET"}, reader : Readers, product : Products, value : Nat]
Answers == [ok : BOOLEAN, value : Nat \cup {Missing}]

Wire ==
    /\ pipe \in [Servers -> Seq(Commands)]
    /\ replies \in [Servers -> Seq(Answers)]

Paired == Wire /\ \A s \in Servers : Len(pipe[s]) >= Len(replies[s])

(* The places of the commands of a server, and of those already answered.  *)
Sent(s) == 1 .. Len(pipe[s])
Answered(s) == 1 .. Len(replies[s])

(* A command was sent by a request at that server which still waits for    *)
(* its answer.                                                             *)
Waits(s, c) ==
    /\ c.reader \in DOMAIN server /\ server[c.reader] = s
    /\ \/ c = Get(c.reader, asked[c.reader]) /\ pc[c.reader] = "looking"
       \/ c = Set(c.reader) /\ pc[c.reader] = "storing"

Owned == \A s \in Servers : \A i \in Sent(s) : Waits(s, pipe[s][i])

OnePerReader ==
    \A s \in Servers : \A i, j \in Sent(s) :
        pipe[s][i].reader = pipe[s][j].reader => i = j

Orderly == Paired /\ Owned /\ OnePerReader

(* A loader that runs is in the map of its server, once, and everyone that *)
(* waits there for its product waits for it.                               *)
Flights ==
    /\ \A r \in Readers :
          /\ pc[r] # "idle" => r \in DOMAIN server
          /\ pc[r] \in {"idle", "looking"} => awaits[r] = Nobody
          /\ pc[r] \in Loading => awaits[r] = r /\ inFlight[server[r]][asked[r]] = r
          /\ pc[r] = "waiting" =>
                awaits[r] # Nobody /\ inFlight[server[r]][asked[r]] = awaits[r]
    /\ \A s \in Servers : \A k \in Products :
          inFlight[s][k] # Nobody =>
              /\ pc[inFlight[s][k]] \in Loading
              /\ server[inFlight[s][k]] = s /\ asked[inFlight[s][k]] = k

CacheTyped == TypeOK /\ Orderly /\ Flights

(* Nothing that may be shown of a product from here on, unless it is on    *)
(* its way already, is more than n.                                        *)
Loaded == {"read", "storing"}

Below(k, n) ==
    /\ stock[k] <= n
    /\ entry[k] # Missing => entry[k] <= n
    /\ \A q \in Readers : asked[q] = k /\ pc[q] \in Loaded => loaded[q] <= n

Shows(answer) == answer.ok /\ answer.value # Missing

NeverRestocked == \A k \in Products : Below(k, InitStock[k])

Fresh ==
    \A r \in Readers : pc[r] # "idle" =>
        /\ Below(asked[r], atMost[r])
        /\ \A s \in Servers : \A i \in Answered(s) :
              pipe[s][i].reader = r /\ Shows(replies[s][i]) => replies[s][i].value <= atMost[r]

(* With one server: what was shown, what is on its way, oldest first, what *)
(* is cached and what is still to come fall in this order.                 *)
Falling ==
    /\ \A k \in Products :
          /\ Below(k, shown[k])
          /\ entry[k] # Missing => Below(k, entry[k])
    /\ \A r \in Readers : pc[r] \in Loaded => stock[asked[r]] <= loaded[r]
    /\ \A s \in Servers : \A i \in Answered(s) :
          pipe[s][i].kind = "SET" /\ replies[s][i].ok => replies[s][i].value = pipe[s][i].value
    /\ \A s \in Servers : \A i \in Answered(s) : Shows(replies[s][i]) =>
          LET k == pipe[s][i].product
              v == replies[s][i].value
          IN
          /\ Below(k, v) /\ v <= shown[k]
          /\ \A j \in Answered(s) :
                i < j /\ Shows(replies[s][j]) /\ pipe[s][j].product = k
                => replies[s][j].value <= v

(* With one server: a GET that found nothing cached, though something is   *)
(* now, is delivered before the answer to the SET that stored it.          *)
LateMisses ==
    \A s \in Servers : \A i \in Answered(s) :
        LET k == pipe[s][i].product IN
        pipe[s][i].kind = "GET" /\ replies[s][i] = Reply(Missing) /\ entry[k] # Missing =>
            \E j \in Answered(s) : i < j /\ pipe[s][j].kind = "SET" /\ pipe[s][j].product = k

----------------------------------------------------------------------------
(***************************************************************************)
(* What a step does to the commands and the replies.                       *)
(***************************************************************************)
LEMMA ServersTyped ==
    ASSUME TypeOK
    PROVE  /\ DOMAIN server \subseteq Readers
           /\ \A r \in DOMAIN server : server[r] \in Servers
BY DeploymentsAssumption DEF TypeOK

(* The command at place i was at place j, with the answer it has now.      *)
WasAt(s, i, j) ==
    /\ j \in Sent(s) /\ pipe'[s][i] = pipe[s][j]
    /\ i \in Answered(s)' => j \in Answered(s) /\ replies'[s][i] = replies[s][j]

LEMMA LengthsAreNumbers ==
    ASSUME Paired, NEW s \in Servers
    PROVE  /\ Len(pipe[s]) \in Nat /\ Len(replies[s]) \in Nat
           /\ Answered(s) \subseteq Sent(s)
           /\ \A i \in Sent(s) : i \in Nat /\ pipe[s][i] \in Commands
           /\ \A i \in Answered(s) : replies[s][i] \in Answers
BY DEF Paired, Wire, Sent, Answered

Sends(s, c) ==
    pipe' = [pipe EXCEPT ![s] = Append(@, c)] /\ UNCHANGED replies

LEMMA AfterSending ==
    ASSUME Paired, NEW s \in Servers, NEW c \in Commands, Sends(s, c)
    PROVE  /\ Paired'
           /\ \A t \in Servers : \A i \in Sent(t)' :
                 \/ WasAt(t, i, i)
                 \/ t = s /\ i \notin Answered(t)' /\ i = Len(pipe[s]) + 1 /\ pipe'[t][i] = c
           /\ \A t \in Servers : \A i \in Answered(t) : i \in Answered(t)' /\ WasAt(t, i, i)
<1>1. pipe' \in [Servers -> Seq(Commands)] /\ replies' = replies
  BY DEF Paired, Wire, Sends
<1>2. /\ Len(pipe'[s]) = Len(pipe[s]) + 1 /\ pipe'[s][Len(pipe[s]) + 1] = c
      /\ \A i \in 1 .. Len(pipe[s]) : pipe'[s][i] = pipe[s][i]
  BY DEF Paired, Wire, Sends
<1>3. \A t \in Servers : t # s => pipe'[t] = pipe[t]
  BY DEF Paired, Wire, Sends
<1>4. \A t \in Servers : Len(pipe[t]) \in Nat /\ Len(replies[t]) \in Nat
  BY LengthsAreNumbers
<1>5. Paired'
  BY <1>1, <1>2, <1>3, <1>4 DEF Paired, Wire
<1>6. ASSUME NEW t \in Servers, t # s
      PROVE  /\ \A i \in Sent(t)' : WasAt(t, i, i)
             /\ \A i \in Answered(t) : i \in Answered(t)' /\ WasAt(t, i, i)
  BY <1>1, <1>3, <1>4, <1>6 DEF Paired, WasAt, Sent, Answered
<1>7. /\ \A i \in Sent(s)' :
            \/ WasAt(s, i, i)
            \/ i \notin Answered(s)' /\ i = Len(pipe[s]) + 1 /\ pipe'[s][i] = c
      /\ \A i \in Answered(s) : i \in Answered(s)' /\ WasAt(s, i, i)
  BY <1>1, <1>2, <1>4 DEF Paired, WasAt, Sent, Answered
<1> QED
  BY <1>5, <1>6, <1>7

LEMMA AfterDelivery ==
    ASSUME Paired, NEW s \in Servers, NEW kind, Deliver(s, kind)
    PROVE  /\ Paired' /\ 1 \in Answered(s) /\ 1 \in Sent(s)
           /\ Head(pipe[s]) = pipe[s][1] /\ Head(replies[s]) = replies[s][1]
           /\ pipe[s][1] \in Commands /\ replies[s][1] \in Answers
           /\ \A i \in Sent(s)' : WasAt(s, i, i + 1)
           /\ \A t \in Servers \ {s} : \A i \in Sent(t)' : WasAt(t, i, i)
           /\ \A t \in Servers \ {s} : \A i \in Answered(t) : i \in Answered(t)' /\ WasAt(t, i, i)
           /\ \A i \in Answered(s) : i > 1 => i - 1 \in Answered(s)' /\ WasAt(s, i - 1, i)
<1>1. /\ pipe' = [pipe EXCEPT ![s] = Tail(@)] /\ replies' = [replies EXCEPT ![s] = Tail(@)]
      /\ replies[s] # <<>>
  BY DEF Deliver
<1>2. pipe[s] \in Seq(Commands) /\ replies[s] \in Seq(Answers)
  BY DEF Paired, Wire
<1>3. Len(replies[s]) >= 1 /\ Len(pipe[s]) >= Len(replies[s]) /\ pipe[s] # <<>>
  BY <1>1, <1>2, LengthsAreNumbers DEF Paired
<1>4. /\ Tail(pipe[s]) \in Seq(Commands) /\ Len(Tail(pipe[s])) = Len(pipe[s]) - 1
      /\ \A i \in 1 .. Len(pipe[s]) - 1 : Tail(pipe[s])[i] = pipe[s][i + 1]
  BY <1>2, <1>3
<1>5. /\ Tail(replies[s]) \in Seq(Answers) /\ Len(Tail(replies[s])) = Len(replies[s]) - 1
      /\ \A i \in 1 .. Len(replies[s]) - 1 : Tail(replies[s])[i] = replies[s][i + 1]
  BY <1>2, <1>3
<1>6. /\ pipe'[s] = Tail(pipe[s]) /\ replies'[s] = Tail(replies[s])
      /\ \A t \in Servers \ {s} : pipe'[t] = pipe[t] /\ replies'[t] = replies[t]
  BY <1>1 DEF Paired, Wire
<1>7. \A t \in Servers : Len(pipe[t]) \in Nat /\ Len(replies[t]) \in Nat
  BY LengthsAreNumbers
<1>8. Paired'
  BY <1>1, <1>3, <1>4, <1>5, <1>6, <1>7 DEF Paired, Wire
<1>9. /\ 1 \in Answered(s) /\ 1 \in Sent(s)
      /\ Head(pipe[s]) = pipe[s][1] /\ Head(replies[s]) = replies[s][1]
      /\ pipe[s][1] \in Commands /\ replies[s][1] \in Answers
  BY <1>2, <1>3, <1>7 DEF Sent, Answered
<1>10. \A i \in Sent(s)' : WasAt(s, i, i + 1)
  BY <1>3, <1>4, <1>5, <1>6, <1>7 DEF WasAt, Sent, Answered
<1>11. \A i \in Answered(s) : i > 1 => i - 1 \in Answered(s)' /\ WasAt(s, i - 1, i)
  BY <1>3, <1>4, <1>5, <1>6, <1>7 DEF WasAt, Sent, Answered
<1>12. \A t \in Servers \ {s} :
          /\ \A i \in Sent(t)' : WasAt(t, i, i)
          /\ \A i \in Answered(t) : i \in Answered(t)' /\ WasAt(t, i, i)
  BY <1>6, <1>7 DEF Paired, WasAt, Sent, Answered
<1> QED
  BY <1>8, <1>9, <1>10, <1>11, <1>12

(* Valkey answers the first command that it has not answered.              *)
Replies(s, answer) ==
    replies' = [replies EXCEPT ![s] = Append(@, answer)] /\ UNCHANGED pipe

LEMMA AfterReply ==
    ASSUME Paired, NEW s \in Servers, NEW answer \in Answers, Replies(s, answer),
           Len(replies[s]) < Len(pipe[s])
    PROVE  /\ Paired'
           /\ \A t \in Servers : Sent(t)' = Sent(t) /\ pipe'[t] = pipe[t]
           /\ \A t \in Servers : \A i \in Answered(t)' :
                 \/ i \in Answered(t) /\ replies'[t][i] = replies[t][i]
                 \/ t = s /\ i = Len(replies[s]) + 1 /\ replies'[t][i] = answer
           /\ \A t \in Servers : \A i \in Answered(t) : i \in Answered(t)'
           /\ Len(replies[s]) + 1 \in Answered(s)' /\ Len(replies[s]) + 1 \in Sent(s)
           /\ \A i \in Answered(s) : i < Len(replies[s]) + 1
<1>1. replies' \in [Servers -> Seq(Answers)] /\ pipe' = pipe
  BY DEF Paired, Wire, Replies
<1>2. /\ Len(replies'[s]) = Len(replies[s]) + 1 /\ replies'[s][Len(replies[s]) + 1] = answer
      /\ \A i \in 1 .. Len(replies[s]) : replies'[s][i] = replies[s][i]
  BY DEF Paired, Wire, Replies
<1>3. \A t \in Servers : t # s => replies'[t] = replies[t]
  BY DEF Paired, Wire, Replies
<1>4. \A t \in Servers : Len(pipe[t]) \in Nat /\ Len(replies[t]) \in Nat
  BY LengthsAreNumbers
<1>5. Paired'
  <2>1. \A t \in Servers : Len(pipe'[t]) >= Len(replies'[t])
    BY <1>1, <1>2, <1>3, <1>4 DEF Paired
  <2> QED
    BY <1>1, <2>1 DEF Paired, Wire
<1>6. \A t \in Servers : Sent(t)' = Sent(t) /\ pipe'[t] = pipe[t]
  BY <1>1 DEF Sent
<1>7. \A t \in Servers \ {s} : Answered(t)' = Answered(t) /\ replies'[t] = replies[t]
  BY <1>3 DEF Answered
<1>8. /\ \A i \in Answered(s)' :
            \/ i \in Answered(s) /\ replies'[s][i] = replies[s][i]
            \/ i = Len(replies[s]) + 1 /\ replies'[s][i] = answer
      /\ \A i \in Answered(s) : i \in Answered(s)' /\ i < Len(replies[s]) + 1
      /\ Len(replies[s]) + 1 \in Answered(s)' /\ Len(replies[s]) + 1 \in Sent(s)
  BY <1>2, <1>4 DEF Answered, Sent
<1>9. ASSUME NEW t \in Servers
      PROVE  /\ \A i \in Answered(t)' :
                   \/ i \in Answered(t) /\ replies'[t][i] = replies[t][i]
                   \/ t = s /\ i = Len(replies[s]) + 1 /\ replies'[t][i] = answer
             /\ \A i \in Answered(t) : i \in Answered(t)'
  <2>1. CASE t = s
    BY <1>8, <2>1
  <2>2. CASE t # s
    BY <1>7, <2>2
  <2> QED
    BY <2>1, <2>2
<1> QED
  BY <1>5, <1>6, <1>8, <1>9

LEMMA AfterDrop ==
    ASSUME Paired, NEW s \in Servers, Drop(s)
    PROVE  /\ Paired'
           /\ \A t \in Servers : Sent(t)' = Sent(t) /\ pipe'[t] = pipe[t]
           /\ \A t \in Servers : \A i \in Answered(t)' :
                 i \in Answered(t) /\ replies'[t][i] = replies[t][i] /\ t # s
           /\ \A t \in Servers \ {s} : replies'[t] = replies[t]
<1>1. /\ pipe' = pipe /\ replies' \in [Servers -> Seq(Answers)]
      /\ replies'[s] = <<>> /\ \A t \in Servers \ {s} : replies'[t] = replies[t]
  BY DEF Paired, Wire, Drop
<1>2. \A t \in Servers : Len(pipe[t]) \in Nat /\ Len(replies[t]) \in Nat
  BY LengthsAreNumbers
<1> QED
  BY <1>1, <1>2 DEF Paired, Wire, Sent, Answered

----------------------------------------------------------------------------
(***************************************************************************)
(* Every command belongs to a request that waits for its answer.           *)
(***************************************************************************)
LEMMA CommandsTyped ==
    ASSUME TypeOK, NEW r \in Readers
    PROVE  /\ \A k \in Products : Get(r, k) \in Commands
           /\ Set(r) \in Commands
           /\ \A k : Get(r, k).reader = r /\ Get(r, k).kind = "GET" /\ Get(r, k).product = k
           /\ Set(r).reader = r /\ Set(r).kind = "SET" /\ Set(r).product = asked[r]
           /\ Set(r).value = loaded[r]
BY DEF TypeOK, Commands, Get, Set

Undisturbed(r) ==
    /\ UNCHANGED server
    /\ asked'[r] = asked[r] /\ pc'[r] = pc[r] /\ loaded'[r] = loaded[r]

LEMMA WaitsOn ==
    ASSUME NEW s, NEW c, Waits(s, c), Undisturbed(c.reader)
    PROVE  Waits(s, c)'
BY DEF Waits, Undisturbed, Get, Set

LEMMA WhoWaits ==
    ASSUME TypeOK, Paired, Owned, NEW s \in Servers, NEW i \in Sent(s)
    PROVE  /\ pipe[s][i] \in Commands /\ pipe[s][i].reader \in Readers
           /\ Waits(s, pipe[s][i])
           /\ pc[pipe[s][i].reader] \in {"looking", "storing"}
BY LengthsAreNumbers, ServersTyped DEF Owned, Waits, Commands

LEMMA OrderlyStays ==
    ASSUME TypeOK, Orderly, Paired',
           \A t \in Servers : Sent(t)' = Sent(t) /\ pipe'[t] = pipe[t],
           \A r \in Readers : pc[r] \in {"looking", "storing"} => Undisturbed(r)
    PROVE  Orderly'
<1>1. ASSUME NEW t \in Servers, NEW i \in Sent(t)'
      PROVE  i \in Sent(t) /\ pipe'[t][i] = pipe[t][i] /\ Waits(t, pipe[t][i])'
  <2>1. i \in Sent(t) /\ pipe'[t][i] = pipe[t][i] /\ Undisturbed(pipe[t][i].reader)
    BY <1>1, WhoWaits DEF Orderly
  <2>2. \A d : d = pipe[t][i] => Waits(t, d)'
    BY <1>1, <2>1, WhoWaits, WaitsOn DEF Orderly
  <2> QED
    BY <2>1, <2>2
<1>2. Owned'
  BY <1>1 DEF Owned
<1>3. OnePerReader'
  BY <1>1 DEF OnePerReader, Orderly
<1> QED
  BY <1>2, <1>3 DEF Orderly

LEMMA OrderlySends ==
    ASSUME TypeOK, Orderly, NEW s \in Servers, NEW c \in Commands, Sends(s, c),
           Waits(s, c)', pc[c.reader] \notin {"looking", "storing"},
           \A r \in Readers : r # c.reader => Undisturbed(r)
    PROVE  Orderly'
<1>1. /\ Paired'
      /\ \A t \in Servers : \A i \in Sent(t)' :
            \/ i \in Sent(t) /\ pipe'[t][i] = pipe[t][i]
            \/ t = s /\ i = Len(pipe[s]) + 1 /\ pipe'[t][i] = c
  BY AfterSending DEF Orderly, WasAt
<1>2. ASSUME NEW t \in Servers, NEW i \in Sent(t)
      PROVE  /\ pipe[t][i].reader # c.reader
             /\ \A d : d = pipe[t][i] => Waits(t, d)'
  <2>1. pipe[t][i].reader # c.reader /\ Undisturbed(pipe[t][i].reader)
    BY <1>2, WhoWaits DEF Orderly
  <2> QED
    BY <1>2, <2>1, WhoWaits, WaitsOn DEF Orderly
<1>3. ASSUME NEW t \in Servers, NEW i \in Sent(t)' PROVE Waits(t, pipe[t][i])'
  <2>1. CASE i \in Sent(t) /\ pipe'[t][i] = pipe[t][i]
    BY <1>2, <2>1
  <2>2. CASE t = s /\ pipe'[t][i] = c
    BY <2>2
  <2> QED
    BY <1>1, <2>1, <2>2
<1>4. Owned'
  BY <1>3 DEF Owned
<1>5. OnePerReader'
  BY <1>1, <1>2 DEF OnePerReader, Orderly
<1> QED
  BY <1>1, <1>4, <1>5 DEF Orderly

LEMMA OrderlyDelivers ==
    ASSUME TypeOK, Orderly, NEW s \in Servers, NEW kind, Deliver(s, kind),
           \A r \in Readers :
              pc[r] \in {"looking", "storing"} /\ r # pipe[s][1].reader => Undisturbed(r)
    PROVE  Orderly'
<1>1. /\ Paired' /\ 1 \in Sent(s)
      /\ \A i \in Sent(s)' : i + 1 \in Sent(s) /\ pipe'[s][i] = pipe[s][i + 1]
      /\ \A t \in Servers \ {s} : \A i \in Sent(t)' : i \in Sent(t) /\ pipe'[t][i] = pipe[t][i]
  BY AfterDelivery DEF Orderly, WasAt
<1>2. ASSUME NEW t \in Servers, NEW i \in Sent(t), t # s \/ i # 1
      PROVE  \A d : d = pipe[t][i] => Waits(t, d)'
  <2>1. pipe[t][i].reader # pipe[s][1].reader
    BY <1>1, <1>2, WhoWaits DEF Orderly, OnePerReader, Waits
  <2>2. Undisturbed(pipe[t][i].reader)
    BY <1>2, <2>1, WhoWaits DEF Orderly
  <2> QED
    BY <1>2, <2>2, WhoWaits, WaitsOn DEF Orderly
<1>3. \A i \in Sent(s)' : i \in Nat /\ i >= 1 /\ i + 1 # 1
  BY <1>1, LengthsAreNumbers DEF Paired, Wire, Sent
<1>4. ASSUME NEW t \in Servers, NEW i \in Sent(t)' PROVE Waits(t, pipe[t][i])'
  <2>1. CASE t = s
    BY <1>1, <1>2, <1>3, <2>1
  <2>2. CASE t # s
    BY <1>1, <1>2, <2>2
  <2> QED
    BY <2>1, <2>2
<1>5. Owned'
  BY <1>4 DEF Owned
<1>6. ASSUME NEW t \in Servers, NEW i \in Sent(t)', NEW j \in Sent(t)',
             pipe'[t][i].reader = pipe'[t][j].reader
      PROVE  i = j
  <2>1. CASE t = s
    <3>1. i + 1 = j + 1
      BY <1>1, <1>6, <2>1 DEF Orderly, OnePerReader
    <3> QED
      BY <1>3, <2>1, <3>1
  <2>2. CASE t # s
    BY <1>1, <1>6, <2>2 DEF Orderly, OnePerReader
  <2> QED
    BY <2>1, <2>2
<1> QED
  BY <1>1, <1>5, <1>6 DEF Orderly, OnePerReader

(* Whose command the reply that is delivered belongs to.                   *)
LEMMA DeliveredTo ==
    ASSUME TypeOK, Orderly, NEW s \in Servers, NEW kind, Deliver(s, kind)
    PROVE  LET r == Head(pipe[s]).reader IN
           /\ 1 \in Answered(s) /\ 1 \in Sent(s) /\ r = pipe[s][1].reader
           /\ Head(replies[s]) = replies[s][1] /\ replies[s][1] \in Answers
           /\ r \in Readers /\ r \in DOMAIN server /\ server[r] = s
           /\ pipe[s][1].kind = kind /\ pipe[s][1].product = asked[r]
           /\ kind = "GET" => pc[r] = "looking"
           /\ kind = "SET" => pc[r] = "storing" /\ pipe[s][1] = Set(r)
<1>1. /\ 1 \in Answered(s) /\ 1 \in Sent(s)
      /\ Head(pipe[s]) = pipe[s][1] /\ Head(replies[s]) = replies[s][1]
      /\ replies[s][1] \in Answers
  BY AfterDelivery DEF Orderly
<1>2. pipe[s][1].kind = kind
  BY <1>1 DEF Deliver
<1>3. pipe[s][1].reader \in Readers /\ Waits(s, pipe[s][1])
  BY <1>1, WhoWaits DEF Orderly
<1> QED
  BY <1>1, <1>2, <1>3 DEF Waits, Get, Set

----------------------------------------------------------------------------
(***************************************************************************)
(* The loaders and those who wait for them.                                *)
(***************************************************************************)
LEMMA WhoIsAwaited ==
    ASSUME TypeOK, Flights, NEW q \in Readers, awaits[q] # Nobody
    PROVE  /\ awaits[q] \in Readers /\ pc[awaits[q]] \in Loading
           /\ pc[q] = "waiting" \/ awaits[q] = q
           /\ pc[q] # "idle" /\ q \in DOMAIN server
           /\ server[awaits[q]] = server[q] /\ asked[awaits[q]] = asked[q]
<1>1. /\ pc[q] \in {"idle", "looking", "waiting"} \cup Loading
      /\ awaits[q] \in Readers
      /\ asked[q] \in Products
  BY DEF TypeOK
<1>2. pc[q] \notin {"idle", "looking"}
  BY DEF Flights
<1>3. q \in DOMAIN server /\ server[q] \in Servers
  BY <1>2, ServersTyped DEF Flights
<1>4. CASE pc[q] = "waiting"
  <2>1. inFlight[server[q]][asked[q]] = awaits[q]
    BY <1>4 DEF Flights
  <2> QED
    BY <1>1, <1>2, <1>3, <1>4, <2>1 DEF Flights
<1>5. CASE pc[q] \in Loading
  BY <1>1, <1>2, <1>3, <1>5 DEF Flights
<1> QED
  BY <1>1, <1>2, <1>4, <1>5

LEMMA AfterSettling ==
    ASSUME TypeOK, Flights, NEW r \in Readers, pc[r] \in Loading, Settle(r),
           UNCHANGED <<server, asked>>
    PROVE  /\ Flights'
           /\ \A q \in Readers : awaits[q] # r =>
                 Undisturbed(q) /\ awaits'[q] = awaits[q] /\ atMost'[q] = atMost[q]
           /\ \A q \in Readers : awaits[q] = r =>
                 pc'[q] = "idle" /\ awaits'[q] = Nobody
           /\ \A s \in Servers : \A k \in Products : inFlight[s][k] # r =>
                 inFlight'[s][k] = inFlight[s][k]
<1>1. r \in DOMAIN server /\ server[r] \in Servers /\ asked[r] \in Products /\ awaits[r] = r
  BY ServersTyped DEF Flights, TypeOK, Loading
<1>2. /\ inFlight[server[r]][asked[r]] = r /\ inFlight'[server[r]][asked[r]] = Nobody
      /\ \A s \in Servers : \A k \in Products :
            s # server[r] \/ k # asked[r] => inFlight'[s][k] = inFlight[s][k]
  BY <1>1 DEF Flights, Settle, TypeOK
<1>3. \A s \in Servers : \A k \in Products : inFlight[s][k] = r => s = server[r] /\ k = asked[r]
  BY NullsAssumption DEF Flights
<1>4. \A q \in Readers :
         /\ awaits[q] # r => /\ pc'[q] = pc[q] /\ awaits'[q] = awaits[q]
                             /\ atMost'[q] = atMost[q] /\ loaded'[q] = loaded[q]
         /\ awaits[q] = r => pc'[q] = "idle" /\ awaits'[q] = Nobody
  BY <1>1 DEF Settle, TypeOK
<1>5. ASSUME NEW q \in Readers
      PROVE  /\ pc'[q] # "idle" => q \in DOMAIN server'
             /\ pc'[q] \in {"idle", "looking"} => awaits'[q] = Nobody
             /\ pc'[q] \in Loading =>
                   awaits'[q] = q /\ inFlight'[server'[q]][asked'[q]] = q
             /\ pc'[q] = "waiting" =>
                   awaits'[q] # Nobody /\ inFlight'[server'[q]][asked'[q]] = awaits'[q]
  <2>1. CASE awaits[q] = r
    BY <1>4, <2>1 DEF Loading
  <2>2. CASE awaits[q] # r
    <3>1. pc'[q] = pc[q] /\ awaits'[q] = awaits[q]
      BY <1>4, <2>2
    <3>2. pc[q] # "idle" => q \in DOMAIN server /\ server[q] \in Servers /\ asked[q] \in Products
      BY ServersTyped DEF Flights, TypeOK
    <3>3. ASSUME pc[q] \in Loading \/ pc[q] = "waiting"
          PROVE  inFlight'[server[q]][asked[q]] = inFlight[server[q]][asked[q]]
      <4>1. inFlight[server[q]][asked[q]] = awaits[q] /\ pc[q] # "idle"
        BY <3>3 DEF Flights, Loading
      <4> QED
        BY <1>2, <2>2, <3>2, <4>1
    <3> QED
      BY <3>1, <3>2, <3>3 DEF Flights
  <2> QED
    BY <2>1, <2>2
<1>6. ASSUME NEW s \in Servers, NEW k \in Products, inFlight'[s][k] # Nobody
      PROVE  /\ pc'[inFlight'[s][k]] \in Loading
             /\ server'[inFlight'[s][k]] = s /\ asked'[inFlight'[s][k]] = k
  <2>1. inFlight'[s][k] = inFlight[s][k] /\ inFlight[s][k] # r /\ inFlight[s][k] \in Readers
    BY <1>2, <1>3, <1>6 DEF TypeOK
  <2>2. /\ pc[inFlight[s][k]] \in Loading
        /\ server[inFlight[s][k]] = s /\ asked[inFlight[s][k]] = k
    BY <1>6, <2>1 DEF Flights
  <2>3. awaits[inFlight[s][k]] = inFlight[s][k]
    BY <2>1, <2>2 DEF Flights
  <2> QED
    BY <1>4, <2>1, <2>2, <2>3
<1>7. Flights'
  BY <1>5, <1>6 DEF Flights
<1>8. \A q \in Readers : awaits[q] # r => Undisturbed(q)
  BY <1>4 DEF Undisturbed
<1> QED
  BY <1>2, <1>3, <1>4, <1>7, <1>8

----------------------------------------------------------------------------
(***************************************************************************)
(* Types, order and loaders: each step keeps them.                         *)
(***************************************************************************)
LEMMA TypesOfParts ==
    ASSUME TypeOK
    PROVE  /\ stock \in [Products -> Nat] /\ shown \in [Products -> Nat]
           /\ entry \in [Products -> Nat \cup {Missing}]
           /\ server \in Deployments /\ drops \in 0 .. MaxDrops
           /\ pc \in [Readers -> {"idle", "looking", "waiting", "loading", "read", "storing"}]
           /\ asked \in [Readers -> Products]
           /\ inFlight \in [Servers -> [Products -> Readers \cup {Nobody}]]
           /\ awaits \in [Readers -> Readers \cup {Nobody}]
           /\ loaded \in [Readers -> Nat] /\ atMost \in [Readers -> Nat]
BY DEF TypeOK, Loading

LEMMA FlightsStay ==
    ASSUME TypeOK, Flights, UNCHANGED <<server, inFlight, awaits>>,
           \A r \in Readers :
              \/ pc'[r] = pc[r] /\ asked'[r] = asked[r]
              \/ pc[r] = "idle" /\ pc'[r] = "looking" /\ r \in DOMAIN server
              \/ pc[r] = "looking" /\ pc'[r] = "idle" /\ asked'[r] = asked[r]
              \/ pc[r] \in Loading /\ pc'[r] \in Loading /\ asked'[r] = asked[r]
    PROVE  Flights'
<1>1. ASSUME NEW r \in Readers
      PROVE  /\ pc'[r] # "idle" => r \in DOMAIN server
             /\ pc'[r] \in {"idle", "looking"} => awaits[r] = Nobody
             /\ pc'[r] \in Loading => awaits[r] = r /\ inFlight[server[r]][asked'[r]] = r
             /\ pc'[r] = "waiting" =>
                   awaits[r] # Nobody /\ inFlight[server[r]][asked'[r]] = awaits[r]
  BY DEF Flights, Loading
<1>2. ASSUME NEW s \in Servers, NEW k \in Products, inFlight[s][k] # Nobody
      PROVE  /\ pc'[inFlight[s][k]] \in Loading
             /\ server[inFlight[s][k]] = s /\ asked'[inFlight[s][k]] = k
  <2>1. inFlight[s][k] \in Readers
    BY <1>2 DEF TypeOK
  <2>2. /\ pc[inFlight[s][k]] \in Loading
        /\ server[inFlight[s][k]] = s /\ asked[inFlight[s][k]] = k
    BY <1>2 DEF Flights
  <2> QED
    BY <2>1, <2>2 DEF Loading
<1> QED
  BY <1>1, <1>2 DEF Flights

LEMMA LookupKeeps ==
    ASSUME CacheTyped, NEW r \in Readers, NEW k \in Products, Lookup(r, k)
    PROVE  CacheTyped'
<1>1. TypeOK /\ Orderly /\ Flights /\ pc[r] = "idle" /\ r \in DOMAIN server /\ server[r] \in Servers
  BY ServersTyped DEF CacheTyped, Lookup
<1>2. /\ Sends(server[r], Get(r, k)) /\ Get(r, k) \in Commands /\ Get(r, k).reader = r
      /\ server' = server /\ loaded' = loaded
      /\ asked'[r] = k /\ pc'[r] = "looking"
      /\ \A q \in Readers : q # r => pc'[q] = pc[q] /\ asked'[q] = asked[q]
  BY <1>1, CommandsTyped DEF Lookup, Sends, TypeOK
<1>3. \A q \in Readers : q # r => Undisturbed(q)
  BY <1>2 DEF Undisturbed
<1>4. \A s, c : s = server[r] /\ c = Get(r, k) => Waits(s, c)'
  BY <1>1, <1>2 DEF Waits, Get
<1>5. Orderly'
  <2> DEFINE s == server[r]
             c == Get(r, k)
  <2>1. c.reader = r /\ Sends(s, c) /\ s \in Servers /\ c \in Commands
    BY <1>1, <1>2
  <2>2. pc[c.reader] \notin {"looking", "storing"}
    BY <1>1, <2>1
  <2>3. \A q \in Readers : q # c.reader => Undisturbed(q)
    BY <1>3, <2>1
  <2>4. \A t, d : t = s /\ d = c => Waits(t, d)'
    BY <1>4
  <2> HIDE DEF s, c
  <2> QED
    BY <1>1, <2>1, <2>2, <2>3, <2>4, OrderlySends
<1>6. Flights'
  BY <1>1, <1>2, FlightsStay DEF Lookup
<1>7. TypeOK'
  <2>1. atMost' \in [Readers -> Nat]
    BY <1>1, TypesOfParts, StockAssumption DEF Lookup
  <2> QED
    BY <1>1, <1>5, <2>1, TypesOfParts DEF Lookup, TypeOK, Loading, Orderly, Paired
<1> QED
  BY <1>5, <1>6, <1>7 DEF CacheTyped

LEMMA LookupEndsKeeps ==
    ASSUME CacheTyped, NEW s \in Servers, LookupEnds(s)
    PROVE  CacheTyped'
<1> DEFINE r == Head(pipe[s]).reader
<1>1. TypeOK /\ Orderly /\ Flights /\ Deliver(s, "GET")
  BY DEF CacheTyped, LookupEnds
<1>2. /\ r = pipe[s][1].reader /\ r \in Readers /\ pc[r] = "looking"
      /\ Head(replies[s]) \in Answers
  BY <1>1, DeliveredTo
<1>3. /\ UNCHANGED <<server, asked, loaded, stock, entry, drops, inFlight, awaits>>
      /\ pc' = [pc EXCEPT ![r] = "idle"] /\ atMost' = [atMost EXCEPT ![r] = 0]
      /\ shown' = IF Head(replies[s]).ok THEN [shown EXCEPT ![asked[r]] = Head(replies[s]).value]
                                         ELSE shown
      /\ ~Head(replies[s]).ok \/ Head(replies[s]).value # Missing
  BY DEF LookupEnds, Deliver
<1> HIDE DEF r
<1>4. pc'[r] = "idle" /\ \A q \in Readers : q # r => Undisturbed(q)
  BY <1>1, <1>2, <1>3, TypesOfParts DEF Undisturbed
<1>5. Orderly'
  BY <1>1, <1>2, <1>4, OrderlyDelivers
<1>6. Flights'
  BY <1>1, <1>2, <1>3, <1>4, FlightsStay DEF Undisturbed
<1>7. TypeOK'
  <2>1. shown' \in [Products -> Nat]
    BY <1>1, <1>2, <1>3, TypesOfParts DEF Answers
  <2> QED
    BY <1>1, <1>2, <1>3, <1>5, <2>1, TypesOfParts DEF TypeOK, Loading, Orderly, Paired
<1> QED
  BY <1>5, <1>6, <1>7 DEF CacheTyped

LEMMA MissIs ==
    ASSUME NEW s \in Servers, Miss(s)
    PROVE  LET r == Head(pipe[s]).reader
               k == asked[r]
           IN
           /\ Deliver(s, "GET") /\ Head(replies[s]) = Reply(Missing)
           /\ UNCHANGED <<server, asked, loaded, stock, entry, drops, shown, atMost>>
           /\ \/ /\ inFlight[s][k] # Nobody
                 /\ pc' = [pc EXCEPT ![r] = "waiting"]
                 /\ awaits' = [awaits EXCEPT ![r] = inFlight[s][k]]
                 /\ inFlight' = inFlight
              \/ /\ inFlight[s][k] = Nobody
                 /\ pc' = [pc EXCEPT ![r] = "loading"]
                 /\ awaits' = [awaits EXCEPT ![r] = r]
                 /\ inFlight' = [inFlight EXCEPT ![s][k] = r]
BY Zenon DEF Miss, Deliver

LEMMA MissLeaves ==
    ASSUME NEW s \in Servers, Miss(s)
    PROVE  Deliver(s, "GET") /\ entry' = entry /\ shown' = shown
BY MissIs, Zenon

LEMMA MissKeeps ==
    ASSUME CacheTyped, NEW s \in Servers, Miss(s)
    PROVE  CacheTyped'
<1> DEFINE r == Head(pipe[s]).reader
           k == asked[r]
<1>1. TypeOK /\ Orderly /\ Flights /\ Deliver(s, "GET")
  BY MissIs, Zenon DEF CacheTyped
<1>2. /\ r = pipe[s][1].reader /\ r \in Readers /\ pc[r] = "looking"
      /\ r \in DOMAIN server /\ server[r] = s /\ k \in Products
  BY <1>1, DeliveredTo, TypesOfParts
<1>3. /\ UNCHANGED <<server, asked, loaded, stock, entry, drops, shown, atMost>>
      /\ \/ /\ inFlight[s][k] # Nobody
            /\ pc' = [pc EXCEPT ![r] = "waiting"]
            /\ awaits' = [awaits EXCEPT ![r] = inFlight[s][k]]
            /\ inFlight' = inFlight
         \/ /\ inFlight[s][k] = Nobody
            /\ pc' = [pc EXCEPT ![r] = "loading"]
            /\ awaits' = [awaits EXCEPT ![r] = r]
            /\ inFlight' = [inFlight EXCEPT ![s][k] = r]
  BY MissIs, Zenon
<1> HIDE DEF r, k
<1>4. \A q \in Readers : q # r => Undisturbed(q) /\ awaits'[q] = awaits[q]
  BY <1>1, <1>2, <1>3, TypesOfParts DEF Undisturbed
<1>5. Orderly'
  BY <1>1, <1>2, <1>4, OrderlyDelivers
<1>6. Flights'
  <2>1. CASE inFlight[s][k] # Nobody
    <3>1. /\ inFlight' = inFlight /\ pc'[r] = "waiting" /\ awaits'[r] = inFlight[s][k]
      BY <1>1, <1>2, <1>3, <2>1, TypesOfParts
    <3>2. ASSUME NEW q \in Readers
          PROVE  /\ pc'[q] # "idle" => q \in DOMAIN server
                 /\ pc'[q] \in {"idle", "looking"} => awaits'[q] = Nobody
                 /\ pc'[q] \in Loading => awaits'[q] = q /\ inFlight[server[q]][asked[q]] = q
                 /\ pc'[q] = "waiting" =>
                       awaits'[q] # Nobody /\ inFlight[server[q]][asked[q]] = awaits'[q]
      <4>1. CASE q = r
        BY <1>2, <2>1, <3>1, <4>1 DEF Loading, k
      <4>2. CASE q # r
        BY <1>1, <1>4, <4>2 DEF Flights, Undisturbed
      <4> QED
        BY <4>1, <4>2
    <3>3. ASSUME NEW t \in Servers, NEW j \in Products, inFlight[t][j] # Nobody
          PROVE  /\ pc'[inFlight[t][j]] \in Loading
                 /\ server[inFlight[t][j]] = t /\ asked[inFlight[t][j]] = j
      <4>1. inFlight[t][j] \in Readers
        BY <1>1, <3>3, TypesOfParts
      <4>2. /\ pc[inFlight[t][j]] \in Loading
            /\ server[inFlight[t][j]] = t /\ asked[inFlight[t][j]] = j
        BY <1>1, <3>3 DEF Flights
      <4> QED
        BY <1>2, <1>4, <4>1, <4>2 DEF Undisturbed, Loading
    <3> QED
      BY <1>3, <3>1, <3>2, <3>3 DEF Flights
  <2>2. CASE inFlight[s][k] = Nobody
    <3>1. /\ pc'[r] = "loading" /\ awaits'[r] = r /\ inFlight'[s][k] = r
          /\ \A t \in Servers : \A j \in Products :
                t # s \/ j # k => inFlight'[t][j] = inFlight[t][j]
      BY <1>1, <1>2, <1>3, <2>2, TypesOfParts
    <3>2. ASSUME NEW q \in Readers
          PROVE  /\ pc'[q] # "idle" => q \in DOMAIN server
                 /\ pc'[q] \in {"idle", "looking"} => awaits'[q] = Nobody
                 /\ pc'[q] \in Loading => awaits'[q] = q /\ inFlight'[server[q]][asked[q]] = q
                 /\ pc'[q] = "waiting" =>
                       awaits'[q] # Nobody /\ inFlight'[server[q]][asked[q]] = awaits'[q]
      <4>1. CASE q = r
        BY <1>2, <2>2, <3>1, <4>1 DEF Loading, k
      <4>2. CASE q # r
        <5>1. pc'[q] = pc[q] /\ awaits'[q] = awaits[q]
          BY <1>4, <4>2 DEF Undisturbed
        <5>2. ASSUME pc[q] \in Loading \cup {"waiting"}
              PROVE  inFlight'[server[q]][asked[q]] = inFlight[server[q]][asked[q]]
          <6>1. inFlight[server[q]][asked[q]] = awaits[q] /\ awaits[q] # Nobody
            BY <1>1, <5>2, NullsAssumption DEF Flights, Loading
          <6>2. server[q] \in Servers /\ asked[q] \in Products
            BY <1>1, <5>2, ServersTyped, TypesOfParts DEF Flights, Loading
          <6> QED
            BY <2>2, <3>1, <6>1, <6>2
        <5> QED
          BY <1>1, <5>1, <5>2 DEF Flights
      <4> QED
        BY <4>1, <4>2
    <3>3. ASSUME NEW t \in Servers, NEW j \in Products, inFlight'[t][j] # Nobody
          PROVE  /\ pc'[inFlight'[t][j]] \in Loading
                 /\ server[inFlight'[t][j]] = t /\ asked[inFlight'[t][j]] = j
      <4>1. CASE t = s /\ j = k
        BY <1>2, <3>1, <4>1 DEF Loading, k
      <4>2. CASE t # s \/ j # k
        <5>1. inFlight'[t][j] = inFlight[t][j] /\ inFlight[t][j] \in Readers
          BY <1>1, <3>1, <3>3, <4>2, TypesOfParts
        <5>2. /\ pc[inFlight[t][j]] \in Loading
              /\ server[inFlight[t][j]] = t /\ asked[inFlight[t][j]] = j
          BY <1>1, <3>3, <5>1 DEF Flights
        <5> QED
          BY <1>2, <1>4, <5>1, <5>2 DEF Undisturbed, Loading
      <4> QED
        BY <4>1, <4>2
    <3> QED
      BY <1>3, <3>2, <3>3 DEF Flights
  <2> QED
    BY <2>1, <2>2
<1>7. TypeOK'
  <2>1. inFlight' \in [Servers -> [Products -> Readers \cup {Nobody}]]
    BY <1>1, <1>2, <1>3, TypesOfParts
  <2>2. awaits' \in [Readers -> Readers \cup {Nobody}]
    BY <1>1, <1>2, <1>3, TypesOfParts
  <2>3. pc' \in [Readers -> {"idle", "looking", "waiting"} \cup Loading]
    BY <1>1, <1>2, <1>3, TypesOfParts DEF Loading
  <2> QED
    BY <1>1, <1>3, <1>5, <2>1, <2>2, <2>3, TypesOfParts DEF TypeOK, Orderly, Paired
<1> QED
  BY <1>5, <1>6, <1>7 DEF CacheTyped

LEMMA ReadDatabaseKeeps ==
    ASSUME CacheTyped, NEW r \in Readers, ReadDatabase(r)
    PROVE  CacheTyped'
<1>1. TypeOK /\ Orderly /\ Flights /\ pc[r] = "loading" /\ asked[r] \in Products
  BY TypesOfParts DEF CacheTyped, ReadDatabase
<1>2. /\ UNCHANGED <<server, pipe, replies, inFlight, awaits, asked>>
      /\ pc'[r] = "read" /\ loaded' \in [Readers -> Nat]
      /\ \A q \in Readers : q # r => Undisturbed(q)
  BY <1>1, TypesOfParts DEF ReadDatabase, Undisturbed, valkey
<1>3. Orderly'
  BY <1>1, <1>2, OrderlyStays DEF Orderly, Paired, Wire, Sent
<1>4. Flights'
  BY <1>1, <1>2, FlightsStay DEF Undisturbed, Loading
<1>5. TypeOK'
  BY <1>1, <1>2, <1>3, TypesOfParts DEF ReadDatabase, valkey, TypeOK, Loading, Orderly, Paired
<1> QED
  BY <1>3, <1>4, <1>5 DEF CacheTyped

LEMMA LoaderReturnsKeeps ==
    ASSUME CacheTyped, NEW r \in Readers, LoaderReturns(r)
    PROVE  CacheTyped'
<1>1. /\ TypeOK /\ Orderly /\ Flights /\ pc[r] = "read"
      /\ r \in DOMAIN server /\ server[r] \in Servers
  BY ServersTyped DEF CacheTyped, LoaderReturns, Flights
<1>2. /\ Sends(server[r], Set(r)) /\ Set(r) \in Commands /\ Set(r).reader = r
      /\ UNCHANGED <<server, asked, loaded, inFlight, awaits>> /\ pc'[r] = "storing"
      /\ \A q \in Readers : q # r => Undisturbed(q)
  BY <1>1, CommandsTyped, TypesOfParts DEF LoaderReturns, Sends, Undisturbed
<1>3. \A s, c : s = server[r] /\ c = Set(r) => Waits(s, c)'
  BY <1>1, <1>2 DEF Waits, Set
<1>4. Orderly'
  <2> DEFINE s == server[r]
             c == Set(r)
  <2>1. c.reader = r /\ Sends(s, c) /\ s \in Servers /\ c \in Commands
    BY <1>1, <1>2
  <2>2. pc[c.reader] \notin {"looking", "storing"}
    BY <1>1, <2>1
  <2>3. \A q \in Readers : q # c.reader => Undisturbed(q)
    BY <1>2, <2>1
  <2>4. \A t, d : t = s /\ d = c => Waits(t, d)'
    BY <1>3
  <2> HIDE DEF s, c
  <2> QED
    BY <1>1, <2>1, <2>2, <2>3, <2>4, OrderlySends
<1>5. Flights'
  BY <1>1, <1>2, FlightsStay DEF Undisturbed, Loading
<1>6. TypeOK'
  BY <1>1, <1>2, <1>4, TypesOfParts DEF LoaderReturns, TypeOK, Loading, Orderly, Paired
<1> QED
  BY <1>4, <1>5, <1>6 DEF CacheTyped

(* The steps in which the promise of a loader settles.                     *)
LEMMA SettlingUndisturbs ==
    ASSUME TypeOK, Flights, NEW r \in Readers, pc[r] \in Loading, Settle(r),
           UNCHANGED <<server, asked>>
    PROVE  \A q \in Readers : pc[q] \in {"looking", "storing"} /\ q # r => Undisturbed(q)
<1> SUFFICES ASSUME NEW q \in Readers, pc[q] \in {"looking", "storing"}, q # r
             PROVE  Undisturbed(q)
  OBVIOUS
<1>1. awaits[q] # r
  BY NullsAssumption DEF Flights, Loading
<1> QED
  BY <1>1, AfterSettling

LEMMA SettledTypes ==
    ASSUME TypeOK, NEW r \in Readers, Settle(r)
    PROVE  /\ inFlight' \in [Servers -> [Products -> Readers \cup {Nobody}]]
           /\ pc' \in [Readers -> {"idle", "looking", "waiting"} \cup Loading]
           /\ awaits' \in [Readers -> Readers \cup {Nobody}]
           /\ atMost' \in [Readers -> Nat] /\ loaded' \in [Readers -> Nat]
<1>1. inFlight' \in [Servers -> [Products -> Readers \cup {Nobody}]]
  BY TypesOfParts DEF Settle
<1>2. pc' \in [Readers -> {"idle", "looking", "waiting"} \cup Loading]
  BY DEF Settle, TypeOK
<1>3. /\ awaits' \in [Readers -> Readers \cup {Nobody}]
      /\ atMost' \in [Readers -> Nat] /\ loaded' \in [Readers -> Nat]
  BY TypesOfParts DEF Settle
<1> QED
  BY <1>1, <1>2, <1>3

LEMMA LoaderFailsKeeps ==
    ASSUME CacheTyped, NEW r \in Readers, LoaderFails(r)
    PROVE  CacheTyped'
<1>1. /\ TypeOK /\ Orderly /\ Flights /\ pc[r] \in {"loading", "read"} /\ Settle(r)
      /\ UNCHANGED <<server, stock, entry, pipe, replies, drops, asked, shown>>
  BY DEF CacheTyped, LoaderFails, valkey
<1>2. Flights'
  BY <1>1, AfterSettling DEF Loading
<1>3. Orderly'
  BY <1>1, SettlingUndisturbs, OrderlyStays DEF Orderly, Paired, Wire, Sent, Loading
<1>4. TypeOK'
  BY <1>1, <1>3, TypesOfParts, SettledTypes DEF TypeOK, Orderly, Paired
<1> QED
  BY <1>2, <1>3, <1>4 DEF CacheTyped

LEMMA StoredKeeps ==
    ASSUME CacheTyped, NEW s \in Servers, Stored(s)
    PROVE  CacheTyped'
<1> DEFINE r == Head(pipe[s]).reader
<1>1. /\ TypeOK /\ Orderly /\ Flights /\ Deliver(s, "SET") /\ Settle(r)
      /\ UNCHANGED <<server, stock, entry, drops, asked>>
      /\ shown' = IF Head(replies[s]).ok THEN [shown EXCEPT ![asked[r]] = loaded[r]] ELSE shown
  BY DEF CacheTyped, Stored, Deliver
<1>2. r = pipe[s][1].reader /\ r \in Readers /\ pc[r] = "storing"
  BY <1>1, DeliveredTo
<1> HIDE DEF r
<1>3. Flights'
  BY <1>1, <1>2, AfterSettling DEF Loading
<1>4. Orderly'
  BY <1>1, <1>2, SettlingUndisturbs, OrderlyDelivers DEF Loading
<1>5. TypeOK'
  <2>1. shown' \in [Products -> Nat]
    BY <1>1, <1>2, TypesOfParts
  <2> QED
    BY <1>1, <1>2, <1>4, <2>1, TypesOfParts, SettledTypes DEF TypeOK, Orderly, Paired
<1> QED
  BY <1>3, <1>4, <1>5 DEF CacheTyped

(* What Valkey does with the command it executes next.                     *)
ExecutesWith(s, answer) ==
    LET command == pipe[s][Len(replies[s]) + 1] IN
    /\ Replies(s, answer)
    /\ \/ answer = Failure /\ UNCHANGED entry
       \/ command.kind = "GET" /\ answer = Reply(entry[command.product]) /\ UNCHANGED entry
       \/ /\ command.kind = "SET" /\ answer = Reply(command.value)
          /\ entry' = [entry EXCEPT ![command.product] = command.value]

LEMMA ExecuteIs ==
    ASSUME TypeOK, Orderly, NEW s \in Servers, Execute(s)
    PROVE  /\ \E answer \in Answers : ExecutesWith(s, answer)
           /\ Len(replies[s]) < Len(pipe[s]) /\ Len(replies[s]) + 1 \in Sent(s)
           /\ pipe[s][Len(replies[s]) + 1] \in Commands
           /\ UNCHANGED <<server, stock, pipe, drops, pc, asked, inFlight, awaits, loaded,
                          shown, atMost>>
<1>1. /\ Len(replies[s]) < Len(pipe[s])
      /\ UNCHANGED <<server, stock, pipe, drops, pc, asked, inFlight, awaits, loaded,
                     shown, atMost>>
  BY DEF Execute
<1>2. Len(replies[s]) + 1 \in Sent(s) /\ pipe[s][Len(replies[s]) + 1] \in Commands
  BY <1>1, LengthsAreNumbers DEF Orderly, Sent
<1>3. PICK command : command = pipe[s][Len(replies[s]) + 1]
  OBVIOUS
<1>4. /\ Failure \in Answers /\ Reply(entry[command.product]) \in Answers
      /\ Reply(command.value) \in Answers
  BY <1>2, <1>3, TypesOfParts DEF Failure, Reply, Answers, Commands
<1>5. \E answer \in {Failure, Reply(entry[command.product]), Reply(command.value)} :
         ExecutesWith(s, answer)
  BY <1>1, <1>3, Zenon DEF Execute, ExecutesWith, Replies
<1> QED
  BY <1>1, <1>2, <1>4, <1>5

LEMMA ExecuteKeeps ==
    ASSUME CacheTyped, NEW s \in Servers, Execute(s)
    PROVE  CacheTyped'
<1>1. TypeOK /\ Orderly /\ Flights
  BY DEF CacheTyped
<1>2. PICK answer \in Answers : ExecutesWith(s, answer)
  BY <1>1, ExecuteIs
<1>3. /\ Len(replies[s]) < Len(pipe[s])
      /\ pipe[s][Len(replies[s]) + 1] \in Commands
      /\ UNCHANGED <<server, stock, drops, pc, asked, inFlight, awaits, loaded, shown, atMost>>
  BY <1>1, ExecuteIs
<1>4. /\ Paired' /\ \A t \in Servers : Sent(t)' = Sent(t) /\ pipe'[t] = pipe[t]
  BY <1>1, <1>2, <1>3, AfterReply DEF ExecutesWith, Orderly
<1>5. Orderly'
  BY <1>1, <1>3, <1>4, OrderlyStays DEF Undisturbed
<1>6. Flights'
  BY <1>1, <1>3, FlightsStay
<1>7. entry' \in [Products -> Nat \cup {Missing}]
  BY <1>1, <1>2, <1>3, TypesOfParts DEF ExecutesWith, Commands
<1>8. TypeOK'
  BY <1>1, <1>3, <1>4, <1>7, TypesOfParts DEF TypeOK, Loading, Paired
<1> QED
  BY <1>5, <1>6, <1>8 DEF CacheTyped

LEMMA DropKeeps ==
    ASSUME CacheTyped, NEW s \in Servers, Drop(s)
    PROVE  CacheTyped'
<1>1. /\ TypeOK /\ Orderly /\ Flights /\ drops < MaxDrops /\ drops' = drops + 1
      /\ UNCHANGED <<server, stock, entry, pipe, pc, asked, inFlight, awaits, loaded, shown, atMost>>
  BY DEF CacheTyped, Drop
<1>2. /\ Paired' /\ \A t \in Servers : Sent(t)' = Sent(t) /\ pipe'[t] = pipe[t]
  BY <1>1, AfterDrop DEF Orderly
<1>3. Orderly'
  BY <1>1, <1>2, OrderlyStays DEF Undisturbed
<1>4. Flights'
  BY <1>1, FlightsStay
<1>5. TypeOK'
  BY <1>1, <1>2, TypesOfParts, MaxDropsAssumption DEF TypeOK, Loading, Paired
<1> QED
  BY <1>3, <1>4, <1>5 DEF CacheTyped

LEMMA OthersKeep ==
    ASSUME CacheTyped,
           UNCHANGED vars \/ \E k \in Products : Expire(k) \/ Sell(k)
    PROVE  CacheTyped'
<1>1. /\ TypeOK /\ Orderly /\ Flights
      /\ UNCHANGED <<server, pipe, replies, drops, pc, asked, inFlight, awaits, loaded, shown, atMost>>
  BY DEF CacheTyped, Expire, Sell, vars, valkey
<1>2. Orderly'
  BY <1>1, OrderlyStays DEF Undisturbed, Orderly, Paired, Wire, Sent
<1>3. Flights'
  BY <1>1, FlightsStay
<1>4. stock' \in [Products -> Nat] /\ entry' \in [Products -> Nat \cup {Missing}]
  BY <1>1, TypesOfParts DEF Expire, Sell, vars, valkey
<1>5. TypeOK'
  BY <1>1, <1>2, <1>4, TypesOfParts DEF TypeOK, Loading, Orderly, Paired
<1> QED
  BY <1>2, <1>3, <1>5 DEF CacheTyped

LEMMA CacheTypedStep == CacheTyped /\ [Next]_vars => CacheTyped'
BY LookupKeeps, LookupEndsKeeps, MissKeeps, StoredKeeps, ExecuteKeeps, DropKeeps,
   ReadDatabaseKeeps, LoaderReturnsKeeps, LoaderFailsKeeps, OthersKeep DEF Next

LEMMA CacheTypedInit == Init => CacheTyped
<1> SUFFICES ASSUME Init PROVE CacheTyped
  OBVIOUS
<1>1. \A s \in Servers : pipe[s] = <<>> /\ replies[s] = <<>> /\ Sent(s) = {}
  BY DEF Init, Sent
<1>2. Wire
  BY DEF Init, Wire
<1>3. Orderly
  BY <1>1, <1>2 DEF Orderly, Paired, Owned, OnePerReader
<1>4. Flights
  BY NullsAssumption DEF Init, Flights, Loading
<1>5. TypeOK
  BY <1>1, StockAssumption, MaxDropsAssumption DEF Init, TypeOK, Loading
<1> QED
  BY <1>3, <1>4, <1>5 DEF CacheTyped

LEMMA CacheTypedAlways == Spec => []CacheTyped
BY CacheTypedInit, CacheTypedStep, PTL DEF Spec

(* Everything keeps its type; in particular the replies never outnumber    *)
(* the commands they answer.                                               *)
THEOREM CacheTypesHold == Spec => []TypeOK
<1>1. CacheTyped => TypeOK
  BY DEF CacheTyped
<1> QED
  BY <1>1, CacheTypedAlways, PTL

----------------------------------------------------------------------------
(***************************************************************************)
(* Where what is shown comes from.                                         *)
(***************************************************************************)
LEMMA Sources ==
    ASSUME CacheTyped, [Next]_vars
    PROVE  /\ server' = server
           /\ \A k \in Products : stock'[k] <= stock[k]
           /\ \A k \in Products :
                 \/ entry'[k] \in {entry[k], Missing}
                 \/ \E q \in Readers : asked[q] = k /\ pc[q] = "storing" /\ entry'[k] = loaded[q]
           /\ \A q \in Readers : pc'[q] \in Loaded =>
                 /\ asked'[q] = asked[q]
                 /\ \/ pc[q] \in Loaded /\ loaded'[q] = loaded[q]
                    \/ loaded'[q] = stock[asked[q]]
<1>1. TypeOK /\ Orderly /\ Flights
  BY DEF CacheTyped
<1> USE <1>1
<1>2. ASSUME NEW r \in Readers, NEW k \in Products, Lookup(r, k)
      PROVE  /\ UNCHANGED <<server, stock, entry, loaded>>
             /\ \A q \in Readers : pc'[q] \in Loaded => pc[q] \in Loaded /\ asked'[q] = asked[q]
  BY <1>2, TypesOfParts DEF Lookup, Loaded
<1>3. ASSUME NEW s \in Servers, LookupEnds(s) \/ Miss(s)
      PROVE  /\ UNCHANGED <<server, stock, entry, loaded, asked>>
             /\ \A q \in Readers : pc'[q] \in Loaded => pc[q] \in Loaded
  <2> DEFINE r == Head(pipe[s]).reader
  <2>1. /\ UNCHANGED <<server, stock, entry, loaded, asked>>
        /\ \E step \in {"idle", "waiting", "loading"} : pc' = [pc EXCEPT ![r] = step]
    <3>1. CASE LookupEnds(s)
      BY <3>1 DEF LookupEnds, Deliver
    <3>2. CASE Miss(s)
      BY <3>2, MissIs, Zenon
    <3> QED
      BY <1>3, <3>1, <3>2
  <2> HIDE DEF r
  <2> QED
    BY <2>1, TypesOfParts DEF Loaded
<1>4. ASSUME NEW r \in Readers, pc[r] \in Loading, Settle(r), UNCHANGED <<server, asked>>
      PROVE  \A q \in Readers : pc'[q] \in Loaded => pc[q] \in Loaded /\ loaded'[q] = loaded[q]
  BY <1>4, AfterSettling DEF Undisturbed, Loaded
<1>5. ASSUME NEW s \in Servers, Stored(s)
      PROVE  /\ UNCHANGED <<server, stock, entry, asked>>
             /\ \A q \in Readers : pc'[q] \in Loaded => pc[q] \in Loaded /\ loaded'[q] = loaded[q]
  <2> DEFINE r == Head(pipe[s]).reader
  <2>1. /\ Deliver(s, "SET") /\ Settle(r)
        /\ UNCHANGED <<server, stock, entry, asked>>
    BY <1>5 DEF Stored, Deliver
  <2>2. r \in Readers /\ pc[r] = "storing"
    BY <2>1, DeliveredTo
  <2> HIDE DEF r
  <2> QED
    BY <1>4, <2>1, <2>2 DEF Loading
<1>6. ASSUME NEW r \in Readers, LoaderFails(r)
      PROVE  /\ UNCHANGED <<server, stock, entry, asked>>
             /\ \A q \in Readers : pc'[q] \in Loaded => pc[q] \in Loaded /\ loaded'[q] = loaded[q]
  BY <1>4, <1>6 DEF LoaderFails, valkey, Loading
<1>7. ASSUME NEW r \in Readers, ReadDatabase(r)
      PROVE  /\ UNCHANGED <<server, stock, entry, asked>>
             /\ \A q \in Readers : pc'[q] \in Loaded =>
                   \/ pc[q] \in Loaded /\ loaded'[q] = loaded[q]
                   \/ loaded'[q] = stock[asked[q]]
  BY <1>7, TypesOfParts DEF ReadDatabase, valkey, Loaded
<1>8. ASSUME NEW r \in Readers, LoaderReturns(r)
      PROVE  /\ UNCHANGED <<server, stock, entry, asked, loaded>>
             /\ \A q \in Readers : pc'[q] \in Loaded => pc[q] \in Loaded
  BY <1>8, TypesOfParts DEF LoaderReturns, Loaded
<1>9. ASSUME NEW s \in Servers, Execute(s)
      PROVE  /\ UNCHANGED <<server, stock, asked, loaded, pc>>
             /\ \A k \in Products :
                   \/ entry'[k] = entry[k]
                   \/ \E q \in Readers : asked[q] = k /\ pc[q] = "storing" /\ entry'[k] = loaded[q]
  <2>1. PICK answer \in Answers : ExecutesWith(s, answer)
    BY <1>9, ExecuteIs
  <2>2. /\ Len(replies[s]) + 1 \in Sent(s)
        /\ UNCHANGED <<server, stock, asked, loaded, pc>>
    BY <1>9, ExecuteIs
  <2>3. PICK c : c = pipe[s][Len(replies[s]) + 1]
    OBVIOUS
  <2>4. c.reader \in Readers /\ Waits(s, c)
    BY <2>2, <2>3, WhoWaits DEF Orderly
  <2>5. c.kind = "SET" =>
           /\ c.product = asked[c.reader] /\ pc[c.reader] = "storing"
           /\ c.value = loaded[c.reader]
    BY <2>4 DEF Waits, Get, Set
  <2>6. \/ entry' = entry
        \/ c.kind = "SET" /\ entry' = [entry EXCEPT ![c.product] = c.value]
    BY <2>1, <2>3 DEF ExecutesWith
  <2> QED
    BY <2>2, <2>4, <2>5, <2>6, TypesOfParts
<1>10. ASSUME NEW k \in Products, Expire(k)
       PROVE  /\ UNCHANGED <<server, stock, asked, loaded, pc>>
              /\ \A j \in Products : entry'[j] \in {entry[j], Missing}
  BY <1>10, TypesOfParts DEF Expire
<1>11. ASSUME NEW k \in Products, Sell(k)
       PROVE  /\ UNCHANGED <<server, entry, asked, loaded, pc>>
              /\ \A j \in Products : stock'[j] <= stock[j]
  BY <1>11, TypesOfParts DEF Sell, valkey
<1>12. ASSUME (\E s \in Servers : Drop(s)) \/ UNCHANGED vars
       PROVE  UNCHANGED <<server, stock, entry, asked, loaded, pc>>
  BY <1>12 DEF Drop, vars, valkey
<1>13. \A k \in Products : stock[k] <= stock[k]
  BY TypesOfParts
<1> QED
  <2>1. CASE \E r \in Readers : \E k \in Products : Lookup(r, k)
    BY <1>2, <1>13, <2>1
  <2>2. CASE \E s \in Servers : LookupEnds(s) \/ Miss(s)
    BY <1>3, <1>13, <2>2
  <2>3. CASE \E s \in Servers : Stored(s)
    BY <1>5, <1>13, <2>3
  <2>4. CASE \E s \in Servers : Execute(s)
    BY <1>9, <1>13, <2>4
  <2>5. CASE (\E s \in Servers : Drop(s)) \/ UNCHANGED vars
    BY <1>12, <1>13, <2>5
  <2>6. CASE \E r \in Readers : ReadDatabase(r)
    BY <1>7, <1>13, <2>6
  <2>7. CASE \E r \in Readers : LoaderReturns(r)
    BY <1>8, <1>13, <2>7
  <2>8. CASE \E r \in Readers : LoaderFails(r)
    BY <1>6, <1>13, <2>8
  <2>9. CASE \E k \in Products : Expire(k)
    BY <1>10, <1>13, <2>9
  <2>10. CASE \E k \in Products : Sell(k)
    BY <1>11, <2>10
  <2> QED
    BY <2>1, <2>2, <2>3, <2>4, <2>5, <2>6, <2>7, <2>8, <2>9, <2>10 DEF Next

(* A bound on what may be shown of a product is never passed again: there  *)
(* is no restock.                                                          *)
LEMMA BelowStays ==
    ASSUME CacheTyped, [Next]_vars, NEW k \in Products, NEW n \in Nat, Below(k, n)
    PROVE  Below(k, n)'
<1>1. /\ stock \in [Products -> Nat] /\ loaded \in [Readers -> Nat]
      /\ entry \in [Products -> Nat \cup {Missing}] /\ Missing \notin Nat
  BY TypesOfParts, NullsAssumption DEF CacheTyped
<1>2. stock'[k] <= n
  <2>1. stock'[k] \in Nat
    BY CacheTypedStep, k \in Products DEF CacheTyped, TypeOK
  <2> QED
    BY <1>1, <2>1, Sources DEF Below
<1>3. entry'[k] # Missing => entry'[k] <= n
  BY <1>1, Sources DEF Below, Loaded
<1>4. \A q \in Readers : asked'[q] = k /\ pc'[q] \in Loaded => loaded'[q] <= n
  BY <1>1, Sources DEF Below
<1> QED
  BY <1>2, <1>3, <1>4 DEF Below

(* The answers of a server move up by one when one is delivered, and are   *)
(* lost together.                                                          *)
LEMMA AnswersMove ==
    ASSUME CacheTyped, [Next]_vars, NEW s \in Servers, ~Execute(s)
    PROVE  \E d \in {0, 1} : \A i \in Answered(s)' :
              /\ i + d \in Answered(s) /\ WasAt(s, i, i + d)
              /\ \A j \in Answered(s) : j > i + d =>
                    j - d \in Answered(s)' /\ j - d > i /\ WasAt(s, j - d, j)
<1>1. TypeOK /\ Orderly /\ Paired
  BY DEF CacheTyped, Orderly
<1>2. \A i \in Answered(s)' : i \in Nat /\ i \in Sent(s)'
  <2>1. Paired'
    BY CacheTypedStep DEF CacheTyped, Orderly
  <2>2. Len(replies'[s]) \in Nat /\ Len(pipe'[s]) \in Nat /\ Len(pipe'[s]) >= Len(replies'[s])
    BY <2>1 DEF Paired, Wire
  <2> QED
    BY <2>2 DEF Answered, Sent
<1>3. \A i \in Answered(s) : i \in Nat /\ i \in Sent(s)
  BY <1>1, LengthsAreNumbers
<1>4. ASSUME \A i \in Answered(s)' : i \in Answered(s) /\ WasAt(s, i, i),
             Answered(s)' = {} \/ \A i \in Answered(s) : i \in Answered(s)' /\ WasAt(s, i, i)
      PROVE  \A i \in Answered(s)' :
                /\ i + 0 \in Answered(s) /\ WasAt(s, i, i + 0)
                /\ \A j \in Answered(s) : j > i + 0 =>
                      j - 0 \in Answered(s)' /\ j - 0 > i /\ WasAt(s, j - 0, j)
  BY <1>2, <1>3, <1>4
<1>5. CASE pipe'[s] = pipe[s] /\ replies'[s] = replies[s]
  BY <1>2, <1>3, <1>4, <1>5 DEF WasAt, Answered, Sent
<1>6. CASE \E t \in Servers : \E kind \in {"GET", "SET"} : Deliver(t, kind)
  <2>1. PICK t \in Servers, kind \in {"GET", "SET"} : Deliver(t, kind)
    BY <1>6
  <2>2. CASE t = s
    <3>1. \A i \in Answered(s)' : i + 1 \in Answered(s) /\ WasAt(s, i, i + 1)
      BY <1>1, <1>2, <2>1, <2>2, AfterDelivery DEF WasAt
    <3>2. \A j \in Answered(s) : j > 1 => j - 1 \in Answered(s)' /\ WasAt(s, j - 1, j)
      BY <1>1, <2>1, <2>2, AfterDelivery
    <3>3. \A i \in Answered(s)' : i >= 1
      BY <1>2 DEF Answered
    <3> QED
      BY <1>2, <1>3, <3>1, <3>2, <3>3
  <2>3. CASE t # s
    BY <1>1, <1>2, <1>4, <2>1, <2>3, AfterDelivery DEF WasAt
  <2> QED
    BY <2>2, <2>3
<1>7. CASE \E t \in Servers : Drop(t)
  <2>1. PICK t \in Servers : Drop(t)
    BY <1>7
  <2>2. CASE t = s
    BY <1>1, <1>4, <2>1, <2>2, AfterDrop
  <2>3. CASE t # s
    BY <1>1, <1>5, <2>1, <2>3, AfterDrop
  <2> QED
    BY <2>2, <2>3
<1>8. CASE \E t \in Servers : \E c \in Commands : Sends(t, c)
  BY <1>1, <1>2, <1>4, <1>8, AfterSending DEF WasAt
<1>9. CASE \E t \in Servers : Execute(t)
  <2>1. PICK t \in Servers : Execute(t)
    BY <1>9
  <2>2. t # s /\ UNCHANGED pipe /\ replies'[s] = replies[s]
    BY <1>1, <2>1 DEF Execute, Paired, Wire
  <2> QED
    BY <1>5, <2>2
<1>10. \A t \in Servers :
          /\ LookupEnds(t) \/ Miss(t) => Deliver(t, "GET")
          /\ Stored(t) => Deliver(t, "SET")
  BY DEF LookupEnds, Miss, Stored
<1>11. \A r \in Readers :
          /\ (\E k \in Products : Lookup(r, k)) \/ LoaderReturns(r) =>
                \E t \in Servers : \E c \in Commands : Sends(t, c)
          /\ ReadDatabase(r) \/ LoaderFails(r) => pipe' = pipe /\ replies' = replies
  <2> SUFFICES ASSUME NEW r \in Readers
               PROVE  /\ (\E k \in Products : Lookup(r, k)) \/ LoaderReturns(r) =>
                            \E t \in Servers : \E c \in Commands : Sends(t, c)
                      /\ ReadDatabase(r) \/ LoaderFails(r) => pipe' = pipe /\ replies' = replies
    OBVIOUS
  <2>1. ASSUME NEW k \in Products, Lookup(r, k)
        PROVE  \E t \in Servers : \E c \in Commands : Sends(t, c)
    BY <1>1, <2>1, ServersTyped, CommandsTyped DEF Lookup, Sends
  <2>2. ASSUME LoaderReturns(r)
        PROVE  \E t \in Servers : \E c \in Commands : Sends(t, c)
    <3>1. r \in DOMAIN server
      BY <2>2 DEF LoaderReturns, CacheTyped, Flights
    <3> QED
      BY <1>1, <2>2, <3>1, ServersTyped, CommandsTyped DEF LoaderReturns, Sends
  <2>3. ReadDatabase(r) \/ LoaderFails(r) => pipe' = pipe /\ replies' = replies
    BY DEF ReadDatabase, LoaderFails, valkey
  <2> QED
    BY <2>1, <2>2, <2>3
<1>12. (\E k \in Products : Expire(k) \/ Sell(k)) \/ UNCHANGED vars =>
          pipe' = pipe /\ replies' = replies
  BY DEF Expire, Sell, vars, valkey
<1> QED
  BY <1>5, <1>6, <1>7, <1>8, <1>9, <1>10, <1>11, <1>12 DEF Next

----------------------------------------------------------------------------
(***************************************************************************)
(* Reads that begin with nothing cached.                                   *)
(***************************************************************************)
LEMMA NeverRestockedStays ==
    CacheTyped /\ NeverRestocked /\ [Next]_vars => NeverRestocked'
<1> SUFFICES ASSUME CacheTyped, NeverRestocked, [Next]_vars, NEW k \in Products
             PROVE  Below(k, InitStock[k])'
  BY DEF NeverRestocked
<1> QED
  BY BelowStays, StockAssumption DEF NeverRestocked

LEMMA WhatWaits ==
    ASSUME NEW s, NEW c, Waits(s, c)
    PROVE  /\ c.product = asked[c.reader]
           /\ c.kind = "SET" => pc[c.reader] = "storing" /\ c.value = loaded[c.reader]
<1>1. PICK r : r = c.reader
  OBVIOUS
<1>2. c = Get(r, asked[r]) \/ (c = Set(r) /\ pc[r] = "storing")
  BY <1>1 DEF Waits
<1> QED
  BY <1>1, <1>2 DEF Get, Set

(* What the command that is executed next is answered.                     *)
LEMMA NewAnswer ==
    ASSUME CacheTyped, NEW s \in Servers, Execute(s)
    PROVE  LET n == Len(replies[s]) + 1
               c == pipe[s][n]
           IN
           /\ n \in Sent(s) /\ Waits(s, c) /\ c \in Commands /\ c.product = asked[c.reader]
           /\ pipe' = pipe /\ Answered(s)' = Answered(s) \cup {n} /\ n \notin Answered(s)
           /\ \A i \in Answered(s) : i < n /\ replies'[s][i] = replies[s][i]
           /\ \A t \in Servers \ {s} : Answered(t)' = Answered(t) /\ replies'[t] = replies[t]
           /\ c.kind = "GET" =>
                 /\ UNCHANGED entry
                 /\ replies'[s][n] = Failure \/ replies'[s][n] = Reply(entry[c.product])
           /\ c.kind = "SET" =>
                 /\ pc[c.reader] = "storing" /\ c.value = loaded[c.reader]
                 /\ \/ replies'[s][n] = Failure /\ UNCHANGED entry
                    \/ /\ replies'[s][n] = Reply(c.value)
                       /\ entry' = [entry EXCEPT ![c.product] = c.value]
<1> DEFINE n == Len(replies[s]) + 1
           c == pipe[s][n]
<1>1. TypeOK /\ Orderly /\ Paired
  BY DEF CacheTyped, Orderly
<1>2. PICK answer \in Answers : ExecutesWith(s, answer)
  BY <1>1, ExecuteIs
<1>3. n \in Sent(s) /\ c \in Commands /\ Len(replies[s]) < Len(pipe[s]) /\ pipe' = pipe
  BY <1>1, ExecuteIs
<1>4. /\ Waits(s, c)
      /\ c.product = asked[c.reader]
      /\ c.kind = "SET" => pc[c.reader] = "storing" /\ c.value = loaded[c.reader]
  <2>1. Waits(s, c)
    BY <1>1, <1>3, WhoWaits DEF Orderly
  <2> HIDE DEF c
  <2> QED
    BY <2>1, WhatWaits
<1>5. replies' = [replies EXCEPT ![s] = Append(@, answer)] /\ Len(replies[s]) \in Nat
  BY <1>1, <1>2, LengthsAreNumbers DEF ExecutesWith, Replies
<1>6. /\ Len(replies'[s]) = n /\ replies'[s][n] = answer
      /\ \A i \in 1 .. Len(replies[s]) : replies'[s][i] = replies[s][i]
      /\ \A t \in Servers \ {s} : replies'[t] = replies[t]
  BY <1>1, <1>5 DEF Paired, Wire
<1>7. /\ Answered(s)' = Answered(s) \cup {n} /\ n \notin Answered(s)
      /\ \A i \in Answered(s) : i < n /\ replies'[s][i] = replies[s][i]
      /\ \A t \in Servers \ {s} : Answered(t)' = Answered(t) /\ replies'[t] = replies[t]
  BY <1>5, <1>6 DEF Answered
<1>8. \/ answer = Failure /\ UNCHANGED entry
      \/ c.kind = "GET" /\ answer = Reply(entry[c.product]) /\ UNCHANGED entry
      \/ /\ c.kind = "SET" /\ answer = Reply(c.value)
         /\ entry' = [entry EXCEPT ![c.product] = c.value]
  BY <1>2 DEF ExecutesWith
<1>9. /\ c.kind = "GET" =>
            /\ UNCHANGED entry
            /\ replies'[s][n] = Failure \/ replies'[s][n] = Reply(entry[c.product])
      /\ c.kind = "SET" =>
            \/ replies'[s][n] = Failure /\ UNCHANGED entry
            \/ /\ replies'[s][n] = Reply(c.value)
               /\ entry' = [entry EXCEPT ![c.product] = c.value]
  <2> HIDE DEF n, c
  <2> QED
    BY <1>6, <1>8
<1> QED
  BY <1>3, <1>4, <1>7, <1>9, Zenon

(* Only a lookup gives a request that waits another product or bound.      *)
LEMMA WhileItWaits ==
    ASSUME CacheTyped, [Next]_vars, NEW r \in Readers, pc'[r] # "idle"
    PROVE  \/ pc[r] # "idle" /\ asked'[r] = asked[r] /\ atMost'[r] = atMost[r]
           \/ \E k \in Products : Lookup(r, k)
<1>1. TypeOK /\ Orderly /\ Flights
  BY DEF CacheTyped
<1>2. ASSUME NEW q \in Readers, NEW k \in Products, Lookup(q, k), q # r
      PROVE  pc[r] # "idle" /\ asked'[r] = asked[r] /\ atMost'[r] = atMost[r]
  BY <1>1, <1>2, TypesOfParts DEF Lookup
<1>3. ASSUME NEW s \in Servers, LookupEnds(s) \/ Miss(s)
      PROVE  pc[r] # "idle" /\ asked'[r] = asked[r] /\ atMost'[r] = atMost[r]
  <2>1. /\ Deliver(s, "GET") /\ asked' = asked
        /\ pc[Head(pipe[s]).reader] = "looking"
    <3>1. Deliver(s, "GET")
      BY <1>3, MissLeaves DEF LookupEnds
    <3> QED
      BY <1>1, <3>1, DeliveredTo DEF Deliver
  <2>2. /\ atMost' = atMost \/ atMost' = [atMost EXCEPT ![Head(pipe[s]).reader] = 0]
        /\ \/ pc' = [pc EXCEPT ![Head(pipe[s]).reader] = "idle"]
           \/ atMost' = atMost /\ pc' = [pc EXCEPT ![Head(pipe[s]).reader] = "waiting"]
           \/ atMost' = atMost /\ pc' = [pc EXCEPT ![Head(pipe[s]).reader] = "loading"]
    <3>1. CASE LookupEnds(s)
      BY <3>1 DEF LookupEnds
    <3>2. CASE Miss(s)
      BY <3>2, MissIs, Zenon
    <3> QED
      BY <1>3, <3>1, <3>2, Zenon
  <2> QED
    BY <1>1, <2>1, <2>2, TypesOfParts
<1>4. ASSUME NEW q \in Readers, pc[q] \in Loading, Settle(q), UNCHANGED <<server, asked>>
      PROVE  pc[r] # "idle" /\ asked'[r] = asked[r] /\ atMost'[r] = atMost[r]
  BY <1>1, <1>4, AfterSettling DEF Undisturbed
<1>5. ASSUME NEW s \in Servers, Stored(s)
      PROVE  pc[r] # "idle" /\ asked'[r] = asked[r] /\ atMost'[r] = atMost[r]
  <2>1. Deliver(s, "SET") /\ Settle(Head(pipe[s]).reader) /\ UNCHANGED <<server, asked>>
    BY <1>5 DEF Stored, Deliver
  <2>2. Head(pipe[s]).reader \in Readers /\ pc[Head(pipe[s]).reader] = "storing"
    BY <1>1, <2>1, DeliveredTo
  <2> QED
    BY <1>4, <2>1, <2>2 DEF Loading
<1>6. ASSUME NEW q \in Readers, LoaderFails(q)
      PROVE  pc[r] # "idle" /\ asked'[r] = asked[r] /\ atMost'[r] = atMost[r]
  BY <1>4, <1>6 DEF LoaderFails, Loading
<1>7. ASSUME NEW q \in Readers, ReadDatabase(q) \/ LoaderReturns(q)
      PROVE  pc[r] # "idle" /\ asked'[r] = asked[r] /\ atMost'[r] = atMost[r]
  BY <1>1, <1>7, TypesOfParts DEF ReadDatabase, LoaderReturns
<1>8. ASSUME \/ \E s \in Servers : Execute(s) \/ Drop(s)
             \/ \E k \in Products : Expire(k) \/ Sell(k)
             \/ UNCHANGED vars
      PROVE  pc[r] # "idle" /\ asked'[r] = asked[r] /\ atMost'[r] = atMost[r]
  BY <1>8 DEF Execute, Drop, Expire, Sell, vars
<1> QED
  BY <1>2, <1>3, <1>5, <1>6, <1>7, <1>8 DEF Next

LEMMA FreshStays ==
    CacheTyped /\ NeverRestocked /\ Fresh /\ [Next]_vars => Fresh'
<1> SUFFICES ASSUME CacheTyped, NeverRestocked, Fresh, [Next]_vars,
                    NEW r \in Readers, pc'[r] # "idle"
             PROVE  /\ Below(asked[r], atMost[r])'
                    /\ \A s \in Servers : \A i \in Answered(s)' :
                          pipe'[s][i].reader = r /\ Shows(replies'[s][i])
                          => replies'[s][i].value <= atMost'[r]
  BY DEF Fresh, Shows
<1>1. TypeOK /\ Orderly /\ Flights /\ Paired
  BY DEF CacheTyped, Orderly
<1>2. /\ atMost \in [Readers -> Nat] /\ asked[r] \in Products
      /\ stock \in [Products -> Nat] /\ entry \in [Products -> Nat \cup {Missing}]
  BY <1>1, TypesOfParts
<1>3. CASE pc[r] # "idle" /\ asked'[r] = asked[r] /\ atMost'[r] = atMost[r]
  <2>1. PICK k \in Products, n \in Nat : k = asked[r] /\ n = atMost[r]
    BY <1>2
  <2>2. Below(k, n)
    BY <1>3, <2>1 DEF Fresh
  <2>3. Below(k, n)' /\ asked'[r] = k /\ atMost'[r] = n
    BY <1>3, <2>1, <2>2, BelowStays
  <2>4. ASSUME NEW s \in Servers, NEW i \in Answered(s)',
               pipe'[s][i].reader = r, Shows(replies'[s][i])
        PROVE  replies'[s][i].value <= n
    <3>1. CASE ~Execute(s)
      <4>1. \E j \in Answered(s) : WasAt(s, i, j)
        BY <3>1, AnswersMove
      <4> QED
        BY <1>3, <2>1, <2>4, <4>1 DEF Fresh, WasAt
    <3>2. CASE Execute(s)
      <4>1. CASE i \in Answered(s)
        BY <1>3, <2>1, <2>4, <3>2, <4>1, NewAnswer DEF Fresh
      <4>2. CASE i = Len(replies[s]) + 1
        <5>1. PICK c \in Commands : c = pipe[s][i]
          BY <3>2, <4>2, NewAnswer
        <5>2. c.kind \in {"GET", "SET"} /\ c.reader = r /\ c.product = k
          BY <2>1, <2>4, <3>2, <4>2, <5>1, NewAnswer DEF Commands
        <5>3. CASE c.kind = "GET"
          <6>1. replies'[s][i] = Failure \/ replies'[s][i] = Reply(entry[k])
            BY <3>2, <4>2, <5>1, <5>2, <5>3, NewAnswer
          <6> QED
            BY <2>2, <2>4, <6>1 DEF Below, Shows, Failure, Reply
        <5>4. CASE c.kind = "SET"
          <6>1. /\ pc[r] = "storing"
                /\ replies'[s][i] = Failure \/ replies'[s][i] = Reply(loaded[r])
            BY <3>2, <4>2, <5>1, <5>2, <5>4, NewAnswer
          <6> QED
            BY <2>1, <2>2, <2>4, <6>1 DEF Below, Shows, Failure, Reply, Loaded
        <5> QED
          BY <5>2, <5>3, <5>4
      <4> QED
        BY <3>2, <4>1, <4>2, NewAnswer
    <3> QED
      BY <3>1, <3>2
  <2> QED
    BY <2>3, <2>4 DEF Below
<1>4. CASE \E k \in Products : Lookup(r, k)
  <2>1. PICK k \in Products : Lookup(r, k)
    BY <1>4
  <2>2. /\ UNCHANGED <<server, stock, entry, loaded, replies>> /\ asked'[r] = k
        /\ pc'[r] = "looking" /\ pc[r] = "idle"
        /\ \A q \in Readers : q # r => pc'[q] = pc[q] /\ asked'[q] = asked[q]
        /\ atMost'[r] = IF entry[k] = Missing /\ \A s \in Servers : inFlight[s][k] = Nobody
                        THEN stock[k] ELSE InitStock[k]
    BY <1>1, <2>1, TypesOfParts DEF Lookup
  <2>3. Below(asked[r], atMost[r])'
    <3>1. CASE entry[k] = Missing /\ \A s \in Servers : inFlight[s][k] = Nobody
      <4>1. ASSUME NEW q \in Readers, asked'[q] = k PROVE pc'[q] \notin Loaded
        <5>1. CASE q = r
          BY <2>2, <5>1 DEF Loaded
        <5>2. CASE q # r
          <6>1. pc[q] \in Loading => inFlight[server[q]][k] = q /\ server[q] \in Servers
            BY <1>1, <2>2, <4>1, <5>2, ServersTyped DEF Flights, Loading
          <6> QED
            BY <2>2, <3>1, <5>2, <6>1, NullsAssumption DEF Loaded, Loading
        <5> QED
          BY <5>1, <5>2
      <4> QED
        BY <1>2, <2>2, <3>1, <4>1 DEF Below
    <3>2. CASE ~(entry[k] = Missing /\ \A s \in Servers : inFlight[s][k] = Nobody)
      <4>1. Below(k, InitStock[k])'
        BY BelowStays, StockAssumption DEF NeverRestocked
      <4> QED
        BY <2>2, <3>2, <4>1 DEF Below
    <3> QED
      BY <3>1, <3>2
  <2>4. ASSUME NEW s \in Servers, NEW i \in Answered(s)'
        PROVE  pipe'[s][i].reader # r
    <3>1. i \in Answered(s)
      BY <2>2 DEF Answered
    <3>2. pipe'[s][i] = pipe[s][i]
      <4>1. ~Execute(s)
        BY <2>2 DEF Execute
      <4>2. /\ Sends(server[r], Get(r, k)) /\ server[r] \in Servers /\ Get(r, k) \in Commands
        BY <1>1, <2>1, ServersTyped, CommandsTyped DEF Lookup, Sends
      <4> QED
        BY <1>1, <3>1, <4>2, AfterSending DEF WasAt
    <3>3. pc[pipe[s][i].reader] \in {"looking", "storing"}
      BY <1>1, <3>1, WhoWaits, LengthsAreNumbers DEF Orderly
    <3> QED
      BY <2>2, <3>2, <3>3
  <2> QED
    BY <2>3, <2>4
<1> QED
  BY <1>3, <1>4, WhileItWaits

LEMMA FreshAlways == Spec => [](CacheTyped /\ Fresh)
<1>1. Init => NeverRestocked /\ Fresh
  <2>1. Init => NeverRestocked
    BY StockAssumption DEF Init, NeverRestocked, Below, Loaded
  <2>2. Init => Fresh
    BY DEF Init, Fresh
  <2> QED
    BY <2>1, <2>2
<1> QED
  BY <1>1, NeverRestockedStays, FreshStays, CacheTypedAlways, PTL DEF Spec

(* A read that begins when its product is neither cached nor being loaded, *)
(* by any server, shows a stock no older than its beginning, whatever      *)
(* other servers, sales, expiries and lost connections do meanwhile.       *)
THEOREM ColdReadsStayFresh == Spec => ColdReadsAreFresh
<1>1. ASSUME CacheTyped, Fresh, [Next]_vars, NEW r \in Readers,
             pc[r] # "idle", pc'[r] = "idle",
             LookupEnds(server[r]) \/ Stored(server[r]), Head(replies[server[r]]).ok
      PROVE  shown'[asked[r]] <= atMost[r]
  <2> DEFINE s == server[r]
             h == Head(pipe[s]).reader
  <2>1. TypeOK /\ Orderly /\ Flights
    BY <1>1 DEF CacheTyped
  <2>2. s \in Servers
    BY <1>1, <2>1, ServersTyped DEF Flights
  <2>3. CASE LookupEnds(s)
    <3>1. /\ Deliver(s, "GET") /\ pc' = [pc EXCEPT ![h] = "idle"]
          /\ shown' = [shown EXCEPT ![asked[h]] = Head(replies[s]).value]
          /\ Head(replies[s]).value # Missing
      BY <1>1, <2>3 DEF LookupEnds
    <3>2. h = r
      BY <1>1, <2>1, <3>1, TypesOfParts
    <3>3. /\ 1 \in Answered(s) /\ pipe[s][1].reader = r /\ Head(replies[s]) = replies[s][1]
      BY <2>1, <2>2, <3>1, <3>2, DeliveredTo
    <3>4. replies[s][1].value <= atMost[r]
      BY <1>1, <2>2, <3>1, <3>3 DEF Fresh, Shows
    <3> HIDE DEF s, h
    <3> QED
      BY <2>1, <3>1, <3>2, <3>3, <3>4, TypesOfParts
  <2>4. CASE Stored(s)
    <3>1. /\ Deliver(s, "SET") /\ Settle(h) /\ UNCHANGED <<server, asked>>
          /\ shown' = [shown EXCEPT ![asked[h]] = loaded[h]]
      BY <1>1, <2>4 DEF Stored, Deliver
    <3>2. h \in Readers /\ pc[h] = "storing"
      BY <2>1, <2>2, <3>1, DeliveredTo
    <3> HIDE DEF s, h
    <3>3. awaits[r] = h
      BY <1>1, <2>1, <3>1, <3>2, AfterSettling DEF Undisturbed, Loading
    <3>4. asked[h] = asked[r]
      BY <2>1, <3>2, <3>3, WhoIsAwaited, NullsAssumption
    <3>5. loaded[h] <= atMost[r]
      BY <1>1, <3>2, <3>4 DEF Fresh, Below, Loaded
    <3> QED
      BY <2>1, <3>1, <3>4, <3>5, TypesOfParts
  <2> QED
    BY <1>1, <2>3, <2>4
<1>2. CacheTyped /\ Fresh /\ [Next]_vars =>
         [\A r \in Readers :
            /\ pc[r] # "idle" /\ pc'[r] = "idle"
            /\ LookupEnds(server[r]) \/ Stored(server[r])
            /\ Head(replies[server[r]]).ok
            => shown'[asked[r]] <= atMost[r]]_vars
  BY <1>1
<1> QED
  BY <1>2, FreshAlways, PTL DEF Spec, ColdReadsAreFresh

----------------------------------------------------------------------------
(***************************************************************************)
(* One server alone with its Valkey.                                       *)
(***************************************************************************)
LEMMA SameServer ==
    ASSUME TypeOK, Orderly, OneServer, NEW s \in Servers, NEW t \in Servers,
           Sent(s) # {}, Sent(t) # {}
    PROVE  s = t
<1>1. PICK i \in Sent(s), j \in Sent(t) : TRUE
  OBVIOUS
<1>2. Waits(s, pipe[s][i]) /\ Waits(t, pipe[t][j])
  BY <1>1, WhoWaits DEF Orderly
<1> QED
  BY <1>2 DEF Waits, OneServer

LEMMA OneLoader ==
    ASSUME TypeOK, Flights, OneServer, NEW q \in Readers, NEW r \in Readers,
           pc[q] \in Loading, pc[r] \in Loading, asked[q] = asked[r]
    PROVE  q = r
<1>1. q \in DOMAIN server /\ r \in DOMAIN server
  BY DEF Flights, Loading
<1>2. server[q] = server[r]
  BY <1>1 DEF OneServer
<1> QED
  BY <1>2 DEF Flights

LEMMA AnsweredWaits ==
    ASSUME CacheTyped, NEW s \in Servers, NEW i \in Answered(s)
    PROVE  /\ i \in Sent(s) /\ i \in Nat /\ i >= 1 /\ Waits(s, pipe[s][i])
           /\ pipe[s][i] \in Commands /\ replies[s][i] \in Answers
           /\ pipe[s][i].product \in Products
           /\ pipe[s][i].product = asked[pipe[s][i].reader]
           /\ Shows(replies[s][i]) => replies[s][i].value \in Nat
<1>1. /\ i \in Sent(s) /\ pipe[s][i] \in Commands /\ replies[s][i] \in Answers
      /\ i \in Nat /\ i >= 1
  BY LengthsAreNumbers DEF CacheTyped, Orderly, Sent
<1>2. Waits(s, pipe[s][i])
  BY <1>1, WhoWaits DEF CacheTyped, Orderly
<1>3. pipe[s][i].product = asked[pipe[s][i].reader]
  BY <1>2, WhatWaits
<1> QED
  BY <1>1, <1>2, <1>3 DEF Commands, Answers, Shows

(* What is shown is what the oldest answer on its way says.                *)
LEMMA ShownFrom ==
    ASSUME CacheTyped, Falling, [Next]_vars, NEW k \in Products
    PROVE  \/ shown'[k] = shown[k]
           \/ \E s \in Servers :
                 /\ 1 \in Answered(s) /\ Shows(replies[s][1]) /\ pipe[s][1].product = k
                 /\ shown'[k] = replies[s][1].value
<1>1. TypeOK /\ Orderly /\ Flights /\ shown \in [Products -> Nat]
  BY TypesOfParts DEF CacheTyped
<1>2. ASSUME NEW s \in Servers, LookupEnds(s) \/ Stored(s), shown'[k] # shown[k]
      PROVE  /\ 1 \in Answered(s) /\ Shows(replies[s][1]) /\ pipe[s][1].product = k
             /\ shown'[k] = replies[s][1].value
  <2> DEFINE r == Head(pipe[s]).reader
             a == Head(replies[s])
  <2>1. CASE LookupEnds(s)
    <3>1. /\ Deliver(s, "GET")
          /\ ~a.ok \/ a.value # Missing
          /\ shown' = IF a.ok THEN [shown EXCEPT ![asked[r]] = a.value] ELSE shown
      BY <2>1 DEF LookupEnds
    <3>2. 1 \in Answered(s) /\ a = replies[s][1] /\ pipe[s][1].product = asked[r]
      BY <1>1, <3>1, DeliveredTo
    <3> HIDE DEF r, a
    <3> QED
      BY <1>1, <1>2, <3>1, <3>2 DEF Shows
  <2>2. CASE Stored(s)
    <3>1. /\ Deliver(s, "SET")
          /\ shown' = IF a.ok THEN [shown EXCEPT ![asked[r]] = loaded[r]] ELSE shown
      BY <2>2 DEF Stored
    <3>2. /\ 1 \in Answered(s) /\ a = replies[s][1] /\ pipe[s][1].product = asked[r]
          /\ r \in Readers /\ pipe[s][1].kind = "SET" /\ pipe[s][1] = Set(r)
      BY <1>1, <3>1, DeliveredTo
    <3>3. pipe[s][1].value = loaded[r] /\ loaded[r] \in Nat
      BY <1>1, <3>2, CommandsTyped, TypesOfParts
    <3>4. a.ok => a.value = pipe[s][1].value
      BY <3>2 DEF Falling
    <3> HIDE DEF r, a
    <3> QED
      BY <1>1, <1>2, <3>1, <3>2, <3>3, <3>4, NullsAssumption DEF Shows
  <2> QED
    BY <1>2, <2>1, <2>2
<1>3. \/ shown' = shown
      \/ \E s \in Servers : LookupEnds(s) \/ Stored(s)
  <2>1. \A s \in Servers : Miss(s) \/ Execute(s) \/ Drop(s) => shown' = shown
    BY MissLeaves DEF Execute, Drop
  <2>2. /\ \A r \in Readers :
              \/ \E p \in Products : Lookup(r, p)
              \/ ReadDatabase(r) \/ LoaderReturns(r) \/ LoaderFails(r)
              => shown' = shown
        /\ \A p \in Products : Expire(p) \/ Sell(p) => shown' = shown
        /\ UNCHANGED vars => shown' = shown
    BY DEF Lookup, ReadDatabase, LoaderReturns, LoaderFails, Expire, Sell, vars
  <2> QED
    BY <2>1, <2>2 DEF Next
<1> QED
  BY <1>2, <1>3

LEMMA LoadsAreOld ==
    ASSUME CacheTyped, Falling, [Next]_vars, NEW r \in Readers, pc'[r] \in Loaded
    PROVE  stock'[asked'[r]] <= loaded'[r]
<1>1. /\ stock \in [Products -> Nat] /\ loaded \in [Readers -> Nat]
      /\ asked[r] \in Products
  BY TypesOfParts DEF CacheTyped
<1>2. asked'[r] = asked[r] /\ stock'[asked[r]] <= stock[asked[r]]
  BY <1>1, Sources
<1>3. stock'[asked[r]] \in Nat
  BY <1>1, CacheTypedStep DEF CacheTyped, TypeOK
<1>4. loaded'[r] = stock[asked[r]] \/ (pc[r] \in Loaded /\ loaded'[r] = loaded[r])
  BY Sources
<1>5. stock[asked[r]] <= loaded'[r] /\ loaded'[r] \in Nat
  BY <1>1, <1>4 DEF Falling
<1> QED
  BY <1>1, <1>2, <1>3, <1>5

LEMMA EntriesFall ==
    ASSUME CacheTyped, OneServer, Falling, [Next]_vars, NEW k \in Products,
           entry'[k] # Missing
    PROVE  Below(k, entry[k])'
<1>1. /\ stock \in [Products -> Nat] /\ loaded \in [Readers -> Nat]
      /\ entry \in [Products -> Nat \cup {Missing}]
      /\ TypeOK /\ Flights
  BY TypesOfParts DEF CacheTyped
<1>2. CASE entry'[k] = entry[k]
  <2>1. PICK n \in Nat : n = entry[k]
    BY <1>1, <1>2
  <2>2. Below(k, n)'
    BY <1>2, <2>1, BelowStays DEF Falling
  <2> QED
    BY <1>2, <2>1, <2>2 DEF Below
<1>3. CASE \E q \in Readers : asked[q] = k /\ pc[q] = "storing" /\ entry'[k] = loaded[q]
  <2>1. PICK q \in Readers : asked[q] = k /\ pc[q] = "storing" /\ entry'[k] = loaded[q]
    BY <1>3
  <2>2. stock[k] <= loaded[q] /\ stock'[k] <= stock[k] /\ stock'[k] \in Nat
    <3>1. stock'[k] \in Nat
      BY CacheTypedStep DEF CacheTyped, TypeOK
    <3> QED
      BY <2>1, <3>1, Sources DEF Falling, Loaded
  <2>3. ASSUME NEW p \in Readers, asked'[p] = k, pc'[p] \in Loaded
        PROVE  loaded'[p] <= loaded[q]
    <3>1. /\ asked[p] = k
          /\ (pc[p] \in Loaded /\ loaded'[p] = loaded[p]) \/ loaded'[p] = stock[k]
      BY <2>3, Sources
    <3>2. pc[p] \in Loaded => p = q
      BY <1>1, <2>1, <3>1, OneLoader DEF Loaded, Loading
    <3> QED
      BY <1>1, <2>2, <3>1, <3>2
  <2> QED
    BY <1>1, <2>1, <2>2, <2>3 DEF Below
<1> QED
  BY <1>2, <1>3, Sources

(* An answer on its way stays between what was shown and what is cached.   *)
LEMMA AnswersStayBetween ==
    ASSUME CacheTyped, OneServer, Falling, [Next]_vars,
           NEW s \in Servers, NEW j \in Answered(s), Shows(replies[s][j]),
           NEW k \in Products, k = pipe[s][j].product,
           NEW v \in Nat, v = replies[s][j].value
    PROVE  Below(k, v)' /\ v <= shown'[k]
<1>1. TypeOK /\ Orderly /\ shown \in [Products -> Nat] /\ j \in Nat /\ j >= 1
  BY TypesOfParts, AnsweredWaits DEF CacheTyped
<1>2. Below(k, v) /\ v <= shown[k]
  BY DEF Falling
<1>3. v <= shown'[k]
  <2>1. CASE shown'[k] = shown[k]
    BY <1>2, <2>1
  <2>2. ASSUME NEW t \in Servers, 1 \in Answered(t), Shows(replies[t][1]),
               pipe[t][1].product = k, shown'[k] = replies[t][1].value
        PROVE  v <= shown'[k]
    <3>1. t = s
      BY <1>1, <2>2, SameServer, AnsweredWaits
    <3>2. CASE j = 1
      BY <1>1, <2>2, <3>1, <3>2
    <3>3. CASE 1 < j
      BY <2>2, <3>1, <3>3 DEF Falling
    <3> QED
      BY <1>1, <3>2, <3>3
  <2> QED
    BY <2>1, <2>2, ShownFrom
<1> QED
  BY <1>2, <1>3, BelowStays

LEMMA FallingStays ==
    ASSUME CacheTyped, OneServer, Falling, [Next]_vars
    PROVE  Falling'
<1>1. /\ TypeOK /\ Orderly /\ Flights /\ stock \in [Products -> Nat]
      /\ shown \in [Products -> Nat] /\ loaded \in [Readers -> Nat]
      /\ entry \in [Products -> Nat \cup {Missing}]
  BY TypesOfParts DEF CacheTyped
<1>2. ASSUME NEW k \in Products PROVE Below(k, shown[k])'
  <2>1. CASE shown'[k] = shown[k]
    <3>1. PICK n \in Nat : n = shown[k]
      BY <1>1
    <3>2. Below(k, n)'
      BY <3>1, BelowStays DEF Falling
    <3> QED
      BY <2>1, <3>1, <3>2 DEF Below
  <2>2. ASSUME NEW t \in Servers, 1 \in Answered(t), Shows(replies[t][1]),
               pipe[t][1].product = k, shown'[k] = replies[t][1].value
        PROVE  Below(k, shown[k])'
    <3>1. PICK n \in Nat : n = replies[t][1].value
      BY <2>2, AnsweredWaits
    <3>2. Below(k, n)'
      BY <2>2, <3>1, AnswersStayBetween
    <3> QED
      BY <2>2, <3>1, <3>2 DEF Below
  <2> QED
    BY <2>1, <2>2, ShownFrom
<1>3. ASSUME NEW k \in Products, entry'[k] # Missing PROVE Below(k, entry[k])'
  BY <1>3, EntriesFall
<1>4. ASSUME NEW r \in Readers, pc'[r] \in Loaded PROVE stock'[asked'[r]] <= loaded'[r]
  BY <1>4, LoadsAreOld
<1>5. ASSUME NEW s \in Servers, NEW i \in Answered(s)',
             pipe'[s][i].kind = "SET", replies'[s][i].ok
      PROVE  replies'[s][i].value = pipe'[s][i].value
  <2>1. CASE ~Execute(s)
    BY <1>5, <2>1, AnswersMove DEF Falling, WasAt
  <2>2. CASE Execute(s)
    <3>1. CASE i \in Answered(s)
      BY <1>5, <2>2, <3>1, NewAnswer DEF Falling
    <3>2. CASE i = Len(replies[s]) + 1
      <4>1. /\ pipe'[s][i] = pipe[s][i]
            /\ replies'[s][i] = Failure \/ replies'[s][i] = Reply(pipe[s][i].value)
        BY <1>5, <2>2, <3>2, NewAnswer
      <4> QED
        BY <1>5, <4>1 DEF Failure, Reply
    <3> QED
      BY <2>2, <3>1, <3>2, NewAnswer
  <2> QED
    BY <2>1, <2>2
<1>6. ASSUME NEW s \in Servers, NEW i \in Answered(s)', Shows(replies'[s][i])
      PROVE  /\ Below(pipe[s][i].product, replies[s][i].value)'
             /\ replies'[s][i].value <= shown'[pipe'[s][i].product]
             /\ \A j \in Answered(s)' :
                   /\ i < j /\ Shows(replies'[s][j])
                   /\ pipe'[s][j].product = pipe'[s][i].product
                   => replies'[s][j].value <= replies'[s][i].value
  <2>1. CASE ~Execute(s)
    <3>1. PICK d \in {0, 1} : \A e \in Answered(s)' :
             /\ e + d \in Answered(s) /\ WasAt(s, e, e + d)
             /\ \A j \in Answered(s) : j > e + d =>
                   j - d \in Answered(s)' /\ j - d > e /\ WasAt(s, j - d, j)
      BY <2>1, AnswersMove
    <3>2. \A e \in Answered(s)' :
             /\ e + d \in Answered(s) /\ e \in Nat
             /\ pipe'[s][e] = pipe[s][e + d] /\ replies'[s][e] = replies[s][e + d]
      <4>1. \A e \in Answered(s)' : e \in Nat
        BY DEF Answered
      <4> QED
        BY <3>1, <4>1 DEF WasAt
    <3>3. PICK k \in Products, v \in Nat :
             k = pipe[s][i + d].product /\ v = replies[s][i + d].value
      BY <1>6, <3>2, AnsweredWaits
    <3>4. Shows(replies[s][i + d]) /\ i + d \in Answered(s)
      BY <1>6, <3>2
    <3>5. Below(k, v)' /\ v <= shown'[k]
      BY <3>3, <3>4, AnswersStayBetween
    <3>6. ASSUME NEW j \in Answered(s)', i < j, Shows(replies'[s][j]), pipe'[s][j].product = k
          PROVE  replies'[s][j].value <= v
      <4>1. i + d < j + d
        BY <3>2, <3>6
      <4> QED
        BY <3>2, <3>3, <3>4, <3>6, <4>1 DEF Falling
    <3>7. pipe'[s][i].product = k /\ replies'[s][i].value = v
      BY <3>2, <3>3
    <3> QED
      BY <3>5, <3>6, <3>7 DEF Below
  <2>2. CASE Execute(s)
    <3> DEFINE n == Len(replies[s]) + 1
    <3>1. /\ Answered(s)' = Answered(s) \cup {n} /\ pipe' = pipe /\ n \in Sent(s)
          /\ \A j \in Answered(s) : j < n /\ replies'[s][j] = replies[s][j]
      BY <2>2, NewAnswer
    <3>2. PICK c \in Commands : c = pipe[s][n]
      BY <2>2, NewAnswer
    <3>3. PICK k \in Products : k = c.product
      BY <3>2 DEF Commands
    (* The new answer is what is cached, or comes to be.                   *)
    <3>4. ASSUME Shows(replies'[s][n])
          PROVE  /\ replies'[s][n].value \in Nat
                 /\ replies'[s][n].value = entry'[k]
                 /\ \A m \in Nat : Below(k, m) => replies'[s][n].value <= m
      <4>1. CASE c.kind = "GET"
        <5>1. UNCHANGED entry /\ replies'[s][n] = Reply(entry[k])
          BY <2>2, <3>2, <3>3, <3>4, <4>1, NewAnswer DEF Shows, Failure
        <5> QED
          BY <1>1, <3>4, <5>1 DEF Shows, Reply, Below
      <4>2. CASE c.kind = "SET"
        <5>1. /\ pc[c.reader] = "storing" /\ asked[c.reader] = k /\ c.reader \in Readers
              /\ replies'[s][n] = Reply(loaded[c.reader])
              /\ entry' = [entry EXCEPT ![k] = loaded[c.reader]]
          <6>1. c.reader \in Readers
            BY DEF Commands
          <6>2. /\ pc[c.reader] = "storing" /\ c.value = loaded[c.reader]
                /\ c.product = asked[c.reader]
                /\ \/ replies'[s][n] = Failure
                   \/ /\ replies'[s][n] = Reply(c.value)
                      /\ entry' = [entry EXCEPT ![c.product] = c.value]
            BY <2>2, <3>2, <4>2, NewAnswer
          <6> QED
            BY <3>3, <3>4, <6>1, <6>2 DEF Shows, Failure
        <5> QED
          BY <1>1, <5>1 DEF Reply, Below, Loaded
      <4> QED
        BY <4>1, <4>2 DEF Commands
    <3>5. CASE i = n
      <4>1. Shows(replies'[s][n])
        BY <1>6, <3>5
      <4>2. entry'[k] # Missing /\ replies'[s][n].value = entry'[k] /\ entry'[k] \in Nat
        BY <3>4, <4>1, NullsAssumption
      <4>3. Below(k, entry[k])'
        BY <4>2, EntriesFall
      <4>4. replies'[s][n].value <= shown'[k]
        <5>1. shown' = shown
          BY <2>2 DEF Execute
        <5> QED
          BY <1>1, <3>4, <4>1, <5>1 DEF Falling
      <4>5. \A j \in Answered(s)' : ~(i < j)
        <5>1. n \in Nat /\ \A j \in Answered(s) : j \in Nat
          BY LengthsAreNumbers, <1>1 DEF Orderly, Answered
        <5> QED
          BY <3>1, <3>5, <5>1
      <4>6. pipe'[s][i].product = k
        BY <3>1, <3>2, <3>3, <3>5
      <4>7. Below(pipe[s][i].product, replies[s][i].value)'
        BY <3>5, <4>2, <4>3, <4>6 DEF Below
      <4> QED
        BY <3>5, <4>4, <4>5, <4>6, <4>7
    <3>6. CASE i \in Answered(s)
      <4>1. /\ Shows(replies[s][i]) /\ replies'[s][i] = replies[s][i]
            /\ pipe'[s][i] = pipe[s][i]
        BY <1>6, <3>1, <3>6
      <4>2. PICK p \in Products, v \in Nat : p = pipe[s][i].product /\ v = replies[s][i].value
        BY <3>6, <4>1, AnsweredWaits
      <4>3. Below(p, v)' /\ v <= shown'[p]
        BY <3>6, <4>1, <4>2, AnswersStayBetween
      <4>4. ASSUME NEW j \in Answered(s)', i < j, Shows(replies'[s][j]), pipe'[s][j].product = p
            PROVE  replies'[s][j].value <= v
        <5>1. CASE j \in Answered(s)
          BY <3>1, <3>6, <4>1, <4>2, <4>4, <5>1 DEF Falling
        <5>2. CASE j = n
          <6>1. p = k
            BY <3>1, <3>2, <3>3, <4>4, <5>2
          <6>2. Below(p, v)
            BY <3>6, <4>1, <4>2 DEF Falling
          <6> QED
            BY <3>4, <4>2, <4>4, <5>2, <6>1, <6>2
        <5> QED
          BY <3>1, <5>1, <5>2
      <4> QED
        BY <4>1, <4>2, <4>3, <4>4 DEF Below
    <3> QED
      BY <3>1, <3>5, <3>6
  <2> QED
    BY <2>1, <2>2
<1> QED
  BY <1>2, <1>3, <1>4, <1>5, <1>6 DEF Falling, Shows

LEMMA LateMissesStay ==
    ASSUME CacheTyped, OneServer, LateMisses, [Next]_vars
    PROVE  LateMisses'
<1> SUFFICES ASSUME NEW s \in Servers, NEW i \in Answered(s)',
                    pipe'[s][i].kind = "GET", replies'[s][i] = Reply(Missing),
                    entry'[pipe'[s][i].product] # Missing
             PROVE  \E j \in Answered(s)' :
                       /\ i < j /\ pipe'[s][j].kind = "SET"
                       /\ pipe'[s][j].product = pipe'[s][i].product
  BY DEF LateMisses, Reply
<1>1. TypeOK /\ Orderly /\ entry \in [Products -> Nat \cup {Missing}]
  BY TypesOfParts DEF CacheTyped
<1>2. CASE \A t \in Servers : ~Execute(t)
  <2>1. PICK d \in {0, 1} : \A e \in Answered(s)' :
           /\ e + d \in Answered(s) /\ WasAt(s, e, e + d)
           /\ \A j \in Answered(s) : j > e + d =>
                 j - d \in Answered(s)' /\ j - d > e /\ WasAt(s, j - d, j)
    BY <1>2, AnswersMove
  <2>2. /\ i + d \in Answered(s) /\ i + d \in Nat /\ i \in Nat
        /\ pipe'[s][i] = pipe[s][i + d] /\ replies'[s][i] = replies[s][i + d]
    <3>1. i \in Nat
      BY DEF Answered
    <3> QED
      BY <2>1, <3>1 DEF WasAt
  <2>3. PICK k \in Products : k = pipe[s][i + d].product
    BY <2>2, AnsweredWaits
  <2>4. entry[k] # Missing
    <3>1. UNCHANGED entry \/ \E p \in Products : entry' = [entry EXCEPT ![p] = Missing]
      <4>1. \A t \in Servers :
               LookupEnds(t) \/ Miss(t) \/ Stored(t) \/ Drop(t) => UNCHANGED entry
        BY MissLeaves DEF LookupEnds, Stored, Deliver, Drop
      <4>2. \A r \in Readers :
               \/ \E p \in Products : Lookup(r, p)
               \/ ReadDatabase(r) \/ LoaderReturns(r) \/ LoaderFails(r)
               => UNCHANGED entry
        BY DEF Lookup, ReadDatabase, LoaderReturns, LoaderFails, valkey
      <4>3. \A p \in Products :
               /\ Expire(p) => entry' = [entry EXCEPT ![p] = Missing]
               /\ Sell(p) => UNCHANGED entry
        BY DEF Expire, Sell, valkey
      <4>4. UNCHANGED vars => UNCHANGED entry
        BY DEF vars, valkey
      <4> QED
        BY <1>2, <4>1, <4>2, <4>3, <4>4 DEF Next
    <3> QED
      BY <1>1, <2>2, <2>3, <3>1
  <2>5. PICK j \in Answered(s) : i + d < j /\ pipe[s][j].kind = "SET" /\ pipe[s][j].product = k
    BY <2>2, <2>3, <2>4 DEF LateMisses
  <2>6. j \in Nat
    BY AnsweredWaits
  <2>7. /\ j - d \in Answered(s)' /\ i < j - d
        /\ pipe'[s][j - d].kind = "SET" /\ pipe'[s][j - d].product = k
    BY <2>1, <2>2, <2>5, <2>6 DEF WasAt
  <2> QED
    BY <2>2, <2>3, <2>7
<1>3. CASE \E t \in Servers : Execute(t)
  <2>1. PICK t \in Servers : Execute(t)
    BY <1>3
  <2>2. s = t
    <3>1. Sent(t) # {}
      BY <2>1, NewAnswer
    <3>2. Answered(s)' \subseteq Sent(s)
      <4>1. Paired'
        BY CacheTypedStep DEF CacheTyped, Orderly
      <4>2. /\ Len(replies'[s]) \in Nat /\ Len(pipe'[s]) \in Nat
            /\ Len(pipe'[s]) >= Len(replies'[s])
        BY <4>1 DEF Paired, Wire
      <4>3. pipe' = pipe
        BY <2>1 DEF Execute
      <4> QED
        BY <4>2, <4>3 DEF Answered, Sent
    <3> QED
      BY <1>1, <3>1, <3>2, SameServer
  <2> DEFINE n == Len(replies[s]) + 1
  <2>3. /\ Answered(s)' = Answered(s) \cup {n} /\ pipe' = pipe
        /\ \A j \in Answered(s) : j < n /\ replies'[s][j] = replies[s][j]
    BY <2>1, <2>2, NewAnswer
  <2>4. PICK c \in Commands : c = pipe[s][n]
    BY <2>1, <2>2, NewAnswer
  <2>5. PICK k : k = pipe[s][i].product
    OBVIOUS
  <2>6. CASE i = n
    <3>1. c.kind = "GET" /\ c.product = k
      BY <2>3, <2>4, <2>5, <2>6
    <3>2. UNCHANGED entry /\ replies'[s][n] \in {Failure, Reply(entry[k])}
      BY <2>1, <2>2, <2>4, <3>1, NewAnswer
    <3>3. entry[k] # Missing
      BY <2>3, <2>5, <3>2
    <3> QED
      BY <2>6, <3>2, <3>3 DEF Failure, Reply
  <2>7. CASE i \in Answered(s)
    <3>1. /\ pipe[s][i].kind = "GET" /\ replies[s][i] = Reply(Missing) /\ entry'[k] # Missing
      BY <2>3, <2>5, <2>7
    <3>2. CASE entry[k] # Missing
      BY <2>3, <2>5, <2>7, <3>1, <3>2 DEF LateMisses
    <3>3. CASE entry[k] = Missing
      <4>1. entry' # entry
        BY <3>1, <3>3
      <4>2. c.kind = "SET" /\ entry' = [entry EXCEPT ![c.product] = c.value]
        BY <2>1, <2>2, <2>4, <4>1, NewAnswer DEF Commands
      <4>3. c.product = k
        BY <1>1, <3>1, <3>3, <4>2
      <4> QED
        BY <2>3, <2>4, <2>5, <2>7, <4>2, <4>3
    <3> QED
      BY <3>2, <3>3
  <2> QED
    BY <2>3, <2>6, <2>7
<1> QED
  BY <1>2, <1>3

InOrder == OneServer => Falling /\ LateMisses

LEMMA InOrderAlways == Spec => [](CacheTyped /\ InOrder)
<1>1. Init => InOrder
  <2> SUFFICES ASSUME Init PROVE Falling /\ LateMisses
    BY DEF InOrder
  <2>1. \A s \in Servers : Answered(s) = {}
    BY DEF Init, Answered
  <2>2. \A k \in Products : Below(k, shown[k]) /\ entry[k] = Missing
    BY StockAssumption DEF Init, Below, Loaded
  <2>3. \A r \in Readers : pc[r] \notin Loaded
    BY DEF Init, Loaded
  <2> QED
    BY <2>1, <2>2, <2>3 DEF Falling, LateMisses
<1>2. CacheTyped /\ InOrder /\ [Next]_vars => InOrder'
  <2> SUFFICES ASSUME CacheTyped, InOrder, [Next]_vars PROVE InOrder'
    OBVIOUS
  <2>1. OneServer' = OneServer
    BY Sources DEF OneServer
  <2> QED
    BY <2>1, FallingStays, LateMissesStay DEF InOrder
<1> QED
  BY <1>1, <1>2, CacheTypedAlways, PTL DEF Spec

(* The answers of a server that is alone with its Valkey never go back to  *)
(* an older stock, whatever is cached, expired, in flight or sent again.   *)
THEOREM ReadsAreMonotonic == Spec => MonotonicReads
<1>1. CacheTyped /\ InOrder /\ [Next]_vars =>
         [OneServer => \A k \in Products : shown'[k] <= shown[k]]_vars
  <2> SUFFICES ASSUME CacheTyped, InOrder, [Next]_vars, OneServer, NEW k \in Products
               PROVE  shown'[k] <= shown[k]
    OBVIOUS
  <2>1. shown \in [Products -> Nat]
    BY TypesOfParts DEF CacheTyped
  <2>2. Falling
    BY DEF InOrder
  <2> QED
    BY <2>1, <2>2, ShownFrom DEF Falling
<1> QED
  BY <1>1, InOrderAlways, PTL DEF Spec, MonotonicReads

(* The loader runs only when nothing is cached and no other loader of the  *)
(* same product runs, although a miss may be delivered long after it was   *)
(* answered.                                                               *)
THEOREM LoadsOnlyAfterRealMisses == Spec => LoadsOnlyWhatIsMissing
<1>1. ASSUME CacheTyped, InOrder, [Next]_vars, NEW r \in Readers, OneServer,
             pc[r] # "loading", pc'[r] = "loading"
      PROVE  /\ entry[asked[r]] = Missing
             /\ \A q \in Readers : asked[q] = asked[r] => pc[q] \notin Loading
  <2>1. TypeOK /\ Orderly /\ Flights /\ LateMisses
    BY <1>1 DEF CacheTyped, InOrder
  <2>2. PICK s \in Servers : Miss(s)
    <3>1. ASSUME NEW p \in Readers, pc[p] \in Loading, Settle(p), UNCHANGED <<server, asked>>
          PROVE  FALSE
      BY <1>1, <2>1, <3>1, AfterSettling DEF Undisturbed
    <3>2. ~\E s \in Servers : Stored(s)
      <4> SUFFICES ASSUME NEW s \in Servers, Stored(s) PROVE FALSE
        OBVIOUS
      <4>1. Deliver(s, "SET") /\ Settle(Head(pipe[s]).reader) /\ UNCHANGED <<server, asked>>
        BY DEF Stored, Deliver
      <4> QED
        BY <2>1, <3>1, <4>1, DeliveredTo DEF Loading
    <3>3. ~\E p \in Readers : LoaderFails(p)
      BY <3>1 DEF LoaderFails, Loading
    <3>4. ~\E p \in Readers : \/ \E k \in Products : Lookup(p, k)
                              \/ ReadDatabase(p) \/ LoaderReturns(p)
      BY <1>1, <2>1, TypesOfParts DEF Lookup, ReadDatabase, LoaderReturns
    <3>5. ~\E s \in Servers : LookupEnds(s)
      BY <1>1, <2>1, TypesOfParts DEF LookupEnds
    <3>6. /\ ~\E s \in Servers : Execute(s) \/ Drop(s)
          /\ ~\E k \in Products : Expire(k) \/ Sell(k)
          /\ ~UNCHANGED vars
      BY <1>1 DEF Execute, Drop, Expire, Sell, vars
    <3> QED
      BY <1>1, <3>2, <3>3, <3>4, <3>5, <3>6 DEF Next
  <2> DEFINE h == Head(pipe[s]).reader
  <2>3. /\ Deliver(s, "GET") /\ Head(replies[s]) = Reply(Missing)
        /\ \/ pc' = [pc EXCEPT ![h] = "waiting"]
           \/ inFlight[s][asked[h]] = Nobody /\ pc' = [pc EXCEPT ![h] = "loading"]
    BY <2>2, MissIs, Zenon
  <2>4. /\ 1 \in Answered(s) /\ Head(replies[s]) = replies[s][1]
        /\ pipe[s][1].kind = "GET" /\ pipe[s][1].product = asked[h]
        /\ h \in DOMAIN server /\ server[h] = s /\ h \in Readers
    BY <2>1, <2>3, DeliveredTo
  <2> HIDE DEF h
  <2>5. h = r /\ inFlight[s][asked[r]] = Nobody
    BY <1>1, <2>1, <2>3, TypesOfParts
  <2>6. \A q \in Readers : asked[q] = asked[r] => pc[q] \notin Loading
    <3> SUFFICES ASSUME NEW q \in Readers, asked[q] = asked[r], pc[q] \in Loading
                 PROVE  FALSE
      OBVIOUS
    <3>1. q \in DOMAIN server /\ inFlight[server[q]][asked[q]] = q
      BY <2>1 DEF Flights, Loading
    <3>2. server[q] = s
      BY <1>1, <2>4, <2>5, <3>1 DEF OneServer
    <3> QED
      BY <2>5, <3>1, <3>2, NullsAssumption
  <2>7. entry[asked[r]] = Missing
    <3> SUFFICES ASSUME entry[asked[r]] # Missing PROVE FALSE
      OBVIOUS
    <3>1. PICK j \in Answered(s) : pipe[s][j].kind = "SET" /\ pipe[s][j].product = asked[r]
      BY <2>1, <2>3, <2>4, <2>5 DEF LateMisses
    <3>2. /\ Waits(s, pipe[s][j]) /\ pipe[s][j] \in Commands
          /\ asked[pipe[s][j].reader] = asked[r]
      BY <1>1, <3>1, AnsweredWaits
    <3>3. pc[pipe[s][j].reader] = "storing" /\ pipe[s][j].reader \in Readers
      BY <3>1, <3>2, WhatWaits DEF Commands
    <3> QED
      BY <2>6, <3>2, <3>3 DEF Loading
  <2> QED
    BY <2>6, <2>7
<1>2. CacheTyped /\ InOrder /\ [Next]_vars =>
         [\A r \in Readers : OneServer /\ pc[r] # "loading" /\ pc'[r] = "loading" =>
            /\ entry[asked[r]] = Missing
            /\ \A q \in Readers : asked[q] = asked[r] => pc[q] \notin Loading]_vars
  BY <1>1
<1> QED
  BY <1>2, InOrderAlways, PTL DEF Spec, LoadsOnlyWhatIsMissing
=============================================================================
