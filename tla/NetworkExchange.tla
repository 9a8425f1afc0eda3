--------------------------- MODULE NetworkExchange ---------------------------
(***************************************************************************)
(* The exchange of stream elements between TaskManagers                    *)
(* (crates/flume-network/src: network_collector.rs, connection_manager.rs, *)
(* exchange.rs, network_input.rs): a collector per channel batches what an *)
(* operator emits and sends as its credits allow, a connection carries the *)
(* batches in order to the router of the receiving TaskManager, which      *)
(* hands each to its channel's subscriber and grants credits back.         *)
(*                                                                         *)
(* What drives the parts is external: a task that collects, one that hands *)
(* the credit grants to the collectors, one that receives.                 *)
(***************************************************************************)
EXTENDS Integers, Sequences, FiniteSets, SequencesExt, Filters

CONSTANTS
  Channels,       (* the channel ids                                        *)
  Connections,    (* the exchange streams                                   *)
  ConnOf,         (* the stream each channel's batches go over              *)
  BatchSize,      (* batch_size                                             *)
  InitialCredits, (* initial_credits of the router                          *)
  OutBuffer,      (* outbound_buffer and what is under way on a stream      *)
  StreamRoom,     (* the grants a response stream and credit_tx hold        *)
  GrantRoom,      (* the grants the forwarder and credit_rx hold            *)
  InCapacity,     (* the capacity of a subscriber's channel                 *)
  Inputs,         (* bound: the kinds a channel's task may collect in turn  *)
  Unreliable,     (* bound: the streams that may break                      *)
  None

ASSUME ExchangeAssumption ==
  /\ ConnOf \in [Channels -> Connections]
  /\ BatchSize \in Nat \ {0} /\ InitialCredits \in Nat
  /\ OutBuffer \in Nat \ {0} /\ InCapacity \in Nat \ {0}
  /\ StreamRoom \in Nat \ {0} /\ GrantRoom \in Nat \ {0}

VARIABLES
  collected,  (* history: the kinds of the elements collected on a channel  *)
  buffer,     (* NetworkCollector.buffer: their positions in collected      *)
  credits,    (* NetworkCollector.credits                                   *)
  failed,     (* a call of the collector returned an error: its task ended  *)
  outbound,   (* per connection: batches between batch_tx and inbound       *)
  link,       (* per connection: "new", "open" or "broken"                  *)
  handler,    (* per connection: what exchange_data's task is doing         *)
  seen,       (* per connection: seen_channels                              *)
  granting,   (* per connection: grants between the handler and the forwarder *)
  grants,     (* per connection: grants between the forwarder and the collectors *)
  lock,       (* the connection whose task holds the subscribers' lock      *)
  subscribed, (* the channels with a subscriber                             *)
  inbox,      (* the batches in a subscriber's channel                      *)
  arrived,    (* history: the positions NetworkInput::recv returned         *)
  dropped     (* history: the batches routed to nobody, or lost in a stream *)

sender == <<collected, buffer, credits, failed>>
receiver == <<inbox, arrived>>
router == <<lock, subscribed, dropped>>
stream == <<outbound, link, handler, seen>>
returning == <<granting, grants>>
exchangeVars == <<sender, stream, returning, router, receiver>>

Idle == [at |-> "next", batch |-> None]

Kinds == {"record", "watermark", "barrier"}

ExchangeInit ==
  /\ collected = [c \in Channels |-> <<>>]
  /\ buffer = [c \in Channels |-> <<>>]
  /\ credits = [c \in Channels |-> 0]
  /\ failed = [c \in Channels |-> FALSE]
  /\ outbound = [n \in Connections |-> <<>>]
  /\ link = [n \in Connections |-> "new"]
  /\ handler = [n \in Connections |-> Idle]
  /\ seen = [n \in Connections |-> {}]
  /\ granting = [n \in Connections |-> <<>>]
  /\ grants = [n \in Connections |-> <<>>]
  /\ lock = None
  /\ subscribed = {}
  /\ inbox = [c \in Channels |-> <<>>]
  /\ arrived = [c \in Channels |-> <<>>]
  /\ dropped = [c \in Channels |-> {}]

(* ConnectionManager::open_exchange. *)
OpenExchange(n) ==
  /\ link[n] = "new"
  /\ link' = [link EXCEPT ![n] = "open"]
  /\ UNCHANGED <<sender, outbound, handler, seen, returning, router, receiver>>

-----------------------------------------------------------------------------
(* The collector: what a call makes of it and of its connection's queue. *)

DataBatch(c, kind, elems) == [channel |-> c, kind |-> kind, elems |-> elems]

Collector(c) ==
  [buffer |-> buffer[c], credits |-> credits[c], failed |-> FALSE, queue |-> outbound[ConnOf[c]]]

(* try_send: a full queue is an error, as a broken stream is. *)
TrySend(s, batch) ==
  IF link[ConnOf[batch.channel]] = "open" /\ Len(s.queue) < OutBuffer
  THEN [s EXCEPT !.queue = Append(@, batch)]
  ELSE [s EXCEPT !.failed = TRUE]

(* Mutant: a flush does not spend a credit. *)
Flush_Free(c, s) ==
  IF s.buffer = <<>> THEN s
  ELSE IF s.credits = 0 THEN [s EXCEPT !.failed = TRUE]
  ELSE TrySend([s EXCEPT !.buffer = <<>>], DataBatch(c, "data", s.buffer))

Flush(c, s) ==
  IF s.buffer = <<>> THEN s
  ELSE IF s.credits = 0 THEN [s EXCEPT !.failed = TRUE]
  ELSE TrySend([s EXCEPT !.buffer = <<>>, !.credits = @ - 1], DataBatch(c, "data", s.buffer))

CollectRecord(c, s, e) ==
  LET t == [s EXCEPT !.buffer = Append(@, e)] IN
  IF Len(t.buffer) >= BatchSize THEN Flush(c, t) ELSE t

CollectWatermark(c, s, e) ==
  LET t == Flush(c, s) IN
  IF t.failed THEN t
  ELSE IF t.credits > 0 THEN TrySend([t EXCEPT !.credits = @ - 1], DataBatch(c, "watermark", <<e>>))
  ELSE [t EXCEPT !.failed = TRUE]

(* Mutant: a barrier goes out ahead of the buffered records. *)
CollectBarrier_NoFlush(c, s, e) == TrySend(s, DataBatch(c, "barrier", <<e>>))

(* A barrier needs no credit. *)
CollectBarrier(c, s, e) ==
  LET t == Flush(c, s) IN
  IF t.failed THEN t ELSE TrySend(t, DataBatch(c, "barrier", <<e>>))

Collect(c, kind) ==
  /\ link[ConnOf[c]] # "new"
  /\ ~failed[c]
  /\ Append(collected[c], kind) \in Inputs[c]
  /\ collected' = [collected EXCEPT ![c] = Append(@, kind)]
  /\ LET e == Len(collected[c]) + 1
         s == CASE kind = "record" -> CollectRecord(c, Collector(c), e)
                [] kind = "watermark" -> CollectWatermark(c, Collector(c), e)
                [] kind = "barrier" -> CollectBarrier(c, Collector(c), e)
     IN /\ buffer' = [buffer EXCEPT ![c] = s.buffer]
        /\ credits' = [credits EXCEPT ![c] = s.credits]
        /\ failed' = [failed EXCEPT ![c] = s.failed]
        /\ outbound' = [outbound EXCEPT ![ConnOf[c]] = s.queue]
  /\ UNCHANGED <<link, handler, seen, returning, router, receiver>>

(* open_exchange's task hands on a grant, and waits while there is no room. *)
ForwardGrant(n) ==
  /\ link[n] = "open"
  /\ granting[n] # <<>>
  /\ Len(grants[n]) < GrantRoom
  /\ grants' = [grants EXCEPT ![n] = Append(@, Head(granting[n]))]
  /\ granting' = [granting EXCEPT ![n] = Tail(@)]
  /\ UNCHANGED <<sender, stream, router, receiver>>

(* A grant reaches its channel's collector (NetworkCollectorManager). *)
GrantCredits(n) ==
  /\ grants[n] # <<>>
  /\ LET g == Head(grants[n]) IN credits' = [credits EXCEPT ![g.channel] = @ + g.credits]
  /\ grants' = [grants EXCEPT ![n] = Tail(@)]
  /\ UNCHANGED <<collected, buffer, failed, stream, granting, router, receiver>>

-----------------------------------------------------------------------------
(* The receiving TaskManager: exchange_data's task, one per connection. *)

(* What had arrived of a stream that broke may still be taken from it. *)
NextBatch(n) ==
  /\ handler[n] = Idle
  /\ outbound[n] # <<>>
  /\ LET b == Head(outbound[n]) IN
       /\ handler' = [handler EXCEPT
            ![n] = [at |-> IF b.channel \in seen[n] THEN "route" ELSE "first", batch |-> b]]
       /\ seen' = [seen EXCEPT ![n] = @ \cup {b.channel}]
  /\ outbound' = [outbound EXCEPT ![n] = Tail(@)]
  /\ UNCHANGED <<sender, link, returning, router, receiver>>

(* credit_tx.send: it waits for room; on a broken stream the grant is lost. *)
SendGrant(n, amount) ==
  \/ /\ link[n] = "open"
     /\ Len(granting[n]) < StreamRoom
     /\ granting' = [granting EXCEPT
          ![n] = Append(@, [channel |-> handler[n].batch.channel, credits |-> amount])]
  \/ /\ link[n] = "broken"
     /\ UNCHANGED granting

(* The first batch of a channel earns it the initial credits. *)
InitialGrant(n) ==
  /\ handler[n].at = "first"
  /\ SendGrant(n, InitialCredits)
  /\ handler' = [handler EXCEPT ![n].at = "route"]
  /\ UNCHANGED <<sender, outbound, link, seen, grants, router, receiver>>

(* Mutant: a batch waits for its subscriber. *)
Route_Waits(n) ==
  /\ handler[n].at = "route"
  /\ lock = None
  /\ handler[n].batch.channel \in subscribed
  /\ lock' = n
  /\ handler' = [handler EXCEPT ![n].at = "send"]
  /\ UNCHANGED <<sender, outbound, link, seen, returning, subscribed, dropped, receiver>>

(* route: it takes the lock, and drops a batch without a subscriber. *)
Route(n) ==
  /\ handler[n].at = "route"
  /\ lock = None
  /\ LET b == handler[n].batch IN
     \/ /\ b.channel \in subscribed
        /\ lock' = n
        /\ handler' = [handler EXCEPT ![n].at = "send"]
        /\ UNCHANGED dropped
     \/ /\ b.channel \notin subscribed
        /\ handler' = [handler EXCEPT ![n] = Idle]
        /\ dropped' = [dropped EXCEPT ![b.channel] = @ \cup {b}]
        /\ UNCHANGED lock
  /\ UNCHANGED <<sender, outbound, link, seen, returning, subscribed, receiver>>

(* It waits for room with the lock held. *)
RouteSend(n) ==
  /\ handler[n].at = "send"
  /\ LET b == handler[n].batch IN
       /\ Len(inbox[b.channel]) < InCapacity
       /\ inbox' = [inbox EXCEPT ![b.channel] = Append(@, b)]
  /\ lock' = None
  /\ handler' = [handler EXCEPT ![n].at = "credit"]
  /\ UNCHANGED <<sender, outbound, link, seen, returning, subscribed, dropped, arrived>>

(* A delivered batch, a barrier too, earns one credit. *)
CreditGrant(n) ==
  /\ handler[n].at = "credit"
  /\ SendGrant(n, 1)
  /\ handler' = [handler EXCEPT ![n] = Idle]
  /\ UNCHANGED <<sender, outbound, link, seen, grants, router, receiver>>

Subscribe(c) ==
  /\ lock = None
  /\ c \notin subscribed
  /\ subscribed' = subscribed \cup {c}
  /\ UNCHANGED <<sender, stream, returning, lock, dropped, receiver>>

Unsubscribe(c) ==
  /\ lock = None
  /\ c \in subscribed
  /\ subscribed' = subscribed \ {c}
  /\ UNCHANGED <<sender, stream, returning, lock, dropped, receiver>>

OfChannel(c, q) == {b \in ToSet(q) : b.channel = c}

(* The stream fails: the grants on their way back on it are lost. *)
Break(n) ==
  /\ n \in Unreliable
  /\ link[n] = "open"
  /\ link' = [link EXCEPT ![n] = "broken"]
  /\ granting' = [granting EXCEPT ![n] = <<>>]
  /\ UNCHANGED <<sender, outbound, handler, seen, grants, router, receiver>>

(* exchange_data's loop ends: what was on the stream is lost. *)
Lose(n) ==
  /\ link[n] = "broken"
  /\ handler[n] = Idle
  /\ outbound[n] # <<>>
  /\ dropped' = [c \in Channels |-> dropped[c] \cup OfChannel(c, outbound[n])]
  /\ outbound' = [outbound EXCEPT ![n] = <<>>]
  /\ UNCHANGED <<sender, link, handler, seen, returning, lock, subscribed, receiver>>

(* NetworkInput::recv: a watermark was sent without the length prefix the  *)
(* payload is read by, and is dropped here.                                *)
Recv(c) ==
  /\ inbox[c] # <<>>
  /\ LET b == Head(inbox[c]) IN
       arrived' = [arrived EXCEPT ![c] = @ \o (IF b.kind = "watermark" THEN <<>> ELSE b.elems)]
  /\ inbox' = [inbox EXCEPT ![c] = Tail(@)]
  /\ UNCHANGED <<sender, stream, returning, router>>

Handle(n) ==
  NextBatch(n) \/ InitialGrant(n) \/ Route(n) \/ RouteSend(n) \/ CreditGrant(n) \/ Lose(n)

Deliver ==
  \/ \E n \in Connections : Handle(n) \/ ForwardGrant(n) \/ GrantCredits(n)
  \/ \E c \in Channels : Recv(c)

ExchangeNext ==
  \/ Deliver
  \/ \E n \in Connections : OpenExchange(n) \/ Break(n)
  \/ \E c \in Channels : Subscribe(c) \/ Unsubscribe(c)
  \/ \E c \in Channels, kind \in Kinds : Collect(c, kind)

(* The tasks of both TaskManagers are scheduled fairly (a handler that     *)
(* waits in turn gets the lock, or room), every subscriber keeps receiving *)
(* and the sender keeps taking the grants of credit_rx: the handler awaits *)
(* room for them, and would stop for ever.                                 *)
ExchangeFairness ==
  /\ \A n \in Connections :
       /\ SF_exchangeVars(Handle(n))
       /\ WF_exchangeVars(ForwardGrant(n) \/ GrantCredits(n))
  /\ \A c \in Channels : WF_exchangeVars(Recv(c))

ExchangeSpec == ExchangeInit /\ [][ExchangeNext]_exchangeVars /\ ExchangeFairness

-----------------------------------------------------------------------------
Batch ==
  [channel : Channels, kind : {"data", "watermark", "barrier"}, elems : Seq(Nat)]

Handling == [at : {"first", "route", "send", "credit"}, batch : Batch]

CreditGrants == [channel : Channels, credits : Nat]

(* Type invariant: the bounded channels of the exchange keep their bounds  *)
(* (try_send, the subscriber's send and both sends of grants), and a       *)
(* handler holds a batch exactly while it handles one.                     *)
ExchangeTypeOK ==
  /\ collected \in [Channels -> Seq(Kinds)]
  /\ buffer \in [Channels -> Seq(Nat)]
  /\ credits \in [Channels -> Nat]
  /\ failed \in [Channels -> BOOLEAN]
  /\ outbound \in [Connections -> Seq(Batch)]
  /\ \A n \in Connections : Len(outbound[n]) <= OutBuffer
  /\ link \in [Connections -> {"new", "open", "broken"}]
  /\ handler \in [Connections -> {Idle} \cup Handling]
  /\ seen \in [Connections -> SUBSET Channels]
  /\ granting \in [Connections -> Seq(CreditGrants)]
  /\ grants \in [Connections -> Seq(CreditGrants)]
  /\ \A n \in Connections : Len(granting[n]) <= StreamRoom /\ Len(grants[n]) <= GrantRoom
  /\ lock \in Connections \cup {None}
  /\ subscribed \in SUBSET Channels
  /\ inbox \in [Channels -> Seq(Batch)]
  /\ \A c \in Channels : Len(inbox[c]) <= InCapacity
  /\ arrived \in [Channels -> Seq(Nat)]
  /\ dropped \in [Channels -> SUBSET Batch]

Elems(b) == ToSet(b.elems)

AllElems(S) == UNION {Elems(b) : b \in S}

Increasing(s) == \A k, m \in DOMAIN s : k < m => s[k] < s[m]

(* A channel's records and barriers arrive in the order they were          *)
(* collected, none twice, and what arrives has nothing missing before it   *)
(* but the batches dropped for want of a subscriber: a barrier's arrival   *)
(* means the receiver has every record collected before it.                *)
InOrderNoGaps ==
  \A c \in Channels :
    /\ Increasing(arrived[c])
    /\ arrived[c] # <<>> => \A e \in 1..Last(arrived[c]) :
         collected[c][e] # "watermark" => e \in ToSet(arrived[c]) \cup AllElems(dropped[c])

(* The batch of c that its connection's handler has not routed yet. *)
Handled(c) ==
  LET h == handler[ConnOf[c]] IN
  IF h.at \in {"first", "route", "send"} /\ h.batch.channel = c THEN {h.batch} ELSE {}

(* The batches of c the receiver has not routed yet. *)
InFlight(c) == Handled(c) \cup OfChannel(c, outbound[ConnOf[c]])

(* The batches of c that went out and did not get to the subscriber. *)
Unrouted(c) == InFlight(c) \cup dropped[c]

Spent(c) == {b \in Unrouted(c) : b.kind # "barrier"}

(* The credits on their way to c's collector. *)
CreditsOf(c, g) == [k \in DOMAIN g |-> IF g[k].channel = c THEN g[k].credits ELSE 0]

Carried(c, ways) == Total(CreditsOf(c, ways[ConnOf[c]]))

Granted(c) == Carried(c, granting) + Carried(c, grants)

(* The credits the handler of c's connection is about to grant c. *)
Owed(c) ==
  LET h == handler[ConnOf[c]] IN
  IF h.at = "first" /\ h.batch.channel = c THEN InitialCredits
  ELSE IF h.at = "credit" /\ h.batch.channel = c THEN 1
  ELSE 0

(* What the subscriber of c was sent: received, or waiting in its channel. *)
Routed(c) == ToSet(arrived[c]) \cup AllElems(ToSet(inbox[c]))

Barriers(c) == {e \in Routed(c) : collected[c][e] = "barrier"}

(* What c has been granted: the initial credits with its first batch, and  *)
(* one for each delivered barrier, which took none.                        *)
Entitled(c) ==
  (IF c \in seen[ConnOf[c]] THEN InitialCredits ELSE 0) + Cardinality(Barriers(c))

(* The credits with c's collector, on their way to it, owed to it, and     *)
(* taken by the batches that are under way or dropped.                     *)
Ledger(c) == credits[c] + (Granted(c) + Owed(c)) + Cardinality(Spent(c))

(* No credit is ever made: what a collector has, gets and spent on batches *)
(* under way or dropped is what it was granted initially and for barriers, *)
(* and a credit is lost only on a broken stream.  (A batch dropped for     *)
(* want of a subscriber keeps the credit it took; credits outgrow the      *)
(* initial ones by the barriers delivered.)                                *)
CreditConservation ==
  \A c \in Channels : ~failed[c] =>
    /\ Ledger(c) <= Entitled(c)
    /\ link[ConnOf[c]] # "broken" => Ledger(c) = Entitled(c)

(* While subscribers keep receiving and grants are taken, every batch a    *)
(* collector got into the stream leaves it: it is routed, or dropped, and  *)
(* no handler waits for ever for the lock, for a subscriber's room or for  *)
(* room for its grants.                                                    *)
Delivered == \A c \in Channels : []<>(InFlight(c) = {})

(* network_collector.rs: the collector "respects credit-based flow control *)
(* by waiting for credits before sending": only a broken stream fails it.  *)
WaitsForCredits ==
  \A c \in Channels : failed[c] => link[ConnOf[c]] = "broken"

-----------------------------------------------------------------------------
(* The inductive invariant of InOrderNoGaps and CreditConservation: at     *)
(* every place of the way, what a channel sent earlier is further along.   *)

Before(S, T) == \A x \in S, y \in T : x < y

(* A batch holds collected elements of its kind, in their order. *)
Fits(b, kinds) ==
  /\ b.elems # <<>>
  /\ Increasing(b.elems)
  /\ \A e \in Elems(b) :
       e \in DOMAIN kinds /\ kinds[e] = (IF b.kind = "data" THEN "record" ELSE b.kind)
  /\ b.kind # "data" => Len(b.elems) = 1

BatchInv ==
  /\ \A n \in Connections :
       /\ \A k \in DOMAIN outbound[n] :
            LET b == outbound[n][k] IN ConnOf[b.channel] = n /\ Fits(b, collected[b.channel])
       /\ handler[n] # Idle =>
            LET b == handler[n].batch IN ConnOf[b.channel] = n /\ Fits(b, collected[b.channel])
  /\ \A c \in Channels :
       /\ \A k \in DOMAIN inbox[c] : inbox[c][k].channel = c /\ Fits(inbox[c][k], collected[c])
       /\ \A b \in dropped[c] : b.channel = c /\ Fits(b, collected[c])

(* The collected elements still in the collector are records, in order. *)
BufferInv ==
  \A c \in Channels :
    /\ Increasing(buffer[c])
    /\ \A e \in ToSet(buffer[c]) : e \in DOMAIN collected[c] /\ collected[c][e] = "record"

(* The subscriber's channel goes on in order where recv stopped. *)
Inward(a, q) ==
  /\ Increasing(a)
  /\ \A k \in DOMAIN q : Before(ToSet(a), Elems(q[k]))
  /\ \A k, m \in DOMAIN q : k < m => Before(Elems(q[k]), Elems(q[m]))

ArrivalInv ==
  \A c \in Channels :
    /\ \A e \in ToSet(arrived[c]) : e \in DOMAIN collected[c]
    /\ Inward(arrived[c], inbox[c])

(* What left the connection of c, what its handler routes, its queue and   *)
(* the rest, which is not sent yet, follow one another.                    *)
Outward(c, past, handled, q, rest) ==
  /\ Before(past, handled)
  /\ Before(past \cup handled, rest)
  /\ \A k \in DOMAIN q : q[k].channel = c =>
       Before(past \cup handled, Elems(q[k])) /\ Before(Elems(q[k]), rest)
  /\ \A k, m \in DOMAIN q :
       k < m /\ q[k].channel = c /\ q[m].channel = c => Before(Elems(q[k]), Elems(q[m]))

Past(c) == Routed(c) \cup AllElems(dropped[c])

OrderInv ==
  \A c \in Channels :
    Outward(c, Past(c), AllElems(Handled(c)), outbound[ConnOf[c]], ToSet(buffer[c]))

(* The elements of c that are somewhere. *)
Known(c) == Routed(c) \cup AllElems(Unrouted(c)) \cup ToSet(buffer[c])

(* Only a collector that failed, or an arriving watermark, loses an        *)
(* element, and the collector's was its last.                              *)
GapInv ==
  \A c \in Channels : \A e \in DOMAIN collected[c] :
    \/ collected[c][e] = "watermark"
    \/ e \in Known(c)
    \/ failed[c] /\ Before(Known(c), {e})

(* A connection brings back the credits of its own channels. *)
Homeward(ways) ==
  \A n \in Connections : \A k \in DOMAIN ways[n] : ConnOf[ways[n][k].channel] = n

GrantInv == Homeward(granting) /\ Homeward(grants)

FiniteInv == \A c \in Channels : IsFiniteSet(Unrouted(c))

ExchangeInv ==
  /\ ExchangeTypeOK
  /\ BatchInv
  /\ BufferInv
  /\ ArrivalInv
  /\ OrderInv
  /\ GapInv
  /\ GrantInv
  /\ FiniteInv
  /\ CreditConservation
=============================================================================
