---------------------------- MODULE TradeAccount ----------------------------
(***************************************************************************)
(* The exchange account behind trading/broker.py's TradeClient, as the     *)
(* two real clients present it to the engine.                              *)
(*                                                                         *)
(*  - exchanges/dydx/trade_client.py answers a placement as soon as the    *)
(*    node took the order; the order fills, or expires ORDER_EXPIRY_BLOCKS *)
(*    later (Deferred = TRUE).                                             *)
(*  - exchanges/hyperliquid/trade_client.py answers with the fill itself   *)
(*    (Deferred = FALSE). What an immediate-or-cancel order does not fill  *)
(*    at once is dropped; the answer carries the size that was filled, and *)
(*    no caller reads it.                                                  *)
(*                                                                         *)
(* Every leg has the same notional, LegLots lots.                          *)
(***************************************************************************)
EXTENDS Integers, FiniteSets

CONSTANTS
    Markets,    \* the perpetual markets of the account
    ClientIds,  \* identifiers of orders in flight; bounds how many there are
    Deferred,   \* TRUE: an accepted order fills later (dYdX)
    LegLots,    \* lots of one leg of a pair
    Faults      \* which of FaultKinds the environment exhibits

(***************************************************************************)
(* "query":  a read of the positions fails, and the client answers {}.     *)
(* "partial": an order fills in part, and what is left of it is dropped.   *)
(* "lost":   an order takes effect but its reply is lost, so the client    *)
(*           answers None.                                                 *)
(* "late":   an order outlives MAX_ORDER_WAIT_SECS.                        *)
(* "outside": a position is closed by someone else: the operator on the    *)
(*           exchange's own page, a liquidation.                           *)
(* "crash":  the process restarts.                                         *)
(* "db":     a write to the database raises.                               *)
(***************************************************************************)
FaultKinds == {"query", "partial", "lost", "late", "outside", "crash", "db"}

ASSUME DeferredAssumption == Deferred \in BOOLEAN
ASSUME LotsAssumption == LegLots \in Nat \ {0}
ASSUME FaultsAssumption == Faults \subseteq FaultKinds

VARIABLES
    net,        \* signed position of each market, in lots
    inflight,   \* accepted orders that have neither filled nor expired
    alarmed,    \* exposed markets a CODE RED has named
    \* Auxiliary, for the properties only:
    shortfall   \* lots still held that closes taken for done did not close

accountVars == <<net, inflight, alarmed, shortfall>>

Sides == {"BUY", "SELL"}

Opposite(side) == IF side = "BUY" THEN "SELL" ELSE "BUY"

Orders == [client: ClientIds, market: Markets, side: Sides,
           size: Nat, reduceOnly: BOOLEAN]

Flat == [m \in Markets |-> 0]

\* The markets that appear in a positions dictionary.
Live(positions) == {m \in Markets : positions[m] # 0}

Size(n) == IF n < 0 THEN -n ELSE n

\* n moved towards zero by at most `size' lots.
Reduced(n, size) ==
    IF Size(n) <= size THEN 0 ELSE IF n < 0 THEN n + size ELSE n - size

\* A reduce-only order meets a position it can reduce. Hyperliquid's
\* market_close takes no side: it closes whatever is there.
Reduces(n, side) ==
    IF ~Deferred THEN n # 0
    ELSE IF side = "BUY" THEN n < 0 ELSE n > 0

\* The position after an order executes against n.
Executed(n, side, size, reduceOnly) ==
    IF ~reduceOnly THEN (IF side = "BUY" THEN n + size ELSE n - size)
    ELSE IF Reduces(n, side) THEN Reduced(n, size)
    ELSE n

\* How much of an order is filled, if any of it is.
FilledLots(size) == IF "partial" \in Faults THEN 1..size ELSE {size}

\* The account becomes `positions' with `orders' in flight while a CODE RED
\* names the markets `named' and closes fell `short' by so many lots. An alarm
\* stands while its market is exposed.
Settle(positions, orders, named, short) ==
    /\ net' = positions
    /\ inflight' = orders
    /\ alarmed' = {m \in alarmed \cup named : positions[m] # 0}
    /\ shortfall' = [m \in Markets |->
          IF short[m] <= Size(positions[m]) THEN short[m] ELSE Size(positions[m])]

\* `lots' of an order for `size' lots are filled, the rest of it is dropped.
Fills(m, side, size, reduceOnly, lots, orders, named) ==
    Settle([net EXCEPT ![m] = Executed(@, side, lots, reduceOnly)], orders, named,
           [shortfall EXCEPT ![m] = IF reduceOnly THEN @ + size - lots ELSE @])

\* The order reaches the book. A reduce-only order on a flat market is not
\* filled, and the client that reports fills answers None for it.
Taken(m, side, size, reduceOnly, named) ==
    IF Deferred
    THEN \E c \in ClientIds \ {o.client : o \in inflight} :
            Settle(net,
                   inflight \cup {[client |-> c, market |-> m, side |-> side,
                                   size |-> size, reduceOnly |-> reduceOnly]},
                   named, shortfall)
    ELSE /\ reduceOnly => Reduces(net[m], side)
         /\ \E lots \in FilledLots(size) :
               Fills(m, side, size, reduceOnly, lots, inflight, named)

\* place_market_order returns an OrderResult, also for a part of the order.
Accepted(m, side, size, reduceOnly) == Taken(m, side, size, reduceOnly, {})

\* place_market_order returns None; `named' is what the caller then alarms.
Refused(m, side, size, reduceOnly, named) ==
    \/ Settle(net, inflight, named, shortfall)
    \/ /\ "lost" \in Faults
       /\ Taken(m, side, size, reduceOnly, named)

\* The answers get_open_positions may give.
PositionReports == {net} \cup (IF "query" \in Faults THEN {Flat} ELSE {})

\* cancel_all_orders: each listed order may or may not still be cancellable.
OrdersCancelled(left) ==
    /\ left \subseteq inflight
    /\ Settle(net, left, {}, shortfall)

(***************************************************************************)
(* What the exchange does by itself.                                       *)
(***************************************************************************)
Fill(o) ==
    /\ o \in inflight
    /\ \E lots \in FilledLots(o.size) :
          Fills(o.market, o.side, o.size, o.reduceOnly, lots, inflight \ {o}, {})

Expire(o) ==
    /\ o \in inflight
    /\ Settle(net, inflight \ {o}, {}, shortfall)

ClosedOutside(m) ==
    /\ "outside" \in Faults
    /\ net[m] # 0
    /\ Settle([net EXCEPT ![m] = 0], inflight, {}, shortfall)

AccountInit ==
    /\ net = Flat
    /\ inflight = {}
    /\ alarmed = {}
    /\ shortfall = Flat

AccountType ==
    /\ net \in [Markets -> Int]
    /\ inflight \subseteq Orders
    /\ alarmed \subseteq Markets
    /\ shortfall \in [Markets -> Nat]

=============================================================================
