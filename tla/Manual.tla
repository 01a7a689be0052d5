------------------------------- MODULE Manual -------------------------------
(***************************************************************************)
(* Manual trades: routers/manual.py over manual/repository.py. A trade is  *)
(* recorded off a pair of the latest scan that passes the filter again on  *)
(* fresh closes; closing values it with manual/pnl.py.                     *)
(*                                                                         *)
(* Prices are left out but for the source that they came from. A request   *)
(* that is under way is a record; it is refused at any step that can       *)
(* refuse it. The limits of a request's filter are those of the scan.      *)
(***************************************************************************)
EXTENDS Scan

VARIABLES
    trades,   \* ManualTrade: the rows, in order of creation
    requests  \* the locals of record_manual_trade and close_manual_trade

manualVars == <<trades, requests>>
recorded == <<settingVars, scanVars, tables, faults>>

\* The pair is of the scan of `exchange'; the prices and statistics of the
\* entry are of `client'; `stamp' is the data_source of the row. `exit' is the
\* source of the reference price of each leg at the exit.
Unpriced == [leg \in 1 .. 2 |-> "none"]
Recorded(request, stamp) ==
    [status |-> "OPEN", pair |-> request.pair, exchange |-> request.exchange,
     client |-> request.client, stamp |-> stamp, exit |-> Unpriced]

(***************************************************************************)
(* Recording.                                                              *)
(***************************************************************************)

\* Without an exchange in the body it is the venue of the source in force.
RecordAsked ==
    /\ Call
    /\ \E exchange \in Exchanges, pair \in UNION {tables[e].pairs : e \in Exchanges} :
          requests' = requests \cup
              {[id |-> calls', kind |-> "record", pc |-> "asked", pair |-> pair,
                exchange |-> exchange, client |-> "none", trade |-> 0]}
    /\ UNCHANGED <<trades, recorded>>

\* The row of the exchange's scan, if there still is one, and a client of the
\* source of now, whatever the exchange.
RecordReads ==
    /\ \E q \in requests :
          /\ q.kind = "record" /\ q.pc = "asked"
          /\ requests' = (requests \ {q}) \cup
                (IF q.pair \in tables[q.exchange].pairs
                 THEN {[q EXCEPT !.pc = "checking", !.client = settings.source]} ELSE {})
    /\ UNCHANGED <<trades, recorded, calls>>

\* current_pair_analysis and current_pair_snapshot: what the names of both legs
\* stand for on this client.
Trusting(client, pair) ==  \* mutant: the values of the scan are trusted
    TRUE
Revalidated(client, pair) ==
    /\ {pair[1], pair[2]} \subseteq ToSet(Universe[client])
    /\ Cardinality(Bars[client][pair[1]] \cap Bars[client][pair[2]]) >= MinRows
    /\ pair \in Cointegrated(client)

\* A pair may have decayed since the scan. The stamp is the source of now.
RecordCreates ==
    /\ \E q \in requests :
          /\ q.kind = "record" /\ q.pc = "checking"
          /\ requests' = requests \ {q}
          /\ \/ UNCHANGED trades
             \/ /\ Revalidated(q.client, q.pair)
                /\ trades' = Append(trades, Recorded(q, settings.source))
    /\ UNCHANGED <<recorded, calls>>

(***************************************************************************)
(* Closing and deleting.                                                   *)
(***************************************************************************)
MayClose(t) == trades[t].status = "OPEN"

CloseReads ==
    /\ Call
    /\ \E t \in DOMAIN trades :
          IF MayClose(t)
          THEN requests' = requests \cup
                   {[id |-> calls', kind |-> "close", pc |-> "pricing",
                     pair |-> trades[t].pair, exchange |-> trades[t].exchange,
                     client |-> settings.source, trade |-> t]}
          ELSE UNCHANGED requests
    /\ UNCHANGED <<trades, recorded>>

\* current_prices: the legs that the client has a price of; each may fail.
AnyLeg(q) == 1 .. 2  \* mutant: a leg that the client does not list is priced
Priced(q) == {leg \in 1 .. 2 : q.pair[leg] \in ToSet(Universe[q.client])}

\* The write is by id, whatever the row has become; a reference that could
\* not be fetched is not written.
CloseWrites ==
    /\ \E q \in requests :
          /\ q.kind = "close"
          /\ requests' = requests \ {q}
          /\ IF trades[q.trade].status = "DELETED" THEN UNCHANGED trades
             ELSE \E priced \in SUBSET Priced(q) :
                     trades' = [trades EXCEPT
                         ![q.trade].status = "CLOSED",
                         ![q.trade].exit =
                             [leg \in 1 .. 2 |-> IF leg \in priced THEN q.client ELSE @[leg]]]
    /\ UNCHANGED <<recorded, calls>>

DeleteTrade ==
    /\ Call
    /\ \E t \in DOMAIN trades : trades' = [trades EXCEPT ![t].status = "DELETED"]
    /\ UNCHANGED <<requests, recorded>>

ManualTask == RecordReads \/ RecordCreates \/ CloseWrites
ManualStep == RecordAsked \/ CloseReads \/ DeleteTrade \/ ManualTask

ManualRestart == requests' = {} /\ UNCHANGED trades

ManualInit == trades = <<>> /\ requests = {}

=============================================================================
