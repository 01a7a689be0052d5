------------------------------ MODULE Campaign ------------------------------
(***************************************************************************)
(* Campaigns: backtest/campaign_runner.py over the rows of                 *)
(* db/campaign_repository.py, composed with the engine that sweeps the     *)
(* member strategies. A campaign has one driver task at most, and serves   *)
(* one pause or stop request at a time here.                               *)
(***************************************************************************)
EXTENDS Backtest

CONSTANTS
    Campaigns,
    CampaignOf, \* strategy.campaign_id
    Concurrency \* campaign.concurrency

ASSUME MembersAssumption == CampaignOf \in [Strategies -> Campaigns]
ASSUME OwnersAssumption ==
    /\ Launchers = Campaigns \cup {Nobody}
    /\ Nobody \notin Campaigns
ASSUME ConcurrencyAssumption == Concurrency \in Nat \ {0}

VARIABLES
    campaign, \* campaign.status
    order,    \* _control: pause or stop, by campaign
    driver,   \* the local state of the driver task of each campaign
    signal    \* the local state of the pause or stop request of each campaign

campaignVars == <<campaign, order, driver, signal>>
vars == <<engineVars, campaignVars>>

CampaignStatuses == {"PENDING", "RUNNING", "PAUSED", "DONE", "STOPPED"}
Terminal == {"COMPLETED", "FAILED", "STOPPED"}

\* list_by_campaign. The strategies of a deleted campaign are detached.
Members(c) ==
    {s \in Strategies : CampaignOf[s] = c /\ Exists(s) /\ campaign[c] # "DELETED"}

\* An update of a campaign that is gone has no effect.
Written(c, new) ==
    [campaign EXCEPT ![c] = IF campaign[c] = "DELETED" THEN @ ELSE new]

NoDriver == [pc |-> "idle", saved |-> Nobody, stale |-> {}, queue |-> {},
             verdict |-> "DONE"]
NoSignal == [pc |-> "idle", flag |-> "pause", todo |-> {}]

Drivers == [pc: {"idle", "begin", "mark", "list", "normalise", "queue",
                 "finalise", "excepted", "end"},
            saved: Launchers, stale: SUBSET (Strategies \X {"PAUSED", "PENDING"}),
            queue: SUBSET Strategies, verdict: {"DONE", "PAUSED", "STOPPED"}]
Signals == [pc: {"idle", "list", "members"}, flag: ControlFlags,
            todo: SUBSET Strategies]

DriverAt(c, pc) == driver[c].pc = pc
Drive(c, locals) == driver' = [driver EXCEPT ![c] = locals]

(***************************************************************************)
(* The driver.                                                             *)
(***************************************************************************)

\* Created, or resumed: without effect while the driver is alive.
Start(c) ==
    /\ Call
    /\ campaign[c] # "DELETED"
    /\ DriverAt(c, "idle")
    /\ order' = [order EXCEPT ![c] = "none"]
    /\ Drive(c, [NoDriver EXCEPT !.pc = "begin"])
    /\ UNCHANGED <<rowVars, control, running, asked, sweep, flags, downs, campaign, signal>>

\* The cost flags of the process become those of the campaign ...
Begin(c) ==
    /\ DriverAt(c, "begin")
    /\ campaign[c] # "DELETED"
    /\ flags' = c
    /\ Drive(c, [driver[c] EXCEPT !.pc = "mark", !.saved = flags])
    /\ UNCHANGED <<rowVars, control, running, asked, sweep, calls, downs, campaign,
                   order, signal>>

\* The campaign was deleted before its driver read it.
BeginNothing(c) ==
    /\ DriverAt(c, "begin")
    /\ campaign[c] = "DELETED"
    /\ Drive(c, NoDriver)
    /\ UNCHANGED <<engineVars, campaign, order, signal>>

\* ... before the row says RUNNING.
Mark(c) ==
    /\ DriverAt(c, "mark")
    /\ campaign' = Written(c, "RUNNING")
    /\ Drive(c, [driver[c] EXCEPT !.pc = "list"])
    /\ UNCHANGED <<engineVars, order, signal>>

\* Members that a crash left RUNNING: to be resumed, or started afresh.
ListRunning(c) ==
    /\ DriverAt(c, "list")
    /\ Drive(c, [driver[c] EXCEPT !.pc = "normalise",
          !.stale = {<<s, IF processed[s] > 0 THEN "PAUSED" ELSE "PENDING">> :
                        s \in {m \in Members(c) : status[m] = "RUNNING"}}])
    /\ UNCHANGED <<engineVars, campaign, order, signal>>

Normalise(c) ==
    /\ DriverAt(c, "normalise")
    /\ \E stale \in driver[c].stale :
          /\ status' = Updated(stale[1], stale[2])
          /\ Drive(c, [driver[c] EXCEPT !.stale = @ \ {stale}])
    /\ UNCHANGED <<processed, recorded, blotter, control, running, asked, sweep, flags,
                   calls, downs, campaign, order, signal>>

Unfinished(c) == {s \in Members(c) : status[s] \notin Terminal}

ListQueue(c) ==
    /\ DriverAt(c, "normalise")
    /\ driver[c].stale = {}
    /\ Drive(c, [driver[c] EXCEPT !.pc = "queue", !.queue = Unfinished(c)])
    /\ UNCHANGED <<engineVars, campaign, order, signal>>

NotAwaited(c) == {}  \* mutant: gather is not awaited
UntilTerminal(c) ==  \* mutant: a paused member keeps its slot
    {s \in Members(c) \ driver[c].queue : status[s] \notin Terminal}
Launched(c) == {s \in Strategies : sweep[s].by = c}

\* The semaphore: a member waits for its turn and only then looks at the order.
Turn(c, s) ==
    /\ DriverAt(c, "queue")
    /\ s \in driver[c].queue
    /\ Cardinality(Launched(c)) < Concurrency
    /\ Drive(c, [driver[c] EXCEPT !.queue = @ \ {s}])

Launch(c, s) ==
    /\ Turn(c, s)
    /\ order[c] = "none"
    /\ Claim(s, c)
    /\ UNCHANGED <<rowVars, control, asked, flags, calls, downs, campaign, order, signal>>

\* Not launched after a pause or a stop; without effect if it runs already.
PassOver(c, s) ==
    /\ Turn(c, s)
    /\ order[c] # "none" \/ ~ Unclaimed(s)
    /\ UNCHANGED <<engineVars, campaign, order, signal>>

AllFinished(c) == \A s \in Members(c) : status[s] \in Terminal

NeverPaused(c) == IF order[c] = "stop" THEN "STOPPED" ELSE "DONE"  \* mutant
Verdict(c) ==
    IF order[c] = "stop" THEN "STOPPED"
    ELSE IF order[c] = "pause" \/ ~ AllFinished(c) THEN "PAUSED"
    ELSE "DONE"

\* gather is over: _finalise reads the members and decides ...
Decide(c) ==
    /\ DriverAt(c, "queue")
    /\ driver[c].queue = {}
    /\ Launched(c) = {}
    /\ Drive(c, [driver[c] EXCEPT !.pc = "finalise", !.verdict = Verdict(c)])
    /\ UNCHANGED <<engineVars, campaign, order, signal>>

\* ... and writes.
WriteVerdict(c) ==
    /\ DriverAt(c, "finalise")
    /\ campaign' = Written(c, driver[c].verdict)
    /\ Drive(c, [driver[c] EXCEPT !.pc = "end"])
    /\ UNCHANGED <<engineVars, order, signal>>

\* The driver's except clause.
Excepted(c) ==
    /\ DriverAt(c, "excepted")
    /\ campaign' = Written(c, "PAUSED")
    /\ Drive(c, [driver[c] EXCEPT !.pc = "end"])
    /\ UNCHANGED <<engineVars, order, signal>>

Unrestored(c) == flags  \* mutant: the campaign's flags stay
Restored(c) == driver[c].saved

\* The driver's finally clause.
DriverEnd(c) ==
    /\ DriverAt(c, "end")
    /\ flags' = Restored(c)
    /\ order' = [order EXCEPT ![c] = "none"]
    /\ Drive(c, NoDriver)
    /\ UNCHANGED <<rowVars, control, running, asked, sweep, calls, downs, campaign, signal>>

DriverStep(c) ==
    \/ Begin(c) \/ BeginNothing(c) \/ Mark(c) \/ ListRunning(c) \/ Normalise(c) \/ ListQueue(c)
    \/ \E s \in Strategies : Launch(c, s) \/ PassOver(c, s)
    \/ Decide(c) \/ WriteVerdict(c) \/ Excepted(c) \/ DriverEnd(c)

(***************************************************************************)
(* Pause and stop: the order, the members, and last the row.               *)
(***************************************************************************)
Order(c) ==
    /\ Call
    /\ campaign[c] # "DELETED"
    /\ signal[c] = NoSignal
    /\ \E flag \in ControlFlags :
          /\ order' = [order EXCEPT ![c] = flag]
          /\ signal' = [signal EXCEPT ![c] = [@ EXCEPT !.pc = "list", !.flag = flag]]
    /\ UNCHANGED <<rowVars, control, running, asked, sweep, flags, downs, campaign, driver>>

SignalList(c) ==
    /\ signal[c].pc = "list"
    /\ signal' = [signal EXCEPT ![c] =
          [@ EXCEPT !.pc = "members",
                    !.todo = {s \in Members(c) : status[s] = "RUNNING"}]]
    /\ UNCHANGED <<engineVars, campaign, order, driver>>

\* No request to a member is under way.
Answered(c) == asked \cap (Members(c) \X {signal[c].flag}) = {}

SignalMember(c) ==
    /\ signal[c].pc = "members"
    /\ Answered(c)
    /\ \E s \in signal[c].todo :
          /\ \/ ReadForRequest(s, signal[c].flag)
             \/ status[s] \notin {"RUNNING", "DELETED"} /\ UNCHANGED asked
          /\ signal' = [signal EXCEPT ![c].todo = @ \ {s}]
    /\ UNCHANGED <<rowVars, control, running, sweep, flags, calls, downs, campaign,
                   order, driver>>

\* A member that was deleted since the list ends the request with an error:
\* the others are not asked, and the row is not written.
SignalFails(c) ==
    /\ signal[c].pc = "members"
    /\ Answered(c)
    /\ \E s \in signal[c].todo : ~ Exists(s)
    /\ signal' = [signal EXCEPT ![c] = NoSignal]
    /\ UNCHANGED <<engineVars, campaign, order, driver>>

SignalDone(c) ==
    /\ signal[c].pc = "members"
    /\ Answered(c)
    /\ signal[c].todo = {}
    /\ campaign' = Written(c, Ended(signal[c].flag))
    /\ signal' = [signal EXCEPT ![c] = NoSignal]
    /\ UNCHANGED <<engineVars, order, driver>>

SignalStep(c) == SignalList(c) \/ SignalMember(c) \/ SignalFails(c) \/ SignalDone(c)

\* DELETE /campaigns/{id}: its driver, if it has one, goes on.
DeleteCampaign(c) ==
    /\ Call
    /\ campaign[c] # "DELETED"
    /\ campaign' = [campaign EXCEPT ![c] = "DELETED"]
    /\ UNCHANGED <<rowVars, control, running, asked, sweep, flags, downs, order,
                   driver, signal>>

(***************************************************************************)
(* Failures.                                                               *)
(***************************************************************************)

\* A database call of the driver raises; up to Mark it is outside the try.
DriverError(c) ==
    /\ "error" \in Faults
    /\ downs < MaxDowns
    /\ \/ /\ driver[c].pc \in {"begin", "mark"}
          /\ Drive(c, NoDriver)
       \/ /\ driver[c].pc \in {"list", "normalise", "finalise"}
          /\ Drive(c, [driver[c] EXCEPT !.pc = "excepted"])
       \/ /\ DriverAt(c, "excepted")
          /\ Drive(c, [driver[c] EXCEPT !.pc = "end"])
    /\ downs' = downs + 1
    /\ UNCHANGED <<rowVars, control, running, asked, sweep, flags, calls, campaign,
                   order, signal>>

\* A restart. Campaigns left RUNNING are started again, best effort.
Crash ==
    /\ EngineLost
    /\ order' = [c \in Campaigns |-> "none"]
    /\ signal' = [c \in Campaigns |-> NoSignal]
    /\ \E resumed \in {{}, {c \in Campaigns : campaign[c] = "RUNNING"}} :
          driver' = [c \in Campaigns |->
                        IF c \in resumed THEN [NoDriver EXCEPT !.pc = "begin"] ELSE NoDriver]
    /\ UNCHANGED campaign

-----------------------------------------------------------------------------
\* POST /campaigns has created the rows, all PENDING.
Init ==
    /\ EngineInit
    /\ campaign = [c \in Campaigns |-> "PENDING"]
    /\ order = [c \in Campaigns |-> "none"]
    /\ driver = [c \in Campaigns |-> NoDriver]
    /\ signal = [c \in Campaigns |-> NoSignal]

\* What the event loop does by itself, whatever is asked and whatever fails.
LoopStep ==
    \/ \E s \in Strategies : (SetFlag(s) \/ DeleteRow(s) \/ SweepStep(s)) /\ UNCHANGED campaignVars
    \/ \E c \in Campaigns : DriverStep(c) \/ SignalStep(c)

Next ==
    \/ LoopStep
    \/ \E s \in Strategies :
          (Run(s) \/ Request(s) \/ Delete(s) \/ SweepError(s)) /\ UNCHANGED campaignVars
    \/ \E c \in Campaigns : Start(c) \/ Order(c) \/ DeleteCampaign(c) \/ DriverError(c)
    \/ Crash

Spec == Init /\ [][Next]_vars

-----------------------------------------------------------------------------
\* Type invariant: the rows of both kinds and the locals of every task.
TypeOK ==
    /\ EngineTypeOK
    /\ campaign \in [Campaigns -> CampaignStatuses \cup {"DELETED"}]
    /\ order \in [Campaigns -> ControlFlags \cup {"none"}]
    /\ driver \in [Campaigns -> Drivers]
    /\ signal \in [Campaigns -> Signals]

\* Nothing is RUNNING without a task that will end it: neither a strategy nor
\* a campaign, whatever the driver, the router and the requests do at once.
RunningIsDriven ==
    downs = 0 =>
        /\ \A s \in Strategies : status[s] = "RUNNING" => s \in running
        /\ \A c \in Campaigns : campaign[c] = "RUNNING" => ~ DriverAt(c, "idle")

\* A sweep that a campaign launched is charged the campaign's cost flags.
HonestCosts ==
    \A s \in Strategies :
        sweep[s].by # Nobody /\ sweep[s].pc \in {"boundary", "scan", "checkpoint"} =>
            sweep[s].costs = sweep[s].by

\* The cost flags of the process are restored when no campaign is driven.
FlagsRestored ==
    downs = 0 =>
        ((\A c \in Campaigns : driver[c].pc \in {"idle", "begin"}) => flags = Nobody)

\* A campaign is DONE only when each of its members has been run.
NothingSkipped ==
    \A c \in Campaigns : campaign[c] = "DONE" => \A s \in Members(c) : status[s] # "PENDING"

\* When the event loop has nothing left to do, every task is over: no driver
\* waits for a slot or a member for ever, and no claim outlives its sweep.
NobodyWaits ==
    ~ ENABLED LoopStep =>
        /\ running = {} /\ asked = {}
        /\ \A c \in Campaigns : DriverAt(c, "idle") /\ signal[c] = NoSignal

=============================================================================
