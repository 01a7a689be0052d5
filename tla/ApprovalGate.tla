---------------------------- MODULE ApprovalGate ----------------------------
(***************************************************************************)
(* The Telegram approval gate: telegrambot/gate.py, the update handlers of *)
(* telegrambot/runtime.py and the `/cancel' of telegrambot/commands.py,    *)
(* around the engine lock of trading/engine.py.                            *)
(*                                                                         *)
(* A pass holds the engine lock while the operator makes up his mind. The  *)
(* bot handles updates one after the other, and a `/cancel' waits for that *)
(* same lock: the tap that would free it may be queued behind the command. *)
(***************************************************************************)
EXTENDS Integers, Sequences

CONSTANTS
    Passes,       \* HTTP handlers that run a pass of the engine
    Bot,          \* the Telegram update loop, another user of the lock
    MaxPrompts,   \* bound: approval requests
    MaxUpdates,   \* bound: taps and commands of the operator
    MaxRestarts   \* bound: restarts of the process

ASSUME BotAssumption == Bot \notin Passes
ASSUME GateBoundsAssumption ==
    /\ MaxPrompts \in Nat
    /\ MaxUpdates \in Nat
    /\ MaxRestarts \in Nat

VARIABLES
    lock,      \* asyncio.Lock: its holder, then its waiters in order
    pass,      \* where each pass is, and the prompt it waits on
    prompts,   \* every approval request so far, oldest first
    pending,   \* gate._pending: the prompts whose token is registered
    inbox,     \* updates Telegram holds for the bot, oldest first
    bot,       \* what the update loop is doing
    replies,   \* what the operator was told about each tap
    sent,      \* updates so far
    restarts   \* restarts so far

vars == <<lock, pass, prompts, pending, inbox, bot, replies, sent, restarts>>

Choices == {"approve", "reject"}

(***************************************************************************)
(* A prompt: its token, the state of its future, whether Telegram shows it *)
(* with buttons, and what request() answered. `first' is the first tap on  *)
(* it that the bot handled.                                                *)
(***************************************************************************)
Prompts == [token: Nat, future: Choices \cup {"open", "cancelled"},
            text: {"unsent", "asking", "edited"},
            verdict: {"open", "executed", "skipped"},
            first: Choices \cup {"none"}]

\* A button carries the token; `prompt' is the message it belongs to.
Updates == [kind: {"tap"}, prompt: Nat, token: Nat, choice: Choices]
             \cup [kind: {"cancel"}]

Pcs == {"idle", "queued", "sending", "waiting", "expiring", "deciding"}

Idle == [pc |-> "idle", prompt |-> 0]

Holds(who) == lock # <<>> /\ Head(lock) = who
At(p, pc) == Holds(p) /\ pass[p].pc = pc

\* The prompt pass p is waiting on.
Mine(p) == pass[p].prompt

Goto(p, pc) == pass' = [pass EXCEPT ![p].pc = pc]

NoUpdate == UNCHANGED <<inbox, bot, replies, sent, restarts>>

(***************************************************************************)
(* Passes of the engine.                                                   *)
(***************************************************************************)
Arrive(p) ==
    /\ pass[p] = Idle
    /\ lock' = Append(lock, p)
    /\ pass' = [pass EXCEPT ![p] = [pc |-> "queued", prompt |-> 0]]
    /\ UNCHANGED <<prompts, pending>>
    /\ NoUpdate

\* The pass has no more signals, or asks for no approval (an abort).
Leave(p) ==
    /\ At(p, "queued")
    /\ lock' = Tail(lock)
    /\ pass' = [pass EXCEPT ![p] = Idle]
    /\ UNCHANGED <<prompts, pending>>
    /\ NoUpdate

TokenReused == 1  \* mutant: one token for the one outstanding request
NewToken == Len(prompts) + 1

\* request: a future under a fresh token, then the message is sent.
Ask(p) ==
    /\ At(p, "queued")
    /\ Len(prompts) < MaxPrompts
    /\ prompts' = Append(prompts, [token |-> NewToken, future |-> "open",
                                   text |-> "unsent", verdict |-> "open",
                                   first |-> "none"])
    /\ pending' = pending \cup {Len(prompts) + 1}
    /\ pass' = [pass EXCEPT ![p].pc = "sending", ![p].prompt = Len(prompts) + 1]
    /\ UNCHANGED lock
    /\ NoUpdate

\* Telegram posts the message, maybe after its sender has given up on it.
Deliver(i) ==
    /\ prompts[i].text = "unsent"
    /\ prompts' = [prompts EXCEPT ![i].text = "asking"]
    /\ UNCHANGED <<lock, pass, pending>>
    /\ NoUpdate

SendReturns(p) ==
    /\ At(p, "sending")
    /\ prompts[Mine(p)].text = "asking"
    /\ Goto(p, "waiting")
    /\ UNCHANGED <<lock, prompts, pending>>
    /\ NoUpdate

Kept(i) == pending  \* mutant: a decided token stays registered
Popped(i) == pending \ {i}

\* The request answers, and the pass goes on.
Answer(p, verdict, text) ==
    /\ prompts' = [prompts EXCEPT ![Mine(p)].verdict = verdict,
                                  ![Mine(p)].text = text]
    /\ pass' = [pass EXCEPT ![p].pc = "queued", ![p].prompt = 0]
    /\ UNCHANGED lock
    /\ NoUpdate

SendFails(p) ==
    /\ At(p, "sending")
    /\ pending' = Popped(Mine(p))
    /\ Answer(p, "skipped", prompts[Mine(p)].text)

\* edit_message drops the keyboard, or fails and leaves it.
Edits == {"edited", "asking"}

NeverFires(p) == FALSE  \* mutant: a wait without its timeout
\* asyncio.wait_for: the timer may win against a result that is set but not
\* yet seen.
Fires(p) == At(p, "waiting")

\* The future is cancelled; its token is registered until the edit is done.
Timeout(p) ==
    /\ Fires(p)
    /\ prompts' = [prompts EXCEPT ![Mine(p)].future =
                      IF @ = "open" THEN "cancelled" ELSE @]
    /\ Goto(p, "expiring")
    /\ UNCHANGED <<lock, pending>>
    /\ NoUpdate

Expire(p) ==
    /\ At(p, "expiring")
    /\ pending' = Popped(Mine(p))
    /\ \E text \in Edits : Answer(p, "skipped", text)

Decide(p) ==
    /\ At(p, "waiting")
    /\ prompts[Mine(p)].future \in Choices
    /\ pending' = Popped(Mine(p))
    /\ Goto(p, "deciding")
    /\ UNCHANGED <<lock, prompts>>
    /\ NoUpdate

RawVerdict(prompt) == prompt.future  \* mutant: the choice itself is returned
Verdict(prompt) == IF prompt.future = "approve" THEN "executed" ELSE "skipped"

Return(p) ==
    /\ At(p, "deciding")
    /\ \E text \in Edits : Answer(p, Verdict(prompts[Mine(p)]), text)
    /\ UNCHANGED pending

(***************************************************************************)
(* The operator and the update loop.                                       *)
(***************************************************************************)
Receive(update) ==
    /\ sent < MaxUpdates
    /\ sent' = sent + 1
    /\ inbox' = Append(inbox, update)
    /\ UNCHANGED <<lock, pass, prompts, pending, bot, replies, restarts>>

Tap(i, choice) ==
    /\ prompts[i].text = "asking"
    /\ Receive([kind |-> "tap", prompt |-> i, token |-> prompts[i].token,
                choice |-> choice])

Command == Receive([kind |-> "cancel"])

\* resolve: an unknown token is ignored, a done future keeps its result.
Resolved(prompt, choice) ==
    IF prompt.future = "open" THEN [prompt EXCEPT !.future = choice] ELSE prompt

Marked(prompt, choice) ==
    IF prompt.first = "none" THEN [prompt EXCEPT !.first = choice] ELSE prompt

Matches(token) == {i \in pending : prompts[i].token = token}

\* _on_callback: resolve the token, then tell the operator.
HandleTap ==
    /\ bot = "idle"
    /\ inbox # <<>>
    /\ LET update == Head(inbox)
       IN /\ update.kind = "tap"
          /\ prompts' = [i \in DOMAIN prompts |->
                LET seen == IF i = update.prompt THEN Marked(prompts[i], update.choice)
                            ELSE prompts[i]
                IN IF i \in Matches(update.token) THEN Resolved(seen, update.choice)
                   ELSE seen]
          /\ replies' = replies \cup
                {[prompt |-> update.prompt, choice |-> update.choice,
                  recorded |-> Matches(update.token) # {}]}
    /\ inbox' = Tail(inbox)
    /\ UNCHANGED <<lock, pass, pending, bot, sent, restarts>>

\* The command handler waits for the engine lock in close_pair, and the next
\* update waits for the handler.
HandleCancel ==
    /\ bot = "idle"
    /\ inbox # <<>>
    /\ Head(inbox).kind = "cancel"
    /\ inbox' = Tail(inbox)
    /\ bot' = "cancelling"
    /\ lock' = Append(lock, Bot)
    /\ UNCHANGED <<pass, prompts, pending, replies, sent, restarts>>

FinishCancel ==
    /\ bot = "cancelling"
    /\ Holds(Bot)
    /\ bot' = "idle"
    /\ lock' = Tail(lock)
    /\ UNCHANGED <<pass, prompts, pending, inbox, replies, sent, restarts>>

\* The registry and the passes are lost. Telegram keeps its messages, and the
\* updates the bot has not yet confirmed.
Restart ==
    /\ restarts < MaxRestarts
    /\ restarts' = restarts + 1
    /\ lock' = <<>>
    /\ pass' = [p \in Passes |-> Idle]
    /\ pending' = {}
    /\ bot' = "idle"
    /\ inbox' \in {inbox, <<>>}
    /\ UNCHANGED <<prompts, replies, sent>>

-----------------------------------------------------------------------------
PassStep(p) ==
    \/ Ask(p) \/ SendReturns(p) \/ SendFails(p) \/ Timeout(p) \/ Expire(p)
    \/ Decide(p) \/ Return(p) \/ Leave(p)

BotStep == HandleTap \/ HandleCancel \/ FinishCancel

OperatorStep ==
    \/ \E i \in DOMAIN prompts, choice \in Choices : Tap(i, choice)
    \/ Command

Init ==
    /\ lock = <<>>
    /\ pass = [p \in Passes |-> Idle]
    /\ prompts = <<>>
    /\ pending = {}
    /\ inbox = <<>>
    /\ bot = "idle"
    /\ replies = {}
    /\ sent = 0
    /\ restarts = 0

Next ==
    \/ \E p \in Passes : Arrive(p) \/ PassStep(p)
    \/ \E i \in DOMAIN prompts : Deliver(i)
    \/ OperatorStep
    \/ BotStep
    \/ Restart

Spec == Init /\ [][Next]_vars

\* Timers fire, HTTP calls of the client end one way or the other, and the
\* loop takes up the next update. The operator owes nobody an answer.
Fairness == (\A p \in Passes : WF_vars(PassStep(p))) /\ WF_vars(BotStep)

FairSpec == Spec /\ Fairness

-----------------------------------------------------------------------------
\* Type invariant: a pass in a request holds a prompt that exists, and only
\* prompts that exist are registered, tapped or spoken of.
TypeOK ==
    /\ lock \in Seq(Passes \cup {Bot})
    /\ pass \in [Passes -> [pc: Pcs, prompt: Nat]]
    /\ \A p \in Passes :
          pass[p].pc \notin {"idle", "queued"} => Mine(p) \in DOMAIN prompts
    /\ prompts \in Seq(Prompts)
    /\ pending \subseteq DOMAIN prompts
    /\ inbox \in Seq(Updates)
    /\ bot \in {"idle", "cancelling"}
    /\ replies \subseteq [prompt: Nat, choice: Choices, recorded: BOOLEAN]
    /\ sent \in Nat
    /\ restarts \in Nat

\* A signal executes only if the first tap on its own message that the bot
\* handled was an approval: never by a timeout, a stale message, a tap on
\* another prompt or a restart (gate.py's "approve, reject, timeout").
ExecutedWasApproved ==
    \A i \in DOMAIN prompts :
        prompts[i].verdict = "executed" => prompts[i].first = "approve"

\* Only one approval is ever outstanding (gate.py's words), and it is that of
\* the pass which holds the engine lock: no token outlives its request.
OneOutstanding ==
    \A i \in pending : \E p \in Passes : Holds(p) /\ Mine(p) = i

\* Every pass and every update is served in the end, whatever the operator
\* does: the wait of a prompt for a tap that is queued behind a `/cancel'
\* which waits for the prompt's own lock is ended by the timeout.
AllServed ==
    /\ \A p \in Passes : pass[p].pc # "idle" ~> pass[p].pc = "idle"
    /\ (bot # "idle" \/ inbox # <<>>) ~> (bot = "idle" /\ inbox = <<>>)

\* A tap the operator was told is "Recorded." decides the request: it is
\* "Already decided / expired." otherwise (runtime.py's two replies).
RecordedDecides ==
    \A r \in replies :
        r.recorded /\ prompts[r.prompt].verdict # "open"
            => (prompts[r.prompt].verdict = "executed") = (r.choice = "approve")

=============================================================================
