------------------------- MODULE ApprovalGateProofs -------------------------
(***************************************************************************)
(* Proofs about ApprovalGate, for any number of passes, prompts, updates   *)
(* and restarts.                                                           *)
(***************************************************************************)
EXTENDS ApprovalGate, TLAPS, SequenceTheorems

Requesting == {"sending", "waiting", "expiring", "deciding"}

(***************************************************************************)
(* The inductive invariant. The lock's part: a pass is inside a request    *)
(* only as the lock's holder, and whatever is registered is its prompt.    *)
(***************************************************************************)
HolderOK ==
    /\ \A p \in Passes :
          /\ pass[p].pc \in Requesting => Holds(p)
          /\ pass[p].pc \notin Requesting => Mine(p) = 0
          /\ pass[p].pc = "deciding" => Mine(p) \notin pending
    /\ OneOutstanding

\* A token names its prompt and nothing else, on the button as in a tap: this
\* is what keeps a tap on a stale message from deciding another request.
TokensOK ==
    /\ \A i \in DOMAIN prompts : prompts[i].token = i
    /\ \A n \in DOMAIN inbox :
          inbox[n].kind = "tap" => inbox[n].token = inbox[n].prompt

\* A result agrees with the first tap; a request that can still be decided
\* has seen no tap at all.
ResultsOK ==
    /\ \A i \in DOMAIN prompts :
          /\ prompts[i].future = "approve" => prompts[i].first = "approve"
          /\ i \in pending /\ prompts[i].future = "open" => prompts[i].first = "none"
    /\ ExecutedWasApproved

IInv == TypeOK /\ HolderOK /\ TokensOK /\ ResultsOK


-----------------------------------------------------------------------------
(***************************************************************************)
(* Queues.                                                                 *)
(***************************************************************************)

\* A queue that somebody joins keeps its head.
LEMMA Joined ==
    ASSUME NEW S, NEW q \in Seq(S), NEW x \in S
    PROVE  /\ Append(q, x) \in Seq(S)
           /\ q # <<>> => Head(Append(q, x)) = Head(q)
           /\ Append(q, x) # <<>>
<1>1. Append(q, x) \in Seq(S) /\ Append(q, x) # <<>>
  BY AppendProperties
<1>2. ASSUME q # <<>> PROVE Head(Append(q, x)) = Head(q)
  BY <1>2, HeadTailAppend
<1>. QED BY <1>1, <1>2

\* A queue whose head leaves holds only what it held.
LEMMA Left ==
    ASSUME NEW S, NEW q \in Seq(S), q # <<>>
    PROVE  /\ Tail(q) \in Seq(S)
           /\ Head(q) \in S
           /\ \A n \in DOMAIN Tail(q) : n + 1 \in DOMAIN q /\ Tail(q)[n] = q[n + 1]
           /\ Head(q) = q[1]
           /\ 1 \in DOMAIN q
BY HeadTailProperties

\* A new prompt leaves the earlier ones as they are.
LEMMA Extended ==
    ASSUME NEW S, NEW q \in Seq(S), NEW x \in S
    PROVE  /\ Append(q, x) \in Seq(S)
           /\ DOMAIN Append(q, x) = DOMAIN q \cup {Len(q) + 1}
           /\ Len(q) + 1 \notin DOMAIN q
           /\ Len(q) + 1 \in Nat
           /\ \A i \in DOMAIN q : Append(q, x)[i] = q[i] /\ i \in Nat \ {0}
           /\ Append(q, x)[Len(q) + 1] = x
BY AppendProperties

\* A prompt that changes stays at its place.
LEMMA Changed ==
    ASSUME NEW S, NEW q \in Seq(S), NEW r, DOMAIN r = DOMAIN q,
           \A i \in DOMAIN q : r[i] \in S,
           r = [i \in DOMAIN q |-> r[i]]
    PROVE  r \in Seq(S)
<1>1. DOMAIN q = 1 .. Len(q) /\ Len(q) \in Nat
  BY LenProperties
<1>2. r \in [1 .. Len(q) -> S]
  BY <1>1
<1>. QED BY <1>1, <1>2, SeqDef

-----------------------------------------------------------------------------
(***************************************************************************)
(* The lock.                                                               *)
(***************************************************************************)

\* A pass joins the queue of the lock.
LEMMA ArriveInv ==
    ASSUME IInv, NEW p \in Passes, Arrive(p)
    PROVE  IInv'
<1>. USE DEF IInv, Arrive, NoUpdate, Idle
<1>1. /\ lock' \in Seq(Passes \cup {Bot})
      /\ lock # <<>> => lock' # <<>> /\ Head(lock') = Head(lock)
  BY Joined DEF TypeOK
<1>2. \A q : Holds(q) => Holds(q)'
  BY <1>1 DEF Holds
<1>3. TypeOK'
  BY <1>1 DEF TypeOK, Pcs, Mine
<1>4. HolderOK'
  <2>1. ASSUME NEW q \in Passes PROVE
          /\ (pass[q].pc \in Requesting => Holds(q))'
          /\ (pass[q].pc \notin Requesting => Mine(q) = 0)'
          /\ (pass[q].pc = "deciding" => Mine(q) \notin pending)'
    BY <1>2 DEF HolderOK, TypeOK, Requesting, Mine
  <2>2. OneOutstanding'
    <3>1. ASSUME NEW i \in pending PROVE \E q \in Passes : Holds(q)' /\ Mine(q)' = i
      <4>1. PICK q \in Passes : Holds(q) /\ Mine(q) = i
        BY DEF HolderOK, OneOutstanding
      <4>2. i # 0
        BY LenProperties DEF TypeOK
      <4>. QED BY <1>2, <4>1, <4>2 DEF TypeOK, Mine
    <3>. QED BY <3>1 DEF OneOutstanding
  <2>. QED BY <2>1, <2>2 DEF HolderOK
<1>5. TokensOK' /\ ResultsOK'
  BY DEF TokensOK, ResultsOK, ExecutedWasApproved
<1>. QED BY <1>3, <1>4, <1>5

\* It leaves again; nobody is in a request then.
LEMMA LeaveInv ==
    ASSUME IInv, NEW p \in Passes, Leave(p)
    PROVE  IInv'
<1>. USE DEF IInv, Leave, NoUpdate, Idle, At
<1>1. lock' \in Seq(Passes \cup {Bot})
  BY Left DEF TypeOK, Holds
<1>2. TypeOK'
  BY <1>1 DEF TypeOK, Pcs, Mine
<1>3. \A q \in Passes : pass[q].pc \notin Requesting
  BY DEF HolderOK, Requesting, Holds
<1>4. pending = {}
  <2>1. ASSUME NEW i \in pending PROVE FALSE
    <3>1. PICK q \in Passes : Mine(q) = i
      BY DEF HolderOK, OneOutstanding
    <3>2. i # 0
      BY LenProperties DEF TypeOK
    <3>. QED BY <1>3, <3>1, <3>2 DEF HolderOK
  <2>. QED BY <2>1
<1>5. HolderOK'
  BY <1>3, <1>4 DEF HolderOK, OneOutstanding, TypeOK, Mine, Requesting
<1>6. TokensOK' /\ ResultsOK'
  BY DEF TokensOK, ResultsOK, ExecutedWasApproved
<1>. QED BY <1>2, <1>5, <1>6

\* The cancel command joins the queue ...
LEMMA HandleCancelInv ==
    ASSUME IInv, HandleCancel
    PROVE  IInv'
<1>. USE DEF IInv, HandleCancel
<1>1. /\ lock' \in Seq(Passes \cup {Bot})
      /\ lock # <<>> => lock' # <<>> /\ Head(lock') = Head(lock)
  BY Joined DEF TypeOK
<1>2. \A q : Holds(q) => Holds(q)'
  BY <1>1 DEF Holds
<1>3. /\ inbox' \in Seq(Updates)
      /\ \A n \in DOMAIN inbox' : n + 1 \in DOMAIN inbox /\ inbox'[n] = inbox[n + 1]
  BY Left DEF TypeOK
<1>4. TypeOK'
  BY <1>1, <1>3 DEF TypeOK, Mine
<1>5. HolderOK'
  BY <1>2 DEF HolderOK, OneOutstanding, Mine
<1>6. TokensOK' /\ ResultsOK'
  BY <1>3 DEF TokensOK, ResultsOK, ExecutedWasApproved
<1>. QED BY <1>4, <1>5, <1>6

\* ... and leaves it, when no pass is in a request.
LEMMA FinishCancelInv ==
    ASSUME IInv, FinishCancel
    PROVE  IInv'
<1>. USE DEF IInv, FinishCancel
<1>1. lock' \in Seq(Passes \cup {Bot})
  BY Left DEF TypeOK, Holds
<1>2. TypeOK'
  BY <1>1 DEF TypeOK, Mine
<1>3. \A q \in Passes : ~ Holds(q)
  BY BotAssumption DEF Holds
<1>4. HolderOK'
  BY <1>3 DEF HolderOK, OneOutstanding, Mine
<1>5. TokensOK' /\ ResultsOK'
  BY DEF TokensOK, ResultsOK, ExecutedWasApproved
<1>. QED BY <1>2, <1>4, <1>5

-----------------------------------------------------------------------------
(***************************************************************************)
(* A request.                                                              *)
(***************************************************************************)

\* Only the prompt of the pass that holds the lock is registered.
LEMMA OnlyMine ==
    ASSUME IInv, NEW p \in Passes, Holds(p)
    PROVE  /\ pending \subseteq {Mine(p)}
           /\ \A q \in Passes : pass[q].pc \in Requesting => q = p
           /\ pass[p].pc \notin Requesting => pending = {}
<1>1. \A q \in Passes : Holds(q) => q = p
  BY DEF Holds
<1>2. pending \subseteq {Mine(p)}
  BY <1>1 DEF IInv, HolderOK, OneOutstanding
<1>3. 0 \notin pending
  BY LenProperties DEF IInv, TypeOK
<1>4. pass[p].pc \notin Requesting => Mine(p) = 0
  BY DEF IInv, HolderOK
<1>. QED BY <1>1, <1>2, <1>3, <1>4 DEF IInv, HolderOK

\* A fresh token is registered for a fresh prompt.
LEMMA AskInv ==
    ASSUME IInv, NEW p \in Passes, Ask(p)
    PROVE  IInv'
<1>. DEFINE n == Len(prompts) + 1
            new == [token |-> n, future |-> "open", text |-> "unsent",
                    verdict |-> "open", first |-> "none"]
<1>1. /\ prompts \in Seq(Prompts) /\ new \in Prompts
      /\ prompts' = Append(prompts, new)
      /\ pending' = pending \cup {n}
      /\ pass' = [pass EXCEPT ![p].pc = "sending", ![p].prompt = n]
      /\ lock' = lock /\ inbox' = inbox
      /\ Holds(p) /\ pass[p].pc = "queued"
  <2>1. n \in Nat
    BY LenProperties DEF IInv, TypeOK
  <2>. QED BY <2>1 DEF IInv, TypeOK, Ask, NewToken, NoUpdate, At, Prompts, Choices
<1>2. /\ prompts' \in Seq(Prompts)
      /\ DOMAIN prompts' = DOMAIN prompts \cup {n}
      /\ n \notin DOMAIN prompts /\ n \in Nat
      /\ \A i \in DOMAIN prompts : prompts'[i] = prompts[i]
      /\ prompts'[n] = new
  <2>. HIDE DEF new
  <2>. QED BY <1>1, Extended
<1>3. pending = {}
  BY <1>1, OnlyMine DEF Requesting
<1>4. TypeOK'
  BY <1>1, <1>2 DEF IInv, TypeOK, Pcs, Mine, Ask, NoUpdate
<1>5. HolderOK'
  BY <1>1, <1>3, OnlyMine DEF IInv, TypeOK, HolderOK, OneOutstanding, Mine, Requesting, Holds
<1>6. TokensOK' /\ ResultsOK'
  BY <1>1, <1>2, <1>3 DEF IInv, TokensOK, ResultsOK, ExecutedWasApproved
<1>. QED BY <1>4, <1>5, <1>6 DEF IInv

\* What a pass does inside its request: its own prompt may change, and its
\* token may go. The other passes have no part in it.
LEMMA RequestInv ==
    ASSUME IInv, NEW p \in Passes, pass[p].pc \in Requesting,
           NEW new \in Prompts, new.token = Mine(p),
           new.first = prompts[Mine(p)].first,
           new.future = "approve" => new.first = "approve",
           new.verdict = "executed" => new.first = "approve",
           new.future = "open" => prompts[Mine(p)].future = "open",
           prompts' = [prompts EXCEPT ![Mine(p)] = new],
           NEW l \in [pc : Pcs, prompt : Nat],
           pass' = [pass EXCEPT ![p] = l],
           IF l.pc \in Requesting THEN l.prompt = Mine(p) ELSE l.prompt = 0,
           pending' \subseteq pending,
           l.pc = "deciding" => Mine(p) \notin pending',
           l.pc \notin Requesting => Mine(p) \notin pending',
           lock' = lock, NoUpdate
    PROVE  IInv'
<1>1. /\ Holds(p)
      /\ Mine(p) \in DOMAIN prompts
      /\ DOMAIN prompts' = DOMAIN prompts
      /\ prompts'[Mine(p)] = new
      /\ \A i \in DOMAIN prompts : i # Mine(p) => prompts'[i] = prompts[i]
  BY DEF IInv, TypeOK, HolderOK, Requesting
<1>2. /\ pass'[p] = l
      /\ \A q \in Passes : q # p => pass'[q] = pass[q]
  BY DEF IInv, TypeOK
<1>3. TypeOK'
  <2>1. prompts' \in Seq(Prompts)
    BY <1>1, ExceptSeq, LenProperties DEF IInv, TypeOK
  <2>. QED BY <1>1, <1>2, <2>1 DEF IInv, TypeOK, NoUpdate, Mine, Requesting, Pcs
<1>4. HolderOK'
  <2>1. pending' \subseteq {Mine(p)}
    BY <1>1, OnlyMine
  <2>2. ASSUME NEW q \in Passes PROVE
          /\ (pass[q].pc \in Requesting => Holds(q))'
          /\ (pass[q].pc \notin Requesting => Mine(q) = 0)'
          /\ (pass[q].pc = "deciding" => Mine(q) \notin pending)'
    BY <1>1, <1>2 DEF IInv, HolderOK, Mine, Holds, Requesting
  <2>3. OneOutstanding'
    BY <1>1, <1>2, <2>1 DEF OneOutstanding, Mine, Holds
  <2>. QED BY <2>2, <2>3 DEF HolderOK
<1>5. TokensOK'
  BY <1>1 DEF IInv, TokensOK, NoUpdate
<1>6. ResultsOK'
  BY <1>1 DEF IInv, ResultsOK, ExecutedWasApproved
<1>. QED BY <1>3, <1>4, <1>5, <1>6 DEF IInv

\* A request answers: the verdict is the one its future stands for.
LEMMA AnswerInv ==
    ASSUME IInv, NEW p \in Passes, pass[p].pc \in Requesting,
           NEW verdict \in {"executed", "skipped"},
           NEW text \in {"unsent", "asking", "edited"},
           verdict = "executed" => prompts[Mine(p)].future = "approve",
           Answer(p, verdict, text),
           pending' \subseteq pending, Mine(p) \notin pending'
    PROVE  IInv'
<1>. DEFINE old == prompts[Mine(p)]
            new == [old EXCEPT !.verdict = verdict, !.text = text]
            l == [pc |-> "queued", prompt |-> 0]
<1>1. /\ Mine(p) \in DOMAIN prompts /\ old \in Prompts /\ old.token = Mine(p)
      /\ old.future = "approve" => old.first = "approve"
  BY ElementOfSeq, LenProperties
     DEF IInv, TypeOK, TokensOK, ResultsOK, Requesting
<1>2. /\ new \in Prompts /\ new.token = old.token /\ new.first = old.first
      /\ new.future = old.future /\ new.verdict = verdict
  BY <1>1 DEF Prompts
<1>3. prompts' = [prompts EXCEPT ![Mine(p)] = new]
  BY <1>1, <1>2 DEF Answer, Prompts
<1>4. pass' = [pass EXCEPT ![p] = l] /\ l \in [pc : Pcs, prompt : Nat]
  <2>1. pass[p] \in [pc : Pcs, prompt : Nat]
    BY DEF IInv, TypeOK
  <2>2. ASSUME NEW r \in [pc : Pcs, prompt : Nat]
        PROVE  [r EXCEPT !.pc = "queued", !.prompt = 0] = l
    <3>. DEFINE s == [r EXCEPT !.pc = "queued", !.prompt = 0]
    <3>1. s \in [pc : Pcs, prompt : Nat] /\ s.pc = "queued" /\ s.prompt = 0
      BY DEF Pcs
    <3>2. l \in [pc : Pcs, prompt : Nat] /\ l.pc = "queued" /\ l.prompt = 0
      BY DEF Pcs
    <3>. HIDE DEF s, l
    <3>. QED BY <3>1, <3>2
  <2>. QED BY <2>1, <2>2 DEF Answer, Pcs
<1>5. lock' = lock /\ NoUpdate
  BY DEF Answer
<1>. HIDE DEF new, l
<1>6. l.pc = "queued" /\ l.prompt = 0
  BY DEF l
<1>. QED BY <1>1, <1>2, <1>3, <1>4, <1>5, <1>6, RequestInv DEF Requesting

\* A step of a request that does not end it: its place, perhaps its future,
\* perhaps its token's registration.
LEMMA MoveInv ==
    ASSUME IInv, NEW p \in Passes, pass[p].pc \in Requesting,
           NEW future \in Choices \cup {"open", "cancelled"},
           future = prompts[Mine(p)].future \/ future = "cancelled",
           prompts' = [prompts EXCEPT ![Mine(p)].future = future],
           NEW pc \in Requesting, Goto(p, pc),
           pending' \subseteq pending,
           pc = "deciding" => Mine(p) \notin pending',
           lock' = lock, NoUpdate
    PROVE  IInv'
<1>. DEFINE old == prompts[Mine(p)]
            new == [old EXCEPT !.future = future]
            l == [pc |-> pc, prompt |-> Mine(p)]
<1>1. /\ Mine(p) \in DOMAIN prompts /\ old \in Prompts /\ old.token = Mine(p)
      /\ old.future = "approve" => old.first = "approve"
      /\ old.verdict = "executed" => old.first = "approve"
  BY ElementOfSeq, LenProperties
     DEF IInv, TypeOK, TokensOK, ResultsOK, ExecutedWasApproved, Requesting
<1>2. /\ new \in Prompts /\ new.token = old.token /\ new.first = old.first
      /\ new.future = future /\ new.verdict = old.verdict
  BY <1>1 DEF Prompts
<1>3. prompts' = [prompts EXCEPT ![Mine(p)] = new]
  OBVIOUS
<1>4. /\ pass' = [pass EXCEPT ![p] = l]
      /\ l \in [pc : Pcs, prompt : Nat]
      /\ l.pc = pc /\ l.prompt = Mine(p)
  <2>1. pass[p] \in [pc : Pcs, prompt : Nat]
    BY DEF IInv, TypeOK
  <2>2. [pass[p] EXCEPT !.pc = pc] = l
    BY <2>1 DEF Mine
  <2>. QED BY <2>1, <2>2 DEF Goto, Pcs, Requesting, Mine
<1>. HIDE DEF new, l
<1>. QED BY <1>1, <1>2, <1>3, <1>4, RequestInv

\* One prompt's text changes: nothing is said of it.
LEMMA DeliverInv ==
    ASSUME IInv, NEW i \in DOMAIN prompts, Deliver(i)
    PROVE  IInv'
<1>. DEFINE new == [prompts[i] EXCEPT !.text = "asking"]
<1>1. /\ prompts' \in Seq(Prompts) /\ DOMAIN prompts' = DOMAIN prompts
      /\ \A j \in DOMAIN prompts :
            /\ prompts'[j].token = prompts[j].token
            /\ prompts'[j].first = prompts[j].first
            /\ prompts'[j].future = prompts[j].future
            /\ prompts'[j].verdict = prompts[j].verdict
  <2>1. prompts[i] \in Prompts /\ i \in 1 .. Len(prompts)
    BY ElementOfSeq, LenProperties DEF IInv, TypeOK
  <2>2. new \in Prompts
    BY <2>1 DEF Prompts
  <2>3. prompts' = [prompts EXCEPT ![i] = new]
    BY DEF Deliver
  <2>4. prompts' \in Seq(Prompts)
    <3>. HIDE DEF new
    <3>. QED BY <2>1, <2>2, <2>3, ExceptSeq DEF IInv, TypeOK
  <2>. QED BY <2>1, <2>3, <2>4 DEF Prompts
<1>2. TypeOK'
  BY <1>1 DEF IInv, TypeOK, Deliver, NoUpdate, Mine
<1>3. HolderOK'
  BY DEF IInv, HolderOK, OneOutstanding, Holds, Mine, Deliver
<1>4. TokensOK' /\ ResultsOK'
  BY <1>1 DEF IInv, TokensOK, ResultsOK, ExecutedWasApproved, Deliver, NoUpdate
<1>. QED BY <1>2, <1>3, <1>4 DEF IInv

\* Each step of a request is one of the two kinds.
LEMMA RequestStepInv ==
    ASSUME IInv, NEW p \in Passes,
           \/ SendReturns(p) \/ SendFails(p) \/ Timeout(p) \/ Expire(p)
           \/ Decide(p) \/ Return(p)
    PROVE  IInv'
<1>. DEFINE old == prompts[Mine(p)]
<1>1. \A x : At(p, x) /\ x \in Requesting =>
          /\ Mine(p) \in DOMAIN prompts
          /\ old \in Prompts
          /\ old.future \in Choices \cup {"open", "cancelled"}
          /\ old.text \in {"unsent", "asking", "edited"}
          /\ prompts = [prompts EXCEPT ![Mine(p)].future = old.future]
  <2>1. \A x : At(p, x) /\ x \in Requesting => Mine(p) \in DOMAIN prompts
    BY DEF IInv, TypeOK, At, Requesting
  <2>2. \A i \in DOMAIN prompts : prompts[i] \in Prompts
    BY ElementOfSeq, LenProperties DEF IInv, TypeOK
  <2>3. Mine(p) \in DOMAIN prompts => prompts = [prompts EXCEPT ![Mine(p)].future = old.future]
    <3>1. Mine(p) \in DOMAIN prompts => [old EXCEPT !.future = old.future] = old
      BY <2>2 DEF Prompts
    <3>2. prompts = [i \in DOMAIN prompts |-> prompts[i]]
      BY LenProperties DEF IInv, TypeOK
    <3>. QED BY <3>1, <3>2
  <2>. QED BY <2>1, <2>2, <2>3 DEF Prompts
<1>2. CASE SendReturns(p)
  <2>1. /\ At(p, "sending") /\ Goto(p, "waiting") /\ prompts' = prompts
        /\ pending' = pending /\ lock' = lock /\ NoUpdate
    BY <1>2 DEF SendReturns
  <2>. QED BY <2>1, <1>1, MoveInv DEF At, Requesting
<1>3. CASE SendFails(p)
  <2>1. /\ At(p, "sending") /\ pending' = pending \ {Mine(p)}
        /\ Answer(p, "skipped", old.text)
    BY <1>3 DEF SendFails, Popped
  <2>. QED BY <2>1, <1>1, AnswerInv DEF At, Requesting
<1>4. CASE Timeout(p)
  <2>. DEFINE future == IF old.future = "open" THEN "cancelled" ELSE old.future
  <2>1. /\ At(p, "waiting") /\ Goto(p, "expiring")
        /\ pending' = pending /\ lock' = lock /\ NoUpdate
        /\ prompts' = [prompts EXCEPT ![Mine(p)].future = future]
    BY <1>4 DEF Timeout, Fires
  <2>2. /\ future \in Choices \cup {"open", "cancelled"}
        /\ future = old.future \/ future = "cancelled"
    BY <2>1, <1>1 DEF Requesting
  <2>. HIDE DEF future
  <2>. QED BY <2>1, <2>2, MoveInv DEF At, Requesting
<1>5. CASE Expire(p)
  <2>1. PICK text \in Edits : Answer(p, "skipped", text)
    BY <1>5 DEF Expire
  <2>2. At(p, "expiring") /\ pending' = pending \ {Mine(p)}
    BY <1>5 DEF Expire, Popped
  <2>. QED BY <2>1, <2>2, AnswerInv DEF At, Requesting, Edits
<1>6. CASE Decide(p)
  <2>1. /\ At(p, "waiting") /\ Goto(p, "deciding") /\ prompts' = prompts
        /\ pending' = pending \ {Mine(p)} /\ lock' = lock /\ NoUpdate
    BY <1>6 DEF Decide, Popped
  <2>. QED BY <2>1, <1>1, MoveInv DEF At, Requesting
<1>7. CASE Return(p)
  <2>1. PICK text \in Edits : Answer(p, Verdict(old), text)
    BY <1>7 DEF Return
  <2>2. At(p, "deciding") /\ pending' = pending
    BY <1>7 DEF Return
  <2>3. Mine(p) \notin pending
    BY <2>2 DEF IInv, HolderOK, At
  <2>4. /\ Verdict(old) \in {"executed", "skipped"}
        /\ Verdict(old) = "executed" => old.future = "approve"
    BY DEF Verdict
  <2>. QED BY <2>1, <2>2, <2>3, <2>4, AnswerInv DEF At, Requesting, Edits
<1>. QED BY <1>2, <1>3, <1>4, <1>5, <1>6, <1>7

-----------------------------------------------------------------------------
(***************************************************************************)
(* The operator and the update loop.                                       *)
(***************************************************************************)

\* A tap carries the token of the message it is made on.
LEMMA OperatorInv ==
    ASSUME IInv, OperatorStep
    PROVE  IInv'
<1>1. PICK update \in Updates :
         /\ Receive(update)
         /\ update.kind = "tap" => update.token = update.prompt
  <2>1. CASE Command
    BY <2>1 DEF Command, Updates
  <2>2. CASE \E i \in DOMAIN prompts, choice \in Choices : Tap(i, choice)
    <3>1. PICK i \in DOMAIN prompts, choice \in Choices : Tap(i, choice)
      BY <2>2
    <3>2. i \in Nat /\ prompts[i].token = i
      BY LenProperties DEF IInv, TypeOK, TokensOK
    <3>3. [kind |-> "tap", prompt |-> i, token |-> i, choice |-> choice] \in Updates
      BY <3>2 DEF Updates
    <3>. QED BY <3>1, <3>2, <3>3 DEF Tap
  <2>. QED BY <2>1, <2>2 DEF OperatorStep
<1>2. /\ inbox' \in Seq(Updates)
      /\ \A n \in DOMAIN inbox' : inbox'[n].kind = "tap" => inbox'[n].token = inbox'[n].prompt
  <2>1. inbox \in Seq(Updates) /\ inbox' = Append(inbox, update)
    BY <1>1 DEF IInv, TypeOK, Receive
  <2>. QED BY <1>1, <2>1, Extended DEF IInv, TokensOK
<1>3. TypeOK'
  BY <1>1, <1>2 DEF IInv, TypeOK, Receive, Mine
<1>4. HolderOK'
  BY <1>1 DEF IInv, HolderOK, OneOutstanding, Holds, Mine, Receive
<1>5. TokensOK' /\ ResultsOK'
  BY <1>1, <1>2 DEF IInv, TokensOK, ResultsOK, ExecutedWasApproved, Receive
<1>. QED BY <1>3, <1>4, <1>5 DEF IInv

\* A tap decides the request of its own message or none.
LEMMA HandleTapInv ==
    ASSUME IInv, HandleTap
    PROVE  IInv'
<1>. DEFINE update == Head(inbox)
            seen(i) == IF i = update.prompt THEN Marked(prompts[i], update.choice)
                       ELSE prompts[i]
            after(i) == IF i \in Matches(update.token) THEN Resolved(seen(i), update.choice)
                        ELSE seen(i)
<1>1. /\ inbox' \in Seq(Updates)
      /\ \A n \in DOMAIN inbox' : n + 1 \in DOMAIN inbox /\ inbox'[n] = inbox[n + 1]
      /\ update \in Updates /\ update.kind = "tap"
      /\ update.token = update.prompt
  <2>1. inbox \in Seq(Updates) /\ inbox # <<>> /\ inbox' = Tail(inbox)
        /\ update.kind = "tap"
    BY DEF IInv, TypeOK, HandleTap
  <2>. QED BY <2>1, Left DEF IInv, TokensOK
<1>2. update.choice \in Choices /\ update.prompt \in Nat
  BY <1>1 DEF Updates
<1>3. \A i \in DOMAIN prompts : prompts[i] \in Prompts
  BY ElementOfSeq, LenProperties DEF IInv, TypeOK
<1>4. \A i \in DOMAIN prompts :
          i \in Matches(update.token) <=> i \in pending /\ i = update.prompt
  BY <1>1 DEF IInv, TypeOK, TokensOK, Matches
<1>5. ASSUME NEW i \in DOMAIN prompts
      PROVE  /\ after(i) \in Prompts
             /\ after(i).token = prompts[i].token
             /\ after(i).verdict = prompts[i].verdict
             /\ i # update.prompt => after(i) = prompts[i]
             /\ prompts[i].first # "none" => after(i).first = prompts[i].first
             /\ prompts[i].first = "none" /\ i = update.prompt
                   => after(i).first = update.choice
             /\ after(i).future =
                   IF i = update.prompt /\ i \in pending /\ prompts[i].future = "open"
                   THEN update.choice ELSE prompts[i].future
  BY <1>2, <1>3, <1>4 DEF Marked, Resolved, Prompts, Choices
<1>6. prompts' = [i \in DOMAIN prompts |-> after(i)]
  BY DEF HandleTap
<1>7. /\ DOMAIN prompts' = DOMAIN prompts
      /\ \A i \in DOMAIN prompts : prompts'[i] = after(i)
  BY <1>6
<1>8. prompts' \in Seq(Prompts)
  <2>1. \A i \in DOMAIN prompts : prompts'[i] \in Prompts
    BY <1>5, <1>7
  <2>2. prompts' = [i \in DOMAIN prompts |-> prompts'[i]]
    BY <1>6
  <2>3. prompts \in Seq(Prompts)
    BY DEF IInv, TypeOK
  <2>. QED BY <2>1, <2>2, <2>3, <1>7, Changed
<1>9. TypeOK'
  <2>. DEFINE reply == [prompt |-> update.prompt, choice |-> update.choice,
                        recorded |-> Matches(update.token) # {}]
  <2>1. reply \in [prompt : Nat, choice : Choices, recorded : BOOLEAN]
    BY <1>2
  <2>2. replies' = replies \cup {reply}
    BY DEF HandleTap
  <2>3. replies' \subseteq [prompt : Nat, choice : Choices, recorded : BOOLEAN]
    <3>. HIDE DEF reply
    <3>. QED BY <2>1, <2>2 DEF IInv, TypeOK
  <2>4. /\ lock' = lock /\ pass' = pass /\ pending' = pending /\ bot' = bot
        /\ sent' = sent /\ restarts' = restarts
    BY DEF HandleTap
  <2>. HIDE DEF update, after
  <2>. QED BY <1>1, <1>7, <1>8, <2>3, <2>4 DEF IInv, TypeOK, Mine
<1>10. HolderOK'
  BY DEF IInv, HolderOK, OneOutstanding, Holds, Mine, HandleTap
<1>11. TokensOK'
  BY <1>1, <1>5, <1>7 DEF IInv, TokensOK
<1>12. ResultsOK'
  <2>. HIDE DEF after
  <2>1. pending' = pending
    BY DEF HandleTap
  <2>. QED BY <1>2, <1>5, <1>7, <2>1 DEF IInv, ResultsOK, ExecutedWasApproved, Choices
<1>. QED BY <1>9, <1>10, <1>11, <1>12 DEF IInv

\* A restart loses the registry and the passes together.
LEMMA RestartInv ==
    ASSUME IInv, Restart
    PROVE  IInv'
<1>1. TypeOK'
  <2>1. lock' \in Seq(Passes \cup {Bot}) /\ inbox' \in Seq(Updates)
    BY EmptySeq DEF IInv, TypeOK, Restart
  <2>2. /\ pass' \in [Passes -> [pc : Pcs, prompt : Nat]]
        /\ \A p \in Passes : pass'[p].pc = "idle"
    BY DEF Restart, Idle, Pcs
  <2>3. /\ prompts' = prompts /\ replies' = replies /\ sent' = sent
        /\ pending' = {} /\ bot' = "idle" /\ restarts' = restarts + 1
    BY DEF Restart
  <2>. QED BY <2>1, <2>2, <2>3 DEF IInv, TypeOK
<1>2. HolderOK'
  BY DEF HolderOK, OneOutstanding, Restart, Idle, Mine, Requesting
<1>3. TokensOK' /\ ResultsOK'
  BY DEF IInv, TokensOK, ResultsOK, ExecutedWasApproved, Restart
<1>. QED BY <1>1, <1>2, <1>3 DEF IInv

-----------------------------------------------------------------------------
\* IInv is an invariant of the gate.
THEOREM Invariance == Spec => []IInv
<1>1. Init => IInv
  BY EmptySeq DEF Init, IInv, TypeOK, HolderOK, TokensOK, ResultsOK, ExecutedWasApproved,
                  OneOutstanding, Idle, Pcs, Mine, Requesting
<1>2. IInv /\ [Next]_vars => IInv'
  <2>1. ASSUME IInv, NEW p \in Passes, PassStep(p) PROVE IInv'
    BY <2>1, AskInv, LeaveInv, RequestStepInv DEF PassStep
  <2>2. ASSUME IInv, BotStep PROVE IInv'
    BY <2>2, HandleTapInv, HandleCancelInv, FinishCancelInv DEF BotStep
  <2>3. ASSUME IInv, UNCHANGED vars PROVE IInv'
    BY <2>3 DEF vars, IInv, TypeOK, HolderOK, TokensOK, ResultsOK, ExecutedWasApproved,
                OneOutstanding, Holds, Mine
  <2>. QED BY <2>1, <2>2, <2>3, ArriveInv, DeliverInv, OperatorInv, RestartInv DEF Next
<1>. QED BY <1>1, <1>2, PTL DEF Spec

\* The gate keeps its types, and a pass in a request has a prompt.
THEOREM TypeCorrect == Spec => []TypeOK
<1>1. IInv => TypeOK
  BY DEF IInv
<1>. QED BY <1>1, Invariance, PTL

\* A signal executes only if the first handled tap on its own message was an
\* approval: no timeout, late tap, other message or restart can stand for it.
THEOREM Approved == Spec => []ExecutedWasApproved
<1>1. IInv => ExecutedWasApproved
  BY DEF IInv, ResultsOK
<1>. QED BY <1>1, Invariance, PTL

\* At most one request is outstanding, that of the lock's holder.
THEOREM Outstanding == Spec => []OneOutstanding
<1>1. IInv => OneOutstanding
  BY DEF IInv, HolderOK
<1>. QED BY <1>1, Invariance, PTL

=============================================================================
