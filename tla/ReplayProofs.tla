---------------------------- MODULE ReplayProofs ----------------------------
(***************************************************************************)
(* The books of the fast-forward runs of Desk: what a row says of trades   *)
(* and capital is what its bars did, however many of them there are, in    *)
(* whatever portions they were walked, and whatever a close earns. A fold  *)
(* over a sequence is followed here element by element: it is the last     *)
(* value of a trail that starts at its base and makes one step for each.   *)
(***************************************************************************)
EXTENDS DeskProofs, NaturalsInduction

(***************************************************************************)
(* Induction, and the recursion that a fold is defined by.                 *)
(***************************************************************************)

\* Induction, for a set of the numbers a statement holds of.
LEMMA Induct ==
    ASSUME NEW S, 0 \in S, \A n \in Nat : n \in S => n + 1 \in S
    PROVE  \A n \in Nat : n \in S
<1>. DEFINE Less == {ss \in Nat \X Nat : ss[1] < ss[2]}
            T == Nat \ S
<1>. SUFFICES ASSUME T # {} PROVE FALSE
  OBVIOUS
<1>1. IsWellFoundedOn(Less, Nat)
  BY NatLessThanWellFounded DEF OpToRel
<1>2. PICK x \in T : \A y \in T : ~ (<<y, x>> \in Less)
  <2>. HIDE DEF Less
  <2>. QED BY <1>1, WFMin
<1>3. x \in Nat /\ x # 0 /\ x - 1 \in Nat /\ x - 1 < x
  OBVIOUS
<1>4. <<x - 1, x>> \in Less
  BY <1>3
<1>5. x - 1 \in S
  <2>. HIDE DEF Less
  <2>. QED BY <1>2, <1>3, <1>4
<1>. QED BY <1>3, <1>5

\* A set of numbers up to n that is not empty has a greatest element.
LEMMA Greatest ==
    ASSUME NEW n \in Nat, NEW T \in SUBSET (1 .. n), T # {}
    PROVE  Max(T) \in T /\ \A y \in T : y <= Max(T)
<1>. DEFINE S == {m \in Nat : \A U \in SUBSET (1 .. m) : U # {} =>
                     \E x \in U : \A y \in U : x >= y}
<1>1. 0 \in S
  <2>1. \A U \in SUBSET (1 .. 0) : U = {}
    OBVIOUS
  <2>. QED BY <2>1
<1>2. ASSUME NEW m \in Nat, m \in S PROVE m + 1 \in S
  <2>. SUFFICES ASSUME NEW U \in SUBSET (1 .. m + 1), U # {}
                PROVE  \E x \in U : \A y \in U : x >= y
    OBVIOUS
  <2>1. CASE m + 1 \in U
    BY <2>1
  <2>2. CASE m + 1 \notin U
    <3>1. U \in SUBSET (1 .. m)
      BY <2>2
    <3>. QED BY <1>2, <3>1
  <2>. QED BY <2>1, <2>2
<1>3. n \in S
  <2>. HIDE DEF S
  <2>. QED BY <1>1, <1>2, Induct
<1>4. PICK x \in T : \A y \in T : x >= y
  BY <1>3
<1>. QED BY <1>4 DEF Max

\* The sets that a fold over 1 .. n + 1 goes through.
LEMMA Intervals ==
    ASSUME NEW n \in Nat
    PROVE  /\ 1 .. 0 = {}
           /\ Max(1 .. n + 1) = n + 1
           /\ (1 .. n + 1) \ {n + 1} = 1 .. n
<1>. DEFINE T == 1 .. n + 1
<1>1. n + 1 \in T /\ n + 1 \in Nat /\ T # {} /\ T \in SUBSET (1 .. n + 1)
  OBVIOUS
<1>2. Max(T) \in T /\ \A y \in T : y <= Max(T)
  <2>. HIDE DEF T
  <2>. QED BY <1>1, Greatest
<1>3. Max(T) = n + 1
  BY <1>2
<1>. QED BY <1>3

\* F[<<x, k>>] is what the k-th step of a fold over 1 .. n makes of x; the fold
\* is defined by a function on the sets of the steps.
Steps(X, n) == [X \X (1 .. n) -> X]
Solves(g, X, n, base, F) ==
    /\ g \in [SUBSET (1 .. n) -> X]
    /\ g[{}] = base
    /\ \A s \in SUBSET (1 .. n) : s # {} =>
          /\ Max(s) \in 1 .. n /\ g[s \ {Max(s)}] \in X
          /\ g[s] = F[<<g[s \ {Max(s)}], Max(s)>>]

\* There is such a function.
LEMMA FoldExists ==
    ASSUME NEW X, NEW base \in X, NEW n \in Nat, NEW F \in Steps(X, n)
    PROVE  \E g : Solves(g, X, n, base, F)
<1>. DEFINE D(m) == {s \in SUBSET (1 .. n) : s \subseteq 1 .. m}
            Folds(g, m) == \A s \in D(m) :
                g[s] = IF s = {} THEN base ELSE F[<<g[s \ {Max(s)}], Max(s)>>]
            S == {m \in Nat : \E g \in [D(m) -> X] : Folds(g, m)}
<1>1. 0 \in S
  <2>1. D(0) = {{}}
    OBVIOUS
  <2>2. [s \in {{}} |-> base] \in [D(0) -> X] /\ Folds([s \in {{}} |-> base], 0)
    BY <2>1
  <2>. QED BY <2>2
<1>2. ASSUME NEW m \in Nat, m \in S PROVE m + 1 \in S
  <2>1. PICK g \in [D(m) -> X] : Folds(g, m)
    BY <1>2
  <2>. DEFINE h == [s \in D(m + 1) |->
                       IF s = {} THEN base ELSE F[<<g[s \ {Max(s)}], Max(s)>>]]
  <2>2. ASSUME NEW s \in D(m + 1), s # {}
        PROVE  s \ {Max(s)} \in D(m) /\ Max(s) \in 1 .. n
    <3>1. s \in SUBSET (1 .. n) /\ s \in SUBSET (1 .. m + 1) /\ m + 1 \in Nat
      BY <2>2
    <3>2. Max(s) \in s /\ \A y \in s : y <= Max(s)
      <4>. HIDE DEF D
      <4>. QED BY <2>2, <3>1, Greatest
    <3>3. ASSUME NEW y \in s, y # Max(s) PROVE y \in 1 .. m
      <4>1. y \in 1 .. m + 1 /\ Max(s) \in 1 .. m + 1
        BY <3>1, <3>2
      <4>. HIDE DEF D
      <4>. QED BY <4>1, <3>2, <3>3
    <3>4. s \ {Max(s)} \subseteq 1 .. m
      BY <3>3
    <3>. QED BY <3>1, <3>2, <3>4
  <2>3. D(m) \subseteq D(m + 1)
    OBVIOUS
  <2>4. h \in [D(m + 1) -> X]
    <3>1. ASSUME NEW s \in D(m + 1), s # {}
          PROVE  F[<<g[s \ {Max(s)}], Max(s)>>] \in X
      <4>1. g[s \ {Max(s)}] \in X
        <5>. HIDE DEF D
        <5>. QED BY <2>2, <3>1
      <4>. QED BY <2>2, <3>1, <4>1 DEF Steps
    <3>. HIDE DEF D
    <3>. QED BY <3>1
  <2>5. \A t \in D(m) : h[t] = g[t]
    <3>. HIDE DEF D
    <3>. QED BY <2>1, <2>3
  <2>6. Folds(h, m + 1)
    <3>. HIDE DEF D
    <3>. QED BY <2>2, <2>5
  <2>. HIDE DEF D, Folds, h
  <2>. QED BY <2>4, <2>6
<1>3. n \in S
  <2>. HIDE DEF S
  <2>. QED BY <1>1, <1>2, Induct
<1>4. D(n) = SUBSET (1 .. n)
  OBVIOUS
<1>5. \E g \in [SUBSET (1 .. n) -> X] : Folds(g, n)
  BY <1>3, <1>4
<1>6. PICK g \in [SUBSET (1 .. n) -> X] : Folds(g, n)
  BY <1>5
<1>7. ASSUME NEW s \in SUBSET (1 .. n), s # {}
      PROVE  /\ Max(s) \in 1 .. n /\ g[s \ {Max(s)}] \in X
             /\ g[s] = F[<<g[s \ {Max(s)}], Max(s)>>]
  <2>1. Max(s) \in s
    BY <1>7, Greatest
  <2>. QED BY <1>4, <1>6, <1>7, <2>1
<1>8. g[{}] = base
  BY <1>4, <1>6
<1>. QED BY <1>6, <1>7, <1>8 DEF Solves

\* What holds at the start of a trail and is kept by each of its steps.
LEMMA Along ==
    ASSUME NEW n \in Nat, NEW S, 0 \in S, \A k \in 1 .. n : k - 1 \in S => k \in S
    PROVE  \A k \in 0 .. n : k \in S
<1>. DEFINE T == {k \in Nat : k <= n => k \in S}
<1>1. 0 \in T
  OBVIOUS
<1>2. ASSUME NEW k \in Nat, k \in T PROVE k + 1 \in T
  <2>. SUFFICES ASSUME k + 1 <= n PROVE k + 1 \in S
    OBVIOUS
  <2>1. k \in S /\ k + 1 \in 1 .. n /\ (k + 1) - 1 = k
    BY <1>2
  <2>. QED BY <2>1
<1>3. \A k \in Nat : k \in T
  <2>. HIDE DEF T
  <2>. QED BY <1>1, <1>2, Induct
<1>. QED BY <1>3

(***************************************************************************)
(* The trail of a fold.                                                    *)
(***************************************************************************)
Trail(h, X, n, base, F) ==
    /\ h \in [0 .. n -> X]
    /\ h[0] = base
    /\ \A k \in 1 .. n : h[k] = F[<<h[k - 1], k>>]

\* G goes on as F does wherever it is in X.
Follows(G, X, n, base, F) ==
    /\ G[{}] = base
    /\ \A s \in SUBSET (1 .. n) :
          s # {} /\ Max(s) \in 1 .. n /\ G[s \ {Max(s)}] \in X
              => G[s] = F[<<G[s \ {Max(s)}], Max(s)>>]

\* What follows F has a trail.
LEMMA HasTrail ==
    ASSUME NEW X, NEW base \in X, NEW n \in Nat, NEW F \in Steps(X, n), NEW G,
           Follows(G, X, n, base, F)
    PROVE  \E h : Trail(h, X, n, base, F) /\ G[1 .. n] = h[n]
<1>. DEFINE h == [k \in 0 .. n |-> G[1 .. k]]
            S == {k \in 0 .. n : h[k] \in X}
<1>1. h[0] = base
  BY DEF Follows
<1>2. ASSUME NEW k \in 1 .. n, h[k - 1] \in X PROVE h[k] = F[<<h[k - 1], k>>]
  <2>1. k - 1 \in Nat /\ (k - 1) + 1 = k /\ 1 .. k \in SUBSET (1 .. n) /\ 1 .. k # {}
        /\ k \in 0 .. n /\ k - 1 \in 0 .. n
    OBVIOUS
  <2>2. Max(1 .. k) = k /\ (1 .. k) \ {k} = 1 .. k - 1
    BY <2>1, Intervals
  <2>3. h[k - 1] = G[1 .. k - 1] /\ h[k] = G[1 .. k]
    BY <2>1
  <2>. HIDE DEF h
  <2>. QED BY <1>2, <2>1, <2>2, <2>3 DEF Follows
<1>. HIDE DEF h
<1>3. \A k \in 0 .. n : k \in S
  <2>1. 0 \in S
    BY <1>1
  <2>2. ASSUME NEW k \in 1 .. n, k - 1 \in S PROVE k \in S
    <3>1. k \in 0 .. n /\ h[k - 1] \in X
      BY <2>2
    <3>2. F[<<h[k - 1], k>>] \in X
      BY <3>1 DEF Steps
    <3>. QED BY <1>2, <3>1, <3>2
  <2>. HIDE DEF S
  <2>. QED BY <2>1, <2>2, Along
<1>4. h \in [0 .. n -> X]
  BY <1>3 DEF h
<1>5. \A k \in 1 .. n : h[k] = F[<<h[k - 1], k>>]
  BY <1>2, <1>3
<1>6. G[1 .. n] = h[n]
  BY DEF h
<1>. QED BY <1>1, <1>4, <1>5, <1>6 DEF Trail

\* The steps of E are those of F up to m.
Agree(E, F, X, m) == \A x \in X : \A k \in 1 .. m : E[<<x, k>>] = F[<<x, k>>]

\* Two trails with the same start go the same way as long as their steps agree.
LEMMA SameTrail ==
    ASSUME NEW X, NEW m \in Nat, NEW n \in Nat, m <= n, NEW base, NEW E, NEW F,
           NEW g, NEW h, Trail(g, X, m, base, E), Trail(h, X, n, base, F),
           Agree(E, F, X, m)
    PROVE  \A k \in 0 .. m : g[k] = h[k]
<1>. DEFINE S == {k \in 0 .. m : g[k] = h[k]}
<1>1. 0 \in S
  BY DEF Trail
<1>2. ASSUME NEW k \in 1 .. m, k - 1 \in S PROVE k \in S
  <2>1. k \in 1 .. n /\ k - 1 \in 0 .. m
    OBVIOUS
  <2>2. g[k] = E[<<g[k - 1], k>>] /\ h[k] = F[<<h[k - 1], k>>] /\ g[k - 1] \in X
    BY <2>1 DEF Trail
  <2>. QED BY <1>2, <2>2 DEF Agree
<1>3. \A k \in 0 .. m : k \in S
  <2>. HIDE DEF S
  <2>. QED BY <1>1, <1>2, Along
<1>. QED BY <1>3

(***************************************************************************)
(* What trades earned.                                                     *)
(***************************************************************************)
Closes == [pair : Listed \X Listed, reason : Reasons]
Sum(closed) == [a \in Int \X (1 .. Len(closed)) |-> a[1] + Earns[closed[a[2]].reason]]

\* Earned adds up what each trade earns.
LEMMA EarnedTrail ==
    ASSUME NEW closed \in Seq(Closes), NEW zero, zero = 0
    PROVE  \E h : /\ Trail(h, Int, Len(closed), zero, Sum(closed))
                  /\ Earned(closed) = h[Len(closed)]
<1>. DEFINE X == Int
            n == Len(closed)
            F == Sum(closed)
            P(g) == g = [s \in SUBSET (DOMAIN closed) |->
                IF s = {} THEN 0 ELSE g[s \ {Max(s)}] + Earns[closed[Max(s)].reason]]
            G == CHOOSE g : P(g)
<1>1. Earned(closed) = G[DOMAIN closed]
  BY DEF Earned, FoldLeft, MapThenFoldSet
<1>2. n \in Nat /\ DOMAIN closed = 1 .. n /\ \A k \in 1 .. n : closed[k] \in Closes
  BY LenProperties, ElementOfSeq
<1>3. /\ F \in Steps(X, n) /\ zero \in X
      /\ \A x \in X : \A k \in 1 .. n : F[<<x, k>>] = x + Earns[closed[k].reason]
  <2>1. \A k \in 1 .. n : Earns[closed[k].reason] \in Int
    BY <1>2, MoneyAssumption DEF Closes
  <2>. QED BY <1>2, <2>1 DEF Steps, Sum
<1>. HIDE DEF X, F, n
<1>4. PICK g : Solves(g, X, n, zero, F)
  BY <1>2, <1>3, FoldExists
<1>5. P(g)
  <2>1. ASSUME NEW s \in SUBSET (1 .. n), s # {}
        PROVE  g[s] = g[s \ {Max(s)}] + Earns[closed[Max(s)].reason]
    <3>1. /\ Max(s) \in 1 .. n /\ g[s \ {Max(s)}] \in X
          /\ g[s] = F[<<g[s \ {Max(s)}], Max(s)>>]
      BY <1>4, <2>1 DEF Solves
    <3>. QED BY <1>3, <3>1
  <2>. QED BY <1>2, <1>4, <2>1 DEF Solves
<1>6. P(G)
  <2>. HIDE DEF P
  <2>. QED BY <1>5
<1>. HIDE DEF G
<1>7. Follows(G, X, n, zero, F)
  BY <1>2, <1>3, <1>6 DEF Follows
<1>8. \E h : Trail(h, X, n, zero, F) /\ G[1 .. n] = h[n]
  BY <1>2, <1>3, <1>7, HasTrail
<1>. QED BY <1>1, <1>2, <1>8 DEF X, F, n

\* What was earned is a number.
LEMMA EarnedIsInt == ASSUME NEW closed \in Seq(Closes) PROVE Earned(closed) \in Int
<1>. DEFINE zero == 0
<1>1. zero = 0
  OBVIOUS
<1>. HIDE DEF zero
<1>2. PICK h : Trail(h, Int, Len(closed), zero, Sum(closed)) /\ Earned(closed) = h[Len(closed)]
  BY <1>1, EarnedTrail
<1>3. Len(closed) \in 0 .. Len(closed)
  BY LenProperties
<1>. QED BY <1>2, <1>3 DEF Trail

\* No trade earned nothing, and one more earns what its reason does.
LEMMA EarnedSum ==
    /\ Earned(<<>>) = 0
    /\ \A closed \in Seq(Closes) : \A trade \in Closes :
          Earned(Append(closed, trade)) = Earned(closed) + Earns[trade.reason]
<1>. DEFINE zero == 0
<1>1. zero = 0
  OBVIOUS
<1>. HIDE DEF zero
<1>2. Earned(<<>>) = 0
  <2>1. <<>> \in Seq(Closes) /\ Len(<<>>) = 0
    OBVIOUS
  <2>2. PICK h : /\ Trail(h, Int, Len(<<>>), zero, Sum(<<>>))
                 /\ Earned(<<>>) = h[Len(<<>>)]
    BY <1>1, <2>1, EarnedTrail
  <2>. QED BY <1>1, <2>1, <2>2 DEF Trail
<1>3. ASSUME NEW closed \in Seq(Closes), NEW trade \in Closes
      PROVE  Earned(Append(closed, trade)) = Earned(closed) + Earns[trade.reason]
  <2>. DEFINE more == Append(closed, trade)
              n == Len(closed)
  <2>1. /\ n \in Nat /\ more \in Seq(Closes) /\ Len(more) = n + 1
        /\ \A k \in 1 .. n : more[k] = closed[k]
        /\ more[n + 1] = trade
    BY AppendProperties, LenProperties
  <2>. HIDE DEF more
  <2>2. PICK g : Trail(g, Int, n, zero, Sum(closed)) /\ Earned(closed) = g[n]
    BY <1>1, EarnedTrail
  <2>3. PICK h : Trail(h, Int, Len(more), zero, Sum(more)) /\ Earned(more) = h[Len(more)]
    BY <1>1, <2>1, EarnedTrail
  <2>. HIDE DEF n
  <2>4. Agree(Sum(closed), Sum(more), Int, n)
    <3>1. ASSUME NEW x \in Int, NEW k \in 1 .. n
          PROVE  Sum(closed)[<<x, k>>] = Sum(more)[<<x, k>>]
      <4>1. k \in 1 .. n + 1
        BY <2>1
      <4>. QED BY <2>1, <4>1 DEF Sum, n
    <3>. QED BY <3>1 DEF Agree
  <2>5. g[n] = h[n]
    <3>1. n <= n + 1 /\ n + 1 \in Nat /\ n \in 0 .. n
      BY <2>1
    <3>. DEFINE m == n + 1
    <3>. HIDE DEF m
    <3>2. Trail(h, Int, m, zero, Sum(more))
      BY <2>1, <2>3 DEF m
    <3>3. \A k \in 0 .. n : g[k] = h[k]
      <4>. DEFINE X == Int
                  E == Sum(closed)
                  F == Sum(more)
      <4>1. /\ Trail(g, X, n, zero, E) /\ Trail(h, X, m, zero, F) /\ Agree(E, F, X, n)
            /\ n \in Nat /\ m \in Nat /\ n <= m
        BY <2>1, <2>2, <2>4, <3>1, <3>2 DEF m
      <4>. HIDE DEF X, E, F
      <4>. QED BY <4>1, SameTrail
    <3>. QED BY <3>1, <3>3
  <2>6. h[n + 1] = h[n] + Earns[trade.reason]
    <3>1. n + 1 \in 1 .. Len(more) /\ (n + 1) - 1 = n /\ n \in 0 .. Len(more)
      BY <2>1
    <3>2. h[n] \in Int /\ h[n + 1] = Sum(more)[<<h[n], n + 1>>]
      BY <2>3, <3>1 DEF Trail
    <3>. QED BY <2>1, <3>1, <3>2 DEF Sum
  <2>7. Earned(more) = Earned(closed) + Earns[trade.reason]
    BY <2>1, <2>2, <2>3, <2>5, <2>6
  <2>. QED BY <2>7 DEF more
<1>. QED BY <1>2, <1>3

(***************************************************************************)
(* Ledgers: the capital is what the trades earned.                         *)
(***************************************************************************)
Cursors(feed) == {Timeline(feed)[i] : i \in Nat}
Positions(feed) == [pair : Listed \X Listed, since : Cursors(feed)]
Ledgers(feed) == [open : Seq(Positions(feed)), trades : Seq(Closes), capital : Int]
Balanced(feed) == {l \in Ledgers(feed) : l.capital = Starting + Earned(l.trades)}

\* Before its first bar a run has traded nothing.
LEMMA FlatBalanced == ASSUME NEW feed PROVE Flat \in Balanced(feed)
<1>1. Flat \in Ledgers(feed)
  BY MoneyAssumption DEF Flat, Ledgers
<1>2. Flat.capital = Starting + Earned(Flat.trades)
  BY EarnedSum, MoneyAssumption DEF Flat
<1>. QED BY <1>1, <1>2 DEF Balanced

\* What is held does not matter for the balance.
LEMMA Reopened ==
    ASSUME NEW feed, NEW l \in Balanced(feed), NEW open \in Seq(Positions(feed))
    PROVE  /\ [l EXCEPT !.open = open] \in Balanced(feed)
           /\ [l EXCEPT !.open = open].trades = l.trades
           /\ [l EXCEPT !.open = open].open = open
<1>. DEFINE m == [l EXCEPT !.open = open]
<1>1. m \in Ledgers(feed) /\ m.trades = l.trades /\ m.capital = l.capital /\ m.open = open
  BY DEF Balanced, Ledgers
<1>. HIDE DEF m
<1>2. m \in Balanced(feed)
  BY <1>1 DEF Balanced
<1>. QED BY <1>1, <1>2 DEF m

\* A pass over the positions starts with none.
LEMMA UnvisitedBalances ==
    ASSUME NEW feed, NEW l \in Balanced(feed)
    PROVE  Unvisited(l) \in Balanced(feed) /\ Unvisited(l).trades = l.trades
<1>. DEFINE open == <<>>
<1>1. open \in Seq(Positions(feed)) /\ Unvisited(l) = [l EXCEPT !.open = open]
  BY DEF Unvisited
<1>. HIDE DEF open
<1>. QED BY <1>1, Reopened

\* A close books the trade and what it earns.
LEMMA CloseBooks ==
    ASSUME NEW feed, NEW l \in Balanced(feed), NEW p \in Positions(feed),
           NEW reason \in Reasons
    PROVE  /\ Closed(l, p, reason) \in Balanced(feed)
           /\ Closed(l, p, reason).trades =
                  Append(l.trades, [pair |-> p.pair, reason |-> reason])
<1>. DEFINE trade == [pair |-> p.pair, reason |-> reason]
            m == Closed(l, p, reason)
<1>1. trade \in Closes /\ trade.reason = reason
  BY DEF Closes, Positions
<1>2. l \in Ledgers(feed) /\ l.capital = Starting + Earned(l.trades)
  BY DEF Balanced
<1>3. Earns[reason] \in Int /\ l.trades \in Seq(Closes) /\ l.capital \in Int
  BY <1>2, MoneyAssumption DEF Ledgers
<1>4. m = [l EXCEPT !.trades = Append(l.trades, trade), !.capital = l.capital + Earns[reason]]
  BY DEF Closed
<1>. HIDE DEF m, trade
<1>5. Append(l.trades, trade) \in Seq(Closes)
  BY <1>1, <1>3, AppendProperties
<1>6. /\ m \in Ledgers(feed)
      /\ m.trades = Append(l.trades, trade) /\ m.capital = l.capital + Earns[reason]
  <2>. DEFINE booked == Append(l.trades, trade)
              capital == l.capital + Earns[reason]
  <2>1. booked \in Seq(Closes) /\ capital \in Int
    BY <1>3, <1>5
  <2>2. m = [l EXCEPT !.trades = booked, !.capital = capital]
    BY <1>4
  <2>. HIDE DEF booked, capital
  <2>3. m \in Ledgers(feed) /\ m.trades = booked /\ m.capital = capital
    BY <1>2, <2>1, <2>2 DEF Ledgers
  <2>. QED BY <2>3 DEF booked, capital
<1>7. Earned(m.trades) = Earned(l.trades) + Earns[reason]
  BY <1>1, <1>3, <1>6, EarnedSum
<1>8. Earned(l.trades) \in Int
  BY <1>3, EarnedIsInt
<1>9. m.capital = Starting + Earned(m.trades)
  BY <1>2, <1>3, <1>6, <1>7, <1>8, MoneyAssumption
<1>. QED BY <1>6, <1>9 DEF Balanced, m, trade

\* evaluate_exit names a reason of its own, or holds.
LEMMA ReasonIsKnown ==
    ASSUME NEW z, NEW age PROVE ExitReason(z, age) \in Reasons \cup {"HOLD"}
BY DEF ExitReason, Reasons

\* A position that is visited stays, or is closed.
LEMMA VisitBooks ==
    ASSUME NEW feed, NEW cursor, NEW l \in Balanced(feed), NEW p \in Positions(feed)
    PROVE  Visited(feed, cursor, l, p) \in Balanced(feed)
<1>. DEFINE reason == IF p.pair \in Snapshots(feed, cursor)
                      THEN ExitReason(ZScore[feed.source][p.pair][cursor], cursor - p.since)
                      ELSE "HOLD"
<1>1. reason \in Reasons \cup {"HOLD"}
  BY ReasonIsKnown
<1>2. Visited(feed, cursor, l, p) = IF reason = "HOLD" THEN [l EXCEPT !.open = Append(@, p)]
                                    ELSE Closed(l, p, reason)
  BY DEF Visited
<1>. HIDE DEF reason
<1>3. Append(l.open, p) \in Seq(Positions(feed))
  BY AppendProperties DEF Balanced, Ledgers
<1>4. [l EXCEPT !.open = Append(@, p)] \in Balanced(feed)
  BY <1>3, Reopened
<1>5. reason # "HOLD" => Closed(l, p, reason) \in Balanced(feed)
  BY <1>1, CloseBooks
<1>. QED BY <1>2, <1>4, <1>5

\* An entry opens a position at the cursor, if anything.
LEMMA EntryBooks ==
    ASSUME NEW feed, NEW cursor \in Cursors(feed), NEW before, NEW l \in Balanced(feed),
           NEW row, row.pair \in Listed \X Listed
    PROVE  Entered(feed, cursor, before, l, row) \in Balanced(feed)
<1>. DEFINE p == [pair |-> row.pair, since |-> cursor]
<1>1. p \in Positions(feed)
  BY DEF Positions
<1>2. \/ Entered(feed, cursor, before, l, row) = [l EXCEPT !.open = Append(@, p)]
      \/ Entered(feed, cursor, before, l, row) = l
  BY DEF Entered
<1>. HIDE DEF p
<1>3. Append(l.open, p) \in Seq(Positions(feed))
  BY <1>1, AppendProperties DEF Balanced, Ledgers
<1>4. [l EXCEPT !.open = Append(@, p)] \in Balanced(feed)
  BY <1>3, Reopened
<1>. QED BY <1>2, <1>4

(***************************************************************************)
(* A tick keeps the balance.                                               *)
(***************************************************************************)

\* The exits of a tick visit one position after the other.
LEMMA ExitsBalance ==
    ASSUME NEW feed, NEW cursor, NEW ledger \in Balanced(feed)
    PROVE  Exits(feed, cursor, ledger) \in Balanced(feed)
<1>. DEFINE X == Balanced(feed)
            seq == ledger.open
            n == Len(seq)
            base == Unvisited(ledger)
            F == [a \in X \X (1 .. n) |-> Visited(feed, cursor, a[1], seq[a[2]])]
            P(g) == g = [s \in SUBSET (DOMAIN seq) |->
                IF s = {} THEN base ELSE Visited(feed, cursor, g[s \ {Max(s)}], seq[Max(s)])]
            G == CHOOSE g : P(g)
<1>1. Exits(feed, cursor, ledger) = G[DOMAIN seq]
  BY DEF Exits, FoldLeft, MapThenFoldSet
<1>2. n \in Nat /\ DOMAIN seq = 1 .. n /\ \A k \in 1 .. n : seq[k] \in Positions(feed)
  <2>1. seq \in Seq(Positions(feed))
    BY DEF Balanced, Ledgers
  <2>. QED BY <2>1, LenProperties, ElementOfSeq
<1>3. /\ F \in Steps(X, n)
      /\ \A x \in X : \A k \in 1 .. n : F[<<x, k>>] = Visited(feed, cursor, x, seq[k])
  <2>1. \A x \in X : \A k \in 1 .. n : Visited(feed, cursor, x, seq[k]) \in X
    <3>. HIDE DEF seq, n
    <3>. QED BY <1>2, VisitBooks
  <2>. HIDE DEF X, seq, n
  <2>. QED BY <2>1 DEF Steps
<1>4. base \in X
  BY UnvisitedBalances
<1>. HIDE DEF X, F, n, seq, base
<1>5. PICK g : Solves(g, X, n, base, F)
  BY <1>2, <1>3, <1>4, FoldExists
<1>6. P(g)
  <2>1. ASSUME NEW s \in SUBSET (1 .. n), s # {}
        PROVE  g[s] = Visited(feed, cursor, g[s \ {Max(s)}], seq[Max(s)])
    <3>1. /\ Max(s) \in 1 .. n /\ g[s \ {Max(s)}] \in X
          /\ g[s] = F[<<g[s \ {Max(s)}], Max(s)>>]
      BY <1>5, <2>1 DEF Solves
    <3>. QED BY <1>3, <3>1
  <2>. QED BY <1>2, <1>5, <2>1 DEF Solves
<1>7. P(G)
  <2>. HIDE DEF P
  <2>. QED BY <1>6
<1>. HIDE DEF G
<1>8. Follows(G, X, n, base, F)
  BY <1>2, <1>3, <1>7 DEF Follows
<1>9. PICK h : Trail(h, X, n, base, F) /\ G[1 .. n] = h[n]
  BY <1>2, <1>3, <1>4, <1>8, HasTrail
<1>10. h[n] \in X
  BY <1>2, <1>9 DEF Trail
<1>. QED BY <1>1, <1>2, <1>9, <1>10 DEF X

\* The entries of a tick look at one pair after the other.
LEMMA EntriesBalance ==
    ASSUME NEW feed, NEW cursor \in Cursors(feed), NEW before, NEW ledger \in Balanced(feed)
    PROVE  Entries(feed, cursor, before, ledger) \in Balanced(feed)
<1>. DEFINE X == Balanced(feed)
            seq == Quality
            n == Len(seq)
            F == [a \in X \X (1 .. n) |-> Entered(feed, cursor, before, a[1], seq[a[2]])]
            P(g) == g = [s \in SUBSET (DOMAIN seq) |->
                IF s = {} THEN ledger
                ELSE Entered(feed, cursor, before, g[s \ {Max(s)}], seq[Max(s)])]
            G == CHOOSE g : P(g)
<1>1. Entries(feed, cursor, before, ledger) = G[DOMAIN seq]
  BY DEF Entries, FoldLeft, MapThenFoldSet
<1>2. n \in Nat /\ DOMAIN seq = 1 .. n /\ \A k \in 1 .. n : seq[k].pair \in Listed \X Listed
  <2>. DEFINE R == [source : ValidSources, pair : Listed \X Listed]
  <2>1. seq \in Seq(R) /\ \A row \in R : row.pair \in Listed \X Listed
    BY QualityAssumption
  <2>. HIDE DEF R, seq
  <2>2. \A k \in 1 .. Len(seq) : seq[k] \in R
    BY <2>1, LenProperties, ElementOfSeq
  <2>. QED BY <2>1, <2>2, LenProperties
<1>3. /\ F \in Steps(X, n)
      /\ \A x \in X : \A k \in 1 .. n :
            F[<<x, k>>] = Entered(feed, cursor, before, x, seq[k])
  <2>1. \A x \in X : \A k \in 1 .. n : Entered(feed, cursor, before, x, seq[k]) \in X
    <3>. HIDE DEF seq, n
    <3>. QED BY <1>2, EntryBooks
  <2>. HIDE DEF X, seq, n
  <2>. QED BY <2>1 DEF Steps
<1>4. ledger \in X
  OBVIOUS
<1>. HIDE DEF X, F, n, seq
<1>5. PICK g : Solves(g, X, n, ledger, F)
  BY <1>2, <1>3, <1>4, FoldExists
<1>6. P(g)
  <2>1. ASSUME NEW s \in SUBSET (1 .. n), s # {}
        PROVE  g[s] = Entered(feed, cursor, before, g[s \ {Max(s)}], seq[Max(s)])
    <3>1. /\ Max(s) \in 1 .. n /\ g[s \ {Max(s)}] \in X
          /\ g[s] = F[<<g[s \ {Max(s)}], Max(s)>>]
      BY <1>5, <2>1 DEF Solves
    <3>. QED BY <1>3, <3>1
  <2>. QED BY <1>2, <1>5, <2>1 DEF Solves
<1>7. P(G)
  <2>. HIDE DEF P
  <2>. QED BY <1>6
<1>. HIDE DEF G
<1>8. Follows(G, X, n, ledger, F)
  BY <1>2, <1>3, <1>7 DEF Follows
<1>9. PICK h : Trail(h, X, n, ledger, F) /\ G[1 .. n] = h[n]
  BY <1>2, <1>3, <1>4, <1>8, HasTrail
<1>10. h[n] \in X
  BY <1>2, <1>9 DEF Trail
<1>. QED BY <1>1, <1>2, <1>9, <1>10 DEF X

\* A tick is its exits and then its entries.
LEMMA TickBalances ==
    ASSUME NEW feed, NEW cursor \in Cursors(feed), NEW ledger \in Balanced(feed)
    PROVE  RunTick(feed, ledger, cursor) \in Balanced(feed)
BY ExitsBalance, EntriesBalance DEF RunTick

(***************************************************************************)
(* The bars of a run, in portions.                                         *)
(***************************************************************************)

\* The k-th of the bars after `bar'.
Bar(feed, bar, k) == Timeline(feed)[bar + k]
Walks(feed, bar, n) ==
    [a \in Balanced(feed) \X (1 .. n) |-> RunTick(feed, a[1], Bar(feed, bar, a[2]))]

\* n bars from one on are walked one after the other.
LEMMA TicksTrail ==
    ASSUME NEW feed, NEW ledger \in Balanced(feed), NEW bar \in Nat, NEW n \in Nat
    PROVE  \E h : /\ Trail(h, Balanced(feed), n, ledger, Walks(feed, bar, n))
                  /\ Ticks(feed, ledger, bar + 1, bar + n) = h[n]
<1>. DEFINE X == Balanced(feed)
            seq == SubSeq(Timeline(feed), bar + 1, bar + n)
            F == Walks(feed, bar, n)
            P(g) == g = [s \in SUBSET (DOMAIN seq) |->
                IF s = {} THEN ledger ELSE RunTick(feed, g[s \ {Max(s)}], seq[Max(s)])]
            G == CHOOSE g : P(g)
<1>1. Ticks(feed, ledger, bar + 1, bar + n) = G[DOMAIN seq]
  BY DEF Ticks, FoldLeft, MapThenFoldSet
<1>2. DOMAIN seq = 1 .. n /\ \A k \in 1 .. n : seq[k] = Bar(feed, bar, k)
  <2>1. seq = [i \in 1 .. (1 + (bar + n) - (bar + 1)) |-> Timeline(feed)[i + (bar + 1) - 1]]
    OBVIOUS
  <2>2. 1 + (bar + n) - (bar + 1) = n
    OBVIOUS
  <2>3. ASSUME NEW k \in 1 .. n PROVE k + (bar + 1) - 1 = bar + k
    OBVIOUS
  <2>. HIDE DEF seq
  <2>. QED BY <2>1, <2>2, <2>3 DEF Bar
<1>3. /\ F \in Steps(X, n)
      /\ \A x \in X : \A k \in 1 .. n : F[<<x, k>>] = RunTick(feed, x, Bar(feed, bar, k))
  <2>1. \A k \in 1 .. n : Bar(feed, bar, k) \in Cursors(feed)
    BY DEF Bar, Cursors
  <2>2. \A x \in X : \A k \in 1 .. n : RunTick(feed, x, Bar(feed, bar, k)) \in X
    BY <2>1, TickBalances
  <2>. HIDE DEF X
  <2>. QED BY <2>2 DEF Steps, Walks, X
<1>4. ledger \in X
  OBVIOUS
<1>. HIDE DEF X, F, seq
<1>5. PICK g : Solves(g, X, n, ledger, F)
  BY <1>3, <1>4, FoldExists
<1>6. P(g)
  <2>1. ASSUME NEW s \in SUBSET (1 .. n), s # {}
        PROVE  g[s] = RunTick(feed, g[s \ {Max(s)}], seq[Max(s)])
    <3>1. /\ Max(s) \in 1 .. n /\ g[s \ {Max(s)}] \in X
          /\ g[s] = F[<<g[s \ {Max(s)}], Max(s)>>]
      BY <1>5, <2>1 DEF Solves
    <3>. QED BY <1>2, <1>3, <3>1
  <2>. QED BY <1>2, <1>5, <2>1 DEF Solves
<1>7. P(G)
  <2>. HIDE DEF P
  <2>. QED BY <1>6
<1>. HIDE DEF G
<1>8. Follows(G, X, n, ledger, F)
  <2>1. G[{}] = ledger
    BY <1>7
  <2>2. ASSUME NEW s \in SUBSET (1 .. n), s # {} PROVE G[s] = RunTick(feed, G[s \ {Max(s)}], seq[Max(s)])
    BY <1>2, <1>7, <2>2
  <2>. HIDE DEF P
  <2>3. ASSUME NEW s \in SUBSET (1 .. n), s # {}, Max(s) \in 1 .. n, G[s \ {Max(s)}] \in X
        PROVE  G[s] = F[<<G[s \ {Max(s)}], Max(s)>>]
    BY <1>2, <1>3, <2>2, <2>3
  <2>. QED BY <2>1, <2>3 DEF Follows
<1>9. \E h : Trail(h, X, n, ledger, F) /\ G[1 .. n] = h[n]
  BY <1>3, <1>4, <1>8, HasTrail
<1>. QED BY <1>1, <1>2, <1>9 DEF X, F

\* The bars from the first on, walked at once.
LEMMA FromTheStart ==
    ASSUME NEW feed, NEW ledger \in Balanced(feed), NEW n \in Nat
    PROVE  \E h : /\ Trail(h, Balanced(feed), n, ledger, Walks(feed, 0, n))
                  /\ Ticks(feed, ledger, 1, n) = h[n]
<1>. DEFINE bar == 0
<1>1. bar \in Nat /\ bar + 1 = 1 /\ bar + n = n
  OBVIOUS
<1>. HIDE DEF bar
<1>2. \E h : /\ Trail(h, Balanced(feed), n, ledger, Walks(feed, bar, n))
             /\ Ticks(feed, ledger, bar + 1, bar + n) = h[n]
  BY <1>1, TicksTrail
<1>3. \E h : /\ Trail(h, Balanced(feed), n, ledger, Walks(feed, bar, n))
             /\ Ticks(feed, ledger, 1, n) = h[n]
  BY <1>1, <1>2
<1>. QED BY <1>3 DEF bar

\* The bars keep the balance, and none change nothing.
LEMMA TicksBalance ==
    ASSUME NEW feed, NEW ledger \in Balanced(feed), NEW n \in Nat
    PROVE  /\ Ticks(feed, ledger, 1, n) \in Balanced(feed)
           /\ n = 0 => Ticks(feed, ledger, 1, n) = ledger
<1>1. PICK h : /\ Trail(h, Balanced(feed), n, ledger, Walks(feed, 0, n))
               /\ Ticks(feed, ledger, 1, n) = h[n]
  BY FromTheStart
<1>2. n \in 0 .. n
  OBVIOUS
<1>3. h[n] \in Balanced(feed) /\ h[0] = ledger
  BY <1>1, <1>2 DEF Trail
<1>. QED BY <1>1, <1>3

\* Walking m bars and then n more is walking m + n.
LEMMA TicksCompose ==
    ASSUME NEW feed, NEW ledger \in Balanced(feed), NEW m \in Nat, NEW n \in Nat
    PROVE  Ticks(feed, Ticks(feed, ledger, 1, m), m + 1, m + n) = Ticks(feed, ledger, 1, m + n)
<1>. DEFINE X == Balanced(feed)
            all == m + n
            half == Ticks(feed, ledger, 1, m)
            E == Walks(feed, 0, m)
            F == Walks(feed, 0, all)
            D == Walks(feed, m, n)
            L(k) == m + k
<1>1. all \in Nat /\ m <= all
  OBVIOUS
<1>2. half \in X
  BY TicksBalance
<1>3. PICK g : Trail(g, X, m, ledger, E) /\ half = g[m]
  BY FromTheStart
<1>4. PICK h : Trail(h, X, all, ledger, F) /\ Ticks(feed, ledger, 1, all) = h[all]
  <2>. HIDE DEF all
  <2>. QED BY <1>1, FromTheStart
<1>5. PICK e : Trail(e, X, n, half, D) /\ Ticks(feed, half, m + 1, all) = e[n]
  <2>. HIDE DEF half
  <2>. QED BY <1>2, TicksTrail
<1>6. \A x \in X : \A k \in 1 .. m :
          E[<<x, k>>] = RunTick(feed, x, Bar(feed, 0, k))
  BY DEF Walks
<1>7. \A x \in X : \A k \in 1 .. all :
          F[<<x, k>>] = RunTick(feed, x, Bar(feed, 0, k))
  BY DEF Walks
<1>8. \A x \in X : \A k \in 1 .. n :
          D[<<x, k>>] = RunTick(feed, x, Bar(feed, m, k))
  BY DEF Walks
<1>9. \A k \in 1 .. n : Bar(feed, m, k) = Bar(feed, 0, m + k)
  <2>1. \A k \in 1 .. n : 0 + (m + k) = m + k
    OBVIOUS
  <2>. QED BY <2>1 DEF Bar
<1>10. half = h[m]
  <2>1. Agree(E, F, X, m)
    <3>1. \A k \in 1 .. m : k \in 1 .. all
      OBVIOUS
    <3>. HIDE DEF X, E, F, all
    <3>. QED BY <1>6, <1>7, <3>1 DEF Agree
  <2>. HIDE DEF X, E, F, all
  <2>2. \A k \in 0 .. m : g[k] = h[k]
    BY <1>1, <1>3, <1>4, <2>1, SameTrail
  <2>. QED BY <1>3, <2>2
<1>11. \A k \in 0 .. n : e[k] = h[m + k]
  <2>. DEFINE r == [k \in 0 .. n |-> h[m + k]]
  <2>1. Trail(r, X, n, half, D)
    <3>1. r[0] = half
      BY <1>10
    <3>2. \A k \in 0 .. n : m + k \in 0 .. all
      OBVIOUS
    <3>3. ASSUME NEW k \in 1 .. n PROVE r[k] = D[<<r[k - 1], k>>]
      <4>1. m + k \in 1 .. all /\ (m + k) - 1 = m + (k - 1) /\ k - 1 \in 0 .. n /\ k \in 0 .. n
            /\ m + (k - 1) \in 0 .. all
        OBVIOUS
      <4>2. r[k] = h[m + k] /\ r[k - 1] = h[m + (k - 1)]
        BY <4>1
      <4>. HIDE DEF r, X, D, F, all
      <4>3. h[m + k] = F[<<h[m + (k - 1)], m + k>>] /\ h[m + (k - 1)] \in X
        BY <1>4, <4>1 DEF Trail
      <4>. QED BY <1>7, <1>8, <1>9, <4>1, <4>2, <4>3
    <3>4. r \in [0 .. n -> X]
      <4>. HIDE DEF X, F, all
      <4>. QED BY <1>4, <3>2 DEF Trail
    <3>. HIDE DEF r, D, X, half
    <3>. QED BY <3>1, <3>3, <3>4 DEF Trail
  <2>2. Agree(D, D, X, n)
    BY DEF Agree
  <2>3. n <= n
    OBVIOUS
  <2>. HIDE DEF r, D, X, half
  <2>4. \A k \in 0 .. n : e[k] = r[k]
    BY <1>5, <2>1, <2>2, <2>3, SameTrail
  <2>. QED BY <2>4 DEF r
<1>12. n \in 0 .. n
  OBVIOUS
<1>. QED BY <1>4, <1>5, <1>11, <1>12

(***************************************************************************)
(* The forced closes at the end.                                           *)
(***************************************************************************)

ComesLast(s, t, e) == Append(s \o t, e) = s \o Append(t, e)

\* What is appended comes after the whole.
LEMMA AppendedLast ==
    ASSUME NEW S, NEW s \in Seq(S), NEW t \in Seq(S), NEW e \in S
    PROVE  ComesLast(s, t, e)
<1>1. s \o t \in Seq(S) /\ <<e>> \in Seq(S)
  BY ConcatProperties
<1>2. Append(s \o t, e) = (s \o t) \o <<e>>
  BY <1>1, AppendIsConcat
<1>3. (s \o t) \o <<e>> = s \o (t \o <<e>>)
  BY <1>1, ConcatAssociative
<1>4. Append(t, e) = t \o <<e>>
  BY AppendIsConcat
<1>. QED BY <1>2, <1>3, <1>4 DEF ComesLast

\* The first k forced closes.
Forcing(ledger, k) ==
    [i \in 1 .. k |-> [pair |-> ledger.open[i].pair, reason |-> "END_OF_REPLAY"]]

\* Each position that is open at the end is closed, in order.
LEMMA ClosingBooks ==
    ASSUME NEW feed, NEW ledger \in Balanced(feed)
    PROVE  /\ CloseRemaining(ledger) \in Balanced(feed)
           /\ CloseRemaining(ledger).trades = ledger.trades \o Forced(ledger)
<1>. DEFINE X == Balanced(feed)
            seq == ledger.open
            n == Len(seq)
            base == Unvisited(ledger)
            why == "END_OF_REPLAY"
            F == [a \in X \X (1 .. n) |-> Closed(a[1], seq[a[2]], why)]
            P(g) == g = [s \in SUBSET (DOMAIN seq) |->
                IF s = {} THEN base ELSE Closed(g[s \ {Max(s)}], seq[Max(s)], why)]
            G == CHOOSE g : P(g)
<1>1. CloseRemaining(ledger) = G[DOMAIN seq]
  BY DEF CloseRemaining, FoldLeft, MapThenFoldSet
<1>2. n \in Nat /\ DOMAIN seq = 1 .. n /\ \A k \in 1 .. n : seq[k] \in Positions(feed)
  <2>1. seq \in Seq(Positions(feed))
    BY DEF Balanced, Ledgers
  <2>. QED BY <2>1, LenProperties, ElementOfSeq
<1>3. why \in Reasons
  BY DEF Reasons
<1>4. /\ F \in Steps(X, n)
      /\ \A x \in X : \A k \in 1 .. n : F[<<x, k>>] = Closed(x, seq[k], why)
  <2>1. \A x \in X : \A k \in 1 .. n : Closed(x, seq[k], why) \in X
    <3>. HIDE DEF seq, n, why
    <3>. QED BY <1>2, <1>3, CloseBooks
  <2>. HIDE DEF X, seq, n
  <2>. QED BY <2>1 DEF Steps
<1>5. base \in X /\ base.trades = ledger.trades
  BY UnvisitedBalances
<1>. HIDE DEF X, F, n, base
<1>6. PICK g : Solves(g, X, n, base, F)
  BY <1>2, <1>4, <1>5, FoldExists
<1>7. P(g)
  <2>1. ASSUME NEW s \in SUBSET (1 .. n), s # {}
        PROVE  g[s] = Closed(g[s \ {Max(s)}], seq[Max(s)], why)
    <3>1. /\ Max(s) \in 1 .. n /\ g[s \ {Max(s)}] \in X
          /\ g[s] = F[<<g[s \ {Max(s)}], Max(s)>>]
      BY <1>6, <2>1 DEF Solves
    <3>. QED BY <1>4, <3>1
  <2>. QED BY <1>2, <1>6, <2>1 DEF Solves
<1>8. P(G)
  <2>. HIDE DEF P
  <2>. QED BY <1>7
<1>. HIDE DEF G
<1>9. Follows(G, X, n, base, F)
  BY <1>2, <1>4, <1>8 DEF Follows
<1>. HIDE DEF P
<1>10. PICK h : Trail(h, X, n, base, F) /\ G[1 .. n] = h[n]
  BY <1>2, <1>4, <1>5, <1>9, HasTrail
<1>. DEFINE S == {k \in 0 .. n : h[k].trades = ledger.trades \o Forcing(ledger, k)}
<1>11. ledger.trades \in Seq(Closes)
  BY DEF Balanced, Ledgers
<1>12. \A k \in 0 .. n : Forcing(ledger, k) \in Seq(Closes) /\ Len(Forcing(ledger, k)) = k
  <2>1. ASSUME NEW k \in 0 .. n, NEW i \in 1 .. k
        PROVE  [pair |-> seq[i].pair, reason |-> why] \in Closes
    <3>1. i \in 1 .. n
      BY <1>2
    <3>. QED BY <1>2, <1>3, <3>1 DEF Positions, Closes
  <2>. QED BY <1>2, <2>1 DEF Forcing
<1>13. 0 \in S
  <2>1. Forcing(ledger, 0) = <<>>
    BY DEF Forcing
  <2>2. ledger.trades \o <<>> = ledger.trades
    BY <1>11
  <2>3. h[0].trades = ledger.trades
    BY <1>5, <1>10 DEF Trail
  <2>4. 0 \in 0 .. n
    BY <1>2
  <2>5. h[0].trades = ledger.trades \o Forcing(ledger, 0)
    BY <2>1, <2>2, <2>3
  <2>. QED BY <2>4, <2>5
<1>14. ASSUME NEW k \in 1 .. n, k - 1 \in S PROVE k \in S
  <2>. DEFINE close == [pair |-> seq[k].pair, reason |-> why]
              done == Forcing(ledger, k - 1)
  <2>1. k - 1 \in 0 .. n /\ k \in 0 .. n
    BY <1>2
  <2>2. h[k] = Closed(h[k - 1], seq[k], why) /\ h[k - 1] \in X
    BY <1>4, <1>10, <2>1 DEF Trail
  <2>3. h[k].trades = Append(h[k - 1].trades, close)
    BY <1>2, <1>3, <2>2, CloseBooks DEF X
  <2>4. done \in Seq(Closes) /\ close \in Closes
    BY <1>2, <1>3, <1>12, <2>1 DEF Positions, Closes
  <2>5. Append(done, close) = Forcing(ledger, k)
    BY <1>2, <2>1 DEF Forcing
  <2>6. h[k - 1].trades = ledger.trades \o done
    BY <1>14
  <2>. HIDE DEF close, done
  <2>7. Append(ledger.trades \o done, close) = ledger.trades \o Append(done, close)
    <3>. DEFINE old == ledger.trades
                C == Closes
    <3>1. old \in Seq(C) /\ done \in Seq(C) /\ close \in C
      BY <1>11, <2>4
    <3>. HIDE DEF old, C
    <3>2. ComesLast(old, done, close)
      BY <3>1, AppendedLast
    <3>. QED BY <3>2 DEF old, ComesLast
  <2>. QED BY <2>1, <2>3, <2>5, <2>6, <2>7
<1>15. \A k \in 0 .. n : k \in S
  <2>. HIDE DEF S
  <2>. QED BY <1>2, <1>13, <1>14, Along
<1>16. n \in 0 .. n
  BY <1>2
<1>17. Forcing(ledger, n) = Forced(ledger)
  BY <1>2 DEF Forcing, Forced
<1>18. h[n] \in X /\ h[n].trades = ledger.trades \o Forced(ledger)
  BY <1>10, <1>15, <1>16, <1>17 DEF Trail
<1>. QED BY <1>1, <1>2, <1>10, <1>18 DEF X

(***************************************************************************)
(* The invariant: the ledger of a walk is that of the bars it has walked.  *)
(***************************************************************************)
Told(row, task) ==
    LET before == Ticks(Feed(task), Flat, 1, row.processed)
    IN  /\ row.trades = before.trades \o Forced(before)
        /\ row.final = Starting + Earned(row.trades)

RowBooks(row, task) ==
    /\ task.pc \in {"start", "load"} => task.bar = 0 /\ task.ledger = Flat
    /\ task.pc = "walk" => task.ledger = Ticks(Feed(task), Flat, 1, task.bar)
    /\ row.status \in {"COMPLETED", "STOPPED"} => task.pc = "done" /\ Told(row, task)

BooksOK == \A r \in 1 .. Len(runs) : RowBooks(runs[r], tasks[r])

\* Only the run that steps has to be looked at.
LEMMA OneRunBooks ==
    ASSUME ReplayOK, BooksOK, NEW r \in 1 .. Len(runs), NEW row, NEW task, Step(r, row, task),
           RowBooks(row, task)
    PROVE  BooksOK'
<1>1. Len(runs) \in Nat /\ DOMAIN runs = 1 .. Len(runs) /\ DOMAIN tasks = 1 .. Len(runs)
  BY DomainOfRuns
<1>2. Len(runs') = Len(runs) /\ \A i \in 1 .. Len(runs) :
          runs'[i] = IF i = r THEN row ELSE runs[i]
  <2>. DEFINE x == [runs EXCEPT ![r] = row]
  <2>1. Len(x) = Len(runs) /\ \A i \in 1 .. Len(runs) : x[i] = IF i = r THEN row ELSE runs[i]
    BY SeqUpdated DEF ReplayOK
  <2>2. runs' = x
    BY DEF Step
  <2>. HIDE DEF x
  <2>. QED BY <2>1, <2>2
<1>3. \A i \in 1 .. Len(runs) : tasks'[i] = IF i = r THEN task ELSE tasks[i]
  BY <1>1 DEF Step
<1>. QED BY <1>2, <1>3 DEF BooksOK

\* A run that has not ended has told nothing yet.
LEMMA StillRunning ==
    ASSUME ReplayOK, BooksOK, NEW r, Working(r), NEW pc, NEW task, task.pc = pc,
           pc \notin {"start", "load", "walk"}
    PROVE  RowBooks(runs[r], task)
BY DEF Working, RowOK, RowBooks

\* A database error leads to no books.
LEMMA DbFailsBooks ==
    ASSUME ReplayOK, BooksOK, NEW r, Working(r), DbFails(r) PROVE BooksOK'
<1>. DEFINE task == Goes(r, "failing")
            pc == "failing"
<1>1. task.pc = pc /\ Step(r, runs[r], task) /\ r \in 1 .. Len(runs)
  BY TaskGoes DEF DbFails, Working
<1>2. RowBooks(runs[r], task)
  BY <1>1, StillRunning
<1>. HIDE DEF task
<1>. QED BY <1>1, <1>2, OneRunBooks

\* The pairs and the source are read before the first bar.
LEMMA ReadPairsBooks ==
    ASSUME ReplayOK, BooksOK, NEW r \in DOMAIN runs, ReadPairs(r) PROVE BooksOK'
<1>1. Working(r) /\ tasks[r].pc = "start"
  BY AtWork DEF ReadPairs
<1>2. CASE DbFails(r)
  BY <1>1, <1>2, DbFailsBooks
<1>3. CASE ~ DbFails(r)
  <2>. DEFINE pairs == LatestPairs(tasks[r].exchange)
              pc == IF pairs = {} THEN "failing" ELSE "load"
              t == tasks[r]
              from == tables[t.exchange].from
              source == CandleSource(t.exchange)
              task == [t EXCEPT !.pc = pc, !.pairs = pairs, !.from = from, !.source = source]
  <2>1. Step(r, runs[r], task) /\ pc \in {"failing", "load"}
    BY <1>3 DEF ReadPairs
  <2>2. RowOK(runs[r], t) /\ RowBooks(runs[r], t) /\ r \in 1 .. Len(runs)
    BY <1>1 DEF Working, BooksOK
  <2>. HIDE DEF pairs, pc, from, source
  <2>3. task.pc = pc /\ task.bar = t.bar /\ task.ledger = t.ledger
    BY <2>2 DEF RowOK, IsTask
  <2>4. RowBooks(runs[r], task)
    BY <1>1, <2>1, <2>2, <2>3 DEF RowBooks, RowOK
  <2>. HIDE DEF task
  <2>. QED BY <2>1, <2>2, <2>4, OneRunBooks
<1>. QED BY <1>2, <1>3

\* The walk begins flat, before the first bar.
LEMMA LoadHistoryBooks ==
    ASSUME ReplayOK, BooksOK, NEW r \in DOMAIN runs, LoadHistory(r) PROVE BooksOK'
<1>. DEFINE t == tasks[r]
            old == runs[r]
<1>1. /\ Working(r) /\ t.pc = "load" /\ old.status = "RUNNING"
      /\ RowOK(old, t) /\ RowBooks(old, t) /\ r \in 1 .. Len(runs)
  BY AtWork DEF LoadHistory, Working, RowOK, BooksOK
<1>2. CASE DbFails(r)
  BY <1>1, <1>2, DbFailsBooks
<1>3. CASE Step(r, old, Goes(r, "failing"))
  <2>. DEFINE task == Goes(r, "failing")
              pc == "failing"
  <2>1. task.pc = pc
    BY <1>1, TaskGoes
  <2>2. RowBooks(old, task)
    BY <1>1, <2>1, StillRunning
  <2>. HIDE DEF task
  <2>. QED BY <1>1, <1>3, <2>2, OneRunBooks DEF task
<1>4. CASE Step(r, [runs[r] EXCEPT !.total = Cardinality(TimelineHours(Feed(tasks[r])))],
                Goes(r, "walk"))
  <2>. DEFINE total == Cardinality(TimelineHours(Feed(tasks[r])))
              row == [old EXCEPT !.total = total]
              task == Goes(r, "walk")
  <2>. HIDE DEF total
  <2>1. row.status = old.status
    BY <1>1 DEF RowOK, IsRow
  <2>2. task.pc = "walk" /\ task.bar = t.bar /\ task.ledger = t.ledger
    BY <1>1 DEF RowOK, IsTask, Goes
  <2>3. t.bar = 0 /\ t.ledger = Flat
    BY <1>1 DEF RowBooks
  <2>4. Ticks(Feed(task), Flat, 1, 0) = Flat
    <3>. DEFINE zero == 0
    <3>1. zero \in Nat /\ zero = 0
      OBVIOUS
    <3>. HIDE DEF zero
    <3>. QED BY <3>1, FlatBalanced, TicksBalance
  <2>5. Step(r, row, task)
    BY <1>4 DEF total
  <2>. HIDE DEF row, task
  <2>6. RowBooks(row, task)
    BY <1>1, <2>1, <2>2, <2>3, <2>4 DEF RowBooks
  <2>. QED BY <1>1, <2>5, <2>6, OneRunBooks
<1>. QED BY <1>2, <1>3, <1>4 DEF LoadHistory

\* What is walked next goes on from what was walked before.
LEMMA WalkBooks ==
    ASSUME ReplayOK, BooksOK, NEW r \in DOMAIN runs, Walk(r) PROVE BooksOK'
<1>1. Working(r) /\ tasks[r].pc = "walk" /\ runs[r].status = "RUNNING"
  BY AtWork DEF Walk, Working, RowOK
<1>2. CASE DbFails(r)
  BY <1>1, <1>2, DbFailsBooks
<1>3. CASE ~ DbFails(r)
  <2>. DEFINE next == IF NextReport(r) + 1 < runs[r].total THEN NextReport(r) + 1
                      ELSE runs[r].total
              old == runs[r]
              t == tasks[r]
              processed == IF NextReport(r) < runs[r].total THEN next ELSE old.processed
              ledger == Ticks(Feed(t), t.ledger, t.bar + 1, next)
              row == [old EXCEPT !.processed = processed]
              task == [t EXCEPT !.bar = next, !.ledger = ledger]
  <2>1. RowOK(old, t) /\ RowBooks(old, t) /\ r \in 1 .. Len(runs)
    BY <1>1 DEF Working, BooksOK
  <2>2. NextReport(r) \in Nat /\ NextReport(r) >= t.bar /\ t.bar \in 0 .. old.total
        /\ old.total \in Nat
    BY <2>1, ReportIsAhead DEF RowOK, IsRow, IsTask
  <2>3. next \in Nat /\ t.bar \in Nat /\ next - t.bar \in Nat
    BY <2>2
  <2>4. Step(r, row, task)
    <3>1. [runs[r] EXCEPT !.processed = IF NextReport(r) < runs[r].total THEN next ELSE @] = row
      OBVIOUS
    <3>2. [tasks[r] EXCEPT !.bar = next,
                           !.ledger = Ticks(Feed(tasks[r]), @, tasks[r].bar + 1, next)] = task
      OBVIOUS
    <3>. QED BY <1>3, <3>1, <3>2 DEF Walk
  <2>5. ledger = Ticks(Feed(t), Flat, 1, next)
    <3>. DEFINE feed == Feed(t)
                m == t.bar
                n == next - t.bar
    <3>1. m \in Nat /\ n \in Nat /\ m + n = next
      BY <2>3
    <3>2. t.ledger = Ticks(feed, Flat, 1, m)
      BY <1>1, <2>1 DEF RowBooks
    <3>. HIDE DEF n, next, feed
    <3>3. Ticks(feed, Ticks(feed, Flat, 1, m), m + 1, m + n) = Ticks(feed, Flat, 1, m + n)
      BY <3>1, FlatBalanced, TicksCompose
    <3>. QED BY <3>1, <3>2, <3>3 DEF feed
  <2>. HIDE DEF next, processed, ledger
  <2>6. row.status = old.status
    BY <2>1 DEF RowOK, IsRow
  <2>7. /\ task.pc = "walk" /\ task.bar = next /\ task.ledger = ledger
        /\ Feed(task) = Feed(t)
    BY <1>1, <2>1 DEF RowOK, IsTask, Feed
  <2>. HIDE DEF row, task
  <2>8. RowBooks(row, task)
    BY <1>1, <2>5, <2>6, <2>7 DEF RowBooks
  <2>. QED BY <2>1, <2>4, <2>8, OneRunBooks
<1>. QED BY <1>2, <1>3

\* The row tells what was walked, and the forced closes.
LEMMA FinaliseBooks ==
    ASSUME ReplayOK, BooksOK, NEW r \in DOMAIN runs, Finalise(r) PROVE BooksOK'
<1>1. Working(r) /\ tasks[r].pc = "walk"
  BY AtWork DEF Finalise
<1>2. CASE DbFails(r)
  BY <1>1, <1>2, DbFailsBooks
<1>3. CASE ~ DbFails(r)
  <2>. DEFINE old == runs[r]
              t == tasks[r]
              task == Goes(r, "done")
              ledger == CloseRemaining(t.ledger)
              closed == ledger.trades
              capital == ledger.capital
              bar == t.bar
              status == IF bar < old.total THEN "STOPPED" ELSE "COMPLETED"
              row == [old EXCEPT !.status = status, !.processed = bar,
                                 !.trades = closed, !.final = capital]
              before == Ticks(Feed(t), Flat, 1, bar)
  <2>1. RowOK(old, t) /\ RowBooks(old, t) /\ r \in 1 .. Len(runs)
    BY <1>1 DEF Working, BooksOK
  <2>2. Step(r, row, task)
    BY <1>3 DEF Finalise, Processed
  <2>3. bar \in Nat /\ t.ledger = before
    BY <1>1, <2>1 DEF RowOK, IsTask, RowBooks
  <2>4. /\ closed = before.trades \o Forced(before)
        /\ capital = Starting + Earned(closed)
    <3>. DEFINE feed == Feed(t)
    <3>. HIDE DEF feed
    <3>1. Ticks(feed, Flat, 1, bar) \in Balanced(feed)
      BY <2>3, FlatBalanced, TicksBalance
    <3>2. before \in Balanced(feed)
      BY <3>1 DEF feed
    <3>. HIDE DEF before
    <3>3. /\ CloseRemaining(before) \in Balanced(feed)
          /\ CloseRemaining(before).trades = before.trades \o Forced(before)
      BY <3>2, ClosingBooks
    <3>4. ledger = CloseRemaining(before)
      BY <2>3
    <3>. HIDE DEF ledger
    <3>. QED BY <3>3, <3>4 DEF Balanced
  <2>5. task.pc = "done" /\ Feed(task) = Feed(t)
    BY <2>1 DEF RowOK, IsTask, Goes, Feed
  <2>. HIDE DEF status, closed, capital, ledger, bar
  <2>6. row.processed = bar /\ row.trades = closed /\ row.final = capital
    BY <2>1 DEF RowOK, IsRow
  <2>. HIDE DEF row, task
  <2>7. Told(row, task)
    BY <2>4, <2>5, <2>6 DEF Told
  <2>8. RowBooks(row, task)
    BY <2>5, <2>7 DEF RowBooks
  <2>. QED BY <2>1, <2>2, <2>8, OneRunBooks
<1>. QED BY <1>2, <1>3

\* A run that failed tells no books.
LEMMA FailBooks ==
    ASSUME ReplayOK, BooksOK, NEW r \in DOMAIN runs, Fail(r) PROVE BooksOK'
<1>. DEFINE old == runs[r]
            task == Goes(r, "done")
            failed == [old EXCEPT !.status = "FAILED"]
<1>1. Working(r) /\ RowOK(old, tasks[r]) /\ r \in 1 .. Len(runs)
  BY AtWork DEF Fail, Working
<1>2. task.pc = "done" /\ RowBooks(old, task)
  BY <1>1, TaskGoes, StillRunning
<1>3. failed.status = "FAILED"
  BY <1>1 DEF RowOK, IsRow
<1>4. Step(r, failed, task) \/ Step(r, old, task)
  BY DEF Fail
<1>. HIDE DEF failed, task
<1>5. RowBooks(failed, task)
  BY <1>2, <1>3 DEF RowBooks
<1>. QED BY <1>1, <1>2, <1>4, <1>5, OneRunBooks

\* A new run has told nothing and walked nothing.
LEMMA CreateReplayBooks ==
    ASSUME ReplayOK, BooksOK, CreateReplay PROVE BooksOK'
<1>1. PICK exchange \in Exchanges,
           window \in Windows \cup (IF settings.source = "fake" THEN {DemoWindow} ELSE {}) :
          /\ runs' = Append(runs, Row)
          /\ tasks' = Append(tasks, [Task EXCEPT !.exchange = exchange,
                                         !.start = window[1], !.end = window[2]])
  BY DEF CreateReplay
<1>. DEFINE start == window[1]
            end == window[2]
            task == [Task EXCEPT !.exchange = exchange, !.start = start, !.end = end]
<1>. HIDE DEF start, end
<1>2. task.pc = "start" /\ task.bar = 0 /\ task.ledger = Flat
  BY DEF Task
<1>3. Row.status = "RUNNING"
  BY DEF Row
<1>4. tasks' = Append(tasks, task) /\ runs' = Append(runs, Row)
  BY <1>1 DEF start, end
<1>. HIDE DEF task
<1>5. RowBooks(Row, task)
  BY <1>2, <1>3 DEF RowBooks
<1>6. Len(runs) \in Nat /\ Len(tasks) = Len(runs)
  BY DomainOfRuns DEF ReplayOK
<1>7. /\ Len(runs') = Len(runs) + 1
      /\ \A i \in 1 .. Len(runs) : runs'[i] = runs[i]
      /\ runs'[Len(runs) + 1] = Row
  BY <1>4, SeqAppended DEF ReplayOK
<1>8. /\ \A i \in 1 .. Len(runs) : tasks'[i] = tasks[i]
      /\ tasks'[Len(runs) + 1] = task
  BY <1>4, <1>6, SeqAppended DEF ReplayOK
<1>9. \A i \in 1 .. Len(runs') : i \in 1 .. Len(runs) \/ i = Len(runs) + 1
  BY <1>6, <1>7
<1>. QED BY <1>5, <1>7, <1>8, <1>9 DEF BooksOK

\* A stop is noted on a row that has told nothing yet.
LEMMA StopReplayBooks ==
    ASSUME ReplayOK, BooksOK, StopReplay PROVE BooksOK'
<1>1. PICK r \in 1 .. Len(runs) :
          IF runs[r].status = "RUNNING"
          THEN stops' = stops \cup {r} /\ runs' = [runs EXCEPT ![r].asked = TRUE]
          ELSE UNCHANGED <<stops, runs>>
  BY DomainOfRuns DEF StopReplay
<1>2. tasks' = tasks
  BY DEF StopReplay
<1>3. CASE runs[r].status # "RUNNING"
  BY <1>1, <1>2, <1>3 DEF BooksOK
<1>4. CASE runs[r].status = "RUNNING"
  <2>. DEFINE old == runs[r]
              row == [old EXCEPT !.asked = TRUE]
              x == [runs EXCEPT ![r] = row]
  <2>1. RowOK(old, tasks[r]) /\ RowBooks(old, tasks[r])
    BY DEF ReplayOK, BooksOK
  <2>2. row.status = old.status
    BY <2>1 DEF RowOK, IsRow
  <2>3. runs' = x
    BY <1>1, <1>4
  <2>. HIDE DEF row
  <2>4. RowBooks(row, tasks[r])
    BY <1>4, <2>1, <2>2 DEF RowBooks
  <2>5. Len(x) = Len(runs) /\ \A i \in 1 .. Len(runs) : x[i] = IF i = r THEN row ELSE runs[i]
    BY SeqUpdated DEF ReplayOK
  <2>. HIDE DEF x
  <2>. QED BY <1>2, <2>3, <2>4, <2>5 DEF BooksOK
<1>. QED BY <1>3, <1>4

\* A restart leaves what was told, and the bars it was told of.
LEMMA ReplayRestartBooks ==
    ASSUME ReplayOK, BooksOK, ReplayRestart PROVE BooksOK'
<1>1. tasks' = [r \in DOMAIN tasks |-> Goes(r, "done")] /\ runs' = runs
  BY DEF ReplayRestart
<1>2. DOMAIN tasks = 1 .. Len(runs)
  BY DomainOfRuns
<1>3. ASSUME NEW r \in 1 .. Len(runs) PROVE RowBooks(runs[r], Goes(r, "done"))
  <2>. DEFINE t == tasks[r]
              task == Goes(r, "done")
  <2>1. RowOK(runs[r], t) /\ RowBooks(runs[r], t)
    BY DEF ReplayOK, BooksOK
  <2>2. task.pc = "done" /\ Feed(task) = Feed(t)
    BY <2>1 DEF RowOK, IsTask, Goes, Feed
  <2>. HIDE DEF task
  <2>3. Told(runs[r], t) => Told(runs[r], task)
    BY <2>2 DEF Told
  <2>4. RowBooks(runs[r], task)
    BY <2>1, <2>2, <2>3 DEF RowBooks
  <2>. QED BY <2>4 DEF task
<1>. QED BY <1>1, <1>2, <1>3 DEF BooksOK

\* A step that leaves the rows and the tasks alone leaves the books alone.
LEMMA BooksKept ==
    ASSUME BooksOK, UNCHANGED <<runs, tasks>> PROVE BooksOK'
BY DEF BooksOK

\* Every step keeps the books.
LEMMA StepBooks == ASSUME IInv, BooksOK, [Next]_deskVars PROVE BooksOK'
<1>1. ReplayOK
  BY DEF IInv
<1>2. CASE Replaying
  <2>1. ASSUME NEW r \in DOMAIN runs, ReplayTask(r) PROVE BooksOK'
    BY <1>1, <2>1, ReadPairsBooks, LoadHistoryBooks, WalkBooks, FinaliseBooks, FailBooks
       DEF ReplayTask
  <2>2. CASE SetFlag
    BY <2>2, BooksKept DEF SetFlag
  <2>. QED
    BY <1>1, <1>2, <2>1, <2>2, CreateReplayBooks, StopReplayBooks DEF Replaying, ReplayStep
<1>3. CASE ChangeSettings \/ Scanning \/ ManualTrading
  BY <1>3, BooksKept DEF ChangeSettings, Scanning, ManualTrading, replayVars
<1>4. CASE Restarting
  BY <1>1, <1>4, ReplayRestartBooks DEF Restarting
<1>5. CASE UNCHANGED deskVars
  BY <1>5, BooksKept DEF deskVars, replayVars
<1>. QED BY <1>2, <1>3, <1>4, <1>5 DEF Next

(***************************************************************************)
(* The theorem.                                                            *)
(***************************************************************************)

\* The books of every run are kept.
THEOREM Bookkeeping == Spec => []BooksOK
<1>1. Init => BooksOK
  BY DEF Init, ReplayInit, BooksOK
<1>2. IInv /\ BooksOK /\ [Next]_deskVars => BooksOK'
  BY StepBooks
<1>. QED BY <1>1, <1>2, Invariance, PTL DEF Spec

\* The row of a fast-forward run that ended by itself or was stopped tells the
\* trades of its first `processed' bars, one forced close for each position
\* they left open, and the capital these earned; and its status is true
\* (run_replay, _close_remaining, _finalise).
THEOREM HonestReplays == Spec => []ReplayIsHonest
<1>1. IInv /\ BooksOK /\ StatusIsHonest => ReplayIsHonest
  <2>. SUFFICES ASSUME IInv, BooksOK, StatusIsHonest PROVE ReplayIsHonest
    OBVIOUS
  <2>1. \A r \in DOMAIN runs : RowBooks(runs[r], tasks[r])
    BY DomainOfRuns DEF IInv, BooksOK
  <2>. QED BY <2>1 DEF ReplayIsHonest, RowBooks, Told
<1>. QED BY <1>1, Invariance, Bookkeeping, Ended, PTL

=============================================================================
