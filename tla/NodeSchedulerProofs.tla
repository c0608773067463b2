------------------------ MODULE NodeSchedulerProofs -------------------------
(***************************************************************************)
(* Proofs about NodeScheduler for any recipes without a cycle, any         *)
(* capacity, number of events, and times: what the scheduler's slots, its  *)
(* line and the calls it has still to make say together, whatever handlers *)
(* call back from inside others.                                           *)
(*                                                                         *)
(* The invariants, each kept by every step. Typed: types, and what a       *)
(* slot's fields imply of each other. Counted: the rooms reserved are      *)
(* those of the runs in flight and of the grants still in the agenda.      *)
(* Lined: a node is in the line exactly while it waits for room, once, and *)
(* a line whose head fits has someone to move it. Registered: every        *)
(* upstream of a requested node counts it among its readers, or is about   *)
(* to. Served, which rests on the others: a pending node has a run, a      *)
(* place in the line, a call that serves it, or a pending upstream that    *)
(* knows it.                                                               *)
(*                                                                         *)
(* NodeResultsProofs goes on with the results.                             *)
(***************************************************************************)
EXTENDS NodeScheduler, SequenceTheorems, FiniteSetTheorems, NaturalsInduction, TLAPS

-----------------------------------------------------------------------------
(* Least numbers, sequences as sets of members, and Among. *)

(* Induction, from the least number for which a claim would fail. *)
Less == {pair \in Nat \X Nat : pair[1] < pair[2]}

LEMMA Least ==
  ASSUME NEW T, T \subseteq Nat, T # {}
  PROVE  \E x \in T : \A y \in T : x <= y
<1>1. IsWellFoundedOn(OpToRel(<, Nat), Nat)
  BY NatLessThanWellFounded
<1>2. OpToRel(<, Nat) = Less
  BY DEF OpToRel, Less
<1>3. IsWellFoundedOn(Less, Nat)
  BY <1>1, <1>2
<1>4. \E x \in T : \A y \in T : ~(<<y, x>> \in Less)
  BY <1>3, WFMin
<1>5. PICK x \in T : \A y \in T : ~(<<y, x>> \in Less)
  BY <1>4
<1>6. ASSUME NEW y \in T PROVE x <= y
  <2>1. x \in Nat /\ y \in Nat /\ ~(<<y, x>> \in Less)
    BY <1>5
  <2>2. ~(y < x)
    BY <2>1 DEF Less
  <2> QED BY <2>1, <2>2
<1> QED BY <1>6

LEMMA Climb ==
  ASSUME NEW n \in Nat, NEW S, 0 \in S, \A i \in 1..n : i - 1 \in S => i \in S
  PROVE  \A i \in 0..n : i \in S
<1> DEFINE T == {i \in 0..n : i \notin S}
<1> SUFFICES ASSUME T # {} PROVE FALSE
  OBVIOUS
<1>1. T \subseteq Nat
  OBVIOUS
<1>2. PICK x \in T : \A y \in T : x <= y
  <2> HIDE DEF T
  <2> QED BY <1>1, Least
<1>3. x # 0 /\ x - 1 \in 0..n
  OBVIOUS
<1>4. x - 1 \notin T
  BY <1>2, <1>3
<1> QED BY <1>3, <1>4

(* A set of naturals up to a bound has a greatest member. *)
LEMMA Greatest ==
  ASSUME NEW b \in Nat, NEW T, T \subseteq 0..b, T # {}
  PROVE  Newest(T) \in T /\ \A x \in T : x <= Newest(T)
<1> DEFINE U == {x \in Nat : \A y \in T : y <= x}
<1>1. b \in U
  OBVIOUS
<1>2. PICK top \in U : \A x \in U : top <= x
  <2>1. U \subseteq Nat /\ U # {}
    BY <1>1
  <2> HIDE DEF U
  <2> QED BY <2>1, Least
<1>3. top \in Nat /\ \A y \in T : y <= top
  BY <1>2
<1>4. top \in T
  <2> SUFFICES ASSUME top \notin T PROVE FALSE
    OBVIOUS
  <2>1. PICK y \in T : TRUE
    OBVIOUS
  <2>2. y \in Nat /\ y <= top /\ y # top
    BY <1>3, <2>1
  <2>3. top - 1 \in Nat
    BY <1>3, <2>2
  <2>4. \A z \in T : z \in Nat /\ z <= top /\ z # top
    BY <1>3
  <2>5. \A z \in T : z <= top - 1
    BY <1>3, <2>4
  <2>6. top - 1 \in U
    BY <2>3, <2>5
  <2> QED BY <1>2, <1>3, <2>3, <2>6
<1>5. \E s \in T : \A other \in T : other <= s
  BY <1>3, <1>4
<1> QED BY <1>5 DEF Newest

-----------------------------------------------------------------------------
(* The members of a sequence. *)
Members(seq) == {seq[i] : i \in 1..Len(seq)}

Keeps(kept, seq, S) ==
  /\ kept[0] = <<>>
  /\ \A i \in 1..Len(seq) : kept[i] = IF seq[i] \in S THEN Append(kept[i - 1], seq[i]) ELSE kept[i - 1]

LEMMA Keeping ==
  ASSUME NEW T, NEW seq \in Seq(T), NEW S
  PROVE  \E kept : Keeps(kept, seq, S) /\ Among(seq, S) = kept[Len(seq)]
<1> DEFINE Upto(f, n) == f = [i \in 0 .. n |-> IF i = 0 THEN <<>> ELSE IF seq[i] \in S THEN Append(f[i - 1], seq[i]) ELSE f[i - 1]]
           R == {n \in 0..Len(seq) : \E f : Upto(f, n)}
           kept == CHOOSE f : Upto(f, Len(seq))
<1>1. Len(seq) \in Nat
  OBVIOUS
<1>2. 0 \in R
  <2> DEFINE f == [i \in 0..0 |-> <<>>]
  <2>1. f = [i \in 0..0 |-> IF i = 0 THEN <<>> ELSE IF seq[i] \in S THEN Append(f[i - 1], seq[i]) ELSE f[i - 1]]
    OBVIOUS
  <2>2. \E h : Upto(h, 0)
    <3> HIDE DEF f
    <3> QED BY <2>1
  <2> QED BY <1>1, <2>2
<1>3. ASSUME NEW n \in 1..Len(seq), n - 1 \in R PROVE n \in R
  <2>1. PICK f : Upto(f, n - 1)
    BY <1>3
  <2> DEFINE g == [i \in 0..n |-> IF i = n THEN IF seq[n] \in S THEN Append(f[n - 1], seq[n]) ELSE f[n - 1] ELSE f[i]]
  <2>2. \A i \in 0..n - 1 : f[i] = IF i = 0 THEN <<>> ELSE IF seq[i] \in S THEN Append(f[i - 1], seq[i]) ELSE f[i - 1]
    BY <2>1
  <2>3. \A i \in 0..n : g[i] = IF i = 0 THEN <<>> ELSE IF seq[i] \in S THEN Append(g[i - 1], seq[i]) ELSE g[i - 1]
    <3> SUFFICES ASSUME NEW i \in 0..n
                 PROVE g[i] = IF i = 0 THEN <<>> ELSE IF seq[i] \in S THEN Append(g[i - 1], seq[i]) ELSE g[i - 1]
      OBVIOUS
    <3>1. CASE i = n
      <4>1. i - 1 \in 0..n /\ i - 1 # n /\ i # 0
        BY <3>1
      <4>2. g[i - 1] = f[i - 1]
        BY <4>1
      <4> QED BY <3>1, <4>1, <4>2
    <3>2. CASE i # n
      <4>1. g[i] = f[i] /\ i \in 0..n - 1
        BY <3>2
      <4>2. i # 0 => g[i - 1] = f[i - 1]
        BY <3>2
      <4> QED BY <2>2, <4>1, <4>2
    <3> QED BY <3>1, <3>2
  <2>4. Upto(g, n)
    <3>1. g = [i \in 0..n |-> g[i]]
      OBVIOUS
    <3> HIDE DEF g
    <3> QED BY <2>3, <3>1
  <2>5. \E h : Upto(h, n)
    <3> HIDE DEF g
    <3> QED BY <2>4
  <2> QED BY <2>5
<1>4. \E f : Upto(f, Len(seq))
  <2>1. \A n \in 0..Len(seq) : n \in R
    <3> HIDE DEF R
    <3> QED BY <1>1, <1>2, <1>3, Climb
  <2>2. Len(seq) \in R
    <3> HIDE DEF R
    <3> QED BY <1>1, <2>1
  <2> HIDE DEF Upto
  <2> QED BY <2>2
<1>5. Upto(kept, Len(seq))
  BY <1>4
<1>6. Among(seq, S) = kept[Len(seq)]
  BY DEF Among
<1> HIDE DEF kept
<1>7. \A i \in 0..Len(seq) : kept[i] = IF i = 0 THEN <<>> ELSE IF seq[i] \in S THEN Append(kept[i - 1], seq[i]) ELSE kept[i - 1]
  BY <1>5
<1>8. Keeps(kept, seq, S)
  BY <1>1, <1>7 DEF Keeps
<1> QED BY <1>6, <1>8

Distinct(seq) == \A i, j \in 1..Len(seq) : seq[i] = seq[j] => i = j

(* Among keeps exactly the members in S, and no more of each than there were. *)
LEMMA AmongFacts ==
  ASSUME NEW T, NEW seq \in Seq(T), NEW S
  PROVE  /\ Among(seq, S) \in Seq(T)
         /\ Members(Among(seq, S)) = Members(seq) \cap S
         /\ Distinct(seq) => Distinct(Among(seq, S))
<1>1. PICK kept : Keeps(kept, seq, S) /\ Among(seq, S) = kept[Len(seq)]
  BY Keeping
<1>2. Len(seq) \in Nat
  OBVIOUS
<1> DEFINE Before(i) == {seq[j] : j \in 1..i} \cap S
           R == {i \in 0..Len(seq) : /\ kept[i] \in Seq(T) /\ Members(kept[i]) = Before(i)
                                     /\ Distinct(seq) => Distinct(kept[i])}
<1>3. 0 \in R
  <2>1. kept[0] = <<>>
    BY <1>1 DEF Keeps
  <2>2. kept[0] \in Seq(T) /\ Members(kept[0]) = {} /\ Distinct(kept[0])
    BY <2>1 DEF Members, Distinct
  <2>3. Before(0) = {}
    OBVIOUS
  <2> QED BY <1>2, <2>2, <2>3
<1>4. ASSUME NEW i \in 1..Len(seq), i - 1 \in R PROVE i \in R
  <2> DEFINE old == kept[i - 1]
             x == seq[i]
  <2>1. old \in Seq(T) /\ Members(old) = Before(i - 1) /\ (Distinct(seq) => Distinct(old))
    BY <1>4
  <2>2. kept[i] = IF x \in S THEN Append(old, x) ELSE old
    BY <1>1 DEF Keeps
  <2>3. x \in T /\ i \in Nat
    OBVIOUS
  <2>4. \A j \in 1..i : j = i \/ j \in 1..i - 1
    BY <2>3
  <2>5. Before(i) = IF x \in S THEN Before(i - 1) \cup {x} ELSE Before(i - 1)
    BY <2>3, <2>4
  <2>6. Distinct(seq) => x \notin Before(i - 1)
    BY <2>3 DEF Distinct
  <2> HIDE DEF Before
  <2> SUFFICES kept[i] \in Seq(T) /\ Members(kept[i]) = Before(i) /\ (Distinct(seq) => Distinct(kept[i]))
    OBVIOUS
  <2> HIDE DEF R
  <2>7. CASE x \in S
    <3> DEFINE new == Append(old, x)
    <3>1. /\ new \in Seq(T) /\ Len(new) = Len(old) + 1 /\ Len(old) \in Nat
          /\ new[Len(old) + 1] = x /\ \A j \in 1..Len(old) : new[j] = old[j]
      BY <2>1, <2>3
    <3>2. kept[i] = new
      BY <2>2, <2>7
    <3> HIDE DEF new, old, x
    <3>3. \A j \in 1..Len(new) : j = Len(old) + 1 \/ j \in 1..Len(old)
      BY <3>1
    <3>4. Members(new) = Members(old) \cup {x}
      BY <3>1, <3>3 DEF Members
    <3>5. Distinct(seq) => Distinct(new)
      <4>1. Distinct(seq) => x \notin Members(old)
        BY <2>1, <2>6
      <4>2. Distinct(seq) => \A j \in 1..Len(old) : old[j] # x
        BY <4>1 DEF Members
      <4> QED BY <2>1, <3>1, <3>3, <4>2 DEF Distinct
    <3>6. Members(new) = Before(i)
      BY <2>1, <2>5, <2>7, <3>4
    <3> QED BY <3>1, <3>2, <3>5, <3>6
  <2>8. CASE x \notin S
    BY <2>1, <2>2, <2>5, <2>8
  <2> QED BY <2>7, <2>8
<1>5. \A i \in 0..Len(seq) : i \in R
  <2> HIDE DEF R
  <2> QED BY <1>2, <1>3, <1>4, Climb
<1>6. Len(seq) \in R
  <2> HIDE DEF R
  <2> QED BY <1>2, <1>5
<1>7. Before(Len(seq)) = Members(seq) \cap S
  BY DEF Members
<1> QED BY <1>1, <1>6, <1>7

-----------------------------------------------------------------------------
(* The order of the nodes, their upstreams and what depends on them. *)

(* The graph has no cycle: its nodes are ranked, each after its upstreams. *)
Ranking(rank) ==
  /\ rank \in [Nodes -> 1 .. Len(Order)]
  /\ \A n \in Nodes : \A u \in UpstreamsOf(n) : rank[u] < rank[n]

LEMMA OrderFacts == Order \in Seq(Nodes) /\ Len(Order) \in Nat /\ Members(Order) = Nodes
<1>1. Order \in Seq(Nodes)
  BY SchedulerAssumption
<1>2. Members(Order) = Nodes
  BY DEF Nodes, Members
<1> QED BY <1>1, <1>2

LEMMA Ranked == \E rank : Ranking(rank)
BY SchedulerAssumption DEF Ranking

LEMMA UpstreamNodes ==
  ASSUME NEW n \in Nodes
  PROVE  /\ Reads[n] \in Seq(Nodes) /\ UpstreamsOf(n) \subseteq Nodes /\ n \notin UpstreamsOf(n)
         /\ UpstreamsOf(n) = Members(Reads[n])
<1>1. Reads[n] \in Seq(Nodes)
  BY SchedulerAssumption
<1>2. UpstreamsOf(n) \subseteq Nodes
  BY <1>1 DEF UpstreamsOf
<1>3. PICK rank : Ranking(rank)
  BY Ranked
<1>4. n \notin UpstreamsOf(n)
  <2> SUFFICES ASSUME n \in UpstreamsOf(n) PROVE FALSE
    OBVIOUS
  <2>1. rank[n] < rank[n] /\ rank[n] \in 1 .. Len(Order) /\ Len(Order) \in Nat
    BY <1>3, OrderFacts DEF Ranking
  <2> QED BY <2>1
<1> QED BY <1>1, <1>2, <1>4 DEF UpstreamsOf, Members

Beyond(f, n) == IF revision[n] = 0 THEN {} ELSE UpstreamsOf(n) \cup UNION {f[u] : u \in UpstreamsOf(n)}

(* What Above is defined to be: the graph having no cycle, there is such a *)
(* function.                                                               *)
LEMMA AboveFacts ==
  \A n \in Nodes : Above[n] = IF revision[n] = 0 THEN {} ELSE UpstreamsOf(n) \cup UNION {Above[u] : u \in UpstreamsOf(n)}
<1>1. PICK rank : Ranking(rank)
  BY Ranked
<1>2. Len(Order) \in Nat /\ \A n \in Nodes : rank[n] \in 1 .. Len(Order)
  BY <1>1, OrderFacts DEF Ranking
<1> DEFINE R == {k \in 0 .. Len(Order) : \E f : \A n \in Nodes : rank[n] <= k => f[n] = Beyond(f, n)}
<1>3. 0 \in R
  <2>1. \A n \in Nodes : ~(rank[n] <= 0)
    BY <1>2
  <2> QED BY <1>2, <2>1
<1>4. ASSUME NEW k \in 1 .. Len(Order), k - 1 \in R PROVE k \in R
  <2>1. PICK f : \A n \in Nodes : rank[n] <= k - 1 => f[n] = Beyond(f, n)
    BY <1>4
  <2> DEFINE g == [n \in Nodes |-> IF rank[n] = k THEN Beyond(f, n) ELSE f[n]]
  <2>2. ASSUME NEW n \in Nodes, rank[n] <= k PROVE g[n] = Beyond(g, n)
    <3>1. \A u \in UpstreamsOf(n) : u \in Nodes /\ rank[u] < rank[n]
      BY <1>1, UpstreamNodes DEF Ranking
    <3>2. k \in Nat /\ rank[n] \in Nat /\ \A u \in UpstreamsOf(n) : rank[u] \in Nat
      BY <1>2, <3>1
    <3>3. \A u \in UpstreamsOf(n) : rank[u] # k
      BY <2>2, <3>1, <3>2
    <3>4. \A u \in UpstreamsOf(n) : g[u] = f[u]
      BY <3>1, <3>3
    <3>5. Beyond(g, n) = Beyond(f, n)
      <4> HIDE DEF g
      <4> QED BY <3>4 DEF Beyond
    <3>6. CASE rank[n] = k
      BY <3>5, <3>6
    <3>7. CASE rank[n] # k
      <4>1. rank[n] <= k - 1
        BY <2>2, <3>2, <3>7
      <4>2. g[n] = f[n]
        BY <3>7
      <4> HIDE DEF g
      <4> QED BY <2>1, <3>5, <4>1, <4>2
    <3> QED BY <3>6, <3>7
  <2> HIDE DEF g
  <2>3. \E h : \A n \in Nodes : rank[n] <= k => h[n] = Beyond(h, n)
    BY <2>2
  <2> QED BY <2>3
<1>5. \A k \in 0 .. Len(Order) : k \in R
  <2> HIDE DEF R
  <2> QED BY <1>2, <1>3, <1>4, Climb
<1>6. Len(Order) \in R
  <2> HIDE DEF R
  <2> QED BY <1>2, <1>5
<1>7. PICK f : \A n \in Nodes : rank[n] <= Len(Order) => f[n] = Beyond(f, n)
  BY <1>6
<1>8. \A n \in Nodes : f[n] = Beyond(f, n)
  BY <1>2, <1>7
<1> DEFINE g == [n \in Nodes |-> f[n]]
<1>9. \A n \in Nodes : Beyond(g, n) = Beyond(f, n)
  <2> SUFFICES ASSUME NEW n \in Nodes PROVE Beyond(g, n) = Beyond(f, n)
    OBVIOUS
  <2>1. \A u \in UpstreamsOf(n) : g[u] = f[u]
    BY UpstreamNodes
  <2> HIDE DEF g
  <2> QED BY <2>1 DEF Beyond
<1>10. g = [n \in Nodes |-> Beyond(g, n)]
  <2>1. \A n \in Nodes : g[n] = Beyond(g, n)
    BY <1>8, <1>9
  <2>2. g = [n \in Nodes |-> g[n]]
    OBVIOUS
  <2> HIDE DEF g
  <2> QED BY <2>1, <2>2
<1>11. \E h : h = [n \in Nodes |-> Beyond(h, n)]
  <2> HIDE DEF g
  <2> QED BY <1>10
<1>12. Above = CHOOSE h : h = [n \in Nodes |-> Beyond(h, n)]
  BY DEF Above, Beyond
<1>13. Above = [n \in Nodes |-> Beyond(Above, n)]
  BY <1>11, <1>12
<1> QED BY <1>13 DEF Beyond

LEMMA DependentsFacts ==
  ASSUME NEW n \in Nodes
  PROVE  /\ DependentsOf(n) \in Seq(Nodes)
         /\ Members(DependentsOf(n)) = {m \in Nodes : n \in Above[m]}
         /\ \A m \in Nodes : revision[m] > 0 /\ n \in UpstreamsOf(m) => m \in Members(DependentsOf(n))
         /\ \A m, u \in Nodes : /\ revision[m] > 0 /\ u \in UpstreamsOf(m) /\ u \in Members(DependentsOf(n))
                                => m \in Members(DependentsOf(n))
<1>1. Order \in Seq(Nodes) /\ Members(Order) = Nodes
  BY OrderFacts
<1>2. /\ DependentsOf(n) \in Seq(Nodes)
      /\ Members(DependentsOf(n)) = Members(Order) \cap {m \in Nodes : n \in Above[m]}
  BY <1>1, AmongFacts DEF DependentsOf
<1>3. Members(DependentsOf(n)) = {m \in Nodes : n \in Above[m]}
  BY <1>1, <1>2
<1>4. \A m \in Nodes : revision[m] > 0 => /\ UpstreamsOf(m) \subseteq Above[m]
                                          /\ \A u \in UpstreamsOf(m) : Above[u] \subseteq Above[m]
  <2> SUFFICES ASSUME NEW m \in Nodes, revision[m] > 0
               PROVE  /\ UpstreamsOf(m) \subseteq Above[m]
                      /\ \A u \in UpstreamsOf(m) : Above[u] \subseteq Above[m]
    OBVIOUS
  <2>1. revision[m] # 0
    OBVIOUS
  <2>2. Above[m] = UpstreamsOf(m) \cup UNION {Above[u] : u \in UpstreamsOf(m)}
    BY AboveFacts, <2>1
  <2> QED BY <2>2
<1> QED BY <1>2, <1>3, <1>4

-----------------------------------------------------------------------------
(* Types: those of the state, and of what the operators return. *)

Waits == {"none", "room", "upstream", "run"}
Statuses == {"idle", "pending", "ready", "missing", "error"}
Failures == [key : Keys, decode : BOOLEAN]
Slots ==
  [running : Jobs \cup {NoRun}, requested : BOOLEAN, wait : Waits, cursor : Times \cup {NoTime},
   status : Statuses, failure : Failures \cup {NoFailure}, readers : Seq(Nodes)]
Results == [stamp : Nat, key : Keys, available : BOOLEAN]
Shelved == [at : Nat, stamp : Nat, key : Keys, available : BOOLEAN, uid : Nat \X Nat]
Histories == [ring : SUBSET Shelved, late : SUBSET Results, dropped : BOOLEAN, uids : Nat]
Budgets == [reserved : Int, line : Seq(Nodes), posted : BOOLEAN]

NodeCalls == {"request", "bind", "register", "serve", "reader", "settle", "supersede", "withdraw"}
Chores ==
  [call : {"request"}, node : Nodes, t : Times]
  \cup [call : {"bind"}, node : Nodes, input : Nat \ {0}]
  \cup [call : {"register"}, node : Nodes, reader : Nodes]
  \cup [call : {"serve"}, node : Nodes, trigger : {"request", "retry"}, room : BOOLEAN]
  \cup [call : {"reader"}, node : Nodes, waitingOnly : BOOLEAN]
  \cup [call : {"settle"}, node : Nodes, stamp : Nat]
  \cup [call : {"supersede", "withdraw"}, node : Nodes]
  \cup [call : {"giveBack", "drain", "granting"}]

TypeOK ==
  /\ graph \in [next : Nat, revision : [Nodes -> Nat]] /\ graph.next > 0
  /\ data \in [oldest : Nat, newest : Nat]
  /\ epoch \in Nat /\ held \in Nat /\ orphans \in Nat
  /\ slot \in [Nodes -> Slots]
  /\ history \in [Nodes -> Histories]
  /\ budget \in Budgets
  /\ agenda \in Seq(Chores)

-----------------------------------------------------------------------------
(* The calls, and what a call at the head of the agenda names. *)
LEMMA ChoreFacts ==
  \A c \in Chores :
    /\ c.call \in NodeCalls => c.node \in Nodes
    /\ c.call = "request" => c.t \in Times
    /\ c.call = "bind" => c.input \in Nat /\ c.input > 0
    /\ c.call = "register" => c.reader \in Nodes
    /\ c.call = "serve" => c.trigger \in {"request", "retry"} /\ c.room \in BOOLEAN
    /\ c.call = "reader" => c.waitingOnly \in BOOLEAN
    /\ c.call = "settle" => c.stamp \in Nat
    /\ c.call \in NodeCalls \/ c.call \in {"giveBack", "drain", "granting"}
BY DEF Chores, NodeCalls

LEMMA ChoreTypes ==
  /\ \A n \in Nodes : /\ \A t \in Times : Request(n, t) \in Chores
                      /\ \A i \in Nat \ {0} : Bind(n, i) \in Chores
                      /\ \A m \in Nodes : Register(n, m) \in Chores
                      /\ \A trigger \in {"request", "retry"}, room \in BOOLEAN : Serve(n, trigger, room) \in Chores
                      /\ \A waitingOnly \in BOOLEAN : ServeReader(n, waitingOnly) \in Chores
                      /\ \A stamp \in Nat : SettleServed(n, stamp) \in Chores
                      /\ Supersede(n) \in Chores /\ Withdraw(n) \in Chores
  /\ GiveBack \in Chores /\ Drain \in Chores /\ Granting \in Chores
BY DEF Chores, Request, Bind, Register, Serve, ServeReader, SettleServed, Supersede, Withdraw, GiveBack, Drain, Granting

LEMMA SlotTypes ==
  ASSUME slot \in [Nodes -> Slots], NEW n \in Nodes
  PROVE  /\ slot[n] \in Slots /\ slot[n].running \in Jobs \cup {NoRun} /\ slot[n].requested \in BOOLEAN
         /\ slot[n].wait \in Waits /\ slot[n].cursor \in Times \cup {NoTime} /\ slot[n].status \in Statuses
         /\ slot[n].failure \in Failures \cup {NoFailure} /\ slot[n].readers \in Seq(Nodes)
         /\ Len(slot[n].readers) \in Nat
<1>1. slot[n] \in Slots
  OBVIOUS
<1>2. slot[n].readers \in Seq(Nodes)
  BY <1>1 DEF Slots
<1> QED BY <1>1, <1>2 DEF Slots

LEMMA HistoryTypes ==
  ASSUME NEW h \in Histories
  PROVE  /\ h.ring \subseteq Shelved /\ h.late \subseteq Results /\ h.dropped \in BOOLEAN /\ h.uids \in Nat
         /\ \A e \in h.ring : /\ e.at \in Nat /\ e.stamp \in Nat /\ e.key \in Keys /\ e.available \in BOOLEAN
                              /\ e.uid \in Nat \X Nat
         /\ \A r \in h.late : r.stamp \in Nat /\ r.key \in Keys /\ r.available \in BOOLEAN
         /\ h = [ring |-> h.ring, late |-> h.late, dropped |-> h.dropped, uids |-> h.uids]
<1>1. h.ring \subseteq Shelved /\ h.late \subseteq Results
  BY DEF Histories
<1>2. \A e \in h.ring : /\ e.at \in Nat /\ e.stamp \in Nat /\ e.key \in Keys /\ e.available \in BOOLEAN
                        /\ e.uid \in Nat \X Nat
  BY <1>1 DEF Shelved
<1>3. \A r \in h.late : r.stamp \in Nat /\ r.key \in Keys /\ r.available \in BOOLEAN
  BY <1>1 DEF Results
<1> QED BY <1>1, <1>2, <1>3 DEF Histories

LEMMA KeyTypes ==
  ASSUME NEW k \in Keys
  PROVE  /\ k.revision \in Nat /\ k.epoch \in Nat /\ k.inputs \subseteq Identity /\ k.clock \in Times \cup {NoTime}
         /\ \A clock \in Times \cup {NoTime} :
              /\ [k EXCEPT !.clock = clock] \in Keys
              /\ [k EXCEPT !.clock = clock] = [revision |-> k.revision, epoch |-> k.epoch, inputs |-> k.inputs, clock |-> clock]
BY DEF Keys

LEMMA JobTypes ==
  ASSUME NEW job \in Jobs
  PROVE  /\ job.key \in Keys /\ job.stamp \in Nat /\ job.t \in Times /\ job.cancelled \in BOOLEAN
         /\ [job EXCEPT !.cancelled = TRUE] \in Jobs
         /\ [job EXCEPT !.cancelled = TRUE].cancelled
BY DEF Jobs

(* The calls made in place of the head of the agenda; the others stay. *)
LEMMA ThenFacts ==
  ASSUME agenda \in Seq(Chores), ~Idle, NEW calls \in Seq(Chores), Then(calls)
  PROVE  /\ agenda' \in Seq(Chores)
         /\ Len(calls) \in Nat /\ Len(agenda) \in Nat /\ Len(agenda) > 0 /\ Head(agenda) = agenda[1]
         /\ Len(agenda') = Len(calls) + Len(agenda) - 1
         /\ \A i \in 1 .. Len(calls) : agenda'[i] = calls[i]
         /\ \A i \in 1 .. Len(agenda') : i > Len(calls) => i - Len(calls) + 1 \in 2 .. Len(agenda) /\ agenda'[i] = agenda[i - Len(calls) + 1]
         /\ \A j \in 2 .. Len(agenda) : j - 1 + Len(calls) \in 1 .. Len(agenda') /\ agenda'[j - 1 + Len(calls)] = agenda[j]
<1> DEFINE rest == Tail(agenda)
<1>1. agenda # <<>> /\ Len(agenda) \in Nat /\ Len(calls) \in Nat
  BY DEF Idle
<1>2. /\ rest \in Seq(Chores) /\ Len(rest) = Len(agenda) - 1 /\ Len(agenda) > 0 /\ Head(agenda) = agenda[1]
      /\ \A i \in 1 .. Len(rest) : rest[i] = agenda[i + 1]
  BY <1>1
<1>3. agenda' = calls \o rest
  BY DEF Then
<1> HIDE DEF rest
<1>4. /\ agenda' \in Seq(Chores) /\ Len(agenda') = Len(calls) + Len(rest)
      /\ \A i \in 1 .. Len(calls) + Len(rest) : agenda'[i] = IF i <= Len(calls) THEN calls[i] ELSE rest[i - Len(calls)]
  <2>1. calls \o rest \in Seq(Chores)
    BY <1>2
  <2> QED BY <1>2, <1>3, <2>1
<1>5. Len(agenda') = Len(calls) + Len(agenda) - 1
  BY <1>1, <1>2, <1>4
<1>6. \A i \in 1 .. Len(calls) : agenda'[i] = calls[i]
  <2> SUFFICES ASSUME NEW i \in 1 .. Len(calls) PROVE agenda'[i] = calls[i]
    OBVIOUS
  <2>1. i \in 1 .. Len(calls) + Len(rest) /\ i <= Len(calls)
    BY <1>1, <1>2
  <2> QED BY <1>4, <2>1
<1>7. ASSUME NEW i \in 1 .. Len(agenda'), i > Len(calls)
      PROVE  i - Len(calls) + 1 \in 2 .. Len(agenda) /\ agenda'[i] = agenda[i - Len(calls) + 1]
  <2>1. i - Len(calls) \in 1 .. Len(rest)
    BY <1>1, <1>2, <1>4, <1>7
  <2>2. i \in 1 .. Len(calls) + Len(rest) /\ ~(i <= Len(calls))
    BY <1>1, <1>2, <1>4, <1>7
  <2>3. agenda'[i] = rest[i - Len(calls)]
    BY <1>4, <2>2
  <2> QED BY <1>1, <1>2, <2>1, <2>3
<1>8. ASSUME NEW j \in 2 .. Len(agenda)
      PROVE  j - 1 + Len(calls) \in 1 .. Len(agenda') /\ agenda'[j - 1 + Len(calls)] = agenda[j]
  <2>1. j - 1 \in 1 .. Len(rest) /\ (j - 1) + 1 = j
    BY <1>1, <1>2
  <2>2. j - 1 + Len(calls) \in 1 .. Len(agenda') /\ j - 1 + Len(calls) > Len(calls) /\ (j - 1 + Len(calls)) - Len(calls) = j - 1
    BY <1>1, <1>2, <1>5
  <2>4. j - 1 + Len(calls) \in 1 .. Len(calls) + Len(rest) /\ ~(j - 1 + Len(calls) <= Len(calls))
    BY <1>1, <1>2, <1>4, <2>2
  <2>3. agenda'[j - 1 + Len(calls)] = rest[j - 1]
    BY <1>4, <2>2, <2>4
  <2> QED BY <1>2, <2>1, <2>2, <2>3
<1> QED BY <1>1, <1>2, <1>4, <1>5, <1>6, <1>7, <1>8

LEMMA ServeReadersFacts ==
  ASSUME slot \in [Nodes -> Slots], NEW n \in Nodes, NEW waitingOnly \in BOOLEAN
  PROVE  /\ ServeReaders(n, waitingOnly) \in Seq(Chores)
         /\ Len(ServeReaders(n, waitingOnly)) = Len(slot[n].readers)
         /\ \A i \in 1 .. Len(slot[n].readers) :
              /\ ServeReaders(n, waitingOnly)[i] = ServeReader(slot[n].readers[i], waitingOnly)
              /\ slot[n].readers[i] \in Nodes
<1> DEFINE readers == slot[n].readers
<1>1. readers \in Seq(Nodes) /\ Len(readers) \in Nat
  BY SlotTypes
<1> HIDE DEF readers
<1>2. \A i \in 1 .. Len(readers) : readers[i] \in Nodes /\ ServeReader(readers[i], waitingOnly) \in Chores
  BY <1>1, ChoreTypes
<1>3. ServeReaders(n, waitingOnly) = [i \in 1 .. Len(readers) |-> ServeReader(readers[i], waitingOnly)]
  BY DEF ServeReaders, readers
<1>4. /\ ServeReaders(n, waitingOnly) \in Seq(Chores) /\ Len(ServeReaders(n, waitingOnly)) = Len(readers)
      /\ \A i \in 1 .. Len(readers) : ServeReaders(n, waitingOnly)[i] = ServeReader(readers[i], waitingOnly)
  BY <1>1, <1>2, <1>3
<1> QED BY <1>2, <1>4 DEF readers

LEMMA ConstantFacts ==
  /\ MaxTime \in Nat /\ Capacity \in Nat /\ Capacity > 0 /\ NoTime \notin Times /\ Topic \notin Nodes
  /\ Times \subseteq Nat
  /\ \A n \in Nodes : PinnedAt[n] \in Times \cup {NoTime}
  /\ \A n \in Nodes : UpstreamsOf(n) # {} \/ n \in RawNodes
BY SchedulerAssumption DEF Times

LEMMA AtFacts ==
  ASSUME NEW n \in Nodes, NEW stamp \in Nat
  PROVE  /\ At(n, stamp) \in Nat
         /\ PinnedAt[n] = NoTime => At(n, stamp) = stamp
         /\ PinnedAt[n] # NoTime => At(n, stamp) = 0
BY DEF At

-----------------------------------------------------------------------------
(* What a ring shows. *)
LEMMA ShownFacts ==
  ASSUME NEW h \in Histories, NEW t \in Nat
  PROVE  /\ ShownAt(h, t) \subseteq h.ring
         /\ \A e \in ShownAt(h, t) : /\ e \in Shelved /\ e.at <= t /\ e.stamp <= t
                                     /\ \A other \in h.ring : other.at <= t => other.at <= e.at
BY HistoryTypes DEF ShownAt

(* The inputs a staging takes: the topic's newest entry, and what each *)
(* upstream shows, each with its identity and its stamp.               *)
TakenRaw(n) ==
  {<<Topic, s, s>> : s \in IF n \in RawNodes /\ Entries(slot[n].cursor) # {} THEN {Newest(Entries(slot[n].cursor))} ELSE {}}
TakenFrom(u, t) == {<<u, e.uid, e.stamp>> : e \in {r \in ShownAt(history[u], t) : r.available}}
Taken(n) == TakenRaw(n) \cup UNION {TakenFrom(u, slot[n].cursor) : u \in UpstreamsOf(n)}

LEMMA StagedIs ==
  ASSUME NEW n \in Nodes
  PROVE  /\ Staged(n).ok <=> /\ n \in RawNodes => TakenRaw(n) # {}
                             /\ \A u \in UpstreamsOf(n) : \E input \in UNION {TakenFrom(v, slot[n].cursor) : v \in UpstreamsOf(n)} : input[1] = u
         /\ Staged(n).key = Key(n, {<<input[1], input[2]>> : input \in Taken(n)})
         /\ Staged(n).stamp = Newest({0} \cup {input[3] : input \in Taken(n)})
BY DEF Staged, Taken, TakenRaw, TakenFrom

LEMMA TakenFacts ==
  ASSUME TypeOK, NEW n \in Nodes, slot[n].cursor \in Times
  PROVE  /\ \A input \in TakenRaw(n) : /\ input = <<Topic, input[2], input[2]>>
                                       /\ n \in RawNodes /\ input[2] \in Nat /\ input[2] <= slot[n].cursor
                                       /\ input[2] \in data.oldest .. data.newest
                                       /\ \A s \in data.oldest .. data.newest : s <= slot[n].cursor => s <= input[2]
         /\ \A u \in UpstreamsOf(n) : \A input \in TakenFrom(u, slot[n].cursor) :
              /\ u \in Nodes
              /\ \E e \in ShownAt(history[u], slot[n].cursor) :
                    e.available /\ e \in history[u].ring /\ input = <<u, e.uid, e.stamp>> /\ e.uid \in Nat \X Nat /\ e.stamp \in Nat /\ e.stamp <= slot[n].cursor
<1> DEFINE t == slot[n].cursor
<1>1. t \in Nat /\ data.oldest \in Nat /\ data.newest \in Nat
  BY ConstantFacts DEF TypeOK
<1>2. ASSUME NEW input \in TakenRaw(n)
      PROVE  /\ input = <<Topic, input[2], input[2]>>
             /\ n \in RawNodes /\ input[2] \in Nat /\ input[2] <= t
             /\ input[2] \in data.oldest .. data.newest
             /\ \A s \in data.oldest .. data.newest : s <= t => s <= input[2]
  <2> DEFINE stamps == Entries(t)
  <2>1. n \in RawNodes /\ stamps # {} /\ input = <<Topic, Newest(stamps), Newest(stamps)>>
    BY <1>2 DEF TakenRaw
  <2>2. stamps \subseteq 0 .. t /\ \A s \in stamps : s \in data.oldest .. data.newest
    BY <1>1 DEF Entries
  <2>3. \A s \in data.oldest .. data.newest : s <= t => s \in stamps
    BY DEF Entries
  <2> HIDE DEF stamps, t
  <2>4. Newest(stamps) \in stamps /\ \A x \in stamps : x <= Newest(stamps)
    BY <1>1, <2>1, <2>2, Greatest
  <2>5. Newest(stamps) \in 0 .. t
    BY <2>2, <2>4
  <2> QED BY <1>1, <2>1, <2>2, <2>3, <2>4, <2>5
<1>3. ASSUME NEW u \in UpstreamsOf(n), NEW input \in TakenFrom(u, t)
      PROVE  /\ u \in Nodes
             /\ \E e \in ShownAt(history[u], t) :
                    e.available /\ e \in history[u].ring /\ input = <<u, e.uid, e.stamp>> /\ e.uid \in Nat \X Nat /\ e.stamp \in Nat /\ e.stamp <= t
  <2>1. u \in Nodes
    BY UpstreamNodes
  <2>2. history[u] \in Histories
    BY <2>1 DEF TypeOK
  <2>3. PICK e \in ShownAt(history[u], t) : e.available /\ input = <<u, e.uid, e.stamp>>
    BY <1>3 DEF TakenFrom
  <2> HIDE DEF t
  <2>4. e \in history[u].ring /\ e \in Shelved /\ e.stamp <= t
    BY <1>1, <2>2, <2>3, ShownFacts
  <2>5. e.uid \in Nat \X Nat /\ e.stamp \in Nat
    BY <2>4 DEF Shelved
  <2> QED BY <2>1, <2>3, <2>4, <2>5
<1> QED BY <1>2, <1>3

LEMMA KeyOf ==
  ASSUME NEW n, NEW inputs
  PROVE  /\ Key(n, inputs).revision = revision[n] /\ Key(n, inputs).epoch = epoch
         /\ Key(n, inputs).inputs = inputs /\ Key(n, inputs).clock = NoTime
BY DEF Key

LEMMA KeyInKeys ==
  ASSUME TypeOK, NEW n \in Nodes, NEW inputs \in SUBSET Identity
  PROVE  Key(n, inputs) \in Keys
<1>1. revision[n] \in Nat /\ epoch \in Nat
  BY DEF TypeOK, revision
<1> QED BY <1>1 DEF Key, Keys

LEMMA StagedTypes ==
  ASSUME TypeOK, NEW n \in Nodes, slot[n].cursor \in Times
  PROVE  /\ Staged(n).key \in Keys /\ Staged(n).key.revision = revision[n] /\ Staged(n).key.epoch = epoch
         /\ Staged(n).key.clock = NoTime
         /\ Staged(n).key.inputs = {<<input[1], input[2]>> : input \in Taken(n)}
         /\ Staged(n).stamp \in Nat /\ Staged(n).stamp <= slot[n].cursor
         /\ \A input \in Taken(n) : input[3] \in Nat /\ input[3] <= Staged(n).stamp
         /\ Staged(n).stamp = 0 \/ \E input \in Taken(n) : input[3] = Staged(n).stamp
<1> DEFINE t == slot[n].cursor
           stamps == {0} \cup {input[3] : input \in Taken(n)}
           inputs == {<<input[1], input[2]>> : input \in Taken(n)}
<1>1. t \in Nat
  BY ConstantFacts
<1>2. ASSUME NEW input \in Taken(n)
      PROVE  input[3] \in 0 .. t /\ <<input[1], input[2]>> \in Identity
  <2>1. CASE input \in TakenRaw(n)
    <3>1. input = <<Topic, input[2], input[2]>> /\ input[2] \in Nat /\ input[2] <= t
      BY <2>1, TakenFacts
    <3>2. input[1] = Topic /\ input[3] = input[2]
      BY <3>1
    <3> QED BY <1>1, <3>1, <3>2 DEF Identity
  <2>2. CASE \E u \in UpstreamsOf(n) : input \in TakenFrom(u, t)
    <3>1. PICK u \in UpstreamsOf(n) : input \in TakenFrom(u, t)
      BY <2>2
    <3>2. PICK e \in ShownAt(history[u], t) : u \in Nodes /\ input = <<u, e.uid, e.stamp>> /\ e.uid \in Nat \X Nat /\ e.stamp \in Nat /\ e.stamp <= t
      BY <3>1, TakenFacts
    <3> HIDE DEF t
    <3>3. input[1] = u /\ input[2] = e.uid /\ input[3] = e.stamp
      BY <3>2
    <3> QED BY <1>1, <3>2, <3>3 DEF Identity
  <2> QED BY <1>2, <2>1, <2>2 DEF Taken
<1>3. stamps \subseteq 0 .. t /\ stamps # {} /\ inputs \subseteq Identity
  <2>1. ASSUME NEW s \in stamps PROVE s \in 0 .. t
    <3>1. s = 0 \/ \E input \in Taken(n) : s = input[3]
      OBVIOUS
    <3>2. 0 \in 0 .. t
      BY <1>1
    <3> HIDE DEF t, stamps
    <3> QED BY <1>2, <3>1, <3>2
  <2>2. ASSUME NEW i \in inputs PROVE i \in Identity
    BY <1>2
  <2> QED BY <2>1, <2>2
<1>4. Staged(n).key = Key(n, inputs) /\ Staged(n).stamp = Newest(stamps)
  BY StagedIs
<1>5. \A input \in Taken(n) : input[3] \in stamps
  OBVIOUS
<1>6. \A s \in stamps : s = 0 \/ \E input \in Taken(n) : input[3] = s
  OBVIOUS
<1> HIDE DEF stamps, inputs, t
<1>7. Newest(stamps) \in stamps /\ \A x \in stamps : x <= Newest(stamps)
  BY <1>1, <1>3, Greatest
<1>8. /\ Staged(n).key \in Keys /\ Staged(n).key.revision = revision[n] /\ Staged(n).key.epoch = epoch
      /\ Staged(n).key.clock = NoTime /\ Staged(n).key.inputs = inputs
  BY <1>3, <1>4, KeyOf, KeyInKeys
<1>9. Staged(n).stamp \in 0 .. t
  BY <1>3, <1>4, <1>7
<1>10. \A input \in Taken(n) : input[3] \in Nat /\ input[3] <= Staged(n).stamp
  <2>1. Staged(n).stamp = Newest(stamps)
    BY <1>4
  <2>2. \A x \in stamps : x \in Nat /\ x <= Staged(n).stamp
    BY <1>1, <1>3, <2>1, <1>7
  <2> QED BY <1>5, <2>2
<1>11. Staged(n).stamp = 0 \/ \E input \in Taken(n) : input[3] = Staged(n).stamp
  BY <1>4, <1>6, <1>7
<1> QED BY <1>1, <1>8, <1>9, <1>10, <1>11 DEF inputs, t

-----------------------------------------------------------------------------
(* What the history becomes. *)
LEMMA PublishedTypes ==
  ASSUME TypeOK, NEW n \in Nodes, NEW stamp \in Nat, NEW key \in Keys, NEW available \in BOOLEAN, NEW cacheOnly \in BOOLEAN
  PROVE  Published(n, stamp, key, available, cacheOnly) \in Histories
<1> DEFINE h == history[n]
           same == {e \in h.ring : e.at = At(n, stamp)}
           result == [stamp |-> stamp, key |-> key, available |-> available]
           entry == [at |-> At(n, stamp), stamp |-> stamp, key |-> key, available |-> available, uid |-> <<revision[n], h.uids + 1>>]
<1>1. h \in Histories /\ revision[n] \in Nat
  BY DEF TypeOK, revision
<1>2. h.ring \subseteq Shelved /\ h.late \subseteq Results /\ h.dropped \in BOOLEAN /\ h.uids \in Nat
  BY <1>1, HistoryTypes
<1>3. result \in Results /\ entry \in Shelved
  BY <1>1, <1>2, AtFacts DEF Results, Shelved
<1>4. h = [ring |-> h.ring, late |-> h.late, dropped |-> h.dropped, uids |-> h.uids]
  BY <1>1, HistoryTypes
<1>5. [h EXCEPT !.dropped = FALSE] \in Histories
  BY <1>1 DEF Histories
<1>6. [h EXCEPT !.late = @ \cup {result}, !.dropped = FALSE] \in Histories
  <2> HIDE DEF result
  <2> QED BY <1>1, <1>2, <1>3 DEF Histories
<1>7. [ring |-> (h.ring \ same) \cup {entry}, late |-> h.late \ {result}, dropped |-> FALSE, uids |-> h.uids + 1] \in Histories
  <2> HIDE DEF result, entry
  <2> QED BY <1>2, <1>3 DEF Histories
<1> QED BY <1>5, <1>6, <1>7 DEF Published

LEMMA ClearedTypes ==
  ASSUME TypeOK, NEW n \in Nodes, NEW stamp \in Nat
  PROVE  Cleared(n, stamp) \in Histories
<1>1. Key(n, {}) \in Keys
  BY KeyInKeys
<1>2. Published(n, stamp, Key(n, {}), FALSE, FALSE) \in Histories /\ history[n] \in Histories
  BY <1>1, PublishedTypes DEF TypeOK
<1> QED BY <1>2 DEF Cleared

LEMMA SupersededTypes ==
  ASSUME NEW n \in Nodes, NEW h \in Histories, NEW stamp
  PROVE  TombstonesSuperseded(n, h, stamp) \in Histories
<1> DEFINE S == {e \in h.ring : ~(stamp < e.at /\ e.at <= slot[n].cursor /\ e.key.inputs = {})}
<1>1. S \subseteq Shelved
  BY HistoryTypes
<1>2. TombstonesSuperseded(n, h, stamp) = h \/ TombstonesSuperseded(n, h, stamp) = [h EXCEPT !.ring = S]
  BY DEF TombstonesSuperseded
<1> HIDE DEF S
<1> QED BY <1>1, <1>2 DEF Histories

LEMMA DroppedFacts ==
  ASSUME NEW h \in Histories
  PROVE  Dropped(h) \in Histories /\ Dropped(h).ring = {} /\ Dropped(h).late = {} /\ Dropped(h).uids = h.uids
<1>1. Dropped(h).ring = {} /\ Dropped(h).late = {} /\ Dropped(h).uids = h.uids
  BY DEF Dropped, Histories
<1>2. (h.dropped \/ h.ring # {}) \in BOOLEAN
  OBVIOUS
<1>3. Dropped(h) \in Histories
  BY <1>2 DEF Dropped, Histories
<1> QED BY <1>1, <1>3

-----------------------------------------------------------------------------
(* What the budget becomes. *)
LEMMA PostDrainFacts ==
  ASSUME NEW b \in Budgets
  PROVE  /\ PostDrain(b) \in Budgets /\ PostDrain(b).reserved = b.reserved /\ PostDrain(b).line = b.line
         /\ b.posted => PostDrain(b).posted
         /\ ~Draining /\ b.line # <<>> /\ Fits(b) => PostDrain(b).posted
BY DEF PostDrain, Budgets

LEMMA LineAfterFacts ==
  ASSUME TypeOK, NEW n \in Nodes, NEW wait \in Waits
  PROVE  /\ LineAfter(n, wait) \in Budgets /\ LineAfter(n, wait).reserved = budget.reserved
         /\ budget.posted => LineAfter(n, wait).posted
<1>1. budget \in Budgets /\ budget.line \in Seq(Nodes)
  BY DEF TypeOK, Budgets
<1>2. [budget EXCEPT !.line = Append(@, n)] \in Budgets /\ [budget EXCEPT !.line = Append(@, n)].reserved = budget.reserved
      /\ [budget EXCEPT !.line = Append(@, n)].posted = budget.posted
  <2>1. Append(budget.line, n) \in Seq(Nodes)
    BY <1>1
  <2> QED BY <1>1, <2>1 DEF Budgets
<1>3. [budget EXCEPT !.line = Among(@, Nodes \ {n})] \in Budgets /\ [budget EXCEPT !.line = Among(@, Nodes \ {n})].reserved = budget.reserved
      /\ [budget EXCEPT !.line = Among(@, Nodes \ {n})].posted = budget.posted
  <2>1. Among(budget.line, Nodes \ {n}) \in Seq(Nodes)
    BY <1>1, AmongFacts
  <2> QED BY <1>1, <2>1 DEF Budgets
<1>4. CASE wait = "room" /\ slot[n].wait = "room"
  BY <1>1, <1>4 DEF LineAfter
<1>5. CASE wait = "room" /\ slot[n].wait # "room"
  BY <1>2, <1>5, PostDrainFacts DEF LineAfter
<1>6. CASE wait # "room" /\ slot[n].wait # "room"
  BY <1>1, <1>6 DEF LineAfter
<1>7. CASE wait # "room" /\ slot[n].wait = "room"
  BY <1>3, <1>7, PostDrainFacts DEF LineAfter
<1> QED BY <1>4, <1>5, <1>6, <1>7

-----------------------------------------------------------------------------
(* What a slot's fields and the agenda imply; how serve ends; the calls *)
(* after a step.                                                        *)

Known ==
  /\ \A n \in Nodes : slot[n].requested => slot[n].cursor \in Times /\ revision[n] > 0
  /\ \A n \in Nodes : slot[n].status = "pending" => slot[n].requested
  /\ \A n \in Nodes : slot[n].running # NoRun => slot[n].cursor \in Times
  /\ \A n \in Nodes : revision[n] = 0 => slot[n] = NoSlot /\ history[n].ring = {} /\ history[n].late = {}
  /\ \A n \in Nodes : slot[n].cursor # NoTime /\ PinnedAt[n] # NoTime => slot[n].cursor = PinnedAt[n]
  /\ \A c \in Members(agenda) : c.call = "bind" => slot[c.node].cursor \in Times
  /\ \A c \in Members(agenda) : c.call = "settle" => revision[c.node] > 0 /\ slot[c.node].cursor \in Times

Typed == TypeOK /\ Known

(* The head of the agenda. *)
LEMMA HeadFacts ==
  ASSUME TypeOK, ~Idle
  PROVE  Head(agenda) \in Chores /\ Head(agenda) = agenda[1] /\ 1 \in 1 .. Len(agenda)
<1>1. agenda \in Seq(Chores) /\ agenda # <<>>
  BY DEF TypeOK, Idle
<1> QED BY <1>1

LEMMA CalleeFacts ==
  ASSUME TypeOK, NEW call \in NodeCalls, Calls(call)
  PROVE  ~Idle /\ Callee \in Nodes /\ Callee = agenda[1].node /\ Head(agenda).call = call
<1>1. ~Idle /\ Head(agenda).call = call
  BY DEF Calls
<1>2. Head(agenda) \in Chores /\ Head(agenda) = agenda[1]
  BY <1>1, HeadFacts
<1> QED BY <1>1, <1>2, ChoreFacts DEF Callee

LEMMA UnusedFacts ==
  ASSUME TypeOK, Calls("serve")
  PROVE  /\ Room \in BOOLEAN /\ Trigger \in {"request", "retry"} /\ Unused \in Seq(Chores)
         /\ Room => Unused = <<GiveBack>> /\ Len(Unused) = 1 /\ Unused[1] = GiveBack
         /\ ~Room => Unused = <<>> /\ Len(Unused) = 0
<1>1. Head(agenda) \in Chores /\ Head(agenda).call = "serve"
  BY HeadFacts DEF Calls
<1>2. Room \in BOOLEAN /\ Trigger \in {"request", "retry"}
  BY <1>1, ChoreFacts DEF Room, Trigger
<1>3. <<GiveBack>> \in Seq(Chores) /\ <<>> \in Seq(Chores)
  BY ChoreTypes
<1> QED BY <1>2, <1>3 DEF Unused

(* Every way serve ends: the request was withdrawn, a run starts, or the *)
(* node's wait and state are set and the room it did not use goes back.  *)
PendingWell(n, wait, status) ==
  status = "pending" =>
    \/ held > 0 \/ slot[n].running # NoRun \/ wait = "room"
    \/ wait = "upstream" /\ AwaitsUpstream(n, Trigger)

Concludes ==
  \E wait \in Waits, status \in Statuses \ {"idle"}, h \in Histories :
    Conclude(Callee, wait, status, h, Unused) /\ slot[Callee].requested /\ PendingWell(Callee, wait, status)

LEMMA MissingShape ==
  ASSUME TypeOK, Calls("serve"), Servable(Callee), slot[Callee].cursor \in Times, NEW keep, SettleMissing(Callee, keep)
  PROVE  Concludes
<1> DEFINE n == Callee
<1>1. n \in Nodes
  BY CalleeFacts DEF NodeCalls
<1>2. history[n] \in Histories /\ slot[n].cursor \in Nat
  BY <1>1, ConstantFacts DEF TypeOK
<1>3. Cleared(n, slot[n].cursor) \in Histories
  BY <1>1, <1>2, ClearedTypes
<1>4. \E status \in {"ready", "missing"}, h \in Histories : Conclude(n, "none", status, h, Unused)
  BY <1>2, <1>3 DEF SettleMissing
<1>5. PICK status \in {"ready", "missing"}, h \in Histories : Conclude(n, "none", status, h, Unused)
  BY <1>4
<1>6. PendingWell(n, "none", status) /\ "none" \in Waits /\ status \in Statuses \ {"idle"} /\ slot[n].requested
  BY <1>5 DEF PendingWell, Waits, Statuses, Servable
<1> QED BY <1>5, <1>6 DEF Concludes

LEMMA ServeShape ==
  ASSUME Typed, ServeStep
  PROVE  /\ Calls("serve") /\ Callee \in Nodes
         /\ ServeWithdrawn \/ ServeRun \/ Concludes
<1> DEFINE n == Callee
<1>1. TypeOK /\ Known
  BY DEF Typed
<1>2. Calls("serve")
  BY DEF ServeStep, ServeWithdrawn, ServeHeld, ServeBelowMissing, ServeBehindUpstream, ServeMissing, ServeFailure,
         ServeHit, ServeWhileRunning, ServeFull, ServeRun
<1>3. n \in Nodes /\ history[n] \in Histories
  BY <1>1, <1>2, CalleeFacts DEF TypeOK, NodeCalls
<1>4. slot[n].requested => slot[n].cursor \in Times /\ slot[n].cursor \in Nat
  BY <1>1, <1>3, ConstantFacts DEF Known
<1> SUFFICES ASSUME ~ServeWithdrawn, ~ServeRun PROVE Concludes
  BY <1>2, <1>3
<1>5. CASE ServeHeld
  <2>1. slot[n].requested /\ PendingWell(n, "none", "pending") /\ "none" \in Waits /\ "pending" \in Statuses \ {"idle"}
    BY <1>5 DEF ServeHeld, PendingWell, Waits, Statuses
  <2>2. Conclude(n, "none", "pending", history[n], Unused)
    BY <1>5 DEF ServeHeld
  <2> QED BY <1>3, <2>1, <2>2 DEF Concludes
<1>6. CASE ServeBelowMissing
  <2>1. Servable(n) /\ \E keep : SettleMissing(n, keep)
    BY <1>6 DEF ServeBelowMissing
  <2> QED BY <1>1, <1>2, <1>4, <2>1, MissingShape DEF Servable
<1>7. CASE ServeBehindUpstream
  <2>1. slot[n].requested /\ PendingWell(n, "upstream", "pending") /\ "upstream" \in Waits /\ "pending" \in Statuses \ {"idle"}
    BY <1>7 DEF ServeBehindUpstream, Servable, PendingWell, Waits, Statuses
  <2>2. Conclude(n, "upstream", "pending", history[n], Unused)
    BY <1>7 DEF ServeBehindUpstream
  <2> QED BY <1>3, <2>1, <2>2 DEF Concludes
<1>8. CASE ServeMissing
  <2>1. Servable(n) /\ \E keep : SettleMissing(n, keep)
    BY <1>8 DEF ServeMissing, Staging
  <2> QED BY <1>1, <1>2, <1>4, <2>1, MissingShape DEF Servable
<1>9. CASE ServeFailure
  <2>1. slot[n].requested /\ PendingWell(n, "none", "error") /\ "none" \in Waits /\ "error" \in Statuses \ {"idle"}
    BY <1>9 DEF ServeFailure, Staging, Servable, PendingWell, Waits, Statuses
  <2>2. Conclude(n, "none", "error", Cleared(n, Staged(n).stamp), Unused)
    BY <1>9 DEF ServeFailure
  <2>3. Cleared(n, Staged(n).stamp) \in Histories
    BY <1>1, <1>3, <1>4, <2>1, StagedTypes, ClearedTypes
  <2> QED BY <2>1, <2>2, <2>3 DEF Concludes
<1>10. CASE ServeHit
  <2> DEFINE stamp == Staged(n).stamp
             shown == IF RingHits(n) # {} THEN {history[n]}
                      ELSE {Published(n, stamp, r.key, r.available, FALSE) : r \in CacheHits(n)}
  <2>1. slot[n].requested /\ PendingWell(n, "none", "ready") /\ "none" \in Waits /\ "ready" \in Statuses \ {"idle"}
    BY <1>10 DEF ServeHit, Staging, Servable, PendingWell, Waits, Statuses
  <2>2. PICK h \in shown : Conclude(n, "none", "ready", TombstonesSuperseded(n, h, stamp), Unused)
    BY <1>10 DEF ServeHit
  <2>3. stamp \in Nat
    BY <1>1, <1>3, <1>4, <2>1, StagedTypes
  <2>4. \A r \in CacheHits(n) : r.key \in Keys /\ r.available \in BOOLEAN
    BY <1>3, HistoryTypes DEF CacheHits
  <2> HIDE DEF stamp
  <2>5. \A r \in CacheHits(n) : Published(n, stamp, r.key, r.available, FALSE) \in Histories
    BY <1>1, <1>3, <2>3, <2>4, PublishedTypes
  <2>6. h \in Histories
    BY <1>3, <2>5
  <2>7. TombstonesSuperseded(n, h, stamp) \in Histories
    BY <1>3, <2>6, SupersededTypes
  <2> HIDE DEF shown
  <2> QED BY <2>1, <2>2, <2>7 DEF Concludes
<1>11. CASE ServeWhileRunning
  <2>1. slot[n].requested /\ PendingWell(n, "run", "pending") /\ "run" \in Waits /\ "pending" \in Statuses \ {"idle"}
    BY <1>11 DEF ServeWhileRunning, MustRun, Staging, Servable, PendingWell, Waits, Statuses
  <2>2. Conclude(n, "run", "pending", history[n], Unused)
    BY <1>11 DEF ServeWhileRunning
  <2> QED BY <1>3, <2>1, <2>2 DEF Concludes
<1>12. CASE ServeFull
  <2>1. slot[n].requested /\ PendingWell(n, "room", "pending") /\ "room" \in Waits /\ "pending" \in Statuses \ {"idle"}
    BY <1>12 DEF ServeFull, MustRun, Staging, Servable, PendingWell, Waits, Statuses
  <2>2. Conclude(n, "room", "pending", history[n], <<>>) /\ Unused = <<>>
    BY <1>12 DEF ServeFull, Unused
  <2>3. Conclude(n, "room", "pending", history[n], Unused)
    BY <2>2
  <2> QED BY <1>3, <2>1, <2>3 DEF Concludes
<1> QED BY <1>5, <1>6, <1>7, <1>8, <1>9, <1>10, <1>11, <1>12 DEF ServeStep

-----------------------------------------------------------------------------
(* What Conclude does to the slot, and that it keeps the types. *)
LEMMA ConcludeFacts ==
  ASSUME TypeOK, ~Idle, NEW n \in Nodes, NEW wait \in Waits, NEW status \in Statuses, NEW h \in Histories, NEW rest \in Seq(Chores),
         Conclude(n, wait, status, h, rest)
  PROVE  /\ TypeOK'
         /\ \A m \in Nodes \ {n} : slot'[m] = slot[m] /\ history'[m] = history[m]
         /\ history'[n] = h
         /\ slot'[n].running = slot[n].running /\ slot'[n].requested = slot[n].requested /\ slot'[n].wait = wait
         /\ slot'[n].cursor = slot[n].cursor /\ slot'[n].status = status /\ slot'[n].failure = slot[n].failure
         /\ slot'[n].readers = slot[n].readers
         /\ (IF status = "pending" THEN <<>> ELSE ServeReaders(n, TRUE)) \o rest \in Seq(Chores)
         /\ Then((IF status = "pending" THEN <<>> ELSE ServeReaders(n, TRUE)) \o rest)
         /\ UNCHANGED <<graph, data, epoch, held, orphans, events>>
         /\ budget' = LineAfter(n, wait)
<1> DEFINE calls == (IF status = "pending" THEN <<>> ELSE ServeReaders(n, TRUE)) \o rest
<1>1. slot \in [Nodes -> Slots] /\ history \in [Nodes -> Histories] /\ agenda \in Seq(Chores)
  BY DEF TypeOK
<1>2. /\ slot' = [slot EXCEPT ![n].wait = wait, ![n].status = status]
      /\ history' = [history EXCEPT ![n] = h]
      /\ budget' = LineAfter(n, wait) /\ Then(calls) /\ UNCHANGED <<graph, data, epoch, held, orphans, events>>
  BY DEF Conclude
<1>3. calls \in Seq(Chores)
  <2>1. TRUE \in BOOLEAN /\ <<>> \in Seq(Chores)
    OBVIOUS
  <2>2. ServeReaders(n, TRUE) \in Seq(Chores)
    BY <1>1, <2>1, ServeReadersFacts, Zenon
  <2>3. (IF status = "pending" THEN <<>> ELSE ServeReaders(n, TRUE)) \in Seq(Chores)
    BY <2>1, <2>2
  <2>4. \A s, t \in Seq(Chores) : s \o t \in Seq(Chores)
    OBVIOUS
  <2> QED BY <2>3, <2>4
<1> HIDE DEF calls
<1>4. agenda' \in Seq(Chores)
  BY <1>1, <1>2, <1>3, ThenFacts
<1>5. budget' \in Budgets
  BY <1>2, LineAfterFacts
<1>6. history' \in [Nodes -> Histories] /\ history'[n] = h /\ \A m \in Nodes \ {n} : history'[m] = history[m]
  BY <1>1, <1>2
<1>7. /\ slot'[n] = [slot[n] EXCEPT !.wait = wait, !.status = status]
      /\ \A m \in Nodes \ {n} : slot'[m] = slot[m]
      /\ slot' \in [Nodes -> Slots]
  <2>1. slot[n] \in Slots
    BY <1>1
  <2>2. [slot[n] EXCEPT !.wait = wait, !.status = status] \in Slots
    BY <2>1 DEF Slots
  <2>3. slot' = [slot EXCEPT ![n].wait = wait, ![n].status = status]
    BY <1>2
  <2>4. slot'[n] = [slot[n] EXCEPT !.wait = wait, !.status = status]
    BY <1>1, <2>3
  <2>5. \A m \in Nodes \ {n} : slot'[m] = slot[m]
    BY <1>1, <2>3
  <2>6. slot' = [m \in Nodes |-> slot'[m]]
    BY <1>1, <2>3
  <2>7. \A m \in Nodes : slot'[m] \in Slots
    BY <1>1, <2>2, <2>4, <2>5
  <2> QED BY <2>4, <2>5, <2>6, <2>7
<1>8. slot'[n].running = slot[n].running /\ slot'[n].requested = slot[n].requested /\ slot'[n].wait = wait
         /\ slot'[n].cursor = slot[n].cursor /\ slot'[n].status = status /\ slot'[n].failure = slot[n].failure
         /\ slot'[n].readers = slot[n].readers
  <2>1. slot[n] \in Slots
    BY <1>1
  <2> QED BY <1>7, <2>1 DEF Slots
<1>9. TypeOK'
  <2>1. UNCHANGED <<graph, data, epoch, held, orphans>>
    BY <1>2
  <2> QED BY <1>4, <1>5, <1>6, <1>7, <2>1 DEF TypeOK
<1> QED BY <1>2, <1>3, <1>6, <1>7, <1>8, <1>9 DEF calls

LEMMA ConcatFacts ==
  ASSUME NEW T, NEW s \in Seq(T), NEW t \in Seq(T)
  PROVE  /\ s \o t \in Seq(T) /\ Len(s \o t) = Len(s) + Len(t) /\ Len(s) \in Nat /\ Len(t) \in Nat
         /\ \A i \in 1 .. Len(s) : i \in 1 .. Len(s \o t) /\ (s \o t)[i] = s[i]
         /\ \A i \in 1 .. Len(t) : Len(s) + i \in 1 .. Len(s \o t) /\ (s \o t)[Len(s) + i] = t[i]
         /\ \A i \in 1 .. Len(s \o t) : i \notin 1 .. Len(s) => i - Len(s) \in 1 .. Len(t) /\ (s \o t)[i] = t[i - Len(s)]
         /\ Members(s \o t) = Members(s) \cup Members(t)
<1>1. s \o t \in Seq(T) /\ Len(s \o t) = Len(s) + Len(t) /\ Len(s) \in Nat /\ Len(t) \in Nat
  OBVIOUS
<1>2. \A i \in 1 .. Len(s) + Len(t) : (s \o t)[i] = IF i <= Len(s) THEN s[i] ELSE t[i - Len(s)]
  OBVIOUS
<1> DEFINE st == s \o t
<1> HIDE DEF st
<1>3. st \in Seq(T) /\ Len(st) = Len(s) + Len(t) /\ \A i \in 1 .. Len(st) : st[i] = IF i <= Len(s) THEN s[i] ELSE t[i - Len(s)]
  BY <1>1, <1>2 DEF st
<1>4. \A i \in 1 .. Len(s) : i \in 1 .. Len(st) /\ st[i] = s[i]
  BY <1>1, <1>3
<1>5. \A i \in 1 .. Len(t) : Len(s) + i \in 1 .. Len(st) /\ st[Len(s) + i] = t[i]
  <2> SUFFICES ASSUME NEW i \in 1 .. Len(t) PROVE Len(s) + i \in 1 .. Len(st) /\ st[Len(s) + i] = t[i]
    OBVIOUS
  <2>1. Len(s) + i \in 1 .. Len(st) /\ ~(Len(s) + i <= Len(s)) /\ (Len(s) + i) - Len(s) = i
    BY <1>1, <1>3
  <2>2. st[Len(s) + i] = t[(Len(s) + i) - Len(s)]
    BY <1>3, <2>1
  <2> QED BY <2>1, <2>2
<1>6. \A i \in 1 .. Len(st) : i \notin 1 .. Len(s) => i - Len(s) \in 1 .. Len(t) /\ st[i] = t[i - Len(s)]
  <2> SUFFICES ASSUME NEW i \in 1 .. Len(st), i \notin 1 .. Len(s) PROVE i - Len(s) \in 1 .. Len(t) /\ st[i] = t[i - Len(s)]
    OBVIOUS
  <2>1. i \in Nat /\ ~(i <= Len(s)) /\ i - Len(s) \in 1 .. Len(t)
    BY <1>1, <1>3
  <2> QED BY <1>3, <2>1
<1>7. Members(st) = Members(s) \cup Members(t)
  <2>1. ASSUME NEW x \in Members(st) PROVE x \in Members(s) \cup Members(t)
    BY <1>4, <1>6, <2>1 DEF Members
  <2>2. ASSUME NEW x \in Members(s) PROVE x \in Members(st)
    BY <1>4, <2>2 DEF Members
  <2>3. ASSUME NEW x \in Members(t) PROVE x \in Members(st)
    BY <1>5, <2>3 DEF Members
  <2> QED BY <2>1, <2>2, <2>3
<1> QED BY <1>1, <1>3, <1>4, <1>5, <1>6, <1>7 DEF st

LEMMA MembersOf ==
  /\ Members(<<>>) = {}
  /\ \A x : Members(<<x>>) = {x}
  /\ \A x, y : Members(<<x, y>>) = {x, y}
  /\ \A x, y, z : Members(<<x, y, z>>) = {x, y, z}
<1>1. Members(<<>>) = {}
  BY DEF Members
<1>2. ASSUME NEW x PROVE Members(<<x>>) = {x}
  BY DEF Members
<1>3. ASSUME NEW x, NEW y PROVE Members(<<x, y>>) = {x, y}
  <2>1. Len(<<x, y>>) = 2 /\ <<x, y>>[1] = x /\ <<x, y>>[2] = y /\ \A i \in 1 .. 2 : i = 1 \/ i = 2
    OBVIOUS
  <2> QED BY <2>1 DEF Members
<1>4. ASSUME NEW x, NEW y, NEW z PROVE Members(<<x, y, z>>) = {x, y, z}
  <2> DEFINE s == <<x, y, z>>
  <2>1. Len(s) = 3 /\ s[1] = x /\ s[2] = y /\ s[3] = z /\ \A i \in 1 .. 3 : i = 1 \/ i = 2 \/ i = 3
    OBVIOUS
  <2> HIDE DEF s
  <2>2. Members(s) = {x, y, z}
    BY <2>1 DEF Members
  <2> QED BY <2>2 DEF s
<1> QED BY <1>1, <1>2, <1>3, <1>4

(* The agenda but its head. *)
Rest == {agenda[j] : j \in 2 .. Len(agenda)}

LEMMA ThenMembers ==
  ASSUME agenda \in Seq(Chores), ~Idle, NEW calls \in Seq(Chores), Then(calls)
  PROVE  /\ Members(agenda) = {Head(agenda)} \cup Rest
         /\ Members(agenda') = Members(calls) \cup Rest
         /\ agenda' \in Seq(Chores)
<1>1. /\ Len(calls) \in Nat /\ Len(agenda) \in Nat /\ Len(agenda) > 0 /\ Head(agenda) = agenda[1]
      /\ agenda' \in Seq(Chores)
      /\ Len(agenda') = Len(calls) + Len(agenda) - 1
      /\ \A i \in 1 .. Len(calls) : agenda'[i] = calls[i]
      /\ \A i \in 1 .. Len(agenda') : i > Len(calls) => i - Len(calls) + 1 \in 2 .. Len(agenda) /\ agenda'[i] = agenda[i - Len(calls) + 1]
      /\ \A j \in 2 .. Len(agenda) : j - 1 + Len(calls) \in 1 .. Len(agenda') /\ agenda'[j - 1 + Len(calls)] = agenda[j]
  BY ThenFacts
<1>2. \A i \in 1 .. Len(agenda) : i = 1 \/ i \in 2 .. Len(agenda)
  BY <1>1
<1>3. Members(agenda) = {Head(agenda)} \cup Rest
  <2>1. 1 \in 1 .. Len(agenda) /\ \A j \in 2 .. Len(agenda) : j \in 1 .. Len(agenda)
    BY <1>1
  <2> QED BY <1>1, <1>2, <2>1 DEF Members, Rest
<1>4. \A i \in 1 .. Len(agenda') : i \in 1 .. Len(calls) \/ i > Len(calls)
  BY <1>1
<1>5. \A i \in 1 .. Len(calls) : i \in 1 .. Len(agenda')
  BY <1>1
<1>6. Members(agenda') = Members(calls) \cup Rest
  <2>1. ASSUME NEW x \in Members(agenda') PROVE x \in Members(calls) \cup Rest
    <3>1. PICK i \in 1 .. Len(agenda') : x = agenda'[i]
      BY <2>1 DEF Members
    <3>2. CASE i \in 1 .. Len(calls)
      BY <1>1, <3>1, <3>2 DEF Members
    <3>3. CASE i > Len(calls)
      BY <1>1, <3>1, <3>3 DEF Rest
    <3> QED BY <1>4, <3>2, <3>3
  <2>2. ASSUME NEW x \in Members(calls) PROVE x \in Members(agenda')
    <3>1. PICK i \in 1 .. Len(calls) : x = calls[i]
      BY <2>2 DEF Members
    <3> QED BY <1>1, <1>5, <3>1 DEF Members
  <2>3. ASSUME NEW x \in Rest PROVE x \in Members(agenda')
    <3>1. PICK j \in 2 .. Len(agenda) : x = agenda[j]
      BY <2>3 DEF Rest
    <3>2. j - 1 + Len(calls) \in 1 .. Len(agenda') /\ agenda'[j - 1 + Len(calls)] = agenda[j]
      BY <1>1, <3>1
    <3> QED BY <3>1, <3>2 DEF Members
  <2> QED BY <2>1, <2>2, <2>3
<1> QED BY <1>1, <1>3, <1>6

LEMMA RestFacts ==
  ASSUME TypeOK
  PROVE  Members(agenda) \subseteq Chores /\ Rest \subseteq Chores /\ (Idle => Members(agenda) = {})
<1>1. agenda \in Seq(Chores)
  BY DEF TypeOK
<1>2. \A i \in 1 .. Len(agenda) : agenda[i] \in Chores
  BY <1>1
<1>5. Len(agenda) \in Nat
  BY <1>1
<1>4. \A j \in 2 .. Len(agenda) : j \in 1 .. Len(agenda)
  BY <1>5
<1>3. Idle => Members(agenda) = {}
  BY MembersOf DEF Idle
<1> QED BY <1>2, <1>3, <1>4 DEF Members, Rest

Reader(u, n) == n \in Members(slot[u].readers)

LEMMA ReadersCalled ==
  ASSUME TypeOK, NEW n \in Nodes, NEW waitingOnly \in BOOLEAN
  PROVE  /\ ServeReaders(n, waitingOnly) \in Seq(Chores)
         /\ Members(ServeReaders(n, waitingOnly)) = {ServeReader(m, waitingOnly) : m \in Members(slot[n].readers)}
         /\ Members(slot[n].readers) \subseteq Nodes
<1>1. slot \in [Nodes -> Slots]
  BY DEF TypeOK
<1>2. /\ ServeReaders(n, waitingOnly) \in Seq(Chores)
      /\ Len(ServeReaders(n, waitingOnly)) = Len(slot[n].readers)
      /\ \A i \in 1 .. Len(slot[n].readers) :
              /\ ServeReaders(n, waitingOnly)[i] = ServeReader(slot[n].readers[i], waitingOnly)
              /\ slot[n].readers[i] \in Nodes
  BY <1>1, ServeReadersFacts
<1> QED BY <1>2 DEF Members

(* Whom a conclusion calls: the readers, once the node is settled. *)
LEMMA ConcludeMembers ==
  ASSUME TypeOK, ~Idle, NEW n \in Nodes, NEW wait \in Waits, NEW status \in Statuses, NEW h \in Histories, NEW rest \in Seq(Chores),
         Conclude(n, wait, status, h, rest)
  PROVE  /\ Members(agenda) = {Head(agenda)} \cup Rest
         /\ Members(agenda') = (IF status = "pending" THEN {} ELSE {ServeReader(m, TRUE) : m \in Members(slot[n].readers)})
                               \cup Members(rest) \cup Rest
<1> DEFINE told == IF status = "pending" THEN <<>> ELSE ServeReaders(n, TRUE)
<1>1. told \o rest \in Seq(Chores) /\ Then(told \o rest)
  BY ConcludeFacts
<1>2. TRUE \in BOOLEAN /\ <<>> \in Seq(Chores)
  OBVIOUS
<1>3. ServeReaders(n, TRUE) \in Seq(Chores) /\ Members(ServeReaders(n, TRUE)) = {ServeReader(m, TRUE) : m \in Members(slot[n].readers)}
  BY <1>2, ReadersCalled, Zenon
<1>8. told \in Seq(Chores)
  BY <1>2, <1>3
<1>4. Members(told) = IF status = "pending" THEN {} ELSE {ServeReader(m, TRUE) : m \in Members(slot[n].readers)}
  BY <1>2, <1>3, MembersOf
<1> HIDE DEF told
<1>5. Members(told \o rest) = Members(told) \cup Members(rest)
  BY <1>8, ConcatFacts
<1>6. agenda \in Seq(Chores)
  BY DEF TypeOK
<1>7. Members(agenda) = {Head(agenda)} \cup Rest /\ Members(agenda') = Members(told \o rest) \cup Rest
  BY <1>1, <1>6, ThenMembers
<1> QED BY <1>4, <1>5, <1>7

-----------------------------------------------------------------------------
(* What each call does, by its parts. *)

(* A slot with one node's changed. *)
LEMMA SlotWith ==
  ASSUME slot \in [Nodes -> Slots], NEW n \in Nodes, NEW new \in Slots, slot' = [slot EXCEPT ![n] = new]
  PROVE  slot' \in [Nodes -> Slots] /\ slot'[n] = new /\ \A m \in Nodes \ {n} : slot'[m] = slot[m]
OBVIOUS

LEMMA SlotFields ==
  ASSUME NEW s \in Slots
  PROVE  /\ s = [running |-> s.running, requested |-> s.requested, wait |-> s.wait, cursor |-> s.cursor,
                 status |-> s.status, failure |-> s.failure, readers |-> s.readers]
         /\ s.running \in Jobs \cup {NoRun} /\ s.requested \in BOOLEAN /\ s.wait \in Waits
         /\ s.cursor \in Times \cup {NoTime} /\ s.status \in Statuses
         /\ s.failure \in Failures \cup {NoFailure} /\ s.readers \in Seq(Nodes)
BY DEF Slots

LEMMA OneCall == \A x \in Chores : <<x>> \in Seq(Chores)
OBVIOUS

LEMMA ThenOne ==
  ASSUME TypeOK, ~Idle, NEW x \in Chores, Then(<<x>>)
  PROVE  agenda' \in Seq(Chores) /\ Members(agenda) = {Head(agenda)} \cup Rest /\ Members(agenda') = {x} \cup Rest
<1>1. <<x>> \in Seq(Chores) /\ agenda \in Seq(Chores)
  BY DEF TypeOK
<1> QED BY <1>1, ThenMembers, MembersOf

LEMMA ThenNone ==
  ASSUME TypeOK, ~Idle, Then(<<>>)
  PROVE  agenda' \in Seq(Chores) /\ Members(agenda) = {Head(agenda)} \cup Rest /\ Members(agenda') = Rest
<1>1. <<>> \in Seq(Chores) /\ agenda \in Seq(Chores)
  BY DEF TypeOK
<1> QED BY <1>1, ThenMembers, MembersOf

-----------------------------------------------------------------------------
LEMMA WithdrawnFacts ==
  ASSUME Typed, ServeWithdrawn
  PROVE  /\ Calls("serve") /\ ~Idle /\ Callee \in Nodes /\ ~slot[Callee].requested
         /\ agenda' \in Seq(Chores) /\ Members(agenda) = {Head(agenda)} \cup Rest
         /\ Members(agenda') = Members(Unused) \cup Rest /\ Then(Unused)
         /\ UNCHANGED <<graph, data, epoch, held, slot, history, budget, orphans, events>>
<1>1. TypeOK /\ Calls("serve") /\ ~slot[Callee].requested /\ Then(Unused)
      /\ UNCHANGED <<graph, data, epoch, held, slot, history, budget, orphans, events>>
  BY DEF Typed, ServeWithdrawn
<1>2. ~Idle /\ Callee \in Nodes /\ Unused \in Seq(Chores) /\ agenda \in Seq(Chores)
  BY <1>1, CalleeFacts, UnusedFacts DEF NodeCalls, TypeOK
<1> QED BY <1>1, <1>2, ThenMembers

LEMMA RunFacts ==
  ASSUME Typed, ServeRun
  PROVE  LET n == Callee IN
         /\ Calls("serve") /\ ~Idle /\ n \in Nodes
         /\ TypeOK'
         /\ Members(agenda) = {Head(agenda)} \cup Rest /\ Members(agenda') = Rest /\ Then(<<>>)
         /\ Servable(n) /\ Staged(n).ok /\ slot[n].cursor \in Times
         /\ Room \in BOOLEAN /\ (Room \/ CanReserve)
         /\ \A m \in Nodes \ {n} : slot'[m] = slot[m]
         /\ slot[n].running = NoRun /\ slot'[n].running \in Jobs
         /\ slot'[n].running = [key |-> Staged(n).key, stamp |-> Staged(n).stamp, t |-> slot[n].cursor, cancelled |-> FALSE]
         /\ slot'[n].requested = slot[n].requested /\ slot'[n].wait = "none" /\ slot'[n].cursor = slot[n].cursor
         /\ slot'[n].status = "pending" /\ slot'[n].failure = slot[n].failure /\ slot'[n].readers = slot[n].readers
         /\ budget' = [LineAfter(n, "none") EXCEPT !.reserved = IF Room THEN @ ELSE @ + 1]
         /\ UNCHANGED <<graph, data, epoch, held, history, orphans, events>>
<1> DEFINE n == Callee
           job == [key |-> Staged(n).key, stamp |-> Staged(n).stamp, t |-> slot[n].cursor, cancelled |-> FALSE]
<1>1. /\ TypeOK /\ Calls("serve") /\ MustRun(n, Trigger) /\ slot[n].running = NoRun /\ (Room \/ CanReserve)
      /\ slot' = [slot EXCEPT ![n].wait = "none", ![n].status = "pending", ![n].running = job]
      /\ budget' = [LineAfter(n, "none") EXCEPT !.reserved = IF Room THEN @ ELSE @ + 1]
      /\ Then(<<>>) /\ UNCHANGED <<graph, data, epoch, held, history, orphans, events>>
  BY DEF Typed, ServeRun
<1>2. ~Idle /\ n \in Nodes /\ Room \in BOOLEAN
  BY <1>1, CalleeFacts, UnusedFacts DEF NodeCalls
<1>3. Servable(n) /\ Staged(n).ok /\ slot[n].requested
  BY <1>1 DEF MustRun, Staging, Servable
<1>4. slot[n].cursor \in Times
  BY <1>2, <1>3 DEF Typed, Known
<1>5. job \in Jobs
  <2>1. Staged(n).key \in Keys /\ Staged(n).stamp \in Nat
    BY <1>1, <1>2, <1>4, StagedTypes
  <2> QED BY <1>4, <2>1 DEF Jobs
<1>6. slot \in [Nodes -> Slots] /\ slot[n] \in Slots
  BY <1>1, <1>2 DEF TypeOK
<1> HIDE DEF job
<1>7. slot'[n] = [slot[n] EXCEPT !.wait = "none", !.status = "pending", !.running = job]
  BY <1>1, <1>2, <1>6
<1>8. \A m \in Nodes \ {n} : slot'[m] = slot[m]
  BY <1>1, <1>2, <1>6
<1>9. /\ slot'[n] \in Slots /\ slot'[n].running = job /\ slot'[n].requested = slot[n].requested /\ slot'[n].wait = "none"
      /\ slot'[n].cursor = slot[n].cursor /\ slot'[n].status = "pending" /\ slot'[n].failure = slot[n].failure
      /\ slot'[n].readers = slot[n].readers
  BY <1>5, <1>6, <1>7 DEF Slots, Waits, Statuses
<1>10. slot' \in [Nodes -> Slots]
  <2>1. slot' = [m \in Nodes |-> slot'[m]]
    BY <1>1, <1>6
  <2>2. \A m \in Nodes : slot'[m] \in Slots
    BY <1>6, <1>8, <1>9
  <2> QED BY <2>1, <2>2
<1>11. budget' \in Budgets
  <2>1. "none" \in Waits
    BY DEF Waits
  <2>2. LineAfter(n, "none") \in Budgets
    BY <1>1, <1>2, <2>1, LineAfterFacts
  <2> QED BY <1>1, <2>2 DEF Budgets
<1>12. agenda' \in Seq(Chores) /\ Members(agenda) = {Head(agenda)} \cup Rest /\ Members(agenda') = Rest
  BY <1>1, <1>2, ThenNone
<1>13. TypeOK'
  <2>1. UNCHANGED <<graph, data, epoch, held, history, orphans>>
    BY <1>1
  <2> QED BY <1>1, <1>10, <1>11, <1>12, <2>1 DEF TypeOK
<1> QED BY <1>1, <1>2, <1>3, <1>4, <1>5, <1>8, <1>9, <1>12, <1>13 DEF job

-----------------------------------------------------------------------------
LEMMA RequestFacts ==
  ASSUME Typed, RequestAt
  PROVE  LET n == Callee IN
         /\ Calls("request") /\ ~Idle /\ n \in Nodes
         /\ TypeOK' /\ Members(agenda) = {Head(agenda)} \cup Rest
         /\ \/ revision[n] = 0 /\ slot' = slot /\ Members(agenda') = Rest /\ Then(<<>>)
            \/ /\ revision[n] > 0 /\ Members(agenda') = {Bind(n, 1)} \cup Rest /\ Then(<<Bind(n, 1)>>) /\ Bind(n, 1) \in Chores
               /\ \A m \in Nodes \ {n} : slot'[m] = slot[m]
               /\ slot'[n].requested /\ slot'[n].cursor \in Times
               /\ slot'[n].cursor = IF PinnedAt[n] = NoTime THEN Head(agenda).t ELSE PinnedAt[n]
               /\ slot'[n].wait = slot[n].wait /\ slot'[n].status = slot[n].status /\ slot'[n].readers = slot[n].readers
               /\ slot'[n].running = IF slot[n].running # NoRun /\ slot[n].running.key.epoch # epoch
                                       THEN [slot[n].running EXCEPT !.cancelled = TRUE] ELSE slot[n].running
               /\ slot'[n].running = NoRun <=> slot[n].running = NoRun
         /\ UNCHANGED <<graph, data, epoch, held, history, budget, orphans, events>>
<1> DEFINE n == Callee
           t == IF PinnedAt[n] = NoTime THEN Head(agenda).t ELSE PinnedAt[n]
           old == slot[n]
           failed == IF old.failure # NoFailure /\ old.failure.decode THEN NoFailure ELSE old.failure
           run == IF old.running # NoRun /\ old.running.key.epoch # epoch THEN [old.running EXCEPT !.cancelled = TRUE] ELSE old.running
           new == [old EXCEPT !.requested = TRUE, !.cursor = t, !.failure = failed, !.running = run]
<1>1. /\ TypeOK /\ Calls("request") /\ UNCHANGED <<graph, data, epoch, held, history, budget, orphans, events>>
      /\ revision[n] = 0 => Then(<<>>) /\ slot' = slot
      /\ revision[n] # 0 => slot' = [slot EXCEPT ![n] = new] /\ Then(<<Bind(n, 1)>>)
  BY DEF Typed, RequestAt
<1>2. ~Idle /\ n \in Nodes /\ Head(agenda) \in Chores /\ Head(agenda).call = "request"
  BY <1>1, CalleeFacts, HeadFacts DEF NodeCalls
<1>3. t \in Times
  BY <1>2, ChoreFacts, ConstantFacts
<1>4. slot \in [Nodes -> Slots] /\ old \in Slots /\ revision[n] \in Nat
  BY <1>1, <1>2 DEF TypeOK, revision
<1>5. old.running \in Jobs \cup {NoRun} /\ old.failure \in Failures \cup {NoFailure}
  BY <1>4, SlotFields
<1>6. run \in Jobs \cup {NoRun} /\ (run = NoRun <=> old.running = NoRun)
  <2>1. old.running # NoRun => [old.running EXCEPT !.cancelled = TRUE] \in Jobs
    BY <1>5, JobTypes
  <2> DEFINE cancelled == [old.running EXCEPT !.cancelled = TRUE]
  <2>2. (run = cancelled /\ old.running # NoRun) \/ run = old.running
    OBVIOUS
  <2> HIDE DEF run, cancelled
  <2>3. old.running # NoRun => cancelled \in Jobs /\ cancelled # NoRun
    BY <2>1, NoRunAssumption DEF cancelled
  <2> QED BY <1>5, <2>2, <2>3
<1>7. failed \in Failures \cup {NoFailure}
  BY <1>5
<1> HIDE DEF t, failed, run
<1>8. /\ new \in Slots /\ new.requested /\ new.cursor = t /\ new.running = run
      /\ new.wait = old.wait /\ new.status = old.status /\ new.readers = old.readers
  BY <1>3, <1>4, <1>6, <1>7 DEF Slots
<1> HIDE DEF new, old
<1>9. CASE revision[n] = 0
  <2>1. Then(<<>>) /\ slot' = slot
    BY <1>1, <1>9
  <2>2. agenda' \in Seq(Chores) /\ Members(agenda) = {Head(agenda)} \cup Rest /\ Members(agenda') = Rest
    BY <1>1, <1>2, <2>1, ThenNone
  <2>3. TypeOK'
    BY <1>1, <2>1, <2>2 DEF TypeOK
  <2> QED BY <1>1, <1>2, <1>9, <2>1, <2>2, <2>3
<1>10. CASE revision[n] # 0
  <2>1. Then(<<Bind(n, 1)>>) /\ slot' = [slot EXCEPT ![n] = new]
    BY <1>1, <1>10
  <2>2. Bind(n, 1) \in Chores
    BY <1>2, ChoreTypes
  <2>3. agenda' \in Seq(Chores) /\ Members(agenda) = {Head(agenda)} \cup Rest /\ Members(agenda') = {Bind(n, 1)} \cup Rest
    BY <1>1, <1>2, <2>1, <2>2, ThenOne
  <2>4. slot' \in [Nodes -> Slots] /\ slot'[n] = new /\ \A m \in Nodes \ {n} : slot'[m] = slot[m]
    BY <1>2, <1>4, <1>8, <2>1, SlotWith
  <2>5. TypeOK'
    BY <1>1, <2>3, <2>4 DEF TypeOK
  <2>6. revision[n] > 0
    BY <1>4, <1>10
  <2>7. /\ slot'[n].requested /\ slot'[n].cursor = t /\ slot'[n].running = run
        /\ slot'[n].wait = slot[n].wait /\ slot'[n].status = slot[n].status /\ slot'[n].readers = slot[n].readers
    BY <1>8, <2>4 DEF old
  <2>8. run = NoRun <=> slot[n].running = NoRun
    BY <1>6 DEF old
  <2>9. run = IF slot[n].running # NoRun /\ slot[n].running.key.epoch # epoch
                   THEN [slot[n].running EXCEPT !.cancelled = TRUE] ELSE slot[n].running
    BY DEF run, old
  <2>10. t = IF PinnedAt[n] = NoTime THEN Head(agenda).t ELSE PinnedAt[n]
    BY DEF t
  <2> QED BY <1>1, <1>2, <1>3, <2>1, <2>2, <2>3, <2>4, <2>5, <2>6, <2>7, <2>8, <2>9, <2>10
<1> QED BY <1>9, <1>10

LEMMA BindFacts ==
  ASSUME Typed, BindNext
  PROVE  LET n == Callee
             i == Head(agenda).input
             u == Reads[n][i] IN
         /\ Calls("bind") /\ ~Idle /\ n \in Nodes /\ i \in Nat /\ i > 0 /\ slot[n].cursor \in Times
         /\ TypeOK' /\ Members(agenda) = {Head(agenda)} \cup Rest
         /\ \/ /\ i > Len(Reads[n]) /\ Then(<<Serve(n, "request", FALSE)>>) /\ <<Serve(n, "request", FALSE)>> \in Seq(Chores)
               /\ Members(agenda') = {Serve(n, "request", FALSE)} \cup Rest
            \/ /\ i \in 1 .. Len(Reads[n]) /\ u \in UpstreamsOf(n) /\ u \in Nodes
               /\ Then(<<Request(u, slot[n].cursor), Register(u, n), Bind(n, i + 1)>>)
               /\ <<Request(u, slot[n].cursor), Register(u, n), Bind(n, i + 1)>> \in Seq(Chores)
               /\ Members(agenda') = {Request(u, slot[n].cursor), Register(u, n), Bind(n, i + 1)} \cup Rest
         /\ UNCHANGED <<graph, data, epoch, held, slot, history, budget, orphans, events>>
<1> DEFINE n == Callee
           i == Head(agenda).input
           u == Reads[n][i]
           t == slot[n].cursor
<1>1. /\ TypeOK /\ Known /\ Calls("bind") /\ UNCHANGED <<graph, data, epoch, held, slot, history, budget, orphans, events>>
      /\ Then(IF i > Len(Reads[n]) THEN <<Serve(n, "request", FALSE)>> ELSE <<Request(u, t), Register(u, n), Bind(n, i + 1)>>)
  BY DEF Typed, BindNext
<1>2. ~Idle /\ n \in Nodes /\ Head(agenda) \in Chores /\ Head(agenda).call = "bind" /\ agenda \in Seq(Chores)
  BY <1>1, CalleeFacts, HeadFacts DEF NodeCalls, TypeOK
<1>3. i \in Nat /\ i > 0
  BY <1>2, ChoreFacts
<1>4. t \in Times
  <2>1. Head(agenda) \in Members(agenda)
    BY <1>1, <1>2, HeadFacts DEF Members
  <2>2. \A c \in Members(agenda) : c.call = "bind" => slot[c.node].cursor \in Times
    BY <1>1 DEF Known
  <2> QED BY <1>2, <2>1, <2>2 DEF Callee
<1>5. Reads[n] \in Seq(Nodes) /\ Len(Reads[n]) \in Nat
  BY <1>2, UpstreamNodes
<1> HIDE DEF t, i
<1>6. CASE i > Len(Reads[n])
  <2>1. Then(<<Serve(n, "request", FALSE)>>)
    BY <1>1, <1>6
  <2>2. FALSE \in BOOLEAN
    OBVIOUS
  <2>3. Serve(n, "request", FALSE) \in Chores
    BY <1>2, <2>2, ChoreTypes, Zenon
  <2>4. agenda' \in Seq(Chores) /\ Members(agenda) = {Head(agenda)} \cup Rest /\ Members(agenda') = {Serve(n, "request", FALSE)} \cup Rest
    BY <1>1, <1>2, <2>1, <2>3, ThenOne
  <2>5. TypeOK'
    BY <1>1, <2>4 DEF TypeOK
  <2>6. <<Serve(n, "request", FALSE)>> \in Seq(Chores)
    BY <2>3, OneCall, Zenon
  <2> QED BY <1>1, <1>2, <1>3, <1>4, <1>6, <2>1, <2>4, <2>5, <2>6 DEF t, i
<1>7. CASE ~(i > Len(Reads[n]))
  <2>1. i \in 1 .. Len(Reads[n])
    BY <1>3, <1>5, <1>7
  <2>2. u \in UpstreamsOf(n) /\ u \in Nodes
    BY <1>5, <2>1 DEF UpstreamsOf
  <2> HIDE DEF u
  <2>3. Request(u, t) \in Chores /\ Register(u, n) \in Chores /\ Bind(n, i + 1) \in Chores
    BY <1>2, <1>3, <1>4, <2>2, ChoreTypes
  <2> DEFINE calls == <<Request(u, t), Register(u, n), Bind(n, i + 1)>>
  <2>4. calls \in Seq(Chores)
    BY <2>3
  <2>5. Members(calls) = {Request(u, t), Register(u, n), Bind(n, i + 1)}
    BY MembersOf
  <2>6. Then(calls)
    BY <1>1, <1>7 DEF u
  <2> HIDE DEF calls
  <2>7. agenda' \in Seq(Chores) /\ Members(agenda) = {Head(agenda)} \cup Rest /\ Members(agenda') = Members(calls) \cup Rest
    BY <1>2, <2>4, <2>6, ThenMembers
  <2>8. TypeOK'
    BY <1>1, <2>7 DEF TypeOK
  <2> QED BY <1>1, <1>2, <1>3, <1>4, <2>1, <2>2, <2>4, <2>5, <2>6, <2>7, <2>8 DEF t, i, u, calls
<1> QED BY <1>6, <1>7

LEMMA RegisterFacts ==
  ASSUME Typed, RegisterReader
  PROVE  LET u == Callee
             n == Head(agenda).reader IN
         /\ Calls("register") /\ ~Idle /\ u \in Nodes /\ n \in Nodes
         /\ TypeOK' /\ Members(agenda) = {Head(agenda)} \cup Rest /\ Members(agenda') = Rest /\ Then(<<>>)
         /\ \A m \in Nodes \ {u} : slot'[m] = slot[m]
         /\ slot'[u].running = slot[u].running /\ slot'[u].requested = slot[u].requested /\ slot'[u].wait = slot[u].wait
         /\ slot'[u].cursor = slot[u].cursor /\ slot'[u].status = slot[u].status /\ slot'[u].failure = slot[u].failure
         /\ slot[u].cursor # NoTime => Members(slot'[u].readers) = Members(slot[u].readers) \cup {n}
         /\ slot[u].cursor = NoTime => slot'[u] = slot[u]
         /\ UNCHANGED <<graph, data, epoch, held, history, budget, orphans, events>>
<1> DEFINE u == Callee
           n == Head(agenda).reader
           readers == slot[u].readers
           known == slot[u].cursor = NoTime \/ \E i \in 1 .. Len(readers) : readers[i] = n
           new == [slot[u] EXCEPT !.readers = Append(readers, n)]
<1>1. /\ TypeOK /\ Calls("register") /\ Then(<<>>) /\ UNCHANGED <<graph, data, epoch, held, history, budget, orphans, events>>
      /\ slot' = IF known THEN slot ELSE [slot EXCEPT ![u] = new]
  BY DEF Typed, RegisterReader
<1>2. ~Idle /\ u \in Nodes /\ Head(agenda) \in Chores /\ Head(agenda).call = "register"
  BY <1>1, CalleeFacts, HeadFacts DEF NodeCalls
<1>3. n \in Nodes
  BY <1>2, ChoreFacts
<1>4. slot \in [Nodes -> Slots] /\ slot[u] \in Slots /\ readers \in Seq(Nodes)
  BY <1>1, <1>2, SlotTypes DEF TypeOK
<1>5. agenda' \in Seq(Chores) /\ Members(agenda) = {Head(agenda)} \cup Rest /\ Members(agenda') = Rest
  BY <1>1, <1>2, ThenNone
<1>6. CASE known
  <2>1. slot' = slot
    BY <1>1, <1>6
  <2>2. TypeOK'
    BY <1>1, <1>5, <2>1 DEF TypeOK
  <2>3. slot[u].cursor # NoTime => n \in Members(readers)
    BY <1>6 DEF Members
  <2>4. slot[u].cursor # NoTime => Members(slot'[u].readers) = Members(slot[u].readers) \cup {n}
    BY <2>1, <2>3
  <2> HIDE DEF known
  <2> QED BY <1>1, <1>2, <1>3, <1>5, <2>1, <2>2, <2>4
<1>7. CASE ~known
  <2>1. slot[u].cursor # NoTime /\ slot' = [slot EXCEPT ![u] = new]
    BY <1>1, <1>7
  <2>2. Append(readers, n) \in Seq(Nodes)
    BY <1>3, <1>4
  <2>3. Members(Append(readers, n)) = Members(readers) \cup {n}
    <3> DEFINE longer == Append(readers, n)
    <3>1. Len(longer) = Len(readers) + 1 /\ Len(readers) \in Nat /\ longer[Len(readers) + 1] = n /\ \A i \in 1 .. Len(readers) : longer[i] = readers[i]
      BY <1>3, <1>4
    <3> HIDE DEF longer, readers
    <3>2. \A i \in 1 .. Len(longer) : i = Len(readers) + 1 \/ i \in 1 .. Len(readers)
      BY <3>1
    <3>3. Len(readers) + 1 \in 1 .. Len(longer) /\ \A i \in 1 .. Len(readers) : i \in 1 .. Len(longer)
      BY <3>1
    <3>4. Members(longer) = Members(readers) \cup {n}
      BY <3>1, <3>2, <3>3 DEF Members
    <3> QED BY <3>4 DEF longer
  <2> HIDE DEF readers
  <2>4. /\ new \in Slots /\ new.running = slot[u].running /\ new.requested = slot[u].requested /\ new.wait = slot[u].wait
        /\ new.cursor = slot[u].cursor /\ new.status = slot[u].status /\ new.failure = slot[u].failure
        /\ new.readers = Append(readers, n)
    BY <1>4, <2>2 DEF Slots
  <2> HIDE DEF new, known
  <2>5. slot' \in [Nodes -> Slots] /\ slot'[u] = new /\ \A m \in Nodes \ {u} : slot'[m] = slot[m]
    BY <1>2, <1>4, <2>1, <2>4, SlotWith
  <2>6. TypeOK'
    BY <1>1, <1>5, <2>5 DEF TypeOK
  <2>7. Members(slot'[u].readers) = Members(slot[u].readers) \cup {n}
    BY <2>3, <2>4, <2>5 DEF readers
  <2> QED BY <1>1, <1>2, <1>3, <1>5, <2>1, <2>4, <2>5, <2>6, <2>7
<1> QED BY <1>6, <1>7

LEMMA OneReaderFacts ==
  ASSUME Typed, ServeOneReader
  PROVE  LET n == Callee IN
         /\ Calls("reader") /\ ~Idle /\ n \in Nodes
         /\ TypeOK' /\ Members(agenda) = {Head(agenda)} \cup Rest
         /\ \/ Then(<<>>) /\ Members(agenda') = Rest
            \/ /\ Then(<<Serve(n, "retry", FALSE)>>) /\ <<Serve(n, "retry", FALSE)>> \in Seq(Chores)
               /\ Members(agenda') = {Serve(n, "retry", FALSE)} \cup Rest
         /\ revision[n] > 0 /\ slot[n].running = NoRun /\ slot[n].wait = "upstream" => Members(agenda') = {Serve(n, "retry", FALSE)} \cup Rest
         /\ UNCHANGED <<graph, data, epoch, held, slot, history, budget, orphans, events>>
<1> DEFINE n == Callee
           turn == IF Head(agenda).waitingOnly THEN slot[n].wait = "upstream" ELSE slot[n].wait # "room"
           goes == revision[n] > 0 /\ slot[n].running = NoRun /\ turn
<1>1. /\ TypeOK /\ Calls("reader") /\ UNCHANGED <<graph, data, epoch, held, slot, history, budget, orphans, events>>
      /\ Then(IF goes THEN <<Serve(n, "retry", FALSE)>> ELSE <<>>)
  BY DEF Typed, ServeOneReader
<1>2. ~Idle /\ n \in Nodes
  BY <1>1, CalleeFacts DEF NodeCalls
<1>3. revision[n] > 0 /\ slot[n].running = NoRun /\ slot[n].wait = "upstream" => goes
  OBVIOUS
<1> HIDE DEF goes
<1>4. FALSE \in BOOLEAN
  OBVIOUS
<1>5. Serve(n, "retry", FALSE) \in Chores
  BY <1>2, <1>4, ChoreTypes, Zenon
<1>6. <<Serve(n, "retry", FALSE)>> \in Seq(Chores)
  BY <1>5, OneCall, Zenon
<1>7. CASE goes
  <2>1. Then(<<Serve(n, "retry", FALSE)>>)
    BY <1>1, <1>7
  <2>2. agenda' \in Seq(Chores) /\ Members(agenda) = {Head(agenda)} \cup Rest /\ Members(agenda') = {Serve(n, "retry", FALSE)} \cup Rest
    BY <1>1, <1>2, <1>5, <2>1, ThenOne
  <2>3. TypeOK'
    BY <1>1, <2>2 DEF TypeOK
  <2> QED BY <1>1, <1>2, <1>6, <2>1, <2>2, <2>3
<1>8. CASE ~goes
  <2>1. Then(<<>>)
    BY <1>1, <1>8
  <2>2. agenda' \in Seq(Chores) /\ Members(agenda) = {Head(agenda)} \cup Rest /\ Members(agenda') = Rest
    BY <1>1, <1>2, <2>1, ThenNone
  <2>3. TypeOK'
    BY <1>1, <2>2 DEF TypeOK
  <2> QED BY <1>1, <1>2, <1>3, <1>8, <2>1, <2>2, <2>3
<1> QED BY <1>7, <1>8

LEMMA SettleFacts ==
  ASSUME Typed, Settle
  PROVE  /\ Calls("settle") /\ ~Idle /\ Callee \in Nodes /\ Head(agenda).stamp \in Nat
         /\ TombstonesSuperseded(Callee, history[Callee], Head(agenda).stamp) \in Histories
         /\ Conclude(Callee, "none", "ready", TombstonesSuperseded(Callee, history[Callee], Head(agenda).stamp), <<>>)
<1>1. TypeOK /\ Calls("settle")
  BY DEF Typed, Settle
<1>2. ~Idle /\ Callee \in Nodes /\ Head(agenda) \in Chores /\ Head(agenda).call = "settle"
  BY <1>1, CalleeFacts, HeadFacts DEF NodeCalls
<1>3. Head(agenda).stamp \in Nat /\ history[Callee] \in Histories
  BY <1>1, <1>2, ChoreFacts DEF TypeOK
<1>4. TombstonesSuperseded(Callee, history[Callee], Head(agenda).stamp) \in Histories
  BY <1>2, <1>3, SupersededTypes
<1> QED BY <1>1, <1>2, <1>3, <1>4 DEF Settle

LEMMA SupersedeFacts ==
  ASSUME Typed, SupersedeNode
  PROVE  LET n == Callee IN
         /\ Calls("supersede") /\ ~Idle /\ n \in Nodes
         /\ TypeOK' /\ Members(agenda) = {Head(agenda)} \cup Rest
         /\ \/ ~slot[n].requested /\ Then(<<>>) /\ Members(agenda') = Rest
            \/ /\ slot[n].requested /\ Then(<<Request(n, slot[n].cursor)>>) /\ Members(agenda') = {Request(n, slot[n].cursor)} \cup Rest
               /\ Request(n, slot[n].cursor) \in Chores
         /\ \A m \in Nodes \ {n} : slot'[m] = slot[m]
         /\ slot'[n].requested = slot[n].requested /\ slot'[n].wait = slot[n].wait
         /\ slot'[n].cursor = slot[n].cursor /\ slot'[n].status = slot[n].status /\ slot'[n].readers = slot[n].readers
         /\ slot'[n].running = NoRun <=> slot[n].running = NoRun
         /\ slot'[n].running # NoRun => slot'[n].running.cancelled
         /\ UNCHANGED <<graph, data, epoch, held, history, budget, orphans, events>>
<1> DEFINE n == Callee
           was == slot[n].running
           cancelled == IF slot[n].running = NoRun THEN NoRun ELSE [slot[n].running EXCEPT !.cancelled = TRUE]
           new == [slot[n] EXCEPT !.running = cancelled, !.failure = NoFailure]
<1>1. /\ TypeOK /\ Known /\ Calls("supersede") /\ UNCHANGED <<graph, data, epoch, held, history, budget, orphans, events>>
      /\ slot' = [slot EXCEPT ![n].running = cancelled, ![n].failure = NoFailure]
      /\ Then(IF slot[n].requested THEN <<Request(n, slot[n].cursor)>> ELSE <<>>)
  BY DEF Typed, SupersedeNode
<1>2. ~Idle /\ n \in Nodes
  BY <1>1, CalleeFacts DEF NodeCalls
<1>3. slot \in [Nodes -> Slots] /\ slot[n] \in Slots /\ was \in Jobs \cup {NoRun}
  BY <1>1, <1>2, SlotTypes DEF TypeOK
<1>4. /\ cancelled \in Jobs \cup {NoRun} /\ (cancelled = NoRun <=> was = NoRun)
      /\ cancelled # NoRun => cancelled.cancelled
  <2>1. was # NoRun => [was EXCEPT !.cancelled = TRUE] \in Jobs /\ [was EXCEPT !.cancelled = TRUE].cancelled
    BY <1>3, JobTypes
  <2> DEFINE off == [was EXCEPT !.cancelled = TRUE]
  <2>2. cancelled = IF was = NoRun THEN NoRun ELSE off
    OBVIOUS
  <2> HIDE DEF cancelled, off, was
  <2>3. was # NoRun => off \in Jobs /\ off # NoRun /\ off.cancelled
    BY <2>1, NoRunAssumption DEF off
  <2> QED BY <2>2, <2>3
<1> HIDE DEF cancelled
<1>5. slot'[n] = new
  BY <1>1, <1>2, <1>3
<1>6. \A m \in Nodes \ {n} : slot'[m] = slot[m]
  BY <1>1, <1>2, <1>3
<1>7. /\ new \in Slots /\ new.requested = slot[n].requested /\ new.wait = slot[n].wait
      /\ new.cursor = slot[n].cursor /\ new.status = slot[n].status /\ new.readers = slot[n].readers
      /\ new.running = cancelled
  BY <1>3, <1>4 DEF Slots
<1> HIDE DEF new
<1>8. slot' \in [Nodes -> Slots]
  <2>1. slot' = [m \in Nodes |-> slot'[m]]
    BY <1>1, <1>3
  <2>2. \A m \in Nodes : slot'[m] \in Slots
    BY <1>3, <1>5, <1>6, <1>7
  <2> QED BY <2>1, <2>2
<1>9. /\ Members(agenda) = {Head(agenda)} \cup Rest /\ agenda' \in Seq(Chores)
      /\ \/ ~slot[n].requested /\ Then(<<>>) /\ Members(agenda') = Rest
         \/ /\ slot[n].requested /\ Then(<<Request(n, slot[n].cursor)>>) /\ Members(agenda') = {Request(n, slot[n].cursor)} \cup Rest
            /\ Request(n, slot[n].cursor) \in Chores
  <2>1. CASE slot[n].requested
    <3>1. slot[n].cursor \in Times
      BY <1>1, <1>2, <2>1 DEF Known
    <3>2. Request(n, slot[n].cursor) \in Chores
      BY <1>2, <3>1, ChoreTypes
    <3>3. Then(<<Request(n, slot[n].cursor)>>)
      BY <1>1, <2>1
    <3> QED BY <1>1, <1>2, <2>1, <3>2, <3>3, ThenOne
  <2>2. CASE ~slot[n].requested
    <3>1. Then(<<>>)
      BY <1>1, <2>2
    <3> QED BY <1>1, <1>2, <2>2, <3>1, ThenNone
  <2> QED BY <2>1, <2>2
<1>10. TypeOK'
  BY <1>1, <1>8, <1>9 DEF TypeOK
<1>11. slot'[n].running = cancelled
  BY <1>5, <1>7
<1> QED BY <1>1, <1>2, <1>4, <1>5, <1>6, <1>7, <1>9, <1>10, <1>11

(* A call for each node of a sequence. *)
LEMMA Mapped ==
  ASSUME NEW seq \in Seq(Nodes), NEW g \in [Nodes -> Chores], NEW calls, calls = [i \in 1 .. Len(seq) |-> g[seq[i]]]
  PROVE  /\ calls \in Seq(Chores) /\ Len(calls) = Len(seq)
         /\ \A i \in 1 .. Len(seq) : seq[i] \in Nodes /\ calls[i] = g[seq[i]]
         /\ Members(calls) = {g[m] : m \in Members(seq)}
<1>1. Len(seq) \in Nat /\ \A i \in 1 .. Len(seq) : seq[i] \in Nodes
  OBVIOUS
<1>2. \A i \in 1 .. Len(seq) : g[seq[i]] \in Chores
  BY <1>1
<1>3. calls \in Seq(Chores) /\ Len(calls) = Len(seq) /\ \A i \in 1 .. Len(seq) : calls[i] = g[seq[i]]
  BY <1>1, <1>2
<1>4. Members(calls) = {g[m] : m \in Members(seq)}
  BY <1>3 DEF Members
<1> QED BY <1>1, <1>3, <1>4

LEMMA SupersedeAll ==
  ASSUME NEW seq \in Seq(Nodes)
  PROVE  /\ [i \in 1 .. Len(seq) |-> Supersede(seq[i])] \in Seq(Chores)
         /\ Members([i \in 1 .. Len(seq) |-> Supersede(seq[i])]) = {Supersede(m) : m \in Members(seq)}
<1> DEFINE g == [m \in Nodes |-> Supersede(m)]
           calls == [i \in 1 .. Len(seq) |-> Supersede(seq[i])]
<1>1. \A m \in Nodes : Supersede(m) \in Chores /\ g[m] = Supersede(m)
  BY ChoreTypes
<1>2. g \in [Nodes -> Chores]
  BY <1>1
<1>3. \A i \in 1 .. Len(seq) : seq[i] \in Nodes
  OBVIOUS
<1>4. Members(seq) \subseteq Nodes
  BY <1>3 DEF Members
<1>5. calls = [i \in 1 .. Len(seq) |-> g[seq[i]]]
  BY <1>3
<1> HIDE DEF g, calls
<1>6. calls \in Seq(Chores) /\ Members(calls) = {g[m] : m \in Members(seq)}
  BY <1>2, <1>5, Mapped
<1>7. {g[m] : m \in Members(seq)} = {Supersede(m) : m \in Members(seq)}
  BY <1>1, <1>4
<1> QED BY <1>6, <1>7 DEF calls

LEMMA WithdrawAll ==
  ASSUME NEW seq \in Seq(Nodes)
  PROVE  /\ [i \in 1 .. Len(seq) |-> Withdraw(seq[i])] \in Seq(Chores)
         /\ Members([i \in 1 .. Len(seq) |-> Withdraw(seq[i])]) = {Withdraw(m) : m \in Members(seq)}
<1> DEFINE g == [m \in Nodes |-> Withdraw(m)]
           calls == [i \in 1 .. Len(seq) |-> Withdraw(seq[i])]
<1>1. \A m \in Nodes : Withdraw(m) \in Chores /\ g[m] = Withdraw(m)
  BY ChoreTypes
<1>2. g \in [Nodes -> Chores]
  BY <1>1
<1>3. \A i \in 1 .. Len(seq) : seq[i] \in Nodes
  OBVIOUS
<1>4. Members(seq) \subseteq Nodes
  BY <1>3 DEF Members
<1>5. calls = [i \in 1 .. Len(seq) |-> g[seq[i]]]
  BY <1>3
<1> HIDE DEF g, calls
<1>6. calls \in Seq(Chores) /\ Members(calls) = {g[m] : m \in Members(seq)}
  BY <1>2, <1>5, Mapped
<1>7. {g[m] : m \in Members(seq)} = {Withdraw(m) : m \in Members(seq)}
  BY <1>1, <1>4
<1> QED BY <1>6, <1>7 DEF calls

LEMMA RequestAll ==
  ASSUME NEW seq \in Seq(Nodes), \A m \in Members(seq) : slot[m].cursor \in Times
  PROVE  /\ [i \in 1 .. Len(seq) |-> Request(seq[i], slot[seq[i]].cursor)] \in Seq(Chores)
         /\ Members([i \in 1 .. Len(seq) |-> Request(seq[i], slot[seq[i]].cursor)]) = {Request(m, slot[m].cursor) : m \in Members(seq)}
<1> DEFINE calls == [i \in 1 .. Len(seq) |-> Request(seq[i], slot[seq[i]].cursor)]
<1>1. Len(seq) \in Nat /\ \A i \in 1 .. Len(seq) : seq[i] \in Nodes /\ seq[i] \in Members(seq)
  BY DEF Members
<1>2. \A i \in 1 .. Len(seq) : Request(seq[i], slot[seq[i]].cursor) \in Chores
  BY <1>1, ChoreTypes
<1>3. calls \in Seq(Chores) /\ Len(calls) = Len(seq) /\ \A i \in 1 .. Len(seq) : calls[i] = Request(seq[i], slot[seq[i]].cursor)
  BY <1>1, <1>2
<1> HIDE DEF calls
<1>4. Members(calls) = {Request(m, slot[m].cursor) : m \in Members(seq)}
  BY <1>3 DEF Members
<1> QED BY <1>3, <1>4 DEF calls

LEMMA WithdrawFacts ==
  ASSUME Typed, WithdrawNode
  PROVE  LET n == Callee IN
         /\ Calls("withdraw") /\ ~Idle /\ n \in Nodes
         /\ TypeOK' /\ Members(agenda) = {Head(agenda)} \cup Rest
         /\ UNCHANGED <<graph, data, epoch, held, history, orphans, events>>
         /\ \/ Then(<<>>) /\ Members(agenda') = Rest /\ UNCHANGED <<slot, budget>>
            \/ /\ budget' = LineAfter(n, "none")
               /\ \A m \in Nodes \ {n} : slot'[m] = slot[m]
               /\ slot'[n].running = slot[n].running /\ ~slot'[n].requested /\ slot'[n].wait = "none" /\ slot'[n].cursor = slot[n].cursor
               /\ slot'[n].status = "idle" /\ slot'[n].failure = slot[n].failure /\ slot'[n].readers = slot[n].readers
               /\ revision[n] > 0
               /\ \E calls \in Seq(Chores), ups \in SUBSET Nodes :
                    /\ Then(calls) /\ Members(agenda') = Members(calls) \cup Rest
                    /\ Members(calls) = {ServeReader(m, TRUE) : m \in Members(slot[n].readers)} \cup {Withdraw(u) : u \in ups}
<1> DEFINE n == Callee
           refused == revision[n] = 0 \/ slot[n].cursor = NoTime \/ NeededByReader(n)
           up == {u \in UpstreamsOf(n) : revision[u] > 0 /\ PinnedAt[u] = NoTime}
           undemanded(demanded) == Among(Reads[n], up \ demanded)
           calls(demanded) == ServeReaders(n, TRUE) \o [i \in 1 .. Len(undemanded(demanded)) |-> Withdraw(undemanded(demanded)[i])]
           new == [slot[n] EXCEPT !.requested = FALSE, !.wait = "none", !.status = "idle"]
<1>1. /\ TypeOK /\ Known /\ Calls("withdraw") /\ UNCHANGED <<graph, data, epoch, held, history, orphans, events>>
      /\ \/ refused /\ Then(<<>>) /\ UNCHANGED <<slot, budget>>
         \/ /\ ~refused
            /\ slot' = [slot EXCEPT ![n].requested = FALSE, ![n].wait = "none", ![n].status = "idle"]
            /\ budget' = LineAfter(n, "none")
            /\ \E demanded \in SUBSET UpstreamsOf(n) : Then(calls(demanded))
  BY DEF Typed, WithdrawNode
<1>2. ~Idle /\ n \in Nodes /\ agenda \in Seq(Chores)
  BY <1>1, CalleeFacts DEF NodeCalls, TypeOK
<1>3. slot \in [Nodes -> Slots] /\ slot[n] \in Slots
  BY <1>1, <1>2 DEF TypeOK
<1>4. ASSUME NEW demanded \in SUBSET UpstreamsOf(n)
      PROVE  /\ calls(demanded) \in Seq(Chores)
             /\ Members(calls(demanded)) = {ServeReader(m, TRUE) : m \in Members(slot[n].readers)} \cup {Withdraw(u) : u \in Members(undemanded(demanded))}
             /\ Members(undemanded(demanded)) \in SUBSET Nodes
  <2> DEFINE seq == undemanded(demanded)
             told == ServeReaders(n, TRUE)
             asked == [i \in 1 .. Len(seq) |-> Withdraw(seq[i])]
  <2>1. Reads[n] \in Seq(Nodes)
    BY <1>2, UpstreamNodes
  <2>2. seq \in Seq(Nodes)
    BY <2>1, AmongFacts
  <2> HIDE DEF seq
  <2>3. asked \in Seq(Chores) /\ Members(asked) = {Withdraw(m) : m \in Members(seq)}
    BY <2>2, WithdrawAll
  <2>4. TRUE \in BOOLEAN
    OBVIOUS
  <2>5. told \in Seq(Chores) /\ Members(told) = {ServeReader(m, TRUE) : m \in Members(slot[n].readers)}
    BY <1>1, <1>2, <2>4, ReadersCalled, Zenon
  <2>6. Members(seq) \in SUBSET Nodes
    BY <2>2 DEF Members
  <2> HIDE DEF told, asked
  <2>7. told \o asked \in Seq(Chores) /\ Members(told \o asked) = Members(told) \cup Members(asked)
    BY <2>3, <2>5, ConcatFacts
  <2>8. calls(demanded) = told \o asked
    BY DEF told, asked, seq
  <2> QED BY <2>3, <2>5, <2>6, <2>7, <2>8 DEF seq
<1> HIDE DEF calls, undemanded, up
<1>5. CASE refused /\ Then(<<>>) /\ UNCHANGED <<slot, budget>>
  <2>1. agenda' \in Seq(Chores) /\ Members(agenda) = {Head(agenda)} \cup Rest /\ Members(agenda') = Rest
    BY <1>1, <1>2, <1>5, ThenNone
  <2>2. TypeOK'
    BY <1>1, <1>5, <2>1 DEF TypeOK
  <2> QED BY <1>1, <1>2, <1>5, <2>1, <2>2
<1>6. CASE /\ ~refused
           /\ slot' = [slot EXCEPT ![n].requested = FALSE, ![n].wait = "none", ![n].status = "idle"]
           /\ budget' = LineAfter(n, "none")
           /\ \E demanded \in SUBSET UpstreamsOf(n) : Then(calls(demanded))
  <2>1. slot'[n] = new
    BY <1>2, <1>3, <1>6
  <2>2. \A m \in Nodes \ {n} : slot'[m] = slot[m]
    BY <1>2, <1>3, <1>6
  <2>3. /\ new \in Slots /\ new.running = slot[n].running /\ ~new.requested /\ new.wait = "none" /\ new.cursor = slot[n].cursor
        /\ new.status = "idle" /\ new.failure = slot[n].failure /\ new.readers = slot[n].readers
    BY <1>3 DEF Slots, Waits, Statuses
  <2>4. slot' \in [Nodes -> Slots]
    <3>1. slot' = [m \in Nodes |-> slot'[m]]
      BY <1>3, <1>6
    <3> HIDE DEF new
    <3>2. \A m \in Nodes : slot'[m] \in Slots
      BY <1>3, <2>1, <2>2, <2>3
    <3> QED BY <3>1, <3>2
  <2>5. "none" \in Waits
    BY DEF Waits
  <2>6. budget' \in Budgets
    BY <1>1, <1>2, <1>6, <2>5, LineAfterFacts
  <2>7. PICK demanded \in SUBSET UpstreamsOf(n) : Then(calls(demanded))
    BY <1>6
  <2>8. calls(demanded) \in Seq(Chores)
    BY <1>4
  <2>9. agenda' \in Seq(Chores) /\ Members(agenda) = {Head(agenda)} \cup Rest /\ Members(agenda') = Members(calls(demanded)) \cup Rest
    BY <1>2, <2>7, <2>8, ThenMembers
  <2>10. \E made \in Seq(Chores), ups \in SUBSET Nodes :
           /\ Then(made) /\ Members(agenda') = Members(made) \cup Rest
           /\ Members(made) = {ServeReader(m, TRUE) : m \in Members(slot[n].readers)} \cup {Withdraw(u) : u \in ups}
    BY <1>4, <2>7, <2>8, <2>9
  <2>11. TypeOK'
    BY <1>1, <2>4, <2>6, <2>9 DEF TypeOK
  <2>12. revision[n] > 0
    BY <1>1, <1>2, <1>6 DEF TypeOK, revision
  <2> HIDE DEF new, refused
  <2> QED BY <1>1, <1>2, <1>6, <2>1, <2>2, <2>3, <2>9, <2>10, <2>11, <2>12
<1> HIDE DEF refused
<1> QED BY <1>1, <1>5, <1>6

LEMMA BudgetFields ==
  ASSUME NEW b \in Budgets
  PROVE  /\ b.reserved \in Int /\ b.line \in Seq(Nodes) /\ b.posted \in BOOLEAN
         /\ [b EXCEPT !.reserved = @ - 1] \in Budgets
         /\ [b EXCEPT !.reserved = @ - 1].reserved = b.reserved - 1
         /\ [b EXCEPT !.reserved = @ - 1].line = b.line
         /\ [b EXCEPT !.reserved = @ - 1].posted = b.posted
BY DEF Budgets

LEMMA TwoCalls == \A x, y \in Chores : <<x, y>> \in Seq(Chores) /\ Members(<<x, y>>) = {x, y}
<1>1. \A x, y \in Chores : <<x, y>> \in Seq(Chores)
  OBVIOUS
<1> QED BY <1>1, MembersOf

(* The budget once a room is returned. *)
Returned == PostDrain([budget EXCEPT !.reserved = @ - 1])

LEMMA ReturnedFacts ==
  ASSUME TypeOK
  PROVE  /\ Returned \in Budgets /\ Returned.reserved = budget.reserved - 1 /\ Returned.line = budget.line
         /\ budget.posted => Returned.posted
         /\ ~Draining /\ budget.line # <<>> /\ Fits(Returned) => Returned.posted
<1> DEFINE b == [budget EXCEPT !.reserved = @ - 1]
<1>1. b \in Budgets /\ b.reserved = budget.reserved - 1 /\ b.line = budget.line /\ b.posted = budget.posted
  BY BudgetFields DEF TypeOK
<1> HIDE DEF b
<1>2. /\ PostDrain(b) \in Budgets /\ PostDrain(b).reserved = b.reserved /\ PostDrain(b).line = b.line
      /\ b.posted => PostDrain(b).posted
      /\ ~Draining /\ b.line # <<>> /\ Fits(b) => PostDrain(b).posted
  BY <1>1, PostDrainFacts
<1>3. Returned = PostDrain(b)
  BY DEF Returned, b
<1> QED BY <1>1, <1>2, <1>3 DEF Fits

LEMMA ReturnFacts ==
  ASSUME Typed, ReturnRoom
  PROVE  /\ Calls("giveBack") /\ ~Idle /\ TypeOK' /\ Members(agenda) = {Head(agenda)} \cup Rest /\ Members(agenda') = Rest /\ Then(<<>>)
         /\ budget' = Returned
         /\ UNCHANGED <<graph, data, epoch, held, slot, history, orphans, events>>
<1>1. /\ TypeOK /\ Calls("giveBack") /\ Then(<<>>) /\ budget' = Returned
      /\ UNCHANGED <<graph, data, epoch, held, slot, history, orphans, events>>
  BY DEF Typed, ReturnRoom, Returned
<1>2. ~Idle
  BY <1>1 DEF Calls
<1>3. agenda' \in Seq(Chores) /\ Members(agenda) = {Head(agenda)} \cup Rest /\ Members(agenda') = Rest
  BY <1>1, <1>2, ThenNone
<1>4. TypeOK'
  BY <1>1, <1>3, ReturnedFacts DEF TypeOK
<1> QED BY <1>1, <1>2, <1>3, <1>4

LEMMA DrainFacts ==
  ASSUME Typed, DrainBegins
  PROVE  /\ Calls("drain") /\ ~Idle /\ TypeOK' /\ Members(agenda) = {Head(agenda)} \cup Rest /\ Members(agenda') = {Granting} \cup Rest
         /\ Then(<<Granting>>) /\ <<Granting>> \in Seq(Chores)
         /\ UNCHANGED <<graph, data, epoch, held, slot, history, budget, orphans, events>>
<1>1. /\ TypeOK /\ Calls("drain") /\ Then(<<Granting>>)
      /\ UNCHANGED <<graph, data, epoch, held, slot, history, budget, orphans, events>>
  BY DEF Typed, DrainBegins
<1>2. ~Idle /\ Granting \in Chores
  BY <1>1, ChoreTypes DEF Calls
<1>3. agenda' \in Seq(Chores) /\ Members(agenda) = {Head(agenda)} \cup Rest /\ Members(agenda') = {Granting} \cup Rest
  BY <1>1, <1>2, ThenOne
<1>4. TypeOK'
  BY <1>1, <1>3 DEF TypeOK
<1> QED BY <1>1, <1>2, <1>3, <1>4, OneCall

LEMMA GrantFacts ==
  ASSUME Typed, Grant
  PROVE  /\ Calls("granting") /\ ~Idle /\ TypeOK' /\ Members(agenda) = {Head(agenda)} \cup Rest
         /\ UNCHANGED <<graph, data, epoch, held, history, orphans, events>>
         /\ \/ /\ ~(budget.line # <<>> /\ Fits(budget)) /\ UNCHANGED <<budget, slot>> /\ Then(<<>>) /\ Members(agenda') = Rest
            \/ LET n == Head(budget.line) IN
               /\ budget.line # <<>> /\ Fits(budget) /\ n \in Nodes
               /\ budget'.line = Tail(budget.line) /\ budget'.reserved = budget.reserved + 1 /\ budget'.posted = budget.posted
               /\ \A m \in Nodes \ {n} : slot'[m] = slot[m]
               /\ slot'[n].running = slot[n].running /\ slot'[n].requested = slot[n].requested /\ slot'[n].wait = "none"
               /\ slot'[n].cursor = slot[n].cursor /\ slot'[n].status = slot[n].status /\ slot'[n].failure = slot[n].failure
               /\ slot'[n].readers = slot[n].readers
               /\ Then(<<Serve(n, "retry", TRUE), Granting>>) /\ <<Serve(n, "retry", TRUE), Granting>> \in Seq(Chores)
               /\ Members(agenda') = {Serve(n, "retry", TRUE), Granting} \cup Rest
<1> DEFINE n == Head(budget.line)
           full == ~(budget.line # <<>> /\ Fits(budget))
<1>1. /\ TypeOK /\ Calls("granting") /\ UNCHANGED <<graph, data, epoch, held, history, orphans, events>>
      /\ full => Then(<<>>) /\ UNCHANGED <<budget, slot>>
      /\ ~full => /\ budget' = [budget EXCEPT !.line = Tail(@), !.reserved = @ + 1]
                  /\ slot' = [slot EXCEPT ![n].wait = "none"]
                  /\ Then(<<Serve(n, "retry", TRUE), Granting>>)
  BY DEF Typed, Grant
<1>2. ~Idle /\ agenda \in Seq(Chores) /\ budget \in Budgets /\ budget.line \in Seq(Nodes) /\ slot \in [Nodes -> Slots]
  BY <1>1, BudgetFields DEF Calls, TypeOK
<1>3. CASE full
  <2>1. agenda' \in Seq(Chores) /\ Members(agenda) = {Head(agenda)} \cup Rest /\ Members(agenda') = Rest
    BY <1>1, <1>2, <1>3, ThenNone
  <2>2. TypeOK'
    BY <1>1, <1>3, <2>1 DEF TypeOK
  <2> QED BY <1>1, <1>2, <1>3, <2>1, <2>2
<1>4. CASE ~full
  <2>1. n \in Nodes /\ Tail(budget.line) \in Seq(Nodes)
    BY <1>2, <1>4
  <2>2. /\ budget' = [budget EXCEPT !.line = Tail(@), !.reserved = @ + 1]
        /\ slot' = [slot EXCEPT ![n].wait = "none"]
        /\ Then(<<Serve(n, "retry", TRUE), Granting>>)
    BY <1>1, <1>4
  <2>3. /\ budget' \in Budgets
        /\ budget'.line = Tail(budget.line) /\ budget'.reserved = budget.reserved + 1 /\ budget'.posted = budget.posted
    <3>0. budget \in Budgets
      BY <1>2
    <3>1. budget.reserved \in Int /\ budget.posted \in BOOLEAN /\ budget.reserved + 1 \in Int
      BY <3>0 DEF Budgets
    <3>2. budget' = [reserved |-> budget.reserved + 1, line |-> Tail(budget.line), posted |-> budget.posted]
      BY <2>2, <3>0 DEF Budgets
    <3> QED BY <2>1, <3>1, <3>2 DEF Budgets
  <2> DEFINE calls == <<Serve(n, "retry", TRUE), Granting>>
  <2>4. TRUE \in BOOLEAN /\ Granting \in Chores
    BY ChoreTypes
  <2> HIDE DEF n
  <2>5. Serve(n, "retry", TRUE) \in Chores
    BY <2>1, <2>4, ChoreTypes, Zenon
  <2>6. <<Serve(n, "retry", TRUE), Granting>> \in Seq(Chores) /\ Members(<<Serve(n, "retry", TRUE), Granting>>) = {Serve(n, "retry", TRUE), Granting}
    BY <2>4, <2>5, TwoCalls, Zenon
  <2>7. calls \in Seq(Chores)
    BY <2>6
  <2>8. Members(calls) = {Serve(n, "retry", TRUE), Granting}
    BY <2>6
  <2> HIDE DEF calls
  <2>9. agenda' \in Seq(Chores) /\ Members(agenda) = {Head(agenda)} \cup Rest /\ Members(agenda') = Members(calls) \cup Rest
    BY <1>2, <2>2, <2>7, ThenMembers DEF calls
  <2> DEFINE new == [slot[n] EXCEPT !.wait = "none"]
  <2>10. slot[n] \in Slots
    BY <1>2, <2>1
  <2>11. /\ new \in Slots /\ new.running = slot[n].running /\ new.requested = slot[n].requested /\ new.wait = "none"
         /\ new.cursor = slot[n].cursor /\ new.status = slot[n].status /\ new.failure = slot[n].failure
         /\ new.readers = slot[n].readers
    BY <2>10 DEF Slots, Waits
  <2>12. slot' = [slot EXCEPT ![n] = new]
    BY <1>2, <2>1, <2>2
  <2> HIDE DEF new
  <2>13. slot' \in [Nodes -> Slots] /\ slot'[n] = new /\ \A m \in Nodes \ {n} : slot'[m] = slot[m]
    BY <1>2, <2>1, <2>11, <2>12, SlotWith
  <2>14. TypeOK'
    BY <1>1, <2>3, <2>9, <2>13 DEF TypeOK
  <2> QED BY <1>1, <1>2, <1>4, <2>1, <2>2, <2>3, <2>7, <2>8, <2>9, <2>11, <2>13, <2>14 DEF n, calls
<1> QED BY <1>3, <1>4

LEMMA PostedFacts ==
  ASSUME Typed, PostedDrain
  PROVE  /\ Idle /\ TypeOK' /\ agenda' = <<Drain>> /\ Members(agenda') = {Drain}
         /\ budget' = [budget EXCEPT !.posted = FALSE]
         /\ budget'.line = budget.line /\ budget'.reserved = budget.reserved
         /\ UNCHANGED <<graph, data, epoch, held, slot, history, orphans, events>>
<1>1. /\ TypeOK /\ Idle /\ agenda' = <<Drain>> /\ budget' = [budget EXCEPT !.posted = FALSE]
      /\ UNCHANGED <<graph, data, epoch, held, slot, history, orphans, events>>
  BY DEF Typed, PostedDrain
<1>2. budget' \in Budgets /\ budget'.line = budget.line /\ budget'.reserved = budget.reserved
  BY <1>1 DEF TypeOK, Budgets
<1>3. Members(agenda') = {Drain} /\ agenda' \in Seq(Chores)
  BY <1>1, MembersOf, ChoreTypes, OneCall
<1>4. TypeOK'
  BY <1>1, <1>2, <1>3 DEF TypeOK
<1> QED BY <1>1, <1>2, <1>3, <1>4

LEMMA OrphanFacts ==
  ASSUME Typed, FinishOrphan
  PROVE  /\ Idle /\ TypeOK' /\ agenda' = <<Drain>> /\ Members(agenda') = {Drain}
         /\ budget' = Returned /\ orphans > 0 /\ orphans' = orphans - 1
         /\ UNCHANGED <<graph, data, epoch, held, slot, history, events>>
<1>1. /\ TypeOK /\ Idle /\ agenda' = <<Drain>> /\ budget' = Returned /\ orphans > 0 /\ orphans' = orphans - 1
      /\ UNCHANGED <<graph, data, epoch, held, slot, history, events>>
  BY DEF Typed, FinishOrphan, Returned
<1>2. Members(agenda') = {Drain} /\ agenda' \in Seq(Chores)
  BY <1>1, MembersOf, ChoreTypes, OneCall
<1>3. orphans' \in Nat
  BY <1>1 DEF TypeOK
<1>4. TypeOK'
  BY <1>1, <1>2, <1>3, ReturnedFacts DEF TypeOK
<1> QED BY <1>1, <1>2, <1>4

LEMMA DroppedRunFacts ==
  ASSUME Typed, NEW n \in Nodes, FinishDropped(n)
  PROVE  /\ Idle /\ TypeOK' /\ agenda' = <<Serve(n, "request", FALSE), Drain>> /\ Members(agenda') = {Serve(n, "request", FALSE), Drain}
         /\ slot[n].running \in Jobs /\ slot[n].running # NoRun /\ Outdated(n)
         /\ budget' = Returned
         /\ \A m \in Nodes \ {n} : slot'[m] = slot[m]
         /\ slot'[n].running = NoRun /\ slot'[n].requested = slot[n].requested /\ slot'[n].wait = slot[n].wait
         /\ slot'[n].cursor = slot[n].cursor /\ slot'[n].status = slot[n].status /\ slot'[n].readers = slot[n].readers
         /\ UNCHANGED <<graph, data, epoch, held, history, orphans, events>>
<1>1. /\ TypeOK /\ Idle /\ agenda' = <<Serve(n, "request", FALSE), Drain>> /\ budget' = Returned
      /\ slot[n].running # NoRun /\ Outdated(n) /\ slot' = [slot EXCEPT ![n].running = NoRun]
      /\ UNCHANGED <<graph, data, epoch, held, history, orphans, events>>
  BY DEF Typed, FinishDropped, Returned
<1>2. slot \in [Nodes -> Slots] /\ slot[n] \in Slots /\ slot[n].running \in Jobs
  BY <1>1, SlotTypes DEF TypeOK
<1> DEFINE new == [slot[n] EXCEPT !.running = NoRun]
<1>3. /\ new \in Slots /\ new.running = NoRun /\ new.requested = slot[n].requested /\ new.wait = slot[n].wait
      /\ new.cursor = slot[n].cursor /\ new.status = slot[n].status /\ new.readers = slot[n].readers
  BY <1>2 DEF Slots
<1>4. slot' = [slot EXCEPT ![n] = new]
  BY <1>1, <1>2
<1> HIDE DEF new
<1>5. slot' \in [Nodes -> Slots] /\ slot'[n] = new /\ \A m \in Nodes \ {n} : slot'[m] = slot[m]
  BY <1>2, <1>3, <1>4, SlotWith
<1>6. FALSE \in BOOLEAN /\ Drain \in Chores
  BY ChoreTypes
<1>7. Serve(n, "request", FALSE) \in Chores
  BY <1>6, ChoreTypes, Zenon
<1>8. agenda' \in Seq(Chores) /\ Members(agenda') = {Serve(n, "request", FALSE), Drain}
  <2>1. <<Serve(n, "request", FALSE), Drain>> \in Seq(Chores) /\ Members(<<Serve(n, "request", FALSE), Drain>>) = {Serve(n, "request", FALSE), Drain}
    BY <1>6, <1>7, TwoCalls, Zenon
  <2> QED BY <1>1, <2>1
<1>9. TypeOK'
  BY <1>1, <1>5, <1>8, ReturnedFacts DEF TypeOK
<1> QED BY <1>1, <1>2, <1>3, <1>5, <1>8, <1>9

-----------------------------------------------------------------------------
(* What each event does, by its parts. *)

(* What a run that ends with outcome is filed under, and whether it serves *)
(* the node's request of now.                                              *)
Stored(n, outcome) ==
  [slot[n].running.key EXCEPT !.clock = IF n \in ReadsClock /\ outcome # "unreadable" THEN slot[n].running.t ELSE NoTime]
ServesNow(n, outcome) == Staged(n).ok /\ Serves(Stored(n, outcome), Staged(n).key, slot[n].cursor)
Result(outcome) == outcome \in {"shown", "blank"}
Ending(n, outcome) ==
  IF ServesNow(n, outcome) /\ Result(outcome) THEN SettleServed(n, slot[n].running.stamp) ELSE Serve(n, "request", FALSE)
Finishing(n, outcome) == ServeReaders(n, FALSE) \o <<Ending(n, outcome), Drain>>
Filed(n, outcome) ==
  IF Result(outcome) THEN Published(n, slot[n].running.stamp, Stored(n, outcome), outcome = "shown", ~ServesNow(n, outcome))
  ELSE IF ServesNow(n, outcome) THEN Cleared(n, slot[n].running.stamp) ELSE history[n]

LEMMA FinishFacts ==
  ASSUME Typed, NEW n \in Nodes, NEW outcome, FinishRun(n, outcome)
  PROVE  /\ Idle /\ TypeOK' /\ agenda' = Finishing(n, outcome) /\ Finishing(n, outcome) \in Seq(Chores)
         /\ Members(agenda') = {ServeReader(m, FALSE) : m \in Members(slot[n].readers)} \cup {Ending(n, outcome), Drain}
         /\ slot[n].running \in Jobs /\ slot[n].running # NoRun /\ ~Outdated(n) /\ slot[n].cursor \in Times
         /\ Stored(n, outcome) \in Keys
         /\ Stored(n, outcome).revision = slot[n].running.key.revision /\ Stored(n, outcome).epoch = slot[n].running.key.epoch
         /\ Stored(n, outcome).inputs = slot[n].running.key.inputs
         /\ history'[n] = Filed(n, outcome) /\ \A m \in Nodes \ {n} : history'[m] = history[m]
         /\ budget' = Returned
         /\ \A m \in Nodes \ {n} : slot'[m] = slot[m]
         /\ slot'[n].running = NoRun /\ slot'[n].requested = slot[n].requested /\ slot'[n].wait = slot[n].wait
         /\ slot'[n].cursor = slot[n].cursor /\ slot'[n].status = slot[n].status /\ slot'[n].readers = slot[n].readers
         /\ UNCHANGED <<graph, data, epoch, held, orphans, events>>
<1> DEFINE job == slot[n].running
           failure == IF Result(outcome) THEN slot[n].failure ELSE [key |-> Stored(n, outcome), decode |-> outcome = "unreadable"]
           new == [slot[n] EXCEPT !.running = NoRun, !.failure = failure]
<1>1. /\ TypeOK /\ Known /\ Idle /\ agenda' = Finishing(n, outcome) /\ budget' = Returned
      /\ job # NoRun /\ ~Outdated(n)
      /\ slot' = [slot EXCEPT ![n].running = NoRun, ![n].failure = failure]
      /\ history' = [history EXCEPT ![n] = Filed(n, outcome)]
      /\ UNCHANGED <<graph, data, epoch, held, orphans, events>>
  <2>1. TypeOK /\ Known /\ Idle /\ job # NoRun /\ ~Outdated(n) /\ budget' = Returned /\ UNCHANGED <<graph, data, epoch, held, orphans, events>>
    BY DEF Typed, FinishRun, Returned
  <2>2. agenda' = Finishing(n, outcome)
    BY DEF FinishRun, Finishing, Ending, ServesNow, Result, Stored
  <2>3. slot' = [slot EXCEPT ![n].running = NoRun, ![n].failure = failure]
    BY DEF FinishRun, Result, Stored
  <2>4. history' = [history EXCEPT ![n] = Filed(n, outcome)]
    BY DEF FinishRun, Filed, Result, Stored, ServesNow
  <2> QED BY <2>1, <2>2, <2>3, <2>4
<1>2. slot \in [Nodes -> Slots] /\ slot[n] \in Slots /\ job \in Jobs /\ slot[n].failure \in Failures \cup {NoFailure}
  BY <1>1, SlotTypes DEF TypeOK
<1>3. slot[n].cursor \in Times
  BY <1>1 DEF Known
<1>4. job.key \in Keys /\ job.stamp \in Nat /\ job.t \in Times
  BY <1>2, JobTypes
<1>5. /\ Stored(n, outcome) \in Keys
      /\ Stored(n, outcome).revision = job.key.revision /\ Stored(n, outcome).epoch = job.key.epoch
      /\ Stored(n, outcome).inputs = job.key.inputs
  <2> DEFINE clock == IF n \in ReadsClock /\ outcome # "unreadable" THEN job.t ELSE NoTime
             key == job.key
  <2>1. clock \in Times \cup {NoTime} /\ key \in Keys
    BY <1>4
  <2>2. Stored(n, outcome) = [key EXCEPT !.clock = clock]
    BY DEF Stored
  <2> HIDE DEF clock, key
  <2>3. [key EXCEPT !.clock = clock] \in Keys
    BY <2>1, KeyTypes
  <2>4. [key EXCEPT !.clock = clock].revision = key.revision /\ [key EXCEPT !.clock = clock].epoch = key.epoch
        /\ [key EXCEPT !.clock = clock].inputs = key.inputs
    BY <2>1 DEF Keys
  <2> QED BY <2>2, <2>3, <2>4 DEF key
<1> HIDE DEF job
<1>6. failure \in Failures \cup {NoFailure}
  <2>1. (outcome = "unreadable") \in BOOLEAN
    OBVIOUS
  <2> QED BY <1>2, <1>5, <2>1 DEF Failures
<1> HIDE DEF failure
<1>7. /\ new \in Slots /\ new.running = NoRun /\ new.requested = slot[n].requested /\ new.wait = slot[n].wait
      /\ new.cursor = slot[n].cursor /\ new.status = slot[n].status /\ new.readers = slot[n].readers
  BY <1>2, <1>6 DEF Slots
<1>8. slot' \in [Nodes -> Slots] /\ slot'[n] = new /\ \A m \in Nodes \ {n} : slot'[m] = slot[m]
  <2>1. slot'[n] = new
    BY <1>1, <1>2
  <2>2. \A m \in Nodes \ {n} : slot'[m] = slot[m]
    BY <1>1, <1>2
  <2>3. slot' = [m \in Nodes |-> slot'[m]]
    BY <1>1, <1>2
  <2> HIDE DEF new
  <2>4. \A m \in Nodes : slot'[m] \in Slots
    BY <1>2, <1>7, <2>1, <2>2
  <2> QED BY <2>1, <2>2, <2>3, <2>4
<1> HIDE DEF new
<1>9. Filed(n, outcome) \in Histories
  <2>1. (outcome = "shown") \in BOOLEAN /\ (~ServesNow(n, outcome)) \in BOOLEAN
    OBVIOUS
  <2>2. Published(n, job.stamp, Stored(n, outcome), outcome = "shown", ~ServesNow(n, outcome)) \in Histories
    BY <1>1, <1>4, <1>5, <2>1, PublishedTypes, Zenon
  <2>3. Cleared(n, job.stamp) \in Histories /\ history[n] \in Histories
    BY <1>1, <1>4, ClearedTypes DEF TypeOK
  <2> QED BY <2>2, <2>3 DEF Filed, job
<1>10. history' \in [Nodes -> Histories] /\ history'[n] = Filed(n, outcome) /\ \A m \in Nodes \ {n} : history'[m] = history[m]
  BY <1>1, <1>9 DEF TypeOK
<1>11. /\ Finishing(n, outcome) \in Seq(Chores)
       /\ Members(Finishing(n, outcome)) = {ServeReader(m, FALSE) : m \in Members(slot[n].readers)} \cup {Ending(n, outcome), Drain}
  <2>1. FALSE \in BOOLEAN /\ Drain \in Chores
    BY ChoreTypes
  <2>2. ServeReaders(n, FALSE) \in Seq(Chores) /\ Members(ServeReaders(n, FALSE)) = {ServeReader(m, FALSE) : m \in Members(slot[n].readers)}
    BY <1>1, <2>1, ReadersCalled, Zenon
  <2>3. Serve(n, "request", FALSE) \in Chores
    BY <2>1, ChoreTypes, Zenon
  <2>4. SettleServed(n, job.stamp) \in Chores
    BY <1>4, ChoreTypes
  <2>5. Ending(n, outcome) \in Chores
    BY <2>3, <2>4 DEF Ending, job
  <2> DEFINE told == ServeReaders(n, FALSE)
             last == <<Ending(n, outcome), Drain>>
  <2>6. last \in Seq(Chores) /\ Members(last) = {Ending(n, outcome), Drain}
    BY <2>1, <2>5, TwoCalls
  <2>7. Finishing(n, outcome) = told \o last
    BY DEF Finishing
  <2> HIDE DEF told, last
  <2>8. told \in Seq(Chores)
    BY <2>2 DEF told
  <2>9. told \o last \in Seq(Chores) /\ Members(told \o last) = Members(told) \cup Members(last)
    BY <2>6, <2>8, ConcatFacts
  <2> QED BY <2>2, <2>6, <2>7, <2>9 DEF told
<1>12. TypeOK'
  BY <1>1, <1>8, <1>10, <1>11, ReturnedFacts DEF TypeOK
<1> QED BY <1>1, <1>2, <1>3, <1>5, <1>7, <1>8, <1>10, <1>11, <1>12 DEF job

-----------------------------------------------------------------------------
LEMMA RequestEventFacts ==
  ASSUME Typed, NEW n \in Nodes, NEW t \in Times, RequestEvent(n, t)
  PROVE  /\ Idle /\ TypeOK' /\ revision[n] > 0 /\ agenda' = <<Request(n, t)>> /\ Members(agenda') = {Request(n, t)}
         /\ UNCHANGED <<graph, data, epoch, held, slot, history, budget, orphans>>
<1>1. /\ TypeOK /\ Idle /\ revision[n] > 0 /\ agenda' = <<Request(n, t)>>
      /\ UNCHANGED <<graph, data, epoch, held, slot, history, budget, orphans>>
  BY DEF Typed, RequestEvent, Event
<1>2. Request(n, t) \in Chores
  BY ChoreTypes
<1>3. agenda' \in Seq(Chores) /\ Members(agenda') = {Request(n, t)}
  BY <1>1, <1>2, OneCall, MembersOf
<1>4. TypeOK'
  BY <1>1, <1>3 DEF TypeOK
<1> QED BY <1>1, <1>3, <1>4

LEMMA WithdrawEventFacts ==
  ASSUME Typed, NEW n \in Nodes, WithdrawEvent(n)
  PROVE  /\ Idle /\ TypeOK' /\ agenda' = <<Withdraw(n)>> /\ Members(agenda') = {Withdraw(n)}
         /\ UNCHANGED <<graph, data, epoch, held, slot, history, budget, orphans>>
<1>1. /\ TypeOK /\ Idle /\ agenda' = <<Withdraw(n)>>
      /\ UNCHANGED <<graph, data, epoch, held, slot, history, budget, orphans>>
  BY DEF Typed, WithdrawEvent, Event
<1>2. Withdraw(n) \in Chores
  BY ChoreTypes
<1>3. agenda' \in Seq(Chores) /\ Members(agenda') = {Withdraw(n)}
  BY <1>1, <1>2, OneCall, MembersOf
<1>4. TypeOK'
  BY <1>1, <1>3 DEF TypeOK
<1> QED BY <1>1, <1>3, <1>4

LEMMA InstallFacts ==
  ASSUME Typed, NEW n \in Nodes, Install(n)
  PROVE  /\ Idle /\ TypeOK'
         /\ revision'[n] > 0 /\ \A m \in Nodes \ {n} : revision'[m] = revision[m]
         /\ \A m \in {n} \cup Members(DependentsOf(n)) : m \in Nodes /\ history'[m] = Dropped(history[m])
         /\ \A m \in Nodes \ ({n} \cup Members(DependentsOf(n))) : history'[m] = history[m]
         /\ Members(agenda') = {Supersede(m) : m \in {n} \cup Members(DependentsOf(n))}
         /\ UNCHANGED <<data, epoch, held, slot, budget, orphans>>
<1> DEFINE readers == DependentsOf(n)
           stale == {n} \cup {readers[i] : i \in 1 .. Len(readers)}
           rest == [i \in 1 .. Len(readers) |-> Supersede(readers[i])]
<1>1. /\ TypeOK /\ Idle /\ UNCHANGED <<data, epoch, held, slot, budget, orphans>>
      /\ graph' = [next |-> graph.next + 1, revision |-> [revision EXCEPT ![n] = graph.next]]
      /\ history' = [m \in Nodes |-> IF m \in stale THEN Dropped(history[m]) ELSE history[m]]
      /\ agenda' = <<Supersede(n)>> \o rest
  BY DEF Typed, Install, Event
<1>2. stale = {n} \cup Members(readers)
  BY DEF Members
<1>3. readers \in Seq(Nodes) /\ Members(readers) \subseteq Nodes
  BY DependentsFacts
<1> HIDE DEF readers
<1>4. rest \in Seq(Chores) /\ Members(rest) = {Supersede(m) : m \in Members(readers)}
  BY <1>3, SupersedeAll
<1>5. <<Supersede(n)>> \in Seq(Chores) /\ Members(<<Supersede(n)>>) = {Supersede(n)}
  BY ChoreTypes, OneCall, MembersOf
<1> DEFINE one == <<Supersede(n)>>
<1> HIDE DEF rest, stale, one
<1>6. one \o rest \in Seq(Chores) /\ Members(one \o rest) = Members(one) \cup Members(rest)
  <2>1. one \in Seq(Chores) /\ rest \in Seq(Chores)
    BY <1>4, <1>5 DEF one
  <2> QED BY <2>1, ConcatFacts
<1>7. agenda' \in Seq(Chores) /\ Members(agenda') = {Supersede(m) : m \in {n} \cup Members(readers)}
  BY <1>1, <1>4, <1>5, <1>6 DEF one
<1>8. /\ graph' \in [next : Nat, revision : [Nodes -> Nat]] /\ graph'.next > 0
      /\ revision'[n] > 0 /\ \A m \in Nodes \ {n} : revision'[m] = revision[m]
  <2>1. graph.next \in Nat /\ graph.next > 0 /\ revision \in [Nodes -> Nat]
    BY <1>1 DEF TypeOK, revision
  <2>2. revision' = [revision EXCEPT ![n] = graph.next] /\ graph'.next = graph.next + 1
    BY <1>1 DEF revision
  <2>3. graph' = [next |-> graph.next + 1, revision |-> revision']
    BY <1>1, <2>2
  <2> HIDE DEF revision
  <2> QED BY <2>1, <2>2, <2>3
<1>9. /\ history' \in [Nodes -> Histories]
      /\ \A m \in stale : m \in Nodes /\ history'[m] = Dropped(history[m])
      /\ \A m \in Nodes \ stale : history'[m] = history[m]
  <2>1. \A m \in Nodes : history[m] \in Histories /\ Dropped(history[m]) \in Histories
    BY <1>1, DroppedFacts DEF TypeOK
  <2> QED BY <1>1, <1>2, <1>3, <2>1
<1>10. TypeOK'
  BY <1>1, <1>7, <1>8, <1>9 DEF TypeOK
<1> QED BY <1>1, <1>2, <1>7, <1>8, <1>9, <1>10 DEF readers

LEMMA NoSlotType == NoSlot \in Slots /\ NoHistory \in Histories
<1>1. <<>> \in Seq(Nodes)
  OBVIOUS
<1> QED BY <1>1 DEF NoSlot, NoHistory, Slots, Histories, Waits, Statuses

LEMMA RemoveFacts ==
  ASSUME Typed, NEW n \in Nodes, Remove(n)
  PROVE  /\ Idle /\ TypeOK'
         /\ revision[n] > 0 /\ revision'[n] = 0 /\ \A m \in Nodes \ {n} : revision'[m] = revision[m]
         /\ slot'[n] = NoSlot /\ \A m \in Nodes \ {n} : slot'[m] = slot[m]
         /\ history'[n] = NoHistory /\ \A m \in Nodes \ {n} : history'[m] = history[m]
         /\ orphans' = IF slot[n].running = NoRun THEN orphans ELSE orphans + 1
         /\ budget' = LineAfter(n, "none")
         /\ Members(agenda') = {Supersede(m) : m \in Members(DependentsOf(n))}
         /\ UNCHANGED <<data, epoch, held>>
<1> DEFINE readers == DependentsOf(n)
<1>1. /\ TypeOK /\ Idle /\ revision[n] > 0 /\ UNCHANGED <<data, epoch, held>>
      /\ graph' = [graph EXCEPT !.revision[n] = 0]
      /\ slot' = [slot EXCEPT ![n] = NoSlot]
      /\ orphans' = IF slot[n].running = NoRun THEN orphans ELSE orphans + 1
      /\ budget' = LineAfter(n, "none")
      /\ history' = [history EXCEPT ![n] = NoHistory]
      /\ agenda' = [i \in 1 .. Len(readers) |-> Supersede(readers[i])]
  BY DEF Typed, Remove, Event
<1>2. readers \in Seq(Nodes)
  BY DependentsFacts
<1> HIDE DEF readers
<1>3. agenda' \in Seq(Chores) /\ Members(agenda') = {Supersede(m) : m \in Members(readers)}
  BY <1>1, <1>2, SupersedeAll
<1>4. /\ graph' \in [next : Nat, revision : [Nodes -> Nat]] /\ graph'.next > 0
      /\ revision'[n] = 0 /\ \A m \in Nodes \ {n} : revision'[m] = revision[m]
  <2>1. graph \in [next : Nat, revision : [Nodes -> Nat]] /\ graph.next > 0
    BY <1>1 DEF TypeOK
  <2> QED BY <1>1, <2>1 DEF revision
<1>5. slot' \in [Nodes -> Slots] /\ slot'[n] = NoSlot /\ \A m \in Nodes \ {n} : slot'[m] = slot[m]
  BY <1>1, NoSlotType DEF TypeOK
<1>6. history' \in [Nodes -> Histories] /\ history'[n] = NoHistory /\ \A m \in Nodes \ {n} : history'[m] = history[m]
  BY <1>1, NoSlotType DEF TypeOK
<1>7. orphans' \in Nat
  BY <1>1 DEF TypeOK
<1>8. "none" \in Waits
  BY DEF Waits
<1>9. budget' \in Budgets
  BY <1>1, <1>8, LineAfterFacts
<1>10. TypeOK'
  BY <1>1, <1>3, <1>4, <1>5, <1>6, <1>7, <1>9 DEF TypeOK
<1> QED BY <1>1, <1>3, <1>4, <1>5, <1>6, <1>10 DEF readers

LEMMA SuspendFacts ==
  ASSUME Typed, Suspend
  PROVE  /\ Idle /\ TypeOK' /\ epoch' = epoch + 1 /\ held' = held + 1
         /\ \A m \in Nodes : history'[m] = Dropped(history[m])
         /\ \A m \in Nodes :
              /\ slot'[m].running = NoRun <=> slot[m].running = NoRun
              /\ slot'[m].running # NoRun => slot'[m].running.cancelled
              /\ slot'[m].requested = slot[m].requested /\ slot'[m].wait = slot[m].wait /\ slot'[m].cursor = slot[m].cursor
              /\ slot'[m].status = IF slot[m].requested THEN "pending" ELSE slot[m].status
              /\ slot'[m].readers = slot[m].readers /\ slot'[m].failure = slot[m].failure
         /\ UNCHANGED <<graph, data, budget, orphans, agenda>>
<1> DEFINE new(m) == [slot[m] EXCEPT !.running = IF @ = NoRun THEN NoRun ELSE [@ EXCEPT !.cancelled = TRUE],
                                     !.status = IF slot[m].requested THEN "pending" ELSE @]
<1>1. /\ TypeOK /\ Idle /\ epoch' = epoch + 1 /\ held' = held + 1
      /\ history' = [m \in Nodes |-> Dropped(history[m])]
      /\ slot' = [m \in Nodes |-> new(m)]
      /\ UNCHANGED <<graph, data, budget, orphans, agenda>>
  BY DEF Typed, Suspend, Event
<1>2. \A m \in Nodes : history[m] \in Histories /\ Dropped(history[m]) \in Histories
  BY <1>1, DroppedFacts DEF TypeOK
<1>3. history' \in [Nodes -> Histories] /\ \A m \in Nodes : history'[m] = Dropped(history[m])
  BY <1>1, <1>2
<1>4. ASSUME NEW m \in Nodes
      PROVE  /\ new(m) \in Slots
             /\ new(m).running = NoRun <=> slot[m].running = NoRun
             /\ new(m).running # NoRun => new(m).running.cancelled
             /\ new(m).requested = slot[m].requested /\ new(m).wait = slot[m].wait /\ new(m).cursor = slot[m].cursor
             /\ new(m).status = IF slot[m].requested THEN "pending" ELSE slot[m].status
             /\ new(m).readers = slot[m].readers /\ new(m).failure = slot[m].failure
  <2> DEFINE old == slot[m]
             job == old.running
             run == IF job = NoRun THEN NoRun ELSE [job EXCEPT !.cancelled = TRUE]
             status == IF old.requested THEN "pending" ELSE old.status
  <2>1. old \in Slots /\ job \in Jobs \cup {NoRun} /\ old.status \in Statuses
    BY <1>1, SlotTypes DEF TypeOK
  <2>2. job \in Jobs => [job EXCEPT !.cancelled = TRUE] \in Jobs /\ [job EXCEPT !.cancelled = TRUE].cancelled
    BY JobTypes
  <2>3. NoRun \notin Jobs
    BY NoRunAssumption
  <2>4. /\ run \in Jobs \cup {NoRun} /\ (run = NoRun <=> job = NoRun)
        /\ run # NoRun => run.cancelled
    BY <2>1, <2>2, <2>3
  <2>5. status \in Statuses
    BY <2>1 DEF Statuses
  <2>6. new(m) = [old EXCEPT !.running = run, !.status = status]
    BY <2>1 DEF Slots
  <2> HIDE DEF run, status, old, job
  <2>7. LET r == [old EXCEPT !.running = run, !.status = status] IN
        /\ r \in Slots /\ r.running = run /\ r.requested = old.requested /\ r.wait = old.wait /\ r.cursor = old.cursor
        /\ r.status = status /\ r.readers = old.readers /\ r.failure = old.failure
    BY <2>1, <2>4, <2>5 DEF Slots
  <2> QED BY <2>4, <2>6, <2>7 DEF old, job, status
<1>5. \A m \in Nodes : slot'[m] = new(m)
  BY <1>1
<1> HIDE DEF new
<1>6. slot' \in [Nodes -> Slots]
  BY <1>1, <1>4
<1>7. TypeOK'
  BY <1>1, <1>3, <1>6 DEF TypeOK
<1> QED BY <1>1, <1>3, <1>4, <1>5, <1>7

LEMMA ReplaceFacts ==
  ASSUME Typed, Replace
  PROVE  /\ Idle /\ held > 0 /\ TypeOK'
         /\ UNCHANGED <<graph, epoch, held, slot, history, budget, orphans, agenda>>
<1>1. /\ TypeOK /\ Idle /\ held > 0
      /\ \E oldest \in Times, newest \in 0 .. MaxTime : data' = [oldest |-> oldest, newest |-> newest]
      /\ UNCHANGED <<graph, epoch, held, slot, history, budget, orphans, agenda>>
  BY DEF Typed, Replace
<1>2. data' \in [oldest : Nat, newest : Nat]
  BY <1>1, ConstantFacts DEF Times
<1>3. TypeOK'
  BY <1>1, <1>2 DEF TypeOK
<1> QED BY <1>1, <1>3

(* The nodes requested again by the last release. *)
Again == {n \in Nodes : slot[n].requested /\ revision[n] > 0}

LEMMA ResumeFacts ==
  ASSUME Typed, Resume
  PROVE  /\ Idle /\ held > 0 /\ TypeOK' /\ held' = held - 1
         /\ held > 1 => agenda' = <<>> /\ Members(agenda') = {}
         /\ held = 1 => Members(agenda') = {Request(m, slot[m].cursor) : m \in Again}
         /\ \A c \in Members(agenda') : c.call = "request"
         /\ UNCHANGED <<graph, data, epoch, slot, history, budget, orphans, events>>
<1> DEFINE again == Among(Order, Again)
           calls == [i \in 1 .. Len(again) |-> Request(again[i], slot[again[i]].cursor)]
<1>1. /\ TypeOK /\ Known /\ Idle /\ held > 0 /\ held' = held - 1
      /\ agenda' = IF held > 1 THEN <<>> ELSE calls
      /\ UNCHANGED <<graph, data, epoch, slot, history, budget, orphans, events>>
  BY DEF Typed, Resume, Again
<1>2. again \in Seq(Nodes) /\ Members(again) = Again
  <2>1. Order \in Seq(Nodes) /\ Members(Order) = Nodes
    BY OrderFacts
  <2>2. again \in Seq(Nodes) /\ Members(again) = Members(Order) \cap Again
    BY <2>1, AmongFacts
  <2> QED BY <2>1, <2>2 DEF Again
<1> HIDE DEF again
<1>3. \A m \in Members(again) : slot[m].cursor \in Times
  BY <1>1, <1>2 DEF Known, Again
<1>4. calls \in Seq(Chores) /\ Members(calls) = {Request(m, slot[m].cursor) : m \in Again}
  BY <1>2, <1>3, RequestAll
<1> HIDE DEF calls
<1>5. <<>> \in Seq(Chores) /\ Members(<<>>) = {}
  BY MembersOf
<1>6. held \in Nat
  BY <1>1 DEF TypeOK
<1>7. agenda' \in Seq(Chores) /\ held' \in Nat
  BY <1>1, <1>4, <1>5, <1>6
<1>8. /\ held > 1 => agenda' = <<>> /\ Members(agenda') = {}
      /\ held = 1 => Members(agenda') = {Request(m, slot[m].cursor) : m \in Again}
  BY <1>1, <1>4, <1>5, <1>6
<1>9. \A c \in Members(agenda') : c.call = "request"
  BY <1>1, <1>6, <1>8 DEF Request
<1>10. TypeOK'
  BY <1>1, <1>7 DEF TypeOK
<1> QED BY <1>1, <1>8, <1>9, <1>10

LEMMA ArriveFacts ==
  ASSUME Typed, Arrive
  PROVE  /\ Idle /\ TypeOK' /\ data'.oldest = data.oldest /\ data'.newest = data.newest + 1
         /\ UNCHANGED <<graph, epoch, held, slot, history, budget, orphans, agenda>>
<1>1. /\ TypeOK /\ Idle /\ data' = [data EXCEPT !.newest = @ + 1]
      /\ UNCHANGED <<graph, epoch, held, slot, history, budget, orphans, agenda>>
  BY DEF Typed, Arrive, Event
<1>2. data' \in [oldest : Nat, newest : Nat] /\ data'.oldest = data.oldest /\ data'.newest = data.newest + 1
  BY <1>1 DEF TypeOK
<1>3. TypeOK'
  BY <1>1, <1>2 DEF TypeOK
<1> QED BY <1>1, <1>2, <1>3

LEMMA RetireFacts ==
  ASSUME Typed, Retire
  PROVE  /\ Idle /\ TypeOK' /\ data'.oldest = data.oldest + 1 /\ data'.newest = data.newest
         /\ UNCHANGED <<graph, epoch, held, slot, history, budget, orphans, agenda>>
<1>1. /\ TypeOK /\ Idle /\ data' = [data EXCEPT !.oldest = @ + 1]
      /\ UNCHANGED <<graph, epoch, held, slot, history, budget, orphans, agenda>>
  BY DEF Typed, Retire, Event
<1>2. data' \in [oldest : Nat, newest : Nat] /\ data'.oldest = data.oldest + 1 /\ data'.newest = data.newest
  BY <1>1 DEF TypeOK
<1>3. TypeOK'
  BY <1>1, <1>2 DEF TypeOK
<1> QED BY <1>1, <1>2, <1>3

-----------------------------------------------------------------------------
(* Typed is kept. *)

LEMMA UnusedMembers ==
  ASSUME TypeOK, Calls("serve")
  PROVE  Members(Unused) = IF Room THEN {GiveBack} ELSE {}
BY UnusedFacts, MembersOf

(* The calls that say something of the node they name. *)
Telling == {"bind", "settle"}

LEMMA KnownConclude ==
  ASSUME Typed, ~Idle, NEW n \in Nodes, NEW wait \in Waits, NEW status \in Statuses, NEW h \in Histories, NEW rest \in Seq(Chores),
         Conclude(n, wait, status, h, rest), status = "pending" => slot[n].requested, revision[n] > 0,
         \A c \in Members(rest) : c.call \notin Telling
  PROVE  Typed'
<1>1. TypeOK /\ Known
  BY DEF Typed
<1>2. /\ TypeOK'
      /\ \A m \in Nodes \ {n} : slot'[m] = slot[m] /\ history'[m] = history[m]
      /\ slot'[n].running = slot[n].running /\ slot'[n].requested = slot[n].requested
      /\ slot'[n].cursor = slot[n].cursor /\ slot'[n].status = status
      /\ graph' = graph
  BY <1>1, ConcludeFacts
<1>3. \A m \in Nodes : slot'[m].cursor = slot[m].cursor
  BY <1>2
<1>4. revision' = revision
  BY <1>2 DEF revision
<1>5. \A c \in Members(agenda') : c.call \in Telling => c \in Members(agenda)
  <2>1. /\ Members(agenda) = {Head(agenda)} \cup Rest
        /\ Members(agenda') = (IF status = "pending" THEN {} ELSE {ServeReader(m, TRUE) : m \in Members(slot[n].readers)})
                               \cup Members(rest) \cup Rest
    BY <1>1, ConcludeMembers
  <2>2. \A m \in Members(slot[n].readers) : ServeReader(m, TRUE).call \notin Telling
    BY DEF ServeReader, Telling
  <2> QED BY <2>1, <2>2
<1>6. \A c \in Members(agenda) : c.call \in Telling => c.node \in Nodes
  BY <1>1, RestFacts, ChoreFacts DEF Telling, NodeCalls
<1>7. Known'
  <2>1. \A m \in Nodes : slot'[m].requested => slot'[m].cursor \in Times /\ revision'[m] > 0
    BY <1>1, <1>2, <1>4 DEF Known
  <2>2. \A m \in Nodes : slot'[m].status = "pending" => slot'[m].requested
    BY <1>1, <1>2 DEF Known
  <2>3. \A m \in Nodes : slot'[m].running # NoRun => slot'[m].cursor \in Times
    BY <1>1, <1>2 DEF Known
  <2>4. \A m \in Nodes : revision'[m] = 0 => slot'[m] = NoSlot /\ history'[m].ring = {} /\ history'[m].late = {}
    BY <1>1, <1>2, <1>4 DEF Known
  <2>5. \A m \in Nodes : slot'[m].cursor # NoTime /\ PinnedAt[m] # NoTime => slot'[m].cursor = PinnedAt[m]
    BY <1>1, <1>2 DEF Known
  <2>6. \A c \in Members(agenda') : c.call = "bind" => slot'[c.node].cursor \in Times
    BY <1>1, <1>3, <1>5, <1>6 DEF Known, Telling
  <2>7. \A c \in Members(agenda') : c.call = "settle" => revision'[c.node] > 0 /\ slot'[c.node].cursor \in Times
    BY <1>1, <1>3, <1>4, <1>5, <1>6 DEF Known, Telling
  <2> QED BY <2>1, <2>2, <2>3, <2>4, <2>5, <2>6, <2>7 DEF Known
<1> QED BY <1>2, <1>7 DEF Typed

(* The other steps leave the graph, and a node's history, mostly alone. *)
LEMMA KnownKept ==
  ASSUME Typed, TypeOK', UNCHANGED graph,
         \A m \in Nodes : history'[m] = history[m] \/ (history'[m].ring = {} /\ history'[m].late = {}) \/ (revision[m] > 0),
         \A m \in Nodes :
           \/ slot'[m] = slot[m]
           \/ /\ revision[m] > 0 /\ slot'[m].requested => slot'[m].cursor \in Times
              /\ slot'[m].status = "pending" => slot'[m].requested
              /\ slot'[m].running # NoRun => slot'[m].cursor \in Times
              /\ slot[m].cursor \in Times => slot'[m].cursor \in Times
              /\ slot'[m].cursor # NoTime /\ PinnedAt[m] # NoTime => slot'[m].cursor = PinnedAt[m]
              /\ revision[m] > 0,
         \A c \in Members(agenda') : c.call \in Telling =>
           c \in Members(agenda) \/ (slot'[c.node].cursor \in Times /\ (c.call = "settle" => revision[c.node] > 0))
  PROVE  Typed'
<1>1. TypeOK /\ Known
  BY DEF Typed
<1>2. revision' = revision
  BY DEF revision
<1>3. \A c \in Members(agenda) : c.call \in Telling => c.node \in Nodes /\ slot[c.node].cursor \in Times
  BY <1>1, RestFacts, ChoreFacts DEF Telling, NodeCalls, Known
<1>4. \A m \in Nodes : slot[m].cursor \in Times => slot'[m].cursor \in Times
  OBVIOUS
<1>5. \A m \in Nodes : slot[m] = NoSlot => slot[m].cursor = NoTime
  BY DEF NoSlot
<1>6. Known'
  <2>1. \A m \in Nodes : slot'[m].requested => slot'[m].cursor \in Times /\ revision'[m] > 0
    BY <1>1, <1>2 DEF Known
  <2>2. \A m \in Nodes : slot'[m].status = "pending" => slot'[m].requested
    BY <1>1 DEF Known
  <2>3. \A m \in Nodes : slot'[m].running # NoRun => slot'[m].cursor \in Times
    BY <1>1 DEF Known
  <2>4. \A m \in Nodes : revision'[m] = 0 => slot'[m] = NoSlot /\ history'[m].ring = {} /\ history'[m].late = {}
    BY <1>1, <1>2 DEF Known
  <2>5. \A m \in Nodes : slot'[m].cursor # NoTime /\ PinnedAt[m] # NoTime => slot'[m].cursor = PinnedAt[m]
    BY <1>1 DEF Known
  <2>6. \A c \in Members(agenda') : c.call = "bind" => slot'[c.node].cursor \in Times
    BY <1>3, <1>4 DEF Telling
  <2>7. \A c \in Members(agenda') : c.call = "settle" => revision'[c.node] > 0 /\ slot'[c.node].cursor \in Times
    BY <1>1, <1>2, <1>3, <1>4 DEF Known, Telling
  <2> QED BY <2>1, <2>2, <2>3, <2>4, <2>5, <2>6, <2>7 DEF Known
<1> QED BY <1>6 DEF Typed

LEMMA TypedServe == Typed /\ ServeStep => Typed'
<1> SUFFICES ASSUME Typed, ServeStep PROVE Typed'
  OBVIOUS
<1>1. Calls("serve") /\ Callee \in Nodes /\ (ServeWithdrawn \/ ServeRun \/ Concludes)
  BY ServeShape
<1>2. TypeOK /\ Known
  BY DEF Typed
<1>3. ~Idle
  BY <1>1 DEF Calls
<1>4. \A c \in Members(Unused) : c.call \notin Telling
  BY <1>1, <1>2, UnusedMembers DEF GiveBack, Telling
<1>5. CASE ServeWithdrawn
  <2>1. /\ agenda' \in Seq(Chores) /\ Members(agenda) = {Head(agenda)} \cup Rest
        /\ Members(agenda') = Members(Unused) \cup Rest
        /\ UNCHANGED <<graph, data, epoch, held, slot, history, budget, orphans, events>>
    BY <1>5, WithdrawnFacts
  <2>2. TypeOK'
    BY <1>2, <2>1 DEF TypeOK
  <2>3. \A c \in Members(agenda') : c.call \in Telling => c \in Members(agenda)
    BY <1>4, <2>1
  <2> QED BY <2>1, <2>2, <2>3, KnownKept
<1>6. CASE ServeRun
  <2> DEFINE n == Callee
  <2>1. /\ TypeOK' /\ Members(agenda) = {Head(agenda)} \cup Rest /\ Members(agenda') = Rest
        /\ Servable(n) /\ slot[n].cursor \in Times /\ \A m \in Nodes \ {n} : slot'[m] = slot[m]
        /\ slot'[n].requested = slot[n].requested /\ slot'[n].cursor = slot[n].cursor
        /\ UNCHANGED <<graph, data, epoch, held, history, orphans, events>>
    BY <1>6, RunFacts
  <2>2. slot[n].requested /\ revision[n] > 0 /\ slot'[n].requested
    BY <1>1, <1>2, <2>1 DEF Servable, Known
  <2>3. slot'[n].cursor # NoTime /\ PinnedAt[n] # NoTime => slot'[n].cursor = PinnedAt[n]
    BY <1>1, <1>2, <2>1 DEF Known
  <2>4. \A c \in Members(agenda') : c.call \in Telling => c \in Members(agenda)
    BY <2>1
  <2> HIDE DEF n
  <2> QED BY <2>1, <2>2, <2>3, <2>4, KnownKept
<1>7. CASE Concludes
  <2>1. PICK wait \in Waits, status \in Statuses \ {"idle"}, h \in Histories :
          Conclude(Callee, wait, status, h, Unused) /\ slot[Callee].requested
    BY <1>7 DEF Concludes
  <2>2. revision[Callee] > 0 /\ Unused \in Seq(Chores)
    BY <1>1, <1>2, <2>1, UnusedFacts DEF Known
  <2>3. status \in Statuses
    OBVIOUS
  <2> QED BY <1>1, <1>3, <1>4, <2>1, <2>2, <2>3, KnownConclude
<1> QED BY <1>1, <1>5, <1>6, <1>7

LEMMA TypedSettle == Typed /\ Settle => Typed'
<1> SUFFICES ASSUME Typed, Settle PROVE Typed'
  OBVIOUS
<1> DEFINE h == TombstonesSuperseded(Callee, history[Callee], Head(agenda).stamp)
<1>1. /\ Calls("settle") /\ ~Idle /\ Callee \in Nodes /\ h \in Histories
      /\ Conclude(Callee, "none", "ready", h, <<>>)
  BY SettleFacts
<1>2. TypeOK /\ Known
  BY DEF Typed
<1>3. "none" \in Waits /\ "ready" \in Statuses /\ <<>> \in Seq(Chores) /\ Members(<<>>) = {}
  BY MembersOf DEF Waits, Statuses
<1>4. Members(agenda) = {Head(agenda)} \cup Rest
  BY <1>1, <1>2, <1>3, ConcludeMembers
<1>5. revision[Callee] > 0
  BY <1>1, <1>2, <1>4 DEF Known, Calls, Callee
<1> HIDE DEF h
<1> QED BY <1>1, <1>3, <1>5, KnownConclude

LEMMA TypedRequest == Typed /\ RequestAt => Typed'
<1> SUFFICES ASSUME Typed, RequestAt PROVE Typed'
  OBVIOUS
<1> DEFINE n == Callee
<1>1. /\ n \in Nodes /\ TypeOK' /\ Members(agenda) = {Head(agenda)} \cup Rest
      /\ UNCHANGED <<graph, data, epoch, held, history, budget, orphans, events>>
      /\ \/ slot' = slot /\ Members(agenda') = Rest
         \/ /\ revision[n] > 0 /\ Members(agenda') = {Bind(n, 1)} \cup Rest
            /\ \A m \in Nodes \ {n} : slot'[m] = slot[m]
            /\ slot'[n].requested /\ slot'[n].cursor \in Times
            /\ slot'[n].cursor = IF PinnedAt[n] = NoTime THEN Head(agenda).t ELSE PinnedAt[n]
  BY RequestFacts
<1>2. Bind(n, 1).call = "bind" /\ Bind(n, 1).node = n
  BY DEF Bind
<1> HIDE DEF n
<1>3. CASE slot' = slot /\ Members(agenda') = Rest
  BY <1>1, <1>3, KnownKept
<1>4. CASE ~(slot' = slot /\ Members(agenda') = Rest)
  <2>1. \A c \in Members(agenda') : c.call \in Telling =>
           c \in Members(agenda) \/ (slot'[c.node].cursor \in Times /\ (c.call = "settle" => revision[c.node] > 0))
    BY <1>1, <1>2, <1>4
  <2> QED BY <1>1, <1>4, <2>1, KnownKept
<1> QED BY <1>3, <1>4

LEMMA TypedBind == Typed /\ BindNext => Typed'
<1> SUFFICES ASSUME Typed, BindNext PROVE Typed'
  OBVIOUS
<1> DEFINE n == Callee
           i == Head(agenda).input
           u == Reads[n][i]
<1>1. /\ n \in Nodes /\ TypeOK' /\ Members(agenda) = {Head(agenda)} \cup Rest /\ slot[n].cursor \in Times
      /\ UNCHANGED <<graph, data, epoch, held, slot, history, budget, orphans, events>>
      /\ \/ Members(agenda') = {Serve(n, "request", FALSE)} \cup Rest
         \/ Members(agenda') = {Request(u, slot[n].cursor), Register(u, n), Bind(n, i + 1)} \cup Rest
  BY BindFacts
<1> HIDE DEF n, i, u
<1>2. \A c \in Members(agenda') : c.call \in Telling =>
        c \in Members(agenda) \/ (slot'[c.node].cursor \in Times /\ (c.call = "settle" => revision[c.node] > 0))
  BY <1>1 DEF Bind, Serve, Request, Register, Telling
<1> QED BY <1>1, <1>2, KnownKept

(* A step that leaves every node's cursor, request and settled state, makes *)
(* no call that says something of a node, and clears no run but a node's.   *)
LEMMA KnownSimple ==
  ASSUME Typed, TypeOK', UNCHANGED graph,
         \A m \in Nodes : history'[m] = history[m] \/ (history'[m].ring = {} /\ history'[m].late = {}) \/ revision[m] > 0,
         \A m \in Nodes :
           \/ slot'[m] = slot[m]
           \/ /\ slot'[m].requested = slot[m].requested /\ slot'[m].cursor = slot[m].cursor
              /\ slot'[m].status = slot[m].status
              /\ slot'[m].running = NoRun \/ slot[m].running # NoRun
              /\ revision[m] > 0,
         \A c \in Members(agenda') : c.call \in Telling => c \in Members(agenda)
  PROVE  Typed'
<1>1. TypeOK /\ Known
  BY DEF Typed
<1>2. \A m \in Nodes :
           \/ slot'[m] = slot[m]
           \/ /\ revision[m] > 0 /\ slot'[m].requested => slot'[m].cursor \in Times
              /\ slot'[m].status = "pending" => slot'[m].requested
              /\ slot'[m].running # NoRun => slot'[m].cursor \in Times
              /\ slot[m].cursor \in Times => slot'[m].cursor \in Times
              /\ slot'[m].cursor # NoTime /\ PinnedAt[m] # NoTime => slot'[m].cursor = PinnedAt[m]
              /\ revision[m] > 0
  BY <1>1 DEF Known
<1> QED BY <1>2, KnownKept

LEMMA TypedRegister == Typed /\ RegisterReader => Typed'
<1> SUFFICES ASSUME Typed, RegisterReader PROVE Typed'
  OBVIOUS
<1> DEFINE u == Callee
<1>1. /\ u \in Nodes /\ TypeOK' /\ Members(agenda) = {Head(agenda)} \cup Rest /\ Members(agenda') = Rest
      /\ \A m \in Nodes \ {u} : slot'[m] = slot[m]
      /\ slot'[u].running = slot[u].running /\ slot'[u].requested = slot[u].requested
      /\ slot'[u].cursor = slot[u].cursor /\ slot'[u].status = slot[u].status
      /\ slot[u].cursor = NoTime => slot'[u] = slot[u]
      /\ UNCHANGED <<graph, data, epoch, held, history, budget, orphans, events>>
  BY RegisterFacts
<1>2. TypeOK /\ Known /\ NoSlot.cursor = NoTime
  BY DEF Typed, NoSlot
<1> HIDE DEF u
<1>3. revision[u] \in Nat
  BY <1>1, <1>2 DEF TypeOK, revision
<1>4. slot'[u] = slot[u] \/ revision[u] > 0
  BY <1>1, <1>2, <1>3 DEF Known
<1>5. \A m \in Nodes :
           \/ slot'[m] = slot[m]
           \/ /\ slot'[m].requested = slot[m].requested /\ slot'[m].cursor = slot[m].cursor
              /\ slot'[m].status = slot[m].status
              /\ slot'[m].running = NoRun \/ slot[m].running # NoRun
              /\ revision[m] > 0
  BY <1>1, <1>4
<1>6. \A c \in Members(agenda') : c.call \in Telling => c \in Members(agenda)
  BY <1>1
<1> QED BY <1>1, <1>5, <1>6, KnownSimple

LEMMA TypedOneReader == Typed /\ ServeOneReader => Typed'
<1> SUFFICES ASSUME Typed, ServeOneReader PROVE Typed'
  OBVIOUS
<1>1. /\ TypeOK' /\ Members(agenda) = {Head(agenda)} \cup Rest
      /\ Members(agenda') = Rest \/ Members(agenda') = {Serve(Callee, "retry", FALSE)} \cup Rest
      /\ UNCHANGED <<graph, data, epoch, held, slot, history, budget, orphans, events>>
  BY OneReaderFacts
<1>2. \A c \in Members(agenda') : c.call \in Telling => c \in Members(agenda)
  BY <1>1 DEF Serve, Telling
<1> QED BY <1>1, <1>2, KnownSimple

LEMMA TypedSupersede == Typed /\ SupersedeNode => Typed'
<1> SUFFICES ASSUME Typed, SupersedeNode PROVE Typed'
  OBVIOUS
<1> DEFINE n == Callee
<1>1. /\ n \in Nodes /\ TypeOK' /\ Members(agenda) = {Head(agenda)} \cup Rest
      /\ Members(agenda') = Rest \/ Members(agenda') = {Request(n, slot[n].cursor)} \cup Rest
      /\ \A m \in Nodes \ {n} : slot'[m] = slot[m]
      /\ slot'[n].requested = slot[n].requested /\ slot'[n].wait = slot[n].wait
      /\ slot'[n].cursor = slot[n].cursor /\ slot'[n].status = slot[n].status /\ slot'[n].readers = slot[n].readers
      /\ slot'[n].running = NoRun <=> slot[n].running = NoRun
      /\ UNCHANGED <<graph, data, epoch, held, history, budget, orphans, events>>
      /\ slot' = [slot EXCEPT ![n].running = IF slot[n].running = NoRun THEN NoRun ELSE [slot[n].running EXCEPT !.cancelled = TRUE],
                              ![n].failure = NoFailure]
  BY SupersedeFacts DEF SupersedeNode
<1>2. TypeOK /\ Known /\ NoSlot.running = NoRun /\ NoSlot.failure = NoFailure
  BY DEF Typed, NoSlot
<1>3. revision[n] \in Nat /\ slot[n] \in Slots /\ slot'[n] \in Slots
  BY <1>1, <1>2 DEF TypeOK, revision
<1>4. slot'[n].failure = NoFailure
  BY <1>1, <1>2 DEF TypeOK, Slots
<1> HIDE DEF n
<1>5. slot'[n] = slot[n] \/ revision[n] > 0
  <2>1. CASE revision[n] = 0
    <3>1. slot[n].running = NoRun /\ slot[n].failure = NoFailure
      BY <1>1, <1>2, <2>1 DEF Known
    <3>2. slot'[n].running = NoRun /\ slot'[n].failure = NoFailure
      BY <1>1, <1>4, <3>1
    <3> QED BY <1>1, <1>3, <3>1, <3>2, SlotFields
  <2> QED BY <1>3, <2>1
<1>6. \A m \in Nodes :
           \/ slot'[m] = slot[m]
           \/ /\ slot'[m].requested = slot[m].requested /\ slot'[m].cursor = slot[m].cursor
              /\ slot'[m].status = slot[m].status
              /\ slot'[m].running = NoRun \/ slot[m].running # NoRun
              /\ revision[m] > 0
  BY <1>1, <1>5
<1>7. \A c \in Members(agenda') : c.call \in Telling => c \in Members(agenda)
  BY <1>1 DEF Request, Telling
<1> QED BY <1>1, <1>6, <1>7, KnownSimple

LEMMA TypedWithdraw == Typed /\ WithdrawNode => Typed'
<1> SUFFICES ASSUME Typed, WithdrawNode PROVE Typed'
  OBVIOUS
<1> DEFINE n == Callee
<1>1. /\ n \in Nodes /\ TypeOK' /\ Members(agenda) = {Head(agenda)} \cup Rest
      /\ UNCHANGED <<graph, data, epoch, held, history, orphans, events>>
      /\ \/ Members(agenda') = Rest /\ UNCHANGED <<slot, budget>>
         \/ /\ \A m \in Nodes \ {n} : slot'[m] = slot[m]
            /\ slot'[n].running = slot[n].running /\ ~slot'[n].requested /\ slot'[n].cursor = slot[n].cursor
            /\ slot'[n].status = "idle"
            /\ revision[n] > 0
            /\ \E calls \in Seq(Chores), ups \in SUBSET Nodes :
                 /\ Members(agenda') = Members(calls) \cup Rest
                 /\ Members(calls) = {ServeReader(m, TRUE) : m \in Members(slot[n].readers)} \cup {Withdraw(u) : u \in ups}
  BY WithdrawFacts
<1>2. TypeOK /\ Known
  BY DEF Typed
<1> HIDE DEF n
<1>3. \A c \in Members(agenda') : c.call \in Telling => c \in Members(agenda)
  BY <1>1 DEF ServeReader, Withdraw, Telling
<1>4. \A m \in Nodes :
           \/ slot'[m] = slot[m]
           \/ /\ revision[m] > 0 /\ slot'[m].requested => slot'[m].cursor \in Times
              /\ slot'[m].status = "pending" => slot'[m].requested
              /\ slot'[m].running # NoRun => slot'[m].cursor \in Times
              /\ slot[m].cursor \in Times => slot'[m].cursor \in Times
              /\ slot'[m].cursor # NoTime /\ PinnedAt[m] # NoTime => slot'[m].cursor = PinnedAt[m]
              /\ revision[m] > 0
  BY <1>1, <1>2 DEF Known
<1> QED BY <1>1, <1>3, <1>4, KnownKept

LEMMA TypedBudget == Typed /\ (ReturnRoom \/ DrainBegins \/ Grant \/ PostedDrain) => Typed'
<1>1. ASSUME Typed, ReturnRoom PROVE Typed'
  <2>1. /\ TypeOK' /\ Members(agenda) = {Head(agenda)} \cup Rest /\ Members(agenda') = Rest
        /\ UNCHANGED <<graph, slot, history>>
    BY <1>1, ReturnFacts
  <2>2. \A c \in Members(agenda') : c.call \in Telling => c \in Members(agenda)
    BY <2>1
  <2> QED BY <1>1, <2>1, <2>2, KnownSimple
<1>2. ASSUME Typed, DrainBegins PROVE Typed'
  <2>1. /\ TypeOK' /\ Members(agenda) = {Head(agenda)} \cup Rest /\ Members(agenda') = {Granting} \cup Rest
        /\ UNCHANGED <<graph, slot, history>>
    BY <1>2, DrainFacts
  <2>2. \A c \in Members(agenda') : c.call \in Telling => c \in Members(agenda)
    BY <2>1 DEF Granting, Telling
  <2> QED BY <1>2, <2>1, <2>2, KnownSimple
<1>3. ASSUME Typed, Grant PROVE Typed'
  <2> DEFINE n == Head(budget.line)
             new == {Serve(n, "retry", TRUE), Granting}
  <2>1. /\ TypeOK' /\ Members(agenda) = {Head(agenda)} \cup Rest
        /\ UNCHANGED <<graph, history>>
        /\ \/ slot' = slot /\ Members(agenda') = Rest
           \/ /\ n \in Nodes /\ \A m \in Nodes \ {n} : slot'[m] = slot[m]
              /\ slot'[n].running = slot[n].running /\ slot'[n].requested = slot[n].requested /\ slot'[n].wait = "none"
              /\ slot'[n].cursor = slot[n].cursor /\ slot'[n].status = slot[n].status /\ slot'[n].failure = slot[n].failure
              /\ slot'[n].readers = slot[n].readers
              /\ Members(agenda') = new \cup Rest
    BY <1>3, GrantFacts
  <2>2. \A c \in new : c.call \notin Telling
    BY DEF Serve, Granting, Telling
  <2> HIDE DEF n, new
  <2>3. TypeOK /\ Known
    BY <1>3 DEF Typed
  <2>4. ASSUME n \in Nodes, slot' # slot PROVE slot'[n] = slot[n] \/ revision[n] > 0
    <3>1. revision[n] \in Nat /\ slot[n] \in Slots /\ slot'[n] \in Slots
      BY <2>1, <2>3, <2>4 DEF TypeOK, revision
    <3>2. CASE revision[n] = 0
      <4>1. slot[n].wait = "none"
        BY <2>3, <2>4, <3>2 DEF Known, NoSlot
      <4> QED BY <2>1, <2>4, <3>1, <4>1, SlotFields
    <3> QED BY <3>1, <3>2
  <2>5. \A m \in Nodes :
           \/ slot'[m] = slot[m]
           \/ /\ slot'[m].requested = slot[m].requested /\ slot'[m].cursor = slot[m].cursor
              /\ slot'[m].status = slot[m].status
              /\ slot'[m].running = NoRun \/ slot[m].running # NoRun
              /\ revision[m] > 0
    BY <2>1, <2>4
  <2>6. \A c \in Members(agenda') : c.call \in Telling => c \in Members(agenda)
    BY <2>1, <2>2
  <2> QED BY <1>3, <2>1, <2>5, <2>6, KnownSimple
<1>4. ASSUME Typed, PostedDrain PROVE Typed'
  <2>1. /\ TypeOK' /\ Members(agenda') = {Drain} /\ UNCHANGED <<graph, slot, history>>
    BY <1>4, PostedFacts
  <2>2. \A c \in Members(agenda') : c.call \in Telling => c \in Members(agenda)
    BY <2>1 DEF Drain, Telling
  <2> QED BY <1>4, <2>1, <2>2, KnownSimple
<1> QED BY <1>1, <1>2, <1>3, <1>4

LEMMA TypedFinish == Typed /\ Finish => Typed'
<1>1. ASSUME Typed, FinishOrphan PROVE Typed'
  <2>1. TypeOK' /\ Members(agenda') = {Drain} /\ UNCHANGED <<graph, slot, history>>
    BY <1>1, OrphanFacts
  <2>2. \A c \in Members(agenda') : c.call \in Telling => c \in Members(agenda)
    BY <2>1 DEF Drain, Telling
  <2> QED BY <1>1, <2>1, <2>2, KnownSimple
<1>2. ASSUME Typed, NEW n \in Nodes, FinishDropped(n) PROVE Typed'
  <2>1. /\ TypeOK' /\ Members(agenda') = {Serve(n, "request", FALSE), Drain}
        /\ slot[n].running \in Jobs /\ slot[n].running # NoRun
        /\ \A m \in Nodes \ {n} : slot'[m] = slot[m]
        /\ slot'[n].running = NoRun /\ slot'[n].requested = slot[n].requested
        /\ slot'[n].cursor = slot[n].cursor /\ slot'[n].status = slot[n].status
        /\ UNCHANGED <<graph, history>>
    BY <1>2, DroppedRunFacts
  <2>2. \A c \in Members(agenda') : c.call \in Telling => c \in Members(agenda)
    BY <2>1 DEF Drain, Serve, Telling
  <2>3. TypeOK /\ Known
    BY <1>2 DEF Typed
  <2>4. revision[n] \in Nat /\ (revision[n] = 0 => slot[n].running = NoRun)
    BY <2>3 DEF TypeOK, revision, Known, NoSlot
  <2>5. \A m \in Nodes :
           \/ slot'[m] = slot[m]
           \/ /\ slot'[m].requested = slot[m].requested /\ slot'[m].cursor = slot[m].cursor
              /\ slot'[m].status = slot[m].status
              /\ slot'[m].running = NoRun \/ slot[m].running # NoRun
              /\ revision[m] > 0
    BY <2>1, <2>4
  <2> QED BY <1>2, <2>1, <2>2, <2>5, KnownSimple
<1>3. ASSUME Typed, NEW n \in Nodes, NEW outcome, FinishRun(n, outcome) PROVE Typed'
  <2>1. /\ TypeOK'
        /\ Members(agenda') = {ServeReader(m, FALSE) : m \in Members(slot[n].readers)} \cup {Ending(n, outcome), Drain}
        /\ slot[n].running \in Jobs /\ slot[n].running # NoRun /\ slot[n].cursor \in Times
        /\ \A m \in Nodes \ {n} : history'[m] = history[m]
        /\ \A m \in Nodes \ {n} : slot'[m] = slot[m]
        /\ slot'[n].running = NoRun /\ slot'[n].requested = slot[n].requested
        /\ slot'[n].cursor = slot[n].cursor /\ slot'[n].status = slot[n].status
        /\ UNCHANGED graph
    BY <1>3, FinishFacts
  <2>2. TypeOK /\ Known
    BY <1>3 DEF Typed
  <2>3. revision[n] \in Nat /\ (revision[n] = 0 => slot[n].running = NoRun)
    BY <2>2 DEF TypeOK, revision, Known, NoSlot
  <2>4. revision[n] > 0
    BY <2>1, <2>3
  <2>5. \A c \in Members(agenda') : c.call \in Telling => slot'[c.node].cursor \in Times /\ revision[c.node] > 0
    <3>1. Ending(n, outcome).call \in Telling => Ending(n, outcome).node = n
      BY DEF Ending, Telling, Serve, SettleServed
    <3> QED BY <2>1, <2>4, <3>1 DEF Drain, ServeReader, Telling
  <2>6. \A m \in Nodes :
           \/ slot'[m] = slot[m]
           \/ /\ revision[m] > 0 /\ slot'[m].requested => slot'[m].cursor \in Times
              /\ slot'[m].status = "pending" => slot'[m].requested
              /\ slot'[m].running # NoRun => slot'[m].cursor \in Times
              /\ slot[m].cursor \in Times => slot'[m].cursor \in Times
              /\ slot'[m].cursor # NoTime /\ PinnedAt[m] # NoTime => slot'[m].cursor = PinnedAt[m]
              /\ revision[m] > 0
    BY <2>1, <2>2, <2>4 DEF Known
  <2>7. \A m \in Nodes : history'[m] = history[m] \/ (history'[m].ring = {} /\ history'[m].late = {}) \/ (revision[m] > 0)
    BY <2>1, <2>4
  <2>8. \A c \in Members(agenda') : c.call \in Telling =>
           c \in Members(agenda) \/ (slot'[c.node].cursor \in Times /\ (c.call = "settle" => revision[c.node] > 0))
    BY <2>5
  <2> QED BY <1>3, <2>1, <2>6, <2>7, <2>8, KnownKept
<1> QED BY <1>1, <1>2, <1>3 DEF Finish

LEMMA TypedEvents ==
  Typed /\ (\/ Suspend \/ Replace \/ Resume \/ Arrive \/ Retire
            \/ \E n \in Nodes : WithdrawEvent(n) \/ \E t \in Times : RequestEvent(n, t)) => Typed'
<1>1. ASSUME Typed, Suspend PROVE Typed'
  <2>1. /\ TypeOK' /\ Idle
        /\ \A m \in Nodes : history'[m] = Dropped(history[m])
        /\ \A m \in Nodes :
              /\ slot'[m].running = NoRun <=> slot[m].running = NoRun
              /\ slot'[m].requested = slot[m].requested /\ slot'[m].wait = slot[m].wait /\ slot'[m].cursor = slot[m].cursor
              /\ slot'[m].status = IF slot[m].requested THEN "pending" ELSE slot[m].status
              /\ slot'[m].readers = slot[m].readers /\ slot'[m].failure = slot[m].failure
        /\ UNCHANGED <<graph, data, budget, orphans, agenda>>
    BY <1>1, SuspendFacts
  <2>2. TypeOK /\ Known
    BY <1>1 DEF Typed
  <2>3. \A m \in Nodes : history'[m].ring = {} /\ history'[m].late = {}
    BY <2>1, <2>2, DroppedFacts DEF TypeOK
  <2>4. \A m \in Nodes : revision[m] \in Nat /\ (revision[m] = 0 => slot'[m] = slot[m])
    <3>1. ASSUME NEW m \in Nodes, revision[m] = 0 PROVE slot'[m] = slot[m]
      <4>1. slot[m].running = NoRun /\ ~slot[m].requested
        BY <2>2, <3>1 DEF Known, NoSlot
      <4>2. slot[m] \in Slots /\ slot'[m] \in Slots
        BY <2>1, <2>2 DEF TypeOK
      <4> QED BY <2>1, <4>1, <4>2, SlotFields
    <3>2. \A m \in Nodes : revision[m] \in Nat
      BY <2>2 DEF TypeOK, revision
    <3> QED BY <3>1, <3>2
  <2>5. \A m \in Nodes :
           \/ slot'[m] = slot[m]
           \/ /\ revision[m] > 0 /\ slot'[m].requested => slot'[m].cursor \in Times
              /\ slot'[m].status = "pending" => slot'[m].requested
              /\ slot'[m].running # NoRun => slot'[m].cursor \in Times
              /\ slot[m].cursor \in Times => slot'[m].cursor \in Times
              /\ slot'[m].cursor # NoTime /\ PinnedAt[m] # NoTime => slot'[m].cursor = PinnedAt[m]
              /\ revision[m] > 0
    BY <2>1, <2>2, <2>4 DEF Known
  <2>6. \A m \in Nodes : history'[m] = history[m] \/ (history'[m].ring = {} /\ history'[m].late = {}) \/ (revision[m] > 0)
    BY <2>3
  <2>7. \A c \in Members(agenda') : c.call \in Telling =>
           c \in Members(agenda) \/ (slot'[c.node].cursor \in Times /\ (c.call = "settle" => revision[c.node] > 0))
    BY <2>1
  <2> QED BY <1>1, <2>1, <2>5, <2>6, <2>7, KnownKept
<1>2. ASSUME Typed, Replace PROVE Typed'
  <2>1. TypeOK' /\ UNCHANGED <<graph, slot, history, agenda>>
    BY <1>2, ReplaceFacts
  <2> QED BY <1>2, <2>1, KnownSimple
<1>3. ASSUME Typed, Resume PROVE Typed'
  <2>1. TypeOK' /\ UNCHANGED <<graph, slot, history>> /\ \A c \in Members(agenda') : c.call = "request"
    BY <1>3, ResumeFacts
  <2>2. \A c \in Members(agenda') : c.call \in Telling => c \in Members(agenda)
    BY <2>1 DEF Telling
  <2> QED BY <1>3, <2>1, <2>2, KnownSimple
<1>4. ASSUME Typed, Arrive PROVE Typed'
  <2>1. TypeOK' /\ UNCHANGED <<graph, slot, history, agenda>>
    BY <1>4, ArriveFacts
  <2> QED BY <1>4, <2>1, KnownSimple
<1>5. ASSUME Typed, Retire PROVE Typed'
  <2>1. TypeOK' /\ UNCHANGED <<graph, slot, history, agenda>>
    BY <1>5, RetireFacts
  <2> QED BY <1>5, <2>1, KnownSimple
<1>6. ASSUME Typed, NEW n \in Nodes, WithdrawEvent(n) PROVE Typed'
  <2>1. TypeOK' /\ Members(agenda') = {Withdraw(n)} /\ UNCHANGED <<graph, slot, history>>
    BY <1>6, WithdrawEventFacts
  <2>2. \A c \in Members(agenda') : c.call \in Telling => c \in Members(agenda)
    BY <2>1 DEF Withdraw, Telling
  <2> QED BY <1>6, <2>1, <2>2, KnownSimple
<1>7. ASSUME Typed, NEW n \in Nodes, NEW t \in Times, RequestEvent(n, t) PROVE Typed'
  <2>1. TypeOK' /\ Members(agenda') = {Request(n, t)} /\ UNCHANGED <<graph, slot, history>>
    BY <1>7, RequestEventFacts
  <2>2. \A c \in Members(agenda') : c.call \in Telling => c \in Members(agenda)
    BY <2>1 DEF Request, Telling
  <2> QED BY <1>7, <2>1, <2>2, KnownSimple
<1> QED BY <1>1, <1>2, <1>3, <1>4, <1>5, <1>6, <1>7

LEMMA TypedInstall ==
  ASSUME Typed, NEW n \in Nodes, Install(n)
  PROVE  Typed'
<1> DEFINE stale == {n} \cup Members(DependentsOf(n))
<1>1. /\ Idle /\ TypeOK'
      /\ revision'[n] > 0 /\ \A m \in Nodes \ {n} : revision'[m] = revision[m]
      /\ \A m \in stale : m \in Nodes /\ history'[m] = Dropped(history[m])
      /\ \A m \in Nodes \ stale : history'[m] = history[m]
      /\ Members(agenda') = {Supersede(m) : m \in stale}
      /\ UNCHANGED <<data, epoch, held, slot, budget, orphans>>
  BY InstallFacts
<1> HIDE DEF stale
<1>2. TypeOK /\ Known
  BY DEF Typed
<1>3. \A m \in Nodes : revision[m] \in Nat /\ revision'[m] \in Nat
  BY <1>1, <1>2 DEF TypeOK, revision
<1>4. \A m \in Nodes : history'[m] = history[m] \/ (history'[m].ring = {} /\ history'[m].late = {})
  BY <1>1, <1>2, DroppedFacts DEF TypeOK
<1>5. \A c \in Members(agenda') : c.call = "supersede"
  BY <1>1 DEF Supersede
<1>6. Known'
  <2>1. \A m \in Nodes : slot'[m].requested => slot'[m].cursor \in Times /\ revision'[m] > 0
    BY <1>1, <1>2 DEF Known
  <2>2. \A m \in Nodes : slot'[m].status = "pending" => slot'[m].requested
    BY <1>1, <1>2 DEF Known
  <2>3. \A m \in Nodes : slot'[m].running # NoRun => slot'[m].cursor \in Times
    BY <1>1, <1>2 DEF Known
  <2>4. \A m \in Nodes : revision'[m] = 0 => slot'[m] = NoSlot /\ history'[m].ring = {} /\ history'[m].late = {}
    BY <1>1, <1>2, <1>3, <1>4 DEF Known
  <2>5. \A m \in Nodes : slot'[m].cursor # NoTime /\ PinnedAt[m] # NoTime => slot'[m].cursor = PinnedAt[m]
    BY <1>1, <1>2 DEF Known
  <2>6. \A c \in Members(agenda') : c.call = "bind" => slot'[c.node].cursor \in Times
    BY <1>5
  <2>7. \A c \in Members(agenda') : c.call = "settle" => revision'[c.node] > 0 /\ slot'[c.node].cursor \in Times
    BY <1>5
  <2> QED BY <2>1, <2>2, <2>3, <2>4, <2>5, <2>6, <2>7 DEF Known
<1> QED BY <1>1, <1>6 DEF Typed

LEMMA TypedRemove ==
  ASSUME Typed, NEW n \in Nodes, Remove(n)
  PROVE  Typed'
<1>1. /\ Idle /\ TypeOK'
      /\ revision'[n] = 0 /\ \A m \in Nodes \ {n} : revision'[m] = revision[m]
      /\ slot'[n] = NoSlot /\ \A m \in Nodes \ {n} : slot'[m] = slot[m]
      /\ history'[n] = NoHistory /\ \A m \in Nodes \ {n} : history'[m] = history[m]
      /\ Members(agenda') = {Supersede(m) : m \in Members(DependentsOf(n))}
  BY RemoveFacts
<1>2. TypeOK /\ Known
  BY DEF Typed
<1>3. /\ ~NoSlot.requested /\ NoSlot.status # "pending" /\ NoSlot.running = NoRun /\ NoSlot.cursor = NoTime
      /\ NoHistory.ring = {} /\ NoHistory.late = {}
  BY DEF NoSlot, NoHistory
<1>5. \A c \in Members(agenda') : c.call = "supersede"
  BY <1>1 DEF Supersede
<1>6. Known'
  <2>1. \A m \in Nodes : slot'[m].requested => slot'[m].cursor \in Times /\ revision'[m] > 0
    BY <1>1, <1>2, <1>3 DEF Known
  <2>2. \A m \in Nodes : slot'[m].status = "pending" => slot'[m].requested
    BY <1>1, <1>2, <1>3 DEF Known
  <2>3. \A m \in Nodes : slot'[m].running # NoRun => slot'[m].cursor \in Times
    BY <1>1, <1>2, <1>3 DEF Known
  <2>4. \A m \in Nodes : revision'[m] = 0 => slot'[m] = NoSlot /\ history'[m].ring = {} /\ history'[m].late = {}
    BY <1>1, <1>2, <1>3 DEF Known
  <2>5. \A m \in Nodes : slot'[m].cursor # NoTime /\ PinnedAt[m] # NoTime => slot'[m].cursor = PinnedAt[m]
    BY <1>1, <1>2, <1>3 DEF Known
  <2>6. \A c \in Members(agenda') : c.call = "bind" => slot'[c.node].cursor \in Times
    BY <1>5
  <2>7. \A c \in Members(agenda') : c.call = "settle" => revision'[c.node] > 0 /\ slot'[c.node].cursor \in Times
    BY <1>5
  <2> QED BY <2>1, <2>2, <2>3, <2>4, <2>5, <2>6, <2>7 DEF Known
<1> QED BY <1>1, <1>6 DEF Typed

LEMMA TypedInit == Init => Typed
<1> SUFFICES ASSUME Init PROVE Typed
  OBVIOUS
<1>1. Len(Order) \in Nat /\ NoSlot \in Slots /\ NoHistory \in Histories
  BY OrderFacts, NoSlotType
<1>2. ASSUME NEW n \in Nodes
      PROVE  (CHOOSE i \in 1 .. Len(Order) : Order[i] = n) \in 1 .. Len(Order)
  BY DEF Nodes
<1>3. /\ graph = [next |-> Len(Order) + 1, revision |-> [n \in Nodes |-> CHOOSE i \in 1 .. Len(Order) : Order[i] = n]]
      /\ data = [oldest |-> 1, newest |-> 1]
      /\ epoch = 0 /\ held = 0
      /\ slot = [n \in Nodes |-> NoSlot]
      /\ history = [n \in Nodes |-> NoHistory]
      /\ budget = [reserved |-> 0, line |-> <<>>, posted |-> FALSE]
      /\ orphans = 0 /\ agenda = <<>>
  BY DEF Init
<1>4. graph \in [next : Nat, revision : [Nodes -> Nat]] /\ graph.next > 0 /\ \A n \in Nodes : revision[n] > 0
  <2> DEFINE f == [n \in Nodes |-> CHOOSE i \in 1 .. Len(Order) : Order[i] = n]
  <2>1. f \in [Nodes -> Nat] /\ \A n \in Nodes : f[n] > 0
    <3>1. \A n \in Nodes : f[n] \in 1 .. Len(Order)
      BY <1>2
    <3>2. \A i \in 1 .. Len(Order) : i \in Nat /\ i > 0
      BY <1>1
    <3>3. f = [n \in Nodes |-> f[n]]
      OBVIOUS
    <3> HIDE DEF f
    <3>4. \A n \in Nodes : f[n] \in Nat /\ f[n] > 0
      BY <3>1, <3>2
    <3> QED BY <3>3, <3>4
  <2>2. graph = [next |-> Len(Order) + 1, revision |-> f]
    BY <1>3
  <2> HIDE DEF f
  <2> QED BY <1>1, <2>1, <2>2 DEF revision
<1>5. data \in [oldest : Nat, newest : Nat] /\ budget \in Budgets
  BY <1>3 DEF Budgets
<1>6. slot \in [Nodes -> Slots] /\ history \in [Nodes -> Histories]
  BY <1>1, <1>3
<1>7. agenda \in Seq(Chores) /\ Members(agenda) = {}
  BY <1>3, MembersOf
<1>8. TypeOK
  BY <1>3, <1>4, <1>5, <1>6, <1>7 DEF TypeOK
<1>9. Known
  BY <1>3, <1>4, <1>7 DEF Known, NoSlot, NoHistory
<1> QED BY <1>8, <1>9 DEF Typed

LEMMA TypedStutter == Typed /\ UNCHANGED vars => Typed'
<1> SUFFICES ASSUME Typed, UNCHANGED vars PROVE Typed'
  OBVIOUS
<1>1. UNCHANGED <<graph, data, epoch, held, slot, history, budget, orphans, agenda, events>>
  BY DEF vars
<1>2. TypeOK'
  BY <1>1 DEF Typed, TypeOK
<1>3. Known'
  BY <1>1 DEF Typed, Known, revision
<1> QED BY <1>2, <1>3 DEF Typed

LEMMA TypedStep == Typed /\ [Next]_vars => Typed'
<1> SUFFICES ASSUME Typed, [Next]_vars PROVE Typed'
  OBVIOUS
<1>1. CASE CallStep
  BY <1>1, TypedServe, TypedSettle, TypedRequest, TypedBind, TypedRegister, TypedOneReader, TypedSupersede,
     TypedWithdraw, TypedBudget DEF CallStep
<1>2. CASE PostedDrain
  BY <1>2, TypedBudget
<1>3. CASE Finish
  BY <1>3, TypedFinish
<1>4. CASE Environment
  BY <1>4, TypedEvents, TypedInstall, TypedRemove DEF Environment
<1>5. CASE UNCHANGED vars
  BY <1>5, TypedStutter
<1> QED BY <1>1, <1>2, <1>3, <1>4, <1>5 DEF Next

(* NodeScheduler's slots and calls: every variable keeps its type, only a     *)
(* requested node is pending and only one of the graph is requested, a        *)
(* finding's cursor is its pinned time, and a removed node leaves no slot and *)
(* no result behind.                                                          *)
THEOREM SlotsTyped == Spec => []Typed
BY TypedInit, TypedStep, PTL DEF Spec

-----------------------------------------------------------------------------
(* The rooms: each held by a run in flight, an orphan or a call. *)

LEMMA NodesFinite == IsFiniteSet(Nodes)
<1> DEFINE n == Len(Order)
           f == [i \in 1 .. n |-> Order[i]]
<1>1. n \in Nat
  BY OrderFacts
<1>2. f \in Surjection(1 .. n, Nodes)
  BY DEF Surjection, Nodes
<1>3. ExistsSurjection(1 .. n, Nodes)
  BY <1>2 DEF ExistsSurjection
<1> QED BY <1>1, <1>3, FS_NatSurjection

(* The calls that hold a room, and where they are in the agenda. *)
RoomChore(c) == c.call = "giveBack" \/ (c.call = "serve" /\ c.room)
Rooms(seq) == {i \in 1 .. Len(seq) : RoomChore(seq[i])}

LEMMA RoomsCounted ==
  ASSUME NEW seq \in Seq(Chores)
  PROVE  IsFiniteSet(Rooms(seq)) /\ Cardinality(Rooms(seq)) \in Nat
<1>1. IsFiniteSet(1 .. Len(seq))
  BY FS_Interval
<1>2. Rooms(seq) \in SUBSET (1 .. Len(seq))
  BY DEF Rooms
<1> QED BY <1>1, <1>2, FS_Subset, FS_CardinalityType

LEMMA NoRooms ==
  ASSUME NEW seq, \A c \in Members(seq) : ~RoomChore(c)
  PROVE  Rooms(seq) = {} /\ Cardinality(Rooms(seq)) = 0
<1>1. Rooms(seq) = {}
  BY DEF Rooms, Members
<1> QED BY <1>1, FS_EmptySet

LEMMA LastRoom ==
  ASSUME NEW s \in Seq(Chores), NEW x \in Chores, \A c \in Members(s) : ~RoomChore(c), RoomChore(x)
  PROVE  Cardinality(Rooms(s \o <<x>>)) = 1
<1>1. <<x>> \in Seq(Chores) /\ Len(<<x>>) = 1 /\ <<x>>[1] = x
  OBVIOUS
<1> DEFINE t == <<x>>
<1>2. /\ s \o t \in Seq(Chores) /\ Len(s \o t) = Len(s) + Len(t) /\ Len(s) \in Nat /\ Len(t) \in Nat
      /\ \A i \in 1 .. Len(s) : i \in 1 .. Len(s \o t) /\ (s \o t)[i] = s[i]
      /\ \A i \in 1 .. Len(t) : Len(s) + i \in 1 .. Len(s \o t) /\ (s \o t)[Len(s) + i] = t[i]
  BY <1>1, ConcatFacts
<1>3. Len(t) = 1 /\ t[1] = x
  BY <1>1
<1> HIDE DEF t
<1> DEFINE last == Len(s) + 1
<1>4. last \in 1 .. Len(s \o t) /\ (s \o t)[last] = x
  BY <1>2, <1>3
<1>5. \A i \in 1 .. Len(s \o t) : i # last => i \in 1 .. Len(s)
  BY <1>2, <1>3
<1>6. Rooms(s \o t) = {last}
  BY <1>2, <1>4, <1>5 DEF Rooms, Members
<1> QED BY <1>6, FS_Singleton DEF t

(* Each call in the place of the head: their rooms, and those of the rest. *)
LEMMA RoomsAfter ==
  ASSUME agenda \in Seq(Chores), ~Idle, NEW calls \in Seq(Chores), Then(calls)
  PROVE  /\ agenda' \in Seq(Chores)
         /\ Cardinality(Rooms(agenda')) =
              Cardinality(Rooms(calls)) + Cardinality(Rooms(agenda)) - (IF RoomChore(Head(agenda)) THEN 1 ELSE 0)
<1> DEFINE k == Len(calls)
           others == Rooms(agenda) \ {1}
           moved == {i \in Rooms(agenda') : i > k}
           f == [j \in others |-> j - 1 + k]
<1>1. /\ agenda' \in Seq(Chores)
      /\ k \in Nat /\ Len(agenda) \in Nat /\ Len(agenda) > 0 /\ Head(agenda) = agenda[1]
      /\ Len(agenda') = k + Len(agenda) - 1
      /\ \A i \in 1 .. k : agenda'[i] = calls[i]
      /\ \A i \in 1 .. Len(agenda') : i > k => i - k + 1 \in 2 .. Len(agenda) /\ agenda'[i] = agenda[i - k + 1]
      /\ \A j \in 2 .. Len(agenda) : j - 1 + k \in 1 .. Len(agenda') /\ agenda'[j - 1 + k] = agenda[j]
  BY ThenFacts
<1>2. IsFiniteSet(Rooms(agenda)) /\ IsFiniteSet(Rooms(agenda')) /\ IsFiniteSet(Rooms(calls))
  BY <1>1, RoomsCounted
<1>3. \A j \in others : j \in 2 .. Len(agenda) /\ RoomChore(agenda[j])
  BY <1>1 DEF Rooms
<1>4. 1 \in Rooms(agenda) <=> RoomChore(Head(agenda))
  BY <1>1 DEF Rooms
<1>5. Rooms(calls) = {i \in Rooms(agenda') : i <= k}
  <2>1. \A i \in 1 .. k : i \in 1 .. Len(agenda')
    BY <1>1
  <2> HIDE DEF k
  <2>2. \A i \in 1 .. Len(agenda') : i <= k => i \in 1 .. k
    BY <1>1
  <2>3. \A i \in 1 .. k : i <= k
    BY <1>1
  <2>4. Rooms(calls) = {i \in 1 .. k : RoomChore(calls[i])}
    BY DEF Rooms, k
  <2> QED BY <1>1, <2>1, <2>2, <2>3, <2>4 DEF Rooms
<1>6. Cardinality(moved) = Cardinality(others) /\ IsFiniteSet(moved)
  <2>1. IsFiniteSet(others)
    BY <1>2, FS_Difference
  <2>2. f \in Bijection(others, moved)
    <3>1. \A j \in others : f[j] = j - 1 + k /\ f[j] \in moved
      <4>1. ASSUME NEW j \in others PROVE j - 1 + k \in moved
        <5>1. j \in 2 .. Len(agenda) /\ RoomChore(agenda[j])
          BY <1>3
        <5>2. j - 1 + k \in 1 .. Len(agenda') /\ agenda'[j - 1 + k] = agenda[j] /\ j - 1 + k > k
          BY <1>1, <5>1
        <5> QED BY <5>1, <5>2 DEF Rooms
      <4> QED BY <4>1
    <3>2. \A i \in moved : i - k + 1 \in others /\ f[i - k + 1] = i
      <4>1. ASSUME NEW i \in moved PROVE i - k + 1 \in others /\ (i - k + 1) - 1 + k = i
        <5>1. i \in 1 .. Len(agenda') /\ i > k /\ RoomChore(agenda'[i])
          BY DEF Rooms
        <5>2. i - k + 1 \in 2 .. Len(agenda) /\ agenda'[i] = agenda[i - k + 1]
          BY <1>1, <5>1
        <5>3. i - k + 1 \in 1 .. Len(agenda) /\ i - k + 1 # 1 /\ (i - k + 1) - 1 + k = i
          BY <1>1, <5>1, <5>2
        <5> QED BY <5>1, <5>2, <5>3 DEF Rooms
      <4> QED BY <4>1
    <3>3. \A a, b \in others : f[a] = f[b] => a = b
      <4>1. \A a \in others : a \in Int
        BY <1>3
      <4> QED BY <1>1, <3>1, <4>1
    <3> HIDE DEF others, moved
    <3>4. f \in [others -> moved]
      BY <3>1
    <3>5. \A i \in moved : \E j \in others : f[j] = i
      BY <3>2
    <3> HIDE DEF f
    <3>6. f \in Surjection(others, moved)
      BY <3>4, <3>5 DEF Surjection
    <3>7. f \in Injection(others, moved)
      BY <3>3, <3>4 DEF Injection, IsInjective
    <3> QED BY <3>6, <3>7 DEF Bijection
  <2> HIDE DEF others, moved, f
  <2>3. ExistsBijection(others, moved)
    BY <2>2 DEF ExistsBijection
  <2> QED BY <2>1, <2>3, FS_Bijection
<1>7. Rooms(agenda') = Rooms(calls) \cup moved /\ Rooms(calls) \cap moved = {}
  <2>1. \A i \in Rooms(agenda') : i \in Int
    BY DEF Rooms
  <2> QED BY <1>1, <1>5, <2>1
<1>8. Cardinality(others) = IF 1 \in Rooms(agenda) THEN Cardinality(Rooms(agenda)) - 1 ELSE Cardinality(Rooms(agenda))
  BY <1>2, FS_RemoveElement
<1>9. Cardinality(Rooms(agenda')) = Cardinality(Rooms(calls)) + Cardinality(others)
  <2> HIDE DEF moved, others
  <2>1. Cardinality(Rooms(calls) \cap moved) = 0
    BY <1>7, FS_EmptySet
  <2>2. Cardinality(Rooms(calls) \cup moved) = Cardinality(Rooms(calls)) + Cardinality(moved) - Cardinality(Rooms(calls) \cap moved)
    BY <1>2, <1>6, FS_Union
  <2>3. Cardinality(Rooms(calls)) \in Nat /\ Cardinality(moved) \in Nat
    BY <1>2, <1>6, FS_CardinalityType
  <2> QED BY <1>6, <1>7, <2>1, <2>2, <2>3
<1>10. Cardinality(Rooms(calls)) \in Nat /\ Cardinality(Rooms(agenda)) \in Nat
  BY RoomsCounted
<1> HIDE DEF others
<1> QED BY <1>1, <1>4, <1>8, <1>9, <1>10

-----------------------------------------------------------------------------
(* The runs in flight. *)
Running == {n \in Nodes : slot[n].running # NoRun}

LEMMA RunningCounted == IsFiniteSet(Running) /\ Cardinality(Running) \in Nat
<1>1. Running \in SUBSET Nodes
  BY DEF Running
<1> QED BY <1>1, NodesFinite, FS_Subset, FS_CardinalityType

LEMMA RunningSame ==
  ASSUME \A m \in Nodes : slot'[m].running = NoRun <=> slot[m].running = NoRun
  PROVE  Running' = Running
BY DEF Running

LEMMA RunningLess ==
  ASSUME NEW n \in Nodes, slot'[n].running = NoRun, \A m \in Nodes \ {n} : slot'[m] = slot[m]
  PROVE  Cardinality(Running') = Cardinality(Running) - (IF slot[n].running = NoRun THEN 0 ELSE 1)
<1>1. Running' = Running \ {n}
  BY DEF Running
<1>2. n \in Running <=> slot[n].running # NoRun
  BY DEF Running
<1>3. IsFiniteSet(Running) /\ Cardinality(Running) \in Nat
  BY RunningCounted
<1>4. Cardinality(Running \ {n}) = IF n \in Running THEN Cardinality(Running) - 1 ELSE Cardinality(Running)
  BY <1>3, FS_RemoveElement
<1> QED BY <1>1, <1>2, <1>3, <1>4

LEMMA RunningMore ==
  ASSUME NEW n \in Nodes, slot[n].running = NoRun, slot'[n].running # NoRun, \A m \in Nodes \ {n} : slot'[m] = slot[m]
  PROVE  Cardinality(Running') = Cardinality(Running) + 1
<1>1. Running' = Running \cup {n}
  BY DEF Running
<1>2. n \notin Running
  BY DEF Running
<1> QED BY <1>1, <1>2, RunningCounted, FS_AddElement

Counted == budget.reserved = Cardinality(Running) + orphans + Cardinality(Rooms(agenda)) /\ budget.reserved <= Capacity

LEMMA CountedIsExact == Counted => RoomsExact
<1>1. Rooms(agenda) = {i \in 1 .. Len(agenda) :
                    \/ agenda[i].call = "giveBack"
                    \/ agenda[i].call = "serve" /\ agenda[i].room}
  BY DEF Rooms, RoomChore
<1> QED BY <1>1 DEF Counted, RoomsExact, Running

LEMMA CountedQuiet ==
  ASSUME TypeOK, TypeOK', Counted, ~Idle, NEW calls \in Seq(Chores), Then(calls), \A c \in Members(calls) : ~RoomChore(c),
         ~RoomChore(Head(agenda)), \A m \in Nodes : slot'[m].running = NoRun <=> slot[m].running = NoRun,
         orphans' = orphans, budget'.reserved = budget.reserved
  PROVE  Counted'
<1>1. agenda \in Seq(Chores)
  BY DEF TypeOK
<1>2. Cardinality(Rooms(agenda')) = Cardinality(Rooms(calls)) + Cardinality(Rooms(agenda)) - (IF RoomChore(Head(agenda)) THEN 1 ELSE 0)
  BY <1>1, RoomsAfter
<1>3. Cardinality(Rooms(calls)) = 0
  BY NoRooms
<1>4. Cardinality(Rooms(agenda)) \in Nat
  BY <1>1, RoomsCounted
<1>5. Cardinality(Rooms(agenda')) = Cardinality(Rooms(agenda))
  BY <1>2, <1>3, <1>4
<1>6. Running' = Running
  BY RunningSame
<1> QED BY <1>5, <1>6 DEF Counted

LEMMA IdleRooms ==
  ASSUME Idle, \A c \in Members(agenda') : ~RoomChore(c)
  PROVE  Cardinality(Rooms(agenda)) = 0 /\ Cardinality(Rooms(agenda')) = 0
<1>1. Members(agenda) = {}
  BY MembersOf DEF Idle
<1> QED BY <1>1, NoRooms

LEMMA CountedIdle ==
  ASSUME Counted, Idle, \A c \in Members(agenda') : ~RoomChore(c),
         \A m \in Nodes : slot'[m].running = NoRun <=> slot[m].running = NoRun,
         orphans' = orphans, budget'.reserved = budget.reserved
  PROVE  Counted'
<1>1. Cardinality(Rooms(agenda)) = 0 /\ Cardinality(Rooms(agenda')) = 0
  BY IdleRooms
<1>2. Running' = Running
  BY RunningSame
<1> QED BY <1>1, <1>2 DEF Counted

LEMMA UnusedRooms ==
  ASSUME TypeOK, Calls("serve"), NEW told \in Seq(Chores), \A c \in Members(told) : ~RoomChore(c)
  PROVE  Cardinality(Rooms(told \o Unused)) = IF RoomChore(Head(agenda)) THEN 1 ELSE 0
<1>1. RoomChore(Head(agenda)) <=> Room
  BY DEF RoomChore, Room, Calls
<1>2. CASE Room
  <2>1. GiveBack \in Chores /\ RoomChore(GiveBack)
    BY ChoreTypes DEF GiveBack, RoomChore
  <2>2. Unused = <<GiveBack>>
    BY <1>2, UnusedFacts
  <2> QED BY <1>1, <1>2, <2>1, <2>2, LastRoom
<1>3. CASE ~Room
  <2>1. Unused = <<>>
    BY <1>3, UnusedFacts
  <2>2. told \o Unused = told
    BY <2>1, ConcatEmptySeq
  <2> QED BY <1>1, <1>3, <2>2, NoRooms
<1> QED BY <1>2, <1>3

LEMMA CountedServe == Typed /\ ServeStep /\ Counted => Counted'
<1> SUFFICES ASSUME Typed, ServeStep, Counted PROVE Counted'
  OBVIOUS
<1>1. Calls("serve") /\ Callee \in Nodes /\ (ServeWithdrawn \/ ServeRun \/ Concludes)
  BY ServeShape
<1>2. TypeOK /\ Known /\ ~Idle /\ agenda \in Seq(Chores) /\ budget \in Budgets
  BY <1>1 DEF Typed, Calls, TypeOK
<1> DEFINE taken == IF RoomChore(Head(agenda)) THEN 1 ELSE 0
<1>3. Cardinality(Rooms(agenda)) \in Nat /\ Cardinality(Running) \in Nat /\ orphans \in Nat /\ budget.reserved \in Int /\ Capacity \in Nat
  BY <1>2, RoomsCounted, RunningCounted, BudgetFields, ConstantFacts DEF TypeOK
<1>4. taken \in {0, 1}
  OBVIOUS
<1>5. ASSUME NEW told \in Seq(Chores), \A c \in Members(told) : ~RoomChore(c), Then(told \o Unused), told \o Unused \in Seq(Chores),
             \A m \in Nodes : slot'[m].running = NoRun <=> slot[m].running = NoRun,
             orphans' = orphans, budget'.reserved = budget.reserved
      PROVE  Counted'
  <2>1. Cardinality(Rooms(told \o Unused)) = taken
    BY <1>1, <1>2, <1>5, UnusedRooms
  <2>2. Cardinality(Rooms(agenda')) = Cardinality(Rooms(told \o Unused)) + Cardinality(Rooms(agenda)) - taken
    BY <1>2, <1>5, RoomsAfter
  <2> HIDE DEF taken
  <2>3. Cardinality(Rooms(agenda')) = Cardinality(Rooms(agenda))
    BY <1>3, <1>4, <2>1, <2>2
  <2>4. Running' = Running
    BY <1>5, RunningSame
  <2> QED BY <1>5, <2>3, <2>4 DEF Counted
<1>6. Unused \in Seq(Chores) /\ <<>> \in Seq(Chores) /\ Members(<<>>) = {} /\ <<>> \o Unused = Unused
  BY <1>1, <1>2, UnusedFacts, ConcatEmptySeq, MembersOf
<1>7. CASE ServeWithdrawn
  <2>1. Then(Unused) /\ UNCHANGED <<graph, data, epoch, held, slot, history, budget, orphans, events>>
    BY <1>7, WithdrawnFacts
  <2> QED BY <1>5, <1>6, <2>1
<1>8. CASE Concludes
  <2>1. PICK wait \in Waits, status \in Statuses \ {"idle"}, h \in Histories : Conclude(Callee, wait, status, h, Unused)
    BY <1>8 DEF Concludes
  <2> DEFINE told == IF status = "pending" THEN <<>> ELSE ServeReaders(Callee, TRUE)
  <2>2. status \in Statuses /\ TRUE \in BOOLEAN
    OBVIOUS
  <2>3. /\ \A m \in Nodes \ {Callee} : slot'[m] = slot[m]
        /\ slot'[Callee].running = slot[Callee].running
        /\ told \o Unused \in Seq(Chores)
        /\ Then(told \o Unused)
        /\ orphans' = orphans
        /\ budget' = LineAfter(Callee, wait)
    BY <1>1, <1>2, <1>6, <2>1, <2>2, ConcludeFacts
  <2>4. told \in Seq(Chores) /\ \A c \in Members(told) : ~RoomChore(c)
    <3>1. /\ ServeReaders(Callee, TRUE) \in Seq(Chores)
          /\ Members(ServeReaders(Callee, TRUE)) = {ServeReader(m, TRUE) : m \in Members(slot[Callee].readers)}
      BY <1>1, <1>2, <2>2, ReadersCalled, Zenon
    <3>2. \A m : ~RoomChore(ServeReader(m, TRUE))
      BY DEF RoomChore, ServeReader
    <3>3. \A c \in Members(ServeReaders(Callee, TRUE)) : ~RoomChore(c)
      BY <3>1, <3>2
    <3> QED BY <1>6, <3>1, <3>3
  <2> HIDE DEF told
  <2>5. budget'.reserved = budget.reserved
    BY <1>1, <1>2, <2>1, <2>3, LineAfterFacts
  <2>6. \A m \in Nodes : slot'[m].running = NoRun <=> slot[m].running = NoRun
    BY <2>3
  <2> QED BY <1>5, <2>3, <2>4, <2>5, <2>6
<1>9. CASE ServeRun
  <2> DEFINE n == Callee
  <2>1. /\ Then(<<>>) /\ Room \in BOOLEAN /\ (Room \/ CanReserve)
        /\ \A m \in Nodes \ {n} : slot'[m] = slot[m]
        /\ slot[n].running = NoRun /\ slot'[n].running \in Jobs
        /\ budget' = [LineAfter(n, "none") EXCEPT !.reserved = IF Room THEN @ ELSE @ + 1]
        /\ orphans' = orphans
    BY <1>9, RunFacts
  <2>2. "none" \in Waits
    BY DEF Waits
  <2>3. LineAfter(n, "none") \in Budgets /\ LineAfter(n, "none").reserved = budget.reserved
    BY <1>1, <1>2, <2>2, LineAfterFacts
  <2>4. budget'.reserved = IF Room THEN budget.reserved ELSE budget.reserved + 1
    BY <2>1, <2>3 DEF Budgets
  <2>5. slot'[n].running # NoRun
    BY <2>1, NoRunAssumption
  <2>6. Cardinality(Running') = Cardinality(Running) + 1
    BY <1>1, <2>1, <2>5, RunningMore
  <2>7. Cardinality(Rooms(agenda')) = Cardinality(Rooms(agenda)) - taken
    <3>1. Cardinality(Rooms(<<>>)) = 0
      BY <1>6, NoRooms
    <3>2. Cardinality(Rooms(agenda')) = Cardinality(Rooms(<<>>)) + Cardinality(Rooms(agenda)) - taken
      BY <1>2, <1>6, <2>1, RoomsAfter
    <3> HIDE DEF taken
    <3> QED BY <1>3, <1>4, <3>1, <3>2
  <2>8. taken = IF Room THEN 1 ELSE 0
    BY <1>1 DEF RoomChore, Room, Calls
  <2>9. ~Room => budget.reserved < Capacity
    BY <2>1 DEF CanReserve, Fits
  <2> HIDE DEF taken
  <2>10. budget'.reserved = Cardinality(Running') + orphans' + Cardinality(Rooms(agenda'))
    BY <1>3, <2>1, <2>4, <2>6, <2>7, <2>8 DEF Counted
  <2>11. budget'.reserved <= Capacity
    BY <1>3, <2>4, <2>9 DEF Counted
  <2> QED BY <2>10, <2>11 DEF Counted
<1> QED BY <1>1, <1>7, <1>8, <1>9

LEMMA NoRoomCalls ==
  /\ \A n, t : ~RoomChore(Request(n, t)) /\ ~RoomChore(Bind(n, t)) /\ ~RoomChore(Register(n, t))
               /\ ~RoomChore(ServeReader(n, t)) /\ ~RoomChore(SettleServed(n, t))
               /\ ~RoomChore(Serve(n, t, FALSE)) /\ ~RoomChore(Supersede(n)) /\ ~RoomChore(Withdraw(n))
  /\ ~RoomChore(Drain) /\ ~RoomChore(Granting)
BY DEF RoomChore, Request, Bind, Register, ServeReader, SettleServed, Serve, Supersede, Withdraw, Drain, Granting

LEMMA HeadHasNoRoom ==
  ASSUME NEW call \in {"request", "bind", "register", "reader", "settle", "supersede", "withdraw", "drain", "granting"}, Calls(call)
  PROVE  ~RoomChore(Head(agenda))
BY DEF RoomChore, Calls

LEMMA CountedTypes ==
  ASSUME TypeOK
  PROVE  /\ Cardinality(Rooms(agenda)) \in Nat /\ Cardinality(Running) \in Nat /\ orphans \in Nat
         /\ budget \in Budgets /\ budget.reserved \in Int /\ Capacity \in Nat /\ agenda \in Seq(Chores)
BY RoomsCounted, RunningCounted, BudgetFields, ConstantFacts DEF TypeOK

LEMMA CountedCalls ==
  Typed /\ Counted /\ (\/ RequestAt \/ BindNext \/ RegisterReader \/ ServeOneReader \/ Settle \/ SupersedeNode
                       \/ WithdrawNode \/ DrainBegins) => Counted'
<1>0. Typed => TypeOK
  BY DEF Typed
<1>1. ASSUME Typed, Counted, RequestAt PROVE Counted'
  <2> DEFINE n == Callee
  <2>1. /\ Calls("request") /\ ~Idle /\ TypeOK' /\ n \in Nodes
        /\ \/ slot' = slot /\ Then(<<>>)
           \/ /\ Then(<<Bind(n, 1)>>) /\ Bind(n, 1) \in Chores
              /\ \A m \in Nodes \ {n} : slot'[m] = slot[m]
              /\ slot'[n].running = NoRun <=> slot[n].running = NoRun
        /\ UNCHANGED <<budget, orphans>>
    BY <1>1, RequestFacts
  <2> HIDE DEF n
  <2>2. \A m \in Nodes : slot'[m].running = NoRun <=> slot[m].running = NoRun
    BY <2>1
  <2>3. ~RoomChore(Head(agenda))
    BY <2>1, HeadHasNoRoom
  <2>4. CASE Then(<<>>)
    <3>1. <<>> \in Seq(Chores) /\ Members(<<>>) = {}
      BY MembersOf
    <3> QED BY <1>0, <1>1, <2>1, <2>2, <2>3, <2>4, <3>1, CountedQuiet
  <2>5. CASE ~Then(<<>>)
    <3>1. Then(<<Bind(n, 1)>>) /\ Bind(n, 1) \in Chores
      BY <2>1, <2>5
    <3>2. <<Bind(n, 1)>> \in Seq(Chores) /\ Members(<<Bind(n, 1)>>) = {Bind(n, 1)}
      BY <3>1, OneCall, MembersOf
    <3> QED BY <1>0, <1>1, <2>1, <2>2, <2>3, <3>1, <3>2, CountedQuiet, NoRoomCalls
  <2> QED BY <2>4, <2>5
<1>2. ASSUME Typed, Counted, BindNext PROVE Counted'
  <2> DEFINE n == Callee
             i == Head(agenda).input
             u == Reads[n][i]
             one == <<Serve(n, "request", FALSE)>>
             three == <<Request(u, slot[n].cursor), Register(u, n), Bind(n, i + 1)>>
  <2>1. /\ Calls("bind") /\ ~Idle /\ TypeOK'
        /\ \/ Then(one) /\ one \in Seq(Chores)
           \/ Then(three) /\ three \in Seq(Chores)
        /\ UNCHANGED <<slot, budget, orphans>>
    BY <1>2, BindFacts
  <2>5. Members(one) = {Serve(n, "request", FALSE)}
    BY MembersOf, Zenon
  <2>6. Members(three) = {Request(u, slot[n].cursor), Register(u, n), Bind(n, i + 1)}
    <3> DEFINE x == Request(u, slot[n].cursor)
               y == Register(u, n)
               z == Bind(n, i + 1)
    <3> HIDE DEF x, y, z
    <3>1. Members(<<x, y, z>>) = {x, y, z}
      BY MembersOf
    <3> QED BY <3>1 DEF x, y, z
  <2>2. Members(one) = {Serve(n, "request", FALSE)} /\ Members(three) = {Request(u, slot[n].cursor), Register(u, n), Bind(n, i + 1)}
    BY <2>5, <2>6
  <2>3. (\A c \in Members(one) : ~RoomChore(c)) /\ (\A c \in Members(three) : ~RoomChore(c))
    BY <2>2, NoRoomCalls
  <2> HIDE DEF one, three
  <2>4. ~RoomChore(Head(agenda))
    BY <2>1, HeadHasNoRoom
  <2> QED BY <1>0, <1>2, <2>1, <2>3, <2>4, CountedQuiet
<1>3. ASSUME Typed, Counted, RegisterReader PROVE Counted'
  <2> DEFINE u == Callee
  <2>1. /\ Calls("register") /\ ~Idle /\ TypeOK' /\ Then(<<>>) /\ u \in Nodes
        /\ \A m \in Nodes \ {u} : slot'[m] = slot[m]
        /\ slot'[u].running = slot[u].running
        /\ UNCHANGED <<budget, orphans>>
    BY <1>3, RegisterFacts
  <2> HIDE DEF u
  <2>2. \A m \in Nodes : slot'[m].running = NoRun <=> slot[m].running = NoRun
    BY <2>1
  <2>3. ~RoomChore(Head(agenda)) /\ <<>> \in Seq(Chores) /\ Members(<<>>) = {}
    BY <2>1, HeadHasNoRoom, MembersOf
  <2> QED BY <1>0, <1>3, <2>1, <2>2, <2>3, CountedQuiet
<1>4. ASSUME Typed, Counted, ServeOneReader PROVE Counted'
  <2> DEFINE n == Callee
             one == <<Serve(n, "retry", FALSE)>>
  <2>1. /\ Calls("reader") /\ ~Idle /\ TypeOK'
        /\ Then(<<>>) \/ (Then(one) /\ one \in Seq(Chores))
        /\ UNCHANGED <<slot, budget, orphans>>
    BY <1>4, OneReaderFacts
  <2>2. ~RoomChore(Head(agenda)) /\ <<>> \in Seq(Chores) /\ Members(<<>>) = {}
    BY <2>1, HeadHasNoRoom, MembersOf
  <2>4. Members(one) = {Serve(n, "retry", FALSE)}
    BY MembersOf, Zenon
  <2>3. \A c \in Members(one) : ~RoomChore(c)
    BY <2>4, NoRoomCalls
  <2> HIDE DEF one
  <2> QED BY <1>0, <1>4, <2>1, <2>2, <2>3, CountedQuiet
<1>5. ASSUME Typed, Counted, Settle PROVE Counted'
  <2> DEFINE n == Callee
             h == TombstonesSuperseded(Callee, history[Callee], Head(agenda).stamp)
             told == (IF "ready" = "pending" THEN <<>> ELSE ServeReaders(n, TRUE)) \o <<>>
  <2>1. Calls("settle") /\ ~Idle /\ n \in Nodes /\ h \in Histories /\ Conclude(n, "none", "ready", h, <<>>)
    BY <1>5, SettleFacts
  <2>2. "none" \in Waits /\ "ready" \in Statuses /\ <<>> \in Seq(Chores) /\ TRUE \in BOOLEAN
    BY DEF Waits, Statuses
  <2> HIDE DEF n, h
  <2>3. /\ TypeOK' /\ \A m \in Nodes \ {n} : slot'[m] = slot[m]
        /\ slot'[n].running = slot[n].running
        /\ told \in Seq(Chores) /\ Then(told)
        /\ orphans' = orphans /\ budget' = LineAfter(n, "none")
    BY <1>0, <1>5, <2>1, <2>2, ConcludeFacts
  <2>4. Members(told) = {ServeReader(m, TRUE) : m \in Members(slot[n].readers)}
    <3>1. /\ ServeReaders(n, TRUE) \in Seq(Chores)
          /\ Members(ServeReaders(n, TRUE)) = {ServeReader(m, TRUE) : m \in Members(slot[n].readers)}
      BY <1>0, <1>5, <2>1, <2>2, ReadersCalled, Zenon
    <3>2. told = ServeReaders(n, TRUE)
      BY <3>1, ConcatEmptySeq
    <3> QED BY <3>1, <3>2
  <2> HIDE DEF told
  <2>5. ~RoomChore(Head(agenda))
    BY <2>1, HeadHasNoRoom
  <2>6. budget'.reserved = budget.reserved
    BY <1>0, <1>5, <2>1, <2>2, <2>3, LineAfterFacts
  <2>7. \A c \in Members(told) : ~RoomChore(c)
    BY <2>4, NoRoomCalls
  <2>8. \A m \in Nodes : slot'[m].running = NoRun <=> slot[m].running = NoRun
    BY <2>3
  <2> QED BY <1>0, <1>5, <2>1, <2>3, <2>5, <2>6, <2>7, <2>8, CountedQuiet
<1>6. ASSUME Typed, Counted, SupersedeNode PROVE Counted'
  <2> DEFINE n == Callee
             x == Request(n, slot[n].cursor)
  <2>1. /\ Calls("supersede") /\ ~Idle /\ TypeOK' /\ n \in Nodes
        /\ Then(<<>>) \/ (Then(<<x>>) /\ x \in Chores)
        /\ \A m \in Nodes \ {n} : slot'[m] = slot[m]
        /\ slot'[n].running = NoRun <=> slot[n].running = NoRun
        /\ UNCHANGED <<budget, orphans>>
    BY <1>6, SupersedeFacts
  <2>2. ~RoomChore(x)
    BY NoRoomCalls
  <2> HIDE DEF n, x
  <2>3. \A m \in Nodes : slot'[m].running = NoRun <=> slot[m].running = NoRun
    BY <2>1
  <2>4. ~RoomChore(Head(agenda)) /\ <<>> \in Seq(Chores) /\ Members(<<>>) = {} /\ Members(<<x>>) = {x}
        /\ (x \in Chores => <<x>> \in Seq(Chores))
    BY <2>1, HeadHasNoRoom, MembersOf, OneCall
  <2> QED BY <1>0, <1>6, <2>1, <2>2, <2>3, <2>4, CountedQuiet
<1>7. ASSUME Typed, Counted, WithdrawNode PROVE Counted'
  <2> DEFINE n == Callee
  <2>1. /\ Calls("withdraw") /\ ~Idle /\ TypeOK' /\ n \in Nodes /\ orphans' = orphans
        /\ \/ Then(<<>>) /\ UNCHANGED <<slot, budget>>
           \/ /\ budget' = LineAfter(n, "none")
              /\ \A m \in Nodes \ {n} : slot'[m] = slot[m]
              /\ slot'[n].running = slot[n].running
              /\ \E calls \in Seq(Chores), ups \in SUBSET Nodes :
                    /\ Then(calls)
                    /\ Members(calls) = {ServeReader(m, TRUE) : m \in Members(slot[n].readers)} \cup {Withdraw(u) : u \in ups}
    BY <1>7, WithdrawFacts
  <2> HIDE DEF n
  <2>2. ~RoomChore(Head(agenda)) /\ <<>> \in Seq(Chores) /\ Members(<<>>) = {} /\ "none" \in Waits
    BY <2>1, HeadHasNoRoom, MembersOf DEF Waits
  <2>3. CASE Then(<<>>) /\ UNCHANGED <<slot, budget>>
    BY <1>0, <1>7, <2>1, <2>2, <2>3, CountedQuiet
  <2>4. CASE ~(Then(<<>>) /\ UNCHANGED <<slot, budget>>)
    <3>1. PICK calls \in Seq(Chores), ups \in SUBSET Nodes :
                    /\ Then(calls)
                    /\ Members(calls) = {ServeReader(m, TRUE) : m \in Members(slot[n].readers)} \cup {Withdraw(u) : u \in ups}
      BY <2>1, <2>4
    <3>2. \A c \in Members(calls) : ~RoomChore(c)
      BY <3>1, NoRoomCalls
    <3>3. budget'.reserved = budget.reserved
      BY <1>0, <1>7, <2>1, <2>2, <2>4, LineAfterFacts
    <3>4. \A m \in Nodes : slot'[m].running = NoRun <=> slot[m].running = NoRun
      BY <2>1
    <3> QED BY <1>0, <1>7, <2>1, <2>2, <3>1, <3>2, <3>3, <3>4, CountedQuiet
  <2> QED BY <2>3, <2>4
<1>8. ASSUME Typed, Counted, DrainBegins PROVE Counted'
  <2>1. /\ Calls("drain") /\ ~Idle /\ TypeOK' /\ Then(<<Granting>>) /\ <<Granting>> \in Seq(Chores)
        /\ UNCHANGED <<slot, budget, orphans>>
    BY <1>8, DrainFacts
  <2>2. ~RoomChore(Head(agenda)) /\ Members(<<Granting>>) = {Granting}
    BY <2>1, HeadHasNoRoom, MembersOf
  <2> QED BY <1>0, <1>8, <2>1, <2>2, NoRoomCalls, CountedQuiet
<1> QED BY <1>1, <1>2, <1>3, <1>4, <1>5, <1>6, <1>7, <1>8

LEMMA CountedReturn == Typed /\ Counted /\ ReturnRoom => Counted'
<1> SUFFICES ASSUME Typed, Counted, ReturnRoom PROVE Counted'
  OBVIOUS
<1>1. /\ Calls("giveBack") /\ ~Idle /\ Then(<<>>) /\ budget' = Returned /\ UNCHANGED <<slot, orphans>>
  BY ReturnFacts
<1>2. TypeOK
  BY DEF Typed
<1>3. Cardinality(Rooms(agenda')) = Cardinality(Rooms(agenda)) - 1
  <2>1. <<>> \in Seq(Chores) /\ Members(<<>>) = {}
    BY MembersOf
  <2>2. Cardinality(Rooms(<<>>)) = 0
    BY <2>1, NoRooms
  <2>3. RoomChore(Head(agenda))
    BY <1>1 DEF Calls, RoomChore
  <2>4. Cardinality(Rooms(agenda')) = Cardinality(Rooms(<<>>)) + Cardinality(Rooms(agenda)) - (IF RoomChore(Head(agenda)) THEN 1 ELSE 0)
    BY <1>1, <1>2, <2>1, RoomsAfter, CountedTypes
  <2> QED BY <1>2, <2>2, <2>3, <2>4, CountedTypes
<1>4. Running' = Running
  BY <1>1, RunningSame
<1>5. budget'.reserved = budget.reserved - 1
  BY <1>1, <1>2, ReturnedFacts
<1> QED BY <1>1, <1>2, <1>3, <1>4, <1>5, CountedTypes DEF Counted

LEMMA CountedGrant == Typed /\ Counted /\ Grant => Counted'
<1> SUFFICES ASSUME Typed, Counted, Grant PROVE Counted'
  OBVIOUS
<1> DEFINE n == Head(budget.line)
           x == Serve(n, "retry", TRUE)
           calls == <<x, Granting>>
           full == ~(budget.line # <<>> /\ Fits(budget))
<1>1. /\ Calls("granting") /\ ~Idle /\ TypeOK' /\ orphans' = orphans
      /\ \/ UNCHANGED <<budget, slot>> /\ Then(<<>>)
         \/ /\ Fits(budget) /\ n \in Nodes
            /\ budget'.reserved = budget.reserved + 1
            /\ \A m \in Nodes \ {n} : slot'[m] = slot[m]
            /\ slot'[n].running = slot[n].running
            /\ Then(calls) /\ calls \in Seq(Chores)
  BY GrantFacts
<1>2. TypeOK /\ ~RoomChore(Head(agenda)) /\ <<>> \in Seq(Chores) /\ Members(<<>>) = {}
  BY <1>1, HeadHasNoRoom, MembersOf DEF Typed
<1>3. CASE UNCHANGED <<budget, slot>> /\ Then(<<>>)
  BY <1>1, <1>2, <1>3, CountedQuiet
<1>4. CASE ~(UNCHANGED <<budget, slot>> /\ Then(<<>>))
  <2>1. RoomChore(x) /\ ~RoomChore(Granting) /\ Len(calls) = 2 /\ calls[1] = x /\ calls[2] = Granting
    BY NoRoomCalls DEF RoomChore, Serve
  <2>2. /\ calls \in Seq(Chores) /\ Then(calls) /\ Fits(budget) /\ n \in Nodes /\ budget'.reserved = budget.reserved + 1
        /\ \A m \in Nodes \ {n} : slot'[m] = slot[m]
        /\ slot'[n].running = slot[n].running
    BY <1>1, <1>4
  <2> HIDE DEF calls, x, n
  <2>3. Rooms(calls) = {1}
    BY <2>1 DEF Rooms
  <2>4. Cardinality(Rooms(calls)) = 1
    BY <2>3, FS_Singleton
  <2>5. Cardinality(Rooms(agenda')) = Cardinality(Rooms(calls)) + Cardinality(Rooms(agenda)) - (IF RoomChore(Head(agenda)) THEN 1 ELSE 0)
    BY <1>1, <1>2, <2>2, RoomsAfter, CountedTypes
  <2>6. Cardinality(Rooms(agenda')) = Cardinality(Rooms(agenda)) + 1
    BY <1>2, <2>4, <2>5, CountedTypes
  <2>7. Running' = Running
    BY <2>2, RunningSame
  <2>8. budget.reserved < Capacity
    BY <2>2 DEF Fits
  <2>9. budget'.reserved = budget.reserved + 1 /\ orphans' = orphans
    BY <1>1, <2>2
  <2> HIDE DEF full
  <2>10. budget'.reserved = Cardinality(Running') + orphans' + Cardinality(Rooms(agenda'))
    BY <1>2, <2>6, <2>7, <2>9, CountedTypes DEF Counted
  <2>11. budget'.reserved <= Capacity
    BY <1>2, <2>8, <2>9, CountedTypes
  <2> QED BY <2>10, <2>11 DEF Counted
<1> QED BY <1>3, <1>4

LEMMA CountedFinish == Typed /\ Counted /\ Finish => Counted'
<1>0. Typed => TypeOK
  BY DEF Typed
<1>1. ASSUME Typed, Counted, FinishOrphan PROVE Counted'
  <2>1. Idle /\ Members(agenda') = {Drain} /\ budget' = Returned /\ orphans > 0 /\ orphans' = orphans - 1 /\ UNCHANGED slot
    BY <1>1, OrphanFacts
  <2>2. Cardinality(Rooms(agenda)) = 0 /\ Cardinality(Rooms(agenda')) = 0
    BY <2>1, IdleRooms, NoRoomCalls
  <2>3. Running' = Running
    BY <2>1, RunningSame
  <2>4. budget'.reserved = budget.reserved - 1
    BY <1>0, <1>1, <2>1, ReturnedFacts
  <2> QED BY <1>0, <1>1, <2>1, <2>2, <2>3, <2>4, CountedTypes DEF Counted
<1>2. ASSUME Typed, Counted, Idle, NEW n \in Nodes, slot[n].running # NoRun, slot'[n].running = NoRun,
             \A m \in Nodes \ {n} : slot'[m] = slot[m], budget' = Returned, orphans' = orphans,
             \A c \in Members(agenda') : ~RoomChore(c)
      PROVE  Counted'
  <2>2. Cardinality(Rooms(agenda)) = 0 /\ Cardinality(Rooms(agenda')) = 0
    BY <1>2, IdleRooms
  <2>3. Cardinality(Running') = Cardinality(Running) - 1
    BY <1>2, RunningLess
  <2>4. budget'.reserved = budget.reserved - 1
    BY <1>0, <1>2, ReturnedFacts
  <2> QED BY <1>0, <1>2, <2>2, <2>3, <2>4, CountedTypes DEF Counted
<1>3. ASSUME Typed, Counted, NEW n \in Nodes, FinishDropped(n) PROVE Counted'
  <2>1. /\ Idle /\ Members(agenda') = {Serve(n, "request", FALSE), Drain} /\ slot[n].running # NoRun /\ budget' = Returned
        /\ \A m \in Nodes \ {n} : slot'[m] = slot[m]
        /\ slot'[n].running = NoRun /\ orphans' = orphans
    BY <1>3, DroppedRunFacts
  <2>2. \A c \in Members(agenda') : ~RoomChore(c)
    BY <2>1, NoRoomCalls
  <2> QED BY <1>2, <1>3, <2>1, <2>2
<1>4. ASSUME Typed, Counted, NEW n \in Nodes, NEW outcome, FinishRun(n, outcome) PROVE Counted'
  <2>1. /\ Idle /\ slot[n].running # NoRun /\ budget' = Returned
        /\ Members(agenda') = {ServeReader(m, FALSE) : m \in Members(slot[n].readers)} \cup {Ending(n, outcome), Drain}
        /\ \A m \in Nodes \ {n} : slot'[m] = slot[m]
        /\ slot'[n].running = NoRun /\ orphans' = orphans
    BY <1>4, FinishFacts
  <2>2. ~RoomChore(Ending(n, outcome))
    BY NoRoomCalls DEF Ending
  <2>3. \A c \in Members(agenda') : ~RoomChore(c)
    BY <2>1, <2>2, NoRoomCalls
  <2> QED BY <1>2, <1>4, <2>1, <2>3
<1> QED BY <1>1, <1>3, <1>4 DEF Finish

LEMMA CountedEnvironment == Typed /\ Counted /\ (PostedDrain \/ Environment) => Counted'
<1>0. Typed => TypeOK
  BY DEF Typed
<1>1. ASSUME Typed, Counted, PostedDrain PROVE Counted'
  <2>1. Idle /\ Members(agenda') = {Drain} /\ budget'.reserved = budget.reserved /\ UNCHANGED <<slot, orphans>>
    BY <1>1, PostedFacts
  <2> QED BY <1>1, <2>1, CountedIdle, NoRoomCalls
<1>2. ASSUME Typed, Counted, NEW n \in Nodes, Install(n) PROVE Counted'
  <2>1. Idle /\ Members(agenda') = {Supersede(m) : m \in {n} \cup Members(DependentsOf(n))} /\ UNCHANGED <<budget, slot, orphans>>
    BY <1>2, InstallFacts
  <2> QED BY <1>2, <2>1, CountedIdle, NoRoomCalls
<1>3. ASSUME Typed, Counted, NEW n \in Nodes, Remove(n) PROVE Counted'
  <2>1. /\ Idle /\ Members(agenda') = {Supersede(m) : m \in Members(DependentsOf(n))}
        /\ slot'[n] = NoSlot /\ \A m \in Nodes \ {n} : slot'[m] = slot[m]
        /\ orphans' = IF slot[n].running = NoRun THEN orphans ELSE orphans + 1
        /\ budget' = LineAfter(n, "none")
    BY <1>3, RemoveFacts
  <2>2. Cardinality(Rooms(agenda)) = 0 /\ Cardinality(Rooms(agenda')) = 0
    BY <2>1, IdleRooms, NoRoomCalls
  <2>3. slot'[n].running = NoRun /\ "none" \in Waits
    BY <2>1 DEF NoSlot, Waits
  <2>4. Cardinality(Running') = Cardinality(Running) - (IF slot[n].running = NoRun THEN 0 ELSE 1)
    BY <2>1, <2>3, RunningLess
  <2>5. budget'.reserved = budget.reserved
    BY <1>0, <1>3, <2>1, <2>3, LineAfterFacts
  <2> QED BY <1>0, <1>3, <2>1, <2>2, <2>4, <2>5, CountedTypes DEF Counted
<1>4. ASSUME Typed, Counted, NEW n \in Nodes, WithdrawEvent(n) PROVE Counted'
  <2>1. Idle /\ Members(agenda') = {Withdraw(n)} /\ UNCHANGED <<budget, slot, orphans>>
    BY <1>4, WithdrawEventFacts
  <2> QED BY <1>4, <2>1, CountedIdle, NoRoomCalls
<1>5. ASSUME Typed, Counted, NEW n \in Nodes, NEW t \in Times, RequestEvent(n, t) PROVE Counted'
  <2>1. Idle /\ Members(agenda') = {Request(n, t)} /\ UNCHANGED <<budget, slot, orphans>>
    BY <1>5, RequestEventFacts
  <2> QED BY <1>5, <2>1, CountedIdle, NoRoomCalls
<1>6. ASSUME Typed, Counted, Suspend PROVE Counted'
  <2>1. /\ Idle /\ UNCHANGED <<budget, orphans, agenda>>
        /\ \A m \in Nodes : slot'[m].running = NoRun <=> slot[m].running = NoRun
    BY <1>6, SuspendFacts
  <2>2. Members(agenda') = {}
    BY <2>1, MembersOf DEF Idle
  <2> QED BY <1>6, <2>1, <2>2, CountedIdle
<1>7. ASSUME Typed, Counted, Replace \/ Arrive \/ Retire PROVE Counted'
  <2>1. Idle /\ UNCHANGED <<slot, budget, orphans, agenda>>
    BY <1>7, ReplaceFacts, ArriveFacts, RetireFacts
  <2> QED BY <1>7, <2>1 DEF Counted, Running
<1>8. ASSUME Typed, Counted, Resume PROVE Counted'
  <2>1. Idle /\ UNCHANGED <<slot, budget, orphans>> /\ \A c \in Members(agenda') : c.call = "request"
    BY <1>8, ResumeFacts
  <2>2. \A c \in Members(agenda') : ~RoomChore(c)
    BY <2>1 DEF RoomChore
  <2> QED BY <1>8, <2>1, <2>2, CountedIdle
<1> QED BY <1>1, <1>2, <1>3, <1>4, <1>5, <1>6, <1>7, <1>8 DEF Environment

LEMMA CountedStep == Typed /\ Counted /\ [Next]_vars => Counted'
<1>1. Typed /\ Counted /\ CallStep => Counted'
  BY CountedServe, CountedCalls, CountedReturn, CountedGrant DEF CallStep
<1>2. Counted /\ UNCHANGED vars => Counted'
  BY DEF Counted, vars, Running
<1> QED BY <1>1, <1>2, CountedFinish, CountedEnvironment DEF Next

LEMMA CountedInit == Init => Counted
<1> SUFFICES ASSUME Init PROVE Counted
  OBVIOUS
<1>1. \A n \in Nodes : slot[n].running = NoRun
  BY DEF Init, NoSlot
<1>2. Running = {} /\ agenda = <<>> /\ budget.reserved = 0 /\ orphans = 0
  BY <1>1 DEF Running, Init
<1>3. Cardinality(Rooms(agenda)) = 0
  BY <1>2, MembersOf, NoRooms
<1> QED BY <1>2, <1>3, FS_EmptySet, ConstantFacts DEF Counted

(* NodeScheduler::submit, finish, admit and forget, InFlightBudget: a room *)
(* is reserved for each run in flight, wanted still or not, and for each   *)
(* grant being served; none leaks and no more than the capacity is given.  *)
THEOREM RoomsAreExact == Spec => []RoomsExact
BY TypedInit, TypedStep, CountedInit, CountedStep, CountedIsExact, PTL DEF Spec

-----------------------------------------------------------------------------
(* The line: who is in it, and who moves it. *)

(* Who goes on with the line once it moves. *)
Movers == {"drain", "granting"}
Moving == budget.line # <<>> /\ Fits(budget) => (budget.posted \/ \E c \in Members(agenda) : c.call \in Movers)
Lined ==
  /\ Distinct(budget.line)
  /\ \A n \in Nodes : slot[n].wait = "room" <=> n \in Members(budget.line)
  /\ Moving

LEMMA AppendFacts ==
  ASSUME NEW T, NEW s \in Seq(T), NEW x \in T
  PROVE  /\ Append(s, x) \in Seq(T) /\ Append(s, x) # <<>>
         /\ Members(Append(s, x)) = Members(s) \cup {x}
         /\ Distinct(s) /\ x \notin Members(s) => Distinct(Append(s, x))
<1> DEFINE a == Append(s, x)
<1>1. a \in Seq(T) /\ Len(a) = Len(s) + 1 /\ Len(s) \in Nat /\ a[Len(s) + 1] = x /\ \A i \in 1 .. Len(s) : a[i] = s[i]
  OBVIOUS
<1>2. a # <<>>
  BY <1>1
<1> HIDE DEF a
<1>3. \A i \in 1 .. Len(a) : i \in 1 .. Len(s) \/ i = Len(s) + 1
  BY <1>1
<1>4. (\A i \in 1 .. Len(s) : i \in 1 .. Len(a)) /\ Len(s) + 1 \in 1 .. Len(a)
  BY <1>1
<1>5. Members(a) = Members(s) \cup {x}
  BY <1>1, <1>3, <1>4 DEF Members
<1>6. ASSUME Distinct(s), x \notin Members(s) PROVE Distinct(a)
  <2>1. \A i \in 1 .. Len(s) : s[i] # x
    BY <1>6 DEF Members
  <2> QED BY <1>1, <1>3, <1>6, <2>1 DEF Distinct
<1> QED BY <1>1, <1>2, <1>5, <1>6 DEF a

LEMMA TailFacts ==
  ASSUME NEW T, NEW s \in Seq(T), s # <<>>, Distinct(s)
  PROVE  Distinct(Tail(s)) /\ Members(Tail(s)) = Members(s) \ {Head(s)}
<1> DEFINE t == Tail(s)
<1>1. t \in Seq(T) /\ Len(s) \in Nat /\ Len(s) > 0 /\ Len(t) = Len(s) - 1 /\ Head(s) = s[1] /\ \A i \in 1 .. Len(t) : t[i] = s[i + 1]
  OBVIOUS
<1> HIDE DEF t
<1>2. \A i \in 1 .. Len(t) : i + 1 \in 1 .. Len(s) /\ i + 1 # 1
  BY <1>1
<1>3. \A j \in 1 .. Len(s) : j # 1 => j - 1 \in 1 .. Len(t) /\ (j - 1) + 1 = j
  BY <1>1
<1>4. 1 \in 1 .. Len(s)
  BY <1>1
<1>5. Distinct(t)
  <2>1. \A i, j \in 1 .. Len(t) : i + 1 = j + 1 => i = j
    BY <1>1
  <2> QED BY <1>1, <1>2, <2>1 DEF Distinct
<1>6. Members(t) = Members(s) \ {s[1]}
  <2>1. Members(t) \subseteq Members(s) \ {s[1]}
    BY <1>1, <1>2, <1>4 DEF Members, Distinct
  <2>2. ASSUME NEW y \in Members(s) \ {s[1]} PROVE y \in Members(t)
    <3>1. PICK j \in 1 .. Len(s) : y = s[j]
      BY DEF Members
    <3>2. j # 1
      BY <3>1
    <3>3. j - 1 \in 1 .. Len(t) /\ t[j - 1] = y
      BY <1>1, <1>3, <3>1, <3>2
    <3> QED BY <3>3 DEF Members
  <2> QED BY <2>1, <2>2
<1> QED BY <1>1, <1>5, <1>6 DEF t

LEMMA LineMoves ==
  ASSUME TypeOK, Lined, NEW n \in Nodes, NEW wait \in Waits
  PROVE  LET b == LineAfter(n, wait) IN
         /\ Distinct(b.line)
         /\ Members(b.line) = IF wait = "room" THEN Members(budget.line) \cup {n} ELSE Members(budget.line) \ {n}
         /\ b.line # <<>> /\ Fits(b) => (b.posted \/ \E c \in Members(agenda) : c.call \in Movers)
<1>1. budget \in Budgets /\ budget.line \in Seq(Nodes) /\ Distinct(budget.line) /\ (slot[n].wait = "room" <=> n \in Members(budget.line)) /\ Moving
  BY BudgetFields DEF TypeOK, Lined
<1>2. ASSUME NEW b \in Budgets
      PROVE  PostDrain(b).line # <<>> /\ Fits(PostDrain(b)) => (PostDrain(b).posted \/ \E c \in Members(agenda) : c.call \in Movers)
  <2>1. /\ PostDrain(b) \in Budgets /\ PostDrain(b).reserved = b.reserved /\ PostDrain(b).line = b.line
        /\ b.posted => PostDrain(b).posted
        /\ ~Draining /\ b.line # <<>> /\ Fits(b) => PostDrain(b).posted
    BY PostDrainFacts
  <2>2. Draining => \E c \in Members(agenda) : c.call \in Movers
    BY DEF Draining, Members, Movers
  <2> QED BY <2>1, <2>2 DEF Fits
<1>3. CASE (wait = "room") = (slot[n].wait = "room")
  <2>1. LineAfter(n, wait) = budget
    BY <1>3 DEF LineAfter
  <2> QED BY <1>1, <1>3, <2>1 DEF Moving
<1>4. CASE wait = "room" /\ slot[n].wait # "room"
  <2> DEFINE b == [budget EXCEPT !.line = Append(@, n)]
  <2>1. LineAfter(n, wait) = PostDrain(b)
    BY <1>4 DEF LineAfter
  <2>2. Append(budget.line, n) \in Seq(Nodes) /\ Members(Append(budget.line, n)) = Members(budget.line) \cup {n} /\ Distinct(Append(budget.line, n))
    BY <1>1, <1>4, AppendFacts
  <2>3. b \in Budgets /\ b.line = Append(budget.line, n)
    BY <1>1, <2>2 DEF Budgets
  <2> HIDE DEF b
  <2>4. PostDrain(b).line = b.line
    BY <2>3, PostDrainFacts
  <2> QED BY <1>2, <1>4, <2>1, <2>2, <2>3, <2>4
<1>5. CASE wait # "room" /\ slot[n].wait = "room"
  <2> DEFINE b == [budget EXCEPT !.line = Among(@, Nodes \ {n})]
             kept == Among(budget.line, Nodes \ {n})
  <2>1. LineAfter(n, wait) = PostDrain(b)
    BY <1>5 DEF LineAfter
  <2>2. kept \in Seq(Nodes) /\ Members(kept) = Members(budget.line) \cap (Nodes \ {n}) /\ Distinct(kept)
    BY <1>1, AmongFacts
  <2>3. b \in Budgets /\ b.line = kept
    BY <1>1, <2>2 DEF Budgets
  <2> HIDE DEF b, kept
  <2>4. PostDrain(b).line = b.line
    BY <2>3, PostDrainFacts
  <2>5. Members(budget.line) \subseteq Nodes
    BY <1>1 DEF Members
  <2> QED BY <1>2, <1>5, <2>1, <2>2, <2>3, <2>4, <2>5
<1> QED BY <1>3, <1>4, <1>5

MoversStay == \A c \in Members(agenda) : c.call \in Movers => \E d \in Members(agenda') : d.call \in Movers

LEMMA LinedSame ==
  ASSUME Lined, budget'.line = budget.line, budget'.reserved = budget.reserved,
         budget.posted => (budget'.posted \/ \E d \in Members(agenda') : d.call \in Movers),
         \A m \in Nodes : slot'[m].wait = slot[m].wait, MoversStay
  PROVE  Lined'
<1>1. Distinct(budget'.line)
  BY DEF Lined
<1>2. \A n \in Nodes : slot'[n].wait = "room" <=> n \in Members(budget'.line)
  BY DEF Lined
<1>3. Moving'
  BY DEF Lined, Moving, Fits, MoversStay
<1> QED BY <1>1, <1>2, <1>3 DEF Lined

LEMMA LinedAfter ==
  ASSUME TypeOK, Lined, NEW n \in Nodes, NEW wait \in Waits,
         budget'.line = LineAfter(n, wait).line, budget'.posted = LineAfter(n, wait).posted,
         Fits(budget') => Fits(LineAfter(n, wait)),
         slot'[n].wait = wait, \A m \in Nodes \ {n} : slot'[m].wait = slot[m].wait, MoversStay
  PROVE  Lined'
<1> DEFINE b == LineAfter(n, wait)
<1>1. /\ Distinct(b.line)
      /\ Members(b.line) = IF wait = "room" THEN Members(budget.line) \cup {n} ELSE Members(budget.line) \ {n}
      /\ b.line # <<>> /\ Fits(b) => (b.posted \/ \E c \in Members(agenda) : c.call \in Movers)
  BY LineMoves
<1> HIDE DEF b
<1>2. Distinct(budget'.line)
  BY <1>1 DEF b
<1>3. \A m \in Nodes : slot'[m].wait = "room" <=> m \in Members(budget'.line)
  <2>1. budget'.line = b.line
    BY DEF b
  <2>2. \A m \in Nodes : slot[m].wait = "room" <=> m \in Members(budget.line)
    BY DEF Lined
  <2> QED BY <1>1, <2>1, <2>2
<1>4. Fits(budget)' <=> Fits(budget')
  BY DEF Fits
<1>5. Moving'
  <2>1. budget'.line # <<>> /\ Fits(budget') => (budget'.posted \/ \E d \in Members(agenda') : d.call \in Movers)
    BY <1>1 DEF MoversStay, b
  <2> QED BY <1>4, <2>1 DEF Moving
<1> QED BY <1>2, <1>3, <1>5 DEF Lined

LEMMA LinedReturned ==
  ASSUME TypeOK, Lined, budget' = Returned, \A m \in Nodes : slot'[m].wait = slot[m].wait, MoversStay
  PROVE  Lined'
<1>1. /\ Returned.line = budget.line
      /\ budget.posted => Returned.posted
      /\ ~Draining /\ budget.line # <<>> /\ Fits(Returned) => Returned.posted
  BY ReturnedFacts
<1>2. Distinct(budget'.line)
  BY <1>1 DEF Lined
<1>3. \A n \in Nodes : slot'[n].wait = "room" <=> n \in Members(budget'.line)
  BY <1>1 DEF Lined
<1>4. Draining => \E c \in Members(agenda) : c.call \in Movers
  BY DEF Draining, Members, Movers
<1>5. Moving'
  <2>1. Fits(budget)' <=> Fits(budget')
    BY DEF Fits
  <2>2. budget'.line # <<>> /\ Fits(budget') => (budget'.posted \/ \E d \in Members(agenda') : d.call \in Movers)
    BY <1>1, <1>4 DEF MoversStay
  <2> QED BY <2>1, <2>2 DEF Moving
<1> QED BY <1>2, <1>3, <1>5 DEF Lined

LEMMA MoversInRest ==
  ASSUME Members(agenda) = {Head(agenda)} \cup Rest, Rest \subseteq Members(agenda'), Head(agenda).call \notin Movers
  PROVE  MoversStay
BY DEF MoversStay

LEMMA MoversIdle == (TypeOK /\ Idle) => MoversStay
BY RestFacts DEF MoversStay

LEMMA LinedServe == Typed /\ ServeStep /\ Lined => Lined'
<1> SUFFICES ASSUME Typed, ServeStep, Lined PROVE Lined'
  OBVIOUS
<1>1. Calls("serve") /\ Callee \in Nodes /\ (ServeWithdrawn \/ ServeRun \/ Concludes)
  BY ServeShape
<1>2. TypeOK /\ ~Idle /\ Head(agenda).call \notin Movers
  BY <1>1 DEF Typed, Calls, Movers
<1>3. CASE ServeWithdrawn
  <2>1. /\ Members(agenda) = {Head(agenda)} \cup Rest /\ Members(agenda') = Members(Unused) \cup Rest
        /\ UNCHANGED <<slot, budget>>
    BY <1>3, WithdrawnFacts
  <2>2. MoversStay
    BY <1>2, <2>1, MoversInRest
  <2> QED BY <2>1, <2>2, LinedSame
<1>4. CASE Concludes
  <2>1. PICK wait \in Waits, status \in Statuses \ {"idle"}, h \in Histories : Conclude(Callee, wait, status, h, Unused)
    BY <1>4 DEF Concludes
  <2>2. status \in Statuses /\ Unused \in Seq(Chores)
    BY <1>1, <1>2, UnusedFacts
  <2>3. /\ \A m \in Nodes \ {Callee} : slot'[m] = slot[m]
        /\ slot'[Callee].wait = wait
        /\ budget' = LineAfter(Callee, wait)
    BY <1>1, <1>2, <2>1, <2>2, ConcludeFacts
  <2>4. Members(agenda) = {Head(agenda)} \cup Rest /\ Rest \subseteq Members(agenda')
    BY <1>1, <1>2, <2>1, <2>2, ConcludeMembers
  <2>5. MoversStay
    BY <1>2, <2>4, MoversInRest
  <2>6. Fits(budget') => Fits(LineAfter(Callee, wait))
    BY <2>3
  <2> QED BY <1>1, <1>2, <2>3, <2>5, <2>6, LinedAfter
<1>5. CASE ServeRun
  <2> DEFINE n == Callee
  <2>1. /\ Members(agenda) = {Head(agenda)} \cup Rest /\ Members(agenda') = Rest
        /\ \A m \in Nodes \ {n} : slot'[m] = slot[m]
        /\ slot'[n].wait = "none"
        /\ budget' = [LineAfter(n, "none") EXCEPT !.reserved = IF Room THEN @ ELSE @ + 1]
    BY <1>5, RunFacts
  <2>2. "none" \in Waits
    BY DEF Waits
  <2> DEFINE b == LineAfter(n, "none")
  <2>3. b \in Budgets
    BY <1>1, <1>2, <2>2, LineAfterFacts
  <2>4. budget' = [b EXCEPT !.reserved = IF Room THEN @ ELSE @ + 1]
    BY <2>1
  <2> HIDE DEF b
  <2>5. budget'.line = b.line /\ budget'.posted = b.posted /\ budget'.reserved \in {b.reserved, b.reserved + 1} /\ b.reserved \in Int
    BY <2>3, <2>4 DEF Budgets
  <2>6. Fits(budget') => Fits(b)
    <3>1. budget'.reserved < Capacity => b.reserved < Capacity
      BY <2>5, ConstantFacts
    <3> QED BY <3>1 DEF Fits
  <2>7. MoversStay
    BY <1>2, <2>1, MoversInRest
  <2> QED BY <1>1, <1>2, <2>1, <2>2, <2>5, <2>6, <2>7, LinedAfter DEF b
<1> QED BY <1>1, <1>3, <1>4, <1>5

LEMMA LinedCalls == Typed /\ Lined /\ (\/ RequestAt \/ BindNext \/ RegisterReader \/ ServeOneReader \/ Settle \/ SupersedeNode
                                       \/ WithdrawNode) => Lined'
<1>0. Typed => TypeOK
  BY DEF Typed
<1>1. ASSUME Lined, Members(agenda) = {Head(agenda)} \cup Rest, Rest \subseteq Members(agenda'), Head(agenda).call \notin Movers,
             \A m \in Nodes : slot'[m].wait = slot[m].wait, budget' = budget
      PROVE  Lined'
  <2>1. MoversStay
    BY <1>1, MoversInRest
  <2> QED BY <1>1, <2>1, LinedSame
<1>2. \A call \in {"request", "bind", "register", "reader", "settle", "supersede", "withdraw"} : Calls(call) => Head(agenda).call \notin Movers
  BY DEF Calls, Movers
<1>3. ASSUME Typed, Lined, RequestAt PROVE Lined'
  <2> DEFINE n == Callee
  <2>1. /\ Calls("request") /\ n \in Nodes /\ Members(agenda) = {Head(agenda)} \cup Rest
        /\ \/ slot' = slot /\ Members(agenda') = Rest
           \/ /\ Members(agenda') = {Bind(n, 1)} \cup Rest
              /\ \A m \in Nodes \ {n} : slot'[m] = slot[m]
              /\ slot'[n].wait = slot[n].wait
        /\ budget' = budget
    BY <1>3, RequestFacts
  <2> HIDE DEF n
  <2>2. Rest \subseteq Members(agenda') /\ \A m \in Nodes : slot'[m].wait = slot[m].wait
    BY <2>1
  <2> QED BY <1>1, <1>2, <1>3, <2>1, <2>2
<1>4. ASSUME Typed, Lined, BindNext PROVE Lined'
  <2> DEFINE n == Callee
             i == Head(agenda).input
             u == Reads[n][i]
  <2>1. /\ Calls("bind") /\ Members(agenda) = {Head(agenda)} \cup Rest
        /\ \/ Members(agenda') = {Serve(n, "request", FALSE)} \cup Rest
           \/ Members(agenda') = {Request(u, slot[n].cursor), Register(u, n), Bind(n, i + 1)} \cup Rest
        /\ UNCHANGED <<budget, slot>>
    BY <1>4, BindFacts
  <2>2. Rest \subseteq Members(agenda')
    BY <2>1
  <2> QED BY <1>1, <1>2, <1>4, <2>1, <2>2
<1>5. ASSUME Typed, Lined, RegisterReader PROVE Lined'
  <2> DEFINE u == Callee
  <2>1. /\ Calls("register") /\ u \in Nodes /\ Members(agenda) = {Head(agenda)} \cup Rest /\ Members(agenda') = Rest
        /\ \A m \in Nodes \ {u} : slot'[m] = slot[m]
        /\ slot'[u].wait = slot[u].wait /\ budget' = budget
    BY <1>5, RegisterFacts
  <2> HIDE DEF u
  <2>2. \A m \in Nodes : slot'[m].wait = slot[m].wait
    BY <2>1
  <2> QED BY <1>1, <1>2, <1>5, <2>1, <2>2
<1>6. ASSUME Typed, Lined, ServeOneReader PROVE Lined'
  <2>1. /\ Calls("reader") /\ Members(agenda) = {Head(agenda)} \cup Rest /\ Rest \subseteq Members(agenda')
        /\ UNCHANGED <<budget, slot>>
    BY <1>6, OneReaderFacts
  <2> QED BY <1>1, <1>2, <1>6, <2>1
<1>7. ASSUME Typed, Lined, Settle PROVE Lined'
  <2> DEFINE n == Callee
             h == TombstonesSuperseded(Callee, history[Callee], Head(agenda).stamp)
  <2>1. Calls("settle") /\ ~Idle /\ n \in Nodes /\ h \in Histories /\ Conclude(n, "none", "ready", h, <<>>)
    BY <1>7, SettleFacts
  <2>2. "none" \in Waits /\ "ready" \in Statuses /\ <<>> \in Seq(Chores)
    BY DEF Waits, Statuses
  <2> HIDE DEF n, h
  <2>3. /\ \A m \in Nodes \ {n} : slot'[m] = slot[m]
        /\ slot'[n].wait = "none" /\ budget' = LineAfter(n, "none")
    BY <1>0, <1>7, <2>1, <2>2, ConcludeFacts
  <2>4. Members(agenda) = {Head(agenda)} \cup Rest /\ Rest \subseteq Members(agenda')
    BY <1>0, <1>7, <2>1, <2>2, ConcludeMembers
  <2>5. MoversStay
    BY <1>2, <2>1, <2>4, MoversInRest
  <2> QED BY <1>0, <1>7, <2>1, <2>2, <2>3, <2>5, LinedAfter
<1>8. ASSUME Typed, Lined, SupersedeNode PROVE Lined'
  <2> DEFINE n == Callee
  <2>1. /\ Calls("supersede") /\ n \in Nodes /\ Members(agenda) = {Head(agenda)} \cup Rest /\ Rest \subseteq Members(agenda')
        /\ \A m \in Nodes \ {n} : slot'[m] = slot[m]
        /\ slot'[n].wait = slot[n].wait /\ budget' = budget
    BY <1>8, SupersedeFacts
  <2> HIDE DEF n
  <2>2. \A m \in Nodes : slot'[m].wait = slot[m].wait
    BY <2>1
  <2> QED BY <1>1, <1>2, <1>8, <2>1, <2>2
<1>9. ASSUME Typed, Lined, WithdrawNode PROVE Lined'
  <2> DEFINE n == Callee
  <2>1. /\ Calls("withdraw") /\ n \in Nodes /\ Members(agenda) = {Head(agenda)} \cup Rest /\ Rest \subseteq Members(agenda')
        /\ \/ UNCHANGED <<slot, budget>>
           \/ /\ budget' = LineAfter(n, "none")
              /\ \A m \in Nodes \ {n} : slot'[m] = slot[m]
              /\ slot'[n].wait = "none"
    BY <1>9, WithdrawFacts
  <2> HIDE DEF n
  <2>2. "none" \in Waits
    BY DEF Waits
  <2>3. CASE UNCHANGED <<slot, budget>>
    BY <1>1, <1>2, <1>9, <2>1, <2>3
  <2>4. CASE ~UNCHANGED <<slot, budget>>
    <3>1. MoversStay
      BY <1>2, <2>1, MoversInRest
    <3> QED BY <1>0, <1>9, <2>1, <2>2, <2>4, <3>1, LinedAfter
  <2> QED BY <2>3, <2>4
<1> QED BY <1>3, <1>4, <1>5, <1>6, <1>7, <1>8, <1>9

LEMMA LinedDrain == Typed /\ Lined /\ (ReturnRoom \/ DrainBegins \/ PostedDrain) => Lined'
<1>0. Typed => TypeOK
  BY DEF Typed
<1>1. ASSUME Typed, Lined, ReturnRoom PROVE Lined'
  <2>1. /\ Calls("giveBack") /\ Members(agenda) = {Head(agenda)} \cup Rest /\ Members(agenda') = Rest /\ budget' = Returned
        /\ UNCHANGED slot
    BY <1>1, ReturnFacts
  <2>2. MoversStay
    BY <2>1, MoversInRest DEF Calls, Movers
  <2> QED BY <1>0, <1>1, <2>1, <2>2, LinedReturned
<1>2. ASSUME Typed, Lined, DrainBegins PROVE Lined'
  <2>1. Members(agenda') = {Granting} \cup Rest /\ UNCHANGED <<slot, budget>>
    BY <1>2, DrainFacts
  <2>2. Granting \in Members(agenda') /\ Granting.call \in Movers
    BY <2>1 DEF Granting, Movers
  <2>3. MoversStay
    BY <2>2 DEF MoversStay
  <2> QED BY <1>2, <2>1, <2>3, LinedSame
<1>3. ASSUME Typed, Lined, PostedDrain PROVE Lined'
  <2>1. Members(agenda') = {Drain} /\ budget'.line = budget.line /\ budget'.reserved = budget.reserved /\ UNCHANGED slot
    BY <1>3, PostedFacts
  <2>2. Drain \in Members(agenda') /\ Drain.call \in Movers
    BY <2>1 DEF Drain, Movers
  <2>3. MoversStay
    BY <2>2 DEF MoversStay
  <2> QED BY <1>3, <2>1, <2>2, <2>3, LinedSame
<1> QED BY <1>1, <1>2, <1>3

LEMMA LinedGrant == Typed /\ Lined /\ Grant => Lined'
<1> SUFFICES ASSUME Typed, Lined, Grant PROVE Lined'
  OBVIOUS
<1> DEFINE n == Head(budget.line)
           calls == {Serve(n, "retry", TRUE), Granting}
<1>1. /\ Calls("granting") /\ Members(agenda) = {Head(agenda)} \cup Rest
      /\ \/ /\ ~(budget.line # <<>> /\ Fits(budget)) /\ UNCHANGED <<budget, slot>>
         \/ /\ budget.line # <<>> /\ n \in Nodes
            /\ budget'.line = Tail(budget.line)
            /\ \A m \in Nodes \ {n} : slot'[m] = slot[m]
            /\ slot'[n].wait = "none"
            /\ Members(agenda') = calls \cup Rest
  BY GrantFacts
<1>2. TypeOK /\ budget.line \in Seq(Nodes)
  BY BudgetFields DEF Typed, TypeOK
<1>3. CASE ~(budget.line # <<>> /\ Fits(budget)) /\ UNCHANGED <<budget, slot>>
  BY <1>3 DEF Lined, Moving, Fits
<1>4. CASE ~(~(budget.line # <<>> /\ Fits(budget)) /\ UNCHANGED <<budget, slot>>)
  <2>1. /\ budget.line # <<>> /\ n \in Nodes
        /\ budget'.line = Tail(budget.line)
        /\ \A m \in Nodes \ {n} : slot'[m] = slot[m]
        /\ slot'[n].wait = "none"
        /\ Members(agenda') = calls \cup Rest
    BY <1>1, <1>4
  <2>2. Granting \in Members(agenda') /\ Granting.call \in Movers
    BY <2>1 DEF Granting, Movers
  <2> HIDE DEF calls
  <2>3. Distinct(budget'.line) /\ Members(budget'.line) = Members(budget.line) \ {n}
    BY <1>2, <2>1, TailFacts DEF Lined
  <2> HIDE DEF n
  <2>4. \A m \in Nodes : slot'[m].wait = "room" <=> m \in Members(budget'.line)
    BY <2>1, <2>3 DEF Lined
  <2>5. Moving'
    BY <2>2 DEF Moving
  <2> QED BY <2>3, <2>4, <2>5 DEF Lined
<1> QED BY <1>3, <1>4

LEMMA LinedFinish == Typed /\ Lined /\ Finish => Lined'
<1>0. Typed => TypeOK
  BY DEF Typed
<1>1. ASSUME Typed, Lined, FinishOrphan PROVE Lined'
  <2>1. Idle /\ budget' = Returned /\ UNCHANGED slot
    BY <1>1, OrphanFacts
  <2> QED BY <1>0, <1>1, <2>1, LinedReturned, MoversIdle
<1>2. ASSUME Typed, Lined, NEW n \in Nodes, FinishDropped(n) PROVE Lined'
  <2>1. /\ Idle /\ budget' = Returned /\ \A m \in Nodes \ {n} : slot'[m] = slot[m]
        /\ slot'[n].wait = slot[n].wait
    BY <1>2, DroppedRunFacts
  <2> QED BY <1>0, <1>2, <2>1, LinedReturned, MoversIdle
<1>3. ASSUME Typed, Lined, NEW n \in Nodes, NEW outcome, FinishRun(n, outcome) PROVE Lined'
  <2>1. /\ Idle /\ budget' = Returned /\ \A m \in Nodes \ {n} : slot'[m] = slot[m]
        /\ slot'[n].wait = slot[n].wait
    BY <1>3, FinishFacts
  <2> QED BY <1>0, <1>3, <2>1, LinedReturned, MoversIdle
<1> QED BY <1>1, <1>2, <1>3 DEF Finish

LEMMA LinedEnvironment == Typed /\ Lined /\ Environment => Lined'
<1>0. Typed => TypeOK
  BY DEF Typed
<1>1. ASSUME Typed, Lined, NEW n \in Nodes, Remove(n) PROVE Lined'
  <2>1. /\ Idle /\ slot'[n] = NoSlot /\ \A m \in Nodes \ {n} : slot'[m] = slot[m]
        /\ budget' = LineAfter(n, "none")
    BY <1>1, RemoveFacts
  <2>2. "none" \in Waits /\ slot'[n].wait = "none"
    BY <2>1 DEF Waits, NoSlot
  <2>3. Fits(budget') => Fits(LineAfter(n, "none"))
    BY <2>1
  <2> QED BY <1>0, <1>1, <2>1, <2>2, <2>3, LinedAfter, MoversIdle
<1>2. ASSUME Typed, Lined, Idle, budget' = budget, \A m \in Nodes : slot'[m].wait = slot[m].wait PROVE Lined'
  BY <1>0, <1>2, MoversIdle, LinedSame
<1>3. ASSUME Typed, Lined, NEW n \in Nodes, Install(n) PROVE Lined'
  BY <1>2, <1>3, InstallFacts
<1>4. ASSUME Typed, Lined, NEW n \in Nodes, WithdrawEvent(n) PROVE Lined'
  BY <1>2, <1>4, WithdrawEventFacts
<1>5. ASSUME Typed, Lined, NEW n \in Nodes, NEW t \in Times, RequestEvent(n, t) PROVE Lined'
  BY <1>2, <1>5, RequestEventFacts
<1>6. ASSUME Typed, Lined, Suspend PROVE Lined'
  BY <1>2, <1>6, SuspendFacts
<1>7. ASSUME Typed, Lined, Replace \/ Arrive \/ Retire PROVE Lined'
  BY <1>2, <1>7, ReplaceFacts, ArriveFacts, RetireFacts
<1>8. ASSUME Typed, Lined, Resume PROVE Lined'
  BY <1>2, <1>8, ResumeFacts
<1> QED BY <1>1, <1>3, <1>4, <1>5, <1>6, <1>7, <1>8 DEF Environment

LEMMA LinedStep == Typed /\ Lined /\ [Next]_vars => Lined'
<1>1. Typed /\ Lined /\ CallStep => Lined'
  BY LinedServe, LinedCalls, LinedDrain, LinedGrant DEF CallStep
<1>2. Lined /\ UNCHANGED vars => Lined'
  BY DEF Lined, vars, Moving, Fits
<1> QED BY <1>1, <1>2, LinedDrain, LinedFinish, LinedEnvironment DEF Next

LEMMA LinedInit == Init => Lined
<1> SUFFICES ASSUME Init PROVE Lined
  OBVIOUS
<1>1. budget.line = <<>> /\ \A n \in Nodes : slot[n].wait # "room"
  BY DEF Init, NoSlot
<1>2. Members(budget.line) = {} /\ Distinct(budget.line)
  BY <1>1, MembersOf DEF Distinct
<1> QED BY <1>1, <1>2 DEF Lined, Moving

-----------------------------------------------------------------------------
(* The readers: a requested node's upstreams know it, or are about to. *)

To(call, n) == \E c \in Members(agenda) : c.call = call /\ c.node = n

(* What will make n a reader of u. *)
Unbound(n, u) ==
  \/ To("supersede", n) \/ To("request", n)
  \/ \E c \in Members(agenda) : c.call = "register" /\ c.node = u /\ c.reader = n
  \/ \E c \in Members(agenda) : c.call = "bind" /\ c.node = n /\ \E j \in c.input .. Len(Reads[n]) : Reads[n][j] = u

Bound == \A n \in Nodes : \A u \in UpstreamsOf(n) : slot[n].requested /\ revision[u] > 0 => Reader(u, n) \/ Unbound(n, u)

(* A registration is of a reader's upstream, and its next input comes next. *)
Paired(seq) ==
  \A i \in 1 .. Len(seq) : seq[i].call = "register" =>
    /\ seq[i].node \in UpstreamsOf(seq[i].reader)
    /\ i + 1 \in 1 .. Len(seq) /\ seq[i + 1].call = "bind" /\ seq[i + 1].node = seq[i].reader

(* A node that takes a reader has a slot, or is requested just before. *)
HasSlot(u) == revision[u] = 0 \/ slot[u].cursor # NoTime
Asked ==
  \A i \in 1 .. Len(agenda) : agenda[i].call = "register" =>
    \/ HasSlot(agenda[i].node)
    \/ i # 1 /\ agenda[i - 1].call = "request" /\ agenda[i - 1].node = agenda[i].node

Downstream == \A u \in Nodes : \A n \in Members(slot[u].readers) : n \in Nodes /\ u \in UpstreamsOf(n)

Registered == Bound /\ Paired(agenda) /\ Asked /\ Downstream

LEMMA PairedThen ==
  ASSUME agenda \in Seq(Chores), ~Idle, NEW calls \in Seq(Chores), Then(calls), Paired(calls), Paired(agenda)
  PROVE  Paired(agenda')
<1> DEFINE k == Len(calls)
<1>1. /\ k \in Nat /\ Len(agenda) \in Nat /\ Len(agenda) > 0
      /\ Len(agenda') = k + Len(agenda) - 1
      /\ \A i \in 1 .. k : agenda'[i] = calls[i]
      /\ \A i \in 1 .. Len(agenda') : i > k => i - k + 1 \in 2 .. Len(agenda) /\ agenda'[i] = agenda[i - k + 1]
  BY ThenFacts
<1> SUFFICES ASSUME NEW i \in 1 .. Len(agenda'), agenda'[i].call = "register"
             PROVE  /\ agenda'[i].node \in UpstreamsOf(agenda'[i].reader)
                    /\ i + 1 \in 1 .. Len(agenda') /\ agenda'[i + 1].call = "bind" /\ agenda'[i + 1].node = agenda'[i].reader
  BY DEF Paired
<1> HIDE DEF k
<1>2. CASE i \in 1 .. k
  <2>1. agenda'[i] = calls[i] /\ i \in 1 .. Len(calls)
    BY <1>1, <1>2 DEF k
  <2>2. /\ calls[i].node \in UpstreamsOf(calls[i].reader)
        /\ i + 1 \in 1 .. Len(calls) /\ calls[i + 1].call = "bind" /\ calls[i + 1].node = calls[i].reader
    BY <2>1 DEF Paired
  <2>3. i + 1 \in 1 .. k
    BY <2>2 DEF k
  <2>4. i + 1 \in 1 .. Len(agenda') /\ agenda'[i + 1] = calls[i + 1]
    BY <1>1, <2>3
  <2> QED BY <2>1, <2>2, <2>4
<1>3. CASE i \notin 1 .. k
  <2> DEFINE j == i - k + 1
  <2>1. i > k
    BY <1>1, <1>3
  <2>2. j \in 2 .. Len(agenda) /\ agenda'[i] = agenda[j]
    BY <1>1, <2>1
  <2>3. j \in 1 .. Len(agenda)
    BY <1>1, <2>2
  <2>4. /\ agenda[j].node \in UpstreamsOf(agenda[j].reader)
        /\ j + 1 \in 1 .. Len(agenda) /\ agenda[j + 1].call = "bind" /\ agenda[j + 1].node = agenda[j].reader
    <3> HIDE DEF j
    <3> QED BY <2>2, <2>3 DEF Paired
  <2>5. i + 1 \in 1 .. Len(agenda') /\ i + 1 > k /\ (i + 1) - k + 1 = j + 1
    BY <1>1, <2>1, <2>4
  <2>6. agenda'[i + 1] = agenda[j + 1]
    BY <1>1, <2>5
  <2> QED BY <2>2, <2>4, <2>5, <2>6
<1> QED BY <1>2, <1>3

(* Once the head is dealt with, a registration that came next is ready. *)
LEMMA AskedThen ==
  ASSUME agenda \in Seq(Chores), ~Idle, NEW calls \in Seq(Chores), Then(calls), Asked,
         \A i \in 1 .. Len(calls) : calls[i].call = "register" =>
           \/ HasSlot(calls[i].node)'
           \/ i # 1 /\ calls[i - 1].call = "request" /\ calls[i - 1].node = calls[i].node,
         \A c \in Members(agenda) : c.call = "register" => (HasSlot(c.node) => HasSlot(c.node)'),
         \A c \in Members(agenda) : /\ c.call = "register" /\ Head(agenda).call = "request" /\ Head(agenda).node = c.node
                                    => HasSlot(c.node)'
  PROVE  Asked'
<1> DEFINE k == Len(calls)
<1>1. /\ k \in Nat /\ Len(agenda) \in Nat /\ Len(agenda) > 0 /\ Head(agenda) = agenda[1]
      /\ Len(agenda') = k + Len(agenda) - 1
      /\ \A i \in 1 .. k : agenda'[i] = calls[i]
      /\ \A i \in 1 .. Len(agenda') : i > k => i - k + 1 \in 2 .. Len(agenda) /\ agenda'[i] = agenda[i - k + 1]
  BY ThenFacts
<1> SUFFICES ASSUME NEW i \in 1 .. Len(agenda'), agenda'[i].call = "register", NEW u, u = agenda'[i].node, ~HasSlot(u)'
             PROVE  i # 1 /\ agenda'[i - 1].call = "request" /\ agenda'[i - 1].node = u
  BY DEF Asked, HasSlot
<1> HIDE DEF k
<1>2. CASE i \in 1 .. k
  <2>1. agenda'[i] = calls[i] /\ i \in 1 .. Len(calls)
    BY <1>1, <1>2 DEF k
  <2>2. calls[i].node = u /\ calls[i].call = "register"
    BY <2>1
  <2>3. i # 1 /\ calls[i - 1].call = "request" /\ calls[i - 1].node = u
    BY <2>1, <2>2
  <2>4. agenda'[i - 1] = calls[i - 1]
    BY <1>1, <1>2, <2>3
  <2> QED BY <2>1, <2>3, <2>4
<1>3. CASE i \notin 1 .. k
  <2> DEFINE j == i - k + 1
  <2>1. i > k /\ i \in Int
    BY <1>1, <1>3
  <2>2. j \in 2 .. Len(agenda) /\ agenda'[i] = agenda[j]
    BY <1>1, <2>1
  <2>3. j \in 1 .. Len(agenda) /\ j # 1
    BY <1>1, <2>2
  <2>4. agenda[j] \in Members(agenda)
    BY <2>3 DEF Members
  <2>5. agenda[j].node = u /\ agenda[j].call = "register" /\ ~HasSlot(u)
    <3>1. agenda[j].node = u /\ agenda[j].call = "register"
      BY <2>2
    <3> HIDE DEF j
    <3> QED BY <2>4, <3>1
  <2>6. agenda[j - 1].call = "request" /\ agenda[j - 1].node = u
    <3> HIDE DEF j
    <3> QED BY <2>3, <2>5 DEF Asked
  <2>7. j # 2
    <3> HIDE DEF j
    <3>1. ASSUME j = 2 PROVE FALSE
      <4>1. agenda[j - 1] = Head(agenda)
        BY <1>1, <3>1
      <4> QED BY <2>2, <2>4, <2>5, <2>6, <4>1
    <3> QED BY <3>1
  <2>8. i - 1 \in 1 .. Len(agenda') /\ i - 1 > k /\ (i - 1) - k + 1 = j - 1
    BY <1>1, <2>1, <2>2, <2>7
  <2>9. agenda'[i - 1] = agenda[j - 1]
    BY <1>1, <2>8
  <2> QED BY <1>1, <2>1, <2>2, <2>6, <2>8, <2>9
<1> QED BY <1>2, <1>3

(* The calls that say n will read its upstreams. *)
Binding(c, n) ==
  \/ c.call \in {"supersede", "request", "bind"} /\ c.node = n
  \/ c.call = "register" /\ c.reader = n

LEMMA BoundKept ==
  ASSUME Bound, UNCHANGED graph,
         \A m \in Nodes : Members(slot[m].readers) \subseteq Members(slot'[m].readers),
         \A n \in Nodes : \/ ~slot'[n].requested
                          \/ slot[n].requested /\ \A c \in Members(agenda) : Binding(c, n) => c \in Members(agenda')
                          \/ \A u \in UpstreamsOf(n) : revision[u] > 0 => Reader(u, n)' \/ Unbound(n, u)'
  PROVE  Bound'
<1>1. revision' = revision
  BY DEF revision
<1>2. ASSUME NEW n \in Nodes, NEW u \in UpstreamsOf(n), slot'[n].requested, revision'[u] > 0
      PROVE  Reader(u, n)' \/ Unbound(n, u)'
  <2>1. CASE slot[n].requested /\ \A c \in Members(agenda) : Binding(c, n) => c \in Members(agenda')
    <3>1. Reader(u, n) \/ Unbound(n, u)
      BY <1>1, <1>2, <2>1 DEF Bound
    <3>2. CASE Reader(u, n)
      <4>1. u \in Nodes
        BY <1>2, UpstreamNodes
      <4> QED BY <3>2, <4>1 DEF Reader
    <3>3. CASE Unbound(n, u)
      <4>1. PICK c \in Members(agenda) :
              \/ c.call = "supersede" /\ c.node = n
              \/ c.call = "request" /\ c.node = n
              \/ c.call = "register" /\ c.node = u /\ c.reader = n
              \/ c.call = "bind" /\ c.node = n /\ \E j \in c.input .. Len(Reads[n]) : Reads[n][j] = u
        BY <3>3 DEF Unbound, To
      <4>2. c \in Members(agenda')
        BY <2>1, <4>1 DEF Binding
      <4> QED BY <4>1, <4>2 DEF Unbound, To
    <3> QED BY <3>1, <3>2, <3>3
  <2>2. CASE \A v \in UpstreamsOf(n) : revision[v] > 0 => Reader(v, n)' \/ Unbound(n, v)'
    BY <1>1, <1>2, <2>2
  <2> QED BY <1>2, <2>1, <2>2
<1> QED BY <1>2 DEF Bound

(* A step that makes no registration, and binds nothing, for the head. *)
LEMMA RegisteredKept ==
  ASSUME TypeOK, ~Idle, Registered, NEW calls \in Seq(Chores), Then(calls), \A c \in Members(calls) : c.call # "register",
         Head(agenda).call \notin {"supersede", "request", "register", "bind"}, UNCHANGED graph,
         \A m \in Nodes : slot'[m].requested => slot[m].requested,
         \A m \in Nodes : slot'[m].cursor = slot[m].cursor /\ slot'[m].readers = slot[m].readers
  PROVE  Registered'
<1>1. Members(agenda) = {Head(agenda)} \cup Rest /\ Members(agenda') = Members(calls) \cup Rest /\ agenda \in Seq(Chores)
  BY ThenMembers DEF TypeOK
<1>2. revision' = revision
  BY DEF revision
<1>3. \A i \in 1 .. Len(calls) : calls[i].call # "register"
  BY DEF Members
<1>4. Bound'
  <2>1. \A n : \A c \in Members(agenda) : Binding(c, n) => c \in Members(agenda')
    BY <1>1 DEF Binding
  <2> QED BY <2>1, BoundKept DEF Registered
<1>5. Paired(agenda)'
  <2>1. Paired(calls)
    BY <1>3 DEF Paired
  <2> QED BY <1>1, <2>1, PairedThen DEF Registered
<1>6. Asked'
  <2>1. \A c \in Members(agenda) : c.call = "register" => c.node \in Nodes
    BY RestFacts, ChoreFacts DEF NodeCalls
  <2>2. \A c \in Members(agenda) : c.call = "register" => (HasSlot(c.node) => HasSlot(c.node)')
    BY <1>2, <2>1 DEF HasSlot
  <2> QED BY <1>1, <1>3, <2>2, AskedThen DEF Registered
<1>7. Downstream'
  BY DEF Registered, Downstream
<1> QED BY <1>4, <1>5, <1>6, <1>7 DEF Registered

LEMMA NoRegister ==
  ASSUME NEW seq, \A c \in Members(seq) : c.call # "register"
  PROVE  Paired(seq)
BY DEF Paired, Members

(* A step between two events. *)
LEMMA RegisteredIdle ==
  ASSUME Idle, Registered, \A c \in Members(agenda') : c.call # "register",
         UNCHANGED graph,
         \A m \in Nodes : slot'[m].requested => slot[m].requested,
         \A m \in Nodes : slot'[m].readers = slot[m].readers
  PROVE  Registered'
<1>1. Members(agenda) = {}
  BY MembersOf DEF Idle
<1>2. Bound'
  BY <1>1, BoundKept DEF Registered
<1>3. Paired(agenda)' /\ Asked'
  BY NoRegister DEF Paired, Asked, Members
<1>4. Downstream'
  BY DEF Registered, Downstream
<1> QED BY <1>2, <1>3, <1>4 DEF Registered

-----------------------------------------------------------------------------
LEMMA RegisteredConclude ==
  ASSUME TypeOK, ~Idle, Registered, NEW n \in Nodes, NEW wait \in Waits, NEW status \in Statuses, NEW h \in Histories, NEW rest \in Seq(Chores),
         Conclude(n, wait, status, h, rest), \A c \in Members(rest) : c.call # "register", Head(agenda).call \in {"serve", "settle"}
  PROVE  Registered'
<1> DEFINE calls == (IF status = "pending" THEN <<>> ELSE ServeReaders(n, TRUE)) \o rest
<1>1. /\ \A m \in Nodes \ {n} : slot'[m] = slot[m]
      /\ slot'[n].requested = slot[n].requested /\ slot'[n].cursor = slot[n].cursor /\ slot'[n].readers = slot[n].readers
      /\ calls \in Seq(Chores) /\ Then(calls) /\ UNCHANGED graph
  BY ConcludeFacts
<1>2. /\ Members(agenda') = (IF status = "pending" THEN {} ELSE {ServeReader(m, TRUE) : m \in Members(slot[n].readers)})
                               \cup Members(rest) \cup Rest
  BY ConcludeMembers
<1>3. \A c \in Members(calls) : c.call # "register"
  <2> DEFINE told == IF status = "pending" THEN <<>> ELSE ServeReaders(n, TRUE)
  <2>1. TRUE \in BOOLEAN /\ Members(<<>>) = {} /\ <<>> \in Seq(Chores)
    BY MembersOf
  <2>2. /\ ServeReaders(n, TRUE) \in Seq(Chores)
        /\ Members(ServeReaders(n, TRUE)) = {ServeReader(m, TRUE) : m \in Members(slot[n].readers)}
    BY <2>1, ReadersCalled, Zenon
  <2>3. told \in Seq(Chores) /\ \A c \in Members(told) : c.call # "register"
    <3>1. \A c \in Members(ServeReaders(n, TRUE)) : c.call # "register"
      <4>1. \A c \in {ServeReader(m, TRUE) : m \in Members(slot[n].readers)} : c.call # "register"
        BY DEF ServeReader
      <4> QED BY <2>2, <4>1, Zenon
    <3>2. CASE status = "pending"
      <4>1. told = <<>>
        BY <3>2
      <4> QED BY <2>1, <4>1
    <3>3. CASE status # "pending"
      <4>1. told = ServeReaders(n, TRUE)
        BY <3>3
      <4> QED BY <2>2, <3>1, <4>1, Zenon
    <3> QED BY <3>2, <3>3
  <2> HIDE DEF told
  <2>4. Members(told \o rest) = Members(told) \cup Members(rest)
    BY <2>3, ConcatFacts
  <2> QED BY <2>3, <2>4 DEF told
<1> HIDE DEF calls
<1>4. \A m \in Nodes : slot'[m].requested => slot[m].requested
  BY <1>1
<1>5. \A m \in Nodes : slot'[m].cursor = slot[m].cursor /\ slot'[m].readers = slot[m].readers
  BY <1>1
<1> QED BY <1>1, <1>3, <1>4, <1>5, RegisteredKept

LEMMA RegisteredServe == Typed /\ ServeStep /\ Registered => Registered'
<1> SUFFICES ASSUME Typed, ServeStep, Registered PROVE Registered'
  OBVIOUS
<1>1. Calls("serve") /\ Callee \in Nodes /\ (ServeWithdrawn \/ ServeRun \/ Concludes)
  BY ServeShape
<1>2. TypeOK /\ ~Idle /\ Head(agenda).call = "serve"
  BY <1>1 DEF Typed, Calls
<1>3. Unused \in Seq(Chores) /\ \A c \in Members(Unused) : c.call # "register"
  BY <1>1, <1>2, UnusedFacts, UnusedMembers DEF GiveBack
<1>4. CASE ServeWithdrawn
  <2>1. Then(Unused) /\ UNCHANGED <<slot, graph>>
    BY <1>4, WithdrawnFacts
  <2> QED BY <1>2, <1>3, <2>1, RegisteredKept
<1>5. CASE Concludes
  <2>1. PICK wait \in Waits, status \in Statuses \ {"idle"}, h \in Histories : Conclude(Callee, wait, status, h, Unused)
    BY <1>5 DEF Concludes
  <2>2. status \in Statuses
    OBVIOUS
  <2> QED BY <1>1, <1>2, <1>3, <2>1, <2>2, RegisteredConclude
<1>6. CASE ServeRun
  <2> DEFINE n == Callee
  <2>1. /\ Then(<<>>) /\ \A m \in Nodes \ {n} : slot'[m] = slot[m]
        /\ slot'[n].requested = slot[n].requested /\ slot'[n].cursor = slot[n].cursor /\ slot'[n].readers = slot[n].readers
        /\ UNCHANGED graph
    BY <1>6, RunFacts
  <2> HIDE DEF n
  <2>2. \A m \in Nodes : slot'[m].requested => slot[m].requested
    BY <2>1
  <2>3. \A m \in Nodes : slot'[m].cursor = slot[m].cursor /\ slot'[m].readers = slot[m].readers
    BY <2>1
  <2>4. <<>> \in Seq(Chores) /\ Members(<<>>) = {}
    BY MembersOf
  <2> QED BY <1>2, <2>1, <2>2, <2>3, <2>4, RegisteredKept
<1> QED BY <1>1, <1>4, <1>5, <1>6

LEMMA RegisteredSettle == Typed /\ Settle /\ Registered => Registered'
<1> SUFFICES ASSUME Typed, Settle, Registered PROVE Registered'
  OBVIOUS
<1> DEFINE n == Callee
           h == TombstonesSuperseded(Callee, history[Callee], Head(agenda).stamp)
<1>1. Calls("settle") /\ ~Idle /\ n \in Nodes /\ h \in Histories /\ Conclude(n, "none", "ready", h, <<>>)
  BY SettleFacts
<1>2. "none" \in Waits /\ "ready" \in Statuses /\ <<>> \in Seq(Chores) /\ Members(<<>>) = {} /\ TypeOK /\ Head(agenda).call = "settle"
  BY <1>1, MembersOf DEF Waits, Statuses, Typed, Calls
<1> HIDE DEF n, h
<1> QED BY <1>1, <1>2, RegisteredConclude

LEMMA RegisteredRest == Typed /\ Registered /\ (ServeOneReader \/ WithdrawNode \/ ReturnRoom \/ DrainBegins \/ Grant) => Registered'
<1>0. Typed => TypeOK
  BY DEF Typed
<1>00. <<>> \in Seq(Chores) /\ Members(<<>>) = {}
  BY MembersOf
<1>1. ASSUME Typed, Registered, ServeOneReader PROVE Registered'
  <2> DEFINE one == <<Serve(Callee, "retry", FALSE)>>
  <2>1. /\ Calls("reader") /\ ~Idle
        /\ Then(<<>>) \/ (Then(one) /\ one \in Seq(Chores))
        /\ UNCHANGED <<graph, slot>>
    BY <1>1, OneReaderFacts
  <2>2. Members(one) = {Serve(Callee, "retry", FALSE)}
    BY MembersOf, Zenon
  <2>3. \A c \in Members(one) : c.call # "register"
    BY <2>2 DEF Serve
  <2> HIDE DEF one
  <2>4. Head(agenda).call = "reader"
    BY <2>1 DEF Calls
  <2> QED BY <1>0, <1>00, <1>1, <2>1, <2>3, <2>4, RegisteredKept
<1>2. ASSUME Typed, Registered, WithdrawNode PROVE Registered'
  <2> DEFINE n == Callee
  <2>1. /\ Calls("withdraw") /\ ~Idle /\ n \in Nodes /\ UNCHANGED graph
        /\ \/ Then(<<>>) /\ UNCHANGED <<slot, budget>>
           \/ /\ \A m \in Nodes \ {n} : slot'[m] = slot[m]
              /\ ~slot'[n].requested /\ slot'[n].cursor = slot[n].cursor /\ slot'[n].readers = slot[n].readers
              /\ \E calls \in Seq(Chores), ups \in SUBSET Nodes :
                    /\ Then(calls)
                    /\ Members(calls) = {ServeReader(m, TRUE) : m \in Members(slot[n].readers)} \cup {Withdraw(u) : u \in ups}
    BY <1>2, WithdrawFacts
  <2> HIDE DEF n
  <2>2. Head(agenda).call = "withdraw"
    BY <2>1 DEF Calls
  <2>3. CASE Then(<<>>) /\ UNCHANGED <<slot, budget>>
    BY <1>0, <1>00, <1>2, <2>1, <2>2, <2>3, RegisteredKept
  <2>4. CASE ~(Then(<<>>) /\ UNCHANGED <<slot, budget>>)
    <3>1. PICK calls \in Seq(Chores), ups \in SUBSET Nodes :
                    /\ Then(calls)
                    /\ Members(calls) = {ServeReader(m, TRUE) : m \in Members(slot[n].readers)} \cup {Withdraw(u) : u \in ups}
      BY <2>1, <2>4
    <3>2. \A c \in Members(calls) : c.call # "register"
      BY <3>1 DEF ServeReader, Withdraw
    <3>3. \A m \in Nodes : slot'[m].requested => slot[m].requested
      BY <2>1, <2>4
    <3>4. \A m \in Nodes : slot'[m].cursor = slot[m].cursor /\ slot'[m].readers = slot[m].readers
      BY <2>1, <2>4
    <3> QED BY <1>0, <1>2, <2>1, <2>2, <3>1, <3>2, <3>3, <3>4, RegisteredKept
  <2> QED BY <2>3, <2>4
<1>3. ASSUME Typed, Registered, ReturnRoom PROVE Registered'
  <2>1. Calls("giveBack") /\ ~Idle /\ Then(<<>>) /\ UNCHANGED <<graph, slot>>
    BY <1>3, ReturnFacts
  <2>2. Head(agenda).call = "giveBack"
    BY <2>1 DEF Calls
  <2> QED BY <1>0, <1>00, <1>3, <2>1, <2>2, RegisteredKept
<1>4. ASSUME Typed, Registered, DrainBegins PROVE Registered'
  <2>1. Calls("drain") /\ ~Idle /\ Then(<<Granting>>) /\ <<Granting>> \in Seq(Chores) /\ UNCHANGED <<graph, slot>>
    BY <1>4, DrainFacts
  <2>2. Head(agenda).call = "drain" /\ Members(<<Granting>>) = {Granting} /\ Granting.call # "register"
    BY <2>1, MembersOf DEF Calls, Granting
  <2> QED BY <1>0, <1>4, <2>1, <2>2, RegisteredKept
<1>5. ASSUME Typed, Registered, Grant PROVE Registered'
  <2> DEFINE n == Head(budget.line)
             x == Serve(n, "retry", TRUE)
             calls == <<x, Granting>>
  <2>1. /\ Calls("granting") /\ ~Idle /\ UNCHANGED graph
        /\ \/ UNCHANGED <<budget, slot>> /\ Then(<<>>)
           \/ /\ n \in Nodes
              /\ \A m \in Nodes \ {n} : slot'[m] = slot[m]
              /\ slot'[n].requested = slot[n].requested /\ slot'[n].cursor = slot[n].cursor /\ slot'[n].readers = slot[n].readers
              /\ Then(calls) /\ calls \in Seq(Chores)
    BY <1>5, GrantFacts
  <2>2. Head(agenda).call = "granting" /\ Granting.call # "register" /\ x.call # "register"
    BY <2>1 DEF Calls, Granting, Serve
  <2> HIDE DEF n, x
  <2>3. Members(calls) = {x, Granting}
    BY MembersOf
  <2> HIDE DEF calls
  <2>4. \A m \in Nodes : slot'[m].requested => slot[m].requested
    BY <2>1
  <2>5. \A m \in Nodes : slot'[m].cursor = slot[m].cursor /\ slot'[m].readers = slot[m].readers
    BY <2>1
  <2> QED BY <1>0, <1>00, <1>5, <2>1, <2>2, <2>3, <2>4, <2>5, RegisteredKept
<1> QED BY <1>1, <1>2, <1>3, <1>4, <1>5

(* A call for n other than the head stays. *)
LEMMA UnboundKept ==
  ASSUME TypeOK, ~Idle, Rest \subseteq Members(agenda'), Members(agenda) = {Head(agenda)} \cup Rest, NEW n, NEW u,
         Unbound(n, u)
  PROVE  \/ Unbound(n, u)'
         \/ Head(agenda).call \in {"supersede", "request"} /\ Callee = n
         \/ Head(agenda).call = "register" /\ Callee = u /\ Head(agenda).reader = n
         \/ Calls("bind") /\ Callee = n /\ \E j \in Head(agenda).input .. Len(Reads[n]) : Reads[n][j] = u
<1>1. PICK c \in Members(agenda) :
        \/ c.call = "supersede" /\ c.node = n
        \/ c.call = "request" /\ c.node = n
        \/ c.call = "register" /\ c.node = u /\ c.reader = n
        \/ c.call = "bind" /\ c.node = n /\ \E j \in c.input .. Len(Reads[n]) : Reads[n][j] = u
  BY DEF Unbound, To
<1>2. CASE c \in Rest
  <2>1. c \in Members(agenda')
    BY <1>2
  <2> QED BY <1>1, <2>1 DEF Unbound, To
<1>3. CASE c = Head(agenda)
  BY <1>1, <1>3 DEF Callee, Calls
<1> QED BY <1>2, <1>3

LEMMA RegisteredRequest == Typed /\ RequestAt /\ Registered => Registered'
<1> SUFFICES ASSUME Typed, RequestAt, Registered PROVE Registered'
  OBVIOUS
<1>0. PICK n : n = Callee
  OBVIOUS
<1>1. /\ Calls("request") /\ ~Idle /\ n \in Nodes /\ Members(agenda) = {Head(agenda)} \cup Rest
      /\ \/ revision[n] = 0 /\ slot' = slot /\ Members(agenda') = Rest /\ Then(<<>>)
         \/ /\ revision[n] > 0 /\ Members(agenda') = {Bind(n, 1)} \cup Rest /\ Then(<<Bind(n, 1)>>) /\ Bind(n, 1) \in Chores
            /\ \A m \in Nodes \ {n} : slot'[m] = slot[m]
            /\ slot'[n].cursor \in Times /\ slot'[n].readers = slot[n].readers
      /\ UNCHANGED graph
  BY <1>0, RequestFacts
<1>2. Head(agenda).call = "request" /\ Head(agenda).node = n /\ TypeOK /\ agenda \in Seq(Chores)
  BY <1>0, <1>1 DEF Calls, Callee, Typed, TypeOK
<1>3. revision' = revision
  BY <1>1 DEF revision
<1>4. PICK calls \in Seq(Chores) : Then(calls) /\ Members(agenda') = Members(calls) \cup Rest
                                   /\ (\A c \in Members(calls) : c.call # "register")
                                   /\ (revision[n] > 0 => Bind(n, 1) \in Members(calls))
  <2>1. CASE revision[n] = 0
    <3> DEFINE none == <<>>
    <3>1. Then(none) /\ Members(agenda') = Rest /\ none \in Seq(Chores) /\ Members(none) = {}
      BY <1>1, <2>1, MembersOf
    <3> HIDE DEF none
    <3> QED BY <2>1, <3>1
  <2>2. CASE revision[n] > 0
    <3> DEFINE x == Bind(n, 1)
               one == <<x>>
    <3>1. /\ Then(one) /\ Members(agenda') = {x} \cup Rest /\ one \in Seq(Chores)
          /\ Members(one) = {x} /\ x.call # "register"
      BY <1>1, <2>2, OneCall, MembersOf DEF Bind
    <3>2. x = Bind(n, 1)
      OBVIOUS
    <3> HIDE DEF one, x
    <3>3. (\A c \in Members(one) : c.call # "register") /\ Bind(n, 1) \in Members(one) /\ Members(agenda') = Members(one) \cup Rest
      BY <3>1, <3>2
    <3> QED BY <3>1, <3>3
  <2> QED BY <1>1, <2>1, <2>2
<1>5. \A m \in Nodes : slot'[m].readers = slot[m].readers
  BY <1>1
<1>6. Bound'
  <2>1. ASSUME NEW m \in Nodes, m # n, slot'[m].requested
        PROVE  slot[m].requested /\ \A c \in Members(agenda) : Binding(c, m) => c \in Members(agenda')
    <3>1. slot'[m] = slot[m]
      BY <1>1, <2>1
    <3>2. ~Binding(Head(agenda), m)
      BY <1>2, <2>1 DEF Binding
    <3> QED BY <1>1, <1>4, <2>1, <3>1, <3>2
  <2>2. CASE revision[n] = 0
    <3>1. ~slot'[n].requested
      BY <1>1, <2>2 DEF Typed, Known
    <3> QED BY <1>1, <1>5, <2>1, <3>1, BoundKept DEF Registered
  <2>3. CASE revision[n] > 0
    <3>1. ASSUME NEW u \in UpstreamsOf(n) PROVE Unbound(n, u)'
      <4>1. \E j \in 1 .. Len(Reads[n]) : Reads[n][j] = u
        BY <3>1 DEF UpstreamsOf
      <4>2. Bind(n, 1) \in Members(agenda') /\ Bind(n, 1).call = "bind" /\ Bind(n, 1).node = n /\ Bind(n, 1).input = 1
        BY <1>4, <2>3 DEF Bind
      <4> QED BY <4>1, <4>2 DEF Unbound
    <3> QED BY <1>1, <1>5, <2>1, <3>1, BoundKept DEF Registered
  <2> QED BY <1>1, <2>2, <2>3
<1>7. Paired(agenda)'
  <2>1. Paired(calls)
    BY <1>4, NoRegister
  <2> QED BY <1>1, <1>2, <1>4, <2>1, PairedThen DEF Registered
<1>8. Asked'
  <2>1. \A m \in Nodes : HasSlot(m) => HasSlot(m)'
    <3>1. \A m \in Nodes : slot'[m] = slot[m] \/ slot'[m].cursor # NoTime
      BY <1>1, ConstantFacts
    <3> QED BY <1>3, <3>1 DEF HasSlot
  <2>2. HasSlot(n)'
    BY <1>1, <1>3, ConstantFacts DEF HasSlot
  <2>3. \A c \in Members(agenda) : c.call = "register" => c.node \in Nodes
    BY <1>2, RestFacts, ChoreFacts DEF NodeCalls
  <2>4. \A i \in 1 .. Len(calls) : calls[i].call # "register"
    BY <1>4 DEF Members
  <2>5. \A c \in Members(agenda) : c.call = "register" => (HasSlot(c.node) => HasSlot(c.node)')
    BY <2>1, <2>3
  <2>6. \A c \in Members(agenda) : c.call = "register" /\ Head(agenda).call = "request" /\ Head(agenda).node = c.node => HasSlot(c.node)'
    BY <1>2, <2>2
  <2> QED BY <1>1, <1>2, <1>4, <2>4, <2>5, <2>6, AskedThen DEF Registered
<1>9. Downstream'
  BY <1>5 DEF Registered, Downstream
<1> QED BY <1>6, <1>7, <1>8, <1>9 DEF Registered

LEMMA RegisteredBind == Typed /\ BindNext /\ Registered => Registered'
<1> SUFFICES ASSUME Typed, BindNext, Registered PROVE Registered'
  OBVIOUS
<1>0. PICK n, i : n = Callee /\ i = Head(agenda).input
  OBVIOUS
<1> DEFINE u == Reads[n][i]
           x == Request(u, slot[n].cursor)
           y == Register(u, n)
           z == Bind(n, i + 1)
           one == Serve(n, "request", FALSE)
<1>1. /\ Calls("bind") /\ ~Idle /\ n \in Nodes /\ i \in Nat /\ i > 0 /\ Members(agenda) = {Head(agenda)} \cup Rest
      /\ \/ i > Len(Reads[n]) /\ Then(<<one>>) /\ <<one>> \in Seq(Chores) /\ Members(agenda') = {one} \cup Rest
         \/ /\ i \in 1 .. Len(Reads[n]) /\ u \in UpstreamsOf(n) /\ u \in Nodes
            /\ Then(<<x, y, z>>) /\ <<x, y, z>> \in Seq(Chores) /\ Members(agenda') = {x, y, z} \cup Rest
      /\ UNCHANGED <<graph, slot>>
  BY <1>0, BindFacts
<1>2. Head(agenda).call = "bind" /\ Head(agenda).node = n /\ Head(agenda).input = i /\ TypeOK /\ agenda \in Seq(Chores)
  BY <1>0, <1>1 DEF Calls, Callee, Typed, TypeOK
<1>3. revision' = revision /\ Len(Reads[n]) \in Nat
  BY <1>1, UpstreamNodes DEF revision
<1>4. /\ one.call = "serve"
      /\ x.call = "request" /\ x.node = u /\ y.call = "register" /\ y.node = u /\ y.reader = n
      /\ z.call = "bind" /\ z.node = n /\ z.input = i + 1
  BY DEF Serve, Request, Register, Bind
<1> HIDE DEF x, y, z, one
<1>5. Rest \subseteq Members(agenda') /\ UNCHANGED <<graph, slot>>
  BY <1>1
<1>6. Bound'
  <2>1. ASSUME NEW m \in Nodes, NEW v \in UpstreamsOf(m), slot'[m].requested, revision'[v] > 0
        PROVE  Reader(v, m)' \/ Unbound(m, v)'
    <3>1. Reader(v, m) \/ Unbound(m, v)
      BY <1>3, <1>5, <2>1 DEF Registered, Bound
    <3>2. CASE Reader(v, m)
      BY <1>5, <3>2 DEF Reader
    <3>3. CASE Unbound(m, v)
      <4>1. Unbound(m, v)' \/ (m = n /\ \E j \in i .. Len(Reads[n]) : Reads[n][j] = v)
        BY <1>1, <1>2, <1>5, <3>3, UnboundKept DEF Callee
      <4>2. ASSUME m = n, NEW j \in i .. Len(Reads[n]), Reads[n][j] = v PROVE Unbound(m, v)'
        <5>1. i \in 1 .. Len(Reads[n]) /\ Members(agenda') = {x, y, z} \cup Rest
          BY <1>1, <1>3, <4>2
        <5>2. CASE j = i
          <6>1. y \in Members(agenda') /\ y.node = v
            BY <1>4, <4>2, <5>1, <5>2
          <6> QED BY <1>4, <4>2, <6>1 DEF Unbound
        <5>3. CASE j # i
          <6>1. z \in Members(agenda') /\ j \in z.input .. Len(Reads[n])
            BY <1>1, <1>3, <1>4, <4>2, <5>1, <5>3
          <6> QED BY <1>4, <4>2, <6>1 DEF Unbound
        <5> QED BY <5>2, <5>3
      <4> QED BY <4>1, <4>2
    <3> QED BY <3>1, <3>2, <3>3
  <2> QED BY <2>1 DEF Bound
<1>7. PICK calls \in Seq(Chores) : Then(calls) /\ (calls = <<one>> \/ (calls = <<x, y, z>> /\ u \in UpstreamsOf(n)))
  BY <1>1
<1>8. Paired(calls)
  <2>1. CASE calls = <<one>>
    <3>1. Members(calls) = {one}
      BY <2>1, MembersOf
    <3> QED BY <1>4, <3>1, NoRegister
  <2>2. CASE calls = <<x, y, z>> /\ u \in UpstreamsOf(n)
    <3>1. Len(calls) = 3 /\ calls[1] = x /\ calls[2] = y /\ calls[3] = z
      BY <2>2
    <3>2. \A k \in 1 .. Len(calls) : k = 1 \/ k = 2 \/ k = 3
      BY <3>1
    <3>3. \A k \in 1 .. Len(calls) : calls[k].call = "register" => k = 2
      BY <1>4, <3>1, <3>2
    <3> HIDE DEF u
    <3> QED BY <1>4, <2>2, <3>1, <3>3 DEF Paired
  <2> QED BY <1>7, <2>1, <2>2
<1>9. Paired(agenda)'
  BY <1>1, <1>2, <1>7, <1>8, PairedThen DEF Registered
<1>10. Asked'
  <2>1. \A k \in 1 .. Len(calls) : calls[k].call = "register" => k # 1 /\ calls[k - 1].call = "request" /\ calls[k - 1].node = calls[k].node
    <3>1. CASE calls = <<one>>
      BY <1>4, <3>1
    <3>2. CASE calls = <<x, y, z>>
      <4>1. Len(calls) = 3 /\ calls[1] = x /\ calls[2] = y /\ calls[3] = z
        BY <3>2
      <4>2. \A k \in 1 .. Len(calls) : k = 1 \/ k = 2 \/ k = 3
        BY <4>1
      <4>3. \A k \in 1 .. Len(calls) : calls[k].call = "register" => k = 2
        BY <1>4, <4>1, <4>2
      <4> HIDE DEF u
      <4>4. calls[2 - 1] = x
        BY <4>1
      <4> QED BY <1>4, <4>1, <4>3, <4>4
    <3> QED BY <1>7, <3>1, <3>2
  <2>2. \A c \in Members(agenda) : HasSlot(c.node) => HasSlot(c.node)'
    BY <1>3, <1>5 DEF HasSlot
  <2> QED BY <1>1, <1>2, <1>7, <2>1, <2>2, AskedThen DEF Registered
<1>11. Downstream'
  BY <1>5 DEF Registered, Downstream
<1> QED BY <1>6, <1>9, <1>10, <1>11 DEF Registered

LEMMA RegisteredReader == Typed /\ RegisterReader /\ Registered => Registered'
<1> SUFFICES ASSUME Typed, RegisterReader, Registered PROVE Registered'
  OBVIOUS
<1>0. PICK u, n : u = Callee /\ n = Head(agenda).reader
  OBVIOUS
<1>1. /\ Calls("register") /\ ~Idle /\ u \in Nodes /\ n \in Nodes /\ Members(agenda) = {Head(agenda)} \cup Rest
      /\ Members(agenda') = Rest /\ Then(<<>>) /\ UNCHANGED graph
      /\ \A m \in Nodes \ {u} : slot'[m] = slot[m]
      /\ slot'[u].requested = slot[u].requested /\ slot'[u].cursor = slot[u].cursor
      /\ slot[u].cursor # NoTime => Members(slot'[u].readers) = Members(slot[u].readers) \cup {n}
      /\ slot[u].cursor = NoTime => slot'[u] = slot[u]
  BY <1>0, RegisterFacts
<1>2. /\ Head(agenda).call = "register" /\ Head(agenda).node = u /\ Head(agenda).reader = n
      /\ agenda[1] = Head(agenda) /\ 1 \in 1 .. Len(agenda) /\ TypeOK /\ agenda \in Seq(Chores)
  BY <1>0, <1>1, HeadFacts DEF Calls, Callee, Typed, TypeOK
<1>3. revision' = revision
  BY <1>1 DEF revision
<1>4. HasSlot(u) /\ u \in UpstreamsOf(n)
  BY <1>2 DEF Registered, Asked, Paired
<1>5. \A m \in Nodes : /\ Members(slot[m].readers) \subseteq Members(slot'[m].readers)
                       /\ slot'[m].requested = slot[m].requested /\ slot'[m].cursor = slot[m].cursor
  BY <1>1
<1>6. \A m \in Nodes : \A r \in Members(slot'[m].readers) : r \in Members(slot[m].readers) \/ (m = u /\ r = n)
  BY <1>1
<1>7. Bound'
  <2>1. ASSUME NEW m \in Nodes, m # n, slot'[m].requested
        PROVE  slot[m].requested /\ \A c \in Members(agenda) : Binding(c, m) => c \in Members(agenda')
    <3>1. ~Binding(Head(agenda), m)
      BY <1>2, <2>1 DEF Binding
    <3> QED BY <1>1, <1>5, <2>1, <3>1
  <2>2. ASSUME NEW v \in UpstreamsOf(n), slot'[n].requested, revision[v] > 0
        PROVE  Reader(v, n)' \/ Unbound(n, v)'
    <3>0. v \in Nodes
      BY <1>1, UpstreamNodes
    <3>1. Reader(v, n) \/ Unbound(n, v)
      BY <1>1, <1>5, <2>2 DEF Registered, Bound
    <3>2. CASE Reader(v, n)
      BY <1>5, <3>0, <3>2 DEF Reader
    <3>3. CASE v = u
      <4>1. slot[u].cursor # NoTime
        BY <1>4, <2>2, <3>3 DEF HasSlot
      <4> QED BY <1>1, <3>3, <4>1 DEF Reader
    <3>4. CASE Unbound(n, v) /\ v # u
      BY <1>1, <1>2, <3>4, UnboundKept DEF Callee, Calls
    <3> QED BY <3>1, <3>2, <3>3, <3>4
  <2>3. \A m \in Nodes : \/ ~slot'[m].requested
                         \/ slot[m].requested /\ \A c \in Members(agenda) : Binding(c, m) => c \in Members(agenda')
                         \/ \A v \in UpstreamsOf(m) : revision[v] > 0 => Reader(v, m)' \/ Unbound(m, v)'
    BY <2>1, <2>2
  <2> QED BY <1>1, <1>5, <2>3, BoundKept DEF Registered
<1> DEFINE none == <<>>
<1>8. none \in Seq(Chores) /\ Len(none) = 0 /\ (\A c \in Members(none) : c.call # "register") /\ Then(none)
  BY <1>1, MembersOf
<1> HIDE DEF none
<1>9. Paired(agenda)'
  <2>1. Paired(none)
    BY <1>8, NoRegister
  <2> QED BY <1>1, <1>2, <1>8, <2>1, PairedThen DEF Registered
<1>10. Asked'
  <2>1. \A c \in Members(agenda) : c.call = "register" => c.node \in Nodes
    BY <1>2, RestFacts, ChoreFacts DEF NodeCalls
  <2>2. \A c \in Members(agenda) : c.call = "register" => (HasSlot(c.node) => HasSlot(c.node)')
    BY <1>3, <1>5, <2>1 DEF HasSlot
  <2>3. \A i \in 1 .. Len(none) : FALSE
    BY <1>8
  <2> QED BY <1>1, <1>2, <1>8, <2>2, <2>3, AskedThen DEF Registered
<1>11. Downstream'
  BY <1>1, <1>4, <1>6 DEF Registered, Downstream
<1> QED BY <1>7, <1>9, <1>10, <1>11 DEF Registered

LEMMA RegisteredSupersede == Typed /\ SupersedeNode /\ Registered => Registered'
<1> SUFFICES ASSUME Typed, SupersedeNode, Registered PROVE Registered'
  OBVIOUS
<1>0. PICK n : n = Callee
  OBVIOUS
<1> DEFINE x == Request(n, slot[n].cursor)
           one == <<x>>
           none == <<>>
<1>1. /\ Calls("supersede") /\ ~Idle /\ n \in Nodes /\ Members(agenda) = {Head(agenda)} \cup Rest /\ UNCHANGED graph
      /\ \/ ~slot[n].requested /\ Then(none) /\ Members(agenda') = Rest
         \/ slot[n].requested /\ Then(one) /\ Members(agenda') = {x} \cup Rest /\ x \in Chores
      /\ \A m \in Nodes \ {n} : slot'[m] = slot[m]
      /\ slot'[n].requested = slot[n].requested /\ slot'[n].cursor = slot[n].cursor /\ slot'[n].readers = slot[n].readers
  BY <1>0, SupersedeFacts
<1>2. Head(agenda).call = "supersede" /\ Head(agenda).node = n /\ TypeOK /\ agenda \in Seq(Chores)
  BY <1>0, <1>1 DEF Calls, Callee, Typed, TypeOK
<1>3. revision' = revision
  BY <1>1 DEF revision
<1>4. /\ x.call = "request" /\ x.node = n /\ (x \in Chores => one \in Seq(Chores)) /\ none \in Seq(Chores)
      /\ Members(one) = {x} /\ Members(none) = {}
  BY OneCall, MembersOf DEF Request
<1> HIDE DEF x, one, none
<1>5. PICK calls \in Seq(Chores) : Then(calls) /\ (\A c \in Members(calls) : c.call # "register")
  BY <1>1, <1>4
<1>6. \A m \in Nodes : slot'[m].requested = slot[m].requested /\ slot'[m].cursor = slot[m].cursor /\ slot'[m].readers = slot[m].readers
  BY <1>1
<1>7. Bound'
  <2>1. ASSUME NEW m \in Nodes, m # n, slot'[m].requested
        PROVE  slot[m].requested /\ \A c \in Members(agenda) : Binding(c, m) => c \in Members(agenda')
    <3>1. ~Binding(Head(agenda), m)
      BY <1>2, <2>1 DEF Binding
    <3> QED BY <1>1, <1>6, <2>1, <3>1
  <2>2. ASSUME NEW v \in UpstreamsOf(n), slot'[n].requested PROVE Unbound(n, v)'
    <3>1. x \in Members(agenda')
      BY <1>1, <1>6, <2>2
    <3> QED BY <1>4, <3>1 DEF Unbound, To
  <2>3. \A m \in Nodes : \/ ~slot'[m].requested
                         \/ slot[m].requested /\ \A c \in Members(agenda) : Binding(c, m) => c \in Members(agenda')
                         \/ \A v \in UpstreamsOf(m) : revision[v] > 0 => Reader(v, m)' \/ Unbound(m, v)'
    BY <2>1, <2>2
  <2> QED BY <1>1, <1>6, <2>3, BoundKept DEF Registered
<1>8. Paired(agenda)'
  <2>1. Paired(calls)
    BY <1>5, NoRegister
  <2> QED BY <1>1, <1>2, <1>5, <2>1, PairedThen DEF Registered
<1>9. Asked'
  <2>1. \A c \in Members(agenda) : c.call = "register" => c.node \in Nodes
    BY <1>2, RestFacts, ChoreFacts DEF NodeCalls
  <2>2. \A c \in Members(agenda) : c.call = "register" => (HasSlot(c.node) => HasSlot(c.node)')
    BY <1>3, <1>6, <2>1 DEF HasSlot
  <2>3. \A i \in 1 .. Len(calls) : calls[i].call # "register"
    BY <1>5 DEF Members
  <2> QED BY <1>1, <1>2, <1>5, <2>2, <2>3, AskedThen DEF Registered
<1>10. Downstream'
  BY <1>6 DEF Registered, Downstream
<1> QED BY <1>7, <1>8, <1>9, <1>10 DEF Registered

-----------------------------------------------------------------------------
LEMMA RegisteredInstall ==
  ASSUME Typed, Registered, NEW n \in Nodes, Install(n)
  PROVE  Registered'
<1>1. /\ Idle /\ \A m \in Nodes \ {n} : revision'[m] = revision[m]
      /\ Members(agenda') = {Supersede(m) : m \in {n} \cup Members(DependentsOf(n))}
      /\ UNCHANGED slot
  BY InstallFacts
<1>2. Members(agenda) = {} /\ \A m : Supersede(m).call = "supersede" /\ Supersede(m).node = m
  BY <1>1, MembersOf DEF Idle, Supersede
<1>3. ASSUME NEW m \in Nodes, NEW u \in UpstreamsOf(m), slot'[m].requested, revision'[u] > 0
      PROVE  Reader(u, m)' \/ Unbound(m, u)'
  <2>0. u \in Nodes /\ slot[m].requested /\ revision[m] > 0
    BY <1>1, <1>3, UpstreamNodes DEF Typed, Known
  <2>1. CASE u = n
    <3>1. m \in Members(DependentsOf(n))
      BY <1>3, <2>0, <2>1, DependentsFacts
    <3>2. Supersede(m) \in Members(agenda')
      BY <1>1, <3>1
    <3> QED BY <1>2, <3>2 DEF Unbound, To
  <2>2. CASE u # n
    <3>1. Reader(u, m) \/ Unbound(m, u)
      BY <1>1, <1>3, <2>0, <2>2 DEF Registered, Bound
    <3>2. Reader(u, m)
      BY <1>2, <3>1 DEF Unbound, To
    <3> QED BY <1>1, <3>2 DEF Reader
  <2> QED BY <2>1, <2>2
<1>4. \A c \in Members(agenda') : c.call # "register"
  BY <1>1, <1>2
<1>5. Paired(agenda)' /\ Asked'
  BY <1>4, NoRegister DEF Paired, Asked, Members
<1>6. Downstream'
  BY <1>1 DEF Registered, Downstream
<1> QED BY <1>3, <1>5, <1>6 DEF Registered, Bound

LEMMA RegisteredRemove ==
  ASSUME Typed, Registered, NEW n \in Nodes, Remove(n)
  PROVE  Registered'
<1>1. /\ Idle /\ revision'[n] = 0 /\ \A m \in Nodes \ {n} : revision'[m] = revision[m]
      /\ slot'[n] = NoSlot /\ \A m \in Nodes \ {n} : slot'[m] = slot[m]
      /\ Members(agenda') = {Supersede(m) : m \in Members(DependentsOf(n))}
  BY RemoveFacts
<1>2. Members(agenda) = {} /\ \A m : Supersede(m).call = "supersede"
  BY <1>1, MembersOf DEF Idle, Supersede
<1>3. ~NoSlot.requested /\ Members(NoSlot.readers) = {}
  BY MembersOf DEF NoSlot
<1>4. ASSUME NEW m \in Nodes, NEW u \in UpstreamsOf(m), slot'[m].requested, revision'[u] > 0
      PROVE  Reader(u, m)' \/ Unbound(m, u)'
  <2>1. u \in Nodes /\ u # n /\ m # n
    BY <1>1, <1>3, <1>4, UpstreamNodes
  <2>2. Reader(u, m) \/ Unbound(m, u)
    BY <1>1, <1>4, <2>1 DEF Registered, Bound
  <2>3. Reader(u, m)
    BY <1>2, <2>2 DEF Unbound, To
  <2> QED BY <1>1, <2>1, <2>3 DEF Reader
<1>5. \A c \in Members(agenda') : c.call # "register"
  BY <1>1, <1>2
<1>6. Paired(agenda)' /\ Asked'
  BY <1>5, NoRegister DEF Paired, Asked, Members
<1>7. Downstream'
  BY <1>1, <1>3 DEF Registered, Downstream
<1> QED BY <1>4, <1>6, <1>7 DEF Registered, Bound

LEMMA RegisteredEvents ==
  Typed /\ Registered /\
    (\/ PostedDrain \/ Finish \/ Suspend \/ Replace \/ Resume \/ Arrive \/ Retire
     \/ \E n \in Nodes : WithdrawEvent(n) \/ \E t \in Times : RequestEvent(n, t)) => Registered'
<1>0. \A n, t : /\ Request(n, t).call = "request" /\ Withdraw(n).call = "withdraw" /\ Drain.call = "drain"
                /\ Serve(n, "request", t).call = "serve" /\ ServeReader(n, t).call = "reader" /\ SettleServed(n, t).call = "settle"
  BY DEF Request, Withdraw, Drain, Serve, ServeReader, SettleServed
<1>00. ASSUME Idle, agenda' = agenda PROVE \A c \in Members(agenda') : c.call # "register"
  BY <1>00, MembersOf DEF Idle
<1>1. ASSUME Typed, Registered, PostedDrain PROVE Registered'
  BY <1>0, <1>1, PostedFacts, RegisteredIdle
<1>2. ASSUME Typed, Registered, FinishOrphan PROVE Registered'
  BY <1>0, <1>2, OrphanFacts, RegisteredIdle
<1>3. ASSUME Typed, Registered, NEW n \in Nodes, FinishDropped(n) PROVE Registered'
  <2>1. /\ Idle /\ UNCHANGED graph /\ Members(agenda') = {Serve(n, "request", FALSE), Drain}
        /\ \A m \in Nodes \ {n} : slot'[m] = slot[m]
        /\ slot'[n].requested = slot[n].requested /\ slot'[n].readers = slot[n].readers
    BY <1>3, DroppedRunFacts
  <2>2. \A c \in Members(agenda') : c.call # "register"
    BY <1>0, <2>1
  <2> QED BY <1>3, <2>1, <2>2, RegisteredIdle
<1>4. ASSUME Typed, Registered, NEW n \in Nodes, NEW outcome, FinishRun(n, outcome) PROVE Registered'
  <2>1. /\ Idle /\ UNCHANGED graph
        /\ Members(agenda') = {ServeReader(m, FALSE) : m \in Members(slot[n].readers)} \cup {Ending(n, outcome), Drain}
        /\ \A m \in Nodes \ {n} : slot'[m] = slot[m]
        /\ slot'[n].requested = slot[n].requested /\ slot'[n].readers = slot[n].readers
    BY <1>4, FinishFacts
  <2>2. Ending(n, outcome).call # "register"
    BY DEF Ending, Serve, SettleServed
  <2>3. \A c \in Members(agenda') : c.call # "register"
    BY <1>0, <2>1, <2>2
  <2> QED BY <1>4, <2>1, <2>3, RegisteredIdle
<1>5. ASSUME Typed, Registered, Suspend PROVE Registered'
  <2>1. /\ Idle /\ UNCHANGED graph /\ agenda' = agenda
        /\ \A m \in Nodes : slot'[m].requested = slot[m].requested /\ slot'[m].readers = slot[m].readers
    BY <1>5, SuspendFacts
  <2> QED BY <1>00, <1>5, <2>1, RegisteredIdle
<1>6. ASSUME Typed, Registered, Replace \/ Arrive \/ Retire PROVE Registered'
  <2>1. Idle /\ UNCHANGED graph /\ agenda' = agenda /\ slot' = slot
    BY <1>6, ReplaceFacts, ArriveFacts, RetireFacts
  <2> QED BY <1>00, <1>6, <2>1, RegisteredIdle
<1>7. ASSUME Typed, Registered, Resume PROVE Registered'
  <2>1. Idle /\ UNCHANGED graph /\ slot' = slot /\ \A c \in Members(agenda') : c.call = "request"
    BY <1>7, ResumeFacts
  <2> QED BY <1>7, <2>1, RegisteredIdle
<1>8. ASSUME Typed, Registered, NEW n \in Nodes, WithdrawEvent(n) PROVE Registered'
  BY <1>0, <1>8, WithdrawEventFacts, RegisteredIdle
<1>9. ASSUME Typed, Registered, NEW n \in Nodes, NEW t \in Times, RequestEvent(n, t) PROVE Registered'
  BY <1>0, <1>9, RequestEventFacts, RegisteredIdle
<1> QED BY <1>1, <1>2, <1>3, <1>4, <1>5, <1>6, <1>7, <1>8, <1>9 DEF Finish

LEMMA RegisteredInit == Init => Registered
<1> SUFFICES ASSUME Init PROVE Registered
  OBVIOUS
<1>1. Members(agenda) = {} /\ \A n \in Nodes : slot[n] = NoSlot
  BY MembersOf DEF Init
<1>2. ~NoSlot.requested /\ Members(NoSlot.readers) = {}
  BY MembersOf DEF NoSlot
<1>3. Bound /\ Downstream
  BY <1>1, <1>2 DEF Bound, Downstream
<1>4. Paired(agenda) /\ Asked
  BY <1>1, NoRegister DEF Paired, Asked, Members
<1> QED BY <1>3, <1>4 DEF Registered

LEMMA RegisteredStutter == Registered /\ UNCHANGED vars => Registered'
BY DEF Registered, Bound, Paired, Asked, Downstream, HasSlot, Unbound, To, Reader, Members, revision, vars

LEMMA RegisteredStep == Typed /\ Registered /\ [Next]_vars => Registered'
<1> SUFFICES ASSUME Typed, Registered, Next PROVE Registered'
  BY RegisteredStutter
<1>1. CASE CallStep
  BY <1>1, RegisteredServe, RegisteredRequest, RegisteredBind, RegisteredReader, RegisteredSettle, RegisteredSupersede,
     RegisteredRest DEF CallStep
<1>2. CASE Environment
  BY <1>2, RegisteredInstall, RegisteredRemove, RegisteredEvents DEF Environment
<1>3. CASE PostedDrain \/ Finish
  BY <1>3, RegisteredEvents
<1> QED BY <1>1, <1>2, <1>3 DEF Next

-----------------------------------------------------------------------------
(* A pending node is attended to. *)

(* A call that serves n, now or in its turn. *)
DueCalls == {"request", "bind", "serve", "settle", "supersede"}
Due(n) == \E c \in Members(agenda) : c.call \in DueCalls /\ c.node = n

(* What will serve a pending node, between two calls. *)
Attended(n) ==
  \/ slot[n].running # NoRun \/ slot[n].wait = "room" \/ Due(n)
  \/ /\ slot[n].wait = "upstream"
     /\ To("reader", n) \/ \E u \in UpstreamsOf(n) : slot[u].status = "pending" /\ Reader(u, n)

Pending(n) == slot[n].requested /\ slot[n].status = "pending" /\ held = 0
Served == \A n \in Nodes : Pending(n) => Attended(n)

(* A step that leaves n as it is, with what attends to it. *)
Apart(n) ==
  /\ slot'[n].requested = slot[n].requested /\ slot'[n].status = slot[n].status /\ slot'[n].wait = slot[n].wait
  /\ slot[n].running # NoRun => slot'[n].running # NoRun
  /\ \A c \in Members(agenda) : c.call \in DueCalls \cup {"reader"} /\ c.node = n => c \in Members(agenda')
  /\ \A u \in UpstreamsOf(n) : /\ slot[u].status = "pending" /\ Reader(u, n)
                               => (slot'[u].status = "pending" /\ Reader(u, n)') \/ To("reader", n)'

LEMMA ServedKept ==
  ASSUME Served, held' = held, \A n \in Nodes : ~Pending(n)' \/ Attended(n)' \/ Apart(n)
  PROVE  Served'
<1> SUFFICES ASSUME NEW n \in Nodes, Pending(n)', Apart(n) PROVE Attended(n)'
  BY DEF Served
<1>1. Pending(n)
  BY DEF Apart, Pending
<1>2. Attended(n)
  BY <1>1 DEF Served
<1>3. CASE slot[n].running # NoRun \/ slot[n].wait = "room"
  BY <1>3 DEF Apart, Attended
<1>4. CASE Due(n)
  BY <1>4 DEF Apart, Attended, Due
<1>5. CASE slot[n].wait = "upstream" /\ To("reader", n)
  <2>1. To("reader", n)'
    BY <1>5 DEF Apart, To
  <2> QED BY <1>5, <2>1 DEF Apart, Attended
<1>6. CASE slot[n].wait = "upstream" /\ \E u \in UpstreamsOf(n) : slot[u].status = "pending" /\ Reader(u, n)
  BY <1>6 DEF Apart, Attended
<1> QED BY <1>2, <1>3, <1>4, <1>5, <1>6 DEF Attended

(* The other nodes' share of a call on n that keeps n pending, or tells its readers. *)
LEMMA OthersApart ==
  ASSUME ~Idle, Members(agenda) = {Head(agenda)} \cup Rest, Rest \subseteq Members(agenda'), NEW n, Callee = n,
         \A m \in Nodes \ {n} : slot'[m] = slot[m],
         Members(slot'[n].readers) = Members(slot[n].readers),
         slot'[n].status = "pending" \/ slot'[n].status = slot[n].status \/ \A m \in Members(slot[n].readers) : To("reader", m)'
  PROVE  \A m \in Nodes \ {n} : Apart(m)
<1> SUFFICES ASSUME NEW m \in Nodes, m # n PROVE Apart(m)
  OBVIOUS
<1>1. slot'[m] = slot[m]
  OBVIOUS
<1>2. \A c \in Members(agenda) : c.call \in DueCalls \cup {"reader"} /\ c.node = m => c \in Members(agenda')
  BY DEF Callee
<1>3. ASSUME NEW u \in UpstreamsOf(m), slot[u].status = "pending", Reader(u, m)
      PROVE  (slot'[u].status = "pending" /\ Reader(u, m)') \/ To("reader", m)'
  <2>1. u \in Nodes
    BY <1>3, UpstreamNodes
  <2>2. CASE u = n
    BY <1>3, <2>2 DEF Reader
  <2>3. CASE u # n
    BY <1>3, <2>1, <2>3 DEF Reader
  <2> QED BY <2>2, <2>3
<1> QED BY <1>1, <1>2, <1>3 DEF Apart

LEMMA UnboundDue ==
  ASSUME NEW n, NEW u, Paired(agenda)', Unbound(n, u)'
  PROVE  Due(n)'
<1>1. PICK c \in Members(agenda') :
        \/ c.call \in {"supersede", "request", "bind"} /\ c.node = n
        \/ c.call = "register" /\ c.node = u /\ c.reader = n
  BY DEF Unbound, To
<1>2. CASE c.call \in {"supersede", "request", "bind"} /\ c.node = n
  BY <1>2 DEF Due, DueCalls
<1>3. CASE c.call = "register" /\ c.node = u /\ c.reader = n
  <2>1. PICK i \in 1 .. Len(agenda') : agenda'[i] = c
    BY DEF Members
  <2>2. i + 1 \in 1 .. Len(agenda') /\ agenda'[i + 1].call = "bind" /\ agenda'[i + 1].node = n
    BY <1>3, <2>1 DEF Paired
  <2>3. agenda'[i + 1] \in Members(agenda')
    BY <2>2 DEF Members
  <2> QED BY <2>2, <2>3 DEF Due, DueCalls
<1> QED BY <1>1, <1>2, <1>3

-----------------------------------------------------------------------------
LEMMA ConcludeStatus ==
  ASSUME TypeOK, ~Idle, NEW n \in Nodes, NEW wait \in Waits, NEW status \in Statuses,
         NEW h \in Histories, NEW rest \in Seq(Chores), Conclude(n, wait, status, h, rest)
  PROVE  slot'[n].status = status
<1>1. slot \in [Nodes -> Slots] /\ slot' = [slot EXCEPT ![n].wait = wait, ![n].status = status]
  BY DEF TypeOK, Conclude
<1>2. slot[n] \in Slots
  BY <1>1
<1>3. slot'[n] = [slot[n] EXCEPT !.wait = wait, !.status = status]
  BY <1>1
<1> QED BY <1>2, <1>3 DEF Slots

LEMMA ServedConclude ==
  ASSUME Typed, ~Idle, Served, Registered, Registered', NEW n \in Nodes, NEW wait \in Waits, NEW status \in Statuses,
         NEW h \in Histories, NEW rest \in Seq(Chores), Conclude(n, wait, status, h, rest), Callee = n,
         Head(agenda).call \in {"serve", "settle"}, slot[n].requested \/ status # "pending", PendingWell(n, wait, status)
  PROVE  Served'
<1>0. TypeOK
  BY DEF Typed
<1>1. /\ \A m \in Nodes \ {n} : slot'[m] = slot[m]
      /\ slot'[n].running = slot[n].running /\ slot'[n].requested = slot[n].requested /\ slot'[n].wait = wait
      /\ slot'[n].cursor = slot[n].cursor /\ slot'[n].status = status /\ slot'[n].readers = slot[n].readers
      /\ UNCHANGED <<graph, held>>
  <2>1. slot'[n].status = status
    BY <1>0, ConcludeStatus
  <2> QED BY <1>0, <2>1, ConcludeFacts
<1>2. /\ Members(agenda) = {Head(agenda)} \cup Rest
      /\ Members(agenda') = (IF status = "pending" THEN {} ELSE {ServeReader(m, TRUE) : m \in Members(slot[n].readers)})
                               \cup Members(rest) \cup Rest
  BY <1>0, ConcludeMembers
<1>3. status # "pending" => \A m \in Members(slot[n].readers) : To("reader", m)'
  <2>1. \A m : ServeReader(m, TRUE).call = "reader" /\ ServeReader(m, TRUE).node = m
    BY DEF ServeReader
  <2> QED BY <1>2, <2>1 DEF To
<1>4. \A m \in Nodes \ {n} : Apart(m)
  BY <1>1, <1>2, <1>3, OthersApart
<1>5. ASSUME Pending(n)' PROVE Attended(n)'
  <2>1. status = "pending" /\ held = 0 /\ slot[n].requested
    BY <1>1, <1>5 DEF Pending
  <2>2. CASE slot[n].running # NoRun \/ wait = "room"
    BY <1>1, <2>2 DEF Attended
  <2>3. CASE wait = "upstream" /\ AwaitsUpstream(n, Trigger)
    <3>1. PICK i \in SameRequest(n) : slot[Reads[n][i]].status = "pending"
      BY <2>3 DEF AwaitsUpstream
    <3>2. PICK u : u = Reads[n][i]
      OBVIOUS
    <3>3. u \in UpstreamsOf(n) /\ u \in Nodes /\ u # n
      BY <3>1, <3>2, UpstreamNodes DEF SameRequest, UpstreamsOf
    <3>4. revision[u] > 0 /\ slot[u].status = "pending"
      BY <3>1, <3>2, <3>3 DEF Typed, Known
    <3>5. Reader(u, n) \/ Unbound(n, u)
      BY <2>1, <3>3, <3>4 DEF Registered, Bound
    <3>6. CASE Reader(u, n)
      <4>1. slot'[u].status = "pending" /\ Reader(u, n)'
        BY <1>1, <3>3, <3>4, <3>6 DEF Reader
      <4> QED BY <1>1, <2>3, <3>3, <4>1 DEF Attended
    <3>7. CASE Unbound(n, u)
      <4>1. Unbound(n, u)'
        BY <1>0, <1>2, <3>7, UnboundKept DEF Calls
      <4> QED BY <4>1, UnboundDue DEF Registered, Attended
    <3> QED BY <3>5, <3>6, <3>7
  <2>4. held \in Nat
    BY <1>0 DEF TypeOK
  <2> QED BY <2>1, <2>2, <2>3, <2>4 DEF PendingWell
<1> QED BY <1>1, <1>4, <1>5, ServedKept

LEMMA ServedServe == Typed /\ ServeStep /\ Served /\ Registered /\ Registered' => Served'
<1> SUFFICES ASSUME Typed, ServeStep, Served, Registered, Registered' PROVE Served'
  OBVIOUS
<1>1. Calls("serve") /\ Callee \in Nodes /\ (ServeWithdrawn \/ ServeRun \/ Concludes)
  BY ServeShape
<1>2. TypeOK /\ ~Idle /\ Head(agenda).call = "serve"
  BY <1>1 DEF Typed, Calls
<1>3. PICK n : n = Callee
  OBVIOUS
<1>4. CASE ServeWithdrawn
  <2>1. /\ ~slot[n].requested /\ Members(agenda) = {Head(agenda)} \cup Rest
        /\ Members(agenda') = Members(Unused) \cup Rest /\ UNCHANGED <<slot, held>>
    BY <1>3, <1>4, WithdrawnFacts
  <2>2. ~Pending(n)'
    BY <2>1 DEF Pending
  <2>3. \A m \in Nodes \ {n} : Apart(m)
    BY <1>2, <1>3, <2>1, OthersApart
  <2> QED BY <2>1, <2>2, <2>3, ServedKept
<1>5. CASE Concludes
  <2>1. PICK wait \in Waits, status \in Statuses \ {"idle"}, h \in Histories :
          Conclude(n, wait, status, h, Unused) /\ slot[n].requested /\ PendingWell(n, wait, status)
    BY <1>3, <1>5 DEF Concludes
  <2>2. status \in Statuses /\ Unused \in Seq(Chores)
    BY <1>1, <1>2, UnusedFacts
  <2> QED BY <1>1, <1>2, <1>3, <2>1, <2>2, ServedConclude
<1>6. CASE ServeRun
  <2>1. /\ Members(agenda) = {Head(agenda)} \cup Rest /\ Members(agenda') = Rest /\ held' = held
        /\ \A m \in Nodes \ {n} : slot'[m] = slot[m]
        /\ slot'[n].running \in Jobs /\ slot'[n].status = "pending" /\ slot'[n].readers = slot[n].readers
    BY <1>3, <1>6, RunFacts
  <2>2. Attended(n)'
    BY <2>1, NoRunAssumption DEF Attended
  <2>3. \A m \in Nodes \ {n} : Apart(m)
    BY <1>2, <1>3, <2>1, OthersApart
  <2> QED BY <2>1, <2>2, <2>3, ServedKept
<1> QED BY <1>1, <1>4, <1>5, <1>6

LEMMA CallNames ==
  /\ \A n, t : /\ Request(n, t).call = "request" /\ Request(n, t).node = n
               /\ Bind(n, t).call = "bind" /\ Bind(n, t).node = n
               /\ ServeReader(n, t).call = "reader" /\ ServeReader(n, t).node = n
               /\ SettleServed(n, t).call = "settle" /\ SettleServed(n, t).node = n
               /\ Register(n, t).call = "register" /\ Register(n, t).node = n
  /\ \A n : /\ Withdraw(n).call = "withdraw" /\ Withdraw(n).node = n
            /\ Supersede(n).call = "supersede" /\ Supersede(n).node = n
            /\ ServeReader(n, TRUE).call = "reader" /\ ServeReader(n, TRUE).node = n
            /\ ServeReader(n, FALSE).call = "reader" /\ ServeReader(n, FALSE).node = n
            /\ Serve(n, "retry", TRUE).call = "serve" /\ Serve(n, "retry", TRUE).node = n
            /\ Serve(n, "retry", FALSE).call = "serve" /\ Serve(n, "retry", FALSE).node = n
            /\ Serve(n, "request", FALSE).call = "serve" /\ Serve(n, "request", FALSE).node = n
  /\ GiveBack.call = "giveBack" /\ Drain.call = "drain" /\ Granting.call = "granting"
BY DEF Request, Bind, ServeReader, SettleServed, Withdraw, Supersede, Register, Serve, GiveBack, Drain, Granting

LEMMA ServedSettle == Typed /\ Settle /\ Served /\ Registered /\ Registered' => Served'
<1> SUFFICES ASSUME Typed, Settle, Served, Registered, Registered' PROVE Served'
  OBVIOUS
<1>1. PICK n, h : n = Callee /\ h = TombstonesSuperseded(Callee, history[Callee], Head(agenda).stamp)
  OBVIOUS
<1>2. Calls("settle") /\ ~Idle /\ n \in Nodes /\ h \in Histories /\ Conclude(n, "none", "ready", h, <<>>)
  BY <1>1, SettleFacts
<1>3. "none" \in Waits /\ "ready" \in Statuses /\ <<>> \in Seq(Chores) /\ Head(agenda).call = "settle"
      /\ PendingWell(n, "none", "ready")
  BY <1>2 DEF Waits, Statuses, Calls, PendingWell
<1> QED BY <1>1, <1>2, <1>3, ServedConclude

LEMMA ServedRequest == Typed /\ RequestAt /\ Served => Served'
<1> SUFFICES ASSUME Typed, RequestAt, Served PROVE Served'
  OBVIOUS
<1>0. PICK n : n = Callee
  OBVIOUS
<1>1. /\ ~Idle /\ n \in Nodes /\ Members(agenda) = {Head(agenda)} \cup Rest
      /\ \/ revision[n] = 0 /\ slot' = slot /\ Members(agenda') = Rest
         \/ /\ revision[n] > 0 /\ Members(agenda') = {Bind(n, 1)} \cup Rest
            /\ \A m \in Nodes \ {n} : slot'[m] = slot[m]
            /\ slot'[n].status = slot[n].status /\ slot'[n].readers = slot[n].readers
      /\ UNCHANGED held
  BY <1>0, RequestFacts
<1>2. \A m \in Nodes \ {n} : Apart(m)
  <2>1. \A m \in Nodes \ {n} : slot'[m] = slot[m]
    BY <1>1
  <2>2. slot'[n].status = slot[n].status /\ Members(slot'[n].readers) = Members(slot[n].readers) /\ Rest \subseteq Members(agenda')
    BY <1>1
  <2> QED BY <1>0, <1>1, <2>1, <2>2, OthersApart
<1>3. ~Pending(n)' \/ Attended(n)'
  <2>1. CASE revision[n] = 0
    BY <1>1, <2>1 DEF Typed, Known, Pending
  <2>2. CASE revision[n] > 0
    BY <1>1, <2>2, CallNames DEF Attended, Due, DueCalls
  <2> QED BY <1>1, <2>1, <2>2
<1> QED BY <1>1, <1>2, <1>3, ServedKept

LEMMA ServedBind == Typed /\ BindNext /\ Served => Served'
<1> SUFFICES ASSUME Typed, BindNext, Served PROVE Served'
  OBVIOUS
<1>0. PICK n, i, u : n = Callee /\ i = Head(agenda).input /\ u = Reads[n][i]
  OBVIOUS
<1>1. /\ ~Idle /\ n \in Nodes /\ Members(agenda) = {Head(agenda)} \cup Rest
      /\ \/ Members(agenda') = {Serve(n, "request", FALSE)} \cup Rest
         \/ Members(agenda') = {Request(u, slot[n].cursor), Register(u, n), Bind(n, i + 1)} \cup Rest
      /\ UNCHANGED <<held, slot>>
  BY <1>0, BindFacts
<1>1a. slot' = slot /\ Rest \subseteq Members(agenda')
  BY <1>1
<1>1b. /\ \A m \in Nodes \ {n} : slot'[m] = slot[m]
       /\ Members(slot'[n].readers) = Members(slot[n].readers) /\ slot'[n].status = slot[n].status
  BY <1>1a
<1>2. \A m \in Nodes \ {n} : Apart(m)
  <2>1. ~Idle /\ Members(agenda) = {Head(agenda)} \cup Rest
    BY <1>1
  <2>2. Rest \subseteq Members(agenda')
    BY <1>1a
  <2> QED BY <1>0, <1>1b, <2>1, <2>2, OthersApart
<1>3. Attended(n)'
  <2>1. \E c \in Members(agenda') : c.call \in DueCalls /\ c.node = n
    <3>1. CASE Members(agenda') = {Serve(n, "request", FALSE)} \cup Rest
      <4>1. Serve(n, "request", FALSE) \in Members(agenda')
        BY <3>1
      <4> QED BY <4>1 DEF Serve, DueCalls
    <3>2. CASE Members(agenda') = {Request(u, slot[n].cursor), Register(u, n), Bind(n, i + 1)} \cup Rest
      <4>1. Bind(n, i + 1) \in Members(agenda')
        BY <3>2
      <4> QED BY <4>1 DEF Bind, DueCalls
    <3> QED BY <1>1, <3>1, <3>2
  <2> QED BY <2>1 DEF Attended, Due
<1> QED BY <1>1, <1>2, <1>3, ServedKept

LEMMA ServedOneReader == Typed /\ ServeOneReader /\ Served => Served'
<1> SUFFICES ASSUME Typed, ServeOneReader, Served PROVE Served'
  OBVIOUS
<1>0. PICK n : n = Callee
  OBVIOUS
<1>1. /\ Calls("reader") /\ ~Idle /\ n \in Nodes /\ Members(agenda) = {Head(agenda)} \cup Rest
      /\ Rest \subseteq Members(agenda')
      /\ revision[n] > 0 /\ slot[n].running = NoRun /\ slot[n].wait = "upstream" => Serve(n, "retry", FALSE) \in Members(agenda')
      /\ UNCHANGED <<held, slot>>
  BY <1>0, OneReaderFacts
<1>1a. slot' = slot /\ Rest \subseteq Members(agenda')
  BY <1>1
<1>1b. /\ \A m \in Nodes \ {n} : slot'[m] = slot[m]
       /\ Members(slot'[n].readers) = Members(slot[n].readers) /\ slot'[n].status = slot[n].status
  BY <1>1a
<1>2. \A m \in Nodes \ {n} : Apart(m)
  <2>1. ~Idle /\ Members(agenda) = {Head(agenda)} \cup Rest
    BY <1>1
  <2>2. Rest \subseteq Members(agenda')
    BY <1>1a
  <2> QED BY <1>0, <1>1b, <2>1, <2>2, OthersApart
<1>3. ASSUME Pending(n)' PROVE Attended(n)'
  <2>1. slot[n].requested /\ revision[n] > 0 /\ Attended(n)
    BY <1>1, <1>3 DEF Pending, Served, Typed, Known
  <2>2. CASE slot[n].running # NoRun \/ slot[n].wait = "room"
    BY <1>1, <2>2 DEF Attended
  <2>3. CASE Due(n)
    BY <1>1, <2>3 DEF Attended, Due, DueCalls, Calls
  <2>4. CASE slot[n].running = NoRun /\ slot[n].wait = "upstream"
    <3>1. Serve(n, "retry", FALSE) \in Members(agenda')
      BY <1>1, <2>1, <2>4
    <3> QED BY <3>1 DEF Attended, Due, Serve, DueCalls
  <2> QED BY <2>1, <2>2, <2>3, <2>4 DEF Attended
<1> QED BY <1>1, <1>2, <1>3, ServedKept

LEMMA ServedSupersede == Typed /\ SupersedeNode /\ Served => Served'
<1> SUFFICES ASSUME Typed, SupersedeNode, Served PROVE Served'
  OBVIOUS
<1>0. PICK n : n = Callee
  OBVIOUS
<1>1. /\ ~Idle /\ n \in Nodes /\ Members(agenda) = {Head(agenda)} \cup Rest
      /\ \/ ~slot[n].requested /\ Members(agenda') = Rest
         \/ slot[n].requested /\ Members(agenda') = {Request(n, slot[n].cursor)} \cup Rest
      /\ \A m \in Nodes \ {n} : slot'[m] = slot[m]
      /\ slot'[n].requested = slot[n].requested /\ slot'[n].status = slot[n].status /\ slot'[n].readers = slot[n].readers
      /\ UNCHANGED held
  BY <1>0, SupersedeFacts
<1>2. \A m \in Nodes \ {n} : Apart(m)
  <2>1. Rest \subseteq Members(agenda') /\ Members(slot'[n].readers) = Members(slot[n].readers)
    BY <1>1
  <2> QED BY <1>0, <1>1, <2>1, OthersApart
<1>3. ~Pending(n)' \/ Attended(n)'
  BY <1>1, CallNames DEF Pending, Attended, Due, DueCalls
<1> QED BY <1>1, <1>2, <1>3, ServedKept

LEMMA ServedWithdraw == Typed /\ WithdrawNode /\ Served => Served'
<1> SUFFICES ASSUME Typed, WithdrawNode, Served PROVE Served'
  OBVIOUS
<1>0. PICK n : n = Callee
  OBVIOUS
<1>1. /\ Calls("withdraw") /\ ~Idle /\ n \in Nodes /\ Members(agenda) = {Head(agenda)} \cup Rest
      /\ UNCHANGED held
      /\ \/ Members(agenda') = Rest /\ UNCHANGED slot
         \/ /\ \A m \in Nodes \ {n} : slot'[m] = slot[m]
            /\ ~slot'[n].requested /\ slot'[n].readers = slot[n].readers
            /\ \E calls \in Seq(Chores), ups \in SUBSET Nodes :
                    /\ Members(agenda') = Members(calls) \cup Rest
                    /\ Members(calls) = {ServeReader(m, TRUE) : m \in Members(slot[n].readers)} \cup {Withdraw(u) : u \in ups}
  BY <1>0, WithdrawFacts
<1>2. CASE Members(agenda') = Rest /\ UNCHANGED slot
  <2>0. /\ \A m \in Nodes : slot'[m] = slot[m]
        /\ Members(slot'[n].readers) = Members(slot[n].readers) /\ slot'[n].status = slot[n].status
        /\ Rest \subseteq Members(agenda')
    BY <1>2
  <2>1. \A m \in Nodes \ {n} : Apart(m)
    <3>1. ~Idle /\ Members(agenda) = {Head(agenda)} \cup Rest
      BY <1>1
    <3> QED BY <1>0, <2>0, <3>1, OthersApart
  <2>2. \A c \in Members(agenda) : c.call \in DueCalls \cup {"reader"} => c \in Members(agenda')
    BY <1>1, <1>2 DEF Calls, DueCalls
  <2>3. Apart(n)
    BY <1>2, <2>2 DEF Apart, Reader
  <2> QED BY <1>1, <2>1, <2>3, ServedKept
<1>3. CASE ~(Members(agenda') = Rest /\ UNCHANGED slot)
  <2>1. PICK calls, ups : /\ Members(agenda') = Members(calls) \cup Rest
                    /\ Members(calls) = {ServeReader(m, TRUE) : m \in Members(slot[n].readers)} \cup {Withdraw(u) : u \in ups}
    BY <1>1, <1>3
  <2>2. \A m \in Members(slot[n].readers) : To("reader", m)'
    <3>1. \A m \in Members(slot[n].readers) : ServeReader(m, TRUE) \in Members(agenda')
      BY <2>1
    <3> QED BY <3>1 DEF To, ServeReader
  <2>3. \A m \in Nodes \ {n} : slot'[m] = slot[m]
    BY <1>1, <1>3
  <2>4. slot'[n].readers = slot[n].readers /\ Rest \subseteq Members(agenda') /\ ~slot'[n].requested
    BY <1>1, <1>3, <2>1
  <2>5. \A m \in Nodes \ {n} : Apart(m)
    BY <1>0, <1>1, <2>2, <2>3, <2>4, OthersApart
  <2>6. ~Pending(n)'
    BY <2>4 DEF Pending
  <2> QED BY <1>1, <2>5, <2>6, ServedKept
<1> QED BY <1>2, <1>3

(* A call on no request: every node stays as it is. *)
LEMMA AllApart ==
  ASSUME TypeOK, Served, held' = held, \A c \in Members(agenda) : c.call \in DueCalls \cup {"reader"} => c \in Members(agenda'),
         \A m \in Nodes : /\ slot'[m].requested = slot[m].requested /\ slot'[m].status = slot[m].status
                          /\ slot'[m].wait = slot[m].wait /\ slot'[m].running = slot[m].running
                          /\ Members(slot[m].readers) \subseteq Members(slot'[m].readers)
  PROVE  Served'
<1>1. ASSUME NEW n \in Nodes PROVE Apart(n)
  <2>1. UpstreamsOf(n) \subseteq Nodes
    BY UpstreamNodes
  <2> QED BY <2>1 DEF Apart, Reader
<1> QED BY <1>1, ServedKept

LEMMA ServedRest == Typed /\ Served /\ (RegisterReader \/ ReturnRoom \/ DrainBegins) => Served'
<1>0. Typed => TypeOK
  BY DEF Typed
<1>1. ASSUME Typed, Served, RegisterReader PROVE Served'
  <2>0. PICK u, n : u = Callee /\ n = Head(agenda).reader
    OBVIOUS
  <2>1. /\ Calls("register") /\ Members(agenda) = {Head(agenda)} \cup Rest /\ Members(agenda') = Rest /\ held' = held
        /\ \A m \in Nodes \ {u} : slot'[m] = slot[m]
        /\ slot'[u].running = slot[u].running /\ slot'[u].requested = slot[u].requested /\ slot'[u].wait = slot[u].wait
        /\ slot'[u].status = slot[u].status
        /\ slot[u].cursor # NoTime => Members(slot'[u].readers) = Members(slot[u].readers) \cup {n}
        /\ slot[u].cursor = NoTime => slot'[u] = slot[u]
    BY <1>1, <2>0, RegisterFacts
  <2>2. \A c \in Members(agenda) : c.call \in DueCalls \cup {"reader"} => c \in Members(agenda')
    BY <2>1 DEF Calls, DueCalls
  <2>3. \A m \in Nodes : /\ slot'[m].requested = slot[m].requested /\ slot'[m].status = slot[m].status
                          /\ slot'[m].wait = slot[m].wait /\ slot'[m].running = slot[m].running
                          /\ Members(slot[m].readers) \subseteq Members(slot'[m].readers)
    BY <2>1
  <2> QED BY <1>0, <1>1, <2>1, <2>2, <2>3, AllApart
<1>2. ASSUME Typed, Served, ReturnRoom \/ DrainBegins PROVE Served'
  <2>1. /\ Calls("giveBack") \/ Calls("drain")
        /\ Members(agenda) = {Head(agenda)} \cup Rest /\ Rest \subseteq Members(agenda') /\ held' = held /\ slot' = slot
    BY <1>2, ReturnFacts, DrainFacts
  <2>2. \A c \in Members(agenda) : c.call \in DueCalls \cup {"reader"} => c \in Members(agenda')
    BY <2>1 DEF Calls, DueCalls
  <2> QED BY <1>0, <1>2, <2>1, <2>2, AllApart
<1> QED BY <1>1, <1>2

LEMMA ServedGrant == Typed /\ Served /\ Grant => Served'
<1> SUFFICES ASSUME Typed, Served, Grant PROVE Served'
  OBVIOUS
<1>0. PICK n : n = Head(budget.line)
  OBVIOUS
<1>1. /\ Calls("granting") /\ Members(agenda) = {Head(agenda)} \cup Rest /\ held' = held
      /\ \/ slot' = slot /\ Members(agenda') = Rest
         \/ /\ \A m \in Nodes \ {n} : slot'[m] = slot[m]
            /\ slot'[n].running = slot[n].running /\ slot'[n].requested = slot[n].requested
            /\ slot'[n].status = slot[n].status /\ slot'[n].readers = slot[n].readers
            /\ Members(agenda') = {Serve(n, "retry", TRUE), Granting} \cup Rest
  BY <1>0, GrantFacts
<1>2. \A c \in Members(agenda) : c.call \in DueCalls \cup {"reader"} => c \in Members(agenda')
  BY <1>1 DEF Calls, DueCalls
<1>3. ASSUME NEW m \in Nodes PROVE Attended(m)' \/ Apart(m)
  <2>1. CASE slot' = slot
    <3>1. \A u \in Nodes : slot'[u].status = slot[u].status /\ slot'[u].readers = slot[u].readers
      BY <2>1
    <3>2. slot'[m] = slot[m] /\ UpstreamsOf(m) \subseteq Nodes
      BY <2>1, UpstreamNodes
    <3> QED BY <1>2, <3>1, <3>2 DEF Apart, Reader
  <2>2. CASE slot' # slot /\ m = n
    <3>1. Serve(n, "retry", TRUE) \in Members(agenda')
      BY <1>1, <2>2
    <3> QED BY <2>2, <3>1 DEF Attended, Due, Serve, DueCalls
  <2>3. CASE slot' # slot /\ m # n
    <3>1. slot'[m] = slot[m] /\ UpstreamsOf(m) \subseteq Nodes
      BY <1>1, <2>3, UpstreamNodes
    <3>2. \A u \in Nodes : slot'[u].status = slot[u].status /\ slot'[u].readers = slot[u].readers
      BY <1>1, <2>3
    <3> QED BY <1>2, <3>1, <3>2 DEF Apart, Reader
  <2> QED BY <2>1, <2>2, <2>3
<1> QED BY <1>1, <1>3, ServedKept

(* Between two events nothing is to be called, and a node's share is its slot's. *)
LEMMA IdleApart ==
  ASSUME TypeOK, Idle, NEW n \in Nodes,
         slot'[n].requested = slot[n].requested, slot'[n].status = slot[n].status, slot'[n].wait = slot[n].wait,
         slot[n].running # NoRun => slot'[n].running # NoRun,
         \A u \in UpstreamsOf(n) : slot'[u].status = slot[u].status /\ slot'[u].readers = slot[u].readers
  PROVE  Apart(n)
<1>1. Members(agenda) = {}
  BY RestFacts
<1> QED BY <1>1 DEF Apart, Reader

LEMMA ServedFinish == Typed /\ Served /\ (PostedDrain \/ Finish) => Served'
<1>0. Typed => TypeOK
  BY DEF Typed
<1>1. ASSUME Typed, Served, PostedDrain \/ FinishOrphan PROVE Served'
  <2>1. Idle /\ held' = held /\ slot' = slot
    BY <1>1, PostedFacts, OrphanFacts
  <2>2. \A n \in Nodes : Apart(n)
    BY <1>0, <1>1, <2>1, IdleApart
  <2> QED BY <1>1, <2>1, <2>2, ServedKept
<1>2. ASSUME Typed, Served, NEW n \in Nodes, held' = held, Idle, \E c \in Members(agenda') : c.call \in DueCalls /\ c.node = n,
             \A m \in Nodes \ {n} : slot'[m] = slot[m], slot'[n].status = slot[n].status, slot'[n].readers = slot[n].readers
      PROVE  Served'
  <2>1. Attended(n)'
    BY <1>2 DEF Attended, Due
  <2>2. ASSUME NEW m \in Nodes, m # n PROVE Apart(m)
    <3>1. \A u \in UpstreamsOf(m) : slot'[u].status = slot[u].status /\ slot'[u].readers = slot[u].readers
      BY <1>2, <2>2, UpstreamNodes
    <3>2. slot'[m] = slot[m]
      BY <1>2, <2>2
    <3> QED BY <1>0, <1>2, <3>1, <3>2, IdleApart
  <2> QED BY <1>2, <2>1, <2>2, ServedKept
<1>3. ASSUME Typed, Served, NEW n \in Nodes, FinishDropped(n) PROVE Served'
  <2>1. /\ Idle /\ held' = held /\ Members(agenda') = {Serve(n, "request", FALSE), Drain}
        /\ \A m \in Nodes \ {n} : slot'[m] = slot[m]
        /\ slot'[n].status = slot[n].status /\ slot'[n].readers = slot[n].readers
    BY <1>3, DroppedRunFacts
  <2>2. \E c \in Members(agenda') : c.call \in DueCalls /\ c.node = n
    <3>1. Serve(n, "request", FALSE) \in Members(agenda')
      BY <2>1
    <3> QED BY <3>1 DEF DueCalls, Serve
  <2> QED BY <1>2, <1>3, <2>1, <2>2
<1>4. ASSUME Typed, Served, NEW n \in Nodes, NEW outcome, FinishRun(n, outcome) PROVE Served'
  <2>0. /\ Idle /\ UNCHANGED <<graph, data, epoch, held, orphans, events>>
        /\ Members(agenda') = {ServeReader(m, FALSE) : m \in Members(slot[n].readers)} \cup {Ending(n, outcome), Drain}
        /\ \A m \in Nodes \ {n} : slot'[m] = slot[m]
        /\ slot'[n].status = slot[n].status /\ slot'[n].readers = slot[n].readers
    BY <1>4, FinishFacts, Zenon
  <2>1. held' = held /\ Ending(n, outcome) \in Members(agenda')
    BY <2>0
  <2>2. Ending(n, outcome).call \in DueCalls /\ Ending(n, outcome).node = n
    BY DEF Ending, Serve, SettleServed, DueCalls
  <2> QED BY <1>2, <1>4, <2>0, <2>1, <2>2
<1> QED BY <1>1, <1>3, <1>4 DEF Finish

LEMMA ServedEvents ==
  Typed /\ Served /\
    (\/ Suspend \/ Replace \/ Resume \/ Arrive \/ Retire
     \/ \E n \in Nodes : WithdrawEvent(n) \/ \E t \in Times : RequestEvent(n, t)) => Served'
<1>0. Typed => TypeOK
  BY DEF Typed
<1>1. ASSUME Typed, Served, NEW n \in Nodes, WithdrawEvent(n) \/ \E t \in Times : RequestEvent(n, t) PROVE Served'
  <2>1. Idle /\ held' = held /\ slot' = slot
    BY <1>1, WithdrawEventFacts, RequestEventFacts
  <2>2. \A m \in Nodes : Apart(m)
    BY <1>0, <1>1, <2>1, IdleApart
  <2> QED BY <1>1, <2>1, <2>2, ServedKept
<1>2. ASSUME Typed, Served, Replace \/ Arrive \/ Retire PROVE Served'
  <2>1. Idle /\ held' = held /\ slot' = slot
    BY <1>2, ReplaceFacts, ArriveFacts, RetireFacts
  <2>2. \A m \in Nodes : Apart(m)
    BY <1>0, <1>2, <2>1, IdleApart
  <2> QED BY <1>2, <2>1, <2>2, ServedKept
<1>3. ASSUME Typed, Suspend PROVE Served'
  <2>1. held' = held + 1 /\ held \in Nat
    BY <1>3, SuspendFacts DEF Typed, TypeOK
  <2>2. held' # 0
    BY <2>1
  <2> QED BY <2>2 DEF Served, Pending
<1>4. ASSUME Typed, Resume PROVE Served'
  <2>1. /\ held > 0 /\ held' = held - 1 /\ held \in Nat /\ slot' = slot
        /\ held = 1 => Members(agenda') = {Request(m, slot[m].cursor) : m \in Again}
    BY <1>4, ResumeFacts DEF Typed, TypeOK
  <2>2. ASSUME NEW n \in Nodes, Pending(n)' PROVE Attended(n)'
    <3>1. held' = 0 /\ slot[n].requested
      BY <2>1, <2>2 DEF Pending
    <3>2. held = 1
      BY <2>1, <3>1
    <3>3. n \in Again
      BY <1>4, <3>1 DEF Again, Typed, Known
    <3>4. Request(n, slot[n].cursor) \in Members(agenda')
      BY <2>1, <3>2, <3>3
    <3> QED BY <3>4 DEF Attended, Due, DueCalls, Request
  <2> QED BY <2>2 DEF Served
<1> QED BY <1>1, <1>2, <1>3, <1>4

LEMMA ServedInstall ==
  ASSUME Typed, Served, NEW n \in Nodes, Install(n)
  PROVE  Served'
<1>1. Idle /\ held' = held /\ slot' = slot
  BY InstallFacts
<1>2. \A m \in Nodes : Apart(m)
  BY <1>1, IdleApart DEF Typed
<1> QED BY <1>1, <1>2, ServedKept

(* A reader of a removed node is requested again. *)
LEMMA ServedRemove ==
  ASSUME Typed, Served, NEW n \in Nodes, Remove(n)
  PROVE  Served'
<1>1. /\ Idle /\ held' = held /\ slot'[n] = NoSlot /\ \A m \in Nodes \ {n} : slot'[m] = slot[m]
      /\ Members(agenda') = {Supersede(m) : m \in Members(DependentsOf(n))}
  BY RemoveFacts
<1>2. ~Pending(n)'
  BY <1>1 DEF Pending, NoSlot
<1>3. ASSUME NEW m \in Nodes, m # n, Pending(m)', n \in UpstreamsOf(m) PROVE Attended(m)'
  <2>1. revision[m] > 0
    BY <1>1, <1>3 DEF Pending, Typed, Known
  <2>2. Supersede(m) \in Members(agenda')
    BY <1>1, <1>3, <2>1, DependentsFacts
  <2> QED BY <2>2 DEF Attended, Due, DueCalls, Supersede
<1>4. ASSUME NEW m \in Nodes, m # n, n \notin UpstreamsOf(m) PROVE Apart(m)
  <2>1. \A u \in UpstreamsOf(m) : slot'[u] = slot[u]
    BY <1>1, <1>4, UpstreamNodes
  <2> QED BY <1>1, <1>4, <2>1, IdleApart DEF Typed
<1> QED BY <1>1, <1>2, <1>3, <1>4, ServedKept

LEMMA ServedInit == Init => Served
<1> SUFFICES ASSUME Init, NEW n \in Nodes PROVE ~Pending(n)
  BY DEF Served
<1>1. slot[n] = NoSlot
  BY DEF Init
<1> QED BY <1>1 DEF Pending, NoSlot

LEMMA ServedStutter == Served /\ UNCHANGED vars => Served'
BY DEF Served, Pending, Attended, Due, To, Reader, Members, vars

LEMMA ServedStep == Typed /\ Registered /\ Served /\ [Next]_vars => Served'
<1> SUFFICES ASSUME Typed, Registered, Served, Next PROVE Served'
  BY ServedStutter
<1>0. Registered'
  BY RegisteredStep
<1>1. CASE CallStep
  BY <1>0, <1>1, ServedServe, ServedRequest, ServedBind, ServedOneReader, ServedSettle, ServedSupersede, ServedWithdraw,
     ServedRest, ServedGrant DEF CallStep
<1>2. CASE Environment
  BY <1>2, ServedInstall, ServedRemove, ServedEvents DEF Environment
<1>3. CASE PostedDrain \/ Finish
  BY <1>3, ServedFinish
<1> QED BY <1>1, <1>2, <1>3 DEF Next

LEMMA ServedIsNotStalled == Typed /\ Lined /\ Served => NoStalledRequest
<1> SUFFICES ASSUME Typed, Lined, Served, Idle, NEW n \in Nodes, slot[n].status = "pending", slot[n].requested, held = 0
             PROVE  \/ slot[n].running # NoRun
                    \/ /\ slot[n].wait = "room" /\ \E i \in 1 .. Len(budget.line) : budget.line[i] = n
                       /\ budget.posted \/ budget.reserved > 0
                    \/ slot[n].wait = "upstream" /\ \E u \in UpstreamsOf(n) : slot[u].status = "pending" /\ slot[u].requested
  BY DEF NoStalledRequest
<1>1. Members(agenda) = {}
  BY RestFacts DEF Typed
<1>2. \/ slot[n].running # NoRun \/ slot[n].wait = "room"
      \/ slot[n].wait = "upstream" /\ \E u \in UpstreamsOf(n) : slot[u].status = "pending"
  BY <1>1 DEF Served, Pending, Attended, Due, To
<1>3. CASE slot[n].wait = "room"
  <2>1. n \in Members(budget.line)
    BY <1>3 DEF Lined
  <2>2. PICK i \in 1 .. Len(budget.line) : budget.line[i] = n
    BY <2>1 DEF Members
  <2>3. budget.line \in Seq(Nodes) /\ budget.reserved \in Int
    BY DEF Typed, TypeOK, Budgets
  <2>4. budget.line # <<>>
    BY <2>2, <2>3
  <2>5. budget.posted \/ ~Fits(budget)
    BY <1>1, <2>4 DEF Lined, Moving
  <2>6. budget.posted \/ budget.reserved > 0
    BY <2>3, <2>5, ConstantFacts DEF Fits
  <2> QED BY <1>3, <2>2, <2>6
<1>4. CASE slot[n].wait = "upstream" /\ \E u \in UpstreamsOf(n) : slot[u].status = "pending"
  BY <1>4, UpstreamNodes DEF Typed, Known
<1> QED BY <1>2, <1>3, <1>4

(* NodeScheduler::serve, serveReaders, setWait and forget: between two events *)
(* a pending node has a run, a place in a line that moves, or an upstream     *)
(* pending itself, however many handlers called back from inside others.      *)
THEOREM NothingStalls == Spec => []NoStalledRequest
<1> DEFINE IInv == Typed /\ Lined /\ Registered /\ Served
<1>1. Init => IInv
  BY TypedInit, LinedInit, RegisteredInit, ServedInit
<1>2. IInv /\ [Next]_vars => IInv'
  BY TypedStep, LinedStep, RegisteredStep, ServedStep
<1>3. IInv => NoStalledRequest
  BY ServedIsNotStalled
<1> QED BY <1>1, <1>2, <1>3, PTL DEF Spec
=============================================================================
