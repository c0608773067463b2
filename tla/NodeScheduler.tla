--------------------------- MODULE NodeScheduler ---------------------------
(***************************************************************************)
(* pj_runtime's NodeScheduler, with what OnDemandService, InputStager,     *)
(* ResultHistory and InFlightBudget do for it: the on-demand nodes of one  *)
(* dataset, run one at a time each under the result policy D30.            *)
(*                                                                         *)
(* Everything here is GUI-thread code, except the computes, which only     *)
(* read what was staged: a run is in flight between its submission and its *)
(* finish.  A handler calls others, which call back (a settled node serves *)
(* its readers, whose settlements serve theirs): `agenda` holds the calls  *)
(* still to make, innermost first.  The next event waits for it to empty.  *)
(*                                                                         *)
(* Left out: the TF tree, video content, the shown lag, several outputs or *)
(* datasets, the byte budgets and window of the history (never reached     *)
(* here), and the store refusing a write.                                  *)
(***************************************************************************)
EXTENDS Integers, Sequences, FiniteSets

CONSTANTS
  Order,       (* the nodes' keys, in the order of a map of keys             *)
  Reads,       (* per node: the upstreams its inputs name, in their order    *)
  RawNodes,    (* the nodes with a topic of the dataset among their inputs   *)
  ReadsClock,  (* the nodes whose script reads the query clock               *)
  PinnedAt,    (* per node: a finding's pinned time, or NoTime               *)
  MaxTime,     (* bound: the times and stamps are 1 .. MaxTime               *)
  Capacity,    (* the runs the in-flight budget has room for                 *)
  Outcomes,    (* how a run may end                                          *)
  MaxEvents,   (* bound: the events of users and data in a behaviour         *)
  EventKinds,  (* the kinds of event a behaviour may have                    *)
  Topic,       (* names the topic in an input's identity                     *)
  NoRun, NoTime, NoFailure

Nodes == {Order[i] : i \in 1 .. Len(Order)}
Times == 1 .. MaxTime
UpstreamsOf(n) == {Reads[n][i] : i \in 1 .. Len(Reads[n])}

(* "shown" and "blank" are results, with an output available or without;    *)
(* "unreadable" is an input that could not be fetched or decoded.           *)
Outcome == {"shown", "blank", "error", "unreadable"}

(* A node's key is its own, and no edge closes a cycle (RecipeGraph refuses *)
(* the definition that would).                                             *)
ASSUME SchedulerAssumption ==
  /\ Order \in Seq(Nodes)
  /\ \A i, j \in 1 .. Len(Order) : Order[i] = Order[j] => i = j
  /\ Reads \in [Nodes -> Seq(Nodes)]
  /\ \A n \in Nodes : UpstreamsOf(n) # {} \/ n \in RawNodes
  /\ \E rank \in [Nodes -> 1 .. Len(Order)] :
       \A n \in Nodes : \A u \in UpstreamsOf(n) : rank[u] < rank[n]
  /\ RawNodes \subseteq Nodes /\ ReadsClock \subseteq Nodes
  /\ MaxTime \in Nat /\ MaxEvents \in Nat /\ Capacity \in Nat \ {0}
  /\ NoTime \notin Times /\ Topic \notin Nodes
  /\ PinnedAt \in [Nodes -> Times \cup {NoTime}]
  /\ Outcomes \subseteq Outcome

(* What a stored or staged result is filed under: its node's revision, the  *)
(* epoch, its inputs' identities and the clock its run read, if any.        *)
Identity == ({Topic} \X Nat) \cup (Nodes \X (Nat \X Nat))
Keys == [revision : Nat, epoch : Nat, inputs : SUBSET Identity, clock : Times \cup {NoTime}]
Jobs == [key : Keys, stamp : Nat, t : Times, cancelled : BOOLEAN]

ASSUME NoRunAssumption == NoRun \notin Jobs

VARIABLES
  graph,    (* the recipes: each node's revision, 0 when removed, and the next *)
  data,     (* the topic's entries are stamped data.oldest .. data.newest      *)
  epoch,    (* the dataset's                                                   *)
  held,     (* held_: the dataset's holds                                      *)
  slot,     (* slots_, a node never requested having an initial one            *)
  history,  (* per node: ResultHistory's ring and the results only cached      *)
  budget,   (* InFlightBudget: rooms reserved, line, whether a drain is posted *)
  orphans,  (* runs of forgotten slots still in flight                         *)
  agenda,   (* the calls still to make                                         *)
  events    (* how many events happened                                        *)

vars == <<graph, data, epoch, held, slot, history, budget, orphans, agenda, events>>

NoSlot == [running |-> NoRun, requested |-> FALSE, wait |-> "none", cursor |-> NoTime,
           status |-> "idle", failure |-> NoFailure, readers |-> <<>>]
NoHistory == [ring |-> {}, late |-> {}, dropped |-> FALSE, uids |-> 0]

revision == graph.revision

(* The upstreams n reads, directly or through nodes of the graph. *)
Above[n \in Nodes] ==
  IF revision[n] = 0 THEN {} ELSE UpstreamsOf(n) \cup UNION {Above[u] : u \in UpstreamsOf(n)}

(* The members of seq that are in S, in their order. *)
Among(seq, S) ==
  LET kept[i \in 0 .. Len(seq)] ==
        IF i = 0 THEN <<>>
        ELSE IF seq[i] \in S THEN Append(kept[i - 1], seq[i]) ELSE kept[i - 1]
  IN  kept[Len(seq)]

(* dependentsOf, in its order. *)
DependentsOf(n) == Among(Order, {m \in Nodes : n \in Above[m]})

(* missingInput finds nothing: every upstream is in the graph. *)
Provided(n) == \A u \in Above[n] : revision[u] > 0

-----------------------------------------------------------------------------
(* A result's key, under which it is stored: its clock is NoTime unless the *)
(* run read it.  A tombstone's has no inputs.                               *)
Key(n, inputs) == [revision |-> revision[n], epoch |-> epoch, inputs |-> inputs, clock |-> NoTime]

(* serves, completes: a stored key is a request's, at time t. *)
Serves(stored, request, t) ==
  /\ stored.revision = request.revision /\ stored.epoch = request.epoch
  /\ stored.inputs = request.inputs
  /\ stored.clock \in {NoTime, t}

(* kFindingTimestamp: where the ring holds a finding, before every time. *)
At(n, stamp) == IF PinnedAt[n] = NoTime THEN stamp ELSE 0

(* What the ring of h shows at t: the newest result at or before t, if any. *)
ShownAt(h, t) ==
  {e \in h.ring : /\ e.at <= t /\ e.stamp <= t
                  /\ \A other \in h.ring : other.at <= t => other.at <= e.at}

ShowsAvailable(h, t) == \E e \in ShownAt(h, t) : e.available

(* publish: the ring takes the result at its stamp unless it is cache-only *)
(* and another is there; a result the ring does not hold is cached whole.  *)
Published(n, stamp, key, available, cacheOnly) ==
  LET h == history[n]
      same == {e \in h.ring : e.at = At(n, stamp)}
      result == [stamp |-> stamp, key |-> key, available |-> available]
      entry == [at |-> At(n, stamp), stamp |-> stamp, key |-> key, available |-> available,
                uid |-> <<revision[n], h.uids + 1>>]
  IN  CASE \E e \in same : e.key = key -> [h EXCEPT !.dropped = FALSE]
        [] cacheOnly /\ same # {} /\ (\A e \in same : e.key # key) ->
             [h EXCEPT !.late = @ \cup {result}, !.dropped = FALSE]
        [] OTHER -> [ring |-> (h.ring \ same) \cup {entry}, late |-> h.late \ {result},
                     dropped |-> FALSE, uids |-> h.uids + 1]

(* Mutant of clearShown: the entry shown is dropped, with no tombstone. *)
ClearedBare(n, stamp) == [history[n] EXCEPT !.ring = @ \ ShownAt(history[n], stamp)]

(* clearShown: a tombstone at stamp, where a result is shown, or where none *)
(* is while a layer may still draw one that was dropped.                    *)
Cleared(n, stamp) ==
  LET shown == ShownAt(history[n], stamp)
      drawn == IF shown # {} THEN ShowsAvailable(history[n], stamp) ELSE history[n].dropped
  IN  IF drawn THEN Published(n, stamp, Key(n, {}), FALSE, FALSE) ELSE history[n]

(* Mutant of supersedeTombstones: they stay. *)
TombstonesStay(n, h, stamp) == h

(* supersedeTombstones: those after stamp, up to the cursor, go. *)
TombstonesSuperseded(n, h, stamp) ==
  IF PinnedAt[n] # NoTime THEN h
  ELSE [h EXCEPT !.ring = {e \in @ : ~(stamp < e.at /\ e.at <= slot[n].cursor /\ e.key.inputs = {})}]

(* dropResults. *)
Dropped(h) == [h EXCEPT !.ring = {}, !.late = {}, !.dropped = @ \/ h.ring # {}]

-----------------------------------------------------------------------------
(* InputStager::stage at n's cursor: the newest entry of the topic at or    *)
(* before it, and what each upstream shows there.                           *)
Entries(t) == {s \in data.oldest .. data.newest : s <= t}
Newest(stamps) == CHOOSE s \in stamps : \A other \in stamps : other <= s

Staged(n) ==
  LET t == slot[n].cursor
      raw == {<<Topic, s, s>> : s \in IF n \in RawNodes /\ Entries(t) # {} THEN {Newest(Entries(t))} ELSE {}}
      read == UNION {{<<u, e.uid, e.stamp>> : e \in {r \in ShownAt(history[u], t) : r.available}} : u \in UpstreamsOf(n)}
  IN  [ok |-> /\ n \in RawNodes => raw # {}
              /\ \A u \in UpstreamsOf(n) : \E input \in read : input[1] = u,
       key |-> Key(n, {<<input[1], input[2]>> : input \in raw \cup read}),
       stamp |-> Newest({0} \cup {input[3] : input \in raw \cup read})]

(* lookup: the results of the history that serve the staged request. *)
RingHits(n) ==
  {e \in history[n].ring : e.at = At(n, Staged(n).stamp) /\ Serves(e.key, Staged(n).key, slot[n].cursor)}
CacheHits(n) ==
  {r \in history[n].late : r.stamp = Staged(n).stamp /\ Serves(r.key, Staged(n).key, slot[n].cursor)}

-----------------------------------------------------------------------------
(* The calls. *)
Request(n, t) == [call |-> "request", node |-> n, t |-> t]
Bind(n, i) == [call |-> "bind", node |-> n, input |-> i]
Register(u, n) == [call |-> "register", node |-> u, reader |-> n]
Serve(n, trigger, room) == [call |-> "serve", node |-> n, trigger |-> trigger, room |-> room]
ServeReader(n, waitingOnly) == [call |-> "reader", node |-> n, waitingOnly |-> waitingOnly]
SettleServed(n, stamp) == [call |-> "settle", node |-> n, stamp |-> stamp]
Supersede(n) == [call |-> "supersede", node |-> n]
Withdraw(n) == [call |-> "withdraw", node |-> n]
GiveBack == [call |-> "giveBack"]
Drain == [call |-> "drain"]
Granting == [call |-> "granting"]

(* serveReaders goes over a copy of the readers. *)
ServeReaders(n, waitingOnly) ==
  [i \in 1 .. Len(slot[n].readers) |-> ServeReader(slot[n].readers[i], waitingOnly)]

Idle == agenda = <<>>
Calls(call) == ~Idle /\ Head(agenda).call = call
Callee == Head(agenda).node
Then(calls) == agenda' = calls \o Tail(agenda)
Event(kind) == Idle /\ kind \in EventKinds /\ events < MaxEvents /\ events' = events + 1

-----------------------------------------------------------------------------
(* The budget's parts, see InFlightBudget. *)
Fits(b) == b.reserved < Capacity
Draining == \E i \in 1 .. Len(agenda) : agenda[i].call = "granting"
PostDrain(b) == [b EXCEPT !.posted = @ \/ (~Draining /\ b.line # <<>> /\ Fits(b))]
CanReserve == budget.line = <<>> /\ Fits(budget)

(* setWait's effect on the line: n is in it exactly while it waits for room. *)
LineAfter(n, wait) ==
  IF wait = "room"
    THEN IF slot[n].wait = "room" THEN budget ELSE PostDrain([budget EXCEPT !.line = Append(@, n)])
    ELSE IF slot[n].wait # "room" THEN budget
         ELSE PostDrain([budget EXCEPT !.line = Among(@, Nodes \ {n})])

(* Mutant of setState: only a ready node serves the readers waiting on it. *)
ConcludeTellsReady(n, wait, status, h, rest) ==
  /\ slot' = [slot EXCEPT ![n].wait = wait, ![n].status = status]
  /\ history' = [history EXCEPT ![n] = h]
  /\ budget' = LineAfter(n, wait)
  /\ Then((IF status = "ready" THEN ServeReaders(n, TRUE) ELSE <<>>) \o rest)
  /\ UNCHANGED <<graph, data, epoch, held, orphans, events>>

(* setWait and setState: a settlement serves the readers waiting on n. *)
Conclude(n, wait, status, h, rest) ==
  /\ slot' = [slot EXCEPT ![n].wait = wait, ![n].status = status]
  /\ history' = [history EXCEPT ![n] = h]
  /\ budget' = LineAfter(n, wait)
  /\ Then((IF status = "pending" THEN <<>> ELSE ServeReaders(n, TRUE)) \o rest)
  /\ UNCHANGED <<graph, data, epoch, held, orphans, events>>

-----------------------------------------------------------------------------
(* serve's checks: each holds when serve gets past it. *)
SameRequest(n) == {i \in 1 .. Len(Reads[n]) : slot[Reads[n][i]].cursor = slot[n].cursor}
FailedInputs(n) == {i \in SameRequest(n) : slot[Reads[n][i]].status \in {"missing", "error"}}
FirstFailed(n) == Reads[n][CHOOSE i \in FailedInputs(n) : \A j \in FailedInputs(n) : i <= j]

Servable(n) == slot[n].requested /\ held = 0
InputsStand(n) == Provided(n) /\ FailedInputs(n) = {}

(* A request waits for a pending upstream, a retry only while none is shown. *)
AwaitsUpstream(n, trigger) ==
  \E i \in SameRequest(n) :
     /\ slot[Reads[n][i]].status = "pending"
     /\ trigger = "request" \/ ~ShowsAvailable(history[Reads[n][i]], slot[n].cursor)

Staging(n, trigger) == Servable(n) /\ InputsStand(n) /\ ~AwaitsUpstream(n, trigger)

FailsAgain(n) ==
  slot[n].failure # NoFailure /\ Serves(slot[n].failure.key, Staged(n).key, slot[n].cursor)

MustRun(n, trigger) ==
  /\ Staging(n, trigger) /\ Staged(n).ok
  /\ ~FailsAgain(n) /\ RingHits(n) = {} /\ CacheHits(n) = {}

(* The node and trigger served, and the room it was granted, given back at *)
(* the end unless a run took it.                                           *)
Trigger == Head(agenda).trigger
Room == Head(agenda).room
Unused == IF Room THEN <<GiveBack>> ELSE <<>>

(* Mutant of settleMissing: what is shown stays. *)
SettleMissingUncleared(n, keepFinding) == Conclude(n, "none", "missing", history[n], Unused)

(* settleMissing: a finding may keep what it shows. *)
SettleMissing(n, keepFinding) ==
  IF keepFinding /\ PinnedAt[n] # NoTime /\ ShowsAvailable(history[n], slot[n].cursor)
    THEN Conclude(n, "none", "ready", history[n], Unused)
    ELSE Conclude(n, "none", "missing", Cleared(n, slot[n].cursor), Unused)

ServeWithdrawn ==
  /\ Calls("serve") /\ ~slot[Callee].requested
  /\ Then(Unused)
  /\ UNCHANGED <<graph, data, epoch, held, slot, history, budget, orphans, events>>

(* Mutant of serve under a hold: the room granted is not returned. *)
ServeHeldKeepsRoom ==
  /\ Calls("serve") /\ slot[Callee].requested /\ held > 0
  /\ Conclude(Callee, "none", "pending", history[Callee], <<>>)

ServeHeld ==
  /\ Calls("serve") /\ slot[Callee].requested /\ held > 0
  /\ Conclude(Callee, "none", "pending", history[Callee], Unused)

(* An upstream is gone, failed, or misses its own inputs. *)
ServeBelowMissing ==
  /\ Calls("serve") /\ Servable(Callee) /\ ~InputsStand(Callee)
  /\ SettleMissing(Callee, Provided(Callee) /\ slot[FirstFailed(Callee)].status = "missing")

ServeBehindUpstream ==
  /\ Calls("serve") /\ Servable(Callee) /\ InputsStand(Callee) /\ AwaitsUpstream(Callee, Trigger)
  /\ Conclude(Callee, "upstream", "pending", history[Callee], Unused)

ServeMissing ==
  /\ Calls("serve") /\ Staging(Callee, Trigger) /\ ~Staged(Callee).ok
  /\ SettleMissing(Callee, TRUE)

(* The remembered failure: the same inputs fail again without a run. *)
ServeFailure ==
  /\ Calls("serve") /\ Staging(Callee, Trigger) /\ Staged(Callee).ok /\ FailsAgain(Callee)
  /\ Conclude(Callee, "none", "error", Cleared(Callee, Staged(Callee).stamp), Unused)

(* A hit: the ring holds it, or only the cache and it is shown again. *)
ServeHit ==
  /\ Calls("serve") /\ Staging(Callee, Trigger) /\ Staged(Callee).ok /\ ~FailsAgain(Callee)
  /\ LET n == Callee
         stamp == Staged(n).stamp
         shown == IF RingHits(n) # {} THEN {history[n]}
                  ELSE {Published(n, stamp, r.key, r.available, FALSE) : r \in CacheHits(n)}
     IN  \E h \in shown : Conclude(n, "none", "ready", TombstonesSuperseded(n, h, stamp), Unused)

ServeWhileRunning ==
  /\ Calls("serve") /\ MustRun(Callee, Trigger) /\ slot[Callee].running # NoRun
  /\ Conclude(Callee, "run", "pending", history[Callee], Unused)

ServeFull ==
  /\ Calls("serve") /\ MustRun(Callee, Trigger) /\ slot[Callee].running = NoRun
  /\ ~Room /\ ~CanReserve
  /\ Conclude(Callee, "room", "pending", history[Callee], <<>>)

(* submit, with the room granted or one reserved now. *)
ServeRun ==
  /\ Calls("serve") /\ MustRun(Callee, Trigger) /\ slot[Callee].running = NoRun
  /\ Room \/ CanReserve
  /\ LET n == Callee
         job == [key |-> Staged(n).key, stamp |-> Staged(n).stamp, t |-> slot[n].cursor, cancelled |-> FALSE]
     IN  /\ slot' = [slot EXCEPT ![n].wait = "none", ![n].status = "pending", ![n].running = job]
         /\ budget' = [LineAfter(n, "none") EXCEPT !.reserved = IF Room THEN @ ELSE @ + 1]
  /\ Then(<<>>)
  /\ UNCHANGED <<graph, data, epoch, held, history, orphans, events>>

-----------------------------------------------------------------------------
(* requestAt: the cursor moves, a failed decode is forgotten, a run staged  *)
(* under another epoch is cancelled; the upstreams come first.              *)
RequestAt ==
  /\ Calls("request")
  /\ LET n == Callee
         t == IF PinnedAt[n] = NoTime THEN Head(agenda).t ELSE PinnedAt[n]
         old == slot[n]
     IN  IF revision[n] = 0 THEN Then(<<>>) /\ UNCHANGED slot
         ELSE /\ slot' = [slot EXCEPT ![n] =
                    [old EXCEPT !.requested = TRUE, !.cursor = t,
                       !.failure = IF old.failure # NoFailure /\ old.failure.decode THEN NoFailure ELSE old.failure,
                       !.running = IF old.running # NoRun /\ old.running.key.epoch # epoch
                                     THEN [old.running EXCEPT !.cancelled = TRUE] ELSE old.running]]
              /\ Then(<<Bind(n, 1)>>)
  /\ UNCHANGED <<graph, data, epoch, held, history, budget, orphans, events>>

(* Its loop over the bindings, then the serve. *)
BindNext ==
  /\ Calls("bind")
  /\ LET n == Callee
         i == Head(agenda).input
     IN  Then(IF i > Len(Reads[n]) THEN <<Serve(n, "request", FALSE)>>
              ELSE <<Request(Reads[n][i], slot[n].cursor), Register(Reads[n][i], n), Bind(n, i + 1)>>)
  /\ UNCHANGED <<graph, data, epoch, held, slot, history, budget, orphans, events>>

(* An upstream without a slot, unknown to the graph, takes no reader. *)
RegisterReader ==
  /\ Calls("register")
  /\ LET u == Callee
         n == Head(agenda).reader
         known == slot[u].cursor = NoTime \/ \E i \in 1 .. Len(slot[u].readers) : slot[u].readers[i] = n
     IN  slot' = IF known THEN slot ELSE [slot EXCEPT ![u].readers = Append(@, n)]
  /\ Then(<<>>)
  /\ UNCHANGED <<graph, data, epoch, held, history, budget, orphans, events>>

(* One turn of serveReaders. *)
ServeOneReader ==
  /\ Calls("reader")
  /\ LET n == Callee
         turn == IF Head(agenda).waitingOnly THEN slot[n].wait = "upstream" ELSE slot[n].wait # "room"
     IN  Then(IF revision[n] > 0 /\ slot[n].running = NoRun /\ turn
                THEN <<Serve(n, "retry", FALSE)>> ELSE <<>>)
  /\ UNCHANGED <<graph, data, epoch, held, slot, history, budget, orphans, events>>

Settle ==
  /\ Calls("settle")
  /\ LET stamp == Head(agenda).stamp
     IN  Conclude(Callee, "none", "ready", TombstonesSuperseded(Callee, history[Callee], stamp), <<>>)

(* supersede: a node whose meaning changed is requested again. *)
SupersedeNode ==
  /\ Calls("supersede")
  /\ LET n == Callee
         cancelled == IF slot[n].running = NoRun THEN NoRun ELSE [slot[n].running EXCEPT !.cancelled = TRUE]
     IN  /\ slot' = [slot EXCEPT ![n].running = cancelled, ![n].failure = NoFailure]
         /\ Then(IF slot[n].requested THEN <<Request(n, slot[n].cursor)>> ELSE <<>>)
  /\ UNCHANGED <<graph, data, epoch, held, history, budget, orphans, events>>

(* withdraw, unless a reader's request needs the node; then the upstreams  *)
(* nothing shows are withdrawn too.                                        *)
NeededByReader(n) ==
  \E i \in 1 .. Len(slot[n].readers) :
     LET reader == slot[n].readers[i] IN slot[reader].requested /\ revision[reader] > 0

WithdrawNode ==
  /\ Calls("withdraw")
  /\ LET n == Callee
         refused == revision[n] = 0 \/ slot[n].cursor = NoTime \/ NeededByReader(n)
         up == {u \in UpstreamsOf(n) : revision[u] > 0 /\ PinnedAt[u] = NoTime}
     IN  \/ /\ refused
            /\ Then(<<>>)
            /\ UNCHANGED <<slot, budget>>
         \/ /\ ~refused
            /\ slot' = [slot EXCEPT ![n].requested = FALSE, ![n].wait = "none", ![n].status = "idle"]
            /\ budget' = LineAfter(n, "none")
            /\ \E demanded \in SUBSET UpstreamsOf(n) :
                 LET undemanded == Among(Reads[n], up \ demanded)
                 IN  Then(ServeReaders(n, TRUE) \o [i \in 1 .. Len(undemanded) |-> Withdraw(undemanded[i])])
  /\ UNCHANGED <<graph, data, epoch, held, history, orphans, events>>

-----------------------------------------------------------------------------
(* A reservation returned unused. *)
ReturnRoom ==
  /\ Calls("giveBack")
  /\ budget' = PostDrain([budget EXCEPT !.reserved = @ - 1])
  /\ Then(<<>>)
  /\ UNCHANGED <<graph, data, epoch, held, slot, history, orphans, events>>

DrainBegins ==
  /\ Calls("drain")
  /\ Then(<<Granting>>)
  /\ UNCHANGED <<graph, data, epoch, held, slot, history, budget, orphans, events>>

(* drain's loop and admit: the head of the line is served with its room. *)
Grant ==
  /\ Calls("granting")
  /\ IF budget.line # <<>> /\ Fits(budget)
       THEN LET n == Head(budget.line) IN
              /\ budget' = [budget EXCEPT !.line = Tail(@), !.reserved = @ + 1]
              /\ slot' = [slot EXCEPT ![n].wait = "none"]
              /\ Then(<<Serve(n, "retry", TRUE), Granting>>)
       ELSE Then(<<>>) /\ UNCHANGED <<budget, slot>>
  /\ UNCHANGED <<graph, data, epoch, held, history, orphans, events>>

PostedDrain ==
  /\ Idle /\ budget.posted
  /\ budget' = [budget EXCEPT !.posted = FALSE]
  /\ agenda' = <<Drain>>
  /\ UNCHANGED <<graph, data, epoch, held, slot, history, orphans, events>>

(* finish of a forgotten node's run. *)
FinishOrphan ==
  /\ Idle /\ orphans > 0
  /\ orphans' = orphans - 1
  /\ budget' = PostDrain([budget EXCEPT !.reserved = @ - 1])
  /\ agenda' = <<Drain>>
  /\ UNCHANGED <<graph, data, epoch, held, slot, history, events>>

(* finish: its meaning changed since the run was staged. *)
Outdated(n) ==
  LET job == slot[n].running
  IN  job.cancelled \/ job.key.revision # revision[n] \/ job.key.epoch # epoch

(* Mutant of finish: a dropped run serves nothing. *)
FinishDroppedEnds(n) ==
  /\ Idle /\ slot[n].running # NoRun /\ Outdated(n)
  /\ slot' = [slot EXCEPT ![n].running = NoRun]
  /\ budget' = PostDrain([budget EXCEPT !.reserved = @ - 1])
  /\ agenda' = <<Drain>>
  /\ UNCHANGED <<graph, data, epoch, held, history, orphans, events>>

FinishDropped(n) ==
  /\ Idle /\ slot[n].running # NoRun /\ Outdated(n)
  /\ slot' = [slot EXCEPT ![n].running = NoRun]
  /\ budget' = PostDrain([budget EXCEPT !.reserved = @ - 1])
  /\ agenda' = <<Serve(n, "request", FALSE), Drain>>
  /\ UNCHANGED <<graph, data, epoch, held, history, orphans, events>>

(* Mutant of finish: every result settles the node. *)
FinishRunSettles(n, outcome) ==
  /\ Idle /\ slot[n].running # NoRun /\ ~Outdated(n)
  /\ outcome \in {"shown", "blank"}
  /\ LET job == slot[n].running
     IN  /\ slot' = [slot EXCEPT ![n].running = NoRun]
         /\ history' = [history EXCEPT ![n] = Published(n, job.stamp, job.key, outcome = "shown", FALSE)]
         /\ agenda' = ServeReaders(n, FALSE) \o <<SettleServed(n, job.stamp), Drain>>
  /\ budget' = PostDrain([budget EXCEPT !.reserved = @ - 1])
  /\ UNCHANGED <<graph, data, epoch, held, orphans, events>>

(* finish, apply: a result that does not serve the current request is only *)
(* cached; a failure is remembered, and clears when it serves.             *)
FinishRun(n, outcome) ==
  /\ Idle /\ slot[n].running # NoRun /\ ~Outdated(n)
  /\ LET job == slot[n].running
         stored == [job.key EXCEPT !.clock = IF n \in ReadsClock /\ outcome # "unreadable" THEN job.t ELSE NoTime]
         serves == Staged(n).ok /\ Serves(stored, Staged(n).key, slot[n].cursor)
         result == outcome \in {"shown", "blank"}
         end == IF serves /\ result THEN SettleServed(n, job.stamp) ELSE Serve(n, "request", FALSE)
     IN  /\ slot' = [slot EXCEPT ![n].running = NoRun,
                       ![n].failure = IF result THEN @ ELSE [key |-> stored, decode |-> outcome = "unreadable"]]
         /\ history' = [history EXCEPT ![n] =
              IF result THEN Published(n, job.stamp, stored, outcome = "shown", ~serves)
              ELSE IF serves THEN Cleared(n, job.stamp) ELSE @]
         /\ agenda' = ServeReaders(n, FALSE) \o <<end, Drain>>
  /\ budget' = PostDrain([budget EXCEPT !.reserved = @ - 1])
  /\ UNCHANGED <<graph, data, epoch, held, orphans, events>>

-----------------------------------------------------------------------------
(* The events.  A layer, the live edge or a finding requests a node; a     *)
(* layer goes.                                                             *)
RequestEvent(n, t) ==
  /\ Event("request") /\ revision[n] > 0
  /\ agenda' = <<Request(n, t)>>
  /\ UNCHANGED <<graph, data, epoch, held, slot, history, budget, orphans>>

WithdrawEvent(n) ==
  /\ Event("withdraw") /\ slot[n].requested
  /\ agenda' = <<Withdraw(n)>>
  /\ UNCHANGED <<graph, data, epoch, held, slot, history, budget, orphans>>

(* install: a new revision; the results of the node and of what depends on *)
(* it go.                                                                   *)
Install(n) ==
  /\ Event("install")
  /\ graph' = [next |-> graph.next + 1, revision |-> [revision EXCEPT ![n] = graph.next]]
  /\ LET readers == DependentsOf(n)
         stale == {n} \cup {readers[i] : i \in 1 .. Len(readers)}
     IN  /\ history' = [m \in Nodes |-> IF m \in stale THEN Dropped(history[m]) ELSE history[m]]
         /\ agenda' = <<Supersede(n)>> \o [i \in 1 .. Len(readers) |-> Supersede(readers[i])]
  /\ UNCHANGED <<data, epoch, held, slot, budget, orphans>>

(* remove: its run is cancelled and its slot, place in the line and topics *)
(* go.                                                                     *)
Remove(n) ==
  /\ Event("remove") /\ revision[n] > 0
  /\ graph' = [graph EXCEPT !.revision[n] = 0]
  /\ slot' = [slot EXCEPT ![n] = NoSlot]
  /\ orphans' = IF slot[n].running = NoRun THEN orphans ELSE orphans + 1
  /\ budget' = LineAfter(n, "none")
  /\ history' = [history EXCEPT ![n] = NoHistory]
  /\ LET readers == DependentsOf(n)
     IN  agenda' = [i \in 1 .. Len(readers) |-> Supersede(readers[i])]
  /\ UNCHANGED <<data, epoch, held>>

(* suspendOnDemand, clearDataset and hold: before the storage changes. *)
Suspend ==
  /\ Event("suspend")
  /\ epoch' = epoch + 1
  /\ held' = held + 1
  /\ history' = [n \in Nodes |-> Dropped(history[n])]
  /\ slot' = [n \in Nodes |->
       [slot[n] EXCEPT !.running = IF @ = NoRun THEN NoRun ELSE [@ EXCEPT !.cancelled = TRUE],
                       !.status = IF slot[n].requested THEN "pending" ELSE @]]
  /\ UNCHANGED <<graph, data, budget, orphans, agenda>>

(* The storage of a held dataset is replaced. *)
Replace ==
  /\ Idle /\ held > 0
  /\ \E oldest \in Times, newest \in 0 .. MaxTime : data' = [oldest |-> oldest, newest |-> newest]
  /\ data' # data
  /\ UNCHANGED <<graph, epoch, held, slot, history, budget, orphans, agenda, events>>

(* release: the last one requests again every node with a request. *)
Resume ==
  /\ Idle /\ held > 0
  /\ held' = held - 1
  /\ LET again == Among(Order, {n \in Nodes : slot[n].requested /\ revision[n] > 0})
     IN  agenda' = IF held > 1 THEN <<>>
                   ELSE [i \in 1 .. Len(again) |-> Request(again[i], slot[again[i]].cursor)]
  /\ UNCHANGED <<graph, data, epoch, slot, history, budget, orphans, events>>

(* A stream appends an entry; retention drops the oldest. *)
Arrive ==
  /\ Event("arrive") /\ data.newest < MaxTime
  /\ data' = [data EXCEPT !.newest = @ + 1]
  /\ UNCHANGED <<graph, epoch, held, slot, history, budget, orphans, agenda>>

Retire ==
  /\ Event("retire") /\ data.oldest <= data.newest
  /\ data' = [data EXCEPT !.oldest = @ + 1]
  /\ UNCHANGED <<graph, epoch, held, slot, history, budget, orphans, agenda>>

-----------------------------------------------------------------------------
Init ==
  /\ graph = [next |-> Len(Order) + 1, revision |-> [n \in Nodes |-> CHOOSE i \in 1 .. Len(Order) : Order[i] = n]]
  /\ data = [oldest |-> 1, newest |-> 1]
  /\ epoch = 0 /\ held = 0
  /\ slot = [n \in Nodes |-> NoSlot]
  /\ history = [n \in Nodes |-> NoHistory]
  /\ budget = [reserved |-> 0, line |-> <<>>, posted |-> FALSE]
  /\ orphans = 0 /\ agenda = <<>> /\ events = 0

ServeStep ==
  \/ ServeWithdrawn \/ ServeHeld \/ ServeBelowMissing \/ ServeBehindUpstream \/ ServeMissing
  \/ ServeFailure \/ ServeHit \/ ServeWhileRunning \/ ServeFull \/ ServeRun

CallStep ==
  \/ ServeStep \/ RequestAt \/ BindNext \/ RegisterReader \/ ServeOneReader \/ Settle
  \/ SupersedeNode \/ WithdrawNode \/ ReturnRoom \/ DrainBegins \/ Grant

Finish == FinishOrphan \/ \E n \in Nodes : FinishDropped(n) \/ \E outcome \in Outcomes : FinishRun(n, outcome)

Environment ==
  \/ \E n \in Nodes : Install(n) \/ Remove(n) \/ WithdrawEvent(n) \/ \E t \in Times : RequestEvent(n, t)
  \/ Suspend \/ Replace \/ Resume \/ Arrive \/ Retire

Next == CallStep \/ PostedDrain \/ Finish \/ Environment

Spec == Init /\ [][Next]_vars

(* The GUI thread goes on with the calls it made and delivers a posted     *)
(* drain; the pool ends every run (see EnginePool) and publishes it.       *)
Fairness ==
  /\ WF_vars(CallStep) /\ WF_vars(PostedDrain) /\ WF_vars(FinishOrphan)
  /\ \A n \in Nodes : WF_vars(FinishDropped(n) \/ \E outcome \in Outcomes : FinishRun(n, outcome))

FairSpec == Spec /\ Fairness

-----------------------------------------------------------------------------
(* Rooms are reserved for the runs in flight and the grants being served,   *)
(* one each: none leaks, whichever a removal or a cancel cuts short.        *)
RoomsExact ==
  LET granted == {i \in 1 .. Len(agenda) :
                    \/ agenda[i].call = "giveBack"
                    \/ agenda[i].call = "serve" /\ agenda[i].room}
  IN  /\ budget.reserved = Cardinality({n \in Nodes : slot[n].running # NoRun}) + orphans + Cardinality(granted)
      /\ budget.reserved <= Capacity

(* A node pending between two events has something that will serve it: the *)
(* run in flight, its place in a line that moves, a pending upstream, or   *)
(* the release of its dataset.                                             *)
NoStalledRequest ==
  Idle => \A n \in Nodes : slot[n].status = "pending" /\ slot[n].requested /\ held = 0 =>
    \/ slot[n].running # NoRun
    \/ /\ slot[n].wait = "room" /\ \E i \in 1 .. Len(budget.line) : budget.line[i] = n
       /\ budget.posted \/ budget.reserved > 0
    \/ slot[n].wait = "upstream" /\ \E u \in UpstreamsOf(n) : slot[u].status = "pending" /\ slot[u].requested

(* Each result was computed under the node's revision, the dataset's epoch *)
(* and its upstreams' revisions of now, though runs are never stopped.     *)
NoForeignResult ==
  Idle => \A n \in Nodes : \A r \in history[n].ring \cup history[n].late :
    /\ r.key.revision = revision[n] /\ r.key.epoch = epoch
    /\ \A input \in r.key.inputs : input[1] \in Nodes => revision[input[1]] \in {input[2][1], 0}

(* D6: between two events, a node whose request misses an input or failed  *)
(* shows no result at its cursor, whatever late runs publish.              *)
NothingShownForFailure ==
  Idle => \A n \in Nodes : slot[n].requested /\ slot[n].status \in {"missing", "error"} =>
    ~ShowsAvailable(history[n], slot[n].cursor)

(* D30: a node that is served shows a result for its request, of the       *)
(* meaning and the epoch of now: nothing newer, no tombstone, hides it.    *)
ReadyShowsResult ==
  /\ NoForeignResult
  /\ Idle => \A n \in Nodes : slot[n].requested /\ slot[n].status = "ready" /\ held = 0 =>
       \E e \in ShownAt(history[n], slot[n].cursor) : e.key.inputs # {}

(* A step that settles a node ready shows, at its cursor, the result its   *)
(* inputs produce now; only a finding may keep an older one.               *)
ReadyIsCurrent ==
  [][\A n \in Nodes : slot[n].status # "ready" /\ slot'[n].status = "ready" /\ PinnedAt[n] = NoTime =>
       \E e \in ShownAt(history'[n], slot'[n].cursor) : Serves(e.key, Staged(n)'.key, slot'[n].cursor)]_vars

(* D30: while the request stands, the display only moves forward: a result *)
(* shown at the cursor gives way to a newer one or to a tombstone.         *)
DisplayMovesForward ==
  [][\A n \in Nodes :
       /\ graph' = graph /\ epoch' = epoch /\ slot'[n].cursor = slot[n].cursor /\ slot[n].cursor # NoTime
       => \A e \in ShownAt(history[n], slot[n].cursor), f \in ShownAt(history'[n], slot[n].cursor) :
            e.available /\ f.available => e.stamp <= f.stamp]_vars

(* Once requests stop, every requested node settles. *)
Settles ==
  \A n \in Nodes : slot[n].requested /\ slot[n].status = "pending"
                     ~> (slot[n].status # "pending" \/ ~slot[n].requested \/ held > 0)
=============================================================================
