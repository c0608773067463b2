---------------------------- MODULE IngestRegistry ----------------------------
(***************************************************************************)
(* The registry of ingests of pj_runtime's SessionManager, for one dataset, *)
(* with the row pj_app's IngestProgressController shows for it.             *)
(*                                                                          *)
(* Everything runs on the GUI thread.  The signals are synchronous and      *)
(* re-entrant: an observer may begin, end or cancel an ingest from inside   *)
(* one, before the observers behind it hear of it.  `agenda` holds what is  *)
(* still to do of the calls under way, innermost first.                     *)
(*                                                                          *)
(* Left out: the progress numbers, the publication of the rows ingested,    *)
(* the labels, and the watchdog that only logs.                             *)
(***************************************************************************)
EXTENDS Integers, Sequences, FiniteSets

CONSTANTS
  ReentersFrom, (* the signals from inside which "reactor" calls back          *)
  MaxIngests,   (* bound: how many ingests begin                               *)
  MaxReactions, (* bound: how many calls the reactor makes                     *)
  NoEntry

Signal == {"began", "stopping", "ended"}

VARIABLES
  observers,  (* who hears each signal, in the order of their connection      *)
  live,       (* the entry of active_ingests_, or NoEntry                     *)
  nextId,     (* next_ingest_id_                                              *)
  rows,       (* the controller's entries                                     *)
  agenda,     (* what the calls under way have still to do                    *)
  handled,    (* how often each ingest's cancel handler ran                   *)
  ends,       (* how often each ingest's end was emitted                      *)
  reactions   (* how many calls the reactor made                              *)

vars == <<observers, live, nextId, rows, agenda, handled, ends, reactions>>

Ids == 1 .. MaxIngests
Entry == [id : Ids, cancellable : BOOLEAN, discardable : BOOLEAN, stopping : BOOLEAN]
Row == [id : Ids, state : {"loading", "stopping", "completed", "failed"}]
Outcome == {"completed", "failed", "cancelled", "unknown"}
Chore ==
  [call : {"deliver"}, to : {"reactor", "row"}, signal : Signal, id : Ids, outcome : Outcome]
    \cup [call : {"announce", "handler"}, id : Ids]

ASSUME RegistryAssumption ==
  /\ ReentersFrom \subseteq Signal
  /\ MaxIngests \in Nat /\ MaxReactions \in Nat
  /\ NoEntry \notin Entry

(* liveEntry. *)
Live(id) == live # NoEntry /\ live.id = id

Idle == agenda = <<>>
Doing(call) == ~Idle /\ Head(agenda).call = call
Then(calls) == agenda' = calls \o IF Idle THEN <<>> ELSE Tail(agenda)

(* An emission: each observer hears it in turn. *)
Emit(signal, id, outcome) ==
  [i \in 1 .. Len(observers) |->
     [call |-> "deliver", to |-> observers[i], signal |-> signal, id |-> id, outcome |-> outcome]]
Announce(id) == [call |-> "announce", id |-> id]
Handler(id) == [call |-> "handler", id |-> id]

-----------------------------------------------------------------------------
Orders == {<<"reactor", "row">>, <<"row", "reactor">>}

Init ==
  /\ observers \in Orders
  /\ live = NoEntry /\ nextId = 1 /\ rows = {} /\ agenda = <<>>
  /\ handled = [id \in Ids |-> 0] /\ ends = [id \in Ids |-> 0] /\ reactions = 0

CountEnd(id) == ends' = [ends EXCEPT ![id] = @ + 1]

(* beginIngest: the entry is replaced first, then the superseded ingest ends, *)
(* then this one is announced.                                                *)
Begin ==
  /\ nextId <= MaxIngests
  /\ \E cancellable \in BOOLEAN, discardable \in BOOLEAN :
       live' = [id |-> nextId, cancellable |-> cancellable, discardable |-> discardable, stopping |-> FALSE]
  /\ nextId' = nextId + 1
  /\ IF live = NoEntry THEN Then(<<Announce(nextId)>>) /\ UNCHANGED ends
     ELSE Then(Emit("ended", live.id, "cancelled") \o <<Announce(nextId)>>) /\ CountEnd(live.id)
  /\ UNCHANGED <<rows, handled>>

(* Mutant of the announcement: it does not look whether the ingest is stale. *)
AnnounceBeganAlways ==
  /\ Doing("announce")
  /\ Then(Emit("began", Head(agenda).id, "unknown"))
  /\ UNCHANGED <<live, nextId, rows, handled, ends, reactions>>

(* Its announcement, unless an observer of that end superseded it. *)
AnnounceBegan ==
  /\ Doing("announce")
  /\ Then(IF Live(Head(agenda).id) THEN Emit("began", Head(agenda).id, "unknown") ELSE <<>>)
  /\ UNCHANGED <<live, nextId, rows, handled, ends, reactions>>

(* Mutant of endIngest: a stale token ends the dataset's ingest. *)
EndStale(id, outcome) ==
  /\ IF live # NoEntry
       THEN /\ live' = NoEntry
            /\ CountEnd(id)
            /\ Then(Emit("ended", id, IF live.stopping THEN "cancelled" ELSE outcome))
       ELSE Then(<<>>) /\ UNCHANGED <<live, ends>>
  /\ UNCHANGED <<nextId, rows, handled>>

(* endIngest: a stale or ended token ends nothing; a stopped one is cancelled. *)
End(id, outcome) ==
  /\ IF Live(id)
       THEN /\ live' = NoEntry
            /\ CountEnd(id)
            /\ Then(Emit("ended", id, IF live.stopping THEN "cancelled" ELSE outcome))
       ELSE Then(<<>>) /\ UNCHANGED <<live, ends>>
  /\ UNCHANGED <<nextId, rows, handled>>

(* requestCancel: the first one accepted is announced, then the producer's *)
(* handler runs, from a copy.                                              *)
Cancel(id, keep) ==
  /\ IF Live(id) /\ live.cancellable /\ (keep \/ live.discardable) /\ ~live.stopping
       THEN /\ live' = [live EXCEPT !.stopping = TRUE]
            /\ Then(Emit("stopping", id, "unknown") \o <<Handler(id)>>)
       ELSE Then(<<>>) /\ UNCHANGED live
  /\ UNCHANGED <<nextId, rows, handled, ends>>

(* The handler asks the producer to stop, which may end the ingest at once. *)
RunHandler ==
  /\ Doing("handler")
  /\ LET id == Head(agenda).id IN
       /\ handled' = [handled EXCEPT ![id] = @ + 1]
       /\ \/ Then(<<>>) /\ UNCHANGED <<live, ends>>
          \/ /\ Live(id)
             /\ live' = NoEntry /\ CountEnd(id)
             /\ Then(Emit("ended", id, IF live.stopping THEN "cancelled" ELSE "unknown"))
  /\ UNCHANGED <<nextId, rows, reactions>>

(* The tokens anybody holds: those announced, or whose beginIngest returned. *)
Known == {id \in 1 .. nextId - 1 : \A i \in 1 .. Len(agenda) : agenda[i] # Announce(id)}

Call ==
  \/ Begin
  \/ \E id \in Known :
       (\E outcome \in Outcome \ {"cancelled"} : End(id, outcome)) \/ (\E keep \in BOOLEAN : Cancel(id, keep))

-----------------------------------------------------------------------------
(* A signal reaches the reactor, which may call back. *)
Hears(observer) == Doing("deliver") /\ Head(agenda).to = observer

ReactorHears ==
  /\ Hears("reactor")
  /\ \/ Then(<<>>) /\ UNCHANGED <<live, nextId, rows, handled, ends, reactions>>
     \/ /\ Head(agenda).signal \in ReentersFrom /\ reactions < MaxReactions
        /\ reactions' = reactions + 1
        /\ Call

(* onIngestBegan: any row the dataset still has goes, a new one comes. *)
RowBegan ==
  /\ Hears("row") /\ Head(agenda).signal = "began"
  /\ rows' = {[id |-> Head(agenda).id, state |-> "loading"]}
  /\ Then(<<>>) /\ UNCHANGED <<live, nextId, handled, ends, reactions>>

RowOf(id) == {r \in rows : r.id = id}

(* onIngestStopping, for a row that is there. *)
RowStopping ==
  /\ Hears("row") /\ Head(agenda).signal = "stopping"
  /\ LET id == Head(agenda).id
     IN  rows' = IF RowOf(id) = {} THEN rows ELSE (rows \ RowOf(id)) \cup {[id |-> id, state |-> "stopping"]}
  /\ Then(<<>>) /\ UNCHANGED <<live, nextId, handled, ends, reactions>>

(* onIngestEnded: a completed or failed row lingers, another goes at once. *)
RowEnded ==
  /\ Hears("row") /\ Head(agenda).signal = "ended"
  /\ LET id == Head(agenda).id
         outcome == Head(agenda).outcome
         lingering == IF outcome \in {"completed", "failed"} /\ RowOf(id) # {}
                        THEN {[id |-> id, state |-> outcome]} ELSE {}
     IN  rows' = (rows \ RowOf(id)) \cup lingering
  /\ Then(<<>>) /\ UNCHANGED <<live, nextId, handled, ends, reactions>>

(* A linger or a flash elapses. *)
RowRetires ==
  /\ Idle
  /\ \E r \in rows : r.state \in {"completed", "failed"} /\ rows' = rows \ {r}
  /\ UNCHANGED <<live, nextId, agenda, handled, ends, reactions>>

(* The user stops the ingest of a row that is shown. *)
RowClicked ==
  /\ Idle
  /\ \E r \in rows, keep \in BOOLEAN : Cancel(r.id, keep)
  /\ UNCHANGED reactions

(* A producer calls, with whatever token it kept. *)
Produce == Idle /\ Call /\ UNCHANGED reactions

Step == AnnounceBegan \/ RunHandler \/ ReactorHears \/ RowBegan \/ RowStopping \/ RowEnded

Act == Step \/ Produce \/ RowClicked \/ RowRetires

Next == Act /\ UNCHANGED observers

Spec == Init /\ [][Next]_vars

-----------------------------------------------------------------------------
(* Every variable holds what its C++ member can hold. *)
TypeOK ==
  /\ observers \in Orders
  /\ live \in Entry \cup {NoEntry}
  /\ nextId \in 1 .. MaxIngests + 1
  /\ rows \subseteq Row
  /\ agenda \in Seq(Chore)
  /\ handled \in [Ids -> Nat] /\ ends \in [Ids -> Nat]

(* Between two events the row shown as running is the live ingest's, stopping *)
(* when it is, and the dataset has no other running row, however deep the     *)
(* observers restarted, ended or stopped the ingest from inside its signals.  *)
RowsShowLive ==
  Idle => {r \in rows : r.state \in {"loading", "stopping"}} =
            IF live = NoEntry THEN {}
            ELSE {[id |-> live.id, state |-> IF live.stopping THEN "stopping" ELSE "loading"]}

(* Each ingest ends exactly once, a superseded, stopped or restarted one too,  *)
(* and a live one not yet; and first intent wins: its producer is told to stop *)
(* once, whatever the observers of the stop and the user ask for again.        *)
EndsOnce ==
  \A id \in 1 .. nextId - 1 : handled[id] <= 1 /\ ends[id] = IF Live(id) THEN 0 ELSE 1
=============================================================================
