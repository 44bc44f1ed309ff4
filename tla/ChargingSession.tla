--------------------------- MODULE ChargingSession ---------------------------
(***************************************************************************)
(* One charging transaction in session-service.service.ts: the consumer of *)
(* the OCPP session events, the operator's stop call, and the patch of the *)
(* OCPI service (ocpi-internal.controller.ts), which writes whatever body  *)
(* it is given.  Consumer and stop call read the session first and write   *)
(* it by id in a later step.                                               *)
(*                                                                         *)
(* Kafka (external) delivers the events in the order of the log, again     *)
(* from an earlier offset after a restart or a rebalance; after a          *)
(* rebalance the handler that was at work goes on.  Nest commits the       *)
(* offset of an event whose handler throws.                                *)
(***************************************************************************)
EXTENDS Integers, Sequences, SequencesExt

CONSTANTS
  Log,           \* the transaction's events: [type, meter], NoMeter without a reading
  Handlers,      \* event handlers in flight, more than one only after a rebalance
  Calls,         \* stop calls and patches
  PatchedValues, \* bound: values that a patch gives meterStart or totalEnergy
  MaxRestarts, MaxRebalances, MaxThrows  \* bounds

NoMeter == -1
EventShape == [type : {"started", "updated", "ended"}, meter : Nat \cup {NoMeter}]

ASSUME SessionAssumption ==
  /\ Log \in Seq(EventShape)
  /\ PatchedValues \subseteq Int
  /\ {MaxRestarts, MaxRebalances, MaxThrows} \subseteq Nat

VARIABLES
  session,     \* the row of sessions
  known,       \* is the charge point registered?
  offset,      \* events delivered since the last rewind
  current,     \* the handler the consumer is waiting for
  handlers,    \* what each handler is at, with its event and the row it read
  calls,       \* what each call is at
  patched,     \* history: the fields patched since a handler of an event read
               \* meterStart, or wrote the status or the energy
  restarts, rebalances, throws

bus   == <<offset, current, handlers, restarts, rebalances, throws>>
vars  == <<session, known, calls, patched, bus>>

NoSession == [status |-> "None", start |-> 0, energy |-> 0]
NoHandler == [at |-> "idle", event |-> 0, start |-> 0]
NoCall    == [at |-> "idle", kind |-> "none"]
NoOne     == "none"

\* The last event of a transaction is its end.
ASSUME TransactionAssumption ==
  /\ Log # << >> /\ Last(Log).type = "ended"
  /\ NoOne \notin Handlers

Meters == {Log[i].meter : i \in DOMAIN Log} \cup {0}
Starts == (Meters \ {NoMeter}) \cup PatchedValues

\* the column is a text: "OTHER" is whatever a patch may put there
Statuses == {"ACTIVE", "STOPPED", "COMPLETED", "OTHER"}
Fields   == {"status", "start", "energy"}

TypeOK ==
  /\ session \in [status : Statuses \cup {"None"}, start : Starts, energy : Int]
  /\ known \in BOOLEAN
  /\ offset \in 0..Len(Log)
  /\ current \in Handlers \cup {NoOne}
  /\ handlers \in [Handlers -> [at : {"idle", "read", "create", "write"},
                                event : 0..Len(Log), start : Starts]]
  /\ calls \in [Calls -> [at : {"idle", "write", "done"}, kind : {"none", "stop", "patch"}]]
  /\ patched \subseteq Fields
  /\ restarts \in 0..MaxRestarts /\ rebalances \in 0..MaxRebalances
  /\ throws \in 0..MaxThrows

Init ==
  /\ session = NoSession
  /\ known \in BOOLEAN
  /\ offset = 0
  /\ current = NoOne
  /\ handlers = [h \in Handlers |-> NoHandler]
  /\ calls = [c \in Calls |-> NoCall]
  /\ patched = {}
  /\ restarts = 0 /\ rebalances = 0 /\ throws = 0

\* meterStop less meterStart; an end without a reading counts from meterStart
Energy(meter, start) ==
  IF meter = NoMeter \/ meter < start THEN 0 ELSE meter - start

----------------------------------------------------------------------------
(* The consumer *)

\* the consumer takes the next event when the handler of the last one is done
Deliver(h) ==
  /\ current = NoOne
  /\ handlers[h] = NoHandler
  /\ offset < Len(Log)
  /\ offset' = offset + 1
  /\ current' = h
  /\ handlers' = [handlers EXCEPT ![h] =
                    [at |-> "read", event |-> offset + 1, start |-> 0]]
  /\ UNCHANGED <<session, known, calls, patched, restarts, rebalances, throws>>

Event(h) == Log[handlers[h].event]

Done(h) ==
  /\ handlers' = [handlers EXCEPT ![h] = NoHandler]
  /\ current' = IF current = h THEN NoOne ELSE current
  /\ UNCHANGED offset

Ignore(h) == Done(h) /\ UNCHANGED patched

Goto(h, at) ==
  /\ handlers' = [handlers EXCEPT ![h].at = at, ![h].start = session.start]
  /\ patched' = patched \ {"start"}
  /\ UNCHANGED <<offset, current>>

\* findUnique by the transaction, and of the charge point for a start
ReadSession(h) ==
  /\ handlers[h].at = "read"
  /\ CASE Event(h).type = "started" ->
            IF session.status = "None" /\ known THEN Goto(h, "create") ELSE Ignore(h)
       [] Event(h).type = "updated" ->
            IF session.status # "None" /\ Event(h).meter # NoMeter
            THEN Goto(h, "write") ELSE Ignore(h)
       [] OTHER -> IF session.status # "None" THEN Goto(h, "write") ELSE Ignore(h)
  /\ UNCHANGED <<session, known, calls, restarts, rebalances, throws>>

\* ocppTxId is unique: the second of two creations throws
CreateSession(h) ==
  /\ handlers[h].at = "create"
  /\ session' = IF session.status = "None"
                THEN [status |-> "ACTIVE", energy |-> 0,
                      start |-> IF Event(h).meter = NoMeter THEN 0 ELSE Event(h).meter]
                ELSE session
  /\ Done(h)
  /\ UNCHANGED <<known, calls, patched, restarts, rebalances, throws>>

(* the fields that a handler writes are not patched any more *)
Overwrites(h) ==
  /\ patched' = patched \ (IF Event(h).type = "ended" THEN {"status", "energy"} ELSE {"energy"})
  /\ Done(h)

\* mutant of UpdateSession: a reading reopens the session
ReopenSession(h) ==
  /\ handlers[h].at = "write"
  /\ session' = [session EXCEPT
       !.energy = Energy(Event(h).meter, handlers[h].start),
       !.status = IF Event(h).type = "ended" THEN "COMPLETED" ELSE "ACTIVE"]
  /\ Overwrites(h)
  /\ UNCHANGED <<known, calls, restarts, rebalances, throws>>

\* mutant of UpdateSession: an end is only taken from an active session
EndActiveSession(h) ==
  /\ handlers[h].at = "write"
  /\ session' = IF session.status # "ACTIVE" THEN session ELSE
       [session EXCEPT
          !.energy = Energy(Event(h).meter, handlers[h].start),
          !.status = IF Event(h).type = "ended" THEN "COMPLETED" ELSE @]
  /\ Overwrites(h)
  /\ UNCHANGED <<known, calls, restarts, rebalances, throws>>

\* mutant of UpdateSession: the end of a transaction stores its energy only
KeepActive(h) ==
  /\ handlers[h].at = "write"
  /\ session' = [session EXCEPT !.energy = Energy(Event(h).meter, handlers[h].start)]
  /\ Overwrites(h)
  /\ UNCHANGED <<known, calls, restarts, rebalances, throws>>

\* an update stores the energy, whatever the status; an end completes as well
UpdateSession(h) ==
  /\ handlers[h].at = "write"
  /\ session' = [session EXCEPT
       !.energy = Energy(Event(h).meter, handlers[h].start),
       !.status = IF Event(h).type = "ended" THEN "COMPLETED" ELSE @]
  /\ Overwrites(h)
  /\ UNCHANGED <<known, calls, restarts, rebalances, throws>>

\* a query throws: the event is not handled again
HandlerThrows(h) ==
  /\ handlers[h] # NoHandler
  /\ throws < MaxThrows
  /\ throws' = throws + 1
  /\ Done(h)
  /\ UNCHANGED <<session, known, calls, patched, restarts, rebalances>>

RewindTo(position) ==
  /\ position < offset
  /\ offset' = position
  /\ current' = NoOne
  /\ UNCHANGED <<session, known, calls, patched, throws>>

\* the process restarts; the handler at work is gone
Restart(position) ==
  /\ RewindTo(position)
  /\ restarts < MaxRestarts
  /\ restarts' = restarts + 1
  /\ handlers' = [h \in Handlers |-> NoHandler]
  /\ UNCHANGED rebalances

\* another instance takes the partition; the handler at work goes on
Rebalance(position) ==
  /\ RewindTo(position)
  /\ rebalances < MaxRebalances
  /\ rebalances' = rebalances + 1
  /\ UNCHANGED <<handlers, restarts>>

\* the charge point is registered (external)
RegisterChargePoint ==
  /\ ~ known
  /\ known' = TRUE
  /\ UNCHANGED <<session, calls, patched, bus>>

----------------------------------------------------------------------------
(* stopSession *)

StopReads(c) ==
  /\ calls[c] = NoCall
  /\ calls' = [calls EXCEPT ![c] = [kind |-> "stop",
                 at |-> IF session.status = "ACTIVE" THEN "write" ELSE "done"]]
  /\ UNCHANGED <<session, known, patched, bus>>

StopWrites(c) ==
  /\ calls[c] = [at |-> "write", kind |-> "stop"]
  /\ session' = [session EXCEPT !.status = "STOPPED"]
  /\ calls' = [calls EXCEPT ![c].at = "done"]
  /\ UNCHANGED <<known, patched, bus>>

(* updateSession of the OCPI API: the body is written as it comes, any fields *)
(* of the row with any values.  A body with another id or transaction would   *)
(* make it another transaction's row.                                         *)

PatchSession(c) ==
  /\ calls[c] = NoCall
  /\ session.status # "None"
  /\ \E fields \in SUBSET Fields :
       /\ session' \in
            [status : IF "status" \in fields THEN Statuses ELSE {session.status},
             start  : IF "start" \in fields THEN PatchedValues ELSE {session.start},
             energy : IF "energy" \in fields THEN PatchedValues ELSE {session.energy}]
       /\ patched' = patched \cup fields
  /\ calls' = [calls EXCEPT ![c] = [at |-> "done", kind |-> "patch"]]
  /\ UNCHANGED <<known, bus>>

----------------------------------------------------------------------------
HandleEvent(h) == ReadSession(h) \/ CreateSession(h) \/ UpdateSession(h)

Next ==
  \/ \E h \in Handlers : Deliver(h) \/ HandleEvent(h) \/ HandlerThrows(h)
  \/ \E position \in 0..Len(Log) : Restart(position) \/ Rebalance(position)
  \/ RegisterChargePoint
  \/ \E c \in Calls : StopReads(c) \/ StopWrites(c) \/ PatchSession(c)

Spec == Init /\ [][Next]_vars

\* the consumer polls, and a handler that is awaited runs to its end
FairSpec ==
  /\ Spec
  /\ WF_vars(\E h \in Handlers : Deliver(h))
  /\ \A h \in Handlers : WF_vars(HandleEvent(h))

----------------------------------------------------------------------------
(* Properties *)

Ended == {"STOPPED", "COMPLETED"}

\* Nothing but a patch takes an ended session out of its end: no event that is
\* repeated, late or read before the end, and no stop call.
EndedIsFinal ==
  [][session.status \in Ended =>
       session'.status \in Ended \/ \E c \in Calls : PatchSession(c)]_session

CaughtUp == offset = Len(Log) /\ \A h \in Handlers : handlers[h] = NoHandler

\* Once the consumer has caught up, and it has lost no event and no handler has
\* outlived its partition, the session has ended, unless its status was patched
\* after the end had been stored, with the energy of the last reading, unless the
\* energy was patched after that or meterStart after the handler of the end had
\* read it: whoever stopped it, however often events were repeated, and whatever
\* was patched before.
ShowsLastReading ==
  CaughtUp /\ session.status # "None" /\ throws = 0 /\ rebalances = 0
  => /\ session.status \in Ended \/ "status" \in patched
     /\ \/ session.energy = Energy(Last(Log).meter, session.start)
        \/ patched \cap {"start", "energy"} # {}

\* An active session ends: no order of restarts, repeated events, stop calls and
\* patches before its end leaves it active for good.  A patch of the status after the
\* end was consumed can, an event that was lost can, and so can a handler that
\* outlives its partition: it may create the session, of a charge point registered
\* since, when the other consumer has already passed the end over.
ActiveEnds ==
  session.status = "ACTIVE" ~>
    \/ session.status # "ACTIVE"
    \/ throws > 0 \/ rebalances > 0
    \/ CaughtUp /\ "status" \in patched
=============================================================================
