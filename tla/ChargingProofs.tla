--------------------------- MODULE ChargingProofs ---------------------------
(***************************************************************************)
(* Proofs about what a charger does with energy: ChargingSession, for any  *)
(* log of events, any number of handlers and calls, and any number of      *)
(* restarts, rebalances and lost events; and EnergyAllocation, for any     *)
(* number of members and phases and any caps, priorities and readings.     *)
(* The two share nothing; the lemmas on sums are for the allocation.       *)
(***************************************************************************)
EXTENDS ChargingSession, EnergyAllocation, FiniteSetTheorems, WellFoundedInduction, TLAPS

----------------------------------------------------------------------------
(* Charging sessions                                                       *)

\* A handler at work has an event, and one that stores a reading found the session:
\* rows are never deleted.
HandlersHaveEvents ==
  \A h \in Handlers :
    /\ handlers[h].at # "idle" => handlers[h].event \in 1..Len(Log)
    /\ handlers[h].at = "write" => session.status # "None"

\* A stop call goes on only with a session it saw active.
CallsSawSession ==
  \A c \in Calls : calls[c].at = "write" => calls[c].kind = "stop" /\ session.status # "None"

IInv == TypeOK /\ HandlersHaveEvents /\ CallsSawSession

(* Facts about the log. *)
LEMMA Readings ==
  /\ Len(Log) \in Nat /\ DOMAIN Log = 1..Len(Log)
  /\ \A i \in 1..Len(Log) : Log[i].meter \in Meters /\ Log[i].meter \in Nat \cup {NoMeter}
  /\ \A m \in Meters : m \in Nat \cup {NoMeter}
  /\ 0 \in Meters
  /\ 0 \in Starts /\ Starts \subseteq Int
  /\ \A m \in Meters : m # NoMeter => m \in Starts
<1>1. Len(Log) \in Nat /\ DOMAIN Log = 1..Len(Log)
  BY SessionAssumption
<1>2. \A i \in 1..Len(Log) : Log[i] \in EventShape
  BY <1>1, SessionAssumption
<1>3. /\ \A i \in 1..Len(Log) : Log[i].meter \in Meters /\ Log[i].meter \in Nat \cup {NoMeter}
      /\ \A m \in Meters : m \in Nat \cup {NoMeter}
      /\ 0 \in Meters
  BY <1>1, <1>2 DEF Meters, EventShape
<1>4. \A m \in Meters : m # NoMeter => m \in Starts /\ m \in Int
  BY <1>3 DEF Starts
<1>5. 0 # NoMeter
  BY DEF NoMeter
<1>6. \A m \in Starts : m \in Int
  BY <1>4, SessionAssumption DEF Starts
<1> QED BY <1>1, <1>3, <1>4, <1>5, <1>6

(* However little a reading has to do with the start, the energy is none or more. *)
LEMMA EnergyIsNat ==
  ASSUME NEW m \in Nat \cup {NoMeter}, NEW s \in Int
  PROVE  Energy(m, s) \in Nat
  BY DEF Energy, NoMeter

LEMMA IInvInit == Init => IInv
  BY Readings, SessionAssumption
     DEF Init, IInv, TypeOK, HandlersHaveEvents, CallsSawSession, NoSession, NoHandler,
         NoCall, NoOne, NoMeter

(* What a handler leaves when it is done, or has read the session. *)
LEMMA DoneTypes ==
  ASSUME IInv, NEW h \in Handlers, Done(h)
  PROVE  /\ current' \in Handlers \cup {NoOne} /\ offset' = offset
         /\ handlers' \in [Handlers -> [at : {"idle", "read", "create", "write"},
                                        event : 0..Len(Log), start : Starts]]
         /\ \A g \in Handlers : handlers'[g].at # "idle" => handlers'[g] = handlers[g]
  BY Readings DEF IInv, TypeOK, Done, NoHandler, NoOne

LEMMA ReadPreserves ==
  ASSUME IInv, NEW h \in Handlers, ReadSession(h)
  PROVE  IInv'
<1>1. UNCHANGED <<session, known, calls, restarts, rebalances, throws>>
  BY DEF ReadSession
<1>2. CASE Ignore(h)
  BY <1>1, <1>2, DoneTypes DEF Ignore, IInv, TypeOK, HandlersHaveEvents, CallsSawSession
<1>3. ASSUME NEW at \in {"create", "write"}, at = "write" => session.status # "None", Goto(h, at)
      PROVE  IInv'
  BY <1>1, <1>3 DEF ReadSession, Goto, IInv, TypeOK, HandlersHaveEvents, CallsSawSession
<1>4. Ignore(h) \/ \E at \in {"create", "write"} :
                     (at = "write" => session.status # "None") /\ Goto(h, at)
  BY SessionAssumption DEF ReadSession
<1> QED BY <1>2, <1>3, <1>4

LEMMA CreatePreserves ==
  ASSUME IInv, NEW h \in Handlers, CreateSession(h)
  PROVE  IInv'
<1> DEFINE meter == Event(h).meter
<1>1. meter \in Meters /\ meter \in Nat \cup {NoMeter}
  BY Readings DEF CreateSession, IInv, HandlersHaveEvents, Event
<1>2. /\ session' \in [status : Statuses, start : Starts, energy : Int]
  BY <1>1, Readings DEF CreateSession, NoSession, IInv, TypeOK, NoMeter, Statuses
<1>3. Done(h) /\ UNCHANGED <<known, calls, patched, restarts, rebalances, throws>>
  BY DEF CreateSession
<1> QED BY <1>2, <1>3, DoneTypes DEF IInv, TypeOK, HandlersHaveEvents, CallsSawSession, Statuses

LEMMA UpdatePreserves ==
  ASSUME IInv, NEW h \in Handlers, UpdateSession(h)
  PROVE  IInv'
<1> DEFINE energy == Energy(Event(h).meter, handlers[h].start)
           next == IF Event(h).type = "ended" THEN "COMPLETED" ELSE session.status
<1>1. energy \in Nat
  BY Readings, EnergyIsNat DEF UpdateSession, IInv, TypeOK, HandlersHaveEvents, Event
<1>2. session' = [session EXCEPT !.energy = energy, !.status = next]
      /\ next \in {"COMPLETED", session.status}
  BY DEF UpdateSession, IInv, TypeOK
<1>3. Done(h) /\ patched' \subseteq patched /\ UNCHANGED <<known, calls, restarts, rebalances, throws>>
  BY DEF UpdateSession, Overwrites
<1> HIDE DEF energy, next
<1>4. session.status # "None" => session'.status # "None"
  BY <1>2 DEF IInv, TypeOK
<1>5. session' \in [status : Statuses \cup {"None"}, start : Starts, energy : Int]
  <2>1. session \in [status : Statuses \cup {"None"}, start : Starts, energy : Int]
        /\ "COMPLETED" \in Statuses
    BY DEF IInv, TypeOK, Statuses
  <2>2. energy \in Int /\ next \in Statuses \cup {"None"}
    BY <1>1, <1>2, <2>1
  <2> QED BY <1>2, <2>1, <2>2, Zenon
<1> QED BY <1>3, <1>4, <1>5, DoneTypes DEF IInv, TypeOK, HandlersHaveEvents, CallsSawSession

(* Whatever a patch writes, it leaves a row. *)
LEMMA PatchTypes ==
  ASSUME IInv, NEW c \in Calls, PatchSession(c)
  PROVE  /\ session' \in [status : Statuses, start : Starts, energy : Int]
         /\ patched' \subseteq Fields
         /\ session'.status # session.status => "status" \in patched'
         /\ session'.start # session.start => "start" \in patched'
         /\ session'.energy # session.energy => "energy" \in patched'
         /\ patched \subseteq patched'
         /\ session.status # "None" /\ UNCHANGED <<known, bus>>
<1>1. PICK fields \in SUBSET Fields :
        /\ session' \in
            [status : IF "status" \in fields THEN Statuses ELSE {session.status},
             start  : IF "start" \in fields THEN PatchedValues ELSE {session.start},
             energy : IF "energy" \in fields THEN PatchedValues ELSE {session.energy}]
        /\ patched' = patched \cup fields
  BY DEF PatchSession
<1>2. session.status \in Statuses /\ session.start \in Starts /\ session.energy \in Int
      /\ patched \subseteq Fields
  BY DEF PatchSession, IInv, TypeOK
<1>3. PatchedValues \subseteq Starts /\ PatchedValues \subseteq Int
  BY SessionAssumption DEF Starts
<1> QED BY <1>1, <1>2, <1>3 DEF PatchSession

LEMMA IInvStep == IInv /\ [Next]_vars => IInv'
<1> SUFFICES ASSUME IInv, [Next]_vars PROVE IInv'
  OBVIOUS
<1>1. ASSUME NEW h \in Handlers, Deliver(h) PROVE IInv'
  BY <1>1, Readings DEF Deliver, NoHandler, IInv, TypeOK, HandlersHaveEvents, CallsSawSession
<1>2. ASSUME NEW h \in Handlers, HandlerThrows(h) PROVE IInv'
  <2>1. /\ throws' = throws + 1 /\ throws < MaxThrows /\ Done(h)
        /\ UNCHANGED <<session, known, calls, patched, restarts, rebalances>>
    BY <1>2 DEF HandlerThrows
  <2>2. throws' \in 0..MaxThrows
    BY <2>1, SessionAssumption DEF IInv, TypeOK
  <2>3. TypeOK'
    BY <2>1, <2>2, DoneTypes, SMTT(30) DEF IInv, TypeOK
  <2>4. HandlersHaveEvents' /\ CallsSawSession'
    BY <2>1, DoneTypes, SMTT(30) DEF IInv, HandlersHaveEvents, CallsSawSession
  <2> QED BY <2>3, <2>4 DEF IInv
<1>3. ASSUME NEW position \in 0..Len(Log), Restart(position) \/ Rebalance(position) PROVE IInv'
  <2>1. /\ handlers' \in {handlers, [h \in Handlers |-> NoHandler]}
        /\ restarts' \in 0..MaxRestarts /\ rebalances' \in 0..MaxRebalances
        /\ offset' = position /\ current' = NoOne /\ UNCHANGED <<session, known, calls, patched, throws>>
    BY <1>3, SessionAssumption, SMTT(40) DEF Restart, Rebalance, RewindTo, IInv, TypeOK
  <2> QED BY <2>1, Readings DEF NoHandler, IInv, TypeOK, HandlersHaveEvents, CallsSawSession
<1>4. CASE RegisterChargePoint
  BY <1>4 DEF RegisterChargePoint, bus, IInv, TypeOK, HandlersHaveEvents, CallsSawSession
<1>5. ASSUME NEW c \in Calls, StopReads(c) \/ StopWrites(c) PROVE IInv'
  <2>1. CASE StopReads(c)
    <3>1. PICK at \in {"write", "done"} :
            /\ calls' = [calls EXCEPT ![c] = [kind |-> "stop", at |-> at]]
            /\ at = "write" => session.status # "None"
      BY <2>1 DEF StopReads
    <3> QED BY <2>1, <3>1 DEF StopReads, bus, IInv, TypeOK, HandlersHaveEvents, CallsSawSession
  <2>2. CASE StopWrites(c)
    BY <2>2 DEF StopWrites, bus, IInv, TypeOK, HandlersHaveEvents, CallsSawSession, Statuses
  <2> QED BY <1>5, <2>1, <2>2
<1>6. ASSUME NEW c \in Calls, PatchSession(c) PROVE IInv'
  <2>1. /\ session' \in [status : Statuses, start : Starts, energy : Int]
        /\ patched' \subseteq Fields
    BY <1>6, PatchTypes
  <2>2. calls' = [calls EXCEPT ![c] = [at |-> "done", kind |-> "patch"]] /\ UNCHANGED <<known, bus>>
    BY <1>6 DEF PatchSession
  <2> QED BY <2>1, <2>2 DEF bus, IInv, TypeOK, HandlersHaveEvents, CallsSawSession, Statuses
<1>7. CASE UNCHANGED vars
  BY <1>7 DEF vars, bus, IInv, TypeOK, HandlersHaveEvents, CallsSawSession
<1> QED BY <1>1, <1>2, <1>3, <1>4, <1>5, <1>6, <1>7, ReadPreserves, CreatePreserves,
           UpdatePreserves DEF Next, HandleEvent

(* The inductive invariant holds of every order of events, calls and restarts. *)
THEOREM Invariance == Spec => []IInv
  BY IInvInit, IInvStep, PTL DEF Spec

(* Every variable keeps its type, whatever is patched or reported. *)
THEOREM TypeCorrect == Spec => []TypeOK
<1>1. IInv => TypeOK
  BY DEF IInv
<1> QED BY <1>1, Invariance, PTL

(* An ended session stays ended until its status is patched: neither a repeated     *)
(* start nor a handler or call that read the session before its end takes it back.  *)
THEOREM EndIsFinal == Spec => EndedIsFinal
<1> DEFINE Final == session.status \in Ended =>
                      session'.status \in Ended \/ \E c \in Calls : PatchSession(c)
<1>1. IInv /\ [Next]_vars => [Final]_session
  <2> SUFFICES ASSUME IInv, [Next]_vars, session.status \in Ended
               PROVE  session'.status \in Ended \/ \E c \in Calls : PatchSession(c)
    OBVIOUS
  <2>1. ASSUME NEW h \in Handlers, ReadSession(h) \/ CreateSession(h) \/ Deliver(h) \/ HandlerThrows(h)
        PROVE  session' = session
    BY <2>1 DEF ReadSession, CreateSession, Deliver, HandlerThrows, Ended
  <2>2. ASSUME NEW h \in Handlers, UpdateSession(h) PROVE session'.status \in Ended
    BY <2>2 DEF UpdateSession, Ended, IInv, TypeOK
  <2>3. ASSUME NEW c \in Calls, StopReads(c) \/ StopWrites(c)
        PROVE  session'.status \in Ended
    BY <2>3 DEF StopReads, StopWrites, Ended, IInv, TypeOK
  <2>4. ASSUME NEW position \in 0..Len(Log), Restart(position) \/ Rebalance(position)
        PROVE  session' = session
    BY <2>4 DEF Restart, Rebalance, RewindTo
  <2> QED BY <2>1, <2>2, <2>3, <2>4 DEF Next, HandleEvent, RegisterChargePoint, vars
<1> QED BY <1>1, Invariance, PTL DEF Spec, EndedIsFinal

----------------------------------------------------------------------------
(* The last reading                                                        *)

Undisturbed == throws = 0 /\ rebalances = 0

\* While nothing was thrown or rebalanced, the one handler at work is that of the event
\* delivered last.
OneAtWork ==
  \A h \in Handlers :
    IF handlers[h].at = "idle" THEN handlers[h] = NoHandler
    ELSE Undisturbed => h = current /\ handlers[h].event = offset

\* Whoever is about to create the session has a start, and who alone is about to store a
\* reading knows what the session began with, or it was patched since.
WritersKnow ==
  \A h \in Handlers :
    /\ handlers[h].at = "create" => Event(h).type = "started"
    /\ Undisturbed /\ handlers[h].at = "write" =>
         handlers[h].start = session.start \/ "start" \in patched

ShowsTheEnd ==
  /\ session.status \in Ended \/ "status" \in patched
  /\ \/ session.energy = Energy(Last(Log).meter, session.start)
     \/ patched \cap {"start", "energy"} # {}

\* When the end of the transaction was delivered, its handler is at work or has stored it.
EndIsStored ==
  Undisturbed /\ offset = Len(Log) /\ session.status # "None" =>
    ShowsTheEnd \/ \E h \in Handlers : handlers[h].at # "idle"

ReadingInv == IInv /\ OneAtWork /\ WritersKnow /\ EndIsStored

(* Nothing was delivered. *)
LEMMA ReadingInit == Init => ReadingInv
  BY IInvInit DEF Init, ReadingInv, OneAtWork, WritersKnow, EndIsStored, NoSession, NoHandler

(* The end is the event delivered last, when the consumer is through. *)
LEMMA EndIsLast ==
  /\ Len(Log) \in Nat \ {0} /\ Last(Log) = Log[Len(Log)] /\ Log[Len(Log)].type = "ended"
  BY SessionAssumption, TransactionAssumption DEF Last

(* A step of a handler that is over or goes on leaves the others as they are. *)
LEMMA ReadKeepsReading ==
  ASSUME ReadingInv, NEW h \in Handlers, ReadSession(h)
  PROVE  OneAtWork' /\ WritersKnow' /\ EndIsStored'
<1>1. UNCHANGED <<session, known, calls, restarts, rebalances, throws, offset>>
  BY DEF ReadSession, Ignore, Done, Goto
<1>2. handlers[h].at = "read" /\ handlers \in [Handlers -> [at : {"idle", "read", "create", "write"},
                                event : 0..Len(Log), start : Starts]]
  BY DEF ReadSession, ReadingInv, IInv, TypeOK
<1>3. Undisturbed => handlers[h].event = offset /\ h = current
  BY <1>2 DEF ReadingInv, OneAtWork
<1>4. CASE Ignore(h) /\ (Event(h).type = "ended" => session.status = "None")
  <2>1. handlers' = [handlers EXCEPT ![h] = NoHandler] /\ (current # h => current' = current)
    BY <1>4 DEF Ignore, Done
  <2>2. OneAtWork'
    BY <1>1, <1>2, <1>3, <2>1 DEF ReadingInv, OneAtWork, Undisturbed, NoHandler
  <2>3. WritersKnow'
    BY <1>1, <1>2, <1>4, <2>1 DEF Ignore, ReadingInv, WritersKnow, NoHandler, Event, Undisturbed
  <2>4. EndIsStored'
    BY <1>1, <1>3, <1>4, EndIsLast DEF EndIsStored, Undisturbed, Event
  <2> QED BY <2>2, <2>3, <2>4
<1>5. ASSUME NEW at \in {"create", "write"}, Goto(h, at), at = "create" => Event(h).type = "started"
      PROVE  OneAtWork' /\ WritersKnow' /\ EndIsStored'
  <2>1. /\ handlers' = [handlers EXCEPT ![h].at = at, ![h].start = session.start] /\ current' = current
    BY <1>5 DEF Goto
  <2>2. /\ handlers'[h].at = at /\ handlers'[h].start = session.start /\ handlers'[h].event = handlers[h].event
        /\ \A g \in Handlers \ {h} : handlers'[g] = handlers[g]
    BY <1>2, <2>1
  <2>3. OneAtWork'
    BY <1>1, <1>3, <2>1, <2>2 DEF ReadingInv, OneAtWork, Undisturbed
  <2>4. WritersKnow'
    <3>1. Undisturbed => \A g \in Handlers \ {h} : handlers[g].at # "write"
      BY <1>2, <1>3 DEF ReadingInv, OneAtWork
    <3> QED BY <1>1, <1>5, <2>2, <3>1 DEF ReadingInv, WritersKnow, Event, Undisturbed
  <2>5. EndIsStored'
    BY <2>2 DEF EndIsStored
  <2> QED BY <2>3, <2>4, <2>5
<1>6. \/ Ignore(h) /\ (Event(h).type = "ended" => session.status = "None")
      \/ \E at \in {"create", "write"} : Goto(h, at) /\ (at = "create" => Event(h).type = "started")
  BY DEF ReadSession
<1> QED BY <1>4, <1>5, <1>6

(* What a handler that is done leaves. *)
LEMMA DoneKeepsReading ==
  ASSUME ReadingInv, NEW h \in Handlers, handlers[h].at # "idle", Done(h),
         UNCHANGED <<rebalances, throws>>
  PROVE  OneAtWork' /\ WritersKnow'
<1>1. /\ handlers' = [handlers EXCEPT ![h] = NoHandler] /\ (current # h => current' = current)
      /\ offset' = offset
  BY DEF Done
<1>2. /\ handlers'[h] = NoHandler /\ \A g \in Handlers \ {h} : handlers'[g] = handlers[g]
  BY <1>1 DEF ReadingInv, IInv, TypeOK
<1>3. Undisturbed => h = current
  BY DEF ReadingInv, OneAtWork
<1>4. OneAtWork'
  BY <1>1, <1>2, <1>3 DEF ReadingInv, OneAtWork, Undisturbed, NoHandler
<1>5. Undisturbed => \A g \in Handlers \ {h} : handlers[g].at = "idle"
  BY <1>3 DEF ReadingInv, OneAtWork
<1>6. WritersKnow'
  BY <1>2, <1>5 DEF ReadingInv, WritersKnow, NoHandler, Event, Undisturbed
<1> QED BY <1>4, <1>6

LEMMA CreateKeepsReading ==
  ASSUME ReadingInv, NEW h \in Handlers, CreateSession(h)
  PROVE  OneAtWork' /\ WritersKnow' /\ EndIsStored'
<1>1. Done(h) /\ UNCHANGED <<known, calls, restarts, rebalances, throws>> /\ handlers[h].at = "create"
  BY DEF CreateSession
<1>3. OneAtWork' /\ WritersKnow'
  BY <1>1, DoneKeepsReading
<1>4. Event(h).type = "started" /\ (Undisturbed => handlers[h].event = offset)
  BY <1>1 DEF ReadingInv, WritersKnow, OneAtWork
<1>5. EndIsStored'
  BY <1>1, <1>4, EndIsLast DEF EndIsStored, Undisturbed, Done, Event
<1> QED BY <1>3, <1>5

LEMMA UpdateKeepsReading ==
  ASSUME ReadingInv, NEW h \in Handlers, UpdateSession(h)
  PROVE  OneAtWork' /\ WritersKnow' /\ EndIsStored'
<1>1. Done(h) /\ UNCHANGED <<known, calls, restarts, rebalances, throws>> /\ handlers[h].at = "write"
      /\ ("start" \in patched => "start" \in patched')
  BY DEF UpdateSession, Overwrites
<1> DEFINE energy == Energy(Event(h).meter, handlers[h].start)
<1>2. /\ session'.start = session.start /\ session'.energy = energy
      /\ Event(h).type = "ended" => session'.status = "COMPLETED"
  BY DEF UpdateSession, ReadingInv, IInv, TypeOK
<1> HIDE DEF energy
<1>3. OneAtWork' /\ WritersKnow'
  BY <1>1, DoneKeepsReading
<1>4. Undisturbed => /\ handlers[h].start = session.start \/ "start" \in patched
                     /\ handlers[h].event = offset
  BY <1>1 DEF ReadingInv, WritersKnow, OneAtWork
<1>5. EndIsStored'
  <2> SUFFICES ASSUME Undisturbed', offset' = Len(Log) PROVE ShowsTheEnd'
    BY DEF EndIsStored
  <2>1. handlers[h].event = Len(Log)
    BY <1>1, <1>4 DEF Undisturbed, Done
  <2>2. Event(h) = Last(Log) /\ Event(h).type = "ended"
    BY <2>1, EndIsLast DEF Event
  <2>3. energy = Energy(Last(Log).meter, session'.start) \/ "start" \in patched'
    BY <1>1, <1>2, <1>4, <2>2 DEF energy, Undisturbed
  <2> QED BY <1>2, <2>2, <2>3 DEF ShowsTheEnd, Ended
<1> QED BY <1>3, <1>5

LEMMA ReadingStep == ReadingInv /\ [Next]_vars => ReadingInv'
<1> SUFFICES ASSUME ReadingInv, [Next]_vars PROVE ReadingInv'
  OBVIOUS
<1>0. IInv'
  BY IInvStep DEF ReadingInv
<1>a. handlers \in [Handlers -> [at : {"idle", "read", "create", "write"}, event : 0..Len(Log), start : Starts]]
  BY DEF ReadingInv, IInv, TypeOK
<1>1. ASSUME NEW h \in Handlers, Deliver(h) PROVE OneAtWork' /\ WritersKnow' /\ EndIsStored'
  <2>1. /\ current = NoOne /\ current' = h /\ offset' = offset + 1
        /\ handlers' = [handlers EXCEPT ![h] = [at |-> "read", event |-> offset + 1, start |-> 0]]
        /\ UNCHANGED <<session, patched, rebalances, throws>>
    BY <1>1 DEF Deliver
  <2>2. /\ handlers'[h] = [at |-> "read", event |-> offset + 1, start |-> 0]
        /\ \A g \in Handlers \ {h} : handlers'[g] = handlers[g]
    BY <1>a, <2>1
  <2>3. Undisturbed => \A g \in Handlers \ {h} : handlers[g].at = "idle"
    BY <2>1, TransactionAssumption DEF ReadingInv, OneAtWork
  <2> QED BY <2>1, <2>2, <2>3 DEF ReadingInv, OneAtWork, WritersKnow, EndIsStored, Undisturbed, Event
<1>2. ASSUME NEW h \in Handlers, HandlerThrows(h) PROVE OneAtWork' /\ WritersKnow' /\ EndIsStored'
  <2>1. ~ Undisturbed' /\ session' = session
    BY <1>2 DEF HandlerThrows, ReadingInv, IInv, TypeOK, Undisturbed
  <2>2. \A g \in Handlers : handlers'[g] = NoHandler \/ handlers'[g] = handlers[g]
    BY <1>2, <1>a DEF HandlerThrows, Done
  <2> QED BY <2>1, <2>2 DEF ReadingInv, OneAtWork, WritersKnow, EndIsStored, NoHandler, Event
<1>3. ASSUME NEW position \in 0..Len(Log), Restart(position)
      PROVE  OneAtWork' /\ WritersKnow' /\ EndIsStored'
  <2>1. offset' # Len(Log) /\ \A h \in Handlers : handlers'[h] = NoHandler
    BY <1>3, EndIsLast DEF Restart, RewindTo, ReadingInv, IInv, TypeOK
  <2> QED BY <2>1 DEF OneAtWork, WritersKnow, EndIsStored, NoHandler
<1>4. ASSUME NEW position \in 0..Len(Log), Rebalance(position)
      PROVE  OneAtWork' /\ WritersKnow' /\ EndIsStored'
  <2>1. ~ Undisturbed' /\ UNCHANGED <<session, handlers>>
    BY <1>4 DEF Rebalance, RewindTo, ReadingInv, IInv, TypeOK, Undisturbed
  <2> QED BY <2>1 DEF ReadingInv, OneAtWork, WritersKnow, EndIsStored, Event
<1>5. ASSUME UNCHANGED bus, patched \subseteq patched',
             session'.start = session.start \/ "start" \in patched',
             session.status = "None" => session'.status = "None",
             session.status \in Ended => session'.status \in Ended \/ "status" \in patched',
             session'.energy = session.energy \/ "energy" \in patched'
      PROVE  OneAtWork' /\ WritersKnow' /\ EndIsStored'
  BY <1>5 DEF ReadingInv, OneAtWork, WritersKnow, EndIsStored, ShowsTheEnd, Undisturbed, bus, Event
<1>6. ASSUME NEW c \in Calls, StopReads(c) \/ StopWrites(c)
      PROVE  OneAtWork' /\ WritersKnow' /\ EndIsStored'
  <2>1. StopWrites(c) => session.status # "None"
    BY DEF StopWrites, ReadingInv, IInv, CallsSawSession
  <2>2. /\ UNCHANGED <<bus, patched>> /\ session'.start = session.start
        /\ session.status = "None" => session'.status = "None"
        /\ session.status \in Ended => session'.status \in Ended
        /\ session'.energy = session.energy
    BY <1>6, <2>1 DEF StopReads, StopWrites, ReadingInv, IInv, TypeOK, Ended
  <2> QED BY <1>5, <2>2
<1>8. ASSUME NEW c \in Calls, PatchSession(c)
      PROVE  OneAtWork' /\ WritersKnow' /\ EndIsStored'
  <2>1. /\ session'.status # session.status => "status" \in patched'
        /\ session'.start # session.start => "start" \in patched'
        /\ session'.energy # session.energy => "energy" \in patched'
        /\ patched \subseteq patched' /\ session.status # "None" /\ UNCHANGED bus
    BY <1>8, PatchTypes DEF ReadingInv
  <2> QED BY <1>5, <2>1
<1>7. CASE RegisterChargePoint \/ UNCHANGED vars
  <2>1. session' = session /\ UNCHANGED <<bus, patched>>
    BY <1>7 DEF RegisterChargePoint, vars
  <2> QED BY <1>0, <1>5, <2>1 DEF ReadingInv
<1> QED BY <1>0, <1>1, <1>2, <1>3, <1>4, <1>6, <1>7, <1>8, ReadKeepsReading, CreateKeepsReading,
           UpdateKeepsReading DEF ReadingInv, Next, HandleEvent

(* When the consumer is through with the log and no event was lost, the session has  *)
(* ended with the energy of the last reading, but for what was patched since, however *)
(* often restarts made it handle events again (handleTransactionEvent, onModuleInit). *)
THEOREM LastReadingShown == Spec => []ShowsLastReading
<1>1. ReadingInv => ShowsLastReading
  BY DEF ReadingInv, EndIsStored, ShowsTheEnd, ShowsLastReading, CaughtUp, Undisturbed, NoHandler
<1>2. Spec => []ReadingInv
  BY ReadingInit, ReadingStep, PTL DEF Spec
<1> QED BY <1>1, <1>2, PTL
----------------------------------------------------------------------------
(* Bounded sets of numbers                                                 *)

\* A set of naturals that is not empty has a least one ...
LEMMA LeastNatural ==
  ASSUME NEW S, S \subseteq Nat, S # {}
  PROVE  \E x \in S : \A y \in S : x <= y
<1> DEFINE R == OpToRel(<, Nat)
<1>1. IsWellFoundedOn(R, Nat)
  BY NatLessThanWellFounded
<1>2. ASSUME NEW x \in Nat, NEW y \in Nat, <<y, x>> \notin R PROVE x <= y
  <2>1. ~ (y < x)
    BY <1>2 DEF OpToRel
  <2> QED BY <2>1
<1> HIDE DEF R
<1>3. PICK x \in S : \A y \in S : <<y, x>> \notin R
  BY <1>1, WFMin
<1> QED BY <1>2, <1>3, Zenon

\* ... and, if it is bounded, a greatest.
LEMMA GreatestNatural ==
  ASSUME NEW S, S \subseteq Nat, S # {}, NEW n \in Nat, \A y \in S : y <= n
  PROVE  \E x \in S : \A y \in S : y <= x
<1> DEFINE T == {n - y : y \in S}
<1>1. T \subseteq Nat
  <2> SUFFICES ASSUME NEW y \in S PROVE n - y \in Nat
    BY Zenon
  <2> QED BY y <= n, y \in Nat
<1>2. T # {}
  BY Zenon
<1>3. PICK t \in T : \A u \in T : t <= u
  BY <1>1, <1>2, LeastNatural
<1>4. PICK x \in S : t = n - x
  BY <1>3
<1>5. \A y \in S : n - x <= n - y
  BY <1>3, <1>4
<1> QED BY <1>4, <1>5

----------------------------------------------------------------------------
(* Sums                                                                    *)
(*                                                                         *)
(* SumFunctionOnSet takes the elements as CHOOSE offers them.  A function  *)
(* that adds up every subset in whatever order exists, is unique, and      *)
(* agrees with it.  The inductions are by the least counterexample.        *)

Additive(f, g, S) ==
  /\ g \in [SUBSET S -> Int]
  /\ g[{}] = 0
  /\ \A T \in SUBSET S : \A x \in S \ T : g[T \cup {x}] = f[x] + g[T]

\* Of the subsets of a finite set with a property, one is least: without any of its
\* elements it does not have it.
LEMMA LeastSubset ==
  ASSUME NEW S, IsFiniteSet(S), NEW Bad, Bad \subseteq SUBSET S, Bad # {}
  PROVE  \E T \in Bad : \A x \in T : T \ {x} \notin Bad
<1> DEFINE Sizes == {Cardinality(T) : T \in Bad}
<1>1. \A T \in Bad : IsFiniteSet(T)
  BY FS_Subset
<1>2. Sizes \subseteq Nat
  <2> SUFFICES ASSUME NEW T \in Bad PROVE Cardinality(T) \in Nat
    BY Zenon
  <2> QED BY <1>1, FS_CardinalityType
<1>3. Sizes # {}
  BY Zenon
<1>4. PICK n \in Sizes : \A m \in Sizes : n <= m
  BY <1>2, <1>3, LeastNatural
<1>5. PICK T \in Bad : n = Cardinality(T)
  BY <1>4
<1>6. ASSUME NEW x \in T, T \ {x} \in Bad PROVE FALSE
  <2>1. Cardinality(T \ {x}) = Cardinality(T) - 1
    BY <1>1, FS_RemoveElement
  <2>2. n <= Cardinality(T \ {x})
    BY <1>4, <1>6
  <2>3. n \in Nat
    BY <1>2
  <2> QED BY <1>5, <2>1, <2>2, <2>3
<1> QED BY <1>6

\* Elements are added to the set one by one, each new one to every subset without it.
LEMMA AdditiveExists ==
  ASSUME NEW f, NEW S, IsFiniteSet(S), \A x \in S : f[x] \in Int
  PROVE  \E g : Additive(f, g, S)
<1> DEFINE Bad == {T \in SUBSET S : ~ \E g : Additive(f, g, T)}
<1>1. SUFFICES ASSUME Bad # {} PROVE FALSE
  OBVIOUS
<1>2. PICK T \in Bad : \A x \in T : T \ {x} \notin Bad
  <2>1. Bad \subseteq SUBSET S
    OBVIOUS
  <2> HIDE DEF Bad
  <2> QED BY <1>1, <2>1, LeastSubset
<1>3. T # {}
  <2> SUFFICES ASSUME T = {} PROVE \E g : Additive(f, g, T)
    BY <1>2
  <2> DEFINE g == [s \in SUBSET T |-> 0]
  <2>1. Additive(f, g, T)
    BY DEF Additive
  <2> QED BY <2>1
<1>4. PICK x : x \in T
  BY <1>3
<1>5. T \subseteq S /\ T \ {x} \in SUBSET S
  BY <1>2
<1>6. PICK g : Additive(f, g, T \ {x})
  BY <1>2, <1>4, <1>5
<1> DEFINE h == [s \in SUBSET T |-> IF x \in s THEN f[x] + g[s \ {x}] ELSE g[s]]
<1>7. f[x] \in Int
  BY <1>4, <1>5
<1>8. \A s \in SUBSET T : s \ {x} \in SUBSET (T \ {x}) /\ (x \notin s => s \ {x} = s)
  OBVIOUS
<1>9. g \in [SUBSET (T \ {x}) -> Int] /\ g[{}] = 0
      /\ \A s \in SUBSET (T \ {x}) : \A y \in (T \ {x}) \ s : g[s \cup {y}] = f[y] + g[s]
  BY <1>6 DEF Additive
<1>10. h \in [SUBSET T -> Int]
  <2> SUFFICES ASSUME NEW s \in SUBSET T PROVE (IF x \in s THEN f[x] + g[s \ {x}] ELSE g[s]) \in Int
    OBVIOUS
  <2>1. g[s \ {x}] \in Int
    BY <1>8, <1>9
  <2> QED BY <1>7, <1>8, <2>1
<1>11. h[{}] = 0
  BY <1>9
<1>12. ASSUME NEW s \in SUBSET T, NEW y \in T \ s PROVE h[s \cup {y}] = f[y] + h[s]
  <2>1. s \cup {y} \in SUBSET T
    OBVIOUS
  <2>2. CASE y = x
    <3>1. (s \cup {y}) \ {x} = s /\ x \notin s
      BY <2>2
    <3> QED BY <2>1, <2>2, <3>1
  <2>3. CASE y # x /\ x \in s
    <3>1. (s \cup {y}) \ {x} = (s \ {x}) \cup {y} /\ y \in (T \ {x}) \ (s \ {x}) /\ s \ {x} \in SUBSET (T \ {x})
      BY <2>3
    <3>2. g[(s \ {x}) \cup {y}] = f[y] + g[s \ {x}]
      BY <1>9, <3>1
    <3>3. f[y] \in Int /\ g[s \ {x}] \in Int
      BY <1>5, <1>9, <3>1
    <3>4. h[s \cup {y}] = f[x] + (f[y] + g[s \ {x}])
      BY <2>1, <2>3, <3>1, <3>2
    <3>5. h[s] = f[x] + g[s \ {x}]
      BY <2>3
    <3> HIDE DEF h
    <3> QED BY <1>7, <3>3, <3>4, <3>5
  <2>4. CASE y # x /\ x \notin s
    <3>1. y \in (T \ {x}) \ s /\ s \in SUBSET (T \ {x})
      BY <2>4
    <3>2. g[s \cup {y}] = f[y] + g[s]
      BY <1>9, <3>1
    <3> QED BY <2>1, <2>4, <3>2
  <2> QED BY <2>2, <2>3, <2>4
<1>13. Additive(f, h, T)
  <2> HIDE DEF h
  <2> QED BY <1>10, <1>11, <1>12 DEF Additive
<1> QED BY <1>2, <1>13

\* Two of them agree where both are defined.
LEMMA AdditiveUnique ==
  ASSUME NEW f, NEW S, IsFiniteSet(S), NEW R, S \subseteq R, NEW g, Additive(f, g, S), NEW h, Additive(f, h, R)
  PROVE  \A T \in SUBSET S : g[T] = h[T]
<1> DEFINE Bad == {T \in SUBSET S : g[T] # h[T]}
<1>1. SUFFICES ASSUME Bad # {} PROVE FALSE
  OBVIOUS
<1>2. PICK T \in Bad : \A x \in T : T \ {x} \notin Bad
  <2>1. Bad \subseteq SUBSET S
    OBVIOUS
  <2> HIDE DEF Bad
  <2> QED BY <1>1, <2>1, LeastSubset
<1>3. T # {}
  BY <1>2 DEF Additive
<1>4. PICK x : x \in T
  BY <1>3
<1>5. T \ {x} \in SUBSET S /\ x \in S \ (T \ {x}) /\ x \in R \ (T \ {x}) /\ T \ {x} \in SUBSET R
      /\ T = (T \ {x}) \cup {x}
  BY <1>2, <1>4
<1>6. g[T \ {x}] = h[T \ {x}]
  BY <1>2, <1>4, <1>5
<1>7. g[(T \ {x}) \cup {x}] = f[x] + g[T \ {x}] /\ h[(T \ {x}) \cup {x}] = f[x] + h[T \ {x}]
  BY <1>5 DEF Additive
<1>8. g[T] = h[T]
  BY <1>5, <1>6, <1>7
<1> QED BY <1>2, <1>8

\* The recursive sum takes out one row at a time, so it agrees with such a function.
LEMMA SumIsAdditive ==
  ASSUME NEW f, NEW S, IsFiniteSet(S), NEW h, Additive(f, h, S)
  PROVE  SumFunctionOnSet(f, S) = h[S]
<1> DEFINE first(s) == CHOOSE x \in s : TRUE
           Adds(e) == e = [s \in SUBSET S |-> IF s = {} THEN 0 ELSE f[first(s)] + e[s \ {first(s)}]]
           g == CHOOSE e : Adds(e)
<1>1. SumFunctionOnSet(f, S) = g[S]
  BY DEF SumFunctionOnSet, FoldFunctionOnSet, MapThenFoldSet
<1>2. \A s \in SUBSET S : s # {} => first(s) \in s
  OBVIOUS
<1> HIDE DEF first
<1>3. ASSUME NEW s \in SUBSET S
      PROVE  h[s] = IF s = {} THEN 0 ELSE f[first(s)] + h[s \ {first(s)}]
  <2>1. CASE s = {}
    BY <2>1 DEF Additive
  <2>2. CASE s # {}
    <3>1. s \ {first(s)} \in SUBSET S /\ first(s) \in S \ (s \ {first(s)}) /\ s = (s \ {first(s)}) \cup {first(s)}
      BY <1>2, <2>2
    <3>2. h[(s \ {first(s)}) \cup {first(s)}] = f[first(s)] + h[s \ {first(s)}]
      BY <3>1 DEF Additive
    <3> QED BY <2>2, <3>1, <3>2
  <2> QED BY <2>1, <2>2
<1>4. Adds(h)
  <2>1. h = [s \in SUBSET S |-> h[s]]
    BY DEF Additive
  <2> QED BY <1>3, <2>1
<1>5. Adds(g)
  <2> HIDE DEF Adds
  <2> QED BY <1>4
<1> HIDE DEF g
<1> DEFINE Bad == {T \in SUBSET S : g[T] # h[T]}
<1>6. CASE Bad = {}
  BY <1>1, <1>6
<1>7. CASE Bad # {}
  <2>1. PICK T \in Bad : \A x \in T : T \ {x} \notin Bad
    <3>1. Bad \subseteq SUBSET S
      OBVIOUS
    <3> HIDE DEF Bad
    <3> QED BY <1>7, <3>1, LeastSubset
  <2>2. T \in SUBSET S /\ g[T] # h[T]
    BY <2>1
  <2>3. g[T] = IF T = {} THEN 0 ELSE f[first(T)] + g[T \ {first(T)}]
    BY <1>5, <2>2
  <2>4. T # {}
    BY <1>3, <2>2, <2>3
  <2>5. first(T) \in T /\ T \ {first(T)} \in SUBSET S
    BY <1>2, <2>2, <2>4
  <2>6. g[T \ {first(T)}] = h[T \ {first(T)}]
    BY <2>1, <2>5
  <2>7. h[T] = f[first(T)] + h[T \ {first(T)}]
    BY <1>3, <2>2, <2>4
  <2> QED BY <2>2, <2>3, <2>4, <2>6, <2>7
<1> QED BY <1>6, <1>7

\* The sum over a set is the value of one element and the sum over the others.
LEMMA SumTakes ==
  ASSUME NEW f, NEW S, IsFiniteSet(S), \A y \in S : f[y] \in Int, NEW x \in S
  PROVE  /\ IsFiniteSet(S \ {x})
         /\ SumFunctionOnSet(f, S \ {x}) \in Int
         /\ SumFunctionOnSet(f, S) = f[x] + SumFunctionOnSet(f, S \ {x})
<1> DEFINE R == S \ {x}
<1>1. IsFiniteSet(R) /\ \A y \in R : f[y] \in Int
  BY FS_RemoveElement
<1>2. R \in SUBSET R /\ R \subseteq S /\ x \in S \ R /\ S = R \cup {x} /\ R \in SUBSET S
  OBVIOUS
<1> HIDE DEF R
<1>3. PICK g : Additive(f, g, R)
  BY <1>1, AdditiveExists
<1>4. PICK h : Additive(f, h, S)
  BY AdditiveExists
<1>5. g[R] = h[R]
  <2>1. \A T \in SUBSET R : g[T] = h[T]
    BY <1>1, <1>2, <1>3, <1>4, AdditiveUnique
  <2> QED BY <1>2, <2>1
<1>6. h[R \cup {x}] = f[x] + h[R] /\ h[R] \in Int
  BY <1>2, <1>4 DEF Additive
<1>7. SumFunctionOnSet(f, R) = g[R] /\ SumFunctionOnSet(f, S) = h[S]
  BY <1>1, <1>3, <1>4, SumIsAdditive
<1> QED BY <1>1, <1>2, <1>5, <1>6, <1>7 DEF R

LEMMA SumOfNone == \A f : SumFunctionOnSet(f, {}) = 0
<1> SUFFICES ASSUME NEW f PROVE SumFunctionOnSet(f, {}) = 0
  OBVIOUS
<1>1. IsFiniteSet({})
  BY FS_EmptySet
<1>2. PICK g : Additive(f, g, {})
  BY <1>1, AdditiveExists
<1> QED BY <1>1, <1>2, SumIsAdditive DEF Additive

LEMMA SumIsInt ==
  ASSUME NEW f, NEW S, IsFiniteSet(S), \A y \in S : f[y] \in Int
  PROVE  SumFunctionOnSet(f, S) \in Int
<1>1. CASE S = {}
  BY <1>1, SumOfNone
<1>2. ASSUME NEW x \in S PROVE SumFunctionOnSet(f, S) \in Int
  <2>1. /\ SumFunctionOnSet(f, S \ {x}) \in Int
        /\ SumFunctionOnSet(f, S) = f[x] + SumFunctionOnSet(f, S \ {x})
    BY SumTakes
  <2> QED BY <2>1
<1> QED BY <1>1, <1>2

\* Greater values have a greater sum.
LEMMA SumLeq ==
  ASSUME NEW f, NEW g, NEW S, IsFiniteSet(S),
         \A y \in S : f[y] \in Int /\ g[y] \in Int /\ f[y] <= g[y]
  PROVE  SumFunctionOnSet(f, S) <= SumFunctionOnSet(g, S)
<1> DEFINE Bad == {T \in SUBSET S : ~ (SumFunctionOnSet(f, T) <= SumFunctionOnSet(g, T))}
<1>1. SUFFICES ASSUME Bad # {} PROVE FALSE
  OBVIOUS
<1>2. PICK T \in Bad : \A x \in T : T \ {x} \notin Bad
  <2>1. Bad \subseteq SUBSET S
    OBVIOUS
  <2> HIDE DEF Bad
  <2> QED BY <1>1, <2>1, LeastSubset
<1>3. T # {}
  BY <1>2, SumOfNone
<1>4. PICK x : x \in T
  BY <1>3
<1>5. IsFiniteSet(T) /\ T \ {x} \in SUBSET S /\ f[x] \in Int /\ g[x] \in Int /\ f[x] <= g[x]
      /\ \A y \in T : f[y] \in Int /\ g[y] \in Int
  BY <1>2, <1>4, FS_Subset
<1>6. SumFunctionOnSet(f, T \ {x}) <= SumFunctionOnSet(g, T \ {x})
  BY <1>2, <1>4, <1>5
<1>7. /\ SumFunctionOnSet(f, T \ {x}) \in Int
      /\ SumFunctionOnSet(f, T) = f[x] + SumFunctionOnSet(f, T \ {x})
  BY <1>4, <1>5, SumTakes
<1>8. /\ SumFunctionOnSet(g, T \ {x}) \in Int
      /\ SumFunctionOnSet(g, T) = g[x] + SumFunctionOnSet(g, T \ {x})
  BY <1>4, <1>5, SumTakes
<1>9. SumFunctionOnSet(f, T) <= SumFunctionOnSet(g, T)
  BY <1>5, <1>6, <1>7, <1>8
<1> QED BY <1>2, <1>9

LEMMA SumSame ==
  ASSUME NEW f, NEW g, NEW S, IsFiniteSet(S), \A y \in S : f[y] \in Int /\ f[y] = g[y]
  PROVE  SumFunctionOnSet(f, S) = SumFunctionOnSet(g, S)
<1>1. SumFunctionOnSet(f, S) <= SumFunctionOnSet(g, S) /\ SumFunctionOnSet(g, S) <= SumFunctionOnSet(f, S)
  BY SumLeq
<1>2. SumFunctionOnSet(f, S) \in Int /\ SumFunctionOnSet(g, S) \in Int
  BY SumIsInt
<1> QED BY <1>1, <1>2

LEMMA SumPlus ==
  ASSUME NEW f, NEW g, NEW h, NEW S, IsFiniteSet(S),
         \A y \in S : f[y] \in Int /\ g[y] \in Int /\ h[y] = f[y] + g[y]
  PROVE  SumFunctionOnSet(h, S) = SumFunctionOnSet(f, S) + SumFunctionOnSet(g, S)
<1> DEFINE Bad == {T \in SUBSET S : SumFunctionOnSet(h, T) # SumFunctionOnSet(f, T) + SumFunctionOnSet(g, T)}
<1>1. SUFFICES ASSUME Bad # {} PROVE FALSE
  OBVIOUS
<1>2. PICK T \in Bad : \A x \in T : T \ {x} \notin Bad
  <2>1. Bad \subseteq SUBSET S
    OBVIOUS
  <2> HIDE DEF Bad
  <2> QED BY <1>1, <2>1, LeastSubset
<1>3. T # {}
  <2>1. SumFunctionOnSet(h, {}) = SumFunctionOnSet(f, {}) + SumFunctionOnSet(g, {})
    BY SumOfNone
  <2> QED BY <1>2, <2>1
<1>4. PICK x : x \in T
  BY <1>3
<1>5. IsFiniteSet(T) /\ T \ {x} \in SUBSET S /\ f[x] \in Int /\ g[x] \in Int /\ h[x] = f[x] + g[x]
      /\ \A y \in T : f[y] \in Int /\ g[y] \in Int /\ h[y] \in Int
  BY <1>2, <1>4, FS_Subset
<1>6. SumFunctionOnSet(h, T \ {x}) = SumFunctionOnSet(f, T \ {x}) + SumFunctionOnSet(g, T \ {x})
  BY <1>2, <1>4, <1>5
<1>7. /\ SumFunctionOnSet(f, T \ {x}) \in Int
      /\ SumFunctionOnSet(f, T) = f[x] + SumFunctionOnSet(f, T \ {x})
  BY <1>4, <1>5, SumTakes
<1>8. /\ SumFunctionOnSet(g, T \ {x}) \in Int
      /\ SumFunctionOnSet(g, T) = g[x] + SumFunctionOnSet(g, T \ {x})
  BY <1>4, <1>5, SumTakes
<1>9. SumFunctionOnSet(h, T) = h[x] + SumFunctionOnSet(h, T \ {x})
  BY <1>4, <1>5, SumTakes
<1>10. SumFunctionOnSet(h, T) = SumFunctionOnSet(f, T) + SumFunctionOnSet(g, T)
  BY <1>5, <1>6, <1>7, <1>8, <1>9
<1> QED BY <1>2, <1>10

LEMMA SumOfEqual ==
  ASSUME NEW f, NEW S, IsFiniteSet(S), NEW c \in Int, \A y \in S : f[y] = c
  PROVE  SumFunctionOnSet(f, S) = c * Cardinality(S)
<1> DEFINE Bad == {T \in SUBSET S : SumFunctionOnSet(f, T) # c * Cardinality(T)}
<1>1. SUFFICES ASSUME Bad # {} PROVE FALSE
  OBVIOUS
<1>2. PICK T \in Bad : \A x \in T : T \ {x} \notin Bad
  <2>1. Bad \subseteq SUBSET S
    OBVIOUS
  <2> HIDE DEF Bad
  <2> QED BY <1>1, <2>1, LeastSubset
<1>3. T # {}
  BY <1>2, SumOfNone, FS_EmptySet
<1>4. PICK x : x \in T
  BY <1>3
<1>5. IsFiniteSet(T) /\ T \ {x} \in SUBSET S /\ \A y \in T : f[y] \in Int /\ f[y] = c
  BY <1>2, <1>4, FS_Subset
<1>6. SumFunctionOnSet(f, T \ {x}) = c * Cardinality(T \ {x})
  BY <1>2, <1>4, <1>5
<1>7. SumFunctionOnSet(f, T) = f[x] + SumFunctionOnSet(f, T \ {x})
  BY <1>4, <1>5, SumTakes
<1>8. Cardinality(T \ {x}) = Cardinality(T) - 1 /\ Cardinality(T) \in Nat
  BY <1>4, <1>5, FS_RemoveElement, FS_CardinalityType
<1>9. c + c * (Cardinality(T) - 1) = c * Cardinality(T)
  BY <1>8
<1> QED BY <1>2, <1>4, <1>5, <1>6, <1>7, <1>8, <1>9

\* What is nothing outside a part of the set is summed over that part.
LEMMA SumInside ==
  ASSUME NEW f, NEW S, IsFiniteSet(S), \A y \in S : f[y] \in Int,
         NEW E, E \subseteq S, \A y \in S \ E : f[y] = 0
  PROVE  SumFunctionOnSet(f, S) = SumFunctionOnSet(f, E)
<1> DEFINE Bad == {T \in SUBSET S : SumFunctionOnSet(f, T) # SumFunctionOnSet(f, T \cap E)}
<1>0. S \cap E = E /\ S \in SUBSET S
  OBVIOUS
<1>1. SUFFICES ASSUME Bad # {} PROVE FALSE
  BY <1>0
<1>2. PICK T \in Bad : \A x \in T : T \ {x} \notin Bad
  <2>1. Bad \subseteq SUBSET S
    OBVIOUS
  <2> HIDE DEF Bad
  <2> QED BY <1>1, <2>1, LeastSubset
<1>3. T # {}
  BY <1>2
<1>4. PICK x : x \in T
  BY <1>3
<1>5. IsFiniteSet(T) /\ T \ {x} \in SUBSET S /\ \A y \in T : f[y] \in Int
  BY <1>2, <1>4, FS_Subset
<1>6. SumFunctionOnSet(f, T \ {x}) = SumFunctionOnSet(f, (T \ {x}) \cap E)
  BY <1>2, <1>4, <1>5
<1>7. /\ SumFunctionOnSet(f, T \ {x}) \in Int
      /\ SumFunctionOnSet(f, T) = f[x] + SumFunctionOnSet(f, T \ {x})
  BY <1>4, <1>5, SumTakes
<1>8. CASE x \notin E
  <2>1. f[x] = 0 /\ (T \ {x}) \cap E = T \cap E
    BY <1>2, <1>4, <1>8
  <2>2. SumFunctionOnSet(f, T) = SumFunctionOnSet(f, T \ {x})
    BY <1>7, <2>1
  <2>3. SumFunctionOnSet(f, T \ {x}) = SumFunctionOnSet(f, T \cap E)
    BY <1>6, <2>1, Zenon
  <2> QED BY <1>2, <2>2, <2>3
<1>9. CASE x \in E
  <2>1. x \in T \cap E /\ (T \cap E) \ {x} = (T \ {x}) \cap E /\ IsFiniteSet(T \cap E)
        /\ \A y \in T \cap E : f[y] \in Int
    BY <1>4, <1>5, <1>9, FS_Subset
  <2>2. SumFunctionOnSet(f, T \cap E) = f[x] + SumFunctionOnSet(f, (T \cap E) \ {x})
    BY <2>1, SumTakes
  <2> QED BY <1>2, <1>6, <1>7, <2>1, <2>2
<1> QED BY <1>8, <1>9

\* Who is given one each adds up to their number.
LEMMA SumOfOnes ==
  ASSUME NEW f, NEW S, IsFiniteSet(S), NEW E, E \subseteq S,
         \A y \in S : f[y] = IF y \in E THEN 1 ELSE 0
  PROVE  SumFunctionOnSet(f, S) = Cardinality(E)
<1>1. SumFunctionOnSet(f, S) = SumFunctionOnSet(f, E)
  BY SumInside
<1>2. IsFiniteSet(E) /\ \A y \in E : f[y] = 1
  BY FS_Subset
<1>3. SumFunctionOnSet(f, E) = 1 * Cardinality(E) /\ Cardinality(E) \in Nat
  BY <1>2, SumOfEqual, FS_CardinalityType
<1> QED BY <1>1, <1>3

\* None of the summands is greater than the sum, when none is negative.
LEMMA SumCovers ==
  ASSUME NEW f, NEW S, IsFiniteSet(S), \A y \in S : f[y] \in Nat
  PROVE  /\ SumFunctionOnSet(f, S) \in Nat
         /\ \A x \in S : f[x] <= SumFunctionOnSet(f, S)
<1> DEFINE z == [y \in S |-> 0]
<1>1. ASSUME NEW T, T \subseteq S PROVE SumFunctionOnSet(f, T) \in Int /\ SumFunctionOnSet(f, T) >= 0
  <2>1. IsFiniteSet(T) /\ \A y \in T : f[y] \in Int /\ z[y] \in Int /\ z[y] <= f[y]
    BY <1>1, FS_Subset
  <2>2. \A y \in T : z[y] = 0
    BY <1>1
  <2> HIDE DEF z
  <2>3. SumFunctionOnSet(z, T) = 0 * Cardinality(T) /\ Cardinality(T) \in Nat
    BY <2>1, <2>2, SumOfEqual, FS_CardinalityType
  <2>4. SumFunctionOnSet(z, T) <= SumFunctionOnSet(f, T) /\ SumFunctionOnSet(f, T) \in Int
    BY <2>1, SumLeq, SumIsInt
  <2> QED BY <2>3, <2>4
<1>2. ASSUME NEW x \in S PROVE f[x] <= SumFunctionOnSet(f, S)
  <2>1. /\ SumFunctionOnSet(f, S \ {x}) \in Int
        /\ SumFunctionOnSet(f, S) = f[x] + SumFunctionOnSet(f, S \ {x})
    BY SumTakes
  <2>2. SumFunctionOnSet(f, S \ {x}) >= 0
    BY <1>1
  <2> QED BY <2>1, <2>2
<1> QED BY <1>1, <1>2

\* The first r of a set of members number r, or all of them when there are fewer.
LEMMA FirstFew ==
  ASSUME NEW S, S \subseteq Members, NEW r \in Nat
  PROVE  Cardinality({m \in S : Cardinality({k \in S : k < m}) < r}) = Smaller(r, Cardinality(S))
<1> DEFINE First(T) == {m \in T : Cardinality({k \in T : k < m}) < r}
           Bad == {T \in SUBSET S : Cardinality(First(T)) # Smaller(r, Cardinality(T))}
<1>0. IsFiniteSet(S)
  <2>1. IsFiniteSet(Members)
    BY EnergyAssumption, FS_Interval DEF Members
  <2> QED BY <2>1, FS_Subset
<1>1. SUFFICES ASSUME Bad # {} PROVE FALSE
  OBVIOUS
<1>2. PICK T \in Bad : \A x \in T : T \ {x} \notin Bad
  <2>1. Bad \subseteq SUBSET S
    OBVIOUS
  <2> HIDE DEF Bad
  <2> QED BY <1>0, <1>1, <2>1, LeastSubset
<1>3. T # {}
  <2> SUFFICES ASSUME T = {} PROVE FALSE
    OBVIOUS
  <2>1. First(T) = {}
    OBVIOUS
  <2> QED BY <1>2, <2>1, FS_EmptySet DEF Smaller
<1>4. T \subseteq Nat /\ \A y \in T : y <= N
  BY <1>2, EnergyAssumption DEF Members
<1>5. PICK x \in T : \A y \in T : y <= x
  BY <1>3, <1>4, EnergyAssumption, GreatestNatural
<1>6. /\ IsFiniteSet(T) /\ IsFiniteSet(T \ {x})
      /\ Cardinality(T) \in Nat /\ Cardinality(T \ {x}) = Cardinality(T) - 1
  BY <1>0, <1>2, <1>5, FS_Subset, FS_RemoveElement, FS_CardinalityType
<1>7. Cardinality(First(T \ {x})) = Smaller(r, Cardinality(T) - 1)
  BY <1>2, <1>5, <1>6
<1>8. {k \in T : k < x} = T \ {x}
  <2>1. \A k \in T : k < x <=> k # x
    BY <1>4, <1>5
  <2> QED BY <2>1
<1>9. \A m \in T \ {x} : {k \in T : k < m} = {k \in T \ {x} : k < m}
  BY <1>4, <1>5
<1>10. First(T) = IF Cardinality(T) - 1 < r THEN First(T \ {x}) \cup {x} ELSE First(T \ {x})
  BY <1>5, <1>6, <1>8, <1>9
<1>11. IsFiniteSet(First(T \ {x})) /\ x \notin First(T \ {x})
  BY <1>6, FS_Subset
<1>12. Cardinality(First(T \ {x}) \cup {x}) = Cardinality(First(T \ {x})) + 1
  BY <1>11, FS_AddElement
<1> HIDE DEF First
<1>13. Cardinality(First(T)) = Smaller(r, Cardinality(T))
  BY <1>6, <1>7, <1>10, <1>12 DEF Smaller
<1> QED BY <1>2, <1>13

\* What a division leaves.
LEMMA Quotient ==
  ASSUME NEW r \in Nat, NEW n \in Nat \ {0}
  PROVE  r \div n \in Nat /\ r % n \in Nat /\ r % n < n /\ r = (r \div n) * n + (r % n)
  BY SMT
----------------------------------------------------------------------------
(* The allocation's inductive invariant                                    *)

\* The members that a band was taken of, and of those the ones that may still be given amps.
Taken == 1 .. cursor - 1
Open  == IF pc = "round" THEN eligible ELSE {}

Filled(m) == AtCap(m, targets[m])

\* A band is taken as a whole; what is open is of one band, the last.
BandsAreWhole ==
  /\ \A m \in Taken : BandOf(m) \subseteq Taken
  /\ Open \subseteq Taken
  /\ \A m \in Open, k \in Taken : in.method = "EQUAL" \/ in.prio[k] <= in.prio[m]

\* What was given is what is gone, nobody was given more than fits, and nobody anything
\* before the turn of its band.
GivenIsGone ==
  /\ IF pc = "limit" THEN limit = 0 /\ cursor = 1 ELSE limit = EffectiveLimit
  /\ Allocated + remaining = limit
  /\ \A m \in Members : in.cap[m] # Null => targets[m] <= in.cap[m]
  /\ \A m \in Members \ Taken : targets[m] = 0

\* Whoever is open can take an amp, but for the first round of a band, which everyone
\* begins with nothing.
OpenCanTake ==
  \/ \A m \in Open : ~ Filled(m)
  \/ \A m \in Open : BandOf(m) = Open /\ targets[m] = 0

\* Whose turn is over is full, or as many in its band can take nothing as there are amps left.
LeftOver ==
  \A m \in Taken \ Open : Filled(m) \/ remaining <= Cardinality(ZeroCappedIn(BandOf(m)))

\* A less urgent band had its turn when the more urgent one was full.
UrgentFirst ==
  \A a, b \in Taken :
    in.method = "PRIORITY" /\ in.prio[a] < in.prio[b] =>
      Filled(a) \/ ZeroCappedIn(BandOf(a)) # {}

\* Who is open is behind the others by at most an amp for each that filled up, and one
\* more when the last round gave everything.
KeepsUp ==
  \A a \in Taken : \A b \in BandOf(a) :
    IF b \in Open
    THEN targets[a] - targets[b] <= Cardinality(BandOf(a) \ Open) + (IF remaining = 0 THEN 1 ELSE 0)
    ELSE Filled(b) \/ targets[a] - targets[b] <= 1 + Cardinality(AtTheirCap(BandOf(a)))

\* Who is not open any more is full.
ClosedAreFull ==
  \A m \in Open : \A k \in BandOf(m) \ Open : Filled(k)

\* The plan is the decision on what was given, and is made when there is nothing left or
\* nobody to give it to.
Decided ==
  pc = "done" => (cursor > N \/ remaining = 0) /\ plan = [m \in Members |-> Decision(m)]

AllocationInv ==
  /\ AllocationTypeOK /\ in \in Inputs
  /\ BandsAreWhole /\ GivenIsGone /\ OpenCanTake /\ LeftOver /\ UrgentFirst /\ KeepsUp
  /\ ClosedAreFull /\ Decided

LEMMA FiniteMembers == IsFiniteSet(Members) /\ Cardinality(Members) = N /\ Members \subseteq Nat
  BY EnergyAssumption, FS_Interval DEF Members

LEMMA FiniteParts == \A S \in SUBSET Members : IsFiniteSet(S) /\ Cardinality(S) \in Nat
  BY FiniteMembers, FS_Subset, FS_CardinalityType

\* The arguments of the function, as the proofs look at them.
LEMMA InputTypes ==
  ASSUME in \in Inputs
  PROVE  /\ \A m \in Members : /\ in.cap[m] = Null \/ in.cap[m] \in Nat
                               /\ in.prev[m] = Null \/ in.prev[m] \in Nat
                               /\ in.prio[m] \in Nat
         /\ \A a, b \in Members : a < b => in.prio[a] <= in.prio[b]
         /\ in.method \in {"EQUAL", "PRIORITY"}
         /\ in.override = Null \/ in.override \in Nat
         /\ in.deadband \in Nat \ {0}
         /\ \A p \in Phases : in.site[p] \in Nat /\ in.load[p] \in Nat /\ in.buffer[p] \in Nat /\ in.failSafe[p] \in Nat
<1>1. in \in InputShape
  BY EnergyAssumption
<1> QED BY <1>1, EnergyAssumption DEF InputShape, Optional

\* A member's band.
LEMMA Bands ==
  ASSUME in \in Inputs, NEW m \in Members
  PROVE  /\ BandOf(m) \subseteq Members /\ m \in BandOf(m)
         /\ \A k \in BandOf(m) : BandOf(k) = BandOf(m)
         /\ Max(BandOf(m)) \in BandOf(m) /\ \A k \in BandOf(m) : k <= Max(BandOf(m))
<1>1. BandOf(m) \subseteq Members /\ m \in BandOf(m) /\ \A k \in BandOf(m) : BandOf(k) = BandOf(m)
  BY DEF BandOf
<1>2. BandOf(m) \subseteq Nat /\ \A k \in BandOf(m) : k <= N
  BY <1>1, EnergyAssumption DEF Members
<1>3. PICK x \in BandOf(m) : \A k \in BandOf(m) : k <= x
  BY <1>1, <1>2, EnergyAssumption, GreatestNatural
<1>4. x \in BandOf(m) /\ \A k \in BandOf(m) : x >= k
  BY <1>2, <1>3
<1>5. Max(BandOf(m)) \in BandOf(m) /\ \A k \in BandOf(m) : Max(BandOf(m)) >= k
  BY <1>4 DEF Max
<1>6. \A k \in BandOf(m) : k <= Max(BandOf(m))
  BY <1>2, <1>5
<1> QED BY <1>1, <1>5, <1>6

\* The limit fits the phases that have amps, and the override.
LEMMA LimitFits ==
  ASSUME in \in Inputs
  PROVE  /\ EffectiveLimit \in Nat
         /\ \A p \in Phases : Ceiling(p) = 0 \/ EffectiveLimit <= Ceiling(p)
         /\ in.override # Null => EffectiveLimit <= in.override
<1>1. \A p \in Phases : Ceiling(p) \in Nat
  BY InputTypes DEF Ceiling, Headroom, AtLeastZero, Smaller
<1>2. PICK live : live = {Ceiling(p) : p \in Phases} \ {0}
  OBVIOUS
<1>3. live \subseteq Nat
  BY <1>1, <1>2
<1>4. ScalarLimit \in Nat /\ \A p \in Phases : Ceiling(p) = 0 \/ ScalarLimit <= Ceiling(p)
  <2>1. CASE live = {}
    <3>1. ScalarLimit = 0
      BY <1>2, <2>1 DEF ScalarLimit
    <3> QED BY <1>1, <3>1
  <2>2. CASE live # {}
    <3>1. ScalarLimit = Min(live)
      BY <1>2, <2>2 DEF ScalarLimit
    <3>2. \E x \in live : \A y \in live : x <= y
      BY <1>3, <2>2, LeastNatural
    <3>3. Min(live) \in live /\ \A y \in live : Min(live) <= y
      BY <3>2 DEF Min
    <3> QED BY <1>2, <1>3, <3>1, <3>3
  <2> QED BY <2>1, <2>2
<1>5. in.override = Null \/ in.override \in Nat
  BY InputTypes
<1>6. EffectiveLimit = IF in.override = Null THEN ScalarLimit ELSE Smaller(ScalarLimit, in.override)
  BY DEF EffectiveLimit
<1> QED BY <1>1, <1>4, <1>5, <1>6 DEF Smaller
----------------------------------------------------------------------------
(* One round                                                               *)

\* What a round offers a member that nothing caps.
Share(m) ==
  (remaining \div Cardinality(eligible))
  + (IF Cardinality({k \in eligible : k < m}) < (remaining % Cardinality(eligible)) THEN 1 ELSE 0)

\* The shares add up to what remains, and differ by one amp at most.
LEMMA SharesAddUp ==
  ASSUME remaining \in Nat, eligible \subseteq Members, eligible # {}
  PROVE  /\ \A m \in eligible : Share(m) \in Nat
         /\ \A a, b \in eligible : Share(a) <= Share(b) + 1
         /\ SumFunctionOnSet([m \in eligible |-> Share(m)], eligible) = remaining
<1> DEFINE n == Cardinality(eligible)
           q == remaining \div n
           r == remaining % n
           first == {m \in eligible : Cardinality({k \in eligible : k < m}) < r}
           all == [m \in eligible |-> q]
           ones == [m \in eligible |-> IF m \in first THEN 1 ELSE 0]
           shares == [m \in eligible |-> Share(m)]
<1>1. IsFiniteSet(eligible) /\ n \in Nat \ {0}
  BY FiniteParts, FS_EmptySet
<1>2. q \in Nat /\ r \in Nat /\ r < n /\ remaining = q * n + r
  BY <1>1, Quotient
<1>3. \A m \in eligible : Share(m) = all[m] + ones[m] /\ shares[m] = Share(m)
  BY DEF Share
<1>4. \A m \in eligible : all[m] = q /\ ones[m] = IF m \in first THEN 1 ELSE 0
  OBVIOUS
<1>5. Cardinality(first) = r
  <2>1. Cardinality(first) = Smaller(r, n)
    BY <1>2, FirstFew
  <2> HIDE DEF first, r, n
  <2> QED BY <1>1, <1>2, <2>1 DEF Smaller
<1>6. first \subseteq eligible
  OBVIOUS
<1> HIDE DEF n, q, r, first, all, ones, shares
<1>7. \A m \in eligible : all[m] \in Int /\ ones[m] \in Int /\ shares[m] = all[m] + ones[m]
  BY <1>2, <1>3, <1>4
<1>8. SumFunctionOnSet(all, eligible) = q * n
  BY <1>1, <1>2, <1>4, SumOfEqual DEF n
<1>9. SumFunctionOnSet(ones, eligible) = r
  BY <1>1, <1>4, <1>5, <1>6, SumOfOnes
<1>10. SumFunctionOnSet(shares, eligible) = SumFunctionOnSet(all, eligible) + SumFunctionOnSet(ones, eligible)
  BY <1>1, <1>7, SumPlus
<1>11. SumFunctionOnSet(shares, eligible) = remaining
  BY <1>2, <1>8, <1>9, <1>10
<1>12. /\ \A m \in eligible : Share(m) \in Nat
       /\ \A a, b \in eligible : Share(a) <= Share(b) + 1
  BY <1>2, <1>3, <1>4
<1> QED BY <1>11, <1>12 DEF shares

\* What is added is the sum of what everyone was given.
LEMMA AllocatedGrows ==
  ASSUME targets \in [Members -> Nat], targets' \in [Members -> Nat],
         NEW S, S \subseteq Members, \A m \in Members \ S : targets'[m] = targets[m]
  PROVE  Allocated' = Allocated + SumFunction([m \in S |-> targets'[m] - targets[m]])
<1> DEFINE more == [m \in Members |-> targets'[m] - targets[m]]
           given == [m \in S |-> targets'[m] - targets[m]]
<1>1. /\ \A m \in Members : more[m] \in Int /\ targets[m] \in Int /\ targets'[m] = targets[m] + more[m]
      /\ \A m \in Members \ S : more[m] = 0
      /\ \A m \in S : more[m] = given[m]
  OBVIOUS
<1>2. DOMAIN given = S
  OBVIOUS
<1>3. Allocated = SumFunctionOnSet(targets, Members) /\ Allocated' = SumFunctionOnSet(targets', Members)
  BY DEF Allocated, SumFunction
<1> HIDE DEF more, given
<1>4. SumFunctionOnSet(targets', Members) = SumFunctionOnSet(targets, Members) + SumFunctionOnSet(more, Members)
  <2>1. PICK t : t = targets'
    OBVIOUS
  <2>2. \A m \in Members : targets[m] \in Int /\ more[m] \in Int /\ t[m] = targets[m] + more[m]
    BY <1>1, <2>1
  <2>3. SumFunctionOnSet(t, Members) = SumFunctionOnSet(targets, Members) + SumFunctionOnSet(more, Members)
    <3>1. IsFiniteSet(Members)
      BY FiniteMembers
    <3> QED BY <2>2, <3>1, SumPlus, SMT
  <2> QED BY <2>1, <2>3
<1>5. SumFunctionOnSet(more, Members) = SumFunctionOnSet(more, S)
  BY <1>1, FiniteMembers, SumInside
<1>6. SumFunctionOnSet(more, S) = SumFunctionOnSet(given, S)
  BY <1>1, FiniteParts, SumSame
<1>7. SumFunction(given) = SumFunctionOnSet(given, S)
  BY <1>2 DEF SumFunction
<1> QED BY <1>3, <1>4, <1>5, <1>6, <1>7 DEF given

LEMMA InvTypes ==
  ASSUME AllocationInv
  PROVE  /\ in \in Inputs /\ pc \in {"limit", "band", "round", "done"}
         /\ limit \in Nat /\ remaining \in Nat /\ cursor \in 1 .. N + 1 /\ cursor \in Nat
         /\ eligible \subseteq Members
         /\ targets \in [Members -> Nat] /\ \A m \in Members : targets[m] \in Nat
         /\ Taken \subseteq Members /\ Open \subseteq Members
<1>1. AllocationTypeOK
  BY DEF AllocationInv
<1> QED BY <1>1, EnergyAssumption DEF AllocationInv, AllocationTypeOK, Taken, Open, Members

\* What one round gives: nobody loses amps, and who does not get the whole share is full.
LEMMA RoundGives ==
  ASSUME AllocationInv, DistributeRound
  PROVE  /\ targets' \in [Members -> Nat]
         /\ \A m \in Members : targets[m] <= targets'[m] /\ (in.cap[m] # Null => targets'[m] <= in.cap[m])
         /\ \A m \in Members \ eligible : targets'[m] = targets[m]
         /\ \A m \in eligible : /\ targets'[m] <= targets[m] + Share(m)
                                /\ AtCap(m, targets'[m]) \/ targets'[m] = targets[m] + Share(m)
<1> USE InvTypes
<1>1. \A m \in Members : targets'[m] = IF m \in eligible THEN AfterRound(m) ELSE targets[m]
  BY DEF DistributeRound
<1>2. \A m \in eligible : Share(m) \in Nat
  BY SharesAddUp DEF DistributeRound
<1>3. ASSUME NEW m \in eligible
      PROVE  AfterRound(m) = Capped(m, targets[m] + Share(m))
  <2>1. AfterRound(m) = Capped(m, targets[m] + (remaining \div Cardinality(eligible))
          + (IF Cardinality({k \in eligible : k < m}) < (remaining % Cardinality(eligible)) THEN 1 ELSE 0))
    BY DEF AfterRound
  <2>2. Cardinality(eligible) \in Nat \ {0}
    BY FiniteParts, FS_EmptySet
  <2>3. remaining \div Cardinality(eligible) \in Nat
    BY <2>2, Quotient
  <2>4. targets[m] \in Nat
    OBVIOUS
  <2>5. targets[m] + (remaining \div Cardinality(eligible))
          + (IF Cardinality({k \in eligible : k < m}) < (remaining % Cardinality(eligible)) THEN 1 ELSE 0)
        = targets[m] + Share(m)
    BY <2>3, <2>4 DEF Share
  <2> QED BY <2>1, <2>5
<1>4. \A m \in Members : in.cap[m] # Null => in.cap[m] \in Nat /\ targets[m] <= in.cap[m]
  BY InputTypes DEF AllocationInv, GivenIsGone
<1>5. ASSUME NEW m \in eligible
      PROVE  /\ targets'[m] \in Nat /\ targets[m] <= targets'[m] /\ targets'[m] <= targets[m] + Share(m)
             /\ in.cap[m] # Null => targets'[m] <= in.cap[m]
             /\ AtCap(m, targets'[m]) \/ targets'[m] = targets[m] + Share(m)
  <2>1. m \in Members /\ targets[m] \in Nat /\ Share(m) \in Nat
    BY <1>2
  <2>2. targets'[m] = Capped(m, targets[m] + Share(m))
    BY <1>1, <1>3, <2>1
  <2>3. CASE in.cap[m] = Null
    BY <2>1, <2>2, <2>3 DEF Capped
  <2>4. CASE in.cap[m] # Null
    <3>1. in.cap[m] \in Nat /\ targets[m] <= in.cap[m] /\ targets'[m] = Smaller(targets[m] + Share(m), in.cap[m])
      BY <1>4, <2>1, <2>2, <2>4 DEF Capped
    <3> QED BY <2>1, <2>4, <3>1 DEF Smaller, AtCap
  <2> QED BY <2>3, <2>4
<1>6. ASSUME NEW m \in Members \ eligible
      PROVE  targets'[m] = targets[m] /\ targets'[m] \in Nat /\ (in.cap[m] # Null => targets'[m] <= in.cap[m])
  BY <1>1, <1>4, <1>6
<1>7. targets' \in [Members -> Nat]
  <2>1. targets' = [m \in Members |-> IF m \in eligible THEN AfterRound(m) ELSE targets[m]]
    BY DEF DistributeRound
  <2>2. \A m \in Members : (IF m \in eligible THEN AfterRound(m) ELSE targets[m]) \in Nat
    BY <1>1, <1>5, <1>6
  <2> QED BY <2>1, <2>2
<1>8. \A m \in Members : targets[m] <= targets'[m] /\ (in.cap[m] # Null => targets'[m] <= in.cap[m])
  BY <1>5, <1>6
<1> QED BY <1>5, <1>6, <1>7, <1>8

\* What a round gives in all: no more than there is, and less only when someone filled up.
LEMMA RoundAddsUp ==
  ASSUME AllocationInv, DistributeRound
  PROVE  \E assigned \in Nat :
           /\ SettleRound(targets', assigned)
           /\ assigned <= remaining /\ Allocated' = Allocated + assigned
           /\ assigned < remaining => \E m \in eligible : AtCap(m, targets'[m])
           /\ assigned = 0 => \A m \in Members : targets'[m] = targets[m]
<1> DEFINE given == [m \in eligible |-> targets'[m] - targets[m]]
           shares == [m \in eligible |-> Share(m)]
           assigned == SumFunction(given)
<1>1. /\ targets \in [Members -> Nat] /\ eligible \subseteq Members /\ IsFiniteSet(eligible)
      /\ remaining \in Nat /\ eligible # {}
  BY InvTypes, FiniteParts DEF DistributeRound
<1>2. SettleRound(targets', assigned)
  BY DEF DistributeRound
<1>3. Allocated' = Allocated + assigned
  BY <1>1, RoundGives, AllocatedGrows
<1>4. /\ \A m \in eligible : shares[m] = Share(m) /\ Share(m) \in Nat
      /\ SumFunctionOnSet(shares, eligible) = remaining
  BY <1>1, SharesAddUp
<1>5. \A m \in eligible : /\ given[m] \in Nat /\ given[m] <= shares[m] /\ shares[m] \in Int
                          /\ given[m] = targets'[m] - targets[m]
                          /\ AtCap(m, targets'[m]) \/ given[m] = shares[m]
  <2> SUFFICES ASSUME NEW m \in eligible
               PROVE  /\ given[m] \in Nat /\ given[m] <= shares[m] /\ shares[m] \in Int
                      /\ given[m] = targets'[m] - targets[m]
                      /\ AtCap(m, targets'[m]) \/ given[m] = shares[m]
    BY Zenon
  <2>1. m \in Members /\ targets[m] \in Nat /\ shares[m] = Share(m) /\ Share(m) \in Nat
    BY <1>1, <1>4
  <2>2. /\ targets'[m] \in Nat /\ targets[m] <= targets'[m] /\ targets'[m] <= targets[m] + Share(m)
        /\ AtCap(m, targets'[m]) \/ targets'[m] = targets[m] + Share(m)
    BY <2>1, RoundGives
  <2>3. given[m] = targets'[m] - targets[m]
    OBVIOUS
  <2> HIDE DEF given, shares
  <2> QED BY <2>1, <2>2, <2>3
<1>6. assigned = SumFunctionOnSet(given, eligible)
  BY DEF SumFunction
<1> HIDE DEF given, shares, assigned
<1>7. assigned \in Nat /\ \A m \in eligible : given[m] <= assigned
  BY <1>1, <1>5, <1>6, SumCovers
<1>8. assigned <= remaining
  BY <1>1, <1>4, <1>5, <1>6, SumLeq
<1>9. ASSUME assigned < remaining PROVE \E m \in eligible : AtCap(m, targets'[m])
  <2> SUFFICES ASSUME \A m \in eligible : ~ AtCap(m, targets'[m]) PROVE FALSE
    BY Zenon
  <2>1. \A m \in eligible : given[m] \in Int /\ given[m] = shares[m]
    BY <1>5
  <2>2. SumFunctionOnSet(given, eligible) = SumFunctionOnSet(shares, eligible)
    BY <1>1, <2>1, SumSame
  <2> QED BY <1>1, <1>4, <1>6, <1>9, <2>2
<1>10. ASSUME assigned = 0, NEW m \in Members PROVE targets'[m] = targets[m]
  <2>1. CASE m \in eligible
    <3>1. targets'[m] \in Nat /\ targets[m] \in Nat
      BY <1>1, RoundGives
    <3> QED BY <1>5, <1>7, <1>10, <2>1, <3>1
  <2> QED BY <2>1, RoundGives
<1> QED BY <1>2, <1>3, <1>7, <1>8, <1>9, <1>10
----------------------------------------------------------------------------
(* The allocation's invariant is kept                                      *)

\* Nothing was given.
LEMMA AllocationStarts == AllocationInit => AllocationInv
<1> SUFFICES ASSUME AllocationInit PROVE AllocationInv
  OBVIOUS
<1>1. /\ in \in Inputs /\ pc = "limit" /\ limit = 0 /\ remaining = 0 /\ cursor = 1 /\ eligible = {}
      /\ targets = [m \in Members |-> 0] /\ plan = [m \in Members |-> [amps |-> 0, command |-> "None", send |-> FALSE]]
  BY DEF AllocationInit, NoPlan
<1>2. AllocationTypeOK
  <2>1. in \in InputShape /\ N \in Nat
    BY <1>1, EnergyAssumption
  <2> QED BY <1>1, <2>1 DEF AllocationTypeOK
<1>3. Taken = {} /\ Open = {}
  BY <1>1 DEF Taken, Open
<1>4. Allocated = 0
  <2>1. Allocated = SumFunctionOnSet(targets, Members) /\ \A m \in Members : targets[m] = 0
    BY <1>1 DEF Allocated, SumFunction
  <2>2. SumFunctionOnSet(targets, Members) = 0 * Cardinality(Members)
    <3>1. IsFiniteSet(Members) /\ 0 \in Int
      BY FiniteMembers
    <3> QED BY <2>1, <3>1, SumOfEqual, SMT
  <2> QED BY <2>1, <2>2, FiniteMembers, FiniteParts
<1>5. GivenIsGone
  <2>1. \A m \in Members : in.cap[m] # Null => in.cap[m] \in Nat
    BY <1>1, InputTypes
  <2> QED BY <1>1, <1>4, <2>1 DEF GivenIsGone
<1>6. BandsAreWhole /\ OpenCanTake /\ LeftOver /\ UrgentFirst /\ KeepsUp /\ ClosedAreFull /\ Decided
  BY <1>1, <1>3 DEF BandsAreWhole, OpenCanTake, LeftOver, UrgentFirst, KeepsUp, ClosedAreFull, Decided
<1> QED BY <1>1, <1>2, <1>5, <1>6 DEF AllocationInv

\* Who is open, and who was, is behind the others as the properties say.
LEMMA AllKeepUp ==
  ASSUME AllocationInv, NEW a \in Taken, NEW b \in BandOf(a)
  PROVE  Filled(b) \/ targets[a] - targets[b] <= 1 + Cardinality(AtTheirCap(BandOf(a)))
<1>1. a \in Members /\ b \in Members /\ targets[a] \in Int /\ targets[b] \in Int
  BY InvTypes, Bands
<1>2. CASE b \in Open
  <2>1. BandOf(a) \ Open \subseteq AtTheirCap(BandOf(a)) /\ AtTheirCap(BandOf(a)) \subseteq Members
    <3>1. BandOf(a) = BandOf(b) /\ BandOf(a) \subseteq Members
      BY <1>1, InvTypes, Bands
    <3>2. \A k \in BandOf(a) \ Open : AtCap(k, targets[k])
      BY <1>2, <3>1 DEF AllocationInv, ClosedAreFull, Filled
    <3> QED BY <3>1, <3>2 DEF AtTheirCap
  <2>2. Cardinality(BandOf(a) \ Open) <= Cardinality(AtTheirCap(BandOf(a)))
    BY <2>1, FiniteParts, FS_Subset
  <2>3. Cardinality(BandOf(a) \ Open) \in Nat /\ Cardinality(AtTheirCap(BandOf(a))) \in Nat
    BY <1>1, <2>1, InvTypes, Bands, FiniteParts
  <2>4. targets[a] - targets[b] <= Cardinality(BandOf(a) \ Open) + (IF remaining = 0 THEN 1 ELSE 0)
    BY <1>2 DEF AllocationInv, KeepsUp
  <2> QED BY <1>1, <2>2, <2>3, <2>4
<1>3. CASE b \notin Open
  BY <1>3 DEF AllocationInv, KeepsUp
<1> QED BY <1>2, <1>3

LEMMA LimitKeepsInv ==
  ASSUME AllocationInv, ResolveLimit
  PROVE  AllocationInv'
<1>1. /\ pc = "limit" /\ pc' = "band" /\ limit' = EffectiveLimit /\ remaining' = EffectiveLimit
      /\ UNCHANGED <<in, cursor, eligible, targets, plan>>
  BY DEF ResolveLimit
<1>2. AllocationTypeOK /\ in \in Inputs
  BY DEF AllocationInv
<1>3. EffectiveLimit \in Nat
  BY <1>2, LimitFits
<1>4. AllocationTypeOK'
  BY <1>1, <1>2, <1>3 DEF AllocationTypeOK
<1>5. cursor = 1 /\ limit = 0 /\ Allocated + remaining = limit
  BY <1>1 DEF AllocationInv, GivenIsGone
<1>6. Taken' = {} /\ Open' = {} /\ Taken = {}
  BY <1>1, <1>5 DEF Taken, Open
<1>7. Allocated \in Nat
  BY <1>2, FiniteMembers, SumCovers DEF AllocationTypeOK, Allocated, SumFunction
<1>8. Allocated = 0
  BY <1>2, <1>5, <1>7 DEF AllocationTypeOK
<1>9. Allocated' = Allocated /\ EffectiveLimit' = EffectiveLimit
  BY <1>1 DEF Allocated, EffectiveLimit, ScalarLimit, Ceiling, Headroom
<1>10. GivenIsGone'
  BY <1>1, <1>3, <1>6, <1>8, <1>9 DEF AllocationInv, GivenIsGone
<1>11. BandsAreWhole' /\ OpenCanTake' /\ LeftOver' /\ UrgentFirst' /\ KeepsUp' /\ ClosedAreFull' /\ Decided'
  BY <1>1, <1>6 DEF BandsAreWhole, OpenCanTake, LeftOver, UrgentFirst, KeepsUp, ClosedAreFull, Decided
<1> QED BY <1>1, <1>2, <1>4, <1>10, <1>11 DEF AllocationInv

\* A band takes in whom it finds, all from the cursor to its last member.
LEMMA BandIsNext ==
  ASSUME AllocationInv, TakeBand
  PROVE  /\ cursor \in Members /\ eligible' = BandOf(cursor) /\ eligible' \subseteq Members
         /\ Taken' = Taken \cup eligible' /\ Taken \cap eligible' = {}
         /\ cursor' \in 1 .. N + 1
         /\ Open = {} /\ Open' = eligible'
<1>1. /\ pc = "band" /\ cursor <= N /\ eligible' = BandOf(cursor) /\ cursor' = Max(BandOf(cursor)) + 1
      /\ pc' = "round" /\ UNCHANGED in
  BY DEF TakeBand
<1>2. cursor \in Members /\ cursor \in Nat /\ N \in Nat /\ in \in Inputs
  BY <1>1, InvTypes, EnergyAssumption DEF Members
<1>3. PICK last : last = Max(BandOf(cursor))
  OBVIOUS
<1>4. /\ last \in BandOf(cursor) /\ \A k \in BandOf(cursor) : k <= last
      /\ BandOf(cursor) \subseteq Members /\ cursor \in BandOf(cursor)
  BY <1>2, <1>3, Bands
<1>5. last \in Nat /\ last <= N /\ cursor <= last
  BY <1>2, <1>4 DEF Members
<1>6. ASSUME NEW k \in Members PROVE k \in BandOf(cursor) <=> cursor <= k /\ k <= last
  <2>1. k \in Nat /\ last \in Members
    BY <1>4 DEF Members
  <2>2. ASSUME k \in BandOf(cursor), k < cursor PROVE FALSE
    <3>1. k \in Taken
      BY <1>2, <2>1, <2>2 DEF Taken, Members
    <3>2. BandOf(k) \subseteq Taken
      BY <3>1 DEF AllocationInv, BandsAreWhole
    <3>3. cursor \in BandOf(k)
      BY <1>2, <1>4, <2>2, Bands
    <3> QED BY <1>2, <3>2, <3>3 DEF Taken
  <2>3. ASSUME cursor <= k, k <= last PROVE k \in BandOf(cursor)
    <3>1. in.prio[cursor] <= in.prio[k] /\ in.prio[k] <= in.prio[last]
      BY <1>2, <1>5, <2>1, <2>3, InputTypes
    <3>2. in.prio[cursor] \in Nat /\ in.prio[k] \in Nat
      BY <1>2, InputTypes
    <3>3. in.method = "EQUAL" \/ in.prio[last] = in.prio[cursor]
      BY <1>4 DEF BandOf
    <3> QED BY <3>1, <3>2, <3>3 DEF BandOf
  <2> QED BY <1>2, <1>4, <2>1, <2>2, <2>3
<1>7. Taken' = Taken \cup BandOf(cursor) /\ Taken \cap BandOf(cursor) = {}
  <2>1. Taken = 1 .. cursor - 1 /\ Taken' = 1 .. last
    BY <1>1, <1>3, <1>5 DEF Taken
  <2>2. \A k \in BandOf(cursor) : k \in 1 .. last /\ k \notin 1 .. cursor - 1
    BY <1>2, <1>4, <1>5, <1>6 DEF Members
  <2>3. \A k \in 1 .. last : k \in 1 .. cursor - 1 \/ k \in BandOf(cursor)
    BY <1>2, <1>5, <1>6 DEF Members
  <2>4. 1 .. cursor - 1 \subseteq 1 .. last
    BY <1>2, <1>5
  <2> QED BY <2>1, <2>2, <2>3, <2>4
<1>8. cursor' \in 1 .. N + 1
  BY <1>1, <1>2, <1>3, <1>5
<1> QED BY <1>1, <1>2, <1>4, <1>7, <1>8 DEF Open

LEMMA BandKeepsInv ==
  ASSUME AllocationInv, TakeBand
  PROVE  AllocationInv'
<1>1. /\ pc = "band" /\ pc' = "round" /\ remaining > 0 /\ eligible' = BandOf(cursor)
      /\ UNCHANGED <<in, limit, remaining, targets, plan>>
  BY DEF TakeBand
<1>2. /\ in \in Inputs /\ in' = in /\ cursor \in Members /\ eligible' \subseteq Members
      /\ Taken' = Taken \cup eligible' /\ Taken \cap eligible' = {}
      /\ Open = {} /\ Open' = eligible' /\ cursor' \in 1 .. N + 1 /\ Taken \subseteq Members
  BY <1>1, BandIsNext, InvTypes
<1>3. /\ \A m : BandOf(m)' = BandOf(m) /\ Filled(m)' = Filled(m)
      /\ \A S : ZeroCappedIn(S)' = ZeroCappedIn(S) /\ AtTheirCap(S)' = AtTheirCap(S)
  BY <1>1 DEF BandOf, Filled, AtCap, ZeroCappedIn, AtTheirCap
<1>4. /\ \A m \in eligible' : BandOf(m) = eligible' /\ targets[m] = 0 /\ m \in Members
      /\ \A m \in Members : targets[m] \in Nat /\ BandOf(m) \subseteq Members /\ m \in BandOf(m)
  BY <1>1, <1>2, Bands, InvTypes DEF AllocationInv, GivenIsGone
<1>5. AllocationTypeOK'
  BY <1>1, <1>2 DEF AllocationInv, AllocationTypeOK
<1>6. GivenIsGone'
  <2>1. Allocated' = Allocated /\ EffectiveLimit' = EffectiveLimit
    BY <1>1 DEF Allocated, EffectiveLimit, ScalarLimit, Ceiling, Headroom
  <2>2. \A m \in Members \ Taken' : targets[m] = 0
    BY <1>2 DEF AllocationInv, GivenIsGone
  <2> QED BY <1>1, <2>1, <2>2 DEF AllocationInv, GivenIsGone
<1>7. BandsAreWhole'
  <2>1. ASSUME NEW m \in Taken' PROVE BandOf(m) \subseteq Taken'
    BY <1>2, <1>4 DEF AllocationInv, BandsAreWhole
  <2>2. ASSUME NEW m \in eligible', NEW k \in Taken'
        PROVE  in.method = "EQUAL" \/ in.prio[k] <= in.prio[m]
    <3>1. cursor \in Nat /\ m \in Members /\ k \in Members
      BY <1>2, InvTypes
    <3>2. in.method = "EQUAL" \/ in.prio[m] = in.prio[cursor]
      BY <1>1, <2>2 DEF BandOf
    <3>3. CASE k \in Taken
      <4>1. k < cursor
        BY <3>1, <3>3 DEF Taken
      <4> QED BY <1>2, <3>1, <3>2, <4>1, InputTypes
    <3>4. CASE k \in eligible'
      <4>1. in.method = "EQUAL" \/ in.prio[k] = in.prio[cursor]
        BY <1>1, <3>4 DEF BandOf
      <4> QED BY <1>2, <3>1, <3>2, <4>1, InputTypes
    <3> QED BY <1>2, <3>3, <3>4
  <2> QED BY <1>2, <1>3, <2>1, <2>2 DEF BandsAreWhole
<1>8. OpenCanTake' /\ ClosedAreFull'
  BY <1>1, <1>2, <1>3, <1>4 DEF OpenCanTake, ClosedAreFull
<1>9. LeftOver'
  BY <1>1, <1>2, <1>3 DEF AllocationInv, LeftOver
<1>10. UrgentFirst'
  <2> SUFFICES ASSUME NEW a \in Taken', NEW b \in Taken', in.method = "PRIORITY", in.prio[a] < in.prio[b]
               PROVE  Filled(a) \/ ZeroCappedIn(BandOf(a)) # {}
    BY <1>1, <1>3 DEF UrgentFirst
  <2>1. a \in Members /\ b \in Members /\ in.prio[a] \in Nat /\ in.prio[b] \in Nat
    BY <1>2, InputTypes
  <2>2. CASE a \in eligible'
    <3>1. in.prio[b] <= in.prio[a]
      BY <1>2, <1>7, <2>2, <1>1 DEF BandsAreWhole
    <3> QED BY <2>1, <3>1
  <2>3. CASE a \in Taken
    <3>1. Filled(a) \/ remaining <= Cardinality(ZeroCappedIn(BandOf(a)))
      BY <1>2, <2>3 DEF AllocationInv, LeftOver
    <3>2. ASSUME ZeroCappedIn(BandOf(a)) = {} PROVE Cardinality(ZeroCappedIn(BandOf(a))) = 0
      BY <3>2, FS_EmptySet
    <3>3. remaining \in Nat
      BY InvTypes
    <3> QED BY <1>1, <3>1, <3>2, <3>3
  <2> QED BY <1>2, <2>2, <2>3
<1>11. KeepsUp'
  <2> SUFFICES ASSUME NEW a \in Taken', NEW b \in BandOf(a)
               PROVE  IF b \in eligible'
                      THEN targets[a] - targets[b] <= Cardinality(BandOf(a) \ eligible') + (IF remaining = 0 THEN 1 ELSE 0)
                      ELSE Filled(b) \/ targets[a] - targets[b] <= 1 + Cardinality(AtTheirCap(BandOf(a)))
    BY <1>1, <1>2, <1>3 DEF KeepsUp
  <2>1. CASE a \in eligible'
    <3>1. b \in eligible' /\ targets[a] = 0 /\ targets[b] = 0 /\ Cardinality(BandOf(a) \ eligible') \in Nat
      <4>1. BandOf(a) \ eligible' \subseteq Members
        BY <1>2, <1>4, <2>1
      <4> QED BY <1>4, <2>1, <4>1, FiniteParts
    <3> QED BY <3>1
  <2>2. CASE a \in Taken
    <3>1. b \notin eligible'
      BY <1>2, <2>2 DEF AllocationInv, BandsAreWhole
    <3> QED BY <2>2, <3>1, AllKeepUp
  <2> QED BY <1>2, <2>1, <2>2
<1>12. Decided'
  BY <1>1 DEF Decided
<1> QED BY <1>2, <1>5, <1>6, <1>7, <1>8, <1>9, <1>10, <1>11, <1>12 DEF AllocationInv

\* A round that gave nothing: nobody could take any, or as many in the band can take nothing
\* as there are amps left.
LEMMA BreakKeepsInv ==
  ASSUME AllocationInv, DistributeRound, pc' = "band", remaining' = remaining, eligible' = eligible,
         \A m \in Members : targets'[m] = targets[m], Allocated' = Allocated
  PROVE  AllocationInv'
<1>1. /\ pc = "round" /\ remaining > 0 /\ eligible # {} /\ UNCHANGED <<in, limit, cursor, plan>>
  BY DEF DistributeRound
<1>2. /\ in \in Inputs /\ Taken \subseteq Members /\ eligible \subseteq Taken /\ eligible \subseteq Members
      /\ Taken' = Taken /\ Open = eligible /\ Open' = {} /\ remaining \in Nat
      /\ \A m \in Members : targets[m] \in Nat
  BY <1>1, InvTypes DEF Taken, Open, AllocationInv, BandsAreWhole
<1>3. targets' = targets
  <2>1. targets' \in [Members -> Nat] /\ targets \in [Members -> Nat]
    BY RoundGives, InvTypes
  <2> QED BY <2>1
<1>4. /\ \A m : BandOf(m)' = BandOf(m) /\ Filled(m)' = Filled(m)
      /\ \A S : ZeroCappedIn(S)' = ZeroCappedIn(S) /\ AtTheirCap(S)' = AtTheirCap(S)
  BY <1>1, <1>3 DEF BandOf, Filled, AtCap, ZeroCappedIn, AtTheirCap
<1>5. AllocationTypeOK'
  BY <1>1, <1>3 DEF AllocationInv, AllocationTypeOK
<1>6. GivenIsGone'
  <2>1. EffectiveLimit' = EffectiveLimit
    BY <1>1 DEF EffectiveLimit, ScalarLimit, Ceiling, Headroom
  <2> QED BY <1>1, <1>2, <1>3, <2>1 DEF AllocationInv, GivenIsGone
<1>7. BandsAreWhole' /\ OpenCanTake' /\ ClosedAreFull' /\ UrgentFirst' /\ Decided'
  BY <1>1, <1>2, <1>4 DEF AllocationInv, BandsAreWhole, OpenCanTake, ClosedAreFull, UrgentFirst, Decided
<1>8. KeepsUp'
  BY <1>2, <1>3, <1>4, AllKeepUp DEF KeepsUp
<1>9. LeftOver'
  <2> SUFFICES ASSUME NEW m \in eligible, ~ Filled(m)
               PROVE  remaining <= Cardinality(ZeroCappedIn(BandOf(m)))
    BY <1>1, <1>2, <1>4 DEF AllocationInv, LeftOver
  <2>1. \A k \in eligible : Share(k) \in Nat /\ (Filled(k) \/ Share(k) = 0)
    <3>1. \A k \in eligible : Share(k) \in Nat
      BY <1>1, <1>2, SharesAddUp
    <3>2. \A k \in eligible : AtCap(k, targets'[k]) \/ targets'[k] = targets[k] + Share(k)
      BY RoundGives
    <3> QED BY <1>2, <1>3, <3>1, <3>2 DEF Filled
  <2>2. PICK shares : shares = [k \in eligible |-> Share(k)]
    OBVIOUS
  <2>3. IsFiniteSet(eligible) /\ Cardinality(eligible) \in Nat
    BY <1>2, FiniteParts
  <2>4. SumFunctionOnSet(shares, eligible) = remaining
    BY <1>1, <1>2, <2>2, SharesAddUp
  <2>5. CASE \A k \in eligible : ~ Filled(k)
    <3>1. \A k \in eligible : shares[k] = 0
      BY <2>1, <2>2, <2>5
    <3>2. SumFunctionOnSet(shares, eligible) = 0 * Cardinality(eligible)
      BY <2>3, <3>1, SumOfEqual
    <3> QED BY <1>1, <2>3, <2>4, <3>2
  <2>6. CASE \A k \in eligible : BandOf(k) = eligible /\ targets[k] = 0
    <3>1. PICK ones : ones = [k \in eligible |-> IF k \in ZeroCappedIn(eligible) THEN 1 ELSE 0]
      OBVIOUS
    <3>2. \A k \in eligible : Filled(k) => k \in ZeroCappedIn(eligible)
      <4>1. \A k \in eligible : in.cap[k] = Null \/ in.cap[k] \in Nat
        BY <1>2, InputTypes
      <4> QED BY <2>6, <4>1 DEF Filled, AtCap, ZeroCappedIn
    <3>3. \A k \in eligible : Share(k) <= 1
      <4>1. Share(m) = 0 /\ \A k \in eligible : Share(k) <= Share(m) + 1
        BY <1>1, <1>2, <2>1, SharesAddUp
      <4> QED BY <2>1, <4>1
    <3>4. \A k \in eligible : shares[k] \in Int /\ ones[k] \in Int /\ shares[k] <= ones[k]
      BY <2>1, <2>2, <3>1, <3>2, <3>3
    <3>5. SumFunctionOnSet(shares, eligible) <= SumFunctionOnSet(ones, eligible)
      BY <2>3, <3>4, SumLeq
    <3>6. SumFunctionOnSet(ones, eligible) = Cardinality(ZeroCappedIn(eligible))
      <4>1. ZeroCappedIn(eligible) \subseteq eligible
        BY DEF ZeroCappedIn
      <4>2. \A k \in eligible : ones[k] = IF k \in ZeroCappedIn(eligible) THEN 1 ELSE 0
        BY <3>1
      <4> QED BY <2>3, <4>1, <4>2, SumOfOnes
    <3> QED BY <2>4, <2>6, <3>5, <3>6
  <2> QED BY <1>2, <2>5, <2>6 DEF AllocationInv, OpenCanTake
<1> QED BY <1>1, <1>2, <1>5, <1>6, <1>7, <1>8, <1>9 DEF AllocationInv

\* A round that gave something: who is full now is closed.
LEMMA RoundKeepsInv ==
  ASSUME AllocationInv, DistributeRound, NEW assigned \in Nat, assigned > 0,
         remaining' = remaining - assigned, eligible' = {m \in eligible : ~ AtCap(m, targets'[m])}, pc' = pc,
         assigned <= remaining, Allocated' = Allocated + assigned,
         assigned < remaining => \E m \in eligible : AtCap(m, targets'[m])
  PROVE  AllocationInv'
<1>1. /\ pc = "round" /\ remaining > 0 /\ eligible # {} /\ UNCHANGED <<in, limit, cursor, plan>>
  BY DEF DistributeRound
<1>2. /\ in \in Inputs /\ Taken \subseteq Members /\ eligible \subseteq Taken /\ eligible \subseteq Members
      /\ Taken' = Taken /\ Open = eligible /\ Open' = eligible' /\ eligible' \subseteq eligible
      /\ remaining \in Nat /\ remaining' \in Nat /\ remaining' <= remaining
      /\ \A m \in Members : targets[m] \in Nat
  BY <1>1, InvTypes DEF Taken, Open, AllocationInv, BandsAreWhole
<1>3. /\ targets' \in [Members -> Nat] /\ \A m \in Members : targets'[m] \in Nat
      /\ \A m \in Members : targets[m] <= targets'[m] /\ (in.cap[m] # Null => targets'[m] <= in.cap[m])
      /\ \A m \in Members \ eligible : targets'[m] = targets[m]
  BY RoundGives
<1>4. /\ \A m : BandOf(m)' = BandOf(m)
      /\ \A m : Filled(m)' <=> AtCap(m, targets'[m])
      /\ \A S : ZeroCappedIn(S)' = ZeroCappedIn(S)
      /\ \A S : AtTheirCap(S)' = {m \in S : Filled(m)'}
  BY <1>1 DEF BandOf, Filled, AtCap, ZeroCappedIn, AtTheirCap
<1>5. \A m \in Members : Filled(m) => Filled(m)'
  <2> SUFFICES ASSUME NEW m \in Members, Filled(m) PROVE Filled(m)'
    OBVIOUS
  <2>1. in.cap[m] \in Nat /\ in.cap[m] # Null /\ targets[m] >= in.cap[m]
    BY <1>2, InputTypes DEF Filled, AtCap
  <2>2. targets'[m] >= in.cap[m]
    BY <1>2, <1>3, <2>1
  <2> QED BY <1>4, <2>1, <2>2 DEF AtCap
<1>6. \A m \in eligible : m \in eligible' <=> ~ Filled(m)'
  BY <1>4
<1>7. AllocationTypeOK'
  BY <1>1, <1>2, <1>3 DEF AllocationInv, AllocationTypeOK
<1>8. GivenIsGone'
  <2>1. EffectiveLimit' = EffectiveLimit
    BY <1>1 DEF EffectiveLimit, ScalarLimit, Ceiling, Headroom
  <2>2. Allocated' + remaining' = limit
    <3>1. Allocated + remaining = limit /\ Allocated \in Nat
      BY <1>2, FiniteMembers, SumCovers, InvTypes DEF Allocated, SumFunction, AllocationInv, GivenIsGone
    <3> QED BY <1>2, <3>1
  <2>3. \A m \in Members \ Taken : targets'[m] = 0
    BY <1>2, <1>3 DEF AllocationInv, GivenIsGone
  <2>4. limit = EffectiveLimit
    BY <1>1 DEF AllocationInv, GivenIsGone
  <2> QED BY <1>1, <1>2, <1>3, <2>1, <2>2, <2>3, <2>4 DEF GivenIsGone
<1>9. BandsAreWhole'
  BY <1>1, <1>2, <1>4 DEF AllocationInv, BandsAreWhole
<1>10. OpenCanTake' /\ Decided'
  BY <1>1, <1>2, <1>6 DEF OpenCanTake, Decided
<1>11. LeftOver'
  <2> SUFFICES ASSUME NEW m \in Taken \ eligible'
               PROVE  Filled(m)' \/ remaining' <= Cardinality(ZeroCappedIn(BandOf(m)))
    BY <1>2, <1>4 DEF LeftOver
  <2>1. CASE m \in eligible
    BY <1>6, <2>1
  <2>2. CASE m \notin eligible
    <3>1. Filled(m) \/ remaining <= Cardinality(ZeroCappedIn(BandOf(m)))
      BY <1>2, <2>2 DEF AllocationInv, LeftOver
    <3>2. Cardinality(ZeroCappedIn(BandOf(m))) \in Nat
      <4>1. ZeroCappedIn(BandOf(m)) \subseteq Members
        BY <1>2, Bands DEF ZeroCappedIn
      <4> QED BY <4>1, FiniteParts
    <3> QED BY <1>2, <1>5, <3>1, <3>2
  <2> QED BY <2>1, <2>2
<1>12. UrgentFirst'
  BY <1>1, <1>2, <1>4, <1>5 DEF AllocationInv, UrgentFirst
<1>13. ClosedAreFull'
  <2> SUFFICES ASSUME NEW m \in eligible', NEW k \in BandOf(m) \ eligible' PROVE Filled(k)'
    BY <1>2, <1>4 DEF ClosedAreFull
  <2>1. k \in Members
    BY <1>2, Bands
  <2>2. CASE k \in eligible
    BY <1>6, <2>2
  <2>3. CASE k \notin eligible
    BY <1>2, <1>5, <2>1, <2>3 DEF AllocationInv, ClosedAreFull
  <2> QED BY <2>2, <2>3
<1>14. KeepsUp'
  <2> SUFFICES ASSUME NEW a \in Taken, NEW b \in BandOf(a)
               PROVE  IF b \in eligible'
                      THEN targets'[a] - targets'[b] <= Cardinality(BandOf(a) \ eligible') + (IF remaining' = 0 THEN 1 ELSE 0)
                      ELSE Filled(b)' \/ targets'[a] - targets'[b] <= 1 + Cardinality({m \in BandOf(a) : Filled(m)'})
    BY <1>2, <1>4 DEF KeepsUp
  <2>1. /\ a \in Members /\ b \in Members /\ BandOf(a) \subseteq Members /\ BandOf(b) = BandOf(a) /\ a \in BandOf(a)
        /\ targets[a] \in Nat /\ targets[b] \in Nat /\ targets'[a] \in Nat /\ targets'[b] \in Nat
    BY <1>2, <1>3, Bands
  <2>2. CASE b \in eligible'
    <3>1. b \in eligible /\ ~ Filled(b)'
      BY <1>2, <1>6, <2>2
    <3>2. targets'[b] = targets[b] + Share(b) /\ Share(b) \in Nat
      BY <1>1, <1>2, <1>4, <3>1, RoundGives, SharesAddUp
    <3>3. targets'[a] <= targets[a] + Share(b) + 1
      <4>1. CASE a \in eligible
        <5>1. targets'[a] <= targets[a] + Share(a) /\ Share(a) <= Share(b) + 1 /\ Share(a) \in Nat
          BY <1>1, <1>2, <3>1, <4>1, RoundGives, SharesAddUp
        <5> QED BY <2>1, <3>2, <5>1
      <4>2. CASE a \notin eligible
        BY <1>3, <2>1, <3>2, <4>2
      <4> QED BY <4>1, <4>2
    <3>4. targets[a] - targets[b] <= Cardinality(BandOf(a) \ eligible)
      <4>1. targets[a] - targets[b] <= Cardinality(BandOf(a) \ Open) + (IF remaining = 0 THEN 1 ELSE 0)
        BY <1>2, <3>1 DEF AllocationInv, KeepsUp
      <4>2. Cardinality(BandOf(a) \ eligible) \in Nat
        BY <2>1, FiniteParts
      <4> QED BY <1>1, <1>2, <4>1, <4>2
    <3>5. /\ IsFiniteSet(BandOf(a) \ eligible') /\ BandOf(a) \ eligible \subseteq BandOf(a) \ eligible'
          /\ Cardinality(BandOf(a) \ eligible) \in Nat /\ Cardinality(BandOf(a) \ eligible') \in Nat
      BY <1>2, <2>1, FiniteParts
    <3>6. Cardinality(BandOf(a) \ eligible) <= Cardinality(BandOf(a) \ eligible')
      BY <3>5, FS_Subset
    <3>7. CASE remaining' = 0
      BY <2>1, <2>2, <3>2, <3>3, <3>4, <3>5, <3>6, <3>7
    <3>8. CASE remaining' # 0
      <4>1. PICK k \in eligible : AtCap(k, targets'[k])
        BY <1>2, <3>8
      <4>2. k \in BandOf(a) /\ k \notin eligible'
        <5>1. k \in Taken /\ b \in Taken /\ k \in Members
          BY <1>2, <3>1
        <5>2. in.method = "EQUAL" \/ (in.prio[k] <= in.prio[b] /\ in.prio[b] <= in.prio[k])
          BY <1>2, <3>1, <5>1 DEF AllocationInv, BandsAreWhole
        <5>3. in.method = "EQUAL" \/ in.prio[k] = in.prio[b]
          BY <1>2, <2>1, <5>1, <5>2, InputTypes
        <5>4. k \in BandOf(b)
          BY <5>1, <5>3 DEF BandOf
        <5> QED BY <2>1, <4>1, <5>4
      <4>3. BandOf(a) \ eligible # BandOf(a) \ eligible'
        BY <4>1, <4>2
      <4>4. Cardinality(BandOf(a) \ eligible) # Cardinality(BandOf(a) \ eligible')
        BY <3>5, <4>3, FS_Subset
      <4>5. Cardinality(BandOf(a) \ eligible) + 1 <= Cardinality(BandOf(a) \ eligible')
        BY <3>5, <3>6, <4>4
      <4> QED BY <2>1, <2>2, <3>2, <3>3, <3>4, <3>5, <3>8, <4>5
    <3> QED BY <3>7, <3>8
  <2>3. CASE b \notin eligible'
    <3>1. CASE Filled(b) \/ b \in eligible
      BY <1>5, <1>6, <2>1, <2>3, <3>1
    <3>2. CASE ~ Filled(b) /\ b \notin eligible
      <4>1. a \notin eligible
        BY <1>2, <3>2 DEF AllocationInv, ClosedAreFull
      <4>2. targets'[a] = targets[a] /\ targets'[b] = targets[b]
        BY <1>3, <2>1, <3>2, <4>1
      <4>3. targets[a] - targets[b] <= 1 + Cardinality(AtTheirCap(BandOf(a)))
        BY <3>2, AllKeepUp
      <4>4. AtTheirCap(BandOf(a)) \subseteq {m \in BandOf(a) : Filled(m)'}
        BY <1>5, <2>1 DEF AtTheirCap, Filled
      <4>5. {m \in BandOf(a) : Filled(m)'} \subseteq Members
        BY <2>1
      <4>6. Cardinality(AtTheirCap(BandOf(a))) <= Cardinality({m \in BandOf(a) : Filled(m)'})
        BY <4>4, <4>5, FiniteParts, FS_Subset
      <4>7. Cardinality(AtTheirCap(BandOf(a))) \in Nat /\ Cardinality({m \in BandOf(a) : Filled(m)'}) \in Nat
        BY <4>4, <4>5, FiniteParts
      <4> QED BY <2>1, <2>3, <4>2, <4>3, <4>6, <4>7
    <3> QED BY <3>1, <3>2
  <2> QED BY <2>2, <2>3
<1> QED BY <1>1, <1>2, <1>7, <1>8, <1>9, <1>10, <1>11, <1>12, <1>13, <1>14 DEF AllocationInv

LEMMA EndKeepsInv ==
  ASSUME AllocationInv, EndBand
  PROVE  AllocationInv'
<1>1. /\ pc = "round" /\ pc' = "band" /\ (remaining = 0 \/ eligible = {})
      /\ UNCHANGED <<in, limit, remaining, cursor, eligible, targets, plan>>
  BY DEF EndBand
<1>2. /\ in \in Inputs /\ Taken \subseteq Members /\ Taken' = Taken /\ Open = eligible /\ Open' = {}
      /\ eligible \subseteq Members
  BY <1>1, InvTypes DEF Taken, Open
<1>3. /\ \A m : BandOf(m)' = BandOf(m) /\ Filled(m)' = Filled(m)
      /\ \A S : ZeroCappedIn(S)' = ZeroCappedIn(S) /\ AtTheirCap(S)' = AtTheirCap(S)
  BY <1>1 DEF BandOf, Filled, AtCap, ZeroCappedIn, AtTheirCap
<1>4. AllocationTypeOK'
  BY <1>1 DEF AllocationInv, AllocationTypeOK
<1>5. GivenIsGone'
  <2>1. Allocated' = Allocated /\ EffectiveLimit' = EffectiveLimit
    BY <1>1 DEF Allocated, EffectiveLimit, ScalarLimit, Ceiling, Headroom
  <2> QED BY <1>1, <1>2, <2>1 DEF AllocationInv, GivenIsGone
<1>6. BandsAreWhole' /\ OpenCanTake' /\ ClosedAreFull' /\ UrgentFirst' /\ Decided'
  BY <1>1, <1>2, <1>3 DEF AllocationInv, BandsAreWhole, OpenCanTake, ClosedAreFull, UrgentFirst, Decided
<1>7. KeepsUp'
  BY <1>1, <1>2, <1>3, AllKeepUp DEF KeepsUp
<1>8. LeftOver'
  <2> SUFFICES ASSUME NEW m \in Taken, m \in eligible
               PROVE  remaining <= Cardinality(ZeroCappedIn(BandOf(m)))
    BY <1>1, <1>2, <1>3 DEF AllocationInv, LeftOver
  <2>1. ZeroCappedIn(BandOf(m)) \subseteq Members
    BY <1>2, Bands DEF ZeroCappedIn
  <2> QED BY <1>1, <2>1, FiniteParts
<1> QED BY <1>1, <1>2, <1>4, <1>5, <1>6, <1>7, <1>8 DEF AllocationInv

LEMMA DecideKeepsInv ==
  ASSUME AllocationInv, Decide
  PROVE  AllocationInv'
<1>1. /\ pc = "band" /\ pc' = "done" /\ (cursor > N \/ remaining = 0)
      /\ plan' = [m \in Members |-> Decision(m)]
      /\ UNCHANGED <<in, limit, remaining, cursor, eligible, targets>>
  BY DEF Decide
<1>2. in \in Inputs /\ Taken' = Taken /\ Open = {} /\ Open' = {}
  BY <1>1, InvTypes DEF Taken, Open
<1>3. /\ \A m : BandOf(m)' = BandOf(m) /\ Filled(m)' = Filled(m) /\ Decision(m)' = Decision(m)
      /\ \A S : ZeroCappedIn(S)' = ZeroCappedIn(S) /\ AtTheirCap(S)' = AtTheirCap(S)
  BY <1>1 DEF BandOf, Filled, AtCap, ZeroCappedIn, AtTheirCap, Decision, AmpsChanged
<1>4. AllocationTypeOK'
  <2>1. \A m \in Members : Decision(m) \in [amps : Nat, command : {"None", "ApplyChargingLimit", "ClearChargingLimit"}, send : BOOLEAN]
    <3> SUFFICES ASSUME NEW m \in Members
                 PROVE  Decision(m) \in [amps : Nat, command : {"None", "ApplyChargingLimit", "ClearChargingLimit"}, send : BOOLEAN]
      OBVIOUS
    <3>1. targets[m] \in Nat
      BY InvTypes
    <3> QED BY <3>1 DEF Decision
  <2>2. plan' \in [Members -> [amps : Nat, command : {"None", "ApplyChargingLimit", "ClearChargingLimit"}, send : BOOLEAN]]
    BY <1>1, <2>1
  <2> QED BY <1>1, <2>2 DEF AllocationInv, AllocationTypeOK
<1>5. GivenIsGone'
  <2>1. Allocated' = Allocated /\ EffectiveLimit' = EffectiveLimit
    BY <1>1 DEF Allocated, EffectiveLimit, ScalarLimit, Ceiling, Headroom
  <2> QED BY <1>1, <1>2, <2>1 DEF AllocationInv, GivenIsGone
<1>6. BandsAreWhole' /\ OpenCanTake' /\ LeftOver' /\ UrgentFirst' /\ KeepsUp' /\ ClosedAreFull'
  BY <1>1, <1>2, <1>3 DEF AllocationInv, BandsAreWhole, OpenCanTake, LeftOver, UrgentFirst, KeepsUp, ClosedAreFull
<1>7. Decided'
  BY <1>1, <1>3 DEF Decided
<1> QED BY <1>1, <1>2, <1>4, <1>5, <1>6, <1>7 DEF AllocationInv

LEMMA AllocationStep == AllocationInv /\ [AllocationNext]_allocationVars => AllocationInv'
<1> SUFFICES ASSUME AllocationInv, [AllocationNext]_allocationVars PROVE AllocationInv'
  OBVIOUS
<1>1. CASE DistributeRound
  <2>1. PICK assigned \in Nat :
          /\ SettleRound(targets', assigned)
          /\ assigned <= remaining /\ Allocated' = Allocated + assigned
          /\ assigned < remaining => \E m \in eligible : AtCap(m, targets'[m])
          /\ assigned = 0 => \A m \in Members : targets'[m] = targets[m]
    BY <1>1, RoundAddsUp
  <2>2. CASE assigned = 0
    <3>1. pc' = "band" /\ remaining' = remaining /\ eligible' = eligible
      BY <2>1, <2>2 DEF SettleRound
    <3>2. Allocated' = Allocated
      <4>1. Allocated \in Nat
        BY InvTypes, FiniteMembers, SumCovers DEF Allocated, SumFunction
      <4> QED BY <2>1, <2>2, <4>1
    <3> QED BY <1>1, <2>1, <2>2, <3>1, <3>2, BreakKeepsInv
  <2>3. CASE assigned # 0
    <3>1. assigned > 0
      BY <2>3
    <3>2. /\ remaining' = remaining - assigned /\ pc' = pc
          /\ eligible' = {m \in eligible : ~ AtCap(m, targets'[m])}
      BY <2>1, <3>1 DEF SettleRound
    <3> QED BY <1>1, <2>1, <3>1, <3>2, RoundKeepsInv
  <2> QED BY <2>2, <2>3
<1>2. CASE UNCHANGED allocationVars
  <2>1. UNCHANGED <<in, pc, limit, remaining, cursor, eligible, targets, plan>>
    BY <1>2 DEF allocationVars
  <2>2. /\ \A m : BandOf(m)' = BandOf(m) /\ Filled(m)' = Filled(m) /\ Decision(m)' = Decision(m)
        /\ \A S : ZeroCappedIn(S)' = ZeroCappedIn(S) /\ AtTheirCap(S)' = AtTheirCap(S)
        /\ Taken' = Taken /\ Open' = Open
        /\ Allocated' = Allocated /\ EffectiveLimit' = EffectiveLimit
    BY <2>1 DEF BandOf, Filled, AtCap, ZeroCappedIn, AtTheirCap, Decision, AmpsChanged, Taken, Open,
                Allocated, EffectiveLimit, ScalarLimit, Ceiling, Headroom
  <2>3. AllocationTypeOK' /\ GivenIsGone'
    BY <2>1, <2>2 DEF AllocationInv, AllocationTypeOK, GivenIsGone
  <2>4. BandsAreWhole' /\ OpenCanTake' /\ LeftOver' /\ UrgentFirst' /\ KeepsUp' /\ ClosedAreFull' /\ Decided'
    BY <2>1, <2>2 DEF AllocationInv, BandsAreWhole, OpenCanTake, LeftOver, UrgentFirst, KeepsUp, ClosedAreFull, Decided
  <2> QED BY <2>1, <2>3, <2>4 DEF AllocationInv
<1> QED BY <1>1, <1>2, LimitKeepsInv, BandKeepsInv, EndKeepsInv, DecideKeepsInv DEF AllocationNext

(* The inductive invariant of buildEnergyAllocationPlan holds for any number of       *)
(* members and phases and whatever the caps, priorities, readings and previous limits *)
(* are.                                                                               *)
THEOREM AllocationInvariant == AllocationSpec => []AllocationInv
  BY AllocationStarts, AllocationStep, PTL DEF AllocationSpec

(* Amps are naturals from the limit to the plan, no round gives out more than is left. *)
THEOREM AllocationTyped == AllocationSpec => []AllocationTypeOK
<1>1. AllocationInv => AllocationTypeOK
  BY DEF AllocationInv
<1> QED BY <1>1, AllocationInvariant, PTL

(* distributeEvenlyWithCaps neither creates nor loses amps, and gives no member more  *)
(* than its maxAmps.                                                                  *)
THEOREM Conservation == AllocationSpec => []AmpsConserved
<1>1. AllocationInv => AmpsConserved
  <2> SUFFICES ASSUME AllocationInv PROVE AmpsConserved
    OBVIOUS
  <2>1. Allocated \in Nat
    BY InvTypes, FiniteMembers, SumCovers DEF Allocated, SumFunction
  <2>2. Allocated + remaining = limit /\ \A m \in Members : in.cap[m] # Null => targets[m] <= in.cap[m]
    BY DEF AllocationInv, GivenIsGone
  <2> QED BY <2>1, <2>2, InvTypes DEF AmpsConserved
<1> QED BY <1>1, AllocationInvariant, PTL

(* The loops leave amps only when everyone is full, or to a band with as many members *)
(* of maxAmps 0 (the break of distributeEvenlyWithCaps on assigned <= 0).              *)
THEOREM NoWaste == AllocationSpec => []NothingWasted
<1>1. AllocationInv => NothingWasted
  <2> SUFFICES ASSUME AllocationInv, pc = "done", remaining > 0, NEW m \in Members
               PROVE  AtCap(m, targets[m]) \/ remaining <= Cardinality(ZeroCappedIn(BandOf(m)))
    BY DEF NothingWasted
  <2>1. cursor > N /\ Open = {}
    BY InvTypes DEF AllocationInv, Decided, Open
  <2>2. m \in Taken
    BY <2>1, InvTypes, EnergyAssumption DEF Taken, Members
  <2> QED BY <2>1, <2>2 DEF AllocationInv, LeftOver, Filled
<1> QED BY <1>1, AllocationInvariant, PTL

(* The more urgent band is served first (allocatePriority), and within a band members *)
(* that are not full are given the same, up to one amp for each that filled up and    *)
(* one more.                                                                          *)
THEOREM OrderOfShares == AllocationSpec => []SharedInOrder
<1>1. AllocationInv => SharedInOrder
  <2> SUFFICES ASSUME AllocationInv, pc = "done" PROVE SharedInOrder
    BY DEF SharedInOrder
  <2>1. /\ in \in Inputs /\ cursor \in Nat /\ Taken \subseteq Members /\ \A m \in Members : targets[m] \in Nat
        /\ \A m \in Members \ Taken : targets[m] = 0
    BY InvTypes DEF AllocationInv, GivenIsGone
  <2>2. ASSUME NEW a \in Members, NEW b \in Members, in.method = "PRIORITY", in.prio[a] < in.prio[b], targets[b] > 0
        PROVE  AtCap(a, targets[a]) \/ ZeroCappedIn(BandOf(a)) # {}
    <3>1. b \in Taken
      BY <2>1, <2>2
    <3>2. a < b
      <4>1. in.prio[a] \in Nat /\ in.prio[b] \in Nat /\ ~ (in.prio[b] <= in.prio[a])
        BY <2>1, <2>2, InputTypes
      <4>2. ~ (b < a) /\ b # a
        BY <2>1, <4>1, InputTypes
      <4> QED BY <4>2, EnergyAssumption DEF Members
    <3>3. a \in Taken
      BY <2>1, <3>1, <3>2, EnergyAssumption DEF Taken, Members
    <3> QED BY <2>2, <3>1, <3>3 DEF AllocationInv, UrgentFirst, Filled
  <2>3. ASSUME NEW a \in Members, NEW b \in BandOf(a)
        PROVE  AtCap(b, targets[b]) \/ targets[a] - targets[b] <= 1 + Cardinality(AtTheirCap(BandOf(a)))
    <3>1. CASE a \in Taken
      BY <3>1, AllKeepUp DEF Filled
    <3>2. CASE a \notin Taken
      <4>1. b \in Members /\ AtTheirCap(BandOf(a)) \subseteq Members
        BY <2>1, Bands DEF AtTheirCap
      <4>2. targets[a] = 0 /\ targets[b] \in Nat /\ Cardinality(AtTheirCap(BandOf(a))) \in Nat
        BY <2>1, <3>2, <4>1, FiniteParts
      <4> QED BY <4>2
    <3> QED BY <3>1, <3>2
  <2> QED BY <2>2, <2>3 DEF SharedInOrder
<1> QED BY <1>1, AllocationInvariant, PTL

(* What is given out fits every phase with amps to give, and the override             *)
(* (resolveScalarLimit, effectiveLimitAmps).                                          *)
THEOREM PhasesFit == AllocationSpec => []LivePhasesFit
<1>1. AllocationInv => LivePhasesFit
  <2> SUFFICES ASSUME AllocationInv, pc # "limit" PROVE LivePhasesFit
    BY DEF LivePhasesFit
  <2>1. Allocated \in Nat
    BY InvTypes, FiniteMembers, SumCovers DEF Allocated, SumFunction
  <2>2. limit = EffectiveLimit /\ Allocated + remaining = limit
    BY DEF AllocationInv, GivenIsGone
  <2>3. Allocated <= EffectiveLimit /\ EffectiveLimit \in Nat /\ in \in Inputs
    BY <2>1, <2>2, InvTypes
  <2>4. \A p \in Phases : Ceiling(p) \in Nat /\ (Ceiling(p) = 0 \/ EffectiveLimit <= Ceiling(p))
    BY <2>3, LimitFits, InputTypes DEF Ceiling, Headroom, AtLeastZero, Smaller
  <2>5. in.override # Null => in.override \in Nat /\ EffectiveLimit <= in.override
    BY <2>3, LimitFits, InputTypes
  <2> QED BY <2>1, <2>3, <2>4, <2>5 DEF LivePhasesFit
<1> QED BY <1>1, AllocationInvariant, PTL

(* What the chargers go on with exceeds the limit by less than a deadband each, for    *)
(* the changes that are not sent (deadbandAmps, shouldSendCommand).                    *)
THEOREM DeadbandBounds == AllocationSpec => []HeldWithinDeadband
<1>1. AllocationInv => HeldWithinDeadband
  <2> SUFFICES ASSUME AllocationInv, pc = "done", in.mode = "ACTIVE" PROVE HeldWithinDeadband
    BY DEF HeldWithinDeadband
  <2> DEFINE held == [m \in Members |-> Held(m)]
             slack == [m \in Members |-> in.deadband - 1]
             most == [m \in Members |-> targets[m] + (in.deadband - 1)]
  <2>1. /\ in \in Inputs /\ in.deadband \in Nat \ {0}
        /\ \A m \in Members : targets[m] \in Nat /\ (in.prev[m] = Null \/ in.prev[m] \in Nat)
    BY InvTypes, InputTypes
  <2>2. \A m \in Members : Held(m) \in Int /\ Held(m) <= targets[m] + (in.deadband - 1)
    <3> SUFFICES ASSUME NEW m \in Members PROVE Held(m) \in Int /\ Held(m) <= targets[m] + (in.deadband - 1)
      OBVIOUS
    <3>1. plan[m] = Decision(m)
      BY DEF AllocationInv, Decided
    <3>2. plan[m].amps = targets[m] /\ (AmpsChanged(m) => plan[m].send)
      <4>1. plan[m].amps = targets[m]
        BY <3>1 DEF Decision
      <4>2. plan[m].send = (in.mode = "ACTIVE" /\ (AmpsChanged(m) \/ in.due[m]))
        BY <3>1 DEF Decision
      <4> QED BY <4>1, <4>2, Zenon
    <3>3. CASE plan[m].send \/ in.prev[m] = Null
      BY <2>1, <3>2, <3>3 DEF Held
    <3>4. CASE ~ plan[m].send /\ in.prev[m] # Null
      <4>1. in.prev[m] \in Nat /\ ~ (in.prev[m] - targets[m] >= in.deadband) /\ Held(m) = in.prev[m]
        BY <2>1, <3>2, <3>4 DEF Held, AmpsChanged
      <4> QED BY <2>1, <4>1
    <3> QED BY <3>3, <3>4
  <2>3. \A m \in Members : /\ held[m] \in Int /\ most[m] \in Int /\ slack[m] \in Int /\ targets[m] \in Int
                           /\ held[m] <= most[m] /\ most[m] = targets[m] + slack[m] /\ slack[m] = in.deadband - 1
    BY <2>1, <2>2
  <2>4. SumFunction(held) = SumFunctionOnSet(held, Members) /\ Allocated = SumFunctionOnSet(targets, Members)
    BY InvTypes DEF SumFunction, Allocated
  <2> HIDE DEF held, slack, most
  <2>5. IsFiniteSet(Members) /\ Cardinality(Members) = N /\ in.deadband - 1 \in Int /\ N \in Nat
    BY <2>1, FiniteMembers, EnergyAssumption
  <2>6. SumFunctionOnSet(held, Members) <= SumFunctionOnSet(most, Members)
    BY <2>3, <2>5, SumLeq
  <2>7. SumFunctionOnSet(most, Members) = SumFunctionOnSet(targets, Members) + SumFunctionOnSet(slack, Members)
    BY <2>3, <2>5, SumPlus
  <2>8. SumFunctionOnSet(slack, Members) = N * (in.deadband - 1)
    <3>1. SumFunctionOnSet(slack, Members) = (in.deadband - 1) * Cardinality(Members)
      BY <2>3, <2>5, SumOfEqual
    <3> QED BY <2>5, <3>1
  <2>9. Allocated <= limit
    <3>1. Allocated + remaining = limit /\ Allocated \in Int
      BY <2>3, <2>4, <2>5, SumIsInt DEF AllocationInv, GivenIsGone
    <3> QED BY <3>1, InvTypes
  <2>10. /\ SumFunctionOnSet(held, Members) \in Int /\ SumFunctionOnSet(targets, Members) \in Int
         /\ N * (in.deadband - 1) \in Int /\ limit \in Int
    BY <2>3, <2>5, SumIsInt, InvTypes
  <2>11. SumFunction(held) <= limit + N * (in.deadband - 1)
    BY <2>4, <2>6, <2>7, <2>8, <2>9, <2>10
  <2> QED BY <2>11 DEF HeldWithinDeadband, held
<1> QED BY <1>1, AllocationInvariant, PTL
=============================================================================
