---------------------------- MODULE RecordsProofs ----------------------------
(***************************************************************************)
(* Inductive invariants of the components of Records that keep the load    *)
(* groups, energy plans, charge points, providers and vehicle telemetry,   *)
(* laid out as in TenantRecordsProofs; and, at the end, what follows for   *)
(* the composition: every property of Records holds in every reachable     *)
(* state, for every value of the constants.                                *)
(***************************************************************************)
EXTENDS TenantRecordsProofs

----------------------------------------------------------------------------
(* The load groups of a station                                            *)

GroupsCall == [at : {"idle", "see", "commit", "lock", "queued", "decide", "done", "failed"},
         kind : {"none", "create", "activate", "disable", "delete", "configure", "recalculate"},
         group : Groups \cup {LoadGroups!NoOne}, replica : Replicas \cup {LoadGroups!NoOne},
         seen : SUBSET Groups, read : Nat, after : SUBSET Calls]

GroupsRow == [active : BOOLEAN, version : Nat \ {0}, decided : Nat, writer : Calls,
        activator : Calls \cup {LoadGroups!NoOne}]

GroupsTyped ==
  /\ DOMAIN groups \subseteq Groups
  /\ groups \in [DOMAIN groups -> GroupsRow]
  /\ locks \in [Replicas -> [Groups -> Seq(Calls)]]
  /\ groupCalls \in [Calls -> GroupsCall]
  \* a call on the way is about a group that is there, in a process
  /\ \A c \in Calls : groupCalls[c].at # "idle" =>
       groupCalls[c].group \in DOMAIN groups /\ groupCalls[c].replica \in Replicas

\* What a call has read it has read in the lock.
GroupsReadInLock == \A c \in Calls : groupCalls[c].read # 0 => groupCalls[c].at \in {"decide", "done", "failed"}

\* A call begins after calls that are over, for good.
GroupsAfterIsOver == \A c \in Calls : \A d \in groupCalls[c].after : LoadGroups!Over(d)

\* The one in the handler is the first in line, and who waits stands in the line.
GroupsWaits(c, q) == \E n \in 1 .. Len(q) : q[n] = c
GroupsLockHeld ==
  \A c \in Calls :
    /\ groupCalls[c].at = "queued" => GroupsWaits(c, LoadGroups!Queue(c))
    /\ groupCalls[c].at = "decide" => LoadGroups!Queue(c) # << >> /\ Head(LoadGroups!Queue(c)) = c

GroupsWriterBegan == \A g \in DOMAIN groups : groupCalls[groups[g].writer].at # "idle"

\* The last writer of a group has read it back, and no call of another process on the
\* group overlaps with it.
GroupsReread(g) ==
  LET w == groups[g].writer
  IN  /\ groupCalls[w].group = g /\ groupCalls[w].read # 0
      /\ \A d \in Calls :
           groupCalls[d].at # "idle" /\ groupCalls[d].group = g /\ groupCalls[d].replica # groupCalls[w].replica
           => ~ LoadGroups!Overlap(d, w)

\* All who decide have what it wrote, and when it is done that is what was decided.
GroupsAgreed(g) ==
  LET w == groups[g].writer
  IN  /\ groupCalls[w].read = groups[g].version
      /\ \A d \in Calls :
           groupCalls[d].at = "decide" /\ groupCalls[d].group = g => groupCalls[d].read = groups[g].version
      /\ groupCalls[w].at = "done" => groups[g].decided = groups[g].version

GroupsReadBack == \A g \in DOMAIN groups : GroupsReread(g) => GroupsAgreed(g)

GroupsIInv == GroupsTyped /\ GroupsReadInLock /\ GroupsAfterIsOver /\ GroupsLockHeld /\ GroupsWriterBegan /\ GroupsReadBack

\* Nobody has begun and no decision was made.
LEMMA GroupsIInvInit == LoadGroups!Init => GroupsIInv
  BY DEF LoadGroups!Init, GroupsIInv, GroupsTyped, GroupsCall, LoadGroups!NoCall, LoadGroups!NoOne, GroupsReadInLock, GroupsAfterIsOver, GroupsLockHeld, GroupsWriterBegan,
         GroupsReadBack, GroupsReread

(* A call that begins and writes at most groups it is the last writer of from then on. *)
LEMMA GroupsBeginningPreserves ==
  ASSUME GroupsIInv, NEW c \in Calls, groupCalls[c].at = "idle", UNCHANGED locks, GroupsTyped',
         \A d \in Calls \ {c} : groupCalls'[d] = groupCalls[d],
         groupCalls'[c].at \in {"see", "lock", "done"}, groupCalls'[c].read = 0,
         groupCalls'[c].after = {d \in Calls : LoadGroups!Over(d)},
         \A g \in DOMAIN groups' :
           \/ groups'[g].writer = c
           \/ g \in DOMAIN groups /\ groups'[g] = groups[g]
  PROVE  GroupsIInv'
<1> USE DEF GroupsIInv
<1>1. GroupsReadInLock'
  BY DEF GroupsReadInLock
<1>2. GroupsAfterIsOver'
  <2>1. \A d, x \in Calls : x \in groupCalls'[d].after => LoadGroups!Over(x)
    BY DEF GroupsAfterIsOver
  <2>2. \A x \in Calls : LoadGroups!Over(x) => groupCalls'[x] = groupCalls[x]
    BY DEF LoadGroups!Over
  <2>3. \A d \in Calls : groupCalls'[d].after \subseteq Calls
    BY DEF GroupsTyped, GroupsCall
  <2> QED BY <2>1, <2>2, <2>3 DEF GroupsAfterIsOver, LoadGroups!Over
<1>3. GroupsLockHeld'
  BY DEF GroupsLockHeld, LoadGroups!Queue
<1>4. GroupsWriterBegan'
  BY SMTT(40) DEF GroupsWriterBegan, GroupsTyped, GroupsRow
<1>5. GroupsReadBack'
  <2> SUFFICES ASSUME NEW g \in DOMAIN groups', GroupsReread(g)' PROVE GroupsAgreed(g)'
    BY DEF GroupsReadBack
  <2>1. groups'[g].writer # c /\ g \in DOMAIN groups /\ groups'[g] = groups[g]
    BY DEF GroupsReread
  <2>2. groups[g].writer \in Calls
    BY <2>1 DEF GroupsTyped, GroupsRow
  <2>3. GroupsReread(g)
    BY <2>1, <2>2 DEF GroupsReread, LoadGroups!Overlap
  <2> QED BY <2>1, <2>2, <2>3 DEF GroupsReadBack, GroupsAgreed
<1> QED BY <1>1, <1>2, <1>3, <1>4, <1>5

\* What the writes make of a group.
LEMMA GroupsRowWrites ==
  ASSUME NEW row \in GroupsRow, NEW c \in Calls
  PROVE  /\ LoadGroups!Written(row, c) \in GroupsRow /\ LoadGroups!Written(row, c).writer = c
         /\ LoadGroups!Activated(row, c) \in GroupsRow /\ LoadGroups!Activated(row, c).writer = c
         /\ LoadGroups!Deactivated(row, c) \in GroupsRow /\ LoadGroups!Deactivated(row, c).writer = c
<1>1. LoadGroups!Written(row, c) \in GroupsRow /\ LoadGroups!Written(row, c).writer = c
  <2>1. row.version + 1 \in Nat \ {0}
    BY DEF GroupsRow
  <2>2. ASSUME NEW n \in Nat \ {0}
        PROVE  /\ [row EXCEPT !.version = n, !.writer = c] \in GroupsRow
               /\ [row EXCEPT !.version = n, !.writer = c].writer = c
    BY <2>2 DEF GroupsRow
  <2> QED BY <2>1, <2>2 DEF LoadGroups!Written
<1>2. ASSUME NEW new \in GroupsRow, new.writer = c, NEW b \in BOOLEAN, NEW a \in Calls \cup {LoadGroups!NoOne}
      PROVE  /\ [new EXCEPT !.active = b, !.activator = a] \in GroupsRow
             /\ [new EXCEPT !.active = b, !.activator = a].writer = c
  BY <1>2 DEF GroupsRow
<1> QED BY <1>1, <1>2 DEF LoadGroups!Activated, LoadGroups!Deactivated

(* One row is written by c, or put there. *)
LEMMA GroupsRowSet ==
  ASSUME GroupsTyped, NEW c \in Calls, NEW g \in Groups, NEW new \in GroupsRow, new.writer = c,
         groups' = [h \in DOMAIN groups \cup {g} |-> IF h = g THEN new ELSE groups[h]]
  PROVE  /\ DOMAIN groups' = DOMAIN groups \cup {g}
         /\ groups' \in [DOMAIN groups' -> GroupsRow] /\ groups'[g].writer = c
         /\ \A h \in DOMAIN groups \ {g} : groups'[h] = groups[h]
  BY DEF GroupsTyped

\* A call that begins and what it writes at once.
LEMMA GroupsBeginPreserves ==
  ASSUME GroupsIInv, NEW c \in Calls,
         \/ LoadGroups!CreateGroup(c) \/ LoadGroups!BeginActivation(c) \/ LoadGroups!DisableGroup(c) \/ LoadGroups!DeleteGroup(c)
         \/ \E at \in {"lock", "done"} : LoadGroups!Configure(c, at)
         \/ LoadGroups!BeginRecalculation(c) \/ LoadGroups!RecalculateStation(c)
  PROVE  GroupsIInv'
<1> USE DEF GroupsIInv
<1>1. PICK kind \in {"create", "activate", "disable", "delete", "configure", "recalculate"},
           g \in Groups, at \in {"see", "lock", "done"} :
        /\ LoadGroups!Begin(c, kind, g, at)
        /\ g \in DOMAIN groups'
        /\ \/ groups' = groups
           \/ /\ DOMAIN groups' = DOMAIN groups \cup {g}
              /\ groups' \in [DOMAIN groups' -> GroupsRow] /\ groups'[g].writer = c
              /\ \A h \in DOMAIN groups \ {g} : groups'[h] = groups[h]
  <2>1. CASE LoadGroups!CreateGroup(c)
    <3>1. PICK g \in Groups \ DOMAIN groups, active \in BOOLEAN, at \in {"see", "lock", "done"} :
            /\ LoadGroups!Begin(c, "create", g, at)
            /\ groups' = [h \in DOMAIN groups \cup {g} |->
                            IF h = g THEN LoadGroups!Created(c, active) ELSE groups[h]]
      BY <2>1 DEF LoadGroups!CreateGroup
    <3>2. LoadGroups!Created(c, active) \in GroupsRow /\ LoadGroups!Created(c, active).writer = c
      BY DEF LoadGroups!Created, GroupsRow
    <3>3. /\ DOMAIN groups' = DOMAIN groups \cup {g}
          /\ groups' \in [DOMAIN groups' -> GroupsRow] /\ groups'[g].writer = c
          /\ \A h \in DOMAIN groups \ {g} : groups'[h] = groups[h]
      BY <3>1, <3>2, GroupsRowSet
    <3> QED BY <3>1, <3>3
  <2>2. ASSUME NEW g \in DOMAIN groups, NEW new \in GroupsRow, new.writer = c,
               groups' = [groups EXCEPT ![g] = new]
        PROVE  /\ g \in Groups /\ DOMAIN groups' = DOMAIN groups \cup {g}
               /\ groups' \in [DOMAIN groups' -> GroupsRow] /\ groups'[g].writer = c
               /\ \A h \in DOMAIN groups \ {g} : groups'[h] = groups[h]
    BY <2>2 DEF GroupsTyped
  <2>3. CASE LoadGroups!DisableGroup(c) \/ LoadGroups!DeleteGroup(c)
    <3>1. PICK g \in DOMAIN groups, kind \in {"disable", "delete"}, at \in {"lock", "done"} :
            LoadGroups!Begin(c, kind, g, at) /\ groups' = [groups EXCEPT ![g] = LoadGroups!Deactivated(groups[g], c)]
      BY <2>3 DEF LoadGroups!DisableGroup, LoadGroups!DeleteGroup
    <3>2. LoadGroups!Deactivated(groups[g], c) \in GroupsRow /\ LoadGroups!Deactivated(groups[g], c).writer = c
      BY GroupsRowWrites DEF GroupsTyped
    <3> QED BY ZenonT(40), <3>1, <3>2, <2>2
  <2>4. CASE \E at \in {"lock", "done"} : LoadGroups!Configure(c, at)
    <3>1. PICK g \in DOMAIN groups, at \in {"lock", "done"} :
            LoadGroups!Begin(c, "configure", g, at) /\ groups' = [groups EXCEPT ![g] = LoadGroups!Written(groups[g], c)]
      BY <2>4 DEF LoadGroups!Configure
    <3>2. LoadGroups!Written(groups[g], c) \in GroupsRow /\ LoadGroups!Written(groups[g], c).writer = c
      BY GroupsRowWrites DEF GroupsTyped
    <3> QED BY <3>1, <3>2, <2>2
  <2>5. CASE LoadGroups!BeginActivation(c) \/ LoadGroups!BeginRecalculation(c) \/ LoadGroups!RecalculateStation(c)
    BY <2>5 DEF LoadGroups!BeginActivation, LoadGroups!BeginRecalculation, LoadGroups!RecalculateStation, GroupsTyped
  <2> QED BY <2>1, <2>2, <2>3, <2>4, <2>5
<1>2. PICK p \in Replicas :
        groupCalls' = [groupCalls EXCEPT ![c] =
          [LoadGroups!NoCall EXCEPT !.at = at, !.kind = kind, !.group = g, !.replica = p,
                         !.after = {d \in Calls : LoadGroups!Over(d)}]]
  BY <1>1 DEF LoadGroups!Begin
<1> DEFINE call == [LoadGroups!NoCall EXCEPT !.at = at, !.kind = kind, !.group = g, !.replica = p,
                                  !.after = {d \in Calls : LoadGroups!Over(d)}]
<1>3. /\ call \in GroupsCall /\ call.at = at /\ call.read = 0 /\ call.group = g /\ call.replica = p
      /\ call.after = {d \in Calls : LoadGroups!Over(d)}
  BY DEF GroupsCall, LoadGroups!NoCall
<1> HIDE DEF call
<1>4. groupCalls' = [groupCalls EXCEPT ![c] = call]
  BY <1>2 DEF call
<1>5. groupCalls' \in [Calls -> GroupsCall] /\ groupCalls'[c] = call /\ \A d \in Calls \ {c} : groupCalls'[d] = groupCalls[d]
  BY <1>3, <1>4 DEF GroupsTyped
<1>6. GroupsTyped'
  <2>1. DOMAIN groups' \subseteq Groups /\ groups' \in [DOMAIN groups' -> GroupsRow]
        /\ DOMAIN groups \subseteq DOMAIN groups'
    BY <1>1 DEF GroupsTyped
  <2>2. locks' = locks
    BY <1>1 DEF LoadGroups!Begin
  <2> QED BY <1>1, <1>3, <1>5, <2>1, <2>2 DEF GroupsTyped
<1>7. groupCalls[c].at = "idle" /\ locks' = locks
  BY <1>1 DEF LoadGroups!Begin
<1>8. \A h \in DOMAIN groups' :
        groups'[h].writer = c \/ (h \in DOMAIN groups /\ groups'[h] = groups[h])
  BY <1>1
<1> QED BY <1>3, <1>5, <1>6, <1>7, <1>8, GroupsBeginningPreserves

(* A call that goes on keeps what it began with; the order of calls does not change.    *)
LEMMA GroupsGoingOn ==
  ASSUME GroupsIInv, NEW c \in Calls, groupCalls[c].at \notin {"idle", "done", "failed"},
         \A d \in Calls \ {c} : groupCalls'[d] = groupCalls[d],
         groupCalls'[c].after = groupCalls[c].after, groupCalls'[c].at # "idle", GroupsTyped'
  PROVE  GroupsAfterIsOver'
  BY DEF GroupsIInv, GroupsAfterIsOver, LoadGroups!Over, GroupsTyped, GroupsCall

\* Activation sees the active groups and then writes.
LEMMA GroupsActivationPreserves ==
  ASSUME GroupsIInv, NEW c \in Calls, LoadGroups!SeeActive(c) \/ LoadGroups!ActivateGroup(c)
  PROVE  GroupsIInv'
<1> USE DEF GroupsIInv
<1>1. /\ groupCalls[c].at \in {"see", "commit"} /\ groupCalls'[c].at \in {"commit", "lock"} /\ locks' = locks
      /\ groupCalls' \in [Calls -> GroupsCall] /\ \A d \in Calls \ {c} : groupCalls'[d] = groupCalls[d]
      /\ groupCalls'[c].after = groupCalls[c].after /\ groupCalls'[c].read = groupCalls[c].read
      /\ groupCalls'[c].group = groupCalls[c].group /\ groupCalls'[c].replica = groupCalls[c].replica
  <2>1. CASE LoadGroups!SeeActive(c)
    <3> DEFINE seen == {h \in DOMAIN groups : groups[h].active} \ {groupCalls[c].group}
    <3>1. seen \in SUBSET Groups
      BY DEF GroupsTyped
    <3> HIDE DEF seen
    <3>2. /\ groupCalls[c].at = "see" /\ locks' = locks
          /\ groupCalls' = [groupCalls EXCEPT ![c] = [groupCalls[c] EXCEPT !.at = "commit", !.seen = seen]]
      BY <2>1 DEF LoadGroups!SeeActive, seen, GroupsTyped
    <3> QED BY ZenonT(40), <3>1, <3>2 DEF GroupsTyped, GroupsCall
  <2>2. CASE LoadGroups!ActivateGroup(c)
    BY ZenonT(40), <2>2 DEF LoadGroups!ActivateGroup, LoadGroups!Goto, GroupsTyped, GroupsCall
  <2> QED BY <2>1, <2>2
<1>2. /\ DOMAIN groups' = DOMAIN groups /\ groups' \in [DOMAIN groups' -> GroupsRow]
      /\ \A g \in DOMAIN groups : groups'[g].writer = c \/ groups'[g] = groups[g]
  <2>1. CASE LoadGroups!SeeActive(c)
    BY <2>1 DEF LoadGroups!SeeActive, GroupsTyped
  <2>2. CASE LoadGroups!ActivateGroup(c)
    <3>1. /\ DOMAIN groups' = DOMAIN groups
          /\ \A h \in DOMAIN groups :
               \/ groups'[h] = LoadGroups!Activated(groups[h], c)
               \/ groups'[h] = LoadGroups!Deactivated(groups[h], c)
               \/ groups'[h] = groups[h]
      BY <2>2 DEF LoadGroups!ActivateGroup
    <3>2. \A h \in DOMAIN groups :
            groups'[h] \in GroupsRow /\ (groups'[h].writer = c \/ groups'[h] = groups[h])
      <4> TAKE h \in DOMAIN groups
      <4>1. groups[h] \in GroupsRow
        BY DEF GroupsTyped
      <4> QED BY <3>1, <4>1, GroupsRowWrites
    <3>3. groups' = [h \in DOMAIN groups |-> groups'[h]]
      BY <2>2 DEF LoadGroups!ActivateGroup
    <3> QED BY <3>1, <3>2, <3>3
  <2> QED BY <2>1, <2>2
<1>3. GroupsTyped'
  BY <1>1, <1>2 DEF GroupsTyped
<1>4. GroupsReadInLock' /\ GroupsLockHeld'
  BY <1>1 DEF GroupsReadInLock, GroupsLockHeld, LoadGroups!Queue
<1>7. GroupsWriterBegan'
  <2>1. \A g \in DOMAIN groups' :
          g \in DOMAIN groups /\ (groups'[g].writer = c \/ groups'[g].writer = groups[g].writer)
    BY <1>2
  <2>2. \A d \in Calls : groupCalls[d].at # "idle" => groupCalls'[d].at # "idle"
    BY <1>1
  <2>3. \A g \in DOMAIN groups : groups[g].writer \in Calls
    BY DEF GroupsTyped, GroupsRow
  <2> QED BY <1>1, <2>1, <2>2, <2>3 DEF GroupsWriterBegan
<1>5. GroupsAfterIsOver'
  BY <1>1, <1>3, GroupsGoingOn
<1>6. GroupsReadBack'
  <2> SUFFICES ASSUME NEW g \in DOMAIN groups', GroupsReread(g)' PROVE GroupsAgreed(g)'
    BY DEF GroupsReadBack
  <2>1. g \in DOMAIN groups /\ groups'[g].writer # c /\ groups'[g] = groups[g]
    BY <1>1, <1>2 DEF GroupsReread, GroupsReadInLock
  <2>2. groups[g].writer \in Calls
    BY <2>1 DEF GroupsTyped, GroupsRow
  <2>3. GroupsReread(g)
    BY <1>1, <2>1, <2>2 DEF GroupsReread, LoadGroups!Overlap
  <2> QED BY <1>1, <2>1, <2>2, <2>3 DEF GroupsReadBack, GroupsAgreed
<1> QED BY <1>3, <1>4, <1>5, <1>6, <1>7

\* A call that asks for the lock waits or has it.
LEMMA GroupsQueuePreserves ==
  ASSUME GroupsIInv, NEW c \in Calls, LoadGroups!QueueForLock(c)
  PROVE  GroupsIInv'
<1> USE DEF GroupsIInv
<1> DEFINE p == groupCalls[c].replica
           g == groupCalls[c].group
<1>1. p \in Replicas /\ g \in Groups /\ groupCalls[c].at = "lock" /\ groups' = groups
  BY DEF LoadGroups!QueueForLock, GroupsTyped
<1>2. /\ groupCalls' \in [Calls -> GroupsCall] /\ \A d \in Calls \ {c} : groupCalls'[d] = groupCalls[d]
      /\ groupCalls'[c].at = "queued"
      /\ groupCalls'[c].after = groupCalls[c].after /\ groupCalls'[c].read = groupCalls[c].read
      /\ groupCalls'[c].group = groupCalls[c].group /\ groupCalls'[c].replica = groupCalls[c].replica
  BY DEF LoadGroups!QueueForLock, LoadGroups!Goto, GroupsTyped, GroupsCall
<1>3. /\ locks' \in [Replicas -> [Groups -> Seq(Calls)]]
      /\ locks'[p][g] = Append(locks[p][g], c)
      /\ \A r \in Replicas, h \in Groups : r # p \/ h # g => locks'[r][h] = locks[r][h]
  BY <1>1 DEF LoadGroups!QueueForLock, GroupsTyped
<1> HIDE DEF p, g
<1>4. GroupsTyped'
  BY <1>1, <1>2, <1>3 DEF GroupsTyped
<1>5. GroupsReadInLock' /\ GroupsWriterBegan'
  BY <1>1, <1>2 DEF GroupsReadInLock, GroupsWriterBegan, GroupsTyped, GroupsRow
<1>6. GroupsAfterIsOver'
  BY <1>1, <1>2, <1>4, GroupsGoingOn
<1>7. GroupsLockHeld'
  <2> SUFFICES ASSUME NEW d \in Calls
               PROVE  /\ groupCalls'[d].at = "queued" => GroupsWaits(d, LoadGroups!Queue(d)')
                      /\ groupCalls'[d].at = "decide" => LoadGroups!Queue(d)' # << >> /\ Head(LoadGroups!Queue(d)') = d
    BY DEF GroupsLockHeld, GroupsWaits
  <2>1. CASE d = c
    <3>1. LoadGroups!Queue(d)' = Append(locks[p][g], c) /\ locks[p][g] \in Seq(Calls)
      BY <1>1, <1>2, <1>3, <2>1 DEF LoadGroups!Queue, p, g, GroupsTyped
    <3>2. LoadGroups!Queue(d)'[Len(LoadGroups!Queue(d)')] = c /\ Len(LoadGroups!Queue(d)') \in 1 .. Len(LoadGroups!Queue(d)')
      BY <3>1
    <3> QED BY <1>2, <2>1, <3>2 DEF GroupsWaits
  <2>2. CASE d # c /\ groupCalls[d].at \in {"queued", "decide"}
    <3>1. groupCalls[d].replica \in Replicas /\ groupCalls[d].group \in Groups
      BY <2>2 DEF GroupsTyped
    <3>2. LoadGroups!Queue(d) \in Seq(Calls)
      BY <3>1 DEF LoadGroups!Queue, GroupsTyped
    <3>3. LoadGroups!Queue(d)' = LoadGroups!Queue(d) \/ LoadGroups!Queue(d)' = Append(LoadGroups!Queue(d), c)
      BY ZenonT(40), <1>2, <1>3, <2>2, <3>1 DEF LoadGroups!Queue, p, g
    <3>4. GroupsWaits(d, LoadGroups!Queue(d)) => GroupsWaits(d, Append(LoadGroups!Queue(d), c))
      BY <3>2 DEF GroupsWaits
    <3>5. LoadGroups!Queue(d) # << >> => Append(LoadGroups!Queue(d), c) # << >> /\ Head(Append(LoadGroups!Queue(d), c)) = Head(LoadGroups!Queue(d))
      BY <3>2
    <3>6. groupCalls'[d] = groupCalls[d]
      BY <1>2, <2>2
    <3> QED BY <3>3, <3>4, <3>5, <3>6 DEF GroupsLockHeld
  <2>3. CASE d # c /\ groupCalls[d].at \notin {"queued", "decide"}
    BY <1>2, <2>3
  <2> QED BY <2>1, <2>2, <2>3
<1>8. GroupsReadBack'
  <2> SUFFICES ASSUME NEW h \in DOMAIN groups, GroupsReread(h)' PROVE GroupsAgreed(h)'
    BY <1>1 DEF GroupsReadBack
  <2>1. groups[h].writer \in Calls
    BY DEF GroupsTyped, GroupsRow
  <2>2. GroupsReread(h)
    BY <1>1, <1>2, <2>1 DEF GroupsReread, LoadGroups!Overlap
  <2> QED BY <1>1, <1>2, <2>1, <2>2 DEF GroupsReadBack, GroupsAgreed
<1> QED BY <1>4, <1>5, <1>6, <1>7, <1>8

\* A call goes on, with what it has read.
GroupsMoved(call, at, v) == [call EXCEPT !.at = at, !.read = v]

\* What becomes of a call that goes on.
LEMMA GroupsCallWrites ==
  ASSUME NEW call, call \in GroupsCall, NEW at, at \in {"decide", "done", "failed"}, NEW v, v \in Nat
  PROVE  /\ GroupsMoved(call, at, v) \in GroupsCall
         /\ GroupsMoved(call, at, v).at = at /\ GroupsMoved(call, at, v).read = v
         /\ GroupsMoved(call, at, v).after = call.after
         /\ GroupsMoved(call, at, v).group = call.group /\ GroupsMoved(call, at, v).replica = call.replica
  BY DEF GroupsMoved, GroupsCall

\* Under the lock the group is read as it is.
LEMMA GroupsLoadPreserves ==
  ASSUME GroupsIInv, NEW c \in Calls, LoadGroups!LoadGroup(c)
  PROVE  GroupsIInv'
<1> USE DEF GroupsIInv
<1> DEFINE g == groupCalls[c].group
<1>1. /\ groupCalls[c].at = "queued" /\ Head(LoadGroups!Queue(c)) = c /\ groups' = groups /\ locks' = locks
      /\ g \in DOMAIN groups /\ groups[g].version \in Nat
  BY DEF LoadGroups!LoadGroup, GroupsTyped, GroupsRow
<1>2. /\ groupCalls' \in [Calls -> GroupsCall] /\ \A d \in Calls \ {c} : groupCalls'[d] = groupCalls[d]
      /\ groupCalls'[c].at = "decide" /\ groupCalls'[c].read = groups[g].version
      /\ groupCalls'[c].after = groupCalls[c].after
      /\ groupCalls'[c].group = groupCalls[c].group /\ groupCalls'[c].replica = groupCalls[c].replica
  <2>1. groupCalls' = [groupCalls EXCEPT ![c] = [groupCalls[c] EXCEPT !.at = "decide", !.read = groups[g].version]]
    BY DEF LoadGroups!LoadGroup, GroupsTyped
  <2> DEFINE new == GroupsMoved(groupCalls[c], "decide", groups[g].version)
  <2>2. /\ new \in GroupsCall /\ new.at = "decide" /\ new.read = groups[g].version
        /\ new.after = groupCalls[c].after
        /\ new.group = groupCalls[c].group /\ new.replica = groupCalls[c].replica
    BY <1>1, GroupsCallWrites DEF GroupsTyped
  <2>3. groupCalls' = [groupCalls EXCEPT ![c] = new]
    BY <2>1 DEF GroupsMoved
  <2> HIDE DEF new, g
  <2> QED BY <2>2, <2>3 DEF GroupsTyped
<1> HIDE DEF g
<1>3. GroupsTyped'
  BY <1>1, <1>2 DEF GroupsTyped
<1>4. GroupsReadInLock' /\ GroupsWriterBegan'
  BY <1>1, <1>2 DEF GroupsReadInLock, GroupsWriterBegan, GroupsTyped, GroupsRow
<1>5. GroupsAfterIsOver'
  BY <1>1, <1>2, <1>3, GroupsGoingOn
<1>6. GroupsLockHeld'
  <2>1. LoadGroups!Queue(c) # << >>
    BY <1>1 DEF GroupsLockHeld, GroupsWaits
  <2>2. \A d \in Calls : LoadGroups!Queue(d)' = LoadGroups!Queue(d)
    BY <1>1, <1>2 DEF LoadGroups!Queue
  <2> QED BY <1>1, <1>2, <2>1, <2>2 DEF GroupsLockHeld, GroupsWaits
<1>7. GroupsReadBack'
  <2> SUFFICES ASSUME NEW h \in DOMAIN groups, GroupsReread(h)' PROVE GroupsAgreed(h)'
    BY <1>1 DEF GroupsReadBack
  <2> DEFINE w == groups[h].writer
  <2>1. w \in Calls
    BY DEF GroupsTyped, GroupsRow
  <2>2. CASE w # c
    <3>1. GroupsReread(h)
      BY <1>1, <1>2, <2>1, <2>2 DEF GroupsReread, LoadGroups!Overlap
    <3> QED BY <1>1, <1>2, <2>1, <2>2, <3>1 DEF GroupsReadBack, GroupsAgreed, g
  \* the others in the lock would be behind c, or overlap with it
  <2>3. CASE w = c
    <3>1. h = g
      BY <1>1, <1>2, <2>3 DEF GroupsReread, g
    <3>2. ASSUME NEW d \in Calls, d # c, groupCalls[d].at = "decide", groupCalls[d].group = h
          PROVE  FALSE
      <4>1. CASE groupCalls[d].replica = groupCalls[c].replica
        BY <1>1, <3>1, <3>2, <4>1 DEF GroupsLockHeld, LoadGroups!Queue, g
      <4>2. CASE groupCalls[d].replica # groupCalls[c].replica
        <5>1. ~ LoadGroups!Overlap(d, c)
          BY <1>1, <1>2, <2>3, <3>2, <4>2 DEF GroupsReread, LoadGroups!Overlap
        <5> QED BY <1>1, <3>2, <5>1 DEF LoadGroups!Overlap, GroupsAfterIsOver, LoadGroups!Over
      <4> QED BY <4>1, <4>2
    <3> QED BY <1>1, <1>2, <2>3, <3>1, <3>2 DEF GroupsAgreed
  <2> QED BY <2>2, <2>3
<1> QED BY <1>3, <1>4, <1>5, <1>6, <1>7

\* The lock is left with the decision recorded, or without.
LEMMA GroupsLeavingPreserves ==
  ASSUME GroupsIInv, NEW c \in Calls, LoadGroups!RecordDecision(c) \/ LoadGroups!HandlerThrows(c)
  PROVE  GroupsIInv'
<1> USE DEF GroupsIInv
<1> DEFINE p == groupCalls[c].replica
           g == groupCalls[c].group
<1>1. p \in Replicas /\ g \in Groups /\ g \in DOMAIN groups /\ groupCalls[c].at = "decide"
  BY DEF LoadGroups!RecordDecision, LoadGroups!HandlerThrows, GroupsTyped
<1>2. /\ groupCalls' \in [Calls -> GroupsCall] /\ \A d \in Calls \ {c} : groupCalls'[d] = groupCalls[d]
      /\ groupCalls'[c].at \in {"done", "failed"}
      /\ groupCalls'[c].after = groupCalls[c].after /\ groupCalls'[c].read = groupCalls[c].read
      /\ groupCalls'[c].group = groupCalls[c].group /\ groupCalls'[c].replica = groupCalls[c].replica
  <2>1. PICK at \in {"done", "failed"} : groupCalls' = [groupCalls EXCEPT ![c].at = at]
    BY DEF LoadGroups!RecordDecision, LoadGroups!HandlerThrows, LoadGroups!Goto
  <2> DEFINE new == GroupsMoved(groupCalls[c], at, groupCalls[c].read)
  <2>2. /\ new \in GroupsCall /\ new.at = at /\ new.read = groupCalls[c].read
        /\ new.after = groupCalls[c].after
        /\ new.group = groupCalls[c].group /\ new.replica = groupCalls[c].replica
    <3>1. groupCalls[c] \in GroupsCall /\ groupCalls[c].read \in Nat
      BY DEF GroupsTyped, GroupsCall
    <3> QED BY <3>1, GroupsCallWrites
  <2>3. groupCalls' = [groupCalls EXCEPT ![c] = new]
    BY <2>1 DEF GroupsMoved, GroupsTyped, GroupsCall
  <2> HIDE DEF new, p, g
  <2> QED BY <2>2, <2>3 DEF GroupsTyped
<1>3. locks[p][g] \in Seq(Calls) /\ locks[p][g] # << >> /\ Head(locks[p][g]) = c
  BY <1>1 DEF GroupsLockHeld, LoadGroups!Queue, GroupsTyped
<1>4. /\ locks' \in [Replicas -> [Groups -> Seq(Calls)]]
      /\ locks'[p][g] = Tail(locks[p][g])
      /\ \A r \in Replicas, h \in Groups : r # p \/ h # g => locks'[r][h] = locks[r][h]
  <2>1. locks' = [locks EXCEPT ![p][g] = Tail(locks[p][g])]
    BY DEF LoadGroups!RecordDecision, LoadGroups!HandlerThrows, LoadGroups!LeaveLock
  <2>2. Tail(locks[p][g]) \in Seq(Calls)
    BY <1>3
  <2> HIDE DEF p, g
  <2> QED BY <1>1, <2>1, <2>2 DEF GroupsTyped
<1>5. /\ DOMAIN groups' = DOMAIN groups /\ groups' \in [DOMAIN groups' -> GroupsRow]
      /\ \A h \in DOMAIN groups :
           /\ groups'[h].version = groups[h].version /\ groups'[h].writer = groups[h].writer
           /\ h # g => groups'[h].decided = groups[h].decided
      /\ groupCalls'[c].at = "done" => groups'[g].decided = groupCalls[c].read
      /\ groups'[g].decided \in {groups[g].decided, groupCalls[c].read}
  <2>1. CASE LoadGroups!RecordDecision(c)
    <3>1. groups[g] \in GroupsRow /\ groupCalls[c].read \in Nat
      BY <1>1 DEF GroupsTyped, GroupsCall
    <3> DEFINE new == [groups[g] EXCEPT !.decided = groupCalls[c].read]
    <3>2. /\ new \in GroupsRow /\ new.version = groups[g].version /\ new.writer = groups[g].writer
          /\ new.decided = groupCalls[c].read
      BY <3>1 DEF GroupsRow
    <3>3. groups' = [groups EXCEPT ![g] = new]
      BY <2>1 DEF LoadGroups!RecordDecision
    <3> HIDE DEF new, g
    <3> QED BY <1>1, <3>2, <3>3 DEF GroupsTyped
  <2>2. CASE LoadGroups!HandlerThrows(c)
    BY <2>2 DEF LoadGroups!HandlerThrows, LoadGroups!Goto, GroupsTyped, GroupsCall
  <2> QED BY <2>1, <2>2
<1> HIDE DEF p, g
<1>6. GroupsTyped'
  <2>1. DOMAIN groups' \subseteq Groups /\ groups' \in [DOMAIN groups' -> GroupsRow]
    BY <1>5 DEF GroupsTyped
  <2>2. \A d \in Calls : groupCalls'[d].at # "idle" =>
          groupCalls'[d].group \in DOMAIN groups' /\ groupCalls'[d].replica \in Replicas
    BY <1>1, <1>2, <1>5 DEF GroupsTyped
  <2> QED BY <1>2, <1>4, <2>1, <2>2 DEF GroupsTyped
<1>7. GroupsReadInLock' /\ GroupsWriterBegan'
  <2>1. GroupsReadInLock'
    BY <1>1, <1>2 DEF GroupsReadInLock
  <2>2. \A h \in DOMAIN groups : groups[h].writer \in Calls
    BY DEF GroupsTyped, GroupsRow
  <2> QED BY <1>2, <1>5, <2>1, <2>2 DEF GroupsWriterBegan
<1>8. GroupsAfterIsOver'
  BY <1>1, <1>2, <1>6, GroupsGoingOn
<1>9. GroupsLockHeld'
  <2> SUFFICES ASSUME NEW d \in Calls, d # c, groupCalls[d].at \in {"queued", "decide"}
               PROVE  /\ groupCalls[d].at = "queued" => GroupsWaits(d, LoadGroups!Queue(d)')
                      /\ groupCalls[d].at = "decide" => LoadGroups!Queue(d)' # << >> /\ Head(LoadGroups!Queue(d)') = d
    BY <1>2 DEF GroupsLockHeld, GroupsWaits
  <2>1. groupCalls[d].replica \in Replicas /\ groupCalls[d].group \in Groups /\ groupCalls'[d] = groupCalls[d]
    BY <1>2 DEF GroupsTyped
  <2>2. CASE groupCalls[d].replica # p \/ groupCalls[d].group # g
    <3>1. LoadGroups!Queue(d)' = LoadGroups!Queue(d)
      BY <1>4, <2>1, <2>2 DEF LoadGroups!Queue
    <3> QED BY <3>1 DEF GroupsLockHeld
  <2>3. CASE groupCalls[d].replica = p /\ groupCalls[d].group = g
    <3>1. LoadGroups!Queue(d) = locks[p][g] /\ LoadGroups!Queue(d)' = Tail(locks[p][g])
      BY <1>4, <2>1, <2>3 DEF LoadGroups!Queue
    <3>2. groupCalls[d].at = "queued" /\ GroupsWaits(d, locks[p][g])
      BY <1>3, <3>1 DEF GroupsLockHeld
    <3>3. PICK n \in 1 .. Len(locks[p][g]) : locks[p][g][n] = d
      BY <3>2 DEF GroupsWaits
    <3>4. n # 1
      BY <1>3, <3>3
    <3>5. n - 1 \in 1 .. Len(Tail(locks[p][g])) /\ Tail(locks[p][g])[n - 1] = d
      BY <1>3, <3>3, <3>4
    <3> QED BY <3>1, <3>2, <3>5 DEF GroupsWaits
  <2> QED BY <2>2, <2>3
<1>10. GroupsReadBack'
  <2> SUFFICES ASSUME NEW h \in DOMAIN groups, GroupsReread(h)' PROVE GroupsAgreed(h)'
    BY <1>5 DEF GroupsReadBack
  <2>1. groups[h].writer \in Calls
    BY DEF GroupsTyped, GroupsRow
  <2>2. GroupsReread(h)
    BY <1>1, <1>2, <1>5, <2>1 DEF GroupsReread, LoadGroups!Overlap
  <2>3. GroupsAgreed(h)
    BY <2>2 DEF GroupsReadBack
  <2>4. groupCalls[c].group = h => groupCalls[c].read = groups[h].version
    BY <1>1, <2>3 DEF GroupsAgreed
  <2>5. groups[h].writer = c => h = g
    BY <2>2 DEF GroupsReread, g
  <2>6. /\ groupCalls'[groups[h].writer].read = groups'[h].version
        /\ \A d \in Calls : groupCalls'[d].at = "decide" /\ groupCalls'[d].group = h =>
             groupCalls'[d].read = groups'[h].version
    BY <1>2, <1>5, <2>1, <2>3 DEF GroupsAgreed
  <2>7. groupCalls'[groups[h].writer].at = "done" => groups'[h].decided = groups'[h].version
    BY <1>2, <1>5, <2>1, <2>3, <2>4, <2>5 DEF GroupsAgreed, g
  <2> QED BY <1>5, <2>6, <2>7 DEF GroupsAgreed
<1> QED BY <1>6, <1>7, <1>8, <1>9, <1>10

\* Every step keeps what decisions are made from.
LEMMA GroupsIInvStep == ASSUME GroupsIInv, [LoadGroups!Next]_(LoadGroups!vars) PROVE GroupsIInv'
<1>1. CASE UNCHANGED LoadGroups!vars
  BY <1>1 DEF LoadGroups!vars, GroupsIInv, GroupsTyped, GroupsReadInLock, GroupsAfterIsOver, LoadGroups!Over, GroupsLockHeld, LoadGroups!Queue, GroupsWriterBegan,
              GroupsReadBack, GroupsReread, GroupsAgreed, LoadGroups!Overlap
<1>2. CASE \E c \in Calls :
             \/ LoadGroups!UpdateGroup(c) \/ LoadGroups!ReplaceMemberships(c) \/ LoadGroups!IngestTelemetry(c)
             \/ LoadGroups!CreateOverride(c) \/ LoadGroups!ClearOverride(c) \/ LoadGroups!SimulateMeterLoss(c)
  BY <1>2, GroupsBeginPreserves DEF LoadGroups!UpdateGroup, LoadGroups!ReplaceMemberships, LoadGroups!IngestTelemetry, LoadGroups!CreateOverride,
                              LoadGroups!ClearOverride, LoadGroups!SimulateMeterLoss
<1>3. CASE \E c \in Calls :
             \/ LoadGroups!CreateGroup(c) \/ LoadGroups!BeginActivation(c) \/ LoadGroups!DisableGroup(c) \/ LoadGroups!DeleteGroup(c)
             \/ LoadGroups!BeginRecalculation(c) \/ LoadGroups!RecalculateStation(c)
  BY <1>3, GroupsBeginPreserves
<1> QED BY <1>1, <1>2, <1>3, GroupsActivationPreserves, GroupsQueuePreserves, GroupsLoadPreserves,
           GroupsLeavingPreserves DEF LoadGroups!Next

\* An active group was activated by a call that has begun.
GroupsActivatorBegan ==
  \A g \in DOMAIN groups : groups[g].active =>
    groups[g].activator \in Calls /\ groupCalls[groups[g].activator].at # "idle"

\* What a call has seen active are other groups.
GroupsSeenOthers == \A c \in Calls : groupCalls[c].group \notin groupCalls[c].seen

\* A group that is active and was not seen was activated by a call that was not over when
\* the one about to activate another began.
GroupsUnseen ==
  \A c \in Calls, g \in DOMAIN groups :
    /\ groupCalls[c].at = "commit" /\ groups[g].active
    /\ g \notin groupCalls[c].seen /\ g # groupCalls[c].group
    => groups[g].activator \notin groupCalls[c].after

GroupsActiveInv ==
  GroupsActivatorBegan /\ GroupsSeenOthers /\ GroupsUnseen /\ LoadGroups!OneActiveGroup

\* No group is active.
LEMMA GroupsActiveInit == LoadGroups!Init => GroupsActiveInv
  BY DEF LoadGroups!Init, LoadGroups!NoCall, GroupsActiveInv, GroupsActivatorBegan, GroupsSeenOthers,
         GroupsUnseen, LoadGroups!OneActiveGroup

\* The call c begins, or goes on with what it began with and has seen.
GroupsProceeds(c) ==
  /\ groupCalls' \in [Calls -> GroupsCall] /\ \A d \in Calls \ {c} : groupCalls'[d] = groupCalls[d]
  /\ groupCalls'[c].at \notin {"idle", "commit"}
  /\ \/ groupCalls[c].at = "idle" /\ groupCalls'[c].seen = {}
     \/ /\ groupCalls[c].at # "idle"
        /\ groupCalls'[c].seen = groupCalls[c].seen /\ groupCalls'[c].after = groupCalls[c].after
        /\ groupCalls'[c].kind = groupCalls[c].kind /\ groupCalls'[c].group = groupCalls[c].group

\* Groups that are active were so, by the same call.
GroupsNoneActivated ==
  \A g \in DOMAIN groups' : groups'[g].active =>
    g \in DOMAIN groups /\ groups[g].active /\ groups'[g].activator = groups[g].activator

\* What has begun keeps its place among the calls.
LEMMA GroupsOverlapKept ==
  ASSUME NEW c \in Calls, NEW d \in Calls, NEW e \in Calls, GroupsProceeds(c),
         groupCalls[d].at # "idle", groupCalls[e].at # "idle"
  PROVE  /\ LoadGroups!Overlap(d, e)' = LoadGroups!Overlap(d, e)
         /\ groupCalls'[d].kind = groupCalls[d].kind
  BY DEF GroupsProceeds, LoadGroups!Overlap

\* A step that activates no group leaves no second one.
LEMMA GroupsNothingActivated ==
  ASSUME GroupsIInv, GroupsActiveInv, NEW c \in Calls, GroupsProceeds(c), GroupsNoneActivated
  PROVE  GroupsActiveInv'
<1>1. GroupsActivatorBegan'
  BY DEF GroupsActiveInv, GroupsActivatorBegan, GroupsProceeds, GroupsNoneActivated
<1>2. GroupsSeenOthers'
  BY DEF GroupsActiveInv, GroupsSeenOthers, GroupsProceeds
<1>3. GroupsUnseen'
  BY DEF GroupsActiveInv, GroupsUnseen, GroupsProceeds, GroupsNoneActivated
<1>4. LoadGroups!OneActiveGroup'
  <2> SUFFICES ASSUME NEW g \in DOMAIN groups', NEW h \in DOMAIN groups', g # h,
                      groups'[g].active, groups'[h].active
               PROVE  \/ groupCalls'[groups'[g].activator].kind = "create"
                      \/ groupCalls'[groups'[h].activator].kind = "create"
                      \/ LoadGroups!Overlap(groups[g].activator, groups[h].activator)'
    BY DEF LoadGroups!OneActiveGroup
  <2>1. /\ g \in DOMAIN groups /\ groups[g].active /\ groups'[g].activator = groups[g].activator
        /\ h \in DOMAIN groups /\ groups[h].active /\ groups'[h].activator = groups[h].activator
    BY DEF GroupsNoneActivated
  <2>2. /\ groups[g].activator \in Calls /\ groupCalls[groups[g].activator].at # "idle"
        /\ groups[h].activator \in Calls /\ groupCalls[groups[h].activator].at # "idle"
    BY <2>1 DEF GroupsActiveInv, GroupsActivatorBegan
  <2>3. \/ groupCalls[groups[g].activator].kind = "create"
        \/ groupCalls[groups[h].activator].kind = "create"
        \/ LoadGroups!Overlap(groups[g].activator, groups[h].activator)
    BY <2>1 DEF GroupsActiveInv, LoadGroups!OneActiveGroup
  <2> QED BY <2>1, <2>2, <2>3 DEF GroupsProceeds, LoadGroups!Overlap
<1> QED BY <1>1, <1>2, <1>3, <1>4 DEF GroupsActiveInv

\* A call that was not over when others began activates the group g.
LEMMA GroupsOneActivated ==
  ASSUME GroupsIInv, GroupsActiveInv, NEW c \in Calls, GroupsProceeds(c), NEW g \in DOMAIN groups',
         ~ LoadGroups!Over(c),
         groups'[g].activator = c,
         \A h \in DOMAIN groups' \ {g} : groups'[h].active =>
           h \in DOMAIN groups /\ groups[h].active /\ groups'[h].activator = groups[h].activator,
         \A h \in DOMAIN groups' \ {g} : groups'[h].active =>
           groupCalls'[c].kind = "create" \/ groups[h].activator \notin groupCalls'[c].after
  PROVE  GroupsActiveInv'
<1>0. \A d \in Calls : c \notin groupCalls[d].after
  BY DEF GroupsIInv, GroupsAfterIsOver
<1>1. GroupsActivatorBegan'
  BY DEF GroupsActiveInv, GroupsActivatorBegan, GroupsProceeds
<1>2. GroupsSeenOthers'
  BY DEF GroupsActiveInv, GroupsSeenOthers, GroupsProceeds
<1>3. GroupsUnseen'
  BY <1>0 DEF GroupsActiveInv, GroupsUnseen, GroupsProceeds
<1>4. LoadGroups!OneActiveGroup'
  <2>1. ASSUME NEW h \in DOMAIN groups', h # g, groups'[h].active
        PROVE  groupCalls'[c].kind = "create" \/ LoadGroups!Overlap(groups[h].activator, c)'
    <3>1. groups[h].activator \in Calls /\ groupCalls[groups[h].activator].at # "idle"
          /\ groups'[h].activator = groups[h].activator
      BY <2>1 DEF GroupsActiveInv, GroupsActivatorBegan
    <3>2. c \notin groupCalls'[groups[h].activator].after
      BY <1>0, <2>1, <3>1 DEF GroupsProceeds
    <3> QED BY <2>1, <3>1, <3>2 DEF LoadGroups!Overlap
  <2>2. ASSUME NEW h \in DOMAIN groups', NEW i \in DOMAIN groups', h # i, h # g, i # g,
               groups'[h].active, groups'[i].active
        PROVE  \/ groupCalls'[groups'[h].activator].kind = "create"
               \/ groupCalls'[groups'[i].activator].kind = "create"
               \/ LoadGroups!Overlap(groups[h].activator, groups[i].activator)'
    <3>1. /\ h \in DOMAIN groups /\ groups[h].active /\ groups'[h].activator = groups[h].activator
          /\ i \in DOMAIN groups /\ groups[i].active /\ groups'[i].activator = groups[i].activator
      BY <2>2
    <3>2. /\ groups[h].activator \in Calls /\ groupCalls[groups[h].activator].at # "idle"
          /\ groups[i].activator \in Calls /\ groupCalls[groups[i].activator].at # "idle"
      BY <3>1 DEF GroupsActiveInv, GroupsActivatorBegan
    <3>3. \/ groupCalls[groups[h].activator].kind = "create"
          \/ groupCalls[groups[i].activator].kind = "create"
          \/ LoadGroups!Overlap(groups[h].activator, groups[i].activator)
      BY <2>2, <3>1 DEF GroupsActiveInv, LoadGroups!OneActiveGroup
    <3> QED BY <3>1, <3>2, <3>3 DEF GroupsProceeds, LoadGroups!Overlap
  <2> QED BY <2>1, <2>2 DEF LoadGroups!OneActiveGroup, LoadGroups!Overlap
<1> QED BY <1>1, <1>2, <1>3, <1>4 DEF GroupsActiveInv

\* Which writes make a group active.
LEMMA GroupsRowActivity ==
  ASSUME NEW row \in GroupsRow, NEW c \in Calls
  PROVE  /\ LoadGroups!Written(row, c).active = row.active
         /\ LoadGroups!Written(row, c).activator = row.activator
         /\ LoadGroups!Activated(row, c).active /\ LoadGroups!Activated(row, c).activator = c
         /\ ~ LoadGroups!Deactivated(row, c).active
  BY DEF GroupsRow, LoadGroups!Written, LoadGroups!Activated, LoadGroups!Deactivated

\* What a call is when it begins.
LEMMA GroupsBegun ==
  ASSUME GroupsIInv, NEW c \in Calls, NEW g \in Groups, NEW at \in {"see", "lock", "done"},
         NEW kind \in {"create", "activate", "disable", "delete", "configure", "recalculate"},
         LoadGroups!Begin(c, kind, g, at)
  PROVE  GroupsProceeds(c) /\ groupCalls'[c].kind = kind /\ ~ LoadGroups!Over(c)
<1>1. PICK p \in Replicas :
        groupCalls' = [groupCalls EXCEPT ![c] =
          [LoadGroups!NoCall EXCEPT !.at = at, !.kind = kind, !.group = g, !.replica = p,
                         !.after = {d \in Calls : LoadGroups!Over(d)}]]
  BY DEF LoadGroups!Begin
<1> DEFINE call == [LoadGroups!NoCall EXCEPT !.at = at, !.kind = kind, !.group = g, !.replica = p,
                                  !.after = {d \in Calls : LoadGroups!Over(d)}]
<1>2. call \in GroupsCall /\ call.at = at /\ call.kind = kind /\ call.seen = {}
  BY DEF GroupsCall, LoadGroups!NoCall
<1> HIDE DEF call
<1>3. groupCalls' = [groupCalls EXCEPT ![c] = call]
  BY <1>1 DEF call
<1> QED BY <1>2, <1>3 DEF GroupsIInv, GroupsTyped, GroupsProceeds, LoadGroups!Begin, LoadGroups!Over

\* Beginning activates nothing.
LEMMA GroupsBeginKeepsActive ==
  ASSUME GroupsIInv, GroupsActiveInv, NEW c \in Calls,
         \/ LoadGroups!BeginActivation(c) \/ LoadGroups!DisableGroup(c) \/ LoadGroups!DeleteGroup(c)
         \/ \E at \in {"lock", "done"} : LoadGroups!Configure(c, at)
         \/ LoadGroups!BeginRecalculation(c) \/ LoadGroups!RecalculateStation(c)
  PROVE  GroupsActiveInv'
<1>1. PICK g \in DOMAIN groups, at \in {"see", "lock", "done"},
           kind \in {"activate", "disable", "delete", "configure", "recalculate"} :
        /\ LoadGroups!Begin(c, kind, g, at)
        /\ \/ groups' = groups
           \/ groups' = [groups EXCEPT ![g] = LoadGroups!Written(groups[g], c)]
           \/ groups' = [groups EXCEPT ![g] = LoadGroups!Deactivated(groups[g], c)]
  BY DEF LoadGroups!BeginActivation, LoadGroups!DisableGroup, LoadGroups!DeleteGroup,
         LoadGroups!Configure, LoadGroups!BeginRecalculation, LoadGroups!RecalculateStation
<1>2. g \in Groups /\ groups[g] \in GroupsRow
  BY DEF GroupsIInv, GroupsTyped
<1>3. GroupsProceeds(c)
  BY <1>1, <1>2, GroupsBegun
<1>4. GroupsNoneActivated
  BY <1>1, <1>2, GroupsRowActivity DEF GroupsNoneActivated
<1> QED BY <1>3, <1>4, GroupsNothingActivated

\* A group is created inactive.
LEMMA GroupsCreateKeepsActive ==
  ASSUME GroupsIInv, GroupsActiveInv, NEW c \in Calls, LoadGroups!CreateGroup(c)
  PROVE  GroupsActiveInv'
<1>1. PICK g \in Groups \ DOMAIN groups, active \in BOOLEAN, at \in {"see", "lock", "done"} :
        /\ LoadGroups!Begin(c, "create", g, at)
        /\ groups' = [h \in DOMAIN groups \cup {g} |->
                        IF h = g THEN LoadGroups!Created(c, active) ELSE groups[h]]
  BY DEF LoadGroups!CreateGroup
<1>2. GroupsProceeds(c) /\ groupCalls'[c].kind = "create" /\ ~ LoadGroups!Over(c)
  BY <1>1, GroupsBegun
<1>3. groups'[g].active = active /\ (active => groups'[g].activator = c)
  BY <1>1 DEF LoadGroups!Created
<1>4. \A h \in DOMAIN groups' \ {g} : h \in DOMAIN groups /\ groups'[h] = groups[h]
  BY <1>1
<1>5. CASE active
  BY <1>1, <1>2, <1>3, <1>4, <1>5, GroupsOneActivated
<1>6. CASE ~ active
  <2>1. GroupsNoneActivated
    BY <1>1, <1>3, <1>4, <1>6 DEF GroupsNoneActivated
  <2> QED BY <1>2, <2>1, GroupsNothingActivated
<1> QED BY <1>5, <1>6

\* What is seen is what is active now.
LEMMA GroupsSeeKeepsActive ==
  ASSUME GroupsIInv, GroupsActiveInv, NEW c \in Calls, LoadGroups!SeeActive(c)
  PROVE  GroupsActiveInv'
<1> DEFINE seen == {h \in DOMAIN groups : groups[h].active} \ {groupCalls[c].group}
           call == [groupCalls[c] EXCEPT !.at = "commit", !.seen = seen]
<1>1. seen \in SUBSET Groups /\ groupCalls[c] \in GroupsCall /\ groupCalls[c].at = "see"
  BY DEF GroupsIInv, GroupsTyped, LoadGroups!SeeActive
<1>2. groupCalls' = [groupCalls EXCEPT ![c] = call] /\ groups' = groups
  BY DEF LoadGroups!SeeActive, GroupsIInv, GroupsTyped
<1> HIDE DEF seen
<1>3. /\ call \in GroupsCall /\ call.at = "commit" /\ call.seen = seen
      /\ call.after = groupCalls[c].after /\ call.group = groupCalls[c].group
      /\ call.kind = groupCalls[c].kind
  BY <1>1 DEF GroupsCall
<1> HIDE DEF call
<1>4. groupCalls'[c] = call /\ \A d \in Calls \ {c} : groupCalls'[d] = groupCalls[d]
  BY <1>2, <1>3 DEF GroupsIInv, GroupsTyped
<1>5. GroupsActivatorBegan'
  BY <1>2, <1>3, <1>4 DEF GroupsActiveInv, GroupsActivatorBegan
<1>6. GroupsSeenOthers' /\ GroupsUnseen'
  BY <1>2, <1>3, <1>4 DEF GroupsActiveInv, GroupsSeenOthers, GroupsUnseen, seen
<1>7. LoadGroups!OneActiveGroup'
  <2>1. \A d \in Calls : groupCalls'[d].kind = groupCalls[d].kind /\ groupCalls'[d].after = groupCalls[d].after
    BY <1>3, <1>4
  <2> QED BY <1>2, <2>1 DEF GroupsActiveInv, GroupsActivatorBegan, LoadGroups!OneActiveGroup, LoadGroups!Overlap
<1> QED BY <1>5, <1>6, <1>7 DEF GroupsActiveInv

\* A call moves on to another point.
LEMMA GroupsMovedOn ==
  ASSUME GroupsIInv, NEW c \in Calls, groupCalls[c].at # "idle", NEW read \in Nat,
         NEW at \in {"lock", "queued", "decide", "done", "failed"},
         groupCalls' = [groupCalls EXCEPT ![c] = GroupsMoved(groupCalls[c], at, read)]
  PROVE  GroupsProceeds(c) /\ groupCalls'[c].at = at
<1> DEFINE call == GroupsMoved(groupCalls[c], at, read)
<1>1. groupCalls[c] \in GroupsCall
  BY DEF GroupsIInv, GroupsTyped
<1>2. /\ call \in GroupsCall /\ call.at = at /\ call.seen = groupCalls[c].seen
      /\ call.after = groupCalls[c].after /\ call.kind = groupCalls[c].kind
      /\ call.group = groupCalls[c].group
  BY <1>1 DEF GroupsCall, GroupsMoved
<1> HIDE DEF call
<1>3. groupCalls' = [groupCalls EXCEPT ![c] = call]
  BY DEF call
<1> QED BY <1>2, <1>3 DEF GroupsProceeds, GroupsIInv, GroupsTyped

\* Who activates a group deactivates those that were seen.
LEMMA GroupsActivateKeepsActive ==
  ASSUME GroupsIInv, GroupsActiveInv, NEW c \in Calls, LoadGroups!ActivateGroup(c)
  PROVE  GroupsActiveInv'
<1> DEFINE g == groupCalls[c].group
           seen == groupCalls[c].seen
<1>1. /\ groupCalls[c].at = "commit" /\ groupCalls[c] \in GroupsCall /\ g \in DOMAIN groups
      /\ g \notin seen
  BY DEF LoadGroups!ActivateGroup, GroupsIInv, GroupsTyped, GroupsActiveInv, GroupsSeenOthers
<1>2. groupCalls[c].read \in Nat
  BY <1>1 DEF GroupsCall
<1>3. GroupsProceeds(c) /\ groupCalls'[c].after = groupCalls[c].after
  <2>1. groupCalls' = [groupCalls EXCEPT ![c] = GroupsMoved(groupCalls[c], "lock", groupCalls[c].read)]
    BY <1>1 DEF LoadGroups!ActivateGroup, LoadGroups!Goto, GroupsMoved, GroupsCall
  <2>2. GroupsProceeds(c)
    BY <1>1, <1>2, <2>1, GroupsMovedOn
  <2> QED BY <1>1, <2>2 DEF GroupsProceeds
<1>4. \A h \in DOMAIN groups : groups[h] \in GroupsRow
  BY DEF GroupsIInv, GroupsTyped
<1> HIDE DEF g, seen
<1>5. groups' = [h \in DOMAIN groups |->
         CASE h = g -> LoadGroups!Activated(groups[h], c)
           [] h \in seen /\ groups[h].active -> LoadGroups!Deactivated(groups[h], c)
           [] OTHER -> groups[h]]
  BY DEF LoadGroups!ActivateGroup, g, seen
<1>6. /\ groups'[g].activator = c /\ g \in DOMAIN groups'
      /\ \A h \in DOMAIN groups' \ {g} : groups'[h].active =>
           /\ h \in DOMAIN groups /\ groups[h].active /\ groups'[h].activator = groups[h].activator
           /\ h \notin seen
  <2>1. groups'[g] = LoadGroups!Activated(groups[g], c)
    BY <1>1, <1>5
  <2>2. ASSUME NEW h \in DOMAIN groups, h # g
        PROVE  \/ groups'[h] = LoadGroups!Deactivated(groups[h], c)
               \/ groups'[h] = groups[h] /\ ~(h \in seen /\ groups[h].active)
    BY <1>5, <2>2
  <2> QED BY <1>1, <1>4, <1>5, <2>1, <2>2, GroupsRowActivity
<1>7. \A h \in DOMAIN groups' \ {g} : groups'[h].active => groups[h].activator \notin groupCalls'[c].after
  BY <1>1, <1>3, <1>6 DEF GroupsActiveInv, GroupsUnseen, g, seen
<1>8. ~ LoadGroups!Over(c)
  BY <1>1 DEF LoadGroups!Over
<1> QED BY <1>3, <1>6, <1>7, <1>8, GroupsOneActivated

\* Deciding activates nothing.
LEMMA GroupsDecideKeepsActive ==
  ASSUME GroupsIInv, GroupsActiveInv, NEW c \in Calls,
         \/ LoadGroups!QueueForLock(c) \/ LoadGroups!LoadGroup(c)
         \/ LoadGroups!RecordDecision(c) \/ LoadGroups!HandlerThrows(c)
  PROVE  GroupsActiveInv'
<1>1. groupCalls[c] \in GroupsCall /\ groupCalls[c].read \in Nat
  BY DEF GroupsIInv, GroupsTyped, GroupsCall
<1>2. groupCalls[c].at # "idle" /\ groupCalls[c].group \in DOMAIN groups
  BY DEF LoadGroups!QueueForLock, LoadGroups!LoadGroup, LoadGroups!RecordDecision,
         LoadGroups!HandlerThrows, GroupsIInv, GroupsTyped
<1>3. \A h \in DOMAIN groups : groups[h] \in GroupsRow
  BY DEF GroupsIInv, GroupsTyped
<1>4. PICK at \in {"queued", "decide", "done", "failed"}, read \in Nat :
        groupCalls' = [groupCalls EXCEPT ![c] = GroupsMoved(groupCalls[c], at, read)]
  <2>1. CASE LoadGroups!LoadGroup(c)
    <3>1. groups[groupCalls[c].group].version \in Nat
      BY <1>2, <1>3 DEF GroupsRow
    <3> QED BY ZenonT(40), <1>1, <2>1, <3>1 DEF LoadGroups!LoadGroup, GroupsMoved, GroupsCall
  <2>2. ASSUME NEW at \in {"queued", "done", "failed"}, LoadGroups!Goto(c, at)
        PROVE  groupCalls' = [groupCalls EXCEPT ![c] = GroupsMoved(groupCalls[c], at, groupCalls[c].read)]
    BY <1>1, <2>2 DEF LoadGroups!Goto, GroupsMoved, GroupsCall
  <2> QED BY <1>1, <2>1, <2>2 DEF LoadGroups!QueueForLock, LoadGroups!RecordDecision, LoadGroups!HandlerThrows
<1>5. GroupsProceeds(c)
  BY <1>2, <1>4, GroupsMovedOn
<1>6. GroupsNoneActivated
  <2>1. CASE LoadGroups!RecordDecision(c)
    <3>1. ASSUME NEW row \in GroupsRow, NEW n \in Nat
          PROVE  /\ [row EXCEPT !.decided = n].active = row.active
                 /\ [row EXCEPT !.decided = n].activator = row.activator
      BY DEF GroupsRow
    <3> QED BY <1>1, <1>2, <1>3, <2>1, <3>1 DEF LoadGroups!RecordDecision, GroupsNoneActivated
  <2> QED BY <2>1 DEF LoadGroups!QueueForLock, LoadGroups!LoadGroup, LoadGroups!HandlerThrows,
                      GroupsNoneActivated
<1> QED BY <1>5, <1>6, GroupsNothingActivated

\* Every step keeps active groups explained.
LEMMA GroupsActiveStep ==
  ASSUME GroupsIInv, GroupsActiveInv, [LoadGroups!Next]_(LoadGroups!vars)
  PROVE  GroupsActiveInv'
<1>1. CASE UNCHANGED LoadGroups!vars
  BY <1>1 DEF LoadGroups!vars, GroupsActiveInv, GroupsActivatorBegan, GroupsSeenOthers, GroupsUnseen,
              LoadGroups!OneActiveGroup, LoadGroups!Overlap
<1>2. CASE \E c \in Calls :
             \/ LoadGroups!UpdateGroup(c) \/ LoadGroups!ReplaceMemberships(c)
             \/ LoadGroups!IngestTelemetry(c) \/ LoadGroups!CreateOverride(c)
             \/ LoadGroups!ClearOverride(c) \/ LoadGroups!SimulateMeterLoss(c)
  BY <1>2, GroupsBeginKeepsActive DEF LoadGroups!UpdateGroup, LoadGroups!ReplaceMemberships,
     LoadGroups!IngestTelemetry, LoadGroups!CreateOverride, LoadGroups!ClearOverride,
     LoadGroups!SimulateMeterLoss
<1>3. CASE \E c \in Calls :
             \/ LoadGroups!BeginActivation(c) \/ LoadGroups!DisableGroup(c)
             \/ LoadGroups!DeleteGroup(c) \/ LoadGroups!BeginRecalculation(c)
             \/ LoadGroups!RecalculateStation(c)
  BY <1>3, GroupsBeginKeepsActive
<1> QED BY <1>1, <1>2, <1>3, GroupsCreateKeepsActive, GroupsSeeKeepsActive,
           GroupsActivateKeepsActive, GroupsDecideKeepsActive DEF LoadGroups!Next

----------------------------------------------------------------------------
(* The line at a group's lock *)

\* In the line of a group, in a process, stand the calls that are in withLock, each once.
GroupsLine ==
  \A p \in Replicas, g \in Groups :
    /\ \A n \in 1..Len(locks[p][g]) :
         LET d == locks[p][g][n]
         IN  groupCalls[d].at \in LoadGroups!InLock /\ groupCalls[d].replica = p /\ groupCalls[d].group = g
    /\ \A m, n \in 1..Len(locks[p][g]) : locks[p][g][m] = locks[p][g][n] => m = n

\* What has been read, and decided on, are versions that there were.
GroupsVersions ==
  /\ \A g \in DOMAIN groups : groups[g].decided <= groups[g].version
  /\ \A c \in Calls : groupCalls[c].at = "decide" => groupCalls[c].read <= groups[groupCalls[c].group].version

GroupsLineInv == GroupsLine /\ GroupsVersions

\* Nobody waits.
LEMMA GroupsLineInit == LoadGroups!Init => GroupsLineInv
  BY DEF LoadGroups!Init, LoadGroups!NoCall, GroupsLineInv, GroupsLine, GroupsVersions

\* Versions only grow.
GroupsRowsGrow ==
  /\ \A g \in DOMAIN groups : g \in DOMAIN groups' /\ groups[g].version <= groups'[g].version
  /\ \A g \in DOMAIN groups' : groups'[g].version \in Nat /\ groups'[g].decided <= groups'[g].version

\* A write raises the version and leaves the decision behind it.
LEMMA GroupsWritesGrow ==
  ASSUME NEW row \in GroupsRow, NEW c \in Calls, row.decided <= row.version,
         NEW new, new \in {LoadGroups!Written(row, c), LoadGroups!Activated(row, c), LoadGroups!Deactivated(row, c)}
  PROVE  new.version = row.version + 1 /\ new.decided = row.decided /\ new.decided <= new.version
<1>1. row.version \in Nat /\ row.decided \in Nat
  BY DEF GroupsRow
<1>2. new.version = row.version + 1 /\ new.decided = row.decided
  BY DEF LoadGroups!Written, LoadGroups!Activated, LoadGroups!Deactivated, GroupsRow
<1> QED BY <1>1, <1>2

\* Nobody comes into a line or leaves one.
LEMMA GroupsLineStays ==
  ASSUME GroupsIInv, GroupsLineInv, NEW c \in Calls, locks' = locks, GroupsRowsGrow,
         \A d \in Calls \ {c} : groupCalls'[d] = groupCalls[d],
         \/ groupCalls[c].at \notin LoadGroups!InLock
         \/ /\ groupCalls'[c].at \in LoadGroups!InLock
            /\ groupCalls'[c].replica = groupCalls[c].replica /\ groupCalls'[c].group = groupCalls[c].group,
         groupCalls'[c].at = "decide" => groupCalls'[c].read <= groups'[groupCalls'[c].group].version
  PROVE  GroupsLineInv'
<1>1. /\ locks \in [Replicas -> [Groups -> Seq(Calls)]] /\ groupCalls \in [Calls -> GroupsCall]
      /\ \A d \in Calls : groupCalls[d].at # "idle" => groupCalls[d].group \in DOMAIN groups
      /\ groups \in [DOMAIN groups -> GroupsRow]
  BY DEF GroupsIInv, GroupsTyped
<1>2. GroupsLine'
  <2> SUFFICES ASSUME NEW p \in Replicas, NEW g \in Groups
               PROVE  /\ \A n \in 1..Len(locks[p][g]) :
                           LET d == locks[p][g][n]
                           IN  groupCalls'[d].at \in LoadGroups!InLock /\ groupCalls'[d].replica = p /\ groupCalls'[d].group = g
                      /\ \A m, n \in 1..Len(locks[p][g]) : locks[p][g][m] = locks[p][g][n] => m = n
    BY DEF GroupsLine, LoadGroups!InLock
  <2>1. locks[p][g] \in Seq(Calls)
    BY <1>1
  <2>2. ASSUME NEW n \in 1..Len(locks[p][g])
        PROVE  LET d == locks[p][g][n]
               IN  groupCalls'[d].at \in LoadGroups!InLock /\ groupCalls'[d].replica = p /\ groupCalls'[d].group = g
    <3>1. locks[p][g][n] \in Calls
      BY <2>1
    <3>2. LET d == locks[p][g][n]
          IN  groupCalls[d].at \in LoadGroups!InLock /\ groupCalls[d].replica = p /\ groupCalls[d].group = g
      BY DEF GroupsLineInv, GroupsLine
    <3> QED BY <3>1, <3>2
  <2> QED BY <2>2 DEF GroupsLineInv, GroupsLine
<1>3. ASSUME NEW d \in Calls \ {c}, groupCalls[d].at = "decide"
      PROVE  groupCalls[d].read <= groups'[groupCalls[d].group].version
  <2> DEFINE g == groupCalls[d].group
  <2>1. g \in DOMAIN groups /\ groupCalls[d].read \in Nat /\ groups[g].version \in Nat
    BY <1>1, <1>3 DEF GroupsCall, GroupsRow
  <2>2. groupCalls[d].read <= groups[g].version
    BY <1>3 DEF GroupsLineInv, GroupsVersions
  <2>3. groups[g].version <= groups'[g].version /\ groups'[g].version \in Nat
    BY <2>1 DEF GroupsRowsGrow
  <2> HIDE DEF g
  <2>4. groupCalls[d].read <= groups'[g].version
    BY <2>1, <2>2, <2>3
  <2> QED BY <2>4 DEF g
<1>4. GroupsVersions'
  BY <1>3 DEF GroupsVersions, GroupsRowsGrow
<1> QED BY <1>2, <1>4 DEF GroupsLineInv

\* What is written of the groups, by c
LEMMA GroupsWritten ==
  ASSUME GroupsIInv, GroupsLineInv, NEW c \in Calls,
         \A h \in DOMAIN groups :
           /\ h \in DOMAIN groups'
           /\ \/ groups'[h] = groups[h]
              \/ groups'[h] \in {LoadGroups!Written(groups[h], c), LoadGroups!Activated(groups[h], c),
                                 LoadGroups!Deactivated(groups[h], c)},
         \A h \in DOMAIN groups' \ DOMAIN groups : groups'[h].version = 1 /\ groups'[h].decided = 0
  PROVE  GroupsRowsGrow
<1>1. ASSUME NEW h \in DOMAIN groups
      PROVE  /\ groups[h].version <= groups'[h].version /\ groups'[h].version \in Nat
             /\ groups'[h].decided <= groups'[h].version
  <2>1. groups[h] \in GroupsRow /\ groups[h].decided <= groups[h].version
    BY DEF GroupsIInv, GroupsTyped, GroupsLineInv, GroupsVersions
  <2>2. groups[h].version \in Nat /\ groups[h].decided \in Nat
    BY <2>1 DEF GroupsRow
  <2>3. CASE groups'[h] = groups[h]
    BY <2>1, <2>2, <2>3
  <2>4. CASE groups'[h] # groups[h]
    <3>1. groups'[h].version = groups[h].version + 1 /\ groups'[h].decided <= groups'[h].version
      BY <2>1, <2>4, GroupsWritesGrow
    <3> QED BY <2>2, <3>1
  <2> QED BY <2>3, <2>4
<1> QED BY <1>1 DEF GroupsRowsGrow

\* A call begins, and writes at most the group it is about.
LEMMA GroupsBeginInLine ==
  ASSUME GroupsIInv, GroupsLineInv, NEW c \in Calls,
         \/ LoadGroups!CreateGroup(c) \/ LoadGroups!BeginActivation(c) \/ LoadGroups!DisableGroup(c)
         \/ LoadGroups!DeleteGroup(c) \/ LoadGroups!BeginRecalculation(c) \/ LoadGroups!RecalculateStation(c)
         \/ \E at \in {"lock", "done"} : LoadGroups!Configure(c, at)
  PROVE  GroupsLineInv'
<1>1. \E kind, g, at : at \in {"see", "lock", "done"} /\ LoadGroups!Begin(c, kind, g, at)
  <2>1. ASSUME NEW at \in {"lock", "done"}, LoadGroups!Configure(c, at)
        PROVE  \E g : LoadGroups!Begin(c, "configure", g, at)
    BY <2>1 DEF LoadGroups!Configure
  <2>2. LoadGroups!CreateGroup(c) => \E g, at : at \in {"see", "lock", "done"} /\ LoadGroups!Begin(c, "create", g, at)
    BY DEF LoadGroups!CreateGroup
  <2>3. LoadGroups!BeginActivation(c) => \E g : LoadGroups!Begin(c, "activate", g, "see")
    BY DEF LoadGroups!BeginActivation
  <2>4. LoadGroups!DisableGroup(c) => \E g : LoadGroups!Begin(c, "disable", g, "lock")
    BY DEF LoadGroups!DisableGroup
  <2>5. LoadGroups!DeleteGroup(c) => \E g : LoadGroups!Begin(c, "delete", g, "done")
    BY DEF LoadGroups!DeleteGroup
  <2>6. LoadGroups!BeginRecalculation(c) \/ LoadGroups!RecalculateStation(c)
        => \E g : LoadGroups!Begin(c, "recalculate", g, "lock")
    BY DEF LoadGroups!BeginRecalculation, LoadGroups!RecalculateStation
  <2> QED BY <2>1, <2>2, <2>3, <2>4, <2>5, <2>6
<1>2. /\ groupCalls[c].at = "idle" /\ groupCalls'[c].at \in {"see", "lock", "done"} /\ locks' = locks
      /\ \A d \in Calls \ {c} : groupCalls'[d] = groupCalls[d]
  <2>1. PICK kind, g, at : at \in {"see", "lock", "done"} /\ LoadGroups!Begin(c, kind, g, at)
    BY <1>1
  <2> QED BY <2>1 DEF LoadGroups!Begin, LoadGroups!NoCall, GroupsIInv, GroupsTyped
<1>3. groups \in [DOMAIN groups -> GroupsRow]
  BY DEF GroupsIInv, GroupsTyped
<1>4. GroupsRowsGrow
  <2>1. CASE LoadGroups!CreateGroup(c)
    <3>1. PICK new \in Groups \ DOMAIN groups, active \in BOOLEAN :
            groups' = [h \in DOMAIN groups \cup {new} |-> IF h = new THEN LoadGroups!Created(c, active) ELSE groups[h]]
      BY <2>1 DEF LoadGroups!CreateGroup
    <3>2. groups'[new].version = 1 /\ groups'[new].decided = 0
      BY <3>1 DEF LoadGroups!Created
    <3> QED BY <3>1, <3>2, GroupsWritten
  <2>2. CASE LoadGroups!BeginActivation(c) \/ LoadGroups!BeginRecalculation(c) \/ LoadGroups!RecalculateStation(c)
    <3>1. groups' = groups
      BY <2>2 DEF LoadGroups!BeginActivation, LoadGroups!BeginRecalculation, LoadGroups!RecalculateStation
    <3> QED BY <3>1, GroupsWritten
  <2>3. CASE \/ LoadGroups!DisableGroup(c) \/ LoadGroups!DeleteGroup(c)
             \/ \E a \in {"lock", "done"} : LoadGroups!Configure(c, a)
    <3>1. PICK h \in DOMAIN groups :
            groups' \in {[groups EXCEPT ![h] = LoadGroups!Deactivated(groups[h], c)],
                         [groups EXCEPT ![h] = LoadGroups!Written(groups[h], c)]}
      BY <2>3 DEF LoadGroups!DisableGroup, LoadGroups!DeleteGroup, LoadGroups!Configure
    <3>2. /\ DOMAIN groups' = DOMAIN groups /\ \A i \in DOMAIN groups \ {h} : groups'[i] = groups[i]
          /\ groups'[h] \in {LoadGroups!Written(groups[h], c), LoadGroups!Deactivated(groups[h], c)}
      BY <1>3, <3>1
    <3> QED BY <3>2, GroupsWritten
  <2> QED BY <2>1, <2>2, <2>3
<1> QED BY <1>2, <1>4, GroupsLineStays DEF LoadGroups!InLock

\* Reads and activations leave the line as it is.
LEMMA GroupsGoesOnInLine ==
  ASSUME GroupsIInv, GroupsLineInv, NEW c \in Calls,
         LoadGroups!SeeActive(c) \/ LoadGroups!ActivateGroup(c) \/ LoadGroups!LoadGroup(c)
  PROVE  GroupsLineInv'
<1>1. groupCalls[c] \in GroupsCall /\ groups \in [DOMAIN groups -> GroupsRow]
  BY DEF GroupsIInv, GroupsTyped
<1>2. CASE LoadGroups!SeeActive(c)
  <2>1. /\ groups' = groups /\ locks' = locks /\ groupCalls[c].at = "see" /\ groupCalls'[c].at = "commit"
        /\ \A d \in Calls \ {c} : groupCalls'[d] = groupCalls[d]
    BY <1>1, <1>2 DEF LoadGroups!SeeActive, GroupsIInv, GroupsTyped, GroupsCall
  <2>2. GroupsRowsGrow
    BY <2>1, GroupsWritten
  <2> QED BY <2>1, <2>2, GroupsLineStays DEF LoadGroups!InLock
<1>3. CASE LoadGroups!ActivateGroup(c)
  <2>1. /\ locks' = locks /\ groupCalls[c].at = "commit" /\ groupCalls'[c].at = "lock"
        /\ \A d \in Calls \ {c} : groupCalls'[d] = groupCalls[d]
    BY <1>1, <1>3 DEF LoadGroups!ActivateGroup, LoadGroups!Goto, GroupsIInv, GroupsTyped, GroupsCall
  <2>2. /\ DOMAIN groups' = DOMAIN groups
        /\ \A h \in DOMAIN groups :
             \/ groups'[h] = groups[h]
             \/ groups'[h] \in {LoadGroups!Activated(groups[h], c), LoadGroups!Deactivated(groups[h], c)}
    BY <1>3 DEF LoadGroups!ActivateGroup
  <2>3. GroupsRowsGrow
    BY <2>2, GroupsWritten
  <2> QED BY <2>1, <2>3, GroupsLineStays DEF LoadGroups!InLock
<1>4. CASE LoadGroups!LoadGroup(c)
  <2> DEFINE g == groupCalls[c].group
             v == groups[g].version
  <2>1. /\ groups' = groups /\ locks' = locks /\ groupCalls[c].at = "queued"
        /\ groupCalls' = [groupCalls EXCEPT ![c].at = "decide", ![c].read = v]
    BY <1>4 DEF LoadGroups!LoadGroup
  <2>2. g \in DOMAIN groups /\ v \in Nat
    BY <1>1, <2>1 DEF GroupsIInv, GroupsTyped, GroupsRow
  <2>3. /\ \A d \in Calls \ {c} : groupCalls'[d] = groupCalls[d]
        /\ groupCalls'[c].at = "decide" /\ groupCalls'[c].read = v
        /\ groupCalls'[c].replica = groupCalls[c].replica /\ groupCalls'[c].group = groupCalls[c].group
    <3> HIDE DEF v
    <3> QED BY <1>1, <2>1 DEF GroupsIInv, GroupsTyped, GroupsCall
  <2>4. GroupsRowsGrow
    BY <2>1, GroupsWritten
  <2>5. groupCalls'[c].read <= groups'[groupCalls'[c].group].version
    BY <2>1, <2>2, <2>3
  <2> QED BY <2>1, <2>3, <2>4, <2>5, GroupsLineStays DEF LoadGroups!InLock
<1> QED BY <1>2, <1>3, <1>4

\* A call goes to the end of the line.
LEMMA GroupsQueueInLine ==
  ASSUME GroupsIInv, GroupsLineInv, NEW c \in Calls, LoadGroups!QueueForLock(c)
  PROVE  GroupsLineInv'
<1> DEFINE p == groupCalls[c].replica
           g == groupCalls[c].group
<1>1. /\ p \in Replicas /\ g \in Groups /\ groupCalls[c].at = "lock" /\ groups' = groups
      /\ locks \in [Replicas -> [Groups -> Seq(Calls)]]
  BY DEF LoadGroups!QueueForLock, GroupsTyped, GroupsIInv
<1>2. /\ \A d \in Calls \ {c} : groupCalls'[d] = groupCalls[d]
      /\ groupCalls'[c].at = "queued" /\ groupCalls'[c].group = g /\ groupCalls'[c].replica = p
  BY DEF LoadGroups!QueueForLock, LoadGroups!Goto, GroupsTyped, GroupsCall, GroupsIInv
<1>3. /\ locks'[p][g] = Append(locks[p][g], c)
      /\ \A r \in Replicas, h \in Groups : r # p \/ h # g => locks'[r][h] = locks[r][h]
  BY <1>1 DEF LoadGroups!QueueForLock
<1> HIDE DEF p, g
<1>4. ASSUME NEW r \in Replicas, NEW h \in Groups
      PROVE  /\ locks[r][h] \in Seq(Calls)
             /\ \A n \in 1..Len(locks[r][h]) :
                  /\ locks[r][h][n] \in Calls \ {c}
                  /\ LET d == locks[r][h][n]
                     IN  groupCalls'[d].at \in LoadGroups!InLock /\ groupCalls'[d].replica = r /\ groupCalls'[d].group = h
             /\ \A m, n \in 1..Len(locks[r][h]) : locks[r][h][m] = locks[r][h][n] => m = n
  <2>1. locks[r][h] \in Seq(Calls)
    BY <1>1
  <2>2. ASSUME NEW n \in 1..Len(locks[r][h])
        PROVE  /\ locks[r][h][n] \in Calls \ {c}
               /\ LET d == locks[r][h][n]
                  IN  groupCalls'[d].at \in LoadGroups!InLock /\ groupCalls'[d].replica = r /\ groupCalls'[d].group = h
    <3>1. locks[r][h][n] \in Calls
      BY <2>1
    <3>2. LET d == locks[r][h][n]
          IN  groupCalls[d].at \in LoadGroups!InLock /\ groupCalls[d].replica = r /\ groupCalls[d].group = h
      BY DEF GroupsLineInv, GroupsLine
    <3>3. locks[r][h][n] # c
      BY <1>1, <3>2 DEF LoadGroups!InLock
    <3> QED BY <1>2, <3>1, <3>2, <3>3
  <2> QED BY <2>1, <2>2 DEF GroupsLineInv, GroupsLine
<1>5. GroupsLine'
  <2> SUFFICES ASSUME NEW r \in Replicas, NEW h \in Groups
               PROVE  /\ \A n \in 1..Len(locks'[r][h]) :
                           LET d == locks'[r][h][n]
                           IN  groupCalls'[d].at \in LoadGroups!InLock /\ groupCalls'[d].replica = r /\ groupCalls'[d].group = h
                      /\ \A m, n \in 1..Len(locks'[r][h]) : locks'[r][h][m] = locks'[r][h][n] => m = n
    BY DEF GroupsLine, LoadGroups!InLock
  <2>1. CASE r # p \/ h # g
    BY <1>3, <1>4, <2>1
  <2>2. CASE r = p /\ h = g
    <3> DEFINE q == locks[r][h]
               after == locks'[r][h]
    <3>1. q \in Seq(Calls) /\ after = Append(q, c)
      BY <1>3, <1>4, <2>2
    <3>2. /\ \A n \in 1..Len(q) :
               /\ q[n] \in Calls \ {c}
               /\ groupCalls'[q[n]].at \in LoadGroups!InLock /\ groupCalls'[q[n]].replica = r /\ groupCalls'[q[n]].group = h
          /\ \A m, n \in 1..Len(q) : q[m] = q[n] => m = n
      BY <1>4
    <3>3. groupCalls'[c].at \in LoadGroups!InLock /\ groupCalls'[c].replica = r /\ groupCalls'[c].group = h
      BY <1>2, <2>2 DEF LoadGroups!InLock
    <3> HIDE DEF q, after
    <3>4. /\ Len(after) = Len(q) + 1 /\ Len(q) \in Nat /\ after[Len(q) + 1] = c
          /\ \A n \in 1..Len(q) : after[n] = q[n]
      BY <3>1
    <3>5. /\ \A n \in 1..Len(after) :
               groupCalls'[after[n]].at \in LoadGroups!InLock /\ groupCalls'[after[n]].replica = r /\ groupCalls'[after[n]].group = h
          /\ \A m, n \in 1..Len(after) : after[m] = after[n] => m = n
      <4>1. \A n \in 1..Len(after) : n \in 1..Len(q) \/ n = Len(q) + 1
        BY <3>4
      <4> QED BY <3>2, <3>3, <3>4, <4>1
    <3> QED BY <3>5 DEF after
  <2> QED BY <2>1, <2>2
<1>6. GroupsVersions'
  BY <1>1, <1>2 DEF GroupsLineInv, GroupsVersions
<1> QED BY <1>5, <1>6 DEF GroupsLineInv

\* The first leaves, and the next is on.
LEMMA GroupsLeaveLine ==
  ASSUME GroupsIInv, GroupsLineInv, NEW c \in Calls, LoadGroups!RecordDecision(c) \/ LoadGroups!HandlerThrows(c)
  PROVE  GroupsLineInv'
<1> DEFINE p == groupCalls[c].replica
           g == groupCalls[c].group
           v == groupCalls[c].read
<1>1. /\ groupCalls[c].at = "decide" /\ p \in Replicas /\ g \in DOMAIN groups /\ g \in Groups /\ groupCalls[c] \in GroupsCall
      /\ locks \in [Replicas -> [Groups -> Seq(Calls)]] /\ groups \in [DOMAIN groups -> GroupsRow]
      /\ v \in Nat
  BY DEF LoadGroups!RecordDecision, LoadGroups!HandlerThrows, GroupsTyped, GroupsIInv, GroupsCall
<1>2. locks[p][g] # << >> /\ Head(locks[p][g]) = c /\ v <= groups[g].version
  BY <1>1 DEF GroupsIInv, GroupsLockHeld, LoadGroups!Queue, GroupsLineInv, GroupsVersions
<1>3. /\ \A d \in Calls \ {c} : groupCalls'[d] = groupCalls[d]
      /\ groupCalls'[c].at \in {"done", "failed"}
  BY <1>1 DEF LoadGroups!RecordDecision, LoadGroups!HandlerThrows, LoadGroups!Goto, GroupsTyped, GroupsCall, GroupsIInv
<1>4. /\ locks'[p][g] = Tail(locks[p][g])
      /\ \A r \in Replicas, h \in Groups : r # p \/ h # g => locks'[r][h] = locks[r][h]
  BY <1>1 DEF LoadGroups!RecordDecision, LoadGroups!HandlerThrows, LoadGroups!LeaveLock
<1>5. \/ groups' = groups
      \/ groups' = [groups EXCEPT ![g].decided = v]
  BY DEF LoadGroups!RecordDecision, LoadGroups!HandlerThrows
<1> HIDE DEF p, g, v
<1>6. /\ DOMAIN groups' = DOMAIN groups
      /\ \A h \in DOMAIN groups : groups'[h].version = groups[h].version
      /\ \A h \in DOMAIN groups : groups'[h].decided = groups[h].decided \/ (h = g /\ groups'[h].decided = v)
  BY ZenonT(40), <1>1, <1>5 DEF GroupsRow
<1>7. GroupsVersions'
  <2>1. \A h \in DOMAIN groups : groups[h].decided <= groups[h].version
    BY DEF GroupsLineInv, GroupsVersions
  <2>2. ASSUME NEW d \in Calls, groupCalls'[d].at = "decide"
        PROVE  groupCalls'[d].read <= groups'[groupCalls'[d].group].version
    <3>1. d # c /\ groupCalls'[d] = groupCalls[d]
      BY <1>3, <2>2
    <3>2. groupCalls[d].group \in DOMAIN groups
      BY <2>2, <3>1 DEF GroupsIInv, GroupsTyped
    <3>3. groupCalls[d].read <= groups[groupCalls[d].group].version
      BY <2>2, <3>1 DEF GroupsLineInv, GroupsVersions
    <3> QED BY <1>6, <3>1, <3>2, <3>3
  <2> QED BY <1>2, <1>6, <2>1, <2>2 DEF GroupsVersions
<1>8. ASSUME NEW r \in Replicas, NEW h \in Groups, NEW n \in 1..Len(locks[r][h]), locks[r][h][n] # c
      PROVE  LET d == locks[r][h][n]
             IN  groupCalls'[d].at \in LoadGroups!InLock /\ groupCalls'[d].replica = r /\ groupCalls'[d].group = h
  <2>1. locks[r][h][n] \in Calls
    BY <1>1, <1>8
  <2>2. LET d == locks[r][h][n]
        IN  groupCalls[d].at \in LoadGroups!InLock /\ groupCalls[d].replica = r /\ groupCalls[d].group = h
    BY DEF GroupsLineInv, GroupsLine
  <2> QED BY <1>3, <1>8, <2>1, <2>2
<1>9. ASSUME NEW r \in Replicas, NEW h \in Groups
      PROVE  \A m, n \in 1..Len(locks[r][h]) : locks[r][h][m] = locks[r][h][n] => m = n
  BY DEF GroupsLineInv, GroupsLine
<1>10. GroupsLine'
  <2> SUFFICES ASSUME NEW r \in Replicas, NEW h \in Groups
               PROVE  /\ \A n \in 1..Len(locks'[r][h]) :
                           LET d == locks'[r][h][n]
                           IN  groupCalls'[d].at \in LoadGroups!InLock /\ groupCalls'[d].replica = r /\ groupCalls'[d].group = h
                      /\ \A m, n \in 1..Len(locks'[r][h]) : locks'[r][h][m] = locks'[r][h][n] => m = n
    BY DEF GroupsLine, LoadGroups!InLock
  <2>1. CASE r # p \/ h # g
    <3>1. \A n \in 1..Len(locks[r][h]) : locks[r][h][n] # c
      <4>1. \A n \in 1..Len(locks[r][h]) :
              LET d == locks[r][h][n] IN groupCalls[d].replica = r /\ groupCalls[d].group = h
        BY DEF GroupsLineInv, GroupsLine
      <4> QED BY <2>1, <4>1 DEF p, g
    <3> QED BY <1>4, <1>8, <1>9, <2>1, <3>1
  <2>2. CASE r = p /\ h = g
    <3> DEFINE q == locks[r][h]
               after == locks'[r][h]
    <3>1. q \in Seq(Calls) /\ q # << >> /\ Head(q) = c /\ after = Tail(q)
      BY <1>1, <1>2, <1>4, <2>2
    <3>2. /\ \A n \in 1..Len(q) : q[n] # c =>
               groupCalls'[q[n]].at \in LoadGroups!InLock /\ groupCalls'[q[n]].replica = r /\ groupCalls'[q[n]].group = h
          /\ \A m, n \in 1..Len(q) : q[m] = q[n] => m = n
      BY <1>8, <1>9
    <3> HIDE DEF q, after
    <3>3. /\ Len(q) \in Nat /\ Len(q) # 0 /\ q[1] = c /\ Len(after) = Len(q) - 1
          /\ \A n \in 1..Len(after) : after[n] = q[n + 1] /\ n + 1 \in 1..Len(q)
      BY <3>1
    <3>4. \A n \in 1..Len(after) : after[n] # c
      BY <3>2, <3>3
    <3>5. /\ \A n \in 1..Len(after) :
               groupCalls'[after[n]].at \in LoadGroups!InLock /\ groupCalls'[after[n]].replica = r /\ groupCalls'[after[n]].group = h
          /\ \A m, n \in 1..Len(after) : after[m] = after[n] => m = n
      BY <3>2, <3>3, <3>4
    <3> QED BY <3>5 DEF after
  <2> QED BY <2>1, <2>2
<1> QED BY <1>7, <1>10 DEF GroupsLineInv

\* Every step keeps the lines in order.
LEMMA GroupsLineStep ==
  ASSUME GroupsIInv, GroupsLineInv, [LoadGroups!Next]_(LoadGroups!vars)
  PROVE  GroupsLineInv'
<1>1. CASE UNCHANGED LoadGroups!vars
  BY <1>1 DEF LoadGroups!vars, GroupsLineInv, GroupsLine, GroupsVersions, LoadGroups!InLock
<1>2. CASE \E c \in Calls :
             \/ LoadGroups!UpdateGroup(c) \/ LoadGroups!ReplaceMemberships(c)
             \/ LoadGroups!IngestTelemetry(c) \/ LoadGroups!CreateOverride(c)
             \/ LoadGroups!ClearOverride(c) \/ LoadGroups!SimulateMeterLoss(c)
  BY <1>2, GroupsBeginInLine DEF LoadGroups!UpdateGroup, LoadGroups!ReplaceMemberships,
     LoadGroups!IngestTelemetry, LoadGroups!CreateOverride, LoadGroups!ClearOverride,
     LoadGroups!SimulateMeterLoss
<1>3. CASE \E c \in Calls :
             \/ LoadGroups!CreateGroup(c) \/ LoadGroups!BeginActivation(c) \/ LoadGroups!DisableGroup(c)
             \/ LoadGroups!DeleteGroup(c) \/ LoadGroups!BeginRecalculation(c) \/ LoadGroups!RecalculateStation(c)
  BY <1>3, GroupsBeginInLine
<1> QED BY <1>1, <1>2, <1>3, GroupsGoesOnInLine, GroupsQueueInLine, GroupsLeaveLine DEF LoadGroups!Next

----------------------------------------------------------------------------
(* What follows *)

GroupsInv == GroupsIInv /\ GroupsActiveInv /\ GroupsLineInv

\* The invariant of the load groups holds at first ...
LEMMA GroupsInit == LoadGroups!Init => GroupsInv
  BY GroupsIInvInit, GroupsActiveInit, GroupsLineInit DEF GroupsInv

\* ... and every step of the load groups preserves it.
LEMMA GroupsStep == ASSUME GroupsInv, [LoadGroups!Next]_(LoadGroups!vars) PROVE GroupsInv'
  BY GroupsIInvStep, GroupsActiveStep, GroupsLineStep DEF GroupsInv

\* What the invariant of the load groups says of them.
LEMMA GroupsProperties ==
  ASSUME GroupsInv
  PROVE  LoadGroups!TypeOK /\ LoadGroups!OneActiveGroup /\ LoadGroups!DecisionIsCurrent
<1>1. LoadGroups!OneActiveGroup
  BY DEF GroupsInv, GroupsActiveInv
<1>2. LoadGroups!DecisionIsCurrent
  BY DEF GroupsInv, GroupsIInv, GroupsReadBack, GroupsReread, GroupsAgreed, LoadGroups!DecisionIsCurrent
<1>3. /\ DOMAIN groups \subseteq Groups /\ groups \in [DOMAIN groups -> GroupsRow]
      /\ locks \in [Replicas -> [Groups -> Seq(Calls)]] /\ groupCalls \in [Calls -> GroupsCall]
      /\ \A c \in Calls : groupCalls[c].at # "idle" =>
           groupCalls[c].group \in DOMAIN groups /\ groupCalls[c].replica \in Replicas
  BY DEF GroupsInv, GroupsIInv, GroupsTyped
<1>4. ASSUME NEW g \in DOMAIN groups
      PROVE  /\ groups[g].active \in BOOLEAN /\ groups[g].decided \in 0..groups[g].version
             /\ groups[g].writer \in Calls /\ groups[g].activator \in Calls \cup {LoadGroups!NoOne}
  <2>1. groups[g] \in GroupsRow /\ groups[g].decided <= groups[g].version
    BY <1>3 DEF GroupsInv, GroupsLineInv, GroupsVersions
  <2> QED BY <2>1 DEF GroupsRow
<1>5. ASSUME NEW p \in Replicas, NEW g \in Groups
      PROVE  locks[p][g] \in Seq({c \in Calls : groupCalls[c].replica = p /\ groupCalls[c].group = g})
  <2> DEFINE q == locks[p][g]
             S == {c \in Calls : groupCalls[c].replica = p /\ groupCalls[c].group = g}
  <2>1. q \in Seq(Calls)
    BY <1>3
  <2>2. \A n \in 1..Len(q) : groupCalls[q[n]].replica = p /\ groupCalls[q[n]].group = g
    BY DEF GroupsInv, GroupsLineInv, GroupsLine
  <2>3. \A n \in 1..Len(q) : q[n] \in S
    BY <2>1, <2>2
  <2> HIDE DEF q, S
  <2>4. q \in Seq(S)
    BY <2>1, <2>3
  <2> QED BY <2>4 DEF q, S
<1>6. ASSUME NEW c \in Calls
      PROVE  LET q == locks[groupCalls[c].replica][groupCalls[c].group]
             IN  /\ groupCalls[c].at \in LoadGroups!InLock =>
                      /\ \E n \in DOMAIN q : q[n] = c /\ \A m \in DOMAIN q \ {n} : q[m] # c
                      /\ groupCalls[c].at = "decide" => c = Head(q)
                 /\ groupCalls[c].at \in {"see", "commit", "lock"} \/ LoadGroups!Over(c) =>
                      \A n \in DOMAIN q : q[n] # c
  <2>1. CASE groupCalls[c].at = "idle"
    BY <2>1 DEF LoadGroups!InLock, LoadGroups!Over
  <2>2. CASE groupCalls[c].at # "idle"
    <3> DEFINE p == groupCalls[c].replica
               g == groupCalls[c].group
               q == locks[p][g]
    <3>1. p \in Replicas /\ g \in Groups /\ q \in Seq(Calls)
      BY <1>3, <2>2
    <3>2. /\ \A n \in 1..Len(q) : groupCalls[q[n]].at \in LoadGroups!InLock
          /\ \A m, n \in 1..Len(q) : q[m] = q[n] => m = n
      BY <3>1 DEF GroupsInv, GroupsLineInv, GroupsLine
    <3>3. /\ groupCalls[c].at = "queued" => \E n \in 1..Len(q) : q[n] = c
          /\ groupCalls[c].at = "decide" => q # << >> /\ Head(q) = c
      BY DEF GroupsInv, GroupsIInv, GroupsLockHeld, GroupsWaits, LoadGroups!Queue
    <3> HIDE DEF q
    <3>4. DOMAIN q = 1..Len(q) /\ (q # << >> => 1 \in 1..Len(q) /\ Head(q) = q[1])
      BY <3>1
    <3>5. groupCalls[c].at \in LoadGroups!InLock => \E n \in 1..Len(q) : q[n] = c
      BY <3>3, <3>4 DEF LoadGroups!InLock
    <3>6. groupCalls[c].at \in LoadGroups!InLock =>
            \E n \in DOMAIN q : q[n] = c /\ \A m \in DOMAIN q \ {n} : q[m] # c
      BY <3>2, <3>4, <3>5
    <3>7. groupCalls[c].at \in LoadGroups!InLock /\ groupCalls[c].at = "decide" => c = Head(q)
      BY <3>3
    <3>8. groupCalls[c].at \in {"see", "commit", "lock"} \/ LoadGroups!Over(c) => \A n \in DOMAIN q : q[n] # c
      BY <3>2, <3>4 DEF LoadGroups!InLock, LoadGroups!Over
    <3> QED BY <3>6, <3>7, <3>8 DEF q
  <2> QED BY <2>1, <2>2
<1>7. LoadGroups!TypeOK
  BY <1>3, <1>4, <1>5, <1>6 DEF LoadGroups!TypeOK
<1> QED BY <1>1, <1>2, <1>7

----------------------------------------------------------------------------
(* The plans and schedules of a station                                    *)

PlanStates == {"DRAFT", "READY_FOR_APPROVAL", "SCHEDULED", "APPROVED", "FALLBACK_DLM"}
ScheduleRow == [plan : Calls \cup {Planning!NoOne}, scope : PlanScopes \cup {Planning!Station},
                status : {"PENDING_APPROVAL", "ACTIVE", "SUPERSEDED", "FALLBACK_DLM"},
                fallback : BOOLEAN, activator : Calls \cup {Planning!NoOne}]
PlanningCall == [at : {"idle", "create", "plan", "approvePlan", "see", "commit", "done"},
                 kind : {"none", "plan", "approvePlan", "schedule", "approve"},
                 row : Calls \cup Earlier \cup {Planning!NoOne}, fallback : BOOLEAN,
                 seen : SUBSET (Calls \cup Earlier), after : SUBSET Calls]

\* Who has activated a schedule that is active, or is about to supersede the others.
PlansTyped ==
  /\ DOMAIN plans \subseteq Calls /\ plans \in [DOMAIN plans -> PlanStates]
  /\ DOMAIN schedules \subseteq Calls \cup Earlier
  /\ schedules \in [DOMAIN schedules -> ScheduleRow]
  /\ \A s \in DOMAIN schedules :
       /\ schedules[s].plan \in DOMAIN plans \cup {Planning!NoOne}
       /\ schedules[s].status = "ACTIVE" =>
            schedules[s].activator \in Calls /\ planning[schedules[s].activator].at # "idle"
  /\ planning \in [Calls -> PlanningCall]

\* What a call is about to write
PlanningFits(c) ==
  /\ planning[c].at = "create" => planning[c].row \in DOMAIN plans \cup {Planning!NoOne}
  /\ planning[c].at \in {"see", "commit"} => planning[c].row \in DOMAIN schedules
  /\ planning[c].at = "commit" => planning[c].row \notin planning[c].seen
  /\ c \in DOMAIN schedules => planning[c].at \in {"plan", "done"}

PlansAfterDone == \A c \in Calls : \A d \in planning[c].after : planning[d].at = "done"

\* What an approval has to supersede and has not seen was activated by a call that overlaps.
UnseenBy(c) ==
  planning[c].at = "commit" /\ ~ planning[c].fallback =>
    \A x \in DOMAIN schedules :
      Planning!Supersedes(planning[c].row, x) /\ x \notin planning[c].seen =>
        schedules[x].activator \notin planning[c].after

PlansInv ==
  /\ PlansTyped /\ PlansAfterDone
  /\ \A c \in Calls : PlanningFits(c) /\ UnseenBy(c)
  /\ Planning!OneActiveSchedule

\* One stored schedule is active at most, and nobody has begun.
LEMMA PlansInit == Planning!Init => PlansInv
<1> SUFFICES ASSUME Planning!Init PROVE PlansInv
  OBVIOUS
<1>1. PICK scope \in [Earlier -> PlanScopes \cup {Planning!Station}] :
        schedules = [s \in Earlier |->
          [plan |-> Planning!NoOne, scope |-> scope[s], status |-> "PENDING_APPROVAL", fallback |-> FALSE,
           activator |-> Planning!NoOne]]
  BY DEF Planning!Init
<1>2. planning = [c \in Calls |-> Planning!NoPlanning] /\ DOMAIN plans = {} /\ plans \in [DOMAIN plans -> PlanStates]
  BY DEF Planning!Init
<1>3. /\ Planning!NoPlanning \in PlanningCall /\ Planning!NoPlanning.at = "idle"
      /\ Planning!NoPlanning.after = {}
  BY DEF Planning!NoPlanning, PlanningCall
<1>4. /\ DOMAIN schedules = Earlier /\ schedules \in [Earlier -> ScheduleRow]
      /\ \A s \in Earlier : schedules[s].plan = Planning!NoOne /\ schedules[s].status = "PENDING_APPROVAL"
  BY <1>1 DEF ScheduleRow
<1>5. \A c \in Calls : c \notin DOMAIN schedules
  BY <1>4, RecordsAssumption DEF Planning!PlansAssumption
<1>6. PlansTyped /\ PlansAfterDone
  BY <1>2, <1>3, <1>4 DEF PlansTyped, PlansAfterDone
<1>7. \A c \in Calls : PlanningFits(c) /\ UnseenBy(c)
  BY <1>2, <1>3, <1>5 DEF PlanningFits, UnseenBy
<1>8. Planning!OneActiveSchedule
  BY <1>4 DEF Planning!OneActiveSchedule
<1> QED BY <1>6, <1>7, <1>8 DEF PlansInv

\* The call c begins, or goes on with what it began with.
PlanProceeds(c) ==
  /\ planning' \in [Calls -> PlanningCall] /\ \A d \in Calls \ {c} : planning'[d] = planning[d]
  /\ planning[c].at # "done" /\ planning'[c].at # "idle"
  /\ \/ planning[c].at = "idle" /\ planning'[c].after = {d \in Calls : planning[d].at = "done"}
     \/ planning[c].at # "idle" /\ planning'[c].after = planning[c].after

\* A call that goes on leaves what was over over, and in its order.
LEMMA PlansOrder ==
  ASSUME PlansInv, NEW c \in Calls, PlanProceeds(c)
  PROVE  /\ PlansAfterDone'
         /\ \A d \in Calls : c \notin planning[d].after /\ c \notin planning'[d].after
         /\ \A d \in Calls : planning[d].at # "idle" =>
              planning'[d].at # "idle" /\ planning'[d].after = planning[d].after
<1>1. \A d \in Calls : c \notin planning[d].after /\ c \notin planning'[d].after
  BY DEF PlansInv, PlansAfterDone, PlanProceeds
<1>2. \A d \in Calls : planning[d].at = "done" => planning'[d] = planning[d]
  BY DEF PlanProceeds
<1>3. PlansAfterDone'
  BY <1>2 DEF PlansInv, PlansAfterDone, PlanProceeds, PlansTyped, PlanningCall
<1>4. \A d \in Calls : planning[d].at # "idle" =>
        planning'[d].at # "idle" /\ planning'[d].after = planning[d].after
  BY DEF PlanProceeds
<1> QED BY <1>1, <1>3, <1>4

\* s is active as before
StaysActive(s) ==
  /\ s \in DOMAIN schedules /\ schedules[s].status = "ACTIVE"
  /\ schedules'[s].activator = schedules[s].activator

\* s and x may both be active
BothActive(s, x) ==
  \/ Planning!Activated(s) = s \/ Planning!Activated(x) = x
  \/ Planning!Overlap(Planning!Activated(s), Planning!Activated(x))
  \/ /\ schedules[s].scope # schedules[x].scope
     /\ Planning!Activated(s) \in planning[Planning!Activated(x)].after

\* A step that activates nothing but its own schedule, after superseding what it saw.
LEMMA PlansWritten ==
  ASSUME PlansInv, NEW c \in Calls, PlanProceeds(c),
         DOMAIN plans \subseteq DOMAIN plans', DOMAIN plans' \subseteq Calls,
         plans' \in [DOMAIN plans' -> PlanStates],
         DOMAIN schedules \subseteq DOMAIN schedules', DOMAIN schedules' \subseteq DOMAIN schedules \cup {c},
         schedules' \in [DOMAIN schedules' -> ScheduleRow],
         \A s \in DOMAIN schedules' : schedules'[s].plan \in DOMAIN plans' \cup {Planning!NoOne},
         \A s \in DOMAIN schedules : schedules'[s].scope = schedules[s].scope,
         \A s \in DOMAIN schedules' :
           schedules'[s].status = "ACTIVE" => StaysActive(s) \/ schedules'[s].activator = c,
         PlanningFits(c)', UnseenBy(c)',
         \A s, x \in DOMAIN schedules' :
           /\ s # x /\ schedules'[s].status = "ACTIVE" /\ schedules'[x].status = "ACTIVE"
           /\ schedules'[s].scope \in {schedules'[x].scope, Planning!Station}
           /\ ~ (StaysActive(s) /\ StaysActive(x))
           => BothActive(s, x)'
  PROVE  PlansInv'
<1>1. PlansTyped'
  <2>1. DOMAIN schedules' \subseteq Calls \cup Earlier
    BY DEF PlansInv, PlansTyped
  <2>2. \A s \in DOMAIN schedules' : schedules'[s].status = "ACTIVE" =>
            schedules'[s].activator \in Calls /\ planning'[schedules'[s].activator].at # "idle"
    BY PlansOrder DEF PlansInv, PlansTyped, StaysActive, PlanProceeds
  <2> QED BY <2>1, <2>2 DEF PlansTyped, PlanProceeds
<1>2. \A d \in Calls : PlanningFits(d)'
  <2> SUFFICES ASSUME NEW d \in Calls \ {c} PROVE PlanningFits(d)'
    OBVIOUS
  <2>1. planning'[d] = planning[d]
    BY DEF PlanProceeds
  <2> QED BY <2>1 DEF PlansInv, PlanningFits
<1>3. \A d \in Calls : UnseenBy(d)'
  <2> SUFFICES ASSUME NEW d \in Calls \ {c}, planning'[d].at = "commit", ~ planning'[d].fallback,
                      NEW x \in DOMAIN schedules', x # planning'[d].row, schedules'[x].status = "ACTIVE",
                      schedules'[planning'[d].row].scope \in {schedules'[x].scope, Planning!Station},
                      x \notin planning'[d].seen
               PROVE  schedules'[x].activator \notin planning'[d].after
    BY DEF UnseenBy, Planning!Supersedes
  <2>1. planning'[d] = planning[d]
    BY DEF PlanProceeds
  <2>2. CASE schedules'[x].activator = c
    BY <2>2, PlansOrder
  <2>3. CASE StaysActive(x)
    <3>1. planning[d].row \in DOMAIN schedules
      BY <2>1 DEF PlansInv, PlanningFits
    <3>2. schedules[planning[d].row].scope \in {schedules[x].scope, Planning!Station}
      BY <2>1, <2>3, <3>1 DEF StaysActive
    <3> QED BY <2>1, <2>3, <3>2 DEF PlansInv, UnseenBy, Planning!Supersedes, StaysActive
  <2> QED BY <2>2, <2>3
<1>4. Planning!OneActiveSchedule'
  <2> SUFFICES ASSUME NEW s \in DOMAIN schedules', NEW x \in DOMAIN schedules', s # x,
                      schedules'[s].status = "ACTIVE", schedules'[x].status = "ACTIVE",
                      schedules'[s].scope \in {schedules'[x].scope, Planning!Station}
               PROVE  BothActive(s, x)'
    BY DEF Planning!OneActiveSchedule, BothActive
  <2>1. CASE StaysActive(s) /\ StaysActive(x)
    <3>1. /\ s \in DOMAIN schedules /\ x \in DOMAIN schedules
          /\ schedules[s].status = "ACTIVE" /\ schedules[x].status = "ACTIVE"
          /\ schedules'[s].activator = schedules[s].activator /\ schedules'[x].activator = schedules[x].activator
          /\ schedules'[s].scope = schedules[s].scope /\ schedules'[x].scope = schedules[x].scope
      BY <2>1 DEF StaysActive
    <3>2. BothActive(s, x)
      BY <3>1 DEF PlansInv, Planning!OneActiveSchedule, BothActive
    <3>3. /\ planning'[schedules[s].activator].after = planning[schedules[s].activator].after
          /\ planning'[schedules[x].activator].after = planning[schedules[x].activator].after
      BY <3>1, PlansOrder DEF PlansInv, PlansTyped
    <3> QED BY <3>1, <3>2, <3>3 DEF BothActive, Planning!Activated, Planning!Overlap
  <2>2. CASE ~ (StaysActive(s) /\ StaysActive(x))
    BY <2>2
  <2> QED BY <2>1, <2>2
<1> QED BY <1>1, <1>2, <1>3, <1>4, PlansOrder DEF PlansInv

\* The schedules stay as they are.
LEMMA PlansRead ==
  ASSUME PlansInv, NEW c \in Calls, PlanProceeds(c), schedules' = schedules,
         DOMAIN plans \subseteq DOMAIN plans', DOMAIN plans' \subseteq Calls,
         plans' \in [DOMAIN plans' -> PlanStates], PlanningFits(c)', UnseenBy(c)'
  PROVE  PlansInv'
<1>1. schedules \in [DOMAIN schedules -> ScheduleRow]
  BY DEF PlansInv, PlansTyped
<1>2. \A s \in DOMAIN schedules : schedules[s].status = "ACTIVE" => StaysActive(s)
  BY DEF StaysActive
<1>3. \A s \in DOMAIN schedules : schedules[s].plan \in DOMAIN plans' \cup {Planning!NoOne}
  BY DEF PlansInv, PlansTyped
<1> QED BY <1>1, <1>2, <1>3, PlansWritten

\* What a call is when it begins.
LEMMA PlansBegun ==
  ASSUME PlansInv, NEW c \in Calls, NEW kind \in {"plan", "approvePlan", "schedule", "approve"},
         NEW at \in {"create", "approvePlan", "see", "commit", "done"},
         NEW row \in Calls \cup Earlier \cup {Planning!NoOne}, NEW fallback \in BOOLEAN,
         Planning!Begin(c, kind, at, row, fallback)
  PROVE  /\ PlanProceeds(c) /\ planning[c].at = "idle" /\ c \notin DOMAIN schedules
         /\ planning'[c].at = at /\ planning'[c].row = row /\ planning'[c].seen = {}
         /\ planning'[c].fallback = fallback
         /\ planning'[c].after = {d \in Calls : planning[d].at = "done"}
<1> DEFINE call == [at |-> at, kind |-> kind, row |-> row, fallback |-> fallback, seen |-> {},
                    after |-> {d \in Calls : planning[d].at = "done"}]
<1>1. /\ call \in PlanningCall /\ call.at = at /\ call.row = row /\ call.seen = {}
      /\ call.fallback = fallback /\ call.after = {d \in Calls : planning[d].at = "done"}
  BY DEF PlanningCall
<1>2. planning[c].at = "idle" /\ planning' = [planning EXCEPT ![c] = call]
  BY DEF Planning!Begin
<1> HIDE DEF call
<1>3. planning \in [Calls -> PlanningCall]
  BY DEF PlansInv, PlansTyped
<1>4. /\ planning'[c] = call /\ planning' \in [Calls -> PlanningCall]
      /\ \A d \in Calls \ {c} : planning'[d] = planning[d]
  BY <1>1, <1>2, <1>3
<1>5. c \notin DOMAIN schedules
  BY <1>2 DEF PlansInv, PlanningFits
<1>6. PlanProceeds(c)
  BY <1>1, <1>2, <1>4 DEF PlanProceeds
<1> QED BY <1>1, <1>2, <1>4, <1>5, <1>6

\* A call goes on, perhaps with what it has seen.
LEMMA PlansGoOn ==
  ASSUME PlansInv, NEW c \in Calls, planning[c].at \notin {"idle", "done"},
         NEW at \in {"plan", "commit", "done"}, NEW seen \in SUBSET (Calls \cup Earlier),
         planning' = [planning EXCEPT ![c] = [planning[c] EXCEPT !.at = at, !.seen = seen]]
  PROVE  /\ PlanProceeds(c) /\ planning'[c].at = at /\ planning'[c].seen = seen
         /\ planning'[c].row = planning[c].row /\ planning'[c].fallback = planning[c].fallback
         /\ planning'[c].after = planning[c].after
<1>1. ASSUME NEW call \in PlanningCall
      PROVE  LET new == [call EXCEPT !.at = at, !.seen = seen]
             IN  /\ new \in PlanningCall /\ new.at = at /\ new.seen = seen /\ new.row = call.row
                 /\ new.fallback = call.fallback /\ new.after = call.after
  BY DEF PlanningCall
<1>2. planning \in [Calls -> PlanningCall] /\ planning[c] \in PlanningCall
  BY DEF PlansInv, PlansTyped
<1>3. /\ planning'[c] = [planning[c] EXCEPT !.at = at, !.seen = seen]
      /\ planning' \in [Calls -> PlanningCall]
      /\ \A d \in Calls \ {c} : planning'[d] = planning[d]
  BY <1>1, <1>2
<1>4. /\ planning'[c].at = at /\ planning'[c].seen = seen /\ planning'[c].row = planning[c].row
      /\ planning'[c].fallback = planning[c].fallback /\ planning'[c].after = planning[c].after
  BY <1>1, <1>2, <1>3
<1>5. PlanProceeds(c)
  BY <1>3, <1>4 DEF PlanProceeds
<1> QED BY <1>4, <1>5

\* What a call is when it goes on.
LEMMA PlansGoto ==
  ASSUME PlansInv, NEW c \in Calls, planning[c].at \notin {"idle", "done"},
         NEW at \in {"plan", "commit", "done"}, Planning!Goto(c, at)
  PROVE  /\ PlanProceeds(c) /\ planning'[c].at = at
         /\ planning'[c].row = planning[c].row /\ planning'[c].fallback = planning[c].fallback
         /\ planning'[c].after = planning[c].after
<1>1. planning \in [Calls -> PlanningCall] /\ planning[c] \in PlanningCall
  BY DEF PlansInv, PlansTyped
<1>2. ASSUME NEW call \in PlanningCall
      PROVE  [call EXCEPT !.at = at] = [call EXCEPT !.at = at, !.seen = call.seen]
  BY DEF PlanningCall
<1>3. ASSUME NEW call \in PlanningCall PROVE call.seen \in SUBSET (Calls \cup Earlier)
  BY DEF PlanningCall
<1>4. planning' = [planning EXCEPT ![c] = [planning[c] EXCEPT !.at = at]]
  BY DEF Planning!Goto
<1>5. planning' = [planning EXCEPT ![c] = [planning[c] EXCEPT !.at = at, !.seen = planning[c].seen]]
  BY <1>1, <1>2, <1>4
<1>6. planning[c].seen \in SUBSET (Calls \cup Earlier)
  BY <1>1, <1>3
<1> QED BY <1>5, <1>6, PlansGoOn

\* Plans and the reads of schedules activate nothing.
LEMMA PlansReadSteps ==
  ASSUME PlansInv, NEW c \in Calls,
         \/ Planning!CreatePlan(c) \/ Planning!ReadPlan(c) \/ Planning!ApprovePlan(c)
         \/ Planning!BeginSchedule(c) \/ Planning!UpdatePlan(c) \/ Planning!ReadSchedule(c)
         \/ Planning!SeeActiveSchedules(c)
  PROVE  PlansInv'
<1>1. DOMAIN plans \subseteq Calls /\ plans \in [DOMAIN plans -> PlanStates]
      /\ DOMAIN schedules \subseteq Calls \cup Earlier /\ schedules \in [DOMAIN schedules -> ScheduleRow]
      /\ PlanningFits(c)
  BY DEF PlansInv, PlansTyped
<1>2. CASE Planning!CreatePlan(c)
  <2>1. PICK state \in {"DRAFT", "READY_FOR_APPROVAL", "FALLBACK_DLM"} :
          plans' = [p \in DOMAIN plans \cup {c} |-> IF p = c THEN state ELSE plans[p]]
    BY <1>2 DEF Planning!CreatePlan
  <2>2. /\ DOMAIN plans' = DOMAIN plans \cup {c} /\ plans' \in [DOMAIN plans' -> PlanStates]
    BY <1>1, <2>1 DEF PlanStates
  <2>3. Planning!Begin(c, "plan", "done", Planning!NoOne, FALSE) /\ schedules' = schedules
    BY <1>2 DEF Planning!CreatePlan
  <2>4. PlanProceeds(c) /\ planning'[c].at = "done"
    BY <2>3, PlansBegun
  <2>5. PlanningFits(c)' /\ UnseenBy(c)'
    BY <2>4 DEF PlanningFits, UnseenBy
  <2> QED BY <1>1, <2>2, <2>3, <2>4, <2>5, PlansRead
<1>3. CASE Planning!ReadPlan(c)
  <2>1. PICK p \in DOMAIN plans :
          Planning!Begin(c, "approvePlan", IF plans[p] = "FALLBACK_DLM" THEN "done" ELSE "approvePlan", p, FALSE)
    BY <1>3 DEF Planning!ReadPlan
  <2> DEFINE at == IF plans[p] = "FALLBACK_DLM" THEN "done" ELSE "approvePlan"
  <2>2. /\ Planning!Begin(c, "approvePlan", at, p, FALSE) /\ at \in {"approvePlan", "done"}
        /\ at \in {"create", "approvePlan", "see", "commit", "done"}
        /\ p \in Calls \cup Earlier \cup {Planning!NoOne} /\ FALSE \in BOOLEAN
        /\ "approvePlan" \in {"plan", "approvePlan", "schedule", "approve"}
    BY <1>1, <2>1
  <2> DEFINE kind == "approvePlan"
             no == FALSE
  <2>3. /\ Planning!Begin(c, kind, at, p, no) /\ no \in BOOLEAN
        /\ kind \in {"plan", "approvePlan", "schedule", "approve"}
    BY <2>2
  <2> HIDE DEF at, kind, no
  <2>6. PlanProceeds(c) /\ planning'[c].at = at /\ c \notin DOMAIN schedules
    BY <2>2, <2>3, PlansBegun
  <2>4. plans' = plans /\ schedules' = schedules
    BY <1>3 DEF Planning!ReadPlan
  <2>5. PlanningFits(c)' /\ UnseenBy(c)'
    BY <2>2, <2>6, <2>4 DEF PlanningFits, UnseenBy
  <2> QED BY <1>1, <2>4, <2>5, <2>6, PlansRead
<1>4. CASE Planning!ApprovePlan(c)
  <2>1. plans' = [plans EXCEPT ![planning[c].row] = "APPROVED"] /\ schedules' = schedules
    BY <1>4 DEF Planning!ApprovePlan
  <2>2. DOMAIN plans' = DOMAIN plans /\ plans' \in [DOMAIN plans' -> PlanStates]
    BY <1>1, <2>1 DEF PlanStates
  <2>3. PlanProceeds(c) /\ planning'[c].at = "done"
    BY <1>4, PlansGoto DEF Planning!ApprovePlan
  <2>4. PlanningFits(c)' /\ UnseenBy(c)'
    BY <2>3 DEF PlanningFits, UnseenBy
  <2> QED BY <1>1, <2>1, <2>2, <2>3, <2>4, PlansRead
<1>5. CASE Planning!BeginSchedule(c)
  <2>1. PICK row \in DOMAIN plans \cup {Planning!NoOne}, fallback \in BOOLEAN :
          Planning!Begin(c, "schedule", "create", row, fallback)
    BY <1>5 DEF Planning!BeginSchedule
  <2>2. PlanProceeds(c) /\ planning'[c].at = "create" /\ planning'[c].row = row /\ c \notin DOMAIN schedules
    <3>1. /\ row \in Calls \cup Earlier \cup {Planning!NoOne}
          /\ "create" \in {"create", "approvePlan", "see", "commit", "done"}
          /\ "schedule" \in {"plan", "approvePlan", "schedule", "approve"}
      BY <1>1
    <3> QED BY <2>1, <3>1, PlansBegun, SMTT(40)
  <2>3. plans' = plans /\ schedules' = schedules
    BY <1>5 DEF Planning!BeginSchedule
  <2>4. PlanningFits(c)' /\ UnseenBy(c)'
    BY <2>2, <2>3 DEF PlanningFits, UnseenBy
  <2> QED BY <1>1, <2>2, <2>3, <2>4, PlansRead
<1>6. CASE Planning!UpdatePlan(c)
  <2>1. /\ plans' = [plans EXCEPT ![planning[c].row] =
             IF plans[planning[c].row] \notin {"DRAFT", "READY_FOR_APPROVAL"} THEN plans[planning[c].row]
             ELSE IF planning[c].fallback THEN "FALLBACK_DLM" ELSE "SCHEDULED"]
        /\ schedules' = schedules
    BY <1>6 DEF Planning!UpdatePlan
  <2>2. DOMAIN plans' = DOMAIN plans /\ plans' \in [DOMAIN plans' -> PlanStates]
    BY <1>1, <2>1 DEF PlanStates
  <2>3. PlanProceeds(c) /\ planning'[c].at = "done"
    BY <1>6, PlansGoto DEF Planning!UpdatePlan
  <2>4. PlanningFits(c)' /\ UnseenBy(c)'
    BY <2>3 DEF PlanningFits, UnseenBy
  <2> QED BY <1>1, <2>1, <2>2, <2>3, <2>4, PlansRead
<1>7. CASE Planning!ReadSchedule(c)
  <2>1. PICK s \in DOMAIN schedules, forced \in BOOLEAN :
          LET fallback == forced \/ schedules[s].fallback \/ schedules[s].status = "FALLBACK_DLM"
          IN  Planning!Begin(c, "approve", IF fallback THEN "commit" ELSE "see", s, fallback)
    BY <1>7 DEF Planning!ReadSchedule
  <2> DEFINE fallback == forced \/ schedules[s].fallback \/ schedules[s].status = "FALLBACK_DLM"
             at == IF fallback THEN "commit" ELSE "see"
  <2>2. Planning!Begin(c, "approve", at, s, fallback)
    BY <2>1
  <2>3. /\ fallback \in BOOLEAN /\ at \in {"commit", "see"} /\ (at = "commit" => fallback)
        /\ s \in Calls \cup Earlier \cup {Planning!NoOne}
    BY <1>1 DEF ScheduleRow
  <2> HIDE DEF at, fallback
  <2>4. /\ PlanProceeds(c) /\ planning'[c].at = at /\ planning'[c].row = s /\ planning'[c].seen = {}
        /\ planning'[c].fallback = fallback /\ c \notin DOMAIN schedules
    BY <2>2, <2>3, PlansBegun
  <2>5. plans' = plans /\ schedules' = schedules
    BY <1>7 DEF Planning!ReadSchedule
  <2>6. PlanningFits(c)' /\ UnseenBy(c)'
    BY <2>3, <2>4, <2>5 DEF PlanningFits, UnseenBy
  <2> QED BY <1>1, <2>4, <2>5, <2>6, PlansRead
<1>8. CASE Planning!SeeActiveSchedules(c)
  <2> DEFINE seen == {x \in DOMAIN schedules : Planning!Supersedes(planning[c].row, x)}
  <2>1. /\ planning[c].at = "see" /\ plans' = plans /\ schedules' = schedules
        /\ planning' = [planning EXCEPT ![c] = [planning[c] EXCEPT !.at = "commit", !.seen = seen]]
    BY <1>8 DEF Planning!SeeActiveSchedules
  <2>2. seen \in SUBSET (Calls \cup Earlier) /\ planning[c].row \notin seen
    BY <1>1 DEF Planning!Supersedes
  <2> HIDE DEF seen
  <2>3. /\ PlanProceeds(c) /\ planning'[c].at = "commit" /\ planning'[c].seen = seen
        /\ planning'[c].row = planning[c].row
    BY <2>1, <2>2, PlansGoOn
  <2>4. PlanningFits(c)'
    BY <1>1, <2>1, <2>2, <2>3 DEF PlanningFits
  <2>5. UnseenBy(c)'
    <3> SUFFICES ASSUME NEW x \in DOMAIN schedules, x # planning[c].row, schedules[x].status = "ACTIVE",
                        schedules[planning[c].row].scope \in {schedules[x].scope, Planning!Station}
                 PROVE  x \in seen
      BY <2>1, <2>3 DEF UnseenBy, Planning!Supersedes
    <3> QED BY DEF seen, Planning!Supersedes
  <2> QED BY <1>1, <2>1, <2>3, <2>4, <2>5, PlansRead
<1> QED BY <1>2, <1>3, <1>4, <1>5, <1>6, <1>7, <1>8

\* c creates a schedule.
LEMMA PlansInserted ==
  ASSUME PlansInv, NEW c \in Calls, PlanProceeds(c), c \notin DOMAIN schedules,
         planning'[c].at \in {"plan", "done"}, plans' = plans,
         NEW row \in ScheduleRow, row.plan \in DOMAIN plans \cup {Planning!NoOne},
         row.status = "ACTIVE" => row.activator = c, Planning!Insert(c, row)
  PROVE  PlansInv'
<1>1. /\ schedules \in [DOMAIN schedules -> ScheduleRow]
      /\ DOMAIN plans \subseteq Calls /\ plans \in [DOMAIN plans -> PlanStates]
  BY DEF PlansInv, PlansTyped
<1>2. /\ DOMAIN schedules' = DOMAIN schedules \cup {c} /\ schedules'[c] = row
      /\ \A s \in DOMAIN schedules : schedules'[s] = schedules[s]
      /\ schedules' \in [DOMAIN schedules' -> ScheduleRow]
  BY <1>1 DEF Planning!Insert
<1>3. \A s \in DOMAIN schedules' : schedules'[s].plan \in DOMAIN plans' \cup {Planning!NoOne}
  BY <1>2 DEF PlansInv, PlansTyped
<1>4. PlanningFits(c)' /\ UnseenBy(c)'
  BY DEF PlanningFits, UnseenBy
<1>5. \A s \in DOMAIN schedules' : schedules'[s].status = "ACTIVE" =>
        StaysActive(s) \/ (s = c /\ schedules'[s].activator = c)
  BY <1>2 DEF StaysActive
<1>6. \A s, x \in DOMAIN schedules' :
           /\ schedules'[s].status = "ACTIVE" /\ schedules'[x].status = "ACTIVE"
           /\ ~ (StaysActive(s) /\ StaysActive(x))
           => BothActive(s, x)'
  BY <1>5 DEF BothActive, Planning!Activated
<1> QED BY <1>1, <1>2, <1>3, <1>4, <1>5, <1>6, PlansWritten

\* A new schedule waits for its approval, or is the fallback.
LEMMA PlansCreateSteps ==
  ASSUME PlansInv, NEW c \in Calls, Planning!CreateSchedule(c) \/ Planning!DemandResponse(c)
  PROVE  PlansInv'
<1>1. CASE Planning!CreateSchedule(c)
  <2>1. PICK scope \in PlanScopes \cup {Planning!Station}, requested \in Planning!Requested :
          LET status == IF planning[c].fallback THEN "FALLBACK_DLM" ELSE requested
          IN  Planning!Insert(c, [plan |-> planning[c].row, scope |-> scope, status |-> status,
                fallback |-> planning[c].fallback,
                activator |-> IF status = "ACTIVE" THEN c ELSE Planning!NoOne])
    BY <1>1 DEF Planning!CreateSchedule
  <2> DEFINE status == IF planning[c].fallback THEN "FALLBACK_DLM" ELSE requested
             row == [plan |-> planning[c].row, scope |-> scope, status |-> status,
                     fallback |-> planning[c].fallback,
                     activator |-> IF status = "ACTIVE" THEN c ELSE Planning!NoOne]
  <2>2. planning[c].at = "create" /\ plans' = plans
    BY <1>1 DEF Planning!CreateSchedule
  <2>3. /\ planning[c].row \in DOMAIN plans \cup {Planning!NoOne} /\ DOMAIN plans \subseteq Calls
        /\ c \notin DOMAIN schedules
    BY <2>2 DEF PlansInv, PlansTyped, PlanningFits
  <2>4. planning[c].fallback \in BOOLEAN
    BY DEF PlansInv, PlansTyped, PlanningCall
  <2>5. status \in {"PENDING_APPROVAL", "ACTIVE", "FALLBACK_DLM"}
    BY DEF Planning!Requested
  <2> HIDE DEF status
  <2>6. /\ row \in ScheduleRow /\ row.plan \in DOMAIN plans \cup {Planning!NoOne}
        /\ row.status = "ACTIVE" => row.activator = c
    BY <2>3, <2>4, <2>5 DEF ScheduleRow
  <2>7. Planning!Insert(c, row)
    BY <2>1 DEF status
  <2> DEFINE at == IF planning[c].row = Planning!NoOne THEN "done" ELSE "plan"
  <2>8. Planning!Goto(c, at) /\ at \in {"plan", "done"}
    BY <1>1 DEF Planning!CreateSchedule
  <2> HIDE DEF at, row
  <2>9. PlanProceeds(c) /\ planning'[c].at = at
    BY <2>2, <2>8, PlansGoto
  <2> QED BY <2>2, <2>3, <2>6, <2>7, <2>8, <2>9, PlansInserted
<1>2. CASE Planning!DemandResponse(c)
  <2> DEFINE row == [plan |-> Planning!NoOne, scope |-> Planning!Station, status |-> "PENDING_APPROVAL",
                     fallback |-> TRUE, activator |-> Planning!NoOne]
  <2>1. /\ row \in ScheduleRow /\ row.plan = Planning!NoOne /\ row.status = "PENDING_APPROVAL"
    BY DEF ScheduleRow
  <2>2. /\ Planning!Begin(c, "schedule", "done", Planning!NoOne, TRUE) /\ plans' = plans
        /\ Planning!Insert(c, row)
    BY <1>2 DEF Planning!DemandResponse
  <2> HIDE DEF row
  <2>3. PlanProceeds(c) /\ planning'[c].at = "done" /\ c \notin DOMAIN schedules
    BY <2>2, PlansBegun
  <2> QED BY <2>1, <2>2, <2>3, PlansInserted
<1> QED BY <1>1, <1>2

Decided(row, status, fallback, activator) ==
  [row EXCEPT !.status = status, !.fallback = fallback, !.activator = activator]

\* What approval makes of a schedule.
LEMMA DecidedTyped ==
  ASSUME NEW row \in ScheduleRow, NEW status \in {"FALLBACK_DLM", "ACTIVE"}, NEW fallback \in BOOLEAN,
         NEW activator \in Calls \cup {Planning!NoOne}
  PROVE  LET new == Decided(row, status, fallback, activator)
         IN  /\ new \in ScheduleRow /\ new.plan = row.plan /\ new.scope = row.scope
             /\ new.status = status /\ new.activator = activator
  BY DEF ScheduleRow, Decided

\* What an approval makes of the schedule x
Approved(c, x) ==
  IF x = planning[c].row
  THEN [schedules[x] EXCEPT
          !.status = IF planning[c].fallback THEN "FALLBACK_DLM" ELSE "ACTIVE",
          !.fallback = planning[c].fallback,
          !.activator = IF planning[c].fallback THEN Planning!NoOne ELSE c]
  ELSE IF x \in planning[c].seen /\ schedules[x].status = "ACTIVE"
  THEN [schedules[x] EXCEPT !.status = "SUPERSEDED"]
  ELSE schedules[x]

\* Approval supersedes what was seen active and activates its own.
LEMMA ApproveSchedulePreserves ==
  ASSUME PlansInv, NEW c \in Calls, Planning!ApproveSchedule(c)
  PROVE  PlansInv'
<1>1. /\ DOMAIN plans \subseteq Calls /\ plans \in [DOMAIN plans -> PlanStates]
      /\ DOMAIN schedules \subseteq Calls \cup Earlier /\ schedules \in [DOMAIN schedules -> ScheduleRow]
      /\ PlanningFits(c) /\ UnseenBy(c)
      /\ planning[c].at = "commit" /\ planning[c].row \in DOMAIN schedules
      /\ planning[c].row \notin planning[c].seen /\ planning[c].fallback \in BOOLEAN
  BY DEF PlansInv, PlansTyped, PlanningFits, PlanningCall, Planning!ApproveSchedule
<1>2. schedules' = [x \in DOMAIN schedules |-> Approved(c, x)]
  BY <1>1 DEF Planning!ApproveSchedule, Approved
<1>3. PlanProceeds(c) /\ planning'[c].at = "done" /\ planning'[c].after = planning[c].after
  BY <1>1, PlansGoto DEF Planning!ApproveSchedule
<1>4. /\ DOMAIN plans' = DOMAIN plans /\ plans' \in [DOMAIN plans' -> PlanStates]
  <2> DEFINE p == schedules[planning[c].row].plan
             to == IF planning[c].fallback THEN "FALLBACK_DLM" ELSE "APPROVED"
  <2>1. plans' = [q \in DOMAIN plans |-> IF q = p THEN to ELSE plans[q]]
    BY DEF Planning!ApproveSchedule
  <2>2. to \in PlanStates
    BY DEF PlanStates
  <2> HIDE DEF p, to
  <2> QED BY <1>1, <2>1, <2>2
<1>5. ASSUME NEW x \in DOMAIN schedules
      PROVE  /\ Approved(c, x) \in ScheduleRow /\ Approved(c, x).plan = schedules[x].plan
             /\ Approved(c, x).scope = schedules[x].scope
             /\ Approved(c, x).status = "ACTIVE" =>
                  \/ x = planning[c].row /\ ~ planning[c].fallback /\ Approved(c, x).activator = c
                  \/ /\ x # planning[c].row /\ x \notin planning[c].seen
                     /\ Approved(c, x) = schedules[x]
  <2>1. schedules[x] \in ScheduleRow
    BY <1>1
  <2>2. CASE x = planning[c].row
    <3> DEFINE status == IF planning[c].fallback THEN "FALLBACK_DLM" ELSE "ACTIVE"
               activator == IF planning[c].fallback THEN Planning!NoOne ELSE c
               fallback == planning[c].fallback
    <3>2. /\ status \in {"FALLBACK_DLM", "ACTIVE"} /\ activator \in Calls \cup {Planning!NoOne}
          /\ status = "ACTIVE" => ~ planning[c].fallback /\ activator = c
          /\ fallback \in BOOLEAN
      BY <1>1
    <3>3. Approved(c, x) = Decided(schedules[x], status, fallback, activator)
      BY <2>2 DEF Approved, Decided
    <3> HIDE DEF status, activator, fallback
    <3>4. /\ Approved(c, x) \in ScheduleRow /\ Approved(c, x).plan = schedules[x].plan
          /\ Approved(c, x).scope = schedules[x].scope
      BY <2>1, <3>2, <3>3, DecidedTyped
    <3>5. Approved(c, x).status = status /\ Approved(c, x).activator = activator
      BY <2>1, <3>2, <3>3, DecidedTyped
    <3> QED BY <2>2, <3>2, <3>4, <3>5
  <2>3. CASE x # planning[c].row /\ x \in planning[c].seen /\ schedules[x].status = "ACTIVE"
    <3>1. ASSUME NEW row \in ScheduleRow
          PROVE  LET new == [row EXCEPT !.status = "SUPERSEDED"]
                 IN  /\ new \in ScheduleRow /\ new.plan = row.plan /\ new.scope = row.scope
                     /\ new.status = "SUPERSEDED"
      BY DEF ScheduleRow
    <3>2. Approved(c, x) = [schedules[x] EXCEPT !.status = "SUPERSEDED"]
      BY <2>3 DEF Approved
    <3> QED BY <2>1, <3>1, <3>2
  <2>4. CASE x # planning[c].row /\ ~ (x \in planning[c].seen /\ schedules[x].status = "ACTIVE")
    <3>1. Approved(c, x) = schedules[x]
      BY <2>4 DEF Approved
    <3> QED BY <2>1, <2>4, <3>1
  <2> QED BY <2>2, <2>3, <2>4
<1>6. /\ DOMAIN schedules' = DOMAIN schedules /\ \A x \in DOMAIN schedules : schedules'[x] = Approved(c, x)
      /\ schedules' \in [DOMAIN schedules' -> ScheduleRow]
  BY <1>2, <1>5
<1>7. \A s \in DOMAIN schedules' : schedules'[s].status = "ACTIVE" =>
        \/ s = planning[c].row /\ ~ planning[c].fallback /\ schedules'[s].activator = c
        \/ StaysActive(s) /\ s \notin planning[c].seen /\ s # planning[c].row /\ schedules[s].status = "ACTIVE"
  BY <1>5, <1>6 DEF StaysActive
<1>8. PlanningFits(c)' /\ UnseenBy(c)'
  BY <1>3 DEF PlanningFits, UnseenBy
<1>9. \A s \in DOMAIN schedules : schedules'[s].scope = schedules[s].scope /\ schedules'[s].plan = schedules[s].plan
  BY <1>5, <1>6
<1>10. ASSUME NEW x \in DOMAIN schedules, x # planning[c].row, x \notin planning[c].seen,
              schedules[x].status = "ACTIVE", ~ planning[c].fallback,
              schedules[planning[c].row].scope \in {schedules[x].scope, Planning!Station}
       PROVE  schedules[x].activator \notin planning[c].after
  BY <1>1, <1>10 DEF UnseenBy, Planning!Supersedes
<1>11. ASSUME NEW s \in DOMAIN schedules', NEW x \in DOMAIN schedules', s # x,
              schedules'[s].status = "ACTIVE", schedules'[x].status = "ACTIVE",
              schedules'[s].scope \in {schedules'[x].scope, Planning!Station},
              ~ (StaysActive(s) /\ StaysActive(x))
       PROVE  BothActive(s, x)'
  <2> DEFINE r == planning[c].row
  <2>1. \A d \in Calls : c \notin planning'[d].after
    BY <1>3, PlansOrder
  <2>2. ASSUME NEW y \in DOMAIN schedules', schedules'[y].status = "ACTIVE", y # r
        PROVE  /\ schedules[y].status = "ACTIVE" /\ schedules'[y].activator = schedules[y].activator
               /\ schedules'[y].activator \in Calls /\ y \notin planning[c].seen
    BY <1>6, <1>7, <2>2 DEF StaysActive, PlansInv, PlansTyped
  <2>3. CASE s = r
    <3>1. schedules'[s].activator = c /\ ~ planning[c].fallback
      BY <1>7, <1>11, <2>3
    <3>2. schedules'[x].activator \notin planning'[c].after
      BY <1>3, <1>6, <1>9, <1>10, <1>11, <2>2, <2>3, <3>1
    <3>3. c \notin planning'[schedules'[x].activator].after
      BY <1>11, <2>1, <2>2, <2>3
    <3> QED BY <3>1, <3>2, <3>3 DEF BothActive, Planning!Activated, Planning!Overlap
  <2>4. CASE x = r
    <3>1. schedules'[x].activator = c /\ ~ planning[c].fallback
      BY <1>7, <1>11, <2>4
    <3>2. c \notin planning'[schedules'[s].activator].after
      BY <1>11, <2>1, <2>2, <2>4
    <3>3. CASE schedules'[s].scope = schedules'[x].scope
      <4>1. schedules'[s].activator \notin planning'[c].after
        BY <1>3, <1>6, <1>9, <1>10, <1>11, <2>2, <2>4, <3>1, <3>3
      <4> QED BY <3>1, <3>2, <4>1 DEF BothActive, Planning!Activated, Planning!Overlap
    <3>4. CASE schedules'[s].scope # schedules'[x].scope
      BY <3>1, <3>2, <3>4 DEF BothActive, Planning!Activated, Planning!Overlap
    <3> QED BY <3>3, <3>4
  <2>5. s = r \/ x = r
    BY <1>7, <1>11
  <2> QED BY <2>3, <2>4, <2>5
<1>12. \A s \in DOMAIN schedules' : schedules'[s].plan \in DOMAIN plans' \cup {Planning!NoOne}
  BY <1>4, <1>6, <1>9 DEF PlansInv, PlansTyped
<1>13. \A s \in DOMAIN schedules' : schedules'[s].status = "ACTIVE" => StaysActive(s) \/ schedules'[s].activator = c
  BY <1>7
<1> QED BY <1>1, <1>3, <1>4, <1>6, <1>8, <1>9, <1>11, <1>12, <1>13, PlansWritten

\* Every step of plans and schedules preserves their invariant.
LEMMA PlansStep == ASSUME PlansInv, [Planning!Next]_(Planning!vars) PROVE PlansInv'
<1>1. CASE UNCHANGED Planning!vars
  BY <1>1 DEF Planning!vars, PlansInv, PlansTyped, PlanningFits, PlansAfterDone, UnseenBy, Planning!Supersedes,
     Planning!OneActiveSchedule, Planning!Activated, Planning!Overlap
<1>2. CASE Planning!Next
  BY <1>2, PlansReadSteps, PlansCreateSteps, ApproveSchedulePreserves DEF Planning!Next
<1> QED BY <1>1, <1>2

\* What the invariant of the plans says of them.
LEMMA PlansProperties == PlansInv => Planning!TypeOK /\ Planning!OneActiveSchedule
  BY DEF PlansInv, PlansTyped, PlanStates, ScheduleRow, PlanningCall, Planning!TypeOK

----------------------------------------------------------------------------
(* The identity of a charge point                                          *)

IdentityCall == [at : {"idle", "find", "write", "done"},
                 kind : {"none", "boot", "create", "update", "confirm", "publish", "unpublish", "remove"},
                 seen : Identities!Points, listed : BOOLEAN, after : SUBSET Calls]

PointFits(p) ==
  /\ p \in Identities!Points
  /\ IF p.id = Identities!NoOne THEN p = Identities!NoPoint
     ELSE p.identity \in Identities!Ids /\ p.writer \in Identities!Ids

IdentityTyped ==
  /\ PointFits(point)
  /\ DOMAIN listed \subseteq Identities!Ids
  /\ listed \in [DOMAIN listed -> [by : Identities!Ids, identity : Identities!Ids]]
  /\ identifying \in [Calls -> IdentityCall]
  /\ \A c \in Calls : PointFits(identifying[c].seen)

IdentityAfterDone == \A c \in Calls : \A d \in identifying[c].after : identifying[d].at = "done"

\* What is stored or done
Over(x) == x \in Calls => identifying[x].at = "done"
OverNext(x) == x \in Calls => identifying'[x].at = "done"

IdentityByDone ==
  /\ Over(point.id) /\ Over(point.writer) /\ Over(point.confirmer)
  /\ \A i \in DOMAIN listed : Over(i) /\ Over(listed[i].by)
  /\ \A c \in Calls : Over(identifying[c].seen.id)

\* Whoever published the point with the id i, if one did, has done so since c began.
PublishedSince(c, i) ==
  i \in DOMAIN listed => listed[i].by \in Calls \ identifying[c].after

\* What a call has read still holds or was changed since it began.
ReadSince(c) ==
  LET call == identifying[c]
      seen == identifying[c].seen
  IN  /\ call.at = "write" /\ call.kind = "boot" /\ ~ Identities!Confirmed(seen) =>
           /\ PublishedSince(c, seen.id)
           /\ point.id = seen.id /\ Identities!Confirmed(point) => point.confirmer \in Calls \ call.after
      /\ call.at = "write" /\ call.kind \in {"update", "confirm"} =>
           seen.id # Identities!NoOne /\ PublishedSince(c, seen.id)
      /\ call.at \in {"find", "write"} /\ call.kind = "publish" =>
           /\ seen.id # Identities!NoOne
           /\ point.id = seen.id =>
                /\ point.booted /\ Identities!Confirmed(point)
                /\ point.complete \/ point.writer \in Calls \ call.after

IdentityInv ==
  /\ IdentityTyped /\ IdentityAfterDone /\ IdentityByDone
  /\ \A c \in Calls : ReadSince(c)
  /\ Identities!LockedWhilePublished /\ Identities!PublishedIsConfirmed /\ Identities!BootKeepsConfirmed

\* The names of the model differ from each other.
LEMMA IdentityNames ==
  /\ Identities!NoOne \notin Calls /\ Identities!Stored \notin Calls /\ Identities!NoOne # Identities!Stored
  /\ Identities!Ids = Calls \cup {Identities!Stored}
  /\ PointFits(Identities!NoPoint) /\ Identities!NoPoint.id = Identities!NoOne
  /\ Identities!NoPoint.writer = Identities!NoOne /\ Identities!NoPoint.confirmer = Identities!NoOne
  BY RecordsAssumption DEF Identities!IdentityAssumption, Identities!NoOne, Identities!Stored, Identities!Ids,
     PointFits, Identities!NoPoint, Identities!Points

\* The charge point may be stored, unpublished, and nobody has begun.
LEMMA IdentityInit == Identities!Init => IdentityInv
<1> SUFFICES ASSUME Identities!Init PROVE IdentityInv
  OBVIOUS
<1>1. identifying = [c \in Calls |-> Identities!NoWork]
  BY DEF Identities!Init
<1>2. /\ Identities!NoWork \in IdentityCall /\ Identities!NoWork.at = "idle" /\ Identities!NoWork.after = {}
      /\ Identities!NoWork.seen = Identities!NoPoint
  BY IdentityNames DEF Identities!NoWork, IdentityCall, PointFits
<1>3. /\ PointFits(point) /\ point.id \notin Calls /\ point.writer \notin Calls /\ point.confirmer \notin Calls
      /\ point.id # Identities!NoOne => point.id = Identities!Stored /\ point.identity = Identities!Stored
                                        /\ point.writer = Identities!Stored
                                        /\ (Identities!Confirmed(point) => point.complete)
  <2>1. CASE point = Identities!NoPoint
    BY <2>1, IdentityNames
  <2>2. CASE \E complete, booted \in BOOLEAN, confirmer \in {Identities!NoOne, Identities!Stored} :
               /\ confirmer = Identities!Stored => complete
               /\ point = [id |-> Identities!Stored, identity |-> Identities!Stored, complete |-> complete,
                           booted |-> booted, confirmer |-> confirmer, writer |-> Identities!Stored]
    BY <2>2, IdentityNames DEF PointFits, Identities!Points, Identities!Confirmed
  <2> QED BY <2>1, <2>2 DEF Identities!Init
<1>4. /\ DOMAIN listed \subseteq {Identities!Stored}
      /\ listed \in [DOMAIN listed -> [by : Identities!Ids, identity : Identities!Ids]]
      /\ \A i \in DOMAIN listed : /\ listed[i].by = Identities!Stored /\ listed[i].identity = Identities!Stored
                                  /\ Identities!Confirmed(point) /\ point.booted
  <2>1. CASE listed = << >>
    BY <2>1
  <2>2. CASE /\ Identities!Confirmed(point) /\ point.booted
             /\ listed = [i \in {Identities!Stored} |-> [by |-> Identities!Stored, identity |-> Identities!Stored]]
    BY <2>2, IdentityNames
  <2> QED BY <2>1, <2>2 DEF Identities!Init
<1>5. IdentityTyped /\ IdentityAfterDone /\ IdentityByDone
  BY <1>1, <1>2, <1>3, <1>4, IdentityNames DEF IdentityTyped, IdentityAfterDone, IdentityByDone, Over
<1>6. \A c \in Calls : ReadSince(c)
  BY <1>1, <1>2 DEF ReadSince
<1>7. /\ Identities!LockedWhilePublished /\ Identities!PublishedIsConfirmed /\ Identities!BootKeepsConfirmed
  <2>1. Identities!Published => point.id = Identities!Stored /\ Identities!Stored \in DOMAIN listed
    BY <1>4 DEF Identities!Published
  <2>2. Identities!Confirmed(point) => point.id # Identities!NoOne
    BY <1>3, IdentityNames DEF PointFits, Identities!Confirmed
  <2>3. Identities!LockedWhilePublished
    BY <1>3, <1>4, <2>1, IdentityNames DEF Identities!LockedWhilePublished
  <2>4. Identities!PublishedIsConfirmed
    BY <1>3, <1>4, <2>1, IdentityNames DEF Identities!PublishedIsConfirmed
  <2>5. Identities!BootKeepsConfirmed
    BY <1>3, <2>2 DEF Identities!BootKeepsConfirmed
  <2> QED BY <2>3, <2>4, <2>5
<1> QED BY <1>5, <1>6, <1>7 DEF IdentityInv

\* The call c begins, or goes on with what it began with.
IdentityProceeds(c) ==
  /\ identifying' \in [Calls -> IdentityCall] /\ \A d \in Calls \ {c} : identifying'[d] = identifying[d]
  /\ identifying[c].at # "done" /\ identifying'[c].at # "idle"
  /\ \/ /\ identifying[c].at = "idle" /\ identifying'[c].seen = point
        /\ identifying'[c].after = {d \in Calls : identifying[d].at = "done"}
     \/ /\ identifying[c].at # "idle" /\ identifying'[c].after = identifying[c].after
        /\ identifying'[c].seen = identifying[c].seen /\ identifying'[c].kind = identifying[c].kind

\* A call that goes on leaves what was over over, and in its order.
LEMMA IdentityOrder ==
  ASSUME IdentityInv, NEW c \in Calls, IdentityProceeds(c)
  PROVE  /\ IdentityAfterDone' /\ \A d \in Calls : PointFits(identifying'[d].seen)
         /\ \A d \in Calls : c \notin identifying[d].after /\ c \notin identifying'[d].after
         /\ \A d \in Calls : identifying[d].at # "idle" =>
              /\ identifying'[d].at # "idle" /\ identifying'[d].after = identifying[d].after
              /\ identifying'[d].kind = identifying[d].kind
         /\ \A d \in Calls : identifying[d].at = "done" => identifying'[d] = identifying[d]
         /\ \A x : Over(x) => x # c /\ OverNext(x)
<1>1. \A d \in Calls : c \notin identifying[d].after /\ c \notin identifying'[d].after
  BY DEF IdentityInv, IdentityAfterDone, IdentityProceeds
<1>2. \A d \in Calls : identifying[d].at = "done" => identifying'[d] = identifying[d]
  BY DEF IdentityProceeds
<1>3. IdentityAfterDone'
  BY <1>2 DEF IdentityInv, IdentityAfterDone, IdentityProceeds, IdentityTyped, IdentityCall
<1>4. \A d \in Calls : identifying[d].at # "idle" =>
        /\ identifying'[d].at # "idle" /\ identifying'[d].after = identifying[d].after
        /\ identifying'[d].kind = identifying[d].kind
  BY DEF IdentityProceeds
<1>5. \A d \in Calls : PointFits(identifying'[d].seen)
  BY DEF IdentityProceeds, IdentityInv, IdentityTyped
<1>6. \A x : Over(x) => x # c /\ OverNext(x)
  BY <1>2 DEF Over, OverNext, IdentityProceeds
<1> QED BY <1>1, <1>2, <1>3, <1>4, <1>5, <1>6

\* Two calls that have begun overlap for ever.
OverlapNext(x, y) ==
  x # y /\ Identities!Stored \notin {x, y} /\ x \notin identifying'[y].after /\ y \notin identifying'[x].after

\* Two calls that overlapped have overlapped for good.
LEMMA IdentityOverlapKept ==
  ASSUME IdentityInv, NEW c \in Calls, IdentityProceeds(c), NEW x \in Identities!Ids, NEW y \in Identities!Ids,
         Over(x), Over(y), Identities!Overlap(x, y)
  PROVE  OverlapNext(x, y)
  BY IdentityOrder, IdentityNames DEF Identities!Overlap, OverlapNext, Over

\* The point is another one, or only c writes it.
PointWritten(c) ==
  \/ /\ point'.id \in {c, Identities!NoOne} /\ point'.writer \in {c, Identities!NoOne}
     /\ point'.confirmer = Identities!NoOne
  \/ /\ point'.id = point.id /\ (point.booted => point'.booted)
     /\ point'.confirmer = point.confirmer \/ point'.confirmer = c
     /\ (point'.writer = point.writer /\ point'.complete = point.complete) \/ point'.writer = c

ListedWritten(c) ==
  \A i \in DOMAIN listed' :
    \/ listed'[i].by = c /\ Over(i)
    \/ i \in DOMAIN listed /\ listed'[i].by = listed[i].by

\* What the others have read, when c writes
LEMMA IdentityOthers ==
  ASSUME IdentityInv, NEW c \in Calls, IdentityProceeds(c), PointFits(point'),
         DOMAIN listed' \subseteq Identities!Ids,
         listed' \in [DOMAIN listed' -> [by : Identities!Ids, identity : Identities!Ids]],
         PointWritten(c), ListedWritten(c),
         identifying'[c].at = "done" \/ (point' = point /\ listed' = listed),
         ReadSince(c)'
  PROVE  /\ IdentityTyped' /\ IdentityAfterDone' /\ IdentityByDone'
         /\ \A d \in Calls : ReadSince(d)'
<1>1. IdentityTyped' /\ IdentityAfterDone'
  BY IdentityOrder DEF IdentityTyped, IdentityProceeds
<1>2. IdentityByDone'
  <2>1. identifying'[c].at = "done" => OverNext(c)
    BY DEF OverNext
  <2>2. OverNext(Identities!NoOne)
    BY IdentityNames DEF OverNext
  <2>3. OverNext(point'.id) /\ OverNext(point'.writer) /\ OverNext(point'.confirmer)
    <3>1. Over(point.id) /\ Over(point.writer) /\ Over(point.confirmer)
      BY DEF IdentityInv, IdentityByDone
    <3>2. CASE point' = point
      BY <3>1, <3>2, IdentityOrder
    <3>3. CASE identifying'[c].at = "done"
      BY <2>1, <2>2, <3>1, <3>3, IdentityOrder DEF PointWritten
    <3> QED BY <3>2, <3>3
  <2>4. \A d \in Calls : OverNext(identifying'[d].seen.id)
    BY IdentityOrder DEF IdentityInv, IdentityByDone, IdentityProceeds
  <2>5. \A i \in DOMAIN listed' : OverNext(i) /\ OverNext(listed'[i].by)
    <3>1. \A i \in DOMAIN listed : Over(i) /\ Over(listed[i].by)
      BY DEF IdentityInv, IdentityByDone
    <3>2. CASE listed' = listed
      BY <3>1, <3>2, IdentityOrder
    <3>3. CASE identifying'[c].at = "done"
      BY <2>1, <3>1, <3>3, IdentityOrder DEF ListedWritten
    <3> QED BY <3>2, <3>3
  <2> QED BY <2>3, <2>4, <2>5 DEF IdentityByDone, Over, OverNext
<1>3. ASSUME NEW d \in Calls \ {c} PROVE ReadSince(d)'
  <2>1. identifying'[d] = identifying[d] /\ c \notin identifying[d].after
    BY IdentityOrder DEF IdentityProceeds
  <2>2. Over(identifying[d].seen.id)
    BY DEF IdentityInv, IdentityByDone
  <2>3. identifying[d].seen.id # c
    BY <2>2, IdentityOrder
  <2>4. PublishedSince(d, identifying[d].seen.id) => PublishedSince(d, identifying[d].seen.id)'
    BY <2>1 DEF PublishedSince, ListedWritten
  <2>5. \/ point'.id # identifying[d].seen.id \/ identifying[d].seen.id = Identities!NoOne
        \/ /\ point'.id = point.id /\ (point.booted => point'.booted)
           /\ point'.confirmer = point.confirmer \/ point'.confirmer = c
           /\ (point'.writer = point.writer /\ point'.complete = point.complete) \/ point'.writer = c
    BY <2>3 DEF PointWritten
  <2>6. ReadSince(d)
    BY DEF IdentityInv
  <2>7. point'.id = Identities!NoOne => ~ Identities!Confirmed(point')
    BY IdentityNames DEF PointFits, Identities!Confirmed
  <2>8. CASE point'.id # identifying[d].seen.id
    BY <2>1, <2>4, <2>6, <2>8 DEF ReadSince
  <2>9. CASE identifying[d].seen.id = Identities!NoOne /\ point'.id = Identities!NoOne
    BY <2>1, <2>4, <2>6, <2>7, <2>9 DEF ReadSince, Identities!Confirmed
  <2>10. CASE /\ point'.id = identifying[d].seen.id
              /\ point'.id = point.id /\ (point.booted => point'.booted)
              /\ point'.confirmer = point.confirmer \/ point'.confirmer = c
              /\ (point'.writer = point.writer /\ point'.complete = point.complete) \/ point'.writer = c
    <3>1. c # Identities!NoOne
      BY IdentityNames
    <3>2. ASSUME identifying[d].at = "write", identifying[d].kind = "boot",
                 ~ Identities!Confirmed(identifying[d].seen), Identities!Confirmed(point')
          PROVE  point'.confirmer \in Calls \ identifying[d].after
      BY <2>1, <2>6, <2>10, <3>1, <3>2 DEF ReadSince, Identities!Confirmed
    <3>3. ASSUME identifying[d].at \in {"find", "write"}, identifying[d].kind = "publish"
          PROVE  /\ point'.booted /\ Identities!Confirmed(point')
                 /\ point'.complete \/ point'.writer \in Calls \ identifying[d].after
      BY <2>1, <2>6, <2>10, <3>1, <3>3 DEF ReadSince, Identities!Confirmed
    <3> QED BY <2>1, <2>4, <2>6, <3>2, <3>3 DEF ReadSince, Identities!Confirmed
  <2> QED BY <2>5, <2>8, <2>9, <2>10
<1> QED BY <1>1, <1>2, <1>3

\* The three properties, of the point and its listing
Stands ==
  Identities!LockedWhilePublished /\ Identities!PublishedIsConfirmed /\ Identities!BootKeepsConfirmed

\* Nothing that they speak of is written.
LEMMA IdentityStands ==
  ASSUME IdentityInv, NEW c \in Calls, IdentityProceeds(c), point'.id # Identities!NoOne,
         point'.id = point.id, point'.identity = point.identity, point'.writer = point.writer,
         point'.confirmer = point.confirmer, point'.complete = point.complete, (point.booted => point'.booted),
         point.id \in DOMAIN listed' => point.id \in DOMAIN listed /\ listed'[point.id] = listed[point.id]
  PROVE  Stands'
<1>1. /\ point.writer \in Identities!Ids /\ point.identity \in Identities!Ids
      /\ point.confirmer \in Identities!Ids \cup {Identities!NoOne}
      /\ Over(point.writer) /\ Over(point.confirmer)
  BY DEF IdentityInv, IdentityTyped, PointFits, Identities!Points, IdentityByDone
<1>2. \A i \in DOMAIN listed : listed[i].by \in Identities!Ids /\ Over(listed[i].by)
  BY DEF IdentityInv, IdentityTyped, IdentityByDone
<1>3. ASSUME Identities!Published'
      PROVE  /\ Identities!Published /\ listed'[point.id] = listed[point.id] /\ point'.id = point.id
             /\ Identities!Overlap(point.writer, listed[point.id].by) =>
                  Identities!Overlap(point.writer, listed[point.id].by)'
  <2>1. Identities!Published /\ listed'[point.id] = listed[point.id]
    BY <1>3 DEF Identities!Published
  <2>2. listed[point.id].by \in Identities!Ids /\ Over(listed[point.id].by)
    BY <1>2, <2>1 DEF Identities!Published
  <2> DEFINE x == point.writer
             y == listed[point.id].by
  <2>3. Identities!Overlap(x, y) => OverlapNext(x, y)
    BY <1>1, <2>2, IdentityOverlapKept
  <2>4. point'.writer = x /\ listed'[point'.id].by = y
    BY <2>1
  <2> QED BY <2>1, <2>3, <2>4 DEF OverlapNext, Identities!Overlap
<1>4. Identities!LockedWhilePublished' /\ Identities!PublishedIsConfirmed'
  <2>1. Identities!LockedWhilePublished /\ Identities!PublishedIsConfirmed
    BY DEF IdentityInv
  <2>2. Identities!LockedWhilePublished'
    BY <1>3, <2>1 DEF Identities!LockedWhilePublished
  <2>3. Identities!PublishedIsConfirmed'
    BY <1>3, <2>1 DEF Identities!PublishedIsConfirmed, Identities!Confirmed
  <2> QED BY <2>2, <2>3
<1>5. Identities!BootKeepsConfirmed'
  <2> SUFFICES ASSUME Identities!Confirmed(point'), point'.writer # Identities!Stored,
                      identifying'[point'.writer].kind = "boot"
               PROVE  OverlapNext(point.writer, point.confirmer)
    BY DEF Identities!BootKeepsConfirmed, OverlapNext, Identities!Overlap
  <2>1. Identities!Confirmed(point) /\ point.writer # Identities!Stored
    BY DEF Identities!Confirmed
  <2>2. point.writer \in Calls /\ point.confirmer \in Identities!Ids
    BY <1>1, <2>1, IdentityNames DEF Identities!Confirmed
  <2>3. identifying'[point.writer] = identifying[point.writer]
    BY <1>1, <2>2, IdentityOrder DEF Over
  <2>4. Identities!Overlap(point.writer, point.confirmer)
    BY <2>1, <2>3 DEF IdentityInv, Identities!BootKeepsConfirmed
  <2> QED BY <1>1, <2>2, <2>4, IdentityOverlapKept
<1> QED BY <1>4, <1>5 DEF Stands

\* There is no point.
LEMMA IdentityNone ==
  ASSUME PointFits(point'), point'.id = Identities!NoOne, DOMAIN listed' \subseteq Identities!Ids
  PROVE  Stands'
<1>1. point' = Identities!NoPoint
  BY DEF PointFits
<1>2. ~ Identities!Published'
  BY IdentityNames DEF Identities!Published
<1>3. ~ Identities!Confirmed(point')
  BY <1>1, IdentityNames DEF Identities!Confirmed
<1> QED BY <1>2, <1>3 DEF Stands, Identities!LockedWhilePublished, Identities!PublishedIsConfirmed, Identities!BootKeepsConfirmed

\* A step that writes neither the charge point nor its listing.
LEMMA IdentityRead ==
  ASSUME IdentityInv, NEW c \in Calls, IdentityProceeds(c), point' = point, listed' = listed, ReadSince(c)'
  PROVE  IdentityInv'
<1>1. /\ PointFits(point) /\ DOMAIN listed \subseteq Identities!Ids
      /\ listed \in [DOMAIN listed -> [by : Identities!Ids, identity : Identities!Ids]]
  BY DEF IdentityInv, IdentityTyped
<1>2. PointWritten(c) /\ ListedWritten(c)
  BY DEF PointWritten, ListedWritten
<1>3. Stands'
  <2>1. CASE point.id = Identities!NoOne
    BY <1>1, <2>1, IdentityNone
  <2>2. CASE point.id # Identities!NoOne
    BY <2>2, IdentityStands
  <2> QED BY <2>1, <2>2
<1> QED BY <1>1, <1>2, <1>3, IdentityOthers DEF Stands, IdentityInv

\* What a call is when it begins.
LEMMA IdentityBegun ==
  ASSUME IdentityInv, NEW c \in Calls, NEW at \in {"find", "write", "done"},
         NEW kind \in {"boot", "create", "update", "confirm", "publish", "unpublish", "remove"},
         Identities!Begin(c, at, kind)
  PROVE  /\ IdentityProceeds(c) /\ identifying[c].at = "idle"
         /\ identifying'[c].at = at /\ identifying'[c].kind = kind /\ identifying'[c].seen = point
         /\ identifying'[c].after = {d \in Calls : identifying[d].at = "done"}
<1> DEFINE call == [at |-> at, kind |-> kind, seen |-> point, listed |-> FALSE,
                    after |-> {d \in Calls : identifying[d].at = "done"}]
<1>1. point \in Identities!Points /\ identifying \in [Calls -> IdentityCall]
  BY DEF IdentityInv, IdentityTyped, PointFits
<1>2. /\ call \in IdentityCall /\ call.at = at /\ call.kind = kind /\ call.seen = point
      /\ call.after = {d \in Calls : identifying[d].at = "done"}
  BY <1>1 DEF IdentityCall
<1>3. identifying[c].at = "idle" /\ identifying' = [identifying EXCEPT ![c] = call]
  BY DEF Identities!Begin
<1> HIDE DEF call
<1>4. /\ identifying'[c] = call /\ identifying' \in [Calls -> IdentityCall]
      /\ \A d \in Calls \ {c} : identifying'[d] = identifying[d]
  BY <1>1, <1>2, <1>3
<1>5. IdentityProceeds(c)
  BY <1>2, <1>3, <1>4 DEF IdentityProceeds
<1> QED BY <1>2, <1>3, <1>4, <1>5

WentOn(call, at, found) == [call EXCEPT !.at = at, !.listed = found]

\* What a call is after it read the listing.
LEMMA WentOnTyped ==
  ASSUME NEW call \in IdentityCall, NEW at \in {"write", "done"}, NEW found \in BOOLEAN
  PROVE  /\ WentOn(call, at, found) \in IdentityCall /\ WentOn(call, at, found).at = at
         /\ WentOn(call, at, found).kind = call.kind /\ WentOn(call, at, found).seen = call.seen
         /\ WentOn(call, at, found).after = call.after
  BY DEF IdentityCall, WentOn

\* What changes when a call goes on: where it is and what it found.
LEMMA IdentityGoesOn ==
  ASSUME IdentityInv, NEW c \in Calls, identifying[c].at \notin {"idle", "done"},
         NEW at \in {"write", "done"}, NEW found \in BOOLEAN,
         identifying' = [identifying EXCEPT ![c] = WentOn(identifying[c], at, found)]
  PROVE  /\ IdentityProceeds(c) /\ identifying'[c].at = at
         /\ identifying'[c].kind = identifying[c].kind /\ identifying'[c].seen = identifying[c].seen
         /\ identifying'[c].after = identifying[c].after
<1>1. identifying \in [Calls -> IdentityCall] /\ identifying[c] \in IdentityCall
  BY DEF IdentityInv, IdentityTyped
<1>2. /\ identifying'[c] = WentOn(identifying[c], at, found) /\ identifying' \in [Calls -> IdentityCall]
      /\ \A d \in Calls \ {c} : identifying'[d] = identifying[d]
  BY <1>1, WentOnTyped
<1>3. /\ identifying'[c].at = at
      /\ identifying'[c].kind = identifying[c].kind /\ identifying'[c].seen = identifying[c].seen
      /\ identifying'[c].after = identifying[c].after
  BY <1>1, <1>2, WentOnTyped
<1>4. IdentityProceeds(c)
  BY <1>2, <1>3 DEF IdentityProceeds
<1> QED BY <1>3, <1>4

\* A call that ends is over for good.
LEMMA IdentityEnds ==
  ASSUME IdentityInv, NEW c \in Calls, identifying[c].at \notin {"idle", "done"}, Identities!Done(c)
  PROVE  /\ IdentityProceeds(c) /\ identifying'[c].at = "done"
         /\ identifying'[c].kind = identifying[c].kind /\ identifying'[c].seen = identifying[c].seen
         /\ identifying'[c].after = identifying[c].after /\ ReadSince(c)'
<1>1. identifying \in [Calls -> IdentityCall] /\ identifying[c] \in IdentityCall
  BY DEF IdentityInv, IdentityTyped
<1>2. ASSUME NEW call \in IdentityCall
      PROVE  [call EXCEPT !.at = "done"] = WentOn(call, "done", call.listed) /\ call.listed \in BOOLEAN
  BY DEF IdentityCall, WentOn
<1>3. identifying' = [identifying EXCEPT ![c] = [identifying[c] EXCEPT !.at = "done"]]
  BY DEF Identities!Done
<1> DEFINE found == identifying[c].listed
<1>4. identifying' = [identifying EXCEPT ![c] = WentOn(identifying[c], "done", found)] /\ found \in BOOLEAN
  BY <1>1, <1>2, <1>3
<1> HIDE DEF found
<1>5. /\ IdentityProceeds(c) /\ identifying'[c].at = "done"
      /\ identifying'[c].kind = identifying[c].kind /\ identifying'[c].seen = identifying[c].seen
      /\ identifying'[c].after = identifying[c].after
  BY <1>4, IdentityGoesOn
<1> QED BY <1>5 DEF ReadSince

\* A new point, which is not published nor confirmed
LEMMA IdentityNew ==
  ASSUME IdentityInv, NEW c \in Calls, IdentityProceeds(c), identifying'[c].at = "done", ReadSince(c)',
         listed' = listed, NEW complete \in BOOLEAN, NEW booted \in BOOLEAN,
         point' = Identities!New(c, complete, booted)
  PROVE  IdentityInv'
<1>1. /\ point' \in Identities!Points /\ point'.id = c /\ point'.writer = c /\ point'.identity = c
      /\ point'.confirmer = Identities!NoOne
  BY IdentityNames DEF Identities!New, Identities!Points
<1>2. PointFits(point') /\ PointWritten(c) /\ ListedWritten(c)
  BY <1>1, IdentityNames DEF PointFits, PointWritten, ListedWritten
<1>3. /\ DOMAIN listed \subseteq Identities!Ids
      /\ listed \in [DOMAIN listed -> [by : Identities!Ids, identity : Identities!Ids]]
  BY DEF IdentityInv, IdentityTyped
<1>4. Stands'
  <2>1. c \notin DOMAIN listed
    BY IdentityOrder DEF IdentityInv, IdentityByDone
  <2> QED BY <1>1, <2>1 DEF Stands, Identities!LockedWhilePublished, Identities!PublishedIsConfirmed,
       Identities!BootKeepsConfirmed, Identities!Published, Identities!Confirmed
<1> QED BY <1>2, <1>3, <1>4, IdentityOthers DEF Stands, IdentityInv

\* c writes the identity, the confirmation or both.
LEMMA IdentityRewrites ==
  ASSUME IdentityInv, NEW c \in Calls, IdentityProceeds(c), identifying[c].at = "write",
         identifying'[c].at = "done", identifying'[c].kind = identifying[c].kind,
         identifying'[c].after = identifying[c].after, ReadSince(c)',
         listed' = listed, PointFits(point'), point'.id = point.id, point.id # Identities!NoOne,
         (point.booted => point'.booted), point'.writer = c,
         point'.confirmer = point.confirmer \/ point'.confirmer = c,
         PublishedSince(c, point.id),
         identifying[c].kind = "boot" /\ Identities!Confirmed(point') =>
           point'.confirmer \in Calls \ identifying[c].after /\ point'.confirmer = point.confirmer
  PROVE  IdentityInv'
<1>1. /\ DOMAIN listed \subseteq Identities!Ids
      /\ listed \in [DOMAIN listed -> [by : Identities!Ids, identity : Identities!Ids]]
  BY DEF IdentityInv, IdentityTyped
<1>2. PointWritten(c) /\ ListedWritten(c)
  BY DEF PointWritten, ListedWritten
<1>3. ASSUME NEW x \in Calls \ identifying[c].after, Over(x) PROVE OverlapNext(c, x)
  BY <1>3, IdentityOrder, IdentityNames DEF OverlapNext
<1>4. ASSUME Identities!Published'
      PROVE  Identities!Overlap(point.writer, listed[point.id].by)' /\ Identities!Published
  <2>1. point.id \in DOMAIN listed
    BY <1>4 DEF Identities!Published
  <2>2. listed[point.id].by \in Calls \ identifying[c].after /\ Over(listed[point.id].by)
    BY <2>1 DEF PublishedSince, IdentityInv, IdentityByDone
  <2>3. OverlapNext(c, listed[point.id].by)
    BY <1>3, <2>2
  <2> QED BY <2>1, <2>3 DEF OverlapNext, Identities!Overlap, Identities!Published
<1>5. Identities!LockedWhilePublished'
  BY <1>4 DEF Identities!LockedWhilePublished
<1>6. Identities!PublishedIsConfirmed'
  <2>1. c # Identities!NoOne
    BY IdentityNames
  <2> QED BY <1>4, <2>1 DEF Identities!PublishedIsConfirmed, IdentityInv, Identities!Confirmed
<1>7. Identities!BootKeepsConfirmed'
  <2> SUFFICES ASSUME Identities!Confirmed(point'), identifying'[c].kind = "boot"
               PROVE  OverlapNext(c, point'.confirmer)
    BY DEF Identities!BootKeepsConfirmed, OverlapNext, Identities!Overlap
  <2>1. point'.confirmer \in Calls \ identifying[c].after /\ Over(point'.confirmer)
    BY DEF IdentityInv, IdentityByDone
  <2> QED BY <1>3, <2>1
<1> QED BY <1>1, <1>2, <1>5, <1>6, <1>7, IdentityOthers DEF IdentityInv

\* What a call reads is what the charge point is.
LEMMA IdentityReadSteps ==
  ASSUME IdentityInv, NEW c \in Calls,
         \/ Identities!ReadForBoot(c) \/ Identities!ReadUnpublished(c)
         \/ Identities!ReadForPublication(c) \/ Identities!FindListing(c)
  PROVE  IdentityInv'
<1>1. point' = point /\ listed' = listed
  BY DEF Identities!ReadForBoot, Identities!ReadUnpublished, Identities!ReadForPublication, Identities!FindListing
<1>2. CASE Identities!ReadForBoot(c)
  <2>1. /\ IdentityProceeds(c) /\ identifying'[c].at = "write" /\ identifying'[c].kind = "boot"
        /\ identifying'[c].seen = point
    BY <1>2, IdentityBegun DEF Identities!ReadForBoot
  <2>2. ~ Identities!Confirmed(point) => point.id \notin DOMAIN listed
    BY DEF IdentityInv, Identities!PublishedIsConfirmed, Identities!Published
  <2>3. ReadSince(c)'
    BY <1>1, <2>1, <2>2 DEF ReadSince, PublishedSince, Identities!Confirmed
  <2> QED BY <1>1, <2>1, <2>3, IdentityRead
<1>3. CASE Identities!ReadUnpublished(c)
  <2>1. PICK kind \in {"update", "confirm"} : Identities!Begin(c, "write", kind)
    BY <1>3 DEF Identities!ReadUnpublished
  <2>2. /\ IdentityProceeds(c) /\ identifying'[c].at = "write" /\ identifying'[c].kind = kind
        /\ identifying'[c].seen = point
    BY <2>1, IdentityBegun
  <2>3. point.id # Identities!NoOne /\ point.id \notin DOMAIN listed
    BY <1>3 DEF Identities!ReadUnpublished, Identities!Exists, Identities!Published
  <2>4. ReadSince(c)'
    BY <1>1, <2>2, <2>3 DEF ReadSince, PublishedSince
  <2> QED BY <1>1, <2>2, <2>4, IdentityRead
<1>4. CASE Identities!ReadForPublication(c)
  <2>1. point.id # Identities!NoOne
    BY <1>4 DEF Identities!ReadForPublication, Identities!Exists
  <2>2. CASE Identities!Publishable(point) /\ Identities!Begin(c, "find", "publish")
    <3>1. /\ IdentityProceeds(c) /\ identifying'[c].at = "find" /\ identifying'[c].kind = "publish"
          /\ identifying'[c].seen = point
      BY <2>2, IdentityBegun
    <3>2. ReadSince(c)'
      BY <1>1, <2>1, <2>2, <3>1 DEF ReadSince, Identities!Publishable, Identities!Confirmed
    <3> QED BY <1>1, <3>1, <3>2, IdentityRead
  <2>3. CASE \E kind \in {"unpublish", "remove"} : Identities!Begin(c, "write", kind)
    <3>1. PICK kind \in {"unpublish", "remove"} : Identities!Begin(c, "write", kind)
      BY <2>3
    <3>2. IdentityProceeds(c) /\ identifying'[c].at = "write" /\ identifying'[c].kind = kind
      BY <3>1, IdentityBegun
    <3>3. ReadSince(c)'
      BY <3>2 DEF ReadSince
    <3> QED BY <1>1, <3>2, <3>3, IdentityRead
  <2> QED BY <1>4, <2>2, <2>3 DEF Identities!ReadForPublication
<1>5. CASE Identities!FindListing(c)
  <2> DEFINE at == IF Identities!StillThere(c) THEN "write" ELSE "done"
             found == identifying[c].seen.id \in DOMAIN listed
  <2>1. /\ identifying[c].at = "find" /\ identifying[c].kind = "publish"
        /\ identifying' = [identifying EXCEPT ![c] = WentOn(identifying[c], at, found)]
    BY <1>5 DEF Identities!FindListing, Identities!At, WentOn
  <2>2. at \in {"write", "done"} /\ found \in BOOLEAN
    OBVIOUS
  <2> HIDE DEF at, found
  <2>3. /\ IdentityProceeds(c) /\ identifying'[c].at = at /\ identifying'[c].kind = "publish"
        /\ identifying'[c].seen = identifying[c].seen /\ identifying'[c].after = identifying[c].after
    BY <2>1, <2>2, IdentityGoesOn
  <2>4. ReadSince(c)
    BY DEF IdentityInv
  <2>5. ReadSince(c)'
    BY <1>1, <2>1, <2>3, <2>4 DEF ReadSince, Identities!Confirmed
  <2> QED BY <1>1, <2>3, <2>5, IdentityRead
<1> QED BY <1>2, <1>3, <1>4, <1>5

\* A boot and a creation write what nobody confirmed.
LEMMA IdentityBootSteps ==
  ASSUME IdentityInv, NEW c \in Calls,
         Identities!CreateOnBoot(c) \/ Identities!UpdateOnBoot(c) \/ Identities!CreatePoint(c)
  PROVE  IdentityInv'
<1>1. listed' = listed
  BY DEF Identities!CreateOnBoot, Identities!UpdateOnBoot, Identities!CreatePoint
<1>2. CASE Identities!CreatePoint(c)
  <2>1. IdentityProceeds(c) /\ identifying'[c].at = "done"
    BY <1>2, IdentityBegun DEF Identities!CreatePoint
  <2>2. ReadSince(c)'
    BY <2>1 DEF ReadSince
  <2> QED BY <1>1, <1>2, <2>1, <2>2, IdentityNew DEF Identities!CreatePoint
<1>3. CASE Identities!CreateOnBoot(c)
  <2>1. identifying[c].at = "write" /\ Identities!Done(c)
    BY <1>3 DEF Identities!CreateOnBoot, Identities!At
  <2>2. IdentityProceeds(c) /\ identifying'[c].at = "done" /\ ReadSince(c)'
    BY <2>1, IdentityEnds
  <2>3. PICK complete \in BOOLEAN :
          point' = IF Identities!Exists THEN point ELSE Identities!New(c, complete, TRUE)
    BY <1>3 DEF Identities!CreateOnBoot
  <2>4. CASE point' = point
    BY <1>1, <2>2, <2>4, IdentityRead
  <2>5. CASE point' = Identities!New(c, complete, TRUE)
    BY <1>1, <2>2, <2>5, IdentityNew
  <2> QED BY <2>3, <2>4, <2>5
<1>4. CASE Identities!UpdateOnBoot(c)
  <2> DEFINE seen == identifying[c].seen
  <2>1. identifying[c].at = "write" /\ identifying[c].kind = "boot" /\ Identities!Done(c) /\ seen # Identities!NoPoint
    BY <1>4 DEF Identities!UpdateOnBoot, Identities!At
  <2>2. /\ IdentityProceeds(c) /\ identifying'[c].at = "done" /\ ReadSince(c)'
        /\ identifying'[c].kind = identifying[c].kind /\ identifying'[c].after = identifying[c].after
    BY <2>1, IdentityEnds
  <2>3. PointFits(seen) /\ PointFits(point) /\ ReadSince(c)
    BY DEF IdentityInv, IdentityTyped
  <2>4. seen.id # Identities!NoOne /\ seen.identity \in Identities!Ids /\ seen.complete \in BOOLEAN
    BY <2>1, <2>3 DEF PointFits, Identities!Points
  <2>5. PICK reported \in BOOLEAN, filled \in BOOLEAN :
          point' = IF ~ Identities!StillThere(c) THEN point
                   ELSE IF ~ Identities!Confirmed(seen)
                   THEN [point EXCEPT !.booted = TRUE, !.identity = IF reported THEN c ELSE seen.identity,
                           !.writer = c, !.complete = seen.complete \/ (reported /\ filled)]
                   ELSE [point EXCEPT !.booted = TRUE]
    BY <1>4 DEF Identities!UpdateOnBoot, Identities!Identity
  <2>6. CASE ~ Identities!StillThere(c)
    BY <1>1, <2>2, <2>5, <2>6, IdentityRead
  <2>7. CASE Identities!StillThere(c) /\ Identities!Confirmed(seen)
    <3>1. point' = [point EXCEPT !.booted = TRUE] /\ point.id = seen.id
      BY <2>5, <2>7 DEF Identities!StillThere
    <3>2. /\ PointFits(point') /\ point'.id = point.id /\ point'.identity = point.identity
          /\ point'.writer = point.writer /\ point'.confirmer = point.confirmer
          /\ point'.complete = point.complete /\ point'.booted
      BY <2>3, <2>4, <3>1 DEF PointFits, Identities!Points
    <3>3. PointWritten(c) /\ ListedWritten(c)
      BY <1>1, <3>2 DEF PointWritten, ListedWritten
    <3>4. /\ DOMAIN listed \subseteq Identities!Ids
          /\ listed \in [DOMAIN listed -> [by : Identities!Ids, identity : Identities!Ids]]
      BY DEF IdentityInv, IdentityTyped
    <3>5. Stands'
      BY <1>1, <2>2, <2>4, <3>1, <3>2, IdentityStands
    <3> QED BY <1>1, <2>2, <3>2, <3>3, <3>4, <3>5, IdentityOthers DEF Stands, IdentityInv
  <2>8. CASE Identities!StillThere(c) /\ ~ Identities!Confirmed(seen)
    <3> DEFINE identity == IF reported THEN c ELSE seen.identity
               complete == seen.complete \/ (reported /\ filled)
    <3>1. /\ point' = [point EXCEPT !.booted = TRUE, !.identity = identity, !.writer = c, !.complete = complete]
          /\ point.id = seen.id
      BY <2>5, <2>8 DEF Identities!StillThere
    <3>2. identity \in Identities!Ids /\ complete \in BOOLEAN /\ c \in Identities!Ids
      BY <2>4, IdentityNames
    <3> HIDE DEF identity, complete
    <3>3. /\ PointFits(point') /\ point'.id = point.id /\ point'.booted /\ point'.writer = c
          /\ point'.confirmer = point.confirmer
      BY <2>3, <2>4, <3>1, <3>2 DEF PointFits, Identities!Points
    <3>4. /\ PublishedSince(c, point.id)
          /\ Identities!Confirmed(point) => point.confirmer \in Calls \ identifying[c].after
      BY <2>1, <2>3, <2>8, <3>1 DEF ReadSince
    <3>5. point.id # Identities!NoOne /\ (Identities!Confirmed(point') => Identities!Confirmed(point))
      BY <2>4, <3>1, <3>3 DEF Identities!Confirmed
    <3> QED BY <1>1, <2>1, <2>2, <3>3, <3>4, <3>5, IdentityRewrites
  <2> QED BY <2>6, <2>7, <2>8
<1> QED BY <1>2, <1>3, <1>4

\* Updates and confirmations write what was unpublished when they read it.
LEMMA IdentityWriteSteps ==
  ASSUME IdentityInv, NEW c \in Calls, Identities!UpdateIdentity(c) \/ Identities!ConfirmIdentity(c)
  PROVE  IdentityInv'
<1> DEFINE seen == identifying[c].seen
<1>1. /\ listed' = listed /\ identifying[c].at = "write" /\ identifying[c].kind \in {"update", "confirm"}
      /\ Identities!Done(c)
  BY DEF Identities!UpdateIdentity, Identities!ConfirmIdentity, Identities!At
<1>2. /\ IdentityProceeds(c) /\ identifying'[c].at = "done" /\ ReadSince(c)'
      /\ identifying'[c].kind = identifying[c].kind /\ identifying'[c].after = identifying[c].after
  BY <1>1, IdentityEnds
<1>3. PointFits(point) /\ seen.id # Identities!NoOne /\ PublishedSince(c, seen.id)
  BY <1>1 DEF IdentityInv, IdentityTyped, ReadSince
<1>4. c \in Identities!Ids
  BY IdentityNames
<1>5. CASE point' = point
  BY <1>1, <1>2, <1>5, IdentityRead
<1>6. ASSUME NEW complete \in BOOLEAN, Identities!StillThere(c),
             \/ point' = [point EXCEPT !.identity = c, !.complete = complete, !.writer = c]
             \/ point' = [point EXCEPT !.identity = c, !.complete = TRUE, !.confirmer = c, !.writer = c]
      PROVE  IdentityInv'
  <2>1. point.id = seen.id
    BY <1>6 DEF Identities!StillThere
  <2>2. /\ PointFits(point') /\ point'.id = point.id /\ (point.booted => point'.booted) /\ point'.writer = c
        /\ point'.confirmer = point.confirmer \/ point'.confirmer = c
    BY <1>3, <1>4, <1>6, <2>1 DEF PointFits, Identities!Points
  <2> QED BY <1>1, <1>2, <1>3, <2>1, <2>2, IdentityRewrites
<1>7. point' = point \/ (Identities!StillThere(c) /\
        \/ \E complete \in BOOLEAN : point' = [point EXCEPT !.identity = c, !.complete = complete, !.writer = c]
        \/ point' = [point EXCEPT !.identity = c, !.complete = TRUE, !.confirmer = c, !.writer = c])
  BY DEF Identities!UpdateIdentity, Identities!ConfirmIdentity
<1> QED BY <1>5, <1>6, <1>7

\* Removal takes the charge point and its listing.
LEMMA IdentityRemove ==
  ASSUME IdentityInv, NEW c \in Calls, Identities!Remove(c)
  PROVE  IdentityInv'
<1>1. listed' = listed /\ identifying[c].at = "write" /\ Identities!Done(c)
  BY DEF Identities!Remove, Identities!At
<1>2. IdentityProceeds(c) /\ identifying'[c].at = "done" /\ ReadSince(c)'
  BY <1>1, IdentityEnds
<1>3. CASE point' = point
  BY <1>1, <1>2, <1>3, IdentityRead
<1>4. CASE point' = Identities!NoPoint
  <2>1. PointFits(point') /\ point'.id = Identities!NoOne /\ PointWritten(c) /\ ListedWritten(c)
    BY <1>1, <1>4, IdentityNames DEF PointWritten, ListedWritten
  <2>2. /\ DOMAIN listed \subseteq Identities!Ids
        /\ listed \in [DOMAIN listed -> [by : Identities!Ids, identity : Identities!Ids]]
    BY DEF IdentityInv, IdentityTyped
  <2> QED BY <1>1, <1>2, <2>1, <2>2, IdentityNone, IdentityOthers DEF Stands, IdentityInv
<1> QED BY <1>3, <1>4 DEF Identities!Remove

\* c writes the locations.
LEMMA IdentityListed ==
  ASSUME IdentityInv, NEW c \in Calls, IdentityProceeds(c), identifying'[c].at = "done", ReadSince(c)',
         point' = point, DOMAIN listed' \subseteq Identities!Ids,
         listed' \in [DOMAIN listed' -> [by : Identities!Ids, identity : Identities!Ids]],
         ListedWritten(c),
         point.id \in DOMAIN listed' =>
           \/ point.id \in DOMAIN listed /\ listed'[point.id] = listed[point.id]
           \/ /\ listed'[point.id] = [by |-> c, identity |-> point.identity]
              /\ point.booted /\ Identities!Confirmed(point)
              /\ point.complete \/ OverlapNext(point.writer, c)
  PROVE  IdentityInv'
<1>1. PointFits(point) /\ PointWritten(c)
  BY DEF IdentityInv, IdentityTyped, PointWritten
<1>2. Stands'
  <2>1. CASE point.id = Identities!NoOne
    BY <1>1, <2>1, IdentityNone
  <2>2. CASE /\ point.id # Identities!NoOne
             /\ point.id \in DOMAIN listed' => point.id \in DOMAIN listed /\ listed'[point.id] = listed[point.id]
    BY <2>2, IdentityStands
  <2>3. CASE /\ point.id # Identities!NoOne /\ point.id \in DOMAIN listed'
             /\ listed'[point.id] = [by |-> c, identity |-> point.identity]
             /\ point.booted /\ Identities!Confirmed(point)
             /\ point.complete \/ OverlapNext(point.writer, c)
    <3>1. Identities!LockedWhilePublished' /\ Identities!PublishedIsConfirmed'
      BY <2>3 DEF Identities!LockedWhilePublished, Identities!PublishedIsConfirmed, Identities!Confirmed,
        OverlapNext, Identities!Overlap
    <3>2. Identities!BootKeepsConfirmed'
      \* as if the locations had stayed as they are
      <4>1. /\ point.writer \in Identities!Ids /\ Over(point.writer) /\ Over(point.confirmer)
            /\ point.confirmer \in Identities!Ids \cup {Identities!NoOne}
        BY <1>1, <2>3 DEF IdentityInv, PointFits, Identities!Points, IdentityByDone
      <4> SUFFICES ASSUME Identities!Confirmed(point), point.writer # Identities!Stored,
                          identifying'[point.writer].kind = "boot"
                   PROVE  OverlapNext(point.writer, point.confirmer)
        BY DEF Identities!BootKeepsConfirmed, OverlapNext, Identities!Overlap, Identities!Confirmed
      <4>2. point.writer \in Calls /\ point.confirmer \in Identities!Ids
        BY <4>1, IdentityNames DEF Identities!Confirmed
      <4>3. identifying'[point.writer] = identifying[point.writer]
        BY <4>1, <4>2, IdentityOrder DEF Over
      <4>4. Identities!Overlap(point.writer, point.confirmer)
        BY <4>3 DEF IdentityInv, Identities!BootKeepsConfirmed
      <4> QED BY <4>1, <4>2, <4>4, IdentityOverlapKept
    <3> QED BY <3>1, <3>2 DEF Stands
  <2> QED BY <2>1, <2>2, <2>3
<1> QED BY <1>1, <1>2, IdentityOthers DEF Stands, IdentityInv

\* What is published was confirmed when it was read.
LEMMA IdentityPublicationSteps ==
  ASSUME IdentityInv, NEW c \in Calls, Identities!Publish(c) \/ Identities!Unpublish(c)
  PROVE  IdentityInv'
<1> DEFINE i == identifying[c].seen.id
<1>1. point' = point /\ identifying[c].at = "write" /\ Identities!Done(c)
  BY DEF Identities!Publish, Identities!Unpublish, Identities!At
<1>2. IdentityProceeds(c) /\ identifying'[c].at = "done" /\ ReadSince(c)'
      /\ identifying'[c].after = identifying[c].after
  BY <1>1, IdentityEnds
<1>3. /\ DOMAIN listed \subseteq Identities!Ids
      /\ listed \in [DOMAIN listed -> [by : Identities!Ids, identity : Identities!Ids]]
  BY DEF IdentityInv, IdentityTyped
<1>4. CASE Identities!Unpublish(c)
  <2>1. listed' = [j \in DOMAIN listed \ {i} |-> listed[j]]
    BY <1>4 DEF Identities!Unpublish
  <2>2. /\ DOMAIN listed' = DOMAIN listed \ {i} /\ \A j \in DOMAIN listed' : listed'[j] = listed[j]
        /\ listed' \in [DOMAIN listed' -> [by : Identities!Ids, identity : Identities!Ids]]
    BY <1>3, <2>1
  <2>3. ListedWritten(c)
    BY <2>2 DEF ListedWritten
  <2> QED BY <1>1, <1>2, <1>3, <2>2, <2>3, IdentityListed
<1>5. CASE Identities!Publish(c) /\ listed' = listed
  BY <1>1, <1>2, <1>5, IdentityRead
<1>6. CASE Identities!Publish(c) /\ listed' # listed
  <2> DEFINE identity == IF Identities!StillThere(c) THEN point.identity ELSE c
             row == [by |-> c, identity |-> identity]
  <2>1. /\ identifying[c].kind = "publish" /\ i \notin DOMAIN listed
        /\ listed' = [j \in DOMAIN listed \cup {i} |-> IF j = i THEN row ELSE listed[j]]
    BY <1>6 DEF Identities!Publish, Identities!At
  <2>2. /\ i # Identities!NoOne /\ Over(i)
        /\ point.id = i => /\ point.booted /\ Identities!Confirmed(point)
                           /\ point.complete \/ point.writer \in Calls \ identifying[c].after
    BY <1>1, <2>1 DEF IdentityInv, ReadSince, IdentityByDone
  <2>3. i \in Identities!Ids \cup {Identities!NoOne} /\ PointFits(point) /\ Over(point.writer)
    BY DEF IdentityInv, IdentityTyped, PointFits, Identities!Points, IdentityByDone
  <2>4. identity \in Identities!Ids /\ c \in Identities!Ids
    BY <2>2, <2>3, IdentityNames DEF PointFits, Identities!StillThere
  <2>5. row \in [by : Identities!Ids, identity : Identities!Ids] /\ row.by = c
    BY <2>4
  <2>6. point.id = i => row = [by |-> c, identity |-> point.identity]
    BY DEF Identities!StillThere
  <2> HIDE DEF row, i, identity
  <2>7. /\ DOMAIN listed' = DOMAIN listed \cup {i} /\ listed'[i] = row
        /\ \A j \in DOMAIN listed : listed'[j] = listed[j]
        /\ listed' \in [DOMAIN listed' -> [by : Identities!Ids, identity : Identities!Ids]]
        /\ DOMAIN listed' \subseteq Identities!Ids
    BY <1>3, <2>1, <2>2, <2>3, <2>5
  <2>8. ListedWritten(c)
    BY <2>2, <2>5, <2>7 DEF ListedWritten
  <2>9. ASSUME NEW x \in Calls \ identifying[c].after, Over(x) PROVE OverlapNext(x, c)
    <3>1. x # c /\ c \notin identifying'[x].after /\ x \notin identifying'[c].after
      BY <1>2, <2>9, IdentityOrder
    <3> QED BY <2>9, <3>1, IdentityNames DEF OverlapNext
  <2>10. point.id = i => /\ point.booted /\ Identities!Confirmed(point)
                         /\ point.complete \/ OverlapNext(point.writer, c)
    BY <2>2, <2>3, <2>9
  <2> QED BY <1>1, <1>2, <2>6, <2>7, <2>8, <2>10, IdentityListed
<1> QED BY <1>4, <1>5, <1>6

\* Every step of the charge point preserves its invariant.
LEMMA IdentityStep == ASSUME IdentityInv, [Identities!Next]_(Identities!vars) PROVE IdentityInv'
<1>1. CASE UNCHANGED Identities!vars
  BY <1>1 DEF Identities!vars, IdentityInv, IdentityTyped, IdentityAfterDone, IdentityByDone, Over, ReadSince,
     PublishedSince, PointFits, Identities!LockedWhilePublished, Identities!PublishedIsConfirmed,
     Identities!BootKeepsConfirmed, Identities!Published, Identities!Confirmed, Identities!Overlap
<1>2. CASE Identities!Next
  BY <1>2, IdentityReadSteps, IdentityBootSteps, IdentityWriteSteps, IdentityPublicationSteps, IdentityRemove
  DEF Identities!Next
<1> QED BY <1>1, <1>2

\* What the invariant of the charge point says of it.
LEMMA IdentityProperties ==
  IdentityInv => /\ Identities!TypeOK /\ Identities!LockedWhilePublished
                 /\ Identities!PublishedIsConfirmed /\ Identities!BootKeepsConfirmed
  BY DEF IdentityInv, IdentityTyped, PointFits, IdentityCall, Identities!TypeOK

----------------------------------------------------------------------------
(* Providers, their relationships and their documents                      *)

Vetters == DOMAIN Providers!ProviderStep
Relaters == DOMAIN Providers!RelationshipStep
Approvers == {"approve", "activate"}

VettingCall == [at : {"idle", "find", "comply", "write", "done"},
                kind : {"none", "request"} \cup Vetters \cup Relaters,
                row : Providers!Ids \cup {Providers!NoOne}, found : SUBSET Providers!Scopes,
                changed : SUBSET Providers!Scopes, after : SUBSET Calls]

RelationshipRow == [status : Providers!RelationshipStatus, writer : Providers!Ids,
                    terminator : Calls \cup {Providers!NoOne}, reopener : Calls \cup {Providers!NoOne}]

DocumentRow == [scope : Providers!Scopes, verified : BOOLEAN, expired : BOOLEAN]

ProviderRow == [status : Providers!ProviderStatus, writer : Providers!Ids]

ProvidersTyped ==
  /\ provider \in ProviderRow
  /\ DOMAIN relationships \subseteq Providers!Ids
  /\ relationships \in [DOMAIN relationships -> RelationshipRow]
  /\ DOMAIN documents \subseteq Calls \cup Providers!Scopes
  /\ documents \in [DOMAIN documents -> DocumentRow]
  /\ vetting \in [Calls -> VettingCall]

VettingAfterDone == \A c \in Calls : \A d \in vetting[c].after : vetting[d].at = "done"

VettingDone(x, kinds) == x \in Calls => vetting[x].at = "done" /\ vetting[x].kind \in kinds
VettingOver(x) == x \in Calls => vetting[x].at = "done"
VettingDoneNext(x, kinds) == x \in Calls => vetting'[x].at = "done" /\ vetting'[x].kind \in kinds
VettingOverNext(x) == x \in Calls => vetting'[x].at = "done"
OpenNext(r) == relationships'[r].status # "TERMINATED"

\* Whoever a row names is done, and was there to do it.
VettedByDone ==
  /\ provider.status = "APPROVED" => VettingDone(provider.writer, {"approve"})
  /\ \A r \in DOMAIN relationships :
       /\ VettingDone(r, {"request"})
       /\ relationships[r].status = "ACTIVE" => VettingDone(relationships[r].writer, {"activate"})
       /\ VettingOver(relationships[r].terminator) /\ VettingOver(relationships[r].reopener)
       /\ ~ Providers!Open(r) \/ relationships[r].reopener # Providers!NoOne => relationships[r].terminator \in Calls
  /\ \A d \in DOMAIN documents : VettingOver(d)

\* A document of the scope is in force.
Covered(s) == \E d \in DOMAIN documents : documents[d].scope = s /\ Providers!InForce(d)

Undoes(c) == vetting[c].kind \in {"submit", "reject"}

\* c, a request, was overlapped by a call that takes approvals back.
Undone(c) ==
  \E u \in Calls \ {c} :
    /\ vetting[u].at = "done" /\ Undoes(u)
    /\ u \notin vetting[c].after /\ c \notin vetting[u].after

\* The provider is approved, and who could take that back began before the request was over.
StillApproved(c) ==
  /\ provider.status \in {"APPROVED", "SUSPENDED"}
  /\ \A u \in Calls : vetting[u].at # "done" /\ Undoes(u) => c \notin vetting[u].after

\* What a call has found still holds, or was changed since it began.
FoundSince(c) ==
  LET call == vetting[c]
  IN  /\ call.at = "idle" => call.kind = "none"
      /\ call.at = "find" => call.kind = "request"
      /\ call.at = "comply" => call.kind \in Approvers
      /\ call.at = "write" /\ call.kind = "request" =>
           \A r \in DOMAIN relationships :
             Providers!Open(r) => \/ relationships[r].reopener # Providers!NoOne
                                  \/ r \in Calls \ call.after
      /\ call.at \in {"comply", "write"} /\ call.kind \in Relaters =>
           /\ call.row \in DOMAIN relationships
           /\ Providers!Open(call.row) \/ relationships[call.row].terminator \in Calls \ call.after
      /\ call.kind \in Approvers =>
           /\ call.at \in {"write", "done"} => call.found = Providers!Needed(call.kind)
           /\ \A s \in call.found : Covered(s) \/ s \in call.changed
      /\ call.kind = "request" => StillApproved(c) \/ Undone(c)

\* Whoever has a relationship from the beginning was approved then.
StoredIsApproved ==
  Providers!Stored \in DOMAIN relationships =>
    provider.status \in {"APPROVED", "SUSPENDED"} /\ \A c \in Calls : ~ Undoes(c)

ProvidersInv ==
  /\ ProvidersTyped /\ VettingAfterDone /\ VettedByDone /\ StoredIsApproved
  /\ \A c \in Calls : FoundSince(c)
  /\ Providers!OneOpenRelationship /\ Providers!TerminatedStays

VettingOverlapNext(x, y) ==
  x # y /\ Providers!Stored \notin {x, y} /\ x \notin vetting'[y].after /\ y \notin vetting'[x].after

\* The names of the model differ from each other.
LEMMA ProvidersNames ==
  /\ Providers!NoOne \notin Calls /\ Providers!Stored \notin Calls /\ Providers!Stored # Providers!NoOne
  /\ Providers!Ids = Calls \cup {Providers!Stored}
  /\ \A s \in Providers!Scopes : s \notin Calls
  /\ Vetters = {"submit", "approve", "reject", "suspend"}
  /\ Relaters = {"accept", "decline", "activate", "pause", "terminate"}
  /\ Providers!NoVetting \in VettingCall /\ Providers!Gone \in VettingCall
  /\ Providers!Gone.at = "done" /\ Providers!Gone.kind = "none" /\ Providers!Gone.after = {}
<1>1. /\ Providers!NoOne \notin Calls /\ Providers!Stored \notin Calls /\ Providers!Stored # Providers!NoOne
      /\ Providers!Ids = Calls \cup {Providers!Stored} /\ \A s \in Providers!Scopes : s \notin Calls
  BY RecordsAssumption DEF Providers!ProvidersAssumption, Providers!NoOne, Providers!Stored, Providers!Ids
<1>2. /\ Vetters = {"submit", "approve", "reject", "suspend"}
      /\ Relaters = {"accept", "decline", "activate", "pause", "terminate"}
  BY DEF Vetters, Relaters, Providers!ProviderStep, Providers!RelationshipStep
<1>3. /\ Providers!NoVetting \in VettingCall /\ Providers!Gone \in VettingCall
      /\ Providers!Gone.at = "done" /\ Providers!Gone.kind = "none" /\ Providers!Gone.after = {}
  BY DEF Providers!NoVetting, Providers!Gone, VettingCall
<1> QED BY <1>1, <1>2, <1>3

\* The provider and its relationships may be stored, and nobody has begun.
LEMMA ProvidersInit == Providers!Init => ProvidersInv
<1> SUFFICES ASSUME Providers!Init PROVE ProvidersInv
  OBVIOUS
<1>1. vetting = [c \in Calls |-> Providers!NoVetting]
  BY DEF Providers!Init
<1>2. /\ Providers!NoVetting \in VettingCall /\ Providers!NoVetting.at = "idle" /\ Providers!NoVetting.kind = "none"
      /\ Providers!NoVetting.after = {}
  BY ProvidersNames DEF Providers!NoVetting
<1>3. provider \in ProviderRow /\ provider.writer = Providers!Stored
  BY ProvidersNames DEF Providers!Init, ProviderRow
<1>4. /\ relationships \in [DOMAIN relationships -> RelationshipRow]
      /\ DOMAIN relationships \subseteq {Providers!Stored}
      /\ DOMAIN relationships # {} => provider.status \in {"APPROVED", "SUSPENDED"}
      /\ \A r \in DOMAIN relationships :
           /\ relationships[r].writer = Providers!Stored /\ relationships[r].terminator = Providers!NoOne
           /\ relationships[r].reopener = Providers!NoOne /\ relationships[r].status # "TERMINATED"
  <2>1. CASE relationships = << >>
    BY <2>1
  <2>2. CASE /\ provider.status \in {"APPROVED", "SUSPENDED"}
             /\ \E status \in Providers!RelationshipStatus \ {"TERMINATED"} :
                  relationships = [r \in {Providers!Stored} |-> [status |-> status, writer |-> Providers!Stored,
                                                  terminator |-> Providers!NoOne, reopener |-> Providers!NoOne]]
    BY <2>2, ProvidersNames DEF RelationshipRow
  <2> QED BY <2>1, <2>2 DEF Providers!Init
<1>5. /\ DOMAIN documents \subseteq Providers!Scopes
      /\ documents \in [DOMAIN documents -> DocumentRow]
  BY DEF Providers!Init, DocumentRow
<1>6. ProvidersTyped /\ VettingAfterDone
  BY <1>1, <1>2, <1>3, <1>4, <1>5, ProvidersNames DEF ProvidersTyped, VettingAfterDone
<1>7. VettedByDone /\ StoredIsApproved
  BY <1>1, <1>2, <1>3, <1>4, <1>5, ProvidersNames DEF VettedByDone, StoredIsApproved, VettingDone, VettingOver,
    Providers!Open, Undoes
<1>8. \A c \in Calls : FoundSince(c)
  BY <1>1, <1>2, ProvidersNames DEF FoundSince, Approvers
<1>9. Providers!OneOpenRelationship /\ Providers!TerminatedStays
  BY <1>4 DEF Providers!OneOpenRelationship, Providers!TerminatedStays
<1> QED BY <1>6, <1>7, <1>8, <1>9 DEF ProvidersInv

\* What a call is at stays, but for the changes it learns of.
VettingKept(d) ==
  /\ vetting'[d].at = vetting[d].at /\ vetting'[d].kind = vetting[d].kind /\ vetting'[d].row = vetting[d].row
  /\ vetting'[d].found = vetting[d].found /\ vetting'[d].after = vetting[d].after
  /\ vetting[d].changed \subseteq vetting'[d].changed

\* The call c begins, goes on with what it began with, or is over with nothing written.
VettingProceeds(c) ==
  /\ vetting' \in [Calls -> VettingCall] /\ \A d \in Calls \ {c} : VettingKept(d)
  /\ vetting[c].at # "done"
  /\ \/ /\ vetting[c].at = "idle"
        /\ vetting'[c].after = {d \in Calls : vetting[d].at = "done" /\ vetting[d].kind # "none"}
        /\ vetting'[c].kind \in {"submit", "reject"} => provider.status \notin {"APPROVED", "SUSPENDED"}
     \/ /\ vetting[c].at # "idle" /\ vetting'[c].after = vetting[c].after
        /\ vetting'[c].kind = vetting[c].kind
     \/ vetting'[c] = Providers!Gone

\* A call that goes on leaves what was over over, and in its order.
LEMMA VettingOrder ==
  ASSUME ProvidersInv, NEW c \in Calls, VettingProceeds(c)
  PROVE  /\ VettingAfterDone'
         /\ \A d \in Calls : c \notin vetting[d].after /\ c \notin vetting'[d].after
         /\ \A d \in Calls : vetting[d].at = "done" => VettingKept(d)
         /\ \A x : VettingOver(x) => x # c /\ VettingOverNext(x)
         /\ \A x, kinds : VettingDone(x, kinds) => x # c /\ VettingDoneNext(x, kinds)
<1>1. \A d \in Calls : c \notin vetting[d].after /\ c \notin vetting'[d].after
  BY ProvidersNames DEF ProvidersInv, VettingAfterDone, VettingProceeds, VettingKept
<1>2. \A d \in Calls : vetting[d].at = "done" => VettingKept(d)
  BY DEF VettingProceeds
<1>3. VettingAfterDone'
  BY <1>1, <1>2, ProvidersNames DEF ProvidersInv, ProvidersTyped, VettingCall, VettingAfterDone, VettingProceeds,
    VettingKept
<1>4. ASSUME NEW x, VettingOver(x) PROVE x # c /\ VettingOverNext(x)
  BY <1>2, <1>4 DEF VettingOver, VettingOverNext, VettingKept, VettingProceeds
<1>5. ASSUME NEW x, NEW kinds, VettingDone(x, kinds) PROVE x # c /\ VettingDoneNext(x, kinds)
  BY <1>2, <1>5 DEF VettingDone, VettingDoneNext, VettingKept, VettingProceeds
<1> QED BY <1>1, <1>2, <1>3, <1>4, <1>5

\* A request that stood, or was undone, still does when c proceeds.
LEMMA VettingUndone ==
  ASSUME ProvidersInv, NEW c \in Calls, VettingProceeds(c), NEW d \in Calls \ {c}, Undone(d)
  PROVE  Undone(d)'
<1>1. PICK u \in Calls \ {d} : /\ vetting[u].at = "done" /\ Undoes(u)
                               /\ u \notin vetting[d].after /\ d \notin vetting[u].after
  BY DEF Undone
<1>2. VettingKept(u) /\ VettingKept(d)
  BY <1>1, VettingOrder DEF VettingProceeds
<1> QED BY <1>1, <1>2 DEF Undone, Undoes, VettingKept

\* Who found an approved provider finds it still, or was overlapped.
LEMMA VettingApproved ==
  ASSUME ProvidersInv, NEW c \in Calls, VettingProceeds(c), NEW d \in Calls \ {c}, StillApproved(d),
         provider'.status \in {"APPROVED", "SUSPENDED"}
  PROVE  StillApproved(d)'
<1> SUFFICES ASSUME NEW u \in Calls, vetting'[u].at # "done", Undoes(u)' PROVE d \notin vetting'[u].after
  BY DEF StillApproved
<1>1. CASE u # c
  BY <1>1 DEF VettingProceeds, VettingKept, StillApproved, Undoes
<1>2. CASE u = c
  BY <1>2, ProvidersNames DEF VettingProceeds, StillApproved, Undoes
<1> QED BY <1>1, <1>2

\* What the other calls have found still holds: the provider is as it was or still approved, the
\* relationships that c has opened are its own or reopened, those it has terminated name it.
LEMMA VettingOthers ==
  ASSUME ProvidersInv, NEW c \in Calls, VettingProceeds(c), NEW d \in Calls \ {c},
         StillApproved(d) => StillApproved(d)' \/ Undone(d)',
         \A r \in DOMAIN relationships' : OpenNext(r) =>
           \/ r \in DOMAIN relationships /\ Providers!Open(r) /\ relationships'[r].reopener = relationships[r].reopener
           \/ relationships'[r].reopener = c
           \/ r = c,
         \A r \in DOMAIN relationships :
           /\ r \in DOMAIN relationships'
           /\ \/ OpenNext(r)
              \/ ~ Providers!Open(r) /\ relationships'[r].terminator = relationships[r].terminator
              \/ relationships'[r].terminator = c,
         vetting[d].kind \in Approvers =>
           \A s \in Providers!Scopes : Covered(s) => Covered(s)' \/ s \in vetting'[d].changed
  PROVE  FoundSince(d)'
<1>1. FoundSince(d) /\ VettingKept(d) /\ c \notin vetting[d].after
  BY VettingOrder DEF ProvidersInv, VettingProceeds
<1> DEFINE call == vetting[d]
<1>2. call.found \subseteq Providers!Scopes
  BY DEF ProvidersInv, ProvidersTyped, VettingCall
<1>3. vetting'[d].at = "write" /\ vetting'[d].kind = "request" =>
        \A r \in DOMAIN relationships' :
          OpenNext(r) => \/ relationships'[r].reopener # Providers!NoOne
                               \/ r \in Calls \ vetting'[d].after
  BY <1>1, ProvidersNames DEF FoundSince, VettingKept, OpenNext, Providers!Open
<1>4. vetting'[d].at \in {"comply", "write"} /\ vetting'[d].kind \in Relaters =>
        /\ vetting'[d].row \in DOMAIN relationships'
        /\ OpenNext(vetting'[d].row) \/ relationships'[vetting'[d].row].terminator \in Calls \ vetting'[d].after
  BY <1>1 DEF FoundSince, VettingKept, OpenNext, Providers!Open
<1>5. vetting'[d].kind \in Approvers =>
        /\ vetting'[d].at \in {"write", "done"} => vetting'[d].found = Providers!Needed(vetting'[d].kind)
        /\ \A s \in vetting'[d].found : Covered(s)' \/ s \in vetting'[d].changed
  BY <1>1, <1>2 DEF FoundSince, VettingKept
<1>6. vetting'[d].kind = "request" => StillApproved(d)' \/ Undone(d)'
  BY <1>1, VettingUndone DEF FoundSince, VettingKept
<1> QED BY <1>1, <1>3, <1>4, <1>5, <1>6 DEF FoundSince, VettingKept, OpenNext, Providers!Open

\* Calls that overlap, or do not, go on to do so, once they are over.
LEMMA VettingOverlaps ==
  ASSUME ProvidersInv, NEW c \in Calls, VettingProceeds(c), NEW x, NEW y, VettingOver(x), VettingOver(y),
         x \in Providers!Ids, y \in Providers!Ids, Providers!Overlap(x, y)
  PROVE  VettingOverlapNext(x, y)
<1>1. x \in Calls /\ y \in Calls /\ x # y
  BY ProvidersNames DEF Providers!Overlap
<1>2. VettingKept(x) /\ VettingKept(y)
  BY <1>1, VettingOrder DEF VettingOver
<1> QED BY <1>1, <1>2 DEF Providers!Overlap, VettingOverlapNext, VettingKept

\* c writes no relationship.
LEMMA RelationshipsKept ==
  ASSUME ProvidersInv, NEW c \in Calls, VettingProceeds(c), relationships' = relationships
  PROVE  /\ Providers!OneOpenRelationship' /\ Providers!TerminatedStays'
         /\ \A r \in DOMAIN relationships :
              /\ VettingDoneNext(r, {"request"})
              /\ relationships[r].status = "ACTIVE" => VettingDoneNext(relationships[r].writer, {"activate"})
              /\ VettingOverNext(relationships[r].terminator) /\ VettingOverNext(relationships[r].reopener)
              /\ ~ Providers!Open(r) \/ relationships[r].reopener # Providers!NoOne => relationships[r].terminator \in Calls
<1>1. \A r \in DOMAIN relationships :
        /\ r \in Providers!Ids /\ relationships[r].terminator \in Providers!Ids \cup {Providers!NoOne}
        /\ relationships[r].reopener \in Providers!Ids \cup {Providers!NoOne}
        /\ VettingOver(r) /\ VettingOver(relationships[r].terminator) /\ VettingOver(relationships[r].reopener)
  BY ProvidersNames DEF ProvidersInv, ProvidersTyped, RelationshipRow, VettedByDone, VettingDone, VettingOver
<1>2. Providers!OneOpenRelationship'
  BY SMTT(40), <1>1, VettingOverlaps DEF ProvidersInv, Providers!OneOpenRelationship, Providers!Open, Providers!Overlap,
    VettingOverlapNext
<1>3. Providers!TerminatedStays'
  <2> SUFFICES ASSUME NEW r \in DOMAIN relationships, Providers!Open(r),
                      relationships[r].reopener # Providers!NoOne
               PROVE  VettingOverlapNext(relationships[r].reopener, relationships[r].terminator)
    BY DEF Providers!TerminatedStays, Providers!Open, Providers!Overlap, VettingOverlapNext
  <2>1. Providers!Overlap(relationships[r].reopener, relationships[r].terminator)
    BY DEF ProvidersInv, Providers!TerminatedStays
  <2>2. relationships[r].reopener \in Providers!Ids /\ relationships[r].terminator \in Providers!Ids
    BY <1>1, ProvidersNames DEF ProvidersInv, VettedByDone
  <2> QED BY <1>1, <2>1, <2>2, VettingOverlaps
<1> QED BY <1>2, <1>3, VettingOrder DEF ProvidersInv, VettedByDone

\* The stored relationship is an approved provider's.
LEMMA StoredApproved ==
  ASSUME ProvidersInv, NEW c \in Calls, VettingProceeds(c),
         Providers!Stored \in DOMAIN relationships' => Providers!Stored \in DOMAIN relationships,
         provider' = provider \/ provider'.status \in {"APPROVED", "SUSPENDED"}
  PROVE  StoredIsApproved'
<1> SUFFICES ASSUME Providers!Stored \in DOMAIN relationships
             PROVE  /\ provider'.status \in {"APPROVED", "SUSPENDED"}
                    /\ \A d \in Calls : vetting'[d].kind \notin {"submit", "reject"}
  BY DEF StoredIsApproved, Undoes
<1>1. provider.status \in {"APPROVED", "SUSPENDED"} /\ \A d \in Calls : ~ Undoes(d)
  BY DEF ProvidersInv, StoredIsApproved
<1> QED BY <1>1, ProvidersNames DEF VettingProceeds, VettingKept, Undoes

\* c has read, and written nothing.
LEMMA ProvidersRead ==
  ASSUME ProvidersInv, NEW c \in Calls, VettingProceeds(c), FoundSince(c)',
         provider' = provider, relationships' = relationships, documents' = documents
  PROVE  ProvidersInv'
<1>1. ProvidersTyped'
  BY DEF ProvidersInv, ProvidersTyped, VettingProceeds
<1>2. VettedByDone'
  <2>1. provider.status = "APPROVED" => VettingDoneNext(provider.writer, {"approve"})
    BY VettingOrder DEF ProvidersInv, VettedByDone
  <2>2. \A d \in DOMAIN documents : VettingOverNext(d)
    BY VettingOrder DEF ProvidersInv, VettedByDone
  <2> QED BY <2>1, <2>2, RelationshipsKept DEF VettedByDone, Providers!Open, VettingDone, VettingDoneNext,
        VettingOver, VettingOverNext
<1>3. ASSUME NEW d \in Calls \ {c} PROVE FoundSince(d)'
  <2>1. StillApproved(d) => StillApproved(d)'
    BY VettingApproved DEF StillApproved
  <2>2. \A r \in DOMAIN relationships : OpenNext(r) <=> Providers!Open(r)
    BY DEF OpenNext, Providers!Open
  <2>3. \A s \in Providers!Scopes : Covered(s) => Covered(s)'
    BY DEF Covered, Providers!InForce
  <2> QED BY <2>1, <2>2, <2>3, VettingOthers
<1>4. \A d \in Calls : FoundSince(d)'
  BY <1>3
<1> QED BY <1>1, <1>2, <1>4, VettingOrder, RelationshipsKept, StoredApproved DEF ProvidersInv

\* What a call is when it begins.
LEMMA VettingBegun ==
  ASSUME ProvidersInv, NEW c \in Calls, NEW at \in {"find", "comply", "write"},
         NEW kind \in {"request"} \cup Vetters \cup Relaters, NEW row \in Providers!Ids \cup {Providers!NoOne},
         Providers!Begin(c, at, kind, row),
         kind \in {"submit", "reject"} => provider.status \notin {"APPROVED", "SUSPENDED"}
  PROVE  /\ VettingProceeds(c) /\ vetting'[c].at = at /\ vetting'[c].kind = kind /\ vetting'[c].row = row
         /\ vetting'[c].found = {}
         /\ vetting'[c].after \subseteq {d \in Calls : vetting[d].at = "done" /\ vetting[d].kind # "none"}
<1> DEFINE after == {d \in Calls : vetting[d].at = "done" /\ vetting[d].kind # "none"}
           call == [at |-> at, kind |-> kind, row |-> row, found |-> {}, changed |-> {}, after |-> after]
<1>1. vetting[c].at = "idle" /\ vetting' = [vetting EXCEPT ![c] = call]
  BY DEF Providers!Begin
<1>2. /\ call \in VettingCall /\ call.at = at /\ call.kind = kind /\ call.row = row /\ call.found = {}
      /\ call.after = after
  BY DEF VettingCall
<1>3. vetting \in [Calls -> VettingCall]
  BY DEF ProvidersInv, ProvidersTyped
<1> HIDE DEF call, after
<1>4. vetting' \in [Calls -> VettingCall] /\ vetting'[c] = call /\ \A d \in Calls \ {c} : vetting'[d] = vetting[d]
  BY <1>1, <1>2, <1>3
<1>5. \A d \in Calls \ {c} : VettingKept(d)
  BY <1>4 DEF VettingKept
<1> QED BY <1>1, <1>2, <1>4, <1>5 DEF VettingProceeds, after

\* What a review of the provider is when it begins.
LEMMA ReviewBegun ==
  ASSUME ProvidersInv, NEW c \in Calls, NEW at \in {"comply", "write"}, NEW kind \in Vetters,
         Providers!Begin(c, at, kind, Providers!NoOne),
         kind \in {"submit", "reject"} => provider.status \notin {"APPROVED", "SUSPENDED"}
  PROVE  VettingProceeds(c) /\ vetting'[c].at = at /\ vetting'[c].kind = kind /\ vetting'[c].found = {}
<1> DEFINE row == Providers!NoOne
<1>1. /\ at \in {"find", "comply", "write"} /\ kind \in {"request"} \cup Vetters \cup Relaters
      /\ row \in Providers!Ids \cup {Providers!NoOne} /\ Providers!Begin(c, at, kind, row)
  OBVIOUS
<1> HIDE DEF row
<1> QED BY <1>1, VettingBegun

\* The call c is at its next query or write, with what it has found.
WentFurther(call, at, found) == [call EXCEPT !.at = at, !.found = found]

\* What a call is after it found documents.
LEMMA WentFurtherFits ==
  ASSUME NEW call \in VettingCall, NEW at \in {"comply", "write", "done"}, NEW found \in SUBSET Providers!Scopes
  PROVE  /\ WentFurther(call, at, found) \in VettingCall
         /\ WentFurther(call, at, found).at = at /\ WentFurther(call, at, found).found = found
         /\ WentFurther(call, at, found).kind = call.kind /\ WentFurther(call, at, found).row = call.row
         /\ WentFurther(call, at, found).after = call.after /\ WentFurther(call, at, found).changed = call.changed
  BY DEF WentFurther, VettingCall

\* What changes when a call goes on: where it is and what it found.
LEMMA VettingGoesOn ==
  ASSUME ProvidersInv, NEW c \in Calls, vetting[c].at \in {"find", "comply", "write"},
         NEW at \in {"comply", "write", "done"}, NEW found \in SUBSET Providers!Scopes,
         vetting' = [vetting EXCEPT ![c] = WentFurther(vetting[c], at, found)]
  PROVE  /\ VettingProceeds(c) /\ vetting'[c].at = at /\ vetting'[c].found = found
         /\ vetting'[c].kind = vetting[c].kind /\ vetting'[c].row = vetting[c].row
         /\ vetting'[c].after = vetting[c].after /\ vetting'[c].changed = vetting[c].changed
<1> DEFINE call == WentFurther(vetting[c], at, found)
<1>1. vetting \in [Calls -> VettingCall]
  BY DEF ProvidersInv, ProvidersTyped
<1>2. /\ call \in VettingCall /\ call.at = at /\ call.found = found /\ call.kind = vetting[c].kind
      /\ call.row = vetting[c].row /\ call.after = vetting[c].after /\ call.changed = vetting[c].changed
  BY <1>1, WentFurtherFits
<1>3. vetting' = [vetting EXCEPT ![c] = call]
  OBVIOUS
<1> HIDE DEF call
<1>4. vetting' \in [Calls -> VettingCall] /\ vetting'[c] = call /\ \A d \in Calls \ {c} : vetting'[d] = vetting[d]
  BY <1>1, <1>2, <1>3
<1>5. \A d \in Calls \ {c} : VettingKept(d)
  BY <1>4 DEF VettingKept
<1> QED BY <1>2, <1>4, <1>5 DEF VettingProceeds

\* A call that ends is over for good.
LEMMA VettingEnds ==
  ASSUME ProvidersInv, NEW c \in Calls, vetting[c].at = "write", Providers!Goto(c, "done")
  PROVE  /\ VettingProceeds(c) /\ vetting'[c].at = "done" /\ vetting'[c].found = vetting[c].found
         /\ vetting'[c].kind = vetting[c].kind /\ vetting'[c].row = vetting[c].row
         /\ vetting'[c].after = vetting[c].after /\ vetting'[c].changed = vetting[c].changed
<1>1. vetting \in [Calls -> VettingCall]
  BY DEF ProvidersInv, ProvidersTyped
<1>2. [vetting[c] EXCEPT !.at = "done"] = WentFurther(vetting[c], "done", vetting[c].found)
  BY <1>1 DEF WentFurther, VettingCall
<1>3. vetting' = [vetting EXCEPT ![c] = WentFurther(vetting[c], "done", vetting[c].found)]
  BY <1>1, <1>2 DEF Providers!Goto
<1>4. vetting[c].found \in SUBSET Providers!Scopes
  BY <1>1 DEF VettingCall
<1> DEFINE done == "done"
           found == vetting[c].found
<1>5. done \in {"comply", "write", "done"} /\ vetting[c].at \in {"find", "comply", "write"}
      /\ found \in SUBSET Providers!Scopes
  BY <1>4
<1>6. vetting' = [vetting EXCEPT ![c] = WentFurther(vetting[c], done, found)]
  BY <1>3
<1> HIDE DEF done, found
<1>7. /\ VettingProceeds(c) /\ vetting'[c].at = done /\ vetting'[c].found = found
      /\ vetting'[c].kind = vetting[c].kind /\ vetting'[c].row = vetting[c].row
      /\ vetting'[c].after = vetting[c].after /\ vetting'[c].changed = vetting[c].changed
  BY <1>4, <1>5, <1>6, VettingGoesOn
<1> QED BY <1>7 DEF done, found

\* The call c is over, having written nothing.
LEMMA VettingGone ==
  ASSUME ProvidersInv, NEW c \in Calls, vetting[c].at # "done",
         vetting' = [vetting EXCEPT ![c] = Providers!Gone]
  PROVE  VettingProceeds(c) /\ FoundSince(c)'
<1>1. vetting \in [Calls -> VettingCall]
  BY DEF ProvidersInv, ProvidersTyped
<1> DEFINE gone == Providers!Gone
<1>2. gone \in VettingCall
  BY ProvidersNames
<1>3. vetting' = [vetting EXCEPT ![c] = gone]
  OBVIOUS
<1> HIDE DEF gone
<1>4. vetting' \in [Calls -> VettingCall] /\ vetting'[c] = gone /\ \A d \in Calls \ {c} : vetting'[d] = vetting[d]
  BY <1>1, <1>2, <1>3
<1>5. \A d \in Calls \ {c} : VettingKept(d)
  BY <1>4 DEF VettingKept
<1>6. VettingProceeds(c)
  BY <1>4, <1>5 DEF VettingProceeds, gone
<1>7. FoundSince(c)'
  BY <1>4, ProvidersNames DEF FoundSince, gone, Approvers
<1> QED BY <1>6, <1>7

\* What a call reads is what the rows are.
LEMMA ProvidersReadSteps ==
  ASSUME ProvidersInv, NEW c \in Calls,
         \/ Providers!ReadProvider(c) \/ Providers!ReadForRequest(c) \/ Providers!FindOpen(c)
         \/ Providers!ReadRelationship(c) \/ \E scope \in Providers!Scopes : Providers!CheckCompliance(c, scope)
  PROVE  ProvidersInv'
<1>1. provider' = provider /\ relationships' = relationships /\ documents' = documents
  BY DEF Providers!ReadProvider, Providers!ReadForRequest, Providers!FindOpen, Providers!ReadRelationship,
    Providers!CheckCompliance
<1>2. CASE Providers!ReadProvider(c)
  <2>1. PICK kind \in Vetters :
          /\ provider.status = Providers!ProviderStep[kind].from
          /\ Providers!Begin(c, IF kind = "approve" THEN "comply" ELSE "write", kind, Providers!NoOne)
    BY <1>2 DEF Providers!ReadProvider, Vetters
  <2> DEFINE at == IF kind = "approve" THEN "comply" ELSE "write"
  <2>2. /\ at \in {"comply", "write"} /\ at # "find"
        /\ (at = "comply" => kind = "approve") /\ (kind = "approve" => at = "comply")
    OBVIOUS
  <2>3. kind \in {"submit", "reject"} => provider.status \notin {"APPROVED", "SUSPENDED"}
    BY <2>1 DEF Providers!ProviderStep
  <2>4. Providers!Begin(c, at, kind, Providers!NoOne)
    BY <2>1
  <2> HIDE DEF at
  <2>5. /\ VettingProceeds(c) /\ vetting'[c].at = at /\ vetting'[c].kind = kind /\ vetting'[c].found = {}
    BY <2>2, <2>3, <2>4, ReviewBegun
  <2>6. FoundSince(c)'
    BY <2>2, <2>5, ProvidersNames DEF FoundSince, Approvers
  <2> QED BY <1>1, <2>5, <2>6, ProvidersRead
<1>3. CASE Providers!ReadForRequest(c)
  <2>1. PICK at, kind, row :
          /\ at = "find" /\ kind = "request" /\ row = Providers!NoOne
          /\ Providers!Begin(c, at, kind, row)
    BY <1>3 DEF Providers!ReadForRequest
  <2>2. /\ at \in {"find", "comply", "write"} /\ kind \in {"request"} \cup Vetters \cup Relaters
        /\ row \in Providers!Ids \cup {Providers!NoOne} /\ Providers!Begin(c, at, kind, row)
        /\ (kind \in {"submit", "reject"} => provider.status \notin {"APPROVED", "SUSPENDED"})
    BY <2>1
  <2>3. VettingProceeds(c) /\ vetting'[c].at = at /\ vetting'[c].kind = kind
    BY <2>2, VettingBegun
  <2>4. StillApproved(c)'
    BY <1>1, <1>3, <2>3, VettingOrder DEF StillApproved, Providers!ReadForRequest
  <2>5. FoundSince(c)'
    BY <2>1, <2>3, <2>4, ProvidersNames DEF FoundSince, Approvers
  <2> QED BY <1>1, <2>3, <2>5, ProvidersRead
<1>4. CASE Providers!FindOpen(c)
  <2>1. vetting[c].at = "find" /\ vetting[c].kind = "request"
    BY <1>4 DEF Providers!FindOpen, ProvidersInv, FoundSince
  <2>2. CASE vetting' = [vetting EXCEPT ![c] = Providers!Gone]
    BY <1>1, <2>1, <2>2, VettingGone, ProvidersRead
  <2>3. CASE (\A r \in DOMAIN relationships : ~ Providers!Open(r)) /\
             vetting' = [vetting EXCEPT ![c] = [vetting[c] EXCEPT !.at = "write"]]
    <3>1. vetting \in [Calls -> VettingCall]
      BY DEF ProvidersInv, ProvidersTyped
    <3> DEFINE at == "write"
               found == vetting[c].found
    <3>2. [vetting[c] EXCEPT !.at = "write"] = WentFurther(vetting[c], at, found)
      BY <3>1 DEF WentFurther, VettingCall
    <3>3. vetting' = [vetting EXCEPT ![c] = WentFurther(vetting[c], at, found)]
      BY <2>3, <3>2
    <3>4. at \in {"comply", "write", "done"} /\ found \in SUBSET Providers!Scopes
          /\ vetting[c].at \in {"find", "comply", "write"}
      BY <2>1, <3>1 DEF VettingCall
    <3> HIDE DEF at, found
    <3>5. VettingProceeds(c) /\ vetting'[c].at = at /\ vetting'[c].kind = vetting[c].kind
          /\ vetting'[c].after = vetting[c].after
      BY <3>3, <3>4, VettingGoesOn
    <3>6. StillApproved(c)' \/ Undone(c)'
      <4>1. StillApproved(c) \/ Undone(c)
        BY <2>1 DEF ProvidersInv, FoundSince
      <4>2. \A u \in Calls \ {c} : vetting'[u] = vetting[u]
        BY <3>1, <3>3
      <4> QED BY <1>1, <2>1, <3>5, <4>1, <4>2 DEF StillApproved, Undone, Undoes, at
    <3>7. FoundSince(c)'
      BY <1>1, <2>1, <2>3, <3>5, <3>6, ProvidersNames DEF FoundSince, Approvers, Providers!Open, at
    <3> QED BY <1>1, <3>5, <3>7, ProvidersRead
  <2> QED BY <1>4, <2>2, <2>3 DEF Providers!FindOpen
<1>5. CASE Providers!ReadRelationship(c)
  <2>1. PICK r \in DOMAIN relationships, kind \in Relaters :
          /\ relationships[r].status \in Providers!RelationshipStep[kind].from
          /\ Providers!Begin(c, IF kind = "activate" THEN "comply" ELSE "write", kind, r)
    BY <1>5 DEF Providers!ReadRelationship, Relaters
  <2> DEFINE at == IF kind = "activate" THEN "comply" ELSE "write"
  <2>2. at \in {"find", "comply", "write"} /\ at # "find" /\ r \in Providers!Ids \cup {Providers!NoOne}
        /\ (at = "comply" => kind = "activate") /\ (kind = "activate" => at = "comply")
    BY DEF ProvidersInv, ProvidersTyped
  <2>3. Providers!Open(r)
    BY <2>1, ProvidersNames DEF Providers!RelationshipStep, Providers!RelationshipStatus, Providers!Open
  <2>4. Providers!Begin(c, at, kind, r) /\ kind \in {"request"} \cup Vetters \cup Relaters
        /\ kind \notin {"submit", "reject"}
    BY <2>1, ProvidersNames
  <2> HIDE DEF at
  <2>5. /\ VettingProceeds(c) /\ vetting'[c].at = at /\ vetting'[c].kind = kind /\ vetting'[c].found = {}
        /\ vetting'[c].row = r
    BY <2>2, <2>4, VettingBegun
  <2>6. FoundSince(c)'
    BY <1>1, <2>2, <2>3, <2>5, ProvidersNames DEF FoundSince, Approvers, Providers!Open
  <2> QED BY <1>1, <2>5, <2>6, ProvidersRead
<1>6. ASSUME NEW scope \in Providers!Scopes, Providers!CheckCompliance(c, scope) PROVE ProvidersInv'
  <2>1. vetting[c].at = "comply" /\ vetting[c].kind \in Approvers
    BY <1>6 DEF Providers!CheckCompliance, ProvidersInv, FoundSince
  <2>2. CASE vetting' = [vetting EXCEPT ![c] = Providers!Gone]
    BY <1>1, <2>1, <2>2, VettingGone, ProvidersRead
  <2> DEFINE found == vetting[c].found \cup {scope}
             at == IF found = Providers!Needed(vetting[c].kind) THEN "write" ELSE "comply"
  <2>3. CASE Providers!Compliant(scope) /\
             vetting' = [vetting EXCEPT ![c] = [vetting[c] EXCEPT !.found = found, !.at = at]]
    <3>1. vetting \in [Calls -> VettingCall]
      BY DEF ProvidersInv, ProvidersTyped
    <3>2. [vetting[c] EXCEPT !.found = found, !.at = at] = WentFurther(vetting[c], at, found)
      BY <3>1 DEF WentFurther, VettingCall
    <3>3. vetting' = [vetting EXCEPT ![c] = WentFurther(vetting[c], at, found)]
      BY <2>3, <3>2
    <3>4. at \in {"comply", "write", "done"} /\ found \in SUBSET Providers!Scopes
          /\ vetting[c].at \in {"find", "comply", "write"} /\ at \in {"comply", "write"}
          /\ (at = "write" => found = Providers!Needed(vetting[c].kind))
      BY <2>1, <3>1 DEF VettingCall
    <3>5. Covered(scope)
      BY <2>3 DEF Providers!Compliant, Covered, Providers!InForce
    <3>6. \A s \in found : Covered(s) \/ s \in vetting[c].changed
      BY <2>1, <3>5 DEF ProvidersInv, FoundSince
    <3> HIDE DEF at, found
    <3>7. VettingProceeds(c) /\ vetting'[c].at = at /\ vetting'[c].kind = vetting[c].kind
          /\ vetting'[c].found = found /\ vetting'[c].row = vetting[c].row
          /\ vetting'[c].after = vetting[c].after /\ vetting'[c].changed = vetting[c].changed
      BY <3>3, <3>4, VettingGoesOn
    <3>8. \A s \in found : Covered(s)' \/ s \in vetting'[c].changed
      BY <1>1, <3>6, <3>7 DEF Covered, Providers!InForce
    <3>9. vetting[c].kind \in Relaters =>
            /\ vetting[c].row \in DOMAIN relationships
            /\ Providers!Open(vetting[c].row) \/ relationships[vetting[c].row].terminator \in Calls \ vetting[c].after
      BY <2>1 DEF ProvidersInv, FoundSince
    <3>10. FoundSince(c)'
      BY <1>1, <2>1, <3>4, <3>7, <3>8, <3>9 DEF FoundSince, Approvers, Providers!Open
    <3> QED BY <1>1, <3>7, <3>10, ProvidersRead
  <2> QED BY <1>6, <2>2, <2>3 DEF Providers!CheckCompliance
<1> QED BY <1>2, <1>3, <1>4, <1>5, <1>6

\* The provider takes the status of the step that was allowed when it was read.
LEMMA ProvidersWriteProvider ==
  ASSUME ProvidersInv, NEW c \in Calls, Providers!WriteProvider(c)
  PROVE  ProvidersInv'
<1> DEFINE to == Providers!ProviderStep[vetting[c].kind].to
<1>1. /\ vetting[c].at = "write" /\ vetting[c].kind \in Vetters /\ Providers!Goto(c, "done")
      /\ provider' = [status |-> to, writer |-> c] /\ relationships' = relationships /\ documents' = documents
  BY DEF Providers!WriteProvider, Vetters
<1>2. /\ VettingProceeds(c) /\ vetting'[c].at = "done" /\ vetting'[c].found = vetting[c].found
      /\ vetting'[c].kind = vetting[c].kind /\ vetting'[c].row = vetting[c].row
      /\ vetting'[c].after = vetting[c].after /\ vetting'[c].changed = vetting[c].changed
  BY <1>1, VettingEnds
<1>3. /\ to \in Providers!ProviderStatus /\ (to = "APPROVED" => vetting[c].kind = "approve")
      /\ (to \in {"APPROVED", "SUSPENDED"} \/ Undoes(c)) /\ (Undoes(c) => to \notin {"APPROVED", "SUSPENDED"})
  BY <1>1, ProvidersNames DEF Providers!ProviderStep, Providers!ProviderStatus, Undoes
<1> HIDE DEF to
<1>4. ProvidersTyped'
  BY <1>1, <1>2, <1>3, ProvidersNames DEF ProvidersInv, ProvidersTyped, VettingProceeds, ProviderRow
<1>5. VettedByDone'
  <2>1. provider'.status = "APPROVED" => VettingDoneNext(c, {"approve"})
    BY <1>1, <1>2, <1>3 DEF VettingDoneNext
  <2>2. \A d \in DOMAIN documents : VettingOverNext(d)
    BY <1>2, VettingOrder DEF ProvidersInv, VettedByDone
  <2> QED BY <1>1, <1>2, <2>1, <2>2, RelationshipsKept DEF VettedByDone, Providers!Open, VettingDone, VettingDoneNext,
        VettingOver, VettingOverNext
<1>6. ASSUME NEW d \in Calls \ {c} PROVE FoundSince(d)'
  <2>1. StillApproved(d) => StillApproved(d)' \/ Undone(d)'
    <3>1. CASE to \in {"APPROVED", "SUSPENDED"}
      BY <1>1, <1>2, <3>1, VettingApproved
    <3>2. CASE Undoes(c) /\ StillApproved(d)
      <4>1. d \notin vetting[c].after
        BY <1>1, <3>2 DEF StillApproved
      <4> QED BY <1>2, <3>2, <4>1, VettingOrder DEF Undone, Undoes
    <3> QED BY <1>3, <3>1, <3>2
  <2>2. \A r \in DOMAIN relationships : OpenNext(r) <=> Providers!Open(r)
    BY <1>1 DEF OpenNext, Providers!Open
  <2>3. \A s \in Providers!Scopes : Covered(s) => Covered(s)'
    BY <1>1 DEF Covered, Providers!InForce
  <2> QED BY <1>1, <1>2, <2>1, <2>2, <2>3, VettingOthers
<1>7. FoundSince(c)'
  <2>1. FoundSince(c) /\ vetting[c].kind # "request" /\ vetting[c].kind \notin Relaters
    BY <1>1, ProvidersNames DEF ProvidersInv
  <2>2. \A s \in vetting[c].found : Covered(s) => Covered(s)'
    BY <1>1 DEF Covered, Providers!InForce
  <2> QED BY <1>1, <1>2, <2>1, <2>2 DEF FoundSince
<1>8. StoredIsApproved'
  <2>1. Undoes(c) => Providers!Stored \notin DOMAIN relationships
    BY DEF ProvidersInv, StoredIsApproved
  <2>2. CASE Undoes(c)
    BY <1>1, <2>1, <2>2 DEF StoredIsApproved
  <2>3. CASE to \in {"APPROVED", "SUSPENDED"}
    BY <1>1, <1>2, <2>3, StoredApproved
  <2> QED BY <1>3, <2>2, <2>3
<1>9. \A d \in Calls : FoundSince(d)'
  BY <1>6, <1>7
<1> QED BY <1>1, <1>2, <1>4, <1>5, <1>8, <1>9, VettingOrder, RelationshipsKept DEF ProvidersInv

\* c writes the relationship q.
LEMMA ProvidersWritten ==
  ASSUME ProvidersInv, NEW c \in Calls, VettingProceeds(c), FoundSince(c)', provider' = provider, documents' = documents,
         NEW q \in Providers!Ids, DOMAIN relationships' = DOMAIN relationships \cup {q},
         relationships' \in [DOMAIN relationships' -> RelationshipRow],
         \A r \in DOMAIN relationships \ {q} : relationships'[r] = relationships[r],
         q \in Calls \/ q \in DOMAIN relationships,
         VettingDoneNext(q, {"request"}),
         relationships'[q].status = "ACTIVE" => VettingDoneNext(relationships'[q].writer, {"activate"}),
         VettingOverNext(relationships'[q].terminator), VettingOverNext(relationships'[q].reopener),
         ~ OpenNext(q) \/ relationships'[q].reopener # Providers!NoOne => relationships'[q].terminator \in Calls,
         OpenNext(q) /\ relationships'[q].reopener # Providers!NoOne =>
           VettingOverlapNext(relationships'[q].reopener, relationships'[q].terminator),
         \A s \in DOMAIN relationships \ {q} : Providers!Open(s) /\ OpenNext(q) =>
           \/ VettingOverlapNext(q, s)
           \/ relationships'[q].reopener # Providers!NoOne
           \/ relationships[s].reopener # Providers!NoOne,
         OpenNext(q) =>
           \/ q \in DOMAIN relationships /\ Providers!Open(q) /\ relationships'[q].reopener = relationships[q].reopener
           \/ relationships'[q].reopener = c
           \/ q = c,
         q \in DOMAIN relationships =>
           \/ OpenNext(q)
           \/ ~ Providers!Open(q) /\ relationships'[q].terminator = relationships[q].terminator
           \/ relationships'[q].terminator = c
  PROVE  ProvidersInv'
<1>1. ProvidersTyped'
  BY DEF ProvidersInv, ProvidersTyped, VettingProceeds
<1>2. ASSUME NEW r \in DOMAIN relationships \ {q}
      PROVE  /\ VettingDoneNext(r, {"request"})
             /\ relationships[r].status = "ACTIVE" => VettingDoneNext(relationships[r].writer, {"activate"})
             /\ VettingOverNext(relationships[r].terminator) /\ VettingOverNext(relationships[r].reopener)
             /\ ~ Providers!Open(r) \/ relationships[r].reopener # Providers!NoOne => relationships[r].terminator \in Calls
             /\ OpenNext(r) <=> Providers!Open(r)
  BY VettingOrder DEF ProvidersInv, VettedByDone, OpenNext, Providers!Open
<1>3. VettedByDone'
  <2>1. provider.status = "APPROVED" => VettingDoneNext(provider.writer, {"approve"})
    BY VettingOrder DEF ProvidersInv, VettedByDone
  <2>2. \A d \in DOMAIN documents : VettingOverNext(d)
    BY VettingOrder DEF ProvidersInv, VettedByDone
  <2>3. ASSUME NEW r \in DOMAIN relationships'
        PROVE  /\ VettingDoneNext(r, {"request"})
               /\ relationships'[r].status = "ACTIVE" => VettingDoneNext(relationships'[r].writer, {"activate"})
               /\ VettingOverNext(relationships'[r].terminator) /\ VettingOverNext(relationships'[r].reopener)
               /\ ~ OpenNext(r) \/ relationships'[r].reopener # Providers!NoOne => relationships'[r].terminator \in Calls
    <3>1. CASE r = q
      BY <3>1
    <3>2. CASE r # q
      BY <1>2, <3>2
    <3> QED BY <3>1, <3>2
  <2> QED BY <2>1, <2>2, <2>3 DEF VettedByDone, Providers!Open, VettingDone, VettingDoneNext, VettingOver,
        VettingOverNext, OpenNext
<1>4. ASSUME NEW r \in DOMAIN relationships
      PROVE  /\ VettingOver(r) /\ VettingOver(relationships[r].terminator) /\ VettingOver(relationships[r].reopener)
             /\ r \in Providers!Ids
             /\ relationships[r].reopener # Providers!NoOne =>
                  relationships[r].reopener \in Providers!Ids /\ relationships[r].terminator \in Providers!Ids
  BY ProvidersNames DEF ProvidersInv, ProvidersTyped, RelationshipRow, VettedByDone, VettingDone, VettingOver
<1>5. Providers!OneOpenRelationship'
  <2> SUFFICES ASSUME NEW r \in DOMAIN relationships', NEW s \in DOMAIN relationships', OpenNext(r), OpenNext(s), r # s
               PROVE  \/ VettingOverlapNext(r, s)
                      \/ relationships'[r].reopener # Providers!NoOne \/ relationships'[s].reopener # Providers!NoOne
    <3>1. ASSUME NEW x, NEW y PROVE x # Providers!NoOne \/ y # Providers!NoOne => {x, y} # {Providers!NoOne}
      OBVIOUS
    <3> QED BY <3>1 DEF Providers!OneOpenRelationship, Providers!Open, Providers!Overlap, VettingOverlapNext, OpenNext
  <2>1. CASE r = q
    BY <1>2, <2>1
  <2>2. CASE s = q
    BY <1>2, <2>2 DEF VettingOverlapNext
  <2>3. CASE r # q /\ s # q
    <3>1. \/ Providers!Overlap(r, s)
          \/ relationships[r].reopener # Providers!NoOne \/ relationships[s].reopener # Providers!NoOne
      BY <1>2, <2>3 DEF ProvidersInv, Providers!OneOpenRelationship
    <3> QED BY <1>4, <2>3, <3>1, VettingOverlaps
  <2> QED BY <2>1, <2>2, <2>3
<1>6. Providers!TerminatedStays'
  <2> SUFFICES ASSUME NEW r \in DOMAIN relationships', OpenNext(r), relationships'[r].reopener # Providers!NoOne
               PROVE  VettingOverlapNext(relationships'[r].reopener, relationships'[r].terminator)
    BY DEF Providers!TerminatedStays, Providers!Open, Providers!Overlap, VettingOverlapNext, OpenNext
  <2>1. CASE r # q
    <3>1. Providers!Overlap(relationships[r].reopener, relationships[r].terminator)
      BY <1>2, <2>1 DEF ProvidersInv, Providers!TerminatedStays
    <3> QED BY <1>4, <2>1, <3>1, VettingOverlaps
  <2> QED BY <2>1
<1>7. ASSUME NEW d \in Calls \ {c} PROVE FoundSince(d)'
  <2>1. StillApproved(d) => StillApproved(d)'
    BY VettingApproved DEF StillApproved
  <2>2. \A r \in DOMAIN relationships' : OpenNext(r) =>
           \/ r \in DOMAIN relationships /\ Providers!Open(r) /\ relationships'[r].reopener = relationships[r].reopener
           \/ relationships'[r].reopener = c
           \/ r = c
    BY <1>2
  <2>3. \A r \in DOMAIN relationships :
           /\ r \in DOMAIN relationships'
           /\ \/ OpenNext(r)
              \/ ~ Providers!Open(r) /\ relationships'[r].terminator = relationships[r].terminator
              \/ relationships'[r].terminator = c
    BY <1>2
  <2>4. \A s \in Providers!Scopes : Covered(s) => Covered(s)'
    BY DEF Covered, Providers!InForce
  <2> QED BY <2>1, <2>2, <2>3, <2>4, VettingOthers
<1>8. \A d \in Calls : FoundSince(d)'
  BY <1>7
<1>9. StoredIsApproved'
  BY StoredApproved, ProvidersNames
<1> QED BY <1>1, <1>3, <1>5, <1>6, <1>8, <1>9, VettingOrder DEF ProvidersInv

\* A request is as approved as it was when its call is over, and an approval as covered.
LEMMA FoundAtEnd ==
  ASSUME ProvidersInv, NEW c \in Calls, vetting[c].at = "write", VettingProceeds(c), Providers!Goto(c, "done"),
         provider' = provider, documents' = documents
  PROVE  FoundSince(c)'
<1>1. /\ vetting'[c].at = "done" /\ vetting'[c].found = vetting[c].found /\ vetting'[c].kind = vetting[c].kind
      /\ vetting'[c].after = vetting[c].after /\ vetting'[c].changed = vetting[c].changed
  BY VettingEnds
<1>2. FoundSince(c)
  BY DEF ProvidersInv
<1>3. \A s \in vetting[c].found : Covered(s) => Covered(s)'
  BY DEF Covered, Providers!InForce
<1>4. ASSUME vetting[c].kind = "request" PROVE StillApproved(c)' \/ Undone(c)'
  <2>1. \A u \in Calls \ {c} : vetting'[u] = vetting[u]
    BY DEF Providers!Goto, ProvidersInv, ProvidersTyped
  <2>2. StillApproved(c) \/ Undone(c)
    BY <1>2, <1>4 DEF FoundSince
  <2> QED BY <1>1, <1>4, <2>1, <2>2 DEF StillApproved, Undone, Undoes
<1> QED BY <1>1, <1>2, <1>3, <1>4 DEF FoundSince

\* A relationship is requested when none was open.
LEMMA ProvidersCreate ==
  ASSUME ProvidersInv, NEW c \in Calls, Providers!CreateRelationship(c)
  PROVE  ProvidersInv'
<1> DEFINE row == [status |-> "REQUESTED", writer |-> c, terminator |-> Providers!NoOne, reopener |-> Providers!NoOne]
<1>1. /\ vetting[c].at = "write" /\ vetting[c].kind = "request" /\ Providers!Goto(c, "done")
      /\ provider' = provider /\ documents' = documents
      /\ relationships' = [r \in DOMAIN relationships \cup {c} |-> IF r = c THEN row ELSE relationships[r]]
  BY DEF Providers!CreateRelationship
<1>2. /\ VettingProceeds(c) /\ vetting'[c].at = "done" /\ vetting'[c].kind = "request"
      /\ vetting'[c].after = vetting[c].after
  BY <1>1, VettingEnds
<1>3. FoundSince(c)'
  BY <1>1, <1>2, FoundAtEnd
<1>4. /\ row \in RelationshipRow /\ row.status = "REQUESTED" /\ row.terminator = Providers!NoOne
      /\ row.reopener = Providers!NoOne
  BY ProvidersNames DEF RelationshipRow, Providers!RelationshipStatus
<1>5. c \in Providers!Ids /\ c \notin DOMAIN relationships
  BY <1>1, ProvidersNames DEF ProvidersInv, VettedByDone, VettingDone
<1>6. relationships \in [DOMAIN relationships -> RelationshipRow]
  BY DEF ProvidersInv, ProvidersTyped
<1> HIDE DEF row
<1>7. /\ DOMAIN relationships' = DOMAIN relationships \cup {c} /\ relationships'[c] = row
      /\ \A r \in DOMAIN relationships \ {c} : relationships'[r] = relationships[r]
      /\ relationships' \in [DOMAIN relationships' -> RelationshipRow]
  BY <1>1, <1>4, <1>6
<1>8. VettingDoneNext(c, {"request"}) /\ VettingOverNext(Providers!NoOne) /\ OpenNext(c)
  BY <1>2, <1>4, <1>7, ProvidersNames DEF VettingDoneNext, VettingOverNext, OpenNext
<1>9. ASSUME NEW s \in DOMAIN relationships \ {c}, Providers!Open(s)
      PROVE  VettingOverlapNext(c, s) \/ relationships[s].reopener # Providers!NoOne
  <2>1. relationships[s].reopener # Providers!NoOne \/ s \in Calls \ vetting[c].after
    BY <1>1, <1>9 DEF ProvidersInv, FoundSince
  <2> QED BY <1>2, <2>1, VettingOrder, ProvidersNames DEF VettingOverlapNext
<1> QED BY <1>1, <1>2, <1>3, <1>4, <1>5, <1>7, <1>8, <1>9, ProvidersWritten

\* A relationship takes the status of the step that was allowed when it was read.
LEMMA ProvidersWriteRelationship ==
  ASSUME ProvidersInv, NEW c \in Calls, Providers!WriteRelationship(c)
  PROVE  ProvidersInv'
<1> DEFINE q == vetting[c].row
           old == relationships[q]
           to == Providers!RelationshipStep[vetting[c].kind].to
           terminator == IF to = "TERMINATED" THEN c ELSE old.terminator
           reopener == IF old.status = "TERMINATED" /\ to # "TERMINATED" THEN c ELSE old.reopener
           row == [status |-> to, writer |-> c, terminator |-> terminator, reopener |-> reopener]
<1>1. /\ vetting[c].at = "write" /\ vetting[c].kind \in Relaters /\ Providers!Goto(c, "done")
      /\ provider' = provider /\ documents' = documents
      /\ relationships' = [relationships EXCEPT ![q] = row]
  BY DEF Providers!WriteRelationship, Relaters
<1>2. /\ VettingProceeds(c) /\ vetting'[c].at = "done" /\ vetting'[c].kind = vetting[c].kind
      /\ vetting'[c].after = vetting[c].after
  BY <1>1, VettingEnds
<1>3. FoundSince(c)'
  BY <1>1, <1>2, FoundAtEnd
<1>4. /\ q \in DOMAIN relationships
      /\ Providers!Open(q) \/ old.terminator \in Calls \ vetting[c].after
  BY <1>1 DEF ProvidersInv, FoundSince
<1>5. relationships \in [DOMAIN relationships -> RelationshipRow] /\ DOMAIN relationships \subseteq Providers!Ids
  BY DEF ProvidersInv, ProvidersTyped
<1>6. /\ to \in Providers!RelationshipStatus /\ (to = "ACTIVE" => vetting[c].kind = "activate")
  BY <1>1, ProvidersNames DEF Providers!RelationshipStep, Providers!RelationshipStatus
<1>7. /\ row \in RelationshipRow /\ row.status = to /\ row.writer = c /\ row.terminator = terminator
      /\ row.reopener = reopener
  BY <1>4, <1>5, <1>6, ProvidersNames DEF RelationshipRow
<1>8. /\ VettingDone(q, {"request"}) /\ VettingOver(old.terminator) /\ VettingOver(old.reopener)
      /\ ~ Providers!Open(q) \/ old.reopener # Providers!NoOne => old.terminator \in Calls
      /\ Providers!Open(q) /\ old.reopener # Providers!NoOne => Providers!Overlap(old.reopener, old.terminator)
      /\ \A s \in DOMAIN relationships \ {q} : Providers!Open(s) /\ Providers!Open(q) =>
           \/ Providers!Overlap(q, s)
           \/ old.reopener # Providers!NoOne \/ relationships[s].reopener # Providers!NoOne
  BY <1>4 DEF ProvidersInv, VettedByDone, Providers!TerminatedStays, Providers!OneOpenRelationship
<1>9. old.terminator \in Calls \cup {Providers!NoOne} /\ old.reopener \in Calls \cup {Providers!NoOne}
  BY <1>4, <1>5 DEF RelationshipRow
<1>10. old.status = "TERMINATED" <=> ~ Providers!Open(q)
  BY DEF Providers!Open
<1>11. VettingOverNext(c) /\ VettingOverNext(old.terminator) /\ VettingOverNext(old.reopener) /\ VettingDoneNext(q, {"request"})
       /\ (to = "ACTIVE" => VettingDoneNext(c, {"activate"}))
  BY <1>2, <1>6, <1>8, VettingOrder DEF VettingOverNext, VettingDoneNext
<1>12. terminator \in {c, old.terminator} /\ reopener \in {c, old.reopener}
       /\ (to = "TERMINATED" => terminator = c) /\ (to # "TERMINATED" => terminator = old.terminator)
       /\ (~ Providers!Open(q) /\ to # "TERMINATED" => reopener = c)
       /\ (Providers!Open(q) => reopener = old.reopener) /\ c # Providers!NoOne
       /\ (reopener # old.reopener => ~ Providers!Open(q) /\ to # "TERMINATED")
  BY <1>10, ProvidersNames
<1>13. \A s \in DOMAIN relationships : VettingOver(s) /\ s \in Providers!Ids
  BY DEF ProvidersInv, ProvidersTyped, VettedByDone, VettingDone, VettingOver
<1> HIDE DEF q, to, old, terminator, reopener, row
<1>14. /\ DOMAIN relationships' = DOMAIN relationships \cup {q} /\ relationships'[q] = row
       /\ \A r \in DOMAIN relationships \ {q} : relationships'[r] = relationships[r]
       /\ relationships' \in [DOMAIN relationships' -> RelationshipRow]
  BY <1>1, <1>4, <1>5, <1>7
<1>15. OpenNext(q) <=> to # "TERMINATED"
  BY <1>7, <1>14 DEF OpenNext
<1>16. ~ OpenNext(q) \/ reopener # Providers!NoOne => terminator \in Calls
  BY <1>8, <1>12, <1>15, ProvidersNames
<1>17. ASSUME OpenNext(q), reopener # Providers!NoOne PROVE VettingOverlapNext(reopener, terminator)
  <2>1. CASE Providers!Open(q)
    <3>1. Providers!Overlap(old.reopener, old.terminator) /\ terminator = old.terminator /\ reopener = old.reopener
      BY <1>8, <1>12, <1>15, <1>17, <2>1
    <3>2. old.reopener \in Providers!Ids /\ old.terminator \in Providers!Ids
      BY <1>8, <1>9, <1>12, <1>17, <2>1, ProvidersNames
    <3> QED BY <1>2, <1>8, <3>1, <3>2, VettingOverlaps
  <2>2. CASE ~ Providers!Open(q)
    <3>1. reopener = c /\ terminator = old.terminator /\ old.terminator \in Calls \ vetting[c].after
      BY <1>4, <1>12, <1>15, <1>17, <2>2
    <3>2. c # old.terminator
      BY <1>2, <1>8, VettingOrder
    <3> QED BY <1>2, <3>1, <3>2, VettingOrder, ProvidersNames DEF VettingOverlapNext
  <2> QED BY <2>1, <2>2
<1>18. ASSUME NEW s \in DOMAIN relationships \ {q}, Providers!Open(s), OpenNext(q)
       PROVE  \/ VettingOverlapNext(q, s) \/ reopener # Providers!NoOne \/ relationships[s].reopener # Providers!NoOne
  <2>1. CASE Providers!Open(q)
    BY <1>2, <1>4, <1>8, <1>12, <1>13, <1>18, <2>1, VettingOverlaps
  <2>2. CASE ~ Providers!Open(q)
    BY <1>12, <1>15, <1>18, <2>2
  <2> QED BY <2>1, <2>2
<1>19. OpenNext(q) => (Providers!Open(q) /\ reopener = old.reopener) \/ reopener = c
  BY <1>12, <1>15
<1>20. OpenNext(q) \/ terminator = c
  BY <1>12, <1>15
<1>21. /\ VettingOverNext(terminator) /\ VettingOverNext(reopener)
  BY <1>11, <1>12
<1>22. q \in Providers!Ids /\ old = relationships[q]
  BY <1>4, <1>5 DEF old
<1> QED BY <1>1, <1>2, <1>3, <1>4, <1>7, <1>11, <1>14, <1>16, <1>17, <1>18, <1>19, <1>20, <1>21, <1>22, ProvidersWritten

\* An approval that has begun learns of a change of the scope's documents.
Touched(call, scope) ==
  IF call.kind \in Approvers THEN [call EXCEPT !.changed = call.changed \cup {scope}] ELSE call

\* What a call is after documents changed under it.
LEMMA TouchedFits ==
  ASSUME NEW call \in VettingCall, NEW scope \in Providers!Scopes
  PROVE  LET touched == Touched(call, scope)
         IN  /\ touched \in VettingCall /\ touched.at = call.at /\ touched.kind = call.kind /\ touched.row = call.row
             /\ touched.found = call.found /\ touched.after = call.after /\ call.changed \subseteq touched.changed
             /\ call.kind \in Approvers => scope \in touched.changed
  BY DEF Touched, VettingCall

\* A change of documents touches every call that runs.
LEMMA VettingTouched ==
  ASSUME ProvidersInv, NEW scope \in Providers!Scopes
  PROVE  /\ Providers!Touch(scope) = [d \in Calls |-> Touched(vetting[d], scope)]
         /\ \A d \in Calls : vetting[d] \in VettingCall
  BY DEF Providers!Touch, Touched, Approvers, ProvidersInv, ProvidersTyped

\* Time takes documents away.
LEMMA ProvidersExpire ==
  ASSUME ProvidersInv, NEW d \in DOMAIN documents, Providers!Expire(d)
  PROVE  ProvidersInv'
<1> DEFINE scope == documents[d].scope
<1>1. /\ documents' = [documents EXCEPT ![d].expired = TRUE] /\ vetting' = Providers!Touch(scope)
      /\ provider' = provider /\ relationships' = relationships
  BY DEF Providers!Expire
<1>2. documents \in [DOMAIN documents -> DocumentRow] /\ scope \in Providers!Scopes
  BY DEF ProvidersInv, ProvidersTyped, DocumentRow
<1>3. DOMAIN documents' = DOMAIN documents /\ documents' \in [DOMAIN documents -> DocumentRow]
      /\ \A e \in DOMAIN documents : documents[e].scope # scope => documents'[e] = documents[e]
  BY <1>1, <1>2 DEF DocumentRow
<1>4. \A s \in Providers!Scopes \ {scope} : Covered(s) => Covered(s)'
  BY <1>3 DEF Covered, Providers!InForce
<1> HIDE DEF scope
<1>5. vetting' = [c \in Calls |-> Touched(vetting[c], scope)] /\ \A c \in Calls : vetting[c] \in VettingCall
  BY <1>1, <1>2, VettingTouched
<1>6. /\ \A c \in Calls : VettingKept(c) /\ vetting'[c] \in VettingCall
      /\ \A c \in Calls : vetting[c].kind \in Approvers => scope \in vetting'[c].changed
  BY <1>2, <1>5, TouchedFits DEF VettingKept
<1>7. ProvidersTyped'
  BY <1>1, <1>3, <1>5, <1>6 DEF ProvidersInv, ProvidersTyped
<1>8. VettingAfterDone' /\ StoredIsApproved'
  BY <1>1, <1>6 DEF ProvidersInv, ProvidersTyped, VettingCall, VettingAfterDone, StoredIsApproved, Undoes, VettingKept
<1>9. VettedByDone'
  BY <1>1, <1>3, <1>6 DEF ProvidersInv, VettedByDone, VettingDone, VettingOver, Providers!Open, VettingKept
<1>10. ASSUME NEW c \in Calls PROVE FoundSince(c)'
  <2>1. FoundSince(c) /\ VettingKept(c) /\ vetting[c].found \subseteq Providers!Scopes
    BY <1>5, <1>6 DEF ProvidersInv, VettingCall
  <2>2. (StillApproved(c) => StillApproved(c)') /\ (Undone(c) => Undone(c)')
    BY <1>1, <1>6 DEF StillApproved, Undone, Undoes, VettingKept
  <2>3. vetting'[c].kind \in Approvers => \A s \in vetting'[c].found : Covered(s)' \/ s \in vetting'[c].changed
    BY <1>4, <1>6, <2>1 DEF FoundSince, VettingKept
  <2> QED BY <1>1, <2>1, <2>2, <2>3 DEF FoundSince, VettingKept, Providers!Open
<1>11. \A r \in DOMAIN relationships :
        /\ r \in Providers!Ids /\ relationships[r].reopener \in Providers!Ids \cup {Providers!NoOne}
        /\ relationships[r].terminator \in Providers!Ids \cup {Providers!NoOne}
        /\ relationships[r].reopener # Providers!NoOne => relationships[r].terminator \in Calls
  BY ProvidersNames DEF ProvidersInv, ProvidersTyped, RelationshipRow, VettedByDone
<1>12. \A x, y \in Providers!Ids : Providers!Overlap(x, y) => VettingOverlapNext(x, y)
  BY <1>6, ProvidersNames DEF Providers!Overlap, VettingOverlapNext, VettingKept
<1>13. Providers!OneOpenRelationship'
  <2> SUFFICES ASSUME NEW r \in DOMAIN relationships, NEW s \in DOMAIN relationships, Providers!Open(r),
                      Providers!Open(s), r # s
               PROVE  \/ VettingOverlapNext(r, s)
                      \/ {relationships[r].reopener, relationships[s].reopener} # {Providers!NoOne}
    BY <1>1 DEF Providers!OneOpenRelationship, Providers!Open, Providers!Overlap, VettingOverlapNext
  <2>1. \/ Providers!Overlap(r, s)
        \/ {relationships[r].reopener, relationships[s].reopener} # {Providers!NoOne}
    BY DEF ProvidersInv, Providers!OneOpenRelationship
  <2> QED BY <1>11, <1>12, <2>1
<1>14. Providers!TerminatedStays'
  <2> SUFFICES ASSUME NEW r \in DOMAIN relationships, Providers!Open(r),
                      relationships[r].reopener # Providers!NoOne
               PROVE  VettingOverlapNext(relationships[r].reopener, relationships[r].terminator)
    BY <1>1 DEF Providers!TerminatedStays, Providers!Open, Providers!Overlap, VettingOverlapNext
  <2>1. Providers!Overlap(relationships[r].reopener, relationships[r].terminator)
    BY DEF ProvidersInv, Providers!TerminatedStays
  <2> QED BY <1>11, <1>12, <2>1, ProvidersNames
<1> QED BY <1>7, <1>8, <1>9, <1>10, <1>13, <1>14 DEF ProvidersInv

\* c has changed documents of one scope.
LEMMA ProvidersDocuments ==
  ASSUME ProvidersInv, NEW c \in Calls, NEW scope \in Providers!Scopes, Providers!ChangeDocument(c, scope),
         documents' \in [DOMAIN documents' -> DocumentRow], DOMAIN documents' \subseteq DOMAIN documents \cup {c},
         \A d \in DOMAIN documents :
           documents[d].scope # scope => d \in DOMAIN documents' /\ documents'[d] = documents[d]
  PROVE  ProvidersInv'
<1>1. /\ vetting[c].at = "idle" /\ provider' = provider /\ relationships' = relationships
      /\ vetting' = [Providers!Touch(scope) EXCEPT ![c] = Providers!Gone]
  BY DEF Providers!ChangeDocument
<1>2. Providers!Touch(scope) = [d \in Calls |-> Touched(vetting[d], scope)] /\ \A d \in Calls : vetting[d] \in VettingCall
  BY VettingTouched
<1> DEFINE gone == Providers!Gone
<1>3. gone \in VettingCall /\ gone = Providers!Gone
  BY ProvidersNames
<1>4. vetting' = [[d \in Calls |-> Touched(vetting[d], scope)] EXCEPT ![c] = gone]
  BY <1>1, <1>2
<1> HIDE DEF gone
<1>5. vetting'[c] = gone /\ \A d \in Calls \ {c} : vetting'[d] = Touched(vetting[d], scope)
  BY <1>4
<1>6. /\ \A d \in Calls \ {c} : VettingKept(d) /\ vetting'[d] \in VettingCall
      /\ \A d \in Calls \ {c} : vetting[d].kind \in Approvers => scope \in vetting'[d].changed
  BY <1>2, <1>5, TouchedFits DEF VettingKept
<1>7. vetting' \in [Calls -> VettingCall]
  BY <1>3, <1>4, <1>5, <1>6
<1>8. VettingProceeds(c)
  BY <1>1, <1>3, <1>5, <1>6, <1>7 DEF VettingProceeds
<1>9. FoundSince(c)'
  BY <1>3, <1>5, ProvidersNames DEF FoundSince, Approvers
<1>10. \A s \in Providers!Scopes \ {scope} : Covered(s) => Covered(s)'
  BY DEF Covered, Providers!InForce
<1>11. ASSUME NEW d \in Calls \ {c} PROVE FoundSince(d)'
  <2>1. StillApproved(d) => StillApproved(d)'
    BY <1>1, <1>8, VettingApproved DEF StillApproved
  <2>2. \A r \in DOMAIN relationships : OpenNext(r) <=> Providers!Open(r)
    BY <1>1 DEF OpenNext, Providers!Open
  <2>3. vetting[d].kind \in Approvers =>
          \A s \in Providers!Scopes : Covered(s) => Covered(s)' \/ s \in vetting'[d].changed
    BY <1>6, <1>10
  <2> QED BY <1>1, <1>8, <2>1, <2>2, <2>3, VettingOthers
<1>12. ProvidersTyped'
  BY <1>1, <1>7 DEF ProvidersInv, ProvidersTyped
<1>13. VettedByDone'
  <2>1. provider.status = "APPROVED" => VettingDoneNext(provider.writer, {"approve"})
    BY <1>8, VettingOrder DEF ProvidersInv, VettedByDone
  <2>2. \A d \in DOMAIN documents' : VettingOverNext(d)
    <3>1. VettingOverNext(c)
      BY <1>3, <1>5, ProvidersNames DEF VettingOverNext
    <3>2. \A d \in DOMAIN documents : VettingOverNext(d)
      BY <1>8, VettingOrder DEF ProvidersInv, VettedByDone
    <3> QED BY <3>1, <3>2
  <2> QED BY <1>1, <1>8, <2>1, <2>2, RelationshipsKept DEF VettedByDone, Providers!Open, VettingDone, VettingDoneNext,
        VettingOver, VettingOverNext
<1>14. \A d \in Calls : FoundSince(d)'
  BY <1>9, <1>11
<1> QED BY <1>1, <1>8, <1>12, <1>13, <1>14, VettingOrder, RelationshipsKept, StoredApproved DEF ProvidersInv

\* Uploads, reviews and deletions change the documents of one scope.
LEMMA ProvidersDocumentSteps ==
  ASSUME ProvidersInv, NEW c \in Calls,
         Providers!UploadDocument(c) \/ Providers!ReviewDocument(c) \/ Providers!DeleteDocument(c)
  PROVE  ProvidersInv'
<1>1. documents \in [DOMAIN documents -> DocumentRow]
  BY DEF ProvidersInv, ProvidersTyped
<1>2. CASE Providers!UploadDocument(c)
  <2>1. PICK scope \in Providers!Scopes :
          /\ documents' = [d \in DOMAIN documents \cup {c} |->
               IF d = c THEN [scope |-> scope, verified |-> FALSE, expired |-> FALSE] ELSE documents[d]]
          /\ Providers!ChangeDocument(c, scope)
    BY <1>2 DEF Providers!UploadDocument
  <2> DEFINE row == [scope |-> scope, verified |-> FALSE, expired |-> FALSE]
  <2>2. row \in DocumentRow
    BY DEF DocumentRow
  <2>3. c \notin DOMAIN documents
    BY <2>1 DEF Providers!ChangeDocument, ProvidersInv, VettedByDone, VettingOver
  <2>4. documents' = [d \in DOMAIN documents \cup {c} |-> IF d = c THEN row ELSE documents[d]]
    BY <2>1
  <2> HIDE DEF row
  <2>5. /\ documents' \in [DOMAIN documents' -> DocumentRow] /\ DOMAIN documents' = DOMAIN documents \cup {c}
        /\ \A d \in DOMAIN documents : documents'[d] = documents[d]
    BY <1>1, <2>2, <2>3, <2>4
  <2> QED BY <2>1, <2>5, ProvidersDocuments
<1>3. CASE Providers!ReviewDocument(c)
  <2>1. PICK d \in DOMAIN documents, verified \in BOOLEAN :
          /\ documents' = [documents EXCEPT ![d].verified = verified]
          /\ Providers!ChangeDocument(c, documents[d].scope)
    BY <1>3 DEF Providers!ReviewDocument
  <2>2. /\ documents' \in [DOMAIN documents' -> DocumentRow] /\ DOMAIN documents' = DOMAIN documents
        /\ \A e \in DOMAIN documents \ {d} : documents'[e] = documents[e]
        /\ documents[d].scope \in Providers!Scopes
    BY <1>1, <2>1 DEF DocumentRow
  <2> QED BY <2>1, <2>2, ProvidersDocuments
<1>4. CASE Providers!DeleteDocument(c)
  <2>1. PICK d \in DOMAIN documents :
          /\ documents' = [e \in DOMAIN documents \ {d} |-> documents[e]]
          /\ Providers!ChangeDocument(c, documents[d].scope)
    BY <1>4 DEF Providers!DeleteDocument
  <2>2. /\ documents' \in [DOMAIN documents' -> DocumentRow] /\ DOMAIN documents' = DOMAIN documents \ {d}
        /\ \A e \in DOMAIN documents \ {d} : documents'[e] = documents[e]
        /\ documents[d].scope \in Providers!Scopes
    BY <1>1, <2>1 DEF DocumentRow
  <2> QED BY <2>1, <2>2, ProvidersDocuments
<1> QED BY <1>2, <1>3, <1>4

\* Every step of the providers preserves their invariant.
LEMMA ProvidersStep == ASSUME ProvidersInv, [Providers!Next]_(Providers!vars) PROVE ProvidersInv'
<1>1. CASE UNCHANGED Providers!vars
  <2> USE <1>1 DEF Providers!vars, ProvidersInv
  <2>1. ProvidersTyped' /\ VettingAfterDone' /\ StoredIsApproved'
    BY DEF ProvidersTyped, VettingAfterDone, StoredIsApproved, Undoes
  <2>2. VettedByDone'
    BY DEF VettedByDone, VettingDone, VettingOver, Providers!Open
  <2>3. ASSUME NEW c \in Calls PROVE FoundSince(c)'
    <3>1. FoundSince(c)
      OBVIOUS
    <3> QED BY <3>1 DEF FoundSince, Covered, StillApproved, Undone, Undoes, Providers!InForce, Providers!Open
  <2>4. Providers!OneOpenRelationship' /\ Providers!TerminatedStays'
    BY DEF Providers!OneOpenRelationship, Providers!TerminatedStays, Providers!Overlap, Providers!Open
  <2> QED BY <2>1, <2>2, <2>3, <2>4
<1>2. CASE Providers!Next
  BY <1>2, ProvidersReadSteps, ProvidersWriteProvider, ProvidersCreate, ProvidersWriteRelationship,
    ProvidersDocumentSteps, ProvidersExpire
  DEF Providers!Next
<1> QED BY <1>1, <1>2

\* What the invariant of the providers says of them.
LEMMA ProvidersProperties ==
  ASSUME ProvidersInv
  PROVE  /\ Providers!TypeOK /\ Providers!OneOpenRelationship /\ Providers!TerminatedStays
         /\ Providers!ApprovedWithDocuments /\ Providers!RelatedIsApproved
<1>1. Providers!TypeOK
  BY ProvidersNames DEF ProvidersInv, ProvidersTyped, Providers!TypeOK, VettingCall, RelationshipRow, DocumentRow,
    ProviderRow
<1>2. provider.status = "APPROVED" => Providers!Vetted(provider.writer, "provider")
  <2> SUFFICES ASSUME provider.status = "APPROVED", provider.writer # Providers!Stored
               PROVE  Covered("provider") \/ "provider" \in vetting[provider.writer].changed
    BY DEF Providers!Vetted, Covered
  <2> DEFINE c == provider.writer
  <2>1. c \in Calls /\ vetting[c].at = "done" /\ vetting[c].kind = "approve"
    BY ProvidersNames DEF ProvidersInv, ProvidersTyped, ProviderRow, VettedByDone, VettingDone
  <2>2. "provider" \in vetting[c].found
    BY <2>1 DEF ProvidersInv, FoundSince, Approvers, Providers!Needed
  <2> QED BY <2>1, <2>2 DEF ProvidersInv, FoundSince, Approvers
<1>3. ASSUME NEW r \in DOMAIN relationships, relationships[r].status = "ACTIVE", NEW s \in Providers!Scopes
      PROVE  Providers!Vetted(relationships[r].writer, s)
  <2> SUFFICES ASSUME relationships[r].writer # Providers!Stored
               PROVE  Covered(s) \/ s \in vetting[relationships[r].writer].changed
    BY DEF Providers!Vetted, Covered
  <2> DEFINE c == relationships[r].writer
  <2>1. c \in Calls /\ vetting[c].at = "done" /\ vetting[c].kind = "activate"
    BY <1>3, ProvidersNames DEF ProvidersInv, ProvidersTyped, RelationshipRow, VettedByDone, VettingDone
  <2>2. s \in vetting[c].found
    BY <2>1 DEF ProvidersInv, FoundSince, Approvers, Providers!Needed
  <2> QED BY <2>1, <2>2 DEF ProvidersInv, FoundSince, Approvers
<1>4. ASSUME NEW r \in DOMAIN relationships, provider.status \notin {"APPROVED", "SUSPENDED"}
      PROVE  \E c \in Calls : /\ vetting[c].at = "done" /\ vetting[c].kind \in {"submit", "reject"}
                              /\ Providers!Overlap(c, r)
  <2>1. r \in Calls /\ vetting[r].kind = "request"
    BY <1>4, ProvidersNames DEF ProvidersInv, ProvidersTyped, StoredIsApproved, VettedByDone, VettingDone
  <2>2. Undone(r)
    BY <1>4, <2>1 DEF ProvidersInv, FoundSince, StillApproved
  <2> QED BY <2>1, <2>2, ProvidersNames DEF Undone, Undoes, Providers!Overlap
<1> QED BY <1>1, <1>2, <1>3, <1>4 DEF ProvidersInv, Providers!ApprovedWithDocuments, Providers!RelatedIsApproved

----------------------------------------------------------------------------
(* The vehicle telemetry                                                   *)
(*                                                                         *)
(* An ingest that began after another one was over has seen what that one  *)
(* left; and what it still has to create was not there, unless somebody    *)
(* who is not over since, or a user, put it there.                         *)

FaultCodes(s) == {s[k] : k \in DOMAIN s}
Report == [faults : Seq(Telemetry!Codes), stale : BOOLEAN]
FaultRow == [code : Telemetry!Codes, status : {"OPEN", "ACKNOWLEDGED", "RESOLVED"}, by : Calls, reopened : BOOLEAN]
IngestRow ==
  [at : {"idle", "persist", "sync", "write", "done", "dead"}, kind : {"none", "webhook", "poll", "read", "pull"},
   replica : Hosts \cup {Telemetry!NoOne}, report : Report, todo : SUBSET Nat, gone : SUBSET Nat, after : SUBSET Calls]

\* work is left only to who is writing
IngestFits(s) ==
  /\ s.todo \subseteq DOMAIN s.report.faults
  /\ s.gone \subseteq DOMAIN faults
  /\ s.at = "write" => s.todo # {} \/ s.gone # {}
  /\ s.at # "write" => s.todo = {} /\ s.gone = {}
  /\ s.kind = "pull" => s.at \in {"persist", "done", "dead"}

TelemetryTyped ==
  /\ latest \in Report
  /\ faults \in Seq(FaultRow)
  /\ ingests \in [Calls -> IngestRow]
  /\ \A i \in Calls : IngestFits(ingests[i])
  /\ acts \in 0..MaxActs
  /\ undisturbed \in Calls \cup {Telemetry!NoOne}

\* who was over when another one began stays so
IngestsInOrder ==
  \A i \in Calls : /\ ingests[i].at = "idle" => ingests[i].after = {}
                   /\ \A j \in ingests[i].after : ingests[j].at \in {"done", "dead"}

\* a row is its ingest's, and of a place in the report that is done with
FaultsReported ==
  \A n \in DOMAIN faults :
    LET x == ingests[faults[n].by]
    IN  /\ x.at \in {"write", "done", "dead"}
        /\ \E k \in DOMAIN x.report.faults \ x.todo : x.report.faults[k] = faults[n].code

IsActive(n) == faults[n].status \in {"OPEN", "ACKNOWLEDGED"}

\* rows of one ingest for one code
FaultsRepeated ==
  \A m, n \in DOMAIN faults :
    m # n /\ faults[m].code = faults[n].code /\ faults[m].by = faults[n].by =>
      Telemetry!Repeats(ingests[faults[m].by].report.faults)

\* what is to be created was not there when the rows were read
FaultsUnseen ==
  \A i \in Calls : \A k \in ingests[i].todo, n \in DOMAIN faults :
    /\ IsActive(n) /\ faults[n].code = ingests[i].report.faults[k]
    /\ ~ faults[n].reopened /\ faults[n].by # i
    => faults[n].by \notin ingests[i].after

\* how far an ingest is that has nothing beside it
Settles(i) ==
  LET x == ingests[i]
  IN  /\ \A j \in Calls \ {i} : ingests[j].at \in {"idle", "done", "dead"}
      /\ x.kind # "pull" /\ x.at \in {"write", "done"} =>
           /\ \A n \in x.gone : IsActive(n)
           /\ \A n \in DOMAIN faults : IsActive(n) =>
                (n \in x.gone <=> faults[n].code \notin FaultCodes(x.report.faults))
           /\ \A k \in DOMAIN x.report.faults \ x.todo :
                \E n \in DOMAIN faults : IsActive(n) /\ faults[n].code = x.report.faults[k]

TelemetryInv ==
  /\ TelemetryTyped
  /\ IngestsInOrder
  /\ FaultsReported
  /\ FaultsRepeated
  /\ FaultsUnseen
  /\ Telemetry!OneActiveFaultPerCode
  /\ undisturbed # Telemetry!NoOne => Settles(undisturbed)

\* What the constants are.
LEMMA TelemetryNames == Reports \subseteq Report /\ MaxActs \in Nat /\ Telemetry!NoOne \notin Calls
  BY RecordsAssumption DEF Telemetry!TelemetryAssumption, Report

\* Fault rows are numbered from one.
LEMMA TelemetryRows ==
  ASSUME TelemetryTyped
  PROVE  /\ DOMAIN faults = 1..Len(faults) /\ Len(faults) \in Nat
         /\ \A n \in DOMAIN faults : faults[n] \in FaultRow
<1>1. faults \in Seq(FaultRow)
  BY DEF TelemetryTyped
<1> QED BY <1>1

\* The codes of a report, either way of writing them.
LEMMA CodesOfReports ==
  ASSUME NEW s PROVE Telemetry!ToSet(s) = FaultCodes(s)
  BY DEF Telemetry!ToSet, FaultCodes

\* Nothing was reported.
LEMMA TelemetryInit == Telemetry!Init => TelemetryInv
<1> SUFFICES ASSUME Telemetry!Init PROVE TelemetryInv
  OBVIOUS
<1>1. Telemetry!NoRow \in Report /\ Telemetry!NoIngest \in IngestRow
  BY DEF Telemetry!NoRow, Telemetry!NoIngest, Report, IngestRow
<1>2. /\ latest = Telemetry!NoRow /\ faults = << >> /\ acts = 0 /\ undisturbed = Telemetry!NoOne
      /\ ingests = [i \in Calls |-> Telemetry!NoIngest]
  BY DEF Telemetry!Init
<1>3. \A i \in Calls : ingests[i].at = "idle" /\ ingests[i].todo = {} /\ ingests[i].gone = {} /\ ingests[i].after = {}
                       /\ ingests[i].kind = "none"
  BY <1>2 DEF Telemetry!NoIngest
<1>4. TelemetryTyped
  BY <1>1, <1>2, <1>3, TelemetryNames DEF TelemetryTyped, IngestFits
<1>5. Telemetry!OneActiveFaultPerCode
  BY <1>2 DEF Telemetry!OneActiveFaultPerCode, Telemetry!Active
<1> QED BY <1>2, <1>3, <1>4, <1>5 DEF TelemetryInv, IngestsInOrder, FaultsReported, FaultsRepeated, FaultsUnseen

\* A step that adds no row, takes no work up but what is not there, and opens a row only
\* as reopened.
LEMMA TelemetryKept ==
  ASSUME TelemetryInv, TelemetryTyped', DOMAIN faults' = DOMAIN faults,
         \A n \in DOMAIN faults : /\ faults'[n].code = faults[n].code /\ faults'[n].by = faults[n].by
                                  /\ IsActive(n)' /\ ~ faults'[n].reopened => IsActive(n) /\ ~ faults[n].reopened,
         \A j \in Calls : /\ ingests'[j].report = ingests[j].report /\ ingests'[j].after = ingests[j].after
                          /\ ingests[j].at \in {"done", "dead"} => ingests'[j].at \in {"done", "dead"}
                          /\ ingests'[j].at = "idle" => ingests[j].at = "idle"
                          /\ ingests[j].at \in {"write", "done", "dead"} =>
                               ingests'[j].at \in {"write", "done", "dead"} /\ ingests'[j].todo \subseteq ingests[j].todo
                          /\ \A k \in ingests'[j].todo :
                               \/ k \in ingests[j].todo
                               \/ \A n \in DOMAIN faults : IsActive(n) => faults[n].code # ingests[j].report.faults[k]
  PROVE  IngestsInOrder' /\ FaultsReported' /\ FaultsRepeated' /\ FaultsUnseen' /\ Telemetry!OneActiveFaultPerCode'
<1> USE DEF TelemetryInv
<1>1. \A n \in DOMAIN faults : faults[n].by \in Calls
  BY TelemetryRows DEF FaultRow
<1>2. \A j \in Calls : ingests[j].after \subseteq Calls
  BY DEF TelemetryTyped, IngestRow
<1>3. IngestsInOrder'
  BY <1>2 DEF IngestsInOrder
<1>4. FaultsReported'
  <2> SUFFICES ASSUME NEW n \in DOMAIN faults
               PROVE  /\ ingests'[faults[n].by].at \in {"write", "done", "dead"}
                      /\ \E k \in DOMAIN ingests'[faults[n].by].report.faults \ ingests'[faults[n].by].todo :
                           ingests'[faults[n].by].report.faults[k] = faults[n].code
    BY DEF FaultsReported
  <2>1. /\ ingests[faults[n].by].at \in {"write", "done", "dead"}
        /\ \E k \in DOMAIN ingests[faults[n].by].report.faults \ ingests[faults[n].by].todo :
             ingests[faults[n].by].report.faults[k] = faults[n].code
    BY DEF FaultsReported
  <2> QED BY <1>1, <2>1
<1>5. FaultsRepeated'
  <2> SUFFICES ASSUME NEW m \in DOMAIN faults, NEW n \in DOMAIN faults, m # n,
                      faults[m].code = faults[n].code, faults[m].by = faults[n].by
               PROVE  Telemetry!Repeats(ingests'[faults[m].by].report.faults)
    BY DEF FaultsRepeated, Telemetry!Repeats
  <2>1. Telemetry!Repeats(ingests[faults[m].by].report.faults)
    BY DEF FaultsRepeated
  <2> QED BY <1>1, <2>1
<1>6. FaultsUnseen'
  <2> SUFFICES ASSUME NEW i \in Calls, NEW k \in ingests'[i].todo, NEW n \in DOMAIN faults, IsActive(n)',
                      faults[n].code = ingests[i].report.faults[k], ~ faults'[n].reopened, faults[n].by # i
               PROVE  faults[n].by \notin ingests[i].after
    BY DEF FaultsUnseen
  <2>1. IsActive(n) /\ ~ faults[n].reopened /\ k \in ingests[i].todo
    OBVIOUS
  <2> QED BY <2>1 DEF FaultsUnseen
<1>7. Telemetry!OneActiveFaultPerCode'
  <2> SUFFICES ASSUME NEW m \in DOMAIN faults, NEW n \in DOMAIN faults, IsActive(m)', IsActive(n)', m # n,
                      faults[m].code = faults[n].code, ~ faults'[m].reopened, ~ faults'[n].reopened
               PROVE  \/ /\ faults[m].by # faults[n].by
                         /\ faults[m].by \notin ingests[faults[n].by].after
                         /\ faults[n].by \notin ingests[faults[m].by].after
                      \/ /\ faults[m].by = faults[n].by
                         /\ Telemetry!Repeats(ingests[faults[m].by].report.faults)
    <3>1. \A j \in Calls : ingests'[j].report = ingests[j].report /\ ingests'[j].after = ingests[j].after
      OBVIOUS
    <3> QED BY <1>1, <3>1 DEF Telemetry!OneActiveFaultPerCode, Telemetry!Active, IsActive, Telemetry!Overlap, Telemetry!Repeats
  <2>1. IsActive(m) /\ IsActive(n) /\ ~ faults[m].reopened /\ ~ faults[n].reopened
    OBVIOUS
  <2>2. m \in Telemetry!Active /\ n \in Telemetry!Active
    BY <2>1 DEF Telemetry!Active, IsActive
  <2> QED BY <2>1, <2>2 DEF Telemetry!OneActiveFaultPerCode, Telemetry!Overlap
<1> QED BY <1>3, <1>4, <1>5, <1>6, <1>7

\* An ingest that begins has everyone who is over behind it.
LEMMA TelemetryBegins ==
  ASSUME TelemetryInv, NEW i \in Calls, NEW kind \in {"webhook", "poll", "read", "pull"},
         NEW replica \in Hosts \cup {Telemetry!NoOne}, NEW report \in Report,
         Telemetry!Begin(i, kind, replica, report)
  PROVE  TelemetryInv'
<1> USE DEF TelemetryInv
<1>1. PICK over : over = {j \in Calls : Telemetry!Over(j)}
  OBVIOUS
<1>2. PICK s : s = [Telemetry!NoIngest EXCEPT !.at = "persist", !.kind = kind, !.replica = replica,
                                              !.report = report, !.after = over]
  OBVIOUS
<1>3. /\ ingests[i].at = "idle" /\ ingests' = [ingests EXCEPT ![i] = s] /\ UNCHANGED <<latest, faults, acts>>
      /\ undisturbed' = IF Telemetry!Running = {} THEN i ELSE Telemetry!NoOne
  BY <1>1, <1>2 DEF Telemetry!Begin
<1>4. over \subseteq Calls /\ \A j \in over : ingests[j].at \in {"done", "dead"}
  BY <1>1 DEF Telemetry!Over
<1>5. /\ s \in IngestRow /\ s.at = "persist" /\ s.kind = kind /\ s.after = over /\ s.todo = {} /\ s.gone = {}
      /\ s.report = report
  <2>1. over \in SUBSET Calls
    BY <1>4
  <2> QED BY <1>2, <2>1 DEF Telemetry!NoIngest, IngestRow
<1>6. ingests'[i] = s /\ \A j \in Calls \ {i} : ingests'[j] = ingests[j]
  BY <1>3 DEF TelemetryTyped
<1>7. TelemetryTyped'
  <2>1. ingests' \in [Calls -> IngestRow]
    BY <1>3, <1>5 DEF TelemetryTyped
  <2>2. \A j \in Calls : IngestFits(ingests[j])'
    BY <1>3, <1>5, <1>6 DEF TelemetryTyped, IngestFits
  <2>3. undisturbed' \in Calls \cup {Telemetry!NoOne}
    BY <1>3
  <2> QED BY <1>3, <2>1, <2>2, <2>3 DEF TelemetryTyped
<1>8. \A n \in DOMAIN faults : faults[n].by \in Calls \ {i}
  BY <1>3, TelemetryRows DEF FaultRow, FaultsReported
<1>9. IngestsInOrder'
  BY <1>3, <1>4, <1>5, <1>6 DEF IngestsInOrder, TelemetryTyped, IngestRow
<1>10. FaultsReported'
  <2> SUFFICES ASSUME NEW n \in DOMAIN faults
               PROVE  /\ ingests'[faults[n].by].at \in {"write", "done", "dead"}
                      /\ \E k \in DOMAIN ingests'[faults[n].by].report.faults \ ingests'[faults[n].by].todo :
                           ingests'[faults[n].by].report.faults[k] = faults[n].code
    BY <1>3 DEF FaultsReported
  <2>1. ingests'[faults[n].by] = ingests[faults[n].by]
    BY <1>6, <1>8
  <2> QED BY <2>1 DEF FaultsReported
<1>11. FaultsRepeated'
  <2> SUFFICES ASSUME NEW m \in DOMAIN faults, NEW n \in DOMAIN faults, m # n,
                      faults[m].code = faults[n].code, faults[m].by = faults[n].by
               PROVE  Telemetry!Repeats(ingests'[faults[m].by].report.faults)
    BY <1>3 DEF FaultsRepeated, Telemetry!Repeats
  <2>1. ingests'[faults[m].by] = ingests[faults[m].by]
    BY <1>6, <1>8
  <2> QED BY <2>1 DEF FaultsRepeated
<1>12. FaultsUnseen'
  BY <1>3, <1>5, <1>6 DEF FaultsUnseen, IsActive
<1>13. Telemetry!OneActiveFaultPerCode'
  <2> SUFFICES ASSUME NEW m \in DOMAIN faults, NEW n \in DOMAIN faults, IsActive(m), IsActive(n), m # n,
                      faults[m].code = faults[n].code, ~ faults[m].reopened, ~ faults[n].reopened
               PROVE  \/ /\ faults[m].by # faults[n].by
                         /\ faults[m].by \notin ingests'[faults[n].by].after
                         /\ faults[n].by \notin ingests'[faults[m].by].after
                      \/ /\ faults[m].by = faults[n].by
                         /\ Telemetry!Repeats(ingests'[faults[m].by].report.faults)
    BY <1>3 DEF Telemetry!OneActiveFaultPerCode, Telemetry!Active, IsActive, Telemetry!Overlap, Telemetry!Repeats
  <2>1. ingests'[faults[m].by] = ingests[faults[m].by] /\ ingests'[faults[n].by] = ingests[faults[n].by]
    BY <1>6, <1>8
  <2>2. m \in Telemetry!Active /\ n \in Telemetry!Active
    BY DEF Telemetry!Active, IsActive
  <2> QED BY <2>1, <2>2 DEF Telemetry!OneActiveFaultPerCode, Telemetry!Overlap
<1>14. ASSUME undisturbed' # Telemetry!NoOne PROVE Settles(i)'
  <2>1. Telemetry!Running = {}
    BY <1>3, <1>14
  <2>2. \A j \in Calls : ingests[j].at \in {"idle", "done", "dead"}
    BY <2>1 DEF Telemetry!Running, Telemetry!Over, TelemetryTyped, IngestRow
  <2> QED BY <1>5, <1>6, <2>2 DEF Settles
<1>15. undisturbed' # Telemetry!NoOne => Settles(undisturbed)'
  <2>1. undisturbed' # Telemetry!NoOne => undisturbed' = i
    BY <1>3
  <2> QED BY <1>14, <2>1 DEF Settles, IsActive, FaultCodes
<1> QED BY <1>7, <1>9, <1>10, <1>11, <1>12, <1>13, <1>15

\* Webhooks, polls, status reads and pulls begin.
LEMMA TelemetryBeginSteps ==
  ASSUME TelemetryInv, NEW i \in Calls,
         \/ Telemetry!ReceiveWebhook(i) \/ Telemetry!Poll(i) \/ Telemetry!ReadStatus(i) \/ Telemetry!PullStatus(i)
  PROVE  TelemetryInv'
<1>1. latest \in Report
  BY DEF TelemetryInv, TelemetryTyped
<1>2. [faults |-> latest.faults, stale |-> FALSE] \in Report /\ [faults |-> << >>, stale |-> FALSE] \in Report
  BY <1>1 DEF Report
<1>3. CASE Telemetry!ReceiveWebhook(i)
  <2>1. PICK report \in Reports : Telemetry!Begin(i, "webhook", Telemetry!NoOne, report)
    BY <1>3 DEF Telemetry!ReceiveWebhook
  <2> QED BY <2>1, TelemetryNames, TelemetryBegins
<1>4. CASE Telemetry!Poll(i)
  <2>1. PICK p \in Hosts, report \in Telemetry!Fetched(latest.faults) : Telemetry!Begin(i, "poll", p, report)
    BY <1>4 DEF Telemetry!Poll
  <2>2. latest.faults \in Seq(Telemetry!Codes) /\ << >> \in Seq(Telemetry!Codes)
    BY <1>1 DEF Report
  <2>3. Telemetry!Fetched(latest.faults) \subseteq Report
    <3> SUFFICES ASSUME NEW r \in Telemetry!Fetched(latest.faults) PROVE r \in Report
      OBVIOUS
    <3>1. /\ r = [faults |-> r.faults, stale |-> r.stale]
          /\ (r.faults = latest.faults \/ r.faults = << >>) /\ r.stale = FALSE
      BY DEF Telemetry!Fetched
    <3>2. r.faults \in Seq(Telemetry!Codes)
      BY <2>2, <3>1
    <3> QED BY <3>1, <3>2 DEF Report
  <2>4. report \in Report
    BY <2>1, <2>3
  <2> QED BY <2>1, <2>4, TelemetryBegins
<1>5. CASE Telemetry!ReadStatus(i)
  <2>1. Telemetry!Begin(i, "read", Telemetry!NoOne, [faults |-> latest.faults, stale |-> FALSE])
    BY <1>5 DEF Telemetry!ReadStatus
  <2>2. PICK report \in Report : report = [faults |-> latest.faults, stale |-> FALSE]
    BY <1>2
  <2> QED BY <2>1, <2>2, TelemetryBegins
<1>6. CASE Telemetry!PullStatus(i)
  <2>1. Telemetry!Begin(i, "pull", Telemetry!NoOne, [faults |-> << >>, stale |-> FALSE])
    BY <1>6 DEF Telemetry!PullStatus
  <2> QED BY <1>2, <2>1, TelemetryBegins
<1> QED BY <1>3, <1>4, <1>5, <1>6

\* An ingest with nothing left to do is done.
LEMMA AtWriteRow ==
  ASSUME NEW s \in IngestRow
  PROVE  LET w == Telemetry!AtWrite(s)
         IN  /\ w \in IngestRow
             /\ w.at = IF s.todo = {} /\ s.gone = {} THEN "done" ELSE "write"
             /\ w.kind = s.kind /\ w.replica = s.replica /\ w.report = s.report
             /\ w.todo = s.todo /\ w.gone = s.gone /\ w.after = s.after
BY DEF Telemetry!AtWrite, IngestRow

\* A step of an ingest that adds no row.
LEMMA TelemetryGoesOn ==
  ASSUME TelemetryInv, NEW i \in Calls, ingests[i].at \in {"persist", "sync", "write"},
         NEW s \in IngestRow, ingests' = [ingests EXCEPT ![i] = s],
         s.report = ingests[i].report, s.after = ingests[i].after,
         s.at \in {"sync", "write", "done", "dead"}, IngestFits(s),
         ingests[i].at = "write" => s.at \in {"write", "done", "dead"} /\ s.todo \subseteq ingests[i].todo,
         \A k \in s.todo : \/ k \in ingests[i].todo
                          \/ \A n \in DOMAIN faults : IsActive(n) => faults[n].code # ingests[i].report.faults[k],
         latest' \in Report, faults' \in Seq(FaultRow), DOMAIN faults' = DOMAIN faults,
         \A n \in DOMAIN faults : /\ faults'[n].code = faults[n].code /\ faults'[n].by = faults[n].by
                                  /\ IsActive(n)' /\ ~ faults'[n].reopened => IsActive(n) /\ ~ faults[n].reopened,
         UNCHANGED <<acts, undisturbed>>,
         undisturbed = i => Settles(i)'
  PROVE  TelemetryInv'
<1> USE DEF TelemetryInv
<1>1. ingests'[i] = s /\ \A j \in Calls \ {i} : ingests'[j] = ingests[j]
  BY DEF TelemetryTyped
<1>2. TelemetryTyped'
  <2>1. ingests' \in [Calls -> IngestRow]
    BY DEF TelemetryTyped
  <2>2. \A j \in Calls : IngestFits(ingests[j])'
    BY <1>1 DEF TelemetryTyped, IngestFits
  <2> QED BY <2>1, <2>2 DEF TelemetryTyped
<1>3. \A j \in Calls :
        /\ ingests'[j].report = ingests[j].report /\ ingests'[j].after = ingests[j].after
        /\ ingests[j].at \in {"done", "dead"} => ingests'[j].at \in {"done", "dead"}
        /\ ingests'[j].at = "idle" => ingests[j].at = "idle"
        /\ ingests[j].at \in {"write", "done", "dead"} =>
             ingests'[j].at \in {"write", "done", "dead"} /\ ingests'[j].todo \subseteq ingests[j].todo
        /\ \A k \in ingests'[j].todo :
             \/ k \in ingests[j].todo
             \/ \A n \in DOMAIN faults : IsActive(n) => faults[n].code # ingests[j].report.faults[k]
  BY <1>1
<1>4. IngestsInOrder' /\ FaultsReported' /\ FaultsRepeated' /\ FaultsUnseen' /\ Telemetry!OneActiveFaultPerCode'
  BY <1>2, <1>3, TelemetryKept
<1>5. undisturbed' # Telemetry!NoOne => Settles(undisturbed)'
  <2>1. undisturbed # Telemetry!NoOne => undisturbed = i
    BY DEF Settles, TelemetryTyped
  <2> QED BY <2>1 DEF Settles, IsActive, FaultCodes
<1> QED BY <1>2, <1>4, <1>5

\* The latest row is written over, the fault rows are not.
LEMMA TelemetryPersists ==
  ASSUME TelemetryInv, NEW i \in Calls, Telemetry!PersistTelemetrySnapshot(i)
  PROVE  TelemetryInv'
<1>1. PICK at : at = IF ingests[i].kind = "pull" THEN "done" ELSE "sync"
  OBVIOUS
<1>2. PICK s : s = [ingests[i] EXCEPT !.at = at]
  OBVIOUS
<1>3. /\ ingests[i].at = "persist" /\ ingests' = [ingests EXCEPT ![i] = s]
      /\ latest' = ingests[i].report /\ UNCHANGED <<faults, acts, undisturbed>>
  BY <1>1, <1>2 DEF Telemetry!PersistTelemetrySnapshot
<1>4. ingests[i] \in IngestRow /\ IngestFits(ingests[i]) /\ faults \in Seq(FaultRow) /\ ingests[i].report \in Report
  BY DEF TelemetryInv, TelemetryTyped, IngestRow
<1>5. /\ s \in IngestRow /\ s.at = at /\ s.kind = ingests[i].kind /\ s.report = ingests[i].report
      /\ s.after = ingests[i].after /\ s.todo = ingests[i].todo /\ s.gone = ingests[i].gone
  BY <1>1, <1>2, <1>4 DEF IngestRow
<1>6. s.todo = {} /\ s.gone = {} /\ IngestFits(s)
  BY <1>1, <1>3, <1>4, <1>5 DEF IngestFits
<1>7. undisturbed = i => Settles(i)'
  <2>1. ingests'[i] = s /\ \A j \in Calls \ {i} : ingests'[j] = ingests[j]
    BY <1>3 DEF TelemetryInv, TelemetryTyped
  <2>2. s.kind # "pull" => s.at = "sync"
    BY <1>1, <1>5
  <2> QED BY <2>1, <2>2, TelemetryNames DEF TelemetryInv, Settles
<1>8. \A n \in DOMAIN faults : /\ faults'[n].code = faults[n].code /\ faults'[n].by = faults[n].by
                               /\ IsActive(n)' /\ ~ faults'[n].reopened => IsActive(n) /\ ~ faults[n].reopened
  BY <1>3 DEF IsActive
<1> QED BY <1>1, <1>3, <1>4, <1>5, <1>6, <1>7, <1>8, TelemetryGoesOn

\* Who dies leaves its work undone, and settles nothing.
LEMMA TelemetryDies ==
  ASSUME TelemetryInv, NEW i \in Calls, Telemetry!Die(i)
  PROVE  TelemetryInv'
<1>1. PICK s : s = [ingests[i] EXCEPT !.at = "dead", !.todo = {}, !.gone = {}]
  OBVIOUS
<1>2. /\ i \in Telemetry!Running /\ ingests' = [ingests EXCEPT ![i] = s] /\ UNCHANGED <<latest, faults, acts, undisturbed>>
  BY <1>1 DEF Telemetry!Die
<1>3. /\ ingests[i] \in IngestRow /\ IngestFits(ingests[i]) /\ faults \in Seq(FaultRow)
      /\ ingests[i].at \in {"persist", "sync", "write"} /\ latest \in Report
  BY <1>2 DEF TelemetryInv, TelemetryTyped, Telemetry!Running, Telemetry!Over, IngestRow
<1>4. /\ s \in IngestRow /\ s.at = "dead" /\ s.kind = ingests[i].kind /\ s.report = ingests[i].report
      /\ s.after = ingests[i].after /\ s.todo = {} /\ s.gone = {}
  BY <1>1, <1>3 DEF IngestRow
<1>5. IngestFits(s)
  BY <1>4 DEF IngestFits
<1>6. undisturbed = i => Settles(i)'
  <2>1. ingests'[i] = s /\ \A j \in Calls \ {i} : ingests'[j] = ingests[j]
    BY <1>2 DEF TelemetryInv, TelemetryTyped
  <2> QED BY <1>4, <2>1, TelemetryNames DEF TelemetryInv, Settles
<1>7. \A n \in DOMAIN faults : /\ faults'[n].code = faults[n].code /\ faults'[n].by = faults[n].by
                               /\ IsActive(n)' /\ ~ faults'[n].reopened => IsActive(n) /\ ~ faults[n].reopened
  BY <1>2 DEF IsActive
<1> QED BY <1>2, <1>3, <1>4, <1>5, <1>6, <1>7, TelemetryGoesOn

\* what is read becomes what is left to do
LEMMA TelemetryReads ==
  ASSUME TelemetryInv, NEW i \in Calls, Telemetry!ReadOpenFaults(i)
  PROVE  TelemetryInv'
<1>1. PICK reported : reported = ingests[i].report.faults
  OBVIOUS
<1>2. PICK todo : todo = {k \in DOMAIN reported : \A n \in Telemetry!Active : faults[n].code # reported[k]}
  OBVIOUS
<1>3. PICK gone : gone = {n \in Telemetry!Active : faults[n].code \notin Telemetry!ToSet(reported)}
  OBVIOUS
<1>4. PICK r : r = [ingests[i] EXCEPT !.todo = todo, !.gone = gone]
  OBVIOUS
<1>5. PICK s : s = Telemetry!AtWrite(r)
  OBVIOUS
<1>6. /\ ingests[i].at = "sync" /\ UNCHANGED <<latest, faults, acts, undisturbed>>
      /\ ingests' = [ingests EXCEPT ![i] = s]
  <2>1. ingests[i].at = "sync" /\ UNCHANGED <<latest, faults, acts, undisturbed>>
    BY DEF Telemetry!ReadOpenFaults
  <2>2. ingests' = [ingests EXCEPT ![i] = Telemetry!AtWrite([ingests[i] EXCEPT !.todo = todo, !.gone = gone])]
    BY <1>1, <1>2, <1>3, Zenon DEF Telemetry!ReadOpenFaults
  <2> QED BY <1>4, <1>5, <2>1, <2>2
<1>7. /\ ingests[i] \in IngestRow /\ IngestFits(ingests[i]) /\ faults \in Seq(FaultRow) /\ latest \in Report
      /\ reported \in Seq(Telemetry!Codes)
  BY <1>1 DEF TelemetryInv, TelemetryTyped, IngestRow, Report
<1>8. todo \subseteq DOMAIN reported /\ todo \in SUBSET Nat
  BY <1>2, <1>7
<1>9. gone \subseteq DOMAIN faults /\ gone \in SUBSET Nat /\ \A n \in DOMAIN faults : n \in Telemetry!Active <=> IsActive(n)
  BY <1>3, TelemetryRows DEF Telemetry!Active, IsActive, TelemetryInv
<1>10. /\ r \in IngestRow /\ r.kind = ingests[i].kind /\ r.replica = ingests[i].replica
       /\ r.report = ingests[i].report /\ r.after = ingests[i].after /\ r.todo = todo /\ r.gone = gone
  BY <1>4, <1>7, <1>8, <1>9 DEF IngestRow
<1>11. /\ s \in IngestRow /\ s.kind = ingests[i].kind /\ s.report = ingests[i].report /\ s.after = ingests[i].after
       /\ s.todo = todo /\ s.gone = gone /\ s.at = IF todo = {} /\ gone = {} THEN "done" ELSE "write"
  BY <1>5, <1>10, AtWriteRow
<1>12. IngestFits(s)
  BY <1>1, <1>6, <1>7, <1>8, <1>9, <1>11 DEF IngestFits
<1>13. \A k \in s.todo, n \in DOMAIN faults : IsActive(n) => faults[n].code # ingests[i].report.faults[k]
  BY <1>1, <1>2, <1>9, <1>11
<1>14. undisturbed = i => Settles(i)'
  <2>1. ingests'[i] = s /\ \A j \in Calls \ {i} : ingests'[j] = ingests[j]
    BY <1>6 DEF TelemetryInv, TelemetryTyped
  <2>2. \A n \in s.gone : IsActive(n)
    BY <1>3, <1>9, <1>11
  <2>3. \A n \in DOMAIN faults : IsActive(n) => (n \in s.gone <=> faults[n].code \notin FaultCodes(s.report.faults))
    BY <1>1, <1>3, <1>9, <1>11, CodesOfReports
  <2>4. \A k \in DOMAIN s.report.faults \ s.todo :
          \E n \in DOMAIN faults : IsActive(n) /\ faults[n].code = s.report.faults[k]
    BY <1>1, <1>2, <1>9, <1>11 DEF Telemetry!Active
  <2>5. undisturbed = i => \A j \in Calls \ {i} : ingests[j].at \in {"idle", "done", "dead"}
    BY TelemetryNames DEF TelemetryInv, Settles
  <2> QED BY <1>6, <2>1, <2>2, <2>3, <2>4, <2>5 DEF Settles, IsActive
<1>15. \A n \in DOMAIN faults : /\ faults'[n].code = faults[n].code /\ faults'[n].by = faults[n].by
                                /\ IsActive(n)' /\ ~ faults'[n].reopened => IsActive(n) /\ ~ faults[n].reopened
  BY <1>6 DEF IsActive
<1>16. s.at \in {"sync", "write", "done", "dead"}
  BY <1>11
<1> QED BY <1>6, <1>7, <1>11, <1>12, <1>13, <1>14, <1>15, <1>16, TelemetryGoesOn

\* A row whose code is gone is resolved.
LEMMA TelemetryResolves ==
  ASSUME TelemetryInv, NEW i \in Calls, Telemetry!ResolveFault(i)
  PROVE  TelemetryInv'
<1>1. PICK n \in ingests[i].gone :
        /\ faults' = [faults EXCEPT ![n].status = "RESOLVED"]
        /\ ingests' = [ingests EXCEPT ![i] = Telemetry!AtWrite([ingests[i] EXCEPT !.gone = ingests[i].gone \ {n}])]
  BY DEF Telemetry!ResolveFault
<1>2. PICK gone : gone = ingests[i].gone \ {n}
  OBVIOUS
<1>3. PICK r : r = [ingests[i] EXCEPT !.gone = gone]
  OBVIOUS
<1>4. PICK s : s = Telemetry!AtWrite(r)
  OBVIOUS
<1>5. PICK x : x = [faults[n] EXCEPT !.status = "RESOLVED"]
  OBVIOUS
<1>6. /\ ingests[i].at = "write" /\ ingests[i].todo = {} /\ UNCHANGED <<latest, acts, undisturbed>>
      /\ faults' = [faults EXCEPT ![n] = x] /\ ingests' = [ingests EXCEPT ![i] = s]
  <2>1. ingests[i].at = "write" /\ ingests[i].todo = {} /\ UNCHANGED <<latest, acts, undisturbed>>
    BY DEF Telemetry!ResolveFault
  <2>2. faults' = [faults EXCEPT ![n] = x]
    BY <1>1, <1>5
  <2>3. ingests' = [ingests EXCEPT ![i] = s]
    BY <1>1, <1>2, <1>3, <1>4
  <2> QED BY <2>1, <2>2, <2>3
<1>7. /\ ingests[i] \in IngestRow /\ IngestFits(ingests[i]) /\ faults \in Seq(FaultRow) /\ latest \in Report
      /\ TelemetryTyped
  BY DEF TelemetryInv, TelemetryTyped
<1>8. n \in DOMAIN faults /\ gone \subseteq DOMAIN faults /\ gone \in SUBSET Nat
  BY <1>2, <1>7 DEF IngestFits, IngestRow
<1>9. x \in FaultRow /\ x.code = faults[n].code /\ x.by = faults[n].by /\ x.status = "RESOLVED"
      /\ x.reopened = faults[n].reopened
  BY <1>5, <1>7, <1>8, TelemetryRows DEF FaultRow
<1>10. /\ faults' \in Seq(FaultRow) /\ DOMAIN faults' = DOMAIN faults /\ faults'[n] = x
       /\ \A m \in DOMAIN faults \ {n} : faults'[m] = faults[m]
  BY <1>6, <1>7, <1>8, <1>9
<1>11. /\ r \in IngestRow /\ r.kind = ingests[i].kind /\ r.replica = ingests[i].replica
       /\ r.report = ingests[i].report /\ r.after = ingests[i].after /\ r.todo = ingests[i].todo /\ r.gone = gone
  BY <1>3, <1>7, <1>8 DEF IngestRow
<1>12. /\ s \in IngestRow /\ s.kind = ingests[i].kind /\ s.report = ingests[i].report /\ s.after = ingests[i].after
       /\ s.todo = {} /\ s.gone = gone /\ s.at = IF gone = {} THEN "done" ELSE "write"
  BY <1>4, <1>6, <1>11, AtWriteRow
<1>13. IngestFits(s)
  BY <1>6, <1>7, <1>8, <1>12 DEF IngestFits
<1>14. \A m \in DOMAIN faults : /\ faults'[m].code = faults[m].code /\ faults'[m].by = faults[m].by
                                /\ faults'[m].reopened = faults[m].reopened
                                /\ IsActive(m)' <=> IsActive(m) /\ m # n
  BY <1>9, <1>10 DEF IsActive
<1>15. undisturbed = i => Settles(i)'
  <2> SUFFICES ASSUME undisturbed = i PROVE Settles(i)'
    OBVIOUS
  <2>1. ingests'[i] = s /\ \A j \in Calls \ {i} : ingests'[j] = ingests[j]
    BY <1>6, <1>7 DEF TelemetryTyped
  <2>2. Settles(i)
    BY TelemetryNames DEF TelemetryInv
  <2>3. ASSUME s.kind # "pull"
        PROVE  /\ \A m \in gone : IsActive(m) /\ m # n
               /\ \A m \in DOMAIN faults : IsActive(m) /\ m # n =>
                    (m \in gone <=> faults[m].code \notin FaultCodes(s.report.faults))
               /\ \A k \in DOMAIN s.report.faults :
                    \E m \in DOMAIN faults : IsActive(m) /\ m # n /\ faults[m].code = s.report.faults[k]
    <3>1. /\ \A m \in ingests[i].gone : IsActive(m)
          /\ \A m \in DOMAIN faults : IsActive(m) =>
               (m \in ingests[i].gone <=> faults[m].code \notin FaultCodes(s.report.faults))
          /\ \A k \in DOMAIN s.report.faults :
               \E m \in DOMAIN faults : IsActive(m) /\ faults[m].code = s.report.faults[k]
      BY <1>6, <1>12, <2>2, <2>3 DEF Settles
    <3>2. faults[n].code \notin FaultCodes(s.report.faults)
      BY <1>1, <1>8, <3>1
    <3> QED BY <1>2, <3>1, <3>2 DEF FaultCodes
  <2>4. \A j \in Calls \ {i} : ingests'[j].at \in {"idle", "done", "dead"}
    BY <2>1, <2>2 DEF Settles
  <2> QED BY <1>2, <1>8, <1>10, <1>12, <1>14, <2>1, <2>3, <2>4 DEF Settles
<1>16. s.at \in {"sync", "write", "done", "dead"} /\ s.todo \subseteq ingests[i].todo
       /\ s.at \in {"write", "done", "dead"} /\ ingests[i].at \in {"persist", "sync", "write"}
  BY <1>6, <1>12
<1>17. latest' \in Report /\ UNCHANGED <<acts, undisturbed>>
  BY <1>6, <1>7
<1>18. \A k \in s.todo : \/ k \in ingests[i].todo
                         \/ \A m \in DOMAIN faults : IsActive(m) => faults[m].code # ingests[i].report.faults[k]
  BY <1>12
<1>19. ingests' = [ingests EXCEPT ![i] = s]
  BY <1>6
<1> QED BY <1>10, <1>12, <1>13, <1>14, <1>15, <1>16, <1>17, <1>18, <1>19, TelemetryGoesOn

\* A user's write disturbs whoever is at work.
LEMMA TelemetryUsers ==
  ASSUME TelemetryInv, NEW n \in DOMAIN faults, NEW status \in {"ACKNOWLEDGED", "RESOLVED"},
         Telemetry!UserWrites(n, status)
  PROVE  TelemetryInv'
<1>1. PICK reopened \in BOOLEAN :
        reopened <=> (faults[n].reopened \/ (faults[n].status = "RESOLVED" /\ status # "RESOLVED"))
  OBVIOUS
<1>2. PICK x : x = [faults[n] EXCEPT !.status = status,
                      !.reopened = faults[n].reopened \/ (faults[n].status = "RESOLVED" /\ status # "RESOLVED")]
  OBVIOUS
<1>3. /\ acts < MaxActs /\ acts' = acts + 1 /\ undisturbed' = Telemetry!NoOne /\ UNCHANGED <<latest, ingests>>
      /\ faults' = [faults EXCEPT ![n] = x]
  BY <1>2 DEF Telemetry!UserWrites
<1>4. TelemetryTyped /\ faults \in Seq(FaultRow) /\ faults[n] \in FaultRow
  BY TelemetryRows DEF TelemetryInv, TelemetryTyped
<1>5. /\ x \in FaultRow /\ x.code = faults[n].code /\ x.by = faults[n].by /\ x.status = status
      /\ x.reopened <=> reopened
  BY <1>1, <1>2, <1>4 DEF FaultRow
<1>6. /\ faults' \in Seq(FaultRow) /\ DOMAIN faults' = DOMAIN faults /\ faults'[n] = x
      /\ \A m \in DOMAIN faults \ {n} : faults'[m] = faults[m]
  BY <1>3, <1>4, <1>5
<1>7. TelemetryTyped'
  <2>1. \A j \in Calls : IngestFits(ingests[j])'
    BY <1>3, <1>4, <1>6 DEF TelemetryTyped, IngestFits
  <2>2. acts' \in 0..MaxActs
    BY <1>3, <1>4, TelemetryNames DEF TelemetryTyped
  <2> QED BY <1>3, <1>4, <1>6, <2>1, <2>2 DEF TelemetryTyped
<1>8. \A m \in DOMAIN faults : /\ faults'[m].code = faults[m].code /\ faults'[m].by = faults[m].by
                               /\ IsActive(m)' /\ ~ faults'[m].reopened => IsActive(m) /\ ~ faults[m].reopened
  <2>1. IsActive(n)' /\ ~ faults'[n].reopened => IsActive(n) /\ ~ faults[n].reopened
    BY <1>1, <1>4, <1>5, <1>6 DEF IsActive, FaultRow
  <2> QED BY <1>5, <1>6, <2>1 DEF IsActive
<1>9. \A j \in Calls : ingests'[j] = ingests[j]
  BY <1>3
<1>10. IngestsInOrder' /\ FaultsReported' /\ FaultsRepeated' /\ FaultsUnseen' /\ Telemetry!OneActiveFaultPerCode'
  BY <1>6, <1>7, <1>8, <1>9, TelemetryKept
<1> QED BY <1>3, <1>7, <1>10 DEF TelemetryInv

\* The new row's code was not there when its ingest read, or the same report named it before.
LEMMA TelemetryCreates ==
  ASSUME TelemetryInv, NEW i \in Calls, Telemetry!CreateFault(i)
  PROVE  TelemetryInv'
<1> USE DEF TelemetryInv
<1>1. PICK k \in ingests[i].todo :
        /\ faults' = Append(faults, [code |-> ingests[i].report.faults[k], status |-> "OPEN", by |-> i, reopened |-> FALSE])
        /\ ingests' = [ingests EXCEPT ![i] = Telemetry!AtWrite([ingests[i] EXCEPT !.todo = ingests[i].todo \ {k}])]
  BY DEF Telemetry!CreateFault
<1>2. PICK todo : todo = ingests[i].todo \ {k}
  OBVIOUS
<1>3. PICK r : r = [ingests[i] EXCEPT !.todo = todo]
  OBVIOUS
<1>4. PICK s : s = Telemetry!AtWrite(r)
  OBVIOUS
<1>5. PICK x : x = [code |-> ingests[i].report.faults[k], status |-> "OPEN", by |-> i, reopened |-> FALSE]
  OBVIOUS
<1>6. /\ ingests[i].at = "write" /\ UNCHANGED <<latest, acts, undisturbed>>
      /\ faults' = Append(faults, x) /\ ingests' = [ingests EXCEPT ![i] = s]
  <2>1. ingests[i].at = "write" /\ UNCHANGED <<latest, acts, undisturbed>>
    BY DEF Telemetry!CreateFault
  <2>2. ingests' = [ingests EXCEPT ![i] = s]
    BY <1>1, <1>2, <1>3, <1>4
  <2> QED BY <1>1, <1>5, <2>1, <2>2
<1>7. /\ ingests[i] \in IngestRow /\ IngestFits(ingests[i]) /\ faults \in Seq(FaultRow) /\ latest \in Report
      /\ ingests[i].report.faults \in Seq(Telemetry!Codes)
  BY DEF TelemetryTyped, IngestRow, Report
<1>8. k \in DOMAIN ingests[i].report.faults /\ todo \in SUBSET Nat /\ todo \subseteq ingests[i].todo
  BY <1>2, <1>7 DEF IngestFits, IngestRow
<1>9. x \in FaultRow /\ x.code = ingests[i].report.faults[k] /\ x.by = i /\ x.status = "OPEN" /\ x.reopened = FALSE
  BY <1>5, <1>7, <1>8 DEF FaultRow
<1>10. PICK N : N = Len(faults) + 1
  OBVIOUS
<1>11. /\ faults' \in Seq(FaultRow) /\ DOMAIN faults' = DOMAIN faults \cup {N} /\ N \notin DOMAIN faults
       /\ faults'[N] = x /\ \A m \in DOMAIN faults : faults'[m] = faults[m]
  BY <1>6, <1>7, <1>9, <1>10
<1>12. /\ r \in IngestRow /\ r.kind = ingests[i].kind /\ r.replica = ingests[i].replica
       /\ r.report = ingests[i].report /\ r.after = ingests[i].after /\ r.todo = todo /\ r.gone = ingests[i].gone
  BY <1>3, <1>7, <1>8 DEF IngestRow
<1>13. /\ s \in IngestRow /\ s.kind = ingests[i].kind /\ s.report = ingests[i].report /\ s.after = ingests[i].after
       /\ s.todo = todo /\ s.gone = ingests[i].gone
       /\ s.at = IF todo = {} /\ ingests[i].gone = {} THEN "done" ELSE "write"
  BY <1>4, <1>12, AtWriteRow
<1>14. ingests'[i] = s /\ \A j \in Calls \ {i} : ingests'[j] = ingests[j]
  BY <1>6 DEF TelemetryTyped
<1>15. \A j \in Calls : ingests'[j].report = ingests[j].report /\ ingests'[j].after = ingests[j].after
                        /\ ingests'[j].todo \subseteq ingests[j].todo
  BY <1>8, <1>13, <1>14
<1>16. TelemetryTyped'
  <2>1. ingests' \in [Calls -> IngestRow]
    BY <1>6, <1>13 DEF TelemetryTyped
  <2>2. \A j \in Calls : IngestFits(ingests[j])'
    BY <1>6, <1>7, <1>8, <1>11, <1>13, <1>14 DEF TelemetryTyped, IngestFits
  <2> QED BY <1>6, <1>7, <1>11, <2>1, <2>2 DEF TelemetryTyped
<1>17. \A m \in DOMAIN faults : faults[m].by \in Calls
  BY TelemetryRows DEF FaultRow
<1>18. \A j \in Calls : i \notin ingests[j].after
  BY <1>6 DEF IngestsInOrder
<1>19. IngestsInOrder'
  <2> SUFFICES ASSUME NEW j \in Calls
               PROVE  /\ ingests'[j].at = "idle" => ingests'[j].after = {}
                      /\ \A l \in ingests'[j].after : ingests'[l].at \in {"done", "dead"}
    BY DEF IngestsInOrder
  <2>1. ingests'[j].at = "idle" => ingests[j].at = "idle"
    BY <1>13, <1>14
  <2>2. \A l \in ingests[j].after : l \in Calls \ {i} /\ ingests[l].at \in {"done", "dead"}
    BY <1>18 DEF IngestsInOrder, TelemetryTyped, IngestRow
  <2> QED BY <1>14, <1>15, <2>1, <2>2 DEF IngestsInOrder
<1>20. FaultsReported'
  <2> SUFFICES ASSUME NEW m \in DOMAIN faults'
               PROVE  /\ ingests'[faults'[m].by].at \in {"write", "done", "dead"}
                      /\ \E l \in DOMAIN ingests'[faults'[m].by].report.faults \ ingests'[faults'[m].by].todo :
                           ingests'[faults'[m].by].report.faults[l] = faults'[m].code
    BY DEF FaultsReported
  <2>1. CASE m = N
    BY <1>2, <1>8, <1>9, <1>11, <1>13, <1>14, <2>1
  <2>2. CASE m \in DOMAIN faults
    <3>1. /\ ingests[faults[m].by].at \in {"write", "done", "dead"}
          /\ \E l \in DOMAIN ingests[faults[m].by].report.faults \ ingests[faults[m].by].todo :
               ingests[faults[m].by].report.faults[l] = faults[m].code
      BY <2>2 DEF FaultsReported
    <3>2. ingests'[faults[m].by].at \in {"write", "done", "dead"}
      BY <1>13, <1>14, <1>17, <2>2, <3>1
    <3> QED BY <1>11, <1>15, <1>17, <2>2, <3>1, <3>2
  <2> QED BY <1>11, <2>1, <2>2
<1>21. ASSUME NEW m \in DOMAIN faults, faults[m].code = x.code, faults[m].by = i
       PROVE  Telemetry!Repeats(ingests[i].report.faults)
  <2>1. PICK l \in DOMAIN ingests[i].report.faults \ ingests[i].todo : ingests[i].report.faults[l] = faults[m].code
    BY <1>21 DEF FaultsReported
  <2>2. l # k
    BY <2>1
  <2> QED BY <1>8, <1>9, <1>21, <2>1, <2>2 DEF Telemetry!Repeats
<1>22. FaultsRepeated'
  <2> SUFFICES ASSUME NEW m \in DOMAIN faults', NEW n \in DOMAIN faults', m # n,
                      faults'[m].code = faults'[n].code, faults'[m].by = faults'[n].by
               PROVE  Telemetry!Repeats(ingests'[faults'[m].by].report.faults)
    BY DEF FaultsRepeated, Telemetry!Repeats
  <2>1. CASE m \in DOMAIN faults /\ n \in DOMAIN faults
    <3>1. Telemetry!Repeats(ingests[faults[m].by].report.faults)
      BY <1>11, <2>1 DEF FaultsRepeated
    <3> QED BY <1>11, <1>15, <1>17, <2>1, <3>1
  <2>2. CASE m = N /\ n \in DOMAIN faults
    BY <1>9, <1>11, <1>15, <1>21, <2>2
  <2>3. CASE n = N /\ m \in DOMAIN faults
    BY <1>9, <1>11, <1>15, <1>21, <2>3
  <2> QED BY <1>11, <2>1, <2>2, <2>3
<1>23. /\ IsActive(N)' /\ \A m \in DOMAIN faults : IsActive(m)' <=> IsActive(m)
  BY <1>9, <1>11 DEF IsActive
<1>24. FaultsUnseen'
  <2> SUFFICES ASSUME NEW j \in Calls, NEW l \in ingests'[j].todo, NEW n \in DOMAIN faults', IsActive(n)',
                      faults'[n].code = ingests'[j].report.faults[l], ~ faults'[n].reopened, faults'[n].by # j
               PROVE  faults'[n].by \notin ingests'[j].after
    BY DEF FaultsUnseen
  <2>1. CASE n = N
    BY <1>9, <1>11, <1>15, <1>18, <2>1
  <2>2. CASE n \in DOMAIN faults
    <3>1. l \in ingests[j].todo /\ IsActive(n) /\ faults[n].code = ingests[j].report.faults[l]
          /\ ~ faults[n].reopened /\ faults[n].by # j
      BY <1>11, <1>15, <1>23, <2>2
    <3>2. faults[n].by \notin ingests[j].after
      BY <2>2, <3>1 DEF FaultsUnseen
    <3> QED BY <1>11, <1>15, <2>2, <3>2
  <2> QED BY <1>11, <2>1, <2>2
<1>25. ASSUME NEW m \in DOMAIN faults, IsActive(m), faults[m].code = x.code, ~ faults[m].reopened
       PROVE  \/ /\ faults[m].by # i /\ faults[m].by \notin ingests[i].after /\ i \notin ingests[faults[m].by].after
              \/ faults[m].by = i /\ Telemetry!Repeats(ingests[i].report.faults)
  <2>1. CASE faults[m].by = i
    BY <1>21, <1>25, <2>1
  <2>2. CASE faults[m].by # i
    BY <1>9, <1>17, <1>18, <1>25, <2>2 DEF FaultsUnseen
  <2> QED BY <2>1, <2>2
<1>26. Telemetry!OneActiveFaultPerCode'
  <2> SUFFICES ASSUME NEW m \in DOMAIN faults', NEW n \in DOMAIN faults', IsActive(m)', IsActive(n)', m # n,
                      faults'[m].code = faults'[n].code, ~ faults'[m].reopened, ~ faults'[n].reopened
               PROVE  \/ /\ faults'[m].by # faults'[n].by
                         /\ faults'[m].by \notin ingests'[faults'[n].by].after
                         /\ faults'[n].by \notin ingests'[faults'[m].by].after
                      \/ /\ faults'[m].by = faults'[n].by
                         /\ Telemetry!Repeats(ingests'[faults'[m].by].report.faults)
    BY DEF Telemetry!OneActiveFaultPerCode, Telemetry!Active, IsActive, Telemetry!Overlap, Telemetry!Repeats
  <2>1. CASE m \in DOMAIN faults /\ n \in DOMAIN faults
    <3>1. m \in Telemetry!Active /\ n \in Telemetry!Active
      BY <1>23, <2>1 DEF Telemetry!Active, IsActive
    <3>2. faults[m].code = faults[n].code /\ ~ faults[m].reopened /\ ~ faults[n].reopened
      BY <1>11, <2>1
    <3>3. \/ /\ faults[m].by # faults[n].by
             /\ faults[m].by \notin ingests[faults[n].by].after
             /\ faults[n].by \notin ingests[faults[m].by].after
          \/ /\ faults[m].by = faults[n].by
             /\ Telemetry!Repeats(ingests[faults[m].by].report.faults)
      BY <3>1, <3>2 DEF Telemetry!OneActiveFaultPerCode, Telemetry!Overlap
    <3> QED BY <1>11, <1>15, <1>17, <2>1, <3>3
  <2>2. CASE m = N /\ n \in DOMAIN faults
    BY <1>9, <1>11, <1>15, <1>17, <1>23, <1>25, <2>2
  <2>3. CASE n = N /\ m \in DOMAIN faults
    BY <1>9, <1>11, <1>15, <1>17, <1>23, <1>25, <2>3
  <2> QED BY <1>11, <2>1, <2>2, <2>3
<1>27. undisturbed' # Telemetry!NoOne => Settles(undisturbed)'
  <2> SUFFICES ASSUME undisturbed # Telemetry!NoOne PROVE Settles(undisturbed)'
    BY <1>6
  <2>1. undisturbed = i /\ Settles(i)
    BY <1>6 DEF Settles, TelemetryTyped
  <2>2. ASSUME s.kind # "pull"
        PROVE  /\ \A m \in s.gone : IsActive(m)'
               /\ \A m \in DOMAIN faults' : IsActive(m)' =>
                    (m \in s.gone <=> faults'[m].code \notin FaultCodes(s.report.faults))
               /\ \A l \in DOMAIN s.report.faults \ s.todo :
                    \E m \in DOMAIN faults' : IsActive(m)' /\ faults'[m].code = s.report.faults[l]
    <3>1. /\ \A m \in s.gone : m \in DOMAIN faults /\ IsActive(m)
          /\ \A m \in DOMAIN faults : IsActive(m) =>
               (m \in s.gone <=> faults[m].code \notin FaultCodes(s.report.faults))
          /\ \A l \in DOMAIN s.report.faults \ ingests[i].todo :
               \E m \in DOMAIN faults : IsActive(m) /\ faults[m].code = s.report.faults[l]
      BY <1>6, <1>7, <1>13, <2>1, <2>2 DEF Settles, IngestFits
    <3>2. x.code \in FaultCodes(s.report.faults)
      BY <1>8, <1>9, <1>13 DEF FaultCodes
    <3>3. \A m \in s.gone : IsActive(m)'
      BY <1>23, <3>1
    <3>4. \A m \in DOMAIN faults' : IsActive(m)' =>
            (m \in s.gone <=> faults'[m].code \notin FaultCodes(s.report.faults))
      BY <1>11, <1>23, <3>1, <3>2
    <3>5. ASSUME NEW l \in DOMAIN s.report.faults \ s.todo
          PROVE  \E m \in DOMAIN faults' : IsActive(m)' /\ faults'[m].code = s.report.faults[l]
      <4>1. CASE l = k
        BY <1>9, <1>11, <1>13, <1>23, <4>1
      <4>2. CASE l # k
        BY <1>2, <1>11, <1>13, <1>23, <3>1, <4>2
      <4> QED BY <4>1, <4>2
    <3> QED BY <3>3, <3>4, <3>5
  <2>3. \A j \in Calls \ {i} : ingests'[j].at \in {"idle", "done", "dead"}
    BY <1>14, <2>1 DEF Settles
  <2>4. Settles(i)'
    BY <1>14, <2>2, <2>3 DEF Settles
  <2>5. undisturbed' = i
    BY <1>6, <2>1
  <2> QED BY <2>4, <2>5 DEF Settles, IsActive, FaultCodes
<1> QED BY <1>16, <1>19, <1>20, <1>22, <1>24, <1>26, <1>27

\* Every step of the telemetry preserves its invariant.
LEMMA TelemetryStep ==
  ASSUME TelemetryInv, [Telemetry!Next]_(Telemetry!vars)
  PROVE  TelemetryInv'
<1>1. CASE UNCHANGED Telemetry!vars
  <2>1. UNCHANGED <<latest, faults, ingests, acts, undisturbed>>
    BY <1>1 DEF Telemetry!vars
  <2>2. TelemetryTyped'
    BY <2>1 DEF TelemetryInv, TelemetryTyped, IngestFits
  <2>3. IngestsInOrder' /\ FaultsReported' /\ FaultsRepeated' /\ FaultsUnseen' /\ Telemetry!OneActiveFaultPerCode'
    BY <2>1, <2>2, TelemetryKept DEF IsActive
  <2>4. undisturbed' # Telemetry!NoOne => Settles(undisturbed)'
    BY <2>1 DEF TelemetryInv, Settles, IsActive, FaultCodes
  <2> QED BY <2>2, <2>3, <2>4 DEF TelemetryInv
<1>2. CASE Telemetry!Next
  <2>1. CASE \E i \in Calls : \/ Telemetry!ReceiveWebhook(i) \/ Telemetry!Poll(i) \/ Telemetry!ReadStatus(i)
                              \/ Telemetry!PullStatus(i)
    BY <2>1, TelemetryBeginSteps
  <2>2. CASE \E i \in Calls : Telemetry!PersistTelemetrySnapshot(i)
    BY <2>2, TelemetryPersists
  <2>3. CASE \E i \in Calls : Telemetry!ReadOpenFaults(i)
    BY <2>3, TelemetryReads
  <2>4. CASE \E i \in Calls : Telemetry!CreateFault(i)
    BY <2>4, TelemetryCreates
  <2>5. CASE \E i \in Calls : Telemetry!ResolveFault(i)
    BY <2>5, TelemetryResolves
  <2>6. CASE \E i \in Calls : Telemetry!Die(i)
    BY <2>6, TelemetryDies
  <2>7. CASE \E n \in DOMAIN faults : Telemetry!AcknowledgeFault(n) \/ Telemetry!ResolveByUser(n)
    BY <2>7, TelemetryUsers DEF Telemetry!AcknowledgeFault, Telemetry!ResolveByUser
  <2> QED BY <1>2, <2>1, <2>2, <2>3, <2>4, <2>5, <2>6, <2>7 DEF Telemetry!Next
<1> QED BY <1>1, <1>2

\* What the invariant of the telemetry says of it.
LEMMA TelemetryProperties ==
  ASSUME TelemetryInv
  PROVE  Telemetry!TypeOK /\ Telemetry!OneActiveFaultPerCode /\ Telemetry!SyncAloneSettles
<1>1. TelemetryTyped
  BY DEF TelemetryInv
<1>2. Telemetry!TypeOK
  <2>1. Telemetry!ToSet(latest.faults) \subseteq Telemetry!Codes /\ latest.stale \in BOOLEAN
    <3>1. latest.faults \in Seq(Telemetry!Codes) /\ latest.stale \in BOOLEAN
      BY <1>1 DEF TelemetryTyped, Report
    <3> QED BY <3>1, CodesOfReports DEF FaultCodes
  <2>2. \A n \in DOMAIN faults :
          /\ faults[n].code \in Telemetry!Codes /\ faults[n].by \in Calls
          /\ faults[n].status \in {"OPEN", "ACKNOWLEDGED", "RESOLVED"}
          /\ faults[n].reopened \in BOOLEAN
    BY <1>1, TelemetryRows DEF FaultRow
  <2>3. \A i \in Calls :
          /\ ingests[i].at \in {"idle", "persist", "sync", "write", "done", "dead"}
          /\ ingests[i].gone \subseteq DOMAIN faults
          /\ ingests[i].at = "write" => ingests[i].todo # {} \/ ingests[i].gone # {}
          /\ ingests[i].kind = "pull" => ingests[i].at \in {"persist", "done", "dead"}
    BY <1>1 DEF TelemetryTyped, IngestFits, IngestRow
  <2>4. acts \in 0..MaxActs /\ undisturbed \in Calls \cup {Telemetry!NoOne}
    BY <1>1 DEF TelemetryTyped
  <2> QED BY <2>1, <2>2, <2>3, <2>4 DEF Telemetry!TypeOK
<1>3. Telemetry!SyncAloneSettles
  <2> SUFFICES ASSUME NEW i \in Calls, undisturbed = i, ingests[i].at = "done", ingests[i].kind # "pull"
               PROVE  {faults[n].code : n \in Telemetry!Active} = Telemetry!ToSet(ingests[i].report.faults)
    BY DEF Telemetry!SyncAloneSettles
  <2>1. ingests[i].todo = {} /\ ingests[i].gone = {}
    BY <1>1 DEF TelemetryTyped, IngestFits
  <2>2. /\ \A n \in DOMAIN faults : IsActive(n) => faults[n].code \in FaultCodes(ingests[i].report.faults)
        /\ \A k \in DOMAIN ingests[i].report.faults :
             \E n \in DOMAIN faults : IsActive(n) /\ faults[n].code = ingests[i].report.faults[k]
    BY <2>1, TelemetryNames DEF TelemetryInv, Settles
  <2>3. {faults[n].code : n \in Telemetry!Active} = FaultCodes(ingests[i].report.faults)
    BY <2>2 DEF FaultCodes, IsActive, Telemetry!Active
  <2> QED BY <2>3, CodesOfReports
<1> QED BY <1>2, <1>3 DEF TelemetryInv

----------------------------------------------------------------------------
(* The composition                                                         *)

RecordsInv ==
  /\ part = "wallet" => WalletInv
  /\ part = "branding" => BrandingInv
  /\ part = "telemetry" => TelemetryInv
  /\ part = "groups" => GroupsInv
  /\ part = "plans" => PlansInv
  /\ part = "tiers" => PricingInv
  /\ part = "team" => TeamInv
  /\ part = "webhooks" => WebhooksInv
  /\ part = "timers" => TimersInv
  /\ part = "onboarding" => OnboardingInv
  /\ part = "methods" => MethodsInv
  /\ part = "tariffs" => TariffsInv
  /\ part = "identity" => IdentityInv
  /\ part = "providers" => ProvidersInv

\* Whatever component a behaviour is of, its invariant holds throughout.
THEOREM RecordsInvariant == Spec => []RecordsInv
<1>1. Init => RecordsInv
  BY Started, WalletInit, BrandingInit, TelemetryInit, GroupsInit, PlansInit, PricingInit,
     TeamInit, WebhooksInit, TimersInit, OnboardingInit, MethodsInit, TariffsInit, IdentityInit, ProvidersInit DEF RecordsInv
<1>2. RecordsInv /\ [Next]_vars => RecordsInv'
  <2> SUFFICES ASSUME RecordsInv, [Next]_vars PROVE RecordsInv'
    OBVIOUS
  <2>1. part' = part
    BY Stepped
  <2>2. part = "wallet" => WalletInv'
    <3> SUFFICES ASSUME part = "wallet" PROVE WalletInv'
      OBVIOUS
    <3>1. WalletInv
      BY DEF RecordsInv
    <3>2. [Wallet!Next]_(Wallet!vars)
      BY Stepped
    <3> QED BY <3>1, <3>2, WalletStep
  <2>3. part = "branding" => BrandingInv'
    <3> SUFFICES ASSUME part = "branding" PROVE BrandingInv'
      OBVIOUS
    <3>1. BrandingInv
      BY DEF RecordsInv
    <3>2. [Branding!Next]_(Branding!vars)
      BY Stepped
    <3> QED BY <3>1, <3>2, BrandingStep
  <2>4. part = "telemetry" => TelemetryInv'
    <3> SUFFICES ASSUME part = "telemetry" PROVE TelemetryInv'
      OBVIOUS
    <3>1. TelemetryInv
      BY DEF RecordsInv
    <3>2. [Telemetry!Next]_(Telemetry!vars)
      BY Stepped
    <3> QED BY <3>1, <3>2, TelemetryStep
  <2>5. part = "groups" => GroupsInv'
    <3> SUFFICES ASSUME part = "groups" PROVE GroupsInv'
      OBVIOUS
    <3>1. GroupsInv
      BY DEF RecordsInv
    <3>2. [LoadGroups!Next]_(LoadGroups!vars)
      BY Stepped
    <3> QED BY <3>1, <3>2, GroupsStep
  <2>6. part = "plans" => PlansInv'
    <3> SUFFICES ASSUME part = "plans" PROVE PlansInv'
      OBVIOUS
    <3>1. PlansInv
      BY DEF RecordsInv
    <3>2. [Planning!Next]_(Planning!vars)
      BY Stepped
    <3> QED BY <3>1, <3>2, PlansStep
  <2>7. part = "tiers" => PricingInv'
    <3> SUFFICES ASSUME part = "tiers" PROVE PricingInv'
      OBVIOUS
    <3>1. PricingInv
      BY DEF RecordsInv
    <3>2. [Pricing!Next]_(Pricing!vars)
      BY Stepped
    <3> QED BY <3>1, <3>2, PricingStep
  <2>8. part = "team" => TeamInv'
    <3> SUFFICES ASSUME part = "team" PROVE TeamInv'
      OBVIOUS
    <3>1. TeamInv
      BY DEF RecordsInv
    <3>2. [Team!Next]_(Team!vars)
      BY Stepped
    <3> QED BY <3>1, <3>2, TeamStep
  <2>9. part = "webhooks" => WebhooksInv'
    <3> SUFFICES ASSUME part = "webhooks" PROVE WebhooksInv'
      OBVIOUS
    <3>1. WebhooksInv
      BY DEF RecordsInv
    <3>2. [Webhooks(Hooks, {"process"}, 1)!Next]_(Webhooks(Hooks, {"process"}, 1)!vars)
      BY Stepped
    <3> QED BY <3>1, <3>2, WebhooksStep
  <2>10. part = "timers" => TimersInv'
    <3> SUFFICES ASSUME part = "timers" PROVE TimersInv'
      OBVIOUS
    <3>1. TimersInv
      BY DEF RecordsInv
    <3>2. [Webhooks({"hook"}, Timers, MaxCycles)!Next]_(Webhooks({"hook"}, Timers, MaxCycles)!vars)
      BY Stepped
    <3> QED BY <3>1, <3>2, TimersStep
  <2>11. part = "onboarding" => OnboardingInv'
    <3> SUFFICES ASSUME part = "onboarding" PROVE OnboardingInv'
      OBVIOUS
    <3>1. OnboardingInv
      BY DEF RecordsInv
    <3>2. [Onboarding!Next]_(Onboarding!vars)
      BY Stepped
    <3> QED BY <3>1, <3>2, OnboardingStep
  <2>12. part = "methods" => MethodsInv'
    <3> SUFFICES ASSUME part = "methods" PROVE MethodsInv'
      OBVIOUS
    <3>1. MethodsInv
      BY DEF RecordsInv
    <3>2. [Methods!Next]_(Methods!vars)
      BY Stepped
    <3> QED BY <3>1, <3>2, MethodsStep
  <2>13. part = "tariffs" => TariffsInv'
    <3> SUFFICES ASSUME part = "tariffs" PROVE TariffsInv'
      OBVIOUS
    <3>1. TariffsInv
      BY DEF RecordsInv
    <3>2. [Tariffs!Next]_(Tariffs!vars)
      BY Stepped
    <3> QED BY <3>1, <3>2, TariffsStep
  <2>14. part = "identity" => IdentityInv'
    <3> SUFFICES ASSUME part = "identity" PROVE IdentityInv'
      OBVIOUS
    <3>1. IdentityInv
      BY DEF RecordsInv
    <3>2. [Identities!Next]_(Identities!vars)
      BY Stepped
    <3> QED BY <3>1, <3>2, IdentityStep
  <2>15. part = "providers" => ProvidersInv'
    <3> SUFFICES ASSUME part = "providers" PROVE ProvidersInv'
      OBVIOUS
    <3>1. ProvidersInv
      BY DEF RecordsInv
    <3>2. [Providers!Next]_(Providers!vars)
      BY Stepped
    <3> QED BY <3>1, <3>2, ProvidersStep
  <2> QED BY <2>1, <2>2, <2>3, <2>4, <2>5, <2>6, <2>7, <2>8, <2>9, <2>10, <2>11, <2>12, <2>13, <2>14, <2>15 DEF RecordsInv
<1> QED BY <1>1, <1>2, PTL DEF Spec

\* The shapes of all rows and calls: no call is at a step its kind does not have, and every
\* reference from one row to another is to one that exists or may be missing.
THEOREM RecordsTyped == Spec => []TypeOK
<1>1. RecordsInv => TypeOK
  BY WalletProperties, BrandingProperties, TelemetryProperties, GroupsProperties, PlansProperties, PricingProperties, TeamProperties, WebhooksProperties, TimersProperties, OnboardingProperties, MethodsProperties, TariffsProperties, IdentityProperties, ProvidersProperties
  DEF RecordsInv, TypeOK
<1> QED BY <1>1, RecordsInvariant, PTL

\* Whatever top-ups, debits, refunds and transfers interleave, a balance is what the
\* wallet began with and the sum of its posted rows: every transaction of
\* commerce.service.ts writes its rows with the increments they stand for.
THEOREM BalanceIsLedger == Spec => []LedgerExplainsBalance
<1>1. RecordsInv => LedgerExplainsBalance
  BY WalletProperties
  DEF RecordsInv, LedgerExplainsBalance
<1> QED BY <1>1, RecordsInvariant, PTL

\* A client's retry with the same idempotency key moves money a second time only if it
\* overlapped the first, and a top-up never: its key is unique in payment_intents.
THEOREM KeyMovesMoneyOnce == Spec => []ChargedOncePerKey
<1>1. RecordsInv => ChargedOncePerKey
  BY WalletProperties
  DEF RecordsInv, ChargedOncePerKey
<1> QED BY <1>1, RecordsInvariant, PTL

\* The balance is tested before the transaction that debits it: a wallet below zero has two
\* debits that overlapped.
THEOREM OverdrawnByOverlap == Spec => []OverdrawnByOverlapOnly
<1>1. RecordsInv => OverdrawnByOverlapOnly
  BY WalletProperties
  DEF RecordsInv, OverdrawnByOverlapOnly
<1> QED BY <1>1, RecordsInvariant, PTL

\* What is live is the branding published last, unless a save raced or discarded it; and a
\* published charge point keeps the identity that was confirmed for it, whatever it boots
\* with, unless what changed it overlapped.
THEOREM PublicationStands == Spec => []PublishedStands
<1>1. RecordsInv => PublishedStands
  BY BrandingProperties, IdentityProperties
  DEF RecordsInv, PublishedStands
<1> QED BY <1>1, RecordsInvariant, PTL

\* Ingests of webhooks, polls and status reads bring the fault rows in line with what they
\* report one call at a time: two unresolved rows of a code need an overlap, a repeated
\* code or a user; and an ingest that is alone leaves exactly its own codes unresolved,
\* whatever others left half done.
THEOREM FaultsAreReported == Spec => []FaultsFollowReports
<1>1. RecordsInv => FaultsFollowReports
  BY TelemetryProperties
  DEF RecordsInv, FaultsFollowReports
<1> QED BY <1>1, RecordsInvariant, PTL

\* The last decision on a load group is made from what the group is: withLock orders the
\* calls of one process, so only a call in another process can have come between.
THEOREM DecisionsAreCurrent == Spec => []DecisionIsCurrent
<1>1. RecordsInv => DecisionIsCurrent
  BY GroupsProperties
  DEF RecordsInv, DecisionIsCurrent
<1> QED BY <1>1, RecordsInvariant, PTL

\* Replacing what is in force is reading it and writing two rows: one is left, of load
\* groups, schedules, price versions, drafts, invitations, assignments, default payment
\* methods, tariff calendars and relationships, unless calls overlapped as each says.
THEOREM OneIsInForce == Spec => []OneInForce
<1>1. RecordsInv => OneInForce
  BY GroupsProperties, PlansProperties, PricingProperties, BrandingProperties, TeamProperties, MethodsProperties, TariffsProperties, ProvidersProperties
  DEF RecordsInv, OneInForce
<1> QED BY <1>1, RecordsInvariant, PTL

\* A member who was made INVITED has an invitation that opens the door until it expires,
\* though inviting revokes the open ones in a call of its own before it creates the next.
THEOREM InvitationsOpenTheDoor == Spec => []InvitedCanJoin
<1>1. RecordsInv => InvitedCanJoin
  BY TeamProperties
  DEF RecordsInv, InvitedCanJoin
<1> QED BY <1>1, RecordsInvariant, PTL

\* The stations of the attendant's profile are those of the assignments, which are replaced
\* first and copied after.
THEOREM AttendantsFollow == Spec => []AttendantFollows
<1>1. RecordsInv => AttendantFollows
  BY TeamProperties
  DEF RecordsInv, AttendantFollows
<1> QED BY <1>1, RecordsInvariant, PTL

\* A delivery that one sender at a time held, none of whose answers was lost, reaches the
\* hook once, is tried maxRetries + 1 times at most, and its row says so: timers of one
\* process and of several find due rows while others hold them.
THEOREM DeliveriesAreAsRecorded == Spec => []DeliveryIsAsRecorded
<1>1. RecordsInv => DeliveryIsAsRecorded
  BY WebhooksProperties, TimersProperties
  DEF RecordsInv, DeliveryIsAsRecorded
<1> QED BY <1>1, RecordsInvariant, PTL

\* An application becomes one organization of the tier that was paid or quoted for, after
\* it was approved; a relationship is approved with its documents and an approved
\* provider, and stays terminated; the exceptions are the overlaps that each names.
THEOREM GrantsAreAsDecided == Spec => []GrantedAsDecided
<1>1. RecordsInv => GrantedAsDecided
  BY OnboardingProperties, ProvidersProperties
  DEF RecordsInv, GrantedAsDecided
<1> QED BY <1>1, RecordsInvariant, PTL
=============================================================================
