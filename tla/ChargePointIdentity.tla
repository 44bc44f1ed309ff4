-------------------------- MODULE ChargePointIdentity --------------------------
(***************************************************************************)
(* The identity (model, manufacturer, firmware) of the charge point with   *)
(* one OCPP id, and its publication to roaming partners:                   *)
(* station-service.service.ts and setChargePointRoamingPublication of      *)
(* ocpi.service.ts.  Boots report an identity until an operator confirms   *)
(* one, and "Identity fields are locked after publication".                *)
(*                                                                         *)
(* Every query and every write is on its own.  An identity is named by the *)
(* call that wrote it.  A point that is removed and boots again has        *)
(* another id, which is the name of the call that created it.              *)
(***************************************************************************)
CONSTANT Calls  \* boots and calls of the endpoints

VARIABLES
  point,    \* the row of charge_points with the OCPP id
  listed,   \* published locations by id; as history who published, and which identity
  identifying   \* what each call is at

vars == <<point, listed, identifying>>

NoOne  == "none"
Stored == "stored"
IdentityAssumption == {NoOne, Stored} \cap Calls = {}

Ids    == Calls \cup {Stored}
NoPoint == [id |-> NoOne, identity |-> NoOne, complete |-> FALSE, booted |-> FALSE,
            confirmer |-> NoOne, writer |-> NoOne]
NoWork  == [at |-> "idle", kind |-> "none", seen |-> NoPoint, listed |-> FALSE, after |-> {}]

Confirmed(p) == p.confirmer # NoOne

Points == [id : Ids \cup {NoOne}, identity : Ids \cup {NoOne}, complete : BOOLEAN, booted : BOOLEAN,
           \* who confirmed the identity; history: who wrote it last
           confirmer : Ids \cup {NoOne}, writer : Ids \cup {NoOne}]

TypeOK ==
  /\ point \in Points
  /\ DOMAIN listed \subseteq Ids
  /\ \A i \in DOMAIN listed : listed[i] \in [by : Ids, identity : Ids]
  /\ \A c \in Calls :
       /\ identifying[c].at \in {"idle", "find", "write", "done"}
       /\ identifying[c].kind \in {"none", "boot", "create", "update", "confirm", "publish", "unpublish", "remove"}
       /\ identifying[c].seen \in Points

\* no such point, or one that is registered, booted, confirmed or published
Init ==
  /\ \/ point = NoPoint
     \/ \E complete, booted \in BOOLEAN, confirmer \in {NoOne, Stored} :
          /\ confirmer = Stored => complete
          /\ point = [id |-> Stored, identity |-> Stored, complete |-> complete, booted |-> booted,
                      confirmer |-> confirmer, writer |-> Stored]
  /\ \/ listed = << >>
     \/ /\ Confirmed(point) /\ point.booted
        /\ listed = [i \in {Stored} |-> [by |-> Stored, identity |-> Stored]]
  /\ identifying = [c \in Calls |-> NoWork]

Begin(c, at, kind) ==
  /\ identifying[c].at = "idle"
  /\ identifying' = [identifying EXCEPT ![c] =
       [at |-> at, kind |-> kind, seen |-> point, listed |-> FALSE,
        \* history: the calls that were over when this one began
        after |-> {d \in Calls : identifying[d].at = "done"}]]

Done(c) == identifying' = [identifying EXCEPT ![c].at = "done"]

At(c, at, kind) == identifying[c].at = at /\ identifying[c].kind = kind

\* The row that the call read is still there; a write by its id fails otherwise.
StillThere(c) == point.id = identifying[c].seen.id

Exists == point.id # NoOne
Published == point.id \in DOMAIN listed

----------------------------------------------------------------------------
(* handleBootNotification, createChargePoint *)

ReadForBoot(c) == Begin(c, "write", "boot") /\ UNCHANGED <<point, listed>>

\* What a boot writes for an identity: what it reports, and what it read where it
\* reports nothing; if the identity was confirmed when it was read, nothing.
Identity(c, reported) ==
  [identity |-> IF reported THEN c ELSE identifying[c].seen.identity,
   known |-> ~ Confirmed(identifying[c].seen)]

New(c, complete, booted) ==
  [id |-> c, identity |-> c, complete |-> complete, booted |-> booted, confirmer |-> NoOne,
   writer |-> c]

\* the OCPP id is unique
CreateOnBoot(c) ==
  /\ At(c, "write", "boot") /\ identifying[c].seen = NoPoint
  /\ \E complete \in BOOLEAN : point' = IF Exists THEN point ELSE New(c, complete, TRUE)
  /\ Done(c)
  /\ UNCHANGED listed

UpdateOnBoot(c) ==
  /\ At(c, "write", "boot") /\ identifying[c].seen # NoPoint
  /\ \E reported, filled \in BOOLEAN :
       LET written == Identity(c, reported)
           seen == identifying[c].seen
       IN  point' = IF ~ StillThere(c) THEN point
                    ELSE IF written.known
                    THEN [point EXCEPT !.booted = TRUE, !.identity = written.identity, !.writer = c,
                                       !.complete = seen.complete \/ (reported /\ filled)]
                    ELSE [point EXCEPT !.booted = TRUE]
  /\ Done(c)
  /\ UNCHANGED listed

CreatePoint(c) ==
  /\ Begin(c, "done", "create")
  /\ ~ Exists
  /\ \E complete \in BOOLEAN : point' = New(c, complete, FALSE)
  /\ UNCHANGED listed

----------------------------------------------------------------------------
(* updateChargePoint, confirmChargePointIdentity: allowed while not published *)

ReadUnpublished(c) ==
  /\ Exists /\ ~ Published
  /\ \E kind \in {"update", "confirm"} : Begin(c, "write", kind)
  /\ UNCHANGED <<point, listed>>

\* an update may empty a field
UpdateIdentity(c) ==
  /\ At(c, "write", "update")
  /\ \E complete \in BOOLEAN :
       point' = IF StillThere(c) THEN [point EXCEPT !.identity = c, !.complete = complete, !.writer = c] ELSE point
  /\ Done(c)
  /\ UNCHANGED listed

ConfirmIdentity(c) ==
  /\ At(c, "write", "confirm")
  /\ point' = IF StillThere(c)
              THEN [point EXCEPT !.identity = c, !.complete = TRUE, !.confirmer = c, !.writer = c]
              ELSE point
  /\ Done(c)
  /\ UNCHANGED listed

----------------------------------------------------------------------------
(* setChargePointPublication, removeChargePoint *)

\* assertPublishPreconditions
Publishable(p) == p.booted /\ Confirmed(p) /\ p.complete

ReadForPublication(c) ==
  /\ Exists
  /\ \/ Publishable(point) /\ Begin(c, "find", "publish")
     \/ Begin(c, "write", "unpublish")
     \/ Begin(c, "write", "remove")
  /\ UNCHANGED <<point, listed>>

\* the point is read once more, and is not found if it was removed
FindListing(c) ==
  /\ At(c, "find", "publish")
  /\ identifying' = [identifying EXCEPT ![c].at = IF StillThere(c) THEN "write" ELSE "done",
                                        ![c].listed = identifying[c].seen.id \in DOMAIN listed]
  /\ UNCHANGED <<point, listed>>

\* An update of a location that is gone fails, and so does the insert of a second one.
\* The point itself is not looked at any more.
Publish(c) ==
  /\ At(c, "write", "publish")
  /\ LET i == identifying[c].seen.id
     IN  listed' = IF identifying[c].listed \/ i \in DOMAIN listed THEN listed
                   ELSE [j \in DOMAIN listed \cup {i} |->
                     IF j = i THEN [by |-> c, identity |-> IF StillThere(c) THEN point.identity ELSE c]
                     ELSE listed[j]]
  /\ Done(c)
  /\ UNCHANGED point

Unpublish(c) ==
  /\ At(c, "write", "unpublish")
  /\ listed' = [i \in DOMAIN listed \ {identifying[c].seen.id} |-> listed[i]]
  /\ Done(c)
  /\ UNCHANGED point

\* its location stays published
Remove(c) ==
  /\ At(c, "write", "remove")
  /\ point' = IF StillThere(c) THEN NoPoint ELSE point
  /\ Done(c)
  /\ UNCHANGED listed

Next ==
  \E c \in Calls :
    \/ ReadForBoot(c) \/ CreateOnBoot(c) \/ UpdateOnBoot(c) \/ CreatePoint(c)
    \/ ReadUnpublished(c) \/ UpdateIdentity(c) \/ ConfirmIdentity(c)
    \/ ReadForPublication(c) \/ FindListing(c) \/ Publish(c) \/ Unpublish(c) \/ Remove(c)

Spec == Init /\ [][Next]_vars

----------------------------------------------------------------------------
(* Properties *)

\* Neither was over when the other began; what is stored was there before.
Overlap(c, d) ==
  c # d /\ Stored \notin {c, d} /\ c \notin identifying[d].after /\ d \notin identifying[c].after

\* "Identity fields are locked after publication": a published point has the identity it
\* was published with, unless what changed it overlapped the publication.
LockedWhilePublished ==
  Published =>
    \/ point.identity = listed[point.id].identity
    \/ Overlap(point.writer, listed[point.id].by)

\* A published point has booted and its identity is confirmed, and complete unless an
\* update overlapped the publication.
PublishedIsConfirmed ==
  Published =>
    /\ point.booted /\ Confirmed(point)
    /\ point.complete \/ Overlap(point.writer, listed[point.id].by)

\* The identity of a confirmed point was not written by a boot, unless the boot overlapped the
\* confirmation.
BootKeepsConfirmed ==
  Confirmed(point) /\ point.writer # Stored /\ identifying[point.writer].kind = "boot" =>
    Overlap(point.writer, point.confirmer)
=============================================================================
