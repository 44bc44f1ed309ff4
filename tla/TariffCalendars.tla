---------------------------- MODULE TariffCalendars ----------------------------
(***************************************************************************)
(* The tariff calendars of one tenant in tariffs.service.ts.  A calendar   *)
(* is made active in one statement and the others of its site are made     *)
(* drafts in the next (ensureSingleActiveCalendar), in no transaction.     *)
(* Prices and dates are left out.                                          *)
(***************************************************************************)
CONSTANTS
  Calls,   \* calls of the endpoints; a calendar has the name of the call that creates it
  Stored,  \* calendars there are before
  Sites

VARIABLES
  calendars,  \* tariff_calendars
  tariffing,  \* what each call is at
  served      \* history: the sites whose latest change leaves them an active calendar

vars == <<calendars, tariffing, served>>

NoOne == "none"
Statuses == {"DRAFT", "ACTIVE", "ARCHIVED"}
NoTariff == [at |-> "idle", calendar |-> NoOne, active |-> FALSE, site |-> NoOne, after |-> {}]

TypeOK ==
  /\ DOMAIN calendars \subseteq Stored \cup Calls
  /\ \A k \in DOMAIN calendars : calendars[k] \in [status : Statuses, site : Sites]
  /\ \A c \in Calls : /\ tariffing[c].at \in {"idle", "update", "single", "done", "dead"}
                      /\ tariffing[c].site \in Sites \cup {NoOne}
  /\ served \subseteq Sites

\* a calendar is active
Init ==
  /\ \E k \in Stored, s \in Sites :
       /\ calendars = [l \in Stored |-> [status |-> IF l = k THEN "ACTIVE" ELSE "DRAFT", site |-> s]]
       /\ served = {s}
  /\ tariffing = [c \in Calls |-> NoTariff]

Over(c) == tariffing[c].at \in {"done", "dead"}

Begin(c, at, k, active, site) ==
  /\ tariffing[c].at = "idle"
  /\ tariffing' = [tariffing EXCEPT ![c] =
       [at |-> at, calendar |-> k, active |-> active, site |-> site,
        \* history: the calls that were over when this one began
        after |-> {d \in Calls : Over(d)}]]

IsActive(k) == k \in DOMAIN calendars /\ calendars[k].status = "ACTIVE"

\* history: k leaves its site and is written to another or the same
Serve(k) == served' =
  (IF IsActive(k) THEN served \ {calendars[k].site} ELSE served) \cup
  (IF calendars'[k].status = "ACTIVE" THEN {calendars'[k].site} ELSE {})

\* after the statement that wrote the calendar, if it is taken for active
Then(active) == IF active THEN "single" ELSE "done"

CreateCalendar(c) ==
  \E status \in Statuses, s \in Sites :
    /\ Begin(c, Then(status = "ACTIVE"), c, TRUE, s)
    /\ calendars' = [k \in DOMAIN calendars \cup {c} |->
         IF k = c THEN [status |-> status, site |-> s] ELSE calendars[k]]
    /\ Serve(c)

\* the look-up before has no bearing: calendars are not deleted
ActivateCalendar(c) ==
  \E k \in DOMAIN calendars :
    /\ Begin(c, "single", k, TRUE, calendars[k].site)
    /\ calendars' = [calendars EXCEPT ![k].status = "ACTIVE"]
    /\ Serve(k)

ArchiveCalendar(c) ==
  \E k \in DOMAIN calendars :
    /\ Begin(c, "done", k, FALSE, calendars[k].site)
    /\ calendars' = [calendars EXCEPT ![k].status = "ARCHIVED"]
    /\ Serve(k)

ReadCalendar(c) ==
  /\ \E k \in DOMAIN calendars : Begin(c, "update", k, calendars[k].status = "ACTIVE", NoOne)
  /\ UNCHANGED <<calendars, served>>

\* the others of the site it is moved to give way if it is made active, or was when read
UpdateCalendar(c) ==
  /\ tariffing[c].at = "update"
  /\ \E status \in Statuses \cup {NoOne}, s \in Sites :
       LET k == tariffing[c].calendar
       IN  /\ calendars' = [calendars EXCEPT ![k] =
                [status |-> IF status = NoOne THEN @.status ELSE status, site |-> s]]
           /\ tariffing' = [tariffing EXCEPT ![c].site = s, ![c].at =
                Then(IF status = NoOne THEN tariffing[c].active ELSE status = "ACTIVE")]
           /\ Serve(k)

\* one updateMany, of what is active by now
DemoteOthers(c) ==
  /\ tariffing[c].at = "single"
  /\ calendars' = [k \in DOMAIN calendars |->
       IF /\ k # tariffing[c].calendar
          /\ calendars[k].site = tariffing[c].site /\ calendars[k].status = "ACTIVE"
       THEN [calendars[k] EXCEPT !.status = "DRAFT"] ELSE calendars[k]]
  /\ tariffing' = [tariffing EXCEPT ![c].at = "done"]
  /\ UNCHANGED served

\* the process dies between the two statements
Die(c) ==
  /\ tariffing[c].at \in {"update", "single"}
  /\ tariffing' = [tariffing EXCEPT ![c].at = "dead"]
  /\ UNCHANGED <<calendars, served>>

Next ==
  \E c \in Calls :
    \/ CreateCalendar(c) \/ ActivateCalendar(c) \/ ArchiveCalendar(c)
    \/ ReadCalendar(c) \/ UpdateCalendar(c) \/ DemoteOthers(c) \/ Die(c)

Spec == Init /\ [][Next]_vars

----------------------------------------------------------------------------
(* Properties *)

\* Neither was over when the other began.
Overlap(c, d) == c # d /\ c \notin tariffing[d].after /\ d \notin tariffing[c].after

Begun == {c \in Calls : tariffing[c].at # "idle"}

\* A site has two active calendars only while a call is between its two statements, when it
\* died there, or after an update whose calendar another call made active since it was read.
OneActiveCalendar ==
  \A k, l \in DOMAIN calendars :
    /\ k # l /\ calendars[k].site = calendars[l].site
    /\ calendars[k].status = "ACTIVE" /\ calendars[l].status = "ACTIVE"
    => \E c \in Begun :
         \/ tariffing[c].at \in {"single", "dead"}
         \/ tariffing[c].calendar \in {k, l} /\ \E d \in Begun : Overlap(c, d)

\* A site that was given an active calendar has one until a call takes it away on purpose,
\* unless calls overlapped, each of which may then make the other's a draft.
ActiveIsKept ==
  \A s \in served :
    \/ \E k \in DOMAIN calendars : calendars[k].site = s /\ IsActive(k)
    \/ \E c, d \in Begun : Overlap(c, d)
=============================================================================
