---------------------------- MODULE TeamMembership ----------------------------
(***************************************************************************)
(* One person's membership of one organization in auth-service.service.ts: *)
(* invitations, their acceptance and the login that activates one, what    *)
(* team managers change, the stations the member is assigned to and the    *)
(* attendant's copy of those (attendant_assignments).                      *)
(*                                                                         *)
(* Queries are steps of their own and a transaction's writes are one step, *)
(* its commit (READ COMMITTED).  What a role allows, e-mails and audit     *)
(* rows are left out.                                                      *)
(***************************************************************************)
CONSTANTS
  Calls,    \* calls of the endpoints; an invitation has the name of the call that sent it
  Stations  \* stations of the organization

VARIABLES
  user,         \* users.status, or NoOne before there is a user
  member,       \* the membership: its status and, as history, who wrote it
  invitations,  \* rows of user_invitations
  assigned,     \* the active rows of station_team_assignments
  attendant,    \* stations with an active row of attendant_assignments
  unsynced,     \* history: a change of role took assignments away since the last sync
  calls         \* what each call is at

vars == <<user, member, invitations, assigned, attendant, unsynced, calls>>

NoOne == "none"
NoCall == [at |-> "idle", invitation |-> NoOne, user |-> NoOne, seen |-> {}, after |-> {}]

UserStatuses == {"Invited", "Active", "Suspended"}  \* "Pending" counts as "Invited"
MembershipStatuses == {"INVITED", "ACTIVE", "SUSPENDED", "REVOKED"}
Assignments == [by : Calls, station : Stations, isAttendant : BOOLEAN]

TypeOK ==
  /\ user \in UserStatuses \cup {NoOne}
  /\ member \in [status : MembershipStatuses \cup {NoOne}, by : Calls \cup {NoOne}]
  /\ user = NoOne => member.status = NoOne
  /\ DOMAIN invitations \subseteq Calls
  /\ \A i \in DOMAIN invitations :
       /\ invitations[i].status \in {"PENDING", "ACCEPTED", "ACTIVATED", "REVOKED"}
       /\ invitations[i].expired \in BOOLEAN
       /\ invitations[i].seeds \subseteq Stations
  /\ assigned \subseteq Assignments
  /\ attendant \subseteq Stations
  /\ unsynced \in BOOLEAN
  /\ \A c \in Calls :
       calls[c].at \in {"idle", "revoke", "create", "accept", "seeds", "activate", "replace", "done", "dead"}

Init ==
  /\ user \in {NoOne, "Active"}
  /\ \E status \in {NoOne, "ACTIVE", "SUSPENDED"} :
       /\ status # NoOne => user = "Active"
       /\ member = [status |-> status, by |-> NoOne]
  /\ invitations = << >>
  /\ assigned = {} /\ attendant = {}
  /\ unsynced = FALSE
  /\ calls = [c \in Calls |-> NoCall]

Over(c) == calls[c].at \in {"done", "dead"}

Begin(c, at, invitation, seen) ==
  /\ calls[c].at = "idle"
  /\ calls' = [calls EXCEPT ![c] =
       [at |-> at, invitation |-> invitation, user |-> user, seen |-> seen,
        \* history: the calls that were over when this one began
        after |-> {d \in Calls : Over(d)}]]

Goto(c, at) == calls' = [calls EXCEPT ![c].at = at]

WriteMember(c, status) == member' = [status |-> status, by |-> c]

IsOpen(i) == invitations[i].status \in {"PENDING", "ACCEPTED"}

----------------------------------------------------------------------------
(* inviteUser *)

\* an active member cannot be invited
ReadInvitee(c) ==
  /\ Begin(c, IF member.status = "ACTIVE" THEN "done" ELSE "revoke", NoOne, {})
  /\ UNCHANGED <<user, member, invitations, assigned, attendant, unsynced>>

\* the open ones are revoked, in no transaction with the new one
RevokeOpen(c) ==
  /\ calls[c].at = "revoke"
  /\ invitations' = [i \in DOMAIN invitations |->
       IF IsOpen(i) THEN [invitations[i] EXCEPT !.status = "REVOKED", !.by = c] ELSE invitations[i]]
  /\ Goto(c, "create")
  /\ UNCHANGED <<user, member, assigned, attendant, unsynced>>

\* mutant of CreateInvitation: an existing user's membership is not written
InviteNewOnly(c) ==
  /\ calls[c].at = "create"
  /\ calls[c].user = NoOne => user = NoOne
  /\ user' = IF user = NoOne THEN "Invited" ELSE user
  /\ IF user = NoOne THEN WriteMember(c, "INVITED") ELSE UNCHANGED member
  /\ \E seeds \in SUBSET Stations :
       invitations' = [i \in DOMAIN invitations \cup {c} |->
         IF i = c THEN [status |-> "PENDING", expired |-> FALSE, seeds |-> seeds, by |-> c]
         ELSE invitations[i]]
  /\ Goto(c, "done")
  /\ UNCHANGED <<assigned, attendant, unsynced>>

\* The transaction creates the user, if the call found none (users.email is unique: it
\* fails when another has meanwhile), and makes the membership one of an invited member,
\* whatever it is by now.
CreateInvitation(c) ==
  /\ calls[c].at = "create"
  /\ calls[c].user = NoOne => user = NoOne
  /\ user' = IF user = NoOne THEN "Invited" ELSE user
  /\ WriteMember(c, "INVITED")
  /\ \E seeds \in SUBSET Stations :
       invitations' = [i \in DOMAIN invitations \cup {c} |->
         IF i = c THEN [status |-> "PENDING", expired |-> FALSE, seeds |-> seeds, by |-> c]
         ELSE invitations[i]]
  /\ Goto(c, "done")
  /\ UNCHANGED <<assigned, attendant, unsynced>>

\* expiresAt passes.  The status EXPIRED is written in transactions that then throw, so
\* it is never kept.
Expire(i) ==
  /\ invitations' = [invitations EXCEPT ![i].expired = TRUE]
  /\ UNCHANGED <<user, member, assigned, attendant, unsynced, calls>>

\* resolveInvitationByToken lets it pass
Usable(i) == IsOpen(i) /\ ~ invitations[i].expired

----------------------------------------------------------------------------
(* acceptInvitationToken *)

ReadForAccept(c) ==
  /\ \E i \in DOMAIN invitations :
       Begin(c, IF Usable(i) /\ invitations[i].status = "PENDING" THEN "accept" ELSE "done", i, {})
  /\ UNCHANGED <<user, member, invitations, assigned, attendant, unsynced>>

\* by id: an invitation that was revoked or used meanwhile is open again
WriteAccepted(c) ==
  /\ calls[c].at = "accept"
  /\ invitations' = [invitations EXCEPT ![calls[c].invitation] =
       [@ EXCEPT !.status = "ACCEPTED", !.by = c]]
  /\ Goto(c, "done")
  /\ UNCHANGED <<user, member, assigned, attendant, unsynced>>

----------------------------------------------------------------------------
(* login with an invitation's token: activateInvitationOnLogin *)

ReadForActivation(c) ==
  /\ \E i \in DOMAIN invitations :
       /\ Usable(i)
       /\ Begin(c, IF invitations[i].seeds = {} THEN "activate" ELSE "seeds", i, {})
  /\ UNCHANGED <<user, member, invitations, assigned, attendant, unsynced>>

\* the assignments of the stations that the invitation names, which updateMany will end
SeeSeeded(c) ==
  /\ calls[c].at = "seeds"
  /\ calls' = [calls EXCEPT ![c].at = "activate",
       ![c].seen = {a \in assigned : a.station \in invitations[calls[c].invitation].seeds}]
  /\ UNCHANGED <<user, member, invitations, assigned, attendant, unsynced>>

AttendantStations(rows) == {a.station : a \in {r \in rows : r.isAttendant}}

\* mutant of Sync: rows of stations that are gone are not ended
SyncAddsOnly ==
  /\ attendant' = attendant \cup AttendantStations(assigned')
  /\ unsynced' = FALSE

\* syncAttendantProjectionForUser.  Both transactions that call it have written the user's
\* row before, as a change of role has: what it reads is what it commits upon.
Sync == attendant' = AttendantStations(assigned') /\ unsynced' = FALSE

Assign(c, rows) ==
  /\ assigned' = (assigned \ calls[c].seen) \cup rows
  /\ Sync

CommitActivation(c) ==
  /\ calls[c].at = "activate"
  /\ LET i == calls[c].invitation
         seeds == invitations[i].seeds
     IN  /\ invitations' = [invitations EXCEPT ![i] = [@ EXCEPT !.status = "ACTIVATED", !.by = c]]
         /\ IF seeds = {} THEN UNCHANGED <<assigned, attendant, unsynced>>
            ELSE \E isAttendant \in BOOLEAN :
                   Assign(c, [by : {c}, station : seeds, isAttendant : {isAttendant}])
  /\ WriteMember(c, "ACTIVE")
  /\ user' = IF calls[c].user = "Invited" THEN "Active" ELSE user
  /\ Goto(c, "done")

----------------------------------------------------------------------------
(* Team managers *)

\* the rows another call's transaction has locked
Locked == UNION {calls[d].seen : d \in {e \in Calls : calls[e].at \in {"activate", "replace"}}}

\* updateTeamMember's status, written to the user and the membership
MembershipOf == [Active |-> "ACTIVE", Invited |-> "INVITED", Suspended |-> "SUSPENDED"]

\* updateTeamMember: a status, a role or both; a role that needs no stations ends the
\* assignments, and their copy for the attendant is not told
UpdateTeamMember(c) ==
  /\ user # NoOne
  /\ \E status \in UserStatuses \cup {NoOne}, endsAssignments \in BOOLEAN :
       /\ status # NoOne \/ endsAssignments
       /\ IF status = NoOne THEN UNCHANGED <<user, member>>
          ELSE /\ user' = status
               /\ IF member.status = NoOne THEN UNCHANGED member
                  ELSE WriteMember(c, MembershipOf[status])
       /\ IF endsAssignments
          THEN /\ assigned \cap Locked = {}
               /\ assigned' = {}
               /\ unsynced' = (unsynced \/ AttendantStations(assigned) # {})
          ELSE UNCHANGED <<assigned, unsynced>>
  /\ Begin(c, "done", NoOne, {})
  /\ UNCHANGED <<invitations, attendant>>

\* assignMembership of tenant-rbac writes the membership alone
AssignMembership(c) ==
  /\ user # NoOne
  /\ \E status \in MembershipStatuses : WriteMember(c, status)
  /\ Begin(c, "done", NoOne, {})
  /\ UNCHANGED <<user, invitations, assigned, attendant, unsynced>>

\* replaceTeamAssignments: updateMany ends what is active when it starts ...
SeeAssignments(c) ==
  /\ member.status # NoOne
  /\ Begin(c, "replace", NoOne, assigned)
  /\ UNCHANGED <<user, member, invitations, assigned, attendant, unsynced>>

\* ... and the commit brings the new ones, at most one of them active for each station
ReplaceAssignments(c) ==
  /\ calls[c].at = "replace"
  /\ \E stations \in SUBSET Stations, isAttendant \in BOOLEAN :
       Assign(c, [by : {c}, station : stations, isAttendant : {isAttendant}])
  /\ Goto(c, "done")
  /\ UNCHANGED <<user, member, invitations>>

\* a call fails, its process dies or the database breaks a deadlock: an open
\* transaction is undone, what was written before stays
Die(c) ==
  /\ calls[c].at # "idle" /\ ~ Over(c)
  /\ Goto(c, "dead")
  /\ UNCHANGED <<user, member, invitations, assigned, attendant, unsynced>>

Next ==
  \/ \E c \in Calls :
       \/ ReadInvitee(c) \/ RevokeOpen(c) \/ CreateInvitation(c)
       \/ ReadForAccept(c) \/ WriteAccepted(c)
       \/ ReadForActivation(c) \/ SeeSeeded(c) \/ CommitActivation(c)
       \/ UpdateTeamMember(c) \/ AssignMembership(c)
       \/ SeeAssignments(c) \/ ReplaceAssignments(c)
       \/ Die(c)
  \/ \E i \in DOMAIN invitations : Expire(i)

Spec == Init /\ [][Next]_vars

----------------------------------------------------------------------------
(* Properties *)

\* Neither was over when the other began.
Overlap(c, d) == c \notin calls[d].after /\ d \notin calls[c].after

\* Two invitations are open only if they were sent at the same time, or one was accepted
\* while the other revoked it.
OneOpenInvitation ==
  \A i, j \in DOMAIN invitations :
    i # j /\ IsOpen(i) /\ IsOpen(j) =>
      \/ Overlap(i, j)
      \/ Overlap(i, invitations[j].by) \/ Overlap(j, invitations[i].by)

\* Two assignments of a member to one station are active only if they were written at
\* the same time.
OneAssignment ==
  \A a, b \in assigned : a.station = b.station /\ a # b => a.by # b.by /\ Overlap(a.by, b.by)

\* A member whom an invitation made INVITED can join with it until it expires, unless the
\* call that revoked it has not created its own or died before.
InvitedCanJoin ==
  LET i == member.by
  IN  member.status = "INVITED" /\ i \in DOMAIN invitations =>
        \/ Usable(i)
        \/ IsOpen(i) /\ invitations[i].expired
        \/ calls[invitations[i].by].at \in {"create", "dead"}

\* The attendant's stations are those the member is assigned to as an attendant, unless
\* a change of role took assignments away.
AttendantFollows == unsynced \/ attendant = AttendantStations(assigned)
=============================================================================
