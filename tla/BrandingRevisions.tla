-------------------------- MODULE BrandingRevisions --------------------------
(***************************************************************************)
(* The branding of one tenant in tenant-branding.service.ts: a draft is    *)
(* saved, published and rolled back, and what is live is written to the    *)
(* tenant's organization.                                                  *)
(*                                                                         *)
(* Each call is one transaction in READ COMMITTED: every query sees what   *)
(* is committed when it runs, so a query is a step, and the writes at the  *)
(* end, which wait for each other's row locks, are one.  A configuration   *)
(* is named by the call that saved it.                                     *)
(***************************************************************************)
EXTENDS Naturals, FiniteSetsExt

CONSTANT Editors  \* calls of the endpoints

VARIABLES
  live,       \* the configuration on the organization
  revisions,  \* rows of tenant_branding_revisions, each by the call that created it
  written,    \* number of writes so far, the clock of updatedAt and publishedAt
  edits       \* what each call is at

vars == <<live, revisions, written, edits>>

Default == "default"
NoRow   == "none"

BrandingAssumption == NoRow \notin Editors

TypeOK ==
  /\ live \in Editors \cup {Default}
  /\ DOMAIN revisions \subseteq Editors
  /\ \A r \in DOMAIN revisions :
       /\ revisions[r].version \in Nat \ {0}
       /\ revisions[r].status \in {"DRAFT", "PUBLISHED", "ROLLED_BACK"}
       /\ revisions[r].config \in Editors
       /\ revisions[r].publishedAt \in 0..written
       /\ (revisions[r].status = "DRAFT") = (revisions[r].publishedAt = 0)
  \* versions are unique
  /\ \A r, s \in DOMAIN revisions : revisions[r].version = revisions[s].version => r = s
  /\ \A c \in Editors : edits[c].at \in {"idle", "latest", "write", "done"}

NoEdit == [at |-> "idle", kind |-> "none", row |-> NoRow, config |-> Default,
           stale |-> {}, latest |-> 0, after |-> {}]

Init ==
  /\ live = Default
  /\ revisions = << >>
  /\ written = 0
  /\ edits = [c \in Editors |-> NoEdit]

Drafts == {r \in DOMAIN revisions : revisions[r].status = "DRAFT"}
Published == DOMAIN revisions \ Drafts

\* orderBy updatedAt desc; NoRow if there is none
NewestDraft ==
  IF Drafts = {} THEN NoRow
  ELSE CHOOSE r \in Drafts : \A s \in Drafts : revisions[s].updatedAt <= revisions[r].updatedAt

LatestVersion == Max({0} \cup {revisions[r].version : r \in DOMAIN revisions})

Begin(c, kind, at, row, config) ==
  /\ edits[c].at = "idle"
  /\ edits' = [edits EXCEPT ![c] =
       [NoEdit EXCEPT !.at = at, !.kind = kind, !.row = row, !.config = config,
                      !.stale = IF kind = "save" THEN Drafts \ {row} ELSE {},
                      \* history: the calls that were done when this one began
                      !.after = {d \in Editors : edits[d].at = "done"}]]
  /\ UNCHANGED <<live, revisions, written>>

\* saveDraft's first query: the newest draft and the stale ones
ReadDrafts(c) == Begin(c, "save", "latest", NewestDraft, c)

\* publishDraft reads the draft, or throws if there is none
ReadDraft(c) ==
  IF NewestDraft = NoRow THEN Begin(c, "publish", "done", NoRow, Default)
  ELSE Begin(c, "publish", "write", NewestDraft, revisions[NewestDraft].config)

\* rollback reads the revision to go back to
ReadTarget(c) ==
  \E r \in Published : Begin(c, "rollback", "latest", r, revisions[r].config)

ReadLatest(c) ==
  /\ edits[c].at = "latest"
  /\ edits' = [edits EXCEPT ![c].latest = LatestVersion, ![c].at = "write"]
  /\ UNCHANGED <<live, revisions, written>>

Writes(c, kind) ==
  /\ edits[c].at = "write" /\ edits[c].kind = kind
  /\ edits' = [edits EXCEPT ![c].at = "done"]

\* the unique index (organizationId, version) refuses the row
Taken(version) == \E r \in DOMAIN revisions : revisions[r].version = version

Insert(c, status, config, publishedAt) ==
  /\ revisions' = [r \in DOMAIN revisions \cup {c} |->
       IF r = c THEN [version |-> edits[c].latest + 1, status |-> status, config |-> config,
                      updatedAt |-> written + 1, publishedAt |-> publishedAt, publisher |-> c]
       ELSE revisions[r]]
  /\ written' = written + 1

\* The draft that was read is overwritten by id, whatever has become of it; a draft
\* that is gone, or a version that is taken, aborts the transaction.
SaveDraft(c) ==
  /\ Writes(c, "save")
  /\ LET draft == edits[c].row
     IN  CASE draft = NoRow /\ ~ Taken(edits[c].latest + 1) -> Insert(c, "DRAFT", c, 0)
           [] draft \in DOMAIN revisions ->
                /\ revisions' = [r \in DOMAIN revisions \ edits[c].stale |->
                     IF r = draft THEN [revisions[r] EXCEPT !.config = c, !.updatedAt = written + 1]
                     ELSE revisions[r]]
                /\ written' = written + 1
           [] OTHER -> UNCHANGED <<revisions, written>>
  /\ UNCHANGED live

\* The draft that was read goes live and becomes a revision, its configuration
\* written back with it.
PublishDraft(c) ==
  /\ Writes(c, "publish")
  /\ LET e == edits[c]
     IN  IF e.row \notin DOMAIN revisions THEN UNCHANGED <<live, revisions, written>>
         ELSE /\ live' = e.config
              /\ revisions' = [revisions EXCEPT ![e.row] =
                   [@ EXCEPT !.status = "PUBLISHED", !.config = e.config,
                             !.updatedAt = written + 1, !.publishedAt = written + 1,
                             !.publisher = c]]
              /\ written' = written + 1

\* mutant of Rollback: the new revision repeats what was live
RollbackRecordsLive(c) ==
  /\ Writes(c, "rollback")
  /\ IF Taken(edits[c].latest + 1) THEN UNCHANGED <<live, revisions, written>>
     ELSE live' = edits[c].config /\ Insert(c, "ROLLED_BACK", live, written + 1)

\* What a revision held goes live again, as a new revision.
Rollback(c) ==
  /\ Writes(c, "rollback")
  /\ IF Taken(edits[c].latest + 1) THEN UNCHANGED <<live, revisions, written>>
     ELSE live' = edits[c].config /\ Insert(c, "ROLLED_BACK", edits[c].config, written + 1)

Next ==
  \E c \in Editors :
    \/ ReadDrafts(c) \/ ReadLatest(c) \/ SaveDraft(c)
    \/ ReadDraft(c) \/ PublishDraft(c)
    \/ ReadTarget(c) \/ Rollback(c)

Spec == Init /\ [][Next]_vars

----------------------------------------------------------------------------
(* Properties *)

\* Neither was done when the other began.
Overlap(c, d) == c \notin edits[d].after /\ d \notin edits[c].after

\* The save c, which had read the draft that p published as a stale one, has deleted it.
Discarded(c, p) ==
  /\ edits[p].kind = "publish"
  /\ edits[p].row \in edits[c].stale \ DOMAIN revisions
  /\ Overlap(c, p)

\* What is live is what the revision published last says, and can so be rolled back
\* to, unless a save that had read the draft before its publication wrote it after, or
\* deleted it as a stale one.
LiveIsLastPublished ==
  \A r \in Published :
    (\A s \in Published : revisions[s].publishedAt <= revisions[r].publishedAt) =>
      \/ live = revisions[r].config
      \/ Overlap(revisions[r].config, revisions[r].publisher)
      \/ \E c, p \in Editors : Discarded(c, p) /\ edits[p].config = live

\* Of two drafts, of which publishDraft knows only the newer, the saves overlapped.
OneDraft == \A r, s \in Drafts : r = s \/ Overlap(r, s)
=============================================================================
