------------------------- MODULE ProviderRelationships -------------------------
(***************************************************************************)
(* A battery-swap provider, its relationships with one station owner and   *)
(* the documents both need for approval: providers.service.ts,             *)
(* provider-relationships.service.ts, provider-documents.service.ts and    *)
(* provider-compliance.service.ts.                                         *)
(*                                                                         *)
(* Every query and every write is on its own, and every write is by id.    *)
(* Each scope of compliance has one critical requirement.                  *)
(***************************************************************************)
CONSTANT Calls  \* calls of the endpoints

VARIABLES
  provider,       \* its status; as history, who wrote it
  relationships,  \* rows of provider_relationships, by the call that created each
  documents,      \* rows of provider_documents, likewise; verified is status APPROVED
  vetting         \* what each call is at

vars == <<provider, relationships, documents, vetting>>

NoOne  == "none"
Stored == "stored"
Scopes == {"provider", "owner"}
Ids    == Calls \cup {Stored}

ProvidersAssumption == (Scopes \cup {NoOne, Stored}) \cap Calls = {}

ProviderStatus     == {"DRAFT", "PENDING_REVIEW", "APPROVED", "REJECTED", "SUSPENDED"}
\* nothing writes PROVIDER_ACCEPTED and ADMIN_APPROVED
RelationshipStatus == {"REQUESTED", "DOCS_PENDING", "ACTIVE", "SUSPENDED", "TERMINATED"}

Open(r) == relationships[r].status # "TERMINATED"

NoVetting == [at |-> "idle", kind |-> "none", row |-> NoOne, found |-> {}, changed |-> {}, after |-> {}]

TypeOK ==
  /\ provider \in [status : ProviderStatus, writer : Ids]
  /\ DOMAIN relationships \subseteq Ids
  /\ \A r \in DOMAIN relationships :
       relationships[r] \in [status : RelationshipStatus, writer : Ids,
                             \* history: who terminated it, who wrote over that
                             terminator : Ids \cup {NoOne}, reopener : Ids \cup {NoOne}]
  /\ DOMAIN documents \subseteq Calls \cup Scopes
  /\ \A d \in DOMAIN documents :
       documents[d] \in [scope : Scopes, verified : BOOLEAN, expired : BOOLEAN]
  /\ \A c \in Calls :
       /\ vetting[c].at \in {"idle", "find", "comply", "write", "done"}
       /\ vetting[c].found \subseteq Scopes
       /\ vetting[c].changed \subseteq Scopes

\* the provider at any stage, with a relationship once it has been approved, and with a
\* document of each scope or none
Init ==
  /\ \E status \in ProviderStatus : provider = [status |-> status, writer |-> Stored]
  /\ \/ relationships = << >>
     \/ /\ provider.status \in {"APPROVED", "SUSPENDED"}
        /\ \E status \in RelationshipStatus \ {"TERMINATED"} :
             relationships = [r \in {Stored} |-> [status |-> status, writer |-> Stored,
                                                  terminator |-> NoOne, reopener |-> NoOne]]
  /\ \E scopes \in SUBSET Scopes :
       documents \in [scopes -> [scope : Scopes, verified : BOOLEAN, expired : {FALSE}]]
  /\ \A s \in DOMAIN documents : documents[s].scope = s
  /\ vetting = [c \in Calls |-> NoVetting]

Begin(c, at, kind, row) ==
  /\ vetting[c].at = "idle"
  /\ vetting' = [vetting EXCEPT ![c] =
       [at |-> at, kind |-> kind, row |-> row, found |-> {}, changed |-> {},
        \* history: the calls that were over when this one began
        after |-> {d \in Calls : vetting[d].at = "done" /\ vetting[d].kind # "none"}]]

Goto(c, at) == vetting' = [vetting EXCEPT ![c].at = at]

\* what a call leaves behind that wrote neither row
Gone == [NoVetting EXCEPT !.at = "done"]

----------------------------------------------------------------------------
(* submitForReview, approveProvider, rejectProvider, suspendProvider *)

ProviderStep == [submit  |-> [from |-> "DRAFT",          to |-> "PENDING_REVIEW"],
                 approve |-> [from |-> "PENDING_REVIEW", to |-> "APPROVED"],
                 reject  |-> [from |-> "PENDING_REVIEW", to |-> "REJECTED"],
                 suspend |-> [from |-> "APPROVED",       to |-> "SUSPENDED"]]

ReadProvider(c) ==
  /\ \E kind \in DOMAIN ProviderStep :
       /\ provider.status = ProviderStep[kind].from
       /\ Begin(c, IF kind = "approve" THEN "comply" ELSE "write", kind, NoOne)
  /\ UNCHANGED <<provider, relationships, documents>>

WriteProvider(c) ==
  /\ vetting[c].at = "write" /\ vetting[c].kind \in DOMAIN ProviderStep
  /\ provider' = [status |-> ProviderStep[vetting[c].kind].to, writer |-> c]
  /\ Goto(c, "done")
  /\ UNCHANGED <<relationships, documents>>

----------------------------------------------------------------------------
(* getProviderComplianceStatus, getRelationshipComplianceStatus *)

\* An approved document that has expired blocks, whatever else there is.
Compliant(scope) ==
  LET verified == {d \in DOMAIN documents : documents[d].scope = scope /\ documents[d].verified}
  IN  verified # {} /\ \A d \in verified : ~ documents[d].expired

Needed(kind) == IF kind = "activate" THEN Scopes ELSE {"provider"}

\* each scope's documents are one query
CheckCompliance(c, scope) ==
  /\ vetting[c].at = "comply"
  /\ scope \in Needed(vetting[c].kind) \ vetting[c].found
  /\ LET found == vetting[c].found \cup {scope}
     IN  vetting' = [vetting EXCEPT ![c] =
           IF ~ Compliant(scope) THEN Gone
           ELSE [@ EXCEPT !.found = found,
                          !.at = IF found = Needed(vetting[c].kind) THEN "write" ELSE "comply"]]
  /\ UNCHANGED <<provider, relationships, documents>>

----------------------------------------------------------------------------
(* requestRelationship *)

ReadForRequest(c) ==
  /\ provider.status = "APPROVED"
  /\ Begin(c, "find", "request", NoOne)
  /\ UNCHANGED <<provider, relationships, documents>>

FindOpen(c) ==
  /\ vetting[c].at = "find"
  /\ vetting' = [vetting EXCEPT ![c] = IF \E r \in DOMAIN relationships : Open(r) THEN Gone
                                       ELSE [@ EXCEPT !.at = "write"]]
  /\ UNCHANGED <<provider, relationships, documents>>

CreateRelationship(c) ==
  /\ vetting[c].at = "write" /\ vetting[c].kind = "request"
  /\ relationships' = [r \in DOMAIN relationships \cup {c} |->
       IF r = c
       THEN [status |-> "REQUESTED", writer |-> c, terminator |-> NoOne, reopener |-> NoOne]
       ELSE relationships[r]]
  /\ Goto(c, "done")
  /\ UNCHANGED <<provider, documents>>

----------------------------------------------------------------------------
(* respondToRelationship, approveRelationship, suspendRelationship,         *)
(* terminateRelationship: none of them looks at the provider's status       *)

RelationshipStep ==
  [accept    |-> [from |-> {"REQUESTED"},    to |-> "DOCS_PENDING"],
   decline   |-> [from |-> {"REQUESTED"},    to |-> "TERMINATED"],
   activate  |-> [from |-> {"DOCS_PENDING"}, to |-> "ACTIVE"],
   pause     |-> [from |-> {"ACTIVE"},       to |-> "SUSPENDED"],
   terminate |-> [from |-> RelationshipStatus \ {"TERMINATED"}, to |-> "TERMINATED"]]

ReadRelationship(c) ==
  /\ \E r \in DOMAIN relationships, kind \in DOMAIN RelationshipStep :
       /\ relationships[r].status \in RelationshipStep[kind].from
       /\ Begin(c, IF kind = "activate" THEN "comply" ELSE "write", kind, r)
  /\ UNCHANGED <<provider, relationships, documents>>

WriteRelationship(c) ==
  /\ vetting[c].at = "write" /\ vetting[c].kind \in DOMAIN RelationshipStep
  /\ LET r == vetting[c].row
         to == RelationshipStep[vetting[c].kind].to
         row == relationships[r]
     IN  relationships' = [relationships EXCEPT ![r] =
           [status |-> to, writer |-> c,
            terminator |-> IF to = "TERMINATED" THEN c ELSE row.terminator,
            reopener |-> IF row.status = "TERMINATED" /\ to # "TERMINATED" THEN c ELSE row.reopener]]
  /\ Goto(c, "done")
  /\ UNCHANGED <<provider, documents>>

----------------------------------------------------------------------------
(* createDocument, uploadDocument, reviewDocument, deleteDocument *)

\* history: approvals that have begun learn of the change
Touch(scope) == [d \in Calls |-> IF vetting[d].kind \in {"approve", "activate"}
                                 THEN [vetting[d] EXCEPT !.changed = @ \cup {scope}]
                                 ELSE vetting[d]]

\* c has changed a document of the scope, by its id
ChangeDocument(c, scope) ==
  /\ vetting[c].at = "idle"
  /\ vetting' = [Touch(scope) EXCEPT ![c] = Gone]
  /\ UNCHANGED <<provider, relationships>>

UploadDocument(c) ==
  \E scope \in Scopes :
    /\ documents' = [d \in DOMAIN documents \cup {c} |->
         IF d = c THEN [scope |-> scope, verified |-> FALSE, expired |-> FALSE] ELSE documents[d]]
    /\ ChangeDocument(c, scope)

\* a document may be reviewed again, with another result
ReviewDocument(c) ==
  \E d \in DOMAIN documents, verified \in BOOLEAN :
    /\ documents' = [documents EXCEPT ![d].verified = verified]
    /\ ChangeDocument(c, documents[d].scope)

DeleteDocument(c) ==
  \E d \in DOMAIN documents :
    /\ documents' = [e \in DOMAIN documents \ {d} |-> documents[e]]
    /\ ChangeDocument(c, documents[d].scope)

\* its expiryDate passes
Expire(d) ==
  /\ ~ documents[d].expired
  /\ documents' = [documents EXCEPT ![d].expired = TRUE]
  /\ vetting' = Touch(documents[d].scope)
  /\ UNCHANGED <<provider, relationships>>

Next ==
  \/ \E c \in Calls :
       \/ ReadProvider(c) \/ WriteProvider(c)
       \/ \E scope \in Scopes : CheckCompliance(c, scope)
       \/ ReadForRequest(c) \/ FindOpen(c) \/ CreateRelationship(c)
       \/ ReadRelationship(c) \/ WriteRelationship(c)
       \/ UploadDocument(c) \/ ReviewDocument(c) \/ DeleteDocument(c)
  \/ \E d \in DOMAIN documents : Expire(d)

Spec == Init /\ [][Next]_vars

----------------------------------------------------------------------------
(* Properties *)

\* Neither was over when the other began; what is stored was there before.
Overlap(c, d) ==
  c # d /\ Stored \notin {c, d} /\ c \notin vetting[d].after /\ d \notin vetting[c].after

\* "An active or pending relationship already exists for this owner/provider pair": there is one
\* that is not terminated, unless two were requested at once or one was written over its
\* termination.
OneOpenRelationship ==
  \A r, s \in {q \in DOMAIN relationships : Open(q)} :
    \/ r = s
    \/ Overlap(r, s)
    \/ {relationships[r].reopener, relationships[s].reopener} # {NoOne}

\* A relationship that was terminated stays so, unless a call overlapped the termination.
TerminatedStays ==
  \A r \in DOMAIN relationships :
    Open(r) /\ relationships[r].reopener # NoOne =>
      Overlap(relationships[r].reopener, relationships[r].terminator)

InForce(d) == documents[d].verified /\ ~ documents[d].expired

\* Who was approved has an approved document in force, or one of the scope was uploaded,
\* reviewed, deleted or expired since the approving call began.
Vetted(c, scope) ==
  \/ c = Stored
  \/ \E d \in DOMAIN documents : documents[d].scope = scope /\ InForce(d)
  \/ scope \in vetting[c].changed

ApprovedWithDocuments ==
  /\ provider.status = "APPROVED" => Vetted(provider.writer, "provider")
  /\ \A r \in DOMAIN relationships :
       relationships[r].status = "ACTIVE" => \A s \in Scopes : Vetted(relationships[r].writer, s)

\* A provider with a relationship is approved or was suspended since, unless it was submitted
\* or rejected by a call that overlapped the request.
RelatedIsApproved ==
  \A r \in DOMAIN relationships :
    \/ provider.status \in {"APPROVED", "SUSPENDED"}
    \/ \E c \in Calls : /\ vetting[c].at = "done" /\ vetting[c].kind \in {"submit", "reject"}
                        /\ Overlap(c, r)
=============================================================================
